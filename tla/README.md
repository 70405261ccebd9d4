# TecnicoFS in TLA+

TLA+ models, TLC runs and TLAPS proofs of the two exercises of this repository:
`tecnicofs_ex2` (a file system under a global lock, a server that shares it over
named pipes, and the client library) and `tecnicofs_ex1` (the same file system
with read-write locks and files of several blocks).

## The system

| Part | State it keeps | Operations | What is hard | What makes it correct |
|---|---|---|---|---|
| ex2 tables (`fs/state.c`) | i-nodes, data blocks, the root directory, open-file table, each with its allocation table | create and delete an i-node, allocate and free a block, add and find a directory entry, take and release a handle | tables that fill up; undoing half a creation | a block has one owner, directory and i-nodes agree, handles name files that exist |
| ex2 operations (`fs/operations.c`) | the tables, `number_open_files`, two mutexes and a condition | `tfs_open`, `tfs_close`, `tfs_write`, `tfs_read`, `tfs_lookup`, `tfs_destroy_after_all_closed` | open and close change the handle table and the counter in two critical sections; several shutdowns may wait on the counter, and a signal wakes one; handles are not tested; unsigned arithmetic | files behave as named byte sequences; shutdown waits for open handles, and does end |
| ex2 server (`fs/tfs_server.c`) | one slot per session with a mutex and two conditions, a worker per session, file descriptors | the main thread reads and dispatches requests; a worker executes them and answers | hand-off of the slot; `valid` read with no mutex; requests joined or cut by one read; end of file; an open that fails; reuse of descriptors; conditions initialised after they are used | each request executed once, answered to the client that sent it; the main thread never stuck |
| ex2 client library (`client/`) | `session_id`, two descriptors | `tfs_mount`, `tfs_unmount`, and a request for each file operation | what is on the wire; waiting for an answer | a call returns, with its own answer |
| ex2 pipes (`common/common.c`) | none | send, receive and open with retry | short reads, end of file | as many bytes as asked, or an error |
| ex1 tables (`fs/state.c`) | as ex2, with ten direct blocks and an indirect one | as ex2, and allocation and truncation block by block | blocks lost or shared when a step in the middle fails; block numbers in a `char` | each file owns its blocks |
| ex1 operations (`fs/operations.c`) | one lock per i-node and per handle, one each for blocks, allocation and handles | as ex2, and `tfs_copy_to_external_fs` | look-up and creation under different locks; lock order; truncation under a read lock | calls seen as a whole, no deadlock, no file read half truncated; names unique (not the case) |

The client calls the library, which writes a request to the server's pipe; the
main thread hands it to the worker of a session; the worker calls an operation of
`operations.c`, which works on the tables of `state.c`; the answer goes back
through the client's own pipe. The thread examples of `tecnicofs_ex1/threads-process`
are separate programs and are left out.

## The modules

| Module | Models | State and steps |
|---|---|---|
| `FsState` | ex2 `state.c` | the tables as functions; each function of `state.c` as an operator. `First` and `TakeFirst` are the scans that find and take the first free entry. `dir_entry` is the root's block read as an array of entries. |
| `FsOps` | ex2 `operations.c` | one action per body that runs under `single_global_lock`, one for the second critical section of `tfs_open` and of `tfs_close`, and the steps of `tfs_destroy_after_all_closed`. `pc` says between which critical sections a thread is. `LockFails` is the early return of an operation whose mutex was destroyed. |
| `AbstractFs` | `operations.h` | what callers are promised: a file is a sequence of bytes under a name, a handle a position in it. |
| `FsOpsRefines` | | the refinement mapping from `FsOps` to `AbstractFs`. |
| `FsStateProof` | | lemmas on the scans of the tables and on sequences, for the proofs of both exercises. |
| `FsOpsProof` | | theorems about `FsOps` with any callers. |
| `FsCallersProof` | | theorems about what callers of `FsOps` get, each with the rules for callers it needs, the refinement of `AbstractFs` among them. |
| `TfsServer` | `tfs_server.c`, `common.c` | the main thread (`main.pc`), the slots, the workers (`wpc`), the descriptors. A read takes the first of `READ_MAX` requests and drops the others (`Unread`). A worker holds its session's mutex while it serves and answers (`Busy`). |
| `TfsClients` | `tecnicofs_client_api.c` | extends `TfsServer` with the clients and states the whole system: `Next`, fairness, properties. `Wire` says what the server sees of a call. |
| `TfsServerProof` | | theorems about `TfsServer` and `TfsClients`. |
| `Ex1State` | ex1 `state.c` | extends `FsState`, whose directory, allocation and open-file tables are the same code, with i-nodes of many blocks. A `Disk` is what the functions that follow block numbers work on: an i-node, the allocation table and the blocks. |
| `Ex1Ops` | ex1 `operations.c` | one action per stretch of code between two locks; `frame` holds where each thread is in its call and the local variables it still needs. |
| `AbstractFiles` | ex1 `operations.h` | what is promised while calls overlap: each goes on by a piece of its own file at a time. |
| `Ex1Refines` | | the refinement mapping from `Ex1Ops` to `AbstractFiles`. |
| `Ex1Proof` | | theorems about the locks, the directory and the handles of `Ex1Ops`. |
| `Ex1FilesProof` | | who excludes whom, and that calls stay inside their files. |
| `Ex1BlocksProof` | | which file has which block. |
| `Ex1CallsProof` | | that calls that go block by block are seen as a whole, the refinement of `AbstractFiles` among it. |
| `MCFsOps`, `MCFsOpsRefines`, `MCTfsClients`, `MCEx1` | | values for the constants. |

Operators whose comment starts with "Mutant" are not part of the specifications:
each is a definition with a mistake a programmer could make, kept next to the
right one, and the property it is listed with in `PROJECT.json` catches it.

### The locks of the first exercise

A call of `tfs_write` or `tfs_read` takes the lock of its handle, then the lock of the i-node,
and inside its loop takes `lock_blocks` once per block. The locks of handles and i-nodes are
held over many steps, and are the variables `lock_fhandle` and `lock_inumber`: who holds them, and
for reading or for writing. `lock_blocks`, `lock_allock` and `lock_fhandle_all` are held for a few
statements; the only thing waited for inside is `lock_blocks`, whose holders wait for nothing. Each such
section is one step (`Create`, `Truncate`, `WriteBlock`, `ReadBlock`, `Add`, `tfs_close`), and what
follows it outside the lock is another (`Advance` moves the handle and the size). The lock of the root
is only ever taken for reading, by `tfs_lookup`. Where `tfs_copy_to_external_fs` calls `tfs_open` and
`tfs_read`, the frame goes through their steps and keeps `op = "copy"`.

`tfs_read` and `tfs_open` with `TFS_O_TRUNC` may store into `i_size` while others read it under a
read lock, a data race in C. On the machines the program is built for an aligned `size_t` is stored
at once, and the model takes each access to be atomic.

What the models leave out of the code they model: the emulated storage delays and
the printed messages; the text of names beyond what `strncpy` cuts (`Cut`);
failures of `pthread` calls other than on a destroyed mutex; `malloc` that fails.
Use of memory that is not there sets `undefined` in the server and `wild` in the operations: nothing
is modelled after either.

### What callers may do

In `FsOps` three things can be switched on. `Misuse` has `"bad_handle"` when callers read and write through
handles they do not hold, and `"bad_close"` when they close them; the comments of `operations.h` ask for a
handle "obtained from a previous call to tfs_open". `TruncateOpen` says whether callers pass `TFS_O_TRUNC` for a file
that a handle has open: no comment forbids this, and the promises that need it off say so. What the code does with a handle is
tested against its range only (`operations.c:167`, `state.c:334-339`): a closed handle reaches the
file it named, and a number that no `tfs_open` ever gave out reaches i-node 0, so that a write through it goes
over the directory's entries. That write is a step of the model, which leaves any entry in a slot, and sets `wild`, as does
a `memcpy` with a wrapped length: the properties of the tables hold until then.

In the server the calls of `operations.c` answer any value of a small set. A request is one unit of the pipe, and data that
`tfs_write` sends is represented by what its first five bytes read as; data beginning with
the code of a mount is left out. A client of `LongWriters` also sends what the server does not read at once: from 1017 bytes
of data on the request is longer than the 1029 bytes of a read, and is followed by `READ_MAX` stray units, of which some are left in the pipe
and are dispatched as a request of nobody, whose answer somebody gets. A read may also end inside a request of another client. A write so long (more than `PIPE_BUF`)
that the pipe takes it in pieces with other requests between them is left out. A client of `LongPaths` has a pipe path of 35
characters or more, which main cuts (`tfs_server.c:164-165`): the worker reads past the end of what was stored, and its `open` may fail or
succeed (`FailMount`, `ServeMount`). Index -1, or a session read from bytes that are none, ends the model where it is used.
In the first exercise callers close a handle when no call of
theirs uses it (as in the tests), use handles they were given or -1, and destroy when no call is under way.

## What the runs check

Passing runs:

* `FsOps_tables` (`TypeOK`, `BlockOwnership`, `DirectoryConsistent`,
  `HandlesReferToFiles`, `CounterAccounting`, `OffsetWithinFile`): one thread makes every call in every order, through handles
  that are open, closed or never given out, truncates files that are open, and uses a name that is cut when it is stored.
  Three i-nodes, two blocks and two handles all fill up: the root takes one i-node and one block, so
  one file can hold data and a second cannot; one more directory slot than i-nodes for
  files, so that creation runs out of i-nodes, and an empty name makes it fail with
  an i-node taken. The bodies are serialised by the mutex, so one thread reaches
  every state of the tables. All but `TypeOK` and `CounterAccounting` speak of the states before `wild`, or of handles not in `undercut`.
* `FsOps_threads` (`NoLostWakeUp`, `CounterAccounting`, `WaitsForHandles`, `ShutdownCompletes`):
  three threads, two of which may call `tfs_destroy_after_all_closed`, so that one can wait while an open and a close of two others
  interleave between their two critical sections, and two can wait for one signal of the third. Every open succeeds (there are as
  many handles as calls the bound allows), so a waiting thread goes on once the handles stay closed. Not all of them do: the signal
  wakes one thread, and the other may sleep on with the counter at zero. The code has no call that would wake it, and
  the properties ask only that one thread goes on.
* `FsOps_refines` (`NamesUnique`, `ImplementsAbstractFs`): a caller that uses the handles it holds and truncates
  no open file. Every behaviour is one of the abstract file system, with two files of
  up to two bytes and two byte values, so that a read that returns another file's
  bytes, or stale ones, shows.
* `TfsClients_signals` (`TypeOK`, `NoLostSignal`): two clients on two sessions. One writes more than the server reads at once
  and may be killed at any point, also before its mount is sent; the path of the other's pipe is cut. Spurious wake-ups, and
  workers that read init's loop variable early or late, and wait on a condition before init initialises it (`lost`).
  Requests joined, cut and repeated put two mounts into one slot and use up the sessions.
* `TfsClients_dispatch` (`MainGoesOn`): three clients and two sessions, so that mounts
  overwrite each other and no session is left for the third, and one whose mount may fail in the worker.
* `TfsClients_one_client` (`AnswersOwnCall`, `OneRequestPerSlot`, `CallsReturn`): one client makes every
  call, with data the server reads at once: text, or bytes that name session 0. This is what is left of the server's contract
  once two clients are known to break it (below). An answer is to the request that was sent, which need not be what the caller
  meant: a `tfs_open` or a `tfs_write` is executed as whatever its first byte says.

* `Ex1_blocks` (`TypeOK`, `BlockOwnership`, `CallsAreAtomic`, `DirectoryConsistent`, `LosesNoOther`,
  `OnlyFullFilesRefuse`): one thread, two names, blocks of two bytes,
  one direct and up to two indirect blocks per file. Ten blocks, with numbers up to 3 that fit a char: stored in an
  indirect block, 4 to 7 come back negative, 8 as the directory's block and 9 as a file's. The device fills up in the
  middle of writes of three bytes, which span blocks; truncations take blocks from under other handles; one directory slot, so that a
  creation is undone. Until blocks go astray `LosesNoOther` lets a step lose two kinds of block: the indirect block of a file,
  left by a truncation or taken when no block was left for the data (`LosesIndirect`), and a block past the direct ones
  whose number does not fit its char (`LosesNumber`).
* `Ex1_threads` (`BlockOwnership`, `CallsAreAtomic`, `OffsetWithinFile`, `UnlocksWhatItLocked`, `DirectoryConsistent`, `OnlyFullFilesRefuse`,
  `OnlyWritersGrow`, `OnlyCopiesLeaveHandles`, `ImplementsFiles`, `CallsReturn`): two threads, which open (creating or truncating), write
  two blocks, read, copy and close at once, through one handle or two, with three blocks of which the root has one: two direct
  blocks per file, and writes that fail for want of an indirect one end the model. Both may create the
  same name, so there are two files. A creation that is undone while another waits for `lock_allock` needs more i-nodes and names
  than two threads can be checked with: undoing is checked with one thread, two creations at once with two, and the proof covers both.

Runs that must find a violation show a disagreement between the code and what the
repository says of it; each is a finding in `PROJECT.json`:

| Run | What happens |
|---|---|
| `FsOps_destroy_race` | a file opened between the last test of the counter and `tfs_destroy` is destroyed open |
| `FsOps_failed_open` | one failed `tfs_open` keeps `tfs_destroy_after_all_closed` waiting for ever |
| `TfsClients_lost_request` | two requests in one read: the second is dropped |
| `Ex1_same_name` | two threads open a missing file with `TFS_O_CREAT`: both create it |

### Seen in the code, without a run

The models follow the code in these points too, and the properties above are stated so
that they hold in spite of them:

* Every successful `tfs_mount` answers 0, so every client takes its session to be 0
  (`ServeMount`, `Receive`; `tfs_server.c:34`, `tecnicofs_client_api.c:41-51`).
* A mount is stored without waiting for the slot to be empty and after `valid` was read with
  no mutex, so that two mounts can get one slot and `new_command` is used after `free`
  (`find_session_id`, `PostMount`).
* When the last client leaves, `read` returns 0 and the request in the buffer is executed
  again and again (`receive_from_pipe`).
* The library's `tfs_open` and `tfs_write` copy the name and the data over the operation code
  and session, `tfs_unmount` puts its session three bytes too far, and the shutdown request has the
  code of a read (`Wire`).
* The workers read `init`'s loop variable through a pointer, and `init` initialises a session's conditions after it has started
  earlier workers, which may be waiting on them: such a worker gets no signal (`ServerInit`, `OwnIds`, `lost`).
* The path of a client's pipe is cut to 35 of its 40 bytes, and a client whose path is longer may never get the answer to its mount (`FailMount`).
* A `tfs_write` of 1017 bytes or more is taken for two requests or more and answered as often, so that a later call reads a stale answer
  (`SendRequest`, `Unread`).
* With every session in use the mount goes to index -1 (`PostMount`, `undefined`).
* The server never calls `tfs_init`: `main` works on zero-filled tables, where i-node 0 is no
  directory, so `tfs_open` fails; a `tfs_write` through a number from 0 to 19 does take a block for i-node 0.
  `TfsServer` lets the calls of `operations.c` answer anything.
* A name longer than `d_name` is cut when stored and compared whole, so it is created again by each
  open with `TFS_O_CREAT`; so is one whose path does not start with '/'. `NamesUnique` is about names that fit.
* After a file was truncated through another handle, `i_size - of_offset` wraps in `tfs_read`, and
  then `BLOCK_SIZE - of_offset` in `tfs_write` (`size_sub`, `wild`). `OffsetWithinFile` is about all handles but
  those whose file was truncated behind their offset (`undercut`).
* A write through a handle number that no `tfs_open` gave out overwrites the directory (`Write`, `wild`).
* `pthread_cond_signal` wakes one of the threads in `tfs_destroy_after_all_closed` (`Signalled`, `NoLostWakeUp`).

In the first exercise:

* Truncation takes no notice of handles that are past the start of the file (`undercut`), and needs only a read
  lock. `test_threads_3.c` does this: a hundred threads write `/f2` and truncate it at the same
  time. Afterwards a handle can write into a block that another file has been given. `OffsetWithinFile` and
  `OnlyWritersGrow` are promised until then.
* `truncate_file` never frees the indirect block (`state.c:189-190` says that it frees each
  allocated block); the block is lost for good.
* The numbers in the indirect block are chars (`to_char`): with `DATA_BLOCKS` at 1024, a file that is given a block
  above 127 cannot use it. The block stays taken and the write returns -1. From 256 on it is worse: block 257
  comes back as 1, and the file goes on in a block that is another file's, or in the directory's if it was 256 (`ComesBackAsAnother`,
  `wrapped`, `wild`). What files hold (`CallsAreAtomic`, `BlockOwnership`, `LosesNoOther`, `OnlyFullFilesRefuse`, `ImplementsFiles`) is promised until
  a truncation has undercut a handle or a number has come back so (`Astray`); `DirectoryConsistent`,
  `UnlocksWhatItLocked` and `OnlyCopiesLeaveHandles` depend on neither.
* A write that fails half-way returns -1 although it moved the handle and the size.
* With no block left for the indirect block, `inumber_block_alloc` stores through a null pointer (`NullIndirect`, `wild`).
* A read that ends at the largest file size is refused, and so is copying a file of that size (`LockForRead`): `operations.h:71-78` has it
  return the bytes. `OnlyFullFilesRefuse` says that no other read through a valid handle is refused.
* `tfs_copy_to_external_fs` never closes its handle (`Add`, `OnlyCopiesLeaveHandles`).
* `tfs_init` initialises the lock arrays twice; nothing holds them then.

### Bounds

`MAX_OFFSET` bounds the offsets that wrapped reads can reach, `MAX_COUNT` (in
`FsOps`) the absolute value of the counter, `SIZE_MOD` is the range of `size_t`, small enough
to wrap and larger than any offset plus length. In `TfsClients`, `MAX_QUEUE` bounds
the messages in a pipe when a call is made, `READ_MAX` is the number of requests one read returns (two or three, where a read
of 1029 bytes returns some twenty of the shortest; what counts is that one is dispatched, others are dropped, and some may be left), and `MAX_COUNT` stops the repeated
reading of the end of the pipe when a count has reached it: the count of a slot
grows without bound while a mount is repeated that its worker waits to serve. Each client mounts
once. Tables of two or three entries suffice for the
table invariants, which speak of at most two entries at a time, of an empty, a
partly filled and a full table; the proofs cover every size.
In `Ex1Ops`, `CHAR_MAX` is the largest char (127 in the code, with the signed char of the machines
it is built for), and the literal 10 of `state.c` is `NUMBER_DIRECT_BLOCKS`, as `config.h` has it.
`AFTER_ASTRAY` says whether the model goes on when blocks have gone astray: it does for one thread, and stops for
two, where little is promised any more.
A file of at most two or three blocks, direct and indirect, has every kind of boundary a file can have;
two threads suffice for pairs of calls on one file, each lock being held by one call at a time or by
readers that change nothing.
`CHECK_DEADLOCK FALSE` is used where `wild`, `destroyed` or `undefined` ends the model, and in the server runs
also because clients may all be waiting for an answer that will not come, which the
liveness properties tell from being done.

### Fairness

`FsOps`: weak fairness of the steps of a call that has begun (`CountOpen`,
`CountClose`, `WakeUp`, `tfs_destroy`): a thread that runs gets a mutex that others hold only for
short sections. No call need be made. `TfsClients`: weak fairness of the main thread, of
each worker, and of a client's reading of an answer that is there; spurious wake-ups and
new calls are not fair. Opening a client's pipe waits for the client, which may not
come when it is killed: `MainGoesOn` and `CallsReturn` are for clients that are not.
`Ex1Ops`: weak fairness of the steps of each thread inside a call. A thread that waits for a lock can be
passed by others as long as they make new calls (the read-write locks prefer readers), so
`CallsReturn` promises that all calls return once no new one is made: no cycle of waiting, no
lock that an early return forgot.

## What is proved

`FsOpsProof` proves for all table sizes, any finite set of threads, and any callers
(`Misuse` is any set, `TruncateOpen` either value):

* `BlocksAreOwned`, `DirectoryIsConsistent`, `HandlesAreOfFiles`: the invariants of the tables, until `wild`: the step that writes over the
  directory, or with a wrapped length, is the only one that `TablesInv` does not survive.
  `BlockOwnership` is not inductive alone: that a truncation frees a block of the file
  itself needs that the look-up returns a file that exists (`DirectoryConsistent`) and is
  not empty only with a block; that a write through an old handle lands in a block
  of its file needs `HandlesReferToFiles`; and a write that allocates needs sizes within
  a block. `TablesInv` is their conjunction, kept by each action (`OpenExistingTables`,
  `OpenCreateTables`, `OpenCreateFailsTables`, `WriteTables`, `ReadTables`, `CloseTables`, put together in `TablesStep`).
* `TypeCorrect`: `TypeOK`, from `TablesInv` and the types of the control variables.
* `CounterIsExact`: `CounterAccounting`, from `Balance`, with lemmas on how the cardinalities of the open
  handles and of the threads in between change in a step.

`FsCallersProof` proves, for the same sizes and threads, what callers get; the rule they have to keep, if any, is
the assumption of the theorem, in terms of `Misuse`, `TruncateOpen` and `Paths`:

* `NamesStayUnique`: `NamesUnique`, when names are stored whole and callers read and write through handles they hold, which are never the
  directory's (`TablesOfHolders`). A name is created only
  after `find_in_dir` found it nowhere (`CreatedIsMissing`), in the same step.
* `OffsetsStayInside`: `OffsetWithinFile`, with no rule: a handle leaves its file only by a truncation, which adds it to `undercut`. It needs `TablesInv`: the i-node that a
  creation overwrites, also one that is undone, is the i-node of no open handle (`CreatedIsClosed`).
* `NoWakeUpIsLost` and `ShutdownWaitsForHandles`: `NoLostWakeUp` and `WaitsForHandles`, when callers close what they hold. Both rest on
  `CounterOfCallers`: the counter is the number of handles that callers hold, and failures and closes still to be counted,
  all of them at least zero. It follows from `CounterAccounting` and `OpeningInv`: the handles that
  opens have yet to return are open and distinct, so that they are as many as the threads that return them. Any number of threads may
  wait (`Destroyers`): if all sleep, the last close has not been counted, or its signal has woken one since.
* `FilesAreSequences` and `OneCallerSeesSequences`: `ImplementsAbstractFs`, for any number of threads when `tfs_destroy` meets no other call
  and no open handle (`QuietShutdown`: that the code does not wait for this is a finding), and for one thread always. The callers use the handles
  they hold, pass names that are stored whole and truncate no open file; the last is more than `operations.h` asks of them.
  Under `NamesUnique` names and i-numbers correspond (`Naming`); under `BlockOwnership` and `OffsetWithinFile` a
  write changes the contents of its file and of no other (`WriteContents`); each operation has a lemma that says which
  abstract step its body is (`OpenExistingRefines`, ..., `ReadRefines`), put together in `StepRefines`. The second
  critical sections are stuttering steps.

`Ex1Proof` proves for all table sizes, any set of threads and every interleaving of their steps:

* `LocksAreReleased`: `UnlocksWhatItLocked`. The code finds the lock to release through the open-file table; that this is the lock it took
  needs that the handle of a call stays open and keeps its i-number until the call returns (`FrameOK`): only
  free handles are given to openings, and nobody closes a handle in use. `CallGoesOn` says when a step of one thread keeps all this,
  and each action has a lemma that applies it.
* `Ex1DirectoryIsConsistent`: `DirectoryConsistent`, from `DirectoryInv`, which says it entry by entry. Between the look-up of a
  `tfs_open` and its creation other threads may take i-nodes and slots; `Create` takes both at once.
* `OnlyCopiesLeak`: `OnlyCopiesLeaveHandles`, from `UsersHold`: a call other than a copy uses a handle its caller has.

`Ex1Inv`, the conjunction of `DirectoryInv`, `HandlesInv`, `FrameOK` of every frame and `LocksInv`, is the inductive invariant. It says nothing of
blocks or offsets, so that these three hold also after a truncation under a handle.

`Ex1FilesProof` goes on to offsets and sizes:

* `FilesInv` adds to `Ex1Inv` that a writer has its i-node, and every call its handle, for itself (`ExclusionInv`), the types of the tables
  (`TablesOK`), and that a call that has begun ends inside the largest file and inside its buffer (`CallsOK`). The three need
  each other: a size stays below the largest because a call's end does, and that is so because nobody else moves its handle.
* `HandlesStayInside`: `OffsetWithinFile`, from `InsideInv`: a handle that an opening is about to add, and the end of what a reader has
  still to read, are inside the file too. Truncation is the one step that can break it, when it undercuts a handle.
* `GrowsUnderItsWriter`: `OnlyWritersGrow`. Readers store a size outside `lock_blocks`; by `InsideInv` it is never more than
  the size that is there.

`Ex1BlocksProof` is about the blocks, as long as they have not gone astray (`Astray`: an undercut, or a block number that its `char` turned into
another block's):

* `BlocksAreOwned`: `BlockOwnership`, from `OwnInv`. A writer fills a block before `Advance` makes the file long enough to need it,
  and meanwhile other files take blocks: so `OwnInv` speaks of what a file claims, that is what it needs and what its
  writer has filled (`Pending`). Each step leaves a claim where it was (`Kept`) or makes it on a block that was free (`Fresh`);
  `WriteKeeps` shows this of the step that writes, `AllocNext` of each way to allocate.
* `OnlyLargestRefuse`: `OnlyFullFilesRefuse`, until blocks go astray: the block a reader needs is one its file owns.
* `NoOtherIsLost`: `LosesNoOther`: a block that becomes taken is the one a claim is made on, unless it is an indirect block
  or its number does not fit its char, and a claim that ends is freed.

`Ex1CallsProof` proves `CallsSeemWhole`: `CallsAreAtomic`. `AtomicInv` says it byte by byte: what a writer has moved is in the file and the rest is as
it was, a reader's file is as it was. A byte is at a place of a block that its file claims, and blocks are claimed once, so that a
block written for one file changes no byte of another (`WrittenBytes`); within the file the writer is alone (`WriterExcludes`).
It also proves

* `Ex1TypeCorrect`: `TypeOK` of `Ex1Ops`, whose bytes are well typed only as far as files claim blocks (`ContentsTyped`);
* `ThreadsSeeSequences`: `ImplementsFiles`. A write fills a block, and moves handle and size later, when other calls have gone on. The mapping
  counts the piece of a pending writer as written and moved past, which is well defined as a file has one writer at a time (`OneWriter`).
  So `WriteBlock` is `Put` (`WriteShows`), the `Advance` of a writer shows nothing and that of a reader is `Get` (`AdvanceShows`). A `WriteBlock` that
  fails shows nothing, although it may have allocated: a block below the size is always found, so it failed past the end (`WriteFails`). A
  truncation is `Truncate` only if all handles of the file are at its start: the code does not wait for this, so undercuts end the promise (`TruncateShows`).

`TfsServerProof` proves for any number of sessions and any finite set of clients, some of
which may be killed, write at length or have a path that is cut, and for any assignment of workers to sessions, lost ones among them:

* `SignalsAreNotLost`: `NoLostSignal`. It is not inductive: that a worker that finishes leaves the
  count a number needs that the slot still counts its request (`HasRequest`), which no other
  worker of the session took away because they exclude each other (`OneHolder`); that its request
  is one needs `SlotsFilled`, and in turn that the main thread has read one when it dispatches
  or stray bytes (`BufferFilled`). `ServerInv` is their
  conjunction with the types; there is one lemma per step of the main thread (`PutStep` is the hand-off), of
  a worker (`TestCountStep`, `ServeStep`, `FinishStep`) and of a client.
* `ServerTypeCorrect`: `TypeOK`, from the same invariant.
* `OneClientGetsItsAnswers` and `OneClientFillsOneSlot`: `AnswersOwnCall` and `OneRequestPerSlot`, for one client that is not killed,
  whose writes the server reads at once, and whose data does not read as a request to unmount (`Alone`). That the operation executed is the one
  that was meant is not claimed. `AloneInv` follows the one request: in the pipe, in the main thread's
  buffer, in a slot, or answered (`OnItsWay`); after the client has left, the request of its that the main thread repeats waits
  until the slot is empty (`LeftBehind`).

The assumptions are `ConfigAssumption` (the constants of `config.h` are positive),
`OpsAssumption`, `Ex1Assumption`, `Ex1OpsAssumption`, `ServerAssumption` and `ClientsAssumption`; TLC evaluates them. Only
model-checked: liveness, which is out of the prover's reach.

## Not modelled

* The server over its tables. `TfsServer` and `FsOps` are not composed: the server never calls `tfs_init`, and on
  zero-filled tables i-node 0 is no directory, so that `tfs_open` fails and nobody gets a handle; a write through a number that is in range
  anyway takes a block for i-node 0. What the composition could show, `FsOps` and `TfsServer` show apart.
* A `tfs_write` longer than `PIPE_BUF`, which the pipe may take in pieces with requests of others between them, and interrupted system
  calls: no handler is installed.
* What follows a use of index -1 or of a session that is none, and a write over the directory: the models end there.
* `threads-process/` are separate teaching programs; the tests were read for what the program is meant to do.

## Plan

1. Done: both exercises modelled and checked; the safety properties of `FsOps`, of `TfsServer` and of `Ex1Ops` proved, and that `FsOps` implements `AbstractFs` and `Ex1Ops` implements `AbstractFiles`.
2. That callers who truncate only files that nobody has open undercut no handle of the first exercise either, as `FsCallersProof` has it for
   the second. And what two clients of the server are promised as long as each sends its request when no other is in the pipe.
