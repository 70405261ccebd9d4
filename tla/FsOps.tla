------------------------------- MODULE FsOps -------------------------------
(***************************************************************************)
(* The operations of TecnicoFS (tecnicofs_ex2/fs/operations.c), called by  *)
(* several threads.                                                        *)
(*                                                                         *)
(* Each operation runs its body under single_global_lock, so a body is one *)
(* step.  tfs_open and tfs_close then update number_open_files in a second *)
(* critical section, under open_files_lock: between the two any other      *)
(* thread may run, and pc records that a thread is there.                  *)
(*                                                                         *)
(* A destroyed mutex is not taken: pthread_mutex_lock fails and the        *)
(* operation returns -1 with nothing more changed.                         *)
(***************************************************************************)
EXTENDS FsState

CONSTANTS
  Threads,
  Destroyers,   \* the threads that may call tfs_destroy_after_all_closed
  Paths,        \* path names, as [abs, sub]: does it start with '/', what follows
  OpenFlags,    \* the sets of TFS_O_ flags passed to tfs_open
  Lens,         \* the lengths passed to tfs_read and tfs_write
  SIZE_MOD,     \* 2^w for the width w of size_t
  MAX_OFFSET,   \* bound: no read is modelled that takes an offset past this
  MAX_COUNT,    \* bound on the absolute value of number_open_files
  Misuse,       \* what callers do against the comments of operations.h
  TruncateOpen, \* do they pass TFS_O_TRUNC for a file some handle has open? Nothing forbids it
  JUNK          \* a byte that is no file's: from outside the block, or of the directory

Kinds == {"bad_handle",   \* tfs_read and tfs_write on a handle the caller does not hold
          "bad_close"}    \* tfs_close of one

ASSUME OpsAssumption ==
  /\ Destroyers \subseteq Threads /\ Destroyers # {}
  /\ IsFiniteSet(Threads)
  /\ Paths \subseteq [abs : BOOLEAN, sub : Names \cup {""}]
  /\ OpenFlags \subseteq SUBSET {"CREAT", "TRUNC", "APPEND"}
  /\ Lens \subseteq Nat
  /\ SIZE_MOD \in Nat /\ MAX_OFFSET \in Nat /\ MAX_COUNT \in Nat
  /\ BLOCK_SIZE <= MAX_OFFSET
  /\ \A len \in Lens : MAX_OFFSET + len < SIZE_MOD
  /\ Misuse \subseteq Kinds
  /\ TruncateOpen \in BOOLEAN
  /\ JUNK \notin Data

VARIABLES
  number_open_files,
  pc,         \* thread -> where it is between two critical sections
  destroyed,  \* the mutexes tfs_destroy has destroyed
  wild,       \* a memcpy ran with a wrapped length or over the directory: the model ends
  opening,    \* thread -> the handle its tfs_open has yet to return, or -1
  ret,        \* what the last body returned
  failures,   \* history: tfs_open bodies that failed, less tfs_close bodies that did
  undercut    \* history: the open handles whose file was truncated behind their offset

vars == <<state_vars, number_open_files, pc, destroyed, wild, opening, ret, failures, undercut>>

Pc == {"idle", "opened", "closed", "waiting", "woken", "destroying"}

Ops == {"lookup", "open", "close", "write", "read", "destroy"}

Locks == {"single_global_lock", "open_files_lock"}

TypeOK ==
  /\ StateTypeOK
  /\ number_open_files \in Int
  /\ pc \in [Threads -> Pc]
  /\ destroyed \in SUBSET Locks
  /\ wild \in BOOLEAN
  /\ opening \in [Threads -> Handles \cup {-1}]
  /\ ret \in [op : Ops \cup {"init"}, val : Int, data : Seq(Data \cup {JUNK})]
  /\ failures \in Int
  /\ undercut \in SUBSET Handles

Init ==
  /\ RootCreated
  /\ number_open_files = 0
  /\ pc = [t \in Threads |-> "idle"]
  /\ destroyed = {}
  /\ wild = FALSE
  /\ opening = [t \in Threads |-> -1]
  /\ ret = [op |-> "init", val |-> 0, data |-> <<>>]
  /\ failures = 0
  /\ undercut = {}

----------------------------------------------------------------------------
(* Helpers.                                                                *)

size_sub(a, b) == IF b <= a THEN a - b ELSE a - b + SIZE_MOD

Smaller(a, b) == IF a <= b THEN a ELSE b

\* Mutant: i_size is set by the first write only.
Larger_once(a, b) == IF a = 0 THEN b ELSE a

Larger(a, b) == IF a <= b THEN b ELSE a

Open(h) == free_open_file_entries[h] = "TAKEN"

\* Handles a caller holds: open, and returned to it.
Held == {h \in Handles : Open(h) /\ \A t \in Threads : opening[t] # h}

Usable == IF "bad_handle" \in Misuse THEN Handles ELSE Held

Closable == IF "bad_close" \in Misuse THEN Handles \cup {-1} ELSE Held

\* Threads between a body and its update of number_open_files.
Pending(where) == {t \in Threads : pc[t] = where}

Returns(op, val, data) == ret' = [op |-> op, val |-> val, data |-> data]

Goto(t, where) == pc' = [pc EXCEPT ![t] = where]

\* Thread t, at a point of its code, is about to take a mutex that is usable.
Enters(t, where, lock) == pc[t] = where /\ lock \notin destroyed /\ ~wild

----------------------------------------------------------------------------
(* tfs_lookup and tfs_open.                                                *)

valid_pathname(path) == path.abs /\ path.sub # ""

lookup(path) == IF valid_pathname(path) THEN find_in_dir(ROOT_DIR_INUM, path.sub) ELSE -1

tfs_lookup(t, path) ==
  /\ Enters(t, "idle", "single_global_lock")
  /\ Returns("lookup", lookup(path), <<>>)
  /\ UNCHANGED <<state_vars, number_open_files, pc, destroyed, wild, opening, failures, undercut>>

\* The last step of the body: takes a handle for inum, or fails.  The handles
\* of cut have just lost the bytes before their offset.
add_to_open_file_table(t, inum, offset, cut) ==
  LET h == First(FreeIn(free_open_file_entries)) IN
  /\ Returns("open", h, <<>>)
  /\ free_open_file_entries' = TakeFirst(free_open_file_entries)
  /\ open_file_table' =
       [g \in Handles |-> IF g = h THEN [of_inumber |-> inum, of_offset |-> offset]
                                   ELSE open_file_table[g]]
  /\ opening' = [opening EXCEPT ![t] = h]
  /\ failures' = IF h = -1 THEN failures + 1 ELSE failures
  /\ undercut' = (undercut \cup cut) \ {h}

OpenFails ==
  /\ Returns("open", -1, <<>>)
  /\ failures' = failures + 1
  /\ UNCHANGED <<open_vars, opening, undercut>>

\* The handles that a truncation of the file leaves past its end.
PastStart(inum) == {h \in Handles : /\ Open(h) /\ open_file_table[h].of_inumber = inum
                                    /\ open_file_table[h].of_offset > 0}

\* The file exists.  TFS_O_TRUNC releases the block of a file that is not
\* empty; i_data_block keeps the number of the released block.
OpenExisting(t, path, flags) ==
  LET inum  == lookup(path)
      inode == inode_table[inum]
      trunc == "TRUNC" \in flags /\ inode.i_size > 0
      size  == IF trunc THEN 0 ELSE inode.i_size
  IN
  /\ inum # -1
  /\ \/ "TRUNC" \notin flags
     \/ TruncateOpen
     \/ \A h \in Handles : Open(h) => open_file_table[h].of_inumber # inum
  /\ UNCHANGED <<freeinode_ts, fs_data, dir_entry>>
  /\ IF trunc /\ ~valid_block_number(inode.i_data_block)
     THEN OpenFails /\ UNCHANGED <<inode_table, free_blocks>>
     ELSE /\ free_blocks' = IF trunc THEN data_block_free(inode.i_data_block)
                                     ELSE free_blocks
          /\ inode_table' = [inode_table EXCEPT ![inum].i_size = size]
          /\ add_to_open_file_table(t, inum, IF "APPEND" \in flags THEN size ELSE 0,
                                    IF trunc THEN PastStart(inum) ELSE {})

\* Mutant: what inode_create returns is not tested.
OpenCreate_unchecked(t, path, flags) ==
  /\ lookup(path) = -1 /\ "CREAT" \in flags
  /\ CanAddEntry(ROOT_DIR_INUM, path.sub)
  /\ freeinode_ts' = TakeFirst(freeinode_ts)
  /\ inode_table' = [inode_table EXCEPT ![inode_create] = NewFile]
  /\ dir_entry' = add_dir_entry(inode_create, path.sub)
  /\ add_to_open_file_table(t, inode_create, 0, {})
  /\ UNCHANGED block_vars

\* Mutant: inode_create does not mark the i-node taken.
OpenCreate_untaken(t, path, flags) ==
  /\ lookup(path) = -1 /\ "CREAT" \in flags
  /\ inode_create # -1 /\ CanAddEntry(ROOT_DIR_INUM, path.sub)
  /\ inode_table' = [inode_table EXCEPT ![inode_create] = NewFile]
  /\ dir_entry' = add_dir_entry(inode_create, path.sub)
  /\ add_to_open_file_table(t, inode_create, 0, {})
  /\ UNCHANGED <<freeinode_ts, block_vars>>

\* The file is created: it takes the first free i-node and directory slot.
OpenCreate(t, path, flags) ==
  LET inum == inode_create IN
  /\ lookup(path) = -1 /\ "CREAT" \in flags
  /\ inum # -1 /\ CanAddEntry(ROOT_DIR_INUM, path.sub)
  /\ freeinode_ts' = TakeFirst(freeinode_ts)
  /\ inode_table' = [inode_table EXCEPT ![inum] = NewFile]
  /\ dir_entry' = add_dir_entry(inum, path.sub)
  /\ add_to_open_file_table(t, inum, 0, {})
  /\ UNCHANGED block_vars

\* Mutant: inode_delete is forgotten.
OpenCreateFails_kept(path, flags) ==
  /\ lookup(path) = -1 /\ "CREAT" \in flags
  /\ inode_create = -1 \/ ~CanAddEntry(ROOT_DIR_INUM, path.sub)
  /\ inode_table' = [i \in Inumbers |-> IF i = inode_create THEN NewFile ELSE inode_table[i]]
  /\ freeinode_ts' = TakeFirst(freeinode_ts)
  /\ OpenFails
  /\ UNCHANGED <<block_vars, dir_entry>>

\* No i-node is left, or the entry cannot be added and inode_delete gives the
\* i-node back: it stays overwritten, of size 0, and no block is released.
OpenCreateFails(path, flags) ==
  LET inum == inode_create IN
  /\ lookup(path) = -1 /\ "CREAT" \in flags
  /\ inum = -1 \/ ~CanAddEntry(ROOT_DIR_INUM, path.sub)
  /\ inode_table' = [i \in Inumbers |-> IF i = inum THEN NewFile ELSE inode_table[i]]
  /\ OpenFails
  /\ UNCHANGED <<freeinode_ts, block_vars, dir_entry>>

OpenMissing(path, flags) ==
  /\ lookup(path) = -1 /\ "CREAT" \notin flags
  /\ OpenFails
  /\ UNCHANGED <<inode_vars, block_vars, dir_entry>>

tfs_open(t, path, flags) ==
  /\ Enters(t, "idle", "single_global_lock")
  /\ number_open_files + Cardinality(Pending("opened")) < MAX_COUNT
  /\ \/ OpenExisting(t, path, flags)
     \/ OpenCreate(t, path, flags)
     \/ OpenCreateFails(path, flags)
     \/ OpenMissing(path, flags)
  /\ Goto(t, "opened")
  /\ UNCHANGED <<number_open_files, destroyed, wild>>

\* Mutant: the counter is taken from the handle table.
CountOpen_recounted(t) ==
  /\ Enters(t, "opened", "open_files_lock")
  /\ number_open_files' = Cardinality({h \in Handles : Open(h)})
  /\ Goto(t, "idle")
  /\ opening' = [opening EXCEPT ![t] = -1]
  /\ UNCHANGED <<state_vars, destroyed, wild, ret, failures, undercut>>

\* The second critical section of tfs_open: the call is counted whatever its
\* body returned.
CountOpen(t) ==
  /\ Enters(t, "opened", "open_files_lock")
  /\ number_open_files' = number_open_files + 1
  /\ Goto(t, "idle")
  /\ opening' = [opening EXCEPT ![t] = -1]
  /\ UNCHANGED <<state_vars, destroyed, wild, ret, failures, undercut>>

----------------------------------------------------------------------------
(* tfs_close.                                                              *)

tfs_close(t, h) ==
  /\ Enters(t, "idle", "single_global_lock")
  /\ number_open_files - Cardinality(Pending("closed")) > -MAX_COUNT
  /\ \/ /\ h \in Handles /\ Open(h)
        /\ free_open_file_entries' = Release(free_open_file_entries, h)
        /\ Returns("close", 0, <<>>)
        /\ UNCHANGED failures
     \/ /\ ~(h \in Handles /\ Open(h))
        /\ Returns("close", -1, <<>>)
        /\ failures' = failures - 1
        /\ UNCHANGED free_open_file_entries
  /\ Goto(t, "closed")
  /\ UNCHANGED <<inode_vars, block_vars, dir_entry, open_file_table,
                 number_open_files, destroyed, wild, opening, undercut>>

\* Mutant: no signal.
Signalled_nobody(p) == pc' = p

\* pthread_cond_signal: one thread waiting for the condition, if any, wakes.
Signalled(p) ==
  IF \E w \in Threads : p[w] = "waiting"
  THEN \E w \in Threads : p[w] = "waiting" /\ pc' = [p EXCEPT ![w] = "woken"]
  ELSE pc' = p

\* Mutant: the counter stops at zero.
CountClose_saturating(t) ==
  /\ Enters(t, "closed", "open_files_lock")
  /\ number_open_files' = IF number_open_files > 0 THEN number_open_files - 1 ELSE 0
  /\ Signalled([pc EXCEPT ![t] = "idle"])
  /\ UNCHANGED <<state_vars, destroyed, wild, opening, ret, failures, undercut>>

\* The second critical section of tfs_close.
CountClose(t) ==
  /\ Enters(t, "closed", "open_files_lock")
  /\ number_open_files' = number_open_files - 1
  /\ Signalled([pc EXCEPT ![t] = "idle"])
  /\ UNCHANGED <<state_vars, destroyed, wild, opening, ret, failures, undercut>>

----------------------------------------------------------------------------
(* tfs_write and tfs_read.  They look at open_file_table only: that the    *)
(* handle is open is not tested.                                           *)

BadHandle(op) ==
  /\ "bad_handle" \in Misuse
  /\ Returns(op, -1, <<>>)
  /\ UNCHANGED <<state_vars, wild>>

\* How many bytes tfs_write will write at offset.
to_write(offset, len) ==
  IF len + offset > BLOCK_SIZE THEN size_sub(BLOCK_SIZE, offset) ELSE len

\* tfs_write of len bytes d through a handle in range.  An entry that no
\* tfs_open has filled names i-node 0: the bytes go over the directory.
Write(h, d, len) ==
  LET inum   == open_file_table[h].of_inumber
      offset == open_file_table[h].of_offset
      inode  == inode_table[inum]
      n      == to_write(offset, len)
      block  == IF inode.i_size = 0 THEN data_block_alloc ELSE inode.i_data_block
  IN
  \/ /\ n = 0
     /\ Returns("write", 0, <<>>)
     /\ UNCHANGED <<state_vars, wild>>
  \/ /\ n > 0 /\ ~valid_block_number(block)          \* no block is left
     /\ inode_table' = [inode_table EXCEPT ![inum].i_data_block = block]
     /\ Returns("write", -1, <<>>)
     /\ UNCHANGED <<freeinode_ts, block_vars, dir_entry, open_vars, wild>>
  \/ /\ n > 0 /\ valid_block_number(block) /\ offset + n > BLOCK_SIZE
     /\ wild' = TRUE                        \* n is BLOCK_SIZE - offset, wrapped
     /\ UNCHANGED <<state_vars, ret>>
  \/ /\ n > 0 /\ valid_block_number(block) /\ offset + n <= BLOCK_SIZE /\ inum = ROOT_DIR_INUM
     /\ \E s \in DirSlots, e \in DirEntry : dir_entry' = [dir_entry EXCEPT ![s] = e]
     /\ open_file_table' = [open_file_table EXCEPT ![h].of_offset = offset + n]
     /\ Returns("write", n, <<>>)
     /\ wild' = TRUE
     /\ UNCHANGED <<inode_vars, block_vars, free_open_file_entries>>
  \/ /\ n > 0 /\ valid_block_number(block) /\ offset + n <= BLOCK_SIZE /\ inum # ROOT_DIR_INUM
     /\ free_blocks' = IF inode.i_size = 0 THEN TakeFirst(free_blocks) ELSE free_blocks
     /\ fs_data' = [fs_data EXCEPT ![block] = Overwritten(@, offset, n, d)]
     /\ inode_table' = [inode_table EXCEPT ![inum].i_data_block = block,
                                           ![inum].i_size = Larger(@, offset + n)]
     /\ open_file_table' = [open_file_table EXCEPT ![h].of_offset = offset + n]
     /\ Returns("write", n, <<>>)
     /\ UNCHANGED <<freeinode_ts, dir_entry, free_open_file_entries, wild>>

tfs_write(t, h, d, len) ==
  /\ Enters(t, "idle", "single_global_lock")
  /\ \/ h \in Usable /\ Write(h, d, len)
     \/ h = -1 /\ BadHandle("write")
  /\ UNCHANGED <<number_open_files, pc, destroyed, opening, failures, undercut>>

\* tfs_read through a handle in range.  i_size - of_offset is unsigned: past
\* the end of the file it wraps and the whole of len is read.
Read(h, len) ==
  LET inum   == open_file_table[h].of_inumber
      inode  == inode_table[inum]
      offset == open_file_table[h].of_offset
      n      == Smaller(size_sub(inode.i_size, offset), len)
      block  == inode.i_data_block
      byte   == [k \in 1 .. n |-> IF inum # ROOT_DIR_INUM /\ offset + k - 1 \in Offsets
                                  THEN fs_data[block][offset + k - 1] ELSE JUNK]
  IN
  /\ offset + n <= MAX_OFFSET
  /\ \/ /\ n > 0 /\ ~valid_block_number(block)
        /\ Returns("read", -1, <<>>)
        /\ UNCHANGED open_file_table
     \/ /\ n = 0
        /\ Returns("read", 0, <<>>)
        /\ UNCHANGED open_file_table
     \/ /\ n > 0 /\ valid_block_number(block)
        /\ Returns("read", n, byte)
        /\ open_file_table' = [open_file_table EXCEPT ![h].of_offset = offset + n]
  /\ UNCHANGED <<inode_vars, block_vars, dir_entry, free_open_file_entries, wild>>

tfs_read(t, h, len) ==
  /\ Enters(t, "idle", "single_global_lock")
  /\ \/ h \in Usable /\ Read(h, len)
     \/ h = -1 /\ BadHandle("read")
  /\ UNCHANGED <<number_open_files, pc, destroyed, opening, failures, undercut>>

----------------------------------------------------------------------------
(* tfs_destroy_after_all_closed.                                           *)

\* With open_files_lock held, on entry or back from pthread_cond_wait: wait,
\* or release the lock and go on to tfs_destroy.
TestOpenFiles(t) ==
  /\ Goto(t, IF number_open_files = 0 THEN "destroying" ELSE "waiting")
  /\ UNCHANGED <<state_vars, number_open_files, destroyed, wild, opening, ret, failures, undercut>>

tfs_destroy_after_all_closed(t) ==
  /\ t \in Destroyers /\ Enters(t, "idle", "open_files_lock")
  /\ TestOpenFiles(t)

\* Mutant: the wait is in an if, not in a while.
WakeUp_untested(t) ==
  /\ Enters(t, "woken", "open_files_lock")
  /\ Goto(t, "destroying")
  /\ UNCHANGED <<state_vars, number_open_files, destroyed, wild, opening, ret, failures, undercut>>

WakeUp(t) ==
  /\ Enters(t, "woken", "open_files_lock")
  /\ TestOpenFiles(t)

\* pthread_cond_wait may return without a signal.
SpuriousWakeUp(t) ==
  /\ pc[t] = "waiting" /\ ~wild
  /\ Goto(t, "woken")
  /\ UNCHANGED <<state_vars, number_open_files, destroyed, wild, opening, ret, failures, undercut>>

\* Another thread may be inside a body, or inside the critical section in
\* which it counts: pthread_mutex_destroy then finds the mutex busy.
MayHold(t, lock) ==
  \E u \in Threads \ {t} :
    pc[u] \in (IF lock = "single_global_lock" THEN {"idle"} ELSE {"opened", "closed"})

\* A thread in pthread_cond_wait keeps the mutex busy although it does not hold it.
OtherWaits(t) == \E u \in Threads \ {t} : pc[u] \in {"waiting", "woken"}

\* tfs_destroy stops at the first mutex it cannot destroy; its result is
\* dropped.
tfs_destroy(t) ==
  /\ pc[t] = "destroying" /\ ~wild
  /\ \/ ~OtherWaits(t) /\ destroyed' = Locks
     \/ MayHold(t, "single_global_lock") /\ UNCHANGED destroyed
     \/ /\ MayHold(t, "open_files_lock") \/ OtherWaits(t)
        /\ destroyed' = destroyed \cup {"single_global_lock"}
  /\ Goto(t, "idle")
  /\ Returns("destroy", 0, <<>>)
  /\ UNCHANGED <<state_vars, number_open_files, wild, opening, failures, undercut>>

\* The mutex op takes first, and the place between its two critical sections.
FirstLock(op) == IF op = "destroy" THEN "open_files_lock" ELSE "single_global_lock"
Between(op)   == IF op = "open" THEN {"opened"} ELSE IF op = "close" THEN {"closed"} ELSE {}

\* Taking a destroyed mutex fails, at the start of a call or between the two
\* critical sections of one.
LockFails(t, op) ==
  /\ ~wild
  /\ \/ pc[t] = "idle" /\ FirstLock(op) \in destroyed /\ (op = "destroy" => t \in Destroyers)
     \/ pc[t] \in Between(op) /\ "open_files_lock" \in destroyed
  /\ Goto(t, "idle")
  /\ Returns(op, -1, <<>>)
  /\ opening' = [opening EXCEPT ![t] = -1]
  /\ UNCHANGED <<state_vars, number_open_files, destroyed, wild, failures, undercut>>

----------------------------------------------------------------------------

Next == \E t \in Threads :
  \/ \E path \in Paths : tfs_lookup(t, path)
  \/ \E path \in Paths, flags \in OpenFlags : tfs_open(t, path, flags)
  \/ \E h \in Closable : tfs_close(t, h)
  \/ \E h \in Handles \cup {-1}, d \in Data, len \in Lens : tfs_write(t, h, d, len)
  \/ \E h \in Handles \cup {-1}, len \in Lens : tfs_read(t, h, len)
  \/ CountOpen(t) \/ CountClose(t)
  \/ tfs_destroy_after_all_closed(t)
  \/ WakeUp(t) \/ SpuriousWakeUp(t) \/ tfs_destroy(t)
  \/ \E op \in Ops : LockFails(t, op)

Spec == Init /\ [][Next]_vars

\* A thread inside a call goes on with it, and gets open_files_lock in the end.
Fairness == \A t \in Threads :
  WF_vars(CountOpen(t)) /\ WF_vars(CountClose(t)) /\ WF_vars(WakeUp(t)) /\ WF_vars(tfs_destroy(t))

FairSpec == Spec /\ Fairness

----------------------------------------------------------------------------
(* What the tables promise, whatever the callers do: also with handles that *)
(* they closed or never had.  A write through a handle number that no       *)
(* tfs_open has returned goes over the directory itself; then, and when a   *)
(* length wrapped, wild is set and these promises end.                      *)

\* The i-nodes that hold a block: taken, and not empty.
Owners == {i \in Inumbers : freeinode_ts[i] = "TAKEN" /\ inode_table[i].i_size > 0}

BlocksOwned ==
  /\ \A i \in Owners : /\ inode_table[i].i_data_block \in Blocks
                       /\ free_blocks[inode_table[i].i_data_block] = "TAKEN"
  /\ \A i, j \in Owners :
       inode_table[i].i_data_block = inode_table[j].i_data_block => i = j
  /\ \A b \in Blocks : free_blocks[b] = "TAKEN" =>
       \E i \in Owners : inode_table[i].i_data_block = b

EntriesMatch ==
  /\ freeinode_ts[ROOT_DIR_INUM] = "TAKEN" /\ IsDirectory(ROOT_DIR_INUM)
  /\ \A s \in DirSlots : dir_entry[s].d_inumber # -1 =>
       /\ freeinode_ts[dir_entry[s].d_inumber] = "TAKEN"
       /\ dir_entry[s].d_inumber # ROOT_DIR_INUM
  /\ \A s, r \in DirSlots :
       dir_entry[s].d_inumber = dir_entry[r].d_inumber /\ dir_entry[s].d_inumber # -1 => s = r
  /\ \A i \in Inumbers \ {ROOT_DIR_INUM} : freeinode_ts[i] = "TAKEN" =>
       \E s \in DirSlots : dir_entry[s].d_inumber = i

HandlesValid == \A h \in Handles :
  /\ freeinode_ts[open_file_table[h].of_inumber] = "TAKEN"
  /\ Open(h) => open_file_table[h].of_inumber # ROOT_DIR_INUM

\* Every sequence of creations, truncations and writes, of any threads and also
\* through closed handles, keeps the block map exact until wild: a non-empty
\* i-node owns a block that is marked taken, no two own the same one (so no
\* file's bytes, nor the directory's, are another's), and no block is taken that
\* nobody owns.
BlockOwnership == ~wild => BlocksOwned

\* The directory and the i-node table agree until wild, although tfs_open takes
\* the i-node first, adds the entry next and undoes the first when the second
\* fails: each taken i-node but the root is in exactly one entry, and no entry
\* names a free one or the root.
DirectoryConsistent == ~wild => EntriesMatch

\* A handle refers to an i-node in use, also after it was closed, until wild:
\* i-nodes are not reused while a handle names them.  An open one never names
\* the root, so that a caller who holds the handle does not write over the
\* directory.
HandlesReferToFiles == ~wild => HandlesValid

\* number_open_files counts calls: with the calls still between their two
\* critical sections it exceeds the number of open handles by the opens that
\* failed less the closes that did.
CounterAccounting ==
  "open_files_lock" \in destroyed \/
  number_open_files + Cardinality(Pending("opened")) - Cardinality(Pending("closed"))
    = Cardinality({h \in Handles : Open(h)}) + failures

\* An open handle stays inside its file, through whatever others write, read,
\* open and close, until the file is truncated behind its offset: so
\* i_size - of_offset and BLOCK_SIZE - of_offset wrap for no other handle.
OffsetWithinFile == \A h \in Handles :
  Open(h) => \/ open_file_table[h].of_offset <= inode_table[open_file_table[h].of_inumber].i_size
             \/ h \in undercut

----------------------------------------------------------------------------
(* What callers get that use the handles they hold (Misuse = {}).          *)

\* A name is in one entry at most: a file that was created is found again, and
\* not created a second time.
NamesUnique == \A s, r \in DirSlots \ EmptySlots :
  dir_entry[s].d_name = dir_entry[r].d_name => s = r

\* tfs_destroy_after_all_closed stops waiting only when no caller holds an open
\* handle, although the handle table and the counter change in two steps.
WaitsForHandles ==
  [][\A t \in Threads : pc[t] # "destroying" /\ pc'[t] = "destroying" => Held = {}]_vars

\* The threads that may wait do not all sleep with nothing to wait for: the
\* signal of the last tfs_close woke one of them, however many were waiting and
\* whichever was between its test and its wait.  It wakes one: the others may
\* sleep on.
NoLostWakeUp == (\A t \in Destroyers : pc[t] = "waiting") => number_open_files # 0

\* Once all handles stay closed, some tfs_destroy_after_all_closed does not wait
\* for ever.
ShutdownCompletes ==
  ~<>[](/\ \A t \in Destroyers : pc[t] \in {"waiting", "woken"}
        /\ \A h \in Handles : ~Open(h))

----------------------------------------------------------------------------
(* What the comments of operations.h say and the code does not do.         *)

\* "Waits until no file is open and then destroy tecnicofs" (operations.h:25).
DestroyOnlyWhenClosed == destroyed = Locks => Held = {}

============================================================================
