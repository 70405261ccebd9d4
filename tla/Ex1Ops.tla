------------------------------- MODULE Ex1Ops -------------------------------
(***************************************************************************)
(* The operations of the first exercise (tecnicofs_ex1/fs/operations.c),   *)
(* called by several threads.                                              *)
(*                                                                         *)
(* There is no global lock.  A call takes the lock of its handle, then the *)
(* lock of the i-node, and works on one block at a time; the state of a    *)
(* thread inside a call is its frame.  lock_blocks, lock_allock and        *)
(* lock_fhandle_all are taken for a few statements in which nothing else   *)
(* is waited for: each such section is one step.  The locks of handles and *)
(* i-nodes are held over many steps and are variables.                     *)
(***************************************************************************)
EXTENDS Ex1State

CONSTANTS
  Threads,
  Paths,        \* path names, as [abs, sub]: does it start with '/', what follows
  CopyPaths,    \* those passed to tfs_copy_to_external_fs
  OpenFlags,    \* the sets of TFS_O_ flags passed to tfs_open
  Buffers,      \* the buffers passed to tfs_write
  Lens,         \* the lengths passed to tfs_read
  SIZE_MOD,     \* 2^w for the width w of size_t
  AFTER_ASTRAY     \* bound: is anything modelled when the blocks have gone astray?

ASSUME Ex1OpsAssumption ==
  /\ IsFiniteSet(Threads)
  /\ Paths \subseteq [abs : BOOLEAN, sub : Names \cup {""}]
  /\ CopyPaths \subseteq Paths
  /\ OpenFlags \subseteq SUBSET {"CREAT", "TRUNC", "APPEND"}
  /\ Buffers \subseteq Seq(Data)
  /\ Lens \subseteq Nat
  /\ AFTER_ASTRAY \in BOOLEAN
  /\ SIZE_MOD \in Nat /\ 2 * MAXIMUM_FILE_BYTES < SIZE_MOD
  /\ \A len \in Lens : MAXIMUM_FILE_BYTES + len < SIZE_MOD

VARIABLES
  lock_fhandle,   \* handle -> the threads that hold its lock, by mode
  lock_inumber,   \* i-number -> the same
  frame,          \* thread -> where it is in which call, and the local variables
  held,           \* the handles that were returned to the callers, and not closed
  ret,            \* what the last step returned, if it was the last of a call
  wild,           \* a null pointer was followed, or the directory's block was used
                  \* as data; nothing is modelled after it
  destroyed,      \* tfs_destroy was called; nor after it
  undercut,       \* history: a file was truncated under a handle that was past its start
  wrapped         \* history: a file was given a block of another number than was allocated

locks == <<lock_fhandle, lock_inumber>>
history == <<wild, destroyed, undercut, wrapped>>
vars == <<state_vars, locks, frame, held, ret, history>>

Modes  == {"readers", "writers"}
RwLock == [Modes -> SUBSET Threads]

Places == {"idle", "lookup", "existing", "truncate", "position", "create", "add",
           "size", "handle", "inode", "loop", "advance"}
Ops    == {"lookup", "open", "close", "write", "read", "copy", "destroy"}

NoPath == [abs |-> TRUE, sub |-> ""]

\* A frame: the place in operation op and the parameters and variables that are
\* still needed.  `old' is history: the contents of the file when the call
\* locked it.
Idle == [op |-> "none", at |-> "idle", path |-> NoPath, flags |-> {}, inum |-> -1,
         offset |-> 0,                       \* where the call starts in the file
         h |-> -1, buffer |-> <<>>, len |-> 0, todo |-> 0, done |-> 0, old |-> <<>>]

NoReturn == [op |-> "none", val |-> 0]

Frame == [op : Ops \cup {"none"}, at : Places, path : Paths \cup {NoPath},
          flags : OpenFlags \cup {{}}, inum : Inumbers \cup {-1},
          offset : 0 .. MAXIMUM_FILE_BYTES, h : Handles \cup {-1},
          buffer : Seq(Chars), len : Nat, todo : Nat, done : Nat, old : Seq(Chars)]

TypeOK ==
  /\ Ex1StateTypeOK
  /\ lock_fhandle \in [Handles -> RwLock]
  /\ lock_inumber \in [Inumbers -> RwLock]
  /\ frame \in [Threads -> Frame]
  /\ held \in SUBSET Handles
  /\ ret \in [op : Ops \cup {"none"}, val : Int]
  /\ {wild, destroyed, undercut, wrapped} \subseteq BOOLEAN

Init ==
  /\ Ex1RootCreated
  /\ lock_fhandle = [h \in Handles |-> [m \in Modes |-> {}]]
  /\ lock_inumber = [i \in Inumbers |-> [m \in Modes |-> {}]]
  /\ frame = [t \in Threads |-> Idle]
  /\ held = {}
  /\ ret = NoReturn
  /\ wild = FALSE /\ destroyed = FALSE /\ undercut = FALSE /\ wrapped = FALSE

----------------------------------------------------------------------------
(* Helpers.                                                                *)

\* Read-write locks.
CanTake(lock, i, mode) ==
  lock[i]["writers"] = {} /\ (mode = "writers" => lock[i]["readers"] = {})

Locked(lock, i, mode, t) == [lock EXCEPT ![i][mode] = @ \cup {t}]

Unlocked(lock, i, t) == [lock EXCEPT ![i] = [m \in Modes |-> @[m] \ {t}]]

\* A file may be using blocks that are not its own.
Astray == undercut \/ wrapped

Stopped == wild \/ destroyed \/ (Astray /\ ~AFTER_ASTRAY)

At(t, place) == frame[t].at = place /\ ~Stopped

Goto(t, f) == frame' = [frame EXCEPT ![t] = f] /\ ret' = NoReturn

Returns(t, op, val) ==
  frame' = [frame EXCEPT ![t] = Idle] /\ ret' = [op |-> op, val |-> val]

size_sub(a, b) == IF b <= a THEN a - b ELSE a - b + SIZE_MOD

Open(h) == free_open_file_entries[h] = "TAKEN"

\* What the call of t reads from its open-file entry, each time it needs it.
Inum(t)   == open_file_table[frame[t].h].of_inumber
Offset(t) == open_file_table[frame[t].h].of_offset
Size(t)   == inode_table[Inum(t)].i_size

\* Mutant: the i-node stays locked.
UnlockBoth_handle_only(t) ==
  /\ lock_fhandle' = Unlocked(lock_fhandle, frame[t].h, t)
  /\ UNCHANGED lock_inumber

UnlockBoth(t) ==
  /\ lock_inumber' = Unlocked(lock_inumber, Inum(t), t)
  /\ lock_fhandle' = Unlocked(lock_fhandle, frame[t].h, t)

\* The bytes of file i.
Contents(i) ==
  [k \in 1 .. inode_table[i].i_size |->
     fs_data[get_inode_block(Disk(i), (k - 1) \div BLOCK_SIZE)][(k - 1) % BLOCK_SIZE]]

----------------------------------------------------------------------------
(* tfs_lookup, tfs_open and tfs_close.                                     *)

valid_pathname(path) == path.abs /\ path.sub # ""

lookup(path) == IF valid_pathname(path) THEN find_in_dir(ROOT_DIR_INUM, path.sub) ELSE -1

tfs_lookup(t, path) ==
  /\ At(t, "idle")
  /\ Returns(t, "lookup", lookup(path))
  /\ UNCHANGED <<state_vars, locks, held, history>>

\* tfs_open, with frame f, until its tfs_lookup has returned.  What it found is
\* acted upon under other locks.
LooksUp(t, f) ==
  LET inum    == lookup(f.path)
      creates == inum = -1 /\ valid_pathname(f.path) /\ "CREAT" \in f.flags
  IN
  /\ \/ inum >= 0 /\ Goto(t, [f EXCEPT !.at = "existing", !.path = NoPath, !.inum = inum])
     \/ creates /\ Goto(t, [f EXCEPT !.at = "create"])
     \/ inum = -1 /\ ~creates /\ Returns(t, f.op, -1)
  /\ UNCHANGED <<state_vars, locks, held, history>>

tfs_open(t, path, flags) ==
  /\ At(t, "idle")
  /\ LooksUp(t, [Idle EXCEPT !.op = "open", !.path = path, !.flags = flags])

\* The i-node is locked for reading, also when it will be truncated.
LockExisting(t) ==
  LET f == frame[t] IN
  /\ At(t, "existing")
  /\ CanTake(lock_inumber, f.inum, "readers")
  /\ lock_inumber' = Locked(lock_inumber, f.inum, "readers", t)
  /\ Goto(t, [f EXCEPT !.at = IF "TRUNC" \in f.flags THEN "truncate" ELSE "position"])
  /\ UNCHANGED <<state_vars, lock_fhandle, held, history>>

\* A handle is past the start of file i, a call is reading through one, or a
\* call is about to get one: its place in the file outlives a truncation.
PastStart(i) ==
  \/ \E h \in Handles : /\ Open(h) /\ open_file_table[h].of_inumber = i
                        /\ \/ open_file_table[h].of_offset > 0
                           \/ \E u \in Threads : /\ frame[u].h = h
                                                 /\ frame[u].at \in {"loop", "advance"}
  \/ \E u \in Threads : frame[u].at = "add" /\ frame[u].inum = i /\ frame[u].offset > 0

\* Under lock_blocks.
Truncate(t) ==
  LET i == frame[t].inum IN
  /\ At(t, "truncate")
  /\ free_blocks' = truncate_file(i)
  /\ undercut' = (undercut \/ (inode_table[i].i_size > 0 /\ PastStart(i)))
  /\ \/ /\ TruncateOK(i)
        /\ inode_table' = [inode_table EXCEPT ![i].i_size = 0]
        /\ Goto(t, [frame[t] EXCEPT !.at = "position"])
        /\ UNCHANGED lock_inumber
     \/ /\ ~TruncateOK(i)
        /\ lock_inumber' = Unlocked(lock_inumber, i, t)
        /\ Returns(t, frame[t].op, -1)
        /\ UNCHANGED inode_table
  /\ UNCHANGED <<freeinode_ts, fs_data, dir_entry, open_vars, lock_fhandle, held, wild,
                 destroyed, wrapped>>

\* Mutant: the i-node stays locked.
Position_locked(t) ==
  LET i == frame[t].inum IN
  /\ At(t, "position")
  /\ Goto(t, [Idle EXCEPT !.op = frame[t].op, !.at = "add", !.inum = i,
                !.offset = IF "APPEND" \in frame[t].flags THEN inode_table[i].i_size ELSE 0])
  /\ UNCHANGED <<state_vars, locks, held, history>>

Position(t) ==
  LET i == frame[t].inum IN
  /\ At(t, "position")
  /\ lock_inumber' = Unlocked(lock_inumber, i, t)
  /\ Goto(t, [Idle EXCEPT !.op = frame[t].op, !.at = "add", !.inum = i,
                !.offset = IF "APPEND" \in frame[t].flags THEN inode_table[i].i_size ELSE 0])
  /\ UNCHANGED <<state_vars, lock_fhandle, held, history>>

\* Mutant: lock_allock is taken after the free i-node was found.
Create_found_first(t) ==
  LET i == frame[t].inum  sub == frame[t].path.sub IN
  /\ At(t, "create")
  /\ inode_create # -1 /\ CanAddEntry(ROOT_DIR_INUM, sub)
  /\ \/ /\ i = -1
        /\ Goto(t, [frame[t] EXCEPT !.inum = inode_create])
        /\ UNCHANGED <<inode_vars, dir_entry>>
     \/ /\ i # -1
        /\ freeinode_ts' = [freeinode_ts EXCEPT ![i] = "TAKEN"]
        /\ inode_table' = Created(i)
        /\ dir_entry' = add_dir_entry(i, sub)
        /\ Goto(t, [Idle EXCEPT !.op = "open", !.at = "add", !.inum = i])
  /\ UNCHANGED <<block_vars, open_vars, locks, held, history>>

\* Under lock_allock: the first free i-node and directory slot are taken.  The
\* name is not looked up again.
Create(t) ==
  LET i == inode_create  sub == frame[t].path.sub IN
  /\ At(t, "create")
  /\ i # -1 /\ CanAddEntry(ROOT_DIR_INUM, sub)
  /\ freeinode_ts' = TakeFirst(freeinode_ts)
  /\ inode_table' = Created(i)
  /\ dir_entry' = add_dir_entry(i, sub)
  /\ Goto(t, [Idle EXCEPT !.op = "open", !.at = "add", !.inum = i])
  /\ UNCHANGED <<block_vars, open_vars, locks, held, history>>

\* Mutant: inode_delete is forgotten.
CreateFails_kept(t) ==
  /\ At(t, "create")
  /\ inode_create = -1 \/ ~CanAddEntry(ROOT_DIR_INUM, frame[t].path.sub)
  /\ inode_table' = IF inode_create = -1 THEN inode_table ELSE Created(inode_create)
  /\ freeinode_ts' = TakeFirst(freeinode_ts)
  /\ Returns(t, "open", -1)
  /\ UNCHANGED <<block_vars, dir_entry, open_vars, locks, held, history>>

\* No i-node is left, or no directory slot: inode_delete gives the i-node back,
\* which has no block to free.
CreateFails(t) ==
  /\ At(t, "create")
  /\ inode_create = -1 \/ ~CanAddEntry(ROOT_DIR_INUM, frame[t].path.sub)
  /\ inode_table' = IF inode_create = -1 THEN inode_table ELSE Created(inode_create)
  /\ Returns(t, "open", -1)
  /\ UNCHANGED <<freeinode_ts, block_vars, dir_entry, open_vars, locks, held, history>>

\* add_to_open_file_table, under lock_fhandle_all.  tfs_open returns the handle;
\* tfs_copy_to_external_fs goes on with it and never closes it.
Add(t) ==
  LET f == frame[t]
      h == First(FreeIn(free_open_file_entries))
  IN
  /\ At(t, "add")
  /\ free_open_file_entries' = TakeFirst(free_open_file_entries)
  /\ open_file_table' =
       [g \in Handles |-> IF g = h THEN [of_inumber |-> f.inum, of_offset |-> f.offset]
                                   ELSE open_file_table[g]]
  /\ \/ h = -1 /\ Returns(t, f.op, -1) /\ UNCHANGED held
     \/ h # -1 /\ f.op = "open" /\ Returns(t, "open", h) /\ held' = held \cup {h}
     \/ h # -1 /\ f.op = "copy" /\ UNCHANGED held
        /\ Goto(t, [Idle EXCEPT !.op = "copy", !.at = "size", !.h = h])
  /\ UNCHANGED <<inode_vars, block_vars, dir_entry, locks, history>>

\* Mutant: the entry is not freed.
tfs_close_kept(t, h) ==
  /\ At(t, "idle")
  /\ h \in held /\ \A u \in Threads : frame[u].h # h
  /\ held' = held \ {h}
  /\ Returns(t, "close", 0)
  /\ UNCHANGED <<state_vars, locks, history>>

\* Callers close a handle when no call uses it any more.
tfs_close(t, h) ==
  /\ At(t, "idle")
  /\ \/ /\ h \in held /\ \A u \in Threads : frame[u].h # h
        /\ free_open_file_entries' = Release(free_open_file_entries, h)
        /\ held' = held \ {h}
        /\ Returns(t, "close", 0)
     \/ /\ h \notin Handles
        /\ Returns(t, "close", -1)
        /\ UNCHANGED <<free_open_file_entries, held>>
  /\ UNCHANGED <<inode_vars, block_vars, dir_entry, open_file_table, locks, history>>

\* The locks are no more: callers destroy when no call is under way.
tfs_destroy(t) ==
  /\ At(t, "idle") /\ \A u \in Threads : frame[u].at = "idle"
  /\ destroyed' = TRUE
  /\ Returns(t, "destroy", 0)
  /\ UNCHANGED <<state_vars, locks, held, wild, undercut, wrapped>>

----------------------------------------------------------------------------
(* tfs_write and tfs_read.                                                 *)

\* The call begins: an invalid handle is refused, any other is locked next.
Begins(t, f) ==
  /\ At(t, "idle")
  /\ \/ f.h \in held /\ Goto(t, [f EXCEPT !.at = "handle"])
     \/ f.h \notin Handles /\ Returns(t, f.op, -1)
  /\ UNCHANGED <<state_vars, locks, held, history>>

tfs_write(t, h, buffer) == Begins(t, [Idle EXCEPT !.op = "write", !.h = h, !.buffer = buffer])
tfs_read(t, h, len)     == Begins(t, [Idle EXCEPT !.op = "read", !.h = h, !.len = len])

\* Mutant: no lock, so two calls use the handle at once.
LockHandle_unlocked(t) ==
  /\ At(t, "handle")
  /\ Goto(t, [frame[t] EXCEPT !.at = "inode"])
  /\ UNCHANGED <<state_vars, locks, held, history>>

LockHandle(t) ==
  /\ At(t, "handle")
  /\ CanTake(lock_fhandle, frame[t].h, "writers")
  /\ lock_fhandle' = Locked(lock_fhandle, frame[t].h, "writers", t)
  /\ Goto(t, [frame[t] EXCEPT !.at = "inode"])
  /\ UNCHANGED <<state_vars, lock_inumber, held, history>>

Writing(t) == frame[t].op = "write"

\* Locks the i-node and begins to access todo bytes.
Locks(t, mode, todo) ==
  /\ lock_inumber' = Locked(lock_inumber, Inum(t), mode, t)
  /\ Goto(t, [frame[t] EXCEPT !.at = "loop", !.todo = todo, !.offset = Offset(t),
                !.old = IF Astray THEN <<>> ELSE Contents(Inum(t))])
  /\ UNCHANGED <<state_vars, lock_fhandle, held, history>>

\* Mutant: a writer shares the i-node with others.
LockForWrite_shared(t) ==
  LET len == Len(frame[t].buffer) IN
  /\ At(t, "inode") /\ Writing(t)
  /\ CanTake(lock_inumber, Inum(t), "readers")
  /\ Locks(t, "readers", IF len + Offset(t) > MAXIMUM_FILE_BYTES
                         THEN size_sub(MAXIMUM_FILE_BYTES, Offset(t)) ELSE len)

LockForWrite(t) ==
  LET len == Len(frame[t].buffer) IN
  /\ At(t, "inode") /\ Writing(t)
  /\ CanTake(lock_inumber, Inum(t), "writers")
  /\ Locks(t, "writers", IF len + Offset(t) > MAXIMUM_FILE_BYTES
                         THEN size_sub(MAXIMUM_FILE_BYTES, Offset(t)) ELSE len)

to_read(t) == IF size_sub(Size(t), Offset(t)) > frame[t].len
              THEN frame[t].len ELSE size_sub(Size(t), Offset(t))

\* Mutant: len is tested, not the number of bytes there are.
LockForRead_asked(t) ==
  /\ At(t, "inode") /\ ~Writing(t)
  /\ CanTake(lock_inumber, Inum(t), "readers")
  /\ \/ Offset(t) + frame[t].len < MAXIMUM_FILE_BYTES /\ Locks(t, "readers", to_read(t))
     \/ /\ Offset(t) + frame[t].len >= MAXIMUM_FILE_BYTES
        /\ lock_fhandle' = Unlocked(lock_fhandle, frame[t].h, t)
        /\ Returns(t, frame[t].op, -1)
        /\ UNCHANGED <<state_vars, lock_inumber, held, history>>

\* A read that would end at the largest file size, or past it, is refused.
LockForRead(t) ==
  /\ At(t, "inode") /\ ~Writing(t)
  /\ CanTake(lock_inumber, Inum(t), "readers")
  /\ \/ Offset(t) + to_read(t) < MAXIMUM_FILE_BYTES /\ Locks(t, "readers", to_read(t))
     \/ /\ Offset(t) + to_read(t) >= MAXIMUM_FILE_BYTES
        /\ lock_fhandle' = Unlocked(lock_fhandle, frame[t].h, t)
        /\ Returns(t, frame[t].op, -1)
        /\ UNCHANGED <<state_vars, lock_inumber, held, history>>

\* Mutant: the rest is taken to be in one block.
Piece_whole(t) == frame[t].todo - frame[t].done

\* The bytes to access next, all in one block.
Piece(t) ==
  LET rest == frame[t].todo - frame[t].done
      room == BLOCK_SIZE - (Offset(t) % BLOCK_SIZE)
  IN IF rest > room THEN room ELSE rest

BlockId(t) == Offset(t) \div BLOCK_SIZE

\* The call goes on in its loop, with a piece left.
InLoop(t) == At(t, "loop") /\ frame[t].done < frame[t].todo

BlockFails(t) == UnlockBoth(t) /\ Returns(t, frame[t].op, -1)

DirectoryBlock == inode_table[ROOT_DIR_INUM].i_data_direct[0]

\* The file ends where the next piece and a block begin.
Allocates(t) == Offset(t) = Size(t) /\ Size(t) % BLOCK_SIZE = 0

\* The disk on which the next piece is written, with one more block if need be.
DiskToWrite(t) ==
  IF Allocates(t)
  THEN inumber_block_alloc(Disk(Inum(t))) ELSE Disk(Inum(t))

\* Under lock_blocks.  A block that was allocated stays so when its number,
\* stored as a char, is not the number of a block any more.
WriteBlock(t) ==
  LET disk  == DiskToWrite(t)
      block == get_inode_block(disk, BlockId(t))
      bytes == SubSeq(frame[t].buffer, frame[t].done + 1, frame[t].done + Piece(t))
      after == IF valid_block_number(block)
               THEN Stored(disk, BlockId(t), Offset(t) % BLOCK_SIZE, bytes) ELSE disk
  IN
  /\ InLoop(t) /\ Writing(t)
  /\ \/ /\ NullIndirect(disk, BlockId(t))
        /\ wild' = TRUE
        /\ UNCHANGED <<state_vars, locks, frame, ret, wrapped>>
     \/ /\ ~NullIndirect(disk, BlockId(t))
        /\ wild' = (block = DirectoryBlock)
        /\ wrapped' = (wrapped \/ (Allocates(t) /\ ComesBackAsAnother(Disk(Inum(t)))))
        /\ inode_table' = [inode_table EXCEPT ![Inum(t)] = after.inode]
        /\ free_blocks' = after.free
        /\ fs_data' = after.data
        /\ IF valid_block_number(block)
           THEN Goto(t, [frame[t] EXCEPT !.at = "advance"]) /\ UNCHANGED locks
           ELSE BlockFails(t)
        /\ UNCHANGED <<freeinode_ts, dir_entry, open_vars>>
  /\ UNCHANGED <<held, destroyed, undercut>>

\* Under lock_blocks, for reading: what the block holds now is copied.
ReadBlock(t) ==
  LET block == get_inode_block(Disk(Inum(t)), BlockId(t))
      bytes == [k \in 1 .. Piece(t) |-> fs_data[block][(Offset(t) % BLOCK_SIZE) + k - 1]]
  IN
  /\ InLoop(t) /\ ~Writing(t)
  /\ wild' = (block = DirectoryBlock)
  /\ IF valid_block_number(block)
     THEN Goto(t, [frame[t] EXCEPT !.at = "advance", !.buffer = @ \o bytes]) /\ UNCHANGED locks
     ELSE BlockFails(t)
  /\ UNCHANGED <<state_vars, held, destroyed, undercut, wrapped>>

\* Mutant: i_size is set by the first piece only.
Advance_once(t) ==
  LET offset == Offset(t) + Piece(t) IN
  /\ At(t, "advance")
  /\ open_file_table' = [open_file_table EXCEPT ![frame[t].h].of_offset = offset]
  /\ inode_table' = [inode_table EXCEPT ![Inum(t)].i_size = IF @ = 0 THEN offset ELSE @]
  /\ Goto(t, [frame[t] EXCEPT !.at = "loop", !.done = @ + Piece(t)])
  /\ UNCHANGED <<freeinode_ts, block_vars, dir_entry, free_open_file_entries, locks, held, history>>

\* After lock_blocks was released: the handle moves on, and takes the size of
\* the file along.
Advance(t) ==
  LET offset == Offset(t) + Piece(t) IN
  /\ At(t, "advance")
  /\ open_file_table' = [open_file_table EXCEPT ![frame[t].h].of_offset = offset]
  /\ inode_table' = [inode_table EXCEPT ![Inum(t)].i_size = IF offset > @ THEN offset ELSE @]
  /\ Goto(t, [frame[t] EXCEPT !.at = "loop", !.done = @ + Piece(t)])
  /\ UNCHANGED <<freeinode_ts, block_vars, dir_entry, free_open_file_entries, locks, held, history>>

\* All is accessed.  A copy succeeds if it read as many bytes as the file had
\* when it asked for the size, and if the file outside takes them.
Return(t) ==
  LET f == frame[t] IN
  /\ At(t, "loop") /\ f.done = f.todo
  /\ UnlockBoth(t)
  /\ \/ f.op # "copy" /\ Returns(t, f.op, f.todo)
     \/ f.op = "copy" /\ f.todo = f.len /\ Returns(t, "copy", 0)
     \/ f.op = "copy" /\ Returns(t, "copy", -1)
  /\ UNCHANGED <<state_vars, held, history>>

----------------------------------------------------------------------------
(* tfs_copy_to_external_fs.                                                *)

\* The file outside is opened, or cannot be; the name is looked up, and then
\* again by tfs_open.
tfs_copy_to_external_fs(t, path) ==
  /\ At(t, "idle")
  /\ \/ lookup(path) # -1 /\ Goto(t, [Idle EXCEPT !.op = "copy", !.at = "lookup", !.path = path])
     \/ Returns(t, "copy", -1)
  /\ UNCHANGED <<state_vars, locks, held, history>>

CopyOpens(t) == At(t, "lookup") /\ LooksUp(t, frame[t])

\* The handle, which nobody else has, and the i-node are locked for reading
\* while the size is read.
CopySize(t) ==
  /\ At(t, "size")
  /\ CanTake(lock_fhandle, frame[t].h, "readers") /\ CanTake(lock_inumber, Inum(t), "readers")
  /\ Goto(t, [frame[t] EXCEPT !.at = "handle", !.len = Size(t)])
  /\ UNCHANGED <<state_vars, locks, held, history>>

----------------------------------------------------------------------------

\* The steps of a thread that is inside a call.
Step(t) ==
  \/ LockExisting(t) \/ Truncate(t) \/ Position(t)
  \/ Create(t) \/ CreateFails(t) \/ Add(t)
  \/ LockHandle(t) \/ LockForWrite(t) \/ LockForRead(t)
  \/ WriteBlock(t) \/ ReadBlock(t) \/ Advance(t) \/ Return(t)
  \/ CopyOpens(t) \/ CopySize(t)

Call(t) ==
  \/ tfs_destroy(t)
  \/ \E path \in Paths : tfs_lookup(t, path)
  \/ \E path \in CopyPaths : tfs_copy_to_external_fs(t, path)
  \/ \E path \in Paths, flags \in OpenFlags : tfs_open(t, path, flags)
  \/ \E h \in Handles \cup {-1} :
       \/ tfs_close(t, h)
       \/ \E buffer \in Buffers : tfs_write(t, h, buffer)
       \/ \E len \in Lens : tfs_read(t, h, len)

Next == \E t \in Threads : Step(t) \/ Call(t)

Spec == Init /\ [][Next]_vars

\* A thread inside a call goes on with it when it can.
FairSpec == Spec /\ \A t \in Threads : WF_vars(Step(t))

----------------------------------------------------------------------------
(* Properties.  A truncation of a file while a handle is past its start    *)
(* takes the blocks from under that handle (undercut), and a block number  *)
(* stored as a char may come back as another block's (wrapped): what a     *)
(* file holds is promised until then, the rest always.                     *)

IsTaken(i) == freeinode_ts[i] = "TAKEN"

\* The blocks a file needs to be read: those below its size, and -1 for the
\* indirect block once it is past its direct blocks.
Needs(i) == BlockIds(i) \cup
            (IF inode_table[i].i_size > NUMBER_DIRECT_BLOCKS * BLOCK_SIZE THEN {-1} ELSE {})

BlockOf(i, id) == IF id = -1 THEN inode_table[i].i_data_indirect ELSE get_inode_block(Disk(i), id)

\* Whatever the threads write, create and truncate at the same time, and also
\* when blocks run out in the middle of a write, the blocks of the files, direct
\* and indirect, are blocks, marked taken, each used once by one file.
BlockOwnership == ~Astray =>
  \A i \in Inumbers : IsTaken(i) => \A id \in Needs(i) :
    /\ BlockOf(i, id) \in Blocks /\ free_blocks[BlockOf(i, id)] = "TAKEN"
    /\ \A j \in Inumbers : IsTaken(j) => \A k \in Needs(j) :
         BlockOf(i, id) = BlockOf(j, k) => i = j /\ id = k

\* Taken blocks that no file needs, and no writer has just filled.
Lost == {b \in Blocks :
  /\ free_blocks[b] = "TAKEN"
  /\ \A i \in Inumbers : IsTaken(i) => \A id \in Needs(i) : BlockOf(i, id) # b
  /\ \A t \in Threads : frame[t].at = "advance" /\ Writing(t) =>
       BlockOf(Inum(t), BlockId(t)) # b}

\* The step loses indirect block b: the truncated file needed it, or no block was
\* left for the data when it had been taken.
LosesIndirect(b) == \E i \in Inumbers :
  /\ inode_table'[i].i_data_indirect = b
  /\ free_blocks[b] = "FREE" \/ (IsTaken(i) /\ -1 \in Needs(i))

\* The step loses block b past the direct ones: its number does not fit the char
\* it is stored in.
LosesNumber(b) ==
  /\ free_blocks[b] = "FREE" /\ to_char(b) # b
  /\ \E t \in Threads : /\ frame[t].at = "loop" /\ frame'[t] # frame[t]
                        /\ Writing(t) /\ BlockId(t) >= NUMBER_DIRECT_BLOCKS

\* Until blocks go astray, no block is lost by a truncation or by a write that
\* fails half-way, but for the two kinds the code does lose.  state.c has
\* truncate_file free "each previously allocated block" (190): an indirect block
\* it does not, and no one does.
LosesNoOther ==
  [][\A b \in Lost' \ Lost : Astray' \/ LosesIndirect(b) \/ LosesNumber(b)]_vars

\* The bytes the call of t has moved so far.
Moved(t) == frame[t].done + (IF frame[t].at = "advance" THEN Piece(t) ELSE 0)

\* A call works block by block, and yet the others cannot tell: from the lock of
\* the i-node on, nobody but the call moves its handle; what a read has copied,
\* and will copy, is the file as it was then; and a write has changed its own
\* bytes of the file only, in order.
CallsAreAtomic == ~Astray /\ ~wild =>
  \A t \in Threads : frame[t].at \in {"loop", "advance"} =>
    LET f == frame[t]
        Mine(k) == k > f.offset /\ k <= f.offset + Moved(t)
    IN
    /\ Offset(t) = f.offset + f.done
    /\ IF Writing(t)
       THEN Contents(Inum(t)) = [k \in 1 .. Size(t) |-> IF Mine(k) THEN f.buffer[k - f.offset]
                                                                 ELSE f.old[k]]
       ELSE /\ Contents(Inum(t)) = f.old
            /\ f.buffer = SubSeq(f.old, f.offset + 1, f.offset + Moved(t))

\* A file grows only under a writer of its own, although tfs_read also moves
\* i_size up to the offset, holding the lock for reading.
OnlyWritersGrow ==
  [][\A i \in Inumbers : ~undercut /\ inode_table'[i].i_size > inode_table[i].i_size =>
       lock_inumber[i]["writers"] # {}]_vars

\* An open handle is inside its file.
OffsetWithinFile == ~undercut =>
  \A h \in Handles : Open(h) =>
    open_file_table[h].of_offset <= inode_table[open_file_table[h].of_inumber].i_size

\* While others write to the file, and until a truncation undercuts a handle, a
\* read through a valid handle is refused in one case only, in which the code
\* departs from what operations.h says of tfs_read (71-78): the file has the
\* largest size.
OnlyFullFilesRefuse ==
  [][\A t \in Threads :
       /\ ~Astray /\ frame[t].op = "read" /\ frame[t].at \in {"inode", "loop"}
       /\ frame'[t] = Idle /\ ret'.val = -1
       => Size(t) = MAXIMUM_FILE_BYTES]_vars

\* Open handles that nobody can close any more.
Orphans == {h \in Handles : Open(h) /\ h \notin held /\ \A t \in Threads : frame[t].h # h}

\* The handle table is used up by tfs_copy_to_external_fs only: no other call
\* leaves a handle open that no caller has.
OnlyCopiesLeaveHandles ==
  [][\A h \in Orphans' \ Orphans : \E t \in Threads : frame[t].op = "copy" /\ frame[t].h = h]_vars

HoldsInode(t, i) ==
  \/ frame[t].at \in {"truncate", "position"} /\ frame[t].inum = i
  \/ frame[t].at \in {"loop", "advance"} /\ Inum(t) = i

HoldsHandle(t, h) == frame[t].at \in {"inode", "loop", "advance"} /\ frame[t].h = h

\* A thread holds the locks its place in the code calls for and no other: every
\* return, the early ones too, has unlocked what the call had locked, although
\* the i-number is read again from the open-file table to unlock.
UnlocksWhatItLocked == \A t \in Threads :
  /\ \A i \in Inumbers : (\E m \in Modes : t \in lock_inumber[i][m]) <=> HoldsInode(t, i)
  /\ \A h \in Handles : (\E m \in Modes : t \in lock_fhandle[h][m]) <=> HoldsHandle(t, h)

\* Creations, also of two threads that both found the name missing, and the undoing
\* of one that failed leave each file but the root in exactly one entry, and no
\* entry or open handle without its file.
DirectoryConsistent ==
  /\ \A i \in Inumbers \ {ROOT_DIR_INUM} :
       Cardinality({s \in DirSlots : dir_entry[s].d_inumber = i}) = IF IsTaken(i) THEN 1 ELSE 0
  /\ \A h \in Handles : Open(h) => /\ open_file_table[h].of_inumber # ROOT_DIR_INUM
                                   /\ IsTaken(open_file_table[h].of_inumber)

NewCall(t) == frame[t].at = "idle" /\ frame'[t].at # "idle"

\* Nobody waits for ever: when no more calls are made, all that were made return.
CallsReturn ==
  <>[][\A t \in Threads : ~NewCall(t)]_vars =>
    []<>(Stopped \/ \A t \in Threads : frame[t].at = "idle")

\* "create file if it does not exist (TFS_O_CREAT)" (operations.h): a name is
\* in one entry of the directory at most.
NamesUnique == \A s, r \in DirSlots \ EmptySlots :
  dir_entry[s].d_name = dir_entry[r].d_name => s = r

============================================================================
