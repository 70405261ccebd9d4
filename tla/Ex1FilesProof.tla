---------------------------- MODULE Ex1FilesProof ----------------------------
(***************************************************************************)
(* What keeps the handles of the first exercise inside their files: who    *)
(* excludes whom, and how far each call has come.                          *)
(***************************************************************************)
EXTENDS Ex1Proof

----------------------------------------------------------------------------
(* What a step does to the frames.                                         *)

\* The other threads stay where they are.
Others(t) == \A u \in Threads : u # t => frame'[u] = frame[u]

\* Thread t goes to a place, and of its frame only the fields in S change.
GoesTo(t, place, S) ==
  /\ Others(t)
  /\ frame'[t].at = place
  /\ \A x \in Fields : x = "at" \/ x \in S \/ frame'[t][x] = frame[t][x]

\* A step of t replaces the frame of t.
LEMMA FrameReplaced ==
  ASSUME Ex1Inv, NEW t \in Threads, NEW g, frame' = [frame EXCEPT ![t] = g]
  PROVE  frame'[t] = g /\ Others(t)
BY DEF Ex1Inv, Others

\* A call that returns.
LEMMA ReturnsIdle ==
  ASSUME Ex1Inv, NEW t \in Threads, NEW op, NEW val, Returns(t, op, val)
  PROVE  frame'[t] = Idle /\ Others(t) /\ Idle.at = "idle"
BY FrameReplaced DEF Returns, Idle

\* A call that goes on with some fields changed.
LEMMA GotoPlace ==
  ASSUME Ex1Inv, NEW t \in Threads, NEW place, Goto(t, [frame[t] EXCEPT !.at = place])
  PROVE  GoesTo(t, place, {})
<1> DEFINE g == [frame[t] EXCEPT !.at = place]
<1>1. IsFrame(frame[t])
  BY DEF Ex1Inv, FrameOK
<1>2. g.at = place /\ \A x \in Fields : x = "at" \/ g[x] = frame[t][x]
  BY <1>1 DEF IsFrame, Fields
<1> HIDE DEF g
<1>3. frame' = [frame EXCEPT ![t] = g]
  BY DEF Goto, g
<1> QED
  BY <1>2, <1>3, FrameReplaced DEF GoesTo

\* A call that begins works on nothing yet but, for tfs_write and tfs_read, a
\* handle that a caller has.
LEMMA CallEffect ==
  ASSUME Ex1Inv, NEW t \in Threads, Call(t)
  PROVE  /\ frame[t].at = "idle" /\ Others(t)
         /\ UNCHANGED <<inode_vars, block_vars, dir_entry, open_file_table, locks, undercut, wrapped>>
         /\ \/ frame'[t].at \in {"idle", "lookup", "existing", "create"}
            \/ /\ frame'[t].at = "handle"
               /\ frame'[t].done = 0
               /\ \/ /\ frame'[t].op = "write" /\ frame'[t].buffer \in Buffers
                     /\ frame'[t].len = 0
                  \/ /\ frame'[t].op = "read" /\ frame'[t].buffer = <<>>
                     /\ frame'[t].len \in Lens
<1>1. ASSUME NEW path, tfs_lookup(t, path)
      PROVE  frame[t].at = "idle" /\ frame'[t] = Idle /\ Others(t)
  BY <1>1, ReturnsIdle DEF tfs_lookup, At
<1>2. ASSUME tfs_destroy(t)
      PROVE  frame[t].at = "idle" /\ frame'[t] = Idle /\ Others(t)
  BY <1>2, ReturnsIdle DEF tfs_destroy, At
<1>3. ASSUME NEW h, tfs_close(t, h)
      PROVE  frame[t].at = "idle" /\ frame'[t] = Idle /\ Others(t)
  BY <1>3, ReturnsIdle DEF tfs_close, At
<1>4. ASSUME NEW path, tfs_copy_to_external_fs(t, path)
      PROVE  frame[t].at = "idle" /\ frame'[t].at \in {"idle", "lookup"} /\ Others(t)
  <2> DEFINE g == [Idle EXCEPT !.op = "copy", !.at = "lookup", !.path = path]
  <2>1. g.at = "lookup"
    BY DEF Idle
  <2> HIDE DEF g
  <2>2. Goto(t, g) \/ Returns(t, "copy", -1)
    BY <1>4 DEF tfs_copy_to_external_fs, g
  <2> QED
    BY <1>4, <2>1, <2>2, ReturnsIdle, FrameReplaced DEF tfs_copy_to_external_fs, At, Goto
<1>5. ASSUME NEW path, NEW flags, tfs_open(t, path, flags)
      PROVE  frame[t].at = "idle" /\ frame'[t].at \in {"idle", "existing", "create"} /\ Others(t)
  <2> DEFINE f == [Idle EXCEPT !.op = "open", !.path = path, !.flags = flags]
             g(inum) == [f EXCEPT !.at = "existing", !.path = NoPath, !.inum = inum]
             c == [f EXCEPT !.at = "create"]
  <2>1. \A inum : g(inum).at = "existing"
    BY DEF Idle
  <2>2. c.at = "create"
    BY DEF Idle
  <2>3. LooksUp(t, f)
    BY <1>5 DEF tfs_open
  <2> HIDE DEF f
  <2>4. (\E inum : Goto(t, g(inum))) \/ Goto(t, c) \/ Returns(t, f.op, -1)
    BY <2>3 DEF LooksUp
  <2> HIDE DEF g, c
  <2> QED
    BY <1>5, <2>1, <2>2, <2>4, ReturnsIdle, FrameReplaced DEF tfs_open, At, Goto
<1>6. ASSUME NEW f, IsFrame(f), Begins(t, f)
      PROVE  /\ frame[t].at = "idle" /\ Others(t)
             /\ \/ frame'[t].at = "idle"
                \/ /\ frame'[t].at = "handle" /\ frame'[t].op = f.op /\ frame'[t].done = f.done
                   /\ frame'[t].buffer = f.buffer /\ frame'[t].len = f.len
  <2> DEFINE g == [f EXCEPT !.at = "handle"]
  <2>1. g.at = "handle" /\ g.op = f.op /\ g.buffer = f.buffer /\ g.len = f.len /\ g.done = f.done
    BY <1>6 DEF IsFrame, Fields
  <2> HIDE DEF g
  <2>2. Goto(t, g) \/ Returns(t, f.op, -1)
    BY <1>6 DEF Begins, g
  <2> QED
    BY <1>6, <2>1, <2>2, ReturnsIdle, FrameReplaced DEF Begins, At, Goto
<1>7. ASSUME NEW h, NEW buffer \in Buffers, tfs_write(t, h, buffer)
      PROVE  /\ frame[t].at = "idle" /\ Others(t)
             /\ \/ frame'[t].at = "idle"
                \/ /\ frame'[t].at = "handle" /\ frame'[t].op = "write" /\ frame'[t].done = 0
                   /\ frame'[t].buffer \in Buffers /\ frame'[t].len = 0
  <2> DEFINE f == [Idle EXCEPT !.op = "write", !.h = h, !.buffer = buffer]
  <2>1. IsFrame(f) /\ f.op = "write" /\ f.buffer = buffer /\ f.len = 0 /\ f.done = 0
    BY DEF IsFrame, Fields, Idle
  <2> HIDE DEF f
  <2>2. Begins(t, f)
    BY <1>7 DEF tfs_write, f
  <2> QED
    BY <2>1, <2>2, <1>6
<1>8. ASSUME NEW h, NEW len \in Lens, tfs_read(t, h, len)
      PROVE  /\ frame[t].at = "idle" /\ Others(t)
             /\ \/ frame'[t].at = "idle"
                \/ /\ frame'[t].at = "handle" /\ frame'[t].op = "read" /\ frame'[t].done = 0
                   /\ frame'[t].buffer = <<>> /\ frame'[t].len \in Lens
  <2> DEFINE f == [Idle EXCEPT !.op = "read", !.h = h, !.len = len]
  <2>1. IsFrame(f) /\ f.op = "read" /\ f.buffer = <<>> /\ f.len = len /\ f.done = 0
    BY DEF IsFrame, Fields, Idle
  <2> HIDE DEF f
  <2>2. Begins(t, f)
    BY <1>8 DEF tfs_read, f
  <2> QED
    BY <2>1, <2>2, <1>6
<1>9. UNCHANGED <<inode_vars, block_vars, dir_entry, open_file_table, locks, undercut, wrapped>>
  BY DEF Call, tfs_lookup, tfs_destroy, tfs_close, tfs_copy_to_external_fs, tfs_open, LooksUp,
         tfs_write, tfs_read, Begins, state_vars, open_vars, history
<1>10. Idle.at = "idle"
  BY DEF Idle
<1> QED
  BY <1>1, <1>2, <1>3, <1>4, <1>5, <1>7, <1>8, <1>9, <1>10 DEF Call

\* The steps of tfs_open.
LEMMA OpenEffects ==
  ASSUME Ex1Inv, NEW t \in Threads
  PROVE  /\ LockExisting(t) => /\ frame[t].at = "existing"
                               /\ GoesTo(t, "truncate", {}) \/ GoesTo(t, "position", {})
         /\ Truncate(t) => /\ frame[t].at = "truncate"
                           /\ \/ /\ TruncateOK(frame[t].inum) /\ GoesTo(t, "position", {})
                                 /\ inode_table' = [inode_table EXCEPT ![frame[t].inum].i_size = 0]
                                 /\ UNCHANGED lock_inumber
                              \/ /\ ~TruncateOK(frame[t].inum) /\ frame'[t] = Idle /\ Others(t)
                                 /\ inode_table' = inode_table
                                 /\ lock_inumber' = Unlocked(lock_inumber, frame[t].inum, t)
         /\ Position(t) =>
              /\ frame[t].at = "position" /\ frame'[t].at = "add" /\ Others(t)
              /\ frame'[t].inum = frame[t].inum /\ frame'[t].op = frame[t].op
              /\ frame'[t].offset \in {0, inode_table[frame[t].inum].i_size}
         /\ Create(t) =>
              /\ frame[t].at = "create" /\ frame'[t].at = "add" /\ Others(t)
              /\ frame'[t].inum = inode_create /\ frame'[t].offset = 0 /\ frame'[t].op = "open"
         /\ CreateFails(t) => frame[t].at = "create" /\ frame'[t] = Idle /\ Others(t)
<1>1. ASSUME LockExisting(t)
      PROVE  frame[t].at = "existing" /\ (GoesTo(t, "truncate", {}) \/ GoesTo(t, "position", {}))
  <2>1. \/ Goto(t, [frame[t] EXCEPT !.at = "truncate"])
        \/ Goto(t, [frame[t] EXCEPT !.at = "position"])
    BY <1>1 DEF LockExisting
  <2> QED
    BY <1>1, <2>1, GotoPlace DEF LockExisting, At
<1>2. ASSUME Truncate(t)
      PROVE  /\ frame[t].at = "truncate"
             /\ \/ /\ TruncateOK(frame[t].inum) /\ GoesTo(t, "position", {})
                   /\ inode_table' = [inode_table EXCEPT ![frame[t].inum].i_size = 0]
                   /\ UNCHANGED lock_inumber
                \/ /\ ~TruncateOK(frame[t].inum) /\ frame'[t] = Idle /\ Others(t)
                   /\ inode_table' = inode_table
                   /\ lock_inumber' = Unlocked(lock_inumber, frame[t].inum, t)
  BY <1>2, GotoPlace, ReturnsIdle DEF Truncate, At
<1>3. ASSUME Position(t)
      PROVE  /\ frame[t].at = "position" /\ frame'[t].at = "add" /\ Others(t)
             /\ frame'[t].inum = frame[t].inum /\ frame'[t].op = frame[t].op
             /\ frame'[t].offset \in {0, inode_table[frame[t].inum].i_size}
  <2> DEFINE offset == IF "APPEND" \in frame[t].flags
                       THEN inode_table[frame[t].inum].i_size ELSE 0
             g == [Idle EXCEPT !.op = frame[t].op, !.at = "add", !.inum = frame[t].inum,
                     !.offset = offset]
  <2>0. offset \in {0, inode_table[frame[t].inum].i_size}
    OBVIOUS
  <2> HIDE DEF offset
  <2>1. g.at = "add" /\ g.inum = frame[t].inum /\ g.op = frame[t].op /\ g.offset = offset
    BY DEF Idle
  <2> HIDE DEF g
  <2>2. frame' = [frame EXCEPT ![t] = g] /\ frame[t].at = "position"
    BY <1>3 DEF Position, Goto, At, g, offset
  <2> QED
    BY <2>0, <2>1, <2>2, FrameReplaced
<1>4. ASSUME Create(t)
      PROVE  /\ frame[t].at = "create" /\ frame'[t].at = "add" /\ Others(t)
             /\ frame'[t].inum = inode_create /\ frame'[t].offset = 0 /\ frame'[t].op = "open"
  <2> DEFINE i == inode_create  g == [Idle EXCEPT !.op = "open", !.at = "add", !.inum = i]
  <2>1. frame' = [frame EXCEPT ![t] = g] /\ frame[t].at = "create"
    BY <1>4 DEF Create, Goto, At
  <2> HIDE DEF i
  <2>2. g.at = "add" /\ g.inum = i /\ g.offset = 0 /\ g.op = "open"
    BY DEF Idle
  <2> HIDE DEF g
  <2> QED
    BY <2>1, <2>2, FrameReplaced DEF i
<1>5. ASSUME CreateFails(t)
      PROVE  frame[t].at = "create" /\ frame'[t] = Idle /\ Others(t)
  BY <1>5, ReturnsIdle DEF CreateFails, At
<1> QED
  BY <1>1, <1>2, <1>3, <1>4, <1>5

\* The handle of a tfs_open, or of a copy, and the copy's other steps.
LEMMA HandleEffects ==
  ASSUME Ex1Inv, NEW t \in Threads
  PROVE  /\ Add(t) =>
              /\ frame[t].at = "add" /\ Others(t)
              /\ \/ frame'[t] = Idle
                 \/ /\ frame'[t].at = "size" /\ frame'[t].op = "copy" /\ frame'[t].done = 0
                    /\ frame'[t].buffer = <<>>
         /\ CopyOpens(t) => /\ frame[t].at = "lookup" /\ Others(t)
                            /\ frame'[t].at \in {"idle", "existing", "create"}
         /\ CopySize(t) => /\ frame[t].at = "size" /\ GoesTo(t, "handle", {"len"})
                           /\ frame'[t].len = Size(t)
         /\ LockHandle(t) => frame[t].at = "handle" /\ GoesTo(t, "inode", {})
<1>0. IsFrame(frame[t])
  BY DEF Ex1Inv, FrameOK
<1>1. ASSUME Add(t)
      PROVE  /\ frame[t].at = "add" /\ Others(t)
             /\ \/ frame'[t] = Idle
                \/ /\ frame'[t].at = "size" /\ frame'[t].op = "copy" /\ frame'[t].done = 0
                   /\ frame'[t].buffer = <<>>
  <2> DEFINE h == First(FreeIn(free_open_file_entries))
             g == [Idle EXCEPT !.op = "copy", !.at = "size", !.h = h]
  <2>1. frame[t].at = "add" /\ (Goto(t, g) \/ \E op, val : Returns(t, op, val))
    BY <1>1 DEF Add, At
  <2> HIDE DEF h
  <2>2. g.at = "size" /\ g.op = "copy" /\ g.done = 0 /\ g.buffer = <<>>
    BY DEF Idle
  <2> HIDE DEF g
  <2> QED
    BY <2>1, <2>2, ReturnsIdle, FrameReplaced DEF Goto
<1>2. ASSUME CopyOpens(t)
      PROVE  /\ frame[t].at = "lookup" /\ Others(t)
             /\ frame'[t].at \in {"idle", "existing", "create"}
  <2> DEFINE f == frame[t]
             g(inum) == [f EXCEPT !.at = "existing", !.path = NoPath, !.inum = inum]
             c == [f EXCEPT !.at = "create"]
  <2>1. \A inum : g(inum).at = "existing"
    BY <1>0 DEF IsFrame, Fields
  <2>2. c.at = "create"
    BY <1>0 DEF IsFrame, Fields
  <2>3. (\E inum : Goto(t, g(inum))) \/ Goto(t, c) \/ Returns(t, f.op, -1)
    BY <1>2 DEF CopyOpens, LooksUp
  <2>4. frame[t].at = "lookup"
    BY <1>2 DEF CopyOpens, At
  <2> HIDE DEF g, c, f
  <2> QED
    BY <2>1, <2>2, <2>3, <2>4, ReturnsIdle, FrameReplaced DEF Goto
<1>3. ASSUME CopySize(t)
      PROVE  frame[t].at = "size" /\ GoesTo(t, "handle", {"len"}) /\ frame'[t].len = Size(t)
  <2> DEFINE g == [frame[t] EXCEPT !.at = "handle", !.len = Size(t)]
  <2>1. g.at = "handle" /\ g.len = Size(t) /\ \A x \in Fields \ {"at", "len"} : g[x] = frame[t][x]
    BY <1>0 DEF IsFrame, Fields
  <2> HIDE DEF g
  <2>2. frame' = [frame EXCEPT ![t] = g] /\ frame[t].at = "size"
    BY <1>3 DEF CopySize, At, Goto, g
  <2> QED
    BY <2>1, <2>2, FrameReplaced DEF GoesTo
<1>4. ASSUME LockHandle(t)
      PROVE  frame[t].at = "handle" /\ GoesTo(t, "inode", {})
  BY <1>4, GotoPlace DEF LockHandle, At
<1> QED
  BY <1>1, <1>2, <1>3, <1>4

\* The steps of tfs_write and tfs_read.
LEMMA AccessEffects ==
  ASSUME Ex1Inv, NEW t \in Threads
  PROVE  /\ \A mode, todo : Locks(t, mode, todo) =>
              /\ GoesTo(t, "loop", {"todo", "offset", "old"})
              /\ frame'[t].todo = todo /\ frame'[t].offset = Offset(t)
              /\ frame'[t].old = IF Astray THEN <<>> ELSE Contents(Inum(t))
         /\ WriteBlock(t) => /\ frame[t].at = "loop"
                             /\ \/ UNCHANGED <<state_vars, locks, frame, wrapped>> /\ wild' = TRUE
                                \/ GoesTo(t, "advance", {}) /\ UNCHANGED locks
                                \/ frame'[t] = Idle /\ Others(t) /\ UnlockBoth(t)
         /\ ReadBlock(t) => /\ frame[t].at = "loop"
                            /\ \/ GoesTo(t, "advance", {"buffer"}) /\ UNCHANGED locks
                               \/ frame'[t] = Idle /\ Others(t) /\ UnlockBoth(t)
         /\ Advance(t) => /\ frame[t].at = "advance" /\ GoesTo(t, "loop", {"done"})
                          /\ frame'[t].done = frame[t].done + Piece(t)
         /\ Return(t) => frame[t].at = "loop" /\ frame'[t] = Idle /\ Others(t) /\ UnlockBoth(t)
<1>0. IsFrame(frame[t])
  BY DEF Ex1Inv, FrameOK
<1>1. ASSUME NEW mode, NEW todo, Locks(t, mode, todo)
      PROVE  /\ GoesTo(t, "loop", {"todo", "offset", "old"})
             /\ frame'[t].todo = todo /\ frame'[t].offset = Offset(t)
             /\ frame'[t].old = IF Astray THEN <<>> ELSE Contents(Inum(t))
  <2> DEFINE old == IF Astray THEN <<>> ELSE Contents(Inum(t))
             g == [frame[t] EXCEPT !.at = "loop", !.todo = todo, !.offset = Offset(t), !.old = old]
  <2> HIDE DEF old
  <2>1. /\ g.at = "loop" /\ g.todo = todo /\ g.offset = Offset(t) /\ g.old = old
        /\ \A x \in Fields \ {"at", "todo", "offset", "old"} : g[x] = frame[t][x]
    BY <1>0 DEF IsFrame, Fields
  <2> HIDE DEF g
  <2>2. frame' = [frame EXCEPT ![t] = g]
    BY <1>1 DEF Locks, Goto, g, old
  <2> QED
    BY <2>1, <2>2, FrameReplaced DEF GoesTo, old
<1>2. ASSUME WriteBlock(t)
      PROVE  /\ frame[t].at = "loop"
             /\ \/ UNCHANGED <<state_vars, locks, frame, wrapped>> /\ wild' = TRUE
                \/ GoesTo(t, "advance", {}) /\ UNCHANGED locks
                \/ frame'[t] = Idle /\ Others(t) /\ UnlockBoth(t)
  <2>1. /\ frame[t].at = "loop"
        /\ \/ UNCHANGED <<state_vars, locks, frame, wrapped>> /\ wild' = TRUE
           \/ Goto(t, [frame[t] EXCEPT !.at = "advance"]) /\ UNCHANGED locks
           \/ UnlockBoth(t) /\ Returns(t, frame[t].op, -1)
    BY <1>2 DEF WriteBlock, InLoop, At, BlockFails
  <2> QED
    BY <2>1, GotoPlace, ReturnsIdle
<1>3. ASSUME ReadBlock(t)
      PROVE  /\ frame[t].at = "loop"
             /\ \/ GoesTo(t, "advance", {"buffer"}) /\ UNCHANGED locks
                \/ frame'[t] = Idle /\ Others(t) /\ UnlockBoth(t)
  <2>1. ASSUME NEW bytes, Goto(t, [frame[t] EXCEPT !.at = "advance", !.buffer = bytes])
        PROVE  GoesTo(t, "advance", {"buffer"})
    <3> DEFINE g == [frame[t] EXCEPT !.at = "advance", !.buffer = bytes]
    <3>1. g.at = "advance" /\ \A x \in Fields \ {"at", "buffer"} : g[x] = frame[t][x]
      BY <1>0 DEF IsFrame, Fields
    <3> HIDE DEF g
    <3>2. frame' = [frame EXCEPT ![t] = g]
      BY <2>1 DEF Goto, g
    <3> QED
      BY <3>1, <3>2, FrameReplaced DEF GoesTo
  <2>2. /\ frame[t].at = "loop"
        /\ \/ /\ \E bytes : Goto(t, [frame[t] EXCEPT !.at = "advance", !.buffer = bytes])
              /\ UNCHANGED locks
           \/ UnlockBoth(t) /\ Returns(t, frame[t].op, -1)
    BY <1>3 DEF ReadBlock, InLoop, At, BlockFails
  <2> QED
    BY <2>1, <2>2, ReturnsIdle
<1>4. ASSUME Advance(t)
      PROVE  /\ frame[t].at = "advance" /\ GoesTo(t, "loop", {"done"})
             /\ frame'[t].done = frame[t].done + Piece(t)
  <2> DEFINE done == frame[t].done + Piece(t)
             g == [frame[t] EXCEPT !.at = "loop", !.done = done]
  <2>1. g = [frame[t] EXCEPT !.at = "loop", !.done = @ + Piece(t)]
    OBVIOUS
  <2> HIDE DEF done
  <2>2. g.at = "loop" /\ g.done = done /\ \A x \in Fields \ {"at", "done"} : g[x] = frame[t][x]
    BY <1>0 DEF IsFrame, Fields
  <2> HIDE DEF g
  <2>3. frame' = [frame EXCEPT ![t] = g] /\ frame[t].at = "advance"
    BY <1>4, <2>1 DEF Advance, At, Goto
  <2> QED
    BY <2>2, <2>3, FrameReplaced DEF GoesTo, done
<1>5. ASSUME Return(t)
      PROVE  frame[t].at = "loop" /\ frame'[t] = Idle /\ Others(t) /\ UnlockBoth(t)
  BY <1>5, ReturnsIdle DEF Return, At
<1> QED
  BY <1>1, <1>2, <1>3, <1>4, <1>5

----------------------------------------------------------------------------
(* Who excludes whom.                                                      *)

\* Who holds a lock for writing holds it alone.
Exclusive(lock) == \A i \in DOMAIN lock, t, u \in Threads :
  t \in lock[i]["writers"] /\ Has(lock, u, i) => t = u

\* A call between the lock of its i-node and its return.
Inside(f) == f.at \in {"loop", "advance"}

\* A writer has its i-node for itself, and every call its handle.
ExclusionInv ==
  /\ Exclusive(lock_inumber) /\ Exclusive(lock_fhandle)
  /\ \A t \in Threads :
       /\ Inside(frame[t]) /\ Writing(t) => t \in lock_inumber[Inum(t)]["writers"]
       /\ frame[t].at = "inode" \/ Inside(frame[t]) => t \in lock_fhandle[frame[t].h]["writers"]

\* What a step of t may do to a table of locks.
Moves(lock, new, t) ==
  \/ new = lock
  \/ \E i \in DOMAIN lock, mode \in Modes :
       CanTake(lock, i, mode) /\ new = Locked(lock, i, mode, t)
  \/ \E i \in DOMAIN lock : new = Unlocked(lock, i, t)

\* Taking a lock that can be taken, and releasing one, keep writers alone, and
\* leave the others what they have.
LEMMA MovesExclude ==
  ASSUME NEW S, NEW lock \in [S -> RwLock], NEW t \in Threads, NEW new, Moves(lock, new, t),
         Exclusive(lock)
  PROVE  /\ Exclusive(new)
         /\ \A u \in Threads, i \in S :
              u # t => (u \in new[i]["writers"] <=> u \in lock[i]["writers"])
<1>0. "readers" \in Modes /\ "writers" \in Modes /\ \A m \in Modes : m = "readers" \/ m = "writers"
  BY DEF Modes
<1>1. CASE new = lock
  BY <1>1
<1>2. ASSUME NEW i \in S, NEW mode \in Modes, CanTake(lock, i, mode), new = Locked(lock, i, mode, t)
      PROVE  /\ Exclusive(new)
             /\ \A u \in Threads, j \in S :
                  u # t => (u \in new[j]["writers"] <=> u \in lock[j]["writers"])
  <2>1. new \in [S -> RwLock]
        /\ \A u \in Threads, j \in S : Has(new, u, j) <=> Has(lock, u, j) \/ (u = t /\ j = i)
    BY <1>2, LockedHas
  <2>2. \A j \in S, m \in Modes :
          new[j][m] = IF j = i /\ m = mode THEN lock[j][m] \cup {t} ELSE lock[j][m]
    BY <1>2 DEF Locked, RwLock
  <2>3. \A u \in Threads : ~Has(lock, u, i) \/ (mode = "readers" /\ lock[i]["writers"] = {})
    BY <1>0, <1>2 DEF CanTake, Has
  <2>4. ASSUME NEW j \in S, NEW u \in Threads, NEW w \in Threads,
               u \in new[j]["writers"], Has(new, w, j)
        PROVE  u = w
    <3>1. CASE j # i
      BY <3>1, <2>1, <2>2, <2>4, <1>0 DEF Exclusive
    <3>2. CASE j = i /\ mode = "readers"
      BY <3>2, <1>2, <2>2, <2>4, <1>0 DEF CanTake
    <3>3. CASE j = i /\ mode = "writers"
      <4>1. \A v \in Threads : ~Has(lock, v, i)
        BY <3>3, <2>3
      <4>2. w = t
        BY <4>1, <2>1, <2>4, <3>3
      <4>3. u = t
        BY <4>1, <2>2, <2>4, <3>3, <1>0 DEF Has
      <4> QED
        BY <4>2, <4>3
    <3> QED
      BY <3>1, <3>2, <3>3, <1>0
  <2> QED
    BY <2>1, <2>2, <2>4, <1>0 DEF Exclusive
<1>3. ASSUME NEW i \in S, new = Unlocked(lock, i, t)
      PROVE  /\ Exclusive(new)
             /\ \A u \in Threads, j \in S :
                  u # t => (u \in new[j]["writers"] <=> u \in lock[j]["writers"])
  <2>1. new \in [S -> RwLock]
        /\ \A u \in Threads, j \in S : Has(new, u, j) <=> Has(lock, u, j) /\ ~(u = t /\ j = i)
    BY <1>3, UnlockedHas
  <2>2. \A j \in S, m \in Modes : new[j][m] = IF j = i THEN lock[j][m] \ {t} ELSE lock[j][m]
    BY <1>3 DEF Unlocked, RwLock
  <2>3. \A j \in S, u \in Threads : u \in new[j]["writers"] => u \in lock[j]["writers"]
    BY <2>2, <1>0
  <2>4. Exclusive(new)
    BY <2>1, <2>3 DEF Exclusive
  <2> QED
    BY <2>2, <2>4, <1>0
<1>4. DOMAIN lock = S
  OBVIOUS
<1>5. CASE \E i \in S, mode \in Modes : CanTake(lock, i, mode) /\ new = Locked(lock, i, mode, t)
  BY <1>2, <1>5
<1>6. CASE \E i \in S : new = Unlocked(lock, i, t)
  BY <1>3, <1>6
<1> QED
  BY <1>1, <1>4, <1>5, <1>6 DEF Moves

\* A lock taken for writing is held for writing.
LEMMA TakenForWriting ==
  ASSUME NEW S, NEW lock \in [S -> RwLock], NEW i \in S, NEW t \in Threads
  PROVE  t \in Locked(lock, i, "writers", t)[i]["writers"]
BY DEF Locked, RwLock, Modes

\* An open handle stays on its file, and moves only when its call advances.
LEMMA EntriesMove ==
  ASSUME Ex1Inv, NEW t \in Threads, Step(t) \/ Call(t), NEW h \in Handles, Open(h)
  PROVE  /\ open_file_table'[h].of_inumber = open_file_table[h].of_inumber
         /\ \/ open_file_table'[h] = open_file_table[h]
            \/ Advance(t) /\ h = frame[t].h
<1>0. DOMAIN open_file_table = Handles /\ IsEntry(open_file_table[h])
  BY DEF Ex1Inv, HandlesInv
<1>1. CASE Add(t)
  <2>1. h # First(FreeIn(free_open_file_entries))
    BY TakeFirstAt, ConfigAssumption DEF Ex1Inv, HandlesInv, Open, Handles
  <2> QED
    BY <1>1, <2>1 DEF Add
<1>2. CASE Advance(t)
  <2> DEFINE offset == Offset(t) + Piece(t)
  <2>1. open_file_table' = [open_file_table EXCEPT ![frame[t].h].of_offset = offset]
    BY <1>2 DEF Advance
  <2> HIDE DEF offset
  <2> QED
    BY <1>0, <1>2, <2>1 DEF IsEntry
<1>3. CASE Call(t)
  BY <1>3, CallEffect
<1>4. CASE Step(t) /\ ~Add(t) /\ ~Advance(t)
  BY <1>4 DEF Step, LockExisting, Truncate, Position, Create, CreateFails, LockHandle,
     LockForWrite, LockForRead, Locks, WriteBlock, ReadBlock, Return, CopyOpens, LooksUp, CopySize,
     state_vars, open_vars
<1> QED
  BY <1>1, <1>2, <1>3, <1>4

\* The other calls keep what they exclude, whatever t does to the locks.
LEMMA ExclusionMoves ==
  ASSUME Ex1Inv, ExclusionInv, NEW t \in Threads, Step(t) \/ Call(t), Others(t),
         Moves(lock_inumber, lock_inumber', t), Moves(lock_fhandle, lock_fhandle', t),
         Inside(frame'[t]) /\ frame'[t].op = "write" =>
           t \in lock_inumber'[open_file_table'[frame'[t].h].of_inumber]["writers"],
         frame'[t].at = "inode" \/ Inside(frame'[t]) => t \in lock_fhandle'[frame'[t].h]["writers"]
  PROVE  ExclusionInv'
<1>1. lock_inumber \in [Inumbers -> RwLock] /\ lock_fhandle \in [Handles -> RwLock]
  BY DEF Ex1Inv, LocksInv
<1>2. /\ Exclusive(lock_inumber')
      /\ \A u \in Threads, i \in Inumbers :
           u # t => (u \in lock_inumber'[i]["writers"] <=> u \in lock_inumber[i]["writers"])
  BY <1>1, MovesExclude DEF ExclusionInv
<1>3. /\ Exclusive(lock_fhandle')
      /\ \A u \in Threads, h \in Handles :
           u # t => (u \in lock_fhandle'[h]["writers"] <=> u \in lock_fhandle[h]["writers"])
  BY <1>1, MovesExclude DEF ExclusionInv
<1>4. ASSUME NEW u \in Threads, u # t
      PROVE  /\ Inside(frame'[u]) /\ frame'[u].op = "write" =>
                  u \in lock_inumber'[open_file_table'[frame'[u].h].of_inumber]["writers"]
             /\ frame'[u].at = "inode" \/ Inside(frame'[u]) =>
                  u \in lock_fhandle'[frame'[u].h]["writers"]
  <2>1. frame'[u] = frame[u] /\ FrameOK(frame[u])
    BY <1>4 DEF Others, Ex1Inv
  <2>2. CASE frame[u].at = "inode" \/ Inside(frame[u])
    <3>1. frame[u].h \in Handles /\ Open(frame[u].h)
      BY <2>1, <2>2 DEF FrameOK, Inside
    <3>2. open_file_table'[frame[u].h].of_inumber = open_file_table[frame[u].h].of_inumber
      BY <3>1, EntriesMove
    <3>3. open_file_table[frame[u].h].of_inumber \in Inumbers
      BY <3>1 DEF Ex1Inv, HandlesInv, IsFile
    <3> QED
      BY <1>2, <1>3, <1>4, <2>1, <2>2, <3>1, <3>2, <3>3 DEF ExclusionInv, Writing, Inum
  <2> QED
    BY <2>1, <2>2 DEF Inside
<1>5. \A u \in Threads :
        /\ Inside(frame'[u]) /\ frame'[u].op = "write" =>
             u \in lock_inumber'[open_file_table'[frame'[u].h].of_inumber]["writers"]
        /\ frame'[u].at = "inode" \/ Inside(frame'[u]) => u \in lock_fhandle'[frame'[u].h]["writers"]
  BY <1>4
<1> QED
  BY <1>2, <1>3, <1>5 DEF ExclusionInv, Exclusive, Has, Inside, Writing, Inum

\* At a place where nothing is locked for writing, nothing has to be excluded.
LEMMA NothingToExclude ==
  ASSUME Ex1Inv, ExclusionInv, NEW t \in Threads, Step(t) \/ Call(t), Others(t),
         Moves(lock_inumber, lock_inumber', t), Moves(lock_fhandle, lock_fhandle', t),
         frame'[t].at \notin {"inode", "loop", "advance"}
  PROVE  ExclusionInv'
<1>1. ~Inside(frame'[t]) /\ frame'[t].at # "inode"
  BY DEF Inside
<1> QED
  BY <1>1, ExclusionMoves

\* A call goes on in its loop with the locks it has.
LEMMA KeepsExcluding ==
  ASSUME Ex1Inv, ExclusionInv, NEW t \in Threads, Step(t), UNCHANGED locks,
         NEW place, NEW F, Inside(frame[t]), GoesTo(t, place, F), "h" \notin F, "op" \notin F
  PROVE  ExclusionInv'
<1>1. frame'[t].h = frame[t].h /\ frame'[t].op = frame[t].op
  BY DEF GoesTo, Fields
<1>2. frame[t].h \in Handles /\ Open(frame[t].h)
  BY DEF Ex1Inv, FrameOK, Inside
<1>3. open_file_table'[frame[t].h].of_inumber = open_file_table[frame[t].h].of_inumber
  BY <1>2, EntriesMove
<1>4. lock_inumber' = lock_inumber /\ lock_fhandle' = lock_fhandle
  BY DEF locks
<1>5. Moves(lock_inumber, lock_inumber', t) /\ Moves(lock_fhandle, lock_fhandle', t)
  BY <1>4 DEF Moves
<1>6. /\ frame[t].op = "write" => t \in lock_inumber[open_file_table[frame[t].h].of_inumber]["writers"]
      /\ t \in lock_fhandle[frame[t].h]["writers"]
  BY DEF ExclusionInv, Writing, Inum
<1>7. Others(t)
  BY DEF GoesTo
<1>8. Inside(frame'[t]) /\ frame'[t].op = "write" =>
        t \in lock_inumber'[open_file_table'[frame'[t].h].of_inumber]["writers"]
  BY <1>1, <1>3, <1>4, <1>6
<1>9. t \in lock_fhandle'[frame'[t].h]["writers"]
  BY <1>1, <1>4, <1>6
<1> QED
  BY <1>5, <1>7, <1>8, <1>9, ExclusionMoves

\* A call that returns gives both its locks back.
LEMMA UnlockBothMoves ==
  ASSUME Ex1Inv, NEW t \in Threads, Inside(frame[t]), UnlockBoth(t)
  PROVE  Moves(lock_inumber, lock_inumber', t) /\ Moves(lock_fhandle, lock_fhandle', t)
<1>1. frame[t].h \in Handles /\ Open(frame[t].h)
  BY DEF Ex1Inv, FrameOK, Inside
<1>2. Inum(t) \in Inumbers
  BY <1>1 DEF Ex1Inv, HandlesInv, IsFile, Inum
<1>3. DOMAIN lock_inumber = Inumbers /\ DOMAIN lock_fhandle = Handles
  BY DEF Ex1Inv, LocksInv
<1> QED
  BY <1>1, <1>2, <1>3 DEF Moves, UnlockBoth

\* Each step keeps what the calls exclude.
LEMMA ExclusionStep ==
  ASSUME Ex1Inv, ExclusionInv, NEW t \in Threads, Step(t) \/ Call(t)
  PROVE  ExclusionInv'
<1>0. /\ DOMAIN lock_inumber = Inumbers /\ DOMAIN lock_fhandle = Handles
      /\ FrameOK(frame[t]) /\ "readers" \in Modes /\ "writers" \in Modes /\ Idle.at = "idle"
  BY DEF Ex1Inv, LocksInv, Modes, Idle
<1>1. Moves(lock_inumber, lock_inumber, t) /\ Moves(lock_fhandle, lock_fhandle, t)
  BY DEF Moves
<1>2. CASE Call(t)
  BY <1>1, <1>2, CallEffect, NothingToExclude DEF locks
<1>3. CASE LockExisting(t)
  <2>1. Others(t) /\ frame'[t].at \notin {"inode", "loop", "advance"}
    BY <1>3, OpenEffects DEF GoesTo
  <2>2. frame[t].inum \in Inumbers
    <3>1. frame[t].at = "existing"
      BY <1>3 DEF LockExisting, At
    <3> QED
      BY <1>0, <3>1 DEF FrameOK, IsFile
  <2>3. Moves(lock_inumber, lock_inumber', t) /\ lock_fhandle' = lock_fhandle
    BY <1>0, <1>3, <2>2 DEF LockExisting, Moves
  <2> QED
    BY <1>1, <1>3, <2>1, <2>3, NothingToExclude DEF Step
<1>4. CASE Truncate(t) \/ Position(t)
  <2>1. Others(t) /\ frame'[t].at \notin {"inode", "loop", "advance"}
    BY <1>0, <1>4, OpenEffects DEF GoesTo
  <2>2. frame[t].inum \in Inumbers
    <3>1. frame[t].at \in {"truncate", "position"}
      BY <1>4 DEF Truncate, Position, At
    <3> QED
      BY <1>0, <3>1 DEF FrameOK, IsFile
  <2>3. Moves(lock_inumber, lock_inumber', t) /\ lock_fhandle' = lock_fhandle
    BY <1>0, <1>4, <2>2 DEF Truncate, Position, Moves
  <2> QED
    BY <1>1, <1>4, <2>1, <2>3, NothingToExclude DEF Step
<1>5. CASE Create(t) \/ CreateFails(t) \/ Add(t) \/ CopyOpens(t) \/ CopySize(t)
  <2>1. Others(t) /\ frame'[t].at \notin {"inode", "loop", "advance"}
    BY <1>0, <1>5, OpenEffects, HandleEffects DEF GoesTo
  <2>2. lock_inumber' = lock_inumber /\ lock_fhandle' = lock_fhandle
    BY <1>5 DEF Create, CreateFails, Add, CopyOpens, LooksUp, CopySize, locks
  <2> QED
    BY <1>1, <1>5, <2>1, <2>2, NothingToExclude DEF Step
<1>6. CASE LockHandle(t)
  <2> DEFINE h == frame[t].h
  <2>1. GoesTo(t, "inode", {}) /\ frame[t].at = "handle"
    BY <1>6, HandleEffects
  <2>2. h \in Handles /\ frame'[t].h = h /\ frame'[t].at = "inode" /\ Others(t)
    BY <1>0, <2>1 DEF FrameOK, GoesTo, Fields
  <2>3. /\ lock_fhandle' = Locked(lock_fhandle, h, "writers", t)
        /\ CanTake(lock_fhandle, h, "writers")
        /\ lock_inumber' = lock_inumber
    BY <1>6 DEF LockHandle
  <2>4. Moves(lock_fhandle, lock_fhandle', t)
    BY <1>0, <2>2, <2>3 DEF Moves
  <2>5. t \in lock_fhandle'[h]["writers"]
    BY <2>2, <2>3, TakenForWriting DEF Ex1Inv, LocksInv
  <2>6. ~Inside(frame'[t])
    BY <2>2 DEF Inside
  <2> HIDE DEF h
  <2> QED
    BY <1>1, <1>6, <2>2, <2>3, <2>4, <2>5, <2>6, ExclusionMoves DEF Step
<1>7. ASSUME NEW mode \in Modes, NEW todo, Locks(t, mode, todo), frame[t].at = "inode", Step(t),
             CanTake(lock_inumber, Inum(t), mode), Writing(t) => mode = "writers"
      PROVE  ExclusionInv'
  <2>1. GoesTo(t, "loop", {"todo", "offset", "old"})
    BY <1>7, AccessEffects
  <2>2. frame'[t].h = frame[t].h /\ frame'[t].op = frame[t].op /\ Others(t) /\ frame'[t].at = "loop"
    BY <2>1 DEF GoesTo, Fields
  <2>3. frame[t].h \in Handles /\ Open(frame[t].h)
    BY <1>0, <1>7 DEF FrameOK
  <2>4. Inum(t) \in Inumbers
    BY <2>3 DEF Ex1Inv, HandlesInv, IsFile, Inum
  <2>5. lock_inumber' = Locked(lock_inumber, Inum(t), mode, t) /\ lock_fhandle' = lock_fhandle
    BY <1>7 DEF Locks
  <2>6. Moves(lock_inumber, lock_inumber', t)
    BY <1>0, <1>7, <2>4, <2>5 DEF Moves
  <2>7. Writing(t) => t \in lock_inumber'[Inum(t)]["writers"]
    BY <1>7, <2>4, <2>5, TakenForWriting DEF Ex1Inv, LocksInv
  <2>8. open_file_table'[frame[t].h].of_inumber = Inum(t)
    BY <2>3, <1>7, EntriesMove DEF Inum
  <2>9. frame'[t].op = "write" =>
          t \in lock_inumber'[open_file_table'[frame'[t].h].of_inumber]["writers"]
    BY <2>2, <2>7, <2>8 DEF Writing
  <2>10. t \in lock_fhandle'[frame'[t].h]["writers"]
    BY <1>7, <2>2, <2>5 DEF ExclusionInv
  <2> QED
    BY <1>1, <1>7, <2>2, <2>5, <2>6, <2>9, <2>10, ExclusionMoves
<1>8. CASE LockForWrite(t)
  <2>1. \E todo : Locks(t, "writers", todo)
    BY <1>8 DEF LockForWrite
  <2>2. frame[t].at = "inode" /\ CanTake(lock_inumber, Inum(t), "writers")
    BY <1>8 DEF LockForWrite, At
  <2> QED
    BY <1>0, <1>7, <1>8, <2>1, <2>2 DEF Step
<1>9. CASE LockForRead(t)
  <2>1. frame[t].at = "inode" /\ CanTake(lock_inumber, Inum(t), "readers") /\ ~Writing(t)
    BY <1>9 DEF LockForRead, At
  <2>2. CASE \E todo : Locks(t, "readers", todo)
    BY <1>0, <1>7, <1>9, <2>1, <2>2 DEF Step
  <2>3. CASE /\ lock_fhandle' = Unlocked(lock_fhandle, frame[t].h, t)
             /\ lock_inumber' = lock_inumber
             /\ Returns(t, frame[t].op, -1)
    <3>1. frame[t].h \in Handles
      BY <1>0, <2>1 DEF FrameOK
    <3>2. Moves(lock_fhandle, lock_fhandle', t)
      BY <1>0, <2>3, <3>1 DEF Moves
    <3>3. frame'[t] = Idle /\ Others(t)
      BY <2>3, ReturnsIdle
    <3> QED
      BY <1>0, <1>1, <1>9, <2>3, <3>2, <3>3, NothingToExclude DEF Step
  <2> QED
    BY <1>9, <2>2, <2>3 DEF LockForRead
<1>10. ASSUME Step(t), Inside(frame[t]), frame'[t] = Idle, Others(t), UnlockBoth(t)
       PROVE  ExclusionInv'
  BY <1>0, <1>10, UnlockBothMoves, NothingToExclude
<1>11. CASE WriteBlock(t)
  <2>1. Inside(frame[t])
    BY <1>11, AccessEffects DEF Inside
  <2>2. CASE UNCHANGED <<state_vars, locks, frame>>
    BY <2>2 DEF ExclusionInv, Exclusive, Has, Inside, Writing, Inum, state_vars, open_vars, locks
  <2>3. CASE GoesTo(t, "advance", {}) /\ UNCHANGED locks
    BY <1>11, <2>1, <2>3, KeepsExcluding DEF Step
  <2> QED
    BY <1>10, <1>11, <2>1, <2>2, <2>3, AccessEffects DEF Step
<1>12. CASE ReadBlock(t)
  <2>1. Inside(frame[t])
    BY <1>12, AccessEffects DEF Inside
  <2>2. CASE GoesTo(t, "advance", {"buffer"}) /\ UNCHANGED locks
    BY <1>12, <2>1, <2>2, KeepsExcluding DEF Step
  <2> QED
    BY <1>10, <1>12, <2>1, <2>2, AccessEffects DEF Step
<1>13. CASE Advance(t)
  <2>1. Inside(frame[t]) /\ GoesTo(t, "loop", {"done"})
    BY <1>13, AccessEffects DEF Inside
  <2>2. UNCHANGED locks
    BY <1>13 DEF Advance
  <2> QED
    BY <1>13, <2>1, <2>2, KeepsExcluding DEF Step
<1>14. CASE Return(t)
  BY <1>10, <1>14, AccessEffects DEF Inside, Step
<1> QED
  BY <1>2, <1>3, <1>4, <1>5, <1>6, <1>8, <1>9, <1>11, <1>12, <1>13, <1>14 DEF Step

----------------------------------------------------------------------------
(* Arithmetic of blocks and chars.                                         *)

\* Division with rest.
LEMMA DivMod ==
  ASSUME NEW a \in Int, NEW b \in Nat \ {0}
  PROVE  /\ a % b \in 0 .. b - 1 /\ a \div b \in Int
         /\ a = b * (a \div b) + (a % b)
         /\ a >= 0 => a \div b >= 0
OBVIOUS

\* A product grows with its factor by at least the other.
LEMMA NextMultiple ==
  ASSUME NEW b \in Nat \ {0}, NEW p \in Int, NEW q \in Int
  PROVE  /\ b * p \in Int
         /\ b * (p + 1) = b * p + b
         /\ p < q => b * p + b <= b * q
         /\ p <= q => b * p <= b * q
OBVIOUS

\* The largest file is not empty.
LEMMA MaximumIsNat == MAXIMUM_FILE_BYTES \in Nat \ {0} /\ MAX_BLOCKS \in Nat \ {0}
BY ConfigAssumption, Ex1Assumption DEF MAXIMUM_FILE_BYTES, MAX_BLOCKS

\* A number stored as a char comes back as a char.
LEMMA CharsAreChars == \A n \in Int : to_char(n) \in Chars
<1> SUFFICES ASSUME NEW n \in Int PROVE to_char(n) \in Chars
  OBVIOUS
<1>1. CHAR_MAX \in Nat /\ 2 * (CHAR_MAX + 1) \in Nat \ {0}
  BY Ex1Assumption
<1>2. (n + CHAR_MAX + 1) % (2 * (CHAR_MAX + 1)) \in 0 .. 2 * (CHAR_MAX + 1) - 1
  BY <1>1, DivMod
<1> QED
  BY <1>1, <1>2 DEF to_char, Chars

----------------------------------------------------------------------------
(* What a disk holds.                                                      *)

Disks == [inode : Ex1Inode, free : [Blocks -> AllocState], data : [Blocks -> [Offsets -> Chars]]]

\* A scan finds a free block, or none.
LEMMA BlockTaken ==
  ASSUME NEW disk \in Disks
  PROVE  /\ TakeFirst(disk.free) \in [Blocks -> AllocState]
         /\ data_block_taken(disk) \in Blocks \cup {-1}
         /\ data_block_taken(disk) # -1 => disk.free[data_block_taken(disk)] = "FREE"
         /\ \A b \in Blocks : TakeFirst(disk.free)[b] =
              IF b = data_block_taken(disk) THEN "TAKEN" ELSE disk.free[b]
<1>1. disk.free \in [Blocks -> AllocState]
  BY DEF Disks
<1> QED
  BY <1>1, TakeFirstAt DEF data_block_taken

\* Allocating the indirect block.
LEMMA IndirectDisk ==
  ASSUME NEW disk \in Disks, NEW id
  PROVE  /\ WithIndirect(disk, id) \in Disks
         /\ WithIndirect(disk, id).data = disk.data
         /\ WithIndirect(disk, id).inode.i_size = disk.inode.i_size
         /\ WithIndirect(disk, id).inode.i_data_direct = disk.inode.i_data_direct
         /\ id # NUMBER_DIRECT_BLOCKS => WithIndirect(disk, id) = disk
         /\ id = NUMBER_DIRECT_BLOCKS =>
              /\ WithIndirect(disk, id).free = TakeFirst(disk.free)
              /\ WithIndirect(disk, id).inode.i_data_indirect = data_block_taken(disk)
<1>1. CASE id = NUMBER_DIRECT_BLOCKS
  <2> DEFINE free == TakeFirst(disk.free)  b == data_block_taken(disk)
  <2>1. free \in [Blocks -> AllocState] /\ b \in Blocks \cup {-1}
    BY BlockTaken
  <2>2. WithIndirect(disk, id) = [disk EXCEPT !.free = free, !.inode.i_data_indirect = b]
    BY <1>1 DEF WithIndirect
  <2> HIDE DEF free, b
  <2> DEFINE inode == [disk.inode EXCEPT !.i_data_indirect = b]
             new == [inode |-> inode, free |-> free, data |-> disk.data]
  <2>3. WithIndirect(disk, id) = new
    BY <2>2 DEF Disks
  <2>4. /\ inode \in Ex1Inode
        /\ inode.i_size = disk.inode.i_size
        /\ inode.i_data_direct = disk.inode.i_data_direct
        /\ inode.i_data_indirect = b
    BY <2>1 DEF Disks, Ex1Inode
  <2> HIDE DEF inode
  <2>5. new \in Disks /\ new.inode = inode /\ new.free = free /\ new.data = disk.data
    BY <2>1, <2>4 DEF Disks
  <2> HIDE DEF new
  <2> QED
    BY <1>1, <2>3, <2>4, <2>5 DEF free, b
<1>2. CASE id # NUMBER_DIRECT_BLOCKS
  BY <1>2 DEF WithIndirect
<1> QED
  BY <1>1, <1>2

\* Storing a number in the indirect block.
LEMMA NumberedDisk ==
  ASSUME NEW disk \in Disks, NEW k \in Int, valid_block_number(disk.inode.i_data_indirect)
  PROVE  /\ AllocIndirect(disk, k) \in Disks
         /\ AllocIndirect(disk, k).inode = disk.inode
         /\ AllocIndirect(disk, k).free = TakeFirst(disk.free)
         /\ \A b \in Blocks, j \in Offsets : AllocIndirect(disk, k).data[b][j] =
              IF b = disk.inode.i_data_indirect /\ j = k THEN to_char(data_block_taken(disk))
                                                      ELSE disk.data[b][j]
<1> DEFINE free == TakeFirst(disk.free)  c == to_char(data_block_taken(disk))
           i == disk.inode.i_data_indirect
           data == [disk.data EXCEPT ![i][k] = c]
<1>1. data_block_taken(disk) \in Int /\ free \in [Blocks -> AllocState]
  BY BlockTaken DEF Blocks
<1>2. c \in Chars /\ i \in Blocks
  BY <1>1, CharsAreChars DEF valid_block_number
<1>3. AllocIndirect(disk, k) = [disk EXCEPT !.free = free, !.data = data]
  BY DEF AllocIndirect, Disks
<1> HIDE DEF free, c, i
<1>4. /\ data \in [Blocks -> [Offsets -> Chars]]
      /\ \A b \in Blocks, j \in Offsets :
           data[b][j] = IF b = i /\ j = k THEN c ELSE disk.data[b][j]
  BY <1>2 DEF Disks
<1> HIDE DEF data
<1>5. /\ AllocIndirect(disk, k) \in Disks
      /\ AllocIndirect(disk, k).inode = disk.inode
      /\ AllocIndirect(disk, k).free = free /\ AllocIndirect(disk, k).data = data
  BY <1>1, <1>3, <1>4 DEF Disks
<1> QED
  BY <1>4, <1>5 DEF free, c, i

\* Allocating the next block of a file keeps a disk a disk, and the file's size.
LEMMA AllocDisk ==
  ASSUME NEW disk \in Disks
  PROVE  /\ inumber_block_alloc(disk) \in Disks
         /\ inumber_block_alloc(disk).inode.i_size = disk.inode.i_size
<1> DEFINE id == disk.inode.i_size \div BLOCK_SIZE
           indirect == WithIndirect(disk, id)
<1>1. id \in Int /\ NUMBER_DIRECT_BLOCKS \in Nat
  BY DivMod, ConfigAssumption, Ex1Assumption DEF Disks, Ex1Inode
<1>2. CASE id < NUMBER_DIRECT_BLOCKS
  <2> DEFINE free == TakeFirst(disk.free)  b == data_block_taken(disk)
             direct == [disk.inode.i_data_direct EXCEPT ![id] = b]
  <2>1. free \in [Blocks -> AllocState] /\ b \in Blocks \cup {-1}
    BY BlockTaken
  <2>2. inumber_block_alloc(disk) = [disk EXCEPT !.free = free, !.inode.i_data_direct = direct]
    BY <1>2 DEF inumber_block_alloc, Disks, Ex1Inode
  <2> HIDE DEF free, b
  <2>3. direct \in [0 .. NUMBER_DIRECT_BLOCKS - 1 -> Blocks \cup {-1}]
    BY <2>1 DEF Disks, Ex1Inode
  <2> HIDE DEF direct, id
  <2> DEFINE inode == [disk.inode EXCEPT !.i_data_direct = direct]
             new == [inode |-> inode, free |-> free, data |-> disk.data]
  <2>4. inumber_block_alloc(disk) = new
    BY <2>2 DEF Disks
  <2>5. inode \in Ex1Inode /\ inode.i_size = disk.inode.i_size
    BY <2>3 DEF Disks, Ex1Inode
  <2> HIDE DEF inode
  <2>6. new \in Disks /\ new.inode = inode
    BY <2>1, <2>5 DEF Disks
  <2> HIDE DEF new
  <2> QED
    BY <2>4, <2>5, <2>6
<1>3. CASE ~(id < NUMBER_DIRECT_BLOCKS) /\ NullIndirect(indirect, id)
  BY <1>3, IndirectDisk DEF inumber_block_alloc
<1>4. CASE ~(id < NUMBER_DIRECT_BLOCKS) /\ ~NullIndirect(indirect, id)
  <2>1. inumber_block_alloc(disk) = AllocIndirect(indirect, id - NUMBER_DIRECT_BLOCKS)
    BY <1>4 DEF inumber_block_alloc
  <2>2. valid_block_number(indirect.inode.i_data_indirect)
    BY <1>1, <1>4 DEF NullIndirect
  <2>3. indirect \in Disks /\ indirect.inode.i_size = disk.inode.i_size
    BY IndirectDisk
  <2> HIDE DEF indirect, id
  <2> QED
    BY <1>1, <2>1, <2>2, <2>3, NumberedDisk
<1> QED
  BY <1>2, <1>3, <1>4

\* Storing a piece keeps a disk a disk, and changes only bytes of one block.
LEMMA StoredDisk ==
  ASSUME NEW disk \in Disks, NEW id \in Int, NEW offset \in Int, NEW bytes \in Seq(Chars),
         valid_block_number(get_inode_block(disk, id))
  PROVE  /\ Stored(disk, id, offset, bytes) \in Disks
         /\ Stored(disk, id, offset, bytes).inode = disk.inode
         /\ Stored(disk, id, offset, bytes).free = disk.free
         /\ \A b \in Blocks, k \in Offsets : Stored(disk, id, offset, bytes).data[b][k] =
              IF b = get_inode_block(disk, id) /\ k - offset + 1 \in DOMAIN bytes
              THEN bytes[k - offset + 1] ELSE disk.data[b][k]
<1> DEFINE block == get_inode_block(disk, id)
           new == [k \in Offsets |-> IF k - offset + 1 \in DOMAIN bytes THEN bytes[k - offset + 1]
                                     ELSE disk.data[block][k]]
           data == [disk.data EXCEPT ![block] = new]
<1>1. block \in Blocks
  BY DEF valid_block_number
<1>2. Stored(disk, id, offset, bytes) = [disk EXCEPT !.data = data]
  BY <1>1 DEF Stored, Disks
<1> HIDE DEF block
<1>3. new \in [Offsets -> Chars]
  <2>1. \A k \in DOMAIN bytes : bytes[k] \in Chars
    OBVIOUS
  <2>2. \A k \in Offsets : disk.data[block][k] \in Chars
    BY <1>1 DEF Disks
  <2> QED
    BY <2>1, <2>2
<1>4. \A k \in Offsets : new[k] = IF k - offset + 1 \in DOMAIN bytes THEN bytes[k - offset + 1]
                                                               ELSE disk.data[block][k]
  OBVIOUS
<1> HIDE DEF new
<1>5. /\ data \in [Blocks -> [Offsets -> Chars]]
      /\ \A b \in Blocks : data[b] = IF b = block THEN new ELSE disk.data[b]
  BY <1>1, <1>3 DEF Disks
<1> HIDE DEF data
<1> QED
  BY <1>2, <1>4, <1>5 DEF Disks, block

----------------------------------------------------------------------------
(* How far a call has come.                                                *)

FileOffsets == 0 .. MAXIMUM_FILE_BYTES

TablesOK ==
  /\ inode_table \in [Inumbers -> Ex1Inode]
  /\ fs_data \in [Blocks -> [Offsets -> Chars]] /\ free_blocks \in [Blocks -> AllocState]
  /\ open_file_table \in [Handles -> [of_inumber : Inumbers, of_offset : FileOffsets]]

\* A call ends inside the largest file, and in its buffer.
CallOK(f) ==
  /\ f.at = "add" => f.offset \in FileOffsets
  /\ f.at \in {"size", "handle", "inode"} => f.done = 0
  /\ f.at \in {"size", "handle", "inode", "loop", "advance"} => f.buffer \in Seq(Chars)
  /\ f.at \in {"handle", "inode", "loop", "advance"} => f.len \in Nat
  /\ Inside(f) => /\ f.offset \in Nat /\ f.todo \in Nat /\ f.done \in Nat
                  /\ f.offset + f.todo <= MAXIMUM_FILE_BYTES /\ f.done <= f.todo
                  /\ f.op = "write" => f.todo <= Len(f.buffer)
  /\ f.at = "advance" => f.done < f.todo

CallsOK == \A t \in Threads :
  CallOK(frame[t]) /\ (Inside(frame[t]) => Offset(t) = frame[t].offset + frame[t].done)

FilesInv == Ex1Inv /\ ExclusionInv /\ TablesOK /\ CallsOK

\* The handle of a call and its file.
LEMMA AtFile ==
  ASSUME Ex1Inv, TablesOK, NEW t \in Threads,
         frame[t].at \in {"size", "handle", "inode", "loop", "advance"}
  PROVE  /\ frame[t].h \in Handles /\ Open(frame[t].h) /\ IsFile(Inum(t))
         /\ Inum(t) \in Inumbers /\ inode_table[Inum(t)] \in Ex1Inode
         /\ Offset(t) \in FileOffsets /\ Size(t) \in FileOffsets
<1>1. frame[t].h \in Handles /\ Open(frame[t].h)
  BY DEF Ex1Inv, FrameOK
<1>2. IsFile(Inum(t))
  BY <1>1 DEF Ex1Inv, HandlesInv, Inum
<1> QED
  BY <1>1, <1>2 DEF TablesOK, IsFile, Inum, Offset, Size, Ex1Inode, FileOffsets

\* The next piece is not empty, does not exceed what is left, and is in one block.
LEMMA PieceFits ==
  ASSUME FilesInv, NEW t \in Threads, Inside(frame[t]), frame[t].done < frame[t].todo
  PROVE  /\ Piece(t) \in Nat \ {0} /\ frame[t].done + Piece(t) <= frame[t].todo
         /\ (Offset(t) % BLOCK_SIZE) + Piece(t) <= BLOCK_SIZE
         /\ Offset(t) % BLOCK_SIZE \in Offsets
<1> DEFINE o == Offset(t)
<1>0. o \in Int /\ BLOCK_SIZE \in Nat \ {0}
  BY AtFile, ConfigAssumption DEF FilesInv, Inside, FileOffsets
<1> HIDE DEF o
<1>1. o % BLOCK_SIZE \in 0 .. BLOCK_SIZE - 1
  BY <1>0, DivMod
<1>2. Offset(t) % BLOCK_SIZE \in 0 .. BLOCK_SIZE - 1 /\ BLOCK_SIZE \in Nat \ {0}
  BY <1>0, <1>1 DEF o
<1>3. frame[t].done \in Nat /\ frame[t].todo \in Nat
  BY DEF FilesInv, CallsOK, CallOK
<1> QED
  BY <1>2, <1>3 DEF Piece, Offsets

\* The disk a writer works on is one, and the file keeps its size.
LEMMA WriterDisk ==
  ASSUME FilesInv, NEW t \in Threads, Inside(frame[t])
  PROVE  /\ Disk(Inum(t)) \in Disks /\ DiskToWrite(t) \in Disks
         /\ DiskToWrite(t).inode.i_size = Size(t)
<1>1. inode_table[Inum(t)] \in Ex1Inode
  BY AtFile DEF FilesInv, Inside
<1>2. Disk(Inum(t)) \in Disks /\ Disk(Inum(t)).inode.i_size = Size(t)
  BY <1>1 DEF FilesInv, TablesOK, Disk, Disks, Size
<1> QED
  BY <1>2, AllocDisk DEF DiskToWrite

\* What a writer puts into its block.
LEMMA PieceBytes ==
  ASSUME FilesInv, NEW t \in Threads, InLoop(t), Writing(t)
  PROVE  /\ SubSeq(frame[t].buffer, frame[t].done + 1, frame[t].done + Piece(t)) \in Seq(Chars)
         /\ Len(SubSeq(frame[t].buffer, frame[t].done + 1, frame[t].done + Piece(t))) = Piece(t)
         /\ \A k \in 1 .. Piece(t) :
              SubSeq(frame[t].buffer, frame[t].done + 1, frame[t].done + Piece(t))[k]
                = frame[t].buffer[frame[t].done + k]
<1> DEFINE b == frame[t].buffer  d == frame[t].done
<1>1. Inside(frame[t]) /\ d < frame[t].todo
  BY DEF InLoop, At, Inside
<1>2. b \in Seq(Chars) /\ d \in Nat /\ frame[t].todo \in Nat /\ frame[t].todo <= Len(b)
  BY <1>1 DEF FilesInv, CallsOK, CallOK, Inside, Writing
<1>3. Piece(t) \in Nat \ {0} /\ d + Piece(t) <= frame[t].todo
  BY <1>1, PieceFits
<1> HIDE DEF b, d
<1>4. ASSUME NEW p \in Nat, d + p <= Len(b)
      PROVE  /\ SubSeq(b, d + 1, d + p) \in Seq(Chars) /\ Len(SubSeq(b, d + 1, d + p)) = p
             /\ \A k \in 1 .. p : SubSeq(b, d + 1, d + p)[k] = b[d + k]
  <2>1. SubSeq(b, d + 1, d + p) \in Seq(Chars)
    BY <1>2, <1>4
  <2>2. Len(SubSeq(b, d + 1, d + p)) = p
    BY <1>2, <1>4
  <2>3. \A k \in 1 .. p : SubSeq(b, d + 1, d + p)[k] = b[d + k]
    BY <1>2, <1>4, <2>2
  <2> QED
    BY <2>1, <2>2, <2>3
<1>5. Piece(t) \in Nat /\ d + Piece(t) <= Len(b)
  BY <1>2, <1>3
<1> QED
  BY <1>4, <1>5 DEF b, d

\* What WriteBlock leaves: the file's i-node but for its block numbers, and
\* tables.
LEMMA WrittenTables ==
  ASSUME FilesInv, NEW t \in Threads, WriteBlock(t)
  PROVE  /\ TablesOK'
         /\ \A i \in Inumbers : inode_table'[i].i_size = inode_table[i].i_size
<1> DEFINE disk  == DiskToWrite(t)
           block == get_inode_block(disk, BlockId(t))
           bytes == SubSeq(frame[t].buffer, frame[t].done + 1, frame[t].done + Piece(t))
           after == IF valid_block_number(block)
                    THEN Stored(disk, BlockId(t), Offset(t) % BLOCK_SIZE, bytes) ELSE disk
<1>1. InLoop(t) /\ Writing(t) /\ Inside(frame[t])
  BY DEF WriteBlock, InLoop, At, Inside
<1>2. disk \in Disks /\ disk.inode.i_size = Size(t)
  BY <1>1, WriterDisk
<1>3. Offset(t) \in Int /\ Offset(t) % BLOCK_SIZE \in Int /\ BlockId(t) \in Int
  <2>1. Offset(t) \in Int
    BY <1>1, AtFile DEF FilesInv, Inside, FileOffsets
  <2> QED
    BY <2>1, DivMod, ConfigAssumption DEF BlockId
<1>4. bytes \in Seq(Chars)
  BY <1>1, PieceBytes
<1>5. after \in Disks /\ after.inode = disk.inode
  <2>1. PICK d, b, o, w : d = disk /\ b = BlockId(t) /\ o = Offset(t) % BLOCK_SIZE /\ w = bytes
    OBVIOUS
  <2>2. d \in Disks /\ b \in Int /\ o \in Int /\ w \in Seq(Chars)
    BY <1>2, <1>3, <1>4, <2>1
  <2>3. valid_block_number(get_inode_block(d, b)) =>
          Stored(d, b, o, w) \in Disks /\ Stored(d, b, o, w).inode = d.inode
    BY <2>2, StoredDisk
  <2> QED
    BY <2>1, <2>2, <2>3
<1>6. Inum(t) \in Inumbers
  BY <1>1, AtFile DEF FilesInv, Inside
<1>7. CASE UNCHANGED <<state_vars>>
  BY <1>7 DEF FilesInv, TablesOK, state_vars, inode_vars, block_vars, open_vars
<1>8. CASE /\ inode_table' = [inode_table EXCEPT ![Inum(t)] = after.inode]
           /\ free_blocks' = after.free
           /\ fs_data' = after.data
           /\ UNCHANGED open_vars
  <2> HIDE DEF after, disk
  <2>1. after.inode \in Ex1Inode /\ after.free \in [Blocks -> AllocState]
        /\ after.data \in [Blocks -> [Offsets -> Chars]]
    BY <1>5 DEF Disks
  <2> QED
    BY <1>2, <1>5, <1>6, <1>8, <2>1 DEF FilesInv, TablesOK, Size, open_vars
<1> HIDE DEF after
<1> QED
  BY <1>7, <1>8 DEF WriteBlock, after

\* Setting the size of a file.
LEMMA SizeSet ==
  ASSUME NEW table \in [Inumbers -> Ex1Inode], NEW i \in Inumbers, NEW n \in FileOffsets
  PROVE  /\ [table EXCEPT ![i].i_size = n] \in [Inumbers -> Ex1Inode]
         /\ \A j \in Inumbers :
              /\ [table EXCEPT ![i].i_size = n][j].i_size = IF j = i THEN n ELSE table[j].i_size
              /\ [table EXCEPT ![i].i_size = n][j].i_data_direct = table[j].i_data_direct
              /\ [table EXCEPT ![i].i_size = n][j].i_data_indirect = table[j].i_data_indirect
<1> DEFINE inode == [table[i] EXCEPT !.i_size = n]  new == [table EXCEPT ![i].i_size = n]
<1>1. new = [table EXCEPT ![i] = inode]
  OBVIOUS
<1>2. inode \in Ex1Inode /\ inode.i_size = n /\ inode.i_data_direct = table[i].i_data_direct
      /\ inode.i_data_indirect = table[i].i_data_indirect
  BY DEF Ex1Inode, FileOffsets
<1> HIDE DEF new, inode
<1>3. new \in [Inumbers -> Ex1Inode] /\ \A j \in Inumbers : new[j] = IF j = i THEN inode ELSE table[j]
  BY <1>1, <1>2
<1>4. \A j \in Inumbers : new[j].i_size = IF j = i THEN n ELSE table[j].i_size
  BY <1>2, <1>3
<1> QED
  BY <1>2, <1>3, <1>4 DEF new

\* The i-node of a file that is created keeps its block numbers.
LEMMA CreatedTable ==
  ASSUME inode_table \in [Inumbers -> Ex1Inode], NEW i \in Inumbers
  PROVE  /\ Created(i) \in [Inumbers -> Ex1Inode]
         /\ \A j \in Inumbers :
              /\ Created(i)[j].i_size = IF j = i THEN 0 ELSE inode_table[j].i_size
              /\ Created(i)[j].i_data_direct = inode_table[j].i_data_direct
              /\ Created(i)[j].i_data_indirect = inode_table[j].i_data_indirect
<1> DEFINE inode == [inode_table[i] EXCEPT !.i_node_type = "T_FILE"]
           table == [inode_table EXCEPT ![i] = inode]
<1>1. inode \in Ex1Inode /\ inode.i_data_direct = inode_table[i].i_data_direct
      /\ inode.i_data_indirect = inode_table[i].i_data_indirect /\ inode.i_size = inode_table[i].i_size
  BY DEF Ex1Inode
<1>2. /\ DOMAIN inode_table = Inumbers
      /\ Created(i) = [inode_table EXCEPT ![i] = [inode EXCEPT !.i_size = 0]]
  BY DEF Created
<1>3. [table EXCEPT ![i].i_size = 0] = [inode_table EXCEPT ![i] = [inode EXCEPT !.i_size = 0]]
  OBVIOUS
<1> HIDE DEF inode
<1>4. table \in [Inumbers -> Ex1Inode]
  BY <1>1
<1>5. \A j \in Inumbers : /\ table[j].i_size = inode_table[j].i_size
                          /\ table[j].i_data_direct = inode_table[j].i_data_direct
                          /\ table[j].i_data_indirect = inode_table[j].i_data_indirect
  BY <1>1
<1> HIDE DEF table
<1>6. Created(i) = [table EXCEPT ![i].i_size = 0] /\ 0 \in FileOffsets
  BY <1>2, <1>3, MaximumIsNat DEF FileOffsets
<1> QED
  BY <1>4, <1>5, <1>6, SizeSet

\* The size of a file changes when it is truncated, when it is created, and when
\* a call advances past it.
LEMMA SizesMove ==
  ASSUME FilesInv, NEW t \in Threads, Step(t) \/ Call(t)
  PROVE  /\ inode_table' \in [Inumbers -> Ex1Inode]
         /\ \A i \in Inumbers :
              \/ inode_table'[i].i_size = inode_table[i].i_size
              \/ Truncate(t) /\ i = frame[t].inum /\ inode_table'[i].i_size = 0
              \/ freeinode_ts[i] = "FREE" /\ inode_table'[i].i_size = 0
              \/ /\ Advance(t) /\ i = Inum(t)
                 /\ inode_table'[i].i_size = Offset(t) + Piece(t)
                 /\ Offset(t) + Piece(t) > inode_table[i].i_size
<1>0. inode_table \in [Inumbers -> Ex1Inode] /\ MAXIMUM_FILE_BYTES \in Nat
  BY MaximumIsNat DEF FilesInv, TablesOK
<1>1. CASE Truncate(t)
  <2>1. \/ inode_table' = [inode_table EXCEPT ![frame[t].inum].i_size = 0]
        \/ inode_table' = inode_table
    BY <1>1 DEF Truncate
  <2>2. frame[t].inum \in Inumbers /\ 0 \in FileOffsets
    BY <1>0, <1>1 DEF Truncate, At, FilesInv, Ex1Inv, FrameOK, IsFile, FileOffsets
  <2>3. CASE inode_table' = [inode_table EXCEPT ![frame[t].inum].i_size = 0]
    <3>1. \A j \in Inumbers :
            inode_table'[j].i_size = IF j = frame[t].inum THEN 0 ELSE inode_table[j].i_size
      BY <1>0, <2>2, <2>3, SizeSet
    <3>2. inode_table' \in [Inumbers -> Ex1Inode]
      BY <1>0, <2>2, <2>3, SizeSet
    <3> QED
      BY <1>1, <3>1, <3>2
  <2> QED
    BY <1>0, <2>1, <2>3
<1>2. ASSUME NEW i, i = inode_create, i # -1, inode_table' = Created(i)
      PROVE  /\ inode_table' \in [Inumbers -> Ex1Inode]
             /\ \A j \in Inumbers : \/ inode_table'[j].i_size = inode_table[j].i_size
                                    \/ freeinode_ts[j] = "FREE" /\ inode_table'[j].i_size = 0
  <2>1. i \in Inumbers /\ freeinode_ts[i] = "FREE"
    BY <1>2, TakeFirstAt, ConfigAssumption DEF FilesInv, Ex1Inv, DirectoryInv, Inumbers, inode_create
  <2> QED
    BY <1>0, <1>2, <2>1, CreatedTable
<1>3. CASE Create(t) \/ CreateFails(t)
  <2>1. inode_table' = inode_table \/ (inode_create # -1 /\ inode_table' = Created(inode_create))
    BY <1>3 DEF Create, CreateFails
  <2> QED
    BY <1>0, <1>2, <2>1
<1>4. CASE Advance(t)
  <2> DEFINE offset == Offset(t) + Piece(t)
  <2>1. Inside(frame[t]) /\ frame[t].at = "advance"
    BY <1>4 DEF Advance, At, Inside
  <2>2. Inum(t) \in Inumbers
    BY <2>1, AtFile DEF FilesInv
  <2>3. offset \in FileOffsets
    <3>1. frame[t].done < frame[t].todo /\ Offset(t) = frame[t].offset + frame[t].done
      BY <2>1 DEF FilesInv, CallsOK, CallOK
    <3>2. /\ frame[t].offset \in Nat /\ frame[t].done \in Nat /\ frame[t].todo \in Nat
          /\ frame[t].offset + frame[t].todo <= MAXIMUM_FILE_BYTES
      BY <2>1 DEF FilesInv, CallsOK, CallOK
    <3>3. Piece(t) \in Nat /\ frame[t].done + Piece(t) <= frame[t].todo
      BY <2>1, <3>1, PieceFits
    <3> QED
      BY <1>0, <3>1, <3>2, <3>3 DEF FileOffsets
  <2>4. inode_table' = [inode_table EXCEPT ![Inum(t)].i_size = IF offset > @ THEN offset ELSE @]
    BY <1>4 DEF Advance
  <2> HIDE DEF offset
  <2>5. inode_table[Inum(t)].i_size \in FileOffsets
    BY <1>0, <2>2 DEF Ex1Inode, FileOffsets
  <2>6. PICK n \in FileOffsets : /\ n = IF offset > Size(t) THEN offset ELSE Size(t)
                                 /\ inode_table' = [inode_table EXCEPT ![Inum(t)].i_size = n]
    BY <1>0, <2>2, <2>3, <2>4, <2>5 DEF Size
  <2>7. inode_table' \in [Inumbers -> Ex1Inode]
    BY <1>0, <2>2, <2>6, SizeSet
  <2>8. \A i \in Inumbers : inode_table'[i].i_size = IF i = Inum(t) THEN n ELSE inode_table[i].i_size
    BY <1>0, <2>2, <2>6, SizeSet
  <2> QED
    BY <1>4, <2>2, <2>3, <2>5, <2>6, <2>7, <2>8 DEF offset, Size, FileOffsets
<1>5. CASE WriteBlock(t)
  BY <1>5, WrittenTables DEF TablesOK
<1>6. CASE inode_table' = inode_table
  BY <1>0, <1>6
<1>7. CASE Call(t)
  BY <1>6, <1>7, CallEffect DEF inode_vars, FilesInv
<1>8. CASE Step(t) /\ ~Truncate(t) /\ ~Create(t) /\ ~CreateFails(t) /\ ~Advance(t) /\ ~WriteBlock(t)
  BY <1>6, <1>8 DEF Step, LockExisting, Position, Add, LockHandle, LockForWrite, LockForRead, Locks,
     ReadBlock, Return, CopyOpens, LooksUp, CopySize, state_vars, inode_vars
<1> QED
  BY <1>1, <1>3, <1>4, <1>5, <1>7, <1>8

\* How far an advance takes a handle.
LEMMA AdvanceFits ==
  ASSUME FilesInv, NEW t \in Threads, frame[t].at = "advance"
  PROVE  /\ Piece(t) \in Nat \ {0} /\ frame[t].done + Piece(t) <= frame[t].todo
         /\ Offset(t) + Piece(t) \in FileOffsets
         /\ Offset(t) + Piece(t) = frame[t].offset + (frame[t].done + Piece(t))
<1>1. /\ Inside(frame[t]) /\ frame[t].done < frame[t].todo
      /\ Offset(t) = frame[t].offset + frame[t].done
      /\ frame[t].offset \in Nat /\ frame[t].done \in Nat /\ frame[t].todo \in Nat
      /\ frame[t].offset + frame[t].todo <= MAXIMUM_FILE_BYTES
  BY DEF FilesInv, CallsOK, CallOK, Inside
<1>2. Piece(t) \in Nat \ {0} /\ frame[t].done + Piece(t) <= frame[t].todo
  BY <1>1, PieceFits
<1> QED
  BY <1>1, <1>2, MaximumIsNat DEF FileOffsets

\* Each step leaves tables.
LEMMA TablesStep ==
  ASSUME FilesInv, NEW t \in Threads, Step(t) \/ Call(t)
  PROVE  TablesOK'
<1>0. TablesOK /\ inode_table' \in [Inumbers -> Ex1Inode]
  BY SizesMove DEF FilesInv
<1>1. CASE Truncate(t)
  <2>1. UNCHANGED <<fs_data, open_file_table>> /\ free_blocks' = truncate_file(frame[t].inum)
    BY <1>1 DEF Truncate, open_vars
  <2>2. truncate_file(frame[t].inum) \in [Blocks -> AllocState]
    BY <1>0 DEF truncate_file, TablesOK, AllocState
  <2> QED
    BY <1>0, <2>1, <2>2 DEF TablesOK
<1>2. CASE Add(t)
  <2> DEFINE e == [of_inumber |-> frame[t].inum, of_offset |-> frame[t].offset]
             h == First(FreeIn(free_open_file_entries))
  <2>1. /\ UNCHANGED <<fs_data, free_blocks>>
        /\ open_file_table' = [g \in Handles |-> IF g = h THEN e ELSE open_file_table[g]]
    BY <1>2 DEF Add, block_vars
  <2>2. frame[t].inum \in Inumbers /\ frame[t].offset \in FileOffsets
    BY <1>2 DEF Add, At, FilesInv, Ex1Inv, FrameOK, IsFile, CallsOK, CallOK
  <2>3. e \in [of_inumber : Inumbers, of_offset : FileOffsets]
    BY <2>2
  <2> HIDE DEF e, h
  <2> QED
    BY <1>0, <2>1, <2>3 DEF TablesOK
<1>3. CASE Advance(t)
  <2> DEFINE o == Offset(t) + Piece(t)
  <2>1. /\ UNCHANGED <<fs_data, free_blocks>>
        /\ open_file_table' = [open_file_table EXCEPT ![frame[t].h].of_offset = o]
        /\ frame[t].at = "advance"
    BY <1>3 DEF Advance, block_vars, At
  <2>2. o \in FileOffsets
    BY <2>1, AdvanceFits
  <2> HIDE DEF o
  <2> QED
    BY <1>0, <2>1, <2>2 DEF TablesOK
<1>4. CASE WriteBlock(t)
  BY <1>4, WrittenTables
<1>5. CASE UNCHANGED <<fs_data, free_blocks, open_file_table>>
  BY <1>0, <1>5 DEF TablesOK
<1>6. CASE Call(t)
  BY <1>5, <1>6, CallEffect DEF block_vars, FilesInv
<1>7. CASE Step(t) /\ ~Truncate(t) /\ ~Add(t) /\ ~Advance(t) /\ ~WriteBlock(t)
  BY <1>5, <1>7 DEF Step, LockExisting, Position, Create, CreateFails, LockHandle, LockForWrite,
     LockForRead, Locks, ReadBlock, Return, CopyOpens, LooksUp, CopySize, state_vars, open_vars,
     block_vars
<1> QED
  BY <1>1, <1>2, <1>3, <1>4, <1>6, <1>7

\* Nobody but its call moves a handle that a call has locked.
LEMMA OthersKeepOffset ==
  ASSUME Ex1Inv, ExclusionInv, NEW t \in Threads, Step(t) \/ Call(t),
         NEW u \in Threads, u # t, frame[u].at = "inode" \/ Inside(frame[u])
  PROVE  open_file_table'[frame[u].h] = open_file_table[frame[u].h]
<1>1. frame[u].h \in Handles /\ Open(frame[u].h) /\ u \in lock_fhandle[frame[u].h]["writers"]
  BY DEF Ex1Inv, FrameOK, ExclusionInv, Inside
<1>2. SUFFICES ASSUME Advance(t), frame[u].h = frame[t].h PROVE FALSE
  BY <1>1, EntriesMove
<1>3. t \in lock_fhandle[frame[u].h]["writers"]
  BY <1>2 DEF Advance, At, ExclusionInv, Inside
<1>4. Has(lock_fhandle, t, frame[u].h) /\ DOMAIN lock_fhandle = Handles
  BY <1>3 DEF Has, Modes, Ex1Inv, LocksInv
<1> QED
  BY <1>1, <1>3, <1>4 DEF ExclusionInv, Exclusive

\* A call that locks its file changes nothing but its frame.
LEMMA LocksEffect ==
  ASSUME Ex1Inv, NEW t \in Threads, NEW mode, NEW todo, Locks(t, mode, todo)
  PROVE  /\ frame'[t].at = "loop" /\ Others(t)
         /\ frame'[t].todo = todo /\ frame'[t].offset = Offset(t)
         /\ frame'[t].old = IF Astray THEN <<>> ELSE Contents(Inum(t))
         /\ frame'[t].h = frame[t].h /\ frame'[t].op = frame[t].op /\ frame'[t].len = frame[t].len
         /\ frame'[t].done = frame[t].done /\ frame'[t].buffer = frame[t].buffer
         /\ inode_table' = inode_table /\ open_file_table' = open_file_table
         /\ freeinode_ts' = freeinode_ts /\ free_blocks' = free_blocks /\ fs_data' = fs_data
<1>1. GoesTo(t, "loop", {"todo", "offset", "old"})
  BY AccessEffects
<1>2. /\ frame'[t].todo = todo /\ frame'[t].offset = Offset(t)
      /\ frame'[t].old = IF Astray THEN <<>> ELSE Contents(Inum(t))
  BY AccessEffects
<1>3. UNCHANGED state_vars
  BY DEF Locks
<1> QED
  BY <1>1, <1>2, <1>3 DEF GoesTo, Fields, state_vars, inode_vars, open_vars, block_vars

\* What is left to do when a call has locked its file fits into the file.
LEMMA LocksFit ==
  ASSUME FilesInv, NEW t \in Threads
  PROVE  /\ LockForWrite(t) => \E todo \in Nat :
              /\ Locks(t, "writers", todo) /\ Offset(t) + todo <= MAXIMUM_FILE_BYTES
              /\ todo <= Len(frame[t].buffer)
              /\ frame[t].at = "inode" /\ frame[t].op = "write"
         /\ LockForRead(t) =>
              /\ frame[t].at = "inode" /\ frame[t].op # "write"
              /\ \/ \E todo \in Nat :
                      /\ Locks(t, "readers", todo) /\ Offset(t) + todo <= MAXIMUM_FILE_BYTES
                      /\ Offset(t) <= Size(t) => Offset(t) + todo <= Size(t)
                 \/ /\ frame'[t] = Idle /\ Others(t) /\ UNCHANGED open_file_table
                    /\ Offset(t) + to_read(t) >= MAXIMUM_FILE_BYTES
<1> SUFFICES ASSUME frame[t].at = "inode"
             PROVE  /\ LockForWrite(t) => \E todo \in Nat :
                         /\ Locks(t, "writers", todo) /\ Offset(t) + todo <= MAXIMUM_FILE_BYTES
                         /\ todo <= Len(frame[t].buffer)
                         /\ frame[t].op = "write"
                    /\ LockForRead(t) =>
                         /\ frame[t].op # "write"
                         /\ \/ \E todo \in Nat :
                                 /\ Locks(t, "readers", todo)
                                 /\ Offset(t) + todo <= MAXIMUM_FILE_BYTES
                                 /\ Offset(t) <= Size(t) => Offset(t) + todo <= Size(t)
                            \/ /\ frame'[t] = Idle /\ Others(t) /\ UNCHANGED open_file_table
                               /\ Offset(t) + to_read(t) >= MAXIMUM_FILE_BYTES
  BY DEF LockForWrite, LockForRead, At
<1>1. /\ Offset(t) \in FileOffsets /\ Size(t) \in FileOffsets /\ frame[t].len \in Nat
      /\ frame[t].buffer \in Seq(Chars)
  BY AtFile DEF FilesInv, CallsOK, CallOK
<1>2. MAXIMUM_FILE_BYTES \in Nat /\ SIZE_MOD \in Nat /\ 2 * MAXIMUM_FILE_BYTES < SIZE_MOD
  BY MaximumIsNat, Ex1OpsAssumption
<1>3. ASSUME LockForWrite(t)
      PROVE  \E todo \in Nat : /\ Locks(t, "writers", todo) /\ Offset(t) + todo <= MAXIMUM_FILE_BYTES
                               /\ todo <= Len(frame[t].buffer)
                               /\ frame[t].op = "write"
  <2> DEFINE len == Len(frame[t].buffer)
             todo == IF len + Offset(t) > MAXIMUM_FILE_BYTES
                     THEN size_sub(MAXIMUM_FILE_BYTES, Offset(t)) ELSE len
  <2>1. Locks(t, "writers", todo) /\ frame[t].op = "write"
    BY <1>3 DEF LockForWrite, Writing
  <2>2. len \in Nat
    BY <1>1
  <2> HIDE DEF len
  <2>3. todo \in Nat /\ Offset(t) + todo <= MAXIMUM_FILE_BYTES /\ todo <= len
    BY <1>1, <1>2, <2>2 DEF size_sub, FileOffsets
  <2> QED
    BY <2>1, <2>3 DEF len
<1>4. ASSUME LockForRead(t)
      PROVE  /\ frame[t].op # "write"
             /\ \/ \E todo \in Nat :
                     /\ Locks(t, "readers", todo)
                     /\ Offset(t) + todo <= MAXIMUM_FILE_BYTES
                     /\ Offset(t) <= Size(t) => Offset(t) + todo <= Size(t)
                \/ /\ frame'[t] = Idle /\ Others(t) /\ UNCHANGED open_file_table
                   /\ Offset(t) + to_read(t) >= MAXIMUM_FILE_BYTES
  <2>1. to_read(t) \in Nat /\ (Offset(t) <= Size(t) => Offset(t) + to_read(t) <= Size(t))
    BY <1>1, <1>2 DEF to_read, size_sub, FileOffsets
  <2>2. frame[t].op # "write"
    BY <1>4 DEF LockForRead, Writing
  <2>3. CASE Offset(t) + to_read(t) < MAXIMUM_FILE_BYTES /\ Locks(t, "readers", to_read(t))
    <3>1. Offset(t) + to_read(t) <= MAXIMUM_FILE_BYTES
      BY <1>1, <1>2, <2>1, <2>3 DEF FileOffsets
    <3> QED
      BY <2>1, <2>2, <2>3, <3>1
  <2>4. CASE Offset(t) + to_read(t) >= MAXIMUM_FILE_BYTES /\ Returns(t, frame[t].op, -1)
             /\ UNCHANGED state_vars
    BY <2>2, <2>4, ReturnsIdle DEF FilesInv, state_vars, open_vars
  <2> QED
    BY <1>4, <2>3, <2>4 DEF LockForRead
<1> QED
  BY <1>3, <1>4

\* A call that has returned has nothing left to do.
LEMMA IdleCallOK == CallOK(Idle) /\ ~Inside(Idle)
BY DEF CallOK, Inside, Idle

\* The calls of the others are as before; that of t may have moved.
LEMMA CallsMove ==
  ASSUME FilesInv, NEW t \in Threads, Step(t) \/ Call(t), Others(t), CallOK(frame'[t]),
         Inside(frame'[t]) =>
           open_file_table'[frame'[t].h].of_offset = frame'[t].offset + frame'[t].done
  PROVE  CallsOK'
<1>1. ASSUME NEW u \in Threads
      PROVE  CallOK(frame'[u]) /\ (Inside(frame'[u]) =>
               open_file_table'[frame'[u].h].of_offset = frame'[u].offset + frame'[u].done)
  <2>1. CASE u = t
    BY <2>1
  <2>2. CASE u # t
    <3>1. frame'[u] = frame[u]
      BY <2>2 DEF Others
    <3>2. CallOK(frame[u]) /\ (Inside(frame[u]) => Offset(u) = frame[u].offset + frame[u].done)
      BY DEF FilesInv, CallsOK
    <3>3. Inside(frame[u]) => open_file_table'[frame[u].h] = open_file_table[frame[u].h]
      BY <2>2, OthersKeepOffset DEF FilesInv
    <3> QED
      BY <3>1, <3>2, <3>3 DEF Offset
  <2> QED
    BY <2>1, <2>2
<1> QED
  BY <1>1 DEF CallsOK, CallOK, Inside, Offset

\* What a reader has in its buffer once it has copied the next piece.
LEMMA ReadBytes ==
  ASSUME FilesInv, NEW t \in Threads, ReadBlock(t), frame'[t].at = "advance"
  PROVE  /\ frame'[t].buffer \in Seq(Chars)
         /\ frame'[t].buffer = frame[t].buffer \o
              [k \in 1 .. Piece(t) |-> fs_data[get_inode_block(Disk(Inum(t)), BlockId(t))]
                                             [(Offset(t) % BLOCK_SIZE) + k - 1]]
<1> DEFINE block == get_inode_block(Disk(Inum(t)), BlockId(t))
           bytes == [k \in 1 .. Piece(t) |-> fs_data[block][(Offset(t) % BLOCK_SIZE) + k - 1]]
           buffer == frame[t].buffer \o bytes
           g == [frame[t] EXCEPT !.at = "advance", !.buffer = buffer]
<1>1. /\ frame[t].at = "loop" /\ frame[t].done < frame[t].todo
      /\ \/ /\ valid_block_number(block)
            /\ Goto(t, [frame[t] EXCEPT !.at = "advance", !.buffer = @ \o bytes])
         \/ BlockFails(t)
  BY DEF ReadBlock, InLoop, At
<1>2. ~BlockFails(t)
  BY ReturnsIdle DEF BlockFails, FilesInv
<1>3. IsFrame(frame[t]) /\ frame[t].buffer \in Seq(Chars)
  BY <1>1 DEF FilesInv, Ex1Inv, FrameOK, CallsOK, CallOK
<1>4. [frame[t] EXCEPT !.at = "advance", !.buffer = @ \o bytes] = g
  OBVIOUS
<1>5. frame'[t] = g
  BY <1>1, <1>2, <1>4, FrameReplaced DEF Goto, FilesInv
<1>6. bytes \in Seq(Chars)
  <2>1. Piece(t) \in Nat /\ (Offset(t) % BLOCK_SIZE) + Piece(t) <= BLOCK_SIZE
        /\ Offset(t) % BLOCK_SIZE \in Offsets
    BY <1>1, PieceFits DEF Inside
  <2>2. BLOCK_SIZE \in Nat
    BY ConfigAssumption
  <2>3. \A k \in 1 .. Piece(t) : (Offset(t) % BLOCK_SIZE) + k - 1 \in Offsets
    BY <2>1, <2>2 DEF Offsets
  <2>4. block \in Blocks /\ fs_data \in [Blocks -> [Offsets -> Chars]]
    BY <1>1, <1>2 DEF valid_block_number, FilesInv, TablesOK
  <2> HIDE DEF block
  <2>5. \A k \in 1 .. Piece(t) : fs_data[block][(Offset(t) % BLOCK_SIZE) + k - 1] \in Chars
    BY <2>3, <2>4
  <2> QED
    BY <2>1, <2>5
<1> HIDE DEF bytes
<1>7. buffer \in Seq(Chars)
  BY <1>3, <1>6
<1> HIDE DEF buffer
<1>8. g.buffer = buffer
  BY <1>3 DEF IsFrame, Fields
<1> HIDE DEF g
<1> QED
  BY <1>5, <1>7, <1>8 DEF buffer, bytes

\* Each step keeps the calls inside the largest file.
LEMMA CallsStep ==
  ASSUME FilesInv, NEW t \in Threads, Step(t) \/ Call(t)
  PROVE  CallsOK'
<1>0. /\ Ex1Inv /\ CallOK(frame[t]) /\ FrameOK(frame[t]) /\ TablesOK
      /\ Inside(frame[t]) => Offset(t) = frame[t].offset + frame[t].done
  BY DEF FilesInv, CallsOK, Ex1Inv
<1>1. ASSUME frame'[t] = Idle, Others(t)
      PROVE  CallsOK'
  BY <1>1, IdleCallOK, CallsMove
<1>2. ASSUME Others(t),
             frame'[t].at \in {"idle", "lookup", "existing", "truncate", "position", "create"}
      PROVE  CallsOK'
  <2>1. CallOK(frame'[t]) /\ ~Inside(frame'[t])
    BY <1>2 DEF CallOK, Inside
  <2> QED
    BY <1>2, <2>1, CallsMove
<1>3. CASE Call(t)
  <2>1. CASE frame'[t].at = "handle"
    <3>1. frame'[t].buffer \in Seq(Chars) /\ frame'[t].len \in Nat /\ frame'[t].done = 0 /\ Others(t)
      <4>1. \A b \in Buffers : b \in Seq(Chars)
        <5>1. \A b \in Seq(Data) : b \in Seq(Chars)
          BY Ex1Assumption
        <5> QED
          BY <5>1, Ex1OpsAssumption
      <4>2. \A len \in Lens : len \in Nat
        BY Ex1OpsAssumption
      <4>3. <<>> \in Seq(Chars)
        OBVIOUS
      <4>4. /\ Others(t) /\ frame'[t].done = 0
            /\ frame'[t].buffer \in Buffers \/ frame'[t].buffer = <<>>
            /\ frame'[t].len \in Lens \/ frame'[t].len = 0
        BY <1>0, <1>3, <2>1, CallEffect
      <4>5. frame'[t].buffer \in Seq(Chars)
        BY <4>1, <4>3, <4>4
      <4>6. frame'[t].len \in Nat
        BY <4>2, <4>4
      <4> QED
        BY <4>4, <4>5, <4>6
    <3>2. CallOK(frame'[t]) /\ ~Inside(frame'[t])
      BY <2>1, <3>1 DEF CallOK, Inside
    <3> QED
      BY <3>1, <3>2, CallsMove
  <2> QED
    BY <1>0, <1>2, <1>3, <2>1, CallEffect
<1>4. CASE LockExisting(t)
  BY <1>0, <1>2, <1>4, OpenEffects DEF GoesTo
<1>5. CASE Truncate(t)
  <2>1. Others(t) /\ (frame'[t] = Idle \/ frame'[t].at = "position")
    BY <1>0, <1>5, OpenEffects DEF GoesTo
  <2> QED
    BY <1>1, <1>2, <2>1
<1>6. CASE Position(t) \/ Create(t)
  <2>1. /\ Others(t) /\ frame'[t].at = "add"
        /\ \/ frame'[t].offset = 0
           \/ Position(t) /\ frame'[t].offset = inode_table[frame[t].inum].i_size
    <3>1. CASE Position(t)
      BY <1>0, <3>1, OpenEffects
    <3>2. CASE Create(t)
      BY <1>0, <3>2, OpenEffects
    <3> QED
      BY <1>6, <3>1, <3>2
  <2>2. Position(t) => inode_table[frame[t].inum].i_size \in FileOffsets
    <3>1. Position(t) => frame[t].inum \in Inumbers
      BY <1>0 DEF Position, At, FrameOK, IsFile
    <3> QED
      BY <1>0, <3>1 DEF TablesOK, Ex1Inode, FileOffsets
  <2>3. 0 \in FileOffsets
    BY MaximumIsNat DEF FileOffsets
  <2>4. CallOK(frame'[t]) /\ ~Inside(frame'[t])
    BY <2>1, <2>2, <2>3 DEF CallOK, Inside
  <2> QED
    BY <2>1, <2>4, CallsMove
<1>7. CASE CreateFails(t) \/ Return(t)
  BY <1>0, <1>1, <1>7, OpenEffects, AccessEffects
<1>8. CASE Add(t)
  <2>1. CASE frame'[t].at = "size"
    <3>1. frame'[t].buffer = <<>> /\ frame'[t].done = 0 /\ Others(t)
      BY <1>0, <1>8, <2>1, HandleEffects DEF Idle
    <3>2. <<>> \in Seq(Chars)
      OBVIOUS
    <3>3. CallOK(frame'[t]) /\ ~Inside(frame'[t])
      BY <2>1, <3>1, <3>2 DEF CallOK, Inside
    <3> QED
      BY <3>1, <3>3, CallsMove
  <2> QED
    BY <1>0, <1>1, <1>8, <2>1, HandleEffects
<1>9. CASE CopyOpens(t)
  BY <1>0, <1>2, <1>9, HandleEffects
<1>10. CASE CopySize(t)
  <2>1. /\ frame[t].at = "size" /\ frame'[t].at = "handle" /\ Others(t) /\ frame'[t].len = Size(t)
        /\ frame'[t].done = frame[t].done /\ frame'[t].buffer = frame[t].buffer
    BY <1>0, <1>10, HandleEffects DEF GoesTo, Fields
  <2>2. Size(t) \in Nat
    BY <1>0, <2>1, AtFile DEF FileOffsets
  <2>3. CallOK(frame'[t]) /\ ~Inside(frame'[t])
    BY <1>0, <2>1, <2>2 DEF CallOK, Inside
  <2> QED
    BY <2>1, <2>3, CallsMove
<1>11. CASE LockHandle(t)
  <2>1. /\ frame[t].at = "handle" /\ frame'[t].at = "inode" /\ Others(t)
        /\ frame'[t].len = frame[t].len
        /\ frame'[t].done = frame[t].done /\ frame'[t].buffer = frame[t].buffer
    BY <1>0, <1>11, HandleEffects DEF GoesTo, Fields
  <2>2. CallOK(frame'[t]) /\ ~Inside(frame'[t])
    BY <1>0, <2>1 DEF CallOK, Inside
  <2> QED
    BY <2>1, <2>2, CallsMove
<1>12. ASSUME NEW mode, NEW todo \in Nat, Locks(t, mode, todo), frame[t].at = "inode",
              Offset(t) + todo <= MAXIMUM_FILE_BYTES,
              frame[t].op = "write" => todo <= Len(frame[t].buffer)
       PROVE  CallsOK'
  <2>1. /\ frame'[t].at = "loop" /\ Others(t) /\ frame'[t].todo = todo
        /\ frame'[t].offset = Offset(t) /\ frame'[t].h = frame[t].h /\ frame'[t].op = frame[t].op
        /\ frame'[t].len = frame[t].len
        /\ frame'[t].done = frame[t].done /\ frame'[t].buffer = frame[t].buffer
    BY <1>0, <1>12, LocksEffect
  <2>2. Offset(t) \in Nat /\ open_file_table' = open_file_table
    BY <1>0, <1>12, AtFile, LocksEffect DEF FileOffsets
  <2>3. CallOK(frame'[t])
    BY <1>0, <1>12, <2>1, <2>2 DEF CallOK, Inside
  <2>4. open_file_table'[frame'[t].h].of_offset = frame'[t].offset + frame'[t].done
    BY <1>0, <1>12, <2>1, <2>2 DEF CallOK, Offset
  <2> QED
    BY <2>1, <2>3, <2>4, CallsMove
<1>13. CASE LockForWrite(t)
  BY <1>12, <1>13, LocksFit
<1>14. CASE LockForRead(t)
  BY <1>1, <1>12, <1>14, LocksFit
<1>15. ASSUME frame[t].at = "loop", frame'[t].at = "advance", Others(t), frame[t].done < frame[t].todo,
              \A x \in Fields : x = "at" \/ x = "buffer" \/ frame'[t][x] = frame[t][x],
              frame'[t].buffer \in Seq(Chars),
              frame[t].op = "write" => frame'[t].buffer = frame[t].buffer,
              open_file_table' = open_file_table
       PROVE  CallsOK'
  <2>1. /\ frame'[t].todo = frame[t].todo
        /\ frame'[t].offset = frame[t].offset /\ frame'[t].h = frame[t].h /\ frame'[t].op = frame[t].op
        /\ frame'[t].len = frame[t].len /\ frame'[t].done = frame[t].done
    BY <1>15 DEF Fields
  <2>2. CallOK(frame'[t])
    BY <1>0, <1>15, <2>1 DEF CallOK, Inside
  <2>3. open_file_table'[frame'[t].h].of_offset = frame'[t].offset + frame'[t].done
    BY <1>0, <1>15, <2>1 DEF Offset, Inside
  <2> QED
    BY <1>15, <2>2, <2>3, CallsMove
<1>16. CASE WriteBlock(t)
  <2>0. frame[t].at = "loop" /\ frame[t].done < frame[t].todo
    BY <1>16 DEF WriteBlock, InLoop, At
  <2>1. CASE UNCHANGED <<state_vars, locks, frame>>
    BY <2>1 DEF FilesInv, CallsOK, CallOK, Inside, Offset, state_vars, open_vars
  <2>2. CASE GoesTo(t, "advance", {})
    <3>1. open_file_table' = open_file_table
      BY <1>16 DEF WriteBlock, state_vars, open_vars
    <3>2. frame[t].buffer \in Seq(Chars)
      BY <1>0, <2>0 DEF CallOK
    <3> QED
      BY <1>15, <2>0, <2>2, <3>1, <3>2 DEF GoesTo, Fields
  <2> QED
    BY <1>0, <1>1, <1>16, <2>1, <2>2, AccessEffects
<1>17. CASE ReadBlock(t)
  <2>0. frame[t].at = "loop" /\ frame[t].done < frame[t].todo /\ frame[t].op # "write"
    BY <1>17 DEF ReadBlock, InLoop, At, Writing
  <2>1. CASE GoesTo(t, "advance", {"buffer"})
    <3>1. open_file_table' = open_file_table
      BY <1>17 DEF ReadBlock, state_vars, open_vars
    <3>2. frame'[t].buffer \in Seq(Chars)
      BY <1>17, <2>1, ReadBytes DEF GoesTo
    <3> QED
      BY <1>15, <2>0, <2>1, <3>1, <3>2 DEF GoesTo, Fields
  <2> QED
    BY <1>0, <1>1, <1>17, <2>1, AccessEffects
<1>18. CASE Advance(t)
  <2> DEFINE o == Offset(t) + Piece(t)
  <2>1. /\ frame[t].at = "advance" /\ frame'[t].at = "loop" /\ Others(t)
        /\ frame'[t].done = frame[t].done + Piece(t) /\ frame'[t].h = frame[t].h
        /\ frame'[t].todo = frame[t].todo /\ frame'[t].offset = frame[t].offset
        /\ frame'[t].op = frame[t].op /\ frame'[t].buffer = frame[t].buffer
        /\ frame'[t].len = frame[t].len
    BY <1>0, <1>18, AccessEffects DEF GoesTo, Fields
  <2>2. Piece(t) \in Nat /\ frame[t].done + Piece(t) <= frame[t].todo
        /\ o = frame[t].offset + (frame[t].done + Piece(t))
    BY <2>1, AdvanceFits
  <2>3. CallOK(frame'[t])
    BY <1>0, <2>1, <2>2 DEF CallOK, Inside
  <2>4. open_file_table' = [open_file_table EXCEPT ![frame[t].h].of_offset = o]
    BY <1>18 DEF Advance
  <2>5. open_file_table'[frame[t].h].of_offset = o
    <3>1. frame[t].h \in Handles
      BY <1>0, <2>1, AtFile
    <3> HIDE DEF o
    <3> QED
      BY <1>0, <2>4, <3>1 DEF TablesOK
  <2> QED
    BY <2>1, <2>2, <2>3, <2>5, CallsMove
<1> QED
  BY <1>3, <1>4, <1>5, <1>6, <1>7, <1>8, <1>9, <1>10, <1>11, <1>13, <1>14, <1>16, <1>17, <1>18 DEF Step

\* Each step keeps all of this.
LEMMA FilesStep == FilesInv /\ [Next]_vars => FilesInv'
<1> SUFFICES ASSUME FilesInv, [Next]_vars PROVE FilesInv'
  OBVIOUS
<1>1. Ex1Inv'
  BY Ex1InvNext DEF FilesInv
<1>2. CASE UNCHANGED vars
  <2>1. TablesOK' /\ ExclusionInv'
    BY <1>2 DEF FilesInv, TablesOK, ExclusionInv, Exclusive, Has, Inside, Writing, Inum, vars,
       state_vars, inode_vars, block_vars, open_vars, locks
  <2>2. CallsOK'
    BY <1>2 DEF FilesInv, CallsOK, CallOK, Inside, Offset, vars, state_vars, open_vars
  <2> QED
    BY <1>1, <2>1, <2>2 DEF FilesInv
<1>3. ASSUME NEW t \in Threads, Step(t) \/ Call(t)
      PROVE  FilesInv'
  BY <1>1, <1>3, ExclusionStep, TablesStep, CallsStep DEF FilesInv
<1> QED
  BY <1>2, <1>3 DEF Next

\* It holds of the empty file system.
LEMMA FilesInit == Init => FilesInv
<1> SUFFICES ASSUME Init PROVE FilesInv
  OBVIOUS
<1>1. Ex1Inv
  BY Ex1InvInit
<1>2. \A t \in Threads : frame[t] = Idle
  BY DEF Init
<1>3. ExclusionInv
  <2>1. \A t \in Threads : ~Inside(frame[t]) /\ frame[t].at # "inode"
    BY <1>2 DEF Inside, Idle
  <2>2. Exclusive(lock_inumber) /\ Exclusive(lock_fhandle)
    BY DEF Init, Exclusive, Modes
  <2> QED
    BY <2>1, <2>2 DEF ExclusionInv
<1>4. CallsOK
  BY <1>2, IdleCallOK DEF CallsOK
<1>5. TablesOK
  <2> SUFFICES ASSUME Ex1RootCreated PROVE TablesOK
    BY DEF Init
  <2>0. /\ BLOCK_SIZE \in Nat \ {0} /\ 0 \in Blocks /\ 0 \in Inumbers /\ 0 \in FileOffsets
        /\ BLOCK_SIZE \in FileOffsets /\ ZERO \in Chars
    <3>1. BLOCK_SIZE \in Nat \ {0} /\ 0 \in Blocks /\ 0 \in Inumbers /\ ZERO \in Chars
      BY ConfigAssumption, Ex1Assumption DEF Blocks, Inumbers
    <3>2. MAX_BLOCKS \in Nat \ {0}
      BY MaximumIsNat
    <3>3. BLOCK_SIZE <= BLOCK_SIZE * MAX_BLOCKS
      BY <3>1, <3>2
    <3> QED
      BY <3>1, <3>3, MaximumIsNat DEF FileOffsets, MAXIMUM_FILE_BYTES
  <2>1. fs_data \in [Blocks -> [Offsets -> Chars]] /\ free_blocks \in [Blocks -> AllocState]
    BY <2>0 DEF Ex1RootCreated, AllocState
  <2>2. open_file_table \in [Handles -> [of_inumber : Inumbers, of_offset : FileOffsets]]
    BY <2>0 DEF Ex1RootCreated
  <2>3. inode_table \in [Inumbers -> Ex1Inode]
    <3> DEFINE direct == [k \in 0 .. NUMBER_DIRECT_BLOCKS - 1 |-> 0]
    <3>1. direct \in [0 .. NUMBER_DIRECT_BLOCKS - 1 -> Blocks \cup {-1}]
      BY <2>0
    <3>2. inode_table = [i \in Inumbers |->
            [i_node_type |-> IF i = ROOT_DIR_INUM THEN "T_DIRECTORY" ELSE "T_FILE",
             i_size |-> IF i = ROOT_DIR_INUM THEN BLOCK_SIZE ELSE 0,
             i_data_direct |-> direct,
             i_data_indirect |-> 0]]
      BY DEF Ex1RootCreated
    <3> HIDE DEF direct
    <3> QED
      BY <2>0, <3>1, <3>2 DEF Ex1Inode, FileOffsets
  <2> QED
    BY <2>1, <2>2, <2>3 DEF TablesOK
<1> QED
  BY <1>1, <1>3, <1>4, <1>5 DEF FilesInv

\* So it holds always.
LEMMA FilesAlways == Spec => []FilesInv
BY FilesInit, FilesStep, PTL DEF Spec

----------------------------------------------------------------------------
(* The handles stay inside their files.                                    *)

\* Until a file is truncated under one, the handles are inside their files, the
\* ones that are about to be given out too, and so is what is read.
InsideInv == ~undercut =>
  /\ OffsetWithinFile
  /\ \A t \in Threads :
       /\ frame[t].at = "add" => frame[t].offset <= inode_table[frame[t].inum].i_size
       /\ Inside(frame[t]) /\ ~Writing(t) => frame[t].offset + frame[t].todo <= Size(t)

\* What a step may take from the size of a file that is in use: all of it, if
\* nobody is past its start.
LEMMA SizesShrink ==
  ASSUME FilesInv, NEW t \in Threads, Step(t) \/ Call(t), ~undercut',
         NEW i \in Inumbers, freeinode_ts[i] = "TAKEN"
  PROVE  /\ ~undercut
         /\ inode_table[i].i_size \in FileOffsets /\ inode_table'[i].i_size \in FileOffsets
         /\ \/ inode_table'[i].i_size >= inode_table[i].i_size
            \/ ~PastStart(i) /\ Truncate(t)
<1>1. ~undercut
  <2>1. CASE Truncate(t)
    BY <2>1 DEF Truncate
  <2>2. CASE Call(t)
    BY <2>2, CallEffect DEF FilesInv
  <2>3. CASE Step(t) /\ ~Truncate(t)
    BY <2>3 DEF Step, LockExisting, Position, Create, CreateFails, Add, LockHandle, LockForWrite,
       LockForRead, Locks, WriteBlock, ReadBlock, Advance, Return, CopyOpens, LooksUp, CopySize, history
  <2> QED
    BY <2>1, <2>2, <2>3
<1>2. inode_table[i].i_size \in FileOffsets /\ inode_table'[i].i_size \in FileOffsets
  BY SizesMove DEF FilesInv, TablesOK, Ex1Inode, FileOffsets
<1>3. CASE Truncate(t) /\ i = frame[t].inum
  <2>1. ~(inode_table[i].i_size > 0 /\ PastStart(i))
    BY <1>3 DEF Truncate
  <2> QED
    BY <1>1, <1>2, <1>3, <2>1 DEF FileOffsets
<1>4. CASE ~(Truncate(t) /\ i = frame[t].inum)
  <2>1. freeinode_ts[i] # "FREE"
    OBVIOUS
  <2>2. \/ inode_table'[i].i_size = inode_table[i].i_size
        \/ inode_table'[i].i_size > inode_table[i].i_size
    BY <1>4, <2>1, SizesMove
  <2> QED
    BY <1>1, <1>2, <2>2 DEF FileOffsets
<1> QED
  BY <1>3, <1>4

\* A handle that is open after a step was open before it, or is the one that was
\* given out.
LEMMA NewHandle ==
  ASSUME FilesInv, NEW t \in Threads, Step(t) \/ Call(t), NEW h \in Handles,
         free_open_file_entries'[h] = "TAKEN", ~Open(h)
  PROVE  /\ Add(t) /\ frame[t].at = "add" /\ IsFile(frame[t].inum)
         /\ open_file_table'[h] = [of_inumber |-> frame[t].inum, of_offset |-> frame[t].offset]
<1>0. free_open_file_entries \in [Handles -> AllocState] /\ free_open_file_entries[h] # "TAKEN"
  BY DEF FilesInv, Ex1Inv, HandlesInv, Open
<1>1. Add(t)
  <2>1. ASSUME NEW g, tfs_close(t, g)
        PROVE  \/ free_open_file_entries'[h] = free_open_file_entries[h]
               \/ free_open_file_entries'[h] = "FREE"
    BY <1>0, <2>1 DEF tfs_close, Release
  <2>2. CASE Call(t)
    <3>1. (\E g : tfs_close(t, g)) \/ UNCHANGED free_open_file_entries
      BY <2>2 DEF Call, tfs_destroy, tfs_lookup, tfs_copy_to_external_fs, tfs_open, LooksUp, tfs_write,
         tfs_read, Begins, state_vars, open_vars
    <3> QED
      BY <1>0, <2>1, <3>1
  <2>3. CASE Step(t) /\ ~Add(t)
    BY <1>0, <2>3 DEF Step, LockExisting, Truncate, Position, Create, CreateFails, LockHandle,
       LockForWrite, LockForRead, Locks, WriteBlock, ReadBlock, Advance, Return, CopyOpens, LooksUp,
       CopySize, state_vars, open_vars
  <2> QED
    BY <2>2, <2>3
<1>2. h = First(FreeIn(free_open_file_entries))
  <2>1. free_open_file_entries' = TakeFirst(free_open_file_entries)
    BY <1>1 DEF Add
  <2> QED
    BY <1>0, <2>1, TakeFirstAt
<1>3. frame[t].at = "add" /\ IsFile(frame[t].inum)
  BY <1>1 DEF Add, At, FilesInv, Ex1Inv, FrameOK
<1> QED
  BY <1>1, <1>2, <1>3 DEF Add

\* A step of a thread leaves the frames of the others alone.
LEMMA OthersStay ==
  ASSUME FilesInv, NEW t \in Threads, Step(t) \/ Call(t)
  PROVE  Others(t)
<1>0. Ex1Inv
  BY DEF FilesInv
<1>1. CASE Call(t)
  BY <1>0, <1>1, CallEffect
<1>2. CASE LockExisting(t) \/ Truncate(t) \/ Position(t) \/ Create(t) \/ CreateFails(t)
  BY <1>0, <1>2, OpenEffects DEF GoesTo
<1>3. CASE Add(t) \/ CopyOpens(t) \/ CopySize(t) \/ LockHandle(t)
  BY <1>0, <1>3, HandleEffects DEF GoesTo
<1>4. CASE WriteBlock(t)
  <2>1. frame' = frame \/ GoesTo(t, "advance", {}) \/ Others(t)
    BY <1>0, <1>4, AccessEffects
  <2> QED
    BY <2>1 DEF GoesTo, Others
<1>5. CASE ReadBlock(t) \/ Advance(t) \/ Return(t)
  BY <1>0, <1>5, AccessEffects DEF GoesTo
<1>6. CASE LockForWrite(t) \/ LockForRead(t)
  <2>1. (\E mode, todo : Locks(t, mode, todo)) \/ Others(t)
    BY <1>6, LocksFit
  <2> QED
    BY <1>0, <2>1, AccessEffects DEF GoesTo
<1> QED
  BY <1>1, <1>2, <1>3, <1>4, <1>5, <1>6 DEF Step

\* A call is in its loop because it has just locked its file, or was there before.
LEMMA StaysInside ==
  ASSUME FilesInv, NEW t \in Threads, Step(t) \/ Call(t), Inside(frame'[t])
  PROVE  \/ LockForWrite(t) \/ LockForRead(t)
         \/ /\ Inside(frame[t]) /\ frame'[t].h = frame[t].h /\ frame'[t].op = frame[t].op
            /\ frame'[t].offset = frame[t].offset /\ frame'[t].todo = frame[t].todo
            /\ frame'[t].old = frame[t].old
<1>0. Ex1Inv /\ Idle.at = "idle" /\ frame'[t].at \in {"loop", "advance"}
  BY DEF FilesInv, Idle, Inside
<1>1. ~Call(t)
  BY <1>0, CallEffect
<1>2. ~LockExisting(t) /\ ~Truncate(t) /\ ~Position(t) /\ ~Create(t) /\ ~CreateFails(t)
  BY <1>0, OpenEffects DEF GoesTo
<1>3. ~Add(t) /\ ~CopyOpens(t) /\ ~CopySize(t) /\ ~LockHandle(t) /\ ~Return(t)
  BY <1>0, HandleEffects, AccessEffects DEF GoesTo
<1>4. CASE Advance(t)
  BY <1>0, <1>4, AccessEffects DEF Inside, GoesTo, Fields
<1>5. CASE ReadBlock(t)
  BY <1>0, <1>5, AccessEffects DEF Inside, GoesTo, Fields
<1>6. CASE WriteBlock(t)
  <2>1. frame[t].at = "loop" /\ (frame' = frame \/ GoesTo(t, "advance", {}))
    BY <1>0, <1>6, AccessEffects
  <2> QED
    BY <2>1 DEF Inside, GoesTo, Fields
<1> QED
  BY <1>1, <1>2, <1>3, <1>4, <1>5, <1>6 DEF Step

\* An advance takes the handle along, and the file if need be.
LEMMA AdvanceMoves ==
  ASSUME FilesInv, NEW t \in Threads, Advance(t)
  PROVE  /\ frame[t].h \in Handles /\ Inum(t) \in Inumbers
         /\ open_file_table'[frame[t].h].of_offset = Offset(t) + Piece(t)
         /\ open_file_table'[frame[t].h].of_inumber = Inum(t)
         /\ inode_table'[Inum(t)].i_size \in FileOffsets
         /\ inode_table'[Inum(t)].i_size >= Offset(t) + Piece(t)
<1> DEFINE o == Offset(t) + Piece(t)
<1>1. /\ frame[t].at = "advance"
      /\ open_file_table' = [open_file_table EXCEPT ![frame[t].h].of_offset = o]
      /\ inode_table' = [inode_table EXCEPT ![Inum(t)].i_size = IF o > @ THEN o ELSE @]
  BY DEF Advance, At
<1>2. /\ frame[t].h \in Handles /\ Inum(t) \in Inumbers /\ o \in FileOffsets
      /\ Size(t) \in FileOffsets
  BY <1>1, AdvanceFits, AtFile DEF FilesInv
<1> HIDE DEF o
<1>3. inode_table \in [Inumbers -> Ex1Inode]
      /\ open_file_table \in [Handles -> [of_inumber : Inumbers, of_offset : FileOffsets]]
  BY DEF FilesInv, TablesOK
<1>4. open_file_table'[frame[t].h].of_offset = o /\ open_file_table'[frame[t].h].of_inumber = Inum(t)
  BY <1>1, <1>2, <1>3 DEF Inum
<1>5. PICK n \in FileOffsets : /\ n = IF o > Size(t) THEN o ELSE Size(t)
                               /\ inode_table' = [inode_table EXCEPT ![Inum(t)].i_size = n]
  BY <1>1, <1>2, <1>3 DEF Size
<1>6. inode_table'[Inum(t)].i_size = n
  BY <1>2, <1>3, <1>5, SizeSet
<1>7. n >= o
  BY <1>2, <1>5 DEF FileOffsets
<1> QED
  BY <1>2, <1>4, <1>5, <1>6, <1>7 DEF o

\* Each step keeps the handles inside their files.
LEMMA InsideStep ==
  ASSUME FilesInv, InsideInv, NEW t \in Threads, Step(t) \/ Call(t)
  PROVE  InsideInv'
<1> SUFFICES ASSUME ~undercut' PROVE
      /\ OffsetWithinFile'
      /\ \A u \in Threads :
           /\ frame'[u].at = "add" => frame'[u].offset <= inode_table'[frame'[u].inum].i_size
           /\ Inside(frame'[u]) /\ frame'[u].op # "write" =>
                frame'[u].offset + frame'[u].todo
                  <= inode_table'[open_file_table'[frame'[u].h].of_inumber].i_size
  BY DEF InsideInv, Inside, Writing, Size, Inum
<1>0. Ex1Inv /\ ExclusionInv /\ TablesOK /\ \A u \in Threads : CallOK(frame[u]) /\ FrameOK(frame[u])
  BY DEF FilesInv, CallsOK, Ex1Inv
<1>1. /\ ~undercut
      /\ \A i \in Inumbers : freeinode_ts[i] = "TAKEN" =>
           /\ inode_table[i].i_size \in FileOffsets /\ inode_table'[i].i_size \in FileOffsets
           /\ \/ inode_table'[i].i_size >= inode_table[i].i_size
              \/ ~PastStart(i) /\ Truncate(t)
  <2>1. IsFile(ROOT_DIR_INUM) \/ (ROOT_DIR_INUM \in Inumbers /\ freeinode_ts[ROOT_DIR_INUM] = "TAKEN")
    BY <1>0, RootIsInode DEF Ex1Inv, DirectoryInv
  <2> QED
    BY <2>1, SizesShrink DEF IsFile
<1>2. /\ \A h \in Handles : Open(h) =>
           open_file_table[h].of_offset <= inode_table[open_file_table[h].of_inumber].i_size
      /\ \A u \in Threads :
           /\ frame[u].at = "add" => frame[u].offset <= inode_table[frame[u].inum].i_size
           /\ Inside(frame[u]) /\ ~Writing(u) => frame[u].offset + frame[u].todo <= Size(u)
  BY <1>1 DEF InsideInv, OffsetWithinFile
<1>3. ASSUME NEW h \in Handles, free_open_file_entries'[h] = "TAKEN"
      PROVE  open_file_table'[h].of_offset <= inode_table'[open_file_table'[h].of_inumber].i_size
  <2>1. CASE ~Open(h)
    <3>1. /\ Add(t) /\ frame[t].at = "add"
          /\ open_file_table'[h] = [of_inumber |-> frame[t].inum, of_offset |-> frame[t].offset]
      BY <1>3, <2>1, NewHandle
    <3>2. inode_table' = inode_table
      BY <3>1 DEF Add, inode_vars
    <3> QED
      BY <1>2, <3>1, <3>2
  <2>2. CASE Open(h) /\ Advance(t) /\ h = frame[t].h
    BY <2>2, AdvanceMoves
  <2>3. CASE Open(h) /\ open_file_table'[h] = open_file_table[h]
    <3> DEFINE i == open_file_table[h].of_inumber
    <3>1. IsFile(i) /\ open_file_table[h].of_offset \in FileOffsets
      BY <1>0, <2>3 DEF Ex1Inv, HandlesInv, TablesOK
    <3>2. open_file_table[h].of_offset <= inode_table[i].i_size
      BY <1>2, <2>3
    <3>3. CASE inode_table'[i].i_size >= inode_table[i].i_size
      BY <1>1, <2>3, <3>1, <3>2, <3>3 DEF IsFile, FileOffsets
    <3>4. CASE ~PastStart(i)
      <4>1. ~(open_file_table[h].of_offset > 0)
        BY <2>3, <3>4 DEF PastStart
      <4> QED
        BY <1>1, <2>3, <3>1, <4>1 DEF IsFile, FileOffsets
    <3> QED
      BY <1>1, <3>1, <3>3, <3>4 DEF IsFile
  <2> QED
    BY <2>1, <2>2, <2>3, <1>0, EntriesMove
<1>4. ASSUME NEW u \in Threads, frame'[u].at = "add"
      PROVE  frame'[u].offset <= inode_table'[frame'[u].inum].i_size
  <2>1. CASE frame'[u] = frame[u]
    <3> DEFINE i == frame[u].inum
    <3>1. frame[u].at = "add" /\ IsFile(i) /\ frame[u].offset \in FileOffsets
      BY <1>0, <1>4, <2>1 DEF FrameOK, CallOK
    <3>2. frame[u].offset <= inode_table[i].i_size
      BY <1>2, <3>1
    <3>3. CASE inode_table'[i].i_size >= inode_table[i].i_size
      BY <1>1, <2>1, <3>1, <3>2, <3>3 DEF IsFile, FileOffsets
    <3>4. CASE ~PastStart(i)
      <4>1. ~(frame[u].offset > 0)
        BY <3>1, <3>4 DEF PastStart
      <4> QED
        BY <1>1, <2>1, <3>1, <4>1 DEF IsFile, FileOffsets
    <3> QED
      BY <1>1, <3>1, <3>3, <3>4 DEF IsFile
  <2>2. CASE u = t /\ Position(t)
    <3> DEFINE i == frame[t].inum
    <3>1. frame'[t].offset \in {0, inode_table[i].i_size} /\ frame'[t].inum = i /\ IsFile(i)
      <4>1. frame[t].at = "position"
        BY <1>0, <2>2, OpenEffects
      <4> QED
        BY <1>0, <2>2, <4>1, OpenEffects DEF FrameOK
    <3>2. inode_table' = inode_table
      BY <2>2 DEF Position, state_vars, inode_vars
    <3> QED
      BY <1>1, <2>2, <3>1, <3>2 DEF IsFile, FileOffsets
  <2>3. CASE u = t /\ Create(t)
    <3>1. frame'[t].offset = 0 /\ frame'[t].inum = inode_create /\ inode_create # -1
      BY <1>0, <2>3, OpenEffects DEF Create
    <3>2. inode_create \in Inumbers
      BY <1>0, <3>1, TakeFirstAt DEF Ex1Inv, DirectoryInv, inode_create
    <3>3. inode_table'[inode_create].i_size \in FileOffsets
      BY <3>2, SizesMove DEF Ex1Inode, FileOffsets
    <3> QED
      BY <2>3, <3>1, <3>3 DEF FileOffsets
  <2>4. u = t => Position(t) \/ Create(t) \/ frame'[u] = frame[u]
    <3> SUFFICES ASSUME u = t, frame' # frame PROVE Position(t) \/ Create(t)
      OBVIOUS
    <3>1. ~Call(t) /\ Idle.at = "idle"
      BY <1>0, <1>4, CallEffect DEF Idle
    <3>2. ~LockExisting(t) /\ ~Truncate(t) /\ ~CreateFails(t)
      BY <1>0, <1>4, <3>1, OpenEffects DEF GoesTo
    <3>3. ~Add(t) /\ ~CopyOpens(t) /\ ~CopySize(t) /\ ~LockHandle(t)
      BY <1>0, <1>4, <3>1, HandleEffects DEF GoesTo
    <3>4. ~Return(t) /\ ~WriteBlock(t) /\ ~ReadBlock(t) /\ ~Advance(t)
      BY <1>0, <1>4, <3>1, AccessEffects DEF GoesTo
    <3>5. ~LockForWrite(t) /\ ~LockForRead(t)
      BY <1>0, <1>4, <3>1, LocksFit, AccessEffects DEF GoesTo
    <3> QED
      BY <3>1, <3>2, <3>3, <3>4, <3>5 DEF Step
  <2>5. u # t => frame'[u] = frame[u]
    BY OthersStay DEF Others
  <2> QED
    BY <2>1, <2>2, <2>3, <2>4, <2>5
<1>5. ASSUME NEW u \in Threads, Inside(frame'[u]), frame'[u].op # "write"
      PROVE  frame'[u].offset + frame'[u].todo
               <= inode_table'[open_file_table'[frame'[u].h].of_inumber].i_size
  <2>1. CASE /\ Inside(frame[u]) /\ frame'[u].h = frame[u].h /\ frame'[u].op = frame[u].op
             /\ frame'[u].offset = frame[u].offset /\ frame'[u].todo = frame[u].todo
    <3> DEFINE i == Inum(u)
    <3>1. frame[u].h \in Handles /\ Open(frame[u].h) /\ IsFile(i)
      BY <1>0, <2>1, AtFile DEF Inside
    <3>2. open_file_table'[frame'[u].h].of_inumber = i
      BY <1>0, <2>1, <3>1, EntriesMove DEF Inum
    <3>3. PastStart(i)
      BY <2>1, <3>1 DEF PastStart, Inside, Inum
    <3>4. frame[u].offset + frame[u].todo <= inode_table[i].i_size
      BY <1>2, <1>5, <2>1 DEF Writing, Size
    <3>5. frame[u].offset \in Nat /\ frame[u].todo \in Nat
      BY <1>0, <2>1 DEF CallOK
    <3>6. /\ inode_table'[i].i_size >= inode_table[i].i_size
          /\ inode_table[i].i_size \in Nat /\ inode_table'[i].i_size \in Nat
      BY <1>1, <3>1, <3>3 DEF IsFile, FileOffsets
    <3> HIDE DEF i
    <3> QED
      BY <2>1, <3>2, <3>4, <3>5, <3>6
  <2>2. CASE u = t /\ LockForRead(t)
    <3>0. Ex1Inv
      BY <1>0
    <3>1. PICK todo \in Nat : /\ Locks(t, "readers", todo)
                              /\ Offset(t) <= Size(t) => Offset(t) + todo <= Size(t)
      BY <1>5, <2>2, LocksFit, IdleCallOK
    <3>2. frame[t].at = "inode"
      BY <2>2, LocksFit
    <3>3. /\ frame'[t].todo = todo /\ frame'[t].offset = Offset(t) /\ frame'[t].h = frame[t].h
          /\ inode_table' = inode_table /\ open_file_table' = open_file_table
      <4>1. Locks(t, "readers", todo)
        BY <3>1
      <4> QED
        BY <3>0, <4>1, LocksEffect
    <3>5. Offset(t) <= Size(t)
      BY <1>0, <1>2, <3>2, AtFile DEF Offset, Size, Inum
    <3> QED
      BY <2>2, <3>1, <3>3, <3>5 DEF Size, Inum
  <2>3. u = t => ~LockForWrite(t)
    <3> SUFFICES ASSUME u = t, LockForWrite(t) PROVE FALSE
      OBVIOUS
    <3>1. frame[t].op = "write" /\ \E todo : Locks(t, "writers", todo)
      BY LocksFit
    <3>2. frame'[t].op = frame[t].op
      BY <1>0, <3>1, LocksEffect
    <3> QED
      BY <1>5, <3>1, <3>2
  <2>4. u # t => frame'[u] = frame[u]
    BY OthersStay DEF Others
  <2> QED
    BY <1>5, <2>1, <2>2, <2>3, <2>4, StaysInside
<1>6. OffsetWithinFile'
  BY <1>3 DEF OffsetWithinFile, Open
<1> QED
  BY <1>4, <1>5, <1>6

\* So they always are.
LEMMA HandlesAlways == Spec => [](FilesInv /\ InsideInv)
<1> DEFINE Inv == FilesInv /\ InsideInv
<1>1. Init => Inv
  <2> SUFFICES ASSUME Init PROVE InsideInv
    BY FilesInit
  <2>1. \A h \in Handles : ~Open(h)
    BY DEF Init, Ex1RootCreated, Open
  <2>2. \A t \in Threads : frame[t].at # "add" /\ ~Inside(frame[t])
    BY DEF Init, Inside, Idle
  <2> QED
    BY <2>1, <2>2 DEF InsideInv, OffsetWithinFile
<1>2. Inv /\ [Next]_vars => Inv'
  <2> SUFFICES ASSUME FilesInv, InsideInv, [Next]_vars PROVE InsideInv'
    BY FilesStep
  <2>1. CASE UNCHANGED vars
    BY <2>1 DEF InsideInv, OffsetWithinFile, Open, Inside, Writing, Size, Inum, vars, state_vars,
       inode_vars, open_vars, history
  <2> QED
    BY <2>1, InsideStep DEF Next
<1> QED
  BY <1>1, <1>2, PTL DEF Spec

\* Until a truncation undercuts a handle, every open handle is inside its file,
\* whatever the threads write and create, and whichever files they truncate.
THEOREM HandlesStayInside == Spec => []OffsetWithinFile
<1>1. FilesInv /\ InsideInv => OffsetWithinFile
  BY DEF InsideInv, OffsetWithinFile
<1> QED
  BY <1>1, HandlesAlways, PTL

\* Until then a file grows only under a writer of its own: what a reader reads was there
\* when it began, so the size it may set is not above the one there is.
THEOREM GrowsUnderItsWriter == Spec => OnlyWritersGrow
<1> DEFINE Grows == \A i \in Inumbers : ~undercut /\ inode_table'[i].i_size > inode_table[i].i_size =>
                      lock_inumber[i]["writers"] # {}
           Inv == FilesInv /\ InsideInv
<1>1. Spec => []Inv
  BY HandlesAlways
<1>2. Inv /\ [Next]_vars => [Grows]_vars
  <2> SUFFICES ASSUME FilesInv, InsideInv, NEW t \in Threads, Step(t) \/ Call(t),
                      NEW i \in Inumbers, ~undercut, inode_table'[i].i_size > inode_table[i].i_size
               PROVE  lock_inumber[i]["writers"] # {}
    BY DEF Next
  <2>1. inode_table[i].i_size \in FileOffsets
    BY DEF FilesInv, TablesOK, Ex1Inode, FileOffsets
  <2>2. /\ Advance(t) /\ i = Inum(t) /\ Offset(t) + Piece(t) > inode_table[i].i_size
    BY <2>1, SizesMove DEF FileOffsets
  <2>3. frame[t].at = "advance" /\ Inside(frame[t])
    BY <2>2 DEF Advance, At, Inside
  <2>4. CASE Writing(t)
    BY <2>2, <2>3, <2>4 DEF FilesInv, ExclusionInv
  <2>5. CASE ~Writing(t)
    <3>1. frame[t].offset + frame[t].todo <= inode_table[i].i_size
      BY <2>2, <2>3, <2>5 DEF InsideInv, Size
    <3>2. /\ Piece(t) \in Nat /\ frame[t].done + Piece(t) <= frame[t].todo
          /\ Offset(t) + Piece(t) = frame[t].offset + (frame[t].done + Piece(t))
      BY <2>3, AdvanceFits
    <3>3. frame[t].offset \in Nat /\ frame[t].todo \in Nat /\ frame[t].done \in Nat
      BY <2>3 DEF FilesInv, CallsOK, CallOK
    <3> QED
      BY <2>1, <2>2, <3>1, <3>2, <3>3 DEF FileOffsets
  <2> QED
    BY <2>4, <2>5
<1> QED
  BY <1>1, <1>2, PTL DEF Spec, OnlyWritersGrow

==============================================================================
