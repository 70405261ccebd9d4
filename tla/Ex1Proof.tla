------------------------------ MODULE Ex1Proof ------------------------------
(***************************************************************************)
(* Theorems about Ex1Ops, for any number of threads and files, tables of   *)
(* any size, and every interleaving of the calls.                          *)
(***************************************************************************)
EXTENDS Ex1Ops, FsStateProof, FiniteSetTheorems

----------------------------------------------------------------------------
(* Read-write locks.                                                       *)

\* Thread t holds lock i, for reading or writing.
Has(lock, t, i) == \E m \in Modes : t \in lock[i][m]

\* Taking a lock adds one holder to one lock.
LEMMA LockedHas ==
  ASSUME NEW S, NEW lock \in [S -> RwLock], NEW i \in S, NEW mode \in Modes, NEW t \in Threads
  PROVE  /\ Locked(lock, i, mode, t) \in [S -> RwLock]
         /\ \A u \in Threads, j \in S :
              Has(Locked(lock, i, mode, t), u, j) <=> Has(lock, u, j) \/ (u = t /\ j = i)
<1> DEFINE new == [lock[i] EXCEPT ![mode] = @ \cup {t}]
<1>1. lock[i] \in RwLock
  OBVIOUS
<1>2. new \in RwLock /\ \A m \in Modes : new[m] = IF m = mode THEN lock[i][m] \cup {t} ELSE lock[i][m]
  BY <1>1 DEF RwLock
<1>3. Locked(lock, i, mode, t) = [lock EXCEPT ![i] = new]
  BY <1>1 DEF Locked, RwLock
<1> HIDE DEF new
<1>4. Locked(lock, i, mode, t) \in [S -> RwLock]
  BY <1>2, <1>3
<1>5. \A j \in S : Locked(lock, i, mode, t)[j] = IF j = i THEN new ELSE lock[j]
  BY <1>3
<1> QED
  BY <1>2, <1>4, <1>5 DEF Has

\* Releasing a lock removes one holder from one lock.
LEMMA UnlockedHas ==
  ASSUME NEW S, NEW lock \in [S -> RwLock], NEW i \in S, NEW t \in Threads
  PROVE  /\ Unlocked(lock, i, t) \in [S -> RwLock]
         /\ \A u \in Threads, j \in S :
              Has(Unlocked(lock, i, t), u, j) <=> Has(lock, u, j) /\ ~(u = t /\ j = i)
<1> DEFINE new == [m \in Modes |-> lock[i][m] \ {t}]
<1>1. new \in RwLock
  BY DEF RwLock
<1>2. Unlocked(lock, i, t) = [lock EXCEPT ![i] = new]
  BY DEF Unlocked
<1>3. \A m \in Modes : new[m] = lock[i][m] \ {t}
  OBVIOUS
<1> HIDE DEF new
<1>4. Unlocked(lock, i, t) \in [S -> RwLock]
  BY <1>1, <1>2
<1>5. \A j \in S : Unlocked(lock, i, t)[j] = IF j = i THEN new ELSE lock[j]
  BY <1>2
<1> QED
  BY <1>3, <1>4, <1>5 DEF Has

----------------------------------------------------------------------------
(* The inductive invariant.                                                *)

\* The fields of a frame, whatever they hold.
Fields == {"op", "at", "path", "flags", "inum", "offset", "h", "buffer", "len", "todo", "done", "old"}

IsFrame(f) == f = [x \in Fields |-> f[x]]

IsEntry(e) == e = [of_inumber |-> e.of_inumber, of_offset |-> e.of_offset]

IsFile(i) == i \in Inumbers \ {ROOT_DIR_INUM} /\ freeinode_ts[i] = "TAKEN"

\* The directory, in a form that each creation keeps entry by entry.
DirectoryInv ==
  /\ freeinode_ts \in [Inumbers -> AllocState] /\ freeinode_ts[ROOT_DIR_INUM] = "TAKEN"
  /\ dir_entry \in [DirSlots -> DirEntry]
  /\ \A s \in DirSlots : dir_entry[s].d_inumber # -1 => IsFile(dir_entry[s].d_inumber)
  /\ \A s, r \in DirSlots :
       dir_entry[s].d_inumber = dir_entry[r].d_inumber /\ dir_entry[s].d_inumber # -1 => s = r
  /\ \A i \in Inumbers : IsFile(i) => \E s \in DirSlots : dir_entry[s].d_inumber = i

HandlesInv ==
  /\ DOMAIN open_file_table = Handles /\ \A h \in Handles : IsEntry(open_file_table[h])
  /\ free_open_file_entries \in [Handles -> AllocState]
  /\ \A h \in Handles : Open(h) => IsFile(open_file_table[h].of_inumber)
  /\ \A h \in held : h \in Handles /\ Open(h)

\* What a call works on exists: no file is removed, and nobody closes a handle
\* that a call uses.
FrameOK(f) ==
  /\ IsFrame(f)
  /\ f.at \in {"lookup", "create"} => f.path \in Paths
  /\ f.at \in {"existing", "truncate", "position", "add"} => IsFile(f.inum)
  /\ f.at \in {"size", "handle", "inode", "loop", "advance"} => f.h \in Handles /\ Open(f.h)

\* The locks that a call with frame f holds.
WantsInode(f, i) ==
  \/ f.at \in {"truncate", "position"} /\ f.inum = i
  \/ f.at \in {"loop", "advance"} /\ open_file_table[f.h].of_inumber = i

WantsHandle(f, h) == f.at \in {"inode", "loop", "advance"} /\ f.h = h

LocksInv ==
  /\ lock_inumber \in [Inumbers -> RwLock] /\ lock_fhandle \in [Handles -> RwLock]
  /\ \A t \in Threads : /\ \A i \in Inumbers : Has(lock_inumber, t, i) <=> WantsInode(frame[t], i)
                        /\ \A h \in Handles : Has(lock_fhandle, t, h) <=> WantsHandle(frame[t], h)

Ex1Inv ==
  /\ DirectoryInv /\ HandlesInv
  /\ DOMAIN frame = Threads /\ \A t \in Threads : FrameOK(frame[t])
  /\ LocksInv

\* That each thread holds the locks its place calls for is part of it.
LEMMA LocksFollow == Ex1Inv => UnlocksWhatItLocked
BY DEF Ex1Inv, LocksInv, UnlocksWhatItLocked, Has, WantsInode, WantsHandle, HoldsInode,
       HoldsHandle, Inum

\* So is that every file has one entry of the directory.
LEMMA DirectoryFollows == Ex1Inv => DirectoryConsistent
<1> SUFFICES ASSUME Ex1Inv PROVE DirectoryConsistent
  OBVIOUS
<1>1. ASSUME NEW i \in Inumbers \ {ROOT_DIR_INUM}
      PROVE  Cardinality({s \in DirSlots : dir_entry[s].d_inumber = i}) = IF IsTaken(i) THEN 1 ELSE 0
  <2> DEFINE E == {s \in DirSlots : dir_entry[s].d_inumber = i}
  <2>0. i # -1
    BY ConfigAssumption DEF Inumbers
  <2>1. CASE IsTaken(i)
    <3>1. PICK s \in DirSlots : dir_entry[s].d_inumber = i
      BY <2>1 DEF Ex1Inv, DirectoryInv, IsFile, IsTaken
    <3>2. E = {s}
      BY <3>1, <2>0 DEF Ex1Inv, DirectoryInv
    <3> QED
      BY <3>2, <2>1, FS_Singleton
  <2>2. CASE ~IsTaken(i)
    <3>1. E = {}
      BY <2>2, <2>0 DEF Ex1Inv, DirectoryInv, IsFile, IsTaken
    <3> QED
      BY <3>1, <2>2, FS_EmptySet
  <2> QED
    BY <2>1, <2>2
<1>2. \A h \in Handles : Open(h) => /\ open_file_table[h].of_inumber # ROOT_DIR_INUM
                                    /\ IsTaken(open_file_table[h].of_inumber)
  BY DEF Ex1Inv, HandlesInv, IsFile, IsTaken
<1> QED
  BY <1>1, <1>2 DEF DirectoryConsistent

----------------------------------------------------------------------------
(* The steps of a call.                                                    *)

\* The root is an i-node.
LEMMA RootIsInode == ROOT_DIR_INUM \in Inumbers
BY ConfigAssumption DEF ROOT_DIR_INUM, Inumbers

\* A thread outside its calls needs no lock.
LEMMA IdleFrame ==
  /\ FrameOK(Idle) /\ IsFrame(Idle) /\ Idle.at = "idle"
  /\ \A i : ~WantsInode(Idle, i) /\ ~WantsHandle(Idle, i)
BY DEF FrameOK, IsFrame, Fields, Idle, WantsInode, WantsHandle

\* A step of thread t that creates, opens and closes nothing keeps the invariant
\* if the locks t has afterwards are those its new frame calls for.
LEMMA CallGoesOn ==
  ASSUME Ex1Inv, NEW t \in Threads, NEW f, FrameOK(f),
         frame' = [frame EXCEPT ![t] = f],
         UNCHANGED <<freeinode_ts, dir_entry, free_open_file_entries, held>>,
         DOMAIN open_file_table' = Handles,
         \A h \in Handles : /\ IsEntry(open_file_table'[h])
                            /\ open_file_table'[h].of_inumber = open_file_table[h].of_inumber,
         lock_inumber' \in [Inumbers -> RwLock], lock_fhandle' \in [Handles -> RwLock],
         \A u \in Threads, i \in Inumbers :
           Has(lock_inumber', u, i) <=> IF u = t THEN WantsInode(f, i) ELSE Has(lock_inumber, u, i),
         \A u \in Threads, h \in Handles :
           Has(lock_fhandle', u, h) <=> IF u = t THEN WantsHandle(f, h) ELSE Has(lock_fhandle, u, h)
  PROVE  Ex1Inv'
<1>1. DirectoryInv'
  BY DEF Ex1Inv, DirectoryInv, IsFile
<1>2. HandlesInv'
  BY DEF Ex1Inv, HandlesInv, Open, IsFile
<1>3. DOMAIN frame' = Threads /\ \A u \in Threads : frame'[u] = IF u = t THEN f ELSE frame[u]
  BY DEF Ex1Inv
<1>4. \A g : FrameOK(g) => FrameOK(g)'
  BY DEF FrameOK, IsFile, Open
<1>5. \A u \in Threads : FrameOK(frame[u])'
  BY <1>3, <1>4 DEF Ex1Inv, FrameOK, IsFile, Open
<1>6. LocksInv'
  <2>1. ASSUME NEW u \in Threads
        PROVE  /\ \A i \in Inumbers : Has(lock_inumber', u, i) <=> WantsInode(frame[u], i)'
               /\ \A h \in Handles : Has(lock_fhandle', u, h) <=> WantsHandle(frame[u], h)'
    <3> DEFINE g == IF u = t THEN f ELSE frame[u]
    <3>1. FrameOK(g) /\ frame'[u] = g
      BY <1>3 DEF Ex1Inv
    <3>2. /\ \A i \in Inumbers : Has(lock_inumber', u, i) <=> WantsInode(g, i)
          /\ \A h \in Handles : Has(lock_fhandle', u, h) <=> WantsHandle(g, h)
      BY DEF Ex1Inv, LocksInv
    <3> HIDE DEF g
    <3>3. \A i : /\ WantsInode(frame[u], i)' <=> WantsInode(g, i)
                 /\ WantsHandle(frame[u], i)' <=> WantsHandle(g, i)
      BY <3>1 DEF WantsInode, WantsHandle, FrameOK
    <3> QED
      BY <3>2, <3>3
  <2> QED
    BY <2>1 DEF LocksInv, Has
<1> QED
  BY <1>1, <1>2, <1>3, <1>5, <1>6 DEF Ex1Inv

\* A step of the disk alone keeps the invariant.
LEMMA NothingChanges ==
  ASSUME Ex1Inv, UNCHANGED <<freeinode_ts, dir_entry, open_vars, held, locks, frame>>
  PROVE  Ex1Inv'
BY DEF Ex1Inv, DirectoryInv, HandlesInv, FrameOK, LocksInv, Has, WantsInode, WantsHandle, IsFile,
       Open, open_vars, locks

\* The same for a step that takes and releases no lock.
LEMMA CallKeepsLocks ==
  ASSUME Ex1Inv, NEW t \in Threads, NEW f, FrameOK(f), frame' = [frame EXCEPT ![t] = f],
         UNCHANGED <<freeinode_ts, dir_entry, open_vars, held, locks>>,
         \A i \in Inumbers : WantsInode(f, i) <=> WantsInode(frame[t], i),
         \A h \in Handles : WantsHandle(f, h) <=> WantsHandle(frame[t], h)
  PROVE  Ex1Inv'
<1>1. /\ UNCHANGED <<freeinode_ts, dir_entry, free_open_file_entries, held>>
      /\ open_file_table' = open_file_table
      /\ lock_inumber' = lock_inumber /\ lock_fhandle' = lock_fhandle
  BY DEF open_vars, locks
<1>2. \A h \in Handles : IsEntry(open_file_table[h])
  BY DEF Ex1Inv, HandlesInv
<1>3. DOMAIN open_file_table = Handles
  BY DEF Ex1Inv, HandlesInv
<1>4. LocksInv
  BY DEF Ex1Inv
<1>5. \A u \in Threads, i \in Inumbers :
        Has(lock_inumber', u, i) <=> IF u = t THEN WantsInode(f, i) ELSE Has(lock_inumber, u, i)
  BY <1>1, <1>4 DEF LocksInv
<1>6. \A u \in Threads, h \in Handles :
        Has(lock_fhandle', u, h) <=> IF u = t THEN WantsHandle(f, h) ELSE Has(lock_fhandle, u, h)
  BY <1>1, <1>4 DEF LocksInv
<1>7. lock_inumber' \in [Inumbers -> RwLock] /\ lock_fhandle' \in [Handles -> RwLock]
  BY <1>1, <1>4 DEF LocksInv
<1> QED
  BY <1>1, <1>2, <1>3, <1>5, <1>6, <1>7, CallGoesOn

\* A call that returns after releasing both its locks, or having none.
LEMMA CallReturns ==
  ASSUME Ex1Inv, NEW t \in Threads, NEW op, NEW val, Returns(t, op, val),
         UNCHANGED <<freeinode_ts, dir_entry, open_vars, held>>,
         \/ UNCHANGED locks /\ \A i : ~WantsInode(frame[t], i) /\ ~WantsHandle(frame[t], i)
         \/ UnlockBoth(t) /\ frame[t].at \in {"loop", "advance"}
  PROVE  Ex1Inv'
<1>1. frame' = [frame EXCEPT ![t] = Idle]
  BY DEF Returns
<1>2. CASE UNCHANGED locks /\ \A i : ~WantsInode(frame[t], i) /\ ~WantsHandle(frame[t], i)
  BY <1>1, <1>2, IdleFrame, CallKeepsLocks
<1>3. CASE UnlockBoth(t) /\ frame[t].at \in {"loop", "advance"}
  <2> DEFINE h == frame[t].h  i == Inum(t)
  <2>1. h \in Handles /\ i \in Inumbers
    BY <1>3 DEF Ex1Inv, FrameOK, HandlesInv, IsFile, Inum
  <2>2. LocksInv
    BY DEF Ex1Inv
  <2>3. lock_inumber' = Unlocked(lock_inumber, i, t) /\ lock_fhandle' = Unlocked(lock_fhandle, h, t)
    BY <1>3 DEF UnlockBoth
  <2>4. /\ lock_inumber' \in [Inumbers -> RwLock]
        /\ \A u \in Threads, j \in Inumbers :
             Has(lock_inumber', u, j) <=> Has(lock_inumber, u, j) /\ ~(u = t /\ j = i)
    BY <2>1, <2>2, <2>3, UnlockedHas DEF LocksInv
  <2>5. /\ lock_fhandle' \in [Handles -> RwLock]
        /\ \A u \in Threads, j \in Handles :
             Has(lock_fhandle', u, j) <=> Has(lock_fhandle, u, j) /\ ~(u = t /\ j = h)
    BY <2>1, <2>2, <2>3, UnlockedHas DEF LocksInv
  <2>6. /\ \A j \in Inumbers : Has(lock_inumber, t, j) <=> j = i
        /\ \A j \in Handles : Has(lock_fhandle, t, j) <=> j = h
    BY <2>2, <1>3 DEF LocksInv, WantsInode, WantsHandle, Inum
  <2>7. open_file_table' = open_file_table /\ free_open_file_entries' = free_open_file_entries
    BY DEF open_vars
  <2>8. DOMAIN open_file_table = Handles /\ \A j \in Handles : IsEntry(open_file_table[j])
    BY DEF Ex1Inv, HandlesInv
  <2>9. \A u \in Threads, j \in Inumbers :
          Has(lock_inumber', u, j) <=> IF u = t THEN WantsInode(Idle, j) ELSE Has(lock_inumber, u, j)
    BY <2>4, <2>6, IdleFrame
  <2>10. \A u \in Threads, j \in Handles :
          Has(lock_fhandle', u, j) <=> IF u = t THEN WantsHandle(Idle, j) ELSE Has(lock_fhandle, u, j)
    BY <2>5, <2>6, IdleFrame
  <2> HIDE DEF h, i
  <2> QED
    BY <1>1, <2>4, <2>5, <2>7, <2>8, <2>9, <2>10, IdleFrame, CallGoesOn
<1> QED
  BY <1>2, <1>3

----------------------------------------------------------------------------
(* tfs_lookup, tfs_open, tfs_close and tfs_destroy.                        *)

\* What a look-up finds is a file.
LEMMA LookupFinds ==
  ASSUME DirectoryInv, NEW path, lookup(path) # -1
  PROVE  IsFile(lookup(path))
<1> DEFINE S == Matches(path.sub)
<1>1. S # {} /\ lookup(path) = dir_entry[First(S)].d_inumber
  BY DEF lookup, find_in_dir
<1>2. First(S) \in S
  BY <1>1, FirstFound, ConfigAssumption DEF Matches, DirSlots
<1>3. First(S) \in DirSlots /\ dir_entry[First(S)].d_inumber # -1
  BY <1>2 DEF Matches
<1> QED
  BY <1>1, <1>3 DEF DirectoryInv

\* A look-up changes nothing.
LEMMA LookupStep ==
  ASSUME Ex1Inv, NEW t \in Threads, NEW path, tfs_lookup(t, path)
  PROVE  Ex1Inv'
<1>1. \A i : ~WantsInode(frame[t], i) /\ ~WantsHandle(frame[t], i)
  BY DEF tfs_lookup, At, WantsInode, WantsHandle
<1> QED
  BY <1>1, CallReturns DEF tfs_lookup, state_vars, inode_vars

\* Nor does the look-up of tfs_open, and what it found is a file, if anything.
LEMMA LooksUpStep ==
  ASSUME Ex1Inv, NEW t \in Threads, frame[t].at \in {"idle", "lookup"},
         NEW f, IsFrame(f), f.path \in Paths, LooksUp(t, f)
  PROVE  Ex1Inv'
<1> DEFINE inum == lookup(f.path)
<1>1. \A i : ~WantsInode(frame[t], i) /\ ~WantsHandle(frame[t], i)
  BY DEF WantsInode, WantsHandle
<1>2. UNCHANGED <<freeinode_ts, dir_entry, open_vars, locks, held>>
  BY DEF LooksUp, state_vars, inode_vars
<1>3. CASE inum >= 0 /\ Goto(t, [f EXCEPT !.at = "existing", !.path = NoPath, !.inum = inum])
  <2> DEFINE g == [f EXCEPT !.at = "existing", !.path = NoPath, !.inum = inum]
  <2>1. IsFile(inum)
    BY <1>3, LookupFinds DEF Ex1Inv
  <2>2. IsFrame(g) /\ g.at = "existing" /\ g.inum = inum
    BY DEF IsFrame, Fields
  <2> HIDE DEF g
  <2>3. FrameOK(g) /\ \A i : ~WantsInode(g, i) /\ ~WantsHandle(g, i)
    BY <2>1, <2>2 DEF FrameOK, WantsInode, WantsHandle
  <2>4. frame' = [frame EXCEPT ![t] = g]
    BY <1>3 DEF Goto, g
  <2> QED
    BY <1>1, <1>2, <2>3, <2>4, CallKeepsLocks
<1>4. CASE Goto(t, [f EXCEPT !.at = "create"])
  <2> DEFINE g == [f EXCEPT !.at = "create"]
  <2>1. IsFrame(g) /\ g.at = "create" /\ g.path = f.path
    BY DEF IsFrame, Fields
  <2> HIDE DEF g
  <2>2. FrameOK(g) /\ \A i : ~WantsInode(g, i) /\ ~WantsHandle(g, i)
    BY <2>1 DEF FrameOK, WantsInode, WantsHandle
  <2>3. frame' = [frame EXCEPT ![t] = g]
    BY <1>4 DEF Goto, g
  <2> QED
    BY <1>1, <1>2, <2>2, <2>3, CallKeepsLocks
<1>5. CASE Returns(t, f.op, -1)
  BY <1>1, <1>2, <1>5, CallReturns
<1> QED
  BY <1>3, <1>4, <1>5 DEF LooksUp

\* tfs_open starts with a look-up.
LEMMA OpenStep ==
  ASSUME Ex1Inv, NEW t \in Threads, NEW path \in Paths, NEW flags, tfs_open(t, path, flags)
  PROVE  Ex1Inv'
<1> DEFINE f == [Idle EXCEPT !.op = "open", !.path = path, !.flags = flags]
<1>1. IsFrame(f) /\ f.path = path
  BY DEF IsFrame, Fields, Idle
<1>2. LooksUp(t, f) /\ frame[t].at = "idle"
  BY DEF tfs_open, At
<1> HIDE DEF f
<1> QED
  BY <1>1, <1>2, LooksUpStep

\* Releasing the i-node of a truncation or an opening.
LEMMA UnlockInode ==
  ASSUME Ex1Inv, NEW t \in Threads, frame[t].at \in {"truncate", "position"},
         lock_inumber' = Unlocked(lock_inumber, frame[t].inum, t), UNCHANGED lock_fhandle,
         UNCHANGED <<freeinode_ts, dir_entry, open_vars, held>>,
         NEW f, FrameOK(f), \A i : ~WantsInode(f, i) /\ ~WantsHandle(f, i),
         frame' = [frame EXCEPT ![t] = f]
  PROVE  Ex1Inv'
<1> DEFINE i == frame[t].inum
<1>1. i \in Inumbers
  BY DEF Ex1Inv, FrameOK, IsFile
<1>2. LocksInv
  BY DEF Ex1Inv
<1>3. /\ lock_inumber' \in [Inumbers -> RwLock]
      /\ \A u \in Threads, j \in Inumbers :
           Has(lock_inumber', u, j) <=> Has(lock_inumber, u, j) /\ ~(u = t /\ j = i)
  BY <1>1, <1>2, UnlockedHas DEF LocksInv
<1>4. /\ \A j \in Inumbers : Has(lock_inumber, t, j) <=> j = i
      /\ \A j \in Handles : ~Has(lock_fhandle, t, j)
  BY <1>2 DEF LocksInv, WantsInode, WantsHandle
<1>5. open_file_table' = open_file_table /\ free_open_file_entries' = free_open_file_entries
  BY DEF open_vars
<1>6. DOMAIN open_file_table = Handles /\ \A j \in Handles : IsEntry(open_file_table[j])
  BY DEF Ex1Inv, HandlesInv
<1>7. \A u \in Threads, j \in Inumbers :
        Has(lock_inumber', u, j) <=> IF u = t THEN WantsInode(f, j) ELSE Has(lock_inumber, u, j)
  BY <1>3, <1>4
<1>8. \A u \in Threads, j \in Handles :
        Has(lock_fhandle', u, j) <=> IF u = t THEN WantsHandle(f, j) ELSE Has(lock_fhandle, u, j)
  BY <1>4
<1>9. lock_fhandle' \in [Handles -> RwLock]
  BY <1>2 DEF LocksInv
<1> HIDE DEF i
<1> QED
  BY <1>3, <1>5, <1>6, <1>7, <1>8, <1>9, CallGoesOn

\* The i-node that will be opened is locked.
LEMMA LockExistingStep ==
  ASSUME Ex1Inv, NEW t \in Threads, LockExisting(t)
  PROVE  Ex1Inv'
<1> DEFINE i == frame[t].inum
           place == IF "TRUNC" \in frame[t].flags THEN "truncate" ELSE "position"
           f == [frame[t] EXCEPT !.at = place]
<1>0. frame[t].at = "existing" /\ FrameOK(frame[t])
  BY DEF LockExisting, At, Ex1Inv
<1>1. i \in Inumbers /\ IsFile(i)
  BY <1>0 DEF FrameOK, IsFile
<1>2. place \in {"truncate", "position"}
  OBVIOUS
<1>3. frame' = [frame EXCEPT ![t] = f]
  BY DEF LockExisting, Goto
<1> HIDE DEF place
<1>4. IsFrame(f) /\ f.at = place /\ f.inum = i
  BY <1>0 DEF FrameOK, IsFrame, Fields
<1> HIDE DEF f
<1>5. FrameOK(f) /\ \A j : (WantsInode(f, j) <=> j = i) /\ ~WantsHandle(f, j)
  BY <1>1, <1>2, <1>4 DEF FrameOK, WantsInode, WantsHandle
<1>6. LocksInv
  BY DEF Ex1Inv
<1>7. /\ lock_inumber' \in [Inumbers -> RwLock]
      /\ \A u \in Threads, j \in Inumbers :
           Has(lock_inumber', u, j) <=> Has(lock_inumber, u, j) \/ (u = t /\ j = i)
  <2>1. "readers" \in Modes /\ lock_inumber' = Locked(lock_inumber, i, "readers", t)
    BY DEF LockExisting, Modes
  <2> QED
    BY <2>1, <1>1, <1>6, LockedHas DEF LocksInv
<1>8. \A j \in Inumbers : ~Has(lock_inumber, t, j)
  BY <1>0, <1>6 DEF LocksInv, WantsInode
<1>9. \A j \in Handles : ~Has(lock_fhandle, t, j)
  BY <1>0, <1>6 DEF LocksInv, WantsHandle
<1>10. \A u \in Threads, j \in Inumbers :
        Has(lock_inumber', u, j) <=> IF u = t THEN WantsInode(f, j) ELSE Has(lock_inumber, u, j)
  BY <1>5, <1>7, <1>8
<1>11. UNCHANGED <<freeinode_ts, dir_entry, free_open_file_entries, held, open_file_table, lock_fhandle>>
  BY DEF LockExisting, state_vars, inode_vars, open_vars
<1>12. DOMAIN open_file_table = Handles /\ \A j \in Handles : IsEntry(open_file_table[j])
  BY DEF Ex1Inv, HandlesInv
<1>13. lock_fhandle' \in [Handles -> RwLock]
  BY <1>6, <1>11 DEF LocksInv
<1>14. \A u \in Threads, j \in Handles :
        Has(lock_fhandle', u, j) <=> IF u = t THEN WantsHandle(f, j) ELSE Has(lock_fhandle, u, j)
  BY <1>5, <1>9, <1>11
<1> QED
  BY <1>3, <1>5, <1>7, <1>10, <1>11, <1>12, <1>13, <1>14, CallGoesOn

\* A truncation keeps the lock, or gives it back when it fails.
LEMMA TruncateStep ==
  ASSUME Ex1Inv, NEW t \in Threads, Truncate(t)
  PROVE  Ex1Inv'
<1> DEFINE i == frame[t].inum  f == [frame[t] EXCEPT !.at = "position"]
<1>0. frame[t].at = "truncate" /\ FrameOK(frame[t])
  BY DEF Truncate, At, Ex1Inv
<1>1. UNCHANGED <<freeinode_ts, dir_entry, open_vars, lock_fhandle, held>>
  BY DEF Truncate
<1>2. CASE TruncateOK(i) /\ Goto(t, f) /\ UNCHANGED lock_inumber
  <2>1. IsFrame(f) /\ f.at = "position" /\ f.inum = i
    BY <1>0 DEF FrameOK, IsFrame, Fields
  <2>2. frame' = [frame EXCEPT ![t] = f]
    BY <1>2 DEF Goto
  <2> HIDE DEF f
  <2>3. FrameOK(f)
    BY <1>0, <2>1 DEF FrameOK
  <2>4. \A j : /\ WantsInode(f, j) <=> WantsInode(frame[t], j)
               /\ WantsHandle(f, j) <=> WantsHandle(frame[t], j)
    BY <1>0, <2>1 DEF WantsInode, WantsHandle
  <2>5. UNCHANGED locks
    BY <1>1, <1>2 DEF locks
  <2> QED
    BY <1>1, <2>2, <2>3, <2>4, <2>5, CallKeepsLocks
<1>3. CASE lock_inumber' = Unlocked(lock_inumber, i, t) /\ Returns(t, frame[t].op, -1)
  <2>1. frame' = [frame EXCEPT ![t] = Idle]
    BY <1>3 DEF Returns
  <2> QED
    BY <1>0, <1>1, <1>3, <2>1, IdleFrame, UnlockInode
<1> QED
  BY <1>2, <1>3 DEF Truncate

\* The i-node is given back when the offset is known.
LEMMA PositionStep ==
  ASSUME Ex1Inv, NEW t \in Threads, Position(t)
  PROVE  Ex1Inv'
<1> DEFINE i == frame[t].inum
           offset == IF "APPEND" \in frame[t].flags THEN inode_table[i].i_size ELSE 0
           f == [Idle EXCEPT !.op = frame[t].op, !.at = "add", !.inum = i, !.offset = offset]
<1>0. frame[t].at = "position" /\ FrameOK(frame[t])
  BY DEF Position, At, Ex1Inv
<1>1. /\ UNCHANGED <<freeinode_ts, dir_entry, open_vars, lock_fhandle, held>>
      /\ lock_inumber' = Unlocked(lock_inumber, i, t)
      /\ frame' = [frame EXCEPT ![t] = f]
  BY DEF Position, Goto, state_vars, inode_vars
<1> HIDE DEF offset
<1>2. IsFrame(f) /\ f.at = "add" /\ f.inum = i
  BY DEF IsFrame, Fields, Idle
<1> HIDE DEF f
<1>3. FrameOK(f) /\ \A j : ~WantsInode(f, j) /\ ~WantsHandle(f, j)
  BY <1>0, <1>2 DEF FrameOK, WantsInode, WantsHandle
<1> QED
  BY <1>0, <1>1, <1>3, UnlockInode

\* A creation takes a free i-node and an empty slot, under one lock.
LEMMA CreateStep ==
  ASSUME Ex1Inv, NEW t \in Threads, Create(t)
  PROVE  Ex1Inv'
<1> DEFINE i == inode_create
           e == First(EmptySlots)
           sub == frame[t].path.sub
<1>0. frame[t].at = "create" /\ frame[t].path \in Paths
  BY DEF Create, At, Ex1Inv, FrameOK
<1>1. i \in Inumbers /\ freeinode_ts[i] = "FREE" /\ i # ROOT_DIR_INUM
  BY TakeFirstAt DEF Create, Ex1Inv, DirectoryInv, inode_create
<1>2. /\ freeinode_ts' \in [Inumbers -> AllocState]
      /\ \A j \in Inumbers : freeinode_ts'[j] = IF j = i THEN "TAKEN" ELSE freeinode_ts[j]
  BY TakeFirstAt DEF Create, Ex1Inv, DirectoryInv, inode_create
<1>3. e \in DirSlots /\ dir_entry[e].d_inumber = -1
  <2>1. EmptySlots # {}
    BY DEF Create, CanAddEntry
  <2> QED
    BY <2>1, FirstFound, ConfigAssumption DEF EmptySlots, DirSlots
<1>4. /\ dir_entry' \in [DirSlots -> DirEntry]
      /\ \A s \in DirSlots : dir_entry'[s].d_inumber = IF s = e THEN i ELSE dir_entry[s].d_inumber
  <2>1. sub \in Names
    BY <1>0, Ex1OpsAssumption DEF Create, CanAddEntry
  <2>2. Cut[sub] \in Names
    BY <2>1, ConfigAssumption
  <2>3. dir_entry' = [dir_entry EXCEPT ![e] = [d_name |-> Cut[sub], d_inumber |-> i]]
    BY DEF Create, add_dir_entry
  <2> QED
    BY <1>1, <1>3, <2>2, <2>3 DEF Ex1Inv, DirectoryInv, DirEntry
<1> HIDE DEF e
<1>5. DirectoryInv'
  <2>0. DirectoryInv /\ i # -1
    BY DEF Ex1Inv, Create
  <2>1. \A j : IsFile(j)' <=> IsFile(j) \/ j = i
    BY <1>1, <1>2 DEF IsFile
  <2>2. freeinode_ts'[ROOT_DIR_INUM] = "TAKEN"
    BY <1>1, <1>2, <2>0, RootIsInode DEF DirectoryInv
  <2>3. \A s \in DirSlots : dir_entry'[s].d_inumber # -1 => IsFile(dir_entry[s].d_inumber)'
    BY <1>4, <2>0, <2>1 DEF DirectoryInv
  <2>4. \A s \in DirSlots : dir_entry[s].d_inumber # i
    BY <1>1, <2>0 DEF DirectoryInv, IsFile
  <2>5. ASSUME NEW s \in DirSlots, NEW r \in DirSlots,
               dir_entry'[s].d_inumber = dir_entry'[r].d_inumber, dir_entry'[s].d_inumber # -1
        PROVE  s = r
    BY <1>4, <2>0, <2>4, <2>5 DEF DirectoryInv
  <2>6. ASSUME NEW j \in Inumbers, IsFile(j)'
        PROVE  \E s \in DirSlots : dir_entry'[s].d_inumber = j
    <3>1. CASE j = i
      BY <3>1, <1>3, <1>4
    <3>2. CASE j # i
      <4>1. PICK s \in DirSlots : dir_entry[s].d_inumber = j
        BY <3>2, <2>0, <2>1, <2>6 DEF DirectoryInv
      <4>2. s # e
        BY <4>1, <1>3, ConfigAssumption DEF Inumbers
      <4> QED
        BY <4>1, <4>2, <1>4
    <3> QED
      BY <3>1, <3>2
  <2> QED
    BY <1>2, <1>4, <2>2, <2>3, <2>5, <2>6 DEF DirectoryInv
<1>6. \A j : IsFile(j) => IsFile(j)'
  BY <1>2 DEF IsFile
<1>7. UNCHANGED <<open_file_table, free_open_file_entries, lock_inumber, lock_fhandle, held>>
  BY DEF Create, open_vars, locks
<1>8. HandlesInv'
  BY <1>6, <1>7 DEF Ex1Inv, HandlesInv, Open
<1> HIDE DEF i
<1>9. PICK f : f = [Idle EXCEPT !.op = "open", !.at = "add", !.inum = i]
  OBVIOUS
<1>10. DOMAIN frame' = Threads /\ \A u \in Threads : frame'[u] = IF u = t THEN f ELSE frame[u]
  BY <1>9 DEF Create, Goto, Ex1Inv, i
<1>11. IsFrame(f) /\ f.at = "add" /\ f.inum = i
  BY <1>9 DEF IsFrame, Fields, Idle
<1>12. FrameOK(f)' /\ \A j : ~WantsInode(f, j)' /\ ~WantsHandle(f, j)'
  BY <1>1, <1>2, <1>11 DEF FrameOK, WantsInode, WantsHandle, IsFile
<1>13. ASSUME NEW u \in Threads
       PROVE  FrameOK(frame[u])'
  <2>1. CASE u = t
    BY <2>1, <1>10, <1>12 DEF FrameOK, IsFile, Open
  <2>2. CASE u # t
    <3>1. frame'[u] = frame[u] /\ FrameOK(frame[u])
      BY <2>2, <1>10 DEF Ex1Inv
    <3> QED
      BY <3>1, <1>6, <1>7 DEF FrameOK, Open
  <2> QED
    BY <2>1, <2>2
<1>14. ASSUME NEW u \in Threads
       PROVE  \A j : /\ WantsInode(frame[u], j)' <=> WantsInode(frame[u], j)
                     /\ WantsHandle(frame[u], j)' <=> WantsHandle(frame[u], j)
  <2>1. CASE u = t
    BY <2>1, <1>0, <1>10, <1>11 DEF WantsInode, WantsHandle
  <2>2. CASE u # t
    BY <2>2, <1>7, <1>10 DEF WantsInode, WantsHandle
  <2> QED
    BY <2>1, <2>2
<1>15. LocksInv'
  BY <1>7, <1>14 DEF Ex1Inv, LocksInv, Has
<1> QED
  BY <1>5, <1>8, <1>10, <1>13, <1>15 DEF Ex1Inv

\* An undone creation leaves the directory as it was.
LEMMA CreateFailsStep ==
  ASSUME Ex1Inv, NEW t \in Threads, CreateFails(t)
  PROVE  Ex1Inv'
<1>1. \A i : ~WantsInode(frame[t], i) /\ ~WantsHandle(frame[t], i)
  BY DEF CreateFails, At, WantsInode, WantsHandle
<1> QED
  BY <1>1, CallReturns DEF CreateFails

\* The handle that is taken was free, so no call uses it.
LEMMA AddStep ==
  ASSUME Ex1Inv, NEW t \in Threads, Add(t)
  PROVE  Ex1Inv'
<1> DEFINE h == First(FreeIn(free_open_file_entries))
<1>0. frame[t].at = "add" /\ IsFile(frame[t].inum) /\ FrameOK(frame[t])
  BY DEF Add, At, Ex1Inv, FrameOK
<1>1. /\ free_open_file_entries' \in [Handles -> AllocState]
      /\ \A g \in Handles : free_open_file_entries'[g] =
           IF g = h THEN "TAKEN" ELSE free_open_file_entries[g]
      /\ h # -1 => h \in Handles /\ ~Open(h)
  BY TakeFirstAt DEF Add, Ex1Inv, HandlesInv, Open
<1> HIDE DEF h
<1>2. /\ DOMAIN open_file_table' = Handles
      /\ \A g \in Handles : open_file_table'[g] =
           IF g = h THEN [of_inumber |-> frame[t].inum, of_offset |-> frame[t].offset]
                    ELSE open_file_table[g]
  BY DEF Add, h
<1>3. UNCHANGED <<freeinode_ts, dir_entry, lock_inumber, lock_fhandle>>
  BY DEF Add, inode_vars, locks
<1>4. PICK f : /\ frame' = [frame EXCEPT ![t] = f]
               /\ \/ f = Idle /\ (h = -1 => held' = held) /\ (h # -1 => held' = held \cup {h})
                  \/ f = [Idle EXCEPT !.op = "copy", !.at = "size", !.h = h] /\ h # -1 /\ held' = held
  BY DEF Add, Goto, Returns, h
<1>5. \A i : IsFile(i)' <=> IsFile(i)
  BY <1>3 DEF IsFile
<1>6. \A g \in Handles : Open(g)' <=> Open(g) \/ g = h
  BY <1>1 DEF Open, AllocState
<1>7. FrameOK(f)' /\ \A j : ~WantsInode(f, j)' /\ ~WantsHandle(f, j)'
  <2>1. CASE f = Idle
    BY <2>1, IdleFrame DEF FrameOK, WantsInode, WantsHandle
  <2>2. CASE f = [Idle EXCEPT !.op = "copy", !.at = "size", !.h = h] /\ h # -1
    <3>1. IsFrame(f) /\ f.at = "size" /\ f.h = h
      BY <2>2 DEF IsFrame, Fields, Idle
    <3> QED
      BY <3>1, <2>2, <1>1, <1>6 DEF FrameOK, WantsInode, WantsHandle
  <2> QED
    BY <2>1, <2>2, <1>4
<1>8. HandlesInv'
  <2>1. \A g \in Handles : IsEntry(open_file_table'[g])
    BY <1>2 DEF Ex1Inv, HandlesInv, IsEntry
  <2>2. \A g \in Handles : Open(g)' => IsFile(open_file_table[g].of_inumber)'
    BY <1>0, <1>2, <1>5, <1>6 DEF Ex1Inv, HandlesInv
  <2>3. \A g \in held' : g \in Handles /\ Open(g)'
    BY <1>1, <1>4, <1>6 DEF Ex1Inv, HandlesInv
  <2> QED
    BY <1>1, <1>2, <2>1, <2>2, <2>3 DEF HandlesInv
<1>9. DOMAIN frame' = Threads /\ \A u \in Threads : frame'[u] = IF u = t THEN f ELSE frame[u]
  BY <1>4 DEF Ex1Inv
<1>10. ASSUME NEW u \in Threads
       PROVE  FrameOK(frame[u])'
  <2>1. CASE u = t
    BY <2>1, <1>7, <1>9 DEF FrameOK, IsFile, Open
  <2>2. CASE u # t
    <3>1. frame'[u] = frame[u] /\ FrameOK(frame[u])
      BY <2>2, <1>9 DEF Ex1Inv
    <3> QED
      BY <3>1, <1>5, <1>6 DEF FrameOK
  <2> QED
    BY <2>1, <2>2
<1>11. ASSUME NEW u \in Threads
       PROVE  \A j : /\ WantsInode(frame[u], j)' <=> WantsInode(frame[u], j)
                     /\ WantsHandle(frame[u], j)' <=> WantsHandle(frame[u], j)
  <2>1. CASE u = t
    BY <2>1, <1>0, <1>7, <1>9 DEF WantsInode, WantsHandle
  <2>2. CASE u # t
    <3>1. frame'[u] = frame[u] /\ FrameOK(frame[u])
      BY <2>2, <1>9 DEF Ex1Inv
    <3>2. -1 \notin Handles
      BY ConfigAssumption DEF Handles
    <3>3. frame[u].at \in {"loop", "advance"} => frame[u].h \in Handles /\ frame[u].h # h
      BY <3>1, <3>2, <1>1 DEF FrameOK
    <3>4. frame[u].at \in {"loop", "advance"} =>
            open_file_table'[frame[u].h] = open_file_table[frame[u].h]
      BY <3>3, <1>2
    <3> QED
      BY <3>1, <3>4 DEF WantsInode, WantsHandle
  <2> QED
    BY <2>1, <2>2
<1>12. LocksInv'
  BY <1>3, <1>11 DEF Ex1Inv, LocksInv, Has
<1>13. DirectoryInv'
  BY <1>3 DEF Ex1Inv, DirectoryInv, IsFile
<1> QED
  BY <1>8, <1>9, <1>10, <1>12, <1>13 DEF Ex1Inv

\* No call uses the handle that is closed.
LEMMA CloseStep ==
  ASSUME Ex1Inv, NEW t \in Threads, NEW h, tfs_close(t, h)
  PROVE  Ex1Inv'
<1>0. \A i : ~WantsInode(frame[t], i) /\ ~WantsHandle(frame[t], i)
  BY DEF tfs_close, At, WantsInode, WantsHandle
<1>1. UNCHANGED <<freeinode_ts, dir_entry, open_file_table, locks>>
  BY DEF tfs_close, inode_vars
<1>2. CASE UNCHANGED <<free_open_file_entries, held>> /\ Returns(t, "close", -1)
  BY <1>0, <1>1, <1>2, CallReturns DEF open_vars
<1>3. CASE /\ h \in held /\ \A u \in Threads : frame[u].h # h
           /\ free_open_file_entries' = Release(free_open_file_entries, h)
           /\ held' = held \ {h}
           /\ Returns(t, "close", 0)
  <2>1. h \in Handles
    BY <1>3 DEF Ex1Inv, HandlesInv
  <2>2. /\ free_open_file_entries' \in [Handles -> AllocState]
        /\ \A g \in Handles : Open(g)' <=> Open(g) /\ g # h
    BY <2>1, <1>3 DEF Ex1Inv, HandlesInv, Release, Open, AllocState
  <2>3. DirectoryInv' /\ \A i : IsFile(i)' <=> IsFile(i)
    BY <1>1 DEF Ex1Inv, DirectoryInv, IsFile
  <2>4. HandlesInv'
    BY <1>1, <1>3, <2>2, <2>3 DEF Ex1Inv, HandlesInv
  <2>5. DOMAIN frame' = Threads /\ \A u \in Threads : frame'[u] = IF u = t THEN Idle ELSE frame[u]
    BY <1>3 DEF Ex1Inv, Returns
  <2>6. ASSUME NEW u \in Threads
        PROVE  FrameOK(frame[u])'
    <3>1. CASE u = t
      BY <3>1, <2>5, IdleFrame DEF FrameOK
    <3>2. CASE u # t
      <4>1. frame'[u] = frame[u] /\ FrameOK(frame[u]) /\ frame[u].h # h
        BY <3>2, <2>5, <1>3 DEF Ex1Inv
      <4> QED
        BY <4>1, <2>2, <2>3 DEF FrameOK
    <3> QED
      BY <3>1, <3>2
  <2>7. ASSUME NEW u \in Threads
        PROVE  \A j : /\ WantsInode(frame[u], j)' <=> WantsInode(frame[u], j)
                      /\ WantsHandle(frame[u], j)' <=> WantsHandle(frame[u], j)
    <3>1. CASE u = t
      BY <3>1, <1>0, <2>5, IdleFrame DEF WantsInode, WantsHandle
    <3>2. CASE u # t
      BY <3>2, <1>1, <2>5 DEF WantsInode, WantsHandle
    <3> QED
      BY <3>1, <3>2
  <2>8. LocksInv'
    BY <1>1, <2>7 DEF Ex1Inv, LocksInv, Has, locks
  <2> QED
    BY <2>3, <2>4, <2>5, <2>6, <2>8 DEF Ex1Inv
<1> QED
  BY <1>2, <1>3 DEF tfs_close

\* tfs_destroy changes no table, and its thread holds no lock.
LEMMA DestroyStep ==
  ASSUME Ex1Inv, NEW t \in Threads, tfs_destroy(t)
  PROVE  Ex1Inv'
<1>1. \A i : ~WantsInode(frame[t], i) /\ ~WantsHandle(frame[t], i)
  BY DEF tfs_destroy, At, WantsInode, WantsHandle
<1> QED
  BY <1>1, CallReturns DEF tfs_destroy, state_vars, inode_vars

----------------------------------------------------------------------------
(* tfs_write, tfs_read and tfs_copy_to_external_fs.                        *)

\* A call of tfs_write or tfs_read starts with a handle that is open.
LEMMA BeginsStep ==
  ASSUME Ex1Inv, NEW t \in Threads, NEW f, IsFrame(f), Begins(t, f)
  PROVE  Ex1Inv'
<1>1. \A i : ~WantsInode(frame[t], i) /\ ~WantsHandle(frame[t], i)
  BY DEF Begins, At, WantsInode, WantsHandle
<1>2. UNCHANGED <<freeinode_ts, dir_entry, open_vars, locks, held>>
  BY DEF Begins, state_vars, inode_vars
<1>3. CASE f.h \in held /\ Goto(t, [f EXCEPT !.at = "handle"])
  <2> DEFINE g == [f EXCEPT !.at = "handle"]
  <2>1. IsFrame(g) /\ g.at = "handle" /\ g.h = f.h
    BY DEF IsFrame, Fields
  <2>2. frame' = [frame EXCEPT ![t] = g]
    BY <1>3 DEF Goto
  <2> HIDE DEF g
  <2>3. FrameOK(g) /\ \A i : ~WantsInode(g, i) /\ ~WantsHandle(g, i)
    BY <2>1, <1>3 DEF FrameOK, WantsInode, WantsHandle, Ex1Inv, HandlesInv
  <2> QED
    BY <1>1, <1>2, <2>2, <2>3, CallKeepsLocks
<1>4. CASE Returns(t, f.op, -1)
  BY <1>1, <1>2, <1>4, CallReturns
<1> QED
  BY <1>3, <1>4 DEF Begins

\* So does each of the two.
LEMMA BeginStep ==
  ASSUME Ex1Inv, NEW t \in Threads, NEW h, NEW buffer, NEW len,
         tfs_write(t, h, buffer) \/ tfs_read(t, h, len)
  PROVE  Ex1Inv'
<1>1. \/ Begins(t, [Idle EXCEPT !.op = "write", !.h = h, !.buffer = buffer])
      \/ Begins(t, [Idle EXCEPT !.op = "read", !.h = h, !.len = len])
  BY DEF tfs_write, tfs_read
<1>2. /\ IsFrame([Idle EXCEPT !.op = "write", !.h = h, !.buffer = buffer])
      /\ IsFrame([Idle EXCEPT !.op = "read", !.h = h, !.len = len])
  BY DEF IsFrame, Fields, Idle
<1> QED
  BY <1>1, <1>2, BeginsStep

\* A step of t, which has its handle, and locks the handle or the i-node with it.
LEMMA HandleKept ==
  ASSUME Ex1Inv, NEW t \in Threads, frame[t].at \in {"size", "handle", "inode", "loop", "advance"}
  PROVE  /\ frame[t].h \in Handles /\ Inum(t) \in Inumbers
         /\ LocksInv /\ DOMAIN open_file_table = Handles
         /\ \A h \in Handles : IsEntry(open_file_table[h])
BY DEF Ex1Inv, FrameOK, HandlesInv, Inum, IsFile

\* The handle is locked.
LEMMA LockHandleStep ==
  ASSUME Ex1Inv, NEW t \in Threads, LockHandle(t)
  PROVE  Ex1Inv'
<1> DEFINE h == frame[t].h  f == [frame[t] EXCEPT !.at = "inode"]
<1>0. frame[t].at = "handle" /\ FrameOK(frame[t])
  BY DEF LockHandle, At, Ex1Inv
<1>1. /\ h \in Handles /\ LocksInv /\ DOMAIN open_file_table = Handles
      /\ \A g \in Handles : IsEntry(open_file_table[g])
  BY <1>0, HandleKept
<1>2. IsFrame(f) /\ f.at = "inode" /\ f.h = h
  BY <1>0 DEF FrameOK, IsFrame, Fields
<1>3. frame' = [frame EXCEPT ![t] = f]
  BY DEF LockHandle, Goto
<1> HIDE DEF f
<1>4. FrameOK(f) /\ \A j : ~WantsInode(f, j) /\ (WantsHandle(f, j) <=> j = h)
  BY <1>0, <1>2 DEF FrameOK, WantsInode, WantsHandle
<1>5. UNCHANGED <<freeinode_ts, dir_entry, free_open_file_entries, held, open_file_table, lock_inumber>>
  BY DEF LockHandle, state_vars, inode_vars, open_vars
<1>6. /\ lock_fhandle' \in [Handles -> RwLock]
      /\ \A u \in Threads, j \in Handles :
           Has(lock_fhandle', u, j) <=> Has(lock_fhandle, u, j) \/ (u = t /\ j = h)
  <2>1. "writers" \in Modes /\ lock_fhandle' = Locked(lock_fhandle, h, "writers", t)
    BY DEF LockHandle, Modes
  <2> QED
    BY <2>1, <1>1, LockedHas DEF LocksInv
<1>7. /\ \A j \in Inumbers : ~Has(lock_inumber, t, j)
      /\ \A j \in Handles : ~Has(lock_fhandle, t, j)
  BY <1>0, <1>1 DEF LocksInv, WantsInode, WantsHandle
<1>8. \A u \in Threads, j \in Inumbers :
        Has(lock_inumber', u, j) <=> IF u = t THEN WantsInode(f, j) ELSE Has(lock_inumber, u, j)
  BY <1>4, <1>5, <1>7
<1>9. \A u \in Threads, j \in Handles :
        Has(lock_fhandle', u, j) <=> IF u = t THEN WantsHandle(f, j) ELSE Has(lock_fhandle, u, j)
  BY <1>4, <1>6, <1>7
<1>10. lock_inumber' \in [Inumbers -> RwLock]
  BY <1>1, <1>5 DEF LocksInv
<1> QED
  BY <1>1, <1>3, <1>4, <1>5, <1>6, <1>8, <1>9, <1>10, CallGoesOn

\* Then the i-node that the handle names.
LEMMA LocksStep ==
  ASSUME Ex1Inv, NEW t \in Threads, frame[t].at = "inode", NEW mode \in Modes, NEW todo,
         Locks(t, mode, todo)
  PROVE  Ex1Inv'
<1> DEFINE h == frame[t].h  i == Inum(t)
<1>0. FrameOK(frame[t])
  BY DEF Ex1Inv
<1>1. /\ h \in Handles /\ i \in Inumbers /\ LocksInv /\ DOMAIN open_file_table = Handles
      /\ \A g \in Handles : IsEntry(open_file_table[g])
  BY HandleKept
<1>2. PICK old, offset :
        frame' = [frame EXCEPT ![t] =
                    [frame[t] EXCEPT !.at = "loop", !.todo = todo, !.offset = offset, !.old = old]]
  BY DEF Locks, Goto
<1> DEFINE f == [frame[t] EXCEPT !.at = "loop", !.todo = todo, !.offset = offset, !.old = old]
<1>3. IsFrame(f) /\ f.at = "loop" /\ f.h = h
  BY <1>0 DEF FrameOK, IsFrame, Fields
<1>4. frame' = [frame EXCEPT ![t] = f]
  BY <1>2
<1> HIDE DEF f
<1>5. FrameOK(f) /\ \A j : (WantsInode(f, j) <=> j = i) /\ (WantsHandle(f, j) <=> j = h)
  BY <1>0, <1>3 DEF FrameOK, WantsInode, WantsHandle, Inum
<1>6. UNCHANGED <<freeinode_ts, dir_entry, free_open_file_entries, held, open_file_table, lock_fhandle>>
  BY DEF Locks, state_vars, inode_vars, open_vars
<1>7. /\ lock_inumber' \in [Inumbers -> RwLock]
      /\ \A u \in Threads, j \in Inumbers :
           Has(lock_inumber', u, j) <=> Has(lock_inumber, u, j) \/ (u = t /\ j = i)
  <2>1. lock_inumber' = Locked(lock_inumber, i, mode, t)
    BY DEF Locks
  <2> QED
    BY <2>1, <1>1, LockedHas DEF LocksInv
<1>8. /\ \A j \in Inumbers : ~Has(lock_inumber, t, j)
      /\ \A j \in Handles : Has(lock_fhandle, t, j) <=> j = h
  BY <1>1 DEF LocksInv, WantsInode, WantsHandle
<1> HIDE DEF h, i
<1>9. \A u \in Threads, j \in Inumbers :
        Has(lock_inumber', u, j) <=> IF u = t THEN WantsInode(f, j) ELSE Has(lock_inumber, u, j)
  BY <1>5, <1>7, <1>8
<1>10. \A u \in Threads, j \in Handles :
        Has(lock_fhandle', u, j) <=> IF u = t THEN WantsHandle(f, j) ELSE Has(lock_fhandle, u, j)
  BY <1>5, <1>6, <1>8
<1>11. lock_fhandle' \in [Handles -> RwLock]
  BY <1>1, <1>6 DEF LocksInv
<1> QED
  BY <1>1, <1>4, <1>5, <1>6, <1>7, <1>9, <1>10, <1>11, CallGoesOn

\* A write locks it for writing.
LEMMA LockForWriteStep ==
  ASSUME Ex1Inv, NEW t \in Threads, LockForWrite(t)
  PROVE  Ex1Inv'
<1>1. frame[t].at = "inode" /\ "writers" \in Modes
  BY DEF LockForWrite, At, Modes
<1>2. \E todo : Locks(t, "writers", todo)
  BY DEF LockForWrite
<1> QED
  BY <1>1, <1>2, LocksStep

\* A read that is refused releases its handle.
LEMMA LockForReadStep ==
  ASSUME Ex1Inv, NEW t \in Threads, LockForRead(t)
  PROVE  Ex1Inv'
<1>1. frame[t].at = "inode" /\ "readers" \in Modes
  BY DEF LockForRead, At, Modes
<1>2. CASE Locks(t, "readers", to_read(t))
  BY <1>1, <1>2, LocksStep
<1>3. CASE /\ lock_fhandle' = Unlocked(lock_fhandle, frame[t].h, t)
           /\ Returns(t, frame[t].op, -1)
           /\ UNCHANGED <<state_vars, lock_inumber, held, history>>
  <2> DEFINE h == frame[t].h
  <2>1. /\ h \in Handles /\ LocksInv /\ DOMAIN open_file_table = Handles
        /\ \A g \in Handles : IsEntry(open_file_table[g])
    BY <1>1, HandleKept
  <2>2. frame' = [frame EXCEPT ![t] = Idle]
    BY <1>3 DEF Returns
  <2>3. UNCHANGED <<freeinode_ts, dir_entry, free_open_file_entries, held, open_file_table, lock_inumber>>
    BY <1>3 DEF state_vars, inode_vars, open_vars
  <2>4. /\ lock_fhandle' \in [Handles -> RwLock]
        /\ \A u \in Threads, j \in Handles :
             Has(lock_fhandle', u, j) <=> Has(lock_fhandle, u, j) /\ ~(u = t /\ j = h)
    BY <1>3, <2>1, UnlockedHas DEF LocksInv
  <2>5. /\ \A j \in Inumbers : ~Has(lock_inumber, t, j)
        /\ \A j \in Handles : Has(lock_fhandle, t, j) <=> j = h
    BY <1>1, <2>1 DEF LocksInv, WantsInode, WantsHandle
  <2>6. \A u \in Threads, j \in Inumbers :
          Has(lock_inumber', u, j) <=> IF u = t THEN WantsInode(Idle, j) ELSE Has(lock_inumber, u, j)
    BY <2>3, <2>5, IdleFrame
  <2>7. \A u \in Threads, j \in Handles :
          Has(lock_fhandle', u, j) <=> IF u = t THEN WantsHandle(Idle, j) ELSE Has(lock_fhandle, u, j)
    BY <2>4, <2>5, IdleFrame
  <2>8. lock_inumber' \in [Inumbers -> RwLock]
    BY <2>1, <2>3 DEF LocksInv
  <2> HIDE DEF h
  <2> QED
    BY <2>1, <2>2, <2>3, <2>4, <2>6, <2>7, <2>8, IdleFrame, CallGoesOn
<1> QED
  BY <1>2, <1>3 DEF LockForRead

\* A block was accessed: the call goes on with its locks, or releases both.
LEMMA BlockStep ==
  ASSUME Ex1Inv, NEW t \in Threads, WriteBlock(t) \/ ReadBlock(t)
  PROVE  Ex1Inv'
<1>0. frame[t].at = "loop" /\ FrameOK(frame[t])
  BY DEF WriteBlock, ReadBlock, InLoop, At, Ex1Inv
<1>1. UNCHANGED <<freeinode_ts, dir_entry, open_vars, held>>
  BY DEF WriteBlock, ReadBlock, state_vars, inode_vars
<1>2. \/ UNCHANGED <<locks, frame>>
      \/ \E bytes : /\ frame' = [frame EXCEPT ![t] =
                                   [frame[t] EXCEPT !.at = "advance", !.buffer = bytes]]
                    /\ UNCHANGED locks
      \/ BlockFails(t)
  <2>1. CASE WriteBlock(t)
    <3>1. \/ UNCHANGED <<locks, frame>>
          \/ frame' = [frame EXCEPT ![t] = [frame[t] EXCEPT !.at = "advance"]] /\ UNCHANGED locks
          \/ BlockFails(t)
      BY <2>1 DEF WriteBlock, Goto
    <3>2. [frame[t] EXCEPT !.at = "advance"] =
            [frame[t] EXCEPT !.at = "advance", !.buffer = frame[t].buffer]
      BY <1>0 DEF FrameOK, IsFrame, Fields
    <3> QED
      BY <3>1, <3>2
  <2>2. CASE ReadBlock(t)
    BY <2>2 DEF ReadBlock, Goto
  <2> QED
    BY <2>1, <2>2
<1>3. CASE UNCHANGED <<locks, frame>>
  BY <1>1, <1>3, NothingChanges
<1>4. ASSUME NEW bytes, UNCHANGED locks,
             frame' = [frame EXCEPT ![t] = [frame[t] EXCEPT !.at = "advance", !.buffer = bytes]]
      PROVE  Ex1Inv'
  <2> DEFINE f == [frame[t] EXCEPT !.at = "advance", !.buffer = bytes]
  <2>1. IsFrame(f) /\ f.at = "advance" /\ f.h = frame[t].h
    BY <1>0 DEF FrameOK, IsFrame, Fields
  <2>2. frame' = [frame EXCEPT ![t] = f]
    BY <1>4
  <2> HIDE DEF f
  <2>3. FrameOK(f) /\ \A i : /\ WantsInode(f, i) <=> WantsInode(frame[t], i)
                             /\ WantsHandle(f, i) <=> WantsHandle(frame[t], i)
    BY <1>0, <2>1 DEF FrameOK, WantsInode, WantsHandle
  <2> QED
    BY <1>1, <1>4, <2>2, <2>3, CallKeepsLocks
<1>5. CASE BlockFails(t)
  BY <1>0, <1>1, <1>5, CallReturns DEF BlockFails
<1> QED
  BY <1>2, <1>3, <1>4, <1>5

\* Moving the handle leaves it to the same file.
LEMMA AdvanceStep ==
  ASSUME Ex1Inv, NEW t \in Threads, Advance(t)
  PROVE  Ex1Inv'
<1> DEFINE h == frame[t].h
<1>0. frame[t].at = "advance" /\ FrameOK(frame[t])
  BY DEF Advance, At, Ex1Inv
<1>1. /\ h \in Handles /\ LocksInv /\ DOMAIN open_file_table = Handles
      /\ \A g \in Handles : IsEntry(open_file_table[g])
  BY <1>0, HandleKept
<1>2. PICK offset, done :
        /\ open_file_table' = [open_file_table EXCEPT ![h].of_offset = offset]
        /\ frame' = [frame EXCEPT ![t] = [frame[t] EXCEPT !.at = "loop", !.done = done]]
  BY DEF Advance, Goto
<1>3. /\ DOMAIN open_file_table' = Handles
      /\ \A g \in Handles : /\ IsEntry(open_file_table'[g])
                            /\ open_file_table'[g].of_inumber = open_file_table[g].of_inumber
  BY <1>1, <1>2 DEF IsEntry
<1> DEFINE f == [frame[t] EXCEPT !.at = "loop", !.done = done]
<1>4. IsFrame(f) /\ f.at = "loop" /\ f.h = h
  BY <1>0 DEF FrameOK, IsFrame, Fields
<1>5. frame' = [frame EXCEPT ![t] = f]
  BY <1>2
<1> HIDE DEF f
<1>6. FrameOK(f) /\ \A i : /\ WantsInode(f, i) <=> WantsInode(frame[t], i)
                           /\ WantsHandle(f, i) <=> WantsHandle(frame[t], i)
  BY <1>0, <1>4 DEF FrameOK, WantsInode, WantsHandle
<1>7. UNCHANGED <<freeinode_ts, dir_entry, free_open_file_entries, held, lock_inumber, lock_fhandle>>
  BY DEF Advance, locks
<1>8. /\ \A u \in Threads, j \in Inumbers :
           Has(lock_inumber', u, j) <=> IF u = t THEN WantsInode(f, j) ELSE Has(lock_inumber, u, j)
      /\ \A u \in Threads, j \in Handles :
           Has(lock_fhandle', u, j) <=> IF u = t THEN WantsHandle(f, j) ELSE Has(lock_fhandle, u, j)
      /\ lock_inumber' \in [Inumbers -> RwLock] /\ lock_fhandle' \in [Handles -> RwLock]
  BY <1>1, <1>6, <1>7 DEF LocksInv
<1> QED
  BY <1>3, <1>5, <1>6, <1>7, <1>8, CallGoesOn

\* The call returns and has released both locks.
LEMMA ReturnStep ==
  ASSUME Ex1Inv, NEW t \in Threads, Return(t)
  PROVE  Ex1Inv'
<1>1. \E op, val : Returns(t, op, val)
  BY DEF Return
<1> QED
  BY <1>1, CallReturns DEF Return, At, state_vars, inode_vars

\* tfs_copy_to_external_fs looks the name up.
LEMMA CopyStep ==
  ASSUME Ex1Inv, NEW t \in Threads, NEW path \in CopyPaths, tfs_copy_to_external_fs(t, path)
  PROVE  Ex1Inv'
<1> DEFINE f == [Idle EXCEPT !.op = "copy", !.at = "lookup", !.path = path]
<1>1. \A i : ~WantsInode(frame[t], i) /\ ~WantsHandle(frame[t], i)
  BY DEF tfs_copy_to_external_fs, At, WantsInode, WantsHandle
<1>2. UNCHANGED <<freeinode_ts, dir_entry, open_vars, locks, held>>
  BY DEF tfs_copy_to_external_fs, state_vars, inode_vars
<1>3. CASE Goto(t, f)
  <2>1. IsFrame(f) /\ f.at = "lookup" /\ f.path = path
    BY DEF IsFrame, Fields, Idle
  <2>2. frame' = [frame EXCEPT ![t] = f] /\ path \in Paths
    BY <1>3, Ex1OpsAssumption DEF Goto
  <2> HIDE DEF f
  <2>3. FrameOK(f) /\ \A i : ~WantsInode(f, i) /\ ~WantsHandle(f, i)
    BY <2>1, <2>2 DEF FrameOK, WantsInode, WantsHandle
  <2> QED
    BY <1>1, <1>2, <2>2, <2>3, CallKeepsLocks
<1>4. CASE Returns(t, "copy", -1)
  BY <1>1, <1>2, <1>4, CallReturns
<1> QED
  BY <1>3, <1>4 DEF tfs_copy_to_external_fs

\* Its tfs_open looks it up again.
LEMMA CopyOpensStep ==
  ASSUME Ex1Inv, NEW t \in Threads, CopyOpens(t)
  PROVE  Ex1Inv'
<1>1. frame[t].at = "lookup" /\ LooksUp(t, frame[t])
  BY DEF CopyOpens, At
<1>2. IsFrame(frame[t]) /\ frame[t].path \in Paths
  BY <1>1 DEF Ex1Inv, FrameOK
<1> QED
  BY <1>1, <1>2, LooksUpStep

\* It reads the size under two locks that it gives back at once.
LEMMA CopySizeStep ==
  ASSUME Ex1Inv, NEW t \in Threads, CopySize(t)
  PROVE  Ex1Inv'
<1> DEFINE f == [frame[t] EXCEPT !.at = "handle", !.len = Size(t)]
<1>0. frame[t].at = "size" /\ FrameOK(frame[t])
  BY DEF CopySize, At, Ex1Inv
<1>1. IsFrame(f) /\ f.at = "handle" /\ f.h = frame[t].h
  BY <1>0 DEF FrameOK, IsFrame, Fields
<1>2. frame' = [frame EXCEPT ![t] = f]
  BY DEF CopySize, Goto
<1> HIDE DEF f
<1>3. FrameOK(f) /\ \A i : /\ WantsInode(f, i) <=> WantsInode(frame[t], i)
                           /\ WantsHandle(f, i) <=> WantsHandle(frame[t], i)
  BY <1>0, <1>1 DEF FrameOK, WantsInode, WantsHandle
<1>4. UNCHANGED <<freeinode_ts, dir_entry, open_vars, locks, held>>
  BY DEF CopySize, state_vars, inode_vars
<1> QED
  BY <1>2, <1>3, <1>4, CallKeepsLocks

----------------------------------------------------------------------------
(* The theorems.                                                           *)

\* After tfs_init no lock is held and the directory is empty.
LEMMA Ex1InvInit == Init => Ex1Inv
<1> SUFFICES ASSUME Init PROVE Ex1Inv
  OBVIOUS
<1> USE ConfigAssumption
<1>1. freeinode_ts \in [Inumbers -> AllocState] /\ freeinode_ts[ROOT_DIR_INUM] = "TAKEN"
  BY RootIsInode DEF Init, Ex1RootCreated, AllocState
<1>2. \A i : ~IsFile(i)
  BY DEF Init, Ex1RootCreated, IsFile
<1>3. /\ dir_entry \in [DirSlots -> DirEntry]
      /\ \A s \in DirSlots : dir_entry[s].d_inumber = -1
  BY DEF Init, Ex1RootCreated, DirEntry
<1>4. DirectoryInv
  BY <1>1, <1>2, <1>3 DEF DirectoryInv
<1>5. HandlesInv
  <2>1. DOMAIN open_file_table = Handles /\ \A h \in Handles : IsEntry(open_file_table[h])
    BY DEF Init, Ex1RootCreated, IsEntry
  <2>2. free_open_file_entries \in [Handles -> AllocState] /\ \A h \in Handles : ~Open(h)
    BY DEF Init, Ex1RootCreated, AllocState, Open
  <2> QED
    BY <2>1, <2>2 DEF HandlesInv, Init
<1>6. DOMAIN frame = Threads /\ \A t \in Threads : frame[t] = Idle
  BY DEF Init
<1>7. LocksInv
  <2>1. lock_inumber \in [Inumbers -> RwLock] /\ lock_fhandle \in [Handles -> RwLock]
    BY DEF Init, RwLock
  <2>2. /\ \A i \in Inumbers, t \in Threads : ~Has(lock_inumber, t, i)
        /\ \A h \in Handles, t \in Threads : ~Has(lock_fhandle, t, h)
    BY DEF Init, Has
  <2> QED
    BY <1>6, <2>1, <2>2, IdleFrame DEF LocksInv
<1> QED
  BY <1>4, <1>5, <1>6, <1>7, IdleFrame DEF Ex1Inv

\* Every step keeps the invariant.
LEMMA Ex1InvNext == Ex1Inv /\ [Next]_vars => Ex1Inv'
<1> SUFFICES ASSUME Ex1Inv, [Next]_vars PROVE Ex1Inv'
  OBVIOUS
<1>1. CASE UNCHANGED vars
  BY <1>1, NothingChanges DEF vars, state_vars, inode_vars
<1>2. ASSUME NEW t \in Threads, Step(t)
      PROVE  Ex1Inv'
  BY <1>2, LockExistingStep, TruncateStep, PositionStep, CreateStep, CreateFailsStep, AddStep,
     LockHandleStep, LockForWriteStep, LockForReadStep, BlockStep, AdvanceStep, ReturnStep,
     CopyOpensStep, CopySizeStep DEF Step
<1>3. ASSUME NEW t \in Threads, Call(t)
      PROVE  Ex1Inv'
  BY <1>3, LookupStep, CopyStep, OpenStep, CloseStep, BeginStep, DestroyStep DEF Call
<1> QED
  BY <1>1, <1>2, <1>3 DEF Next

\* The invariant holds throughout.
LEMMA Ex1Invariant == Spec => []Ex1Inv
BY Ex1InvInit, Ex1InvNext, PTL DEF Spec

\* At every place of every call a thread holds the locks the code has taken by
\* then and no other, so that each return, also after a failure, has unlocked
\* what the call had locked.
THEOREM LocksAreReleased == Spec => []UnlocksWhatItLocked
BY Ex1Invariant, LocksFollow, PTL

\* Every file but the root is in one entry of the directory, and every entry and
\* open handle has its file, whichever creations run at once or are undone.
THEOREM Ex1DirectoryIsConsistent == Spec => []DirectoryConsistent
BY Ex1Invariant, DirectoryFollows, PTL

----------------------------------------------------------------------------
(* Who has the open handles.                                               *)

\* A call that uses a handle was given it by a caller that has it still, or is a
\* copy.
UsersHold == \A t \in Threads :
  frame[t].h = -1 \/ frame[t].op = "copy" \/ frame[t].h \in held

\* What the frame of a call may become while handles stay as they are.
Follows(f, g) == \/ g.h = f.h /\ g.op = f.op
                 \/ g.h = -1
                 \/ g.h \in held

\* Thread t goes on, and opens and closes nothing.
GoesOn(t) ==
  /\ UNCHANGED <<free_open_file_entries, held>>
  /\ \/ UNCHANGED frame
     \/ \E g : frame' = [frame EXCEPT ![t] = g] /\ Follows(frame[t], g)

\* Thread t opens a handle, for a caller or for a copy.
Opens(t) ==
  \E h, g :
    /\ \A j \in Handles : Open(j)' <=> Open(j) \/ j = h
    /\ frame' = [frame EXCEPT ![t] = g]
    /\ \/ g.h = -1 /\ (h = -1 => held' = held) /\ (h # -1 => held' = held \cup {h})
       \/ g.h = h /\ h # -1 /\ g.op = "copy" /\ held' = held

\* Thread t closes a handle that no call uses.
Closes(t) ==
  \E h : /\ \A j \in Handles : Open(j)' <=> Open(j) /\ j # h
         /\ \A u \in Threads : frame[u].h # h
         /\ held' = held \ {h}
         /\ frame' = [frame EXCEPT ![t] = Idle]

\* The handles stay as they are when a call returns,
LEMMA ReturnGoesOn ==
  ASSUME NEW t \in Threads, NEW op, NEW val, Returns(t, op, val),
         UNCHANGED <<free_open_file_entries, held>>
  PROVE  GoesOn(t)
<1>1. frame' = [frame EXCEPT ![t] = Idle] /\ Idle.h = -1
  BY DEF Returns, Idle
<1> QED
  BY <1>1 DEF GoesOn, Follows

\* when it goes on with the same handle,
LEMMA GotoGoesOn ==
  ASSUME NEW t \in Threads, NEW g, Goto(t, g), Follows(frame[t], g),
         UNCHANGED <<free_open_file_entries, held>>
  PROVE  GoesOn(t)
BY DEF GoesOn, Goto

\* and when it looks a name up.
LEMMA LooksUpGoesOn ==
  ASSUME NEW t \in Threads, NEW f, IsFrame(f), Follows(frame[t], f), LooksUp(t, f)
  PROVE  GoesOn(t)
<1>1. UNCHANGED <<free_open_file_entries, held>>
  BY DEF LooksUp, state_vars, open_vars
<1>2. ASSUME NEW inum, Goto(t, [f EXCEPT !.at = "existing", !.path = NoPath, !.inum = inum])
      PROVE  GoesOn(t)
  <2> DEFINE g == [f EXCEPT !.at = "existing", !.path = NoPath, !.inum = inum]
  <2>1. g.h = f.h /\ g.op = f.op
    BY DEF IsFrame, Fields
  <2>2. Follows(frame[t], g)
    BY <2>1 DEF Follows
  <2> HIDE DEF g
  <2>3. Goto(t, g)
    BY <1>2 DEF g
  <2> QED
    BY <1>1, <2>2, <2>3, GotoGoesOn
<1>3. CASE Goto(t, [f EXCEPT !.at = "create"])
  <2> DEFINE g == [f EXCEPT !.at = "create"]
  <2>1. g.h = f.h /\ g.op = f.op
    BY DEF IsFrame, Fields
  <2>2. Follows(frame[t], g)
    BY <2>1 DEF Follows
  <2> QED
    BY <1>1, <1>3, <2>2, GotoGoesOn
<1> QED
  BY <1>1, <1>2, <1>3, ReturnGoesOn DEF LooksUp

\* A call that begins opens nothing, and tfs_close closes a handle nobody uses.
LEMMA CallGoesOnOrCloses ==
  ASSUME Ex1Inv, NEW t \in Threads, Call(t)
  PROVE  GoesOn(t) \/ Closes(t)
<1>1. ASSUME NEW path, tfs_lookup(t, path)
      PROVE  GoesOn(t)
  BY <1>1, ReturnGoesOn DEF tfs_lookup, state_vars, open_vars
<1>2. ASSUME NEW path, tfs_copy_to_external_fs(t, path)
      PROVE  GoesOn(t)
  <2> DEFINE g == [Idle EXCEPT !.op = "copy", !.at = "lookup", !.path = path]
  <2>1. g.h = -1
    BY DEF Idle
  <2>2. Follows(frame[t], g)
    BY <2>1 DEF Follows
  <2>3. UNCHANGED <<free_open_file_entries, held>>
    BY <1>2 DEF tfs_copy_to_external_fs, state_vars, open_vars
  <2> HIDE DEF g
  <2>4. Goto(t, g) \/ Returns(t, "copy", -1)
    BY <1>2 DEF tfs_copy_to_external_fs, g
  <2> QED
    BY <2>2, <2>3, <2>4, ReturnGoesOn, GotoGoesOn
<1>3. ASSUME NEW path, NEW flags, tfs_open(t, path, flags)
      PROVE  GoesOn(t)
  <2> DEFINE f == [Idle EXCEPT !.op = "open", !.path = path, !.flags = flags]
  <2>1. IsFrame(f) /\ f.h = -1
    BY DEF IsFrame, Fields, Idle
  <2>2. LooksUp(t, f)
    BY <1>3 DEF tfs_open
  <2> HIDE DEF f
  <2>3. Follows(frame[t], f)
    BY <2>1 DEF Follows
  <2> QED
    BY <2>1, <2>2, <2>3, LooksUpGoesOn
<1>4. ASSUME NEW f, IsFrame(f), Begins(t, f)
      PROVE  GoesOn(t)
  <2> DEFINE g == [f EXCEPT !.at = "handle"]
  <2>1. UNCHANGED <<free_open_file_entries, held>>
    BY <1>4 DEF Begins, state_vars, open_vars
  <2>2. g.h = f.h
    BY <1>4 DEF IsFrame, Fields
  <2> HIDE DEF g
  <2>3. (f.h \in held /\ Goto(t, g)) \/ Returns(t, f.op, -1)
    BY <1>4 DEF Begins, g
  <2>4. f.h \in held => Follows(frame[t], g)
    BY <2>2 DEF Follows
  <2> QED
    BY <2>1, <2>3, <2>4, ReturnGoesOn, GotoGoesOn
<1>5. ASSUME NEW h, NEW buffer, tfs_write(t, h, buffer)
      PROVE  GoesOn(t)
  <2>1. IsFrame([Idle EXCEPT !.op = "write", !.h = h, !.buffer = buffer])
    BY DEF IsFrame, Fields, Idle
  <2> QED
    BY <2>1, <1>4, <1>5 DEF tfs_write
<1>6. ASSUME NEW h, NEW len, tfs_read(t, h, len)
      PROVE  GoesOn(t)
  <2>1. IsFrame([Idle EXCEPT !.op = "read", !.h = h, !.len = len])
    BY DEF IsFrame, Fields, Idle
  <2> QED
    BY <2>1, <1>4, <1>6 DEF tfs_read
<1>7. ASSUME NEW h, tfs_close(t, h)
      PROVE  GoesOn(t) \/ Closes(t)
  <2>1. CASE UNCHANGED <<free_open_file_entries, held>> /\ Returns(t, "close", -1)
    BY <2>1, ReturnGoesOn
  <2>2. CASE /\ h \in held /\ \A u \in Threads : frame[u].h # h
             /\ free_open_file_entries' = Release(free_open_file_entries, h)
             /\ held' = held \ {h}
             /\ Returns(t, "close", 0)
    <3>1. \A j \in Handles : Open(j)' <=> Open(j) /\ j # h
      BY <2>2 DEF Ex1Inv, HandlesInv, Release, Open, AllocState
    <3> QED
      BY <2>2, <3>1 DEF Closes, Returns
  <2> QED
    BY <1>7, <2>1, <2>2 DEF tfs_close
<1>8. ASSUME tfs_destroy(t)
      PROVE  GoesOn(t)
  BY <1>8, ReturnGoesOn DEF tfs_destroy, state_vars, open_vars
<1> QED
  BY <1>1, <1>2, <1>3, <1>5, <1>6, <1>7, <1>8 DEF Call

\* A step inside a call closes nothing, and only Add opens a handle.
LEMMA StepGoesOnOrOpens ==
  ASSUME Ex1Inv, NEW t \in Threads, Step(t)
  PROVE  GoesOn(t) \/ Opens(t)
<1>0. IsFrame(frame[t])
  BY DEF Ex1Inv, FrameOK
<1>1. ASSUME NEW g, g.h = frame[t].h, g.op = frame[t].op, Goto(t, g),
             UNCHANGED <<free_open_file_entries, held>>
      PROVE  GoesOn(t)
  BY <1>1, GotoGoesOn DEF Follows
<1>2. ASSUME LockExisting(t)
      PROVE  GoesOn(t)
  <2> DEFINE place == IF "TRUNC" \in frame[t].flags THEN "truncate" ELSE "position"
             g == [frame[t] EXCEPT !.at = place]
  <2> HIDE DEF place
  <2>1. g.h = frame[t].h /\ g.op = frame[t].op
    BY <1>0 DEF IsFrame, Fields
  <2> HIDE DEF g
  <2>2. Goto(t, g) /\ UNCHANGED <<free_open_file_entries, held>>
    BY <1>2 DEF LockExisting, state_vars, open_vars, g, place
  <2> QED
    BY <1>1, <2>1, <2>2
<1>3. ASSUME Truncate(t)
      PROVE  GoesOn(t)
  <2> DEFINE g == [frame[t] EXCEPT !.at = "position"]
  <2>1. g.h = frame[t].h /\ g.op = frame[t].op
    BY <1>0 DEF IsFrame, Fields
  <2> HIDE DEF g
  <2>2. UNCHANGED <<free_open_file_entries, held>> /\ (Goto(t, g) \/ Returns(t, frame[t].op, -1))
    BY <1>3 DEF Truncate, open_vars, g
  <2> QED
    BY <1>1, <2>1, <2>2, ReturnGoesOn
<1>4. ASSUME Position(t)
      PROVE  GoesOn(t)
  <2>1. PICK offset :
          Goto(t, [Idle EXCEPT !.op = frame[t].op, !.at = "add", !.inum = frame[t].inum, !.offset = offset])
    BY <1>4 DEF Position
  <2> DEFINE g == [Idle EXCEPT !.op = frame[t].op, !.at = "add", !.inum = frame[t].inum, !.offset = offset]
  <2>2. g.h = -1
    BY DEF Idle
  <2> HIDE DEF g
  <2>3. Goto(t, g) /\ UNCHANGED <<free_open_file_entries, held>>
    BY <1>4, <2>1 DEF Position, state_vars, open_vars, g
  <2> QED
    BY <2>2, <2>3, GotoGoesOn DEF Follows
<1>5. ASSUME Create(t)
      PROVE  GoesOn(t)
  <2> DEFINE g == [Idle EXCEPT !.op = "open", !.at = "add", !.inum = inode_create]
  <2>1. g.h = -1
    BY DEF Idle
  <2> HIDE DEF g
  <2>2. Goto(t, g) /\ UNCHANGED <<free_open_file_entries, held>>
    BY <1>5 DEF Create, open_vars, g
  <2> QED
    BY <2>1, <2>2, GotoGoesOn DEF Follows
<1>6. ASSUME CreateFails(t)
      PROVE  GoesOn(t)
  BY <1>6, ReturnGoesOn DEF CreateFails, open_vars
<1>7. ASSUME Add(t)
      PROVE  Opens(t)
  <2> DEFINE h == First(FreeIn(free_open_file_entries))
  <2>1. \A j \in Handles : Open(j)' <=> Open(j) \/ j = h
    BY <1>7, TakeFirstAt DEF Add, Ex1Inv, HandlesInv, Open
  <2> HIDE DEF h
  <2>2. CASE Returns(t, frame[t].op, -1) /\ h = -1 /\ held' = held
    <3>1. frame' = [frame EXCEPT ![t] = Idle] /\ Idle.h = -1
      BY <2>2 DEF Returns, Idle
    <3> QED
      BY <2>1, <2>2, <3>1 DEF Opens
  <2>3. CASE Returns(t, "open", h) /\ h # -1 /\ held' = held \cup {h}
    <3>1. frame' = [frame EXCEPT ![t] = Idle] /\ Idle.h = -1
      BY <2>3 DEF Returns, Idle
    <3> QED
      BY <2>1, <2>3, <3>1 DEF Opens
  <2>4. CASE /\ h # -1 /\ held' = held
             /\ Goto(t, [Idle EXCEPT !.op = "copy", !.at = "size", !.h = h])
    <3> DEFINE g == [Idle EXCEPT !.op = "copy", !.at = "size", !.h = h]
    <3>1. g.h = h /\ g.op = "copy"
      BY DEF Idle
    <3>2. frame' = [frame EXCEPT ![t] = g]
      BY <2>4 DEF Goto
    <3> HIDE DEF g
    <3> QED
      BY <2>1, <2>4, <3>1, <3>2 DEF Opens
  <2> QED
    BY <1>7, <2>2, <2>3, <2>4 DEF Add, h
<1>8. ASSUME LockHandle(t)
      PROVE  GoesOn(t)
  <2> DEFINE g == [frame[t] EXCEPT !.at = "inode"]
  <2>1. g.h = frame[t].h /\ g.op = frame[t].op
    BY <1>0 DEF IsFrame, Fields
  <2> HIDE DEF g
  <2>2. Goto(t, g) /\ UNCHANGED <<free_open_file_entries, held>>
    BY <1>8 DEF LockHandle, state_vars, open_vars, g
  <2> QED
    BY <1>1, <2>1, <2>2
<1>9. ASSUME NEW mode, NEW todo, Locks(t, mode, todo)
      PROVE  GoesOn(t)
  <2>1. PICK offset, old :
          Goto(t, [frame[t] EXCEPT !.at = "loop", !.todo = todo, !.offset = offset, !.old = old])
    BY <1>9 DEF Locks
  <2> DEFINE g == [frame[t] EXCEPT !.at = "loop", !.todo = todo, !.offset = offset, !.old = old]
  <2>2. g.h = frame[t].h /\ g.op = frame[t].op
    BY <1>0 DEF IsFrame, Fields
  <2> HIDE DEF g
  <2>3. Goto(t, g) /\ UNCHANGED <<free_open_file_entries, held>>
    BY <1>9, <2>1 DEF Locks, state_vars, open_vars, g
  <2> QED
    BY <1>1, <2>2, <2>3
<1>10. ASSUME LockForWrite(t) \/ LockForRead(t)
       PROVE  GoesOn(t)
  <2>1. \/ \E mode, todo : Locks(t, mode, todo)
        \/ Returns(t, frame[t].op, -1) /\ UNCHANGED <<state_vars, held>>
    BY <1>10 DEF LockForWrite, LockForRead
  <2> QED
    BY <1>9, <2>1, ReturnGoesOn DEF state_vars, open_vars
<1>11. ASSUME WriteBlock(t)
       PROVE  GoesOn(t)
  <2> DEFINE g == [frame[t] EXCEPT !.at = "advance"]
  <2>1. g.h = frame[t].h /\ g.op = frame[t].op
    BY <1>0 DEF IsFrame, Fields
  <2> HIDE DEF g
  <2>2. /\ UNCHANGED <<free_open_file_entries, held>>
        /\ UNCHANGED frame \/ Goto(t, g) \/ Returns(t, frame[t].op, -1)
    BY <1>11 DEF WriteBlock, BlockFails, state_vars, open_vars, g
  <2> QED
    BY <1>1, <2>1, <2>2, ReturnGoesOn DEF GoesOn
<1>12. ASSUME ReadBlock(t)
       PROVE  GoesOn(t)
  <2>1. CASE BlockFails(t)
    BY <1>12, <2>1, ReturnGoesOn DEF ReadBlock, BlockFails, state_vars, open_vars
  <2>2. ASSUME NEW bytes, Goto(t, [frame[t] EXCEPT !.at = "advance", !.buffer = bytes])
        PROVE  GoesOn(t)
    <3> DEFINE g == [frame[t] EXCEPT !.at = "advance", !.buffer = bytes]
    <3>1. g.h = frame[t].h /\ g.op = frame[t].op
      BY <1>0 DEF IsFrame, Fields
    <3> HIDE DEF g
    <3>2. Goto(t, g) /\ UNCHANGED <<free_open_file_entries, held>>
      BY <1>12, <2>2 DEF ReadBlock, state_vars, open_vars, g
    <3> QED
      BY <1>1, <3>1, <3>2
  <2> QED
    BY <1>12, <2>1, <2>2 DEF ReadBlock
<1>13. ASSUME Advance(t)
       PROVE  GoesOn(t)
  <2>1. PICK done : Goto(t, [frame[t] EXCEPT !.at = "loop", !.done = done])
    BY <1>13 DEF Advance
  <2> DEFINE g == [frame[t] EXCEPT !.at = "loop", !.done = done]
  <2>2. g.h = frame[t].h /\ g.op = frame[t].op
    BY <1>0 DEF IsFrame, Fields
  <2> HIDE DEF g
  <2>3. Goto(t, g) /\ UNCHANGED <<free_open_file_entries, held>>
    BY <1>13, <2>1 DEF Advance, g
  <2> QED
    BY <1>1, <2>2, <2>3
<1>14. ASSUME Return(t)
       PROVE  GoesOn(t)
  BY <1>14, ReturnGoesOn DEF Return, state_vars, open_vars
<1>15. ASSUME CopyOpens(t)
       PROVE  GoesOn(t)
  <2>1. Follows(frame[t], frame[t])
    BY DEF Follows
  <2> QED
    BY <1>0, <1>15, <2>1, LooksUpGoesOn DEF CopyOpens
<1>16. ASSUME CopySize(t)
       PROVE  GoesOn(t)
  <2> DEFINE g == [frame[t] EXCEPT !.at = "handle", !.len = Size(t)]
  <2>1. g.h = frame[t].h /\ g.op = frame[t].op
    BY <1>0 DEF IsFrame, Fields
  <2> HIDE DEF g
  <2>2. Goto(t, g) /\ UNCHANGED <<free_open_file_entries, held>>
    BY <1>16 DEF CopySize, state_vars, open_vars, g
  <2> QED
    BY <1>1, <2>1, <2>2
<1> QED
  BY <1>2, <1>3, <1>4, <1>5, <1>6, <1>7, <1>8, <1>10, <1>11, <1>12, <1>13, <1>14, <1>15, <1>16
  DEF Step

\* A step keeps UsersHold, and an open handle that it leaves to nobody was in
\* the hands of a copy.
LEMMA HandlesStep ==
  ASSUME Ex1Inv, UsersHold, NEW t \in Threads, GoesOn(t) \/ Opens(t) \/ Closes(t)
  PROVE  /\ UsersHold'
         /\ \A h \in Orphans' \ Orphans : \E u \in Threads : frame[u].op = "copy" /\ frame[u].h = h
<1>0. /\ -1 \notin Handles
      /\ DOMAIN frame = Threads
  BY ConfigAssumption DEF Handles, Ex1Inv
<1>1. CASE GoesOn(t)
  <2>1. held' = held /\ \A h : Open(h)' <=> Open(h)
    BY <1>1 DEF GoesOn, Open
  <2>2. CASE UNCHANGED frame
    BY <2>1, <2>2 DEF UsersHold, Orphans
  <2>3. ASSUME NEW g, frame' = [frame EXCEPT ![t] = g], Follows(frame[t], g)
        PROVE  /\ UsersHold'
               /\ \A h \in Orphans' \ Orphans :
                    \E u \in Threads : frame[u].op = "copy" /\ frame[u].h = h
    <3>1. \A u \in Threads : frame'[u] = IF u = t THEN g ELSE frame[u]
      BY <1>0, <2>3
    <3>2. UsersHold'
      BY <2>1, <2>3, <3>1 DEF UsersHold, Follows
    <3>3. ASSUME NEW h \in Orphans' \ Orphans
          PROVE  frame[t].op = "copy" /\ frame[t].h = h
      <4>1. h \in Handles /\ h \notin held /\ \E u \in Threads : frame[u].h = h
        BY <2>1 DEF Orphans
      <4>2. frame[t].h = h
        BY <4>1, <3>1 DEF Orphans
      <4> QED
        BY <1>0, <4>1, <4>2 DEF UsersHold
    <3> QED
      BY <3>2, <3>3
  <2> QED
    BY <1>1, <2>2, <2>3 DEF GoesOn
<1>2. CASE Opens(t)
  <2>1. PICK h, g :
          /\ \A j \in Handles : Open(j)' <=> Open(j) \/ j = h
          /\ frame' = [frame EXCEPT ![t] = g]
          /\ \/ g.h = -1 /\ (h = -1 => held' = held) /\ (h # -1 => held' = held \cup {h})
             \/ g.h = h /\ h # -1 /\ g.op = "copy" /\ held' = held
    BY <1>2 DEF Opens
  <2>2. \A u \in Threads : frame'[u] = IF u = t THEN g ELSE frame[u]
    BY <1>0, <2>1
  <2>3. held \subseteq held'
    BY <2>1
  <2>4. UsersHold'
    BY <2>1, <2>2, <2>3 DEF UsersHold
  <2>5. ASSUME NEW j \in Orphans' \ Orphans
        PROVE  frame[t].op = "copy" /\ frame[t].h = j
    <3>1. j \in Handles /\ j \notin held /\ Open(j)' /\ j \notin held'
      BY <2>3 DEF Orphans
    <3>2. j # h
      BY <1>0, <2>1, <2>2, <3>1 DEF Orphans
    <3>3. \E u \in Threads : frame[u].h = j
      BY <2>1, <3>1, <3>2 DEF Orphans
    <3>4. frame[t].h = j
      BY <2>2, <3>3 DEF Orphans
    <3> QED
      BY <1>0, <3>1, <3>4 DEF UsersHold
  <2> QED
    BY <2>4, <2>5
<1>3. CASE Closes(t)
  <2>1. PICK h : /\ \A j \in Handles : Open(j)' <=> Open(j) /\ j # h
                 /\ \A u \in Threads : frame[u].h # h
                 /\ held' = held \ {h}
                 /\ frame' = [frame EXCEPT ![t] = Idle]
    BY <1>3 DEF Closes
  <2>2. \A u \in Threads : frame'[u] = IF u = t THEN Idle ELSE frame[u]
    BY <1>0, <2>1
  <2>3. UsersHold'
    BY <2>1, <2>2 DEF UsersHold, Idle
  <2>4. ASSUME NEW j \in Orphans' \ Orphans
        PROVE  frame[t].op = "copy" /\ frame[t].h = j
    <3>1. j \in Handles /\ Open(j) /\ j # h /\ j \notin held
      BY <2>1 DEF Orphans
    <3>2. frame[t].h = j
      BY <2>2, <3>1 DEF Orphans
    <3> QED
      BY <1>0, <3>1, <3>2 DEF UsersHold
  <2> QED
    BY <2>3, <2>4
<1> QED
  BY <1>1, <1>2, <1>3

\* Only tfs_copy_to_external_fs leaves a handle open that nobody can close: in
\* every other step the open handles stay with a caller or with the call that
\* uses them.
THEOREM OnlyCopiesLeak == Spec => OnlyCopiesLeaveHandles
<1> DEFINE Left == \A h \in Orphans' \ Orphans :
                     \E t \in Threads : frame[t].op = "copy" /\ frame[t].h = h
<1>1. Init => UsersHold
  BY DEF Init, UsersHold, Idle
<1>2. Ex1Inv /\ UsersHold /\ [Next]_vars => UsersHold' /\ (Left \/ UNCHANGED vars)
  <2> SUFFICES ASSUME Ex1Inv, UsersHold, [Next]_vars PROVE UsersHold' /\ (Left \/ UNCHANGED vars)
    OBVIOUS
  <2>1. CASE UNCHANGED vars
    BY <2>1 DEF UsersHold, vars
  <2>2. ASSUME NEW t \in Threads, Step(t) \/ Call(t)
        PROVE  UsersHold' /\ Left
    BY <2>2, StepGoesOnOrOpens, CallGoesOnOrCloses, HandlesStep
  <2> QED
    BY <2>1, <2>2 DEF Next
<1> QED
  BY <1>1, <1>2, Ex1Invariant, PTL DEF Spec, OnlyCopiesLeaveHandles

=============================================================================
