--------------------------- MODULE FsCallersProof ---------------------------
(***************************************************************************)
(* Theorems about FsOps for its callers: what they get from files, handles *)
(* and the shutdown.  Each theorem names the rules it needs.               *)
(***************************************************************************)
EXTENDS FsOpsProof, FsOpsRefines

----------------------------------------------------------------------------
(* Callers that read and write through the handles they hold.              *)

\* Such a handle is of a file: the bytes never go over the directory.
LEMMA HeldWrite ==
  ASSUME TablesInv, "bad_handle" \notin Misuse, NEW h \in Usable, NEW d, NEW len, Write(h, d, len)
  PROVE  UNCHANGED dir_entry /\ (wild' => wild \/ UNCHANGED state_vars)
<1>1. h \in Handles /\ Open(h)
  BY DEF Usable, Held
<1>2. open_file_table[h].of_inumber # ROOT_DIR_INUM
  BY <1>1 DEF TablesInv, HandlesValid
<1> QED
  BY <1>2 DEF Write, state_vars

\* For them the tables stay consistent also when a length wraps.
LEMMA TablesOfHolders ==
  ASSUME "bad_handle" \notin Misuse
  PROVE  Spec => []TablesInv
<1>1. TablesInv /\ [Next]_vars => TablesInv'
  <2> SUFFICES ASSUME TablesInv, [Next]_vars, wild' PROVE TablesInv'
    BY TablesStep
  <2>1. CASE UNCHANGED vars
    BY <2>1, TablesUnchanged DEF vars
  <2>2. CASE Next
    <3>1. ~wild
      BY <2>2, NextIsTame
    <3>2. PICK h \in Usable, d \in Data, len \in Lens : Write(h, d, len)
      BY <2>2, <3>1, ZenonT(40)
         DEF Next, tfs_lookup, tfs_open, CountOpen, tfs_close, CountClose, tfs_write, tfs_read, Read,
             BadHandle, tfs_destroy_after_all_closed, WakeUp, TestOpenFiles, SpuriousWakeUp,
             tfs_destroy, LockFails
    <3> QED
      BY <3>1, <3>2, HeldWrite, TablesUnchanged
  <2> QED
    BY <2>1, <2>2
<1> QED
  BY <1>1, InitTables, PTL DEF Spec

----------------------------------------------------------------------------
(* Names.                                                                  *)

\* Path names that start with '/' and that d_name can hold.
NamesFit == \A path \in Paths : path.sub # "" => path.abs /\ Cut[path.sub] = path.sub

\* A name that tfs_open creates is in no entry of the directory.
LEMMA CreatedIsMissing ==
  ASSUME TablesInv, NamesFit, NEW t, NEW path \in Paths, NEW flags, OpenCreate(t, path, flags)
  PROVE  \A s \in DirSlots \ EmptySlots : dir_entry[s].d_name # path.sub
<1> DEFINE S == Matches(path.sub)
<1>1. IsDirectory(ROOT_DIR_INUM) /\ path.sub # "" /\ lookup(path) = -1
  BY DEF OpenCreate, CanAddEntry
<1>2. valid_pathname(path)
  BY <1>1 DEF NamesFit, valid_pathname
<1>3. S # {} => dir_entry[First(S)].d_inumber = -1
  BY <1>1, <1>2 DEF lookup, find_in_dir
<1>4. S # {} => First(S) \in S
  BY FirstFound, ConfigAssumption DEF Matches, DirSlots
<1>5. S = {}
  BY <1>3, <1>4 DEF Matches
<1> QED
  BY <1>5 DEF Matches, EmptySlots

\* A creation stores its name in one entry that was empty.
LEMMA CreateNames ==
  ASSUME TablesInv, NamesFit, NamesUnique, NEW t, NEW path \in Paths, NEW flags,
         OpenCreate(t, path, flags)
  PROVE  NamesUnique'
<1> DEFINE slot == First(EmptySlots)
<1>1. EmptySlots # {} /\ path.sub # "" /\ dir_entry' = add_dir_entry(inode_create, path.sub)
  BY DEF OpenCreate, CanAddEntry
<1>2. slot \in EmptySlots
  <2>1. EmptySlots \in SUBSET Nat
    BY ConfigAssumption DEF EmptySlots, DirSlots
  <2> QED
    BY <1>1, <2>1, FirstFound
<1>3. \A s \in DirSlots : dir_entry'[s] =
        IF s = slot THEN [d_name |-> path.sub, d_inumber |-> inode_create] ELSE dir_entry[s]
  BY <1>1, <1>2 DEF add_dir_entry, NamesFit, TablesInv, StateTypeOK
<1>4. \A s \in DirSlots : /\ s = slot => dir_entry'[s].d_name = path.sub
                          /\ s # slot => dir_entry'[s] = dir_entry[s]
  BY <1>3
<1>5. \A s \in DirSlots \ EmptySlots : dir_entry[s].d_name # path.sub
  BY CreatedIsMissing
<1> HIDE DEF slot
<1>6. \A s \in DirSlots : s \notin EmptySlots' /\ s # slot => s \notin EmptySlots
  BY <1>4 DEF EmptySlots
<1> QED
  BY <1>4, <1>5, <1>6 DEF NamesUnique, EmptySlots

\* Only a creation changes the directory.
LEMMA DirectoryChanges ==
  ASSUME TablesInv, "bad_handle" \notin Misuse, Next
  PROVE  \/ UNCHANGED dir_entry
         \/ \E t \in Threads, path \in Paths, flags \in OpenFlags : OpenCreate(t, path, flags)
<1>1. PICK t \in Threads :
        \/ \E path \in Paths, flags \in OpenFlags : tfs_open(t, path, flags)
        \/ \E h \in Handles \cup {-1}, d \in Data, len \in Lens : tfs_write(t, h, d, len)
        \/ UNCHANGED dir_entry
  BY ZenonT(40) DEF Next, tfs_lookup, tfs_close, tfs_read, Read, BadHandle, CountOpen, CountClose,
         tfs_destroy_after_all_closed, WakeUp, TestOpenFiles, SpuriousWakeUp, tfs_destroy,
         LockFails, state_vars
<1>2. CASE \E path \in Paths, flags \in OpenFlags : tfs_open(t, path, flags)
  BY <1>2 DEF tfs_open, OpenExisting, OpenCreateFails, OpenMissing
<1>3. CASE \E h \in Handles \cup {-1}, d \in Data, len \in Lens : tfs_write(t, h, d, len)
  BY <1>3, HeldWrite DEF tfs_write, BadHandle, state_vars
<1> QED
  BY <1>1, <1>2, <1>3

\* A file that was created is found again by its name and never created a second
\* time, by any number of threads that read and write through the handles they
\* hold, as long as names start with '/' and are short enough to be stored whole.
THEOREM NamesStayUnique ==
  ASSUME NamesFit, "bad_handle" \notin Misuse
  PROVE  Spec => []NamesUnique
<1>1. Init => NamesUnique
  <2> SUFFICES ASSUME RootCreated PROVE NamesUnique
    BY DEF Init
  <2>1. dir_entry = [s \in DirSlots |-> [d_name |-> "", d_inumber |-> -1]]
    BY DEF RootCreated
  <2>2. EmptySlots = DirSlots
    BY <2>1 DEF EmptySlots
  <2> QED
    BY <2>2 DEF NamesUnique
<1>2. TablesInv /\ NamesUnique /\ [Next]_vars => NamesUnique'
  <2>1. UNCHANGED dir_entry /\ NamesUnique => NamesUnique'
    BY DEF NamesUnique, EmptySlots
  <2> QED
    BY <2>1, DirectoryChanges, CreateNames DEF vars, state_vars
<1> QED
  BY <1>1, <1>2, TablesOfHolders, PTL DEF Spec

----------------------------------------------------------------------------
(* Offsets.                                                                *)

\* The open handles but those of cut are inside their files when the sizes are
\* those of next.
Within(next, cut) == \A h \in Handles : Open(h) =>
  \/ open_file_table[h].of_offset <= next[open_file_table[h].of_inumber].i_size
  \/ h \in cut

\* A new handle inside its file leaves the others where they are.
LEMMA NewHandleOffset ==
  ASSUME TablesInv, NEW t, NEW inum, NEW offset, NEW cut,
         add_to_open_file_table(t, inum, offset, cut),
         Within(inode_table', undercut \cup cut), offset <= inode_table'[inum].i_size
  PROVE  OffsetWithinFile'
<1> DEFINE h == First(FreeIn(free_open_file_entries))
<1>1. free_open_file_entries \in [Handles -> AllocState]
  BY DEF TablesInv, StateTypeOK
<1>2. \A g \in Handles : free_open_file_entries'[g] =
        IF g = h THEN "TAKEN" ELSE free_open_file_entries[g]
  BY <1>1, TakeFirstAt DEF add_to_open_file_table
<1>3. \A g \in Handles : open_file_table'[g] =
        IF g = h THEN [of_inumber |-> inum, of_offset |-> offset] ELSE open_file_table[g]
  BY DEF add_to_open_file_table
<1>0. undercut' = (undercut \cup cut) \ {h}
  BY DEF add_to_open_file_table
<1> HIDE DEF h
<1>4. ASSUME NEW g \in Handles, Open(g)'
      PROVE  \/ open_file_table'[g].of_offset <= inode_table'[open_file_table'[g].of_inumber].i_size
             \/ g \in undercut'
  <2>1. CASE g = h
    <3>1. open_file_table'[g].of_offset = offset /\ open_file_table'[g].of_inumber = inum
      BY <1>3, <2>1
    <3> QED
      BY <3>1
  <2>2. CASE g # h
    <3>1. Open(g) /\ open_file_table'[g] = open_file_table[g]
      BY <1>2, <1>3, <1>4, <2>2 DEF Open
    <3> QED
      BY <1>0, <2>2, <3>1 DEF Within
  <2> QED
    BY <2>1, <2>2
<1> QED
  BY <1>4 DEF OffsetWithinFile

\* Opening an existing file undercuts the handles that it leaves past the end.
LEMMA OpenExistingOffsets ==
  ASSUME TablesInv, OffsetWithinFile, undercut \in SUBSET Handles,
         NEW t, NEW path, NEW flags, OpenExisting(t, path, flags)
  PROVE  OffsetWithinFile'
<1> DEFINE inum  == lookup(path)
           inode == inode_table[inum]
           trunc == "TRUNC" \in flags /\ inode.i_size > 0
           size  == IF trunc THEN 0 ELSE inode.i_size
           cut   == IF trunc THEN PastStart(inum) ELSE {}
<1>1. inum \in Inumbers
  BY LookupFinds DEF OpenExisting
<1>2. inode_table \in [Inumbers -> Inode] /\ inode \in Inode
  BY <1>1 DEF TablesInv, StateTypeOK
<1>3. CASE OpenFails /\ UNCHANGED inode_table
  BY <1>3 DEF OpenFails, open_vars, OffsetWithinFile, Open
<1>4. CASE /\ inode_table' = [inode_table EXCEPT ![inum].i_size = size]
           /\ add_to_open_file_table(t, inum, IF "APPEND" \in flags THEN size ELSE 0, cut)
  <2>1. \A i \in Inumbers : inode_table'[i].i_size = IF i = inum THEN size ELSE inode_table[i].i_size
    BY <1>1, <1>2, <1>4 DEF Inode
  <2>2. size \in Nat
    BY <1>2 DEF Inode
  <2>3. \A h \in Handles : /\ open_file_table[h].of_inumber \in Inumbers
                           /\ open_file_table[h].of_offset \in Nat
    BY DEF TablesInv, StateTypeOK, OpenEntry
  <2>4. Within(inode_table', undercut \cup cut)
    <3> SUFFICES ASSUME NEW h \in Handles, Open(h), h \notin undercut, h \notin cut
                 PROVE  open_file_table[h].of_offset
                          <= inode_table'[open_file_table[h].of_inumber].i_size
      BY DEF Within
    <3>1. open_file_table[h].of_offset <= inode_table[open_file_table[h].of_inumber].i_size
      BY DEF OffsetWithinFile
    <3>2. CASE open_file_table[h].of_inumber = inum /\ trunc
      <4>1. open_file_table[h].of_offset = 0
        BY <2>3, <3>2 DEF PastStart
      <4> QED
        BY <1>1, <2>1, <2>2, <3>2, <4>1
    <3>3. CASE ~(open_file_table[h].of_inumber = inum /\ trunc)
      BY <2>1, <2>3, <3>1, <3>3
    <3> QED
      BY <3>2, <3>3
  <2>5. (IF "APPEND" \in flags THEN size ELSE 0) <= inode_table'[inum].i_size
    BY <1>1, <2>1, <2>2
  <2> QED
    BY <1>4, <2>4, <2>5, NewHandleOffset
<1> QED
  BY <1>3, <1>4 DEF OpenExisting

\* What inode_create overwrites is the i-node of no open file.
LEMMA CreatedIsClosed ==
  ASSUME TablesInv
  PROVE  \A h \in Handles : Open(h) => /\ open_file_table[h].of_inumber \in Inumbers
                                       /\ open_file_table[h].of_inumber # inode_create
<1>1. freeinode_ts \in [Inumbers -> AllocState] /\ open_file_table \in [Handles -> OpenEntry]
  BY DEF TablesInv, StateTypeOK
<1>2. \A i \in Inumbers : i = inode_create => freeinode_ts[i] = "FREE"
  <2>1. -1 \notin Inumbers
    BY DEF Inumbers
  <2> QED
    BY <1>1, <2>1, TakeFirstAt DEF inode_create
<1> QED
  BY <1>1, <1>2 DEF TablesInv, HandlesValid, OpenEntry

\* A creation leaves the open handles alone, and its own starts a new file.
LEMMA OpenCreateOffsets ==
  ASSUME TablesInv, OffsetWithinFile, NEW t, NEW path, NEW flags,
         OpenCreate(t, path, flags) \/ OpenCreateFails(path, flags)
  PROVE  OffsetWithinFile'
<1> DEFINE inum == inode_create
<1>1. inode_table \in [Inumbers -> Inode] /\ freeinode_ts \in [Inumbers -> AllocState]
  BY DEF TablesInv, StateTypeOK
<1>2. inum # -1 => inum \in Inumbers
  BY <1>1, TakeFirstAt DEF inode_create
<1>3. CASE OpenCreate(t, path, flags)
  <2>1. /\ inum \in Inumbers /\ inode_table' = [inode_table EXCEPT ![inum] = NewFile]
        /\ add_to_open_file_table(t, inum, 0, {})
    BY <1>2, <1>3 DEF OpenCreate
  <2>2. Within(inode_table', undercut \cup {})
    BY <1>1, <2>1, CreatedIsClosed DEF OffsetWithinFile, Within
  <2>3. 0 <= inode_table'[inum].i_size
    BY <1>1, <2>1 DEF NewFile
  <2> HIDE DEF inum
  <2> QED
    BY <2>1, <2>2, <2>3, NewHandleOffset
<1>4. CASE OpenCreateFails(path, flags)
  <2>1. /\ inode_table' = [i \in Inumbers |-> IF i = inum THEN NewFile ELSE inode_table[i]]
        /\ UNCHANGED <<open_file_table, undercut>> /\ \A h \in Handles : Open(h)' <=> Open(h)
    BY <1>4 DEF OpenCreateFails, OpenFails, open_vars, Open
  <2>2. \A i \in Inumbers : i # inum => inode_table'[i] = inode_table[i]
    BY <2>1
  <2>3. ASSUME NEW h \in Handles, Open(h)
        PROVE  inode_table'[open_file_table[h].of_inumber] = inode_table[open_file_table[h].of_inumber]
    BY <2>2, <2>3, CreatedIsClosed
  <2> QED
    BY <2>1, <2>3 DEF OffsetWithinFile
<1> QED
  BY <1>3, <1>4

\* A write takes the size of the file along.
LEMMA WriteOffsets ==
  ASSUME TablesInv, OffsetWithinFile, NEW h \in Usable, NEW d, NEW len \in Lens, Write(h, d, len),
         UNCHANGED undercut
  PROVE  OffsetWithinFile'
<1> DEFINE inum   == open_file_table[h].of_inumber
           offset == open_file_table[h].of_offset
           n      == to_write(offset, len)
<1>1. h \in Handles
  BY UsableIs
<1>2. inode_table \in [Inumbers -> Inode] /\ open_file_table \in [Handles -> OpenEntry]
  BY DEF TablesInv, StateTypeOK
<1>3. inum \in Inumbers /\ offset \in Nat
  BY <1>1, <1>2 DEF OpenEntry
<1>4. CASE UNCHANGED open_vars /\ \E b : inode_table' = [inode_table EXCEPT ![inum].i_data_block = b]
  <2>1. \A i \in Inumbers : inode_table'[i].i_size = inode_table[i].i_size
    BY <1>2, <1>4 DEF Inode
  <2> QED
    BY <1>2, <1>4, <2>1 DEF OffsetWithinFile, open_vars, Open, OpenEntry
<1>5. CASE UNCHANGED <<inode_table, open_vars>>
  BY <1>5 DEF OffsetWithinFile, open_vars, Open
<1>6. CASE \E b : /\ n > 0
                  /\ inode_table' = [inode_table EXCEPT ![inum].i_data_block = b,
                                                        ![inum].i_size = Larger(@, offset + n)]
                  /\ open_file_table' = [open_file_table EXCEPT ![h].of_offset = offset + n]
                  /\ UNCHANGED free_open_file_entries
  <2> DEFINE size(i) == inode_table[i].i_size
  <2>1. n \in Nat
    <3>1. len \in Nat
      BY OpsAssumption
    <3>2. n \in Int
      BY <1>3, <3>1, Sizes DEF to_write, size_sub
    <3> QED
      BY <1>6, <3>2
  <2>2. \A i \in Inumbers : size(i) \in Nat
    BY <1>2 DEF Inode
  <2>3. \A i \in Inumbers :
          inode_table'[i].i_size = IF i = inum THEN Larger(size(i), offset + n) ELSE size(i)
    BY <1>2, <1>3, <1>6 DEF Inode
  <2>4. /\ \A g \in Handles : open_file_table'[g].of_inumber = open_file_table[g].of_inumber
        /\ \A g \in Handles : open_file_table'[g].of_offset =
             IF g = h THEN offset + n ELSE open_file_table[g].of_offset
    BY <1>1, <1>2, <1>6 DEF OpenEntry
  <2>5. \A g \in Handles : Open(g)' <=> Open(g)
    BY <1>6 DEF Open
  <2>6. \A g \in Handles : /\ open_file_table[g].of_inumber \in Inumbers
                           /\ open_file_table[g].of_offset \in Nat
    BY <1>2 DEF OpenEntry
  <2> HIDE DEF n, size
  <2>7. \A i \in Inumbers : size(i) <= inode_table'[i].i_size
    BY <1>3, <2>1, <2>2, <2>3 DEF Larger
  <2>8. offset + n <= inode_table'[inum].i_size
    BY <1>3, <2>1, <2>2, <2>3 DEF Larger
  <2>9. \A i \in Inumbers : inode_table'[i].i_size \in Nat
    BY <1>3, <2>1, <2>2, <2>3 DEF Larger
  <2>10. ASSUME NEW g \in Handles, Open(g)', g \notin undercut'
         PROVE  open_file_table'[g].of_offset <= inode_table'[open_file_table'[g].of_inumber].i_size
    <3>1. CASE g = h
      BY <2>4, <2>8, <3>1
    <3>2. CASE g # h
      <4>1. open_file_table[g].of_offset <= size(open_file_table[g].of_inumber)
        BY <2>5, <2>10 DEF OffsetWithinFile, size
      <4> QED
        BY <4>1, <2>2, <2>4, <2>6, <2>7, <2>9, <3>2
    <3> QED
      BY <3>1, <3>2
  <2> QED
    BY <2>10 DEF OffsetWithinFile
<1>7. CASE /\ inum = ROOT_DIR_INUM /\ UNCHANGED <<inode_table, free_open_file_entries>>
           /\ open_file_table' = [open_file_table EXCEPT ![h].of_offset = offset + n]
  <2>1. ~Open(h)
    BY <1>1, <1>7 DEF TablesInv, HandlesValid
  <2>2. \A g \in Handles : g # h => open_file_table'[g] = open_file_table[g]
    BY <1>7
  <2> QED
    BY <1>7, <2>1, <2>2 DEF OffsetWithinFile, Open
<1> QED
  BY <1>4, <1>5, <1>6, <1>7 DEF Write, state_vars, inode_vars, open_vars

\* A read through an open handle stops at the end of the file.
LEMMA ReadOffsets ==
  ASSUME TablesInv, OffsetWithinFile, NEW h \in Usable, NEW len \in Lens, Read(h, len),
         UNCHANGED undercut
  PROVE  OffsetWithinFile'
<1> DEFINE inum   == open_file_table[h].of_inumber
           offset == open_file_table[h].of_offset
           size   == inode_table[inum].i_size
           n      == Smaller(size_sub(size, offset), len)
<1>1. h \in Handles
  BY UsableIs
<1>2. inode_table \in [Inumbers -> Inode] /\ open_file_table \in [Handles -> OpenEntry]
  BY DEF TablesInv, StateTypeOK
<1>3. inum \in Inumbers /\ offset \in Nat /\ size \in Nat /\ len \in Nat
  BY <1>1, <1>2, OpsAssumption DEF OpenEntry, Inode
<1>4. UNCHANGED <<inode_table, free_open_file_entries>>
  BY DEF Read, inode_vars
<1>5. CASE UNCHANGED open_file_table
  BY <1>4, <1>5 DEF OffsetWithinFile, Open
<1>6. CASE open_file_table' = [open_file_table EXCEPT ![h].of_offset = offset + n]
  <2>1. Open(h) => offset + n <= size \/ h \in undercut
    <3>1. Open(h) => offset <= size \/ h \in undercut
      BY <1>1 DEF OffsetWithinFile
    <3> QED
      BY <1>3, <3>1 DEF Smaller, size_sub
  <2>2. /\ \A g \in Handles : open_file_table'[g].of_inumber = open_file_table[g].of_inumber
        /\ \A g \in Handles : open_file_table'[g].of_offset =
             IF g = h THEN offset + n ELSE open_file_table[g].of_offset
    BY <1>1, <1>2, <1>6 DEF OpenEntry
  <2> HIDE DEF n
  <2> QED
    BY <1>4, <2>1, <2>2 DEF OffsetWithinFile, Open
<1> QED
  BY <1>5, <1>6 DEF Read

\* An open handle stays inside its file through everything that any callers
\* write, read, open and close, until its file is truncated behind its offset: so
\* the subtractions from i_size and BLOCK_SIZE wrap for no other handle.
THEOREM OffsetsStayInside == Spec => []OffsetWithinFile
<1>1. Init => OffsetWithinFile
  <2> SUFFICES ASSUME RootCreated PROVE OffsetWithinFile
    BY DEF Init
  <2>1. \A h \in Handles : free_open_file_entries[h] = "FREE"
    BY DEF RootCreated
  <2> QED
    BY <2>1 DEF OffsetWithinFile, Open
<1>2. TablesInv /\ undercut \in SUBSET Handles /\ OffsetWithinFile /\ Next => OffsetWithinFile'
  <2> SUFFICES ASSUME TablesInv, undercut \in SUBSET Handles, OffsetWithinFile, Next
               PROVE  OffsetWithinFile'
    OBVIOUS
  <2>1. CASE UNCHANGED <<inode_table, open_vars, undercut>>
    BY <2>1 DEF OffsetWithinFile, open_vars, Open
  <2>3. ASSUME NEW t \in Threads, NEW path \in Paths, NEW flags, tfs_open(t, path, flags)
        PROVE  OffsetWithinFile'
    <3>1. CASE OpenMissing(path, flags)
      BY <2>1, <3>1 DEF OpenMissing, OpenFails, inode_vars
    <3> QED
      BY <2>3, <3>1, OpenExistingOffsets, OpenCreateOffsets DEF tfs_open
  <2>4. ASSUME NEW t \in Threads, NEW h, tfs_close(t, h)
        PROVE  OffsetWithinFile'
    <3>1. UNCHANGED <<inode_table, open_file_table, undercut>>
      BY <2>4 DEF tfs_close, inode_vars
    <3>2. \A g \in Handles : Open(g)' => Open(g)
      BY <2>4 DEF tfs_close, Release, Open, TablesInv, StateTypeOK
    <3> QED
      BY <3>1, <3>2 DEF OffsetWithinFile
  <2>5. ASSUME NEW t \in Threads, NEW h, NEW d, NEW len \in Lens, tfs_write(t, h, d, len)
        PROVE  OffsetWithinFile'
    BY <2>1, <2>5, WriteOffsets DEF tfs_write, BadHandle, state_vars, inode_vars
  <2>6. ASSUME NEW t \in Threads, NEW h, NEW len \in Lens, tfs_read(t, h, len)
        PROVE  OffsetWithinFile'
    BY <2>1, <2>6, ReadOffsets DEF tfs_read, BadHandle, state_vars, inode_vars
  <2>7. ASSUME NEW t \in Threads,
               \/ \E path \in Paths : tfs_lookup(t, path)
               \/ CountOpen(t) \/ CountClose(t)
               \/ tfs_destroy_after_all_closed(t)
               \/ WakeUp(t) \/ SpuriousWakeUp(t) \/ tfs_destroy(t)
               \/ \E op \in Ops : LockFails(t, op)
        PROVE  OffsetWithinFile'
    <3>1. UNCHANGED <<state_vars, undercut>>
      BY <2>7 DEF tfs_lookup, CountOpen, CountClose, tfs_destroy_after_all_closed, WakeUp,
                  TestOpenFiles, SpuriousWakeUp, tfs_destroy, LockFails
    <3> QED
      BY <2>1, <3>1 DEF state_vars, inode_vars
  <2> QED
    BY <2>3, <2>4, <2>5, <2>6, <2>7 DEF Next
<1>3. UNCHANGED vars /\ OffsetWithinFile => OffsetWithinFile'
  BY DEF OffsetWithinFile, vars, state_vars, inode_vars, open_vars, Open
<1>4. TablesHold /\ TypeOK /\ OffsetWithinFile /\ [Next]_vars => OffsetWithinFile'
  BY <1>2, <1>3, NextIsTame DEF TablesHold, TypeOK
<1> QED
  BY <1>1, <1>4, TablesInvariant, TypeCorrect, PTL DEF Spec

----------------------------------------------------------------------------
(* Waiting for the handles.                                                *)

\* The threads whose tfs_open has failed, and those whose tfs_open has a handle
\* to return, before they are counted.
Failing   == {t \in Threads : pc[t] = "opened" /\ opening[t] = -1}
Returning == {t \in Threads : pc[t] = "opened" /\ opening[t] # -1}

\* Each handle that is being returned is open, and of one thread.
OpeningInv ==
  /\ \A t \in Threads : opening[t] # -1 => pc[t] = "opened" /\ Open(opening[t])
  /\ \A t, u \in Threads : opening[t] = opening[u] /\ opening[t] # -1 => t = u
  /\ Cardinality(Failing) <= failures

\* The counter is what the callers hold, what has failed, and what is closed and
\* not yet counted: no open handle that is still to be returned is part of it.
LEMMA CounterOfCallers ==
  ASSUME TablesHold, ControlTypeOK, CounterAccounting, OpeningInv,
         "open_files_lock" \notin destroyed
  PROVE  /\ number_open_files = Cardinality(Held) + (failures - Cardinality(Failing))
                                  + Cardinality(Pending("closed"))
         /\ Cardinality(Held) \in Nat /\ (Cardinality(Held) = 0 <=> Held = {})
         /\ failures - Cardinality(Failing) \in Nat
         /\ Cardinality(Pending("closed")) \in Nat
<1> DEFINE Fresh == {opening[t] : t \in Returning}
<1>1. /\ IsFiniteSet(OpenHandles) /\ IsFiniteSet(Pending("opened"))
      /\ Cardinality(Pending("closed")) \in Nat
      /\ Balance = 0
  BY CounterBalance
<1>2. /\ number_open_files \in Int /\ failures \in Int
      /\ opening \in [Threads -> Handles \cup {-1}]
  BY DEF ControlTypeOK
<1>3. /\ IsFiniteSet(Failing) /\ IsFiniteSet(Returning)
      /\ Cardinality(Failing) \in Nat /\ Cardinality(Returning) \in Nat
      /\ Cardinality(Pending("opened")) = Cardinality(Failing) + Cardinality(Returning)
  <2>1. /\ Failing \in SUBSET Pending("opened") /\ Returning \in SUBSET Pending("opened")
        /\ Pending("opened") = Failing \cup Returning /\ Failing \cap Returning = {}
    BY DEF Failing, Returning, Pending
  <2>2. IsFiniteSet(Failing) /\ IsFiniteSet(Returning)
    BY <1>1, <2>1, FS_Subset
  <2>3. Cardinality(Failing) \in Nat /\ Cardinality(Returning) \in Nat
    BY <2>2, FS_CardinalityType
  <2>4. Cardinality(Failing \cup Returning) =
          Cardinality(Failing) + Cardinality(Returning) - Cardinality(Failing \cap Returning)
    BY <2>2, FS_Union
  <2>5. Cardinality(Failing \cap Returning) = 0
    BY <2>1, FS_EmptySet
  <2>6. Cardinality(Pending("opened")) = Cardinality(Failing \cup Returning)
    BY <2>1
  <2> QED
    BY <2>2, <2>3, <2>4, <2>5, <2>6
<1>4. IsFiniteSet(Fresh) /\ Cardinality(Fresh) = Cardinality(Returning)
  <2> DEFINE f == [t \in Returning |-> opening[t]]
  <2>1. f \in Bijection(Returning, Fresh)
    <3>1. f \in Injection(Returning, Fresh)
      BY DEF Injection, IsInjective, Returning, OpeningInv
    <3>2. f \in Surjection(Returning, Fresh)
      BY DEF Surjection
    <3> QED
      BY <3>1, <3>2 DEF Bijection
  <2> QED
    BY <1>3, <2>1, FS_Bijection DEF ExistsBijection
<1>5. /\ IsFiniteSet(Held) /\ Cardinality(Held) \in Nat
      /\ Cardinality(OpenHandles) = Cardinality(Held) + Cardinality(Fresh)
  <2>1. Held \in SUBSET OpenHandles
    BY DEF Held, OpenHandles
  <2>2. Fresh \subseteq OpenHandles /\ Held \cap Fresh = {}
    BY <1>2 DEF Held, OpenHandles, Returning, OpeningInv
  <2>3. OpenHandles \subseteq Held \cup Fresh
    <3>1. -1 \notin Handles
      BY DEF Handles
    <3> QED
      BY <3>1 DEF Held, OpenHandles, Returning, OpeningInv
  <2>4. IsFiniteSet(Held) /\ Cardinality(Held) \in Nat
    BY <1>1, <2>1, FS_Subset, FS_CardinalityType
  <2>5. Cardinality(Held \cup Fresh) =
          Cardinality(Held) + Cardinality(Fresh) - Cardinality(Held \cap Fresh)
    BY <1>4, <2>4, FS_Union
  <2>6. OpenHandles = Held \cup Fresh
    BY <2>1, <2>2, <2>3
  <2>7. Cardinality(Held \cap Fresh) = 0
    BY <2>2, FS_EmptySet
  <2>8. Cardinality(Fresh) \in Nat
    BY <1>3, <1>4
  <2> HIDE DEF Fresh
  <2> QED
    BY <2>4, <2>5, <2>6, <2>7, <2>8
<1>6. Cardinality(Held) = 0 <=> Held = {}
  BY <1>5, FS_EmptySet
<1>7. Cardinality(Failing) <= failures
  BY DEF OpeningInv
<1> HIDE DEF Fresh
<1> QED
  BY <1>1, <1>2, <1>3, <1>4, <1>5, <1>6, <1>7 DEF Balance

\* A body of tfs_open leaves its thread with a handle to return, or failing.
LEMMA OpenOpening ==
  ASSUME TablesHold, ControlTypeOK, OpeningInv, NEW t \in Threads, NEW path, NEW flags,
         tfs_open(t, path, flags)
  PROVE  OpeningInv'
<1>1. /\ pc \in [Threads -> Pc] /\ failures \in Int
      /\ opening \in [Threads -> Handles \cup {-1}]
      /\ free_open_file_entries \in [Handles -> AllocState]
  BY DEF ControlTypeOK, TablesHold, StateTypeOK
<1>2. pc[t] = "idle" /\ \A u \in Threads : pc'[u] = IF u = t THEN "opened" ELSE pc[u]
  BY <1>1 DEF tfs_open, Enters, Goto
<1>3. opening[t] = -1
  BY <1>2 DEF OpeningInv
<1>4. IsFiniteSet(Failing) /\ Cardinality(Failing) \in Nat
  <2>1. IsFiniteSet(Pending("opened")) /\ Failing \in SUBSET Pending("opened")
    BY CounterBalance DEF Failing, Pending
  <2> QED
    BY <2>1, FS_Subset, FS_CardinalityType
<1>5. ASSUME opening' = opening, failures' = failures + 1,
             \A h \in Handles : Open(h)' <=> Open(h)
      PROVE  OpeningInv'
  <2>1. Failing' = Failing \cup {t} /\ t \notin Failing
    BY <1>2, <1>3, <1>5 DEF Failing
  <2>2. Cardinality(Failing') = Cardinality(Failing) + 1
    BY <1>4, <2>1, FS_AddElement
  <2>3. Cardinality(Failing') <= failures'
    BY <1>1, <1>4, <1>5, <2>2 DEF OpeningInv
  <2> QED
    BY <1>1, <1>2, <1>5, <2>3 DEF OpeningInv
<1>6. ASSUME NEW inum, NEW offset, NEW cut, add_to_open_file_table(t, inum, offset, cut)
      PROVE  OpeningInv'
  <2> DEFINE h == First(FreeIn(free_open_file_entries))
  <2>1. /\ \A g \in Handles : free_open_file_entries'[g] =
             IF g = h THEN "TAKEN" ELSE free_open_file_entries[g]
        /\ h # -1 => h \in Handles /\ free_open_file_entries[h] = "FREE"
    BY <1>1, <1>6, TakeFirstAt DEF add_to_open_file_table
  <2>2. /\ failures' = IF h = -1 THEN failures + 1 ELSE failures
        /\ \A u \in Threads : opening'[u] = IF u = t THEN h ELSE opening[u]
        /\ opening' = [opening EXCEPT ![t] = h]
    BY <1>1, <1>6 DEF add_to_open_file_table
  <2> HIDE DEF h
  <2>3. CASE h = -1
    <3>1. opening' = opening
      BY <1>1, <1>3, <2>2, <2>3
    <3>2. \A g \in Handles : Open(g)' <=> Open(g)
      BY <2>1, <2>3 DEF Open, Handles
    <3> QED
      BY <1>5, <2>2, <2>3, <3>1, <3>2
  <2>4. CASE h # -1
    <3>1. Failing' = Failing
      BY <1>2, <2>2, <2>4 DEF Failing
    <3>2. Cardinality(Failing') <= failures'
      BY <2>2, <2>4, <3>1 DEF OpeningInv
    <3>3. \A u \in Threads : opening[u] # h
      BY <2>1, <2>4 DEF OpeningInv, Open
    <3>4. ASSUME NEW u \in Threads, opening'[u] # -1
          PROVE  pc'[u] = "opened" /\ free_open_file_entries'[opening'[u]] = "TAKEN"
      <4>1. CASE u = t
        BY <1>2, <2>1, <2>2, <2>4, <4>1
      <4>2. CASE u # t
        <5>1. opening'[u] = opening[u] /\ opening[u] \in Handles /\ pc'[u] = pc[u]
          BY <1>1, <1>2, <2>2, <3>4, <4>2
        <5> QED
          BY <2>1, <3>4, <5>1 DEF OpeningInv, Open
      <4> QED
        BY <4>1, <4>2
    <3>5. \A u, v \in Threads : opening'[u] = opening'[v] /\ opening'[u] # -1 => u = v
      BY <2>2, <3>3 DEF OpeningInv
    <3> QED
      BY <3>2, <3>4, <3>5 DEF OpeningInv, Open
  <2> QED
    BY <2>3, <2>4
<1>7. OpenFails => OpeningInv'
  BY <1>5 DEF OpenFails, open_vars, Open
<1> QED
  BY <1>6, <1>7, Zenon DEF tfs_open, OpenExisting, OpenCreate, OpenCreateFails, OpenMissing

\* A thread is counted, or finds the lock destroyed, and has nothing to return
\* any more.
LEMMA CountedOpening ==
  ASSUME TablesHold, ControlTypeOK, OpeningInv, NEW t \in Threads, Goto(t, "idle"),
         opening' = [opening EXCEPT ![t] = -1], UNCHANGED <<state_vars, failures>>
  PROVE  OpeningInv'
<1>1. /\ \A u \in Threads : pc'[u] = IF u = t THEN "idle" ELSE pc[u]
      /\ \A u \in Threads : opening'[u] = IF u = t THEN -1 ELSE opening[u]
      /\ \A h : Open(h)' <=> Open(h)
  BY DEF ControlTypeOK, Goto, Open, state_vars, open_vars
<1>2. IsFiniteSet(Failing)
  <2>1. IsFiniteSet(Pending("opened")) /\ Failing \in SUBSET Pending("opened")
    BY CounterBalance DEF Failing, Pending
  <2> QED
    BY <2>1, FS_Subset
<1>3. Failing' \in SUBSET Failing
  BY <1>1 DEF Failing
<1>4. Cardinality(Failing') <= Cardinality(Failing)
      /\ Cardinality(Failing') \in Nat /\ Cardinality(Failing) \in Nat
  BY <1>2, <1>3, FS_Subset, FS_CardinalityType
<1>5. failures \in Int /\ failures' = failures
  BY DEF ControlTypeOK
<1>6. Cardinality(Failing') <= failures'
  BY <1>4, <1>5 DEF OpeningInv
<1> QED
  BY <1>1, <1>6 DEF OpeningInv

\* A step that moves no thread to or from the counting of an open, and closes no
\* handle that is still to be returned.
LEMMA OtherOpening ==
  ASSUME OpeningInv, UNCHANGED <<opening, failures>>,
         \A u \in Threads : pc'[u] = "opened" <=> pc[u] = "opened",
         \A h \in Handles : Open(h) /\ (\E u \in Threads : opening[u] = h) => Open(h)',
         opening \in [Threads -> Handles \cup {-1}]
  PROVE  OpeningInv'
<1>1. Failing' = Failing
  BY DEF Failing
<1>2. \A u \in Threads : opening'[u] # -1 =>
        pc'[u] = "opened" /\ free_open_file_entries'[opening'[u]] = "TAKEN"
  BY DEF OpeningInv, Open
<1> QED
  BY <1>1, <1>2 DEF OpeningInv, Open

\* OpeningInv is kept by callers that close only what they hold.
LEMMA OpeningStep ==
  ASSUME TablesHold, ControlTypeOK, OpeningInv, "bad_close" \notin Misuse, [Next]_vars
  PROVE  OpeningInv'
<1>1. /\ pc \in [Threads -> Pc] /\ opening \in [Threads -> Handles \cup {-1}]
      /\ free_open_file_entries \in [Handles -> AllocState]
  BY DEF ControlTypeOK, TablesHold, StateTypeOK
<1>2. CASE UNCHANGED <<opening, failures, pc, free_open_file_entries>>
  BY <1>1, <1>2, OtherOpening DEF Open
<1>3. CASE UNCHANGED vars
  BY <1>2, <1>3 DEF vars, state_vars, open_vars
<1>4. ASSUME NEW t \in Threads, NEW path, NEW flags, tfs_open(t, path, flags)
      PROVE  OpeningInv'
  BY <1>4, OpenOpening
<1>5. ASSUME NEW t \in Threads, NEW h \in Closable, tfs_close(t, h)
      PROVE  OpeningInv'
  <2>1. h \in Handles /\ Open(h) /\ \A u \in Threads : opening[u] # h
    BY DEF Closable, Held
  <2>2. UNCHANGED <<opening, failures>> /\ free_open_file_entries' = Release(free_open_file_entries, h)
    BY <1>5, <2>1 DEF tfs_close
  <2>3. \A u \in Threads : pc'[u] = "opened" <=> pc[u] = "opened"
    BY <1>1, <1>5 DEF tfs_close, Enters, Goto
  <2>4. \A g \in Handles : Open(g) /\ (\E u \in Threads : opening[u] = g) => Open(g)'
    BY <1>1, <2>1, <2>2 DEF Release, Open
  <2> QED
    BY <1>1, <2>2, <2>3, <2>4, OtherOpening
<1>6. ASSUME NEW t \in Threads, CountOpen(t) \/ \E op \in Ops : LockFails(t, op)
      PROVE  OpeningInv'
  BY <1>6, CountedOpening DEF CountOpen, LockFails
<1>7. ASSUME NEW t \in Threads, CountClose(t)
      PROVE  OpeningInv'
  <2>1. UNCHANGED <<opening, failures, free_open_file_entries>>
    BY <1>7 DEF CountClose, state_vars, open_vars
  <2>2. \A u \in Threads : pc'[u] = "opened" <=> pc[u] = "opened"
    BY <1>1, <1>7 DEF CountClose, Enters, Signalled
  <2> QED
    BY <1>1, <2>1, <2>2, OtherOpening DEF Open
<1>8. ASSUME NEW t \in Threads, \/ tfs_destroy_after_all_closed(t)
                                \/ WakeUp(t) \/ SpuriousWakeUp(t) \/ tfs_destroy(t)
      PROVE  OpeningInv'
  <2>1. UNCHANGED <<opening, failures, free_open_file_entries>>
    BY <1>8 DEF tfs_destroy_after_all_closed, WakeUp, TestOpenFiles, SpuriousWakeUp, tfs_destroy,
                state_vars, open_vars
  <2>2. \A u \in Threads : pc'[u] = "opened" <=> pc[u] = "opened"
    BY <1>1, <1>8 DEF tfs_destroy_after_all_closed, WakeUp, TestOpenFiles, SpuriousWakeUp,
                      tfs_destroy, Enters, Goto
  <2> QED
    BY <1>1, <2>1, <2>2, OtherOpening DEF Open
<1>9. ASSUME NEW t \in Threads,
             \/ \E path \in Paths : tfs_lookup(t, path)
             \/ \E h \in Handles \cup {-1}, d \in Data, len \in Lens : tfs_write(t, h, d, len)
             \/ \E h \in Handles \cup {-1}, len \in Lens : tfs_read(t, h, len)
      PROVE  OpeningInv'
  <2>1. UNCHANGED <<opening, failures, pc, free_open_file_entries>>
    <3>1. ASSUME NEW path \in Paths, tfs_lookup(t, path)
          PROVE  UNCHANGED <<opening, failures, pc, free_open_file_entries>>
      BY <3>1 DEF tfs_lookup, state_vars, open_vars
    <3>2. ASSUME NEW h \in Handles \cup {-1}, NEW d \in Data, NEW len \in Lens, tfs_write(t, h, d, len)
          PROVE  UNCHANGED <<opening, failures, pc, free_open_file_entries>>
      BY <3>2 DEF tfs_write, Write, BadHandle, state_vars, open_vars
    <3>3. ASSUME NEW h \in Handles \cup {-1}, NEW len \in Lens, tfs_read(t, h, len)
          PROVE  UNCHANGED <<opening, failures, pc, free_open_file_entries>>
      BY <3>3 DEF tfs_read, Read, BadHandle, state_vars, open_vars
    <3> QED
      BY <1>9, <3>1, <3>2, <3>3
  <2> QED
    BY <1>2, <2>1
<1> QED
  BY <1>3, <1>4, <1>5, <1>6, <1>7, <1>8, <1>9 DEF Next

\* What the callers of this section keep.
CallersInv ==
  TablesHold /\ ControlTypeOK /\ CounterAccounting /\ OpeningInv

LEMMA CallersInvariant ==
  ASSUME "bad_close" \notin Misuse
  PROVE  Spec => []CallersInv
<1>1. Init => OpeningInv
  <2> SUFFICES ASSUME Init PROVE OpeningInv
    OBVIOUS
  <2>1. \A t \in Threads : pc[t] = "idle" /\ opening[t] = -1
    BY DEF Init
  <2>2. Failing = {} /\ failures = 0
    BY <2>1 DEF Failing, Init
  <2>3. Cardinality(Failing) <= failures
    BY <2>2, FS_EmptySet
  <2> QED
    BY <2>1, <2>3 DEF OpeningInv
<1>2. TablesHold /\ ControlTypeOK /\ OpeningInv /\ [Next]_vars => OpeningInv'
  BY OpeningStep
<1>3. TablesHold /\ ControlTypeOK /\ [Next]_vars => TablesHold' /\ ControlTypeOK'
  BY HoldStep, ControlStep
<1> QED
  BY <1>1, <1>2, <1>3, TablesInit, ControlInit, CounterIsExact, PTL DEF Spec, CallersInv

\* Only destroyers wait, and not all of them once the counter is zero.
WaitInv ==
  /\ \A t \in Threads : pc[t] \in {"waiting", "woken", "destroying"} => t \in Destroyers
  /\ NoLostWakeUp

\* Counting an open cannot bring the counter to zero, and counting a close wakes
\* a thread if one waits.
LEMMA WaitStep ==
  ASSUME CallersInv, WaitInv, [Next]_vars
  PROVE  WaitInv'
<1>1. /\ pc \in [Threads -> Pc] /\ number_open_files \in Int
      /\ Destroyers \subseteq Threads /\ Destroyers # {}
  BY OpsAssumption DEF CallersInv, ControlTypeOK
<1>2. CASE UNCHANGED <<pc, number_open_files>>
  BY <1>2 DEF WaitInv, NoLostWakeUp
<1>3. CASE UNCHANGED vars
  BY <1>2, <1>3 DEF vars
<1>4. ASSUME NEW t \in Threads, NEW to \in Pc \ {"waiting"}, Goto(t, to), UNCHANGED number_open_files,
             to \in {"woken", "destroying"} => t \in Destroyers,
             pc[t] = "waiting" => to = "woken"
      PROVE  WaitInv'
  <2>1. \A u \in Threads : pc'[u] = IF u = t THEN to ELSE pc[u]
    BY <1>1, <1>4 DEF Goto
  <2>2. NoLostWakeUp'
    <3>1. \A u \in Destroyers : pc'[u] = "waiting" => pc[u] = "waiting"
      BY <1>1, <1>4, <2>1
    <3> QED
      BY <1>4, <3>1 DEF WaitInv, NoLostWakeUp
  <2> QED
    BY <1>4, <2>1, <2>2 DEF WaitInv
<1>5. ASSUME NEW t \in Threads, \/ \E path \in Paths, flags \in OpenFlags : tfs_open(t, path, flags)
                                \/ \E h \in Closable : tfs_close(t, h)
                                \/ \E op \in Ops : LockFails(t, op)
                                \/ SpuriousWakeUp(t) \/ tfs_destroy(t)
      PROVE  WaitInv'
  <2>1. \/ SpuriousWakeUp(t)
        \/ \E to \in {"idle", "opened", "closed"} :
             Goto(t, to) /\ pc[t] # "waiting" /\ UNCHANGED number_open_files
    BY <1>5 DEF tfs_open, tfs_close, LockFails, Between, Enters, tfs_destroy
  <2> QED
    BY <1>4, <2>1 DEF SpuriousWakeUp, WaitInv, Pc
<1>6. ASSUME NEW t \in Threads, CountOpen(t)
      PROVE  WaitInv'
  <2>1. /\ "open_files_lock" \notin destroyed
        /\ number_open_files' = number_open_files + 1
        /\ \A u \in Threads : pc'[u] = IF u = t THEN "idle" ELSE pc[u]
    BY <1>1, <1>6 DEF CountOpen, Enters, Goto
  <2>2. number_open_files >= 0
    BY <2>1, <1>1, CounterOfCallers DEF CallersInv
  <2> QED
    BY <1>1, <2>1, <2>2 DEF WaitInv, NoLostWakeUp
<1>7. ASSUME NEW t \in Threads, CountClose(t)
      PROVE  WaitInv'
  <2> DEFINE p == [pc EXCEPT ![t] = "idle"]
  <2>1. /\ \A u \in Threads : p[u] = IF u = t THEN "idle" ELSE pc[u]
        /\ Signalled(p)
    BY <1>1, <1>7 DEF CountClose
  <2>2. p \in [Threads -> Pc]
    BY <1>1 DEF Pc
  <2> HIDE DEF p
  <2>3. ASSUME NEW w \in Threads, p[w] = "waiting", pc' = [p EXCEPT ![w] = "woken"]
        PROVE  WaitInv'
    <3>1. w \in Destroyers
      BY <2>1, <2>3 DEF WaitInv
    <3>2. \A u \in Threads : pc'[u] = IF u = w THEN "woken" ELSE p[u]
      BY <2>2, <2>3
    <3> QED
      BY <2>1, <3>1, <3>2 DEF WaitInv, NoLostWakeUp
  <2>4. ASSUME \A w \in Threads : p[w] # "waiting", pc' = p
        PROVE  WaitInv'
    BY <1>1, <2>1, <2>4 DEF WaitInv, NoLostWakeUp
  <2> QED
    BY <2>1, <2>3, <2>4 DEF Signalled
<1>8. ASSUME NEW t \in Threads, tfs_destroy_after_all_closed(t) \/ WakeUp(t)
      PROVE  WaitInv'
  <2>1. t \in Destroyers /\ pc[t] # "waiting" /\ TestOpenFiles(t)
    BY <1>8 DEF tfs_destroy_after_all_closed, WakeUp, Enters, WaitInv
  <2>2. CASE number_open_files = 0
    BY <1>4, <2>1, <2>2 DEF TestOpenFiles, Pc
  <2>3. CASE number_open_files # 0
    <3>1. NoLostWakeUp'
      BY <2>1, <2>3 DEF TestOpenFiles, NoLostWakeUp
    <3>2. \A u \in Threads : pc'[u] = IF u = t THEN "waiting" ELSE pc[u]
      BY <1>1, <2>1, <2>3 DEF TestOpenFiles, Goto
    <3> QED
      BY <2>1, <3>1, <3>2 DEF WaitInv
  <2> QED
    BY <2>2, <2>3
<1>9. ASSUME NEW t \in Threads,
             \/ \E path \in Paths : tfs_lookup(t, path)
             \/ \E h \in Handles \cup {-1}, d \in Data, len \in Lens : tfs_write(t, h, d, len)
             \/ \E h \in Handles \cup {-1}, len \in Lens : tfs_read(t, h, len)
      PROVE  WaitInv'
  BY <1>2, <1>9 DEF tfs_lookup, tfs_write, tfs_read
<1> QED
  BY <1>3, <1>5, <1>6, <1>7, <1>8, <1>9 DEF Next

\* WaitInv holds of every state.
LEMMA WaitInvariant ==
  ASSUME "bad_close" \notin Misuse
  PROVE  Spec => []WaitInv
<1>1. Init => WaitInv
  <2> SUFFICES ASSUME Init PROVE WaitInv
    OBVIOUS
  <2>1. pc = [t \in Threads |-> "idle"]
    BY DEF Init
  <2>2. \E t \in Destroyers : pc[t] # "waiting"
    BY <2>1, OpsAssumption
  <2> QED
    BY <2>1, <2>2 DEF WaitInv, NoLostWakeUp
<1>2. CallersInv /\ WaitInv /\ [Next]_vars => WaitInv'
  BY WaitStep
<1> QED
  BY <1>1, <1>2, CallersInvariant, PTL DEF Spec

\* The threads of tfs_destroy_after_all_closed do not all sleep once the counter is
\* zero, however many they are and however the two critical sections of the opens
\* and closes of any number of threads interleave with them, as long as callers
\* close only what they hold: the counter is then never below zero, so that no
\* tfs_open, which signals nothing, brings it to zero.
THEOREM NoWakeUpIsLost ==
  ASSUME "bad_close" \notin Misuse
  PROVE  Spec => []NoLostWakeUp
<1>1. WaitInv => NoLostWakeUp
  BY DEF WaitInv
<1> QED
  BY <1>1, WaitInvariant, PTL

\* tfs_destroy_after_all_closed goes on to tfs_destroy only when no caller holds
\* an open handle: a handle that a tfs_open has yet to return hides no other.
THEOREM ShutdownWaitsForHandles ==
  ASSUME "bad_close" \notin Misuse
  PROVE  Spec => WaitsForHandles
<1> DEFINE Waits == \A t \in Threads : pc[t] # "destroying" /\ pc'[t] = "destroying" => Held = {}
<1>1. CallersInv /\ [Next]_vars => Waits \/ UNCHANGED vars
  <2> SUFFICES ASSUME CallersInv, NEW t \in Threads, Next,
                      pc[t] # "destroying", pc'[t] = "destroying"
               PROVE  Held = {}
    OBVIOUS
  <2>1. pc \in [Threads -> Pc] /\ number_open_files \in Int
    BY DEF CallersInv, ControlTypeOK
  <2>2. ASSUME NEW u \in Threads, tfs_destroy_after_all_closed(u) \/ WakeUp(u)
        PROVE  Held = {}
    <3>1. "open_files_lock" \notin destroyed /\ number_open_files = 0
      BY <2>1, <2>2 DEF tfs_destroy_after_all_closed, WakeUp, Enters, TestOpenFiles, Goto
    <3> QED
      BY <3>1, CounterOfCallers DEF CallersInv
  <2>3. ASSUME NEW u \in Threads,
               \/ UNCHANGED pc
               \/ \E to \in Pc \ {"destroying"} : Goto(u, to)
        PROVE  FALSE
    BY <2>1, <2>3 DEF Goto
  <2>4. ASSUME NEW u \in Threads, CountClose(u)
        PROVE  FALSE
    BY <2>1, <2>4 DEF CountClose, Signalled
  <2>5. PICK u \in Threads :
          \/ tfs_destroy_after_all_closed(u) \/ WakeUp(u) \/ CountClose(u)
          \/ UNCHANGED pc
          \/ \E to \in Pc \ {"destroying"} : Goto(u, to)
    BY DEF Next, tfs_lookup, tfs_open, tfs_close, tfs_write, tfs_read, CountOpen, SpuriousWakeUp,
           tfs_destroy, LockFails, Pc
  <2> QED
    BY <2>2, <2>3, <2>4, <2>5
<1> QED
  BY <1>1, CallersInvariant, PTL DEF Spec, WaitsForHandles

----------------------------------------------------------------------------
(* The refinement of AbstractFs.                                           *)

\* The i-numbers of the files.
FileNumbers == {i \in Inumbers \ {ROOT_DIR_INUM} : freeinode_ts[i] = "TAKEN"}

\* Each entry of the directory is where its name and its i-number are found.
LEMMA EntryIs ==
  ASSUME TablesInv, NamesUnique, NEW s \in DirSlots \ EmptySlots
  PROVE  /\ find_in_dir(ROOT_DIR_INUM, dir_entry[s].d_name) = dir_entry[s].d_inumber
         /\ SlotOf(dir_entry[s].d_inumber) = s
         /\ dir_entry[s].d_inumber \in FileNumbers
         /\ dir_entry[s].d_name \in FileNames
<1> DEFINE M == Matches(dir_entry[s].d_name)
<1>1. s \in M /\ dir_entry[s].d_inumber # -1
  BY DEF Matches, EmptySlots
<1>2. M \in SUBSET Nat
  BY ConfigAssumption DEF Matches, DirSlots
<1>3. First(M) \in M
  BY <1>1, <1>2, FirstFound
<1>4. First(M) = s
  <2>1. /\ First(M) \in DirSlots \ EmptySlots
        /\ dir_entry[First(M)].d_name = dir_entry[s].d_name
    BY <1>3 DEF Matches, EmptySlots
  <2> QED
    BY <2>1 DEF NamesUnique
<1>5. IsDirectory(ROOT_DIR_INUM)
  BY DEF TablesInv, EntriesMatch
<1>6. \A r \in DirSlots : dir_entry[r].d_inumber = dir_entry[s].d_inumber => r = s
  BY <1>1 DEF TablesInv, EntriesMatch
<1>7. /\ dir_entry[s].d_inumber \in Inumbers /\ dir_entry[s].d_inumber # ROOT_DIR_INUM
      /\ freeinode_ts[dir_entry[s].d_inumber] = "TAKEN"
  BY <1>1 DEF TablesInv, StateTypeOK, DirEntry, EntriesMatch
<1>8. find_in_dir(ROOT_DIR_INUM, dir_entry[s].d_name) = dir_entry[s].d_inumber
  BY <1>1, <1>4, <1>5 DEF find_in_dir
<1>9. SlotOf(dir_entry[s].d_inumber) = s
  BY <1>6 DEF SlotOf
<1> QED
  BY <1>7, <1>8, <1>9 DEF FileNumbers, FileNames

\* Names and i-numbers of files correspond, one to one.
LEMMA Naming ==
  ASSUME TablesInv, NamesUnique
  PROVE  /\ \A n \in FileNames : /\ find_in_dir(ROOT_DIR_INUM, n) \in FileNumbers
                                 /\ NameOf(find_in_dir(ROOT_DIR_INUM, n)) = n
         /\ \A i \in FileNumbers : /\ NameOf(i) \in FileNames
                                   /\ find_in_dir(ROOT_DIR_INUM, NameOf(i)) = i
         /\ \A n : n \notin FileNames => find_in_dir(ROOT_DIR_INUM, n) = -1
<1>1. ASSUME NEW n \in FileNames
      PROVE  /\ find_in_dir(ROOT_DIR_INUM, n) \in FileNumbers
             /\ NameOf(find_in_dir(ROOT_DIR_INUM, n)) = n
  <2>1. PICK s \in DirSlots \ EmptySlots : n = dir_entry[s].d_name
    BY DEF FileNames
  <2> QED
    BY <2>1, EntryIs DEF NameOf
<1>2. ASSUME NEW i \in FileNumbers
      PROVE  /\ NameOf(i) \in FileNames
             /\ find_in_dir(ROOT_DIR_INUM, NameOf(i)) = i
  <2>1. PICK s \in DirSlots : dir_entry[s].d_inumber = i
    BY DEF FileNumbers, TablesInv, EntriesMatch
  <2>2. i # -1
    BY ConfigAssumption DEF FileNumbers, Inumbers
  <2>3. s \in DirSlots \ EmptySlots
    BY <2>1, <2>2 DEF EmptySlots
  <2> QED
    BY <2>1, <2>3, EntryIs DEF NameOf
<1>3. ASSUME NEW n, n \notin FileNames
      PROVE  find_in_dir(ROOT_DIR_INUM, n) = -1
  <2>1. Matches(n) = {}
    BY <1>3 DEF Matches, FileNames, EmptySlots
  <2> QED
    BY <2>1 DEF find_in_dir
<1> QED
  BY <1>1, <1>2, <1>3

\* A handle that is open is of a file.
LEMMA OpenOfFile ==
  ASSUME TablesInv, NEW h \in Handles, Open(h)
  PROVE  open_file_table[h].of_inumber \in FileNumbers
BY DEF FileNumbers, TablesInv, StateTypeOK, OpenEntry, HandlesValid

\* A step that leaves the directory alone leaves the names.
LEMMA SameNames ==
  ASSUME TablesInv, TablesInv', UNCHANGED dir_entry
  PROVE  /\ FileNames' = FileNames
         /\ \A n : find_in_dir(ROOT_DIR_INUM, n)' = find_in_dir(ROOT_DIR_INUM, n)
         /\ \A i : NameOf(i)' = NameOf(i)
<1>1. IsDirectory(ROOT_DIR_INUM) /\ IsDirectory(ROOT_DIR_INUM)'
  BY DEF TablesInv, EntriesMatch
<1>2. \A n : Matches(n)' = Matches(n)
  BY DEF Matches
<1>3. \A n : find_in_dir(ROOT_DIR_INUM, n)' = find_in_dir(ROOT_DIR_INUM, n)
  BY <1>1, <1>2 DEF find_in_dir
<1> QED
  BY <1>3 DEF FileNames, EmptySlots, NameOf, SlotOf

\* It changes the file whose contents it changes, and no other.
LEMMA FileChanges ==
  ASSUME TablesInv, NamesUnique, TablesInv', UNCHANGED dir_entry,
         NEW j \in FileNumbers, NEW c,
         \A i \in FileNumbers : Contents(i)' = IF i = j THEN c ELSE Contents(i)
  PROVE  AbsFiles' = [AbsFiles EXCEPT ![NameOf(j)] = c]
<1>1. /\ FileNames' = FileNames
      /\ \A n : find_in_dir(ROOT_DIR_INUM, n)' = find_in_dir(ROOT_DIR_INUM, n)
  BY SameNames
<1>2. AbsFiles' = [n \in FileNames |-> Contents(find_in_dir(ROOT_DIR_INUM, n))']
  BY <1>1 DEF AbsFiles
<1>3. ASSUME NEW n \in FileNames
      PROVE  Contents(find_in_dir(ROOT_DIR_INUM, n))' = IF n = NameOf(j) THEN c ELSE AbsFiles[n]
  <2>1. PICK i : i = find_in_dir(ROOT_DIR_INUM, n)
    OBVIOUS
  <2>2. i \in FileNumbers /\ (i = j <=> n = NameOf(j)) /\ AbsFiles[n] = Contents(i)
    BY <2>1, Naming DEF AbsFiles
  <2>3. Contents(find_in_dir(ROOT_DIR_INUM, n))' = Contents(i)'
    BY <1>1, <2>1 DEF Contents
  <2> QED
    BY <2>2, <2>3
<1>4. PICK F : F = AbsFiles
  OBVIOUS
<1>5. F = AbsFiles /\ DOMAIN F = FileNames
  BY <1>4 DEF AbsFiles
<1>6. AbsFiles' = [n \in FileNames |-> IF n = NameOf(j) THEN c ELSE F[n]]
  BY <1>2, <1>3, <1>5
<1> QED
  BY <1>6, <1>5

\* It changes no file when it changes no contents.
LEMMA FilesStay ==
  ASSUME TablesInv, NamesUnique, TablesInv', UNCHANGED dir_entry,
         \A i \in FileNumbers : Contents(i)' = Contents(i)
  PROVE  AbsFiles' = AbsFiles
<1>1. /\ FileNames' = FileNames
      /\ \A n : find_in_dir(ROOT_DIR_INUM, n)' = find_in_dir(ROOT_DIR_INUM, n)
  BY SameNames
<1>2. AbsFiles' = [n \in FileNames |-> Contents(find_in_dir(ROOT_DIR_INUM, n))']
  BY <1>1 DEF AbsFiles
<1>3. ASSUME NEW n \in FileNames
      PROVE  Contents(find_in_dir(ROOT_DIR_INUM, n))' = Contents(find_in_dir(ROOT_DIR_INUM, n))
  <2>1. PICK i : i = find_in_dir(ROOT_DIR_INUM, n)
    OBVIOUS
  <2>2. i \in FileNumbers
    BY <2>1, Naming
  <2>3. Contents(find_in_dir(ROOT_DIR_INUM, n))' = Contents(i)'
    BY <1>1, <2>1 DEF Contents
  <2> QED
    BY <2>1, <2>2, <2>3
<1> QED
  BY <1>2, <1>3 DEF AbsFiles

\* The bytes of a file stay when its size and block do, and the bytes of the
\* block.
LEMMA ContentsStay ==
  ASSUME NEW i, inode_table'[i].i_size = inode_table[i].i_size,
         \/ inode_table[i].i_size = 0
         \/ /\ inode_table'[i].i_data_block = inode_table[i].i_data_block
            /\ fs_data'[inode_table[i].i_data_block] = fs_data[inode_table[i].i_data_block]
  PROVE  Contents(i)' = Contents(i)
BY DEF Contents

\* Handles stay while their entries and the names do.
LEMMA HandlesStay ==
  ASSUME TablesInv, UNCHANGED open_vars, \A i \in FileNumbers : NameOf(i)' = NameOf(i)
  PROVE  AbsHandles' = AbsHandles
<1> DEFINE S == {g \in Handles : Open(g)}
<1>1. AbsHandles' = [h \in S |-> [name |-> NameOf(open_file_table[h].of_inumber)',
                                  pos  |-> open_file_table[h].of_offset]]
  BY DEF AbsHandles, Open, open_vars, NameOf
<1>2. \A h \in S : NameOf(open_file_table[h].of_inumber)' = NameOf(open_file_table[h].of_inumber)
  <2> SUFFICES ASSUME NEW h \in S
               PROVE  NameOf(open_file_table[h].of_inumber)' = NameOf(open_file_table[h].of_inumber)
    OBVIOUS
  <2>1. PICK i : i = open_file_table[h].of_inumber /\ i \in FileNumbers
    BY OpenOfFile
  <2>2. NameOf(open_file_table[h].of_inumber)' = NameOf(i)'
    BY <2>1 DEF NameOf, open_vars
  <2> QED
    BY <2>1, <2>2
<1> QED
  BY <1>1, <1>2 DEF AbsHandles

\* The position of a handle is all that changes when its offset does.
LEMMA HandleMoves ==
  ASSUME TablesInv, TablesInv', UNCHANGED <<dir_entry, free_open_file_entries>>,
         NEW h \in Handles, Open(h), NEW p,
         open_file_table' = [open_file_table EXCEPT ![h].of_offset = p]
  PROVE  AbsHandles' = [AbsHandles EXCEPT ![h].pos = p]
<1> DEFINE S == {g \in Handles : Open(g)}
<1>1. \A g \in Handles :
        /\ open_file_table'[g].of_inumber = open_file_table[g].of_inumber
        /\ open_file_table'[g].of_offset = IF g = h THEN p ELSE open_file_table[g].of_offset
  BY DEF TablesInv, StateTypeOK, OpenEntry
<1>2. AbsHandles' = [g \in S |-> [name |-> NameOf(open_file_table[g].of_inumber)',
                                  pos  |-> open_file_table'[g].of_offset]]
  BY DEF AbsHandles, Open, NameOf
<1>3. ASSUME NEW g \in S
      PROVE  NameOf(open_file_table[g].of_inumber)' = NameOf(open_file_table[g].of_inumber)
  <2>1. PICK i : i = open_file_table[g].of_inumber
    OBVIOUS
  <2>2. NameOf(open_file_table[g].of_inumber)' = NameOf(i)'
    BY <1>1, <2>1 DEF NameOf
  <2> QED
    BY <2>1, <2>2, SameNames
<1>4. PICK P : P = AbsHandles
  OBVIOUS
<1>5. /\ P = AbsHandles /\ DOMAIN P = S
      /\ \A g \in S : P[g] = [name |-> NameOf(open_file_table[g].of_inumber),
                              pos  |-> open_file_table[g].of_offset]
  BY <1>4 DEF AbsHandles
<1>6. AbsHandles' = [g \in S |-> IF g = h THEN [name |-> P[g].name, pos |-> p] ELSE P[g]]
  BY <1>1, <1>2, <1>3, <1>5
<1>7. h \in S /\ [P[h] EXCEPT !.pos = p] = [name |-> P[h].name, pos |-> p]
  BY <1>5
<1>8. [P EXCEPT ![h].pos = p] = [g \in S |-> IF g = h THEN [name |-> P[g].name, pos |-> p] ELSE P[g]]
  BY <1>5, <1>7
<1> QED
  BY <1>5, <1>6, <1>8

\* add_to_open_file_table grants a handle, unless none is free.
LEMMA Granted ==
  ASSUME TablesInv, TablesInv', NEW t \in Threads, NEW inum, NEW offset, NEW name,
         NEW cut, add_to_open_file_table(t, inum, offset, cut),
         \A i \in FileNumbers : NameOf(i)' = NameOf(i), NameOf(inum)' = name
  PROVE  Abstract!Grant(name, offset)
<1> DEFINE S == {g \in Handles : Open(g)}
<1>1. PICK h : h = First(FreeIn(free_open_file_entries))
  OBVIOUS
<1>2. /\ free_open_file_entries \in [Handles -> AllocState]
      /\ open_file_table \in [Handles -> OpenEntry]
  BY DEF TablesInv, StateTypeOK
<1>3. /\ \A g \in Handles : Open(g)' <=> Open(g) \/ g = h
      /\ h # -1 => h \in Handles \ S
  BY <1>1, <1>2, TakeFirstAt DEF add_to_open_file_table, Open, AllocState
<1>4. h = -1 => S = Handles
  <2> SUFFICES ASSUME h = -1, NEW g \in Handles, ~Open(g) PROVE FALSE
    OBVIOUS
  <2>1. FreeIn(free_open_file_entries) # {} /\ FreeIn(free_open_file_entries) \in SUBSET Nat
    BY <1>2, ConfigAssumption DEF FreeIn, Open, AllocState, Handles
  <2> QED
    BY <1>1, <2>1, FirstFound
<1>5. AbsReply' = [op |-> "open", val |-> h, data |-> <<>>]
  BY <1>1 DEF add_to_open_file_table, Returns, AbsReply
<1>6. \A g \in Handles : open_file_table'[g] =
        IF g = h THEN [of_inumber |-> inum, of_offset |-> offset] ELSE open_file_table[g]
  BY <1>1 DEF add_to_open_file_table
<1>7. AbsHandles' = [g \in S \cup ({h} \ {-1}) |->
                       [name |-> NameOf(open_file_table[g].of_inumber)',
                        pos  |-> (open_file_table[g].of_offset)']]
  <2>1. {g \in Handles : Open(g)}' = S \cup ({h} \ {-1})
    BY <1>3, ConfigAssumption DEF Handles
  <2> QED
    BY <2>1 DEF AbsHandles
<1>8. ASSUME NEW g \in S
      PROVE  /\ NameOf(open_file_table[g].of_inumber)' = NameOf(open_file_table[g].of_inumber)
             /\ (open_file_table[g].of_offset)' = open_file_table[g].of_offset
  <2>1. PICK i : i = open_file_table[g].of_inumber /\ i \in FileNumbers
    BY OpenOfFile
  <2>2. open_file_table'[g] = open_file_table[g]
    <3>1. g \in Handles /\ g # -1
      BY ConfigAssumption DEF Handles
    <3> QED
      BY <1>3, <1>6, <3>1
  <2>3. NameOf(open_file_table[g].of_inumber)' = NameOf(i)'
    BY <2>1, <2>2 DEF NameOf
  <2> QED
    BY <2>1, <2>2, <2>3
<1>9. PICK P : P = AbsHandles
  OBVIOUS
<1>10. /\ P = AbsHandles /\ DOMAIN P = S
       /\ \A g \in S : P[g] = [name |-> NameOf(open_file_table[g].of_inumber),
                               pos  |-> open_file_table[g].of_offset]
  BY <1>9 DEF AbsHandles
<1>11. CASE h = -1
  <2>1. AbsHandles' = [g \in S |-> P[g]]
    BY <1>7, <1>8, <1>10, <1>11
  <2>2. P = [g \in S |-> P[g]]
    BY <1>10 DEF AbsHandles
  <2>3. UNCHANGED AbsHandles /\ DOMAIN AbsHandles = Handles
    BY <1>4, <1>10, <1>11, <2>1, <2>2
  <2> QED
    BY <1>5, <1>11, <2>3 DEF Abstract!Grant, Abstract!Answers
<1>12. CASE h # -1
  <2>1. h \in Handles \ S /\ S \cup ({h} \ {-1}) = S \cup {h}
    BY <1>3, <1>12
  <2>2. /\ NameOf(open_file_table[h].of_inumber)' = name
        /\ (open_file_table[h].of_offset)' = offset
    <3>1. open_file_table'[h] = [of_inumber |-> inum, of_offset |-> offset]
      BY <1>6, <2>1
    <3> QED
      BY <3>1 DEF NameOf
  <2>3. AbsHandles' = [g \in S \cup {h} |-> IF g = h THEN [name |-> name, pos |-> offset] ELSE P[g]]
    BY <1>7, <1>8, <1>10, <2>1, <2>2
  <2>4. AbsHandles' = Abstract!With(AbsHandles, h, [name |-> name, pos |-> offset])
    BY <1>10, <2>3 DEF Abstract!With
  <2> QED
    BY <1>5, <1>10, <2>1, <2>4 DEF Abstract!Grant, Abstract!Answers
<1> QED
  BY <1>11, <1>12

\* What a call returns is the reply, but that a lookup only tells found from not.
LEMMA Replied ==
  ASSUME NEW op, NEW val, NEW data, Returns(op, val, data)
  PROVE  Abstract!Answers(op, IF op = "lookup" /\ val # -1 THEN 0 ELSE val, data)
BY DEF Returns, Abstract!Answers, AbsReply

\* Contents are as long as the size says.
LEMMA ContentsLength ==
  ASSUME TablesInv, NEW i \in Inumbers
  PROVE  /\ Len(Contents(i)) = inode_table[i].i_size
         /\ inode_table[i].i_size = 0 => Contents(i) = <<>>
<1>1. inode_table[i].i_size \in Nat
  BY DEF TablesInv, StateTypeOK, Inode
<1>2. inode_table[i].i_size = 0 => Contents(i) = <<>>
  BY DEF Contents
<1> QED
  BY <1>1, <1>2 DEF Contents

\* Files and handles stay with the tables.
LEMMA AllStays ==
  ASSUME TablesInv, NamesUnique, TablesInv', UNCHANGED state_vars
  PROVE  UNCHANGED <<AbsFiles, AbsHandles>>
<1>1. \A i : NameOf(i)' = NameOf(i)
  BY SameNames DEF state_vars
<1>2. AbsHandles' = AbsHandles
  BY <1>1, HandlesStay DEF state_vars
<1>3. \A i : Contents(i)' = Contents(i)
  BY DEF Contents, state_vars, inode_vars, block_vars
<1> QED
  BY <1>2, <1>3, FilesStay DEF state_vars

\* Every path is a path name, of a name that d_name can hold.
PathsFit == NamesFit /\ \A path \in Paths : path.sub # ""

\* tfs_lookup and tfs_open look the name up.
LEMMA LookupIs ==
  ASSUME TablesInv, NamesUnique, PathsFit, NEW path \in Paths
  PROVE  /\ path.sub \in Names /\ lookup(path) = find_in_dir(ROOT_DIR_INUM, path.sub)
         /\ lookup(path) = -1 <=> path.sub \notin FileNames
         /\ lookup(path) # -1 => lookup(path) \in FileNumbers /\ NameOf(lookup(path)) = path.sub
<1>1. path.sub \in Names \cup {""}
  BY OpsAssumption
<1>2. lookup(path) = find_in_dir(ROOT_DIR_INUM, path.sub)
  BY DEF PathsFit, NamesFit, lookup, valid_pathname
<1>3. \A i \in FileNumbers : i # -1
  BY ConfigAssumption DEF FileNumbers, Inumbers
<1> QED
  BY <1>1, <1>2, <1>3, Naming DEF PathsFit

\* What the steps of the refinement assume.
RefinesInv ==
  /\ TablesInv /\ NamesUnique /\ OffsetWithinFile /\ undercut = {} /\ PathsFit

\* tfs_lookup answers whether there is such a file.
LEMMA LookupRefines ==
  ASSUME RefinesInv, TablesInv', NEW t, NEW path \in Paths, tfs_lookup(t, path)
  PROVE  Abstract!Lookup(path.sub)
<1>1. UNCHANGED state_vars /\ UNCHANGED destroyed /\ Returns("lookup", lookup(path), <<>>)
  BY DEF tfs_lookup
<1>2. UNCHANGED <<AbsFiles, AbsHandles, AbsAlive>>
  BY <1>1, AllStays DEF RefinesInv, AbsAlive
<1>3. lookup(path) = -1 <=> path.sub \notin DOMAIN AbsFiles
  BY LookupIs DEF RefinesInv, AbsFiles
<1>4. Abstract!Answers("lookup", IF path.sub \in DOMAIN AbsFiles THEN 0 ELSE -1, <<>>)
  BY <1>1, <1>3, Replied
<1> QED
  BY <1>2, <1>4 DEF Abstract!Lookup

\* The first step of tfs_open on a file that exists opens it, emptied or not.
LEMMA OpenExistingRefines ==
  ASSUME RefinesInv, TablesInv', NEW t \in Threads, NEW path \in Paths, NEW flags,
         OpenExisting(t, path, flags), UNCHANGED destroyed
  PROVE  Abstract!OpenFile(path.sub, flags)
<1> DEFINE inode == inode_table[lookup(path)]
           trunc == "TRUNC" \in flags /\ inode.i_size > 0
           size  == IF trunc THEN 0 ELSE inode.i_size
           c     == IF "TRUNC" \in flags THEN <<>> ELSE AbsFiles[path.sub]
           pos   == IF "APPEND" \in flags THEN Len(c) ELSE 0
           cut   == IF trunc THEN PastStart(lookup(path)) ELSE {}
<1>1. PICK inum : inum = lookup(path) /\ inum # -1
  BY DEF OpenExisting
<1>2. /\ inum \in FileNumbers /\ NameOf(inum) = path.sub /\ path.sub \in FileNames
      /\ inum = find_in_dir(ROOT_DIR_INUM, path.sub)
  BY <1>1, LookupIs DEF RefinesInv
<1>3. /\ inode_table \in [Inumbers -> Inode] /\ inum \in Inumbers /\ inode.i_size \in Nat
      /\ freeinode_ts[inum] = "TAKEN"
  BY <1>1, <1>2 DEF RefinesInv, TablesInv, StateTypeOK, Inode, FileNumbers
<1>4. trunc => valid_block_number(inode.i_data_block)
  BY <1>1, <1>3 DEF RefinesInv, TablesInv, BlocksOwned, Owners, valid_block_number
<1>5. /\ inode_table' = [inode_table EXCEPT ![inum].i_size = size]
      /\ add_to_open_file_table(t, inum, IF "APPEND" \in flags THEN size ELSE 0, cut)
      /\ UNCHANGED <<freeinode_ts, fs_data, dir_entry>>
  BY <1>1, <1>4 DEF OpenExisting
<1>6. \A i \in Inumbers : /\ inode_table'[i].i_size = IF i = inum THEN size ELSE inode_table[i].i_size
                          /\ inode_table'[i].i_data_block = inode_table[i].i_data_block
  BY <1>3, <1>5 DEF Inode
<1>7. AbsFiles[path.sub] = Contents(inum)
  BY <1>2 DEF AbsFiles
<1>8. Contents(inum)' = c
  <2>1. CASE size = inode.i_size /\ inode.i_size > 0
    BY <1>1, <1>3, <1>5, <1>6, <1>7, <2>1, ContentsStay
  <2>2. CASE size = 0
    <3>1. Contents(inum)' = <<>>
      BY <1>3, <1>6, <2>2 DEF Contents
    <3>2. ~trunc => Contents(inum) = <<>>
      BY <1>1, <1>3, <2>2, ContentsLength DEF RefinesInv
    <3> QED
      BY <1>7, <2>2, <3>1, <3>2
  <2> QED
    BY <1>3, <2>1, <2>2
<1>9. Len(c) = size
  BY <1>1, <1>3, <1>7, ContentsLength DEF RefinesInv
<1> HIDE DEF c
<1>10. \A i \in FileNumbers : Contents(i)' = IF i = inum THEN c ELSE Contents(i)
  BY <1>5, <1>6, <1>8, ContentsStay DEF FileNumbers
<1>11. AbsFiles' = [AbsFiles EXCEPT ![path.sub] = c]
  BY <1>2, <1>5, <1>10, FileChanges DEF RefinesInv
<1>12. \A i : NameOf(i)' = NameOf(i)
  BY <1>5, SameNames DEF RefinesInv
<1>13. Abstract!Grant(path.sub, pos)
  BY <1>2, <1>5, <1>9, <1>12, Granted DEF RefinesInv
<1>14. path.sub \in DOMAIN AbsFiles /\ UNCHANGED AbsAlive
  BY <1>2 DEF AbsFiles, AbsAlive
<1> QED
  BY <1>11, <1>13, <1>14 DEF Abstract!OpenFile, c

\* EntryIs, in a form that can be primed.
LEMMA EntriesAre ==
  TablesInv /\ NamesUnique => \A s \in DirSlots \ EmptySlots :
    /\ find_in_dir(ROOT_DIR_INUM, dir_entry[s].d_name) = dir_entry[s].d_inumber
    /\ SlotOf(dir_entry[s].d_inumber) = s
    /\ dir_entry[s].d_inumber \in FileNumbers
BY EntryIs

\* A creation adds a name and leaves the others where they are.
LEMMA CreationNames ==
  ASSUME RefinesInv, TablesInv', NamesUnique',
         NEW t, NEW path \in Paths, NEW flags, OpenCreate(t, path, flags)
  PROVE  /\ FileNames' = FileNames \cup {path.sub} /\ path.sub \notin FileNames
         /\ \A n \in FileNames : find_in_dir(ROOT_DIR_INUM, n)' = find_in_dir(ROOT_DIR_INUM, n)
         /\ find_in_dir(ROOT_DIR_INUM, path.sub)' = inode_create
         /\ \A i \in FileNumbers : NameOf(i)' = NameOf(i)
         /\ \A i : i = inode_create => NameOf(i)' = path.sub
<1>1. PICK inum, slot : inum = inode_create /\ slot = First(EmptySlots)
  OBVIOUS
<1>2. /\ EmptySlots # {} /\ path.sub # "" /\ inum # -1
      /\ dir_entry' = add_dir_entry(inum, path.sub)
  BY <1>1 DEF OpenCreate, CanAddEntry
<1>3. slot \in EmptySlots
  <2>1. EmptySlots \in SUBSET Nat
    BY ConfigAssumption DEF EmptySlots, DirSlots
  <2> QED
    BY <1>1, <1>2, <2>1, FirstFound
<1>4. \A s \in DirSlots : /\ s = slot => /\ dir_entry'[s].d_name = path.sub
                                         /\ dir_entry'[s].d_inumber = inum
                          /\ s # slot => dir_entry'[s] = dir_entry[s]
  BY <1>1, <1>2, <1>3 DEF add_dir_entry, RefinesInv, PathsFit, NamesFit, TablesInv, StateTypeOK
<1>5. \A s \in DirSlots : s \notin EmptySlots' <=> s \notin EmptySlots \/ s = slot
  BY <1>2, <1>3, <1>4 DEF EmptySlots
<1>6. slot \in DirSlots
  BY <1>3 DEF EmptySlots
<1>7. /\ \A s \in DirSlots \ EmptySlots :
           /\ find_in_dir(ROOT_DIR_INUM, dir_entry[s].d_name) = dir_entry[s].d_inumber
           /\ SlotOf(dir_entry[s].d_inumber) = s
      /\ \A s \in DirSlots : s \notin EmptySlots \/ s = slot =>
           /\ \A n : n = dir_entry'[s].d_name => find_in_dir(ROOT_DIR_INUM, n)' = dir_entry'[s].d_inumber
           /\ \A i : i = dir_entry'[s].d_inumber => SlotOf(i)' = s
  <2>1. (TablesInv /\ NamesUnique => \A s \in DirSlots \ EmptySlots :
           /\ find_in_dir(ROOT_DIR_INUM, dir_entry[s].d_name) = dir_entry[s].d_inumber
           /\ SlotOf(dir_entry[s].d_inumber) = s
           /\ dir_entry[s].d_inumber \in FileNumbers)'
    BY EntriesAre, PTL
  <2>2. ASSUME NEW s \in DirSlots, s \notin EmptySlots \/ s = slot
        PROVE  /\ \A n : n = dir_entry'[s].d_name =>
                    find_in_dir(ROOT_DIR_INUM, n)' = dir_entry'[s].d_inumber
               /\ \A i : i = dir_entry'[s].d_inumber => SlotOf(i)' = s
    <3>1. s \in (DirSlots \ EmptySlots)'
      BY <1>5, <2>2
    <3>2. /\ find_in_dir(ROOT_DIR_INUM, dir_entry[s].d_name)' = dir_entry'[s].d_inumber
          /\ SlotOf(dir_entry[s].d_inumber)' = s
      BY <2>1, <3>1 DEF RefinesInv
    <3> QED
      BY <3>2 DEF find_in_dir, Matches, SlotOf
  <2> QED
    BY <2>2, EntryIs DEF RefinesInv
<1>8. path.sub \notin FileNames
  BY CreatedIsMissing DEF FileNames, RefinesInv, PathsFit
<1>9. FileNames' = FileNames \cup {path.sub}
  <2>1. \A s \in DirSlots \ EmptySlots : s # slot /\ dir_entry'[s].d_name = dir_entry[s].d_name
    BY <1>3, <1>4
  <2> QED
    BY <1>3, <1>4, <1>5, <1>6, <2>1 DEF FileNames
<1>10. ASSUME NEW n \in FileNames
       PROVE  find_in_dir(ROOT_DIR_INUM, n)' = find_in_dir(ROOT_DIR_INUM, n)
  <2>1. PICK s \in DirSlots \ EmptySlots : n = dir_entry[s].d_name
    BY DEF FileNames
  <2>2. dir_entry'[s] = dir_entry[s]
    BY <1>3, <1>4
  <2> QED
    BY <1>7, <2>1, <2>2
<1>11. ASSUME NEW i \in FileNumbers
       PROVE  NameOf(i)' = NameOf(i)
  <2>1. PICK s \in DirSlots : dir_entry[s].d_inumber = i
    BY DEF FileNumbers, RefinesInv, TablesInv, EntriesMatch
  <2>2. s \notin EmptySlots
    BY <2>1, ConfigAssumption DEF EmptySlots, FileNumbers, Inumbers
  <2>3. dir_entry'[s] = dir_entry[s]
    BY <1>3, <1>4, <2>2
  <2> QED
    BY <1>7, <2>1, <2>2, <2>3 DEF NameOf
<1>12. ASSUME NEW i, i = inum
       PROVE  NameOf(i)' = path.sub
  BY <1>4, <1>6, <1>7, <1>12 DEF NameOf
<1>13. find_in_dir(ROOT_DIR_INUM, path.sub)' = inum
  BY <1>4, <1>6, <1>7
<1> QED
  BY <1>1, <1>8, <1>9, <1>10, <1>11, <1>12, <1>13

\* A new i-node is not that of a file, and the step that takes it leaves the
\* contents of the files.
LEMMA CreationContents ==
  ASSUME TablesInv, UNCHANGED fs_data,
         \A i \in Inumbers : i # inode_create => inode_table'[i] = inode_table[i]
  PROVE  \A i \in FileNumbers : i # inode_create /\ Contents(i)' = Contents(i)
<1> SUFFICES ASSUME NEW i \in FileNumbers PROVE i # inode_create /\ Contents(i)' = Contents(i)
  OBVIOUS
<1>1. i \in Inumbers /\ i # -1 /\ freeinode_ts[i] = "TAKEN"
  BY ConfigAssumption DEF FileNumbers, Inumbers
<1>2. inode_create = -1 \/ freeinode_ts[inode_create] = "FREE"
  BY FirstOrNone DEF inode_create, FreeIn
<1>3. i # inode_create
  BY <1>1, <1>2
<1> QED
  BY <1>1, <1>3, ContentsStay

\* The first step of tfs_open on a file that does not exist creates it, empty.
LEMMA OpenCreateRefines ==
  ASSUME RefinesInv, TablesInv', NamesUnique',
         NEW t \in Threads, NEW path \in Paths, NEW flags,
         OpenCreate(t, path, flags), UNCHANGED destroyed
  PROVE  Abstract!CreateFile(path.sub, flags)
<1>1. PICK inum : inum = inode_create /\ inum # -1
  BY DEF OpenCreate
<1>2. /\ "CREAT" \in flags /\ inode_table' = [inode_table EXCEPT ![inum] = NewFile]
      /\ add_to_open_file_table(t, inum, 0, {}) /\ UNCHANGED fs_data
  BY <1>1 DEF OpenCreate, block_vars
<1>3. inode_table \in [Inumbers -> Inode] /\ inum \in Inumbers
  <2>1. inum \in FreeIn(freeinode_ts)
    BY <1>1, FirstOrNone DEF inode_create
  <2> QED
    BY <2>1 DEF FreeIn, RefinesInv, TablesInv, StateTypeOK
<1>4. Contents(inum)' = <<>>
  BY <1>2, <1>3 DEF Contents, NewFile
<1>5. \A i \in FileNumbers : i # inum /\ Contents(i)' = Contents(i)
  BY <1>1, <1>2, <1>3, CreationContents DEF RefinesInv
<1>6. /\ FileNames' = FileNames \cup {path.sub} /\ path.sub \notin FileNames
      /\ \A n \in FileNames : find_in_dir(ROOT_DIR_INUM, n)' = find_in_dir(ROOT_DIR_INUM, n)
      /\ find_in_dir(ROOT_DIR_INUM, path.sub)' = inum
      /\ \A i \in FileNumbers : NameOf(i)' = NameOf(i)
      /\ NameOf(inum)' = path.sub
  BY <1>1, CreationNames
<1>7. AbsFiles' = [n \in FileNames \cup {path.sub} |-> Contents(find_in_dir(ROOT_DIR_INUM, n))']
  BY <1>6 DEF AbsFiles
<1>8. ASSUME NEW n \in FileNames
      PROVE  Contents(find_in_dir(ROOT_DIR_INUM, n))' = AbsFiles[n]
  <2>1. PICK i : i = find_in_dir(ROOT_DIR_INUM, n) /\ i \in FileNumbers
    BY Naming DEF RefinesInv
  <2>2. Contents(find_in_dir(ROOT_DIR_INUM, n))' = Contents(i)'
    BY <1>6, <2>1 DEF Contents
  <2> QED
    BY <1>5, <2>1, <2>2 DEF AbsFiles
<1>9. Contents(find_in_dir(ROOT_DIR_INUM, path.sub))' = <<>>
  BY <1>4, <1>6 DEF Contents
<1>10. DOMAIN AbsFiles = FileNames
  BY DEF AbsFiles
<1>11. AbsFiles' = [n \in FileNames \cup {path.sub} |-> IF n = path.sub THEN <<>> ELSE AbsFiles[n]]
  BY <1>6, <1>7, <1>8, <1>9
<1>12. AbsFiles' = Abstract!With(AbsFiles, path.sub, <<>>)
  BY <1>10, <1>11 DEF Abstract!With
<1>13. Abstract!Grant(path.sub, 0)
  BY <1>2, <1>6, Granted DEF RefinesInv
<1> QED
  BY <1>2, <1>6, <1>10, <1>12, <1>13 DEF Abstract!CreateFile, AbsAlive

\* A tfs_open that fails refuses a file that does not exist.
LEMMA OpenFailsRefines ==
  ASSUME RefinesInv, TablesInv', NEW path \in Paths, NEW flags, UNCHANGED destroyed,
         OpenCreateFails(path, flags) \/ OpenMissing(path, flags)
  PROVE  Abstract!RefuseOpen(path.sub)
<1>1. /\ lookup(path) = -1 /\ Returns("open", -1, <<>>)
      /\ UNCHANGED <<fs_data, dir_entry, open_vars>>
      /\ \A i \in Inumbers : i # inode_create => inode_table'[i] = inode_table[i]
  BY DEF OpenCreateFails, OpenMissing, OpenFails, block_vars, inode_vars
<1>2. path.sub \notin DOMAIN AbsFiles
  BY <1>1, LookupIs DEF RefinesInv, AbsFiles
<1>3. Abstract!Answers("open", -1, <<>>)
  BY <1>1, Replied
<1>4. \A i : NameOf(i)' = NameOf(i)
  BY <1>1, SameNames DEF RefinesInv
<1>5. AbsHandles' = AbsHandles
  BY <1>1, <1>4, HandlesStay DEF RefinesInv
<1>6. \A i \in FileNumbers : Contents(i)' = Contents(i)
  BY <1>1, CreationContents DEF RefinesInv
<1>7. AbsFiles' = AbsFiles
  BY <1>1, <1>6, FilesStay DEF RefinesInv
<1> QED
  BY <1>2, <1>3, <1>5, <1>7 DEF Abstract!RefuseOpen, AbsAlive

\* tfs_close gives the handle up.
LEMMA CloseRefines ==
  ASSUME RefinesInv, TablesInv', NEW t, NEW h \in Held, tfs_close(t, h)
  PROVE  Abstract!Close(h)
<1> DEFINE S == {g \in Handles : Open(g)}
<1>1. /\ h \in Handles /\ Open(h) /\ Returns("close", 0, <<>>)
      /\ free_open_file_entries' = Release(free_open_file_entries, h)
      /\ UNCHANGED <<inode_vars, block_vars, dir_entry, open_file_table, destroyed>>
  BY DEF tfs_close, Held
<1>2. free_open_file_entries \in [Handles -> AllocState]
  BY DEF RefinesInv, TablesInv, StateTypeOK
<1>3. S' = S \ {h}
  BY <1>1, <1>2 DEF Open, Release
<1>4. \A i : NameOf(i)' = NameOf(i)
  BY <1>1, SameNames DEF RefinesInv
<1>5. \A g \in S : NameOf(open_file_table[g].of_inumber)' = NameOf(open_file_table[g].of_inumber)
  BY <1>1 DEF NameOf, SlotOf
<1>6. AbsHandles' = [g \in S \ {h} |-> [name |-> NameOf(open_file_table[g].of_inumber),
                                        pos  |-> open_file_table[g].of_offset]]
  BY <1>1, <1>3, <1>5 DEF AbsHandles
<1>7. DOMAIN AbsHandles = S /\ h \in S
  BY <1>1 DEF AbsHandles
<1>8. AbsHandles' = [g \in DOMAIN AbsHandles \ {h} |-> AbsHandles[g]]
  BY <1>6, <1>7 DEF AbsHandles
<1>9. \A i : Contents(i)' = Contents(i)
  BY <1>1 DEF Contents, inode_vars, block_vars
<1>10. AbsFiles' = AbsFiles
  BY <1>1, <1>9, FilesStay DEF RefinesInv
<1>11. Abstract!Answers("close", 0, <<>>)
  BY <1>1, Replied
<1> QED
  BY <1>1, <1>7, <1>8, <1>10, <1>11 DEF Abstract!Close, AbsAlive

\* A handle that a caller holds, and its file.
LEMMA HeldIs ==
  ASSUME RefinesInv, NEW h \in Held
  PROVE  /\ h \in Handles /\ Open(h) /\ open_file_table[h].of_inumber \in FileNumbers
         /\ h \in DOMAIN AbsHandles
         /\ AbsHandles[h].name = NameOf(open_file_table[h].of_inumber)
         /\ AbsHandles[h].pos = open_file_table[h].of_offset
         /\ AbsFiles[AbsHandles[h].name] = Contents(open_file_table[h].of_inumber)
         /\ Len(AbsFiles[AbsHandles[h].name])
              = inode_table[open_file_table[h].of_inumber].i_size
         /\ open_file_table[h].of_offset \in Nat
         /\ inode_table[open_file_table[h].of_inumber].i_size \in Nat
         /\ open_file_table[h].of_offset <= inode_table[open_file_table[h].of_inumber].i_size
         /\ inode_table[open_file_table[h].of_inumber].i_size <= BLOCK_SIZE
<1>1. PICK i : i = open_file_table[h].of_inumber
  OBVIOUS
<1>2. /\ h \in Handles /\ Open(h) /\ i \in FileNumbers
  BY <1>1, OpenOfFile DEF Held, RefinesInv
<1>3. /\ h \in DOMAIN AbsHandles /\ AbsHandles[h].name = NameOf(i)
      /\ AbsHandles[h].pos = open_file_table[h].of_offset
  BY <1>1, <1>2 DEF AbsHandles
<1>4. AbsFiles[NameOf(i)] = Contents(i)
  BY <1>2, Naming DEF RefinesInv, AbsFiles
<1>5. i \in Inumbers /\ Len(Contents(i)) = inode_table[i].i_size
  BY <1>2, ContentsLength DEF RefinesInv, FileNumbers
<1>6. /\ open_file_table[h].of_offset \in Nat /\ inode_table[i].i_size \in Nat
      /\ open_file_table[h].of_offset <= inode_table[i].i_size
      /\ inode_table[i].i_size <= BLOCK_SIZE
  BY <1>1, <1>2, <1>5 DEF RefinesInv, TablesInv, StateTypeOK, OpenEntry, Inode, OffsetWithinFile,
                          SizeWithinBlock
<1> QED
  BY <1>1, <1>2, <1>3, <1>4, <1>5, <1>6

\* The smaller and the larger of two numbers.
LEMMA MinMax ==
  ASSUME NEW a \in Int, NEW b \in Int
  PROVE  /\ Abstract!Min({a, b}) = IF a <= b THEN a ELSE b
         /\ Abstract!Max({a, b}) = IF a <= b THEN b ELSE a
BY DEF Abstract!Min, Abstract!Max

\* A write through a handle replaces bytes of its file only.
LEMMA WriteContents ==
  ASSUME TablesInv, NEW inum \in FileNumbers, NEW offset \in Nat, NEW n \in Nat, NEW d, NEW block,
         offset <= inode_table[inum].i_size, n > 0, offset + n <= BLOCK_SIZE,
         block = IF inode_table[inum].i_size = 0 THEN data_block_alloc
                                                 ELSE inode_table[inum].i_data_block,
         valid_block_number(block),
         fs_data' = [fs_data EXCEPT ![block] = Overwritten(@, offset, n, d)],
         inode_table' = [inode_table EXCEPT ![inum].i_data_block = block,
                                            ![inum].i_size = Larger(@, offset + n)]
  PROVE  \A i \in FileNumbers : Contents(i)' =
           IF i = inum THEN [k \in 1 .. Larger(inode_table[inum].i_size, offset + n) |->
                               IF k \in offset + 1 .. offset + n THEN d ELSE Contents(inum)[k]]
                       ELSE Contents(i)
<1>1. PICK s, z : s = inode_table[inum].i_size /\ z = Larger(s, offset + n)
  OBVIOUS
<1>2. /\ inode_table \in [Inumbers -> Inode] /\ fs_data \in [Blocks -> [Offsets -> Data]]
      /\ free_blocks \in [Blocks -> AllocState] /\ inum \in Inumbers /\ block \in Blocks
      /\ s \in Nat /\ s <= BLOCK_SIZE /\ BLOCK_SIZE \in Nat
      /\ offset <= s
  BY <1>1, Sizes DEF TablesInv, StateTypeOK, SizeWithinBlock, FileNumbers, valid_block_number, Inode
<1>3. /\ z \in Nat /\ s <= z /\ z <= BLOCK_SIZE /\ offset + n <= z
      /\ z # s => z = offset + n
  BY <1>1, <1>2 DEF Larger
<1>4. \A i \in Inumbers :
        /\ inode_table'[i].i_size = IF i = inum THEN z ELSE inode_table[i].i_size
        /\ inode_table'[i].i_data_block = IF i = inum THEN block ELSE inode_table[i].i_data_block
  BY <1>1, <1>2 DEF Inode
<1>5. /\ \A k \in Offsets : fs_data'[block][k] =
           IF k >= offset /\ k < offset + n THEN d ELSE fs_data[block][k]
      /\ \A b : b # block /\ b \in Blocks => fs_data'[b] = fs_data[b]
  BY <1>2 DEF Overwritten
<1>6. Contents(inum)' = [k \in 1 .. z |-> IF k \in offset + 1 .. offset + n THEN d
                                                                    ELSE Contents(inum)[k]]
  <2>1. ASSUME NEW k \in 1 .. z
        PROVE  fs_data'[block][k - 1] = IF k \in offset + 1 .. offset + n THEN d
                                                                   ELSE Contents(inum)[k]
    <3>1. /\ k - 1 \in Offsets
          /\ (k \in offset + 1 .. offset + n <=> k - 1 >= offset /\ k - 1 < offset + n)
      BY <1>2, <1>3 DEF Offsets
    <3>2. k \notin offset + 1 .. offset + n => k \in 1 .. s /\ s > 0
      BY <1>2, <1>3
    <3>3. k \in 1 .. s => Contents(inum)[k] = fs_data[inode_table[inum].i_data_block][k - 1]
      BY <1>1 DEF Contents
    <3> QED
      BY <1>1, <1>5, <3>1, <3>2, <3>3
  <2>2. Contents(inum)' = [k \in 1 .. z |-> fs_data'[block][k - 1]]
    BY <1>2, <1>4 DEF Contents
  <2> QED
    BY <2>1, <2>2
<1>7. ASSUME NEW i \in FileNumbers, i # inum
      PROVE  Contents(i)' = Contents(i)
  <2>1. i \in Inumbers /\ inode_table[i].i_size \in Nat
    BY <1>2 DEF FileNumbers, Inode
  <2>2. CASE inode_table[i].i_size = 0
    <3>1. inode_table'[i].i_size = inode_table[i].i_size /\ inode_table[i].i_size = 0
      BY <1>4, <1>7, <2>1, <2>2
    <3> QED
      BY <3>1, ContentsStay
  <2>3. CASE inode_table[i].i_size > 0
    <3>1. /\ i \in Owners /\ inode_table[i].i_data_block \in Blocks
          /\ free_blocks[inode_table[i].i_data_block] = "TAKEN"
      BY <2>1, <2>3 DEF Owners, FileNumbers, TablesInv, BlocksOwned
    <3>2. inode_table[i].i_data_block # block
      <4>1. CASE s = 0
        <5>1. block = -1 \/ free_blocks[block] = "FREE"
          BY <1>1, <4>1, FirstOrNone DEF data_block_alloc, FreeIn
        <5>2. block # -1
          BY <1>2, ConfigAssumption DEF Blocks
        <5> QED
          BY <3>1, <5>1, <5>2
      <4>2. CASE s > 0
        <5>1. inum \in Owners /\ block = inode_table[inum].i_data_block
          BY <1>1, <1>2, <4>2 DEF Owners, FileNumbers
        <5> QED
          BY <1>7, <3>1, <5>1 DEF TablesInv, BlocksOwned
      <4> QED
        BY <1>2, <4>1, <4>2
    <3>3. /\ inode_table'[i].i_size = inode_table[i].i_size
          /\ inode_table'[i].i_data_block = inode_table[i].i_data_block
          /\ fs_data'[inode_table[i].i_data_block] = fs_data[inode_table[i].i_data_block]
      BY <1>4, <1>5, <1>7, <2>1, <3>1, <3>2
    <3> QED
      BY <3>3, ContentsStay
  <2> QED
    BY <2>1, <2>2, <2>3
<1> QED
  BY <1>1, <1>6, <1>7

\* tfs_write writes at the handle, as much as the largest file allows, unless the
\* file is empty and no block is left.
LEMMA WriteRefines ==
  ASSUME RefinesInv, TablesInv', NEW h \in Held, NEW d \in Data, NEW len \in Lens, Write(h, d, len),
         UNCHANGED destroyed
  PROVE  \/ Abstract!Write(h, d, len) \/ Abstract!RefuseWrite(h)
         \/ UNCHANGED <<AbsFiles, AbsHandles, AbsAlive, AbsReply>>
<1>1. PICK inum, pos, s, n, z, name :
        /\ inum = open_file_table[h].of_inumber /\ pos = open_file_table[h].of_offset
        /\ s = inode_table[inum].i_size /\ n = to_write(pos, len) /\ z = Larger(s, pos + n)
        /\ name = NameOf(inum)
  OBVIOUS
<1>2. /\ h \in Handles /\ Open(h) /\ inum \in FileNumbers /\ h \in DOMAIN AbsHandles
      /\ AbsHandles[h].name = name /\ AbsHandles[h].pos = pos
      /\ AbsFiles[name] = Contents(inum) /\ Len(AbsFiles[name]) = s
      /\ pos \in Nat /\ s \in Nat /\ pos <= s /\ s <= BLOCK_SIZE
  BY <1>1, HeldIs
<1>3. /\ len \in Nat /\ BLOCK_SIZE \in Nat /\ inode_table \in [Inumbers -> Inode]
      /\ open_file_table \in [Handles -> OpenEntry] /\ inum \in Inumbers
  BY <1>2, OpsAssumption, Sizes DEF RefinesInv, TablesInv, StateTypeOK, FileNumbers
<1>4. n = Abstract!Min({len, BLOCK_SIZE - pos}) /\ n \in Nat /\ pos + n <= BLOCK_SIZE
  <2>1. n = IF len <= BLOCK_SIZE - pos THEN len ELSE BLOCK_SIZE - pos
    BY <1>1, <1>2, <1>3 DEF to_write, size_sub
  <2> QED
    BY <1>2, <1>3, <2>1, MinMax
<1>5. z = Abstract!Max({s, pos + n}) /\ z \in Nat
  <2>1. PICK e : e = pos + n
    OBVIOUS
  <2>2. s \in Int /\ e \in Int /\ z = (IF s <= e THEN e ELSE s) /\ z \in Nat
    BY <1>1, <1>2, <1>4, <2>1 DEF Larger
  <2>3. z = Abstract!Max({s, e})
    BY <2>2, MinMax
  <2> QED
    BY <2>1, <2>2, <2>3
<1> DEFINE new == [k \in 1 .. z |-> IF k \in pos + 1 .. pos + n THEN d ELSE AbsFiles[name][k]]
<1>6. ASSUME Returns("write", n, <<>>), UNCHANGED <<dir_entry, free_open_file_entries>>,
             open_file_table' = [open_file_table EXCEPT ![h].of_offset = pos + n],
             \A i \in FileNumbers : Contents(i)' = IF i = inum THEN new ELSE Contents(i)
      PROVE  Abstract!Write(h, d, len)
  <2>4. PICK c : c = new
    OBVIOUS
  <2>5. \A i \in FileNumbers : Contents(i)' = IF i = inum THEN c ELSE Contents(i)
    BY <1>6, <2>4
  <2>6. AbsFiles' = [AbsFiles EXCEPT ![NameOf(inum)] = c]
    BY <1>2, <1>6, <2>5, FileChanges DEF RefinesInv
  <2>1. AbsFiles' = [AbsFiles EXCEPT ![name] = new]
    BY <1>1, <2>4, <2>6
  <2>2. AbsHandles' = [AbsHandles EXCEPT ![h].pos = pos + n]
    BY <1>2, <1>6, HandleMoves DEF RefinesInv
  <2>3. Abstract!Answers("write", n, <<>>)
    BY <1>6, Replied
  <2> QED
    BY <1>2, <1>4, <1>5, <2>1, <2>2, <2>3 DEF Abstract!Write, AbsAlive
<1> HIDE DEF new
<1>7. CASE n = 0
  <2>1. UNCHANGED state_vars /\ Returns("write", n, <<>>)
    BY <1>1, <1>7 DEF Write
  <2>2. open_file_table' = [open_file_table EXCEPT ![h].of_offset = pos + n]
    BY <1>1, <1>2, <1>3, <1>7, <2>1 DEF state_vars, open_vars, OpenEntry
  <2>3. new = Contents(inum)
    <3>1. z = s /\ \A k \in 1 .. s : k \notin pos + 1 .. pos + n
      BY <1>1, <1>2, <1>7 DEF Larger
    <3>2. new = [k \in 1 .. s |-> Contents(inum)[k]]
      BY <1>2, <3>1 DEF new
    <3>3. Contents(inum) = [k \in 1 .. s |-> Contents(inum)[k]]
      BY <1>1 DEF Contents
    <3> QED
      BY <3>2, <3>3
  <2>4. \A i : Contents(i)' = Contents(i)
    BY <2>1 DEF Contents, state_vars, inode_vars, block_vars
  <2> QED
    BY <1>6, <2>1, <2>2, <2>3, <2>4 DEF state_vars, open_vars
<1>8. PICK block : block = IF s = 0 THEN data_block_alloc ELSE inode_table[inum].i_data_block
  OBVIOUS
<1>9. CASE n > 0 /\ ~valid_block_number(block)
  <2>1. /\ inode_table' = [inode_table EXCEPT ![inum].i_data_block = block]
        /\ Returns("write", -1, <<>>)
        /\ UNCHANGED <<freeinode_ts, block_vars, dir_entry, open_vars>>
    BY <1>1, <1>4, <1>8, <1>9 DEF Write
  <2>2. s = 0
    BY <1>1, <1>2, <1>3, <1>8, <1>9 DEF RefinesInv, TablesInv, BlocksOwned, Owners,
                                       valid_block_number, FileNumbers
  <2>3. \A i \in Inumbers : /\ inode_table'[i].i_size = inode_table[i].i_size
                            /\ i # inum => inode_table'[i] = inode_table[i]
    BY <1>3, <2>1 DEF Inode
  <2>4. ASSUME NEW i \in FileNumbers
        PROVE  Contents(i)' = Contents(i)
    <3>1. i = inum => inode_table[i].i_size = 0
      BY <1>1, <2>2
    <3>2. /\ inode_table'[i].i_size = inode_table[i].i_size
          /\ (i # inum => inode_table'[i] = inode_table[i])
      BY <2>3 DEF FileNumbers
    <3> QED
      BY <2>1, <3>1, <3>2, ContentsStay DEF block_vars
  <2>5. AbsFiles' = AbsFiles
    BY <2>1, <2>4, FilesStay DEF RefinesInv
  <2>6. AbsHandles' = AbsHandles
    BY <2>1, SameNames, HandlesStay DEF RefinesInv
  <2>7. AbsFiles[name] = <<>>
    BY <1>1, <1>2, <1>3, <2>2, ContentsLength DEF RefinesInv
  <2>8. Abstract!Answers("write", -1, <<>>)
    BY <2>1, Replied
  <2> QED
    BY <1>2, <2>5, <2>6, <2>7, <2>8 DEF Abstract!RefuseWrite, AbsAlive
<1>10. CASE n > 0 /\ valid_block_number(block)
  <2>1. /\ fs_data' = [fs_data EXCEPT ![block] = Overwritten(@, pos, n, d)]
        /\ inode_table' = [inode_table EXCEPT ![inum].i_data_block = block,
                                              ![inum].i_size = Larger(@, pos + n)]
        /\ open_file_table' = [open_file_table EXCEPT ![h].of_offset = pos + n]
        /\ Returns("write", n, <<>>)
        /\ UNCHANGED <<freeinode_ts, dir_entry, free_open_file_entries>>
    <3>1. n # 0 /\ ~(pos + n > BLOCK_SIZE)
      BY <1>2, <1>3, <1>4, <1>10
    <3>2. inum # ROOT_DIR_INUM
      BY <1>2 DEF FileNumbers
    <3> QED
      BY <1>1, <1>8, <1>10, <3>1, <3>2 DEF Write
  <2>2. \A i \in FileNumbers : Contents(i)' =
           IF i = inum THEN [k \in 1 .. Larger(inode_table[inum].i_size, pos + n) |->
                               IF k \in pos + 1 .. pos + n THEN d ELSE Contents(inum)[k]]
                       ELSE Contents(i)
    <3>1. /\ inum \in FileNumbers /\ pos \in Nat /\ n \in Nat /\ n > 0 /\ pos + n <= BLOCK_SIZE
          /\ pos <= inode_table[inum].i_size /\ valid_block_number(block)
          /\ block = IF inode_table[inum].i_size = 0 THEN data_block_alloc
                                                      ELSE inode_table[inum].i_data_block
      BY <1>1, <1>2, <1>4, <1>8, <1>10
    <3> QED
      BY <2>1, <3>1, WriteContents DEF RefinesInv
  <2>3. \A i \in FileNumbers : Contents(i)' = IF i = inum THEN new ELSE Contents(i)
    BY <1>1, <1>2, <2>2 DEF new
  <2> QED
    BY <1>6, <2>1, <2>3
<1> QED
  BY <1>4, <1>7, <1>9, <1>10

\* tfs_read returns what the file holds from the handle on.
LEMMA ReadRefines ==
  ASSUME RefinesInv, TablesInv', NEW h \in Held, NEW len \in Lens, Read(h, len), UNCHANGED destroyed
  PROVE  Abstract!Read(h, len)
<1>1. PICK inum, pos, s, n, b, name :
        /\ inum = open_file_table[h].of_inumber /\ pos = open_file_table[h].of_offset
        /\ s = inode_table[inum].i_size /\ n = Smaller(size_sub(s, pos), len)
        /\ b = inode_table[inum].i_data_block /\ name = NameOf(inum)
  OBVIOUS
<1>2. /\ h \in Handles /\ Open(h) /\ inum \in FileNumbers /\ h \in DOMAIN AbsHandles
      /\ AbsHandles[h].name = name /\ AbsHandles[h].pos = pos
      /\ AbsFiles[name] = Contents(inum) /\ Len(AbsFiles[name]) = s
      /\ pos \in Nat /\ s \in Nat /\ pos <= s /\ s <= BLOCK_SIZE
  BY <1>1, HeldIs
<1>3. /\ len \in Nat /\ BLOCK_SIZE \in Nat /\ inum \in Inumbers
      /\ open_file_table \in [Handles -> OpenEntry]
  BY <1>2, OpsAssumption, Sizes DEF RefinesInv, TablesInv, StateTypeOK, FileNumbers
<1>4. n = Abstract!Min({len, s - pos}) /\ n \in Nat /\ pos + n <= s
  <2>1. PICK m : m = s - pos
    OBVIOUS
  <2>2. len \in Int /\ m \in Int /\ n = (IF len <= m THEN len ELSE m)
    BY <1>1, <1>2, <1>3, <2>1 DEF Smaller, size_sub
  <2>3. n = Abstract!Min({len, m})
    BY <2>2, MinMax
  <2> QED
    BY <1>2, <1>3, <2>1, <2>2, <2>3
<1>0. inum # ROOT_DIR_INUM
  BY <1>2 DEF FileNumbers
<1> DEFINE byte == [k \in 1 .. n |-> IF inum # ROOT_DIR_INUM /\ pos + k - 1 \in Offsets
                                     THEN fs_data[b][pos + k - 1] ELSE JUNK]
<1>5. byte = SubSeq(AbsFiles[name], pos + 1, pos + n)
  <2>1. PICK c, v, U : c = AbsFiles[name] /\ v = byte /\ U = {c[pos + k] : k \in 1 .. n}
    OBVIOUS
  <2>2. ASSUME NEW k \in 1 .. n
        PROVE  v[k] = c[pos + k]
    <3>1. PICK j : j = pos + k
      OBVIOUS
    <3>2. j \in 1 .. s /\ j - 1 \in Offsets /\ pos + k - 1 = j - 1
      BY <1>2, <1>3, <1>4, <3>1 DEF Offsets
    <3>3. c = [i \in 1 .. s |-> fs_data[b][i - 1]]
      BY <1>1, <1>2, <2>1 DEF Contents
    <3>4. c[j] = fs_data[b][j - 1]
      BY <3>2, <3>3
    <3>5. v[k] = fs_data[b][j - 1]
      BY <1>0, <2>1, <3>2
    <3> QED
      BY <3>1, <3>4, <3>5
  <2>3. v \in Seq(U) /\ Len(v) = n
    <3>1. \A k \in 1 .. n : v[k] \in U
      BY <2>1, <2>2
    <3>2. v = [k \in 1 .. n |-> v[k]]
      BY <2>1
    <3>3. v \in [1 .. n -> U]
      BY <3>1, <3>2
    <3>4. n \in Nat /\ DOMAIN v = 1 .. n
      BY <1>4, <3>3
    <3>5. v \in Seq(U)
      BY ONLY <3>3, <3>4, SeqDef
    <3>6. 1 .. Len(v) = 1 .. n /\ Len(v) \in Nat
      BY ONLY <3>4, <3>5, LenProperties
    <3> QED
      BY ONLY <3>4, <3>5, <3>6
  <2>4. /\ pos \in Nat /\ n \in Nat /\ v \in Seq(U) /\ Len(v) = n
        /\ \A k \in 1 .. n : v[k] = c[pos + k]
    BY <1>2, <1>4, <2>2, <2>3
  <2>5. v = SubSeq(c, pos + 1, pos + n)
    BY ONLY <2>4, SubSeqIs, Zenon
  <2> QED
    BY <2>1, <2>5
<1>6. /\ UNCHANGED <<inode_vars, block_vars, dir_entry, free_open_file_entries>>
      /\ Returns("read", n, byte)
      /\ open_file_table' = [open_file_table EXCEPT ![h].of_offset = pos + n]
  <2>1. CASE n = 0
    <3>1. byte = <<>>
      BY <2>1
    <3>2. /\ Returns("read", 0, <<>>) /\ UNCHANGED open_file_table
          /\ UNCHANGED <<inode_vars, block_vars, dir_entry, free_open_file_entries>>
      BY <1>1, <2>1 DEF Read
    <3>3. open_file_table = [open_file_table EXCEPT ![h].of_offset = pos + n]
      BY <1>1, <1>2, <1>3, <2>1 DEF OpenEntry
    <3> QED
      BY <2>1, <3>1, <3>2, <3>3
  <2>2. CASE n > 0
    <3>1. valid_block_number(b)
      BY <1>1, <1>2, <1>3, <1>4, <2>2 DEF RefinesInv, TablesInv, BlocksOwned, Owners,
                                         valid_block_number, FileNumbers
    <3> QED
      BY <1>1, <2>2, <3>1 DEF Read
  <2> QED
    BY <1>4, <2>1, <2>2
<1> HIDE DEF byte
<1>7. Abstract!Answers("read", n, SubSeq(AbsFiles[name], pos + 1, pos + n))
  BY <1>5, <1>6, Replied
<1>8. AbsHandles' = [AbsHandles EXCEPT ![h].pos = pos + n]
  BY <1>2, <1>6, HandleMoves DEF RefinesInv
<1>9. \A i : Contents(i)' = Contents(i)
  BY <1>6 DEF Contents, inode_vars, block_vars
<1>10. AbsFiles' = AbsFiles
  BY <1>6, <1>9, FilesStay DEF RefinesInv
<1> QED
  BY <1>2, <1>4, <1>7, <1>8, <1>10 DEF Abstract!Read, AbsAlive

\* Whenever tfs_destroy runs, no other thread holds a mutex or shuts down too, and
\* no handle is open.
Quiet == \A t \in Threads : tfs_destroy(t) =>
  /\ destroyed' = Locks
  /\ \A u \in Threads \ {t} : pc[u] # "destroying"
  /\ \A h \in Handles : ~Open(h)

QuietShutdown == [][Quiet]_vars

\* tfs_destroy destroys both mutexes, once.
ShutInv ==
  /\ destroyed \in {{}, Locks}
  /\ \A t \in Threads : pc[t] = "destroying" => destroyed = {}

\* It is a step of one thread.
LEMMA ShutStep ==
  ASSUME ControlTypeOK, ShutInv, [Next]_vars, Quiet \/ UNCHANGED vars
  PROVE  ShutInv'
<1>1. pc \in [Threads -> Pc]
  BY DEF ControlTypeOK
<1>2. CASE UNCHANGED vars
  BY <1>2 DEF vars, ShutInv
<1>3. ASSUME NEW t \in Threads, tfs_destroy(t), Quiet
      PROVE  ShutInv'
  <2>1. /\ destroyed' = Locks /\ pc[t] = "destroying"
        /\ \A u \in Threads : pc'[u] = IF u = t THEN "idle" ELSE pc[u]
        /\ \A u \in Threads : u # t => pc[u] # "destroying"
    BY <1>1, <1>3 DEF tfs_destroy, Goto, Quiet
  <2>2. \A u \in Threads : pc'[u] # "destroying"
    BY <2>1
  <2> QED
    BY <2>1, <2>2 DEF ShutInv
<1>4. ASSUME NEW t \in Threads, UNCHANGED destroyed, NEW to \in Pc \ {"destroying"}, Goto(t, to)
      PROVE  ShutInv'
  BY <1>1, <1>4 DEF Goto, ShutInv
<1>5. ASSUME UNCHANGED <<destroyed, pc>>
      PROVE  ShutInv'
  BY <1>5 DEF ShutInv
<1>6. ASSUME NEW t \in Threads, CountClose(t)
      PROVE  ShutInv'
  <2>1. UNCHANGED destroyed /\ \A u \in Threads : pc'[u] = "destroying" => pc[u] = "destroying"
    BY <1>1, <1>6 DEF CountClose, Signalled
  <2> QED
    BY <2>1 DEF ShutInv
<1>7. ASSUME NEW t \in Threads, tfs_destroy_after_all_closed(t) \/ WakeUp(t)
      PROVE  ShutInv'
  <2>1. "open_files_lock" \notin destroyed /\ UNCHANGED destroyed
    BY <1>7 DEF tfs_destroy_after_all_closed, WakeUp, Enters, TestOpenFiles
  <2>2. destroyed = {}
    BY <2>1 DEF ShutInv, Locks
  <2> QED
    BY <2>1, <2>2 DEF ShutInv
<1>8. CASE Next /\ Quiet
  <2>1. PICK t \in Threads :
          \/ tfs_destroy_after_all_closed(t) \/ WakeUp(t) \/ CountClose(t) \/ tfs_destroy(t)
          \/ UNCHANGED <<destroyed, pc>>
          \/ UNCHANGED destroyed /\ \E to \in Pc \ {"destroying"} : Goto(t, to)
    BY <1>8 DEF Next, tfs_lookup, tfs_open, tfs_close, tfs_write, tfs_read, CountOpen, SpuriousWakeUp,
                LockFails, Pc
  <2> QED
    BY <1>3, <1>4, <1>5, <1>6, <1>7, <1>8, <2>1
<1> QED
  BY <1>2, <1>8

\* A step that changes neither the tables nor what was destroyed nor the last
\* answer is none of the abstract file system.
LEMMA Stutters ==
  ASSUME RefinesInv, TablesInv', UNCHANGED <<state_vars, destroyed, ret>>
  PROVE  UNCHANGED <<AbsFiles, AbsHandles, AbsAlive, AbsReply>>
BY AllStays DEF RefinesInv, AbsAlive, AbsReply

\* Every step is one of the abstract file system, or none.
LEMMA StepRefines ==
  ASSUME Misuse = {}, RefinesInv, ShutInv, TablesInv', NamesUnique', [Next]_vars,
         Quiet \/ UNCHANGED vars
  PROVE  Abstract!Next \/ UNCHANGED <<AbsFiles, AbsHandles, AbsAlive, AbsReply>>
<1> DEFINE Same == UNCHANGED <<AbsFiles, AbsHandles, AbsAlive, AbsReply>>
<1>1. CASE UNCHANGED vars
  BY <1>1, Stutters DEF vars
<1>2. ASSUME NEW t \in Threads, CountOpen(t) \/ CountClose(t) \/ tfs_destroy_after_all_closed(t)
                                \/ WakeUp(t) \/ SpuriousWakeUp(t)
      PROVE  Same
  BY <1>2, Stutters DEF CountOpen, CountClose, tfs_destroy_after_all_closed, WakeUp, TestOpenFiles,
                        SpuriousWakeUp
<1>3. ASSUME "single_global_lock" \notin destroyed \/ "open_files_lock" \notin destroyed
      PROVE  AbsAlive
  BY <1>3 DEF ShutInv, AbsAlive, Locks
<1>4. \A h \in Held : h \in Handles
  BY DEF Held
<1>5. ASSUME NEW t \in Threads, NEW path \in Paths, tfs_lookup(t, path)
      PROVE  Abstract!Next
  <2>1. Abstract!Lookup(path.sub)
    BY <1>5, LookupRefines
  <2>2. AbsAlive /\ path.sub \in Names
    BY <1>3, <1>5, LookupIs DEF tfs_lookup, Enters, RefinesInv
  <2> QED
    BY <2>1, <2>2 DEF Abstract!Next
<1>6. ASSUME NEW t \in Threads, NEW path \in Paths, NEW flags \in OpenFlags, tfs_open(t, path, flags)
      PROVE  Abstract!Next
  <2>1. \/ Abstract!OpenFile(path.sub, flags) \/ Abstract!CreateFile(path.sub, flags)
        \/ Abstract!RefuseOpen(path.sub)
    BY <1>6, OpenExistingRefines, OpenCreateRefines, OpenFailsRefines DEF tfs_open
  <2>2. AbsAlive /\ path.sub \in Names
    BY <1>3, <1>6, LookupIs DEF tfs_open, Enters, RefinesInv
  <2> QED
    BY <2>1, <2>2 DEF Abstract!Next
<1>7. ASSUME NEW t \in Threads, NEW h \in Closable, tfs_close(t, h)
      PROVE  Abstract!Next
  <2>1. h \in Held
    BY DEF Closable
  <2>2. Abstract!Close(h)
    BY <1>7, <2>1, CloseRefines
  <2>3. AbsAlive
    BY <1>3, <1>7 DEF tfs_close, Enters
  <2> QED
    BY <1>4, <2>1, <2>2, <2>3 DEF Abstract!Next
<1>8. ASSUME NEW t \in Threads, NEW h, NEW d \in Data, NEW len \in Lens, tfs_write(t, h, d, len)
      PROVE  Abstract!Next \/ Same
  <2>1. h \in Held /\ Write(h, d, len) /\ UNCHANGED destroyed
    BY <1>8 DEF tfs_write, BadHandle, Usable
  <2>2. Abstract!Write(h, d, len) \/ Abstract!RefuseWrite(h) \/ Same
    BY <2>1, WriteRefines
  <2>3. AbsAlive
    BY <1>3, <1>8 DEF tfs_write, Enters
  <2> QED
    BY <1>4, <2>1, <2>2, <2>3 DEF Abstract!Next
<1>9. ASSUME NEW t \in Threads, NEW h, NEW len \in Lens, tfs_read(t, h, len)
      PROVE  Abstract!Next
  <2>1. h \in Held /\ Read(h, len) /\ UNCHANGED destroyed
    BY <1>9 DEF tfs_read, BadHandle, Usable
  <2>2. Abstract!Read(h, len)
    BY <2>1, ReadRefines
  <2>3. AbsAlive
    BY <1>3, <1>9 DEF tfs_read, Enters
  <2> QED
    BY <1>4, <2>1, <2>2, <2>3 DEF Abstract!Next
<1>10. ASSUME NEW t \in Threads, tfs_destroy(t), Quiet
       PROVE  Abstract!Next
  <2>1. /\ destroyed' = Locks /\ destroyed = {} /\ \A h \in Handles : ~Open(h)
        /\ Returns("destroy", 0, <<>>) /\ UNCHANGED state_vars
    BY <1>10 DEF tfs_destroy, Quiet, ShutInv
  <2>2. AbsAlive /\ AbsAlive' = FALSE
    BY <2>1 DEF AbsAlive, Locks
  <2>3. DOMAIN AbsHandles = {}
    BY <2>1 DEF AbsHandles
  <2>4. UNCHANGED <<AbsFiles, AbsHandles>>
    BY <2>1, AllStays DEF RefinesInv
  <2>5. Abstract!Answers("destroy", 0, <<>>)
    BY <2>1, Replied
  <2> QED
    BY <2>2, <2>3, <2>4, <2>5 DEF Abstract!Next, Abstract!Shutdown
<1>11. ASSUME NEW t \in Threads, NEW op \in Ops, LockFails(t, op)
       PROVE  Abstract!Next
  <2>1. UNCHANGED <<state_vars, destroyed>> /\ Returns(op, -1, <<>>) /\ destroyed # {}
    BY <1>11 DEF LockFails
  <2>2. ~AbsAlive /\ UNCHANGED <<AbsFiles, AbsHandles, AbsAlive>>
    BY <2>1, AllStays DEF RefinesInv, AbsAlive
  <2>3. Abstract!Answers(op, -1, <<>>)
    BY <2>1, Replied
  <2> QED
    BY <2>2, <2>3 DEF Abstract!Next, Abstract!Refuse, Ops
<1> QED
  BY <1>1, <1>2, <1>5, <1>6, <1>7, <1>8, <1>9, <1>10, <1>11 DEF Next

\* The empty tables are the empty file system.
LEMMA InitRefines == Init => Abstract!Init
<1> SUFFICES ASSUME Init PROVE Abstract!Init
  OBVIOUS
<1>1. \A s \in DirSlots : dir_entry[s].d_inumber = -1
  BY DEF Init, RootCreated
<1>2. FileNames = {}
  BY <1>1 DEF FileNames, EmptySlots
<1>3. AbsFiles = [n \in {} |-> <<>>]
  BY <1>2 DEF AbsFiles
<1>4. \A h \in Handles : ~Open(h)
  BY DEF Init, RootCreated, Open
<1>5. AbsHandles = [h \in {} |-> [name |-> "", pos |-> 0]]
  BY <1>4 DEF AbsHandles
<1>6. AbsAlive = TRUE
  BY DEF Init, AbsAlive
<1>7. AbsReply = [op |-> "init", val |-> 0, data |-> <<>>]
  BY DEF Init, AbsReply
<1> QED
  BY <1>3, <1>5, <1>6, <1>7 DEF Abstract!Init

\* Callers that truncate no file that is open undercut no handle.
LEMMA NothingUndercut ==
  ASSUME ~TruncateOpen
  PROVE  Spec => [](undercut = {})
<1>1. Init => undercut = {}
  BY DEF Init
<1>2. undercut = {} /\ [Next]_vars => (undercut = {})'
  <2> SUFFICES ASSUME undercut = {}, Next PROVE undercut' = {}
    BY DEF vars
  <2>1. PICK t \in Threads :
          \/ UNCHANGED undercut
          \/ \E path \in Paths, flags \in OpenFlags : tfs_open(t, path, flags)
    BY ZenonT(40) DEF Next, tfs_lookup, tfs_close, tfs_write, tfs_read, CountOpen, CountClose,
           tfs_destroy_after_all_closed, WakeUp, TestOpenFiles, SpuriousWakeUp, tfs_destroy, LockFails
  <2>2. ASSUME NEW path, NEW flags, tfs_open(t, path, flags)
        PROVE  undercut' = {}
    <3>1. CASE OpenExisting(t, path, flags)
      <4>1. "TRUNC" \in flags => PastStart(lookup(path)) = {}
        BY <3>1 DEF OpenExisting, PastStart
      <4> QED
        BY <3>1, <4>1 DEF OpenExisting, OpenFails, add_to_open_file_table
    <3> QED
      BY <2>2, <3>1 DEF tfs_open, OpenCreate, OpenCreateFails, OpenMissing, OpenFails,
                        add_to_open_file_table
  <2> QED
    BY <2>1, <2>2
<1> QED
  BY <1>1, <1>2, PTL DEF Spec

\* For any number of threads, files, handles and blocks, the tables implement
\* files as sequences of bytes under names, and handles as positions in them: what
\* callers see is what AbstractFs promises, each operation in one step, as long as
\* they use the handles they hold, truncate no file that some handle has open, and
\* their shutdown meets no other call.
THEOREM FilesAreSequences ==
  ASSUME PathsFit, Misuse = {}, ~TruncateOpen
  PROVE  Spec /\ QuietShutdown => ImplementsAbstractFs
<1>1. NamesFit /\ "bad_handle" \notin Misuse /\ "bad_close" \notin Misuse
  BY DEF PathsFit
<1>2. Spec => []ControlTypeOK
  <2>1. CallersInv => ControlTypeOK
    BY DEF CallersInv
  <2> QED
    BY <1>1, <2>1, CallersInvariant, PTL
<1>3. Spec => []RefinesInv
  <2>1. TablesInv /\ NamesUnique /\ OffsetWithinFile /\ undercut = {} => RefinesInv
    BY DEF RefinesInv
  <2>2. Spec => []NamesUnique
    BY <1>1, NamesStayUnique
  <2>3. Spec => []TablesInv
    BY <1>1, TablesOfHolders
  <2>4. Spec => [](undercut = {})
    BY NothingUndercut
  <2> QED
    BY <2>1, <2>2, <2>3, <2>4, OffsetsStayInside, PTL
<1>4. Spec /\ QuietShutdown => []ShutInv
  <2>1. Init => ShutInv
    BY DEF Init, ShutInv
  <2>2. ControlTypeOK /\ ShutInv /\ [Next]_vars /\ [Quiet]_vars => ShutInv'
    BY ShutStep
  <2> QED
    BY <1>2, <2>1, <2>2, PTL DEF Spec, QuietShutdown
<1>5. RefinesInv /\ RefinesInv' /\ ShutInv /\ [Next]_vars /\ [Quiet]_vars
        => [Abstract!Next]_(Abstract!absvars)
  <2> SUFFICES ASSUME RefinesInv, RefinesInv', ShutInv, [Next]_vars, [Quiet]_vars
               PROVE  [Abstract!Next]_(Abstract!absvars)
    OBVIOUS
  <2>1. TablesInv' /\ NamesUnique'
    BY DEF RefinesInv
  <2>2. Abstract!Next \/ UNCHANGED <<AbsFiles, AbsHandles, AbsAlive, AbsReply>>
    BY <2>1, StepRefines
  <2> QED
    BY <2>2 DEF Abstract!absvars
<1> QED
  BY <1>2, <1>3, <1>4, <1>5, InitRefines, PTL DEF Spec, QuietShutdown, ImplementsAbstractFs, Abstract!Spec

\* A caller that is alone closes its handles before it shuts down.
AloneInv == \A t \in Threads : pc[t] = "destroying" => \A h \in Handles : ~Open(h)

\* It goes on to tfs_destroy when the counter is zero, with no handle on its way.
LEMMA AloneStep ==
  ASSUME NEW d, Threads = {d}, CallersInv, AloneInv, [Next]_vars
  PROVE  AloneInv'
<1>1. pc \in [Threads -> Pc] /\ CallersInv
  BY DEF CallersInv, ControlTypeOK
<1>2. CASE UNCHANGED vars
  <2>1. UNCHANGED <<pc, free_open_file_entries>>
    BY <1>2 DEF vars, state_vars, open_vars
  <2> QED
    BY <2>1 DEF AloneInv, Open
<1>3. ASSUME NEW t \in Threads, tfs_destroy_after_all_closed(t) \/ WakeUp(t), pc'[t] = "destroying"
      PROVE  \A h \in Handles : ~Open(h)'
  <2>1. /\ number_open_files = 0 /\ "open_files_lock" \notin destroyed /\ pc[t] # "opened"
        /\ UNCHANGED free_open_file_entries
    BY <1>1, <1>3 DEF tfs_destroy_after_all_closed, WakeUp, Enters, TestOpenFiles, Goto, state_vars,
                      open_vars
  <2>2. Held = {}
    BY <1>1, <2>1, CounterOfCallers DEF CallersInv
  <2>3. \A u \in Threads : opening[u] = -1
    BY <1>3, <2>1 DEF CallersInv, OpeningInv
  <2>4. \A h \in Handles : h # -1
    BY ConfigAssumption DEF Handles
  <2> QED
    BY <2>1, <2>2, <2>3, <2>4 DEF Held, Open
<1>4. CASE Next
  <2>1. PICK t \in Threads :
          \/ tfs_destroy_after_all_closed(t) \/ WakeUp(t)
          \/ UNCHANGED pc /\ pc[t] # "destroying"
          \/ \E to \in Pc \ {"destroying"} : Goto(t, to)
          \/ CountClose(t)
    BY <1>4 DEF Next, tfs_lookup, tfs_open, tfs_close, tfs_write, tfs_read, CountOpen, SpuriousWakeUp,
                tfs_destroy, LockFails, Enters, Pc
  <2>2. \A u \in Threads : u = t
    OBVIOUS
  <2>3. CASE tfs_destroy_after_all_closed(t) \/ WakeUp(t)
    BY <1>3, <2>2, <2>3 DEF AloneInv
  <2>4. CASE CountClose(t)
    <3>1. pc'[t] # "destroying"
      BY <1>1, <2>4 DEF CountClose, Signalled
    <3> QED
      BY <2>2, <3>1 DEF AloneInv
  <2>5. CASE \/ UNCHANGED pc /\ pc[t] # "destroying"
             \/ \E to \in Pc \ {"destroying"} : Goto(t, to)
    <3>1. pc'[t] # "destroying"
      BY <1>1, <2>5 DEF Goto
    <3> QED
      BY <2>2, <3>1 DEF AloneInv
  <2> QED
    BY <2>1, <2>3, <2>4, <2>5
<1> QED
  BY <1>2, <1>4

\* For one caller no more is needed: its shutdown meets no call but its own.
THEOREM OneCallerSeesSequences ==
  ASSUME PathsFit, Misuse = {}, ~TruncateOpen, NEW d, Threads = {d}
  PROVE  Spec => ImplementsAbstractFs
<1>1. Spec => []AloneInv
  <2>1. Init => AloneInv
    BY DEF Init, AloneInv
  <2>2. CallersInv /\ AloneInv /\ [Next]_vars => AloneInv'
    BY AloneStep
  <2>3. Spec => []CallersInv
    BY CallersInvariant
  <2> QED
    BY <2>1, <2>2, <2>3, PTL DEF Spec
<1>2. AloneInv => Quiet
  BY DEF AloneInv, Quiet, tfs_destroy, MayHold, OtherWaits
<1>3. Spec => QuietShutdown
  BY <1>1, <1>2, PTL DEF QuietShutdown
<1>4. Spec /\ QuietShutdown => ImplementsAbstractFs
  BY FilesAreSequences
<1> QED
  BY <1>3, <1>4, PTL

=============================================================================
