----------------------------- MODULE FsOpsProof -----------------------------
(***************************************************************************)
(* Theorems about FsOps, for every number of i-nodes, blocks, handles,     *)
(* directory entries and threads, and every behaviour of the callers: what *)
(* ends the model, and these promises with it, is a memcpy that sets wild. *)
(***************************************************************************)
EXTENDS FsOps, FsStateProof, FiniteSetTheorems

----------------------------------------------------------------------------
(* Bytes.                                                                  *)

\* The bytes memcpy leaves are bytes.
LEMMA OverwrittenType ==
  ASSUME NEW block \in [Offsets -> Data], NEW offset, NEW n, NEW d \in Data
  PROVE  Overwritten(block, offset, n, d) \in [Offsets -> Data]
BY DEF Overwritten

----------------------------------------------------------------------------
(* The inductive invariant of the tables.                                  *)

SizeWithinBlock == \A i \in Inumbers : inode_table[i].i_size <= BLOCK_SIZE

OffsetBounded == \A h \in Handles : open_file_table[h].of_offset <= MAX_OFFSET

\* BlocksOwned and EntriesMatch need each other: a file is found
\* through the directory, and written or truncated because it owns a block.
TablesInv ==
  /\ StateTypeOK
  /\ SizeWithinBlock /\ OffsetBounded
  /\ BlocksOwned /\ EntriesMatch /\ HandlesValid

\* A step that leaves the tables alone keeps TablesInv.
LEMMA TablesUnchanged ==
  ASSUME TablesInv, UNCHANGED state_vars
  PROVE  TablesInv'
BY DEF TablesInv, StateTypeOK, SizeWithinBlock, OffsetBounded, Open,
       BlocksOwned, Owners, EntriesMatch, IsDirectory, HandlesValid,
       state_vars, inode_vars, block_vars, open_vars

\* What tfs_lookup finds is a file that exists, and not the root.
LEMMA LookupFinds ==
  ASSUME TablesInv, NEW path, lookup(path) # -1
  PROVE  /\ lookup(path) \in Inumbers \ {ROOT_DIR_INUM}
         /\ freeinode_ts[lookup(path)] = "TAKEN"
<1> DEFINE S == Matches(path.sub)
<1>1. S # {} /\ lookup(path) = dir_entry[First(S)].d_inumber
  BY DEF lookup, find_in_dir
<1>2. First(S) \in S
  BY <1>1, FirstFound, ConfigAssumption DEF Matches, DirSlots
<1>3. First(S) \in DirSlots /\ dir_entry[First(S)].d_inumber # -1
  BY <1>2 DEF Matches
<1>4. dir_entry[First(S)].d_inumber \in Inumbers
  BY <1>3 DEF TablesInv, StateTypeOK, DirEntry
<1> QED
  BY <1>1, <1>3, <1>4 DEF TablesInv, EntriesMatch


\* The sizes of config.h and of the bounds are numbers, in this order.
LEMMA Sizes ==
  /\ BLOCK_SIZE \in Nat /\ MAX_OFFSET \in Nat /\ SIZE_MOD \in Nat
  /\ 0 < BLOCK_SIZE /\ BLOCK_SIZE <= MAX_OFFSET
<1>1. MAX_OFFSET \in Nat /\ SIZE_MOD \in Nat /\ BLOCK_SIZE <= MAX_OFFSET
  BY OpsAssumption
<1>2. BLOCK_SIZE \in Nat /\ 0 < BLOCK_SIZE
  BY ConfigAssumption
<1> QED
  BY <1>1, <1>2

\* After tfs_init the root owns block 0 and nothing else is there.
LEMMA InitTables == Init => TablesInv
<1> SUFFICES ASSUME RootCreated PROVE TablesInv
  BY DEF Init
<1> USE ConfigAssumption
<1>1. 0 \in Inumbers /\ 0 \in Blocks /\ BLOCK_SIZE \in Nat
  BY DEF Inumbers, Blocks
<1>2. \A i \in Inumbers :
        /\ inode_table[i].i_size = IF i = 0 THEN BLOCK_SIZE ELSE 0
        /\ inode_table[i].i_data_block = 0
        /\ inode_table[i].i_node_type = IF i = 0 THEN "T_DIRECTORY" ELSE "T_FILE"
        /\ freeinode_ts[i] = IF i = 0 THEN "TAKEN" ELSE "FREE"
  BY DEF RootCreated, ROOT_DIR_INUM
<1>3. \A h \in Handles : /\ open_file_table[h].of_inumber = 0
                         /\ open_file_table[h].of_offset = 0
                         /\ free_open_file_entries[h] = "FREE"
  BY DEF RootCreated
<1>4. StateTypeOK
  <2>1. inode_table \in [Inumbers -> Inode]
    BY <1>1 DEF RootCreated, Inode
  <2>2. /\ freeinode_ts \in [Inumbers -> AllocState]
        /\ free_blocks \in [Blocks -> AllocState]
        /\ free_open_file_entries \in [Handles -> AllocState]
    BY DEF RootCreated, AllocState
  <2>3. fs_data \in [Blocks -> [Offsets -> Data]]
    BY DEF RootCreated
  <2>4. dir_entry \in [DirSlots -> DirEntry]
    BY DEF RootCreated, DirEntry
  <2>5. open_file_table \in [Handles -> OpenEntry]
    BY <1>1 DEF RootCreated, OpenEntry
  <2> QED
    BY <2>1, <2>2, <2>3, <2>4, <2>5 DEF StateTypeOK
<1>5. SizeWithinBlock
  BY <1>1, <1>2 DEF SizeWithinBlock
<1>6. OffsetBounded
  <2>1. MAX_OFFSET \in Nat
    BY OpsAssumption
  <2> QED
    BY <1>3, <2>1 DEF OffsetBounded
<1>7. BlocksOwned
  <2>1. Owners = {0}
    BY <1>1, <1>2 DEF Owners
  <2>2. free_blocks = [b \in Blocks |-> IF b = 0 THEN "TAKEN" ELSE "FREE"]
    BY DEF RootCreated
  <2> QED
    BY <1>1, <1>2, <2>1, <2>2 DEF BlocksOwned
<1>8. EntriesMatch
  <2>1. \A s \in DirSlots : dir_entry[s].d_inumber = -1
    BY DEF RootCreated
  <2> QED
    BY <1>1, <1>2, <2>1 DEF EntriesMatch, IsDirectory, ROOT_DIR_INUM
<1>9. HandlesValid
  BY <1>1, <1>2, <1>3 DEF HandlesValid, Open
<1> QED
  BY <1>4, <1>5, <1>6, <1>7, <1>8, <1>9 DEF TablesInv

----------------------------------------------------------------------------
(* The steps that change the tables.                                       *)

\* Taking a handle for an existing file keeps what is said of handles.
LEMMA AddHandle ==
  ASSUME TablesInv, NEW t \in Threads, NEW inum \in Inumbers \ {ROOT_DIR_INUM},
         NEW offset \in Nat, offset <= MAX_OFFSET,
         NEW cut, add_to_open_file_table(t, inum, offset, cut),
         freeinode_ts' \in [Inumbers -> AllocState],
         \A i \in Inumbers : freeinode_ts[i] = "TAKEN" => freeinode_ts'[i] = "TAKEN",
         freeinode_ts'[inum] = "TAKEN"
  PROVE  /\ open_file_table' \in [Handles -> OpenEntry]
         /\ free_open_file_entries' \in [Handles -> AllocState]
         /\ OffsetBounded' /\ HandlesValid'
<1> DEFINE h == First(FreeIn(free_open_file_entries))
<1>1. /\ open_file_table \in [Handles -> OpenEntry]
      /\ free_open_file_entries \in [Handles -> AllocState]
  BY DEF TablesInv, StateTypeOK
<1>2. open_file_table' = [g \in Handles |-> IF g = h THEN [of_inumber |-> inum, of_offset |-> offset]
                                                     ELSE open_file_table[g]]
  BY DEF add_to_open_file_table
<1>3. /\ free_open_file_entries' \in [Handles -> AllocState]
      /\ \A g \in Handles : free_open_file_entries'[g] =
           IF g = h THEN "TAKEN" ELSE free_open_file_entries[g]
  BY <1>1, TakeFirstAt DEF add_to_open_file_table
<1>4. open_file_table' \in [Handles -> OpenEntry]
  BY <1>1, <1>2 DEF OpenEntry
<1>5. OffsetBounded'
  BY <1>2 DEF OffsetBounded, TablesInv
<1>6. HandlesValid'
  <2> SUFFICES ASSUME NEW g \in Handles
               PROVE  /\ freeinode_ts'[open_file_table'[g].of_inumber] = "TAKEN"
                      /\ Open(g)' => open_file_table'[g].of_inumber # ROOT_DIR_INUM
    BY DEF HandlesValid
  <2>1. CASE g = h
    BY <2>1, <1>2
  <2>2. CASE g # h
    <3>1. /\ open_file_table'[g] = open_file_table[g] /\ open_file_table[g].of_inumber \in Inumbers
          /\ free_open_file_entries'[g] = free_open_file_entries[g]
      BY <2>2, <1>1, <1>2, <1>3 DEF OpenEntry
    <3> QED
      BY <3>1 DEF TablesInv, HandlesValid, Open
  <2> QED
    BY <2>1, <2>2
<1> QED
  BY <1>3, <1>4, <1>5, <1>6

\* Opening a file that exists, with or without truncating it.
LEMMA OpenExistingTables ==
  ASSUME TablesInv, NEW t \in Threads, NEW path, NEW flags, OpenExisting(t, path, flags)
  PROVE  TablesInv'
<1> DEFINE inum  == lookup(path)
           inode == inode_table[inum]
           trunc == "TRUNC" \in flags /\ inode.i_size > 0
           size  == IF trunc THEN 0 ELSE inode.i_size
           b     == inode.i_data_block
<1>1. inum \in Inumbers \ {ROOT_DIR_INUM} /\ freeinode_ts[inum] = "TAKEN"
  BY LookupFinds DEF OpenExisting
<1>2. inode \in Inode /\ inode.i_size \in Nat /\ inode.i_size <= BLOCK_SIZE
  BY <1>1 DEF TablesInv, StateTypeOK, SizeWithinBlock, Inode
<1>3. trunc => inum \in Owners /\ b \in Blocks /\ free_blocks[b] = "TAKEN"
  BY <1>1 DEF TablesInv, BlocksOwned, Owners
<1>4. /\ free_blocks' = IF trunc THEN Release(free_blocks, b) ELSE free_blocks
      /\ inode_table' = [inode_table EXCEPT ![inum].i_size = size]
      /\ add_to_open_file_table(t, inum, IF "APPEND" \in flags THEN size ELSE 0,
                                        IF trunc THEN PastStart(inum) ELSE {})
      /\ UNCHANGED <<freeinode_ts, fs_data, dir_entry>>
  BY <1>3, Zenon DEF OpenExisting, valid_block_number, data_block_free
<1>5. size \in Nat /\ size <= BLOCK_SIZE
  BY <1>2, ConfigAssumption
<1>6. /\ open_file_table' \in [Handles -> OpenEntry]
      /\ free_open_file_entries' \in [Handles -> AllocState]
      /\ OffsetBounded' /\ HandlesValid'
  <2> DEFINE offset == IF "APPEND" \in flags THEN size ELSE 0
  <2>1. offset \in Nat /\ offset <= MAX_OFFSET
    BY <1>5, Sizes
  <2>2. /\ freeinode_ts' \in [Inumbers -> AllocState]
        /\ \A i \in Inumbers : freeinode_ts[i] = "TAKEN" => freeinode_ts'[i] = "TAKEN"
        /\ freeinode_ts'[inum] = "TAKEN"
    BY <1>1, <1>4 DEF TablesInv, StateTypeOK
  <2>3. add_to_open_file_table(t, inum, offset, IF trunc THEN PastStart(inum) ELSE {})
    BY <1>4
  <2> QED
    BY <1>1, <2>1, <2>2, <2>3, AddHandle
<1>7. \A i \in Inumbers :
        /\ inode_table'[i].i_size = IF i = inum THEN size ELSE inode_table[i].i_size
        /\ inode_table'[i].i_data_block = inode_table[i].i_data_block
        /\ inode_table'[i].i_node_type = inode_table[i].i_node_type
  BY <1>1, <1>4 DEF TablesInv, StateTypeOK, Inode
<1>8. StateTypeOK'
  <2>1. inode_table' \in [Inumbers -> Inode]
    BY <1>1, <1>2, <1>4, <1>5 DEF TablesInv, StateTypeOK, Inode
  <2>2. free_blocks' \in [Blocks -> AllocState]
    BY <1>4 DEF TablesInv, StateTypeOK, AllocState, Release
  <2> QED
    BY <1>4, <1>6, <2>1, <2>2 DEF TablesInv, StateTypeOK
<1>9. SizeWithinBlock'
  BY <1>5, <1>7 DEF TablesInv, SizeWithinBlock
<1>10. BlocksOwned'
  <2>1. Owners' = IF trunc THEN Owners \ {inum} ELSE Owners
    BY <1>1, <1>2, <1>4, <1>7 DEF Owners
  <2>2. CASE trunc
    <3>1. \A c \in Blocks : free_blocks'[c] = IF c = b THEN "FREE" ELSE free_blocks[c]
      BY <1>4, <2>2 DEF TablesInv, StateTypeOK, Release
    <3>2. \A i \in Owners' : i \in Owners /\ inode_table[i].i_data_block # b
      BY <1>3, <2>1, <2>2 DEF TablesInv, BlocksOwned
    <3> QED
      BY <1>7, <2>1, <2>2, <3>1, <3>2 DEF TablesInv, BlocksOwned, Owners
  <2>3. CASE ~trunc
    BY <1>4, <1>7, <2>1, <2>3 DEF TablesInv, BlocksOwned, Owners
  <2> QED
    BY <2>2, <2>3
<1>11. EntriesMatch'
  BY <1>4, <1>7, ConfigAssumption
     DEF TablesInv, EntriesMatch, IsDirectory, ROOT_DIR_INUM, Inumbers
<1> QED
  BY <1>6, <1>8, <1>9, <1>10, <1>11 DEF TablesInv

\* Creating a file.
LEMMA OpenCreateTables ==
  ASSUME TablesInv, NEW t \in Threads, NEW path \in Paths, NEW flags, OpenCreate(t, path, flags)
  PROVE  TablesInv'
<1> DEFINE inum == First(FreeIn(freeinode_ts))
           slot == First(EmptySlots)
<1>1. /\ inum # -1 /\ EmptySlots # {} /\ path.sub # ""
      /\ freeinode_ts' = TakeFirst(freeinode_ts)
      /\ inode_table' = [inode_table EXCEPT ![inum] = NewFile]
      /\ dir_entry' = [dir_entry EXCEPT ![slot] = [d_name |-> Cut[path.sub], d_inumber |-> inum]]
      /\ add_to_open_file_table(t, inum, 0, {})
      /\ UNCHANGED block_vars
  BY DEF OpenCreate, inode_create, CanAddEntry, add_dir_entry
<1>2. /\ inum \in Inumbers /\ freeinode_ts[inum] = "FREE"
      /\ freeinode_ts' \in [Inumbers -> AllocState]
      /\ \A i \in Inumbers : freeinode_ts'[i] = IF i = inum THEN "TAKEN" ELSE freeinode_ts[i]
  <2>1. freeinode_ts \in [Inumbers -> AllocState]
    BY DEF TablesInv, StateTypeOK
  <2>2. /\ TakeFirst(freeinode_ts) \in [Inumbers -> AllocState]
        /\ \A i \in Inumbers : TakeFirst(freeinode_ts)[i] =
             IF i = inum THEN "TAKEN" ELSE freeinode_ts[i]
        /\ inum # -1 => inum \in Inumbers /\ freeinode_ts[inum] = "FREE"
    BY <2>1, TakeFirstAt
  <2> QED
    BY <1>1, <2>2
<1>3. inum # ROOT_DIR_INUM
  BY <1>2 DEF TablesInv, EntriesMatch
<1>4. slot \in DirSlots /\ dir_entry[slot].d_inumber = -1
  <2>1. EmptySlots \in SUBSET Nat
    BY DEF EmptySlots, DirSlots
  <2>2. slot \in EmptySlots
    BY <1>1, <2>1, FirstFound
  <2> QED
    BY <2>2 DEF EmptySlots
<1>5. \A i \in Inumbers : inode_table'[i] = IF i = inum THEN NewFile ELSE inode_table[i]
  BY <1>1 DEF TablesInv, StateTypeOK
<1>6. NewFile \in Inode /\ NewFile.i_size = 0
  BY DEF NewFile, Inode
<1>7. \A s \in DirSlots :
        dir_entry'[s].d_inumber = IF s = slot THEN inum ELSE dir_entry[s].d_inumber
  BY <1>1, <1>4 DEF TablesInv, StateTypeOK
<1>8. /\ open_file_table' \in [Handles -> OpenEntry]
      /\ free_open_file_entries' \in [Handles -> AllocState]
      /\ OffsetBounded' /\ HandlesValid'
  <2>1. 0 \in Nat /\ 0 <= MAX_OFFSET /\ inum \in Inumbers \ {ROOT_DIR_INUM}
    BY <1>2, <1>3, Sizes
  <2>2. /\ \A i \in Inumbers : freeinode_ts[i] = "TAKEN" => freeinode_ts'[i] = "TAKEN"
        /\ freeinode_ts'[inum] = "TAKEN"
    BY <1>2
  <2> QED
    BY <1>1, <1>2, <2>1, <2>2, AddHandle
<1>9. StateTypeOK'
  <2>1. inode_table' \in [Inumbers -> Inode]
    BY <1>1, <1>6 DEF TablesInv, StateTypeOK
  <2>2. dir_entry' \in [DirSlots -> DirEntry]
    <3>1. path.sub \in Names
      BY <1>1, OpsAssumption
    <3>2. [d_name |-> Cut[path.sub], d_inumber |-> inum] \in DirEntry
      BY <1>2, <3>1, ConfigAssumption DEF DirEntry
    <3> QED
      BY <1>1, <3>2 DEF TablesInv, StateTypeOK
  <2> QED
    BY <1>1, <1>2, <1>8, <2>1, <2>2 DEF TablesInv, StateTypeOK, block_vars
<1>10. SizeWithinBlock'
  BY <1>5, <1>6, Sizes DEF TablesInv, SizeWithinBlock
<1>11. BlocksOwned'
  <2>1. Owners' = Owners /\ inum \notin Owners
    BY <1>2, <1>5, <1>6 DEF Owners
  <2>2. \A i \in Owners : inode_table'[i] = inode_table[i]
    BY <1>5, <2>1 DEF Owners
  <2>3. free_blocks' = free_blocks
    BY <1>1 DEF block_vars
  <2> QED
    BY <2>1, <2>2, <2>3 DEF TablesInv, BlocksOwned
<1>12. EntriesMatch'
  <2>1. freeinode_ts'[ROOT_DIR_INUM] = "TAKEN" /\ IsDirectory(ROOT_DIR_INUM)'
    BY <1>2, <1>3, <1>5, ConfigAssumption
       DEF TablesInv, EntriesMatch, IsDirectory, ROOT_DIR_INUM, Inumbers
  <2>2. \A s \in DirSlots : dir_entry[s].d_inumber # inum
    BY <1>2 DEF TablesInv, EntriesMatch, Inumbers
  <2>3. \A s \in DirSlots : dir_entry[s].d_inumber \in Inumbers \cup {-1}
    BY DEF TablesInv, StateTypeOK, DirEntry
  <2>4. \A s \in DirSlots : dir_entry'[s].d_inumber # -1 =>
          /\ freeinode_ts'[dir_entry'[s].d_inumber] = "TAKEN"
          /\ dir_entry'[s].d_inumber # ROOT_DIR_INUM
    BY <1>2, <1>3, <1>7, <2>3 DEF TablesInv, EntriesMatch
  <2>5. \A s, r \in DirSlots :
          dir_entry'[s].d_inumber = dir_entry'[r].d_inumber /\ dir_entry'[s].d_inumber # -1 => s = r
    BY <1>7, <2>2 DEF TablesInv, EntriesMatch
  <2>6. \A i \in Inumbers \ {ROOT_DIR_INUM} : freeinode_ts'[i] = "TAKEN" =>
          \E s \in DirSlots : dir_entry'[s].d_inumber = i
    <3> SUFFICES ASSUME NEW i \in Inumbers \ {ROOT_DIR_INUM}, freeinode_ts'[i] = "TAKEN"
                 PROVE  \E s \in DirSlots : dir_entry'[s].d_inumber = i
      OBVIOUS
    <3>1. CASE i = inum
      BY <1>4, <1>7, <3>1
    <3>2. CASE i # inum
      <4>1. PICK s \in DirSlots : dir_entry[s].d_inumber = i
        BY <1>2, <3>2 DEF TablesInv, EntriesMatch
      <4>2. s # slot
        BY <1>4, <4>1 DEF Inumbers
      <4> QED
        BY <1>7, <4>1, <4>2
    <3> QED
      BY <3>1, <3>2
  <2> QED
    BY <2>1, <2>4, <2>5, <2>6 DEF EntriesMatch
<1> QED
  BY <1>8, <1>9, <1>10, <1>11, <1>12 DEF TablesInv

\* A creation that is undone, or finds no i-node.
LEMMA OpenCreateFailsTables ==
  ASSUME TablesInv, NEW path, NEW flags, OpenCreateFails(path, flags)
  PROVE  TablesInv'
<1> DEFINE inum == First(FreeIn(freeinode_ts))
<1>1. /\ inode_table' = [i \in Inumbers |-> IF i = inum THEN NewFile ELSE inode_table[i]]
      /\ UNCHANGED <<freeinode_ts, block_vars, dir_entry, open_vars>>
  BY DEF OpenCreateFails, OpenFails, inode_create
<1>2. \A i \in Inumbers : i = inum => freeinode_ts[i] = "FREE"
  <2>1. freeinode_ts \in [Inumbers -> AllocState]
    BY DEF TablesInv, StateTypeOK
  <2>2. inum # -1 => freeinode_ts[inum] = "FREE"
    BY <2>1, TakeFirstAt
  <2> QED
    BY <2>2 DEF Inumbers
<1>3. NewFile \in Inode /\ NewFile.i_size = 0
  BY DEF NewFile, Inode
<1>4. \A i \in Inumbers : inode_table'[i] = IF i = inum THEN NewFile ELSE inode_table[i]
  BY <1>1
<1>5. StateTypeOK'
  <2>1. inode_table' \in [Inumbers -> Inode]
    BY <1>1, <1>3 DEF TablesInv, StateTypeOK
  <2> QED
    BY <1>1, <2>1 DEF TablesInv, StateTypeOK, block_vars, open_vars
<1>6. SizeWithinBlock'
  BY <1>3, <1>4, Sizes DEF TablesInv, SizeWithinBlock
<1>7. OffsetBounded' /\ HandlesValid'
  BY <1>1 DEF TablesInv, OffsetBounded, Open, HandlesValid, open_vars
<1>8. BlocksOwned'
  <2>1. Owners' = Owners /\ inum \notin Owners
    BY <1>1, <1>2, <1>4 DEF Owners
  <2>2. \A i \in Owners : inode_table'[i] = inode_table[i]
    BY <1>4, <2>1 DEF Owners
  <2> QED
    BY <1>1, <2>1, <2>2 DEF TablesInv, BlocksOwned, block_vars
<1>9. EntriesMatch'
  <2>1. ROOT_DIR_INUM \in Inumbers /\ ROOT_DIR_INUM # inum
    BY <1>2, ConfigAssumption DEF TablesInv, EntriesMatch, Inumbers, ROOT_DIR_INUM
  <2> QED
    BY <1>1, <1>4, <2>1 DEF TablesInv, EntriesMatch, IsDirectory
<1> QED
  BY <1>5, <1>6, <1>7, <1>8, <1>9 DEF TablesInv

\* tfs_write through a handle that names a file, open or not.  The block it
\* writes to is the file's own, or one nobody owns.
LEMMA WriteTables ==
  ASSUME TablesInv, NEW h \in Handles, NEW d \in Data, NEW len \in Lens, Write(h, d, len),
         ~wild, ~wild'
  PROVE  TablesInv'
<1> DEFINE inum   == open_file_table[h].of_inumber
           offset == open_file_table[h].of_offset
           inode  == inode_table[inum]
           n      == to_write(offset, len)
           block  == IF inode.i_size = 0 THEN data_block_alloc ELSE inode.i_data_block
<1>2. inum \in Inumbers /\ offset \in Nat
  BY DEF TablesInv, StateTypeOK, OpenEntry
<1>3. freeinode_ts[inum] = "TAKEN"
  BY DEF TablesInv, HandlesValid
<1>4. /\ inode \in Inode
      /\ inode.i_size \in Nat /\ inode.i_size <= BLOCK_SIZE
      /\ inode.i_data_block \in Blocks \cup {-1}
  BY <1>2 DEF TablesInv, StateTypeOK, SizeWithinBlock, Inode
<1>5. inode.i_size # 0 => inum \in Owners /\ block \in Blocks
  BY <1>2, <1>3, <1>4 DEF TablesInv, BlocksOwned, Owners
<1>6. /\ TakeFirst(free_blocks) \in [Blocks -> AllocState]
      /\ \A b \in Blocks : TakeFirst(free_blocks)[b] =
           IF b = data_block_alloc THEN "TAKEN" ELSE free_blocks[b]
      /\ data_block_alloc # -1 =>
           data_block_alloc \in Blocks /\ free_blocks[data_block_alloc] = "FREE"
  <2>1. free_blocks \in [Blocks -> AllocState]
    BY DEF TablesInv, StateTypeOK
  <2> QED
    BY <2>1, TakeFirstAt DEF data_block_alloc
<1>7. block \in Blocks \cup {-1}
  BY <1>4, <1>6
<1>8. CASE UNCHANGED state_vars
  BY <1>8, TablesUnchanged
<1>9. CASE /\ ~valid_block_number(block)
           /\ inode_table' = [inode_table EXCEPT ![inum].i_data_block = block]
           /\ UNCHANGED <<freeinode_ts, block_vars, dir_entry, open_vars>>
  <2>1. inode.i_size = 0
    BY <1>5, <1>9 DEF valid_block_number
  <2>2. \A i \in Inumbers :
          /\ inode_table'[i].i_size = inode_table[i].i_size
          /\ inode_table'[i].i_node_type = inode_table[i].i_node_type
          /\ i # inum => inode_table'[i] = inode_table[i]
    BY <1>2, <1>9 DEF TablesInv, StateTypeOK, Inode
  <2>3. inode_table' \in [Inumbers -> Inode]
    BY <1>2, <1>7, <1>9 DEF TablesInv, StateTypeOK, Inode
  <2>4. StateTypeOK'
    BY <1>9, <2>3 DEF TablesInv, StateTypeOK, block_vars, open_vars
  <2>5. SizeWithinBlock'
    BY <2>2 DEF TablesInv, SizeWithinBlock
  <2>6. OffsetBounded' /\ HandlesValid'
    BY <1>9 DEF TablesInv, OffsetBounded, Open, HandlesValid, open_vars
  <2>7. BlocksOwned'
    <3>1. Owners' = Owners /\ inum \notin Owners
      BY <1>4, <1>9, <2>1, <2>2 DEF Owners
    <3>2. \A i \in Owners : inode_table'[i] = inode_table[i]
      BY <2>2, <3>1 DEF Owners
    <3>3. free_blocks' = free_blocks
      BY <1>9 DEF block_vars
    <3> QED
      BY <3>1, <3>2, <3>3 DEF TablesInv, BlocksOwned
  <2>8. EntriesMatch'
    BY <1>9, <2>2, ConfigAssumption
       DEF TablesInv, EntriesMatch, IsDirectory, Inumbers, ROOT_DIR_INUM
  <2> QED
    BY <2>4, <2>5, <2>6, <2>7, <2>8 DEF TablesInv
<1>10. CASE /\ n > 0 /\ block \in Blocks /\ offset + n <= BLOCK_SIZE
            /\ free_blocks' = IF inode.i_size = 0 THEN TakeFirst(free_blocks) ELSE free_blocks
            /\ fs_data' = [fs_data EXCEPT ![block] = Overwritten(@, offset, n, d)]
            /\ inode_table' = [inode_table EXCEPT ![inum].i_data_block = block,
                                                  ![inum].i_size = Larger(@, offset + n)]
            /\ open_file_table' = [open_file_table EXCEPT ![h].of_offset = offset + n]
            /\ UNCHANGED <<freeinode_ts, dir_entry, free_open_file_entries>>
  <2> DEFINE size == Larger(inode.i_size, offset + n)
  <2>1. n \in Nat
    <3>1. len \in Nat
      BY OpsAssumption
    <3> QED
      BY <1>2, <3>1, <1>10, Sizes DEF to_write, size_sub
  <2>2. size \in Nat /\ size > 0 /\ size <= BLOCK_SIZE /\ offset + n <= MAX_OFFSET
    BY <1>2, <1>4, <1>10, <2>1, Sizes DEF Larger
  <2>3. inode_table \in [Inumbers -> Inode] /\ block \in Blocks \cup {-1}
    BY <1>10 DEF TablesInv, StateTypeOK
  <2>4. \A i \in Inumbers :
          /\ inode_table'[i].i_size = IF i = inum THEN size ELSE inode_table[i].i_size
          /\ inode_table'[i].i_data_block = IF i = inum THEN block ELSE inode_table[i].i_data_block
          /\ inode_table'[i].i_node_type = inode_table[i].i_node_type
    BY <1>2, <1>10, <2>3 DEF Inode
  <2>5. \A g \in Handles :
          /\ open_file_table'[g].of_inumber = open_file_table[g].of_inumber
          /\ open_file_table'[g].of_offset = IF g = h THEN offset + n ELSE open_file_table[g].of_offset
    BY <1>2, <1>10 DEF TablesInv, StateTypeOK, OpenEntry
  <2>6. StateTypeOK'
    <3>1. inode_table' \in [Inumbers -> Inode]
      BY <1>2, <1>4, <1>10, <2>2, <2>3 DEF Inode
    <3>2. fs_data' \in [Blocks -> [Offsets -> Data]]
      BY <1>10, OverwrittenType DEF TablesInv, StateTypeOK
    <3>3. open_file_table' \in [Handles -> OpenEntry]
      BY <1>2, <1>10, <2>1 DEF TablesInv, StateTypeOK, OpenEntry
    <3>4. free_blocks' \in [Blocks -> AllocState]
      BY <1>6, <1>10 DEF TablesInv, StateTypeOK
    <3> QED
      BY <1>10, <3>1, <3>2, <3>3, <3>4 DEF TablesInv, StateTypeOK
  <2>7. SizeWithinBlock'
    BY <2>2, <2>4 DEF TablesInv, SizeWithinBlock
  <2>8. OffsetBounded'
    BY <2>2, <2>5 DEF TablesInv, OffsetBounded
  <2>9. HandlesValid'
    BY <1>10, <2>5 DEF TablesInv, Open, HandlesValid
  <2>10. BlocksOwned'
    <3>1. Owners' = Owners \cup {inum}
      <4>1. \A i \in Inumbers : inode_table'[i].i_size > 0 <=>
              i = inum \/ inode_table[i].i_size > 0
        BY <2>2, <2>4
      <4> QED
        BY <1>2, <1>3, <1>10, <4>1 DEF Owners
    <3>2. CASE inode.i_size = 0
      <4>1. block = data_block_alloc /\ free_blocks[block] = "FREE" /\ inum \notin Owners
        BY <1>6, <1>10, <3>2 DEF Owners, Blocks
      <4>2. \A b \in Blocks : free_blocks'[b] = IF b = block THEN "TAKEN" ELSE free_blocks[b]
        BY <1>6, <1>10, <3>2, <4>1
      <4>3. \A i \in Owners : i # inum /\ inode_table[i].i_data_block # block
        BY <4>1 DEF TablesInv, BlocksOwned
      <4>4. /\ \A i \in Owners : inode_table'[i].i_data_block = inode_table[i].i_data_block
            /\ inode_table'[inum].i_data_block = block
        BY <1>2, <2>4, <4>3 DEF Owners
      <4>5. \A i \in Owners' : /\ inode_table'[i].i_data_block \in Blocks
                               /\ free_blocks'[inode_table'[i].i_data_block] = "TAKEN"
        <5>1. inode_table'[inum].i_data_block \in Blocks /\ free_blocks'[block] = "TAKEN"
          BY <1>10, <4>2, <4>4
        <5>2. \A i \in Owners : /\ inode_table'[i].i_data_block \in Blocks
                                /\ free_blocks'[inode_table'[i].i_data_block] = "TAKEN"
          BY <4>2, <4>4 DEF TablesInv, BlocksOwned
        <5> QED
          BY <3>1, <4>4, <5>1, <5>2
      <4>6. \A i, j \in Owners' :
              inode_table'[i].i_data_block = inode_table'[j].i_data_block => i = j
        BY <3>1, <4>3, <4>4 DEF TablesInv, BlocksOwned
      <4>7. \A b \in Blocks : free_blocks'[b] = "TAKEN" =>
              \E i \in Owners' : inode_table'[i].i_data_block = b
        BY <3>1, <4>2, <4>4 DEF TablesInv, BlocksOwned
      <4> QED
        BY <4>5, <4>6, <4>7 DEF BlocksOwned
    <3>3. CASE inode.i_size # 0
      <4>1. inum \in Owners /\ block = inode.i_data_block /\ free_blocks' = free_blocks
        BY <1>5, <1>10, <3>3
      <4>2. Owners' = Owners /\ \A i \in Owners :
              inode_table'[i].i_data_block = inode_table[i].i_data_block
        BY <2>4, <3>1, <4>1 DEF Owners
      <4> QED
        BY <4>1, <4>2 DEF TablesInv, BlocksOwned
    <3> QED
      BY <3>2, <3>3
  <2>11. EntriesMatch'
    <3>1. ROOT_DIR_INUM \in Inumbers
      BY ConfigAssumption DEF Inumbers, ROOT_DIR_INUM
    <3> QED
      BY <1>10, <2>4, <3>1 DEF TablesInv, EntriesMatch, IsDirectory
  <2> QED
    BY <2>6, <2>7, <2>8, <2>9, <2>10, <2>11 DEF TablesInv
<1> QED
  BY <1>8, <1>9, <1>10, Zenon DEF Write, valid_block_number

\* What is left of the types when a write goes over the directory, or outside.
LEMMA WildWrite ==
  ASSUME TablesInv, NEW h \in Handles, NEW d \in Data, NEW len \in Lens, Write(h, d, len),
         ~wild, wild'
  PROVE  StateTypeOK' /\ OffsetBounded'
<1> DEFINE offset == open_file_table[h].of_offset
           n      == to_write(offset, len)
<1>1. CASE UNCHANGED state_vars
  BY <1>1, TablesUnchanged DEF TablesInv
<1>2. CASE /\ n > 0 /\ offset + n <= BLOCK_SIZE
           /\ \E s \in DirSlots, e \in DirEntry : dir_entry' = [dir_entry EXCEPT ![s] = e]
           /\ open_file_table' = [open_file_table EXCEPT ![h].of_offset = offset + n]
           /\ UNCHANGED <<inode_vars, block_vars, free_open_file_entries>>
  <2>1. n \in Nat /\ offset \in Nat
    <3>1. len \in Nat /\ offset \in Nat
      BY OpsAssumption DEF TablesInv, StateTypeOK, OpenEntry
    <3> QED
      BY <3>1, <1>2, Sizes DEF to_write, size_sub
  <2>2. open_file_table' \in [Handles -> OpenEntry]
    BY <1>2, <2>1 DEF TablesInv, StateTypeOK, OpenEntry
  <2>3. dir_entry' \in [DirSlots -> DirEntry]
    BY <1>2 DEF TablesInv, StateTypeOK
  <2>4. StateTypeOK'
    BY <1>2, <2>2, <2>3 DEF TablesInv, StateTypeOK, inode_vars, block_vars
  <2>5. \A g \in Handles : open_file_table'[g].of_offset =
                            IF g = h THEN offset + n ELSE open_file_table[g].of_offset
    BY <1>2 DEF TablesInv, StateTypeOK, OpenEntry
  <2>6. offset + n <= MAX_OFFSET
    BY <1>2, <2>1, Sizes
  <2>7. OffsetBounded'
    BY <2>5, <2>6 DEF TablesInv, OffsetBounded
  <2> QED
    BY <2>4, <2>7
<1>3. wild' # wild
  OBVIOUS
<1> QED
  BY <1>1, <1>2, <1>3, Zenon DEF Write

\* tfs_read moves one offset, and not past MAX_OFFSET.
LEMMA ReadTables ==
  ASSUME TablesInv, NEW h \in Handles, NEW len \in Lens, Read(h, len)
  PROVE  TablesInv'
<1> DEFINE inum   == open_file_table[h].of_inumber
           offset == open_file_table[h].of_offset
           n      == Smaller(size_sub(inode_table[inum].i_size, offset), len)
<1>1. inum \in Inumbers /\ offset \in Nat
  BY DEF TablesInv, StateTypeOK, OpenEntry
<1>2. CASE UNCHANGED open_file_table
  <2>1. UNCHANGED state_vars
    BY <1>2 DEF Read, state_vars, open_vars
  <2> QED
    BY <2>1, TablesUnchanged
<1>3. CASE open_file_table' = [open_file_table EXCEPT ![h].of_offset = offset + n]
  <2>1. offset + n <= MAX_OFFSET
        /\ UNCHANGED <<inode_vars, block_vars, dir_entry, free_open_file_entries>>
    BY DEF Read
  <2>2. n \in Nat
    <3>1. inode_table[inum].i_size \in Nat /\ offset <= MAX_OFFSET
      BY <1>1 DEF TablesInv, StateTypeOK, Inode, OffsetBounded
    <3>2. len \in Nat /\ MAX_OFFSET + len < SIZE_MOD
      BY OpsAssumption
    <3> QED
      BY <1>1, <3>1, <3>2, Sizes DEF Smaller, size_sub
  <2>3. \A g \in Handles :
          /\ open_file_table'[g].of_inumber = open_file_table[g].of_inumber
          /\ open_file_table'[g].of_offset = IF g = h THEN offset + n ELSE open_file_table[g].of_offset
    BY <1>1, <1>3 DEF TablesInv, StateTypeOK, OpenEntry
  <2>4. open_file_table' \in [Handles -> OpenEntry]
    BY <1>1, <1>3, <2>2 DEF TablesInv, StateTypeOK, OpenEntry
  <2>5. StateTypeOK'
    BY <2>1, <2>4 DEF TablesInv, StateTypeOK, inode_vars, block_vars
  <2>6. OffsetBounded'
    BY <2>1, <2>3 DEF TablesInv, OffsetBounded
  <2>7. HandlesValid'
    BY <2>1, <2>3 DEF TablesInv, Open, HandlesValid, inode_vars
  <2>8. SizeWithinBlock' /\ BlocksOwned' /\ EntriesMatch'
    BY <2>1 DEF TablesInv, SizeWithinBlock, BlocksOwned, Owners, EntriesMatch,
                IsDirectory, inode_vars, block_vars
  <2> QED
    BY <2>5, <2>6, <2>7, <2>8 DEF TablesInv
<1> QED
  BY <1>2, <1>3 DEF Read

\* Closing a handle leaves its entry, and the files, as they were.
LEMMA CloseTables ==
  ASSUME TablesInv, NEW t, NEW h, tfs_close(t, h)
  PROVE  TablesInv'
<1>1. /\ UNCHANGED <<inode_vars, block_vars, dir_entry, open_file_table>>
      /\ \/ UNCHANGED free_open_file_entries
         \/ free_open_file_entries' = Release(free_open_file_entries, h)
  BY DEF tfs_close
<1>2. /\ free_open_file_entries' \in [Handles -> AllocState]
      /\ \A g \in Handles : free_open_file_entries'[g] = "TAKEN" =>
           free_open_file_entries[g] = "TAKEN"
  BY <1>1 DEF TablesInv, StateTypeOK, Release, AllocState
<1>3. StateTypeOK'
  BY <1>1, <1>2 DEF TablesInv, StateTypeOK, inode_vars, block_vars
<1>4. HandlesValid'
  BY <1>1, <1>2 DEF TablesInv, HandlesValid, Open, inode_vars
<1>5. OffsetBounded' /\ SizeWithinBlock'
  BY <1>1 DEF TablesInv, OffsetBounded, SizeWithinBlock, inode_vars
<1>6. BlocksOwned' /\ EntriesMatch'
  BY <1>1 DEF TablesInv, BlocksOwned, Owners, EntriesMatch, IsDirectory,
              inode_vars, block_vars
<1> QED
  BY <1>3, <1>4, <1>5, <1>6 DEF TablesInv

----------------------------------------------------------------------------
(* Every step.                                                             *)

\* A handle that is used is one.
LEMMA UsableIs == Usable \in SUBSET Handles
BY DEF Usable, Held

\* Nothing is modelled after a wild memcpy.
LEMMA NextIsTame == Next => ~wild
BY DEF Next, tfs_lookup, tfs_open, CountOpen, tfs_close, CountClose, tfs_write, tfs_read, Enters,
       tfs_destroy_after_all_closed, WakeUp, SpuriousWakeUp, tfs_destroy, LockFails

\* Every step but a wild one keeps TablesInv.
LEMMA TablesStep ==
  ASSUME TablesInv, [Next]_vars, ~wild'
  PROVE  TablesInv'
<1>1. CASE UNCHANGED vars
  BY <1>1, TablesUnchanged DEF vars
<1>2. CASE Next
  <2>1. PICK t \in Threads :
          \/ \E path \in Paths : tfs_lookup(t, path)
          \/ \E path \in Paths, flags \in OpenFlags : tfs_open(t, path, flags)
          \/ \E h \in Closable : tfs_close(t, h)
          \/ \E h \in Handles \cup {-1}, d \in Data, len \in Lens : tfs_write(t, h, d, len)
          \/ \E h \in Handles \cup {-1}, len \in Lens : tfs_read(t, h, len)
          \/ CountOpen(t) \/ CountClose(t)
          \/ tfs_destroy_after_all_closed(t)
          \/ WakeUp(t) \/ SpuriousWakeUp(t) \/ tfs_destroy(t)
          \/ \E op \in Ops : LockFails(t, op)
    BY <1>2 DEF Next
  <2>2. CASE \E path \in Paths : tfs_lookup(t, path)
    BY <2>2, TablesUnchanged DEF tfs_lookup
  <2>3. CASE \E path \in Paths, flags \in OpenFlags : tfs_open(t, path, flags)
    <3>1. PICK path \in Paths, flags \in OpenFlags : tfs_open(t, path, flags)
      BY <2>3
    <3>2. CASE OpenExisting(t, path, flags)
      BY <3>2, OpenExistingTables
    <3>3. CASE OpenCreate(t, path, flags)
      BY <3>3, OpenCreateTables
    <3>4. CASE OpenCreateFails(path, flags)
      BY <3>4, OpenCreateFailsTables
    <3>5. CASE OpenMissing(path, flags)
      <4>1. UNCHANGED state_vars
        BY <3>5 DEF OpenMissing, OpenFails, state_vars
      <4> QED
        BY <4>1, TablesUnchanged
    <3> QED
      BY <3>1, <3>2, <3>3, <3>4, <3>5 DEF tfs_open
  <2>4. CASE \E h \in Closable : tfs_close(t, h)
    BY <2>4, CloseTables
  <2>5. CASE \E h \in Handles \cup {-1}, d \in Data, len \in Lens : tfs_write(t, h, d, len)
    <3>1. PICK h \in Handles \cup {-1}, d \in Data, len \in Lens : tfs_write(t, h, d, len)
      BY <2>5
    <3>2. CASE h \in Usable /\ Write(h, d, len)
      BY <3>1, <3>2, UsableIs, WriteTables DEF tfs_write, Enters
    <3>3. CASE BadHandle("write")
      BY <3>3, TablesUnchanged DEF BadHandle
    <3> QED
      BY <3>1, <3>2, <3>3 DEF tfs_write
  <2>6. CASE \E h \in Handles \cup {-1}, len \in Lens : tfs_read(t, h, len)
    <3>1. PICK h \in Handles \cup {-1}, len \in Lens : tfs_read(t, h, len)
      BY <2>6
    <3>2. CASE h \in Usable /\ Read(h, len)
      BY <3>2, UsableIs, ReadTables
    <3>3. CASE BadHandle("read")
      BY <3>3, TablesUnchanged DEF BadHandle
    <3> QED
      BY <3>1, <3>2, <3>3 DEF tfs_read
  <2>7. CASE CountOpen(t) \/ CountClose(t)
    BY <2>7, TablesUnchanged DEF CountOpen, CountClose
  <2>8. CASE tfs_destroy_after_all_closed(t) \/ WakeUp(t) \/ SpuriousWakeUp(t) \/ tfs_destroy(t)
    BY <2>8, TablesUnchanged DEF tfs_destroy_after_all_closed, WakeUp, TestOpenFiles,
                                 SpuriousWakeUp, tfs_destroy
  <2>9. CASE \E op \in Ops : LockFails(t, op)
    BY <2>9, TablesUnchanged DEF LockFails
  <2> QED
    BY <2>1, <2>2, <2>3, <2>4, <2>5, <2>6, <2>7, <2>8, <2>9
<1> QED
  BY <1>1, <1>2

\* What holds of the tables throughout: their types, and the rest until a wild
\* memcpy.
TablesHold == StateTypeOK /\ OffsetBounded /\ (wild \/ TablesInv)

\* Every step keeps it.
LEMMA HoldStep ==
  ASSUME TablesHold, [Next]_vars
  PROVE  TablesHold'
<1>1. CASE UNCHANGED vars
  BY <1>1, TablesUnchanged
     DEF vars, TablesHold, StateTypeOK, OffsetBounded, state_vars, inode_vars, block_vars, open_vars
<1>2. CASE Next /\ ~wild'
  <2>1. TablesInv
    BY <1>2, NextIsTame DEF TablesHold
  <2> QED
    BY <1>2, <2>1, TablesStep DEF TablesHold, TablesInv
<1>3. CASE Next /\ wild'
  <2>1. TablesInv /\ ~wild
    BY <1>3, NextIsTame DEF TablesHold
  <2>2. wild' # wild
    BY <1>3, <2>1
  <2>3. \E t \in Threads, h \in Handles \cup {-1}, d \in Data, len \in Lens : tfs_write(t, h, d, len)
    BY <1>3, <2>2 DEF Next, tfs_lookup, tfs_open, CountOpen, tfs_close, CountClose, tfs_read, Read,
         BadHandle, tfs_destroy_after_all_closed, WakeUp, TestOpenFiles, SpuriousWakeUp, tfs_destroy,
         LockFails
  <2>4. PICK h \in Handles, d \in Data, len \in Lens : Write(h, d, len)
    BY <2>2, <2>3, UsableIs DEF tfs_write, BadHandle
  <2>5. StateTypeOK' /\ OffsetBounded'
    BY <1>3, <2>1, <2>4, WildWrite
  <2> QED
    BY <1>3, <2>5 DEF TablesHold
<1> QED
  BY <1>1, <1>2, <1>3

\* They hold at first,
LEMMA TablesInit == Init => TablesHold
BY InitTables DEF TablesHold, TablesInv

\* and throughout.
LEMMA TablesInvariant == Spec => []TablesHold
<1>1. TablesHold /\ [Next]_vars => TablesHold'
  BY HoldStep
<1> QED
  BY <1>1, TablesInit, PTL DEF Spec

\* However many files, blocks, handles and threads there are, and however the
\* callers use closed handles and truncate each other's files, no two files share
\* a block, every block in use is marked taken, and no block is lost, until a
\* write through a handle number that was never returned goes over the directory.
THEOREM BlocksAreOwned == Spec => []BlockOwnership
<1>1. TablesHold => BlockOwnership
  BY DEF TablesHold, TablesInv, BlockOwnership
<1> QED
  BY <1>1, TablesInvariant, PTL

\* The directory names each existing file exactly once and no other i-node,
\* through every creation that succeeds or is undone, until such a write.
THEOREM DirectoryIsConsistent == Spec => []DirectoryConsistent
<1>1. TablesHold => DirectoryConsistent
  BY DEF TablesHold, TablesInv, DirectoryConsistent
<1> QED
  BY <1>1, TablesInvariant, PTL

\* A handle, open or closed, refers to an i-node in use, and an open one to a
\* file, until such a write.
THEOREM HandlesAreOfFiles == Spec => []HandlesReferToFiles
<1>1. TablesHold => HandlesReferToFiles
  BY DEF TablesHold, TablesInv, HandlesReferToFiles
<1> QED
  BY <1>1, TablesInvariant, PTL

----------------------------------------------------------------------------
(* Types.                                                                  *)

RetType == [op : Ops \cup {"init"}, val : Int, data : Seq(Data \cup {JUNK})]

ControlTypeOK ==
  /\ number_open_files \in Int
  /\ pc \in [Threads -> Pc]
  /\ destroyed \in SUBSET Locks
  /\ wild \in BOOLEAN
  /\ opening \in [Threads -> Handles \cup {-1}]
  /\ ret \in RetType
  /\ failures \in Int
  /\ undercut \in SUBSET Handles

\* What a body returns keeps ret typed,
LEMMA ReturnsType ==
  ASSUME NEW op \in Ops, NEW val \in Int, NEW data \in Seq(Data \cup {JUNK}), Returns(op, val, data)
  PROVE  ret' \in RetType
BY DEF Returns, RetType

\* also with no bytes.
LEMMA ReturnsNoData ==
  ASSUME NEW op \in Ops, NEW val \in Int, Returns(op, val, <<>>)
  PROVE  ret' \in RetType
BY EmptySeq, ReturnsType

\* A thread goes to one of its places.
LEMMA GotoType ==
  ASSUME pc \in [Threads -> Pc], NEW t, NEW where \in Pc, Goto(t, where)
  PROVE  pc' \in [Threads -> Pc]
BY DEF Goto

\* tfs_open returns a handle or -1.
LEMMA OpenTypes ==
  ASSUME TablesHold, ControlTypeOK, NEW t \in Threads, NEW path \in Paths, NEW flags,
         tfs_open(t, path, flags)
  PROVE  ControlTypeOK'
<1>1. pc' \in [Threads -> Pc]
  BY GotoType DEF tfs_open, ControlTypeOK, Pc
<1>2. /\ ret' \in RetType
      /\ opening' \in [Threads -> Handles \cup {-1}]
      /\ failures' \in Int
  <2>1. ASSUME NEW inum, NEW offset, NEW cut, add_to_open_file_table(t, inum, offset, cut)
        PROVE  <1>2!1 /\ <1>2!2 /\ <1>2!3
    <3> DEFINE h == First(FreeIn(free_open_file_entries))
    <3>1. h \in Handles \cup {-1} /\ h \in Int
      BY FirstOrNone DEF TablesHold, StateTypeOK, FreeIn, Handles
    <3> QED
      BY <2>1, <3>1, ReturnsNoData DEF add_to_open_file_table, ControlTypeOK, Ops
  <2>2. ASSUME OpenFails
        PROVE  <1>2!1 /\ <1>2!2 /\ <1>2!3
    BY <2>2, ReturnsNoData DEF OpenFails, ControlTypeOK, Ops
  <2> QED
    BY <2>1, <2>2, Zenon DEF tfs_open, OpenExisting, OpenCreate, OpenCreateFails, OpenMissing
<1>3. undercut' \in SUBSET Handles
  <2>1. PastStart(lookup(path)) \in SUBSET Handles /\ undercut \in SUBSET Handles
    BY DEF PastStart, ControlTypeOK
  <2>2. \/ \E cut \in SUBSET Handles : \E g : undercut' = (undercut \cup cut) \ {g}
        \/ undercut' = undercut
    BY <2>1 DEF tfs_open, OpenExisting, OpenCreate, OpenCreateFails, OpenMissing, OpenFails,
                add_to_open_file_table
  <2> QED
    BY <2>1, <2>2
<1> QED
  BY <1>1, <1>2, <1>3 DEF tfs_open, ControlTypeOK

\* tfs_read returns bytes, of the block or from outside.
LEMMA ReadTypes ==
  ASSUME TablesHold, ControlTypeOK, NEW h \in Handles, NEW len \in Lens, Read(h, len)
  PROVE  ret' \in RetType
<1> DEFINE inum   == open_file_table[h].of_inumber
           offset == open_file_table[h].of_offset
           n      == Smaller(size_sub(inode_table[inum].i_size, offset), len)
           block  == inode_table[inum].i_data_block
           byte   == [k \in 1 .. n |-> IF inum # ROOT_DIR_INUM /\ offset + k - 1 \in Offsets
                                       THEN fs_data[block][offset + k - 1] ELSE JUNK]
<1>1. inum \in Inumbers /\ offset \in Nat
  BY DEF TablesHold, StateTypeOK, OpenEntry
<1>2. n \in Nat
  <2>1. inode_table[inum].i_size \in Nat /\ offset <= MAX_OFFSET
    BY <1>1 DEF TablesHold, StateTypeOK, Inode, OffsetBounded
  <2>2. len \in Nat /\ MAX_OFFSET + len < SIZE_MOD
    BY OpsAssumption
  <2> QED
    BY <1>1, <2>1, <2>2, Sizes DEF Smaller, size_sub
<1>3. CASE Returns("read", -1, <<>>) \/ Returns("read", 0, <<>>)
  BY <1>3, ReturnsNoData DEF Ops
<1>4. CASE block \in Blocks /\ Returns("read", n, byte)
  <2>1. fs_data[block] \in [Offsets -> Data]
    BY <1>4 DEF TablesHold, StateTypeOK
  <2>2. byte \in [1 .. n -> Data \cup {JUNK}]
    BY <2>1
  <2>3. byte \in Seq(Data \cup {JUNK})
    BY <1>2, <2>2, SeqDef
  <2> HIDE DEF byte, n
  <2> QED
    BY <1>2, <1>4, <2>3, ReturnsType DEF Ops
<1> QED
  BY <1>3, <1>4 DEF Read, valid_block_number

\* tfs_write returns a number.
LEMMA WriteTypes ==
  ASSUME TablesHold, ControlTypeOK, NEW h \in Handles, NEW d, NEW len \in Lens, Write(h, d, len)
  PROVE  ret' \in RetType
<1> DEFINE n == to_write(open_file_table[h].of_offset, len)
<1>1. n \in Int
  <2>1. open_file_table[h].of_offset \in Nat
    BY DEF TablesHold, StateTypeOK, OpenEntry
  <2>2. len \in Nat
    BY OpsAssumption
  <2> QED
    BY <2>1, <2>2, Sizes DEF to_write, size_sub
<1>2. CASE \E val \in {0, -1, n} : Returns("write", val, <<>>)
  BY <1>1, <1>2, ReturnsNoData DEF Ops
<1>3. CASE UNCHANGED ret
  BY <1>3 DEF ControlTypeOK
<1> QED
  BY <1>2, <1>3 DEF Write

\* Every step keeps the types of the control variables.
LEMMA ControlStep ==
  ASSUME TablesHold, ControlTypeOK, [Next]_vars
  PROVE  ControlTypeOK'
<1>1. CASE UNCHANGED vars
  BY <1>1 DEF vars, ControlTypeOK
<1>2. CASE Next
  <2>1. PICK t \in Threads :
          \/ \E path \in Paths : tfs_lookup(t, path)
          \/ \E path \in Paths, flags \in OpenFlags : tfs_open(t, path, flags)
          \/ \E h \in Closable : tfs_close(t, h)
          \/ \E h \in Handles \cup {-1}, d \in Data, len \in Lens : tfs_write(t, h, d, len)
          \/ \E h \in Handles \cup {-1}, len \in Lens : tfs_read(t, h, len)
          \/ CountOpen(t) \/ CountClose(t)
          \/ tfs_destroy_after_all_closed(t)
          \/ WakeUp(t) \/ SpuriousWakeUp(t) \/ tfs_destroy(t)
          \/ \E op \in Ops : LockFails(t, op)
    BY <1>2 DEF Next
  <2>2. CASE \E path \in Paths : tfs_lookup(t, path)
    <3>1. PICK path \in Paths : tfs_lookup(t, path)
      BY <2>2
    <3>2. lookup(path) \in Int
      BY <3>1, LookupFinds DEF Inumbers, TablesHold, tfs_lookup, Enters
    <3>3. ret' \in RetType
      BY <3>1, <3>2, ReturnsNoData DEF tfs_lookup, Ops
    <3> QED
      BY <3>1, <3>3 DEF tfs_lookup, ControlTypeOK
  <2>3. CASE \E path \in Paths, flags \in OpenFlags : tfs_open(t, path, flags)
    BY <2>3, OpenTypes
  <2>4. CASE \E h \in Closable : tfs_close(t, h)
    <3>1. pc' \in [Threads -> Pc]
      BY <2>4, GotoType DEF tfs_close, ControlTypeOK, Pc
    <3>2. ret' \in RetType
      BY <2>4, ReturnsNoData DEF tfs_close, Ops
    <3> QED
      BY <2>4, <3>1, <3>2 DEF tfs_close, ControlTypeOK
  <2>5. CASE \E h \in Handles \cup {-1}, d \in Data, len \in Lens : tfs_write(t, h, d, len)
    <3>1. PICK h \in Handles \cup {-1}, d \in Data, len \in Lens : tfs_write(t, h, d, len)
      BY <2>5
    <3>2. CASE h \in Usable /\ Write(h, d, len)
      <4>1. ret' \in RetType
        BY <3>2, UsableIs, WriteTypes
      <4>2. wild' \in BOOLEAN
        BY <3>2 DEF Write, ControlTypeOK
      <4> QED
        BY <3>1, <4>1, <4>2 DEF tfs_write, ControlTypeOK
    <3>3. CASE BadHandle("write")
      <4>1. ret' \in RetType /\ wild' = wild
        BY <3>3, ReturnsNoData DEF BadHandle, Ops
      <4> QED
        BY <3>1, <4>1 DEF tfs_write, ControlTypeOK
    <3> QED
      BY <3>1, <3>2, <3>3 DEF tfs_write
  <2>6. CASE \E h \in Handles \cup {-1}, len \in Lens : tfs_read(t, h, len)
    <3>1. PICK h \in Handles \cup {-1}, len \in Lens : tfs_read(t, h, len)
      BY <2>6
    <3>2. CASE h \in Usable /\ Read(h, len)
      <4>1. ret' \in RetType /\ wild' = wild
        BY <3>2, UsableIs, ReadTypes DEF Read
      <4> QED
        BY <3>1, <4>1 DEF tfs_read, ControlTypeOK
    <3>3. CASE BadHandle("read")
      <4>1. ret' \in RetType /\ wild' = wild
        BY <3>3, ReturnsNoData DEF BadHandle, Ops
      <4> QED
        BY <3>1, <4>1 DEF tfs_read, ControlTypeOK
    <3> QED
      BY <3>1, <3>2, <3>3 DEF tfs_read
  <2>7. CASE CountOpen(t)
    <3>1. pc' \in [Threads -> Pc]
      BY <2>7, GotoType DEF CountOpen, ControlTypeOK, Pc
    <3>2. opening' \in [Threads -> Handles \cup {-1}]
      BY <2>7 DEF CountOpen, ControlTypeOK
    <3>3. number_open_files' \in Int
      BY <2>7 DEF CountOpen, ControlTypeOK
    <3> QED
      BY <2>7, <3>1, <3>2, <3>3 DEF CountOpen, ControlTypeOK
  <2>8. CASE CountClose(t)
    <3>1. pc' \in [Threads -> Pc]
      <4>1. [pc EXCEPT ![t] = "idle"] \in [Threads -> Pc]
        BY DEF ControlTypeOK, Pc
      <4> QED
        BY <2>8, <4>1 DEF CountClose, Signalled, Pc
    <3> QED
      BY <2>8, <3>1 DEF CountClose, ControlTypeOK
  <2>9. CASE tfs_destroy_after_all_closed(t) \/ WakeUp(t)
    <3>1. pc' \in [Threads -> Pc]
      BY <2>9, GotoType DEF tfs_destroy_after_all_closed, WakeUp, TestOpenFiles, ControlTypeOK, Pc
    <3> QED
      BY <2>9, <3>1 DEF tfs_destroy_after_all_closed, WakeUp, TestOpenFiles, ControlTypeOK
  <2>10. CASE SpuriousWakeUp(t)
    <3>1. pc' \in [Threads -> Pc]
      BY <2>10, GotoType DEF SpuriousWakeUp, ControlTypeOK, Pc
    <3> QED
      BY <2>10, <3>1 DEF SpuriousWakeUp, ControlTypeOK
  <2>11. CASE tfs_destroy(t)
    <3>1. pc' \in [Threads -> Pc]
      BY <2>11, GotoType DEF tfs_destroy, ControlTypeOK, Pc
    <3>2. ret' \in RetType
      BY <2>11, ReturnsNoData DEF tfs_destroy, Ops
    <3> QED
      BY <2>11, <3>1, <3>2 DEF tfs_destroy, ControlTypeOK, Locks
  <2>12. CASE \E op \in Ops : LockFails(t, op)
    <3>1. pc' \in [Threads -> Pc]
      BY <2>12, GotoType DEF LockFails, ControlTypeOK, Pc
    <3>2. ret' \in RetType
      BY <2>12, ReturnsNoData DEF LockFails
    <3> QED
      BY <2>12, <3>1, <3>2 DEF LockFails, ControlTypeOK
  <2> QED
    BY <2>1, <2>2, <2>3, <2>4, <2>5, <2>6, <2>7, <2>8, <2>9, <2>10, <2>11, <2>12
<1> QED
  BY <1>1, <1>2

\* They hold at first.
LEMMA ControlInit == Init => ControlTypeOK
<1> SUFFICES ASSUME Init PROVE ControlTypeOK
  OBVIOUS
<1>1. ret \in RetType
  BY EmptySeq DEF Init, RetType
<1>2. pc \in [Threads -> Pc] /\ opening \in [Threads -> Handles \cup {-1}]
  BY DEF Init, Pc
<1>3. number_open_files \in Int /\ failures \in Int
  BY DEF Init
<1>4. destroyed \in SUBSET Locks /\ wild \in BOOLEAN /\ undercut \in SUBSET Handles
  BY DEF Init
<1> QED
  BY <1>1, <1>2, <1>3, <1>4 DEF ControlTypeOK

\* Every table, counter and result keeps to its type: an open-file entry always
\* names an i-number in range, an i-node a block in range or -1, and tfs_read
\* returns bytes whatever its wrapped lengths are.
THEOREM TypeCorrect == Spec => []TypeOK
<1>1. TablesHold /\ ControlTypeOK /\ [Next]_vars => TablesHold' /\ ControlTypeOK'
  BY HoldStep, ControlStep
<1>2. TablesHold /\ ControlTypeOK => TypeOK
  BY DEF TablesHold, ControlTypeOK, RetType, TypeOK
<1> QED
  BY <1>1, <1>2, TablesInit, ControlInit, PTL DEF Spec

----------------------------------------------------------------------------
(* The counter.                                                            *)

OpenHandles == {h \in Handles : Open(h)}

\* What the counter would be with every call complete, less what it should be.
Balance == number_open_files + Cardinality(Pending("opened")) - Cardinality(Pending("closed"))
             - Cardinality(OpenHandles) - failures

\* The counter is exact when the balance is zero, and all that is counted is finite.
LEMMA CounterBalance ==
  ASSUME TablesHold, ControlTypeOK
  PROVE  /\ CounterAccounting <=> ("open_files_lock" \in destroyed \/ Balance = 0)
         /\ IsFiniteSet(OpenHandles) /\ Cardinality(OpenHandles) \in Nat
         /\ \A where : IsFiniteSet(Pending(where)) /\ Cardinality(Pending(where)) \in Nat
<1>1. IsFiniteSet(OpenHandles)
  <2>1. IsFiniteSet(Handles)
    <3>1. MAX_OPEN_FILES \in Nat
      BY ConfigAssumption
    <3> QED
      BY <3>1, FS_Interval DEF Handles
  <2>2. OpenHandles \in SUBSET Handles
    BY DEF OpenHandles
  <2> QED
    BY <2>1, <2>2, FS_Subset
<1>2. \A where : IsFiniteSet(Pending(where))
  <2>1. IsFiniteSet(Threads)
    BY OpsAssumption
  <2>2. \A where : Pending(where) \in SUBSET Threads
    BY DEF Pending
  <2> QED
    BY <2>1, <2>2, FS_Subset
<1>3. /\ Cardinality(OpenHandles) \in Nat
      /\ \A where : Cardinality(Pending(where)) \in Nat
  BY <1>1, <1>2, FS_CardinalityType
<1>4. CounterAccounting <=> ("open_files_lock" \in destroyed \/ Balance = 0)
  <2>1. Cardinality(Pending("opened")) \in Nat /\ Cardinality(Pending("closed")) \in Nat
    BY <1>3
  <2>2. number_open_files \in Int /\ failures \in Int
    BY DEF ControlTypeOK
  <2> HIDE DEF OpenHandles
  <2>3. CounterAccounting <=> \/ "open_files_lock" \in destroyed
                             \/ number_open_files + Cardinality(Pending("opened"))
                                  - Cardinality(Pending("closed"))
                                  = Cardinality(OpenHandles) + failures
    BY DEF CounterAccounting, OpenHandles
  <2> QED
    BY <1>3, <2>1, <2>2, <2>3 DEF Balance
<1> QED
  BY <1>1, <1>2, <1>3, <1>4

\* One thread goes from one place to another.
LEMMA PendingChange ==
  ASSUME TablesHold, ControlTypeOK, NEW t \in Threads, NEW to, pc' = [pc EXCEPT ![t] = to],
         NEW where
  PROVE  Cardinality(Pending(where)') =
           Cardinality(Pending(where)) + (IF to = where THEN 1 ELSE 0)
                                       - (IF pc[t] = where THEN 1 ELSE 0)
<1>1. IsFiniteSet(Pending(where)) /\ Cardinality(Pending(where)) \in Nat
  BY CounterBalance
<1>2. \A u \in Threads : pc'[u] = IF u = t THEN to ELSE pc[u]
  BY DEF ControlTypeOK
<1>3. CASE to = where /\ pc[t] # where
  <2>1. Pending(where)' = Pending(where) \cup {t} /\ t \notin Pending(where)
    BY <1>2, <1>3 DEF Pending
  <2>2. Cardinality(Pending(where) \cup {t}) = Cardinality(Pending(where)) + 1
    BY <1>1, <2>1, FS_AddElement
  <2> QED
    BY <1>1, <1>3, <2>1, <2>2
<1>4. CASE to # where /\ pc[t] = where
  <2>1. Pending(where)' = Pending(where) \ {t} /\ t \in Pending(where)
    BY <1>2, <1>4 DEF Pending
  <2>2. Cardinality(Pending(where) \ {t}) = Cardinality(Pending(where)) - 1
    BY <1>1, <2>1, FS_RemoveElement
  <2> QED
    BY <1>1, <1>4, <2>1, <2>2
<1>5. CASE (to = where) <=> (pc[t] = where)
  <2>1. Pending(where)' = Pending(where)
    BY <1>2, <1>5 DEF Pending
  <2> QED
    BY <1>1, <1>5, <2>1
<1> QED
  BY <1>3, <1>4, <1>5

\* A body of tfs_open opens a handle or counts a failure.
LEMMA OpenCounts ==
  ASSUME TablesHold, ControlTypeOK, NEW t \in Threads, NEW path, NEW flags, tfs_open(t, path, flags)
  PROVE  Cardinality(OpenHandles') + failures' = Cardinality(OpenHandles) + failures + 1
<1> DEFINE Goal == Cardinality(OpenHandles') + failures' = Cardinality(OpenHandles) + failures + 1
<1>1. IsFiniteSet(OpenHandles) /\ Cardinality(OpenHandles) \in Nat /\ failures \in Int
  BY CounterBalance DEF ControlTypeOK
<1>2. ASSUME NEW inum, NEW offset, NEW cut, add_to_open_file_table(t, inum, offset, cut)
      PROVE  Goal
  <2> DEFINE h == First(FreeIn(free_open_file_entries))
  <2>1. free_open_file_entries \in [Handles -> AllocState]
    BY DEF TablesHold, StateTypeOK
  <2>2. /\ \A g \in Handles : free_open_file_entries'[g] =
             IF g = h THEN "TAKEN" ELSE free_open_file_entries[g]
        /\ h # -1 => h \in Handles /\ free_open_file_entries[h] = "FREE"
    BY <1>2, <2>1, TakeFirstAt DEF add_to_open_file_table
  <2>3. failures' = IF h = -1 THEN failures + 1 ELSE failures
    BY <1>2 DEF add_to_open_file_table
  <2>4. CASE h = -1
    <3>1. OpenHandles' = OpenHandles
      BY <2>2, <2>4 DEF OpenHandles, Open, Handles
    <3> QED
      BY <1>1, <2>3, <2>4, <3>1
  <2>5. CASE h # -1
    <3>1. OpenHandles' = OpenHandles \cup {h} /\ h \notin OpenHandles
      BY <2>2, <2>5 DEF OpenHandles, Open
    <3>2. Cardinality(OpenHandles') = Cardinality(OpenHandles) + 1
      BY <1>1, <3>1, FS_AddElement
    <3> QED
      BY <1>1, <2>3, <2>5, <3>2
  <2> QED
    BY <2>4, <2>5
<1>3. ASSUME OpenFails
      PROVE  Goal
  <2>1. OpenHandles' = OpenHandles
    BY <1>3 DEF OpenFails, open_vars, OpenHandles, Open
  <2> QED
    BY <1>1, <1>3, <2>1 DEF OpenFails
<1> QED
  BY <1>2, <1>3, Zenon DEF tfs_open, OpenExisting, OpenCreate, OpenCreateFails, OpenMissing

\* A body of tfs_close closes a handle or takes a failure off.
LEMMA CloseCounts ==
  ASSUME TablesHold, ControlTypeOK, NEW t \in Threads, NEW h, tfs_close(t, h)
  PROVE  Cardinality(OpenHandles') + failures' = Cardinality(OpenHandles) + failures - 1
<1>1. IsFiniteSet(OpenHandles) /\ Cardinality(OpenHandles) \in Nat /\ failures \in Int
  BY CounterBalance DEF ControlTypeOK
<1>2. CASE /\ h \in Handles /\ Open(h)
           /\ free_open_file_entries' = Release(free_open_file_entries, h)
           /\ UNCHANGED failures
  <2>1. OpenHandles' = OpenHandles \ {h} /\ h \in OpenHandles
    BY <1>2 DEF OpenHandles, Open, Release, TablesHold, StateTypeOK
  <2>2. Cardinality(OpenHandles \ {h}) = Cardinality(OpenHandles) - 1
    BY <1>1, <2>1, FS_RemoveElement
  <2> QED
    BY <1>1, <1>2, <2>1, <2>2
<1>3. CASE failures' = failures - 1 /\ UNCHANGED free_open_file_entries
  <2>1. OpenHandles' = OpenHandles
    BY <1>3 DEF OpenHandles, Open
  <2> QED
    BY <1>1, <1>3, <2>1
<1> QED
  BY <1>2, <1>3 DEF tfs_close

\* Other steps touch neither the handle table nor the threads being counted.
LEMMA BalanceUnchanged ==
  ASSUME UNCHANGED <<number_open_files, free_open_file_entries, failures>>,
         \A where \in {"opened", "closed"} : Pending(where)' = Pending(where)
  PROVE  Balance' = Balance
<1>1. OpenHandles' = OpenHandles
  BY DEF OpenHandles, Open
<1> QED
  BY <1>1 DEF Balance

\* The first of these facts, in a form that can be primed.
LEMMA AccountingIsBalance ==
  TablesHold /\ ControlTypeOK => (CounterAccounting <=> ("open_files_lock" \in destroyed \/ Balance = 0))
BY CounterBalance

\* What CounterBalance says of the types, after a step.
LEMMA CountsAreNumbers ==
  TablesHold /\ ControlTypeOK => Cardinality(OpenHandles) \in Nat /\ failures \in Int
BY CounterBalance DEF ControlTypeOK

\* Every step keeps the counter exact.
LEMMA CounterStep ==
  ASSUME TablesHold, ControlTypeOK, TablesHold', ControlTypeOK', CounterAccounting, [Next]_vars
  PROVE  CounterAccounting'
<1>1. (CounterAccounting <=> ("open_files_lock" \in destroyed \/ Balance = 0))'
  BY AccountingIsBalance, PTL
<1>2. pc \in [Threads -> Pc] /\ number_open_files \in Int /\ failures \in Int
  BY DEF ControlTypeOK
<1>3. /\ Cardinality(OpenHandles) \in Nat
      /\ Cardinality(Pending("opened")) \in Nat /\ Cardinality(Pending("closed")) \in Nat
  BY CounterBalance
<1>4. (Cardinality(OpenHandles) \in Nat /\ failures \in Int)'
  BY CountsAreNumbers, PTL
<1>5. CASE UNCHANGED vars
  <2>1. /\ UNCHANGED <<number_open_files, free_open_file_entries, failures>>
        /\ destroyed' = destroyed /\ pc' = pc
    BY <1>5 DEF vars, state_vars, open_vars
  <2>2. Balance' = Balance
    BY <2>1, BalanceUnchanged DEF Pending
  <2> QED
    BY <1>1, <2>1, <2>2, CounterBalance
<1>6. ASSUME "open_files_lock" \in destroyed, Next
      PROVE  "open_files_lock" \in destroyed'
  BY <1>6 DEF Next, tfs_lookup, tfs_open, CountOpen, tfs_close, CountClose, tfs_write, tfs_read,
             tfs_destroy_after_all_closed, TestOpenFiles, WakeUp, SpuriousWakeUp, tfs_destroy,
             LockFails, Locks
<1>7. CASE Next /\ "open_files_lock" \notin destroyed
  <2>1. PICK t \in Threads :
          \/ \E path \in Paths : tfs_lookup(t, path)
          \/ \E path \in Paths, flags \in OpenFlags : tfs_open(t, path, flags)
          \/ \E h \in Closable : tfs_close(t, h)
          \/ \E h \in Handles \cup {-1}, d \in Data, len \in Lens : tfs_write(t, h, d, len)
          \/ \E h \in Handles \cup {-1}, len \in Lens : tfs_read(t, h, len)
          \/ CountOpen(t) \/ CountClose(t)
          \/ tfs_destroy_after_all_closed(t)
          \/ WakeUp(t) \/ SpuriousWakeUp(t) \/ tfs_destroy(t)
          \/ \E op \in Ops : LockFails(t, op)
    BY <1>7 DEF Next
  <2>2. Balance = 0
    BY <1>7, CounterBalance
  <2>3. SUFFICES Balance' = Balance
    BY <1>1, <2>2
  <2>4. CASE UNCHANGED <<number_open_files, free_open_file_entries, failures, pc>>
    BY <2>4, BalanceUnchanged DEF Pending
  <2>5. CASE \E to \in {"idle", "waiting", "woken", "destroying"} :
               /\ pc[t] \in {"idle", "waiting", "woken", "destroying"} /\ Goto(t, to)
               /\ UNCHANGED <<number_open_files, free_open_file_entries, failures>>
    <3>1. PICK to \in {"idle", "waiting", "woken", "destroying"} :
               /\ pc[t] \in {"idle", "waiting", "woken", "destroying"} /\ Goto(t, to)
      BY <2>5
    <3>2. \A where \in {"opened", "closed"} : Pending(where)' = Pending(where)
      BY <1>2, <3>1 DEF Goto, Pending
    <3> QED
      BY <2>5, <3>2, BalanceUnchanged
  <2>6. CASE \E path \in Paths, flags \in OpenFlags : tfs_open(t, path, flags)
    <3>1. PICK path \in Paths, flags \in OpenFlags : tfs_open(t, path, flags)
      BY <2>6
    <3>2. Cardinality(OpenHandles') + failures' = Cardinality(OpenHandles) + failures + 1
      BY <3>1, OpenCounts
    <3>3. /\ number_open_files' = number_open_files
          /\ pc[t] = "idle" /\ pc' = [pc EXCEPT ![t] = "opened"]
      BY <3>1 DEF tfs_open, Enters, Goto
    <3>4. /\ Cardinality(Pending("opened")') = Cardinality(Pending("opened")) + 1
          /\ Cardinality(Pending("closed")') = Cardinality(Pending("closed"))
      <4>1. \A where : Cardinality(Pending(where)') =
              Cardinality(Pending(where)) + (IF "opened" = where THEN 1 ELSE 0)
                                          - (IF pc[t] = where THEN 1 ELSE 0)
        BY <3>3, PendingChange
      <4> QED
        BY <1>3, <3>3, <4>1
    <3> QED
      BY <1>2, <1>3, <1>4, <3>2, <3>3, <3>4 DEF Balance
  <2>7. CASE \E h \in Closable : tfs_close(t, h)
    <3>1. PICK h \in Closable : tfs_close(t, h)
      BY <2>7
    <3>2. Cardinality(OpenHandles') + failures' = Cardinality(OpenHandles) + failures - 1
      BY <3>1, CloseCounts
    <3>3. /\ number_open_files' = number_open_files
          /\ pc[t] = "idle" /\ pc' = [pc EXCEPT ![t] = "closed"]
      BY <3>1 DEF tfs_close, Enters, Goto
    <3>4. /\ Cardinality(Pending("opened")') = Cardinality(Pending("opened"))
          /\ Cardinality(Pending("closed")') = Cardinality(Pending("closed")) + 1
      <4>1. \A where : Cardinality(Pending(where)') =
              Cardinality(Pending(where)) + (IF "closed" = where THEN 1 ELSE 0)
                                          - (IF pc[t] = where THEN 1 ELSE 0)
        BY <3>3, PendingChange
      <4> QED
        BY <1>3, <3>3, <4>1
    <3> QED
      BY <1>2, <1>3, <1>4, <3>2, <3>3, <3>4 DEF Balance
  <2>8. CASE CountOpen(t)
    <3>1. /\ number_open_files' = number_open_files + 1
          /\ pc[t] = "opened" /\ pc' = [pc EXCEPT ![t] = "idle"]
          /\ failures' = failures /\ OpenHandles' = OpenHandles
      BY <2>8 DEF CountOpen, Enters, Goto, state_vars, open_vars, OpenHandles, Open
    <3>2. /\ Cardinality(Pending("opened")') = Cardinality(Pending("opened")) - 1
          /\ Cardinality(Pending("closed")') = Cardinality(Pending("closed"))
      <4>1. \A where : Cardinality(Pending(where)') =
              Cardinality(Pending(where)) + (IF "idle" = where THEN 1 ELSE 0)
                                          - (IF pc[t] = where THEN 1 ELSE 0)
        BY <3>1, PendingChange
      <4> QED
        BY <1>3, <3>1, <4>1
    <3> QED
      BY <1>2, <1>3, <3>1, <3>2 DEF Balance
  <2>9. CASE CountClose(t)
    <3> DEFINE p == [pc EXCEPT ![t] = "idle"]
    <3>1. /\ number_open_files' = number_open_files - 1
          /\ pc[t] = "closed" /\ Signalled(p)
          /\ failures' = failures /\ OpenHandles' = OpenHandles
      BY <2>9 DEF CountClose, Enters, state_vars, open_vars, OpenHandles, Open
    <3>2. \A where \in {"opened", "closed"} : \A u \in Threads : pc'[u] = where <=> p[u] = where
      BY <1>2, <3>1 DEF Signalled
    <3>3. Pending("opened")' = Pending("opened") /\ Pending("closed")' = Pending("closed") \ {t}
      BY <1>2, <3>1, <3>2 DEF Pending
    <3>4. Cardinality(Pending("closed") \ {t}) = Cardinality(Pending("closed")) - 1
      <4>1. IsFiniteSet(Pending("closed")) /\ t \in Pending("closed")
        BY <3>1, CounterBalance DEF Pending
      <4> QED
        BY <4>1, FS_RemoveElement
    <3>5. /\ Cardinality(Pending("opened")') = Cardinality(Pending("opened"))
          /\ Cardinality(Pending("closed")') = Cardinality(Pending("closed")) - 1
      BY <3>3, <3>4
    <3> QED
      BY <1>2, <1>3, <3>1, <3>5 DEF Balance
  <2>10. CASE \E path \in Paths : tfs_lookup(t, path)
    BY <2>10, <2>4 DEF tfs_lookup, state_vars, open_vars
  <2>11. CASE \E h \in Handles \cup {-1}, d \in Data, len \in Lens : tfs_write(t, h, d, len)
    <3>1. UNCHANGED <<number_open_files, free_open_file_entries, failures, pc>>
      BY <2>11 DEF tfs_write, Write, BadHandle, state_vars, open_vars
    <3> QED
      BY <2>4, <3>1
  <2>12. CASE \E h \in Handles \cup {-1}, len \in Lens : tfs_read(t, h, len)
    <3>1. UNCHANGED <<number_open_files, free_open_file_entries, failures, pc>>
      BY <2>12 DEF tfs_read, Read, BadHandle, state_vars, open_vars
    <3> QED
      BY <2>4, <3>1
  <2>13. CASE \/ tfs_destroy_after_all_closed(t) \/ WakeUp(t)
              \/ SpuriousWakeUp(t) \/ tfs_destroy(t)
    BY <2>5, <2>13 DEF tfs_destroy_after_all_closed, WakeUp, TestOpenFiles, SpuriousWakeUp,
                       tfs_destroy, Enters, state_vars, open_vars
  <2>14. CASE \E op \in Ops : LockFails(t, op)
    BY <1>7, <2>5, <2>14 DEF LockFails, state_vars, open_vars
  <2> QED
    BY <2>1, <2>6, <2>7, <2>8, <2>9, <2>10, <2>11, <2>12, <2>13, <2>14
<1> QED
  BY <1>1, <1>5, <1>6, <1>7

\* number_open_files counts calls, exactly: together with the calls between
\* their two critical sections it is always the number of open handles plus the
\* opens that failed less the closes that failed, for any number of threads in
\* any interleaving.  So it is zero when no file is open only if as many opens
\* as closes have failed.
THEOREM CounterIsExact == Spec => []CounterAccounting
<1>1. Init => CounterAccounting
  <2> SUFFICES ASSUME Init PROVE CounterAccounting
    OBVIOUS
  <2>1. OpenHandles = {} /\ Pending("opened") = {} /\ Pending("closed") = {}
    BY DEF Init, RootCreated, OpenHandles, Open, Pending
  <2>2. Balance = 0
    <3>1. /\ Cardinality(OpenHandles) = 0
          /\ Cardinality(Pending("opened")) = 0 /\ Cardinality(Pending("closed")) = 0
      BY <2>1, FS_EmptySet
    <3>2. number_open_files = 0 /\ failures = 0
      BY DEF Init
    <3> QED
      BY <3>1, <3>2 DEF Balance
  <2> QED
    BY <2>2, TablesInit, ControlInit, AccountingIsBalance
<1>2. TablesHold /\ ControlTypeOK /\ [Next]_vars => TablesHold' /\ ControlTypeOK'
  BY HoldStep, ControlStep
<1>3. TablesHold /\ ControlTypeOK /\ TablesHold' /\ ControlTypeOK' /\ CounterAccounting /\ [Next]_vars
        => CounterAccounting'
  BY CounterStep
<1> QED
  BY <1>1, <1>2, <1>3, TablesInit, ControlInit, PTL DEF Spec

============================================================================
