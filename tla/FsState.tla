------------------------------ MODULE FsState ------------------------------
(***************************************************************************)
(* The tables of TecnicoFS (tecnicofs_ex2/fs/state.c): i-nodes, data       *)
(* blocks, the root directory and the open-file table, with the functions  *)
(* of state.c as operators on those tables.  None of these functions locks *)
(* anything: module FsOps says who calls them and under which mutex.       *)
(*                                                                         *)
(* A function that returns an index or -1 and changes a table becomes two  *)
(* operators: one for the index, one for the table it leaves.              *)
(***************************************************************************)
EXTENDS Integers, Sequences, FiniteSets

CONSTANTS
  INODE_TABLE_SIZE,  \* config.h, as are the next three
  DATA_BLOCKS,
  BLOCK_SIZE,
  MAX_OPEN_FILES,
  MAX_DIR_ENTRIES,   \* state.h: BLOCK_SIZE / sizeof(dir_entry_t)
  Names,             \* what may follow the first character of a path name
  Cut,               \* Cut[n]: the MAX_FILE_NAME - 1 characters strncpy keeps of n
  Data,              \* the byte values that occur
  ZERO               \* the byte static storage starts with

ASSUME ConfigAssumption ==
  /\ INODE_TABLE_SIZE \in Nat \ {0} /\ DATA_BLOCKS \in Nat \ {0}
  /\ BLOCK_SIZE \in Nat \ {0} /\ MAX_OPEN_FILES \in Nat \ {0}
  /\ MAX_DIR_ENTRIES \in Nat
  /\ Cut \in [Names -> Names]
  /\ ZERO \in Data

ROOT_DIR_INUM == 0

Inumbers  == 0 .. INODE_TABLE_SIZE - 1
Blocks    == 0 .. DATA_BLOCKS - 1
Handles   == 0 .. MAX_OPEN_FILES - 1
DirSlots  == 0 .. MAX_DIR_ENTRIES - 1
Offsets   == 0 .. BLOCK_SIZE - 1     \* of the bytes of one block

VARIABLES
  inode_table,             \* i-number -> [i_node_type, i_size, i_data_block]
  freeinode_ts,            \* i-number -> "FREE" | "TAKEN"
  fs_data,                 \* block -> its bytes
  free_blocks,             \* block -> "FREE" | "TAKEN"
  dir_entry,               \* the root's block, read as an array of dir_entry_t
  open_file_table,         \* handle -> [of_inumber, of_offset]
  free_open_file_entries   \* handle -> "FREE" | "TAKEN"

inode_vars == <<inode_table, freeinode_ts>>
block_vars == <<fs_data, free_blocks>>
open_vars  == <<open_file_table, free_open_file_entries>>
state_vars == <<inode_vars, block_vars, dir_entry, open_vars>>

AllocState == {"FREE", "TAKEN"}
Inode      == [i_node_type : {"T_FILE", "T_DIRECTORY"}, i_size : Nat,
               i_data_block : Blocks \cup {-1}]
DirEntry   == [d_name : Names \cup {""}, d_inumber : Inumbers \cup {-1}]
OpenEntry  == [of_inumber : Inumbers, of_offset : Nat]

StateTypeOK ==
  /\ inode_table \in [Inumbers -> Inode]
  /\ freeinode_ts \in [Inumbers -> AllocState]
  /\ fs_data \in [Blocks -> [Offsets -> Data]]
  /\ free_blocks \in [Blocks -> AllocState]
  /\ dir_entry \in [DirSlots -> DirEntry]
  /\ open_file_table \in [Handles -> OpenEntry]
  /\ free_open_file_entries \in [Handles -> AllocState]

----------------------------------------------------------------------------
(* Allocation.  Every table is scanned from index 0 for its first free     *)
(* entry; -1 is returned when there is none.                               *)

IsFirst(P, i) == i \in P /\ \A j \in P : i <= j

First(P) == IF \E i \in P : IsFirst(P, i)
            THEN CHOOSE i \in P : IsFirst(P, i)
            ELSE -1

FreeIn(ts) == {i \in DOMAIN ts : ts[i] = "FREE"}

\* The allocation table after its first free entry, if any, was taken.
TakeFirst(ts) == [i \in DOMAIN ts |-> IF i = First(FreeIn(ts)) THEN "TAKEN" ELSE ts[i]]

Release(ts, i) == [ts EXCEPT ![i] = "FREE"]

valid_block_number(b) == b \in Blocks

data_block_alloc == First(FreeIn(free_blocks))

\* Mutant: the block is not released.
data_block_free_nothing(b) == free_blocks

\* free_blocks after data_block_free(b); an invalid b changes nothing.
data_block_free(b) == IF valid_block_number(b) THEN Release(free_blocks, b) ELSE free_blocks

\* Mutant: block, instead of block + offset.
Overwritten_at_start(block, offset, n, d) ==
  [k \in Offsets |-> IF k < n THEN d ELSE block[k]]

\* memcpy of n copies of byte d into the bytes `block', from offset on.
Overwritten(block, offset, n, d) ==
  [k \in Offsets |-> IF k >= offset /\ k < offset + n THEN d ELSE block[k]]

----------------------------------------------------------------------------
(* I-nodes and the directory.                                              *)

NewFile == [i_node_type |-> "T_FILE", i_size |-> 0, i_data_block |-> -1]

inode_create == First(FreeIn(freeinode_ts))

IsDirectory(i) == inode_table[i].i_node_type = "T_DIRECTORY"

\* Mutant: the loop starts one entry late.
Matches_but_first(sub) == {s \in DirSlots : /\ dir_entry[s].d_inumber # -1
                                            /\ dir_entry[s].d_name = sub
                                            /\ s > 0}

\* The slots of the directory in which the name sub is found.  d_name was cut
\* when it was stored; strncmp compares it with the whole of sub.
Matches(sub) == {s \in DirSlots : dir_entry[s].d_inumber # -1 /\ dir_entry[s].d_name = sub}

find_in_dir(dir, sub) ==
  IF IsDirectory(dir) /\ Matches(sub) # {}
  THEN dir_entry[First(Matches(sub))].d_inumber
  ELSE -1

EmptySlots == {s \in DirSlots : dir_entry[s].d_inumber = -1}

\* When add_dir_entry(dir, _, sub) succeeds: dir is a directory, the name is
\* not empty and a slot is left.
CanAddEntry(dir, sub) == IsDirectory(dir) /\ sub # "" /\ EmptySlots # {}

add_dir_entry(i, sub) ==
  [dir_entry EXCEPT ![First(EmptySlots)] = [d_name |-> Cut[sub], d_inumber |-> i]]

----------------------------------------------------------------------------
(* Initial values.                                                         *)

\* After state_init and inode_create(T_DIRECTORY): the root is i-node 0, its
\* entries fill block 0 and are all empty.
RootCreated ==
  /\ inode_table = [i \in Inumbers |->
       IF i = ROOT_DIR_INUM
       THEN [i_node_type |-> "T_DIRECTORY", i_size |-> BLOCK_SIZE, i_data_block |-> 0]
       ELSE [i_node_type |-> "T_FILE", i_size |-> 0, i_data_block |-> 0]]
  /\ freeinode_ts = [i \in Inumbers |-> IF i = ROOT_DIR_INUM THEN "TAKEN" ELSE "FREE"]
  /\ fs_data = [b \in Blocks |-> [k \in Offsets |-> ZERO]]
  /\ free_blocks = [b \in Blocks |-> IF b = 0 THEN "TAKEN" ELSE "FREE"]
  /\ dir_entry = [s \in DirSlots |-> [d_name |-> "", d_inumber |-> -1]]
  /\ open_file_table = [h \in Handles |-> [of_inumber |-> 0, of_offset |-> 0]]
  /\ free_open_file_entries = [h \in Handles |-> "FREE"]

============================================================================
