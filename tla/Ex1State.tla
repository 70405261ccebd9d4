------------------------------ MODULE Ex1State ------------------------------
(***************************************************************************)
(* The tables of the first exercise (tecnicofs_ex1/fs/state.c).  They are  *)
(* those of FsState, with the same code for the directory, the allocation  *)
(* tables and the open-file table, except that a file has many blocks: the *)
(* first NUMBER_DIRECT_BLOCKS are numbered in its i-node, the others in    *)
(* the bytes of one more block, each number stored as a char.              *)
(*                                                                         *)
(* The functions that follow block numbers work on what they look at: an   *)
(* i-node, the allocation table and the blocks.  That is a disk below.     *)
(***************************************************************************)
EXTENDS FsState

CONSTANTS
  NUMBER_DIRECT_BLOCKS,  \* config.h; state.c writes it as 10
  CHAR_MAX               \* the largest value of a char, which is signed

MAX_BLOCKS         == NUMBER_DIRECT_BLOCKS + BLOCK_SIZE
MAXIMUM_FILE_BYTES == BLOCK_SIZE * MAX_BLOCKS

Chars == -(CHAR_MAX + 1) .. CHAR_MAX

ASSUME Ex1Assumption ==
  /\ NUMBER_DIRECT_BLOCKS \in Nat \ {0}
  /\ CHAR_MAX \in Nat
  /\ Data \subseteq Chars

\* Mutant: the number is not cut to a char.
to_char_int(n) == n

\* (char) n
to_char(n) == ((n + CHAR_MAX + 1) % (2 * (CHAR_MAX + 1))) - (CHAR_MAX + 1)

Ex1Inode == [i_node_type : {"T_FILE", "T_DIRECTORY"}, i_size : 0 .. MAXIMUM_FILE_BYTES,
             i_data_direct : [0 .. NUMBER_DIRECT_BLOCKS - 1 -> Blocks \cup {-1}],
             i_data_indirect : Blocks \cup {-1}]

Ex1StateTypeOK ==
  /\ inode_table \in [Inumbers -> Ex1Inode]
  /\ freeinode_ts \in [Inumbers -> AllocState]
  /\ fs_data \in [Blocks -> [Offsets -> Chars]]
  /\ free_blocks \in [Blocks -> AllocState]
  /\ dir_entry \in [DirSlots -> DirEntry]
  /\ open_file_table \in [Handles -> OpenEntry]
  /\ free_open_file_entries \in [Handles -> AllocState]

\* After state_init and inode_create(T_DIRECTORY), on zeroed storage.
Ex1RootCreated ==
  /\ inode_table = [i \in Inumbers |->
       [i_node_type |-> IF i = ROOT_DIR_INUM THEN "T_DIRECTORY" ELSE "T_FILE",
        i_size |-> IF i = ROOT_DIR_INUM THEN BLOCK_SIZE ELSE 0,
        i_data_direct |-> [k \in 0 .. NUMBER_DIRECT_BLOCKS - 1 |-> 0],
        i_data_indirect |-> 0]]
  /\ freeinode_ts = [i \in Inumbers |-> IF i = ROOT_DIR_INUM THEN "TAKEN" ELSE "FREE"]
  /\ fs_data = [b \in Blocks |-> [k \in Offsets |-> ZERO]]
  /\ free_blocks = [b \in Blocks |-> IF b = 0 THEN "TAKEN" ELSE "FREE"]
  /\ dir_entry = [s \in DirSlots |-> [d_name |-> "", d_inumber |-> -1]]
  /\ open_file_table = [h \in Handles |-> [of_inumber |-> 0, of_offset |-> 0]]
  /\ free_open_file_entries = [h \in Handles |-> "FREE"]

\* inode_table after inode_create(T_FILE) took i: the block numbers stay.
Created(i) == [inode_table EXCEPT ![i].i_node_type = "T_FILE", ![i].i_size = 0]

----------------------------------------------------------------------------
(* The blocks of a file.                                                   *)

Disk(i) == [inode |-> inode_table[i], free |-> free_blocks, data |-> fs_data]

valid_inode_block_number(id) == id >= 0 /\ id < MAX_BLOCKS

\* To find block id of the file, state.c would follow a null pointer.
NullIndirect(disk, id) ==
  id >= NUMBER_DIRECT_BLOCKS /\ ~valid_block_number(disk.inode.i_data_indirect)

get_inode_block(disk, id) ==
  IF ~valid_inode_block_number(id) THEN -1
  ELSE IF id < NUMBER_DIRECT_BLOCKS THEN disk.inode.i_data_direct[id]
  ELSE disk.data[disk.inode.i_data_indirect][id - NUMBER_DIRECT_BLOCKS]

data_block_taken(disk) == First(FreeIn(disk.free))

\* block[k] = (char) data_block_alloc(), in the indirect block.
AllocIndirect(disk, k) ==
  [disk EXCEPT !.free = TakeFirst(@),
               !.data[disk.inode.i_data_indirect][k] = to_char(data_block_taken(disk))]

\* Mutant: the block is not marked taken.
inumber_block_alloc_untaken(disk) ==
  LET id == disk.inode.i_size \div BLOCK_SIZE IN
  IF id < NUMBER_DIRECT_BLOCKS
  THEN [disk EXCEPT !.inode.i_data_direct[id] = data_block_taken(disk)]
  ELSE disk

\* Mutant: the indirect block is not marked taken.
WithIndirect_untaken(disk, id) ==
  IF id = NUMBER_DIRECT_BLOCKS
  THEN [disk EXCEPT !.inode.i_data_indirect = data_block_taken(disk)]
  ELSE disk

\* The disk after the indirect block was allocated, if block id is the first
\* whose number goes into it.  Its number is stored also when it is -1.
WithIndirect(disk, id) ==
  IF id = NUMBER_DIRECT_BLOCKS
  THEN [disk EXCEPT !.free = TakeFirst(@), !.inode.i_data_indirect = data_block_taken(disk)]
  ELSE disk

\* The disk after inumber_block_alloc, for a file whose size is a whole number
\* of blocks, less than the largest: the block that comes next is allocated,
\* and its number stored, also when there is none.
inumber_block_alloc(disk) ==
  LET id       == disk.inode.i_size \div BLOCK_SIZE
      indirect == WithIndirect(disk, id)
  IN
  IF id < NUMBER_DIRECT_BLOCKS
  THEN [disk EXCEPT !.free = TakeFirst(@), !.inode.i_data_direct[id] = data_block_taken(disk)]
  ELSE IF NullIndirect(indirect, id) THEN indirect
  ELSE AllocIndirect(indirect, id - NUMBER_DIRECT_BLOCKS)

\* The number that inumber_block_alloc stores in the indirect block comes back
\* from its char as the number of another block.
ComesBackAsAnother(disk) ==
  LET id == disk.inode.i_size \div BLOCK_SIZE
      b  == data_block_taken(WithIndirect(disk, id))
  IN id >= NUMBER_DIRECT_BLOCKS /\ to_char(b) # b /\ valid_block_number(to_char(b))

\* The blocks below the size of a file, by their place in it.
BlockIds(i) == 0 .. ((inode_table[i].i_size + BLOCK_SIZE - 1) \div BLOCK_SIZE) - 1

FileBlocks(i) == {get_inode_block(Disk(i), id) : id \in BlockIds(i)}

\* Mutant: the size in blocks is rounded down.
truncate_file_but_last(i) ==
  LET whole == 0 .. (inode_table[i].i_size \div BLOCK_SIZE) - 1 IN
  [b \in Blocks |-> IF b \in {get_inode_block(Disk(i), id) : id \in whole}
                    THEN "FREE" ELSE free_blocks[b]]

\* free_blocks after truncate_file, which skips the invalid numbers, frees no
\* indirect block and leaves i_size to its caller; it returns 0 if TruncateOK.
truncate_file(i) == [b \in Blocks |-> IF b \in FileBlocks(i) THEN "FREE" ELSE free_blocks[b]]

TruncateOK(i) == \A b \in FileBlocks(i) : valid_block_number(b)

\* The disk with bytes put into block id of the file, from offset on.
Stored(disk, id, offset, bytes) ==
  [disk EXCEPT !.data[get_inode_block(disk, id)] =
     [k \in Offsets |-> IF k - offset + 1 \in DOMAIN bytes THEN bytes[k - offset + 1] ELSE @[k]]]

============================================================================
