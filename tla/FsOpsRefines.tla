---------------------------- MODULE FsOpsRefines ----------------------------
(***************************************************************************)
(* FsOps implements AbstractFs, for callers that use the handles they hold *)
(* (Misuse is empty) and truncate no file that some handle has open        *)
(* (TruncateOpen is FALSE), and for names that d_name can hold.  Nothing   *)
(* in operations.h:39-48 forbids such a truncation: after one, the reads   *)
(* through the handles it undercut are no longer those of AbstractFs.      *)
(***************************************************************************)
EXTENDS FsOps

\* The slot that names a file, its name, and its bytes.
SlotOf(i) == CHOOSE s \in DirSlots : dir_entry[s].d_inumber = i

NameOf(i) == dir_entry[SlotOf(i)].d_name

Contents(i) == [k \in 1 .. inode_table[i].i_size |->
                  fs_data[inode_table[i].i_data_block][k - 1]]

FileNames == {dir_entry[s].d_name : s \in DirSlots \ EmptySlots}

AbsFiles == [n \in FileNames |-> Contents(find_in_dir(ROOT_DIR_INUM, n))]

AbsHandles == [h \in {g \in Handles : Open(g)} |->
                 [name |-> NameOf(open_file_table[h].of_inumber),
                  pos  |-> open_file_table[h].of_offset]]

\* What tfs_lookup returns is an i-number or -1: callers may only test it.
AbsReply == [ret EXCEPT !.val = IF ret.op = "lookup" /\ @ # -1 THEN 0 ELSE @]

AbsAlive == destroyed = {}

Abstract == INSTANCE AbstractFs WITH
  MaxSize <- BLOCK_SIZE,
  files   <- AbsFiles,
  handles <- AbsHandles,
  alive   <- AbsAlive,
  reply   <- AbsReply

\* Every behaviour of the tables with such callers is one of the abstract file
\* system: what is written through one handle is what any handle of the file
\* reads back, an operation on one file or handle leaves the others as they
\* were, and the file system goes down only with no handle open.
ImplementsAbstractFs == Abstract!Spec

============================================================================
