----------------------------- MODULE Ex1Refines -----------------------------
(***************************************************************************)
(* The operations of the first exercise implement files as sequences of    *)
(* bytes, piece by piece, in spite of blocks that files and threads share. *)
(***************************************************************************)
EXTENDS Ex1Ops

\* A piece that was written counts at once: its writer holds the i-node until
\* it has moved the handle and the size.
Written(h) == {Piece(t) : t \in {u \in Threads : frame[u].h = h /\ frame[u].at = "advance"
                                                 /\ Writing(u)}}

AbsAt(h) == open_file_table[h].of_offset + (IF Written(h) = {} THEN 0
                                            ELSE CHOOSE n \in Written(h) : TRUE)

AbsSize(i) ==
  LET ends == {AbsAt(h) : h \in {g \in Handles : open_file_table[g].of_inumber = i
                                                 /\ Written(g) # {}}}
      end  == IF ends = {} THEN 0 ELSE CHOOSE n \in ends : TRUE
  IN IF end > inode_table[i].i_size THEN end ELSE inode_table[i].i_size

AbsContents(i) ==
  [k \in 1 .. AbsSize(i) |->
     fs_data[get_inode_block(Disk(i), (k - 1) \div BLOCK_SIZE)][(k - 1) % BLOCK_SIZE]]

AbsFiles == {i \in Inumbers \ {ROOT_DIR_INUM} : IsTaken(i)}

\* What callers see.
ShownFiles == IF Astray THEN <<>> ELSE [i \in AbsFiles |-> AbsContents(i)]

ShownHandles == IF Astray THEN <<>> ELSE
  [h \in {g \in Handles : Open(g)} |-> [file |-> open_file_table[h].of_inumber, at |-> AbsAt(h)]]

Promised == ~Astray

Abs == INSTANCE AbstractFiles WITH
  Files    <- Inumbers,
  Bytes    <- Data,
  MaxSize  <- MAXIMUM_FILE_BYTES,
  MaxPiece <- BLOCK_SIZE,
  contents <- ShownFiles,
  position <- ShownHandles,
  intact   <- Promised

\* Every step of a call, whatever the others do meanwhile, is one step of one
\* file seen as a sequence of bytes, or none: a write changes the bytes at its
\* handle and no others of any file, a truncation empties one file, a read, a
\* creation, an allocation and a call that fails change nothing.
ImplementsFiles == Abs!Spec

=============================================================================
