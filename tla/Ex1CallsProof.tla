---------------------------- MODULE Ex1CallsProof ----------------------------
(***************************************************************************)
(* The calls of the first exercise work block by block, and yet each of    *)
(* them reads and writes its file as if it were alone.                     *)
(*                                                                         *)
(* The argument follows single bytes: a byte of a file is in a block that  *)
(* the file, or a pending writer of it, claims (Ex1BlocksProof), so that   *)
(* only the piece of a writer of the same file changes it, and a writer of *)
(* a file is alone in it.  With that, each step of a call is a step of one *)
(* file seen as a sequence of bytes, or none: the piece of a pending       *)
(* writer counts as written, and the handle and the size as moved.         *)
(***************************************************************************)
EXTENDS Ex1BlocksProof, Ex1Refines

FileBytes == 1 .. MAXIMUM_FILE_BYTES

\* Byte k of the blocks of file i, also one that is not yet below its size.
Byte(i, k) == fs_data[BlockOf(i, (k - 1) \div BLOCK_SIZE)][(k - 1) % BLOCK_SIZE]

\* What a writer has moved is in the file, the rest is as it was.
WriterOK(t) == \A k \in FileBytes :
  /\ k > frame[t].offset /\ k <= frame[t].offset + Moved(t) =>
       Byte(Inum(t), k) = frame[t].buffer[k - frame[t].offset]
  /\ k <= Size(t) /\ (k <= frame[t].offset \/ k > frame[t].offset + Moved(t)) =>
       Byte(Inum(t), k) = frame[t].old[k]

\* A reader's file is as it was, and what it has moved is in its buffer.
ReaderOK(t) ==
  /\ frame[t].old = [k \in 1 .. Size(t) |-> Byte(Inum(t), k)]
  /\ frame[t].buffer = [k \in 1 .. Moved(t) |-> frame[t].old[frame[t].offset + k]]

\* CallsAreAtomic byte by byte, and that a reader begins with nothing.
AtomicInv ==
  /\ \A t \in Threads :
       frame[t].at \in {"size", "handle", "inode"} /\ ~Writing(t) => frame[t].buffer = <<>>
  /\ ~Astray => \A t \in Threads : Inside(frame[t]) =>
       (Writing(t) => WriterOK(t)) /\ (~Writing(t) => ReaderOK(t))

\* Where a byte is, now and after a step.
LEMMA ByteAt ==
  ASSUME NEW k \in FileBytes
  PROVE  \E id \in BlockRange, r \in Offsets :
           /\ k - 1 = BLOCK_SIZE * id + r /\ BLOCK_SIZE * id \in Nat
           /\ \A i : Byte(i, k) = fs_data[BlockOf(i, id)][r]
           /\ \A i : Byte(i, k)' = fs_data'[BlockOf(i, id)'][r]
<1>1. PICK id, r : id = (k - 1) \div BLOCK_SIZE /\ r = (k - 1) % BLOCK_SIZE
  OBVIOUS
<1>2. k - 1 \in FileOffsets /\ k - 1 < MAXIMUM_FILE_BYTES
  BY Numbers DEF FileBytes, FileOffsets
<1>3. /\ id \in BlockRange /\ r \in Offsets /\ k - 1 = BLOCK_SIZE * id + r /\ BLOCK_SIZE * id \in Nat
  BY <1>1, <1>2, BlockOfByte DEF Offsets
<1>4. \A i : Byte(i, k) = fs_data[BlockOf(i, id)][r]
  BY <1>1 DEF Byte
<1>5. \A i : Byte(i, k)' = fs_data'[BlockOf(i, id)'][r]
  BY <1>1 DEF Byte
<1> QED
  BY <1>3, <1>4, <1>5

\* The contents of a file are its bytes.
LEMMA ContentsAre ==
  ASSUME FilesInv, NEW i \in Inumbers
  PROVE  Contents(i) = [k \in 1 .. inode_table[i].i_size |-> Byte(i, k)]
<1>1. inode_table[i].i_size \in FileOffsets
  BY NeedsAre
<1>2. ASSUME NEW k \in 1 .. inode_table[i].i_size
      PROVE  fs_data[get_inode_block(Disk(i), (k - 1) \div BLOCK_SIZE)][(k - 1) % BLOCK_SIZE] = Byte(i, k)
  <2>1. k - 1 \in FileOffsets /\ k - 1 < MAXIMUM_FILE_BYTES
    BY <1>1, Numbers DEF FileOffsets
  <2>2. (k - 1) \div BLOCK_SIZE \in BlockRange
    BY <2>1, BlockOfByte
  <2>3. (k - 1) \div BLOCK_SIZE # -1
    BY <2>2 DEF BlockRange
  <2> QED
    BY <2>3 DEF Byte, BlockOf
<1> QED
  BY <1>2 DEF Contents

\* No step but one that writes a block changes a byte of a file.
LEMMA BytesKept ==
  ASSUME FilesInv, NEW t \in Threads, Step(t) \/ Call(t), ~WriteBlock(t)
  PROVE  \A i \in Inumbers, k \in FileBytes : Byte(i, k)' = Byte(i, k)
<1> SUFFICES ASSUME NEW i \in Inumbers, NEW k \in FileBytes PROVE Byte(i, k)' = Byte(i, k)
  OBVIOUS
<1>1. PICK id \in BlockRange, r \in Offsets :
        /\ Byte(i, k) = fs_data[BlockOf(i, id)][r] /\ Byte(i, k)' = fs_data'[BlockOf(i, id)'][r]
  BY ByteAt
<1>2. fs_data' = fs_data /\ BlockOf(i, id)' = BlockOf(i, id)
  BY NumbersKept
<1> QED
  BY <1>1, <1>2

\* The bytes of the piece a call accesses next are those of its block from the
\* offset on.
LEMMA PieceAt ==
  ASSUME FilesInv, NEW t \in Threads, Inside(frame[t]), frame[t].done < frame[t].todo,
         NEW k \in FileBytes, NEW id \in BlockRange, NEW s \in Offsets, k - 1 = BLOCK_SIZE * id + s,
         NEW o, o = Offset(t), NEW r, r = o % BLOCK_SIZE, NEW p, p = Piece(t), NEW q, q = BlockId(t)
  PROVE  /\ k > o /\ k <= o + p <=> id = q /\ s >= r /\ s < r + p
         /\ id = q => k - o = s - r + 1
<1>1. /\ o \in Nat /\ q \in BlockRange /\ BLOCK_SIZE * q \in Nat /\ o = BLOCK_SIZE * q + r
      /\ r \in Nat /\ p \in Nat \ {0} /\ o + p <= BLOCK_SIZE * q + BLOCK_SIZE
  BY CallPlace, Numbers DEF FileOffsets, Offsets
<1>2. /\ id \in Int /\ q \in Int /\ s \in Nat /\ s < BLOCK_SIZE /\ BLOCK_SIZE \in Nat
      /\ BLOCK_SIZE * id \in Int
  BY <1>1, Numbers, BlockOrder DEF BlockRange, Offsets
<1>3. /\ id < q => BLOCK_SIZE * id + BLOCK_SIZE <= BLOCK_SIZE * q
      /\ q < id => BLOCK_SIZE * q + BLOCK_SIZE <= BLOCK_SIZE * id
  BY <1>2, BlockOrder
<1>4. id = q => BLOCK_SIZE * id = BLOCK_SIZE * q
  OBVIOUS
<1>5. PICK a, b : a = BLOCK_SIZE * id /\ b = BLOCK_SIZE * q
  OBVIOUS
<1>6. /\ a \in Int /\ b \in Nat /\ k - 1 = a + s /\ o = b + r /\ o + p <= b + BLOCK_SIZE
      /\ id < q => a + BLOCK_SIZE <= b
      /\ q < id => b + BLOCK_SIZE <= a
      /\ id = q => a = b
  BY <1>1, <1>2, <1>3, <1>4, <1>5
<1>7. k \in Int
  BY DEF FileBytes
<1>8. id \in Int /\ q \in Int /\ o \in Int /\ s \in Nat /\ r \in Nat /\ p \in Nat
  BY <1>1, <1>2
<1>9. k = a + s + 1 /\ s < BLOCK_SIZE /\ BLOCK_SIZE \in Nat
  BY <1>2, <1>6, <1>7, <1>8
<1>10. k > o /\ k <= o + p <=> id = q /\ s >= r /\ s < r + p
  <2>1. CASE id = q
    BY <1>6, <1>8, <1>9, <2>1
  <2>2. CASE id < q
    <3>1. k <= o
      BY <1>6, <1>8, <1>9, <2>2
    <3> QED
      BY <1>7, <1>8, <2>2, <3>1
  <2>3. CASE q < id
    <3>1. k > o + p
      BY <1>6, <1>8, <1>9, <2>3
    <3> QED
      BY <1>7, <1>8, <2>3, <3>1
  <2> QED
    BY <1>8, <2>1, <2>2, <2>3
<1>11. id = q => k - o = s - r + 1
  BY <1>6, <1>8, <1>9
<1> QED
  BY <1>10, <1>11

\* A writer of a file is the only call inside it.
LEMMA WriterExcludes ==
  ASSUME FilesInv, NEW t \in Threads, NEW u \in Threads, Inside(frame[u]), Writing(u),
         Inside(frame[t]), Inum(t) = Inum(u)
  PROVE  t = u
<1>1. u \in lock_inumber[Inum(u)]["writers"] /\ Inum(u) \in Inumbers
  BY AtFile DEF FilesInv, ExclusionInv, Inside
<1>2. Has(lock_inumber, t, Inum(u))
  BY <1>1 DEF FilesInv, Ex1Inv, LocksInv, WantsInode, Inside, Inum
<1>3. DOMAIN lock_inumber = Inumbers
  BY DEF FilesInv, Ex1Inv, LocksInv
<1> QED
  BY <1>1, <1>2, <1>3 DEF FilesInv, ExclusionInv, Exclusive

\* The file of a call is one that is there.
LEMMA InTakenFile ==
  ASSUME FilesInv, NEW t \in Threads, Inside(frame[t])
  PROVE  /\ Inum(t) \in Inumbers /\ IsTaken(Inum(t))
         /\ frame[t].h \in Handles /\ Open(frame[t].h)
         /\ Offset(t) \in Nat /\ Size(t) \in Nat /\ Offset(t) <= MAXIMUM_FILE_BYTES
         /\ Size(t) <= MAXIMUM_FILE_BYTES
         /\ Offset(t) = frame[t].offset + frame[t].done
         /\ frame[t].offset \in Nat /\ frame[t].done \in Nat
         /\ frame[t].at = "advance" => Piece(t) \in Nat \ {0}
         /\ Moved(t) \in Nat /\ frame[t].offset + Moved(t) <= MAXIMUM_FILE_BYTES
<1>1. /\ Inum(t) \in Inumbers /\ IsTaken(Inum(t))
      /\ frame[t].h \in Handles /\ Open(frame[t].h)
      /\ Offset(t) \in FileOffsets /\ Size(t) \in FileOffsets
  BY AtFile DEF FilesInv, Inside, IsFile, IsTaken
<1>2. /\ Offset(t) = frame[t].offset + frame[t].done
      /\ frame[t].offset \in Nat /\ frame[t].done \in Nat
  BY DEF FilesInv, CallsOK, CallOK
<1>3. frame[t].at = "advance" =>
        Piece(t) \in Nat \ {0} /\ Offset(t) + Piece(t) <= MAXIMUM_FILE_BYTES
  BY AdvanceFits DEF FileOffsets
<1>4. MAXIMUM_FILE_BYTES \in Nat
  BY Numbers
<1>5. Moved(t) \in Nat /\ frame[t].offset + Moved(t) <= MAXIMUM_FILE_BYTES
  <2>1. CASE frame[t].at = "advance"
    BY <1>2, <1>3, <1>4, <2>1 DEF Moved
  <2>2. CASE frame[t].at # "advance"
    BY <1>1, <1>2, <1>4, <2>2 DEF Moved, FileOffsets
  <2> QED
    BY <2>1, <2>2
<1> QED
  BY <1>1, <1>2, <1>3, <1>5 DEF FileOffsets

\* A byte below the size of a file is in a block the file needs.
LEMMA ByteClaimed ==
  ASSUME FilesInv, NEW i \in Inumbers, NEW k \in FileBytes, NEW id \in BlockRange, NEW r \in Offsets,
         k - 1 = BLOCK_SIZE * id + r, BLOCK_SIZE * id \in Nat, k <= inode_table[i].i_size
  PROVE  Claimed(i, id)
<1>1. PICK a, n : a = BLOCK_SIZE * id /\ n = inode_table[i].i_size
  OBVIOUS
<1>2. a < n
  <2>1. a \in Nat /\ r \in Nat /\ k - 1 = a + r /\ k \in Int /\ n \in Int /\ k <= n
    BY <1>1, NeedsAre, Numbers DEF Offsets, FileBytes, FileOffsets
  <2> QED
    BY <2>1
<1>3. id # -1 /\ Needs(i) = Ids(n)
  BY <1>1, NeedsAre DEF BlockRange
<1>4. id \in Ids(n)
  BY <1>1, <1>2, <1>3 DEF Ids
<1> QED
  BY <1>3, <1>4 DEF Claimed

\* A byte of the piece a writer has just written is in a block it claims.
LEMMA PieceClaimed ==
  ASSUME FilesInv, NEW t \in Threads, Pending(t), NEW k \in FileBytes, NEW id \in BlockRange,
         NEW r \in Offsets, k - 1 = BLOCK_SIZE * id + r, k > Offset(t), k <= Offset(t) + Piece(t)
  PROVE  Claimed(Inum(t), id)
<1>1. Inside(frame[t]) /\ frame[t].done < frame[t].todo
  BY PendingPlace
<1>2. id = BlockId(t)
  BY <1>1, PieceAt
<1> QED
  BY <1>2 DEF Claimed, PendingIds

\* A writer changes the bytes of its piece, and no others.
LEMMA WrittenBytes ==
  ASSUME FilesInv, FilesInv', InsideInv, OwnInv, NEW t \in Threads, WriteBlock(t), ~Astray',
         NEW j \in Inumbers, IsTaken(j), NEW k \in FileBytes, NEW id \in BlockRange, NEW s \in Offsets,
         k - 1 = BLOCK_SIZE * id + s, Claimed(j, id)
  PROVE  \/ UNCHANGED <<state_vars, locks, frame, wrapped, undercut>>
         \/ Byte(j, k)' = IF j = Inum(t) /\ k > Offset(t) /\ k <= Offset(t) + Piece(t)
                          THEN frame[t].buffer[k - frame[t].offset] ELSE Byte(j, k)
<1>1. InLoop(t) /\ Inside(frame[t]) /\ frame[t].done < frame[t].todo
  BY DEF WriteBlock, InLoop, At, Inside
<1>2. PICK i \in Inumbers : i = Inum(t)
  BY <1>1, InTakenFile
<1>3. PICK o, q, r, p : /\ o = Offset(t) /\ q = BlockId(t) /\ r = Offset(t) % BLOCK_SIZE
                        /\ p = Piece(t)
  OBVIOUS
<1>4. SUFFICES ASSUME ~UNCHANGED <<state_vars, locks, frame, wrapped, undercut>>
               PROVE  Byte(j, k)' = IF j = i /\ k > o /\ k <= o + p
                                    THEN frame[t].buffer[k - frame[t].offset] ELSE Byte(j, k)
  BY <1>2, <1>3
<1>5. /\ Kept(j, id)
      /\ fs_data'[BlockOf(j, id)][s] =
           IF j = i /\ id = q /\ s >= r /\ s < r + p
           THEN frame[t].buffer[frame[t].done + (s - r + 1)] ELSE fs_data[BlockOf(j, id)][s]
  <2>1. /\ \A l \in Inumbers, d \in {-1} \cup BlockRange : IsTaken(l) /\ Claimed(l, d) => Kept(l, d)
        /\ \A l \in Inumbers, d \in BlockRange : IsTaken(l) /\ Claimed(l, d) =>
             \A z \in Offsets : fs_data'[BlockOf(l, d)][z] =
               IF l = i /\ d = q /\ z >= r /\ z < r + p
               THEN frame[t].buffer[frame[t].done + (z - r + 1)] ELSE fs_data[BlockOf(l, d)][z]
    BY <1>2, <1>3, <1>4, WriteKeeps
  <2> QED
    BY <2>1
<1>6. Byte(j, k) = fs_data[BlockOf(j, id)][s] /\ Byte(j, k)' = fs_data'[BlockOf(j, id)'][s]
  <2>1. PICK d \in BlockRange, z \in Offsets :
          /\ k - 1 = BLOCK_SIZE * d + z /\ BLOCK_SIZE * d \in Nat
          /\ Byte(j, k) = fs_data[BlockOf(j, d)][z] /\ Byte(j, k)' = fs_data'[BlockOf(j, d)'][z]
    BY ByteAt
  <2>2. d = id /\ z = s
    <3>1. d \in Int /\ id \in Int /\ BLOCK_SIZE * id \in Int /\ z \in Nat /\ s \in Nat
          /\ z < BLOCK_SIZE /\ s < BLOCK_SIZE /\ BLOCK_SIZE \in Nat
      BY Numbers, BlockOrder DEF BlockRange, Offsets
    <3>2. /\ d < id => BLOCK_SIZE * d + BLOCK_SIZE <= BLOCK_SIZE * id
          /\ id < d => BLOCK_SIZE * id + BLOCK_SIZE <= BLOCK_SIZE * d
      BY <3>1, BlockOrder
    <3>3. PICK a, b : a = BLOCK_SIZE * d /\ b = BLOCK_SIZE * id
      OBVIOUS
    <3>4. /\ a \in Int /\ b \in Int /\ a + z = b + s
          /\ d < id => a + BLOCK_SIZE <= b
          /\ id < d => b + BLOCK_SIZE <= a
          /\ d = id => a = b
      <4>1. a \in Int /\ b \in Int /\ (d = id => a = b)
        BY <2>1, <3>1, <3>3
      <4>2. k - 1 = a + z /\ k - 1 = b + s
        BY <2>1, <3>3
      <4> QED
        BY <3>2, <3>3, <4>1, <4>2
    <3>5. d = id
      BY <3>1, <3>4
    <3> QED
      BY <3>1, <3>4, <3>5
  <2> QED
    BY <2>1, <2>2
<1>7. BlockOf(j, id)' = BlockOf(j, id)
  BY <1>5 DEF Kept
<1>8. /\ k > o /\ k <= o + p <=> id = q /\ s >= r /\ s < r + p
      /\ id = q => k - o = s - r + 1
  BY <1>1, <1>3, PieceAt
<1>9. id = q => frame[t].done + (s - r + 1) = k - frame[t].offset
  <2>1. o = frame[t].offset + frame[t].done /\ frame[t].offset \in Nat /\ frame[t].done \in Nat
    BY <1>1, <1>3, InTakenFile
  <2>2. k \in Int
    BY DEF FileBytes
  <2>3. PICK f, d, x : f = frame[t].offset /\ d = frame[t].done /\ x = s - r + 1
    OBVIOUS
  <2> QED
    BY <1>8, <2>1, <2>2, <2>3
<1> QED
  BY <1>5, <1>6, <1>7, <1>8, <1>9

\* What it has just written is there.
LEMMA WrittenPiece ==
  ASSUME FilesInv, FilesInv', InsideInv, OwnInv, NEW t \in Threads, WriteBlock(t), ~Astray',
         frame'[t].at = "advance", NEW k \in FileBytes, k > Offset(t), k <= Offset(t) + Piece(t),
         NEW i \in Inumbers, i = Inum(t)
  PROVE  Byte(i, k)' = frame[t].buffer[k - frame[t].offset]
<1>1. InLoop(t) /\ Inside(frame[t]) /\ frame[t].done < frame[t].todo /\ frame[t].at = "loop"
  BY DEF WriteBlock, InLoop, At, Inside
<1>2. PICK o, q, r, p : /\ o = Offset(t) /\ q = BlockId(t) /\ r = Offset(t) % BLOCK_SIZE
                        /\ p = Piece(t)
  OBVIOUS
<1>3. PICK id \in BlockRange, s \in Offsets :
        k - 1 = BLOCK_SIZE * id + s /\ Byte(i, k)' = fs_data'[BlockOf(i, id)'][s]
  BY ByteAt
<1>4. id = q /\ s >= r /\ s < r + p /\ k - o = s - r + 1
  BY <1>1, <1>2, <1>3, PieceAt
<1>5. frame'[t] # Idle /\ frame' # frame
  BY <1>1 DEF Idle
<1>6. fs_data'[BlockOf(i, q)'][s] = frame[t].buffer[frame[t].done + (s - r + 1)]
  BY <1>2, <1>4, <1>5, WriteKeeps
<1>7. frame[t].done + (s - r + 1) = k - frame[t].offset
  <2>1. o = frame[t].offset + frame[t].done /\ frame[t].offset \in Nat /\ frame[t].done \in Nat
    BY <1>1, <1>2, InTakenFile
  <2>2. k \in Int
    BY DEF FileBytes
  <2>3. PICK f, d, x : f = frame[t].offset /\ d = frame[t].done /\ x = s - r + 1
    OBVIOUS
  <2> QED
    BY <1>4, <2>1, <2>2, <2>3
<1> QED
  BY <1>3, <1>4, <1>6, <1>7

\* The size of a file that a call is in changes only when its writer advances.
LEMMA SizeStays ==
  ASSUME FilesInv, InsideInv, NEW t \in Threads, Step(t) \/ Call(t), ~undercut',
         NEW u \in Threads, Inside(frame[u]), NEW i \in Inumbers, i = Inum(u)
  PROVE  \/ inode_table'[i].i_size = inode_table[i].i_size
         \/ /\ t = u /\ Advance(t) /\ Writing(t)
            /\ inode_table'[i].i_size = Offset(t) + Piece(t)
            /\ Offset(t) + Piece(t) > inode_table[i].i_size
<1>1. freeinode_ts[i] = "TAKEN" /\ PastStart(i)
  BY InTakenFile DEF PastStart, IsTaken, Inum, Inside
<1>2. /\ ~undercut /\ inode_table[i].i_size \in FileOffsets /\ inode_table'[i].i_size \in FileOffsets
      /\ inode_table'[i].i_size >= inode_table[i].i_size
  BY <1>1, SizesShrink
<1>3. CASE Advance(t) /\ i = Inum(t) /\ inode_table'[i].i_size = Offset(t) + Piece(t)
           /\ Offset(t) + Piece(t) > inode_table[i].i_size
  <2>1. frame[t].at = "advance" /\ Inside(frame[t])
    BY <1>3 DEF Advance, At, Inside
  <2>2. Size(t) = inode_table[i].i_size /\ Size(t) \in Int /\ Offset(t) + Piece(t) \in Int
    BY <1>2, <1>3 DEF Size, FileOffsets
  <2>3. Writing(t)
    <3>1. ASSUME ~Writing(t) PROVE FALSE
      <4>1. Offset(t) + Piece(t) <= Size(t)
        BY <1>2, <2>1, <3>1, ReadsInside
      <4> QED
        BY <1>3, <2>2, <4>1
    <3> QED
      BY <3>1
  <2>4. t = u
    BY <1>3, <2>1, <2>3, WriterExcludes
  <2> QED
    BY <1>3, <2>3, <2>4
<1>4. CASE inode_table'[i].i_size = 0
  BY <1>2, <1>4 DEF FileOffsets
<1> QED
  BY <1>1, <1>3, <1>4, SizesMove

\* A call of another thread stays where it is in its file.
LEMMA OtherStays ==
  ASSUME FilesInv, NEW t \in Threads, Step(t) \/ Call(t), NEW u \in Threads, u # t,
         Inside(frame[u]), NEW i \in Inumbers, i = Inum(u)
  PROVE  /\ frame'[u] = frame[u] /\ Inum(u)' = i /\ Moved(u)' = Moved(u)
         /\ Size(u)' = inode_table'[i].i_size /\ Writing(u)' = Writing(u)
<1>1. frame'[u] = frame[u] /\ open_file_table'[frame[u].h] = open_file_table[frame[u].h]
  BY OthersStay, OthersKeepOffset DEF Others, FilesInv
<1>2. Inum(u)' = i /\ Offset(u)' = Offset(u)
  BY <1>1 DEF Inum, Offset
<1>3. Piece(u)' = Piece(u)
  BY <1>1, <1>2 DEF Piece
<1> QED
  BY <1>1, <1>2, <1>3 DEF Moved, Size, Writing

\* A call that stays where it is, in a file that keeps its bytes, is as it should be.
LEMMA BytesKeepCall ==
  ASSUME NEW u \in Threads, NEW i, i = Inum(u), Inum(u)' = i, frame'[u] = frame[u],
         Moved(u)' = Moved(u), Size(u)' = Size(u), Size(u) \in Nat, Size(u) <= MAXIMUM_FILE_BYTES,
         \A k \in FileBytes :
           \/ k <= Size(u)
           \/ Writing(u) /\ k > frame[u].offset /\ k <= frame[u].offset + Moved(u)
           => Byte(i, k)' = Byte(i, k)
  PROVE  /\ Writing(u) /\ WriterOK(u) => WriterOK(u)'
         /\ ReaderOK(u) => ReaderOK(u)'
<1>1. PICK f, m, n : f = frame[u] /\ m = Moved(u) /\ n = Size(u)
  OBVIOUS
<1>2. ASSUME Writing(u), WriterOK(u) PROVE WriterOK(u)'
  <2>1. SUFFICES ASSUME NEW k \in FileBytes
                 PROVE  /\ k > f.offset /\ k <= f.offset + m => Byte(i, k)' = f.buffer[k - f.offset]
                        /\ k <= n /\ (k <= f.offset \/ k > f.offset + m) => Byte(i, k)' = f.old[k]
    BY <1>1 DEF WriterOK
  <2>2. /\ k > f.offset /\ k <= f.offset + m => Byte(i, k) = f.buffer[k - f.offset]
        /\ k <= n /\ (k <= f.offset \/ k > f.offset + m) => Byte(i, k) = f.old[k]
    BY <1>1, <1>2 DEF WriterOK
  <2>3. \/ k <= n
        \/ Writing(u) /\ k > f.offset /\ k <= f.offset + m
        => Byte(i, k)' = Byte(i, k)
    BY <1>1
  <2> QED
    BY <1>2, <2>2, <2>3
<1>3. ASSUME ReaderOK(u) PROVE ReaderOK(u)'
  <2>1. \A k \in 1 .. n : k \in FileBytes /\ k <= n
    BY <1>1, Numbers DEF FileBytes
  <2>2. \A k \in 1 .. n : Byte(i, k)' = Byte(i, k)
    BY <1>1, <2>1
  <2>3. /\ f.old = [k \in 1 .. n |-> Byte(i, k)]
        /\ f.buffer = [k \in 1 .. m |-> f.old[f.offset + k]]
    BY <1>1, <1>3 DEF ReaderOK
  <2>4. [k \in 1 .. n |-> Byte(i, k)] = [k \in 1 .. n |-> Byte(i, k)']
    BY <2>2
  <2> QED
    BY <1>1, <2>3, <2>4 DEF ReaderOK
<1> QED
  BY <1>2, <1>3

\* The calls of other threads are not disturbed.
LEMMA OthersAtomic ==
  ASSUME FilesInv, FilesInv', InsideInv, OwnInv, NEW t \in Threads, Step(t) \/ Call(t), ~Astray',
         NEW u \in Threads, u # t, Inside(frame[u])
  PROVE  /\ Writing(u)' = Writing(u)
         /\ Writing(u) /\ WriterOK(u) => WriterOK(u)'
         /\ ReaderOK(u) => ReaderOK(u)'
<1>1. PICK i \in Inumbers : i = Inum(u) /\ IsTaken(i)
  BY InTakenFile
<1>2. ~Astray /\ ~undercut' /\ ~undercut
  BY NotAstray DEF Astray
<1>3. /\ frame'[u] = frame[u] /\ Inum(u)' = i /\ Moved(u)' = Moved(u)
      /\ Size(u)' = inode_table'[i].i_size /\ Writing(u)' = Writing(u)
  BY <1>1, OtherStays
<1>4. inode_table'[i].i_size = inode_table[i].i_size /\ Size(u) = inode_table[i].i_size
      /\ Size(u) \in Nat /\ Size(u) <= MAXIMUM_FILE_BYTES
  <2>1. inode_table'[i].i_size = inode_table[i].i_size
    BY <1>1, <1>2, SizeStays
  <2> QED
    BY <1>1, <2>1, InTakenFile DEF Size
<1>5. ASSUME NEW k \in FileBytes,
             \/ k <= Size(u)
             \/ Writing(u) /\ k > frame[u].offset /\ k <= frame[u].offset + Moved(u)
      PROVE  Byte(i, k)' = Byte(i, k)
  <2>1. CASE ~WriteBlock(t)
    BY <1>1, <2>1, BytesKept
  <2>2. CASE WriteBlock(t)
    <3>1. InLoop(t) /\ Writing(t) /\ Inside(frame[t])
      BY <2>2 DEF WriteBlock, InLoop, At, Inside
    <3>2. Inum(t) # i
      BY <1>1, <3>1, WriterExcludes
    <3>3. PICK id \in BlockRange, s \in Offsets : k - 1 = BLOCK_SIZE * id + s /\ BLOCK_SIZE * id \in Nat
      BY ByteAt
    <3>4. Claimed(i, id)
      <4>1. CASE k <= Size(u)
        BY <1>4, <3>3, <4>1, ByteClaimed
      <4>2. CASE ~(k <= Size(u))
        <5>1. /\ Offset(u) = frame[u].offset + frame[u].done /\ Offset(u) \in Nat
              /\ frame[u].offset \in Nat /\ frame[u].done \in Nat
              /\ frame[u].at = "advance" => Piece(u) \in Nat \ {0}
          BY InTakenFile
        <5>2. Offset(u) <= Size(u)
          BY <1>2, InTakenFile DEF InsideInv, OffsetWithinFile, Offset, Size, Inum
        <5>3. frame[u].at = "advance" /\ k > Offset(u) /\ k <= Offset(u) + Piece(u)
          <6>1. k \in Int
            BY DEF FileBytes
          <6>2. frame[u].at = "advance"
            BY <1>4, <1>5, <4>2, <5>1, <5>2, <6>1 DEF Moved
          <6>3. k > Offset(u)
            BY <1>4, <4>2, <5>1, <5>2, <6>1
          <6>4. Moved(u) = frame[u].done + Piece(u)
            BY <6>2 DEF Moved
          <6> QED
            BY <1>5, <4>2, <5>1, <6>1, <6>2, <6>3, <6>4
        <5>4. Pending(u)
          BY <1>5, <4>2, <5>3 DEF Pending
        <5> QED
          BY <1>1, <3>3, <5>3, <5>4, PieceClaimed
      <4> QED
        BY <4>1, <4>2
    <3>5. UNCHANGED <<state_vars, locks, frame, wrapped, undercut>> => Byte(i, k)' = Byte(i, k)
      BY DEF Byte, BlockOf, get_inode_block, Disk, state_vars, inode_vars, block_vars
    <3> QED
      BY <1>1, <2>2, <3>2, <3>3, <3>4, <3>5, WrittenBytes
  <2> QED
    BY <2>1, <2>2
<1>6. Size(u)' = Size(u)
  BY <1>3, <1>4
<1> QED
  BY <1>1, <1>3, <1>4, <1>5, <1>6, BytesKeepCall

\* A call that has just locked its file has moved nothing.
LEMMA LockedAtomic ==
  ASSUME FilesInv, AtomicInv, NEW t \in Threads, ~Astray, NEW mode, NEW todo, Locks(t, mode, todo),
         frame[t].at = "inode"
  PROVE  (Writing(t) => WriterOK(t)') /\ (~Writing(t) => ReaderOK(t)')
<1>1. /\ frame'[t].at = "loop" /\ frame'[t].offset = Offset(t)
      /\ frame'[t].old = Contents(Inum(t)) /\ frame'[t].h = frame[t].h
      /\ frame'[t].done = frame[t].done /\ frame'[t].buffer = frame[t].buffer
      /\ inode_table' = inode_table /\ open_file_table' = open_file_table
      /\ fs_data' = fs_data
  BY LocksEffect DEF FilesInv
<1>2. PICK i \in Inumbers : i = Inum(t)
  BY AtFile DEF FilesInv
<1>3. PICK n, o : n = inode_table[i].i_size /\ o = Offset(t) /\ n \in Nat /\ o \in Nat
                  /\ n <= MAXIMUM_FILE_BYTES
  BY <1>2, AtFile DEF FilesInv, FileOffsets, Size
<1>4. Inum(t)' = i /\ Size(t)' = n /\ Moved(t)' = 0 /\ Size(t) = n
  <2>1. Inum(t)' = i
    BY <1>1, <1>2 DEF Inum
  <2>2. frame[t].done = 0
    BY DEF FilesInv, CallsOK, CallOK
  <2> QED
    BY <1>1, <1>2, <1>3, <2>1, <2>2 DEF Size, Moved
<1>5. frame'[t].old = [k \in 1 .. n |-> Byte(i, k)]
  BY <1>1, <1>2, <1>3, ContentsAre
<1>6. \A k : Byte(i, k)' = Byte(i, k)
  BY <1>1 DEF Byte, BlockOf, get_inode_block, Disk
<1>7. WriterOK(t)'
  <2>1. SUFFICES ASSUME NEW k \in FileBytes
                 PROVE  /\ k > o /\ k <= o + 0 => Byte(i, k)' = frame'[t].buffer[k - o]
                        /\ k <= n /\ (k <= o \/ k > o + 0) => Byte(i, k)' = frame'[t].old[k]
    BY <1>1, <1>3, <1>4 DEF WriterOK
  <2>2. k \in Int /\ k >= 1
    BY DEF FileBytes
  <2>3. ~(k > o /\ k <= o + 0)
    BY <1>3, <2>2
  <2>4. k <= n => k \in 1 .. n
    BY <1>3, <2>2
  <2> QED
    BY <1>5, <1>6, <2>3, <2>4
<1>8. ~Writing(t) => ReaderOK(t)'
  <2>1. SUFFICES ASSUME ~Writing(t)
                 PROVE  /\ frame'[t].old = [k \in 1 .. n |-> Byte(i, k)']
                        /\ frame'[t].buffer = [k \in 1 .. 0 |-> frame'[t].old[o + k]]
    BY <1>1, <1>3, <1>4 DEF ReaderOK
  <2>2. frame'[t].old = [k \in 1 .. n |-> Byte(i, k)']
    BY <1>5, <1>6
  <2>3. frame'[t].buffer = <<>>
    BY <1>1, <2>1 DEF AtomicInv
  <2> QED
    BY <2>2, <2>3
<1> QED
  BY <1>7, <1>8

\* Thread t goes on in its loop, in the same file and with the same bytes to move.
StaysIn(t, i) ==
  /\ Inum(t)' = i /\ Size(t)' = inode_table'[i].i_size /\ Writing(t)' = Writing(t)
  /\ frame'[t].offset = frame[t].offset /\ frame'[t].old = frame[t].old

\* What the three steps of a loop do to the frame of their call.
LEMMA LoopSteps ==
  ASSUME FilesInv, NEW t \in Threads, Step(t) \/ Call(t), Inside(frame[t]), Inside(frame'[t]),
         NEW i \in Inumbers, i = Inum(t)
  PROVE  /\ StaysIn(t, i) /\ Moved(t) \in Nat
         /\ \/ Advance(t) /\ Moved(t)' = Moved(t) /\ frame'[t].buffer = frame[t].buffer
            \/ /\ WriteBlock(t) \/ ReadBlock(t)
               /\ frame[t].at = "loop" /\ frame'[t].at = "advance"
               /\ Moved(t) = frame[t].done /\ Moved(t)' = frame[t].done + Piece(t)
               /\ WriteBlock(t) => frame'[t].buffer = frame[t].buffer
            \/ UNCHANGED <<state_vars, frame>>
<1>0. Ex1Inv /\ Idle.at = "idle" /\ frame[t].at \in {"loop", "advance"}
      /\ frame'[t].at \in {"loop", "advance"}
  BY DEF FilesInv, Idle, Inside
<1>1. ~LockForWrite(t) /\ ~LockForRead(t)
  BY <1>0 DEF LockForWrite, LockForRead, At
<1>2. /\ frame'[t].h = frame[t].h /\ frame'[t].op = frame[t].op
      /\ frame'[t].offset = frame[t].offset /\ frame'[t].todo = frame[t].todo
      /\ frame'[t].old = frame[t].old
  BY <1>1, StaysInside
<1>3. /\ frame[t].h \in Handles /\ Open(frame[t].h)
      /\ open_file_table'[frame[t].h].of_inumber = open_file_table[frame[t].h].of_inumber
  BY <1>0, InTakenFile, EntriesMove
<1>4. Inum(t)' = i /\ Size(t)' = inode_table'[i].i_size /\ Writing(t)' = Writing(t)
  BY <1>2, <1>3 DEF Inum, Size, Writing
<1>5. CASE Advance(t)
  <2>1. /\ frame[t].at = "advance" /\ frame'[t].at = "loop" /\ frame'[t].done = frame[t].done + Piece(t)
        /\ frame'[t].buffer = frame[t].buffer
    BY <1>0, <1>5, AccessEffects DEF GoesTo, Fields
  <2>2. frame[t].done \in Nat /\ Piece(t) \in Nat /\ Moved(t) \in Nat
    BY <2>1, InTakenFile
  <2>3. Moved(t) = frame[t].done + Piece(t) /\ Moved(t)' = frame'[t].done + 0
    BY <2>1 DEF Moved
  <2>4. StaysIn(t, i)
    BY <1>2, <1>4 DEF StaysIn
  <2> QED
    BY <1>5, <2>1, <2>2, <2>3, <2>4
<1>6. CASE WriteBlock(t) \/ ReadBlock(t)
  <2>1. CASE UNCHANGED <<state_vars, frame>>
    BY <1>2, <1>4, <2>1, InTakenFile DEF StaysIn
  <2>2. CASE ~UNCHANGED <<state_vars, frame>>
    <3>1. frame[t].at = "loop" /\ frame'[t].at = "advance" /\ frame'[t].done = frame[t].done
          /\ (WriteBlock(t) => frame'[t].buffer = frame[t].buffer)
      <4>1. CASE WriteBlock(t)
        BY <1>0, <2>2, <4>1, AccessEffects DEF GoesTo, Fields
      <4>2. CASE ReadBlock(t)
        <5>1. ~WriteBlock(t)
          BY <4>2 DEF WriteBlock, ReadBlock
        <5> QED
          BY <1>0, <4>2, <5>1, AccessEffects DEF GoesTo, Fields
      <4> QED
        BY <1>6, <4>1, <4>2
    <3>2. open_file_table'[frame[t].h] = open_file_table[frame[t].h]
      <4>1. ~Advance(t)
        BY <3>1, AccessEffects, <1>0
      <4> QED
        BY <1>0, <1>3, <4>1, EntriesMove
    <3>3. Piece(t)' = Piece(t)
      BY <1>2, <3>1, <3>2 DEF Piece, Offset
    <3>4. Moved(t) = frame[t].done /\ Moved(t)' = frame[t].done + Piece(t)
      BY <3>1, <3>3, InTakenFile DEF Moved
    <3> QED
      BY <1>2, <1>4, <1>6, <3>1, <3>4, InTakenFile DEF StaysIn
  <2> QED
    BY <2>1, <2>2
<1>7. ~Call(t) /\ ~LockExisting(t) /\ ~Truncate(t) /\ ~Position(t) /\ ~Create(t) /\ ~CreateFails(t)
  BY <1>0, CallEffect, OpenEffects
<1>8. ~Add(t) /\ ~CopyOpens(t) /\ ~CopySize(t) /\ ~LockHandle(t) /\ ~Return(t)
  BY <1>0, HandleEffects, AccessEffects
<1> QED
  BY <1>1, <1>5, <1>6, <1>7, <1>8 DEF Step

\* An advance counts the piece as part of the file.
LEMMA AdvanceAtomic ==
  ASSUME FilesInv, FilesInv', InsideInv, NEW t \in Threads, Advance(t), ~undercut', ~undercut,
         NEW i \in Inumbers, i = Inum(t), StaysIn(t, i), Moved(t)' = Moved(t),
         frame'[t].buffer = frame[t].buffer
  PROVE  /\ Writing(t) /\ WriterOK(t) => WriterOK(t)'
         /\ ~Writing(t) /\ ReaderOK(t) => ReaderOK(t)'
<1>1. Step(t) /\ frame[t].at = "advance" /\ Inside(frame[t])
  BY DEF Step, Advance, At, Inside
<1>2. PICK f, m, n : f = frame[t] /\ m = Moved(t) /\ n = Size(t)
  OBVIOUS
<1>3. \A k \in FileBytes : Byte(i, k)' = Byte(i, k)
  <2>1. ~WriteBlock(t)
    BY <1>1 DEF WriteBlock, InLoop, At
  <2> QED
    BY <1>1, <2>1, BytesKept
<1>4. n \in Nat /\ n <= MAXIMUM_FILE_BYTES /\ Offset(t) = f.offset + f.done /\ Offset(t) \in Nat
      /\ n = inode_table[i].i_size /\ f.offset \in Nat /\ f.done \in Nat /\ Piece(t) \in Nat
      /\ m = f.done + Piece(t)
  BY <1>1, <1>2, InTakenFile DEF Size, Moved
<1>5. \/ Size(t)' = n
      \/ Writing(t) /\ Size(t)' = Offset(t) + Piece(t) /\ Offset(t) + Piece(t) > n
  BY <1>1, <1>4, SizeStays DEF StaysIn
<1>6. ASSUME Writing(t), WriterOK(t) PROVE WriterOK(t)'
  <2>1. SUFFICES ASSUME NEW k \in FileBytes
                 PROVE  /\ k > f.offset /\ k <= f.offset + m => Byte(i, k)' = f.buffer[k - f.offset]
                        /\ k <= Size(t)' /\ (k <= f.offset \/ k > f.offset + m) =>
                             Byte(i, k)' = f.old[k]
    BY <1>2 DEF WriterOK, StaysIn
  <2>2. /\ k > f.offset /\ k <= f.offset + m => Byte(i, k) = f.buffer[k - f.offset]
        /\ k <= n /\ (k <= f.offset \/ k > f.offset + m) => Byte(i, k) = f.old[k]
    BY <1>2, <1>6 DEF WriterOK
  <2>3. k <= Size(t)' /\ (k <= f.offset \/ k > f.offset + m) => k <= n
    <3>1. k \in Int
      BY DEF FileBytes
    <3>2. Offset(t) <= n
      BY <1>1, <1>2, InTakenFile DEF InsideInv, OffsetWithinFile, Offset, Size, Inum
    <3> QED
      BY <1>4, <1>5, <3>1, <3>2
  <2> QED
    BY <1>3, <2>2, <2>3
<1>7. ASSUME ~Writing(t), ReaderOK(t) PROVE ReaderOK(t)'
  <2>1. /\ f.old = [k \in 1 .. n |-> Byte(i, k)]
        /\ f.buffer = [k \in 1 .. m |-> f.old[f.offset + k]]
    BY <1>2, <1>7 DEF ReaderOK
  <2>2. [k \in 1 .. n |-> Byte(i, k)] = [k \in 1 .. n |-> Byte(i, k)']
    <3>1. \A k \in 1 .. n : k \in FileBytes
      BY <1>4, Numbers DEF FileBytes
    <3> QED
      BY <1>3, <3>1
  <2>3. Size(t)' = n
    BY <1>5, <1>7
  <2> QED
    BY <1>2, <2>1, <2>2, <2>3 DEF ReaderOK, StaysIn
<1> QED
  BY <1>6, <1>7

\* What a writer writes is its next piece.
LEMMA WriteAtomic ==
  ASSUME FilesInv, FilesInv', InsideInv, OwnInv, NEW t \in Threads, WriteBlock(t), ~Astray',
         NEW i \in Inumbers, i = Inum(t), StaysIn(t, i), frame'[t].at = "advance",
         Moved(t) = frame[t].done, Moved(t)' = frame[t].done + Piece(t),
         frame'[t].buffer = frame[t].buffer, WriterOK(t)
  PROVE  WriterOK(t)'
<1>1. Inside(frame[t]) /\ frame[t].done < frame[t].todo /\ frame[t].at = "loop" /\ Step(t)
  BY DEF WriteBlock, InLoop, At, Inside, Step
<1>2. PICK f, p, n, o : f = frame[t] /\ p = Piece(t) /\ n = Size(t) /\ o = Offset(t)
  OBVIOUS
<1>3. /\ n \in Nat /\ n <= MAXIMUM_FILE_BYTES /\ o = f.offset + f.done /\ o \in Nat
      /\ n = inode_table[i].i_size /\ f.offset \in Nat /\ f.done \in Nat /\ p \in Nat \ {0}
      /\ IsTaken(i)
  BY <1>1, <1>2, InTakenFile, PieceFits DEF Size
<1>4. Size(t)' = n
  BY <1>3, WrittenTables DEF StaysIn
<1>5. o <= n
  <2>1. ~undercut
    BY <1>1, NotAstray DEF Astray
  <2> QED
    BY <1>1, <1>2, <2>1, InTakenFile DEF InsideInv, OffsetWithinFile, Offset, Size, Inum
<1>6. ~UNCHANGED <<state_vars, locks, frame, wrapped, undercut>>
  BY <1>1
<1>7. ASSUME NEW k \in FileBytes, k <= n, ~(k > o /\ k <= o + p)
      PROVE  Byte(i, k)' = Byte(i, k)
  <2>1. PICK id \in BlockRange, s \in Offsets : k - 1 = BLOCK_SIZE * id + s /\ BLOCK_SIZE * id \in Nat
    BY ByteAt
  <2>2. Claimed(i, id)
    BY <1>3, <1>7, <2>1, ByteClaimed
  <2> QED
    BY <1>2, <1>3, <1>6, <1>7, <2>1, <2>2, WrittenBytes
<1>8. SUFFICES ASSUME NEW k \in FileBytes
               PROVE  /\ k > f.offset /\ k <= f.offset + (f.done + p) =>
                           Byte(i, k)' = f.buffer[k - f.offset]
                      /\ k <= n /\ (k <= f.offset \/ k > f.offset + (f.done + p)) =>
                           Byte(i, k)' = f.old[k]
  BY <1>2, <1>4 DEF WriterOK, StaysIn
<1>9. /\ k > f.offset /\ k <= f.offset + f.done => Byte(i, k) = f.buffer[k - f.offset]
      /\ k <= n /\ (k <= f.offset \/ k > f.offset + f.done) => Byte(i, k) = f.old[k]
  BY <1>2 DEF WriterOK
<1>10. k \in Int
  BY DEF FileBytes
<1>11. CASE k > o /\ k <= o + p
  <2>1. Byte(i, k)' = f.buffer[k - f.offset]
    BY <1>2, <1>11, WrittenPiece
  <2>2. k > f.offset /\ ~(k <= f.offset) /\ ~(k > f.offset + (f.done + p))
    BY <1>3, <1>10, <1>11
  <2> QED
    BY <2>1, <2>2
<1>12. CASE ~(k > o /\ k <= o + p)
  <2>1. CASE k <= n
    <3>1. /\ k > f.offset /\ k <= f.offset + (f.done + p) => k <= f.offset + f.done
          /\ k > f.offset + (f.done + p) => k > f.offset + f.done
      BY <1>3, <1>10, <1>12
    <3> QED
      BY <1>7, <1>9, <1>12, <2>1, <3>1
  <2>2. CASE ~(k <= n)
    BY <1>3, <1>5, <1>10, <1>12, <2>2
  <2> QED
    BY <2>1, <2>2
<1> QED
  BY <1>11, <1>12

\* What a reader copies is the file as it was.
LEMMA ReadAtomic ==
  ASSUME FilesInv, InsideInv, OwnInv, ~Astray, NEW t \in Threads, ReadBlock(t),
         NEW i \in Inumbers, i = Inum(t), StaysIn(t, i), frame'[t].at = "advance",
         Moved(t) = frame[t].done, Moved(t)' = frame[t].done + Piece(t), ReaderOK(t)
  PROVE  ReaderOK(t)'
<1>1. Inside(frame[t]) /\ frame[t].done < frame[t].todo /\ frame[t].at = "loop" /\ ~Writing(t)
      /\ UNCHANGED state_vars
  BY DEF ReadBlock, InLoop, At, Inside
<1>2. PICK f, p, n, o, r, q : /\ f = frame[t] /\ p = Piece(t) /\ n = Size(t) /\ o = Offset(t)
                              /\ r = o % BLOCK_SIZE /\ q = BlockId(t)
  OBVIOUS
<1>3. /\ n \in Nat /\ n <= MAXIMUM_FILE_BYTES /\ o = f.offset + f.done /\ o \in Nat
      /\ n = inode_table[i].i_size /\ f.offset \in Nat /\ f.done \in Nat /\ p \in Nat \ {0}
      /\ r \in Nat /\ f.done + p <= f.todo /\ f.todo \in Nat
  <2>1. r \in Offsets /\ f.todo \in Nat /\ f.done + p <= f.todo /\ p \in Nat \ {0}
    BY <1>1, <1>2, PieceFits DEF FilesInv, CallsOK, CallOK
  <2> QED
    BY <1>1, <1>2, <2>1, InTakenFile, Numbers DEF Size, Offsets
<1>4. f.offset + f.todo <= n
  BY <1>1, <1>2 DEF InsideInv, Astray
<1>5. /\ f.old = [k \in 1 .. n |-> Byte(i, k)]
      /\ f.buffer = [k \in 1 .. f.done |-> f.old[f.offset + k]]
  BY <1>2 DEF ReaderOK
<1>6. PICK block : block = BlockOf(i, q) /\ block = get_inode_block(Disk(i), q)
  BY <1>1, <1>2, ReadFindsBlock
<1>7. PICK bytes : bytes = [k \in 1 .. p |-> fs_data[block][r + k - 1]] /\ frame'[t].buffer = f.buffer \o bytes
  BY <1>2, <1>6, ReadBytes
<1>8. ASSUME NEW k \in 1 .. p
      PROVE  fs_data[block][r + k - 1] = f.old[f.offset + (f.done + k)]
  <2>1. PICK x : x = o + k
    OBVIOUS
  <2>2. x \in FileBytes /\ x \in 1 .. n /\ x > o /\ x <= o + p /\ x - o = k /\ x = f.offset + (f.done + k)
    BY <1>3, <1>4, <2>1, Numbers DEF FileBytes
  <2>3. PICK id \in BlockRange, s \in Offsets :
          x - 1 = BLOCK_SIZE * id + s /\ Byte(i, x) = fs_data[BlockOf(i, id)][s]
    BY <2>2, ByteAt
  <2>4. id = q /\ x - o = s - r + 1
    BY <1>1, <1>2, <2>2, <2>3, PieceAt
  <2>5. s = r + k - 1
    BY <1>3, <2>2, <2>4, Numbers DEF Offsets
  <2>6. Byte(i, x) = fs_data[block][r + k - 1]
    BY <1>6, <2>3, <2>4, <2>5
  <2>7. f.old[x] = Byte(i, x)
    BY <1>5, <2>2
  <2> QED
    BY <2>2, <2>6, <2>7
<1>9. frame'[t].buffer = [k \in 1 .. f.done + p |-> f.old[f.offset + k]]
  <2>1. f.buffer \in Seq(Chars) /\ DOMAIN f.buffer = 1 .. f.done
    BY <1>1, <1>2, <1>5 DEF FilesInv, CallsOK, CallOK, Inside
  <2>2. Len(f.buffer) = f.done
    BY <1>3, <2>1
  <2>3. bytes \in Seq(Chars) /\ Len(bytes) = p
    <3>1. block \in Blocks /\ r + p <= BLOCK_SIZE
      BY <1>1, <1>2, <1>6, ReadFindsBlock, PieceFits
    <3>2. \A k \in 1 .. p : r + k - 1 \in Offsets
      BY <1>3, <3>1, Numbers DEF Offsets
    <3>3. \A k \in 1 .. p : fs_data[block][r + k - 1] \in Chars
      BY <3>1, <3>2 DEF FilesInv, TablesOK
    <3>4. [k \in 1 .. p |-> fs_data[block][r + k - 1]] \in [1 .. p -> Chars] /\ p \in Nat
      BY <1>3, <3>3
    <3>5. bytes \in [1 .. p -> Chars]
      BY <1>7, <3>4
    <3> QED
      BY <3>4, <3>5
  <2>4. PICK w \in Seq(Chars) : w = f.buffer \o bytes /\ Len(w) = f.done + p
                              /\ \A k \in 1 .. f.done + p :
                                   w[k] = IF k <= f.done THEN f.buffer[k] ELSE bytes[k - f.done]
    <3>1. PICK a \in Seq(Chars), b \in Seq(Chars) :
            a = f.buffer /\ b = bytes /\ Len(a) = f.done /\ Len(b) = p
      BY <2>1, <2>2, <2>3
    <3>2. a \o b \in Seq(Chars) /\ Len(a \o b) = f.done + p
          /\ \A k \in 1 .. f.done + p : (a \o b)[k] = IF k <= f.done THEN a[k] ELSE b[k - f.done]
      BY <3>1, ConcatProperties
    <3> QED
      BY <3>1, <3>2
  <2>5. ASSUME NEW k \in 1 .. f.done + p
        PROVE  w[k] = f.old[f.offset + k]
    <3>1. CASE k <= f.done
      <4>1. k \in 1 .. f.done
        BY <1>3, <3>1
      <4> QED
        BY <1>5, <2>4, <3>1, <4>1
    <3>2. CASE ~(k <= f.done)
      <4>1. PICK z : z = k - f.done
        OBVIOUS
      <4>2. z \in 1 .. p /\ f.done + z = k
        BY <1>3, <3>2, <4>1
      <4>3. bytes[z] = fs_data[block][r + z - 1]
        BY <1>7, <4>2
      <4> QED
        BY <1>8, <2>4, <3>2, <4>1, <4>2, <4>3
    <3> QED
      BY <3>1, <3>2
  <2>6. w = [k \in 1 .. f.done + p |-> w[k]]
    BY <2>4, LenProperties
  <2>7. [k \in 1 .. f.done + p |-> w[k]] = [k \in 1 .. f.done + p |-> f.old[f.offset + k]]
    BY <2>5
  <2> QED
    BY <1>7, <2>4, <2>6, <2>7
<1>10. \A k \in 1 .. n : Byte(i, k)' = Byte(i, k)
  BY <1>1 DEF Byte, BlockOf, get_inode_block, Disk, state_vars, inode_vars, block_vars
<1>11. Size(t)' = n
  BY <1>1, <1>3 DEF StaysIn, state_vars, inode_vars
<1> QED
  BY <1>2, <1>5, <1>9, <1>10, <1>11 DEF ReaderOK, StaysIn

\* Readers come to their loop with nothing in their buffer.
LEMMA BuffersEmpty ==
  ASSUME FilesInv, AtomicInv, NEW t \in Threads, Step(t) \/ Call(t),
         frame'[t].at \in {"size", "handle", "inode"}, frame'[t].op # "write"
  PROVE  frame'[t].buffer = <<>>
<1>0. Ex1Inv /\ Idle.at = "idle"
  BY DEF FilesInv, Idle
<1>1. CASE Call(t)
  BY <1>0, <1>1, CallEffect
<1>2. CASE Add(t)
  BY <1>0, <1>2, HandleEffects
<1>3. CASE CopySize(t) \/ LockHandle(t)
  <2>1. frame[t].at \in {"size", "handle"} /\ frame'[t].op = frame[t].op
        /\ frame'[t].buffer = frame[t].buffer
    BY <1>0, <1>3, HandleEffects DEF GoesTo, Fields
  <2> QED
    BY <2>1 DEF AtomicInv, Writing
<1>4. ~LockExisting(t) /\ ~Truncate(t) /\ ~Position(t) /\ ~Create(t) /\ ~CreateFails(t)
  BY <1>0, OpenEffects DEF GoesTo
<1>5. ~CopyOpens(t)
  BY <1>0, HandleEffects
<1>6. ~ReadBlock(t) /\ ~Advance(t) /\ ~Return(t)
  BY <1>0, AccessEffects DEF GoesTo
<1>7. CASE WriteBlock(t)
  BY <1>0, <1>7, AccessEffects DEF GoesTo
<1>8. ~LockForWrite(t)
  <2>1. \A todo : ~Locks(t, "writers", todo)
    BY <1>0, LocksEffect
  <2> QED
    BY <2>1, LocksFit
<1>9. ~LockForRead(t)
  <2>1. \A todo : ~Locks(t, "readers", todo)
    BY <1>0, LocksEffect
  <2> QED
    BY <1>0, <2>1, LocksFit
<1> QED
  BY <1>1, <1>2, <1>3, <1>4, <1>5, <1>6, <1>7, <1>8, <1>9 DEF Step

\* A call's own step leaves it as it should be.
LEMMA OwnAtomic ==
  ASSUME FilesInv, FilesInv', InsideInv, OwnInv, AtomicInv, NEW t \in Threads, Step(t) \/ Call(t),
         ~Astray', Inside(frame'[t])
  PROVE  (Writing(t)' => WriterOK(t)') /\ (~Writing(t)' => ReaderOK(t)')
<1>1. ~Astray /\ ~undercut' /\ ~undercut
  BY NotAstray DEF Astray
<1>2. CASE LockForWrite(t) \/ LockForRead(t)
  <2>1. PICK mode, todo : Locks(t, mode, todo) /\ frame[t].at = "inode"
    <3>1. ~(frame'[t] = Idle)
      BY DEF Inside, Idle
    <3> QED
      BY <1>2, <3>1, LocksFit
  <2>2. Writing(t)' = Writing(t)
    BY <2>1, LocksEffect DEF FilesInv, Writing
  <2> QED
    BY <1>1, <2>1, <2>2, LockedAtomic
<1>3. CASE ~LockForWrite(t) /\ ~LockForRead(t)
  <2>1. Inside(frame[t])
    BY <1>3, StaysInside
  <2>2. PICK i \in Inumbers : i = Inum(t)
    BY <2>1, InTakenFile
  <2>3. /\ StaysIn(t, i) /\ Moved(t) \in Nat
        /\ \/ Advance(t) /\ Moved(t)' = Moved(t) /\ frame'[t].buffer = frame[t].buffer
           \/ /\ WriteBlock(t) \/ ReadBlock(t)
              /\ frame[t].at = "loop" /\ frame'[t].at = "advance"
              /\ Moved(t) = frame[t].done /\ Moved(t)' = frame[t].done + Piece(t)
              /\ WriteBlock(t) => frame'[t].buffer = frame[t].buffer
           \/ UNCHANGED <<state_vars, frame>>
    BY <2>1, <2>2, LoopSteps
  <2>4. (Writing(t) => WriterOK(t)) /\ (~Writing(t) => ReaderOK(t)) /\ Writing(t)' = Writing(t)
    BY <1>1, <2>1, <2>3 DEF AtomicInv, StaysIn
  <2>5. CASE Advance(t) /\ Moved(t)' = Moved(t) /\ frame'[t].buffer = frame[t].buffer
    BY <1>1, <2>2, <2>3, <2>4, <2>5, AdvanceAtomic
  <2>6. CASE /\ WriteBlock(t)
             /\ frame'[t].at = "advance" /\ frame'[t].buffer = frame[t].buffer
             /\ Moved(t) = frame[t].done /\ Moved(t)' = frame[t].done + Piece(t)
    <3>1. Writing(t)
      BY <2>6 DEF WriteBlock
    <3> QED
      BY <2>2, <2>3, <2>4, <2>6, <3>1, WriteAtomic
  <2>7. CASE /\ ReadBlock(t) /\ frame'[t].at = "advance"
             /\ Moved(t) = frame[t].done /\ Moved(t)' = frame[t].done + Piece(t)
    <3>1. ~Writing(t)
      BY <2>7 DEF ReadBlock
    <3> QED
      BY <1>1, <2>2, <2>3, <2>4, <2>7, <3>1, ReadAtomic
  <2>8. CASE UNCHANGED <<state_vars, frame>>
    <3>1. Moved(t)' = Moved(t) /\ Size(t)' = Size(t) /\ Inum(t)' = i /\ \A k : Byte(i, k)' = Byte(i, k)
      BY <2>2, <2>8 DEF Moved, Piece, Offset, Size, Inum, Byte, BlockOf, get_inode_block, Disk,
         state_vars, inode_vars, block_vars, open_vars
    <3>2. frame'[t] = frame[t] /\ Size(t) \in Nat /\ Size(t) <= MAXIMUM_FILE_BYTES
      BY <2>1, <2>8, InTakenFile
    <3> QED
      BY <2>2, <2>4, <3>1, <3>2, BytesKeepCall
  <2> QED
    BY <2>3, <2>5, <2>6, <2>7, <2>8
<1> QED
  BY <1>2, <1>3

\* Each step keeps all calls as they should be.
LEMMA AtomicStep ==
  ASSUME FilesInv, FilesInv', InsideInv, OwnInv, AtomicInv, NEW t \in Threads, Step(t) \/ Call(t)
  PROVE  AtomicInv'
<1>1. ASSUME NEW u \in Threads, frame'[u].at \in {"size", "handle", "inode"}, ~Writing(u)'
      PROVE  frame'[u].buffer = <<>>
  <2>1. CASE u = t
    BY <1>1, <2>1, BuffersEmpty DEF Writing
  <2>2. CASE u # t
    <3>1. frame'[u] = frame[u]
      BY <2>2, OthersStay DEF Others
    <3> QED
      BY <1>1, <3>1 DEF AtomicInv, Writing
  <2> QED
    BY <2>1, <2>2
<1>2. ASSUME ~Astray', NEW u \in Threads, Inside(frame'[u])
      PROVE  (Writing(u)' => WriterOK(u)') /\ (~Writing(u)' => ReaderOK(u)')
  <2>1. CASE u = t
    BY <1>2, <2>1, OwnAtomic
  <2>2. CASE u # t
    <3>1. frame'[u] = frame[u]
      BY <2>2, OthersStay DEF Others
    <3>2. ~Astray /\ Inside(frame[u])
      BY <1>2, <3>1, NotAstray
    <3>3. (Writing(u) => WriterOK(u)) /\ (~Writing(u) => ReaderOK(u))
      BY <3>2 DEF AtomicInv
    <3> QED
      BY <1>2, <2>2, <3>2, <3>3, OthersAtomic
  <2> QED
    BY <2>1, <2>2
<1> QED
  BY <1>1, <1>2 DEF AtomicInv, Inside

\* It says what CallsAreAtomic says.
LEMMA AtomicFollows == FilesInv /\ AtomicInv => CallsAreAtomic
<1> SUFFICES ASSUME FilesInv, AtomicInv, ~Astray, NEW t \in Threads, frame[t].at \in {"loop", "advance"}
             PROVE  LET f == frame[t]
                        Mine(k) == k > f.offset /\ k <= f.offset + Moved(t)
                    IN
                    /\ Offset(t) = f.offset + f.done
                    /\ IF Writing(t)
                       THEN Contents(Inum(t)) =
                              [k \in 1 .. Size(t) |-> IF Mine(k) THEN f.buffer[k - f.offset]
                                                                 ELSE f.old[k]]
                       ELSE /\ Contents(Inum(t)) = f.old
                            /\ f.buffer = SubSeq(f.old, f.offset + 1, f.offset + Moved(t))
  BY DEF CallsAreAtomic
<1>1. PICK f, m, n, i : f = frame[t] /\ m = Moved(t) /\ n = Size(t) /\ i = Inum(t)
  OBVIOUS
<1>2. /\ Inside(frame[t]) /\ Offset(t) = f.offset + f.done /\ f.offset \in Nat /\ m \in Nat
      /\ n \in Nat /\ n <= MAXIMUM_FILE_BYTES /\ i \in Inumbers
      /\ n = inode_table[i].i_size
  BY <1>1, InTakenFile DEF Inside, Size
<1>3. Contents(i) = [k \in 1 .. n |-> Byte(i, k)]
  BY <1>2, ContentsAre
<1>4. ASSUME Writing(t)
      PROVE  Contents(i) = [k \in 1 .. n |-> IF k > f.offset /\ k <= f.offset + m
                                             THEN f.buffer[k - f.offset] ELSE f.old[k]]
  <2>1. ASSUME NEW k \in 1 .. n
        PROVE  Byte(i, k) = IF k > f.offset /\ k <= f.offset + m
                            THEN f.buffer[k - f.offset] ELSE f.old[k]
    <3>1. k \in FileBytes /\ k <= n /\ k \in Int
      BY <1>2, Numbers DEF FileBytes
    <3>2. /\ k > f.offset /\ k <= f.offset + m => Byte(i, k) = f.buffer[k - f.offset]
          /\ k <= n /\ (k <= f.offset \/ k > f.offset + m) => Byte(i, k) = f.old[k]
      BY <1>1, <1>2, <1>4, <3>1 DEF AtomicInv, WriterOK
    <3> QED
      BY <1>2, <3>1, <3>2
  <2> QED
    BY <1>3, <2>1
<1>5. ASSUME ~Writing(t)
      PROVE  Contents(i) = f.old /\ f.buffer = SubSeq(f.old, f.offset + 1, f.offset + m)
  <2>1. /\ f.old = [k \in 1 .. n |-> Byte(i, k)]
        /\ f.buffer = [k \in 1 .. m |-> f.old[f.offset + k]]
    BY <1>1, <1>2, <1>5 DEF AtomicInv, ReaderOK
  <2>2. SubSeq(f.old, f.offset + 1, f.offset + m) = [k \in 1 .. m |-> f.old[f.offset + k]]
    <3>1. PICK s, a, w : /\ s = f.old /\ a = f.offset /\ a \in Nat /\ m \in Nat
                         /\ w = [k \in 1 .. m |-> f.old[f.offset + k]]
      BY <1>2
    <3>2. PICK U : U = {s[a + k] : k \in 1 .. m}
      OBVIOUS
    <3>4. w \in Seq(U) /\ Len(w) = m /\ \A k \in 1 .. m : w[k] = s[a + k]
      BY <3>1, <3>2
    <3>5. /\ a \in Nat /\ m \in Nat /\ w \in Seq(U) /\ Len(w) = m
          /\ \A k \in 1 .. m : w[k] = s[a + k]
      BY <3>1, <3>4
    <3>3. w = SubSeq(s, a + 1, a + m)
      BY ONLY <3>5, SubSeqIs, Zenon
    <3> QED
      BY <3>1, <3>3
  <2> QED
    BY <1>3, <2>1, <2>2
<1> QED
  BY <1>1, <1>2, <1>4, <1>5

\* A call works block by block, and yet the others cannot tell, until blocks go
\* astray: from the lock of the i-node on, nobody but the call moves its handle;
\* what a read has copied, and will copy, is the file as it was then; and a write
\* has changed its own bytes of the file only, in order.
THEOREM CallsSeemWhole == Spec => []CallsAreAtomic
<1>1. Init => BlocksInv /\ AtomicInv
  BY BlocksInit DEF Init, AtomicInv, Idle, Inside
<1>2. BlocksInv /\ AtomicInv /\ [Next]_vars => BlocksInv' /\ AtomicInv'
  <2> SUFFICES ASSUME BlocksInv, AtomicInv, [Next]_vars PROVE BlocksInv' /\ AtomicInv'
    OBVIOUS
  <2>1. BlocksInv'
    BY BlocksStep
  <2>2. ASSUME UNCHANGED vars PROVE AtomicInv'
    <3>1. /\ frame' = frame /\ inode_table' = inode_table /\ fs_data' = fs_data
          /\ free_blocks' = free_blocks /\ open_file_table' = open_file_table
          /\ undercut' = undercut /\ wrapped' = wrapped
      BY <2>2 DEF vars, state_vars, inode_vars, block_vars, open_vars, history
    <3>2. \A i : Disk(i)' = Disk(i)
      BY <3>1 DEF Disk
    <3>3. \A i, k : Byte(i, k)' = Byte(i, k)
      BY <3>1, <3>2 DEF Byte, BlockOf
    <3>4. Astray' = Astray /\ \A t \in Threads : /\ Writing(t)' = Writing(t) /\ Moved(t)' = Moved(t)
                                               /\ Size(t)' = Size(t) /\ Inum(t)' = Inum(t)
      BY <3>1 DEF Astray, Writing, Moved, Piece, Offset, Size, Inum
    <3> QED
      BY <3>1, <3>3, <3>4 DEF AtomicInv, WriterOK, ReaderOK
  <2>3. ASSUME NEW t \in Threads, Step(t) \/ Call(t) PROVE AtomicInv'
    BY <2>1, <2>3, AtomicStep DEF BlocksInv
  <2>4. (\E t \in Threads : Step(t) \/ Call(t)) \/ UNCHANGED vars
    BY DEF Next
  <2> QED
    BY <2>1, <2>2, <2>3, <2>4
<1>3. BlocksInv /\ AtomicInv => CallsAreAtomic
  BY AtomicFollows DEF BlocksInv
<1> QED
  BY <1>1, <1>2, <1>3, PTL DEF Spec

----------------------------------------------------------------------------
(* Types.                                                                  *)

\* What Frame says of the fields.
FieldsOK(f) ==
  /\ f.op \in Ops \cup {"none"} /\ f.at \in Places /\ f.path \in Paths \cup {NoPath}
  /\ f.flags \in OpenFlags \cup {{}} /\ f.inum \in Inumbers \cup {-1}
  /\ f.offset \in FileOffsets /\ f.h \in Handles \cup {-1}
  /\ f.buffer \in Seq(Chars) /\ f.len \in Nat /\ f.todo \in Nat /\ f.done \in Nat
  /\ f.old \in Seq(Chars)

FieldsInv == frame = [t \in Threads |-> frame[t]] /\ \A t \in Threads : FieldsOK(frame[t])

RetOK(r) == r \in [op : Ops \cup {"none"}, val : Int]

FlagsOK == wild \in BOOLEAN /\ destroyed \in BOOLEAN /\ undercut \in BOOLEAN /\ wrapped \in BOOLEAN

TypesInv == FieldsInv /\ RetOK(ret) /\ FlagsOK

\* A frame outside its calls.
LEMMA IdleFields == FieldsOK(Idle) /\ RetOK(NoReturn)
<1>1. 0 \in FileOffsets
  BY MaximumIsNat DEF FileOffsets
<1>2. <<>> \in Seq(Chars)
  OBVIOUS
<1> QED
  BY <1>1, <1>2 DEF FieldsOK, Idle, Ops, Places, RetOK, NoReturn

\* A call that goes on with no field changed but those for which the types are
\* known.
LEMMA FieldsGo ==
  ASSUME NEW t \in Threads, FieldsOK(frame[t]), NEW place \in Places, NEW S, GoesTo(t, place, S),
         frame'[t].todo \in Nat, frame'[t].done \in Nat, frame'[t].len \in Nat,
         frame'[t].offset \in FileOffsets, frame'[t].buffer \in Seq(Chars),
         frame'[t].old \in Seq(Chars),
         S \subseteq {"todo", "done", "len", "offset", "buffer", "old"}
  PROVE  FieldsOK(frame'[t])
<1>1. /\ frame'[t].op = frame[t].op /\ frame'[t].at = place /\ frame'[t].path = frame[t].path
      /\ frame'[t].flags = frame[t].flags /\ frame'[t].inum = frame[t].inum
      /\ frame'[t].h = frame[t].h
  BY DEF GoesTo, Fields
<1> QED
  BY <1>1 DEF FieldsOK

\* The same when none changes.
LEMMA FieldsStay ==
  ASSUME NEW t \in Threads, FieldsOK(frame[t]), NEW place \in Places, GoesTo(t, place, {})
  PROVE  FieldsOK(frame'[t])
<1>1. /\ frame'[t].todo = frame[t].todo /\ frame'[t].done = frame[t].done
      /\ frame'[t].len = frame[t].len /\ frame'[t].offset = frame[t].offset
      /\ frame'[t].buffer = frame[t].buffer /\ frame'[t].old = frame[t].old
  BY DEF GoesTo, Fields
<1> QED
  BY <1>1, FieldsGo DEF FieldsOK

\* A file that is there is readable, byte by byte.
LEMMA BytesTyped ==
  ASSUME FilesInv, OwnInv, ~Astray, NEW i \in Inumbers, IsTaken(i), NEW k \in FileBytes,
         k <= inode_table[i].i_size
  PROVE  Byte(i, k) \in Chars
<1>1. PICK id \in BlockRange, r \in Offsets :
        /\ k - 1 = BLOCK_SIZE * id + r /\ BLOCK_SIZE * id \in Nat
        /\ Byte(i, k) = fs_data[BlockOf(i, id)][r]
  BY ByteAt
<1>2. Claimed(i, id)
  BY <1>1, ByteClaimed
<1>3. BlockOf(i, id) \in Blocks
  BY <1>1, <1>2 DEF OwnInv
<1> QED
  BY <1>1, <1>3 DEF FilesInv, TablesOK

\* The contents of a file are bytes.
LEMMA ContentsTyped ==
  ASSUME FilesInv, OwnInv, ~Astray, NEW i \in Inumbers, IsTaken(i)
  PROVE  Contents(i) \in Seq(Chars)
<1>1. PICK n \in Nat : n = inode_table[i].i_size /\ n <= MAXIMUM_FILE_BYTES
  BY NeedsAre, Numbers DEF FileOffsets
<1>2. Contents(i) = [k \in 1 .. n |-> Byte(i, k)]
  BY <1>1, ContentsAre
<1>3. \A k \in 1 .. n : Byte(i, k) \in Chars
  BY <1>1, BytesTyped, Numbers DEF FileBytes
<1>4. [k \in 1 .. n |-> Byte(i, k)] \in [1 .. n -> Chars]
  BY <1>3
<1> QED
  BY <1>2, <1>4, SeqDef

\* What a look-up returns is a number.
LEMMA LookupType ==
  ASSUME FilesInv, NEW path
  PROVE  lookup(path) \in Int /\ (lookup(path) >= 0 => lookup(path) \in Inumbers)
<1>1. lookup(path) = -1 \/ IsFile(lookup(path))
  BY LookupFinds DEF FilesInv, Ex1Inv
<1> QED
  BY <1>1 DEF IsFile, Inumbers

\* tfs_open looks up a path.
LEMMA LooksUpTypes ==
  ASSUME FilesInv, NEW t \in Threads, NEW f, IsFrame(f), FieldsOK(f), LooksUp(t, f)
  PROVE  FieldsOK(frame'[t]) /\ RetOK(ret')
<1> DEFINE inum == lookup(f.path)
<1>0. Ex1Inv
  BY DEF FilesInv
<1>1. CASE inum >= 0 /\ Goto(t, [f EXCEPT !.at = "existing", !.path = NoPath, !.inum = inum])
  <2> DEFINE g == [f EXCEPT !.at = "existing", !.path = NoPath, !.inum = inum]
  <2>1. inum \in Inumbers
    BY <1>1, LookupType
  <2> HIDE DEF inum
  <2>2. /\ g.at = "existing" /\ g.path = NoPath /\ g.inum = inum
        /\ \A x \in Fields \ {"at", "path", "inum"} : g[x] = f[x]
    BY DEF IsFrame, Fields
  <2>3. frame' = [frame EXCEPT ![t] = g] /\ ret' = NoReturn
    BY <1>1 DEF Goto
  <2> HIDE DEF g
  <2>4. FieldsOK(g)
    BY <2>1, <2>2 DEF FieldsOK, Places, Fields
  <2> QED
    BY <1>0, <2>3, <2>4, FrameReplaced, IdleFields
<1>2. CASE Goto(t, [f EXCEPT !.at = "create"])
  <2> DEFINE g == [f EXCEPT !.at = "create"]
  <2>1. g.at = "create" /\ \A x \in Fields \ {"at"} : g[x] = f[x]
    BY DEF IsFrame, Fields
  <2>2. frame' = [frame EXCEPT ![t] = g] /\ ret' = NoReturn
    BY <1>2 DEF Goto
  <2> HIDE DEF g
  <2>3. FieldsOK(g)
    BY <2>1 DEF FieldsOK, Places, Fields
  <2> QED
    BY <1>0, <2>2, <2>3, FrameReplaced, IdleFields
<1>3. CASE Returns(t, f.op, -1)
  <2>1. RetOK(ret')
    BY <1>3 DEF Returns, RetOK, FieldsOK
  <2> QED
    BY <1>0, <1>3, <2>1, ReturnsIdle, IdleFields
<1> QED
  BY <1>1, <1>2, <1>3 DEF LooksUp

\* A call returns an int.
LEMMA ReturnsTypes ==
  ASSUME FilesInv, NEW t \in Threads, NEW op \in Ops \cup {"none"}, NEW val \in Int,
         Returns(t, op, val)
  PROVE  FieldsOK(frame'[t]) /\ RetOK(ret')
<1>1. frame'[t] = Idle
  BY ReturnsIdle DEF FilesInv
<1>2. RetOK(ret')
  BY DEF Returns, RetOK
<1> QED
  BY <1>1, <1>2, IdleFields

\* A call that begins on a handle.
LEMMA BeginsTypes ==
  ASSUME FilesInv, NEW t \in Threads, NEW f, IsFrame(f), f.op \in Ops, Begins(t, f),
         f.h \in Handles => FieldsOK(f)
  PROVE  FieldsOK(frame'[t]) /\ RetOK(ret')
<1>0. Ex1Inv
  BY DEF FilesInv
<1>1. CASE f.h \in held /\ Goto(t, [f EXCEPT !.at = "handle"])
  <2> DEFINE g == [f EXCEPT !.at = "handle"]
  <2>0. f.h \in Handles
    BY <1>1 DEF FilesInv, Ex1Inv, HandlesInv
  <2>1. g.at = "handle" /\ \A x \in Fields \ {"at"} : g[x] = f[x]
    BY DEF IsFrame, Fields
  <2>2. frame' = [frame EXCEPT ![t] = g] /\ ret' = NoReturn
    BY <1>1 DEF Goto
  <2> HIDE DEF g
  <2>3. FieldsOK(g)
    BY <2>0, <2>1 DEF FieldsOK, Places, Fields
  <2> QED
    BY <1>0, <2>2, <2>3, FrameReplaced, IdleFields
<1>2. CASE Returns(t, f.op, -1)
  BY <1>2, ReturnsTypes
<1> QED
  BY <1>1, <1>2 DEF Begins

\* A call begins with a frame of the types.
LEMMA CallTypes ==
  ASSUME FilesInv, NEW t \in Threads, Call(t)
  PROVE  FieldsOK(frame'[t]) /\ RetOK(ret')
<1>0. "lookup" \in Ops /\ "open" \in Ops /\ "close" \in Ops /\ "write" \in Ops /\ "read" \in Ops
      /\ "copy" \in Ops /\ "destroy" \in Ops
  BY DEF Ops
<1>1. CASE tfs_destroy(t)
  BY <1>0, <1>1, ReturnsTypes DEF tfs_destroy
<1>2. ASSUME NEW path \in Paths, tfs_lookup(t, path)
      PROVE  FieldsOK(frame'[t]) /\ RetOK(ret')
  <2>1. PICK val \in Int : val = lookup(path) /\ Returns(t, "lookup", val)
    BY <1>2, LookupType DEF tfs_lookup
  <2> QED
    BY <1>0, <2>1, ReturnsTypes
<1>3. ASSUME NEW path \in CopyPaths, tfs_copy_to_external_fs(t, path)
      PROVE  FieldsOK(frame'[t]) /\ RetOK(ret')
  <2> DEFINE g == [Idle EXCEPT !.op = "copy", !.at = "lookup", !.path = path]
  <2>1. CASE Goto(t, g)
    <3>1. path \in Paths
      BY Ex1OpsAssumption
    <3>2. frame' = [frame EXCEPT ![t] = g] /\ ret' = NoReturn
      BY <2>1 DEF Goto
    <3>3. /\ g.op = "copy" /\ g.at = "lookup" /\ g.path = path
          /\ \A x \in Fields \ {"op", "at", "path"} : g[x] = Idle[x]
      BY DEF Idle, Fields
    <3> HIDE DEF g
    <3>4. FieldsOK(g)
      BY <1>0, <3>1, <3>3, IdleFields DEF FieldsOK, Fields, Places
    <3> QED
      BY <3>2, <3>4, FrameReplaced, IdleFields DEF FilesInv
  <2>2. CASE Returns(t, "copy", -1)
    BY <1>0, <2>2, ReturnsTypes
  <2> QED
    BY <1>3, <2>1, <2>2 DEF tfs_copy_to_external_fs
<1>4. ASSUME NEW path \in Paths, NEW flags \in OpenFlags, tfs_open(t, path, flags)
      PROVE  FieldsOK(frame'[t]) /\ RetOK(ret')
  <2> DEFINE f == [Idle EXCEPT !.op = "open", !.path = path, !.flags = flags]
  <2>1. IsFrame(f) /\ f.op = "open" /\ f.path = path /\ f.flags = flags
        /\ \A x \in Fields \ {"op", "path", "flags"} : f[x] = Idle[x]
    BY DEF IsFrame, Fields, Idle
  <2>2. LooksUp(t, f)
    BY <1>4 DEF tfs_open
  <2> HIDE DEF f
  <2>3. FieldsOK(f)
    BY <1>0, <2>1, IdleFields DEF FieldsOK, Fields
  <2> QED
    BY <1>0, <2>1, <2>2, <2>3, LooksUpTypes
<1>5. ASSUME NEW h, tfs_close(t, h)
      PROVE  FieldsOK(frame'[t]) /\ RetOK(ret')
  BY <1>0, <1>5, ReturnsTypes DEF tfs_close
<1>6. ASSUME NEW h, NEW buffer \in Buffers, tfs_write(t, h, buffer)
      PROVE  FieldsOK(frame'[t]) /\ RetOK(ret')
  <2> DEFINE f == [Idle EXCEPT !.op = "write", !.h = h, !.buffer = buffer]
  <2>1. /\ IsFrame(f) /\ f.op = "write" /\ f.h = h /\ f.buffer = buffer
        /\ \A x \in Fields \ {"op", "h", "buffer"} : f[x] = Idle[x]
    BY DEF IsFrame, Fields, Idle
  <2>2. Begins(t, f)
    BY <1>6 DEF tfs_write
  <2>3. buffer \in Seq(Chars)
    <3>1. \A b \in Seq(Data) : b \in Seq(Chars)
      BY Ex1Assumption
    <3> QED
      BY <3>1, Ex1OpsAssumption
  <2> HIDE DEF f
  <2>4. f.h \in Handles => FieldsOK(f)
    BY <1>0, <2>1, <2>3, IdleFields DEF FieldsOK, Fields
  <2> QED
    BY <1>0, <2>1, <2>2, <2>4, BeginsTypes
<1>7. ASSUME NEW h, NEW len \in Lens, tfs_read(t, h, len)
      PROVE  FieldsOK(frame'[t]) /\ RetOK(ret')
  <2> DEFINE f == [Idle EXCEPT !.op = "read", !.h = h, !.len = len]
  <2>1. /\ IsFrame(f) /\ f.op = "read" /\ f.h = h /\ f.len = len
        /\ \A x \in Fields \ {"op", "h", "len"} : f[x] = Idle[x]
    BY DEF IsFrame, Fields, Idle
  <2>2. Begins(t, f)
    BY <1>7 DEF tfs_read
  <2>3. len \in Nat
    BY Ex1OpsAssumption
  <2> HIDE DEF f
  <2>4. f.h \in Handles => FieldsOK(f)
    BY <1>0, <2>1, <2>3, IdleFields DEF FieldsOK, Fields
  <2> QED
    BY <1>0, <2>1, <2>2, <2>4, BeginsTypes
<1> QED
  BY <1>1, <1>2, <1>3, <1>4, <1>5, <1>6, <1>7 DEF Call

\* A frame is a record of its twelve fields.
LEMMA FrameIs ==
  ASSUME NEW f, IsFrame(f), FieldsOK(f)
  PROVE  f \in Frame
<1>1. f = [op |-> f.op, at |-> f.at, path |-> f.path, flags |-> f.flags, inum |-> f.inum,
           offset |-> f.offset, h |-> f.h, buffer |-> f.buffer, len |-> f.len, todo |-> f.todo,
           done |-> f.done, old |-> f.old]
  BY DEF IsFrame, Fields
<1> QED
  BY <1>1 DEF FieldsOK, Frame, FileOffsets

\* The steps of tfs_open that come after its look-up.
LEMMA OpenTypes ==
  ASSUME FilesInv, NEW t \in Threads, FieldsOK(frame[t]),
         LockExisting(t) \/ Truncate(t) \/ Position(t) \/ Create(t) \/ CreateFails(t)
  PROVE  FieldsOK(frame'[t]) /\ RetOK(ret')
<1>0. Ex1Inv /\ FieldsOK(Idle) /\ RetOK(NoReturn)
  BY IdleFields DEF FilesInv
<1>1. /\ {"truncate", "position", "add"} \subseteq Places /\ "open" \in Ops
      /\ frame[t].op \in Ops \cup {"none"} /\ -1 \in Int
  BY DEF Places, Ops, FieldsOK
<1>2. CASE LockExisting(t)
  <2>1. ret' = NoReturn /\ (GoesTo(t, "truncate", {}) \/ GoesTo(t, "position", {}))
    BY <1>0, <1>2, OpenEffects DEF LockExisting, Goto
  <2> QED
    BY <1>0, <1>1, <2>1, FieldsStay
<1>3. CASE Truncate(t)
  <2>1. CASE Returns(t, frame[t].op, -1)
    BY <1>1, <2>1, ReturnsTypes
  <2>2. CASE Goto(t, [frame[t] EXCEPT !.at = "position"])
    BY <1>0, <1>1, <2>2, GotoPlace, FieldsStay DEF Goto
  <2> QED
    BY <1>3, <2>1, <2>2 DEF Truncate
<1>4. CASE Position(t)
  <2> DEFINE i == frame[t].inum
             offset == IF "APPEND" \in frame[t].flags THEN inode_table[i].i_size ELSE 0
             g == [Idle EXCEPT !.op = frame[t].op, !.at = "add", !.inum = i, !.offset = offset]
  <2>1. frame' = [frame EXCEPT ![t] = g] /\ ret' = NoReturn /\ frame[t].at = "position"
    BY <1>4 DEF Position, Goto, At
  <2>2. i \in Inumbers
    BY <1>0, <2>1 DEF Ex1Inv, FrameOK, IsFile
  <2>3. offset \in FileOffsets
    BY <2>2, NeedsAre, Numbers DEF FileOffsets
  <2>4. frame[t].op \in Ops \cup {"none"}
    BY DEF FieldsOK
  <2> HIDE DEF i, offset
  <2>5. /\ g.op = frame[t].op /\ g.at = "add" /\ g.inum = i /\ g.offset = offset
        /\ \A x \in Fields \ {"op", "at", "inum", "offset"} : g[x] = Idle[x]
    BY DEF Idle, Fields
  <2> HIDE DEF g
  <2>6. FieldsOK(g)
    BY <1>0, <1>1, <2>2, <2>3, <2>4, <2>5 DEF FieldsOK, Fields
  <2> QED
    BY <1>0, <2>1, <2>6, FrameReplaced
<1>5. CASE Create(t)
  <2> DEFINE g(i) == [Idle EXCEPT !.op = "open", !.at = "add", !.inum = i]
  <2>1. PICK i : i = inode_create /\ i # -1 /\ frame' = [frame EXCEPT ![t] = g(i)] /\ ret' = NoReturn
    BY <1>5 DEF Create, Goto
  <2>2. i \in Inumbers
    <3>1. frame'[t].inum = i /\ frame'[t].at = "add"
      BY <1>0, <1>5, <2>1, OpenEffects
    <3>2. FrameOK(frame[t])'
      BY <1>0, <1>5, CreateStep DEF Ex1Inv
    <3> QED
      BY <3>1, <3>2 DEF FrameOK, IsFile
  <2>3. /\ g(i).op = "open" /\ g(i).at = "add" /\ g(i).inum = i
        /\ \A x \in Fields \ {"op", "at", "inum"} : g(i)[x] = Idle[x]
    BY DEF Idle, Fields
  <2> HIDE DEF g
  <2>4. FieldsOK(g(i))
    BY <1>0, <1>1, <2>2, <2>3 DEF FieldsOK, Fields
  <2> QED
    BY <1>0, <2>1, <2>4, FrameReplaced
<1>6. CASE CreateFails(t)
  BY <1>1, <1>6, ReturnsTypes DEF CreateFails
<1> QED
  BY <1>2, <1>3, <1>4, <1>5, <1>6

\* The handle, and the copy.
LEMMA HandleTypes ==
  ASSUME FilesInv, NEW t \in Threads, FieldsOK(frame[t]),
         Add(t) \/ CopyOpens(t) \/ CopySize(t) \/ LockHandle(t)
  PROVE  FieldsOK(frame'[t]) /\ RetOK(ret')
<1>0. Ex1Inv /\ FieldsOK(Idle) /\ RetOK(NoReturn)
  BY IdleFields DEF FilesInv
<1>1. /\ {"size", "handle", "inode"} \subseteq Places /\ "open" \in Ops /\ "copy" \in Ops
      /\ frame[t].op \in Ops \cup {"none"} /\ -1 \in Int
  BY DEF Places, Ops, FieldsOK
<1>2. CASE Add(t)
  <2> DEFINE g(h) == [Idle EXCEPT !.op = "copy", !.at = "size", !.h = h]
  <2>1. PICK h : /\ h = First(FreeIn(free_open_file_entries))
                 /\ \/ Returns(t, frame[t].op, -1)
                    \/ Returns(t, "open", h)
                    \/ h # -1 /\ Goto(t, g(h))
    BY <1>2 DEF Add
  <2>2. h = -1 \/ h \in Handles
    <3>1. FreeIn(free_open_file_entries) \subseteq Handles
      BY <1>0 DEF FreeIn, Ex1Inv, HandlesInv
    <3>2. Handles \subseteq Nat
      BY DEF Handles
    <3>3. First(FreeIn(free_open_file_entries)) = -1
          \/ First(FreeIn(free_open_file_entries)) \in FreeIn(free_open_file_entries)
      <4>1. CASE FreeIn(free_open_file_entries) = {}
        BY <4>1 DEF First
      <4>2. CASE FreeIn(free_open_file_entries) # {}
        <5>1. FreeIn(free_open_file_entries) \in SUBSET Nat
          BY <3>1, <3>2
        <5> QED
          BY <4>2, <5>1, FirstFound
      <4> QED
        BY <4>1, <4>2
    <3> QED
      BY <2>1, <3>1, <3>3
  <2>3. h \in Int
    BY <2>2 DEF Handles
  <2>4. CASE Returns(t, frame[t].op, -1)
    BY <1>1, <2>4, ReturnsTypes
  <2>5. CASE Returns(t, "open", h)
    BY <1>1, <2>3, <2>5, ReturnsTypes
  <2>6. CASE h # -1 /\ Goto(t, g(h))
    <3>1. frame' = [frame EXCEPT ![t] = g(h)] /\ ret' = NoReturn
      BY <2>6 DEF Goto
    <3>2. /\ g(h).op = "copy" /\ g(h).at = "size" /\ g(h).h = h
          /\ \A x \in Fields \ {"op", "at", "h"} : g(h)[x] = Idle[x]
      BY DEF Idle, Fields
    <3> HIDE DEF g
    <3>3. FieldsOK(g(h))
      BY <1>0, <1>1, <2>2, <3>2 DEF FieldsOK, Fields
    <3> QED
      BY <1>0, <3>1, <3>3, FrameReplaced
  <2> QED
    BY <2>1, <2>4, <2>5, <2>6
<1>3. CASE CopyOpens(t)
  <2>1. LooksUp(t, frame[t]) /\ frame[t].at = "lookup" /\ IsFrame(frame[t])
    BY <1>0, <1>3 DEF CopyOpens, At, Ex1Inv, FrameOK
  <2> QED
    BY <1>0, <2>1, LooksUpTypes
<1>4. CASE CopySize(t)
  <2>1. /\ ret' = NoReturn /\ GoesTo(t, "handle", {"len"}) /\ frame'[t].len = Size(t)
        /\ frame[t].at = "size"
    BY <1>0, <1>4, HandleEffects DEF CopySize, Goto
  <2>2. Size(t) \in Nat
    BY <2>1, AtFile DEF FilesInv, FileOffsets
  <2>3. /\ frame'[t].todo = frame[t].todo /\ frame'[t].done = frame[t].done
        /\ frame'[t].offset = frame[t].offset
        /\ frame'[t].buffer = frame[t].buffer /\ frame'[t].old = frame[t].old
    BY <2>1 DEF GoesTo, Fields
  <2>4. /\ frame'[t].todo \in Nat /\ frame'[t].done \in Nat /\ frame'[t].len \in Nat
        /\ frame'[t].offset \in FileOffsets /\ frame'[t].buffer \in Seq(Chars)
        /\ frame'[t].old \in Seq(Chars)
    BY <2>1, <2>2, <2>3 DEF FieldsOK
  <2> QED
    BY <1>0, <1>1, <2>1, <2>4, FieldsGo
<1>5. CASE LockHandle(t)
  <2>1. ret' = NoReturn /\ GoesTo(t, "inode", {})
    BY <1>0, <1>5, HandleEffects DEF LockHandle, Goto
  <2> QED
    BY <1>0, <1>1, <2>1, FieldsStay
<1> QED
  BY <1>2, <1>3, <1>4, <1>5

\* The steps of tfs_write and tfs_read.
LEMMA AccessTypes ==
  ASSUME FilesInv, FilesInv', OwnInv, NEW t \in Threads, FieldsOK(frame[t]), RetOK(ret),
         \/ LockForWrite(t) \/ LockForRead(t) \/ WriteBlock(t) \/ ReadBlock(t) \/ Advance(t)
         \/ Return(t)
  PROVE  FieldsOK(frame'[t]) /\ RetOK(ret')
<1>0. Ex1Inv /\ FieldsOK(Idle) /\ RetOK(NoReturn)
  BY IdleFields DEF FilesInv
<1>1. {"loop", "advance"} \subseteq Places /\ frame[t].op \in Ops \cup {"none"} /\ "copy" \in Ops
  BY DEF Places, FieldsOK, Ops
<1>2. ASSUME NEW mode, NEW todo \in Nat, Locks(t, mode, todo), frame[t].at = "inode"
      PROVE  FieldsOK(frame'[t]) /\ RetOK(ret')
  <2>1. /\ ret' = NoReturn /\ GoesTo(t, "loop", {"todo", "offset", "old"})
        /\ frame'[t].todo = todo /\ frame'[t].offset = Offset(t)
        /\ frame'[t].old = IF Astray THEN <<>> ELSE Contents(Inum(t))
    BY <1>0, <1>2, AccessEffects DEF Locks, Goto
  <2>2. Offset(t) \in FileOffsets /\ Inum(t) \in Inumbers /\ IsTaken(Inum(t))
    BY <1>2, AtFile DEF FilesInv, IsFile, IsTaken
  <2>3. frame'[t].old \in Seq(Chars)
    <3>1. <<>> \in Seq(Chars)
      OBVIOUS
    <3> QED
      BY <2>1, <2>2, <3>1, ContentsTyped
  <2>4. frame'[t].done = frame[t].done /\ frame'[t].len = frame[t].len
        /\ frame'[t].buffer = frame[t].buffer
    BY <2>1 DEF GoesTo, Fields
  <2>5. /\ frame'[t].todo \in Nat /\ frame'[t].done \in Nat /\ frame'[t].len \in Nat
        /\ frame'[t].offset \in FileOffsets /\ frame'[t].buffer \in Seq(Chars)
    BY <1>2, <2>1, <2>2, <2>4 DEF FieldsOK
  <2> QED
    BY <1>0, <1>1, <2>1, <2>3, <2>5, FieldsGo
<1>3. CASE LockForWrite(t)
  BY <1>2, <1>3, LocksFit
<1>4. CASE LockForRead(t)
  <2>1. CASE Returns(t, frame[t].op, -1)
    BY <1>1, <2>1, ReturnsTypes
  <2>2. CASE Locks(t, "readers", to_read(t))
    <3>1. frame[t].at = "inode"
      BY <1>4 DEF LockForRead, At
    <3>2. Offset(t) \in FileOffsets /\ Size(t) \in FileOffsets
      BY <3>1, AtFile DEF FilesInv
    <3>3. MAXIMUM_FILE_BYTES \in Nat /\ SIZE_MOD \in Nat /\ 2 * MAXIMUM_FILE_BYTES < SIZE_MOD
      BY MaximumIsNat, Ex1OpsAssumption
    <3>4. frame[t].len \in Nat
      BY DEF FieldsOK
    <3>5. to_read(t) \in Nat
      BY ONLY <3>2, <3>3, <3>4 DEF to_read, size_sub, FileOffsets
    <3> QED
      BY <1>2, <2>2, <3>1, <3>5
  <2> QED
    BY <1>4, <2>1, <2>2 DEF LockForRead
<1>5. CASE WriteBlock(t)
  <2>1. \/ UNCHANGED <<frame, ret>>
        \/ Goto(t, [frame[t] EXCEPT !.at = "advance"])
        \/ Returns(t, frame[t].op, -1)
    BY <1>5 DEF WriteBlock, BlockFails
  <2>2. CASE Goto(t, [frame[t] EXCEPT !.at = "advance"])
    BY <1>0, <1>1, <2>2, GotoPlace, FieldsStay DEF Goto
  <2> QED
    BY <1>1, <2>1, <2>2, ReturnsTypes
<1>6. CASE ReadBlock(t)
  <2>1. CASE Returns(t, frame[t].op, -1)
    BY <1>1, <2>1, ReturnsTypes
  <2>2. CASE GoesTo(t, "advance", {"buffer"}) /\ ret' = NoReturn
    <3>1. /\ frame'[t].todo = frame[t].todo /\ frame'[t].done = frame[t].done
          /\ frame'[t].offset = frame[t].offset /\ frame'[t].len = frame[t].len
          /\ frame'[t].old = frame[t].old
      BY <2>2 DEF GoesTo, Fields
    <3>2. frame'[t].buffer \in Seq(Chars)
      BY <1>6, <2>2, ReadBytes DEF GoesTo
    <3>3. /\ frame'[t].todo \in Nat /\ frame'[t].done \in Nat /\ frame'[t].len \in Nat
          /\ frame'[t].offset \in FileOffsets /\ frame'[t].old \in Seq(Chars)
      BY <3>1 DEF FieldsOK
    <3> QED
      BY <1>0, <1>1, <2>2, <3>2, <3>3, FieldsGo
  <2>3. \/ Returns(t, frame[t].op, -1)
        \/ ret' = NoReturn
    BY <1>6 DEF ReadBlock, BlockFails, Goto
  <2>4. GoesTo(t, "advance", {"buffer"}) \/ frame'[t] = Idle
    BY <1>0, <1>6, AccessEffects
  <2> QED
    BY <1>0, <2>1, <2>2, <2>3, <2>4
<1>7. CASE Advance(t)
  <2>1. /\ ret' = NoReturn /\ GoesTo(t, "loop", {"done"})
        /\ frame'[t].done = frame[t].done + Piece(t) /\ frame[t].at = "advance"
    BY <1>0, <1>7, AccessEffects DEF Advance, Goto
  <2>2. Piece(t) \in Nat
    BY <2>1, AdvanceFits
  <2>3. /\ frame'[t].todo = frame[t].todo /\ frame'[t].len = frame[t].len
        /\ frame'[t].offset = frame[t].offset
        /\ frame'[t].buffer = frame[t].buffer /\ frame'[t].old = frame[t].old
    BY <2>1 DEF GoesTo, Fields
  <2>4. /\ frame'[t].todo \in Nat /\ frame'[t].done \in Nat /\ frame'[t].len \in Nat
        /\ frame'[t].offset \in FileOffsets /\ frame'[t].buffer \in Seq(Chars)
        /\ frame'[t].old \in Seq(Chars)
    BY <2>1, <2>2, <2>3 DEF FieldsOK
  <2> QED
    BY <1>0, <1>1, <2>1, <2>4, FieldsGo
<1>8. CASE Return(t)
  <2>1. PICK op \in Ops \cup {"none"}, val \in Int : Returns(t, op, val)
    <3>1. frame[t].todo \in Int /\ 0 \in Int /\ -1 \in Int
      BY DEF FieldsOK
    <3> QED
      BY <1>1, <1>8, <3>1 DEF Return
  <2> QED
    BY <2>1, ReturnsTypes
<1> QED
  BY <1>3, <1>4, <1>5, <1>6, <1>7, <1>8

\* The frames are replaced one by one.
LEMMA FramesStep ==
  ASSUME frame = [u \in Threads |-> frame[u]], NEW t \in Threads, Step(t) \/ Call(t)
  PROVE  frame' = [u \in Threads |-> frame'[u]]
<1>1. ASSUME NEW g, frame' = [frame EXCEPT ![t] = g]
      PROVE  frame' = [u \in Threads |-> frame'[u]]
  BY <1>1
<1>2. CASE Step(t)
  BY <1>1, <1>2 DEF Step, LockExisting, Truncate, Position, Create, CreateFails, Add, LockHandle,
                    LockForWrite, LockForRead, Locks, WriteBlock, ReadBlock, BlockFails, Advance,
                    Return, CopyOpens, LooksUp, CopySize, Goto, Returns
<1>3. CASE Call(t)
  BY <1>1, <1>3 DEF Call, tfs_destroy, tfs_lookup, tfs_copy_to_external_fs, tfs_open, LooksUp,
                    tfs_close, tfs_write, tfs_read, Begins, Goto, Returns
<1> QED
  BY <1>2, <1>3

\* The flags are set, never anything else.
LEMMA FlagsStep ==
  ASSUME FlagsOK, NEW t \in Threads, Step(t) \/ Call(t)
  PROVE  FlagsOK'
<1>1. CASE Truncate(t)
  BY <1>1 DEF Truncate, FlagsOK
<1>2. CASE WriteBlock(t)
  BY <1>2 DEF WriteBlock, FlagsOK
<1>3. CASE ReadBlock(t)
  BY <1>3 DEF ReadBlock, FlagsOK
<1>4. CASE Call(t)
  BY <1>4 DEF Call, tfs_destroy, tfs_lookup, tfs_copy_to_external_fs, tfs_open, LooksUp, tfs_close,
              tfs_write, tfs_read, Begins, history, FlagsOK
<1>5. CASE ~Truncate(t) /\ ~WriteBlock(t) /\ ~ReadBlock(t) /\ Step(t)
  BY <1>5 DEF Step, LockExisting, Position, Create, CreateFails, Add, LockHandle, LockForWrite,
              LockForRead, Locks, Advance, Return, CopyOpens, LooksUp, CopySize, history, FlagsOK
<1> QED
  BY <1>1, <1>2, <1>3, <1>4, <1>5

\* Each step keeps the types.
LEMMA TypesStep ==
  ASSUME FilesInv, FilesInv', OwnInv, TypesInv, NEW t \in Threads, Step(t) \/ Call(t)
  PROVE  TypesInv'
<1>1. FieldsOK(frame[t]) /\ RetOK(ret) /\ FlagsOK
  BY DEF TypesInv, FieldsInv
<1>2. FieldsOK(frame'[t]) /\ RetOK(ret')
  BY <1>1, CallTypes, OpenTypes, HandleTypes, AccessTypes DEF Step
<1>3. ASSUME NEW u \in Threads
      PROVE  FieldsOK(frame[u])'
  <2>1. u # t => frame'[u] = frame[u]
    BY OthersStay DEF Others
  <2>2. FieldsOK(frame'[u])
    BY <1>2, <2>1 DEF TypesInv, FieldsInv
  <2> QED
    BY <2>2 DEF FieldsOK
<1>4. FlagsOK'
  BY <1>1, FlagsStep
<1>5. frame' = [u \in Threads |-> frame'[u]]
  BY FramesStep DEF TypesInv, FieldsInv
<1> QED
  BY <1>2, <1>3, <1>4, <1>5 DEF TypesInv, FieldsInv, RetOK

\* The tables and the frames of Ex1Ops are well typed in every reachable state:
\* no size, offset or block number leaves its range, also after a file was cut
\* under a handle or given another's block, and no call returns with a lock, a
\* handle or a buffer that is not there.
THEOREM Ex1TypeCorrect == Spec => []TypeOK
<1> DEFINE I == BlocksInv /\ TypesInv
<1>1. Init => I
  <2> SUFFICES ASSUME Init PROVE I
    OBVIOUS
  <2>1. frame = [t \in Threads |-> frame[t]] /\ \A t \in Threads : frame[t] = Idle
    BY DEF Init
  <2>2. RetOK(ret) /\ FlagsOK
    BY IdleFields DEF Init, FlagsOK
  <2> QED
    BY <2>1, <2>2, BlocksInit, IdleFields DEF TypesInv, FieldsInv
<1>2. I /\ [Next]_vars => I'
  <2> SUFFICES ASSUME BlocksInv, TypesInv, [Next]_vars PROVE BlocksInv' /\ TypesInv'
    OBVIOUS
  <2>1. BlocksInv'
    BY BlocksStep
  <2>2. CASE UNCHANGED vars
    BY <2>1, <2>2 DEF vars, history, TypesInv, FieldsInv, FieldsOK, RetOK, FlagsOK
  <2>3. ASSUME NEW t \in Threads, Step(t) \/ Call(t) PROVE TypesInv'
    BY <2>1, <2>3, TypesStep DEF BlocksInv
  <2> QED
    BY <2>1, <2>2, <2>3 DEF Next
<1>3. I => TypeOK
  <2> SUFFICES ASSUME FilesInv, TypesInv PROVE TypeOK
    BY DEF BlocksInv
  <2>1. Ex1StateTypeOK
    BY DEF FilesInv, Ex1Inv, DirectoryInv, HandlesInv, TablesOK, Ex1StateTypeOK, OpenEntry, FileOffsets
  <2>2. /\ lock_fhandle \in [Handles -> RwLock] /\ lock_inumber \in [Inumbers -> RwLock]
        /\ held \in SUBSET Handles
    BY DEF FilesInv, Ex1Inv, LocksInv, HandlesInv
  <2>3. frame \in [Threads -> Frame]
    <3>1. ASSUME NEW t \in Threads
          PROVE  frame[t] \in Frame
      <4>1. IsFrame(frame[t]) /\ FieldsOK(frame[t])
        BY DEF FilesInv, Ex1Inv, FrameOK, TypesInv, FieldsInv
      <4> QED
        BY <4>1, FrameIs
    <3>2. frame = [t \in Threads |-> frame[t]]
      BY DEF TypesInv, FieldsInv
    <3> QED
      BY <3>1, <3>2
  <2>4. ret \in [op : Ops \cup {"none"}, val : Int] /\ {wild, destroyed, undercut, wrapped} \subseteq BOOLEAN
    BY DEF TypesInv, RetOK, FlagsOK
  <2> QED
    BY <2>1, <2>2, <2>3, <2>4 DEF TypeOK
<1> HIDE DEF I
<1> QED
  BY <1>1, <1>2, <1>3, PTL DEF Spec

----------------------------------------------------------------------------
(* Files as sequences of bytes: what of the tables is shown to callers, and *)
(* what each step shows.                                                   *)

PendsOn(t, h) == Pending(t) /\ frame[t].h = h
PendsIn(t, i) == Pending(t) /\ Inum(t) = i

Further(size, end) == IF end > size THEN end ELSE size

\* A file has one writer between two steps of its loop, and so has a handle.
LEMMA OneWriter ==
  FilesInv => \A t, u \in Threads :
    /\ Pending(t) /\ Pending(u) /\ Inum(t) = Inum(u) => t = u
    /\ Pending(t) /\ Pending(u) /\ frame[t].h = frame[u].h => t = u
<1> SUFFICES ASSUME FilesInv, NEW t \in Threads, NEW u \in Threads, Pending(t), Pending(u)
             PROVE  /\ Inum(t) = Inum(u) => t = u
                    /\ frame[t].h = frame[u].h => t = u
  OBVIOUS
<1>1. frame[t].h = frame[u].h => Inum(t) = Inum(u)
  BY DEF Inum
<1>2. Inside(frame[t])
  BY DEF Pending, Inside
<1> QED
  BY <1>1, <1>2, WriterAlone

\* Where a handle is shown: past the piece of its writer, if it has one.
AtShown(h) ==
  /\ \A t \in Threads : PendsOn(t, h) => AbsAt(h) = open_file_table[h].of_offset + Piece(t)
  /\ (\A t \in Threads : ~PendsOn(t, h)) => AbsAt(h) = open_file_table[h].of_offset
  /\ Written(h) # {} <=> \E t \in Threads : PendsOn(t, h)

\* Every handle is shown there.
LEMMA AtIs == FilesInv => \A h \in Handles : AtShown(h)
<1> SUFFICES ASSUME FilesInv, NEW h \in Handles PROVE AtShown(h)
  OBVIOUS
<1> DEFINE writers == {u \in Threads : frame[u].h = h /\ frame[u].at = "advance" /\ Writing(u)}
<1>1. writers = {u \in Threads : PendsOn(u, h)}
  BY DEF PendsOn, Pending
<1>2. Written(h) = {Piece(t) : t \in writers}
  BY DEF Written
<1> HIDE DEF writers
<1>3. open_file_table[h].of_offset \in Nat
  BY DEF FilesInv, TablesOK, FileOffsets
<1>4. ASSUME NEW t \in Threads, PendsOn(t, h)
      PROVE  AbsAt(h) = open_file_table[h].of_offset + Piece(t) /\ Written(h) # {}
  <2>1. writers = {t}
    BY <1>1, <1>4, OneWriter DEF PendsOn
  <2>2. Written(h) = {Piece(t)}
    BY <1>2, <2>1
  <2> QED
    BY <2>2 DEF AbsAt
<1>5. ASSUME \A t \in Threads : ~PendsOn(t, h)
      PROVE  AbsAt(h) = open_file_table[h].of_offset /\ Written(h) = {}
  <2>1. Written(h) = {}
    BY <1>1, <1>2, <1>5
  <2> QED
    BY <1>3, <2>1 DEF AbsAt
<1> QED
  BY <1>4, <1>5 DEF AtShown

\* How long a file is shown.
SizeShown(i) ==
  /\ \A t \in Threads : PendsIn(t, i) =>
       AbsSize(i) = Further(inode_table[i].i_size, Offset(t) + Piece(t))
  /\ (\A t \in Threads : ~PendsIn(t, i)) => AbsSize(i) = inode_table[i].i_size
  /\ AbsSize(i) \in FileOffsets /\ AbsSize(i) >= inode_table[i].i_size

\* Every file is shown with that size.
LEMMA SizeIs == FilesInv => \A i \in Inumbers : SizeShown(i)
<1> SUFFICES ASSUME FilesInv, NEW i \in Inumbers PROVE SizeShown(i)
  OBVIOUS
<1> DEFINE handles == {g \in Handles : open_file_table[g].of_inumber = i /\ Written(g) # {}}
           ends == {AbsAt(h) : h \in handles}
           end == IF ends = {} THEN 0 ELSE CHOOSE n \in ends : TRUE
<1>1. AbsSize(i) = Further(inode_table[i].i_size, end)
  BY DEF AbsSize, Further
<1>2. PICK n \in Nat : n = inode_table[i].i_size /\ n <= MAXIMUM_FILE_BYTES /\ n \in FileOffsets
  BY NeedsAre, Numbers DEF FileOffsets
<1>3. ASSUME NEW t \in Threads, PendsIn(t, i)
      PROVE  end = Offset(t) + Piece(t)
  <2>1. frame[t].h \in Handles /\ PendsOn(t, frame[t].h)
    BY <1>3, PendingPlace DEF PendsIn, PendsOn
  <2>2. AbsAt(frame[t].h) = Offset(t) + Piece(t) /\ frame[t].h \in handles
    BY <1>3, <2>1, AtIs DEF AtShown, PendsIn, Inum, Offset
  <2>3. ASSUME NEW g \in handles
        PROVE  g = frame[t].h
    <3>1. PICK u \in Threads : PendsOn(u, g)
      BY AtIs DEF AtShown
    <3>2. Inum(u) = i /\ Pending(u) /\ frame[u].h = g
      BY <3>1 DEF PendsOn, Inum
    <3> QED
      BY <1>3, <3>2, OneWriter DEF PendsIn
  <2>4. handles = {frame[t].h}
    BY <2>2, <2>3
  <2> HIDE DEF handles
  <2>5. ends = {Offset(t) + Piece(t)}
    BY <2>2, <2>4
  <2> HIDE DEF ends
  <2> QED
    BY <2>5
<1>4. ASSUME \A t \in Threads : ~PendsIn(t, i)
      PROVE  end = 0
  <2>1. ASSUME NEW g \in handles
        PROVE  FALSE
    <3>1. PICK u \in Threads : PendsOn(u, g)
      BY AtIs DEF AtShown
    <3>2. PendsIn(u, i)
      BY <3>1 DEF PendsOn, PendsIn, Inum
    <3> QED
      BY <1>4, <3>2
  <2>2. handles = {}
    BY <2>1
  <2> HIDE DEF handles
  <2> QED
    BY <2>2
<1> HIDE DEF end, ends, handles
<1>5. ASSUME NEW t \in Threads, PendsIn(t, i)
      PROVE  Offset(t) + Piece(t) \in FileOffsets
  BY <1>5, AdvanceFits DEF PendsIn, Pending
<1>6. CASE \E t \in Threads : PendsIn(t, i)
  <2>1. PICK t \in Threads : PendsIn(t, i)
    BY <1>6
  <2>2. AbsSize(i) \in FileOffsets /\ AbsSize(i) >= n
    BY <1>1, <1>2, <1>3, <1>5, <2>1 DEF Further, FileOffsets
  <2> QED
    BY <1>1, <1>2, <1>3, <1>6, <2>1, <2>2 DEF SizeShown
<1>7. CASE \A t \in Threads : ~PendsIn(t, i)
  <2>1. AbsSize(i) = n
    BY <1>1, <1>2, <1>4, <1>7 DEF Further
  <2> QED
    BY <1>2, <1>7, <2>1 DEF SizeShown
<1> QED
  BY <1>6, <1>7

\* The bytes of a file that are shown.
ContentsShown(i) == AbsContents(i) = [k \in 1 .. AbsSize(i) |-> Byte(i, k)]

\* Every file is shown with these bytes.
LEMMA BytesShown == FilesInv => \A i \in Inumbers : ContentsShown(i)
<1> SUFFICES ASSUME FilesInv, NEW i \in Inumbers PROVE ContentsShown(i)
  OBVIOUS
<1>1. PICK n \in Nat : n = AbsSize(i) /\ n <= MAXIMUM_FILE_BYTES
  BY SizeIs, Numbers DEF SizeShown, FileOffsets
<1>2. ASSUME NEW k \in 1 .. n
      PROVE  fs_data[get_inode_block(Disk(i), (k - 1) \div BLOCK_SIZE)][(k - 1) % BLOCK_SIZE]
               = Byte(i, k)
  <2>1. k - 1 \in FileOffsets /\ k - 1 < MAXIMUM_FILE_BYTES
    BY <1>1, Numbers DEF FileOffsets
  <2>2. (k - 1) \div BLOCK_SIZE \in BlockRange
    BY <2>1, BlockOfByte
  <2>3. (k - 1) \div BLOCK_SIZE # -1
    BY <2>1, BlockOfByte
  <2> QED
    BY <2>2, <2>3, Slots, BlockSlots DEF Byte
<1> QED
  BY <1>1, <1>2 DEF AbsContents, ContentsShown

\* After a step.
LEMMA ShownNext ==
  FilesInv' => /\ \A h \in Handles : AtShown(h)'
               /\ \A i \in Inumbers : SizeShown(i)' /\ ContentsShown(i)'
<1>1. (FilesInv => \A h \in Handles : AtShown(h))'
  BY AtIs, PTL
<1>2. (FilesInv => \A i \in Inumbers : SizeShown(i))'
  BY SizeIs, PTL
<1>3. (FilesInv => \A i \in Inumbers : ContentsShown(i))'
  BY BytesShown, PTL
<1> QED
  BY <1>1, <1>2, <1>3

\* What the others' calls show stays as it is.
LEMMA OthersShown ==
  ASSUME FilesInv, NEW t \in Threads, Step(t) \/ Call(t), NEW u \in Threads, u # t
  PROVE  /\ Pending(u)' <=> Pending(u)
         /\ Pending(u) => /\ frame'[u].h = frame[u].h /\ Inum(u)' = Inum(u)
                          /\ Offset(u)' = Offset(u) /\ Piece(u)' = Piece(u)
<1>1. frame'[u] = frame[u]
  BY OthersStay DEF Others
<1>2. Pending(u) => open_file_table'[frame[u].h] = open_file_table[frame[u].h]
  BY OthersKeepOffset DEF FilesInv, Pending, Inside
<1> QED
  BY <1>1, <1>2 DEF Pending, Writing, Inum, Offset, Piece

\* What the step shows of the handles and files its thread has no piece in.
LEMMA ApartShown ==
  ASSUME FilesInv, FilesInv', NEW t \in Threads, Step(t) \/ Call(t)
  PROVE  /\ \A h \in Handles :
              /\ open_file_table'[h].of_offset = open_file_table[h].of_offset
              /\ ~PendsOn(t, h) /\ ~PendsOn(t, h)'
              => AbsAt(h)' = AbsAt(h)
         /\ \A i \in Inumbers :
              /\ inode_table'[i].i_size = inode_table[i].i_size
              /\ ~PendsIn(t, i) /\ ~PendsIn(t, i)'
              => AbsSize(i)' = AbsSize(i)
<1>1. \A u \in Threads : u # t =>
        /\ Pending(u)' <=> Pending(u)
        /\ Pending(u) => /\ frame'[u].h = frame[u].h /\ Inum(u)' = Inum(u)
                         /\ Offset(u)' = Offset(u) /\ Piece(u)' = Piece(u)
  BY OthersShown
<1>2. ASSUME NEW h \in Handles, open_file_table'[h].of_offset = open_file_table[h].of_offset,
             ~PendsOn(t, h), ~PendsOn(t, h)'
      PROVE  AbsAt(h)' = AbsAt(h)
  <2>1. AtShown(h) /\ AtShown(h)'
    BY AtIs, ShownNext
  <2>2. \A u \in Threads : PendsOn(u, h)' <=> PendsOn(u, h)
    BY <1>1, <1>2 DEF PendsOn
  <2>3. CASE \E u \in Threads : PendsOn(u, h)
    <3>1. PICK u \in Threads : PendsOn(u, h) /\ u # t
      BY <1>2, <2>3
    <3> QED
      BY <1>1, <1>2, <2>1, <2>2, <3>1 DEF AtShown, PendsOn
  <2>4. CASE \A u \in Threads : ~PendsOn(u, h)
    BY <1>2, <2>1, <2>2, <2>4 DEF AtShown
  <2> QED
    BY <2>3, <2>4
<1>3. ASSUME NEW i \in Inumbers, inode_table'[i].i_size = inode_table[i].i_size,
             ~PendsIn(t, i), ~PendsIn(t, i)'
      PROVE  AbsSize(i)' = AbsSize(i)
  <2>1. SizeShown(i) /\ SizeShown(i)'
    BY SizeIs, ShownNext
  <2>2. \A u \in Threads : PendsIn(u, i)' <=> PendsIn(u, i)
    BY <1>1, <1>3 DEF PendsIn
  <2>3. CASE \E u \in Threads : PendsIn(u, i)
    <3>1. PICK u \in Threads : PendsIn(u, i) /\ u # t
      BY <1>3, <2>3
    <3> QED
      BY <1>1, <1>3, <2>1, <2>2, <3>1 DEF SizeShown, PendsIn
  <2>4. CASE \A u \in Threads : ~PendsIn(u, i)
    BY <1>3, <2>1, <2>2, <2>4 DEF SizeShown
  <2> QED
    BY <2>3, <2>4
<1> QED
  BY <1>2, <1>3

\* A thread that has no piece has none in any.
LEMMA QuietShown ==
  ASSUME FilesInv, FilesInv', NEW t \in Threads, Step(t) \/ Call(t), ~Pending(t), ~Pending(t)'
  PROVE  /\ \A h \in Handles : open_file_table'[h].of_offset = open_file_table[h].of_offset =>
              AbsAt(h)' = AbsAt(h)
         /\ \A i \in Inumbers : inode_table'[i].i_size = inode_table[i].i_size =>
              AbsSize(i)' = AbsSize(i)
BY ApartShown DEF PendsOn, PendsIn

\* A file looks the same if its size and its bytes do.
LEMMA SameBytes ==
  ASSUME FilesInv, FilesInv', NEW j \in Inumbers, AbsSize(j)' = AbsSize(j),
         \A k \in FileBytes : k <= AbsSize(j) => Byte(j, k)' = Byte(j, k)
  PROVE  AbsContents(j)' = AbsContents(j)
<1>1. ContentsShown(j) /\ ContentsShown(j)'
  BY BytesShown, ShownNext
<1>2. PICK n \in Nat : n = AbsSize(j) /\ n <= MAXIMUM_FILE_BYTES
  BY SizeIs, Numbers DEF SizeShown, FileOffsets
<1>3. AbsContents(j) = [k \in 1 .. n |-> Byte(j, k)] /\ AbsContents(j)' = [k \in 1 .. n |-> Byte(j, k)']
  BY <1>1, <1>2 DEF ContentsShown
<1>4. \A k \in 1 .. n : k \in FileBytes
  BY <1>2, Numbers DEF FileBytes
<1> QED
  BY <1>2, <1>3, <1>4

\* The files look the same if each does.
LEMMA SameFiles ==
  ASSUME ~Astray, ~Astray', freeinode_ts' = freeinode_ts,
         \A i \in AbsFiles : AbsContents(i)' = AbsContents(i)
  PROVE  ShownFiles' = ShownFiles
<1>1. AbsFiles' = AbsFiles
  BY DEF AbsFiles, IsTaken
<1> QED
  BY <1>1 DEF ShownFiles

\* The handles look the same if each has its file and its place.
LEMMA SameHandles ==
  ASSUME ~Astray, ~Astray', free_open_file_entries' = free_open_file_entries,
         \A h \in Handles : Open(h) =>
           /\ open_file_table'[h].of_inumber = open_file_table[h].of_inumber
           /\ AbsAt(h)' = AbsAt(h)
  PROVE  ShownHandles' = ShownHandles
<1>1. {g \in Handles : Open(g)}' = {g \in Handles : Open(g)}
  BY DEF Open
<1> QED
  BY <1>1 DEF ShownHandles

\* A step that moves past no piece, and leaves none to move past, shows the files
\* as they were unless it changes a size or a byte.
LEMMA FilesLookSame ==
  ASSUME FilesInv, FilesInv', ~Astray, ~Astray', NEW t \in Threads, Step(t) \/ Call(t),
         ~Pending(t), ~Pending(t)', freeinode_ts' = freeinode_ts,
         \A i \in AbsFiles : inode_table'[i].i_size = inode_table[i].i_size,
         \A i \in AbsFiles, k \in FileBytes : k <= AbsSize(i) => Byte(i, k)' = Byte(i, k)
  PROVE  ShownFiles' = ShownFiles
<1>1. ASSUME NEW j \in AbsFiles
      PROVE  AbsContents(j)' = AbsContents(j)
  <2>1. j \in Inumbers
    BY DEF AbsFiles
  <2>2. AbsSize(j)' = AbsSize(j)
    BY <2>1, QuietShown
  <2> QED
    BY <2>1, <2>2, SameBytes
<1> QED
  BY <1>1, SameFiles

\* It shows the handles as they were, if it is no advance and opens and closes none.
LEMMA HandlesLookSame ==
  ASSUME FilesInv, FilesInv', ~Astray, ~Astray', NEW t \in Threads, Step(t) \/ Call(t),
         ~Pending(t), ~Pending(t)', ~Advance(t),
         free_open_file_entries' = free_open_file_entries
  PROVE  ShownHandles' = ShownHandles
<1>1. ASSUME NEW h \in Handles, Open(h)
      PROVE  open_file_table'[h] = open_file_table[h] /\ AbsAt(h)' = AbsAt(h)
  <2>1. open_file_table'[h] = open_file_table[h]
    BY <1>1, EntriesMove DEF FilesInv
  <2> QED
    BY <2>1, QuietShown
<1> QED
  BY <1>1, SameHandles

----------------------------------------------------------------------------
(* What each step of a call shows.                                         *)

\* What a step may change of what is shown.
LEMMA PendingSteps ==
  ASSUME FilesInv, NEW t \in Threads, Step(t) \/ Call(t)
  PROVE  /\ frame[t].at = "advance" => Advance(t)
         /\ Pending(t)' => WriteBlock(t)
         /\ freeinode_ts' = freeinode_ts \/ Create(t)
         /\ \/ free_open_file_entries' = free_open_file_entries
            \/ Add(t) \/ \E h : tfs_close(t, h)
<1>1. frame[t].at = "advance" => Advance(t)
  BY DEF Step, Call, LockExisting, Truncate, Position, Create, CreateFails, Add, LockHandle,
     LockForWrite, LockForRead, WriteBlock, ReadBlock, InLoop, Return, CopyOpens, CopySize,
     tfs_destroy, tfs_lookup, tfs_copy_to_external_fs, tfs_open, tfs_close, tfs_write, tfs_read,
     Begins, At
<1>2. Pending(t)' => WriteBlock(t)
  <2> SUFFICES ASSUME frame'[t].at = "advance", frame'[t].op = "write", ReadBlock(t),
                      GoesTo(t, "advance", {"buffer"})
               PROVE  FALSE
    BY BecomesPending DEF Pending, Writing
  <2>1. frame'[t].op = frame[t].op
    BY DEF GoesTo, Fields
  <2> QED
    BY <2>1 DEF ReadBlock, Writing
<1>3. freeinode_ts' = freeinode_ts \/ Create(t)
  BY DEF Step, Call, LockExisting, Truncate, Position, CreateFails, Add, LockHandle, LockForWrite,
     LockForRead, Locks, WriteBlock, ReadBlock, Advance, Return, CopyOpens, LooksUp, CopySize,
     tfs_destroy, tfs_lookup, tfs_copy_to_external_fs, tfs_open, tfs_close, tfs_write, tfs_read,
     Begins, state_vars, inode_vars
<1>4. free_open_file_entries' = free_open_file_entries \/ Add(t) \/ \E h : tfs_close(t, h)
  <2>1. CASE Call(t)
    BY <2>1 DEF Call, tfs_destroy, tfs_lookup, tfs_copy_to_external_fs, tfs_open, LooksUp, tfs_write,
       tfs_read, Begins, state_vars, open_vars
  <2>2. CASE Step(t)
    BY <2>2 DEF Step, LockExisting, Truncate, Position, Create, CreateFails, LockHandle,
       LockForWrite, LockForRead, Locks, WriteBlock, ReadBlock, Advance, Return, CopyOpens, LooksUp,
       CopySize, state_vars, open_vars
  <2> QED
    BY <2>1, <2>2
<1> QED
  BY <1>1, <1>2, <1>3, <1>4

\* The files that are shown are files, and their bytes are in range.
LEMMA ShownRange ==
  ASSUME FilesInv, NEW i \in AbsFiles
  PROVE  /\ i \in Inumbers /\ IsTaken(i) /\ IsFile(i)
         /\ AbsSize(i) \in FileOffsets
         /\ \A k \in FileBytes : k \in Nat \ {0} /\ k <= MAXIMUM_FILE_BYTES
BY SizeIs, Numbers DEF AbsFiles, IsTaken, IsFile, SizeShown, FileBytes

\* All other steps show nothing.
LEMMA OthersStutter ==
  ASSUME FilesInv, FilesInv', ~Astray', NEW t \in Threads, Step(t) \/ Call(t), ~WriteBlock(t),
         ~Advance(t)
  PROVE  /\ freeinode_ts' = freeinode_ts /\ (\A i \in AbsFiles :
              inode_table'[i].i_size = inode_table[i].i_size) => ShownFiles' = ShownFiles
         /\ free_open_file_entries' = free_open_file_entries => ShownHandles' = ShownHandles
<1>1. ~Pending(t) /\ ~Pending(t)' /\ ~Astray
  BY PendingSteps, NotAstray DEF Pending
<1>2. \A i \in AbsFiles, k \in FileBytes : Byte(i, k)' = Byte(i, k)
  BY BytesKept DEF AbsFiles
<1> QED
  BY <1>1, <1>2, FilesLookSame, HandlesLookSame

\* All but these four show the files as they were.
LEMMA QuietSteps ==
  ASSUME FilesInv, FilesInv', ~Astray', NEW t \in Threads, Step(t) \/ Call(t),
         ~Truncate(t), ~Create(t), ~WriteBlock(t), ~Advance(t)
  PROVE  ShownFiles' = ShownFiles
<1>1. ASSUME NEW i \in AbsFiles
      PROVE  inode_table'[i].i_size = inode_table[i].i_size
  BY SizesMove DEF AbsFiles, IsTaken
<1> QED
  BY <1>1, PendingSteps, OthersStutter

\* When no handle is left, none is taken.
LEMMA TakesNone ==
  ASSUME FilesInv, First(FreeIn(free_open_file_entries)) = -1
  PROVE  TakeFirst(free_open_file_entries) = free_open_file_entries
<1>1. free_open_file_entries \in [Handles -> AllocState]
  BY DEF FilesInv, Ex1Inv, HandlesInv
<1>2. \A h \in Handles : h # First(FreeIn(free_open_file_entries))
  BY DEF Handles
<1>3. /\ TakeFirst(free_open_file_entries) \in [Handles -> AllocState]
      /\ \A h \in Handles : TakeFirst(free_open_file_entries)[h] =
           IF h = First(FreeIn(free_open_file_entries)) THEN "TAKEN" ELSE free_open_file_entries[h]
  BY <1>1, TakeFirstAt
<1> QED
  BY <1>1, <1>2, <1>3

\* What is shown of a file.
LEMMA FileIsShown ==
  ASSUME FilesInv, ~Astray
  PROVE  /\ DOMAIN ShownFiles = AbsFiles
         /\ \A i \in AbsFiles : ShownFiles[i] = AbsContents(i) /\ Len(ShownFiles[i]) = AbsSize(i)
<1>1. DOMAIN ShownFiles = AbsFiles /\ \A i \in AbsFiles : ShownFiles[i] = AbsContents(i)
  BY DEF ShownFiles
<1>2. ASSUME NEW i \in AbsFiles
      PROVE  Len(AbsContents(i)) = AbsSize(i)
  <2>1. PICK n \in Nat : n = AbsSize(i)
    BY ShownRange DEF FileOffsets
  <2>2. PICK s : s = [k \in 1 .. n |-> Byte(i, k)] /\ s = AbsContents(i)
    BY <2>1, ShownRange, BytesShown DEF ContentsShown
  <2>3. Len(s) = n
    BY ONLY <2>1, <2>2, LenProperties, SeqDef
  <2> QED
    BY <2>1, <2>2, <2>3
<1> QED
  BY <1>1, <1>2

\* What is shown of a handle.
LEMMA HandleIsShown ==
  ASSUME ~Astray
  PROVE  /\ DOMAIN ShownHandles = {g \in Handles : Open(g)}
         /\ \A h \in Handles : Open(h) =>
              ShownHandles[h] = [file |-> open_file_table[h].of_inumber, at |-> AbsAt(h)]
BY DEF ShownHandles

\* tfs_close takes one handle away.
LEMMA CloseShows ==
  ASSUME FilesInv, FilesInv', ~Astray', NEW t \in Threads, Step(t) \/ Call(t), NEW h, tfs_close(t, h)
  PROVE  \/ h \in Handles /\ Abs!Close(h)
         \/ UNCHANGED <<ShownFiles, ShownHandles>>
<1>1. ~Truncate(t) /\ ~Create(t) /\ ~WriteBlock(t) /\ ~Advance(t)
  BY DEF tfs_close, Truncate, Create, WriteBlock, InLoop, Advance, At
<1>2. ShownFiles' = ShownFiles
  BY <1>1, QuietSteps
<1>3. CASE free_open_file_entries' = free_open_file_entries
  BY <1>1, <1>2, <1>3, OthersStutter
<1>4. CASE h \in held /\ free_open_file_entries' = Release(free_open_file_entries, h)
  <2>0. ~Pending(t) /\ ~Pending(t)' /\ ~Astray
    BY <1>1, PendingSteps, NotAstray DEF Pending
  <2>1. h \in Handles /\ Open(h) /\ free_open_file_entries \in [Handles -> AllocState]
    BY <1>4 DEF FilesInv, Ex1Inv, HandlesInv
  <2>2. {g \in Handles : Open(g)}' = {g \in Handles : Open(g)} \ {h}
    BY <1>4, <2>1 DEF Release, Open
  <2>3. ASSUME NEW g \in Handles, Open(g)
        PROVE  open_file_table'[g].of_inumber = open_file_table[g].of_inumber /\ AbsAt(g)' = AbsAt(g)
    <3>1. open_file_table' = open_file_table
      BY DEF tfs_close
    <3> QED
      BY <2>0, <3>1, QuietShown
  <2>4. ShownHandles' = [g \in {g \in Handles : Open(g)} \ {h} |->
                           [file |-> open_file_table[g].of_inumber, at |-> AbsAt(g)]]
    BY <2>0, <2>2, <2>3 DEF ShownHandles
  <2>5. ShownHandles' = [g \in DOMAIN ShownHandles \ {h} |-> ShownHandles[g]]
    BY <2>0, <2>4, HandleIsShown
  <2>6. h \in DOMAIN ShownHandles
    BY <2>0, <2>1, HandleIsShown
  <2>7. Promised' = Promised
    BY <2>0 DEF Promised
  <2> QED
    BY <1>2, <2>1, <2>5, <2>6, <2>7 DEF Abs!Close, Abs!Without
<1> QED
  BY <1>3, <1>4 DEF tfs_close

\* The last step of a tfs_open that succeeds adds a handle.
LEMMA AddShows ==
  ASSUME FilesInv, FilesInv', InsideInv, ~Astray', NEW t \in Threads, Step(t), Add(t)
  PROVE  \/ \E h \in Handles, i \in Inumbers : Abs!Open(h, i)
         \/ UNCHANGED <<ShownFiles, ShownHandles>>
<1>1. ~Truncate(t) /\ ~Create(t) /\ ~WriteBlock(t) /\ ~Advance(t)
  BY DEF Add, Truncate, Create, WriteBlock, InLoop, Advance, At
<1>2. ShownFiles' = ShownFiles
  BY <1>1, QuietSteps
<1>3. ~Pending(t) /\ ~Pending(t)' /\ ~Astray
  BY <1>1, PendingSteps, NotAstray DEF Pending
<1>4. PICK h : h = First(FreeIn(free_open_file_entries))
  OBVIOUS
<1>5. free_open_file_entries' = TakeFirst(free_open_file_entries)
  BY DEF Add
<1>6. CASE h = -1
  <2>1. free_open_file_entries' = free_open_file_entries
    BY <1>4, <1>5, <1>6, TakesNone
  <2> QED
    BY <1>1, <1>2, <2>1, OthersStutter
<1>7. CASE h # -1
  <2>1. free_open_file_entries \in [Handles -> AllocState]
    BY DEF FilesInv, Ex1Inv, HandlesInv
  <2>2. /\ h \in Handles /\ ~Open(h)
        /\ \A g \in Handles : free_open_file_entries'[g] =
             IF g = h THEN "TAKEN" ELSE free_open_file_entries[g]
    BY <1>4, <1>5, <1>7, <2>1, TakeFirstAt DEF Open
  <2>3. {g \in Handles : Open(g)}' = {g \in Handles : Open(g)} \cup {h}
    BY <2>2 DEF Open
  <2>4. PICK i, at : i = frame[t].inum /\ at = frame[t].offset
    OBVIOUS
  <2>5. /\ i \in AbsFiles /\ at \in FileOffsets /\ at <= inode_table[i].i_size
        /\ open_file_table'[h] = [of_inumber |-> i, of_offset |-> at]
    <3>1. frame[t].at = "add"
      BY DEF Add, At
    <3>2. IsFile(i)
      BY <2>4, <3>1 DEF FilesInv, Ex1Inv, FrameOK
    <3>3. at \in FileOffsets
      BY <2>4, <3>1 DEF FilesInv, CallsOK, CallOK
    <3>4. at <= inode_table[i].i_size
      BY <1>3, <2>4, <3>1 DEF InsideInv, Astray
    <3>5. open_file_table'[h] = [of_inumber |-> i, of_offset |-> at]
      BY <1>4, <2>2, <2>4 DEF Add
    <3> QED
      BY <3>2, <3>3, <3>4, <3>5 DEF AbsFiles, IsFile, IsTaken
  <2>6. AbsAt(h)' = at
    <3>2. AtShown(h)'
      BY <2>2, ShownNext
    <3>3. ASSUME NEW u \in Threads
          PROVE  ~PendsOn(u, h)'
      <4>1. Pending(u) => Open(frame[u].h)
        BY PendingPlace
      <4>2. Pending(u)' => Pending(u) /\ frame'[u].h = frame[u].h
        BY <1>3, OthersShown
      <4> QED
        BY <2>2, <4>1, <4>2 DEF PendsOn
    <3> QED
      BY <2>5, <3>2, <3>3 DEF AtShown
  <2>7. ASSUME NEW g \in Handles, Open(g)
        PROVE  open_file_table'[g].of_inumber = open_file_table[g].of_inumber /\ AbsAt(g)' = AbsAt(g)
    <3>1. open_file_table'[g] = open_file_table[g]
      BY <1>1, <2>7, EntriesMove DEF FilesInv
    <3> QED
      BY <1>3, <3>1, QuietShown
  <2> DEFINE shown == [file |-> i, at |-> at]
  <2>8. ShownHandles' = [g \in {g \in Handles : Open(g)} \cup {h} |->
                           IF g = h THEN shown ELSE ShownHandles[g]]
    <3>1. ShownHandles' = [g \in {g \in Handles : Open(g)} \cup {h} |->
                             [file |-> open_file_table'[g].of_inumber, at |-> AbsAt(g)']]
      BY <2>3 DEF ShownHandles
    <3>2. ASSUME NEW g \in {g \in Handles : Open(g)} \cup {h}
          PROVE  [file |-> open_file_table'[g].of_inumber, at |-> AbsAt(g)']
                   = IF g = h THEN shown ELSE ShownHandles[g]
      BY <1>3, <2>2, <2>5, <2>6, <2>7, HandleIsShown
    <3> QED
      BY <3>1, <3>2
  <2> HIDE DEF shown
  <2>9. ShownHandles' = [g \in DOMAIN ShownHandles \cup {h} |->
                           IF g = h THEN shown ELSE ShownHandles[g]]
    BY <1>3, <2>8, HandleIsShown
  <2>10. h \notin DOMAIN ShownHandles /\ i \in DOMAIN ShownFiles /\ i \in Inumbers
    BY <1>3, <2>2, <2>5, HandleIsShown, FileIsShown DEF AbsFiles
  <2>11. at \in 0 .. Len(ShownFiles[i])
    <3>1. PICK n \in Nat : n = Len(ShownFiles[i]) /\ n >= inode_table[i].i_size
      BY <1>3, <2>5, ShownRange, FileIsShown, SizeIs DEF SizeShown, FileOffsets
    <3>2. inode_table[i].i_size \in FileOffsets
      BY <2>10, NeedsAre
    <3> QED
      BY <2>5, <3>1, <3>2 DEF FileOffsets
  <2>12. Promised' = Promised
    BY <1>3 DEF Promised
  <2>13. Abs!Open(h, i)
    BY <1>2, <2>9, <2>10, <2>11, <2>12 DEF Abs!Open, Abs!With, shown
  <2> QED
    BY <2>2, <2>10, <2>13
<1> QED
  BY <1>6, <1>7

\* A creation adds an empty file.
LEMMA CreateShows ==
  ASSUME FilesInv, FilesInv', ~Astray', NEW t \in Threads, Step(t), Create(t)
  PROVE  \E i \in Inumbers : Abs!Create(i)
<1>1. /\ ~Truncate(t) /\ ~WriteBlock(t) /\ ~Advance(t) /\ ~Add(t)
      /\ free_open_file_entries' = free_open_file_entries
  BY DEF Create, Add, Truncate, WriteBlock, InLoop, Advance, At, open_vars
<1>2. ~Pending(t) /\ ~Pending(t)' /\ ~Astray
  BY <1>1, PendingSteps, NotAstray DEF Pending
<1>3. ShownHandles' = ShownHandles
  BY <1>1, OthersStutter
<1>4. PICK i : i = inode_create /\ i # -1 /\ freeinode_ts' = TakeFirst(freeinode_ts)
               /\ inode_table' = Created(i)
  BY DEF Create
<1>5. freeinode_ts \in [Inumbers -> AllocState] /\ freeinode_ts[ROOT_DIR_INUM] = "TAKEN"
  BY DEF FilesInv, Ex1Inv, DirectoryInv
<1>6. /\ i \in Inumbers /\ freeinode_ts[i] = "FREE" /\ i # ROOT_DIR_INUM
      /\ \A j \in Inumbers : freeinode_ts'[j] = IF j = i THEN "TAKEN" ELSE freeinode_ts[j]
  BY <1>4, <1>5, TakeFirstAt DEF inode_create
<1>7. AbsFiles' = AbsFiles \cup {i} /\ i \notin AbsFiles
  BY <1>6 DEF AbsFiles, IsTaken
<1>8. \A j \in Inumbers : inode_table'[j].i_size = IF j = i THEN 0 ELSE inode_table[j].i_size
  BY <1>4, <1>6, CreatedTable DEF FilesInv, TablesOK
<1>9. ASSUME NEW j \in AbsFiles
      PROVE  AbsContents(j)' = AbsContents(j)
  <2>1. j \in Inumbers /\ j # i
    BY <1>7 DEF AbsFiles
  <2>2. AbsSize(j)' = AbsSize(j)
    BY <1>2, <1>8, <2>1, QuietShown
  <2>3. \A k \in FileBytes : Byte(j, k)' = Byte(j, k)
    BY <1>1, <2>1, BytesKept
  <2> QED
    BY <2>1, <2>2, <2>3, SameBytes
<1>10. AbsContents(i)' = <<>>
  <2>1. SizeShown(i)' /\ ContentsShown(i)'
    BY <1>6, ShownNext
  <2>2. ASSUME NEW u \in Threads
        PROVE  ~PendsIn(u, i)'
    <3>1. Pending(u)' => Pending(u) /\ Inum(u)' = Inum(u)
      BY <1>2, OthersShown
    <3>2. Pending(u) => freeinode_ts[Inum(u)] = "TAKEN"
      BY PendingPlace DEF IsFile
    <3> QED
      BY <1>6, <3>1, <3>2 DEF PendsIn
  <2>3. AbsSize(i)' = 0
    BY <1>6, <1>8, <2>1, <2>2 DEF SizeShown
  <2>4. AbsContents(i)' = [k \in 1 .. 0 |-> Byte(i, k)']
    BY <2>1, <2>3 DEF ContentsShown
  <2> QED
    BY <2>4
<1>11. ShownFiles' = [j \in AbsFiles \cup {i} |-> IF j = i THEN <<>> ELSE ShownFiles[j]]
  <2>1. ShownFiles' = [j \in AbsFiles \cup {i} |-> AbsContents(j)']
    BY <1>7 DEF ShownFiles
  <2>2. \A j \in AbsFiles \cup {i} : AbsContents(j)' = IF j = i THEN <<>> ELSE ShownFiles[j]
    BY <1>2, <1>7, <1>9, <1>10, FileIsShown
  <2> QED
    BY <2>1, <2>2
<1>12. ShownFiles' = [j \in DOMAIN ShownFiles \cup {i} |-> IF j = i THEN <<>> ELSE ShownFiles[j]]
  BY <1>2, <1>11, FileIsShown
<1>13. i \notin DOMAIN ShownFiles /\ Promised' = Promised
  BY <1>2, <1>7, FileIsShown DEF Promised
<1>14. Abs!Create(i)
  BY <1>3, <1>12, <1>13 DEF Abs!Create, Abs!With
<1> QED
  BY <1>6, <1>14

\* A truncation empties a file whose handles are all at its start.
LEMMA TruncateShows ==
  ASSUME FilesInv, FilesInv', InsideInv, ~Astray', NEW t \in Threads, Step(t), Truncate(t)
  PROVE  \/ \E i \in Inumbers : Abs!Truncate(i)
         \/ UNCHANGED <<ShownFiles, ShownHandles>>
<1>1. /\ ~Create(t) /\ ~WriteBlock(t) /\ ~Advance(t) /\ ~Add(t)
      /\ free_open_file_entries' = free_open_file_entries /\ freeinode_ts' = freeinode_ts
      /\ frame[t].at = "truncate"
  BY DEF Create, Add, Truncate, WriteBlock, InLoop, Advance, At, open_vars
<1>2. ~Pending(t) /\ ~Pending(t)' /\ ~Astray /\ ~undercut' /\ ~undercut
  BY <1>1, PendingSteps, NotAstray DEF Pending, Astray
<1>3. ShownHandles' = ShownHandles
  BY <1>1, OthersStutter
<1>4. PICK i : i = frame[t].inum
  OBVIOUS
<1>5. i \in AbsFiles /\ i \in Inumbers /\ IsTaken(i)
  BY <1>1, <1>4 DEF FilesInv, Ex1Inv, FrameOK, IsFile, AbsFiles, IsTaken
<1>6. CASE inode_table' = inode_table
  BY <1>1, <1>3, <1>6, OthersStutter
<1>7. CASE inode_table' = [inode_table EXCEPT ![i].i_size = 0]
  <2>1. \A j \in Inumbers : inode_table'[j].i_size = IF j = i THEN 0 ELSE inode_table[j].i_size
    <3>1. inode_table \in [Inumbers -> Ex1Inode] /\ 0 \in FileOffsets
      BY MaximumIsNat DEF FilesInv, TablesOK, FileOffsets
    <3> QED
      BY <1>5, <1>7, <3>1, SizeSet
  <2>2. ASSUME NEW u \in Threads
        PROVE  ~PendsIn(u, i) /\ ~PendsIn(u, i)'
    <3>1. Pending(u)' => Pending(u) /\ Inum(u)' = Inum(u)
      BY <1>2, OthersShown
    <3>2. Pending(u) => Inum(u) # i
      BY <1>1, <1>2, <1>4, WriterAlone
    <3> QED
      BY <3>1, <3>2 DEF PendsIn
  <2>3. ASSUME NEW h \in Handles, Open(h), open_file_table[h].of_inumber = i
        PROVE  AbsAt(h) = 0
    <3>1. \A u \in Threads : ~PendsOn(u, h)
      BY <2>2, <2>3 DEF PendsOn, PendsIn, Inum
    <3>2. AbsAt(h) = open_file_table[h].of_offset
      BY <3>1, AtIs DEF AtShown
    <3>3. PICK o \in Nat, n \in Nat : /\ o = open_file_table[h].of_offset
                                      /\ n = inode_table[i].i_size /\ o <= n
      BY <1>2, <1>5, <2>3, NeedsAre DEF FilesInv, TablesOK, FileOffsets, InsideInv, OffsetWithinFile
    <3>4. ~(n > 0 /\ o > 0)
      BY <1>2, <1>4, <2>3, <3>3 DEF Truncate, PastStart
    <3> QED
      BY <3>2, <3>3, <3>4
  <2>4. ASSUME NEW j \in AbsFiles, j # i
        PROVE  AbsContents(j)' = AbsContents(j)
    <3>1. j \in Inumbers
      BY DEF AbsFiles
    <3>2. AbsSize(j)' = AbsSize(j)
      BY <1>2, <2>1, <2>4, <3>1, QuietShown
    <3>3. \A k \in FileBytes : Byte(j, k)' = Byte(j, k)
      BY <1>1, <3>1, BytesKept
    <3> QED
      BY <3>1, <3>2, <3>3, SameBytes
  <2>5. AbsContents(i)' = <<>>
    <3>1. SizeShown(i)' /\ ContentsShown(i)'
      BY <1>5, ShownNext
    <3>2. AbsSize(i)' = 0
      BY <1>5, <2>1, <2>2, <3>1 DEF SizeShown
    <3>3. AbsContents(i)' = [k \in 1 .. 0 |-> Byte(i, k)']
      BY <3>1, <3>2 DEF ContentsShown
    <3> QED
      BY <3>3
  <2>6. ShownFiles' = [ShownFiles EXCEPT ![i] = <<>>]
    <3>1. ShownFiles' = [j \in AbsFiles |-> AbsContents(j)']
      BY <1>1 DEF ShownFiles, AbsFiles, IsTaken
    <3>2. \A j \in AbsFiles : AbsContents(j)' = IF j = i THEN <<>> ELSE ShownFiles[j]
      BY <1>2, <2>4, <2>5, FileIsShown
    <3>3. ShownFiles' = [j \in AbsFiles |-> IF j = i THEN <<>> ELSE ShownFiles[j]]
      BY <3>1, <3>2
    <3> QED
      BY <1>2, <3>3, FileIsShown
  <2>7. /\ i \in DOMAIN ShownFiles
        /\ \A h \in DOMAIN ShownHandles : ShownHandles[h].file = i => ShownHandles[h].at = 0
    BY <1>2, <1>5, <2>3, FileIsShown, HandleIsShown
  <2>8. Abs!Truncate(i)
    BY <1>2, <1>3, <2>6, <2>7 DEF Abs!Truncate, Promised
  <2> QED
    BY <1>5, <2>8
<1> QED
  BY <1>4, <1>6, <1>7 DEF Truncate

\* A handle moves on by a piece, alone.
LEMMA HandleMoves ==
  ASSUME ~Astray, ~Astray', free_open_file_entries' = free_open_file_entries,
         NEW h \in Handles, Open(h), NEW i, NEW o, NEW p, AbsAt(h) = o, AbsAt(h)' = o + p,
         open_file_table[h].of_inumber = i, open_file_table'[h].of_inumber = i,
         \A g \in Handles : Open(g) /\ g # h =>
           /\ open_file_table'[g].of_inumber = open_file_table[g].of_inumber
           /\ AbsAt(g)' = AbsAt(g)
  PROVE  /\ h \in DOMAIN ShownHandles /\ ShownHandles[h] = [file |-> i, at |-> o]
         /\ Abs!Moves(h, p)
<1>1. h \in DOMAIN ShownHandles /\ ShownHandles[h] = [file |-> i, at |-> o]
  BY HandleIsShown
<1>2. {g \in Handles : Open(g)}' = {g \in Handles : Open(g)}
  BY DEF Open
<1>3. ShownHandles' = [g \in {g \in Handles : Open(g)} |->
                         [file |-> open_file_table'[g].of_inumber, at |-> AbsAt(g)']]
  BY <1>2 DEF ShownHandles
<1>4. ASSUME NEW g \in {g \in Handles : Open(g)}
      PROVE  [file |-> open_file_table'[g].of_inumber, at |-> AbsAt(g)']
               = IF g = h THEN [file |-> i, at |-> o + p] ELSE ShownHandles[g]
  BY HandleIsShown
<1>5. ShownHandles' = [g \in {g \in Handles : Open(g)} |->
                         IF g = h THEN [file |-> i, at |-> o + p] ELSE ShownHandles[g]]
  BY <1>3, <1>4
<1>6. [ShownHandles[h] EXCEPT !.at = @ + p] = [file |-> i, at |-> o + p]
  BY <1>1
<1>7. [ShownHandles EXCEPT ![h].at = @ + p] =
        [g \in {g \in Handles : Open(g)} |->
           IF g = h THEN [ShownHandles[h] EXCEPT !.at = @ + p] ELSE ShownHandles[g]]
  BY HandleIsShown
<1>8. ShownHandles' = [ShownHandles EXCEPT ![h].at = @ + p]
  BY <1>5, <1>6, <1>7
<1> QED
  BY <1>1, <1>8 DEF Abs!Moves

\* A call that moves past its piece: a writer's was shown before, a reader's is now.
LEMMA AdvanceShows ==
  ASSUME FilesInv, FilesInv', InsideInv, ~Astray', NEW t \in Threads, Step(t), Advance(t)
  PROVE  \/ \E h \in Handles : Abs!Get(h)
         \/ UNCHANGED <<ShownFiles, ShownHandles>>
<1>1. /\ ~Create(t) /\ ~WriteBlock(t) /\ frame[t].at = "advance"
      /\ free_open_file_entries' = free_open_file_entries /\ freeinode_ts' = freeinode_ts
  BY DEF Create, WriteBlock, InLoop, Advance, At
<1>2. ~Astray /\ ~undercut /\ ~Pending(t)' /\ Inside(frame[t])
  BY <1>1, PendingSteps, NotAstray DEF Astray, Inside
<1>3. PICK h, i, o, p : h = frame[t].h /\ i = Inum(t) /\ o = Offset(t) /\ p = Piece(t)
  OBVIOUS
<1>4. /\ h \in Handles /\ Open(h) /\ i \in Inumbers /\ i \in AbsFiles
      /\ open_file_table[h].of_inumber = i /\ open_file_table[h].of_offset = o
  BY <1>1, <1>3, AtFile DEF FilesInv, AbsFiles, IsFile, IsTaken, Inum, Offset
<1>5. /\ o \in Nat /\ p \in Nat \ {0} /\ o + p \in FileOffsets
      /\ open_file_table'[h].of_offset = o + p /\ open_file_table'[h].of_inumber = i
  BY <1>1, <1>3, AdvanceFits, AdvanceMoves, AtFile DEF FilesInv, FileOffsets
<1>6. \A j \in Inumbers : inode_table'[j].i_size = IF j = i THEN Further(inode_table[i].i_size, o + p)
                                                           ELSE inode_table[j].i_size
  <2>1. inode_table \in [Inumbers -> Ex1Inode] /\ Further(inode_table[i].i_size, o + p) \in FileOffsets
    BY <1>4, <1>5, NeedsAre DEF FilesInv, TablesOK, Further
  <2>2. inode_table' = [inode_table EXCEPT ![i].i_size = Further(inode_table[i].i_size, o + p)]
    BY <1>3, <2>1 DEF Advance, Further
  <2> QED
    BY <1>4, <2>1, <2>2, SizeSet
<1>7. \A u \in Threads : u # t =>
        /\ Pending(u)' <=> Pending(u)
        /\ Pending(u) => /\ frame'[u].h = frame[u].h /\ Inum(u)' = Inum(u)
                         /\ Offset(u)' = Offset(u) /\ Piece(u)' = Piece(u)
  BY OthersShown
\* Nobody else writes to the file.
<1>8. ASSUME NEW u \in Threads, u # t
      PROVE  ~PendsIn(u, i) /\ ~PendsIn(u, i)' /\ ~PendsOn(u, h) /\ ~PendsOn(u, h)'
  <2>1. Pending(u) => Inum(u) # i
    BY <1>2, <1>3, <1>8, WriterAlone
  <2>2. Pending(u) => frame[u].h # h
    BY <1>3, <2>1 DEF Inum
  <2> QED
    BY <1>7, <1>8, <2>1, <2>2 DEF PendsIn, PendsOn
<1>9. ASSUME NEW g \in Handles, Open(g), g # h
      PROVE  open_file_table'[g].of_inumber = open_file_table[g].of_inumber /\ AbsAt(g)' = AbsAt(g)
  <2>1. open_file_table'[g] = open_file_table[g]
    BY <1>3, <1>9, EntriesMove DEF FilesInv
  <2>2. ~PendsOn(t, g) /\ ~PendsOn(t, g)'
    BY <1>2, <1>3, <1>9 DEF PendsOn
  <2> QED
    BY <2>1, <2>2, ApartShown
<1>10. ASSUME NEW j \in AbsFiles, j # i
       PROVE  AbsSize(j)' = AbsSize(j)
  <2>1. j \in Inumbers /\ inode_table'[j].i_size = inode_table[j].i_size
    BY <1>6, <1>10 DEF AbsFiles
  <2>2. ~PendsIn(t, j) /\ ~PendsIn(t, j)'
    BY <1>2, <1>3, <1>10 DEF PendsIn
  <2> QED
    BY <2>1, <2>2, ApartShown
<1>11. AtShown(h) /\ AtShown(h)' /\ SizeShown(i) /\ SizeShown(i)'
  BY <1>4, AtIs, SizeIs, ShownNext
<1>12. /\ \A u \in Threads : ~PendsIn(u, i)' /\ ~PendsOn(u, h)'
       /\ AbsAt(h)' = o + p /\ AbsSize(i)' = Further(inode_table[i].i_size, o + p)
  <2>1. ~PendsIn(t, i)' /\ ~PendsOn(t, h)'
    BY <1>2 DEF PendsIn, PendsOn
  <2>2. \A u \in Threads : ~PendsIn(u, i)' /\ ~PendsOn(u, h)'
    BY <1>8, <2>1
  <2> QED
    BY <1>4, <1>5, <1>6, <1>11, <2>2 DEF AtShown, SizeShown
<1>13. PICK n \in Nat : n = inode_table[i].i_size
  BY <1>4, NeedsAre DEF FileOffsets
<1>14. AbsSize(i)' = AbsSize(i)
  <2>1. CASE Writing(t)
    <3>1. PendsIn(t, i)
      BY <1>1, <1>3, <2>1 DEF PendsIn, Pending
    <3> QED
      BY <1>3, <1>11, <1>12, <3>1 DEF SizeShown
  <2>2. CASE ~Writing(t)
    <3>1. \A u \in Threads : ~PendsIn(u, i)
      BY <1>8, <2>2 DEF PendsIn, Pending
    <3>2. o + p <= n
      BY <1>1, <1>2, <1>3, <1>13, <2>2, ReadsInside DEF Size
    <3>3. AbsSize(i) = n
      BY <1>11, <1>13, <3>1 DEF SizeShown
    <3> QED
      BY <1>5, <1>12, <1>13, <3>2, <3>3 DEF Further, FileOffsets
  <2> QED
    BY <2>1, <2>2
<1>15. ShownFiles' = ShownFiles
  <2>1. ASSUME NEW j \in AbsFiles
        PROVE  AbsContents(j)' = AbsContents(j)
    <3>1. j \in Inumbers /\ AbsSize(j)' = AbsSize(j)
      BY <1>10, <1>14 DEF AbsFiles
    <3>2. \A k \in FileBytes : Byte(j, k)' = Byte(j, k)
      BY <1>1, <3>1, BytesKept
    <3> QED
      BY <3>1, <3>2, SameBytes
  <2> QED
    BY <1>1, <1>2, <2>1, SameFiles
<1>16. CASE Writing(t)
  <2>1. AbsAt(h) = o + p
    BY <1>1, <1>3, <1>4, <1>11, <1>16 DEF AtShown, PendsOn, Pending
  <2>2. ShownHandles' = ShownHandles
    <3>1. \A g \in Handles : Open(g) =>
            /\ open_file_table'[g].of_inumber = open_file_table[g].of_inumber
            /\ AbsAt(g)' = AbsAt(g)
      BY <1>4, <1>5, <1>9, <1>12, <2>1
    <3> QED
      BY <1>1, <1>2, <3>1, SameHandles
  <2> QED
    BY <1>15, <2>2
<1>17. CASE ~Writing(t)
  <2>1. \A u \in Threads : ~PendsOn(u, h) /\ ~PendsIn(u, i)
    BY <1>8, <1>17 DEF PendsOn, PendsIn, Pending
  <2>2. AbsAt(h) = o /\ AbsSize(i) = n
    BY <1>4, <1>11, <1>13, <2>1 DEF AtShown, SizeShown
  <2>3. o + p <= n
    BY <1>1, <1>2, <1>3, <1>13, <1>17, ReadsInside DEF Size
  <2>4. p \in 1 .. BLOCK_SIZE
    <3>1. frame[t].done < frame[t].todo
      BY <1>1, <1>2 DEF FilesInv, CallsOK, CallOK, Inside
    <3>2. (o % BLOCK_SIZE) + p <= BLOCK_SIZE /\ o % BLOCK_SIZE \in Nat
      BY <1>2, <1>3, <3>1, PieceFits DEF Offsets
    <3> QED
      BY <1>5, <3>2, Numbers
  <2>5. /\ h \in DOMAIN ShownHandles /\ ShownHandles[h] = [file |-> i, at |-> o]
        /\ Abs!Moves(h, p)
    <3>1. open_file_table[h].of_inumber = i /\ open_file_table'[h].of_inumber = i
      BY <1>4, <1>5
    <3>2. ~Astray /\ ~Astray' /\ AbsAt(h)' = o + p
      BY <1>2, <1>12
    <3> QED
      BY <1>1, <1>4, <1>9, <2>2, <3>1, <3>2, HandleMoves
  <2>6. Promised' = Promised
    BY <1>2 DEF Promised
  <2>7. ShownHandles[h].at + p <= Len(ShownFiles[ShownHandles[h].file])
    BY <1>2, <1>4, <2>2, <2>3, <2>5, FileIsShown
  <2>8. Abs!Get(h)
    BY <1>15, <2>4, <2>5, <2>6, <2>7 DEF Abs!Get
  <2> QED
    BY <1>4, <2>8
<1> QED
  BY <1>16, <1>17

\* Writers work on bytes of Data.
DataInv == \A t \in Threads :
  frame[t].at \in {"size", "handle", "inode", "loop", "advance"} /\ Writing(t) =>
    frame[t].buffer \in Seq(Data)

\* A call keeps the buffer it was given, if it writes.
LEMMA DataOwn ==
  ASSUME FilesInv, DataInv, NEW t \in Threads, Step(t) \/ Call(t), frame'[t].op = "write",
         frame'[t].at \in {"size", "handle", "inode", "loop", "advance"}
  PROVE  frame'[t].buffer \in Seq(Data)
<1>0. Ex1Inv /\ Idle.at = "idle"
  BY DEF FilesInv, Idle
<1>1. CASE Call(t)
  BY <1>0, <1>1, CallEffect, Ex1OpsAssumption
<1>2. ~LockExisting(t) /\ ~Truncate(t) /\ ~Position(t) /\ ~Create(t) /\ ~CreateFails(t)
  BY <1>0, OpenEffects DEF GoesTo
<1>3. ~Add(t) /\ ~CopyOpens(t) /\ ~Return(t)
  BY <1>0, HandleEffects, AccessEffects
<1>4. ~ReadBlock(t)
  <2> SUFFICES ASSUME ReadBlock(t), GoesTo(t, "advance", {"buffer"}) PROVE FALSE
    BY <1>0, AccessEffects
  <2> QED
    BY DEF GoesTo, Fields, ReadBlock, Writing
<1>5. CASE LockForWrite(t) \/ LockForRead(t)
  <2>1. PICK mode, todo : Locks(t, mode, todo) /\ frame[t].at = "inode"
    BY <1>0, <1>5, LocksFit
  <2>2. frame'[t].op = frame[t].op /\ frame'[t].buffer = frame[t].buffer
    BY <1>0, <2>1, LocksEffect
  <2> QED
    BY <2>1, <2>2 DEF DataInv, Writing
<1>6. CASE CopySize(t) \/ LockHandle(t) \/ WriteBlock(t) \/ Advance(t)
  <2>1. /\ frame[t].at \in {"size", "handle", "inode", "loop", "advance"}
        /\ frame'[t].op = frame[t].op /\ frame'[t].buffer = frame[t].buffer
    BY <1>0, <1>6, HandleEffects, AccessEffects DEF GoesTo, Fields
  <2> QED
    BY <2>1 DEF DataInv, Writing
<1> QED
  BY <1>1, <1>2, <1>3, <1>4, <1>5, <1>6 DEF Step

\* So they always do.
LEMMA DataStep == FilesInv /\ DataInv /\ [Next]_vars => DataInv'
<1> SUFFICES ASSUME FilesInv, DataInv, [Next]_vars PROVE DataInv'
  OBVIOUS
<1>1. CASE UNCHANGED vars
  BY <1>1 DEF DataInv, Writing, vars
<1>2. ASSUME NEW t \in Threads, Step(t) \/ Call(t)
      PROVE  DataInv'
  <2>1. \A u \in Threads : u # t => frame'[u] = frame[u]
    BY <1>2, OthersStay DEF Others
  <2>2. ASSUME NEW u \in Threads, frame'[u].op = "write",
               frame'[u].at \in {"size", "handle", "inode", "loop", "advance"}
        PROVE  frame'[u].buffer \in Seq(Data)
    BY <1>2, <2>1, <2>2, DataOwn DEF DataInv, Writing
  <2> QED
    BY <2>2 DEF DataInv, Writing
<1> QED
  BY <1>1, <1>2 DEF Next

\* The bytes that are shown are in claimed blocks.
LEMMA ShownClaimed ==
  ASSUME FilesInv, InsideInv, ~undercut, NEW j \in Inumbers, NEW k \in FileBytes,
         k <= AbsSize(j), NEW id \in BlockRange, NEW s \in Offsets,
         k - 1 = BLOCK_SIZE * id + s, BLOCK_SIZE * id \in Nat
  PROVE  Claimed(j, id)
<1>1. PICK n \in Nat : n = inode_table[j].i_size
  BY NeedsAre DEF FileOffsets
<1>2. CASE k <= n
  BY <1>1, <1>2, ByteClaimed
<1>3. CASE ~(k <= n)
  <2>1. SizeShown(j)
    BY SizeIs
  <2>2. PICK t \in Threads : PendsIn(t, j)
    BY <1>1, <1>3, <2>1 DEF SizeShown
  <2>3. Pending(t) /\ Inum(t) = j /\ Inside(frame[t])
    BY <2>2, PendingPlace DEF PendsIn
  <2>4. Offset(t) \in Nat /\ Offset(t) <= n
    BY <1>1, <2>3, InTakenFile DEF InsideInv, OffsetWithinFile, Offset, Inum
  <2>5. AbsSize(j) = Further(n, Offset(t) + Piece(t))
    BY <1>1, <2>1, <2>2 DEF SizeShown
  <2>6. k \in Int
    BY DEF FileBytes
  <2>7. k > Offset(t)
    BY <1>1, <1>3, <2>4, <2>6
  <2>8. k <= Offset(t) + Piece(t)
    BY <1>3, <2>5 DEF Further
  <2> QED
    BY <2>3, <2>7, <2>8, PieceClaimed
<1> QED
  BY <1>2, <1>3

\* A step that writes a block writes the bytes of its piece, if it is not the last.
LEMMA ShownBytes ==
  ASSUME FilesInv, FilesInv', InsideInv, OwnInv, ~Astray', NEW t \in Threads, WriteBlock(t),
         frame' # frame, NEW j \in AbsFiles, NEW k \in FileBytes, k <= AbsSize(j)
  PROVE  Byte(j, k)' = IF j = Inum(t) /\ k > Offset(t) /\ k <= Offset(t) + Piece(t)
                       THEN frame[t].buffer[k - frame[t].offset] ELSE Byte(j, k)
<1>1. ~undercut
  BY NotAstray DEF Step, Astray
<1>2. j \in Inumbers /\ IsTaken(j)
  BY DEF AbsFiles
<1>3. PICK id \in BlockRange, s \in Offsets : k - 1 = BLOCK_SIZE * id + s /\ BLOCK_SIZE * id \in Nat
  BY ByteAt
<1>4. Claimed(j, id)
  BY <1>1, <1>2, <1>3, ShownClaimed
<1> QED
  BY <1>2, <1>3, <1>4, WrittenBytes

\* A writer between two pieces is alone in its file: its size and the writer's
\* handle are shown as they are.
LEMMA WriterSees ==
  ASSUME FilesInv, NEW t \in Threads, Inside(frame[t]), ~Pending(t)
  PROVE  /\ AbsSize(Inum(t)) = Size(t) /\ AbsAt(frame[t].h) = Offset(t)
         /\ \A u \in Threads : ~PendsIn(u, Inum(t)) /\ ~PendsOn(u, frame[t].h)
<1>1. ASSUME NEW u \in Threads, Pending(u)
      PROVE  Inum(u) # Inum(t) /\ frame[u].h # frame[t].h
  <2>1. Inum(u) # Inum(t)
    BY <1>1, WriterAlone
  <2> QED
    BY <2>1 DEF Inum
<1>2. \A u \in Threads : ~PendsIn(u, Inum(t)) /\ ~PendsOn(u, frame[t].h)
  BY <1>1 DEF PendsIn, PendsOn
<1>3. SizeShown(Inum(t)) /\ AtShown(frame[t].h)
  BY InTakenFile, SizeIs, AtIs
<1> QED
  BY <1>2, <1>3 DEF SizeShown, AtShown, Size, Offset

\* A step that writes a block moves no handle and no size.
LEMMA WriteMoves ==
  ASSUME FilesInv, NEW t \in Threads, WriteBlock(t), ~Astray'
  PROVE  /\ Step(t) /\ Inside(frame[t]) /\ frame[t].at = "loop" /\ frame[t].done < frame[t].todo
         /\ Writing(t) /\ ~Pending(t) /\ ~Advance(t) /\ ~Astray /\ ~undercut
         /\ UNCHANGED <<freeinode_ts, open_file_table, free_open_file_entries>>
         /\ \A i \in Inumbers : inode_table'[i].i_size = inode_table[i].i_size
<1>1. /\ Step(t) /\ Inside(frame[t]) /\ frame[t].at = "loop" /\ frame[t].done < frame[t].todo
      /\ Writing(t) /\ ~Pending(t) /\ ~Advance(t)
  BY DEF WriteBlock, InLoop, At, Inside, Step, Pending, Advance
<1>2. ~Astray /\ ~undercut
  BY <1>1, NotAstray DEF Astray
<1>3. UNCHANGED <<freeinode_ts, open_file_table, free_open_file_entries>>
  BY DEF WriteBlock, state_vars, inode_vars, open_vars
<1> QED
  BY <1>1, <1>2, <1>3, WrittenTables

\* A write that fails changes nothing that is shown.
LEMMA WriteFails ==
  ASSUME FilesInv, FilesInv', InsideInv, OwnInv, ~Astray', NEW t \in Threads, WriteBlock(t),
         frame'[t].at # "advance"
  PROVE  UNCHANGED <<ShownFiles, ShownHandles>>
<1>1. /\ Step(t) /\ Inside(frame[t]) /\ frame[t].at = "loop" /\ frame[t].done < frame[t].todo
      /\ ~Pending(t) /\ ~Pending(t)' /\ ~Advance(t) /\ ~Astray /\ ~undercut
      /\ freeinode_ts' = freeinode_ts /\ free_open_file_entries' = free_open_file_entries
      /\ \A i \in Inumbers : inode_table'[i].i_size = inode_table[i].i_size
  BY WriteMoves DEF Pending
<1>2. ShownHandles' = ShownHandles
  BY <1>1, HandlesLookSame
<1>3. PICK i \in Inumbers, o \in Nat, n \in Nat, q \in Int :
        i = Inum(t) /\ IsTaken(i) /\ o = Offset(t) /\ n = Size(t) /\ q = BlockId(t)
  BY <1>1, InTakenFile, CallPlace DEF BlockRange
<1>4. ASSUME NEW k \in FileBytes, k <= AbsSize(i), k > o, frame'[t] = Idle
      PROVE  FALSE
  <2>1. k \in Int /\ k <= n
    BY <1>1, <1>3, <1>4, WriterSees DEF FileBytes
  <2>2. o <= n /\ ~Allocates(t)
    BY <1>3, <1>4, <2>1 DEF Allocates
  <2>3. q \in Needs(i) /\ q \in BlockRange /\ q # -1
    BY <1>1, <1>3, <2>2, InItsFile, CallPlace DEF BlockRange
  <2>4. BlockOf(i, q) \in Blocks
    BY <1>1, <1>3, <2>3 DEF OwnInv, Claimed
  <2>5. get_inode_block(DiskToWrite(t), q) \in Blocks
    BY <1>3, <2>2, <2>3, <2>4 DEF DiskToWrite, BlockOf
  <2>6. GoesTo(t, "advance", {}) \/ UNCHANGED frame
    BY <1>3, <2>5, WriteEffect
  <2> QED
    BY <1>1, <1>4, <2>6 DEF GoesTo, Idle
<1>5. ASSUME NEW j \in AbsFiles, NEW k \in FileBytes, k <= AbsSize(j)
      PROVE  Byte(j, k)' = Byte(j, k)
  <2>1. CASE UNCHANGED <<state_vars>>
    BY <2>1 DEF Byte, BlockOf, get_inode_block, Disk, state_vars, inode_vars, block_vars
  <2>2. CASE frame'[t] = Idle
    <3>1. frame' # frame
      BY <1>1, <2>2 DEF Idle
    <3>2. Byte(j, k)' = IF j = i /\ k > o /\ k <= o + Piece(t)
                        THEN frame[t].buffer[k - frame[t].offset] ELSE Byte(j, k)
      BY <1>3, <1>5, <3>1, ShownBytes
    <3> QED
      BY <1>4, <1>5, <2>2, <3>2
  <2>3. \/ UNCHANGED state_vars \/ frame'[t] = Idle
    BY AccessEffects DEF FilesInv, GoesTo
  <2> QED
    BY <2>1, <2>2, <2>3
<1>6. \A j \in AbsFiles : inode_table'[j].i_size = inode_table[j].i_size
  BY <1>1 DEF AbsFiles
<1>7. ShownFiles' = ShownFiles
  BY <1>1, <1>5, <1>6, FilesLookSame
<1> QED
  BY <1>2, <1>7

\* A write that goes on changes the bytes at its handle, and no others.
LEMMA WriteShows ==
  ASSUME FilesInv, FilesInv', InsideInv, OwnInv, DataInv, ~Astray', NEW t \in Threads, WriteBlock(t),
         frame'[t].at = "advance"
  PROVE  \E h \in Handles : Abs!Put(h)
<1>1. /\ Step(t) /\ Inside(frame[t]) /\ frame[t].at = "loop" /\ frame[t].done < frame[t].todo
      /\ Writing(t) /\ ~Pending(t) /\ ~Advance(t) /\ ~Astray /\ ~undercut
      /\ freeinode_ts' = freeinode_ts /\ free_open_file_entries' = free_open_file_entries
      /\ open_file_table' = open_file_table
      /\ \A i \in Inumbers : inode_table'[i].i_size = inode_table[i].i_size
  BY WriteMoves
<1>2. PICK h, i, o, n, p, f, d, w :
        /\ h = frame[t].h /\ i = Inum(t) /\ o = Offset(t) /\ n = Size(t) /\ p = Piece(t)
        /\ f = frame[t].offset /\ d = frame[t].done /\ w = frame[t].buffer
  OBVIOUS
<1>3. /\ h \in Handles /\ Open(h) /\ i \in Inumbers /\ i \in AbsFiles
      /\ o \in Nat /\ n \in Nat /\ f \in Nat /\ d \in Nat /\ o = f + d /\ n = inode_table[i].i_size
      /\ open_file_table[h].of_inumber = i /\ open_file_table[h].of_offset = o
  <2>1. i # ROOT_DIR_INUM
    BY <1>1, <1>2, AtFile DEF FilesInv, Inside, IsFile
  <2> QED
    BY <1>1, <1>2, <2>1, InTakenFile DEF AbsFiles, Size, Inum, Offset
<1>4. o <= n
  BY <1>1, <1>2, <1>3 DEF InsideInv, OffsetWithinFile
<1>5. p \in Nat \ {0} /\ p \in 1 .. BLOCK_SIZE /\ d + p <= frame[t].todo
  <2>1. /\ p \in Nat \ {0} /\ d + p <= frame[t].todo /\ o % BLOCK_SIZE \in Nat
        /\ (o % BLOCK_SIZE) + p <= BLOCK_SIZE
    BY <1>1, <1>2, PieceFits DEF Offsets
  <2> QED
    BY <2>1, Numbers
<1>6. /\ w \in Seq(Data) /\ Len(w) \in Nat /\ d + p <= Len(w)
      /\ o + p <= MAXIMUM_FILE_BYTES
  <2>1. w \in Seq(Data)
    BY <1>1, <1>2 DEF DataInv
  <2>2. /\ frame[t].todo \in Nat /\ frame[t].todo <= Len(w)
        /\ f + frame[t].todo <= MAXIMUM_FILE_BYTES
    BY <1>1, <1>2 DEF FilesInv, CallsOK, CallOK, Inside, Writing
  <2>3. PICK len \in Nat, m \in Nat : len = Len(w) /\ m = frame[t].todo
    BY <2>1, <2>2
  <2>4. d + p <= len /\ o + p <= MAXIMUM_FILE_BYTES
    <3>1. m <= len /\ d + p <= m /\ f + m <= MAXIMUM_FILE_BYTES /\ MAXIMUM_FILE_BYTES \in Nat
      BY <1>5, <2>2, <2>3, Numbers
    <3> QED
      BY <1>3, <1>5, <3>1
  <2> QED
    BY <2>1, <2>3, <2>4
<1>7. /\ PendsOn(t, h)' /\ PendsIn(t, i)' /\ Offset(t)' = o /\ Piece(t)' = p
      /\ \A g : g # h => ~PendsOn(t, g) /\ ~PendsOn(t, g)'
      /\ \A j : j # i => ~PendsIn(t, j) /\ ~PendsIn(t, j)'
  <2>1. GoesTo(t, "advance", {})
    BY <1>1, BecomesPending DEF ReadBlock
  <2>2. /\ frame'[t].h = h /\ frame'[t].op = frame[t].op
        /\ frame'[t].done = d /\ frame'[t].todo = frame[t].todo
    BY <1>2, <2>1 DEF GoesTo, Fields
  <2>3. Inum(t)' = i /\ Offset(t)' = o /\ Piece(t)' = p
    BY <1>1, <1>2, <2>2 DEF Inum, Offset, Piece
  <2> QED
    BY <1>1, <2>2, <2>3 DEF PendsOn, PendsIn, Pending, Writing
<1>8. AbsAt(h) = o /\ AbsSize(i) = n /\ AbsAt(h)' = o + p /\ AbsSize(i)' = Further(n, o + p)
  <2>1. AtShown(h)' /\ SizeShown(i)'
    BY <1>3, ShownNext
  <2>2. open_file_table'[h].of_offset = o /\ inode_table'[i].i_size = n
    BY <1>1, <1>3
  <2>3. AbsAt(h)' = o + p /\ AbsSize(i)' = Further(n, o + p)
    BY <1>7, <2>1, <2>2 DEF AtShown, SizeShown
  <2> QED
    BY <1>1, <1>2, <2>3, WriterSees
<1>9. frame' # frame
  BY <1>1
<1>10. ASSUME NEW j \in AbsFiles, j # i
       PROVE  AbsContents(j)' = AbsContents(j)
  <2>1. j \in Inumbers /\ AbsSize(j)' = AbsSize(j)
    BY <1>1, <1>7, <1>10, ApartShown DEF AbsFiles
  <2>2. \A k \in FileBytes : k <= AbsSize(j) => Byte(j, k)' = Byte(j, k)
    BY <1>2, <1>9, <1>10, ShownBytes
  <2> QED
    BY <2>1, <2>2, SameBytes
<1> DEFINE bytes == [x \in 1 .. p |-> w[d + x]]
<1>11. bytes \in [1 .. p -> Data] /\ Len(bytes) = p /\ \A x \in 1 .. p : bytes[x] = w[d + x]
  <2>1. \A x \in 1 .. p : w[d + x] \in Data
    <3>1. \A x \in 1 .. p : d + x \in 1 .. Len(w)
      BY <1>3, <1>5, <1>6
    <3> QED
      BY <1>6, <3>1
  <2>2. bytes \in [1 .. p -> Data]
    BY <2>1
  <2>3. bytes \in Seq(Data)
    BY ONLY <1>5, <2>2, SeqDef
  <2>4. Len(bytes) = p
    BY ONLY <1>5, <2>2, <2>3, LenProperties
  <2> QED
    BY <2>2, <2>4
<1> HIDE DEF bytes
<1>12. ASSUME NEW k \in 1 .. Further(n, o + p)
       PROVE  Byte(i, k)' = IF k > o /\ k <= o + p THEN bytes[k - o] ELSE AbsContents(i)[k]
  <2>1. k \in FileBytes /\ k \in Int
    <3>1. n <= MAXIMUM_FILE_BYTES
      BY <1>3, NeedsAre DEF FileOffsets
    <3> QED
      BY <1>3, <1>5, <1>6, <3>1, Numbers DEF FileBytes, Further
  <2>2. CASE k > o /\ k <= o + p
    <3>1. Byte(i, k)' = w[k - f]
      BY <1>2, <1>3, <2>1, <2>2, WrittenPiece
    <3>2. k - o \in 1 .. p /\ d + (k - o) = k - f
      BY <1>3, <1>5, <2>1, <2>2
    <3> QED
      BY <1>11, <2>2, <3>1, <3>2
  <2>3. CASE ~(k > o /\ k <= o + p)
    <3>1. k <= n /\ k \in 1 .. n
      BY <1>3, <1>4, <1>5, <2>1, <2>3 DEF Further
    <3>2. Byte(i, k)' = Byte(i, k)
      BY <1>2, <1>3, <1>8, <1>9, <2>1, <2>3, <3>1, ShownBytes
    <3>3. AbsContents(i)[k] = Byte(i, k)
      BY <1>3, <1>8, <3>1, BytesShown DEF ContentsShown
    <3> QED
      BY <2>3, <3>2, <3>3
  <2> QED
    BY <2>2, <2>3
<1>13. AbsContents(i)' = Abs!Spliced(AbsContents(i), o, bytes)
  <2>1. AbsContents(i)' = [k \in 1 .. Further(n, o + p) |-> Byte(i, k)']
    BY <1>3, <1>8, ShownNext DEF ContentsShown
  <2>2. AbsContents(i)' = [k \in 1 .. Further(n, o + p) |->
                             IF k > o /\ k <= o + p THEN bytes[k - o] ELSE AbsContents(i)[k]]
    BY <1>12, <2>1
  <2>3. Len(AbsContents(i)) = n
    BY <1>1, <1>3, <1>8, FileIsShown
  <2> QED
    BY <1>11, <2>2, <2>3 DEF Abs!Spliced, Further
<1>14. ShownFiles' = [ShownFiles EXCEPT ![i] = Abs!Spliced(@, o, bytes)]
  <2>1. ShownFiles' = [j \in AbsFiles |-> AbsContents(j)']
    BY <1>1 DEF ShownFiles, AbsFiles, IsTaken
  <2>2. \A j \in AbsFiles : AbsContents(j)' = IF j = i THEN Abs!Spliced(ShownFiles[i], o, bytes)
                                                       ELSE ShownFiles[j]
    BY <1>1, <1>3, <1>10, <1>13, FileIsShown
  <2>3. ShownFiles' = [j \in AbsFiles |-> IF j = i THEN Abs!Spliced(ShownFiles[i], o, bytes)
                                                    ELSE ShownFiles[j]]
    BY <2>1, <2>2
  <2> QED
    BY <1>1, <2>3, FileIsShown
<1>15. /\ h \in DOMAIN ShownHandles /\ ShownHandles[h] = [file |-> i, at |-> o]
       /\ Abs!Moves(h, p)
  <2>1. \A g \in Handles : Open(g) /\ g # h =>
          /\ open_file_table'[g].of_inumber = open_file_table[g].of_inumber
          /\ AbsAt(g)' = AbsAt(g)
    BY <1>1, <1>7, ApartShown
  <2> QED
    BY <1>1, <1>3, <1>8, <2>1, HandleMoves
<1>16. Promised' = Promised
  BY <1>1 DEF Promised
<1>17. ShownFiles' = [ShownFiles EXCEPT ![ShownHandles[h].file] =
                         Abs!Spliced(@, ShownHandles[h].at, bytes)]
  BY <1>14, <1>15
<1>18. ShownHandles[h].at + p <= MAXIMUM_FILE_BYTES
  BY <1>6, <1>15
<1>19. Abs!Put(h)
  BY <1>5, <1>11, <1>15, <1>16, <1>17, <1>18 DEF Abs!Put
<1> QED
  BY <1>3, <1>19

\* Each step of a thread is a step of one file or handle, or none.
LEMMA ShownStep ==
  ASSUME BlocksInv, BlocksInv', DataInv, NEW t \in Threads, Step(t) \/ Call(t)
  PROVE  [Abs!Next]_(Abs!absvars)
<1>0. FilesInv /\ InsideInv /\ OwnInv /\ FilesInv'
  BY DEF BlocksInv
<1>1. CASE Astray'
  BY <1>1 DEF Abs!Next, Abs!Breaks, Promised
<1>2. CASE ~Astray'
  <2>1. ~Astray /\ Promised /\ Promised' = Promised
    BY <1>0, <1>2, NotAstray DEF Promised
  <2>2. CASE UNCHANGED <<ShownFiles, ShownHandles>>
    BY <2>1, <2>2 DEF Abs!absvars
  <2>3. CASE \E h \in Handles : Abs!Close(h) \/ Abs!Get(h) \/ Abs!Put(h)
    BY <2>1, <2>3 DEF Abs!Next
  <2>4. CASE \E i \in Inumbers : Abs!Create(i) \/ Abs!Truncate(i)
    BY <2>1, <2>4 DEF Abs!Next
  <2>5. CASE \E h \in Handles, i \in Inumbers : Abs!Open(h, i)
    BY <2>1, <2>5 DEF Abs!Next
  <2>6. CASE Step(t) /\ Create(t)
    BY <1>0, <1>2, <2>4, <2>6, CreateShows
  <2>7. CASE Step(t) /\ Truncate(t)
    BY <1>0, <1>2, <2>2, <2>4, <2>7, TruncateShows
  <2>8. CASE Step(t) /\ Add(t)
    BY <1>0, <1>2, <2>2, <2>5, <2>8, AddShows
  <2>9. CASE Step(t) /\ Advance(t)
    BY <1>0, <1>2, <2>2, <2>3, <2>9, AdvanceShows
  <2>10. CASE Step(t) /\ WriteBlock(t)
    BY <1>0, <1>2, <2>2, <2>3, <2>10, WriteShows, WriteFails
  <2>11. CASE \E h : tfs_close(t, h)
    BY <1>0, <1>2, <2>2, <2>3, <2>11, CloseShows
  <2>12. CASE /\ ~Create(t) /\ ~Truncate(t) /\ ~Add(t) /\ ~Advance(t) /\ ~WriteBlock(t)
              /\ ~\E h : tfs_close(t, h)
    <3>1. free_open_file_entries' = free_open_file_entries
      BY <1>0, <2>12, PendingSteps
    <3>2. UNCHANGED <<ShownFiles, ShownHandles>>
      BY <1>0, <1>2, <2>12, <3>1, QuietSteps, OthersStutter
    <3> QED
      BY <2>2, <3>2
  <2>13. Create(t) \/ Truncate(t) \/ Add(t) \/ Advance(t) \/ WriteBlock(t) => Step(t)
    BY DEF Step
  <2> QED
    BY <2>6, <2>7, <2>8, <2>9, <2>10, <2>11, <2>12, <2>13
<1> QED
  BY <1>1, <1>2

\* When nothing is shown to change, nothing does.
LEMMA ShownStutters == UNCHANGED vars => UNCHANGED Abs!absvars
<1> SUFFICES ASSUME UNCHANGED vars PROVE UNCHANGED Abs!absvars
  OBVIOUS
<1>1. /\ inode_table' = inode_table /\ freeinode_ts' = freeinode_ts /\ fs_data' = fs_data
      /\ open_file_table' = open_file_table /\ free_open_file_entries' = free_open_file_entries
      /\ frame' = frame /\ undercut' = undercut /\ wrapped' = wrapped /\ free_blocks' = free_blocks
  BY DEF vars, state_vars, inode_vars, block_vars, open_vars, history
<1>2. Promised' = Promised /\ Astray' = Astray
  BY <1>1 DEF Promised, Astray
<1>3. \A h : Written(h)' = Written(h)
  BY <1>1 DEF Written, Piece, Offset, Writing
<1>4. ASSUME NEW h
      PROVE  AbsAt(h)' = AbsAt(h)
  <2>1. PICK s : s = Written(h) /\ s = Written(h)'
    BY <1>3
  <2> QED
    BY <1>1, <2>1 DEF AbsAt
<1>5. \A i : AbsSize(i)' = AbsSize(i)
  BY <1>1, <1>3, <1>4 DEF AbsSize
<1>6. \A i : AbsContents(i)' = AbsContents(i)
  BY <1>1, <1>5 DEF AbsContents, get_inode_block, Disk
<1>7. ShownFiles' = ShownFiles
  BY <1>1, <1>2, <1>6 DEF ShownFiles, AbsFiles, IsTaken
<1>8. ShownHandles' = ShownHandles
  BY <1>1, <1>2, <1>4 DEF ShownHandles, Open
<1> QED
  BY <1>2, <1>7, <1>8 DEF Abs!absvars

\* In the beginning there is no file and no handle.
LEMMA ShownInit == Init => Abs!Init /\ DataInv
<1> SUFFICES ASSUME Init PROVE Abs!Init /\ DataInv
  OBVIOUS
<1>1. Promised /\ ~Astray
  BY DEF Init, Promised, Astray
<1>2. AbsFiles = {}
  BY DEF Init, Ex1RootCreated, AbsFiles, IsTaken
<1>3. {h \in Handles : Open(h)} = {}
  BY DEF Init, Ex1RootCreated, Open
<1>4. ShownFiles = [f \in {} |-> <<>>]
  BY <1>1, <1>2 DEF ShownFiles
<1>5. ShownHandles = [h \in {} |-> <<>>]
  BY <1>1, <1>3 DEF ShownHandles
<1>6. DataInv
  BY DEF Init, DataInv, Idle
<1> QED
  BY <1>1, <1>4, <1>5, <1>6 DEF Abs!Init

\* Every step of a call, whatever the others do meanwhile, is one step of one file
\* seen as a sequence of bytes, or none, until blocks go astray: a write changes the bytes at its handle
\* and no others of any file, a truncation empties one file, a read, a creation, an
\* allocation and a call that fails change nothing.
THEOREM ThreadsSeeSequences == Spec => ImplementsFiles
<1>1. Init => BlocksInv /\ DataInv /\ Abs!Init
  BY BlocksInit, ShownInit
<1>2. BlocksInv /\ DataInv /\ [Next]_vars => BlocksInv' /\ DataInv'
  BY BlocksStep, DataStep DEF BlocksInv
<1>3. BlocksInv /\ BlocksInv' /\ DataInv /\ [Next]_vars => [Abs!Next]_(Abs!absvars)
  BY ShownStep, ShownStutters DEF Next
<1> QED
  BY <1>1, <1>2, <1>3, PTL DEF Spec, ImplementsFiles, Abs!Spec

============================================================================
