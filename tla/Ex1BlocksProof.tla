--------------------------- MODULE Ex1BlocksProof ---------------------------
(***************************************************************************)
(* The blocks of the files of the first exercise: each is used once, by    *)
(* one file, and what a call reads or writes is its own.                   *)
(***************************************************************************)
EXTENDS Ex1FilesProof

----------------------------------------------------------------------------
(* Which blocks a file of n bytes needs.                                   *)

BlockRange == 0 .. MAX_BLOCKS - 1

Ids(n) == {id \in {-1} \cup BlockRange : IF id = -1 THEN n > BLOCK_SIZE * NUMBER_DIRECT_BLOCKS
                                                   ELSE BLOCK_SIZE * id < n}

\* The constants as numbers.
LEMMA Numbers ==
  /\ BLOCK_SIZE \in Nat \ {0} /\ NUMBER_DIRECT_BLOCKS \in Nat \ {0} /\ CHAR_MAX \in Nat
  /\ MAX_BLOCKS \in Nat /\ MAXIMUM_FILE_BYTES \in Nat
  /\ MAX_BLOCKS = NUMBER_DIRECT_BLOCKS + BLOCK_SIZE
  /\ MAXIMUM_FILE_BYTES = BLOCK_SIZE * MAX_BLOCKS
BY ConfigAssumption, Ex1Assumption DEF MAXIMUM_FILE_BYTES, MAX_BLOCKS

\* The blocks below a size are those that begin below it.
LEMMA BlocksBelow ==
  ASSUME NEW n \in FileOffsets
  PROVE  /\ \A id : id \in 0 .. ((n + BLOCK_SIZE - 1) \div BLOCK_SIZE) - 1
                 <=> id \in BlockRange /\ BLOCK_SIZE * id < n
         /\ (0 .. ((n + BLOCK_SIZE - 1) \div BLOCK_SIZE) - 1) \cup
              (IF n > NUMBER_DIRECT_BLOCKS * BLOCK_SIZE THEN {-1} ELSE {}) = Ids(n)
<1> DEFINE b == BLOCK_SIZE  q == (n + b - 1) \div b  r == (n + b - 1) % b  S == 0 .. q - 1
<1>1. b \in Nat \ {0} /\ n \in Nat /\ n <= b * MAX_BLOCKS /\ MAX_BLOCKS \in Nat
  BY Numbers DEF FileOffsets
<1>2. q \in Int /\ r \in 0 .. b - 1 /\ n + b - 1 = b * q + r
  BY <1>1, DivMod
<1> HIDE DEF q, r, b
<1>3. ASSUME NEW id \in Nat
      PROVE  id <= q - 1 <=> b * id < n
  <2>1. id < q => b * id + b <= b * q
    BY <1>1, <1>2, NextMultiple
  <2>2. q <= id => b * q <= b * id
    BY <1>1, <1>2, NextMultiple
  <2>3. b * id \in Int /\ b * q \in Int
    BY <1>1, <1>2, NextMultiple
  <2> QED
    BY <1>1, <1>2, <2>1, <2>2, <2>3
<1>4. ASSUME NEW id \in Nat, b * id < n
      PROVE  id < MAX_BLOCKS
  <2>1. MAX_BLOCKS <= id => b * MAX_BLOCKS <= b * id
    BY <1>1, NextMultiple
  <2>2. b * id \in Int /\ b * MAX_BLOCKS \in Int
    BY <1>1, NextMultiple
  <2> QED
    BY <1>1, <1>4, <2>1, <2>2
<1>5. ASSUME NEW id
      PROVE  id \in S <=> id \in BlockRange /\ b * id < n
  BY <1>1, <1>2, <1>3, <1>4 DEF BlockRange
<1>6. n > NUMBER_DIRECT_BLOCKS * b <=> n > b * NUMBER_DIRECT_BLOCKS
  BY <1>1, Numbers
<1>7. -1 \notin BlockRange
  BY DEF BlockRange
<1> HIDE DEF S
<1>8. S \cup (IF n > NUMBER_DIRECT_BLOCKS * b THEN {-1} ELSE {}) = Ids(n)
  BY <1>5, <1>6, <1>7 DEF Ids, b
<1> QED
  BY <1>5, <1>8 DEF S, b, q

\* An empty file needs none.
LEMMA NoIds == Ids(0) = {}
<1>1. \A id \in BlockRange : BLOCK_SIZE * id \in Nat
  BY Numbers DEF BlockRange
<1>2. BLOCK_SIZE * NUMBER_DIRECT_BLOCKS \in Nat
  BY Numbers
<1> QED
  BY <1>1, <1>2 DEF Ids

\* The block of a byte.
LEMMA BlockOfByte ==
  ASSUME NEW o \in FileOffsets
  PROVE  /\ o \div BLOCK_SIZE \in Nat
         /\ BLOCK_SIZE * (o \div BLOCK_SIZE) \in Nat
         /\ o = BLOCK_SIZE * (o \div BLOCK_SIZE) + (o % BLOCK_SIZE)
         /\ o % BLOCK_SIZE \in 0 .. BLOCK_SIZE - 1
         /\ o < MAXIMUM_FILE_BYTES => o \div BLOCK_SIZE \in BlockRange
<1> DEFINE q == o \div BLOCK_SIZE  r == o % BLOCK_SIZE
<1>1. o \in Nat /\ q \in Nat /\ r \in 0 .. BLOCK_SIZE - 1 /\ o = BLOCK_SIZE * q + r
  <2>1. o \in Nat /\ BLOCK_SIZE \in Nat \ {0}
    BY Numbers DEF FileOffsets
  <2>2. r \in 0 .. BLOCK_SIZE - 1 /\ q \in Int /\ o = BLOCK_SIZE * q + r
    BY <2>1, DivMod
  <2>3. \A a \in Nat, b \in Nat \ {0} : a \div b >= 0
    <3> SUFFICES ASSUME NEW a \in Nat, NEW b \in Nat \ {0} PROVE a \div b >= 0
      OBVIOUS
    <3>1. a >= 0 => a \div b >= 0
      BY DivMod
    <3> QED
      BY <3>1
  <2> QED
    BY <2>1, <2>2, <2>3
<1> HIDE DEF q, r
<1>2. BLOCK_SIZE * q \in Nat
  BY <1>1, Numbers
<1>3. MAX_BLOCKS <= q => BLOCK_SIZE * MAX_BLOCKS <= BLOCK_SIZE * q
  BY <1>1, Numbers, NextMultiple
<1>4. o < MAXIMUM_FILE_BYTES => q \in BlockRange
  BY <1>1, <1>2, <1>3, Numbers DEF BlockRange
<1> QED
  BY <1>1, <1>2, <1>4 DEF q, r

\* Blocks are in the order of their first bytes.
LEMMA BlockOrder ==
  ASSUME NEW p \in Int, NEW q \in Int
  PROVE  /\ BLOCK_SIZE * p \in Int
         /\ BLOCK_SIZE * p < BLOCK_SIZE * q <=> p < q
         /\ p < q => BLOCK_SIZE * p + BLOCK_SIZE <= BLOCK_SIZE * q
<1>1. /\ BLOCK_SIZE * p \in Int /\ BLOCK_SIZE * q \in Int
      /\ p < q => BLOCK_SIZE * p + BLOCK_SIZE <= BLOCK_SIZE * q
      /\ q <= p => BLOCK_SIZE * q <= BLOCK_SIZE * p
  BY Numbers, NextMultiple
<1> QED
  BY <1>1, Numbers

----------------------------------------------------------------------------
(* Where the number of a block is kept.                                    *)

Slot(inode, data, id) ==
  IF id = -1 THEN inode.i_data_indirect
  ELSE IF id < NUMBER_DIRECT_BLOCKS THEN inode.i_data_direct[id]
  ELSE data[inode.i_data_indirect][id - NUMBER_DIRECT_BLOCKS]

\* Following the numbers of a disk, and of a file now and after a step.
LEMMA Slots ==
  ASSUME NEW id \in BlockRange
  PROVE  /\ \A disk : get_inode_block(disk, id) = Slot(disk.inode, disk.data, id)
         /\ \A i : get_inode_block(Disk(i), id) = Slot(inode_table[i], fs_data, id)
         /\ \A i : get_inode_block(Disk(i), id)' = Slot(inode_table'[i], fs_data', id)
<1>1. id # -1 /\ valid_inode_block_number(id)
  BY Numbers DEF BlockRange, valid_inode_block_number
<1> QED
  BY <1>1 DEF get_inode_block, Slot, Disk

\* The same with the indirect block.
LEMMA BlockSlots ==
  ASSUME NEW id \in {-1} \cup BlockRange
  PROVE  /\ \A i : BlockOf(i, id) = Slot(inode_table[i], fs_data, id)
         /\ \A i : BlockOf(i, id)' = Slot(inode_table'[i], fs_data', id)
BY Slots DEF BlockOf, Slot, BlockRange

\* Block c becomes block id of a file, and its number does not fit its char.
CutNumber(id, c) == id >= NUMBER_DIRECT_BLOCKS /\ to_char(c) # c

\* What inumber_block_alloc leaves when it follows no null pointer: the blocks it
\* takes were free, and only the number of the block that comes next, and of the
\* indirect block before the first of those it numbers, is stored.
LEMMA AllocNext ==
  ASSUME NEW disk \in Disks, NEW id \in BlockRange, id = disk.inode.i_size \div BLOCK_SIZE,
         id > NUMBER_DIRECT_BLOCKS => /\ disk.inode.i_data_indirect \in Blocks
                                      /\ disk.free[disk.inode.i_data_indirect] = "TAKEN",
         ~NullIndirect(inumber_block_alloc(disk), id),
         NEW new, new = inumber_block_alloc(disk), NEW ind, ind = new.inode.i_data_indirect,
         NEW b, b = get_inode_block(new, id)
  PROVE  /\ \A c \in Blocks : disk.free[c] = "TAKEN" => new.free[c] = "TAKEN"
         /\ \A k \in 0 .. NUMBER_DIRECT_BLOCKS - 1 :
              k # id => new.inode.i_data_direct[k] = disk.inode.i_data_direct[k]
         /\ id # NUMBER_DIRECT_BLOCKS => ind = disk.inode.i_data_indirect
         /\ id >= NUMBER_DIRECT_BLOCKS => ind \in Blocks /\ new.free[ind] = "TAKEN"
         /\ id = NUMBER_DIRECT_BLOCKS => disk.free[ind] = "FREE"
         /\ \A c \in Blocks, k \in Offsets :
              \/ id >= NUMBER_DIRECT_BLOCKS /\ c = ind /\ k = id - NUMBER_DIRECT_BLOCKS
              \/ new.data[c][k] = disk.data[c][k]
         /\ b \in Blocks /\ ~ComesBackAsAnother(disk) =>
              /\ disk.free[b] = "FREE" /\ new.free[b] = "TAKEN"
              /\ id >= NUMBER_DIRECT_BLOCKS => b # ind
         /\ \A c \in Blocks : disk.free[c] # "TAKEN" /\ new.free[c] = "TAKEN" =>
              \/ c = b \/ CutNumber(id, c)
              \/ id = NUMBER_DIRECT_BLOCKS /\ c = ind
<1> DEFINE ND == NUMBER_DIRECT_BLOCKS
           W == WithIndirect(disk, id)
           nb == data_block_taken(W)
<1>0. id \in Nat /\ ND \in Nat \ {0} /\ id < ND + BLOCK_SIZE
  BY Numbers DEF BlockRange
<1>1. new \in Disks
  BY AllocDisk
<1>2. b = Slot(new.inode, new.data, id)
  BY Slots
<1>3. /\ disk.free \in [Blocks -> AllocState] /\ W \in Disks /\ W.free \in [Blocks -> AllocState]
      /\ disk.inode \in Ex1Inode
  BY IndirectDisk DEF Disks
<1>4. CASE id < ND
  <2> DEFINE n == data_block_taken(disk)
             direct == [disk.inode.i_data_direct EXCEPT ![id] = n]
             inode == [disk.inode EXCEPT !.i_data_direct = direct]
  <2>1. new = [disk EXCEPT !.free = TakeFirst(@), !.inode.i_data_direct[id] = n]
    BY <1>4 DEF inumber_block_alloc
  <2>2. new.free = TakeFirst(disk.free) /\ new.data = disk.data /\ new.inode = inode
    BY <2>1 DEF Disks
  <2>3. disk.inode.i_data_direct \in [0 .. ND - 1 -> Blocks \cup {-1}]
    BY <1>3 DEF Ex1Inode
  <2> HIDE DEF n
  <2>4. \A k \in 0 .. ND - 1 : direct[k] = IF k = id THEN n ELSE disk.inode.i_data_direct[k]
    BY <2>3
  <2> HIDE DEF direct
  <2>5. inode.i_data_direct = direct /\ inode.i_data_indirect = disk.inode.i_data_indirect
    BY <1>3 DEF Ex1Inode
  <2> HIDE DEF inode
  <2>6. b = n
    BY <1>0, <1>2, <1>4, <2>2, <2>4, <2>5 DEF Slot
  <2>7. /\ n \in Blocks \cup {-1}
        /\ n # -1 => disk.free[n] = "FREE"
        /\ \A c \in Blocks : new.free[c] = IF c = n THEN "TAKEN" ELSE disk.free[c]
    BY <2>2, BlockTaken DEF n
  <2>8. -1 \notin Blocks /\ ~(id >= ND) /\ id # ND
    BY <1>0, <1>4 DEF Blocks
  <2>9. \A k \in 0 .. ND - 1 : k # id => new.inode.i_data_direct[k] = disk.inode.i_data_direct[k]
    BY <2>2, <2>4, <2>5
  <2> QED
    BY <1>0, <2>2, <2>5, <2>6, <2>7, <2>8, <2>9
<1>5. CASE ~(id < ND)
  <2>1. ~NullIndirect(W, id)
    <3>1. NullIndirect(W, id) => new = W
      BY <1>5 DEF inumber_block_alloc
    <3> QED
      BY <3>1
  <2>2. new = AllocIndirect(W, id - ND)
    BY <1>5, <2>1 DEF inumber_block_alloc
  <2>3. valid_block_number(W.inode.i_data_indirect) /\ id - ND \in Offsets
    BY <1>0, <1>5, <2>1, Numbers DEF NullIndirect, Offsets
  <2>4. /\ new.inode = W.inode /\ new.free = TakeFirst(W.free)
        /\ \A c \in Blocks, j \in Offsets :
             new.data[c][j] = IF c = W.inode.i_data_indirect /\ j = id - ND THEN to_char(nb)
                                                                        ELSE W.data[c][j]
    <3>1. PICK m : m = id - ND /\ m \in Int /\ m \in Offsets
      BY <1>0, <2>3
    <3>2. PICK X : X = W /\ X \in Disks /\ valid_block_number(X.inode.i_data_indirect)
      BY <1>3, <2>3
    <3>3. PICK Y : Y = AllocIndirect(X, m) /\ Y = new
      BY <2>2, <3>1, <3>2
    <3>4. /\ Y.inode = X.inode /\ Y.free = TakeFirst(X.free)
          /\ \A c \in Blocks, j \in Offsets : Y.data[c][j] =
               IF c = X.inode.i_data_indirect /\ j = m THEN to_char(data_block_taken(X))
                                                      ELSE X.data[c][j]
      <4> HIDE DEF W
      <4>1. m \in Int /\ X \in Disks /\ valid_block_number(X.inode.i_data_indirect)
        BY <3>1, <3>2
      <4>2. /\ AllocIndirect(X, m).inode = X.inode
            /\ AllocIndirect(X, m).free = TakeFirst(X.free)
            /\ \A c \in Blocks, j \in Offsets : AllocIndirect(X, m).data[c][j] =
                 IF c = X.inode.i_data_indirect /\ j = m THEN to_char(data_block_taken(X))
                                                        ELSE X.data[c][j]
        BY <4>1, NumberedDisk, Zenon
      <4> QED
        BY <3>3, <4>2
    <3>5. Y.inode = W.inode /\ Y.free = TakeFirst(W.free)
      BY <3>2, <3>4
    <3>6. \A c \in Blocks, j \in Offsets :
            Y.data[c][j] = IF c = W.inode.i_data_indirect /\ j = id - ND THEN to_char(nb)
                                                                       ELSE W.data[c][j]
      BY <3>1, <3>2, <3>4
    <3> QED
      BY <3>3, <3>5, <3>6
  <2>5. ind = W.inode.i_data_indirect /\ ind \in Blocks
    BY <2>3, <2>4 DEF valid_block_number
  <2>6. b = to_char(nb)
    <3>1. b = new.data[ind][id - ND]
      BY <1>0, <1>2, <1>5 DEF Slot
    <3> QED
      BY <2>3, <2>4, <2>5, <3>1
  <2>7. /\ nb \in Blocks \cup {-1}
        /\ nb # -1 => W.free[nb] = "FREE"
        /\ \A c \in Blocks : new.free[c] = IF c = nb THEN "TAKEN" ELSE W.free[c]
    BY <1>3, <2>4, BlockTaken
  <2>8. /\ W.data = disk.data /\ W.inode.i_data_direct = disk.inode.i_data_direct
        /\ id # ND => W = disk
    BY IndirectDisk
  <2>9. id = ND => /\ disk.free[ind] = "FREE"
                   /\ \A c \in Blocks : W.free[c] = IF c = ind THEN "TAKEN" ELSE disk.free[c]
    <3> SUFFICES ASSUME id = ND
                 PROVE  /\ disk.free[ind] = "FREE"
                        /\ \A c \in Blocks : W.free[c] = IF c = ind THEN "TAKEN" ELSE disk.free[c]
      OBVIOUS
    <3>1. W.free = TakeFirst(disk.free) /\ ind = data_block_taken(disk)
      BY <2>5, IndirectDisk
    <3>2. -1 \notin Blocks
      BY DEF Blocks
    <3> QED
      BY <2>5, <3>1, <3>2, BlockTaken
  <2>10. b \in Blocks /\ ~ComesBackAsAnother(disk) => nb = b
    <3>1. ~ComesBackAsAnother(disk) => to_char(nb) = nb \/ ~valid_block_number(to_char(nb))
      BY <1>0, <1>5 DEF ComesBackAsAnother
    <3> QED
      BY <2>6, <3>1 DEF valid_block_number
  <2>11. nb # b => to_char(nb) # nb
    BY <2>6
  <2>12. id # ND => id > ND /\ disk.free[ind] = "TAKEN"
    BY <1>0, <1>5, <2>5, <2>8
  <2>13. W.free[ind] = "TAKEN" /\ -1 \notin Blocks
    BY <2>5, <2>8, <2>9, <2>12 DEF Blocks
  <2>14. \A c \in Blocks : W.free[c] = IF id = ND /\ c = ind THEN "TAKEN" ELSE disk.free[c]
    BY <2>8, <2>9
  <2>15. nb # ind
    BY <2>5, <2>7, <2>13
  <2>16. id >= ND
    BY <1>0, <1>5
  <2> HIDE DEF W, nb
  <2>17. /\ \A c \in Blocks : disk.free[c] = "TAKEN" => new.free[c] = "TAKEN"
         /\ new.free[ind] = "TAKEN"
    BY <2>5, <2>7, <2>13, <2>14
  <2>18. /\ new.inode.i_data_direct = disk.inode.i_data_direct
         /\ id # ND => ind = disk.inode.i_data_indirect
         /\ \A c \in Blocks, k \in Offsets :
              (c = ind /\ k = id - ND) \/ new.data[c][k] = disk.data[c][k]
    BY <2>4, <2>5, <2>8
  <2>19. b \in Blocks /\ ~ComesBackAsAnother(disk) =>
           disk.free[b] = "FREE" /\ new.free[b] = "TAKEN" /\ b # ind
    BY <2>7, <2>10, <2>13, <2>14, <2>15
  <2>20. \A c \in Blocks : disk.free[c] # "TAKEN" /\ new.free[c] = "TAKEN" =>
           c = b \/ to_char(c) # c \/ (id = ND /\ c = ind)
    BY <2>7, <2>11, <2>13, <2>14
  <2> QED
    BY <2>5, <2>9, <2>16, <2>17, <2>18, <2>19, <2>20 DEF CutNumber
<1> QED
  BY <1>0, <1>4, <1>5

----------------------------------------------------------------------------
(* Who claims which block.                                                 *)

\* A writer that has filled a block, and not yet moved the size past it.
Pending(t) == frame[t].at = "advance" /\ Writing(t)

\* What the file of such a writer will need.
PendingIds(t) == {BlockId(t)} \cup (IF BlockId(t) >= NUMBER_DIRECT_BLOCKS THEN {-1} ELSE {})

Claimed(i, id) ==
  \/ id \in Needs(i)
  \/ \E t \in Threads : Pending(t) /\ Inum(t) = i /\ id \in PendingIds(t)

\* BlockOwnership, in a form that each step of a writer keeps.
OwnInv == ~Astray =>
  \A i \in Inumbers, id \in {-1} \cup BlockRange : IsTaken(i) /\ Claimed(i, id) =>
    /\ BlockOf(i, id) \in Blocks /\ free_blocks[BlockOf(i, id)] = "TAKEN"
    /\ \A j \in Inumbers, k \in {-1} \cup BlockRange :
         IsTaken(j) /\ Claimed(j, k) /\ BlockOf(i, id) = BlockOf(j, k) => i = j /\ id = k

BlocksInv == FilesInv /\ InsideInv /\ OwnInv

\* Two claims to the same block are one.
LEMMA ClaimedOnce ==
  ASSUME OwnInv, ~Astray, NEW i \in Inumbers, NEW j \in Inumbers, NEW id \in {-1} \cup BlockRange,
         NEW k \in {-1} \cup BlockRange, IsTaken(i), Claimed(i, id), IsTaken(j), Claimed(j, k)
  PROVE  /\ BlockOf(i, id) \in Blocks /\ free_blocks[BlockOf(i, id)] = "TAKEN"
         /\ BlockOf(i, id) = BlockOf(j, k) => i = j /\ id = k
BY DEF OwnInv

\* What a file needs, now and after a step.
LEMMA NeedsAre ==
  ASSUME FilesInv, NEW i \in Inumbers
  PROVE  /\ Needs(i) = Ids(inode_table[i].i_size)
         /\ BlockIds(i) \subseteq Needs(i) \cap BlockRange
         /\ Needs(i) \ {-1} \subseteq BlockIds(i)
         /\ inode_table[i].i_size \in FileOffsets
         /\ FilesInv' => /\ Needs(i)' = Ids(inode_table'[i].i_size)
                         /\ inode_table'[i].i_size \in FileOffsets
<1>1. inode_table[i].i_size \in FileOffsets
  BY DEF FilesInv, TablesOK, Ex1Inode, FileOffsets
<1>2. FilesInv' => inode_table'[i].i_size \in FileOffsets
  <2> SUFFICES ASSUME FilesInv' PROVE inode_table'[i].i_size \in FileOffsets
    OBVIOUS
  <2>1. inode_table' \in [Inumbers -> Ex1Inode]
    BY DEF FilesInv, TablesOK
  <2> QED
    BY <2>1 DEF Ex1Inode, FileOffsets
<1>3. Needs(i) = Ids(inode_table[i].i_size)
  BY <1>1, BlocksBelow DEF Needs, BlockIds
<1>4. FilesInv' => Needs(i)' = Ids(inode_table'[i].i_size)
  BY <1>2, BlocksBelow DEF Needs, BlockIds
<1>5. BlockIds(i) \subseteq BlockRange
  BY <1>1, BlocksBelow DEF BlockIds
<1> QED
  BY <1>1, <1>2, <1>3, <1>4, <1>5 DEF Needs

\* The place of a call in its file.
LEMMA CallPlace ==
  ASSUME FilesInv, NEW t \in Threads, Inside(frame[t]), frame[t].done < frame[t].todo
  PROVE  /\ Offset(t) \in FileOffsets /\ Offset(t) < MAXIMUM_FILE_BYTES
         /\ BlockId(t) \in BlockRange
         /\ BLOCK_SIZE * BlockId(t) \in Nat
         /\ Offset(t) = BLOCK_SIZE * BlockId(t) + (Offset(t) % BLOCK_SIZE)
         /\ Offset(t) % BLOCK_SIZE \in Offsets
         /\ Offset(t) + Piece(t) > BLOCK_SIZE * BlockId(t)
         /\ Offset(t) + Piece(t) <= BLOCK_SIZE * BlockId(t) + BLOCK_SIZE
         /\ Piece(t) \in Nat \ {0}
<1>1. /\ frame[t].at \in {"loop", "advance"} /\ Offset(t) = frame[t].offset + frame[t].done
      /\ frame[t].offset \in Nat /\ frame[t].todo \in Nat /\ frame[t].done \in Nat
      /\ frame[t].offset + frame[t].todo <= MAXIMUM_FILE_BYTES
  BY DEF FilesInv, CallsOK, CallOK, Inside
<1>2. Offset(t) \in FileOffsets
  BY <1>1, AtFile DEF FilesInv
<1>3. Offset(t) < MAXIMUM_FILE_BYTES
  BY <1>1, Numbers
<1>4. /\ BlockId(t) \in BlockRange /\ BLOCK_SIZE * BlockId(t) \in Nat
      /\ Offset(t) = BLOCK_SIZE * BlockId(t) + (Offset(t) % BLOCK_SIZE)
  BY <1>2, <1>3, BlockOfByte DEF BlockId
<1>5. /\ Piece(t) \in Nat \ {0} /\ (Offset(t) % BLOCK_SIZE) + Piece(t) <= BLOCK_SIZE
      /\ Offset(t) % BLOCK_SIZE \in Offsets
  BY PieceFits
<1>6. \A r \in Offsets, m \in Nat, p \in Nat \ {0} :
        r + p <= BLOCK_SIZE => (m + r) + p > m /\ (m + r) + p <= m + BLOCK_SIZE
  BY Numbers DEF Offsets
<1> QED
  BY <1>2, <1>3, <1>4, <1>5, <1>6

\* A pending writer claims blocks of its range.
LEMMA PendingPlace ==
  ASSUME FilesInv, NEW t \in Threads, Pending(t)
  PROVE  /\ Inside(frame[t]) /\ frame[t].done < frame[t].todo
         /\ IsFile(Inum(t)) /\ frame[t].h \in Handles /\ Open(frame[t].h)
         /\ t \in lock_inumber[Inum(t)]["writers"]
         /\ PendingIds(t) \subseteq {-1} \cup BlockRange
<1>1. frame[t].at = "advance" /\ Inside(frame[t]) /\ Writing(t)
  BY DEF Pending, Inside
<1>2. frame[t].done < frame[t].todo
  BY <1>1 DEF FilesInv, CallsOK, CallOK
<1>3. BlockId(t) \in BlockRange
  BY <1>1, <1>2, CallPlace
<1> QED
  BY <1>1, <1>2, <1>3, AtFile DEF FilesInv, ExclusionInv, PendingIds

\* What is claimed is in the range of a file's blocks; what needs the indirect
\* block claims it.
LEMMA ClaimsInRange ==
  ASSUME FilesInv, NEW i \in Inumbers, NEW id, Claimed(i, id)
  PROVE  /\ id \in {-1} \cup BlockRange
         /\ id >= NUMBER_DIRECT_BLOCKS => Claimed(i, -1)
<1>1. CASE id \in Needs(i)
  <2>1. id \in Ids(inode_table[i].i_size) /\ inode_table[i].i_size \in Nat
    BY <1>1, NeedsAre DEF FileOffsets
  <2>2. id \in {-1} \cup BlockRange
    BY <2>1 DEF Ids
  <2>3. ASSUME id >= NUMBER_DIRECT_BLOCKS
        PROVE  -1 \in Needs(i)
    <3>1. id # -1 /\ id \in Nat
      BY <2>2, <2>3, Numbers DEF BlockRange
    <3>2. BLOCK_SIZE * id < inode_table[i].i_size
      BY <2>1, <3>1 DEF Ids
    <3>3. BLOCK_SIZE * NUMBER_DIRECT_BLOCKS <= BLOCK_SIZE * id
      BY <2>3, <3>1, Numbers, NextMultiple
    <3>4. BLOCK_SIZE * NUMBER_DIRECT_BLOCKS \in Int /\ BLOCK_SIZE * id \in Int
      BY <3>1, Numbers, NextMultiple
    <3>5. -1 \in Ids(inode_table[i].i_size)
      BY <2>1, <3>2, <3>3, <3>4 DEF Ids
    <3> QED
      BY <3>5, NeedsAre
  <2> QED
    BY <2>2, <2>3 DEF Claimed
<1>2. ASSUME NEW t \in Threads, Pending(t), Inum(t) = i, id \in PendingIds(t)
      PROVE  /\ id \in {-1} \cup BlockRange
             /\ id >= NUMBER_DIRECT_BLOCKS => Claimed(i, -1)
  <2>1. id \in {-1} \cup BlockRange
    BY <1>2, PendingPlace
  <2>2. id >= NUMBER_DIRECT_BLOCKS => -1 \in PendingIds(t)
    <3>1. ~(-1 >= NUMBER_DIRECT_BLOCKS)
      BY Numbers
    <3> QED
      BY <1>2, <3>1 DEF PendingIds
  <2> QED
    BY <1>2, <2>1, <2>2 DEF Claimed
<1> QED
  BY <1>1, <1>2 DEF Claimed

\* The blocks a call has to do with are those of its file, but for a writer at
\* the end of the last one.
LEMMA InItsFile ==
  ASSUME FilesInv, NEW t \in Threads, Inside(frame[t]), frame[t].done < frame[t].todo,
         Offset(t) <= Size(t), ~Allocates(t)
  PROVE  /\ BlockId(t) \in Needs(Inum(t))
         /\ BlockId(t) >= NUMBER_DIRECT_BLOCKS => -1 \in Needs(Inum(t))
<1> DEFINE o == Offset(t)  n == Size(t)  id == BlockId(t)
<1>1. /\ o \in FileOffsets /\ n \in FileOffsets /\ id \in BlockRange /\ Inum(t) \in Inumbers
      /\ BLOCK_SIZE * id \in Nat /\ o = BLOCK_SIZE * id + (o % BLOCK_SIZE)
      /\ o % BLOCK_SIZE \in Offsets
  BY CallPlace, AtFile DEF FilesInv, Inside
<1>2. BLOCK_SIZE * id < n
  <2>1. CASE o < n
    BY <1>1, <2>1 DEF FileOffsets, Offsets
  <2>2. CASE o = n
    <3>1. o % BLOCK_SIZE # 0
      BY <2>2 DEF Allocates
    <3> HIDE DEF o, n, id
    <3> QED
      BY <1>1, <2>2, <3>1 DEF FileOffsets, Offsets
  <2> QED
    BY <1>1, <2>1, <2>2 DEF FileOffsets
<1>3. id \in Ids(n)
  BY <1>1, <1>2 DEF Ids, BlockRange
<1>4. id \in Needs(Inum(t))
  BY <1>1, <1>3, NeedsAre DEF Size
<1>5. id >= NUMBER_DIRECT_BLOCKS => -1 \in Ids(n)
  <2>1. ASSUME id >= NUMBER_DIRECT_BLOCKS
        PROVE  BLOCK_SIZE * NUMBER_DIRECT_BLOCKS < n
    <3> HIDE DEF o, n, id
    <3>1. id \in Int
      BY <1>1 DEF BlockRange
    <3>2. BLOCK_SIZE * NUMBER_DIRECT_BLOCKS <= BLOCK_SIZE * id
      BY <2>1, <3>1, Numbers, NextMultiple
    <3>3. BLOCK_SIZE * NUMBER_DIRECT_BLOCKS \in Int
      BY Numbers, NextMultiple
    <3> QED
      BY <1>1, <1>2, <3>2, <3>3 DEF FileOffsets
  <2>2. BLOCK_SIZE * NUMBER_DIRECT_BLOCKS \in Int /\ n \in Int
    BY <1>1, Numbers, NextMultiple DEF FileOffsets
  <2> QED
    BY <2>1, <2>2 DEF Ids
<1> QED
  BY <1>1, <1>4, <1>5, NeedsAre DEF Size

----------------------------------------------------------------------------
(* What the steps do to the claims.                                        *)

\* A claim that was there before a step, and whose block is still taken.
Kept(i, id) ==
  /\ IsTaken(i) /\ Claimed(i, id)
  /\ BlockOf(i, id)' = BlockOf(i, id) /\ free_blocks'[BlockOf(i, id)] = "TAKEN"

\* A claim to a block that was not taken before a step, and is now.
Fresh(i, id) ==
  LET b == BlockOf(i, id)' IN b \in Blocks /\ free_blocks[b] # "TAKEN" /\ free_blocks'[b] = "TAKEN"

\* A step that keeps the claims, or makes new ones to different fresh blocks,
\* keeps the ownership of blocks.
LEMMA OwnMoves ==
  ASSUME OwnInv, ~Astray' => ~Astray,
         ~Astray' => \A i \in Inumbers, id \in {-1} \cup BlockRange :
           IsTaken(i)' /\ Claimed(i, id)' => Kept(i, id) \/ Fresh(i, id),
         ~Astray' => \A i, j \in Inumbers, id, k \in {-1} \cup BlockRange :
           /\ IsTaken(i)' /\ Claimed(i, id)' /\ Fresh(i, id)
           /\ IsTaken(j)' /\ Claimed(j, k)' /\ Fresh(j, k)
           /\ BlockOf(i, id)' = BlockOf(j, k)'
           => i = j /\ id = k
  PROVE  OwnInv'
<1> SUFFICES ASSUME ~Astray', NEW i \in Inumbers, NEW id \in {-1} \cup BlockRange,
                    IsTaken(i)', Claimed(i, id)'
             PROVE  /\ BlockOf(i, id)' \in Blocks /\ free_blocks'[BlockOf(i, id)'] = "TAKEN"
                    /\ \A j \in Inumbers, k \in {-1} \cup BlockRange :
                         IsTaken(j)' /\ Claimed(j, k)' /\ BlockOf(i, id)' = BlockOf(j, k)'
                           => i = j /\ id = k
  BY DEF OwnInv, Blocks
<1>1. \A j \in Inumbers, k \in {-1} \cup BlockRange : Kept(j, k) =>
        /\ BlockOf(j, k)' \in Blocks /\ free_blocks[BlockOf(j, k)'] = "TAKEN"
        /\ free_blocks'[BlockOf(j, k)'] = "TAKEN"
  BY DEF OwnInv, Kept
<1>2. \A j, m \in Inumbers, k, n \in {-1} \cup BlockRange :
        Kept(j, k) /\ Kept(m, n) /\ BlockOf(j, k)' = BlockOf(m, n)' => j = m /\ k = n
  <2> SUFFICES ASSUME NEW j \in Inumbers, NEW m \in Inumbers, NEW k \in {-1} \cup BlockRange,
                      NEW n \in {-1} \cup BlockRange, Kept(j, k), Kept(m, n),
                      BlockOf(j, k)' = BlockOf(m, n)'
               PROVE  j = m /\ k = n
    OBVIOUS
  <2>1. /\ IsTaken(j) /\ Claimed(j, k) /\ IsTaken(m) /\ Claimed(m, n)
        /\ BlockOf(j, k) = BlockOf(m, n)
    BY DEF Kept
  <2> QED
    BY <2>1, ClaimedOnce
<1>3. \A j \in Inumbers, k \in {-1} \cup BlockRange : Fresh(j, k) =>
        /\ BlockOf(j, k)' \in Blocks /\ free_blocks[BlockOf(j, k)'] # "TAKEN"
        /\ free_blocks'[BlockOf(j, k)'] = "TAKEN"
  BY DEF Fresh
<1> QED
  BY <1>1, <1>2, <1>3

\* The numbers of a file's blocks change when a writer writes, and only then.
LEMMA NumbersKept ==
  ASSUME FilesInv, NEW t \in Threads, Step(t) \/ Call(t), ~WriteBlock(t)
  PROVE  /\ fs_data' = fs_data
         /\ \A i \in Inumbers :
              /\ inode_table'[i].i_data_direct = inode_table[i].i_data_direct
              /\ inode_table'[i].i_data_indirect = inode_table[i].i_data_indirect
         /\ \A i \in Inumbers, id \in {-1} \cup BlockRange : BlockOf(i, id)' = BlockOf(i, id)
         /\ free_blocks' = free_blocks \/ Truncate(t)
         /\ wrapped' = wrapped
<1> DEFINE Same(table) == \A i \in Inumbers :
             /\ table[i].i_data_direct = inode_table[i].i_data_direct
             /\ table[i].i_data_indirect = inode_table[i].i_data_indirect
<1>0. inode_table \in [Inumbers -> Ex1Inode]
  BY DEF FilesInv, TablesOK
<1>2. fs_data' = fs_data /\ wrapped' = wrapped /\ (free_blocks' = free_blocks \/ Truncate(t))
  <2>1. CASE Step(t)
    BY <2>1 DEF Step, LockExisting, Truncate, Position, Create, CreateFails, Add, LockHandle,
       LockForWrite, LockForRead, Locks, ReadBlock, Advance, Return, CopyOpens, LooksUp, CopySize,
       state_vars, inode_vars, block_vars, history
  <2>2. CASE Call(t)
    BY <2>2, CallEffect DEF FilesInv, inode_vars, block_vars
  <2> QED
    BY <2>1, <2>2
<1>3. ASSUME NEW i \in Inumbers, NEW n \in FileOffsets,
             inode_table' = [inode_table EXCEPT ![i].i_size = n]
      PROVE  Same(inode_table')
  BY <1>0, <1>3, SizeSet
<1>4. ASSUME Truncate(t)
      PROVE  Same(inode_table')
  <2>1. frame[t].inum \in Inumbers /\ 0 \in FileOffsets
    BY <1>4, MaximumIsNat DEF Truncate, At, FilesInv, Ex1Inv, FrameOK, IsFile, FileOffsets
  <2>2. \/ inode_table' = [inode_table EXCEPT ![frame[t].inum].i_size = 0]
        \/ inode_table' = inode_table
    BY <1>4 DEF Truncate
  <2> QED
    BY <1>3, <2>1, <2>2
<1>5. ASSUME Create(t) \/ CreateFails(t)
      PROVE  Same(inode_table')
  <2>1. inode_table' = inode_table \/ (inode_create # -1 /\ inode_table' = Created(inode_create))
    BY <1>5 DEF Create, CreateFails
  <2>2. inode_create # -1 => inode_create \in Inumbers
    BY TakeFirstAt DEF FilesInv, Ex1Inv, DirectoryInv, inode_create
  <2> QED
    BY <1>0, <2>1, <2>2, CreatedTable
<1>6. ASSUME Advance(t)
      PROVE  Same(inode_table')
  <2> DEFINE offset == Offset(t) + Piece(t)
  <2>1. /\ inode_table' = [inode_table EXCEPT ![Inum(t)].i_size = IF offset > @ THEN offset ELSE @]
        /\ frame[t].at = "advance"
    BY <1>6 DEF Advance, At
  <2>2. Inum(t) \in Inumbers /\ Size(t) \in FileOffsets /\ offset \in FileOffsets
    BY <2>1, AtFile, AdvanceFits DEF FilesInv
  <2> HIDE DEF offset
  <2>3. PICK n \in FileOffsets : inode_table' = [inode_table EXCEPT ![Inum(t)].i_size = n]
    BY <1>0, <2>1, <2>2 DEF Size
  <2> QED
    BY <1>3, <2>2, <2>3
<1>7. ASSUME Step(t) /\ ~Truncate(t) /\ ~Create(t) /\ ~CreateFails(t) /\ ~Advance(t)
      PROVE  Same(inode_table')
  <2>1. inode_table' = inode_table
    BY <1>7 DEF Step, LockExisting, Position, Add, LockHandle, LockForWrite, LockForRead, Locks,
       ReadBlock, Return, CopyOpens, LooksUp, CopySize, state_vars, inode_vars
  <2> QED
    BY <2>1
<1>8. Same(inode_table')
  <2>1. Call(t) => inode_table' = inode_table
    BY CallEffect DEF FilesInv, inode_vars
  <2> QED
    BY <1>4, <1>5, <1>6, <1>7, <2>1
<1>9. ASSUME NEW i \in Inumbers, NEW id \in {-1} \cup BlockRange
      PROVE  BlockOf(i, id)' = BlockOf(i, id)
  <2>1. Slot(inode_table'[i], fs_data', id) = Slot(inode_table[i], fs_data, id)
    BY <1>2, <1>8 DEF Slot
  <2> QED
    BY <2>1, BlockSlots
<1> QED
  BY <1>2, <1>8, <1>9

\* What went astray does not come back.
LEMMA NotAstray ==
  ASSUME FilesInv, NEW t \in Threads, Step(t) \/ Call(t), ~Astray'
  PROVE  ~Astray /\ ~undercut'
<1>1. ~undercut
  <2>1. ROOT_DIR_INUM \in Inumbers /\ freeinode_ts[ROOT_DIR_INUM] = "TAKEN"
    BY RootIsInode DEF FilesInv, Ex1Inv, DirectoryInv
  <2> QED
    BY <2>1, SizesShrink DEF Astray
<1>2. ~wrapped
  <2>1. WriteBlock(t) =>
          \/ wrapped' = wrapped
          \/ wrapped' = (wrapped \/ (Allocates(t) /\ ComesBackAsAnother(Disk(Inum(t)))))
    BY DEF WriteBlock
  <2> QED
    BY <2>1, NumbersKept DEF Astray
<1> QED
  BY <1>1, <1>2 DEF Astray

\* A call that is about to advance has just filled or read a block.
LEMMA BecomesPending ==
  ASSUME FilesInv, NEW t \in Threads, Step(t) \/ Call(t), frame'[t].at = "advance"
  PROVE  \/ WriteBlock(t) /\ frame[t].at = "loop" /\ GoesTo(t, "advance", {})
         \/ ReadBlock(t) /\ frame[t].at = "loop" /\ GoesTo(t, "advance", {"buffer"})
<1>0. Ex1Inv /\ Idle.at = "idle"
  BY DEF FilesInv, Idle
<1>1. ~Call(t)
  BY <1>0, CallEffect
<1>2. ~LockExisting(t) /\ ~Truncate(t) /\ ~Position(t) /\ ~Create(t) /\ ~CreateFails(t)
  BY <1>0, OpenEffects DEF GoesTo
<1>3. ~Add(t) /\ ~CopyOpens(t) /\ ~CopySize(t) /\ ~LockHandle(t) /\ ~Return(t) /\ ~Advance(t)
  BY <1>0, HandleEffects, AccessEffects DEF GoesTo
<1>4. ~LockForWrite(t) /\ ~LockForRead(t)
  BY <1>0, LocksFit, AccessEffects DEF GoesTo
<1>5. WriteBlock(t) => frame[t].at = "loop" /\ GoesTo(t, "advance", {})
  <2> SUFFICES ASSUME WriteBlock(t) PROVE frame[t].at = "loop" /\ GoesTo(t, "advance", {})
    OBVIOUS
  <2>1. frame[t].at = "loop" /\ (frame' = frame \/ GoesTo(t, "advance", {}) \/ frame'[t] = Idle)
    BY <1>0, AccessEffects
  <2> QED
    BY <1>0, <2>1
<1>6. ReadBlock(t) => frame[t].at = "loop" /\ GoesTo(t, "advance", {"buffer"})
  BY <1>0, AccessEffects
<1> QED
  BY <1>1, <1>2, <1>3, <1>4, <1>5, <1>6 DEF Step

\* What is read was there when the call began.
LEMMA ReadsInside ==
  ASSUME FilesInv, InsideInv, ~undercut, NEW t \in Threads, frame[t].at = "advance", ~Writing(t)
  PROVE  Offset(t) + Piece(t) <= Size(t)
<1>1. frame[t].offset + frame[t].todo <= Size(t)
  BY DEF InsideInv, Inside
<1>2. /\ Piece(t) \in Nat /\ frame[t].done + Piece(t) <= frame[t].todo
      /\ Offset(t) + Piece(t) = frame[t].offset + (frame[t].done + Piece(t))
  BY AdvanceFits
<1>3. frame[t].offset \in Nat /\ frame[t].todo \in Nat /\ frame[t].done \in Nat
  BY DEF FilesInv, CallsOK, CallOK, Inside
<1>4. Size(t) \in Nat
  BY AtFile DEF FilesInv, FileOffsets
<1> QED
  BY <1>1, <1>2, <1>3, <1>4

\* A writer of a file is alone in it.
LEMMA WriterAlone ==
  ASSUME FilesInv, NEW t \in Threads, NEW u \in Threads, Pending(u),
         \/ frame[t].at \in {"truncate", "position"} /\ frame[t].inum = Inum(u)
         \/ Inside(frame[t]) /\ Inum(t) = Inum(u)
  PROVE  t = u
<1>1. u \in lock_inumber[Inum(u)]["writers"] /\ Inum(u) \in Inumbers
  BY PendingPlace DEF IsFile
<1>2. Has(lock_inumber, t, Inum(u))
  BY <1>1 DEF FilesInv, Ex1Inv, LocksInv, WantsInode, Inside, Inum
<1>3. DOMAIN lock_inumber = Inumbers
  BY DEF FilesInv, Ex1Inv, LocksInv
<1> QED
  BY <1>1, <1>2, <1>3 DEF FilesInv, ExclusionInv, Exclusive

\* What a writer's file needs after its advance, it needed or the writer claimed.
LEMMA AdvanceClaims ==
  ASSUME FilesInv, NEW t \in Threads, Pending(t), Offset(t) <= Size(t),
         NEW id \in Ids(Offset(t) + Piece(t))
  PROVE  Claimed(Inum(t), id)
<1> DEFINE o == Offset(t)  n == Size(t)  q == BlockId(t)  new == Offset(t) + Piece(t)
<1>1. /\ q \in BlockRange /\ BLOCK_SIZE * q \in Nat /\ new <= BLOCK_SIZE * q + BLOCK_SIZE
      /\ o = BLOCK_SIZE * q + (o % BLOCK_SIZE) /\ o % BLOCK_SIZE \in Offsets
      /\ new \in Nat /\ n \in Nat /\ Inum(t) \in Inumbers
  <2>1. Inside(frame[t]) /\ frame[t].done < frame[t].todo /\ frame[t].at = "advance"
    BY PendingPlace DEF Pending
  <2>2. n \in Nat /\ new \in Nat /\ Inum(t) \in Inumbers
    BY <2>1, AtFile, AdvanceFits DEF FilesInv, FileOffsets
  <2> QED
    BY <2>1, <2>2, CallPlace
<1>2. BLOCK_SIZE * q <= n /\ q \in Nat
  BY <1>1 DEF Offsets, BlockRange
<1> HIDE DEF o, n, q, new
<1>3. CASE id = -1
  <2>1. BLOCK_SIZE * NUMBER_DIRECT_BLOCKS < new
    BY <1>3 DEF Ids, new
  <2>2. /\ BLOCK_SIZE * NUMBER_DIRECT_BLOCKS \in Int
        /\ q < NUMBER_DIRECT_BLOCKS => BLOCK_SIZE * q + BLOCK_SIZE <= BLOCK_SIZE * NUMBER_DIRECT_BLOCKS
    BY <1>2, Numbers, BlockOrder
  <2>3. q >= NUMBER_DIRECT_BLOCKS
    BY <1>1, <1>2, <2>1, <2>2, Numbers
  <2> QED
    BY <1>3, <2>3 DEF Claimed, PendingIds, q
<1>4. CASE id # -1
  <2>1. id \in BlockRange /\ id \in Nat /\ BLOCK_SIZE * id < new
    BY <1>4 DEF Ids, BlockRange, new
  <2>2. BLOCK_SIZE * id \in Int /\ (q < id => BLOCK_SIZE * q + BLOCK_SIZE <= BLOCK_SIZE * id)
        /\ (id < q => BLOCK_SIZE * id < BLOCK_SIZE * q)
    BY <1>2, <2>1, BlockOrder
  <2>3. CASE id = q
    BY <2>3 DEF Claimed, PendingIds, q
  <2>4. CASE id # q
    <3>1. BLOCK_SIZE * id < n
      BY <1>1, <1>2, <2>1, <2>2, <2>4, Numbers
    <3>2. id \in Ids(n)
      BY <1>4, <2>1, <3>1 DEF Ids
    <3> QED
      BY <1>1, <3>2, NeedsAre DEF Claimed, Size, n
  <2> QED
    BY <2>3, <2>4
<1> QED
  BY <1>3, <1>4

\* But for writing a block, no step adds a claim.
LEMMA ClaimsFewer ==
  ASSUME FilesInv, FilesInv', InsideInv, ~undercut', NEW t \in Threads, Step(t) \/ Call(t),
         ~WriteBlock(t), NEW i \in Inumbers, NEW id \in {-1} \cup BlockRange,
         IsTaken(i)', Claimed(i, id)'
  PROVE  IsTaken(i) /\ Claimed(i, id)
<1>0. Ids(0) = {}
  BY NoIds
<1>1. CASE id \in Needs(i)'
  <2>1. id \in Ids(inode_table'[i].i_size)
    BY <1>1, NeedsAre
  <2>2. freeinode_ts[i] \in AllocState /\ inode_table[i].i_size \in FileOffsets
    BY NeedsAre DEF FilesInv, Ex1Inv, DirectoryInv
  <2>3. inode_table'[i].i_size # 0
    BY <1>0, <2>1
  <2>4. CASE inode_table'[i].i_size = inode_table[i].i_size
    <3>1. Claimed(i, id)
      BY <2>1, <2>4, NeedsAre DEF Claimed
    <3>2. IsTaken(i)
      <4>1. freeinode_ts' = freeinode_ts \/ Create(t)
        BY DEF Step, Call, LockExisting, Truncate, Position, CreateFails, Add, LockHandle, LockForWrite,
           LockForRead, Locks, WriteBlock, ReadBlock, Advance, Return, CopyOpens, LooksUp, CopySize,
           tfs_destroy, tfs_lookup, tfs_copy_to_external_fs, tfs_open, tfs_close, tfs_write, tfs_read,
           Begins, state_vars, inode_vars
      <4>2. CASE Create(t)
        <5>1. /\ freeinode_ts' = TakeFirst(freeinode_ts) /\ inode_table' = Created(inode_create)
              /\ inode_create # -1
          BY <4>2 DEF Create
        <5>2. freeinode_ts \in [Inumbers -> AllocState]
          BY DEF FilesInv, Ex1Inv, DirectoryInv
        <5>3. inode_create \in Inumbers /\ (i # inode_create => freeinode_ts'[i] = freeinode_ts[i])
          BY <5>1, <5>2, TakeFirstAt DEF inode_create
        <5>4. inode_table'[inode_create].i_size = 0
          BY <5>1, <5>3, CreatedTable DEF FilesInv, TablesOK
        <5> QED
          BY <2>3, <5>3, <5>4 DEF IsTaken
      <4> QED
        BY <4>1, <4>2 DEF IsTaken
    <3> QED
      BY <3>1, <3>2
  <2>5. CASE /\ Advance(t) /\ i = Inum(t) /\ inode_table'[i].i_size = Offset(t) + Piece(t)
             /\ Offset(t) + Piece(t) > inode_table[i].i_size
    <3>1. frame[t].at = "advance" /\ Inside(frame[t])
      BY <2>5 DEF Advance, At, Inside
    <3>2. ~undercut /\ IsTaken(i)
      <4>1. IsFile(i)
        BY <2>5, <3>1, AtFile DEF FilesInv
      <4> QED
        BY <4>1, SizesShrink DEF IsFile, IsTaken
    <3>3. Writing(t)
      <4>1. Offset(t) + Piece(t) \in Nat /\ Size(t) \in Nat /\ Size(t) = inode_table[i].i_size
        BY <2>5, <3>1, AtFile, AdvanceFits DEF FilesInv, FileOffsets, Size
      <4> QED
        BY <2>5, <3>1, <3>2, <4>1, ReadsInside
    <3>4. Offset(t) <= Size(t)
      BY <3>1, <3>2, AtFile DEF FilesInv, InsideInv, OffsetWithinFile, Offset, Size, Inum
    <3>5. Pending(t)
      BY <3>1, <3>3 DEF Pending
    <3>6. Claimed(Inum(t), id)
      BY <2>1, <2>5, <3>4, <3>5, AdvanceClaims
    <3> QED
      BY <2>5, <3>2, <3>6
  <2> QED
    BY <2>3, <2>4, <2>5, SizesMove
<1>2. ASSUME NEW u \in Threads, Pending(u)', Inum(u)' = i, id \in PendingIds(u)'
      PROVE  IsTaken(i) /\ Claimed(i, id)
  <2>1. frame'[u].at = "advance" /\ frame'[u].op = "write"
    BY <1>2 DEF Pending, Writing
  <2>2. u # t
    <3> SUFFICES ASSUME u = t PROVE FALSE
      OBVIOUS
    <3>1. ReadBlock(t) /\ GoesTo(t, "advance", {"buffer"})
      BY <2>1, BecomesPending
    <3>2. frame'[t].op = frame[t].op /\ ~Writing(t)
      BY <3>1 DEF GoesTo, Fields, ReadBlock
    <3> QED
      BY <2>1, <3>2 DEF Writing
  <2>3. frame'[u] = frame[u]
    BY <2>2, OthersStay DEF Others
  <2>4. Pending(u) /\ Inside(frame[u])
    BY <2>1, <2>3 DEF Pending, Writing, Inside
  <2>5. open_file_table'[frame[u].h] = open_file_table[frame[u].h]
    BY <2>2, <2>4, OthersKeepOffset DEF FilesInv
  <2>6. Inum(u) = i
    BY <1>2, <2>3, <2>5 DEF Inum
  <2>7. PendingIds(u)' = PendingIds(u)
    BY <2>3, <2>5 DEF PendingIds, BlockId, Offset
  <2>8. IsFile(i)
    BY <2>4, <2>6, PendingPlace
  <2> QED
    BY <1>2, <2>4, <2>6, <2>7, <2>8 DEF Claimed, IsFile, IsTaken
<1> QED
  BY <1>1, <1>2 DEF Claimed

\* Truncating a file frees its blocks, which nobody claims any more.
LEMMA TruncatedClaims ==
  ASSUME FilesInv, FilesInv', InsideInv, OwnInv, ~Astray, ~undercut', NEW t \in Threads, Truncate(t)
  PROVE  /\ TruncateOK(frame[t].inum)
         /\ \A i \in Inumbers, id \in {-1} \cup BlockRange :
              IsTaken(i)' /\ Claimed(i, id)' => free_blocks'[BlockOf(i, id)] = "TAKEN"
<1>0. PICK j \in Inumbers : j = frame[t].inum
  BY DEF Truncate, At, FilesInv, Ex1Inv, FrameOK, IsFile
<1>1. frame[t].at = "truncate" /\ IsFile(j) /\ free_blocks' = truncate_file(j)
  BY <1>0 DEF Truncate, At, FilesInv, Ex1Inv, FrameOK
<1>2. j \in Inumbers /\ IsTaken(j)
  BY <1>1 DEF IsFile, IsTaken
<1>3. \A k \in BlockIds(j) :
        k \in BlockRange /\ Claimed(j, k) /\ BlockOf(j, k) = get_inode_block(Disk(j), k)
  <2>1. \A k \in BlockIds(j) : k \in Needs(j) /\ k \in BlockRange
    BY <1>2, NeedsAre
  <2>2. \A k \in BlockRange : k # -1
    BY DEF BlockRange
  <2> QED
    BY <2>1, <2>2 DEF Claimed, BlockOf
<1>4. TruncateOK(j)
  BY <1>2, <1>3 DEF OwnInv, TruncateOK, FileBlocks, valid_block_number
<1>5. ASSUME NEW i \in Inumbers, NEW id \in {-1} \cup BlockRange, IsTaken(i)', Claimed(i, id)'
      PROVE  free_blocks'[BlockOf(i, id)] = "TAKEN"
  <2>0. Step(t) /\ ~WriteBlock(t)
    BY <1>1 DEF Step, WriteBlock, InLoop, At
  <2>1. IsTaken(i) /\ Claimed(i, id)
    BY <1>5, <2>0, ClaimsFewer
  <2>2. BlockOf(i, id) \in Blocks /\ free_blocks[BlockOf(i, id)] = "TAKEN"
    BY <1>5, <2>1 DEF OwnInv
  <2>3. SUFFICES ASSUME BlockOf(i, id) \in FileBlocks(j) PROVE FALSE
    BY <1>1, <2>2 DEF truncate_file
  <2>4. i = j
    <3>1. PICK k \in BlockIds(j) : BlockOf(i, id) = BlockOf(j, k)
      BY <1>3, <2>3 DEF FileBlocks
    <3> QED
      BY <1>2, <1>3, <1>5, <2>1, <3>1 DEF OwnInv
  <2>5. inode_table'[j].i_size = 0
    <3>1. inode_table' = [inode_table EXCEPT ![j].i_size = 0]
      BY <1>0, <1>4, OpenEffects DEF FilesInv
    <3>2. inode_table \in [Inumbers -> Ex1Inode] /\ 0 \in FileOffsets
      BY MaximumIsNat DEF FilesInv, TablesOK, FileOffsets
    <3> QED
      BY <1>2, <3>1, <3>2, SizeSet
  <2>6. Needs(j)' = {}
    BY <1>2, <2>5, NeedsAre, NoIds
  <2>7. PICK u \in Threads : Pending(u)' /\ Inum(u)' = j
    BY <1>5, <2>4, <2>6 DEF Claimed
  <2>8. u # t
    <3>1. GoesTo(t, "position", {})
      BY <1>0, <1>4, OpenEffects DEF FilesInv
    <3> QED
      BY <2>7, <3>1 DEF GoesTo, Pending
  <2>9. frame'[u] = frame[u] /\ open_file_table' = open_file_table
    BY <2>0, <2>8, OthersStay DEF Others, Truncate, open_vars
  <2>10. Pending(u) /\ Inum(u) = j
    BY <2>7, <2>9 DEF Pending, Writing, Inum
  <2> QED
    BY <1>0, <1>1, <2>8, <2>10, WriterAlone
<1> QED
  BY <1>0, <1>4, <1>5

\* What a step that writes a block leaves: a null pointer followed, or the numbers
\* of the disk it works on and the bytes of the piece in its block.
LEMMA WriteEffect ==
  ASSUME FilesInv, NEW t \in Threads, WriteBlock(t), NEW i \in Inumbers, i = Inum(t),
         NEW disk, disk = DiskToWrite(t), NEW block, block = get_inode_block(disk, BlockId(t)),
         NEW r, r = Offset(t) % BLOCK_SIZE, NEW p, p = Piece(t)
  PROVE  /\ InLoop(t) /\ Writing(t) /\ disk \in Disks /\ r \in Offsets /\ p \in Nat \ {0}
         /\ r + p <= BLOCK_SIZE /\ BlockId(t) \in BlockRange
         /\ \/ UNCHANGED <<state_vars, locks, frame, wrapped, undercut>> /\ wild'
            \/ /\ ~NullIndirect(disk, BlockId(t))
               /\ wrapped' = (wrapped \/ (Allocates(t) /\ ComesBackAsAnother(Disk(i))))
               /\ inode_table'[i] = disk.inode
               /\ \A j \in Inumbers : j # i => inode_table'[j] = inode_table[j]
               /\ free_blocks' = disk.free
               /\ \A b \in Blocks, k \in Offsets : fs_data'[b][k] =
                    IF b = block /\ k >= r /\ k < r + p
                    THEN frame[t].buffer[frame[t].done + (k - r + 1)] ELSE disk.data[b][k]
               /\ block \in Blocks => GoesTo(t, "advance", {})
               /\ block \notin Blocks => frame'[t] = Idle /\ Others(t)
               /\ UNCHANGED <<freeinode_ts, dir_entry, open_vars, undercut>>
<1> DEFINE bytes == SubSeq(frame[t].buffer, frame[t].done + 1, frame[t].done + p)
           after == IF valid_block_number(block) THEN Stored(disk, BlockId(t), r, bytes) ELSE disk
<1>1. InLoop(t) /\ Writing(t) /\ Inside(frame[t]) /\ frame[t].done < frame[t].todo
  BY DEF WriteBlock, InLoop, At, Inside
<1>2. /\ disk \in Disks /\ r \in Offsets /\ p \in Nat \ {0} /\ r + p <= BLOCK_SIZE
      /\ BlockId(t) \in BlockRange
  BY <1>1, WriterDisk, PieceFits, CallPlace
<1>3. bytes \in Seq(Chars) /\ Len(bytes) = p
      /\ \A k \in 1 .. p : bytes[k] = frame[t].buffer[frame[t].done + k]
  BY <1>1, PieceBytes
<1>4. valid_block_number(block) <=> block \in Blocks
  BY DEF valid_block_number
<1>5. /\ after.inode = disk.inode /\ after.free = disk.free
      /\ \A b \in Blocks, k \in Offsets : after.data[b][k] =
           IF b = block /\ k >= r /\ k < r + p
           THEN frame[t].buffer[frame[t].done + (k - r + 1)] ELSE disk.data[b][k]
  <2>0. BlockId(t) \in Int /\ r \in Int /\ \A k \in Offsets : k \in Int
    BY <1>2, Numbers DEF BlockRange, Offsets
  <2> HIDE DEF bytes
  <2>1. CASE block \in Blocks
    <3>1. /\ after = Stored(disk, BlockId(t), r, bytes)
          /\ valid_block_number(get_inode_block(disk, BlockId(t)))
      BY <1>4, <2>1
    <3>2. /\ after.inode = disk.inode /\ after.free = disk.free
          /\ \A b \in Blocks, k \in Offsets : after.data[b][k] =
               IF b = block /\ k - r + 1 \in DOMAIN bytes THEN bytes[k - r + 1] ELSE disk.data[b][k]
      BY <1>2, <1>3, <2>0, <3>1, StoredDisk
    <3>3. \A k \in Offsets : k - r + 1 \in DOMAIN bytes <=> k >= r /\ k < r + p
      <4>1. DOMAIN bytes = 1 .. p
        BY <1>3
      <4> QED
        BY <1>2, <2>0, <4>1
    <3>4. \A k \in Offsets : k >= r /\ k < r + p =>
            bytes[k - r + 1] = frame[t].buffer[frame[t].done + (k - r + 1)]
      BY <1>2, <1>3, <2>0
    <3> HIDE DEF after
    <3> QED
      BY <3>2, <3>3, <3>4
  <2>2. CASE block \notin Blocks
    BY <1>4, <2>2
  <2> QED
    BY <2>1, <2>2
<1> HIDE DEF after
<1>6. CASE wild' = TRUE /\ UNCHANGED <<state_vars, locks, frame, ret, wrapped>>
  BY <1>1, <1>2, <1>6 DEF WriteBlock
<1>7. CASE /\ ~NullIndirect(disk, BlockId(t))
           /\ wrapped' = (wrapped \/ (Allocates(t) /\ ComesBackAsAnother(Disk(i))))
           /\ inode_table' = [inode_table EXCEPT ![i] = after.inode]
           /\ free_blocks' = after.free
           /\ fs_data' = after.data
           /\ IF valid_block_number(block)
              THEN Goto(t, [frame[t] EXCEPT !.at = "advance"]) /\ UNCHANGED locks
              ELSE BlockFails(t)
           /\ UNCHANGED <<freeinode_ts, dir_entry, open_vars>>
  <2>1. inode_table'[i] = disk.inode /\ \A j \in Inumbers : j # i => inode_table'[j] = inode_table[j]
    BY <1>5, <1>7 DEF FilesInv, TablesOK
  <2>2. block \in Blocks => GoesTo(t, "advance", {})
    BY <1>4, <1>7, GotoPlace DEF FilesInv
  <2>3. block \notin Blocks => frame'[t] = Idle /\ Others(t)
    BY <1>4, <1>7, ReturnsIdle DEF FilesInv, BlockFails
  <2>4. undercut' = undercut
    BY DEF WriteBlock
  <2> QED
    BY <1>1, <1>2, <1>5, <1>7, <2>1, <2>2, <2>3, <2>4
<1> QED
  BY <1>6, <1>7 DEF WriteBlock, after

\* The disk a writer works on when it needs no more blocks is the one there is;
\* else its file is full up to a block's end, and the file's indirect block is its
\* own if there should be one.
LEMMA NextBlock ==
  ASSUME FilesInv, OwnInv, ~Astray, NEW t \in Threads, Inside(frame[t]),
         frame[t].done < frame[t].todo, Allocates(t), NEW i \in Inumbers, i = Inum(t)
  PROVE  /\ Disk(i) \in Disks /\ DiskToWrite(t) = inumber_block_alloc(Disk(i))
         /\ BlockId(t) = Disk(i).inode.i_size \div BLOCK_SIZE
         /\ \A id \in BlockRange : id \in Needs(i) <=> id < BlockId(t)
         /\ -1 \in Needs(i) <=> BlockId(t) > NUMBER_DIRECT_BLOCKS
         /\ BlockId(t) > NUMBER_DIRECT_BLOCKS =>
              /\ Disk(i).inode.i_data_indirect \in Blocks
              /\ Disk(i).free[Disk(i).inode.i_data_indirect] = "TAKEN"
<1> DEFINE q == BlockId(t)  n == Size(t)
<1>1. Disk(i) \in Disks /\ DiskToWrite(t) = inumber_block_alloc(Disk(i)) /\ IsTaken(i)
      /\ n = inode_table[i].i_size /\ Disk(i).inode.i_size = n
  BY WriterDisk, AtFile DEF DiskToWrite, FilesInv, Inside, IsFile, IsTaken, Size, Disk
<1>2. Offset(t) = n /\ n % BLOCK_SIZE = 0
  BY DEF Allocates
<1>3. q = n \div BLOCK_SIZE
  BY <1>2 DEF BlockId
<1>4. q \in BlockRange /\ BLOCK_SIZE * q \in Nat /\ n = BLOCK_SIZE * q
  <2>1. /\ q \in BlockRange /\ BLOCK_SIZE * q \in Nat
        /\ Offset(t) = BLOCK_SIZE * q + (Offset(t) % BLOCK_SIZE)
    BY CallPlace
  <2> HIDE DEF n, q
  <2> QED
    BY <1>2, <2>1
<1>5. Needs(i) = Ids(n)
  BY <1>1, NeedsAre
<1> HIDE DEF n, q
<1>6. q \in Int /\ NUMBER_DIRECT_BLOCKS \in Int /\ \A id \in BlockRange : id \in Int /\ id # -1
  BY <1>4, Numbers DEF BlockRange
<1>7. \A id \in Int : BLOCK_SIZE * id < BLOCK_SIZE * q <=> id < q
  BY <1>6, BlockOrder
<1>8. \A id \in BlockRange : id \in Needs(i) <=> id < q
  BY <1>4, <1>5, <1>6, <1>7 DEF Ids
<1>9. -1 \in Needs(i) <=> q > NUMBER_DIRECT_BLOCKS
  <2>1. -1 \in Needs(i) <=> n > BLOCK_SIZE * NUMBER_DIRECT_BLOCKS
    BY <1>5 DEF Ids
  <2>2. BLOCK_SIZE * NUMBER_DIRECT_BLOCKS < BLOCK_SIZE * q <=> NUMBER_DIRECT_BLOCKS < q
    BY <1>6, <1>7
  <2>3. BLOCK_SIZE * NUMBER_DIRECT_BLOCKS \in Nat
    BY Numbers
  <2> QED
    BY <1>4, <1>6, <2>1, <2>2, <2>3
<1>10. q > NUMBER_DIRECT_BLOCKS => inode_table[i].i_data_indirect \in Blocks
                               /\ free_blocks[inode_table[i].i_data_indirect] = "TAKEN"
  <2>1. -1 \in Needs(i) => Claimed(i, -1)
    BY DEF Claimed
  <2> QED
    BY <1>1, <1>9, <2>1 DEF OwnInv, BlockOf
<1> QED
  BY <1>1, <1>3, <1>8, <1>9, <1>10 DEF Disk, q

\* Writing a block adds the claims of its writer.
LEMMA WriteClaims ==
  ASSUME FilesInv, FilesInv', NEW t \in Threads, WriteBlock(t), InLoop(t), Writing(t),
         NEW i \in Inumbers, i = Inum(t), NEW block,
         block \in Blocks => GoesTo(t, "advance", {}),
         block \notin Blocks => frame'[t] = Idle /\ Others(t),
         UNCHANGED <<freeinode_ts, open_vars>>,
         NEW j \in Inumbers, NEW id \in {-1} \cup BlockRange, IsTaken(j)', Claimed(j, id)'
  PROVE  /\ IsTaken(j)
         /\ Claimed(j, id) \/ (j = i /\ id \in PendingIds(t) /\ block \in Blocks)
<1>1. IsTaken(j)
  BY DEF IsTaken
<1>2. CASE id \in Needs(j)'
  <2>1. inode_table'[j].i_size = inode_table[j].i_size
    BY WrittenTables
  <2> QED
    BY <1>1, <1>2, <2>1, NeedsAre DEF Claimed
<1>3. ASSUME NEW u \in Threads, Pending(u)', Inum(u)' = j, id \in PendingIds(u)'
      PROVE  Claimed(j, id) \/ (j = i /\ id \in PendingIds(t) /\ block \in Blocks)
  <2>1. frame'[u].h = frame[u].h /\ (u # t => frame'[u] = frame[u]) /\ (u = t => block \in Blocks)
    <3>1. CASE u = t
      <4>1. block \in Blocks
        BY <1>3, <3>1 DEF Pending, Idle
      <4> QED
        BY <3>1, <4>1 DEF GoesTo, Fields
    <3>2. CASE u # t
      BY <3>2 DEF GoesTo, Others
    <3> QED
      BY <3>1, <3>2
  <2>2. Inum(u) = j /\ PendingIds(u)' = PendingIds(u)
    BY <1>3, <2>1 DEF open_vars, Inum, PendingIds, BlockId, Offset
  <2>3. CASE u = t
    BY <1>3, <2>1, <2>2, <2>3
  <2>4. CASE u # t
    <3>1. Pending(u)
      BY <1>3, <2>1, <2>4 DEF Pending, Writing
    <3> QED
      BY <1>3, <2>2, <3>1 DEF Claimed
  <2> QED
    BY <2>3, <2>4
<1> QED
  BY <1>1, <1>2, <1>3 DEF Claimed

\* A writer in a block its file has already changes bytes of that block only,
\* which holds nobody's block numbers.
LEMMA WriteInPlace ==
  ASSUME FilesInv, OwnInv, InsideInv, ~Astray, NEW t \in Threads, WriteBlock(t), InLoop(t), Writing(t),
         ~Allocates(t), NEW i \in Inumbers, i = Inum(t),
         NEW block, block = get_inode_block(Disk(i), BlockId(t)),
         inode_table'[i] = Disk(i).inode,
         \A j \in Inumbers : j # i => inode_table'[j] = inode_table[j],
         free_blocks' = Disk(i).free,
         \A b \in Blocks, k \in Offsets : b # block => fs_data'[b][k] = fs_data[b][k]
  PROVE  /\ \A id \in PendingIds(t) : Claimed(i, id)
         /\ \A j \in Inumbers, id \in {-1} \cup BlockRange :
              IsTaken(j) /\ Claimed(j, id) =>
                Kept(j, id) /\ (BlockOf(j, id) = block <=> j = i /\ id = BlockId(t))
         /\ BlockOf(i, BlockId(t)) = block
<1>1. Inside(frame[t]) /\ frame[t].done < frame[t].todo
  BY DEF InLoop, At, Inside
<1>2. Offset(t) <= Size(t)
  BY <1>1, AtFile DEF Astray, FilesInv, InsideInv, OffsetWithinFile, Inside, Offset, Size, Inum
<1>3. /\ BlockId(t) \in Needs(i) /\ BlockId(t) \in BlockRange
      /\ BlockId(t) >= NUMBER_DIRECT_BLOCKS => -1 \in Needs(i)
  BY <1>1, <1>2, InItsFile, CallPlace
<1>4. \A id \in PendingIds(t) : Claimed(i, id)
  BY <1>3 DEF PendingIds, Claimed
<1>5. IsTaken(i) /\ Claimed(i, BlockId(t)) /\ BlockOf(i, BlockId(t)) = block
  <2>1. BlockId(t) # -1
    BY <1>3 DEF BlockRange
  <2> QED
    BY <1>1, <1>3, <2>1, AtFile DEF FilesInv, Inside, IsFile, IsTaken, Claimed, BlockOf
<1>6. \A j \in Inumbers : inode_table'[j] = inode_table[j]
  BY DEF Disk
<1>7. free_blocks' = free_blocks
  BY DEF Disk
<1>8. ASSUME NEW j \in Inumbers, NEW id \in {-1} \cup BlockRange, IsTaken(j), Claimed(j, id)
      PROVE  Kept(j, id)
  <2>1. CASE id >= NUMBER_DIRECT_BLOCKS
    <3>1. Claimed(j, -1) /\ id \in BlockRange /\ id - NUMBER_DIRECT_BLOCKS \in Offsets /\ id # -1
      BY <1>8, <2>1, ClaimsInRange, Numbers DEF BlockRange, Offsets
    <3>2. BlockOf(j, -1) = inode_table[j].i_data_indirect
      BY DEF BlockOf
    <3>3. inode_table[j].i_data_indirect \in Blocks
      BY <1>8, <3>1, <3>2 DEF OwnInv
    <3>4. inode_table[j].i_data_indirect # block
      <4>1. PICK q \in BlockRange : q = BlockId(t)
        BY <1>3
      <4>2. q # -1
        BY <4>1 DEF BlockRange
      <4>3. BlockOf(i, q) = BlockOf(j, -1) => q = -1
        <5>1. /\ IsTaken(i) /\ Claimed(i, q) /\ IsTaken(j) /\ Claimed(j, -1)
              /\ q \in {-1} \cup BlockRange
          BY <1>5, <1>8, <3>1, <4>1
        <5>2. PICK m \in {-1} \cup BlockRange : m = -1
          OBVIOUS
        <5>3. BlockOf(i, q) = BlockOf(j, m) => q = m
          BY <5>1, <5>2, ClaimedOnce
        <5> QED
          BY <5>2, <5>3
      <4> QED
        BY <1>5, <3>2, <4>1, <4>2, <4>3
    <3>5. Slot(inode_table'[j], fs_data', id) = Slot(inode_table[j], fs_data, id)
      BY <1>6, <3>1, <3>3, <3>4 DEF Slot
    <3> QED
      BY <1>7, <1>8, <3>5, BlockSlots DEF Kept, OwnInv
  <2>2. CASE ~(id >= NUMBER_DIRECT_BLOCKS)
    <3>1. id < NUMBER_DIRECT_BLOCKS
      BY <2>2, Numbers DEF BlockRange
    <3>2. Slot(inode_table'[j], fs_data', id) = Slot(inode_table[j], fs_data, id)
      BY <1>6, <3>1 DEF Slot
    <3> QED
      BY <1>7, <1>8, <3>2, BlockSlots DEF Kept, OwnInv
  <2> QED
    BY <2>1, <2>2
<1>9. ASSUME NEW j \in Inumbers, NEW id \in {-1} \cup BlockRange, IsTaken(j), Claimed(j, id)
      PROVE  BlockOf(j, id) = block <=> j = i /\ id = BlockId(t)
  <2>1. PICK q \in {-1} \cup BlockRange : q = BlockId(t)
    BY <1>3
  <2>2. IsTaken(i) /\ Claimed(i, q) /\ BlockOf(i, q) = block
    BY <1>5, <2>1
  <2>3. BlockOf(j, id) = BlockOf(i, q) => j = i /\ id = q
    BY <1>9, <2>2, ClaimedOnce
  <2> QED
    BY <2>1, <2>2, <2>3
<1> QED
  BY <1>4, <1>5, <1>8, <1>9

\* A writer that allocates the next block leaves all other blocks where they are;
\* that one, and the indirect block before the first it numbers, were free.
LEMMA WriteNextBlock ==
  ASSUME FilesInv, OwnInv, InsideInv, ~Astray, NEW t \in Threads, WriteBlock(t), InLoop(t), Writing(t),
         Allocates(t), NEW i \in Inumbers, i = Inum(t), NEW disk, disk = DiskToWrite(t),
         NEW block, block = get_inode_block(disk, BlockId(t)),
         ~NullIndirect(disk, BlockId(t)), ~ComesBackAsAnother(Disk(i)),
         inode_table'[i] = disk.inode,
         \A j \in Inumbers : j # i => inode_table'[j] = inode_table[j],
         free_blocks' = disk.free,
         \A b \in Blocks, k \in Offsets : b # block => fs_data'[b][k] = disk.data[b][k]
  PROVE  /\ \A j \in Inumbers, id \in {-1} \cup BlockRange :
              IsTaken(j) /\ Claimed(j, id) => Kept(j, id)
         /\ block \in Blocks => \A id \in PendingIds(t) :
              Kept(i, id) \/ (Fresh(i, id) /\ ~Claimed(i, id))
         /\ block \in Blocks => \A id, k \in PendingIds(t) : BlockOf(i, id)' = BlockOf(i, k)' => id = k
         /\ \A j \in Inumbers, id \in BlockRange : IsTaken(j) /\ Claimed(j, id) =>
              /\ ~(j = i /\ id = BlockId(t))
              /\ \A k \in Offsets : fs_data'[BlockOf(j, id)][k] = fs_data[BlockOf(j, id)][k]
         /\ \A c \in Blocks : free_blocks[c] # "TAKEN" /\ free_blocks'[c] = "TAKEN" =>
              c = block \/ CutNumber(BlockId(t), c) \/ inode_table'[i].i_data_indirect = c
         /\ block \in Blocks => \A id : id = BlockId(t) => BlockOf(i, id)' = block
<1> DEFINE ND == NUMBER_DIRECT_BLOCKS
<1>1. Inside(frame[t]) /\ frame[t].done < frame[t].todo /\ frame[t].at = "loop"
  BY DEF InLoop, At, Inside
<1>0. PICK q \in BlockRange : q = BlockId(t)
  BY <1>1, CallPlace
<1>2. /\ Disk(i) \in Disks /\ disk = inumber_block_alloc(Disk(i))
      /\ q = Disk(i).inode.i_size \div BLOCK_SIZE
      /\ q > ND => /\ Disk(i).inode.i_data_indirect \in Blocks
                   /\ Disk(i).free[Disk(i).inode.i_data_indirect] = "TAKEN"
  BY <1>0, <1>1, NextBlock
<1>3. /\ \A id \in BlockRange : id \in Needs(i) <=> id < q
      /\ -1 \in Needs(i) <=> q > ND
  BY <1>0, <1>1, NextBlock
<1>4. q \in BlockRange /\ IsTaken(i)
  BY <1>1, AtFile DEF FilesInv, Inside, IsFile, IsTaken
<1>5. PICK ind : ind = disk.inode.i_data_indirect
  OBVIOUS
<1>6. /\ \A c \in Blocks : free_blocks[c] = "TAKEN" => free_blocks'[c] = "TAKEN"
      /\ \A k \in 0 .. ND - 1 :
           k # q => inode_table'[i].i_data_direct[k] = inode_table[i].i_data_direct[k]
      /\ inode_table'[i].i_data_indirect = ind
      /\ q # ND => ind = inode_table[i].i_data_indirect
      /\ q >= ND => ind \in Blocks /\ free_blocks'[ind] = "TAKEN"
      /\ q = ND => free_blocks[ind] = "FREE"
      /\ \A c \in Blocks, k \in Offsets :
           c # block => (q >= ND /\ c = ind /\ k = q - ND) \/ fs_data'[c][k] = fs_data[c][k]
      /\ block \in Blocks =>
           /\ free_blocks[block] = "FREE" /\ free_blocks'[block] = "TAKEN"
           /\ q >= ND => block # ind
      /\ \A c \in Blocks : free_blocks[c] # "TAKEN" /\ free_blocks'[c] = "TAKEN" =>
           c = block \/ CutNumber(q, c) \/ inode_table'[i].i_data_indirect = c
  <2>1. ~NullIndirect(inumber_block_alloc(Disk(i)), q)
    BY <1>0, <1>2
  <2>2. /\ \A c \in Blocks : Disk(i).free[c] = "TAKEN" => disk.free[c] = "TAKEN"
        /\ \A k \in 0 .. ND - 1 :
             k # q => disk.inode.i_data_direct[k] = Disk(i).inode.i_data_direct[k]
        /\ q # ND => ind = Disk(i).inode.i_data_indirect
        /\ q >= ND => ind \in Blocks /\ disk.free[ind] = "TAKEN"
        /\ q = ND => Disk(i).free[ind] = "FREE"
        /\ \A c \in Blocks, k \in Offsets :
             \/ q >= ND /\ c = ind /\ k = q - ND
             \/ disk.data[c][k] = Disk(i).data[c][k]
        /\ block \in Blocks /\ ~ComesBackAsAnother(Disk(i)) =>
             /\ Disk(i).free[block] = "FREE" /\ disk.free[block] = "TAKEN"
             /\ q >= ND => block # ind
        /\ \A c \in Blocks : Disk(i).free[c] # "TAKEN" /\ disk.free[c] = "TAKEN" =>
             c = block \/ CutNumber(q, c) \/ ind = c
    <3>1. block = get_inode_block(disk, q)
      BY <1>0
    <3> QED
      BY <1>2, <1>4, <1>5, <2>1, <3>1, AllocNext
  <2>3. Disk(i).inode = inode_table[i] /\ Disk(i).free = free_blocks /\ Disk(i).data = fs_data
    BY DEF Disk
  <2> QED
    BY <1>5, <2>2, <2>3
<1>7. block = Slot(disk.inode, disk.data, q)
  BY <1>0, <1>4, Slots
<1>8. q \in Nat /\ ND \in Nat \ {0} /\ q < ND + BLOCK_SIZE
      /\ \A id \in BlockRange : id \in Nat /\ id # -1 /\ (id >= ND => id - ND \in Offsets)
  BY <1>4, Numbers DEF BlockRange, Offsets
<1>9. \A id \in {-1} \cup BlockRange : Claimed(i, id) => id \in Needs(i)
  <2>1. ASSUME NEW u \in Threads, Pending(u), Inum(u) = i
        PROVE  FALSE
    <3>1. u = t
      BY <1>1, <2>1, WriterAlone
    <3> QED
      BY <1>1, <2>1, <3>1 DEF Pending
  <2> QED
    BY <2>1 DEF Claimed
<1>10. ASSUME NEW j \in Inumbers, NEW id \in {-1} \cup BlockRange, IsTaken(j), Claimed(j, id)
       PROVE  Kept(j, id)
  <2>1. BlockOf(j, id) \in Blocks /\ free_blocks[BlockOf(j, id)] = "TAKEN"
    BY <1>10 DEF OwnInv
  <2>0. free_blocks'[BlockOf(j, id)] = "TAKEN"
    BY <1>6, <2>1
  <2>2. SUFFICES Slot(inode_table'[j], fs_data', id) = Slot(inode_table[j], fs_data, id)
    BY <1>10, <2>0, BlockSlots DEF Kept
  <2>3. CASE id < ND
    <3>1. CASE j # i
      BY <2>3, <3>1 DEF Slot
    <3>2. CASE j = i /\ id = -1
      <4>1. q > ND
        BY <1>3, <1>9, <1>10, <3>2
      <4>2. q # ND
        BY <1>8, <4>1
      <4> QED
        BY <1>6, <3>2, <4>2 DEF Slot
    <3>3. CASE j = i /\ id # -1
      <4>0. id \in BlockRange /\ id \in Needs(i)
        BY <1>9, <1>10, <3>3
      <4>1. id < q /\ id \in 0 .. ND - 1
        BY <1>3, <1>8, <2>3, <4>0
      <4>2. id # q
        BY <1>8, <4>0, <4>1
      <4> QED
        BY <1>6, <2>3, <3>3, <4>1, <4>2 DEF Slot
    <3> QED
      BY <3>1, <3>2, <3>3
  <2>4. CASE ~(id < ND)
    <3> DEFINE c == inode_table[j].i_data_indirect
    <3>0. id # -1
      BY <1>8, <2>4
    <3>1. id \in BlockRange /\ id # -1 /\ id >= ND /\ id - ND \in Offsets
      BY <1>8, <2>4, <3>0
    <3>2. IsTaken(j) /\ Claimed(j, -1) /\ BlockOf(j, -1) = c
      BY <1>10, <3>1, ClaimsInRange DEF BlockOf
    <3>3. c \in Blocks /\ free_blocks[c] = "TAKEN"
      BY <3>2 DEF OwnInv
    <3>4. c # block
      BY <1>6, <3>3
    <3>5. ~(q >= ND /\ c = ind /\ id - ND = q - ND) /\ (j = i => ind = c)
      <4>1. CASE q = ND
        <5>1. j # i
          BY <1>3, <1>8, <1>9, <3>2, <4>1
        <5> QED
          BY <1>6, <3>3, <4>1, <5>1
      <4>2. CASE q # ND
        <5>1. ind = inode_table[i].i_data_indirect
          BY <1>6, <4>2
        <5>2. CASE j = i
          <6>1. id < q
            BY <1>3, <1>9, <1>10, <3>1, <5>2
          <6>2. id \in Nat /\ q \in Nat /\ ND \in Nat
            BY <1>8, <3>1
          <6> QED
            BY <5>1, <5>2, <6>1, <6>2
        <5>3. CASE j # i /\ q > ND
          <6>1. Claimed(i, -1) /\ BlockOf(i, -1) = ind
            BY <1>3, <5>1, <5>3 DEF Claimed, BlockOf
          <6>2. ind # c
            BY <1>4, <3>2, <5>3, <6>1 DEF OwnInv
          <6> QED
            BY <5>3, <6>2
        <5> QED
          BY <1>8, <4>2, <5>2, <5>3
      <4> QED
        BY <4>1, <4>2
    <3>6. fs_data'[c][id - ND] = fs_data[c][id - ND]
      BY <1>6, <3>1, <3>3, <3>4, <3>5
    <3>7. inode_table'[j].i_data_indirect = c
      BY <1>6, <3>5
    <3> QED
      BY <2>4, <3>1, <3>6, <3>7 DEF Slot
  <2> QED
    BY <2>3, <2>4
<1>11. block \in Blocks => BlockOf(i, q)' = block
  <2> SUFFICES ASSUME block \in Blocks PROVE Slot(inode_table'[i], fs_data', q) = block
    BY <1>4, BlockSlots
  <2>1. CASE q < ND
    BY <1>7, <1>8, <2>1 DEF Slot
  <2>2. CASE ~(q < ND)
    <3>1. ind \in Blocks /\ block # ind /\ q - ND \in Offsets
      BY <1>4, <1>6, <1>8, <2>2
    <3>2. fs_data'[ind][q - ND] = disk.data[ind][q - ND]
      BY <3>1
    <3> QED
      BY <1>5, <1>6, <1>7, <1>8, <2>2, <3>2 DEF Slot
  <2> QED
    BY <2>1, <2>2
<1>12. block \in Blocks => Fresh(i, q) /\ ~Claimed(i, q)
  <2>1. ~(q < q)
    BY <1>8
  <2> QED
    BY <1>3, <1>4, <1>6, <1>9, <1>11, <2>1 DEF Fresh
<1>13. BlockOf(i, -1)' = ind
  BY <1>6 DEF BlockOf
<1>14. q >= ND => Kept(i, -1) \/ (Fresh(i, -1) /\ ~Claimed(i, -1))
  <2>1. CASE q = ND
    <3>1. ~(q > ND)
      BY <1>8, <2>1
    <3>2. q >= ND
      BY <1>8, <2>1
    <3> QED
      BY <1>3, <1>6, <1>9, <1>13, <2>1, <3>1, <3>2 DEF Fresh
  <2>2. CASE q > ND
    BY <1>3, <1>4, <1>10, <2>2 DEF Claimed
  <2> QED
    BY <1>8, <2>1, <2>2
<1>15. PendingIds(t) = {q} \cup (IF q >= ND THEN {-1} ELSE {})
  BY <1>0 DEF PendingIds
<1>16. block \in Blocks => \A id, k \in PendingIds(t) : BlockOf(i, id)' = BlockOf(i, k)' => id = k
  BY <1>6, <1>11, <1>13, <1>15
<1>17. ASSUME NEW j \in Inumbers, NEW id \in BlockRange, IsTaken(j), Claimed(j, id)
       PROVE  /\ ~(j = i /\ id = q)
              /\ \A k \in Offsets : fs_data'[BlockOf(j, id)][k] = fs_data[BlockOf(j, id)][k]
  <2>1. ~(j = i /\ id = q)
    <3>1. ~(q < q)
      BY <1>8
    <3> QED
      BY <1>3, <1>9, <1>17, <3>1
  <2>2. /\ id \in {-1} \cup BlockRange /\ -1 \in {-1} \cup BlockRange /\ id # -1
        /\ BlockOf(j, id) \in Blocks /\ free_blocks[BlockOf(j, id)] = "TAKEN"
    <3>1. id \in {-1} \cup BlockRange /\ -1 \in {-1} \cup BlockRange /\ id # -1
      BY <1>8
    <3> QED
      BY <1>17, <3>1 DEF OwnInv
  <2>3. BlockOf(j, id) # block
    BY <1>6, <2>2
  <2>4. ~(q >= ND /\ BlockOf(j, id) = ind)
    <3>1. q = ND => BlockOf(j, id) # ind
      BY <1>6, <2>2
    <3>2. q > ND => BlockOf(j, id) # ind
      <4> SUFFICES ASSUME q > ND PROVE BlockOf(j, id) # ind
        OBVIOUS
      <4>1. Claimed(i, -1) /\ q # ND
        BY <1>3, <1>8 DEF Claimed
      <4>2. BlockOf(i, -1) = ind
        BY <1>6, <4>1 DEF BlockOf
      <4> QED
        BY <1>4, <1>17, <2>2, <4>1, <4>2, ClaimedOnce
    <3> QED
      BY <1>8, <3>1, <3>2
  <2> QED
    BY <1>6, <2>1, <2>2, <2>3, <2>4
<1>18. \A c \in Blocks : free_blocks[c] # "TAKEN" /\ free_blocks'[c] = "TAKEN" =>
         c = block \/ CutNumber(q, c) \/ inode_table'[i].i_data_indirect = c
  BY <1>6
<1> QED
  BY <1>0, <1>10, <1>11, <1>12, <1>14, <1>15, <1>16, <1>17, <1>18

\* What happens to the blocks that are claimed when one is written: they keep their
\* places, and only the bytes of the piece change in the block it belongs to.
LEMMA WriteKeeps ==
  ASSUME FilesInv, FilesInv', InsideInv, OwnInv, NEW t \in Threads, WriteBlock(t), ~Astray',
         NEW i \in Inumbers, i = Inum(t), NEW q, q = BlockId(t),
         NEW r, r = Offset(t) % BLOCK_SIZE, NEW p, p = Piece(t)
  PROVE  \/ UNCHANGED <<state_vars, locks, frame, wrapped, undercut>> /\ wild'
         \/ /\ ~Astray
            /\ UNCHANGED <<freeinode_ts, dir_entry, open_vars>>
            /\ \A j \in Inumbers, id \in {-1} \cup BlockRange :
                 IsTaken(j) /\ Claimed(j, id) => Kept(j, id)
            /\ \A j \in Inumbers, id \in BlockRange : IsTaken(j) /\ Claimed(j, id) =>
                 \A k \in Offsets : fs_data'[BlockOf(j, id)][k] =
                   IF j = i /\ id = q /\ k >= r /\ k < r + p
                   THEN frame[t].buffer[frame[t].done + (k - r + 1)] ELSE fs_data[BlockOf(j, id)][k]
            /\ \A j \in Inumbers, id \in {-1} \cup BlockRange : IsTaken(j)' /\ Claimed(j, id)' =>
                 \/ Kept(j, id)
                 \/ Fresh(j, id) /\ j = i /\ id \in PendingIds(t) /\ Pending(t)'
            /\ \E block :
                 /\ \A c \in Blocks : free_blocks[c] # "TAKEN" /\ free_blocks'[c] = "TAKEN" =>
                      c = block \/ CutNumber(q, c) \/ inode_table'[i].i_data_indirect = c
                 /\ block \in Blocks => /\ GoesTo(t, "advance", {})
                                        /\ BlockOf(i, q)' = block
                                        /\ \A id, k \in PendingIds(t) :
                                             BlockOf(i, id)' = BlockOf(i, k)' => id = k
                                        /\ \A k \in Offsets : k >= r /\ k < r + p =>
                                             fs_data'[block][k]
                                               = frame[t].buffer[frame[t].done + (k - r + 1)]
                 /\ block \notin Blocks => frame'[t] = Idle /\ Others(t)
<1>1. PICK disk, block : disk = DiskToWrite(t) /\ block = get_inode_block(disk, q)
  OBVIOUS
<1>2. InLoop(t) /\ Writing(t) /\ q \in BlockRange
  BY <1>1, WriteEffect
<1> DEFINE Effect ==
             /\ ~NullIndirect(disk, q)
             /\ wrapped' = (wrapped \/ (Allocates(t) /\ ComesBackAsAnother(Disk(i))))
             /\ inode_table'[i] = disk.inode
             /\ \A j \in Inumbers : j # i => inode_table'[j] = inode_table[j]
             /\ free_blocks' = disk.free
             /\ \A b \in Blocks, k \in Offsets : fs_data'[b][k] =
                  IF b = block /\ k >= r /\ k < r + p
                  THEN frame[t].buffer[frame[t].done + (k - r + 1)] ELSE disk.data[b][k]
             /\ block \in Blocks => GoesTo(t, "advance", {})
             /\ block \notin Blocks => frame'[t] = Idle /\ Others(t)
             /\ UNCHANGED <<freeinode_ts, dir_entry, open_vars, undercut>>
           Result ==
             /\ ~Astray
             /\ \A j \in Inumbers, id \in {-1} \cup BlockRange :
                  IsTaken(j) /\ Claimed(j, id) => Kept(j, id)
             /\ \A j \in Inumbers, id \in BlockRange : IsTaken(j) /\ Claimed(j, id) =>
                  \A k \in Offsets : fs_data'[BlockOf(j, id)][k] =
                    IF j = i /\ id = q /\ k >= r /\ k < r + p
                    THEN frame[t].buffer[frame[t].done + (k - r + 1)]
                    ELSE fs_data[BlockOf(j, id)][k]
             /\ \A j \in Inumbers, id \in {-1} \cup BlockRange : IsTaken(j)' /\ Claimed(j, id)' =>
                  \/ Kept(j, id)
                  \/ Fresh(j, id) /\ j = i /\ id \in PendingIds(t) /\ Pending(t)'
             /\ \A c \in Blocks : free_blocks[c] # "TAKEN" /\ free_blocks'[c] = "TAKEN" =>
                  c = block \/ CutNumber(q, c) \/ inode_table'[i].i_data_indirect = c
             /\ block \in Blocks => /\ BlockOf(i, q)' = block
                                    /\ \A id, k \in PendingIds(t) :
                                         BlockOf(i, id)' = BlockOf(i, k)' => id = k
<1>9. (UNCHANGED <<state_vars, locks, frame, wrapped, undercut>> /\ wild') \/ Effect
  BY <1>1, WriteEffect
<1>10. ASSUME Effect
       PROVE  block \in Blocks => \A k \in Offsets : k >= r /\ k < r + p =>
                fs_data'[block][k] = frame[t].buffer[frame[t].done + (k - r + 1)]
  BY <1>10
<1>3. SUFFICES ASSUME Effect PROVE Result
  <2> HIDE <1>1
  <2>1. Effect => UNCHANGED <<freeinode_ts, dir_entry, open_vars>>
    OBVIOUS
  <2> QED
    BY <1>9, <1>10, <2>1
<1>4. ~Astray
  BY <1>3 DEF Astray
<1>5. \A j \in Inumbers, id \in {-1} \cup BlockRange : IsTaken(j)' /\ Claimed(j, id)' =>
        /\ IsTaken(j)
        /\ Claimed(j, id) \/ (j = i /\ id \in PendingIds(t) /\ block \in Blocks)
  BY <1>2, <1>3, WriteClaims
<1>6. block \in Blocks => Pending(t)'
  BY <1>2, <1>3 DEF Pending, Writing, GoesTo, Fields
<1>7. CASE ~Allocates(t)
  <2>1. disk = Disk(i) /\ block = get_inode_block(Disk(i), BlockId(t)) /\ Disk(i).data = fs_data
        /\ Disk(i).free = free_blocks
    BY <1>1, <1>7 DEF DiskToWrite, Disk
  <2>2. /\ \A id \in PendingIds(t) : Claimed(i, id)
        /\ \A j \in Inumbers, id \in {-1} \cup BlockRange : IsTaken(j) /\ Claimed(j, id) =>
             Kept(j, id) /\ (BlockOf(j, id) = block <=> j = i /\ id = q)
        /\ BlockOf(i, q) = block
    BY <1>2, <1>3, <1>4, <1>7, <2>1, WriteInPlace
  <2>3. IsTaken(i) /\ q \in PendingIds(t) /\ PendingIds(t) \subseteq {-1} \cup BlockRange
    BY <1>2, AtFile DEF FilesInv, InLoop, At, IsFile, IsTaken, PendingIds
  <2>4. BlockOf(i, q)' = block
    BY <1>2, <2>2, <2>3 DEF Kept
  <2>5. \A id, k \in PendingIds(t) : BlockOf(i, id)' = BlockOf(i, k)' => id = k
    <3> SUFFICES ASSUME NEW id \in PendingIds(t), NEW k \in PendingIds(t),
                        BlockOf(i, id)' = BlockOf(i, k)'
                 PROVE  id = k
      OBVIOUS
    <3>1. /\ id \in {-1} \cup BlockRange /\ k \in {-1} \cup BlockRange
          /\ IsTaken(i) /\ Claimed(i, id) /\ Claimed(i, k)
      BY <2>2, <2>3
    <3>2. Kept(i, id) /\ Kept(i, k)
      BY <1>2, <2>2, <3>1
    <3>3. BlockOf(i, id) = BlockOf(i, k)
      BY <3>2 DEF Kept
    <3> QED
      BY <1>2, <1>4, <3>1, <3>3, ClaimedOnce
  <2>6. ASSUME NEW j \in Inumbers, NEW id \in BlockRange, IsTaken(j), Claimed(j, id), NEW k \in Offsets
        PROVE  fs_data'[BlockOf(j, id)][k] =
                 IF j = i /\ id = q /\ k >= r /\ k < r + p
                 THEN frame[t].buffer[frame[t].done + (k - r + 1)] ELSE fs_data[BlockOf(j, id)][k]
    <3>1. BlockOf(j, id) \in Blocks /\ (BlockOf(j, id) = block <=> j = i /\ id = q)
      BY <1>4, <2>2, <2>6 DEF OwnInv
    <3> QED
      BY <1>3, <2>1, <3>1
  <2> QED
    BY <1>3, <1>4, <1>5, <2>1, <2>2, <2>4, <2>5, <2>6
<1>8. CASE Allocates(t)
  <2>1. ~ComesBackAsAnother(Disk(i))
    BY <1>3, <1>8 DEF Astray
  <2>2. /\ \A j \in Inumbers, id \in {-1} \cup BlockRange :
             IsTaken(j) /\ Claimed(j, id) => Kept(j, id)
        /\ block \in Blocks => \A id \in PendingIds(t) :
             Kept(i, id) \/ (Fresh(i, id) /\ ~Claimed(i, id))
        /\ block \in Blocks => \A id, k \in PendingIds(t) : BlockOf(i, id)' = BlockOf(i, k)' => id = k
        /\ \A j \in Inumbers, id \in BlockRange : IsTaken(j) /\ Claimed(j, id) =>
             /\ ~(j = i /\ id = q)
             /\ \A k \in Offsets : fs_data'[BlockOf(j, id)][k] = fs_data[BlockOf(j, id)][k]
        /\ \A c \in Blocks : free_blocks[c] # "TAKEN" /\ free_blocks'[c] = "TAKEN" =>
             c = block \/ CutNumber(q, c) \/ inode_table'[i].i_data_indirect = c
        /\ block \in Blocks => BlockOf(i, q)' = block
    BY <1>1, <1>2, <1>3, <1>4, <1>8, <2>1, WriteNextBlock
  <2>3. \A j \in Inumbers, id \in {-1} \cup BlockRange : IsTaken(j)' /\ Claimed(j, id)' =>
          \/ Kept(j, id)
          \/ Fresh(j, id) /\ j = i /\ id \in PendingIds(t) /\ Pending(t)'
    BY <1>5, <1>6, <2>2
  <2>4. \A j \in Inumbers, id \in BlockRange : IsTaken(j) /\ Claimed(j, id) =>
          \A k \in Offsets : fs_data'[BlockOf(j, id)][k] =
            IF j = i /\ id = q /\ k >= r /\ k < r + p
            THEN frame[t].buffer[frame[t].done + (k - r + 1)]
            ELSE fs_data[BlockOf(j, id)][k]
    BY <2>2
  <2> QED
    BY <1>4, <2>2, <2>3, <2>4
<1> QED
  BY <1>7, <1>8

\* Ownership is about the tables and the frames only.
LEMMA OwnStutters ==
  ASSUME OwnInv, UNCHANGED <<state_vars, frame, wrapped, undercut>>
  PROVE  OwnInv'
<1>1. /\ inode_table' = inode_table /\ freeinode_ts' = freeinode_ts /\ fs_data' = fs_data
      /\ free_blocks' = free_blocks /\ open_file_table' = open_file_table /\ frame' = frame
      /\ Astray' = Astray
  <2>1. undercut' = undercut /\ wrapped' = wrapped
    OBVIOUS
  <2>2. Astray' = Astray
    BY <2>1 DEF Astray
  <2> QED
    BY <2>2 DEF state_vars, inode_vars, block_vars, open_vars
<1>2. \A i : /\ Disk(i)' = Disk(i) /\ (IsTaken(i)' <=> IsTaken(i))
               /\ Needs(i)' = Needs(i)
  <2>1. \A i : Disk(i)' = Disk(i) /\ (IsTaken(i)' <=> IsTaken(i))
    BY <1>1 DEF Disk, IsTaken
  <2>2. \A i : Needs(i)' = Needs(i)
    BY <1>1 DEF Needs, BlockIds
  <2> QED
    BY <2>1, <2>2
<1>3. \A i, id : BlockOf(i, id)' = BlockOf(i, id)
  BY <1>1, <1>2 DEF BlockOf
<1>4. \A t : /\ (Pending(t)' <=> Pending(t)) /\ Inum(t)' = Inum(t) /\ BlockId(t)' = BlockId(t)
  BY <1>1 DEF Pending, Writing, Inum, BlockId, Offset
<1>5. \A t : PendingIds(t)' = PendingIds(t)
  BY <1>4 DEF PendingIds
<1>6. \A i, id : Claimed(i, id)' <=> Claimed(i, id)
  BY <1>2, <1>4, <1>5 DEF Claimed
<1> QED
  BY <1>1, <1>2, <1>3, <1>6 DEF OwnInv

\* Each step keeps the ownership of blocks.
LEMMA OwnStep ==
  ASSUME FilesInv, FilesInv', InsideInv, OwnInv, NEW t \in Threads, Step(t) \/ Call(t)
  PROVE  OwnInv'
<1>1. ~Astray' => ~Astray /\ ~undercut'
  BY NotAstray
<1>0. \A j \in Inumbers, id \in {-1} \cup BlockRange : ~Astray' /\ Kept(j, id) => ~Fresh(j, id)
  BY <1>1, ClaimedOnce DEF Kept, Fresh
<1>2. CASE ~WriteBlock(t)
  <2>1. ASSUME ~Astray', NEW i \in Inumbers, NEW id \in {-1} \cup BlockRange,
               IsTaken(i)', Claimed(i, id)'
        PROVE  Kept(i, id)
    <3>1. IsTaken(i) /\ Claimed(i, id)
      BY <1>1, <1>2, <2>1, ClaimsFewer
    <3>2. BlockOf(i, id)' = BlockOf(i, id) /\ (free_blocks' = free_blocks \/ Truncate(t))
      BY <1>2, NumbersKept
    <3>3. free_blocks[BlockOf(i, id)] = "TAKEN"
      BY <1>1, <2>1, <3>1, ClaimedOnce
    <3>4. Truncate(t) => free_blocks'[BlockOf(i, id)] = "TAKEN"
      BY <1>1, <2>1, TruncatedClaims
    <3> QED
      BY <3>1, <3>2, <3>3, <3>4 DEF Kept
  <2> QED
    BY <1>0, <1>1, <2>1, OwnMoves
<1>3. CASE WriteBlock(t)
  <2>1. PICK i \in Inumbers : i = Inum(t)
    BY <1>3, AtFile DEF WriteBlock, InLoop, At, FilesInv, Inside
  <2>2. PICK q, r, p : /\ i = Inum(t) /\ q = BlockId(t)
                       /\ r = Offset(t) % BLOCK_SIZE /\ p = Piece(t)
    BY <2>1
  <2>3. CASE UNCHANGED <<state_vars, locks, frame, wrapped, undercut>>
    BY <2>3, OwnStutters
  <2>4. CASE ~UNCHANGED <<state_vars, locks, frame, wrapped, undercut>>
    <3>1. ~Astray' =>
            \A j \in Inumbers, id \in {-1} \cup BlockRange : IsTaken(j)' /\ Claimed(j, id)' =>
              \/ Kept(j, id)
              \/ Fresh(j, id) /\ j = i /\ id \in PendingIds(t) /\ Pending(t)'
      BY <1>3, <2>2, <2>4, WriteKeeps
    <3>2. ~Astray' /\ Pending(t)' =>
            \A id, k \in PendingIds(t) : BlockOf(i, id)' = BlockOf(i, k)' => id = k
      <4>1. Pending(t)' => frame'[t] # Idle
        BY DEF Pending, Idle
      <4> QED
        BY <1>3, <2>2, <2>4, <4>1, WriteKeeps
    <3> QED
      BY <1>0, <1>1, <3>1, <3>2, OwnMoves
  <2> QED
    BY <2>3, <2>4
<1> QED
  BY <1>2, <1>3

\* In the empty file system the root has a block, and nobody else any.
LEMMA OwnInit == Init => OwnInv
<1> SUFFICES ASSUME Init PROVE OwnInv
  OBVIOUS
<1>0. FilesInv /\ ROOT_DIR_INUM \in Inumbers
  BY FilesInit, RootIsInode
<1>1. \A t \in Threads : ~Pending(t)
  BY DEF Init, Idle, Pending
<1>2. ASSUME NEW i \in Inumbers, NEW id, IsTaken(i), Claimed(i, id)
      PROVE  i = ROOT_DIR_INUM /\ id = 0 /\ BlockOf(i, id) = 0
  <2>1. id \in Needs(i)
    BY <1>1, <1>2 DEF Claimed
  <2>2. i = ROOT_DIR_INUM
    BY <1>2 DEF Init, Ex1RootCreated, IsTaken
  <2>3. inode_table[i].i_size = BLOCK_SIZE
    BY <2>2 DEF Init, Ex1RootCreated
  <2>4. id \in Ids(BLOCK_SIZE)
    BY <1>0, <2>1, <2>3, NeedsAre
  <2>5. id = 0
    <3>1. BLOCK_SIZE * 1 = BLOCK_SIZE /\ BLOCK_SIZE * 1 <= BLOCK_SIZE * NUMBER_DIRECT_BLOCKS
      BY Numbers, NextMultiple
    <3>2. BLOCK_SIZE * NUMBER_DIRECT_BLOCKS \in Nat
      BY Numbers
    <3>3. id # -1
      BY <2>4, <3>1, <3>2, Numbers DEF Ids
    <3>4. id \in Nat /\ BLOCK_SIZE * id < BLOCK_SIZE
      BY <2>4, <3>3 DEF Ids, BlockRange
    <3>5. BLOCK_SIZE * id < BLOCK_SIZE * 1 <=> id < 1
      BY <3>4, BlockOrder
    <3> QED
      BY <3>1, <3>4, <3>5
  <2>6. BlockOf(i, 0) = Slot(inode_table[i], fs_data, 0)
    BY BlockSlots, Numbers DEF BlockRange
  <2>7. inode_table[i].i_data_direct[0] = 0
    <3>1. 0 \in 0 .. NUMBER_DIRECT_BLOCKS - 1
      BY Numbers
    <3>2. inode_table[i].i_data_direct = [k \in 0 .. NUMBER_DIRECT_BLOCKS - 1 |-> 0]
      BY DEF Init, Ex1RootCreated
    <3> QED
      BY <3>1, <3>2
  <2> QED
    BY <2>2, <2>5, <2>6, <2>7, Numbers DEF Slot
<1>3. 0 \in Blocks /\ free_blocks[0] = "TAKEN"
  <2>1. 0 \in Blocks
    BY ConfigAssumption DEF Blocks
  <2>2. free_blocks = [b \in Blocks |-> IF b = 0 THEN "TAKEN" ELSE "FREE"]
    BY DEF Init, Ex1RootCreated
  <2> QED
    BY <2>1, <2>2
<1> QED
  BY <1>2, <1>3 DEF OwnInv

\* In the empty file system the blocks are owned, and nobody is in a file.
LEMMA BlocksInit == Init => BlocksInv
<1> SUFFICES ASSUME Init PROVE InsideInv
  BY FilesInit, OwnInit DEF BlocksInv
<1>1. \A h \in Handles : ~Open(h)
  BY DEF Init, Ex1RootCreated, Open
<1>2. \A t \in Threads : frame[t].at # "add" /\ ~Inside(frame[t])
  BY DEF Init, Inside, Idle
<1> QED
  BY <1>1, <1>2 DEF InsideInv, OffsetWithinFile

\* Each step keeps it so.
LEMMA BlocksStep == BlocksInv /\ [Next]_vars => BlocksInv'
<1> SUFFICES ASSUME FilesInv, InsideInv, OwnInv, [Next]_vars PROVE InsideInv' /\ OwnInv'
  BY FilesStep DEF BlocksInv
<1>1. CASE UNCHANGED vars
  <2>1. InsideInv'
    BY <1>1 DEF InsideInv, OffsetWithinFile, Open, Inside, Writing, Size, Inum, vars, state_vars,
       inode_vars, open_vars, history
  <2>2. OwnInv'
    BY <1>1, OwnStutters DEF vars, history
  <2> QED
    BY <2>1, <2>2
<1>2. FilesInv'
  BY FilesStep
<1> QED
  BY <1>1, <1>2, InsideStep, OwnStep DEF Next

\* So the blocks are always owned.
LEMMA BlocksAlways == Spec => []BlocksInv
BY BlocksInit, BlocksStep, PTL DEF Spec

\* Until blocks go astray, whatever the threads write, create and truncate at the
\* same time, and also when blocks run out in the middle of a write, each block of a
\* file, direct or indirect, is a block, marked taken, and used once by one file.
THEOREM BlocksAreOwned == Spec => []BlockOwnership
<1>1. BlocksInv => BlockOwnership
  <2> SUFFICES ASSUME FilesInv, OwnInv, ~Astray, NEW i \in Inumbers, IsTaken(i), NEW id \in Needs(i)
               PROVE  /\ BlockOf(i, id) \in Blocks /\ free_blocks[BlockOf(i, id)] = "TAKEN"
                      /\ \A j \in Inumbers : IsTaken(j) => \A k \in Needs(j) :
                           BlockOf(i, id) = BlockOf(j, k) => i = j /\ id = k
    BY DEF BlocksInv, BlockOwnership
  <2>1. \A j \in Inumbers : \A k \in Needs(j) : Claimed(j, k) /\ k \in {-1} \cup BlockRange
    <3>1. \A j \in Inumbers : \A k \in Needs(j) : Claimed(j, k)
      BY DEF Claimed
    <3> QED
      BY <3>1, ClaimsInRange
  <2> QED
    BY <2>1, ClaimedOnce
<1> QED
  BY <1>1, BlocksAlways, PTL

----------------------------------------------------------------------------
(* What the ownership of blocks is good for.                               *)

\* A read that has bytes left finds the block they are in.
LEMMA ReadFindsBlock ==
  ASSUME FilesInv, InsideInv, OwnInv, ~Astray, NEW t \in Threads, Inside(frame[t]), ~Writing(t),
         frame[t].done < frame[t].todo, NEW i \in Inumbers, i = Inum(t), NEW q, q = BlockId(t)
  PROVE  /\ Offset(t) < Size(t) /\ q \in BlockRange /\ q \in Needs(i) /\ IsTaken(i) /\ Claimed(i, q)
         /\ BlockOf(i, q) = get_inode_block(Disk(i), q) /\ BlockOf(i, q) \in Blocks
<1>1. /\ frame[t].offset + frame[t].todo <= Size(t) /\ Offset(t) = frame[t].offset + frame[t].done
      /\ frame[t].offset \in Nat /\ frame[t].todo \in Nat /\ frame[t].done \in Nat
  BY DEF InsideInv, Astray, FilesInv, CallsOK, CallOK
<1>2. Size(t) \in Nat /\ IsTaken(i)
  BY AtFile DEF FilesInv, Inside, FileOffsets, IsFile, IsTaken
<1>3. Offset(t) < Size(t)
  BY <1>1, <1>2
<1>4. q \in BlockRange /\ q \in Needs(i)
  <2>1. Offset(t) <= Size(t) /\ ~Allocates(t)
    BY <1>1, <1>2, <1>3 DEF Allocates
  <2> QED
    BY <2>1, InItsFile, CallPlace
<1>5. Claimed(i, q) /\ q # -1
  BY <1>4 DEF Claimed, BlockRange
<1> QED
  BY <1>2, <1>3, <1>4, <1>5 DEF OwnInv, BlockOf

\* Until a block number comes back from its char as another's or a truncation undercuts a
\* handle, a read through a valid handle is refused only on a file of the largest size, and in
\* its loop it always finds the block it needs, while other threads write.
THEOREM OnlyLargestRefuse == Spec => OnlyFullFilesRefuse
<1> DEFINE Refuses == \A t \in Threads :
             /\ ~Astray /\ frame[t].op = "read" /\ frame[t].at \in {"inode", "loop"}
             /\ frame'[t] = Idle /\ ret'.val = -1
             => Size(t) = MAXIMUM_FILE_BYTES
<1>1. BlocksInv /\ [Next]_vars => [Refuses]_vars
  <2> SUFFICES ASSUME FilesInv, InsideInv, OwnInv, NEW u \in Threads, Step(u) \/ Call(u),
                      NEW t \in Threads, ~Astray, frame[t].op = "read",
                      frame[t].at \in {"inode", "loop"}, frame'[t] = Idle, ret'.val = -1
               PROVE  Size(t) = MAXIMUM_FILE_BYTES
    BY DEF Next, BlocksInv
  <2>0. Ex1Inv /\ Idle.at = "idle" /\ ~Writing(t)
    BY DEF FilesInv, Idle, Writing
  <2>1. u = t
    <3>1. u # t => frame'[t] = frame[t]
      BY OthersStay DEF Others
    <3> QED
      BY <2>0, <3>1
  <2>2. ~Call(t) /\ ~LockExisting(t) /\ ~Truncate(t) /\ ~Position(t) /\ ~Create(t) /\ ~CreateFails(t)
    BY <2>0, CallEffect, OpenEffects
  <2>3. ~Add(t) /\ ~CopyOpens(t) /\ ~CopySize(t) /\ ~LockHandle(t) /\ ~Advance(t)
    BY <2>0, HandleEffects, AccessEffects
  <2>4. ~LockForWrite(t) /\ ~WriteBlock(t)
    BY <2>0 DEF LockForWrite, WriteBlock
  <2>5. CASE LockForRead(t)
    <3>1. frame[t].at = "inode" /\ Offset(t) + to_read(t) >= MAXIMUM_FILE_BYTES
      <4>1. ASSUME NEW todo \in Nat, Locks(t, "readers", todo)
            PROVE  FALSE
        <5>1. frame'[t].at = "loop"
          BY <2>0, <4>1, LocksEffect
        <5> QED
          BY <2>0, <5>1
      <4> QED
        BY <2>5, <4>1, LocksFit
    <3>2. Offset(t) \in FileOffsets /\ Size(t) \in FileOffsets /\ frame[t].len \in Nat
      BY <2>0, <3>1, AtFile DEF FilesInv, CallsOK, CallOK
    <3>3. Offset(t) <= Size(t)
      <4>1. frame[t].h \in Handles /\ Open(frame[t].h)
        BY <2>0, <3>1, AtFile DEF FilesInv
      <4> QED
        BY <4>1 DEF InsideInv, Astray, OffsetWithinFile, Offset, Size, Inum
    <3>4. Offset(t) + to_read(t) <= Size(t)
      BY <3>2, <3>3 DEF to_read, size_sub, FileOffsets
    <3> QED
      BY <3>1, <3>2, <3>3, <3>4, MaximumIsNat DEF to_read, size_sub, FileOffsets
  <2>6. CASE ReadBlock(t)
    <3>1. Inside(frame[t]) /\ frame[t].done < frame[t].todo
      BY <2>6 DEF ReadBlock, InLoop, At, Inside
    <3>2. PICK i \in Inumbers : i = Inum(t)
      BY <3>1, AtFile DEF FilesInv, Inside
    <3>3. valid_block_number(get_inode_block(Disk(i), BlockId(t)))
      BY <2>0, <3>1, <3>2, ReadFindsBlock DEF valid_block_number
    <3>4. Goto(t, [frame[t] EXCEPT !.at = "advance",
                     !.buffer = @ \o [k \in 1 .. Piece(t) |->
                        fs_data[get_inode_block(Disk(Inum(t)), BlockId(t))]
                               [(Offset(t) % BLOCK_SIZE) + k - 1]]])
      BY <2>6, <3>2, <3>3 DEF ReadBlock
    <3>5. ret' = NoReturn
      BY <3>4 DEF Goto
    <3> QED
      BY <3>5 DEF NoReturn
  <2>7. CASE Return(t)
    <3>1. ret' = [op |-> "read", val |-> frame[t].todo] /\ frame[t].todo \in Nat
      BY <2>7 DEF Return, Returns, At, FilesInv, CallsOK, CallOK, Inside
    <3> QED
      BY <3>1
  <2> QED
    BY <2>1, <2>2, <2>3, <2>4, <2>5, <2>6, <2>7 DEF Step
<1> QED
  BY <1>1, BlocksAlways, PTL DEF Spec, OnlyFullFilesRefuse

\* A block that is taken after a step was taken before it, or is one that a writer
\* allocated.
LEMMA TakenBefore ==
  ASSUME FilesInv, NEW t \in Threads, Step(t) \/ Call(t), ~WriteBlock(t), NEW b \in Blocks,
         free_blocks'[b] = "TAKEN"
  PROVE  free_blocks[b] = "TAKEN"
<1>1. CASE free_blocks' = free_blocks
  BY <1>1
<1>2. CASE Truncate(t)
  <2>1. free_blocks' = truncate_file(frame[t].inum)
    BY <1>2 DEF Truncate
  <2> QED
    BY <2>1 DEF truncate_file
<1> QED
  BY <1>1, <1>2, NumbersKept

\* No file is removed.
LEMMA FilesStay ==
  ASSUME FilesInv, NEW t \in Threads, Step(t) \/ Call(t), NEW i \in Inumbers, IsTaken(i)
  PROVE  IsTaken(i)'
<1>1. freeinode_ts' = freeinode_ts \/ Create(t)
  BY DEF Step, Call, LockExisting, Truncate, Position, CreateFails, Add, LockHandle, LockForWrite,
     LockForRead, Locks, WriteBlock, ReadBlock, Advance, Return, CopyOpens, LooksUp, CopySize,
     tfs_destroy, tfs_lookup, tfs_copy_to_external_fs, tfs_open, tfs_close, tfs_write, tfs_read,
     Begins, state_vars, inode_vars
<1>2. CASE Create(t)
  <2>1. freeinode_ts' = TakeFirst(freeinode_ts) /\ freeinode_ts \in [Inumbers -> AllocState]
    BY <1>2 DEF Create, FilesInv, Ex1Inv, DirectoryInv
  <2> QED
    BY <2>1, TakeFirstAt DEF IsTaken
<1> QED
  BY <1>1, <1>2 DEF IsTaken

\* What a file needs, it needs also after the step, unless the step truncates it.
LEMMA ClaimsStay ==
  ASSUME FilesInv, FilesInv', InsideInv, ~undercut', NEW t \in Threads, Step(t) \/ Call(t),
         NEW i \in Inumbers, NEW id \in {-1} \cup BlockRange, IsTaken(i), id \in Needs(i),
         id \notin Needs(i)'
  PROVE  Truncate(t) /\ i = frame[t].inum /\ TruncateOK(i)
<1>1. id \in Ids(inode_table[i].i_size) /\ id \notin Ids(inode_table'[i].i_size)
  BY NeedsAre
<1>2. inode_table[i].i_size \in Nat /\ inode_table'[i].i_size \in Nat
  BY NeedsAre DEF FileOffsets
<1>3. ~(inode_table'[i].i_size >= inode_table[i].i_size)
  <2>1. BLOCK_SIZE * NUMBER_DIRECT_BLOCKS \in Nat /\ \A k \in BlockRange : BLOCK_SIZE * k \in Nat
    BY Numbers DEF BlockRange
  <2> QED
    BY <1>1, <1>2, <2>1 DEF Ids
<1>4. Truncate(t) /\ i = frame[t].inum
  <2>1. freeinode_ts[i] # "FREE"
    BY DEF IsTaken
  <2>2. \/ inode_table'[i].i_size = inode_table[i].i_size
        \/ inode_table'[i].i_size > inode_table[i].i_size
        \/ Truncate(t) /\ i = frame[t].inum
    BY <2>1, SizesMove
  <2> QED
    BY <1>2, <1>3, <2>2
<1>5. TruncateOK(i)
  <2>1. inode_table' # inode_table
    BY <1>1
  <2> QED
    BY <1>4, <2>1 DEF Truncate
<1> QED
  BY <1>4, <1>5

\* The file of a writer that advances needs the block that was written.
LEMMA AdvancedNeeds ==
  ASSUME FilesInv, FilesInv', NEW t \in Threads, Advance(t), NEW i \in Inumbers, i = Inum(t),
         NEW q, q = BlockId(t)
  PROVE  q \in Needs(i)'
<1>1. frame[t].at = "advance" /\ Inside(frame[t]) /\ frame[t].done < frame[t].todo
  BY DEF Advance, At, Inside, FilesInv, CallsOK, CallOK
<1>2. /\ q \in BlockRange /\ BLOCK_SIZE * q \in Nat /\ Offset(t) + Piece(t) > BLOCK_SIZE * q
      /\ Offset(t) + Piece(t) \in Nat
  BY <1>1, CallPlace, AdvanceFits DEF FileOffsets
<1>3. inode_table'[i].i_size >= Offset(t) + Piece(t) /\ inode_table'[i].i_size \in Nat
  BY AdvanceMoves DEF FileOffsets
<1>4. q \in Ids(inode_table'[i].i_size)
  <2>1. BLOCK_SIZE * q < inode_table'[i].i_size /\ q # -1
    BY <1>2, <1>3 DEF BlockRange
  <2> QED
    BY <1>2, <2>1 DEF Ids
<1> QED
  BY <1>4, NeedsAre

\* Until blocks go astray, a truncation, or a write that fails half-way, loses no
\* block but the indirect block of the truncated file, the indirect block for which
\* no data block was left, and a block past the direct ones whose number does not
\* fit its char.
THEOREM NoOtherIsLost == Spec => LosesNoOther
<1> DEFINE Loses == \A b \in Lost' \ Lost : Astray' \/ LosesIndirect(b) \/ LosesNumber(b)
<1>1. BlocksInv /\ BlocksInv' /\ [Next]_vars => [Loses]_vars
  <2> SUFFICES ASSUME FilesInv, InsideInv, OwnInv, FilesInv', NEW t \in Threads, Step(t) \/ Call(t),
                      NEW b \in Blocks, ~Astray', b \in Lost', ~LosesIndirect(b), ~LosesNumber(b)
               PROVE  b \in Lost
    BY DEF Next, BlocksInv, Lost
  <2>0. ~Astray /\ ~undercut'
    BY NotAstray
  <2>1. /\ free_blocks'[b] = "TAKEN"
        /\ \A i \in Inumbers : IsTaken(i)' => \A id \in Needs(i)' : BlockOf(i, id)' # b
        /\ \A u \in Threads : Pending(u)' => BlockOf(Inum(u), BlockId(u))' # b
    BY DEF Lost, Pending
  <2>2. SUFFICES
          /\ free_blocks[b] = "TAKEN"
          /\ \A i \in Inumbers : IsTaken(i) => \A id \in Needs(i) : BlockOf(i, id) # b
          /\ \A u \in Threads : Pending(u) => BlockOf(Inum(u), BlockId(u)) # b
    BY DEF Lost, Pending
  <2>3. /\ \A i \in Inumbers : \A id \in Needs(i) : Claimed(i, id) /\ id \in {-1} \cup BlockRange
        /\ \A u \in Threads : Pending(u) =>
             /\ IsTaken(Inum(u)) /\ Inum(u) \in Inumbers /\ BlockId(u) \in {-1} \cup BlockRange
             /\ BlockId(u) # -1 /\ Claimed(Inum(u), BlockId(u))
    <3>1. \A i \in Inumbers : \A id \in Needs(i) : Claimed(i, id)
      BY DEF Claimed
    <3>2. ASSUME NEW u \in Threads, Pending(u)
          PROVE  /\ IsTaken(Inum(u)) /\ Inum(u) \in Inumbers /\ BlockId(u) \in {-1} \cup BlockRange
                 /\ BlockId(u) # -1 /\ Claimed(Inum(u), BlockId(u))
      <4>1. IsTaken(Inum(u)) /\ Inum(u) \in Inumbers /\ BlockId(u) \in BlockRange
        BY <3>2, PendingPlace, CallPlace DEF IsFile, IsTaken
      <4> QED
        BY <3>2, <4>1 DEF Claimed, PendingIds, BlockRange
    <3> QED
      BY <3>1, <3>2, ClaimsInRange
  <2>4. \A u \in Threads : Pending(u) /\ u # t =>
          Pending(u)' /\ Inum(u)' = Inum(u) /\ BlockId(u)' = BlockId(u)
    <3> SUFFICES ASSUME NEW u \in Threads, Pending(u), u # t
                 PROVE  Pending(u)' /\ Inum(u)' = Inum(u) /\ BlockId(u)' = BlockId(u)
      OBVIOUS
    <3>1. frame'[u] = frame[u]
      BY OthersStay DEF Others
    <3>2. open_file_table'[frame[u].h] = open_file_table[frame[u].h]
      BY PendingPlace, OthersKeepOffset DEF FilesInv
    <3> QED
      BY <3>1, <3>2 DEF Pending, Writing, Inum, BlockId, Offset
  <2>5. CASE ~WriteBlock(t)
    <3>1. free_blocks[b] = "TAKEN"
      BY <2>1, <2>5, TakenBefore
    <3>2. \A i \in Inumbers, id \in {-1} \cup BlockRange : BlockOf(i, id)' = BlockOf(i, id)
      BY <2>5, NumbersKept
    <3>3. ASSUME NEW i \in Inumbers, IsTaken(i), NEW id \in Needs(i), BlockOf(i, id) = b
          PROVE  FALSE
      <4>1. id \notin Needs(i)' /\ id \in {-1} \cup BlockRange
        BY <2>1, <2>3, <3>2, <3>3, FilesStay
      <4>2. Truncate(t) /\ i = frame[t].inum
        BY <2>0, <3>3, <4>1, ClaimsStay
      <4>3. CASE id = -1
        <5>1. inode_table'[i].i_data_indirect = b
          BY <3>2, <3>3, <4>3 DEF BlockOf
        <5>2. LosesIndirect(b)
          BY <3>3, <4>3, <5>1 DEF LosesIndirect
        <5> QED
          BY <5>2
      <4>4. CASE id # -1
        <5>1. b \in FileBlocks(i)
          BY <3>3, <4>4, NeedsAre DEF BlockOf, FileBlocks
        <5>2. free_blocks' = truncate_file(i)
          BY <4>2 DEF Truncate
        <5> QED
          BY <2>1, <5>1, <5>2 DEF truncate_file
      <4> QED
        BY <4>3, <4>4
    <3>4. ASSUME NEW u \in Threads, Pending(u), BlockOf(Inum(u), BlockId(u)) = b
          PROVE  FALSE
      <4>1. PICK i \in Inumbers, q \in {-1} \cup BlockRange : i = Inum(u) /\ q = BlockId(u)
        BY <2>3, <3>4
      <4>2. BlockOf(i, q)' = b /\ IsTaken(i)'
        BY <2>3, <3>2, <3>4, <4>1, FilesStay
      <4>3. CASE u # t
        <5>1. Pending(u)' /\ Inum(u)' = i /\ BlockId(u)' = q
          BY <2>4, <3>4, <4>1, <4>3
        <5> QED
          BY <2>1, <4>2, <5>1
      <4>4. CASE u = t
        <5>1. Advance(t)
          <6>1. frame[t].at = "advance"
            BY <3>4, <4>4 DEF Pending
          <6> QED
            BY <6>1, CallEffect, OpenEffects, HandleEffects, LocksFit DEF Step, FilesInv, WriteBlock,
               ReadBlock, Return, InLoop, At
        <5>2. q \in Needs(i)'
          BY <4>1, <4>4, <5>1, AdvancedNeeds
        <5> QED
          BY <2>1, <4>2, <5>2
      <4> QED
        BY <4>3, <4>4
    <3> QED
      BY <3>1, <3>3, <3>4
  <2>6. CASE WriteBlock(t)
    <3>1. PICK i \in Inumbers : i = Inum(t)
      BY <2>6, AtFile DEF WriteBlock, InLoop, At, FilesInv, Inside
    <3>2. PICK q, r, p : q = BlockId(t) /\ r = Offset(t) % BLOCK_SIZE /\ p = Piece(t)
      OBVIOUS
    <3>3. CASE UNCHANGED <<state_vars, locks, frame, wrapped, undercut>>
      BY <2>1, <3>3 DEF IsTaken, Needs, BlockIds, Pending, Writing, Inum, BlockId, Offset, BlockOf,
         get_inode_block, Disk, state_vars, inode_vars, block_vars, open_vars
    <3>4. frame[t].at = "loop" /\ Writing(t)
      <4>1. WriteBlock(t) => InLoop(t) /\ Writing(t)
        BY DEF WriteBlock
      <4> QED
        BY <2>6, <4>1 DEF InLoop, At
    <3>5. CASE ~UNCHANGED <<state_vars, locks, frame, wrapped, undercut>>
      <4>1. \A j \in Inumbers, id \in {-1} \cup BlockRange :
              IsTaken(j) /\ Claimed(j, id) => BlockOf(j, id)' = BlockOf(j, id)
        BY <2>6, <3>1, <3>2, <3>5, WriteKeeps DEF Kept
      <4>2. free_blocks[b] = "TAKEN"
        <5>1. PICK block :
                /\ \A c \in Blocks : free_blocks[c] # "TAKEN" /\ free_blocks'[c] = "TAKEN" =>
                     c = block \/ CutNumber(q, c) \/ inode_table'[i].i_data_indirect = c
                /\ block \in Blocks => GoesTo(t, "advance", {}) /\ BlockOf(i, q)' = block
                /\ block \notin Blocks => frame'[t] = Idle
          BY <2>6, <3>1, <3>2, <3>5, WriteKeeps
        <5>2. ASSUME b = block
              PROVE  FALSE
          <6>1. Pending(t)' /\ frame'[t].h = frame[t].h
            BY <2>6, <5>1, <5>2 DEF WriteBlock, Pending, Writing, GoesTo, Fields
          <6>2. Inum(t)' = i /\ BlockId(t)' = q
            <7>1. open_file_table' = open_file_table
              BY <2>6, <3>1, <3>2, <3>5, WriteKeeps DEF open_vars
            <7> QED
              BY <3>1, <3>2, <6>1, <7>1 DEF Inum, BlockId, Offset
          <6> QED
            BY <2>1, <5>1, <5>2, <6>1, <6>2
        <5>3. ASSUME free_blocks[b] # "TAKEN"
              PROVE  FALSE
          <6>1. free_blocks[b] = "FREE"
            BY <5>3 DEF FilesInv, TablesOK, AllocState
          <6>2. inode_table'[i].i_data_indirect # b
            BY <6>1 DEF LosesIndirect
          <6>3. b = block \/ CutNumber(q, b)
            BY <2>1, <5>1, <5>3, <6>2
          <6>4. frame[t].at = "loop" /\ Writing(t) /\ frame'[t] # frame[t]
            <7>1. frame[t].at = "loop" /\ Writing(t)
              BY <3>4
            <7>2. block \in Blocks => frame'[t].at = "advance"
              BY <5>1 DEF GoesTo
            <7>3. block \notin Blocks => frame'[t].at = "idle"
              BY <5>1 DEF Idle
            <7> QED
              BY <7>1, <7>2, <7>3
          <6> QED
            BY <3>2, <5>2, <6>1, <6>3, <6>4 DEF LosesNumber, CutNumber
        <5> QED
          BY <5>3
      <4>3. ASSUME NEW j \in Inumbers, IsTaken(j), NEW id \in Needs(j)
            PROVE  BlockOf(j, id) # b
        <5>1. inode_table'[j].i_size = inode_table[j].i_size
          BY <2>6, WrittenTables
        <5>2. id \in Needs(j)'
          BY <4>3, <5>1, NeedsAre
        <5> QED
          BY <2>1, <2>3, <4>1, <4>3, <5>2, FilesStay
      <4>4. ASSUME NEW u \in Threads, Pending(u)
            PROVE  BlockOf(Inum(u), BlockId(u)) # b
        <5>1. PICK j \in Inumbers, k \in {-1} \cup BlockRange : j = Inum(u) /\ k = BlockId(u)
          BY <2>3, <4>4
        <5>2. u # t
          BY <2>6, <4>4 DEF Pending, WriteBlock, InLoop, At
        <5>3. Pending(u)' /\ Inum(u)' = j /\ BlockId(u)' = k
          BY <2>4, <4>4, <5>1, <5>2
        <5> QED
          BY <2>1, <2>3, <4>1, <4>4, <5>1, <5>3
      <4> QED
        BY <4>2, <4>3, <4>4
    <3> QED
      BY <3>3, <3>5
  <2> QED
    BY <2>5, <2>6
<1> QED
  BY <1>1, BlocksAlways, PTL DEF Spec, LosesNoOther

=============================================================================
