---------------------------- MODULE FsStateProof ----------------------------
(***************************************************************************)
(* What the scans of the tables find and what an allocation changes, for   *)
(* tables of any size; and what a part of a sequence is.                   *)
(***************************************************************************)
EXTENDS FsState, SequenceTheorems, WellFoundedInduction, TLAPS

\* A scan of a table finds an entry when there is one.
LEMMA FirstFound ==
  ASSUME NEW P \in SUBSET Nat, P # {}
  PROVE  First(P) \in P
<1>1. \E x \in P : \A y \in P : ~(<<y, x>> \in OpToRel(<, Nat))
  BY NatLessThanWellFounded, WFMin
<1>2. PICK x \in P : \A y \in P : ~(y < x)
  BY <1>1, Zenon DEF OpToRel
<1>3. IsFirst(P, x)
  BY <1>2 DEF IsFirst
<1> QED
  BY <1>3 DEF First, IsFirst

\* A scan returns an entry of the kind it looks for, or -1.
LEMMA FirstOrNone ==
  ASSUME NEW P
  PROVE  First(P) = -1 \/ First(P) \in P
BY DEF First, IsFirst

\* An allocation takes the entry the scan returns, and no other.
LEMMA TakeFirstAt ==
  ASSUME NEW S, NEW ts \in [S -> AllocState]
  PROVE  /\ TakeFirst(ts) \in [S -> AllocState]
         /\ \A i \in S : TakeFirst(ts)[i] =
              IF i = First(FreeIn(ts)) THEN "TAKEN" ELSE ts[i]
         /\ First(FreeIn(ts)) # -1 => First(FreeIn(ts)) \in S /\ ts[First(FreeIn(ts))] = "FREE"
BY FirstOrNone DEF TakeFirst, FreeIn, AllocState

\* A part of a sequence, as a function of its places.
LEMMA SubSeqIs ==
  ASSUME NEW s, NEW a \in Nat, NEW m \in Nat, NEW U, NEW v \in Seq(U), Len(v) = m,
         \A k \in 1 .. m : v[k] = s[a + k]
  PROVE  v = SubSeq(s, a + 1, a + m)
<1>1. PICK x, z, T : x = a + 1 /\ z = a + m /\ T = {s[k] : k \in x .. z}
  OBVIOUS
<1>2. /\ x \in Int /\ z \in Int /\ z - x + 1 = m /\ (x <= z <=> m > 0)
      /\ \A k \in 1 .. m : x + k - 1 = a + k
  BY <1>1
<1>3. \A k \in x .. z : s[k] \in T
  BY <1>1
<1>4. PICK w : w = SubSeq(s, x, z)
  OBVIOUS
<1>5. /\ SubSeq(s, x, z) \in Seq(T)
      /\ Len(SubSeq(s, x, z)) = IF x <= z THEN z - x + 1 ELSE 0
      /\ \A k \in 1 .. z - x + 1 : SubSeq(s, x, z)[k] = s[x + k - 1]
  BY <1>2, <1>3, SubSeqProperties
<1>6. w \in Seq(T) /\ Len(w) = m
  BY <1>2, <1>4, <1>5
<1>7. \A k \in 1 .. m : w[k] = s[a + k]
  BY <1>2, <1>4, <1>5
<1>8. w = v
  BY <1>6, <1>7
<1> QED
  BY <1>1, <1>4, <1>8

=============================================================================
