---------------------------- MODULE AbstractFiles ----------------------------
(***************************************************************************)
(* What the operations of the first exercise promise                       *)
(* (tecnicofs_ex1/fs/operations.h), without blocks, locks or tables: a     *)
(* file is a sequence of bytes, a handle is a position in a file.  Several *)
(* calls may be under way; each goes on by a piece of its file at a time,  *)
(* and touches nothing else.                                               *)
(***************************************************************************)
EXTENDS Integers, Sequences

CONSTANTS
  Files, Handles, Bytes,
  MaxSize,    \* of a file
  MaxPiece    \* of what is read or written in one step

VARIABLES
  contents,   \* file -> its bytes, for the files that exist
  position,   \* handle -> [file, at], for the handles that are open
  intact      \* every file has the blocks it was given, and no other

absvars == <<contents, position, intact>>

Without(f, x) == [y \in DOMAIN f \ {x} |-> f[y]]
With(f, x, v) == [y \in DOMAIN f \cup {x} |-> IF y = x THEN v ELSE f[y]]

Init ==
  /\ contents = [f \in {} |-> <<>>]
  /\ position = [h \in {} |-> <<>>]
  /\ intact = TRUE

Create(f) ==
  /\ f \notin DOMAIN contents
  /\ contents' = With(contents, f, <<>>)
  /\ UNCHANGED <<position, intact>>

\* Only handles at the start of the file may be open.
Truncate(f) ==
  /\ f \in DOMAIN contents
  /\ \A h \in DOMAIN position : position[h].file = f => position[h].at = 0
  /\ contents' = [contents EXCEPT ![f] = <<>>]
  /\ UNCHANGED <<position, intact>>

Open(h, f) ==
  /\ h \notin DOMAIN position /\ f \in DOMAIN contents
  /\ \E at \in 0 .. Len(contents[f]) :
       position' = With(position, h, [file |-> f, at |-> at])
  /\ UNCHANGED <<contents, intact>>

Close(h) ==
  /\ h \in DOMAIN position
  /\ position' = Without(position, h)
  /\ UNCHANGED <<contents, intact>>

Moves(h, n) == position' = [position EXCEPT ![h].at = @ + n]

\* A read goes on, inside the file.
Get(h) ==
  /\ h \in DOMAIN position
  /\ \E n \in 1 .. MaxPiece :
       /\ position[h].at + n <= Len(contents[position[h].file])
       /\ Moves(h, n)
  /\ UNCHANGED <<contents, intact>>

Spliced(s, at, bytes) ==
  LET end == at + Len(bytes) IN
  [k \in 1 .. (IF end > Len(s) THEN end ELSE Len(s)) |->
     IF k > at /\ k <= end THEN bytes[k - at] ELSE s[k]]

\* A write goes on: the bytes at the handle change, or are new.
Put(h) ==
  LET f == position[h].file  at == position[h].at IN
  /\ h \in DOMAIN position
  /\ \E n \in 1 .. MaxPiece : \E bytes \in [1 .. n -> Bytes] :
       /\ at + n <= MaxSize
       /\ contents' = [contents EXCEPT ![f] = Spliced(@, at, bytes)]
       /\ Moves(h, n)
  /\ UNCHANGED intact

\* Nothing is promised any more.
Breaks == intact' = FALSE

Next ==
  \/ Breaks
  \/ intact /\ \/ \E f \in Files : Create(f) \/ Truncate(f)
               \/ \E h \in Handles : Close(h) \/ Get(h) \/ Put(h)
               \/ \E h \in Handles, f \in Files : Open(h, f)

Spec == Init /\ [][Next]_absvars

==============================================================================
