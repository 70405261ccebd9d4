------------------------------- MODULE MCEx1 -------------------------------
(* Values for the constants of Ex1Ops, shared by its runs.                 *)
EXTENDS Ex1Refines

MCNames == {"a", "b"}
MCCut == [n \in MCNames |-> n]

Path(sub) == [abs |-> TRUE, sub |-> sub]

OnePath  == {Path("a")}
TwoPaths == {Path("a"), Path("b")}

\* Buffers whose bytes differ, so that a piece in the wrong place shows.
TwoBytes   == {<<1, 2>>}
OneBuffer  == {<<1, 2, 1>>}
OddBuffers == {<<1>>, <<1, 2, 1>>}

NewOnly    == {{"CREAT"}}
NewOrEmpty == {{"CREAT"}, {"TRUNC"}}
AllFlags   == {{"CREAT"}, {"TRUNC"}, {"APPEND"}}

============================================================================
