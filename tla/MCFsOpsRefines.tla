--------------------------- MODULE MCFsOpsRefines ---------------------------
(* Values for the constants of FsOpsRefines.                               *)
EXTENDS FsOpsRefines, TLC

MCNames == {"a", "b"}
MCCut == [n \in MCNames |-> n]
TwoPaths == [abs : {TRUE}, sub : MCNames]
MCFlags == {{}, {"CREAT"}, {"TRUNC"}, {"APPEND"}}

============================================================================
