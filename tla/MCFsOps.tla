------------------------------ MODULE MCFsOps ------------------------------
(* Values for the constants of FsOps, shared by its runs.                  *)
EXTENDS FsOps, TLC

MCNames == {"a", "b", "long", "lon"}
MCCut == [n \in MCNames |-> IF n = "long" THEN "lon" ELSE n]

Path(sub) == [abs |-> TRUE, sub |-> sub]

OnePath   == {Path("a")}
TwoPaths  == {Path("a"), Path("b")}
\* A path whose name is cut when it is stored, and two that are no path names.
OddPaths  == {Path("a"), Path("long"), [abs |-> FALSE, sub |-> "a"], Path("")}

MissingOrNew == {{}, {"CREAT"}}
NewOnly      == {{"CREAT"}}
AllFlags     == {{}, {"CREAT"}, {"TRUNC"}, {"CREAT", "APPEND"}}

============================================================================
