----------------------------- MODULE AbstractFs -----------------------------
(***************************************************************************)
(* What the operations of TecnicoFS promise their callers                  *)
(* (tecnicofs_ex2/fs/operations.h), without i-nodes, blocks or tables: a   *)
(* file is a sequence of bytes under a name, an open handle is a position  *)
(* in a file, and every operation is one step.                             *)
(***************************************************************************)
EXTENDS Integers, Sequences, FiniteSetsExt, Functions

CONSTANTS Names, Handles, Data, OpenFlags, Lens, MaxSize

VARIABLES
  files,     \* name -> contents, for the files that exist
  handles,   \* handle -> [name, pos], for the handles that are open
  alive,     \* tfs_destroy_after_all_closed has not returned
  reply      \* the answer to the last call

absvars == <<files, handles, alive, reply>>

Answers(op, val, data) == reply' = [op |-> op, val |-> val, data |-> data]

With(f, x, v) == [y \in DOMAIN f \cup {x} |-> IF y = x THEN v ELSE f[y]]

Init ==
  /\ files = [n \in {} |-> <<>>]
  /\ handles = [h \in {} |-> [name |-> "", pos |-> 0]]
  /\ alive = TRUE
  /\ reply = [op |-> "init", val |-> 0, data |-> <<>>]

\* A handle not in use, at pos in the file; -1 only when all are in use.
Grant(name, pos) ==
  \/ \E h \in Handles \ DOMAIN handles :
       /\ handles' = With(handles, h, [name |-> name, pos |-> pos])
       /\ Answers("open", h, <<>>)
  \/ /\ DOMAIN handles = Handles
     /\ Answers("open", -1, <<>>)
     /\ UNCHANGED handles

Lookup(name) ==
  /\ Answers("lookup", IF name \in DOMAIN files THEN 0 ELSE -1, <<>>)
  /\ UNCHANGED <<files, handles, alive>>

\* Without TFS_O_TRUNC the contents are kept, without TFS_O_APPEND the
\* position is 0.
OpenFile(name, flags) ==
  LET contents == IF "TRUNC" \in flags THEN <<>> ELSE files[name] IN
  /\ name \in DOMAIN files
  /\ files' = [files EXCEPT ![name] = contents]
  /\ Grant(name, IF "APPEND" \in flags THEN Len(contents) ELSE 0)
  /\ UNCHANGED alive

CreateFile(name, flags) ==
  /\ name \notin DOMAIN files /\ "CREAT" \in flags
  /\ files' = With(files, name, <<>>)
  /\ Grant(name, 0)
  /\ UNCHANGED alive

\* There is no such file, and it is not to be created or there is no room.
RefuseOpen(name) ==
  /\ name \notin DOMAIN files
  /\ Answers("open", -1, <<>>)
  /\ UNCHANGED <<files, handles, alive>>

Close(h) ==
  /\ h \in DOMAIN handles
  /\ handles' = [g \in DOMAIN handles \ {h} |-> handles[g]]
  /\ Answers("close", 0, <<>>)
  /\ UNCHANGED <<files, alive>>

\* The bytes from pos on are replaced, as many as the largest file allows.
Write(h, d, len) ==
  LET name == handles[h].name
      pos  == handles[h].pos
      n    == Min({len, MaxSize - pos})
      size == Max({Len(files[name]), pos + n})
  IN
  /\ h \in DOMAIN handles
  /\ files' = [files EXCEPT ![name] =
       [k \in 1 .. size |-> IF k \in pos + 1 .. pos + n THEN d ELSE @[k]]]
  /\ handles' = [handles EXCEPT ![h].pos = pos + n]
  /\ Answers("write", n, <<>>)
  /\ UNCHANGED alive

\* Only a file that has no block yet can find the device full.
RefuseWrite(h) ==
  /\ h \in DOMAIN handles /\ files[handles[h].name] = <<>>
  /\ Answers("write", -1, <<>>)
  /\ UNCHANGED <<files, handles, alive>>

Read(h, len) ==
  LET contents == files[handles[h].name]
      pos      == handles[h].pos
      n        == Min({len, Len(contents) - pos})
  IN
  /\ h \in DOMAIN handles
  /\ handles' = [handles EXCEPT ![h].pos = pos + n]
  /\ Answers("read", n, SubSeq(contents, pos + 1, pos + n))
  /\ UNCHANGED <<files, alive>>

Shutdown ==
  /\ DOMAIN handles = {}
  /\ alive' = FALSE
  /\ Answers("destroy", 0, <<>>)
  /\ UNCHANGED <<files, handles>>

Refuse(op) ==
  /\ ~alive
  /\ Answers(op, -1, <<>>)
  /\ UNCHANGED <<files, handles, alive>>

Next ==
  \/ /\ alive
     /\ \/ \E name \in Names : Lookup(name) \/ RefuseOpen(name)
        \/ \E name \in Names, flags \in OpenFlags : OpenFile(name, flags) \/ CreateFile(name, flags)
        \/ \E h \in Handles : Close(h) \/ RefuseWrite(h)
        \/ \E h \in Handles, d \in Data, len \in Lens : Write(h, d, len)
        \/ \E h \in Handles, len \in Lens : Read(h, len)
        \/ Shutdown
  \/ \E op \in {"lookup", "open", "close", "write", "read", "destroy"} : Refuse(op)

Spec == Init /\ [][Next]_absvars

============================================================================
