----------------------------- MODULE TfsClients -----------------------------
(***************************************************************************)
(* The clients of TecnicoFS (tecnicofs_ex2/client/tecnicofs_client_api.c)  *)
(* and the server they share.  A client makes one call at a time: it sends *)
(* a request down the server's pipe and, except in tfs_unmount, reads the  *)
(* answer from a pipe of its own.                                          *)
(***************************************************************************)
EXTENDS TfsServer

CONSTANTS
  CallsMade,   \* the calls the clients make, besides tfs_mount
  LongWriters, \* the clients that pass tfs_write more bytes than the server reads at once
  Mortal,      \* the clients that may be killed
  MAX_QUEUE    \* bound: no call is made while a pipe holds that many messages

ASSUME ClientsAssumption ==
  /\ CallsMade \subseteq Calls \ {"tfs_mount"}
  /\ LongWriters \subseteq Clients
  /\ Mortal \subseteq Clients
  /\ MAX_QUEUE \in Nat

VARIABLES
  cpc,          \* client -> where it is
  session_id,   \* client -> its static session_id
  call,         \* client -> the call it is in
  inbox,        \* client -> the answers in its pipe
  got           \* client -> the answer its last call returned with

client_vars == <<cpc, session_id, call, inbox, got>>
vars == <<request_pipe, writers, server_vars, client_vars>>

Places == {"unmounted", "connecting", "opening", "receiving", "mounted", "gone"}

Reply == [val : Values, call : Calls \cup {"stray"}, from : Clients \cup {"nobody"}]

NoAnswer == [val |-> GARBAGE]     \* the end of the pipe was read

TypeOK ==
  /\ ServerTypeOK
  /\ cpc \in [Clients -> Places]
  /\ session_id \in [Clients -> Values]
  /\ call \in [Clients -> Calls]
  /\ inbox \in [Clients -> Seq(Reply)]
  /\ got \in [Clients -> Reply \cup {NoAnswer}]

Init ==
  /\ ServerInit
  /\ cpc = [c \in Clients |-> "unmounted"]
  /\ session_id = [c \in Clients |-> -1]
  /\ call = [c \in Clients |-> "tfs_mount"]
  /\ inbox = [c \in Clients |-> <<>>]
  /\ got = [c \in Clients |-> NoAnswer]

----------------------------------------------------------------------------
(* The client API.                                                         *)

\* The sessions that an int may name, as the server reads it.
AsSession(i) == CASE i = GARBAGE                -> Sessions \cup {GARBAGE}
                  [] i \in Sessions \cup {-1}   -> {i}
                  [] OTHER                      -> {GARBAGE}

Addressed(op, sids) == {[op |-> op, sid |-> s] : s \in sids}

\* What the server may see of call k.  tfs_open and tfs_write copy the name and
\* the data over the operation code and the session, unless there is no data;
\* tfs_unmount puts the low byte of session_id above three bytes it does not
\* write; the code of tfs_shutdown_after_all_closed is that of tfs_read.
Wire(c, k) ==
  LET unknown == session_id[c] = GARBAGE
      low0    == unknown \/ session_id[c] % 256 = 0
  IN  CASE k = "tfs_open"    -> Addressed("other", {GARBAGE})
        [] k = "tfs_write"   -> Payloads \cup Addressed("file", AsSession(session_id[c]))
        [] k = "tfs_unmount" -> Addressed("unmount", {GARBAGE} \cup IF low0 THEN Sessions ELSE {})
        [] OTHER             -> Addressed("file", AsSession(session_id[c]))

\* Call k of c goes into the pipe, and rest after it.
send_to_pipe(c, k, bytes, rest) ==
  request_pipe' = Append(request_pipe, [op |-> bytes.op, sid |-> bytes.sid, call |-> k, from |-> c])
                  \o rest

SendRequest(c, k) ==
  \/ \E bytes \in Wire(c, k) : send_to_pipe(c, k, bytes, <<>>)
  \/ /\ c \in LongWriters /\ k = "tfs_write"
     /\ \E bytes \in Payloads, stray \in Strays :
          send_to_pipe(c, k, bytes, [i \in 1 .. READ_MAX |-> stray])

\* tfs_mount, up to the open of the server's pipe, which waits for the server's.
\* A client mounts once.
tfs_mount(c) ==
  /\ cpc[c] = "unmounted" /\ ~undefined
  /\ writers' = writers \cup {c}
  /\ OpenServerPipe
  /\ cpc' = [cpc EXCEPT ![c] = "connecting"]
  /\ UNCHANGED <<request_pipe, buffer, session, id, wpc, fclient, result, fd, undefined>>
  /\ UNCHANGED <<session_id, call, inbox, got>>

\* Its request, up to the open of its own pipe, which blocks.
SendMount(c) ==
  /\ cpc[c] = "connecting" /\ ~undefined
  /\ send_to_pipe(c, "tfs_mount", [op |-> "mount", sid |-> -1], <<>>)
  /\ call' = [call EXCEPT ![c] = "tfs_mount"]
  /\ cpc' = [cpc EXCEPT ![c] = "opening"]
  /\ UNCHANGED <<writers, server_vars, session_id, inbox, got>>

\* Mutant: tfs_shutdown_after_all_closed does not read its answer.
RequestAndWait_unread(c, k) ==
  /\ k \in CallsMade \ {"tfs_unmount"}
  /\ cpc[c] = "mounted" /\ ~undefined
  /\ Len(request_pipe) < MAX_QUEUE /\ \A d \in Clients : Len(inbox[d]) < MAX_QUEUE
  /\ SendRequest(c, k)
  /\ IF k = "tfs_shutdown_after_all_closed"
     THEN UNCHANGED <<call, cpc>>
     ELSE call' = [call EXCEPT ![c] = k] /\ cpc' = [cpc EXCEPT ![c] = "receiving"]
  /\ got' = [got EXCEPT ![c] = NoAnswer]
  /\ UNCHANGED <<writers, server_vars, session_id, inbox>>

\* tfs_open, tfs_close, tfs_write, tfs_read, tfs_shutdown_after_all_closed, up
\* to the read of the answer.
RequestAndWait(c, k) ==
  /\ k \in CallsMade \ {"tfs_unmount"}
  /\ cpc[c] = "mounted" /\ ~undefined
  /\ Len(request_pipe) < MAX_QUEUE /\ \A d \in Clients : Len(inbox[d]) < MAX_QUEUE
  /\ SendRequest(c, k)
  /\ call' = [call EXCEPT ![c] = k]
  /\ cpc' = [cpc EXCEPT ![c] = "receiving"]
  /\ got' = [got EXCEPT ![c] = NoAnswer]
  /\ UNCHANGED <<writers, server_vars, session_id, inbox>>

\* The answer, as soon as there is one.  tfs_read reads up to MAX_FILE_LENGTH
\* bytes, and so every answer in its pipe.  With no writer left read returns 0
\* and the answer is whatever the variable held.
Receive(c) ==
  LET open == \E f \in Fds : fd[f] = c IN
  /\ cpc[c] = "receiving" /\ ~undefined
  /\ \/ /\ inbox[c] # <<>>
        /\ got' = [got EXCEPT ![c] = Head(inbox[c])]
        /\ inbox' = [inbox EXCEPT ![c] = IF call[c] = "tfs_read" THEN <<>> ELSE Tail(@)]
     \/ /\ inbox[c] = <<>> /\ ~open
        /\ got' = [got EXCEPT ![c] = NoAnswer]
        /\ UNCHANGED inbox
  /\ session_id' = IF call[c] = "tfs_mount" THEN [session_id EXCEPT ![c] = got'[c].val]
                                            ELSE session_id
  /\ cpc' = [cpc EXCEPT ![c] = "mounted"]
  /\ UNCHANGED <<request_pipe, writers, server_vars, call>>

\* The client closes both pipes, as it also does when it exits or is killed.
\* Nothing of a client that is gone is kept.
Leave(c) ==
  /\ writers' = writers \ {c}
  /\ cpc' = [cpc EXCEPT ![c] = "gone"]
  /\ inbox' = [inbox EXCEPT ![c] = <<>>]
  /\ session_id' = [session_id EXCEPT ![c] = -1]
  /\ got' = [got EXCEPT ![c] = NoAnswer]
  /\ call' = [call EXCEPT ![c] = "tfs_mount"]
  /\ UNCHANGED server_vars

\* No answer is awaited.
tfs_unmount(c) ==
  /\ "tfs_unmount" \in CallsMade
  /\ cpc[c] = "mounted" /\ ~undefined
  /\ SendRequest(c, "tfs_unmount")
  /\ Leave(c)

Killed(c) ==
  /\ c \in Mortal /\ cpc[c] \in {"connecting", "opening", "receiving", "mounted"} /\ ~undefined
  /\ Leave(c)
  /\ UNCHANGED request_pipe

----------------------------------------------------------------------------
(* The steps of the server that a client takes part in.                    *)

\* A client that waits in open goes on when the worker opens the other end.
OpenClientPipe(w) == \E c \in Clients :
  /\ cpc[c] \in {"opening", "receiving", "mounted"}
  /\ ServeMount(w, c)
  /\ cpc' = [cpc EXCEPT ![c] = IF @ = "opening" THEN "receiving" ELSE @]
  /\ UNCHANGED <<session_id, call, inbox, got>>

\* The answer goes to the pipe behind fclient, if there is one and its reader
\* has not gone.
SendAnswer(w) ==
  LET c == Receiver(w) IN
  /\ Finish(w)
  /\ inbox' = IF c \in Clients /\ cpc[c] # "gone"
              THEN [inbox EXCEPT ![c] = Append(@, Answer(w))]
              ELSE inbox
  /\ UNCHANGED <<cpc, session_id, call, got>>

MainStep ==
  /\ receive_from_pipe \/ find_session_id \/ PostMount \/ Post
  /\ UNCHANGED client_vars

WorkerStep(w) ==
  \/ OpenClientPipe(w) \/ SendAnswer(w)
  \/ /\ TestCount(w) \/ FailMount(w) \/ ServeUnmount(w) \/ ServeFile(w) \/ ServeOther(w)
     /\ UNCHANGED client_vars

SpuriousWakeUp ==
  /\ MainSpuriousWakeUp \/ \E w \in Workers : WorkerSpuriousWakeUp(w)
  /\ UNCHANGED client_vars

Next ==
  \/ MainStep
  \/ \E w \in Workers : WorkerStep(w)
  \/ SpuriousWakeUp
  \/ \E c \in Clients : \/ tfs_mount(c) \/ SendMount(c) \/ Receive(c) \/ tfs_unmount(c) \/ Killed(c)
                        \/ \E k \in Calls : RequestAndWait(c, k)

Spec == Init /\ [][Next]_vars

\* Threads of the server run on, and a client reads an answer that is there.
\* Clients need not make calls.
Fairness ==
  /\ WF_vars(MainStep)
  /\ \A w \in Workers : WF_vars(WorkerStep(w))
  /\ \A c \in Clients : WF_vars(Receive(c))

FairSpec == Spec /\ Fairness

----------------------------------------------------------------------------
(* What the hand-off between the main thread and the workers promises,     *)
(* whatever the clients do.                                                *)

\* No thread sleeps through the signal it needs: the main thread only while the
\* slot it wants is in use, and not all workers of a slot that holds a request,
\* also when several workers read the same argument.  A slot may have no worker
\* at all, or none but those that init's second initialisation of the condition
\* has lost: its requests wait for ever.
NoLostSignal ==
  /\ main.pc = "asleep" => session[main.sid].count # 0
  /\ \A s \in Sessions : session[s].count # 0 =>
       LET serving == {w \in Workers : id[w] = s /\ wpc[w] # "lost"}
       IN  serving = {} \/ \E w \in serving : wpc[w] # "asleep"

\* The main thread comes back to read the pipe, however the workers and the
\* clients are scheduled, as long as no client dies.
MainGoesOn == []<>(main.pc \in {"open", "read"} \/ undefined)

----------------------------------------------------------------------------
(* What a client that has the server to itself gets.                       *)

\* A call that was sent returns, if the path of the client's pipe is not cut and
\* what it writes names no other session.
CallsReturn == \A c \in Clients \ LongPaths :
  cpc[c] \in {"opening", "receiving"} ~> cpc[c] \in {"mounted", "gone"} \/ undefined

\* The answer a call returns with is the answer to the request sent for it, whose
\* execution may still be that of another operation, as long as no tfs_write
\* sends more than the server reads at once.
AnswersOwnCall == \A c \in Clients :
  cpc[c] = "mounted" => got[c] # NoAnswer /\ got[c].from = c /\ got[c].call = call[c]

\* A slot holds one request at most: the one its worker executes is the one that
\* was put there, and new_command is freed once.
OneRequestPerSlot == \A s \in Sessions : session[s].count \in {0, 1}

=============================================================================
