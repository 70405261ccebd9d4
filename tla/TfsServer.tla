----------------------------- MODULE TfsServer -----------------------------
(***************************************************************************)
(* The server of TecnicoFS (tecnicofs_ex2/fs/tfs_server.c): the main       *)
(* thread reads requests from one pipe and hands each to the worker thread *)
(* of its session, which executes it and writes the answer to the client's *)
(* pipe.  Module TfsClients adds the clients and states the whole system.  *)
(*                                                                         *)
(* A session is one slot guarded by session_lock.  The worker keeps the    *)
(* mutex from the moment it finds count # 0 until it has answered, waits   *)
(* on pode_processar for a request, and signals pode_enviar when it has    *)
(* answered one.  The main thread's critical sections are one step each.   *)
(*                                                                         *)
(* A request is a record of what the server gets to see of it, op and sid, *)
(* and of where it came from, call and from.  A read of the pipe returns   *)
(* at most 1029 bytes: READ_MAX requests, each of which fits in one read.  *)
(* One that does not is a request followed by stray bytes, READ_MAX of     *)
(* them, so that the first read leaves some.  Strays that are dispatched   *)
(* are taken for a request of nobody.                                      *)
(***************************************************************************)
EXTENDS Integers, Sequences, FiniteSets

CONSTANTS
  S,            \* the number of sessions, and of workers
  Clients,
  Answers,      \* what tfs_open, tfs_close, tfs_write and tfs_read may return
  GARBAGE,      \* an int read from memory that does not hold the value meant
  Payloads,     \* what 5 bytes read as that are not the start of a request
  LongPaths,    \* the clients whose pipe's path has 35 characters or more
  OwnIds,       \* each worker reads its argument before init changes it
  READ_MAX,     \* the requests that one read of the server's pipe returns
  MAX_COUNT     \* bound: the end of the pipe is not read while a count is MAX_COUNT

Sessions == 0 .. S - 1

\* What the worker's switch tells apart: the calls of operations.c are one
\* case here, and "other" is the default and case 7.
OpCodes == {"mount", "unmount", "file", "other"}

\* Bytes that the server would take for a mount are left out.
ASSUME ServerAssumption ==
  /\ S \in Nat \ {0}
  /\ IsFiniteSet(Clients)
  /\ Answers \subseteq Int
  /\ GARBAGE \notin Int
  /\ Payloads \subseteq [op : OpCodes \ {"mount"}, sid : Sessions \cup {GARBAGE}]
  /\ LongPaths \subseteq Clients
  /\ OwnIds \in BOOLEAN
  /\ READ_MAX \in Nat \ {0}
  /\ MAX_COUNT \in Nat

Workers  == Sessions
Fds      == 1 .. Cardinality(Clients)     \* enough: each client mounts once

Lowest(numbers) == CHOOSE n \in numbers : \A m \in numbers : n <= m

Calls == {"tfs_mount", "tfs_unmount", "tfs_open", "tfs_close", "tfs_write", "tfs_read",
          "tfs_shutdown_after_all_closed"}

Request == [op : OpCodes, sid : Sessions \cup {-1, GARBAGE},
            call : Calls \cup {"stray"}, from : Clients \cup {"nobody"}]

Strays == {[op |-> bytes.op, sid |-> bytes.sid, call |-> "stray", from |-> "nobody"] :
             bytes \in Payloads}

NoRequest == [op |-> "none"]
Freed     == [op |-> "freed"]      \* what new_command points to was freed

VARIABLES
  request_pipe,   \* the requests in the server's pipe
  writers,        \* the clients that have it open
  buffer,         \* the last request read
  main,           \* [pc, sid]: the main thread
  session,        \* session -> [valid, count, new_command]
  id,             \* worker -> the session it serves
  wpc,            \* worker -> where it is in its loop
  fclient,        \* worker -> its file descriptor of a client pipe
  result,         \* worker -> the answer it is about to send; 0 when it has none
  fd,             \* descriptor -> the client whose pipe it writes to, or "closed"
  undefined       \* memory was used that is not there: nothing is modelled after it

server_vars == <<buffer, main, session, id, wpc, fclient, result, fd, undefined>>

Slot == [valid : {0, 1}, count : Nat, new_command : Request \cup {NoRequest, Freed}]

Values == Answers \cup {-1, 0, GARBAGE}

ServerTypeOK ==
  /\ request_pipe \in Seq(Request)
  /\ writers \subseteq Clients
  /\ buffer \in Request \cup {NoRequest}
  /\ main \in [pc : {"open", "read", "find", "mount", "post", "asleep"},
              sid : Sessions \cup {-1, GARBAGE}]
  /\ session \in [Sessions -> Slot]
  /\ id \in [Workers -> 0 .. S]
  /\ wpc \in [Workers -> {"ready", "asleep", "lost", "serving", "answering"}]
  /\ fclient \in [Workers -> Fds \cup {-1}]
  /\ result \in [Workers -> Values]
  /\ fd \in [Fds -> Clients \cup {"closed"}]
  /\ undefined \in BOOLEAN

\* init starts the workers with a pointer to its loop variable i: a worker may
\* read a later value of it, S included, or one of the second loop.  When it
\* is a later one, the worker may wait on a condition before init initialises
\* it, again as the storage is zero, and forgets the waiter.  The second loop
\* clears valid and count, which are 0 already.
ServerInit ==
  /\ request_pipe = <<>> /\ writers = {}
  /\ buffer = NoRequest
  /\ main = [pc |-> "open", sid |-> -1]
  /\ session = [s \in Sessions |-> [valid |-> 0, count |-> 0, new_command |-> NoRequest]]
  /\ id \in IF OwnIds THEN {[w \in Workers |-> w]} ELSE [Workers -> 0 .. S]
  /\ \E lost \in SUBSET {w \in Workers : id[w] > w /\ id[w] \in Sessions} :
       wpc = [w \in Workers |-> IF w \in lost THEN "lost" ELSE "ready"]
  /\ fclient = [w \in Workers |-> -1]
  /\ result = [w \in Workers |-> 0]
  /\ fd = [f \in Fds |-> "closed"]
  /\ undefined = \E w \in Workers : id[w] = S

----------------------------------------------------------------------------
(* The main thread.                                                        *)

\* A worker has session_lock[s].
Busy(s) == \E w \in Workers : id[w] = s /\ wpc[w] \in {"serving", "answering"}

\* The pipe opens when a first client opens its other end.
OpenServerPipe == main' = IF main.pc = "open" THEN [main EXCEPT !.pc = "read"] ELSE main

\* Where main goes with the request it has read.
Dispatch(r) == main' = IF r.op = "mount" THEN [pc |-> "find", sid |-> -1]
                                         ELSE [pc |-> "post", sid |-> r.sid]

\* What a read leaves in the pipe.  It may end inside a request.
Unread ==
  LET rest == SubSeq(request_pipe, READ_MAX + 1, Len(request_pipe))
  IN  {rest} \cup (IF rest = <<>> THEN {} ELSE {<<stray>> \o Tail(rest) : stray \in Strays})

\* Of the requests that one read returns the first is dispatched and the others
\* are lost.  With none in the pipe and no writer read returns 0, and the buffer
\* is dispatched once more, also when nothing was ever read into it.
receive_from_pipe ==
  /\ main.pc = "read" /\ ~undefined
  /\ \/ /\ request_pipe # <<>>
        /\ buffer' = Head(request_pipe)
        /\ request_pipe' \in Unread
     \/ /\ request_pipe = <<>> /\ writers = {}
        /\ \A s \in Sessions : session[s].count < MAX_COUNT
        /\ buffer' \in IF buffer = NoRequest THEN Strays ELSE {buffer}
        /\ UNCHANGED request_pipe
  /\ Dispatch(buffer')
  /\ UNCHANGED <<writers, session, id, wpc, fclient, result, fd, undefined>>

\* The first session that is not valid, read with no mutex held; with none the
\* index is -1.
find_session_id ==
  LET unused == {s \in Sessions : session[s].valid = 0} IN
  /\ main.pc = "find" /\ ~undefined
  /\ main' = [pc |-> "mount", sid |-> IF unused = {} THEN -1 ELSE Lowest(unused)]
  /\ UNCHANGED <<request_pipe, writers, buffer, session, id, wpc, fclient, result, fd,
                 undefined>>

\* Mutant: no signal.
SignalWorker_nobody(s) == UNCHANGED wpc

\* pthread_cond_signal(&pode_processar[s]).
SignalWorker(s) ==
  LET asleep == {w \in Workers : id[w] = s /\ wpc[w] = "asleep"} IN
  IF asleep = {} THEN UNCHANGED wpc ELSE \E w \in asleep : wpc' = [wpc EXCEPT ![w] = "ready"]

\* The request goes into the slot of session s.
Put(s) ==
  /\ session' = [session EXCEPT ![s].new_command = buffer, ![s].count = @ + 1]
  /\ SignalWorker(s)
  /\ main' = [pc |-> "read", sid |-> -1]

\* A mount is put there whatever the slot holds; index -1 is outside the table.
PostMount ==
  /\ main.pc = "mount" /\ ~undefined
  /\ IF main.sid \notin Sessions
     THEN undefined' = TRUE /\ UNCHANGED <<main, session, wpc>>
     ELSE ~Busy(main.sid) /\ Put(main.sid) /\ UNCHANGED undefined
  /\ UNCHANGED <<request_pipe, writers, buffer, id, fclient, result, fd>>

\* Mutant: a request does not wait for its slot.
Post_unwaited ==
  /\ main.pc = "post" /\ ~undefined
  /\ IF main.sid \notin Sessions
     THEN undefined' = TRUE /\ UNCHANGED <<main, session, wpc>>
     ELSE ~Busy(main.sid) /\ Put(main.sid) /\ UNCHANGED undefined
  /\ UNCHANGED <<request_pipe, writers, buffer, id, fclient, result, fd>>

\* Any other request waits on pode_enviar until the slot is empty.
Post ==
  LET s == main.sid IN
  /\ main.pc = "post" /\ ~undefined
  /\ IF s \notin Sessions
     THEN undefined' = TRUE /\ UNCHANGED <<main, session, wpc>>
     ELSE /\ ~Busy(s)
          /\ \/ session[s].count # 0 /\ main' = [main EXCEPT !.pc = "asleep"]
                /\ UNCHANGED <<session, wpc>>
             \/ session[s].count = 0 /\ Put(s)
          /\ UNCHANGED undefined
  /\ UNCHANGED <<request_pipe, writers, buffer, id, fclient, result, fd>>

MainSpuriousWakeUp ==
  /\ main.pc = "asleep" /\ ~undefined
  /\ main' = [main EXCEPT !.pc = "post"]
  /\ UNCHANGED <<request_pipe, writers, buffer, session, id, wpc, fclient, result, fd,
                 undefined>>

----------------------------------------------------------------------------
(* The worker of a session: tarefa_trabalhadora.                           *)

Command(w) == session[id[w]].new_command

At(w, where) == wpc[w] = where /\ ~undefined

\* With the mutex: sleep, or serve the request.  What new_command points to may
\* have been freed.
TestCount(w) ==
  /\ At(w, "ready")
  /\ ~Busy(id[w])
  /\ IF session[id[w]].count = 0
     THEN wpc' = [wpc EXCEPT ![w] = "asleep"] /\ UNCHANGED undefined
     ELSE IF Command(w) = Freed
          THEN undefined' = TRUE /\ UNCHANGED wpc
          ELSE wpc' = [wpc EXCEPT ![w] = "serving"] /\ UNCHANGED undefined
  /\ UNCHANGED <<request_pipe, writers, buffer, main, session, id, fclient, result, fd>>

\* For a worker the condition has forgotten this is the only way to wake up.
WorkerSpuriousWakeUp(w) ==
  /\ At(w, "asleep") \/ At(w, "lost")
  /\ wpc' = [wpc EXCEPT ![w] = "ready"]
  /\ UNCHANGED <<request_pipe, writers, buffer, main, session, id, fclient, result, fd,
                 undefined>>

Serves(w, op, val) ==
  /\ At(w, "serving") /\ Command(w).op = op
  /\ result' = [result EXCEPT ![w] = val]
  /\ wpc' = [wpc EXCEPT ![w] = "answering"]

\* Case 1, once the client has its end open for reading, or is opening it.  The
\* descriptor is the lowest free one; one the worker had is not closed.
ServeMount(w, client) ==
  LET free == {f \in Fds : fd[f] = "closed"}
      f    == Lowest(free)
  IN
  /\ Serves(w, "mount", 0) /\ client = Command(w).from
  /\ free # {}
  /\ fclient' = [fclient EXCEPT ![w] = f]
  /\ fd' = [fd EXCEPT ![f] = client]
  /\ session' = [session EXCEPT ![id[w]].valid = 1]
  /\ UNCHANGED <<request_pipe, writers, buffer, main, id, undefined>>

\* Case 1, when the path was cut: the open of whatever its end reads as fails,
\* and the answer goes to descriptor -1.
FailMount(w) ==
  /\ Serves(w, "mount", -1) /\ Command(w).from \in LongPaths
  /\ fclient' = [fclient EXCEPT ![w] = -1]
  /\ session' = [session EXCEPT ![id[w]].valid = 0]
  /\ UNCHANGED <<request_pipe, writers, buffer, main, id, fd, undefined>>

\* Mutant: sessions are counted instead of marked.
ServeUnmount_counted(w) ==
  /\ Serves(w, "unmount", 0)
  /\ session' = [session EXCEPT ![id[w]].valid = @ - 1]
  /\ fd' = [f \in Fds |-> IF f = fclient[w] THEN "closed" ELSE fd[f]]
  /\ UNCHANGED <<request_pipe, writers, buffer, main, id, fclient, undefined>>

\* Case 2.  fclient keeps the number of the closed descriptor.
ServeUnmount(w) ==
  /\ Serves(w, "unmount", 0)
  /\ session' = [session EXCEPT ![id[w]].valid = 0]
  /\ fd' = [f \in Fds |-> IF f = fclient[w] THEN "closed" ELSE fd[f]]
  /\ UNCHANGED <<request_pipe, writers, buffer, main, id, fclient, undefined>>

\* Cases 3 to 6: the operations of FsOps.
ServeFile(w) ==
  /\ \E val \in Answers : Serves(w, "file", val)
  /\ UNCHANGED <<request_pipe, writers, buffer, main, session, id, fclient, fd, undefined>>

\* The answer is allocated and not written.
ServeOther(w) ==
  /\ Serves(w, "other", GARBAGE)
  /\ UNCHANGED <<request_pipe, writers, buffer, main, session, id, fclient, fd, undefined>>

\* The answer of w to its request, and the client whose pipe it goes to; nobody
\* if the descriptor is closed.
Answer(w)   == [val |-> result[w], call |-> Command(w).call, from |-> Command(w).from]
Receiver(w) == IF fclient[w] = -1 THEN "closed" ELSE fd[fclient[w]]

\* Mutant: no signal.
SignalMain_nobody(s) == UNCHANGED main

\* pthread_cond_signal(&pode_enviar[s]).
SignalMain(s) ==
  main' = IF main = [pc |-> "asleep", sid |-> s] THEN [main EXCEPT !.pc = "post"] ELSE main

\* Once the answer is sent the slot is emptied and the mutex released.
Finish(w) ==
  /\ At(w, "answering")
  /\ session' = [session EXCEPT ![id[w]].new_command = Freed, ![id[w]].count = @ - 1]
  /\ SignalMain(id[w])
  /\ wpc' = [wpc EXCEPT ![w] = "ready"]
  /\ result' = [result EXCEPT ![w] = 0]
  /\ UNCHANGED <<request_pipe, writers, buffer, id, fclient, fd, undefined>>

============================================================================
