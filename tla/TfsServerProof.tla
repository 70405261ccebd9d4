--------------------------- MODULE TfsServerProof ---------------------------
(***************************************************************************)
(* Theorems about the server and its clients, for any number of sessions   *)
(* and clients, whatever the clients do and whichever sessions the workers *)
(* serve: TypeOK and NoLostSignal of TfsClients.  And what a client that   *)
(* has the server to itself gets: AnswersOwnCall and OneRequestPerSlot.    *)
(***************************************************************************)
EXTENDS TfsClients, FiniteSetTheorems, SequenceTheorems, WellFoundedInduction, TLAPS

----------------------------------------------------------------------------
(* The inductive invariant.                                                *)

Holds(w) == wpc[w] \in {"serving", "answering"}

\* A worker without a session is an error at once.
HasSession == undefined \/ \A w \in Workers : id[w] \in Sessions

\* Workers that serve one session exclude each other.
OneHolder == \A v, w \in Workers : Holds(v) /\ Holds(w) /\ id[v] = id[w] => v = w

\* A worker that holds the mutex has a request, which nobody takes away.
HasRequest == \A w \in Workers : Holds(w) =>
  id[w] \in Sessions /\ session[id[w]].count # 0 /\ Command(w) \in Request

\* What a count counts is a request, or what is left of one.
SlotsFilled == \A s \in Sessions :
  session[s].count # 0 => session[s].new_command \in Request \cup {Freed}

\* What the main thread dispatches is a request, or stray bytes taken for one.
BufferFilled == main.pc \in {"find", "mount", "post", "asleep"} => buffer \in Request

MainAwake == main.pc = "asleep" => main.sid \in Sessions /\ session[main.sid].count # 0

\* A worker that is not lost is awake, if there is one.
WorkersAwake == \A s \in Sessions : session[s].count # 0 =>
  \A v \in Workers : id[v] = s /\ wpc[v] # "lost" =>
    \E w \in Workers : id[w] = s /\ wpc[w] \notin {"asleep", "lost"}

ClientTypeOK ==
  /\ cpc \in [Clients -> Places]
  /\ session_id \in [Clients -> Values]
  /\ call \in [Clients -> Calls]
  /\ inbox \in [Clients -> Seq(Reply)]
  /\ got \in [Clients -> Reply \cup {NoAnswer}]

SlotsInv == OneHolder /\ HasRequest /\ SlotsFilled /\ MainAwake /\ WorkersAwake

ServerInv == ServerTypeOK /\ HasSession /\ BufferFilled /\ SlotsInv

----------------------------------------------------------------------------
(* Data.                                                                   *)

\* A set of numbers that is not empty has a lowest one.
LEMMA LowestFound ==
  ASSUME NEW P \in SUBSET Nat, P # {}
  PROVE  Lowest(P) \in P
<1>1. \E x \in P : \A y \in P : ~(<<y, x>> \in OpToRel(<, Nat))
  BY NatLessThanWellFounded, WFMin
<1>2. PICK x \in P : \A y \in P : ~(y < x)
  BY <1>1, Zenon DEF OpToRel
<1>3. \A y \in P : x <= y
  BY <1>2
<1> QED
  BY <1>3 DEF Lowest

LEMMA SessionNumbers == Sessions \subseteq Nat /\ 0 \in Sessions /\ S \notin Sessions
BY ServerAssumption DEF Sessions

LEMMA StraysType == Strays \subseteq Request
BY ServerAssumption DEF Strays, Request

LEMMA FdNumbers == Fds \subseteq Nat
BY ServerAssumption, FS_CardinalityType DEF Fds

\* A step that leaves the server alone keeps ServerInv.
LEMMA ServerUnchanged ==
  ASSUME ServerInv, UNCHANGED <<request_pipe, writers, server_vars>>
  PROVE  ServerInv'
BY DEF ServerInv, ServerTypeOK, HasSession, OneHolder, HasRequest, SlotsFilled, BufferFilled,
       MainAwake, WorkersAwake, SlotsInv, Holds, Command, server_vars

----------------------------------------------------------------------------
(* The initial states.                                                     *)

LEMMA InitServer == ServerInit => ServerInv
<1> SUFFICES ASSUME ServerInit PROVE ServerInv
  OBVIOUS
<1> USE DEF ServerInit
<1>1. id \in [Workers -> 0 .. S]
  BY ServerAssumption DEF Workers, Sessions
<1>2. wpc \in [Workers -> {"ready", "lost"}]
  OBVIOUS
<1>3. HasSession
  BY <1>1, ServerAssumption DEF HasSession, Workers, Sessions
<1>4. BufferFilled
  BY DEF BufferFilled
<1>5. SlotsInv
  BY <1>2 DEF SlotsInv, OneHolder, HasRequest, SlotsFilled, MainAwake, WorkersAwake, Holds
<1>6. ServerTypeOK
  BY <1>1, <1>2 DEF ServerTypeOK, Slot, Values
<1> QED
  BY <1>3, <1>4, <1>5, <1>6 DEF ServerInv

----------------------------------------------------------------------------
(* The main thread.                                                        *)

\* A step of the main thread that touches no slot and does not fall asleep.
LEMMA SlotsUntouched ==
  ASSUME SlotsInv, UNCHANGED <<session, id, wpc>>, main'.pc # "asleep"
  PROVE  SlotsInv'
BY DEF SlotsInv, OneHolder, HasRequest, SlotsFilled, MainAwake, WorkersAwake, Holds, Command

\* What a read leaves is requests, of which the first may be strays.
LEMMA UnreadType ==
  ASSUME request_pipe \in Seq(Request)
  PROVE  Unread \subseteq Seq(Request)
<1> DEFINE rest == SubSeq(request_pipe, READ_MAX + 1, Len(request_pipe))
<1>1. rest \in Seq(Request)
  <2>1. \A i \in READ_MAX + 1 .. Len(request_pipe) : request_pipe[i] \in Request
    BY ServerAssumption, ElementOfSeq, LenProperties
  <2> QED
    BY <2>1, ServerAssumption, SubSeqProperties, LenProperties
<1>2. ASSUME NEW stray \in Strays, rest # <<>>
      PROVE  <<stray>> \o Tail(rest) \in Seq(Request)
  <2>1. Tail(rest) \in Seq(Request)
    BY <1>1, <1>2, HeadTailProperties
  <2>2. stray \in Request
    BY StraysType
  <2> HIDE DEF rest
  <2> QED
    BY <2>1, <2>2, ConcatProperties
<1> QED
  BY <1>1, <1>2 DEF Unread

LEMMA ReceiveStep == ServerInv /\ receive_from_pipe => ServerInv'
<1> SUFFICES ASSUME ServerInv, receive_from_pipe PROVE ServerInv'
  OBVIOUS
<1> USE DEF ServerInv
<1>1. buffer' \in Request /\ request_pipe' \in Seq(Request)
  <2>1. CASE request_pipe # <<>>
    <3>1. request_pipe' \in Seq(Request)
      BY <2>1, UnreadType DEF receive_from_pipe, ServerTypeOK
    <3> QED
      BY <2>1, <3>1, HeadTailProperties DEF receive_from_pipe, ServerTypeOK
  <2>2. CASE request_pipe = <<>>
    BY <2>2, StraysType DEF receive_from_pipe, ServerTypeOK
  <2> QED
    BY <2>1, <2>2
<1>2. /\ main'.pc \in {"find", "post"}
      /\ main' \in [pc : {"find", "post"}, sid : Sessions \cup {-1, GARBAGE}]
  BY <1>1 DEF receive_from_pipe, Dispatch, Request
<1>3. UNCHANGED <<writers, session, id, wpc, fclient, result, fd, undefined>>
  BY DEF receive_from_pipe
<1>4. ServerTypeOK'
  BY <1>1, <1>2, <1>3 DEF ServerTypeOK
<1>5. SlotsInv'
  BY <1>2, <1>3, SlotsUntouched
<1>6. BufferFilled' /\ HasSession'
  BY <1>1, <1>2, <1>3 DEF BufferFilled, HasSession
<1> QED
  BY <1>4, <1>5, <1>6

LEMMA FindStep == ServerInv /\ find_session_id => ServerInv'
<1> SUFFICES ASSUME ServerInv, find_session_id PROVE ServerInv'
  OBVIOUS
<1> USE DEF ServerInv
<1> DEFINE unused == {s \in Sessions : session[s].valid = 0}
<1>1. buffer \in Request /\ main.pc = "find"
  BY DEF find_session_id, BufferFilled
<1>2. UNCHANGED <<request_pipe, writers, buffer, session, id, wpc, fclient, result, fd,
                  undefined>>
  BY DEF find_session_id
<1>3. main' \in [pc : {"mount"}, sid : Sessions \cup {-1}]
  <2>1. CASE unused = {}
    BY <2>1 DEF find_session_id
  <2>2. CASE unused # {}
    <3>1. Lowest(unused) \in Sessions
      BY <2>2, LowestFound, SessionNumbers
    <3> QED
      BY <2>2, <3>1 DEF find_session_id
  <2> QED
    BY <2>1, <2>2
<1>4. ServerTypeOK'
  BY <1>2, <1>3 DEF ServerTypeOK
<1>5. SlotsInv'
  <2>1. main'.pc # "asleep"
    BY <1>3
  <2> QED
    BY <1>2, <2>1, SlotsUntouched
<1>6. BufferFilled' /\ HasSession'
  BY <1>1, <1>2, <1>3 DEF BufferFilled, HasSession
<1> QED
  BY <1>4, <1>5, <1>6

LEMMA MainSpuriousStep == ServerInv /\ MainSpuriousWakeUp => ServerInv'
<1> SUFFICES ASSUME ServerInv, MainSpuriousWakeUp PROVE ServerInv'
  OBVIOUS
<1> USE DEF ServerInv, MainSpuriousWakeUp
<1>1. main'.pc = "post" /\ main'.sid = main.sid
  BY DEF ServerTypeOK
<1>2. ServerTypeOK'
  BY <1>1 DEF ServerTypeOK
<1>3. SlotsInv'
  BY <1>1, SlotsUntouched
<1>4. BufferFilled' /\ HasSession'
  BY <1>1 DEF BufferFilled, HasSession
<1> QED
  BY <1>2, <1>3, <1>4

\* A request put into a slot that no worker holds: the slot counts it, and a
\* worker of the session is awake after the signal.
LEMMA PutStep ==
  ASSUME ServerInv, NEW s \in Sessions, buffer \in Request, ~Busy(s), Put(s), UNCHANGED id
  PROVE  /\ session' \in [Sessions -> Slot]
         /\ wpc' \in [Workers -> {"ready", "asleep", "lost", "serving", "answering"}]
         /\ main' = [pc |-> "read", sid |-> -1]
         /\ SlotsInv'
<1> USE DEF ServerInv, SlotsInv
<1>1. session \in [Sessions -> Slot] /\ session[s] \in Slot
  BY DEF ServerTypeOK
<1>2. session[s].count \in Nat /\ session[s].valid \in {0, 1}
  BY <1>1 DEF Slot
<1>3. /\ session' \in [Sessions -> Slot]
      /\ session'[s].count = session[s].count + 1
      /\ session'[s].new_command = buffer
      /\ \A r \in Sessions \ {s} : session'[r] = session[r]
  BY <1>1, <1>2 DEF Put, Slot
<1>4. session'[s].count # 0
  BY <1>2, <1>3
<1>5. wpc \in [Workers -> {"ready", "asleep", "lost", "serving", "answering"}]
  BY DEF ServerTypeOK
<1>6. /\ wpc' \in [Workers -> {"ready", "asleep", "lost", "serving", "answering"}]
      /\ \A w \in Workers : wpc'[w] = wpc[w]
                            \/ (id[w] = s /\ wpc[w] = "asleep" /\ wpc'[w] = "ready")
      /\ \A v \in Workers : id[v] = s /\ wpc'[v] # "lost" =>
           \E w \in Workers : id[w] = s /\ wpc'[w] \notin {"asleep", "lost"}
  <2> DEFINE asleep == {w \in Workers : id[w] = s /\ wpc[w] = "asleep"}
  <2>1. CASE asleep = {}
    <3>1. wpc' = wpc
      BY <2>1 DEF Put, SignalWorker
    <3>2. \A w \in Workers : id[w] = s => wpc[w] # "asleep"
      BY <2>1
    <3> QED
      BY <1>5, <3>1, <3>2
  <2>2. CASE asleep # {}
    <3>1. PICK v \in asleep : wpc' = [wpc EXCEPT ![v] = "ready"]
      BY <2>2 DEF Put, SignalWorker
    <3>2. v \in Workers /\ id[v] = s /\ wpc[v] = "asleep"
      OBVIOUS
    <3> HIDE DEF asleep
    <3>3. \A w \in Workers : wpc'[w] = IF w = v THEN "ready" ELSE wpc[w]
      BY <1>5, <3>1
    <3>4. wpc' \in [Workers -> {"ready", "asleep", "lost", "serving", "answering"}]
      BY <1>5, <3>1
    <3>5. wpc'[v] \notin {"asleep", "lost"}
      BY <3>2, <3>3
    <3> QED
      BY <3>2, <3>3, <3>4, <3>5
  <2> QED
    BY <2>1, <2>2
<1>7. \A w \in Workers : Holds(w)' => Holds(w) /\ id[w] # s
  BY <1>6 DEF Holds, Busy
<1>8. main' = [pc |-> "read", sid |-> -1]
  BY DEF Put
<1>9. OneHolder'
  BY <1>7 DEF OneHolder
<1>10. HasRequest'
  BY <1>3, <1>7 DEF HasRequest, Command
<1>11. SlotsFilled'
  BY <1>3 DEF SlotsFilled
<1>12. MainAwake'
  BY <1>8 DEF MainAwake
<1>13. WorkersAwake'
  <2> SUFFICES ASSUME NEW r \in Sessions, session'[r].count # 0,
                      NEW v \in Workers, id[v] = r, wpc'[v] # "lost"
               PROVE  \E w \in Workers : id[w] = r /\ wpc'[w] \notin {"asleep", "lost"}
    BY DEF WorkersAwake
  <2>1. CASE r = s
    BY <1>6, <2>1
  <2>2. CASE r # s
    BY <1>3, <1>6, <2>2 DEF WorkersAwake
  <2> QED
    BY <2>1, <2>2
<1> QED
  BY <1>3, <1>6, <1>8, <1>9, <1>10, <1>11, <1>12, <1>13

\* An index outside the table is the end of what is modelled.
LEMMA OutsideStep ==
  ASSUME ServerInv, undefined' = TRUE,
         UNCHANGED <<request_pipe, writers, buffer, main, session, id, wpc, fclient, result, fd>>
  PROVE  ServerInv'
BY DEF ServerInv, ServerTypeOK, HasSession, BufferFilled, SlotsInv, OneHolder, HasRequest,
       SlotsFilled, MainAwake, WorkersAwake, Holds, Command

LEMMA IntoSlotStep ==
  ASSUME ServerInv, NEW s \in Sessions, buffer \in Request, ~Busy(s), Put(s),
         UNCHANGED <<request_pipe, writers, buffer, id, fclient, result, fd, undefined>>
  PROVE  ServerInv'
<1>1. /\ session' \in [Sessions -> Slot]
      /\ wpc' \in [Workers -> {"ready", "asleep", "lost", "serving", "answering"}]
      /\ main' = [pc |-> "read", sid |-> -1]
      /\ SlotsInv'
  BY PutStep
<1>2. ServerTypeOK'
  BY <1>1 DEF ServerInv, ServerTypeOK
<1>3. BufferFilled' /\ HasSession'
  BY <1>1 DEF ServerInv, BufferFilled, HasSession
<1> QED
  BY <1>1, <1>2, <1>3 DEF ServerInv

LEMMA PostMountStep == ServerInv /\ PostMount => ServerInv'
<1> SUFFICES ASSUME ServerInv, PostMount PROVE ServerInv'
  OBVIOUS
<1>1. buffer \in Request
  BY DEF ServerInv, BufferFilled, PostMount
<1>2. CASE main.sid \notin Sessions
  BY <1>2, OutsideStep DEF PostMount
<1>3. CASE main.sid \in Sessions
  BY <1>1, <1>3, IntoSlotStep DEF PostMount
<1> QED
  BY <1>2, <1>3

LEMMA PostStep == ServerInv /\ Post => ServerInv'
<1> SUFFICES ASSUME ServerInv, Post PROVE ServerInv'
  OBVIOUS
<1> DEFINE s == main.sid
<1>1. buffer \in Request /\ main.pc = "post"
  BY DEF ServerInv, BufferFilled, Post
<1>2. UNCHANGED <<request_pipe, writers, buffer, id, fclient, result, fd>>
  BY DEF Post
<1>3. CASE s \notin Sessions
  BY <1>3, OutsideStep DEF Post
<1>4. CASE s \in Sessions /\ session[s].count # 0 /\ main' = [main EXCEPT !.pc = "asleep"]
                          /\ UNCHANGED <<session, wpc, undefined>>
  <2>1. main'.pc = "asleep" /\ main'.sid = s
    BY <1>4 DEF ServerInv, ServerTypeOK
  <2>2. ServerTypeOK'
    BY <1>2, <1>4, <2>1 DEF ServerInv, ServerTypeOK
  <2>3. SlotsInv'
    BY <1>2, <1>4, <2>1 DEF ServerInv, SlotsInv, OneHolder, HasRequest, SlotsFilled, MainAwake,
                            WorkersAwake, Holds, Command
  <2>4. BufferFilled' /\ HasSession'
    BY <1>1, <1>2, <1>4, <2>1 DEF ServerInv, BufferFilled, HasSession
  <2> QED
    BY <2>2, <2>3, <2>4 DEF ServerInv
<1>5. CASE s \in Sessions /\ ~Busy(s) /\ Put(s) /\ UNCHANGED undefined
  BY <1>1, <1>2, <1>5, IntoSlotStep
<1> QED
  BY <1>3, <1>4, <1>5 DEF Post

----------------------------------------------------------------------------
(* The workers.                                                            *)

WorkerPlaces == {"ready", "asleep", "lost", "serving", "answering"}

LEMMA WorkerSession ==
  ASSUME ServerInv, ~undefined, NEW w \in Workers
  PROVE  id[w] \in Sessions /\ session[id[w]] \in Slot
BY DEF ServerInv, ServerTypeOK, HasSession

\* A worker sleeps only while its slot counts nothing, and takes the mutex with
\* a request in the slot.
LEMMA TestCountStep ==
  ASSUME ServerInv, NEW w \in Workers, TestCount(w)
  PROVE  ServerInv'
<1> DEFINE s == id[w]
<1>1. /\ wpc[w] = "ready" /\ ~undefined /\ ~Busy(s)
      /\ UNCHANGED <<request_pipe, writers, buffer, main, session, id, fclient, result, fd>>
  BY DEF TestCount, At
<1>2. s \in Sessions
  BY <1>1, WorkerSession
<1>3. wpc \in [Workers -> WorkerPlaces]
  BY DEF ServerInv, ServerTypeOK, WorkerPlaces
<1>4. BufferFilled'
  BY <1>1 DEF ServerInv, BufferFilled
<1>5. CASE session[s].count = 0 /\ wpc' = [wpc EXCEPT ![w] = "asleep"] /\ UNCHANGED undefined
  <2>1. wpc' \in [Workers -> WorkerPlaces] /\ \A v \in Workers : Holds(v)' => Holds(v)
    BY <1>3, <1>5 DEF WorkerPlaces, Holds
  <2>2. \A v \in Workers \ {w} : wpc'[v] = wpc[v]
    BY <1>3, <1>5
  <2>3. ServerTypeOK' /\ HasSession'
    BY <1>1, <1>5, <2>1 DEF ServerInv, ServerTypeOK, HasSession, WorkerPlaces
  <2>4. OneHolder' /\ HasRequest' /\ SlotsFilled' /\ MainAwake'
    BY <1>1, <2>1 DEF ServerInv, SlotsInv, OneHolder, HasRequest, SlotsFilled, MainAwake, Command
  <2>5. WorkersAwake'
    <3> SUFFICES ASSUME NEW r \in Sessions, session[r].count # 0,
                        NEW v \in Workers, id[v] = r, wpc'[v] # "lost"
                 PROVE  \E u \in Workers : id[u] = r /\ wpc'[u] \notin {"asleep", "lost"}
      BY <1>1 DEF WorkersAwake
    <3>1. wpc[v] # "lost"
      BY <1>1, <2>2
    <3>2. PICK u \in Workers : id[u] = r /\ wpc[u] \notin {"asleep", "lost"}
      BY <3>1 DEF ServerInv, SlotsInv, WorkersAwake
    <3>3. u # w
      BY <1>5, <3>2
    <3> QED
      BY <2>2, <3>2, <3>3
  <2> QED
    BY <1>4, <2>3, <2>4, <2>5 DEF ServerInv, SlotsInv
<1>6. CASE session[s].count # 0 /\ undefined' = TRUE /\ UNCHANGED wpc
  <2>1. ServerTypeOK' /\ HasSession'
    BY <1>1, <1>6 DEF ServerInv, ServerTypeOK, HasSession
  <2>2. SlotsInv'
    BY <1>1, <1>6 DEF ServerInv, SlotsInv, OneHolder, HasRequest, SlotsFilled, MainAwake,
                      WorkersAwake, Holds, Command
  <2> QED
    BY <1>4, <2>1, <2>2 DEF ServerInv
<1>7. CASE session[s].count # 0 /\ Command(w) # Freed /\ wpc' = [wpc EXCEPT ![w] = "serving"]
                                /\ UNCHANGED undefined
  <2>1. wpc' \in [Workers -> WorkerPlaces]
    BY <1>3, <1>7 DEF WorkerPlaces
  <2>2. wpc'[w] = "serving" /\ \A v \in Workers \ {w} : wpc'[v] = wpc[v]
    BY <1>3, <1>7
  <2>3. Command(w) \in Request
    BY <1>2, <1>7 DEF ServerInv, SlotsInv, SlotsFilled, Command
  <2>4. ServerTypeOK' /\ HasSession'
    BY <1>1, <1>7, <2>1 DEF ServerInv, ServerTypeOK, HasSession, WorkerPlaces
  <2>5. OneHolder'
    BY <1>1, <2>2 DEF ServerInv, SlotsInv, OneHolder, Holds, Busy
  <2>6. HasRequest'
    BY <1>1, <1>2, <1>7, <2>2, <2>3 DEF ServerInv, SlotsInv, HasRequest, Holds, Command
  <2>7. SlotsFilled' /\ MainAwake'
    BY <1>1 DEF ServerInv, SlotsInv, SlotsFilled, MainAwake
  <2>8. WorkersAwake'
    BY <1>1, <2>2 DEF ServerInv, SlotsInv, WorkersAwake
  <2> QED
    BY <1>4, <2>4, <2>5, <2>6, <2>7, <2>8 DEF ServerInv, SlotsInv
<1> QED
  BY <1>5, <1>6, <1>7 DEF TestCount

LEMMA WorkerSpuriousStep ==
  ASSUME ServerInv, NEW w \in Workers, WorkerSpuriousWakeUp(w)
  PROVE  ServerInv'
<1>1. /\ wpc[w] \in {"asleep", "lost"} /\ wpc' = [wpc EXCEPT ![w] = "ready"]
      /\ UNCHANGED <<request_pipe, writers, buffer, main, session, id, fclient, result, fd, undefined>>
  BY DEF WorkerSpuriousWakeUp, At
<1>2. wpc \in [Workers -> WorkerPlaces]
  BY DEF ServerInv, ServerTypeOK, WorkerPlaces
<1>3. /\ wpc' \in [Workers -> WorkerPlaces]
      /\ \A v \in Workers : wpc'[v] = IF v = w THEN "ready" ELSE wpc[v]
  BY <1>1, <1>2 DEF WorkerPlaces
<1>4. ServerTypeOK' /\ HasSession' /\ BufferFilled'
  BY <1>1, <1>3 DEF ServerInv, ServerTypeOK, HasSession, BufferFilled, WorkerPlaces
<1>5. \A v \in Workers : Holds(v)' => Holds(v)
  BY <1>3 DEF Holds
<1>6. OneHolder' /\ HasRequest' /\ SlotsFilled' /\ MainAwake'
  BY <1>1, <1>5 DEF ServerInv, SlotsInv, OneHolder, HasRequest, SlotsFilled, MainAwake, Command
<1>7. WorkersAwake'
  <2> SUFFICES ASSUME NEW r \in Sessions, session[r].count # 0,
                      NEW v \in Workers, id[v] = r, wpc'[v] # "lost"
               PROVE  \E u \in Workers : id[u] = r /\ wpc'[u] \notin {"asleep", "lost"}
    BY <1>1 DEF WorkersAwake
  <2>1. CASE id[w] = r
    BY <1>3, <2>1
  <2>2. CASE id[w] # r
    <3>1. PICK u \in Workers : id[u] = r /\ wpc[u] \notin {"asleep", "lost"}
      BY <1>3, <2>2 DEF ServerInv, SlotsInv, WorkersAwake
    <3> QED
      BY <1>3, <2>2, <3>1
  <2> QED
    BY <2>1, <2>2
<1> QED
  BY <1>4, <1>6, <1>7 DEF ServerInv, SlotsInv

\* Executing a request leaves count and new_command of every slot as they are.
LEMMA ServeStep ==
  ASSUME ServerInv, NEW w \in Workers, NEW op, NEW val \in Values, Serves(w, op, val),
         session' \in [Sessions -> Slot],
         \A s \in Sessions : /\ session'[s].count = session[s].count
                             /\ session'[s].new_command = session[s].new_command,
         fclient' \in [Workers -> Fds \cup {-1}],
         fd' \in [Fds -> Clients \cup {"closed"}],
         UNCHANGED <<request_pipe, writers, buffer, main, id, undefined>>
  PROVE  ServerInv'
<1>1. wpc[w] = "serving" /\ ~undefined /\ wpc' = [wpc EXCEPT ![w] = "answering"]
      /\ result' = [result EXCEPT ![w] = val]
  BY DEF Serves, At
<1>2. wpc \in [Workers -> WorkerPlaces]
  BY DEF ServerInv, ServerTypeOK, WorkerPlaces
<1>3. /\ wpc' \in [Workers -> WorkerPlaces]
      /\ \A v \in Workers : wpc'[v] = IF v = w THEN "answering" ELSE wpc[v]
  BY <1>1, <1>2 DEF WorkerPlaces
<1>4. ServerTypeOK' /\ HasSession' /\ BufferFilled'
  BY <1>1, <1>3 DEF ServerInv, ServerTypeOK, HasSession, BufferFilled, WorkerPlaces
<1>5. \A v \in Workers : Holds(v)' => Holds(v)
  BY <1>1, <1>3 DEF Holds
<1>6. OneHolder' /\ HasRequest' /\ SlotsFilled'
  BY <1>5 DEF ServerInv, SlotsInv, OneHolder, HasRequest, SlotsFilled, Command
<1>7. MainAwake'
  BY DEF ServerInv, SlotsInv, MainAwake, ServerTypeOK
<1>8. WorkersAwake'
  BY <1>3 DEF ServerInv, SlotsInv, WorkersAwake
<1> QED
  BY <1>4, <1>6, <1>7, <1>8 DEF ServerInv, SlotsInv

LEMMA ServeMountStep ==
  ASSUME ServerInv, NEW w \in Workers, NEW c \in Clients, ServeMount(w, c)
  PROVE  ServerInv'
<1> DEFINE free == {f \in Fds : fd[f] = "closed"}
           f    == Lowest(free)
<1>1. /\ Serves(w, "mount", 0) /\ free # {}
      /\ fclient' = [fclient EXCEPT ![w] = f]
      /\ fd' = [fd EXCEPT ![f] = c]
      /\ session' = [session EXCEPT ![id[w]].valid = 1]
      /\ UNCHANGED <<request_pipe, writers, buffer, main, id, undefined>>
  BY DEF ServeMount
<1>2. f \in Fds
  BY <1>1, LowestFound, FdNumbers
<1>3. id[w] \in Sessions /\ session[id[w]] \in Slot
  BY <1>1, WorkerSession DEF Serves, At
<1>4. /\ session' \in [Sessions -> Slot]
      /\ \A s \in Sessions : /\ session'[s].count = session[s].count
                             /\ session'[s].new_command = session[s].new_command
  BY <1>1, <1>3 DEF ServerInv, ServerTypeOK, Slot
<1>5. fclient' \in [Workers -> Fds \cup {-1}] /\ fd' \in [Fds -> Clients \cup {"closed"}]
  BY <1>1, <1>2 DEF ServerInv, ServerTypeOK
<1> QED
  BY <1>1, <1>4, <1>5, ServeStep DEF Values

LEMMA ServeUnmountStep ==
  ASSUME ServerInv, NEW w \in Workers, ServeUnmount(w)
  PROVE  ServerInv'
<1>1. /\ Serves(w, "unmount", 0)
      /\ session' = [session EXCEPT ![id[w]].valid = 0]
      /\ fd' = [f \in Fds |-> IF f = fclient[w] THEN "closed" ELSE fd[f]]
      /\ UNCHANGED <<request_pipe, writers, buffer, main, id, fclient, undefined>>
  BY DEF ServeUnmount
<1>2. id[w] \in Sessions /\ session[id[w]] \in Slot
  BY <1>1, WorkerSession DEF Serves, At
<1>3. /\ session' \in [Sessions -> Slot]
      /\ \A s \in Sessions : /\ session'[s].count = session[s].count
                             /\ session'[s].new_command = session[s].new_command
  BY <1>1, <1>2 DEF ServerInv, ServerTypeOK, Slot
<1>4. fclient' \in [Workers -> Fds \cup {-1}] /\ fd' \in [Fds -> Clients \cup {"closed"}]
  BY <1>1 DEF ServerInv, ServerTypeOK
<1> QED
  BY <1>1, <1>3, <1>4, ServeStep DEF Values

\* The descriptor is forgotten, whichever it was.
LEMMA FailMountStep ==
  ASSUME ServerInv, NEW w \in Workers, FailMount(w)
  PROVE  ServerInv'
<1>1. /\ Serves(w, "mount", -1)
      /\ fclient' = [fclient EXCEPT ![w] = -1]
      /\ session' = [session EXCEPT ![id[w]].valid = 0]
      /\ UNCHANGED <<request_pipe, writers, buffer, main, id, fd, undefined>>
  BY DEF FailMount
<1>2. id[w] \in Sessions /\ session[id[w]] \in Slot
  BY <1>1, WorkerSession DEF Serves, At
<1>3. /\ session' \in [Sessions -> Slot]
      /\ \A s \in Sessions : /\ session'[s].count = session[s].count
                             /\ session'[s].new_command = session[s].new_command
  BY <1>1, <1>2 DEF ServerInv, ServerTypeOK, Slot
<1>4. fclient' \in [Workers -> Fds \cup {-1}] /\ fd' \in [Fds -> Clients \cup {"closed"}]
  BY <1>1 DEF ServerInv, ServerTypeOK
<1> QED
  BY <1>1, <1>3, <1>4, ServeStep DEF Values

\* The calls of operations.c, and the default case: only the answer differs.
LEMMA ServeCallStep ==
  ASSUME ServerInv, NEW w \in Workers, ServeFile(w) \/ ServeOther(w)
  PROVE  ServerInv'
<1>1. PICK op \in {"file", "other"}, val \in Values : Serves(w, op, val)
  BY DEF ServeFile, ServeOther, Values
<1>2. UNCHANGED <<request_pipe, writers, buffer, main, session, id, fclient, fd, undefined>>
  BY DEF ServeFile, ServeOther
<1>3. /\ session' \in [Sessions -> Slot]
      /\ fclient' \in [Workers -> Fds \cup {-1}] /\ fd' \in [Fds -> Clients \cup {"closed"}]
  BY <1>2 DEF ServerInv, ServerTypeOK
<1> QED
  BY <1>1, <1>2, <1>3, ServeStep

\* The slot loses one request; the worker goes on awake, and the main thread is
\* woken if it sleeps on this slot.
LEMMA FinishStep ==
  ASSUME ServerInv, NEW w \in Workers, Finish(w)
  PROVE  ServerInv'
<1> DEFINE s == id[w]
<1>1. /\ wpc[w] = "answering" /\ ~undefined
      /\ session' = [session EXCEPT ![s].new_command = Freed, ![s].count = @ - 1]
      /\ SignalMain(s)
      /\ wpc' = [wpc EXCEPT ![w] = "ready"]
      /\ result' = [result EXCEPT ![w] = 0]
      /\ UNCHANGED <<request_pipe, writers, buffer, id, fclient, fd, undefined>>
  BY DEF Finish, At
<1>2. s \in Sessions /\ session[s] \in Slot /\ session[s].count # 0
  BY <1>1, WorkerSession DEF ServerInv, SlotsInv, HasRequest, Holds
<1>3. /\ session' \in [Sessions -> Slot]
      /\ session'[s].new_command = Freed
      /\ \A r \in Sessions \ {s} : session'[r] = session[r]
  <2>1. session[s].count \in Nat /\ session[s].count - 1 \in Nat
    BY <1>2 DEF Slot
  <2> QED
    BY <1>1, <1>2, <2>1 DEF ServerInv, ServerTypeOK, Slot
<1>4. wpc \in [Workers -> WorkerPlaces]
  BY DEF ServerInv, ServerTypeOK, WorkerPlaces
<1>5. /\ wpc' \in [Workers -> WorkerPlaces]
      /\ \A v \in Workers : wpc'[v] = IF v = w THEN "ready" ELSE wpc[v]
  BY <1>1, <1>4 DEF WorkerPlaces
<1>6. \/ main' = main /\ ~(main.pc = "asleep" /\ main.sid = s)
      \/ main.pc = "asleep" /\ main' = [main EXCEPT !.pc = "post"] /\ main'.pc = "post"
  BY <1>1 DEF SignalMain, ServerInv, ServerTypeOK
<1>7. ServerTypeOK'
  <2>1. /\ main' \in [pc : {"open", "read", "find", "mount", "post", "asleep"},
                     sid : Sessions \cup {-1, GARBAGE}]
    BY <1>6 DEF ServerInv, ServerTypeOK
  <2>2. result' \in [Workers -> Values]
    BY <1>1 DEF ServerInv, ServerTypeOK, Values
  <2> QED
    BY <1>1, <1>3, <1>5, <2>1, <2>2 DEF ServerInv, ServerTypeOK, WorkerPlaces
<1>8. HasSession' /\ BufferFilled'
  BY <1>1, <1>6 DEF ServerInv, HasSession, BufferFilled
<1>9. \A v \in Workers : Holds(v)' => Holds(v) /\ id[v] # s
  BY <1>1, <1>5 DEF ServerInv, SlotsInv, OneHolder, Holds
<1>10. OneHolder'
  BY <1>1, <1>9 DEF ServerInv, SlotsInv, OneHolder
<1>11. HasRequest'
  BY <1>1, <1>3, <1>9 DEF ServerInv, SlotsInv, HasRequest, Command
<1>12. SlotsFilled'
  BY <1>3 DEF ServerInv, SlotsInv, SlotsFilled
<1>13. MainAwake'
  BY <1>3, <1>6 DEF ServerInv, SlotsInv, MainAwake, ServerTypeOK
<1>14. WorkersAwake'
  <2> SUFFICES ASSUME NEW r \in Sessions, session'[r].count # 0,
                      NEW v \in Workers, id[v] = r, wpc'[v] # "lost"
               PROVE  \E u \in Workers : id[u] = r /\ wpc'[u] \notin {"asleep", "lost"}
    BY <1>1 DEF WorkersAwake
  <2>1. CASE r = s
    BY <1>5, <2>1
  <2>2. CASE r # s
    <3>1. PICK u \in Workers : id[u] = r /\ wpc[u] \notin {"asleep", "lost"}
      BY <1>3, <1>5, <2>2 DEF ServerInv, SlotsInv, WorkersAwake
    <3> QED
      BY <1>5, <2>2, <3>1
  <2> QED
    BY <2>1, <2>2
<1> QED
  BY <1>7, <1>8, <1>10, <1>11, <1>12, <1>13, <1>14 DEF ServerInv, SlotsInv

----------------------------------------------------------------------------
(* The clients.                                                            *)

\* A client adds requests to the pipe, or leaves it.
LEMMA PipeStep ==
  ASSUME ServerInv, request_pipe' \in Seq(Request),
         writers' \subseteq Clients, UNCHANGED server_vars
  PROVE  ServerInv'
<1>1. ServerTypeOK' /\ HasSession'
  BY DEF ServerInv, ServerTypeOK, HasSession, server_vars
<1>2. BufferFilled'
  BY DEF ServerInv, BufferFilled, server_vars
<1>3. SlotsInv'
  BY DEF ServerInv, SlotsInv, OneHolder, HasRequest, SlotsFilled, MainAwake, WorkersAwake,
         Holds, Command, server_vars
<1> QED
  BY <1>1, <1>2, <1>3 DEF ServerInv

LEMMA SendStep ==
  ASSUME ServerInv, NEW c \in Clients, NEW k \in Calls,
         NEW op \in OpCodes, NEW sid \in Sessions \cup {-1, GARBAGE},
         NEW rest \in Seq(Request),
         request_pipe' = Append(request_pipe, [op |-> op, sid |-> sid, call |-> k, from |-> c])
                         \o rest
  PROVE  request_pipe' \in Seq(Request)
<1> DEFINE r == [op |-> op, sid |-> sid, call |-> k, from |-> c]
<1>1. r \in Request
  BY DEF Request
<1>2. request_pipe \in Seq(Request) /\ request_pipe' = Append(request_pipe, r) \o rest
  BY DEF ServerInv, ServerTypeOK
<1> HIDE DEF r
<1>3. Append(request_pipe, r) \in Seq(Request)
  BY <1>1, <1>2, AppendProperties
<1> QED
  BY <1>2, <1>3, ConcatProperties

\* What the server sees of a call other than tfs_mount is a request.
LEMMA WireType ==
  ASSUME NEW c \in Clients, NEW k \in Calls, NEW bytes \in Wire(c, k)
  PROVE  bytes.op \in OpCodes /\ bytes.sid \in Sessions \cup {-1, GARBAGE}
<1>1. AsSession(session_id[c]) \subseteq Sessions \cup {-1, GARBAGE}
  BY DEF AsSession
<1>2. ASSUME NEW op \in OpCodes, NEW sids \in SUBSET (Sessions \cup {-1, GARBAGE}),
             bytes \in Addressed(op, sids)
      PROVE  bytes.op \in OpCodes /\ bytes.sid \in Sessions \cup {-1, GARBAGE}
  BY <1>2 DEF Addressed
<1>3. CASE bytes \in Payloads
  BY <1>3, ServerAssumption
<1>4. \/ bytes \in Payloads
      \/ \E op \in OpCodes, sids \in SUBSET (Sessions \cup {-1, GARBAGE}) :
           bytes \in Addressed(op, sids)
  <2>1. CASE k = "tfs_open"
    <3>1. bytes \in Addressed("other", {GARBAGE})
      BY <2>1 DEF Wire
    <3> QED
      BY <3>1 DEF OpCodes
  <2>2. CASE k = "tfs_write"
    <3>1. bytes \in Payloads \/ bytes \in Addressed("file", AsSession(session_id[c]))
      BY <2>2 DEF Wire
    <3> QED
      BY <1>1, <3>1 DEF OpCodes
  <2>3. CASE k = "tfs_unmount"
    <3>1. \E sids \in SUBSET (Sessions \cup {-1, GARBAGE}) : bytes \in Addressed("unmount", sids)
      BY <2>3 DEF Wire
    <3> QED
      BY <3>1 DEF OpCodes
  <2>4. CASE k \notin {"tfs_open", "tfs_write", "tfs_unmount"}
    <3>1. bytes \in Addressed("file", AsSession(session_id[c]))
      BY <2>4 DEF Wire
    <3> QED
      BY <1>1, <3>1 DEF OpCodes
  <2> QED
    BY <2>1, <2>2, <2>3, <2>4
<1> QED
  BY <1>2, <1>3, <1>4

\* A call sends a request, which strays may follow.
LEMMA SendRequestStep ==
  ASSUME ServerInv, NEW c \in Clients, NEW k \in Calls, SendRequest(c, k)
  PROVE  request_pipe' \in Seq(Request)
<1>1. CASE \E bytes \in Wire(c, k) : send_to_pipe(c, k, bytes, <<>>)
  <2>1. PICK bytes \in Wire(c, k) : send_to_pipe(c, k, bytes, <<>>)
    BY <1>1
  <2>2. <<>> \in Seq(Request)
    OBVIOUS
  <2> QED
    BY <2>1, <2>2, WireType, SendStep DEF send_to_pipe
<1>2. CASE \E bytes \in Payloads, stray \in Strays :
             send_to_pipe(c, k, bytes, [i \in 1 .. READ_MAX |-> stray])
  <2>1. PICK bytes \in Payloads, stray \in Strays :
               send_to_pipe(c, k, bytes, [i \in 1 .. READ_MAX |-> stray])
    BY <1>2
  <2>2. [i \in 1 .. READ_MAX |-> stray] \in Seq(Request)
    <3>1. stray \in Request /\ READ_MAX \in Nat
      BY StraysType, ServerAssumption
    <3> QED
      BY <3>1, SeqDef
  <2>3. bytes.op \in OpCodes /\ bytes.sid \in Sessions \cup {-1, GARBAGE}
    BY ServerAssumption
  <2> QED
    BY <2>1, <2>2, <2>3, SendStep DEF send_to_pipe
<1> QED
  BY <1>1, <1>2 DEF SendRequest

Inv == ServerInv /\ ClientTypeOK

LEMMA MountStep ==
  ASSUME Inv, NEW c \in Clients, tfs_mount(c)
  PROVE  Inv'
<1>1. /\ writers' = writers \cup {c} /\ OpenServerPipe
      /\ cpc' = [cpc EXCEPT ![c] = "connecting"]
      /\ UNCHANGED <<request_pipe, buffer, session, id, wpc, fclient, result, fd, undefined>>
      /\ UNCHANGED <<session_id, call, inbox, got>>
  BY DEF tfs_mount
<1>2. /\ main' \in [pc : {"open", "read", "find", "mount", "post", "asleep"},
                   sid : Sessions \cup {-1, GARBAGE}]
      /\ main'.sid = main.sid
      /\ main'.pc = main.pc \/ main'.pc = "read"
  BY <1>1 DEF OpenServerPipe, Inv, ServerInv, ServerTypeOK
<1>3. ServerTypeOK'
  BY <1>1, <1>2 DEF Inv, ServerInv, ServerTypeOK
<1>4. HasSession' /\ BufferFilled'
  BY <1>1, <1>2 DEF Inv, ServerInv, HasSession, BufferFilled
<1>5. SlotsInv'
  BY <1>1, <1>2 DEF Inv, ServerInv, SlotsInv, OneHolder, HasRequest, SlotsFilled, MainAwake,
                    WorkersAwake, Holds, Command
<1>6. ClientTypeOK'
  BY <1>1 DEF Inv, ClientTypeOK, Places
<1> QED
  BY <1>3, <1>4, <1>5, <1>6 DEF Inv, ServerInv

LEMMA SendMountStep ==
  ASSUME Inv, NEW c \in Clients, SendMount(c)
  PROVE  Inv'
<1>1. /\ send_to_pipe(c, "tfs_mount", [op |-> "mount", sid |-> -1], <<>>)
      /\ call' = [call EXCEPT ![c] = "tfs_mount"]
      /\ cpc' = [cpc EXCEPT ![c] = "opening"]
      /\ UNCHANGED <<writers, server_vars, session_id, inbox, got>>
  BY DEF SendMount
<1>2. request_pipe' =
        Append(request_pipe, [op |-> "mount", sid |-> -1, call |-> "tfs_mount", from |-> c]) \o <<>>
  BY <1>1 DEF send_to_pipe
<1>3. "mount" \in OpCodes /\ "tfs_mount" \in Calls /\ <<>> \in Seq(Request)
  BY DEF Calls, OpCodes
<1>4. request_pipe' \in Seq(Request)
  BY <1>2, <1>3, SendStep DEF Inv
<1>5. ServerInv'
  BY <1>1, <1>4, PipeStep DEF Inv, ServerInv, ServerTypeOK
<1>6. ClientTypeOK'
  BY <1>1 DEF Inv, ClientTypeOK, Places, Calls
<1> QED
  BY <1>5, <1>6 DEF Inv

LEMMA RequestStep ==
  ASSUME Inv, NEW c \in Clients, NEW k \in Calls, RequestAndWait(c, k)
  PROVE  Inv'
<1>1. SendRequest(c, k)
  BY DEF RequestAndWait
<1>2. /\ call' = [call EXCEPT ![c] = k]
      /\ cpc' = [cpc EXCEPT ![c] = "receiving"]
      /\ got' = [got EXCEPT ![c] = NoAnswer]
      /\ UNCHANGED <<writers, server_vars, session_id, inbox>>
  BY DEF RequestAndWait
<1>3. request_pipe' \in Seq(Request)
  BY <1>1, SendRequestStep DEF Inv
<1>4. ServerInv'
  BY <1>2, <1>3, PipeStep DEF Inv, ServerInv, ServerTypeOK
<1>5. ClientTypeOK'
  BY <1>2 DEF Inv, ClientTypeOK, Places
<1> QED
  BY <1>4, <1>5 DEF Inv

LEMMA ReceiveAnswerStep ==
  ASSUME Inv, NEW c \in Clients, Receive(c)
  PROVE  Inv'
<1>1. /\ cpc' = [cpc EXCEPT ![c] = "mounted"]
      /\ session_id' = IF call[c] = "tfs_mount" THEN [session_id EXCEPT ![c] = got'[c].val]
                                                ELSE session_id
      /\ UNCHANGED <<request_pipe, writers, server_vars, call>>
  BY DEF Receive
<1>2. /\ got' \in [Clients -> Reply \cup {NoAnswer}]
      /\ inbox' \in [Clients -> Seq(Reply)]
  <2>1. CASE inbox[c] # <<>>
    <3>1. inbox[c] \in Seq(Reply)
      BY DEF Inv, ClientTypeOK
    <3>2. Head(inbox[c]) \in Reply /\ Tail(inbox[c]) \in Seq(Reply)
      BY <2>1, <3>1, HeadTailProperties
    <3>3. /\ got' = [got EXCEPT ![c] = Head(inbox[c])]
          /\ \/ inbox' = [inbox EXCEPT ![c] = Tail(inbox[c])]
             \/ inbox' = [inbox EXCEPT ![c] = <<>>]
      BY <2>1 DEF Receive
    <3>4. <<>> \in Seq(Reply)
      OBVIOUS
    <3> QED
      BY <3>2, <3>3, <3>4 DEF Inv, ClientTypeOK
  <2>2. CASE inbox[c] = <<>>
    BY <2>2 DEF Receive, Inv, ClientTypeOK
  <2> QED
    BY <2>1, <2>2
<1>3. got'[c].val \in Values
  BY <1>2 DEF Reply, NoAnswer, Values
<1>4. ClientTypeOK'
  BY <1>1, <1>2, <1>3 DEF Inv, ClientTypeOK, Places
<1> QED
  BY <1>1, <1>4, ServerUnchanged DEF Inv

\* A client that leaves: its request, if it sends one more, stays in the pipe.
LEMMA LeaveStep ==
  ASSUME Inv, NEW c \in Clients, Leave(c),
         request_pipe' \in Seq(Request)
  PROVE  Inv'
<1>1. ServerInv'
  BY PipeStep DEF Inv, Leave, ServerInv, ServerTypeOK
<1>2. ClientTypeOK'
  BY DEF Inv, ClientTypeOK, Leave, Places, Values, Calls
<1> QED
  BY <1>1, <1>2 DEF Inv

LEMMA UnmountStep ==
  ASSUME Inv, NEW c \in Clients, tfs_unmount(c)
  PROVE  Inv'
<1>1. SendRequest(c, "tfs_unmount")
  BY DEF tfs_unmount
<1>2. "tfs_unmount" \in Calls
  BY DEF Calls
<1>3. request_pipe' \in Seq(Request)
  BY <1>1, <1>2, SendRequestStep DEF Inv
<1> QED
  BY <1>3, LeaveStep DEF tfs_unmount

LEMMA KilledStep ==
  ASSUME Inv, NEW c \in Clients, Killed(c)
  PROVE  Inv'
BY LeaveStep DEF Killed, Inv, ServerInv, ServerTypeOK

LEMMA OpenClientPipeStep ==
  ASSUME Inv, NEW w \in Workers, OpenClientPipe(w)
  PROVE  Inv'
<1>1. PICK c \in Clients : /\ ServeMount(w, c)
                           /\ cpc' = [cpc EXCEPT ![c] = IF @ = "opening" THEN "receiving" ELSE @]
                           /\ UNCHANGED <<session_id, call, inbox, got>>
  BY DEF OpenClientPipe
<1>2. ServerInv'
  BY <1>1, ServeMountStep DEF Inv
<1>3. ClientTypeOK'
  BY <1>1 DEF Inv, ClientTypeOK, Places
<1> QED
  BY <1>2, <1>3 DEF Inv

\* The answer is one to the request the worker holds.
LEMMA SendAnswerStep ==
  ASSUME Inv, NEW w \in Workers, SendAnswer(w)
  PROVE  Inv'
<1> DEFINE c == Receiver(w)
<1>1. Finish(w) /\ UNCHANGED <<cpc, session_id, call, got>>
  BY DEF SendAnswer
<1>2. ServerInv'
  BY <1>1, FinishStep DEF Inv
<1>3. Command(w) \in Request /\ result[w] \in Values
  BY <1>1 DEF Inv, ServerInv, ServerTypeOK, SlotsInv, HasRequest, Holds, Finish, At
<1>4. Answer(w) \in Reply
  BY <1>3 DEF Answer, Reply, Request
<1>5. inbox' \in [Clients -> Seq(Reply)]
  <2>1. CASE inbox' = inbox
    BY <2>1 DEF Inv, ClientTypeOK
  <2>2. CASE c \in Clients /\ inbox' = [inbox EXCEPT ![c] = Append(@, Answer(w))]
    <3>1. inbox[c] \in Seq(Reply)
      BY <2>2 DEF Inv, ClientTypeOK
    <3>2. Append(inbox[c], Answer(w)) \in Seq(Reply)
      BY <1>4, <3>1, AppendProperties
    <3> QED
      BY <2>2, <3>2 DEF Inv, ClientTypeOK
  <2> QED
    BY <2>1, <2>2 DEF SendAnswer
<1>6. ClientTypeOK'
  BY <1>1, <1>5 DEF Inv, ClientTypeOK
<1> QED
  BY <1>2, <1>6 DEF Inv

----------------------------------------------------------------------------
(* The system.                                                             *)

LEMMA ClientsUnchanged ==
  ASSUME ClientTypeOK, UNCHANGED client_vars
  PROVE  ClientTypeOK'
BY DEF ClientTypeOK, client_vars

LEMMA InvStep == Inv /\ [Next]_vars => Inv'
<1> SUFFICES ASSUME Inv, [Next]_vars PROVE Inv'
  OBVIOUS
<1>1. CASE MainStep
  BY <1>1, ReceiveStep, FindStep, PostMountStep, PostStep, ClientsUnchanged
  DEF MainStep, Inv
<1>2. CASE \E w \in Workers : WorkerStep(w)
  <2>1. PICK w \in Workers : WorkerStep(w)
    BY <1>2
  <2>2. CASE OpenClientPipe(w) \/ SendAnswer(w)
    BY <2>2, OpenClientPipeStep, SendAnswerStep
  <2>3. CASE /\ UNCHANGED client_vars
             /\ TestCount(w) \/ FailMount(w) \/ ServeUnmount(w) \/ ServeFile(w) \/ ServeOther(w)
    BY <2>3, TestCountStep, FailMountStep, ServeUnmountStep, ServeCallStep, ClientsUnchanged DEF Inv
  <2> QED
    BY <2>1, <2>2, <2>3 DEF WorkerStep
<1>3. CASE SpuriousWakeUp
  BY <1>3, MainSpuriousStep, WorkerSpuriousStep, ClientsUnchanged DEF SpuriousWakeUp, Inv
<1>4. ASSUME NEW c \in Clients,
             \/ tfs_mount(c) \/ SendMount(c) \/ Receive(c) \/ tfs_unmount(c) \/ Killed(c)
             \/ \E k \in Calls : RequestAndWait(c, k)
      PROVE  Inv'
  BY <1>4, MountStep, SendMountStep, ReceiveAnswerStep, UnmountStep, KilledStep, RequestStep
<1>5. CASE UNCHANGED vars
  BY <1>5, ServerUnchanged, ClientsUnchanged DEF Inv, vars
<1> QED
  BY <1>1, <1>2, <1>3, <1>4, <1>5 DEF Next

LEMMA InvInit == Init => Inv
<1> SUFFICES ASSUME Init PROVE Inv
  OBVIOUS
<1>1. ServerInv
  BY InitServer DEF Init
<1>2. ClientTypeOK
  BY DEF Init, ClientTypeOK, Places, Values, Calls
<1> QED
  BY <1>1, <1>2 DEF Inv

LEMMA Invariant == Spec => []Inv
<1>1. Init => Inv
  BY InvInit
<1>2. Inv /\ [Next]_vars => Inv'
  BY InvStep
<1> QED
  BY <1>1, <1>2, PTL DEF Spec

\* The server and its clients are well typed in every reachable state: no count
\* goes below zero, valid is 0 or 1, every descriptor is one the server may have,
\* and every answer is one to a request that was sent, or to stray bytes.
THEOREM ServerTypeCorrect == Spec => []TypeOK
<1>1. Inv => TypeOK
  BY DEF Inv, ServerInv, ClientTypeOK, TypeOK
<1> QED
  BY <1>1, Invariant, PTL

\* No thread of the server sleeps through the signal it needs, for any number of
\* sessions and clients, clients that are killed, workers that share or miss a
\* session, and workers whose condition init has initialised again, which are
\* not counted among those of their session.
THEOREM SignalsAreNotLost == Spec => []NoLostSignal
<1>1. Inv => NoLostSignal
  BY DEF Inv, ServerInv, SlotsInv, MainAwake, WorkersAwake, NoLostSignal
<1> QED
  BY <1>1, Invariant, PTL

----------------------------------------------------------------------------
(* A client that has the server to itself.                                 *)

\* There is one client, it lives, it writes no more than the server reads at once,
\* and nothing it writes reads as an unmount.
Alone(c) == /\ Clients = {c} /\ Mortal = {} /\ LongWriters = {}
            /\ \A bytes \in Payloads : bytes.op # "unmount"

NoneCounted == \A s \in Sessions : session[s].count = 0

\* What is left of the call of c when nothing is on its way.
Still(c) == request_pipe = <<>> /\ main.pc = "read" /\ NoneCounted /\ inbox[c] = <<>>

Asks(r, c) == r.from = c /\ r.call = call[c] /\ r.op # "unmount"

\* The request of c is in one place, or its answer is.
InPipe(c) ==
  /\ \E r \in Request : request_pipe = <<r>> /\ Asks(r, c)
  /\ main.pc = "read" /\ NoneCounted /\ inbox[c] = <<>>

InMain(c) ==
  /\ main.pc \in {"find", "mount", "post"} /\ Asks(buffer, c)
  /\ request_pipe = <<>> /\ NoneCounted /\ inbox[c] = <<>>

InSlot(c) ==
  /\ \E s \in Sessions : /\ session[s].count = 1 /\ Asks(session[s].new_command, c)
                         /\ \A r \in Sessions \ {s} : session[r].count = 0
  /\ request_pipe = <<>> /\ main.pc = "read" /\ inbox[c] = <<>>

InInbox(c) ==
  /\ \E a \in Reply : inbox[c] = <<a>> /\ a.from = c /\ a.call = call[c]
  /\ request_pipe = <<>> /\ main.pc = "read" /\ NoneCounted

\* The answer may also be lost, when the worker has no pipe of c.
OnItsWay(c) == InPipe(c) \/ InMain(c) \/ InSlot(c) \/ InInbox(c) \/ Still(c)

\* The last request of c, which it sent when it left, may be executed again and
\* again, but waits for its slot each time.
LeftBehind ==
  /\ main.pc \in {"read", "post", "asleep"}
  /\ \A s \in Sessions : session[s].count \in {0, 1}
  /\ \/ request_pipe = <<>> /\ buffer.op # "mount"
     \/ \E r \in Request : request_pipe = <<r>> /\ r.op # "mount"

Answered(c) == got[c] # NoAnswer /\ got[c].from = c /\ got[c].call = call[c]

HasPipe(c) == \E f \in Fds : fd[f] = c

AloneInv(c) ==
  /\ cpc[c] = "unmounted" => /\ request_pipe = <<>> /\ writers = {} /\ main.pc = "open"
                             /\ NoneCounted /\ inbox[c] = <<>>
  /\ cpc[c] = "connecting" => writers = {c} /\ Still(c)
  /\ cpc[c] \in {"opening", "receiving"} => writers = {c} /\ OnItsWay(c)
  /\ cpc[c] = "mounted" => writers = {c} /\ Still(c) /\ Answered(c)
  /\ cpc[c] \in {"receiving", "mounted"} => HasPipe(c)
  /\ cpc[c] = "gone" => LeftBehind

\* Steps of the workers that leave the slots, and the pipe of c, as they are.
LEMMA AloneKept ==
  ASSUME NEW c, AloneInv(c),
         UNCHANGED <<request_pipe, writers, buffer, main, cpc, call, inbox, got>>,
         \A s \in Sessions : /\ session'[s].count = session[s].count
                             /\ session'[s].new_command = session[s].new_command,
         cpc[c] = "gone" \/ (HasPipe(c) => HasPipe(c)')
  PROVE  AloneInv(c)'
<1>1. NoneCounted' = NoneCounted
  BY DEF NoneCounted
<1>2. OnItsWay(c)' = OnItsWay(c) /\ Still(c)' = Still(c)
  BY <1>1 DEF OnItsWay, InPipe, InMain, InSlot, InInbox, Still, Asks
<1>3. LeftBehind' = LeftBehind
  BY DEF LeftBehind
<1> QED
  BY <1>1, <1>2, <1>3 DEF AloneInv, Answered

----------------------------------------------------------------------------
(* The main thread, with one client.                                       *)

\* One read takes a pipe that holds one request.
LEMMA OneIsRead ==
  ASSUME NEW r, request_pipe = <<r>>
  PROVE  Unread = {<<>>}
<1>1. SubSeq(request_pipe, READ_MAX + 1, Len(request_pipe)) = <<>>
  BY ServerAssumption
<1> QED
  BY <1>1 DEF Unread

LEMMA ReceiveAlone ==
  ASSUME NEW c, Inv, AloneInv(c), receive_from_pipe, UNCHANGED client_vars, c \in Clients
  PROVE  AloneInv(c)'
<1>1. /\ main.pc = "read"
      /\ \/ /\ request_pipe # <<>> /\ buffer' = Head(request_pipe)
            /\ request_pipe' \in Unread
         \/ /\ request_pipe = <<>> /\ writers = {} /\ request_pipe' = <<>>
            /\ buffer' \in Strays \cup {buffer}
      /\ UNCHANGED <<writers, session, fd, cpc, call, inbox, got>>
  BY DEF receive_from_pipe, client_vars
<1>2. /\ buffer'.op = "mount" => main'.pc = "find"
      /\ buffer'.op # "mount" => main'.pc = "post"
  BY DEF receive_from_pipe, Dispatch
<1>3. cpc[c] \in {"opening", "receiving", "gone"}
  BY <1>1 DEF AloneInv, Still, Inv, ClientTypeOK, Places
<1>4. CASE cpc[c] \in {"opening", "receiving"}
  <2>1. OnItsWay(c) /\ writers = {c}
    BY <1>4 DEF AloneInv
  <2>2. InPipe(c)
    BY <1>1, <2>1 DEF OnItsWay, InMain, InSlot, InInbox, Still
  <2>3. PICK r \in Request : request_pipe = <<r>> /\ Asks(r, c)
    BY <2>2 DEF InPipe
  <2>4. buffer' = r /\ request_pipe' = <<>>
    BY <1>1, <2>3, OneIsRead
  <2>5. InMain(c)'
    BY <1>1, <1>2, <2>2, <2>3, <2>4 DEF InPipe, InMain, Asks, NoneCounted
  <2> QED
    BY <1>1, <1>4, <2>1, <2>5 DEF AloneInv, OnItsWay, HasPipe
<1>5. CASE cpc[c] = "gone"
  <2>1. LeftBehind
    BY <1>5 DEF AloneInv
  <2>2. buffer'.op # "mount" /\ request_pipe' = <<>>
    <3>1. CASE request_pipe = <<>>
      <4>1. \A stray \in Strays : stray.op # "mount"
        BY ServerAssumption DEF Strays
      <4> QED
        BY <1>1, <2>1, <3>1, <4>1 DEF LeftBehind
    <3>2. CASE request_pipe # <<>>
      <4>1. PICK r \in Request : request_pipe = <<r>> /\ r.op # "mount"
        BY <2>1, <3>2 DEF LeftBehind
      <4>2. Unread = {<<>>}
        BY <4>1, OneIsRead
      <4> QED
        BY <1>1, <4>1, <4>2
    <3> QED
      BY <3>1, <3>2
  <2>3. LeftBehind'
    BY <1>1, <1>2, <2>1, <2>2 DEF LeftBehind
  <2> QED
    BY <1>1, <1>5, <2>3 DEF AloneInv
<1> QED
  BY <1>3, <1>4, <1>5

LEMMA FindAlone ==
  ASSUME NEW c, Inv, AloneInv(c), find_session_id, UNCHANGED client_vars, c \in Clients
  PROVE  AloneInv(c)'
<1>1. /\ main.pc = "find" /\ main'.pc \in {"find", "mount"}
      /\ UNCHANGED <<request_pipe, writers, buffer, session, fd, cpc, call, inbox, got>>
  BY DEF find_session_id, client_vars
<1>2. cpc[c] \in {"opening", "receiving"}
  BY <1>1 DEF AloneInv, Still, LeftBehind, Inv, ClientTypeOK, Places
<1>3. OnItsWay(c) /\ writers = {c}
  BY <1>2 DEF AloneInv
<1>4. InMain(c)
  BY <1>1, <1>3 DEF OnItsWay, InPipe, InSlot, InInbox, Still
<1>5. InMain(c)'
  BY <1>1, <1>4 DEF InMain, Asks, NoneCounted
<1> QED
  BY <1>1, <1>2, <1>3, <1>5 DEF AloneInv, OnItsWay, HasPipe

\* The request goes into a slot when no other is in any.
LEMMA PutAlone ==
  ASSUME NEW c, Inv, AloneInv(c), NEW s \in Sessions, Put(s), c \in Clients,
         main.pc = "mount" \/ (main.pc = "post" /\ session[s].count = 0),
         UNCHANGED <<request_pipe, writers, buffer, fd, cpc, call, inbox, got>>
  PROVE  AloneInv(c)'
<1>1. session \in [Sessions -> Slot] /\ session[s] \in Slot
  BY DEF Inv, ServerInv, ServerTypeOK
<1>2. /\ session'[s].count = session[s].count + 1 /\ session'[s].new_command = buffer
      /\ \A r \in Sessions \ {s} : session'[r] = session[r]
      /\ main'.pc = "read"
  BY <1>1 DEF Put, Slot
<1>3. cpc[c] \in {"opening", "receiving", "gone"}
  <2>1. main.pc # "open" /\ main.pc # "read"
    OBVIOUS
  <2>2. cpc[c] # "unmounted" /\ cpc[c] # "connecting" /\ cpc[c] # "mounted"
    BY <2>1 DEF AloneInv, Still
  <2> QED
    BY <2>2 DEF Inv, ClientTypeOK, Places
<1>4. CASE cpc[c] \in {"opening", "receiving"}
  <2>1. OnItsWay(c) /\ writers = {c}
    BY <1>4 DEF AloneInv
  <2>2. InMain(c)
    BY <2>1 DEF OnItsWay, InPipe, InSlot, InInbox, Still
  <2>3. session[s].count = 0 /\ \A r \in Sessions : session[r].count = 0
    BY <2>2 DEF InMain, NoneCounted
  <2>4. session'[s].count = 1 /\ \A r \in Sessions \ {s} : session'[r].count = 0
    BY <1>2, <2>3
  <2>5. InSlot(c)'
    BY <1>2, <2>2, <2>4 DEF InMain, InSlot, Asks
  <2> QED
    BY <1>4, <2>1, <2>5 DEF AloneInv, OnItsWay, HasPipe
<1>5. CASE cpc[c] = "gone"
  <2>1. LeftBehind
    BY <1>5 DEF AloneInv
  <2>2. session[s].count = 0
    BY <2>1 DEF LeftBehind
  <2>3. session'[s].count = 1
    BY <1>2, <2>2
  <2>4. LeftBehind'
    BY <1>2, <2>1, <2>3 DEF LeftBehind
  <2> QED
    BY <1>5, <2>4 DEF AloneInv
<1> QED
  BY <1>3, <1>4, <1>5

LEMMA PostMountAlone ==
  ASSUME NEW c, Inv, AloneInv(c), PostMount, UNCHANGED client_vars, c \in Clients
  PROVE  AloneInv(c)'
<1>1. main.pc = "mount" /\ UNCHANGED <<request_pipe, writers, buffer, fd, cpc, call, inbox, got>>
  BY DEF PostMount, client_vars
<1>2. CASE UNCHANGED <<main, session>>
  BY <1>1, <1>2, AloneKept DEF HasPipe
<1>3. CASE main.sid \in Sessions /\ Put(main.sid)
  BY <1>1, <1>3, PutAlone
<1> QED
  BY <1>2, <1>3 DEF PostMount

LEMMA PostAlone ==
  ASSUME NEW c, Inv, AloneInv(c), Post, UNCHANGED client_vars, c \in Clients
  PROVE  AloneInv(c)'
<1>1. main.pc = "post"
      /\ UNCHANGED <<request_pipe, writers, buffer, fd, cpc, call, inbox, got>>
  BY DEF Post, client_vars
<1>2. CASE UNCHANGED <<main, session>>
  BY <1>1, <1>2, AloneKept DEF HasPipe
<1>3. CASE /\ main.sid \in Sessions /\ session[main.sid].count # 0
           /\ main' = [main EXCEPT !.pc = "asleep"] /\ UNCHANGED session
  <2>1. cpc[c] = "gone"
    BY <1>1, <1>3 DEF AloneInv, OnItsWay, InPipe, InMain, InSlot, InInbox, Still, NoneCounted,
                      Inv, ClientTypeOK, Places
  <2>2. main'.pc = "asleep"
    BY <1>3 DEF Inv, ServerInv, ServerTypeOK
  <2>3. LeftBehind'
    BY <1>1, <1>3, <2>1, <2>2 DEF AloneInv, LeftBehind
  <2> QED
    BY <1>1, <2>1, <2>3 DEF AloneInv
<1>4. CASE main.sid \in Sessions /\ session[main.sid].count = 0 /\ Put(main.sid)
  BY <1>1, <1>4, PutAlone
<1> QED
  BY <1>2, <1>3, <1>4 DEF Post

LEMMA MainWakesAlone ==
  ASSUME NEW c, Inv, AloneInv(c), main.pc = "asleep", main' = [main EXCEPT !.pc = "post"],
         UNCHANGED <<request_pipe, buffer, session, cpc>>, c \in Clients
  PROVE  AloneInv(c)'
<1>1. cpc[c] = "gone"
  BY DEF AloneInv, OnItsWay, InPipe, InMain, InSlot, InInbox, Still, Inv, ClientTypeOK, Places
<1>2. main'.pc = "post"
  BY DEF Inv, ServerInv, ServerTypeOK
<1> QED
  BY <1>1, <1>2 DEF AloneInv, LeftBehind

----------------------------------------------------------------------------
(* The workers, with one client.                                           *)

\* Executing a request, but for an unmount, leaves the pipe of c open.
LEMMA OpenClientPipeAlone ==
  ASSUME NEW c, Alone(c), Inv, AloneInv(c), NEW w \in Workers, OpenClientPipe(w)
  PROVE  AloneInv(c)'
<1>1. /\ ServeMount(w, c) /\ cpc[c] \in {"opening", "receiving", "mounted"}
      /\ cpc' = [cpc EXCEPT ![c] = IF @ = "opening" THEN "receiving" ELSE @]
      /\ UNCHANGED <<session_id, call, inbox, got>>
  BY DEF OpenClientPipe, Alone
<1> DEFINE f == Lowest({g \in Fds : fd[g] = "closed"})
<1>2. /\ fd' = [fd EXCEPT ![f] = c] /\ {g \in Fds : fd[g] = "closed"} # {}
      /\ session' = [session EXCEPT ![id[w]].valid = 1] /\ Serves(w, "mount", 0)
      /\ UNCHANGED <<request_pipe, writers, buffer, main>>
  BY <1>1 DEF ServeMount
<1>3. f \in Fds
  BY <1>2, LowestFound, FdNumbers
<1>4. HasPipe(c)'
  BY <1>2, <1>3 DEF HasPipe, Inv, ServerInv, ServerTypeOK
<1>5. id[w] \in Sessions /\ session[id[w]] \in Slot
  BY <1>2, WorkerSession DEF Serves, At, Inv
<1>6. \A s \in Sessions : /\ session'[s].count = session[s].count
                          /\ session'[s].new_command = session[s].new_command
  BY <1>2, <1>5 DEF Inv, ServerInv, ServerTypeOK, Slot
<1>7. cpc'[c] = IF cpc[c] = "opening" THEN "receiving" ELSE cpc[c]
  BY <1>1 DEF Inv, ClientTypeOK, Alone
<1>8. OnItsWay(c)' = OnItsWay(c) /\ Still(c)' = Still(c) /\ Answered(c)' = Answered(c)
  BY <1>1, <1>2, <1>6 DEF OnItsWay, InPipe, InMain, InSlot, InInbox, Still, Asks, Answered, NoneCounted
<1> QED
  BY <1>1, <1>2, <1>4, <1>7, <1>8 DEF AloneInv

\* Only the slots of a client that is gone hold an unmount.
LEMMA ServeUnmountAlone ==
  ASSUME NEW c, Inv, AloneInv(c), NEW w \in Workers, ServeUnmount(w), UNCHANGED client_vars,
         c \in Clients
  PROVE  AloneInv(c)'
<1>1. /\ Serves(w, "unmount", 0)
      /\ session' = [session EXCEPT ![id[w]].valid = 0]
      /\ UNCHANGED <<request_pipe, writers, buffer, main, cpc, call, inbox, got>>
  BY DEF ServeUnmount, client_vars
<1>2. /\ id[w] \in Sessions /\ session[id[w]] \in Slot /\ session[id[w]].count # 0
      /\ session[id[w]].new_command.op = "unmount"
  BY <1>1, WorkerSession DEF Serves, At, Inv, ServerInv, SlotsInv, HasRequest, Holds, Command
<1>3. \A s \in Sessions : /\ session'[s].count = session[s].count
                          /\ session'[s].new_command = session[s].new_command
  BY <1>1, <1>2 DEF Inv, ServerInv, ServerTypeOK, Slot
<1>4. ~OnItsWay(c) /\ ~Still(c)
  BY <1>2 DEF OnItsWay, InPipe, InMain, InSlot, InInbox, Still, Asks, NoneCounted
<1>5. cpc[c] = "gone"
  BY <1>2, <1>4 DEF AloneInv, NoneCounted, Inv, ClientTypeOK, Places
<1> QED
  BY <1>1, <1>3, <1>5, AloneKept

\* A mount that fails closes no pipe.
LEMMA FailMountAlone ==
  ASSUME NEW c, Inv, AloneInv(c), NEW w \in Workers, FailMount(w), UNCHANGED client_vars
  PROVE  AloneInv(c)'
<1>1. /\ Serves(w, "mount", -1)
      /\ session' = [session EXCEPT ![id[w]].valid = 0]
      /\ UNCHANGED <<request_pipe, writers, buffer, main, fd, cpc, call, inbox, got>>
  BY DEF FailMount, client_vars
<1>2. id[w] \in Sessions /\ session[id[w]] \in Slot
  BY <1>1, WorkerSession DEF Serves, At, Inv
<1>3. \A s \in Sessions : /\ session'[s].count = session[s].count
                          /\ session'[s].new_command = session[s].new_command
  BY <1>1, <1>2 DEF Inv, ServerInv, ServerTypeOK, Slot
<1> QED
  BY <1>1, <1>3, AloneKept DEF HasPipe

\* The answer comes from the one slot that holds a request.
LEMMA SendAnswerAlone ==
  ASSUME NEW c, Alone(c), Inv, AloneInv(c), NEW w \in Workers, SendAnswer(w)
  PROVE  AloneInv(c)'
<1> DEFINE s == id[w]
<1>1. /\ wpc[w] = "answering" /\ ~undefined /\ SignalMain(s)
      /\ session' = [session EXCEPT ![s].new_command = Freed, ![s].count = @ - 1]
      /\ UNCHANGED <<request_pipe, writers, buffer, fd, cpc, call, got>>
  BY DEF SendAnswer, Finish, At
<1>2. /\ s \in Sessions /\ session[s] \in Slot /\ session[s].count # 0
      /\ Command(w) = session[s].new_command /\ result[w] \in Values /\ Command(w) \in Request
  BY <1>1, WorkerSession DEF Inv, ServerInv, ServerTypeOK, SlotsInv, HasRequest, Holds, Command
<1>3. /\ session'[s].count = session[s].count - 1
      /\ \A r \in Sessions \ {s} : session'[r] = session[r]
  BY <1>1, <1>2 DEF Inv, ServerInv, ServerTypeOK, Slot
<1>4. cpc[c] \in {"opening", "receiving", "gone"}
  <2>1. ~NoneCounted /\ cpc[c] \in Places
    BY <1>2 DEF NoneCounted, Inv, ClientTypeOK, Alone
  <2>2. cpc[c] # "unmounted" /\ cpc[c] # "connecting" /\ cpc[c] # "mounted"
    BY <2>1 DEF AloneInv, Still
  <2> QED
    BY <2>1, <2>2 DEF Places
<1>5. CASE cpc[c] \in {"opening", "receiving"}
  <2>1. OnItsWay(c) /\ writers = {c}
    BY <1>5 DEF AloneInv
  <2>2. InSlot(c)
    BY <1>2, <2>1 DEF OnItsWay, InPipe, InMain, InInbox, Still, NoneCounted
  <2>3. PICK q \in Sessions : /\ session[q].count = 1 /\ Asks(session[q].new_command, c)
                              /\ \A r \in Sessions \ {q} : session[r].count = 0
    BY <2>2 DEF InSlot
  <2>4. q = s
    BY <1>2, <2>3
  <2>5. session'[s].count = 0 /\ NoneCounted'
    BY <1>3, <2>3, <2>4 DEF NoneCounted
  <2>6. main' = main /\ main.pc = "read" /\ request_pipe = <<>> /\ inbox[c] = <<>>
    BY <1>1, <2>2 DEF SignalMain, InSlot
  <2> DEFINE a == Answer(w)
  <2>7. a \in Reply /\ a.from = c /\ a.call = call[c]
    BY <1>2, <2>3, <2>4 DEF Answer, Reply, Request, Asks
  <2> HIDE DEF a
  <2>8. inbox'[c] = <<>> \/ inbox'[c] = <<a>>
    <3>1. \/ inbox' = inbox
          \/ \E d \in Clients : inbox' = [inbox EXCEPT ![d] = Append(@, a)]
      BY DEF SendAnswer, a
    <3>2. \/ inbox' = inbox
          \/ inbox' = [inbox EXCEPT ![c] = Append(@, a)]
      BY <3>1 DEF Alone
    <3>3. DOMAIN inbox = Clients /\ c \in Clients
      BY DEF Inv, ClientTypeOK, Alone
    <3>4. Append(<<>>, a) = <<a>>
      OBVIOUS
    <3> QED
      BY <2>6, <3>2, <3>3, <3>4
  <2>9. InInbox(c)' \/ Still(c)'
    BY <1>1, <2>5, <2>6, <2>7, <2>8 DEF InInbox, Still
  <2> QED
    BY <1>1, <1>5, <2>1, <2>9 DEF AloneInv, OnItsWay, HasPipe
<1>6. CASE cpc[c] = "gone"
  <2>1. LeftBehind
    BY <1>6 DEF AloneInv
  <2>2. session[s].count = 1
    BY <1>2, <2>1 DEF LeftBehind
  <2>3. session'[s].count = 0
    BY <1>3, <2>2
  <2>4. main'.pc = main.pc \/ main'.pc = "post"
    BY <1>1 DEF SignalMain, Inv, ServerInv, ServerTypeOK
  <2>5. LeftBehind'
    BY <1>1, <1>3, <2>1, <2>3, <2>4 DEF LeftBehind
  <2> QED
    BY <1>1, <1>6, <2>5 DEF AloneInv
<1> QED
  BY <1>4, <1>5, <1>6

----------------------------------------------------------------------------
(* The client, alone.                                                      *)

LEMMA MountAlone ==
  ASSUME NEW c, Alone(c), Inv, AloneInv(c), tfs_mount(c)
  PROVE  AloneInv(c)'
<1>1. /\ cpc[c] = "unmounted" /\ OpenServerPipe
      /\ writers' = writers \cup {c}
      /\ cpc' = [cpc EXCEPT ![c] = "connecting"]
      /\ UNCHANGED <<request_pipe, session, inbox>>
  BY DEF tfs_mount
<1>2. request_pipe = <<>> /\ writers = {} /\ main.pc = "open" /\ NoneCounted /\ inbox[c] = <<>>
  BY <1>1 DEF AloneInv
<1>3. cpc'[c] = "connecting"
  BY <1>1 DEF Inv, ClientTypeOK, Alone
<1>4. main'.pc = "read"
  BY <1>1, <1>2 DEF OpenServerPipe, Inv, ServerInv, ServerTypeOK
<1>5. Still(c)'
  BY <1>1, <1>2, <1>4 DEF Still, NoneCounted
<1> QED
  BY <1>1, <1>2, <1>3, <1>5 DEF AloneInv

LEMMA SendMountAlone ==
  ASSUME NEW c, Alone(c), Inv, AloneInv(c), SendMount(c)
  PROVE  AloneInv(c)'
<1> DEFINE r == [op |-> "mount", sid |-> -1, call |-> "tfs_mount", from |-> c]
<1>1. /\ cpc[c] = "connecting" /\ request_pipe' = Append(request_pipe, r) \o <<>>
      /\ call' = [call EXCEPT ![c] = "tfs_mount"]
      /\ cpc' = [cpc EXCEPT ![c] = "opening"]
      /\ UNCHANGED <<writers, server_vars, inbox>>
  BY DEF SendMount, send_to_pipe
<1>2. writers = {c} /\ Still(c)
  BY <1>1 DEF AloneInv
<1>3. call'[c] = "tfs_mount" /\ cpc'[c] = "opening"
  BY <1>1 DEF Inv, ClientTypeOK, Alone
<1>4. r \in Request /\ r.from = c /\ r.call = "tfs_mount" /\ r.op = "mount"
  BY DEF Request, OpCodes, Calls, Alone
<1> HIDE DEF r
<1>5. request_pipe' = <<r>>
  BY <1>1, <1>2 DEF Still
<1>6. InPipe(c)'
  BY <1>1, <1>2, <1>3, <1>4, <1>5 DEF InPipe, Still, Asks, NoneCounted, server_vars
<1> QED
  BY <1>1, <1>2, <1>3, <1>6 DEF AloneInv, OnItsWay

\* No request but tfs_unmount reads as an unmount.
LEMMA RequestAlone ==
  ASSUME NEW c, Alone(c), Inv, AloneInv(c), NEW k \in Calls, RequestAndWait(c, k)
  PROVE  AloneInv(c)'
<1>1. PICK bytes \in Wire(c, k) : send_to_pipe(c, k, bytes, <<>>)
  BY DEF RequestAndWait, SendRequest, Alone
<1> DEFINE r == [op |-> bytes.op, sid |-> bytes.sid, call |-> k, from |-> c]
<1>2. /\ cpc[c] = "mounted" /\ k # "tfs_unmount" /\ request_pipe' = Append(request_pipe, r) \o <<>>
      /\ call' = [call EXCEPT ![c] = k]
      /\ cpc' = [cpc EXCEPT ![c] = "receiving"]
      /\ UNCHANGED <<writers, server_vars, inbox>>
  BY <1>1 DEF RequestAndWait, send_to_pipe
<1>3. c \in Clients
  BY DEF Alone
<1>4. bytes.op \in OpCodes /\ bytes.sid \in Sessions \cup {-1, GARBAGE}
  BY <1>3, WireType
<1>5. bytes.op # "unmount"
  <2>1. CASE k = "tfs_open"
    BY <2>1 DEF Wire, Addressed
  <2>2. CASE k = "tfs_write"
    BY <2>2 DEF Wire, Alone, Addressed
  <2>3. CASE k \notin {"tfs_open", "tfs_write"}
    BY <1>2, <2>3 DEF Wire, Addressed
  <2> QED
    BY <2>1, <2>2, <2>3
<1>6. r \in Request /\ r.from = c /\ r.call = k /\ r.op # "unmount"
  BY <1>3, <1>4, <1>5 DEF Request
<1>7. writers = {c} /\ Still(c) /\ HasPipe(c)
  BY <1>2 DEF AloneInv
<1>8. call'[c] = k /\ cpc'[c] = "receiving"
  BY <1>2, <1>3 DEF Inv, ClientTypeOK
<1> HIDE DEF r
<1>9. request_pipe' = <<r>>
  BY <1>2, <1>7 DEF Still
<1>10. InPipe(c)'
  BY <1>2, <1>6, <1>7, <1>8, <1>9 DEF InPipe, Asks, NoneCounted, Still, server_vars
<1>11. HasPipe(c)'
  BY <1>2, <1>7 DEF HasPipe, server_vars
<1> QED
  BY <1>2, <1>7, <1>8, <1>10, <1>11 DEF AloneInv, OnItsWay

\* What the client reads is the one answer in its pipe, which is not at its end.
LEMMA ReceiveAnswerAlone ==
  ASSUME NEW c, Alone(c), Inv, AloneInv(c), Receive(c)
  PROVE  AloneInv(c)'
<1>1. /\ cpc[c] = "receiving" /\ cpc' = [cpc EXCEPT ![c] = "mounted"]
      /\ UNCHANGED <<request_pipe, writers, server_vars, call>>
  BY DEF Receive
<1>2. HasPipe(c) /\ OnItsWay(c) /\ writers = {c} /\ c \in Clients
  BY <1>1 DEF AloneInv, Alone
<1>3. /\ inbox[c] # <<>> /\ got' = [got EXCEPT ![c] = Head(inbox[c])]
      /\ \/ inbox' = [inbox EXCEPT ![c] = <<>>]
         \/ inbox' = [inbox EXCEPT ![c] = Tail(inbox[c])]
  BY <1>2 DEF Receive, HasPipe
<1>4. InInbox(c)
  BY <1>2, <1>3 DEF OnItsWay, InPipe, InMain, InSlot, Still
<1>5. PICK a \in Reply : inbox[c] = <<a>> /\ a.from = c /\ a.call = call[c]
  BY <1>4 DEF InInbox
<1>6. Head(inbox[c]) = a /\ Tail(inbox[c]) = <<>>
  BY <1>5
<1>7. got'[c] = a /\ inbox'[c] = <<>> /\ cpc'[c] = "mounted"
  BY <1>1, <1>2, <1>3, <1>6 DEF Inv, ClientTypeOK
<1>8. a # NoAnswer
  <2>1. "from" \in DOMAIN a
    BY DEF Reply
  <2>2. "from" \notin DOMAIN NoAnswer
    BY DEF NoAnswer
  <2> QED
    BY <2>1, <2>2
<1>9. Still(c)' /\ Answered(c)'
  BY <1>1, <1>4, <1>5, <1>7, <1>8 DEF InInbox, Still, Answered, NoneCounted, server_vars
<1>10. HasPipe(c)'
  BY <1>1, <1>2 DEF HasPipe, server_vars
<1> QED
  BY <1>1, <1>2, <1>7, <1>9, <1>10 DEF AloneInv

LEMMA UnmountAlone ==
  ASSUME NEW c, Alone(c), Inv, AloneInv(c), tfs_unmount(c)
  PROVE  AloneInv(c)'
<1>1. PICK bytes \in Wire(c, "tfs_unmount") : send_to_pipe(c, "tfs_unmount", bytes, <<>>)
  BY DEF tfs_unmount, SendRequest
<1> DEFINE r == [op |-> bytes.op, sid |-> bytes.sid, call |-> "tfs_unmount", from |-> c]
<1>2. /\ cpc[c] = "mounted" /\ request_pipe' = Append(request_pipe, r) \o <<>>
      /\ cpc' = [cpc EXCEPT ![c] = "gone"]
      /\ UNCHANGED server_vars
  BY <1>1 DEF tfs_unmount, Leave, send_to_pipe
<1>3. c \in Clients /\ "tfs_unmount" \in Calls
  BY DEF Alone, Calls
<1>4. bytes.op \in OpCodes /\ bytes.sid \in Sessions \cup {-1, GARBAGE}
  BY <1>3, WireType
<1>5. bytes.op = "unmount"
  BY DEF Wire, Addressed
<1>6. r \in Request /\ r.op # "mount"
  BY <1>3, <1>4, <1>5 DEF Request
<1>7. Still(c)
  BY <1>2 DEF AloneInv
<1> HIDE DEF r
<1>8. request_pipe' = <<r>>
  BY <1>2, <1>7 DEF Still
<1>9. cpc'[c] = "gone"
  BY <1>2, <1>3 DEF Inv, ClientTypeOK
<1>10. LeftBehind'
  BY <1>2, <1>6, <1>7, <1>8 DEF Still, NoneCounted, LeftBehind, server_vars
<1> QED
  BY <1>9, <1>10 DEF AloneInv

----------------------------------------------------------------------------
(* The system with one client.                                             *)

LEMMA AloneInit ==
  ASSUME NEW c, Alone(c), Init
  PROVE  AloneInv(c)
<1>1. c \in Clients
  BY DEF Alone
<1> QED
  BY <1>1 DEF Init, ServerInit, AloneInv, NoneCounted

LEMMA AloneNext ==
  ASSUME NEW c, Alone(c), Inv, AloneInv(c), [Next]_vars
  PROVE  AloneInv(c)'
<1>0. c \in Clients /\ \A d \in Clients : d = c
  BY DEF Alone
<1>1. CASE MainStep
  BY <1>0, <1>1, ReceiveAlone, FindAlone, PostMountAlone, PostAlone
  DEF MainStep
<1>2. ASSUME NEW w \in Workers, WorkerStep(w)
      PROVE  AloneInv(c)'
  <2>1. CASE OpenClientPipe(w)
    BY <2>1, OpenClientPipeAlone
  <2>2. CASE SendAnswer(w)
    BY <2>2, SendAnswerAlone
  <2>3. CASE ServeUnmount(w) /\ UNCHANGED client_vars
    BY <1>0, <2>3, ServeUnmountAlone
  <2>4. CASE FailMount(w) /\ UNCHANGED client_vars
    BY <2>4, FailMountAlone
  <2>5. CASE (TestCount(w) \/ ServeFile(w) \/ ServeOther(w)) /\ UNCHANGED client_vars
    <3>1. UNCHANGED <<request_pipe, writers, buffer, main, session, fd>>
      BY <2>5 DEF TestCount, ServeFile, ServeOther
    <3> QED
      BY <2>5, <3>1, AloneKept DEF HasPipe, client_vars
  <2> QED
    BY <1>2, <2>1, <2>2, <2>3, <2>4, <2>5 DEF WorkerStep
<1>3. CASE SpuriousWakeUp
  <2>1. CASE MainSpuriousWakeUp
    BY <1>0, <1>3, <2>1, MainWakesAlone DEF MainSpuriousWakeUp, SpuriousWakeUp, client_vars
  <2>2. ASSUME NEW w \in Workers, WorkerSpuriousWakeUp(w)
        PROVE  AloneInv(c)'
    BY <1>3, <2>2, AloneKept DEF WorkerSpuriousWakeUp, SpuriousWakeUp, client_vars, HasPipe
  <2> QED
    BY <1>3, <2>1, <2>2 DEF SpuriousWakeUp
<1>4. ASSUME NEW d \in Clients,
             \/ tfs_mount(d) \/ SendMount(d) \/ Receive(d) \/ tfs_unmount(d) \/ Killed(d)
             \/ \E k \in Calls : RequestAndWait(d, k)
      PROVE  AloneInv(c)'
  <2>1. d = c
    BY <1>0
  <2>2. ~Killed(c)
    BY DEF Killed, Alone
  <2> QED
    BY <1>4, <2>1, <2>2, MountAlone, SendMountAlone, ReceiveAnswerAlone, UnmountAlone, RequestAlone
<1>5. CASE UNCHANGED vars
  BY <1>5, AloneKept DEF vars, server_vars, client_vars, HasPipe
<1> QED
  BY <1>1, <1>2, <1>3, <1>4, <1>5 DEF Next

LEMMA AloneInvariant ==
  ASSUME NEW CONSTANT c, Alone(c)
  PROVE  Spec => [](Inv /\ AloneInv(c))
<1>1. Init => Inv /\ AloneInv(c)
  BY InvInit, AloneInit
<1>2. Inv /\ AloneInv(c) /\ [Next]_vars => (Inv /\ AloneInv(c))'
  BY InvStep, AloneNext
<1> QED
  BY <1>1, <1>2, PTL DEF Spec

\* A client that has the server to itself gets, from every call that returns,
\* the answer to the request sent for it, for any number of sessions, whatever
\* sessions the workers serve, and whatever tfs_write sends but a request to
\* unmount, or more than the server reads at once.
THEOREM OneClientGetsItsAnswers ==
  ASSUME NEW CONSTANT c, Alone(c)
  PROVE  Spec => []AnswersOwnCall
<1>1. AloneInv(c) => AnswersOwnCall
  BY DEF AloneInv, Answered, AnswersOwnCall, Alone
<1> QED
  BY <1>1, AloneInvariant, PTL

\* With one client no slot is ever given a second request, also after the client
\* has left and its last request is dispatched again and again.
THEOREM OneClientFillsOneSlot ==
  ASSUME NEW CONSTANT c, Alone(c)
  PROVE  Spec => []OneRequestPerSlot
<1>1. Inv /\ AloneInv(c) => OneRequestPerSlot
  <2> SUFFICES ASSUME Inv, AloneInv(c), NEW s \in Sessions PROVE session[s].count \in {0, 1}
    BY DEF OneRequestPerSlot
  <2>1. cpc[c] \in Places
    BY DEF Inv, ClientTypeOK, Alone
  <2>2. CASE cpc[c] \in {"unmounted", "connecting", "mounted"}
    BY <2>2 DEF AloneInv, Still, NoneCounted
  <2>3. CASE cpc[c] \in {"opening", "receiving"}
    BY <2>3 DEF AloneInv, OnItsWay, InPipe, InMain, InSlot, InInbox, Still, NoneCounted
  <2>4. CASE cpc[c] = "gone"
    BY <2>4 DEF AloneInv, LeftBehind
  <2> QED
    BY <2>1, <2>2, <2>3, <2>4 DEF Places
<1> QED
  BY <1>1, AloneInvariant, PTL

=============================================================================
