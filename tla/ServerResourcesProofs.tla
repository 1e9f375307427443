----------------------- MODULE ServerResourcesProofs -----------------------
(***************************************************************************)
(* Safety of the server's shared resources for any number of tasks,        *)
(* requests, clients, rounds and sessions, and for every operation a       *)
(* request may ask for.                                                    *)
(***************************************************************************)
EXTENDS ServerResources, SequenceTheorems, TLAPS

\* A task that has told only some clients still has the others before it, and
\* the one it writes to is not among them.
MissedAccounted ==
  \A t \in Tasks :
    /\ task[t].step \in {"copied", "send", "write", "drop", "ask"} =>
         \A c \in missed[t] :
           \/ client[c] = "gone" \/ c \in task[t].todo
           \/ At(t, "write") /\ c = task[t].to
    /\ At(t, "ask") => task[t].todo = {}

Inv == TypeOK /\ MissedAccounted

Statements == {"must", "may", "sessions"}

-----------------------------------------------------------------------------
(* What is left of a request *)

LEMMA Mays == ASSUME NEW n \in Nat PROVE [i \in 1..n |-> "may"] \in Seq(Statements)
<1>1. \A i \in 1..n : "may" \in Statements  BY DEF Statements
<1> QED BY <1>1, IsASeq

LEMMA PlanType ==
  ASSUME NEW endpoint \in Endpoints PROVE Plan(endpoint) \in Seq(Statements)
<1>1. endpoint \in {"list", "session", "sessions", "report", "dashboard"}
  BY ServerAssumption
<1>2. [i \in 1..9 |-> "may"] \in Seq(Statements)  BY Mays
<1>3. /\ <<"must">> \in Seq(Statements) /\ <<"must", "may">> \in Seq(Statements)
      /\ <<"sessions">> \in Seq(Statements) /\ <<"must", "sessions">> \in Seq(Statements)
  BY DEF Statements
<1> QED BY <1>1, <1>2, <1>3 DEF Plan

-----------------------------------------------------------------------------
(* TypeOK in parts: the types, and who holds what *)

TaskRecord ==
  [step : {"exec", "execing", "emit", "copied", "send", "write", "drop", "ask", "done"},
   round : Nat, todo : SUBSET Clients, to : Clients \cup {None}]

RequestRecord ==
  [step : {"idle", "wait", "read", "answered"}, left : Seq(Statements)]

OtherTypes ==
  /\ hub \subseteq Clients
  /\ client \in [Clients -> {"away", "reading", "stalled", "gone"}]
  /\ router \in [step : {"sleep", "check"}, active : Providers \cup {"none"}]
  /\ missed \in [Tasks -> SUBSET Clients]

ConnHeld ==
  /\ conn \in Tasks \cup Requests \cup {None}
  /\ \A r \in Requests : conn = r <=> request[r].step = "read"
  /\ \A t \in Tasks : conn = t <=> task[t].step = "execing"

WriteHeld ==
  /\ writing \in Tasks \cup {None}
  /\ \A t \in Tasks : writing = t <=> task[t].step = "write"

HubHeld == readers = {t \in Tasks : task[t].step = "copied"}

Parts ==
  /\ request \in [Requests -> RequestRecord] /\ task \in [Tasks -> TaskRecord]
  /\ OtherTypes /\ ConnHeld /\ WriteHeld /\ HubHeld

LEMMA PartsAreTypeOK == Parts <=> TypeOK
BY DEF Parts, TypeOK, TaskRecord, RequestRecord, Statements, OtherTypes, ConnHeld,
       WriteHeld, HubHeld, At

LEMMA PartsAreTypeOKPrimed == Parts' <=> TypeOK'
BY DEF Parts, TypeOK, TaskRecord, RequestRecord, Statements, OtherTypes, ConnHeld,
       WriteHeld, HubHeld, At

LEMMA NextClientType ==
  ASSUME task \in [Tasks -> TaskRecord], NEW t \in Tasks
  PROVE /\ NextClient(t) \in [Tasks -> TaskRecord]
        /\ NextClient(t)[t].step \in {"ask", "send"}
        /\ NextClient(t)[t].step = "ask" <=> task[t].todo = {}
        /\ NextClient(t)[t].todo = task[t].todo
        /\ \A u \in Tasks \ {t} : NextClient(t)[u] = task[u]
<1>1. CASE task[t].todo = {}  BY <1>1 DEF NextClient, TaskRecord
<1>2. CASE task[t].todo # {}  BY <1>2 DEF NextClient, TaskRecord
<1> QED BY <1>1, <1>2

LEMMA GotoType ==
  ASSUME task \in [Tasks -> TaskRecord], NEW t \in Tasks,
         NEW step \in {"execing", "emit", "drop"}, Goto(t, step)
  PROVE /\ task' \in [Tasks -> TaskRecord]
        /\ task'[t].step = step /\ task'[t].todo = task[t].todo
        /\ task'[t].to = task[t].to
        /\ \A u \in Tasks \ {t} : task'[u] = task[u]
BY DEF Goto, TaskRecord

-----------------------------------------------------------------------------
(* The invariant *)

LEMMA InitInv == Init => Inv
<1> SUFFICES ASSUME Init PROVE Inv OBVIOUS
<1> USE ServerAssumption DEF Init
<1>1. <<>> \in Seq({"must", "may", "sessions"})  OBVIOUS
<1>2. TypeOK  BY <1>1 DEF TypeOK, At, Providers
<1>3. MissedAccounted  BY DEF MissedAccounted, At
<1> QED BY <1>2, <1>3 DEF Inv

\* What a request disturbs: itself and the connection.
LEMMA RequestUpdate ==
  ASSUME Parts, NEW r \in Requests, NEW step \in {"wait", "read", "answered"},
         NEW left \in Seq(Statements),
         request' = [request EXCEPT ![r] = [step |-> step, left |-> left]],
         conn' = IF step = "read" THEN r ELSE IF conn = r THEN None ELSE conn,
         step = "read" => conn = None,
         UNCHANGED <<task, hubVars, router, missed>>
  PROVE Parts'
<1>1. request' \in [Requests -> RequestRecord]
  <2>1. [step |-> step, left |-> left] \in RequestRecord  BY DEF RequestRecord
  <2> QED BY <2>1 DEF Parts
<1>2. /\ request'[r].step = step
      /\ \A x \in Requests \ {r} : request'[x] = request[x]
  BY DEF Parts
<1>3. ConnHeld'
  BY <1>2, ServerAssumption DEF Parts, ConnHeld
<1>4. (OtherTypes /\ WriteHeld /\ HubHeld)' /\ task' \in [Tasks -> TaskRecord]
  BY DEF Parts, OtherTypes, WriteHeld, HubHeld, hubVars
<1> QED BY <1>1, <1>3, <1>4 DEF Parts

LEMMA RequestInv ==
  ASSUME Inv, NEW r \in Requests, Arrive(r) \/ RequestStep(r) PROVE Inv'
<1>0. /\ Parts /\ MissedAccounted /\ UNCHANGED <<task, hubVars, router, missed>>
  BY PartsAreTypeOK DEF Inv, Arrive, RequestStep, Query, ReadRows, QueryFails, EndRead
<1>1. SUFFICES Parts'
  BY <1>0, PartsAreTypeOKPrimed DEF Inv, MissedAccounted, At, hubVars
<1>2. request[r] \in RequestRecord /\ request[r].left \in Seq(Statements)
  BY <1>0 DEF Parts, RequestRecord
<1>3. CASE Arrive(r)
  <2>1. PICK e \in Endpoints :
          request' = [request EXCEPT ![r] = [step |-> "wait", left |-> Plan(e)]]
    BY <1>3 DEF Arrive
  <2>2. Plan(e) \in Seq(Statements)  BY PlanType
  <2>3. conn' = conn /\ conn # r  BY <1>0, <1>3 DEF Arrive, Parts, ConnHeld
  <2> QED BY <1>0, <2>1, <2>2, <2>3, RequestUpdate
<1>4. CASE Query(r)
  <2>1. [request[r] EXCEPT !.step = "read"] = [step |-> "read", left |-> request[r].left]
    BY <1>2 DEF RequestRecord
  <2>2. request' = [request EXCEPT ![r] = [request[r] EXCEPT !.step = "read"]]
    BY <1>4 DEF Query
  <2> QED BY <1>0, <1>2, <1>4, <2>1, <2>2, RequestUpdate DEF Query
<1>5. ASSUME NEW left \in Seq(Statements), EndRead(r, left) PROVE Parts'
  <2>1. /\ conn = r /\ conn' = None
        /\ request' = [request EXCEPT ![r] = RequestAfter(left)]
    BY <1>0, <1>5 DEF EndRead, Close, Parts, ConnHeld
  <2>2. CASE left = <<>>
    BY <1>0, <2>1, <2>2, RequestUpdate DEF RequestAfter
  <2>3. CASE left # <<>>
    BY <1>0, <2>1, <2>3, RequestUpdate DEF RequestAfter
  <2> QED BY <2>2, <2>3
<1>6. CASE ReadRows(r)
  <2>1. CASE Head(request[r].left) = "sessions"
    <3>1. PICK n \in 0..MaxSessions : EndRead(r, [i \in 1..n |-> "may"])
      BY <1>6, <2>1 DEF ReadRows
    <3>2. n \in Nat  BY ServerAssumption
    <3> QED BY <1>5, <3>1, <3>2, Mays
  <2>2. CASE Head(request[r].left) # "sessions"
    <3>1. EndRead(r, Tail(request[r].left)) /\ request[r].left # <<>>
      BY <1>6, <2>2 DEF ReadRows
    <3>2. Tail(request[r].left) \in Seq(Statements)
      BY <1>2, <3>1, HeadTailProperties
    <3> QED BY <1>5, <3>1, <3>2
  <2> QED BY <2>1, <2>2
<1>7. CASE QueryFails(r)
  <2>1. Tail(request[r].left) \in Seq(Statements)
    BY <1>2, <1>7, HeadTailProperties DEF QueryFails
  <2>2. <<>> \in Seq(Statements)  OBVIOUS
  <2> QED BY <1>5, <1>7, <2>1, <2>2 DEF QueryFails
<1> QED BY <1>3, <1>4, <1>6, <1>7 DEF RequestStep

\* What the steps of the broadcast share: the pool and the router are left alone.
LEMMA BroadcastUpdate ==
  ASSUME Parts, NEW t \in Tasks, task' \in [Tasks -> TaskRecord],
         task[t].step # "execing", task'[t].step # "execing",
         \A u \in Tasks \ {t} : task'[u] = task[u],
         UNCHANGED <<poolVars, router, client>>,
         hub' \subseteq Clients, missed' \in [Tasks -> SUBSET Clients],
         WriteHeld', HubHeld'
  PROVE Parts'
<1>1. ConnHeld'  BY DEF Parts, ConnHeld, poolVars
<1>2. OtherTypes'  BY DEF Parts, OtherTypes
<1> QED BY <1>1, <1>2 DEF Parts, poolVars

LEMMA TaskInv == ASSUME Inv, NEW t \in Tasks, TaskStep(t) PROVE Inv'
<1>0. /\ Parts /\ MissedAccounted /\ task \in [Tasks -> TaskRecord]
      /\ missed \in [Tasks -> SUBSET Clients] /\ hub \subseteq Clients
      /\ task[t].todo \subseteq Clients
  BY PartsAreTypeOK DEF Inv, Parts, OtherTypes, TaskRecord
<1>1. SUFFICES Parts' /\ MissedAccounted'  BY PartsAreTypeOKPrimed DEF Inv
<1>2. CASE Exec(t) \/ ExecEnds(t)
  <2>1. PICK step \in {"execing", "emit"} :
          /\ Goto(t, step)
          /\ conn' = IF step = "execing" THEN t ELSE None
          /\ step = "execing" => task[t].step = "exec" /\ conn = None
          /\ step = "emit" => task[t].step = "execing"
    BY <1>2 DEF Exec, ExecEnds, At
  <2>2. /\ task' \in [Tasks -> TaskRecord] /\ task'[t].step = step
        /\ \A u \in Tasks \ {t} : task'[u] = task[u]
    BY <1>0, <2>1, GotoType
  <2>3. UNCHANGED <<request, hubVars, router, missed>>
    BY <1>2 DEF Exec, ExecEnds
  <2>4. ConnHeld'  BY <1>0, <2>1, <2>2, <2>3, ServerAssumption DEF Parts, ConnHeld
  <2>5. WriteHeld' /\ HubHeld'
    BY <1>0, <2>1, <2>2, <2>3 DEF Parts, WriteHeld, HubHeld, hubVars
  <2>6. OtherTypes' /\ request' \in [Requests -> RequestRecord]
    BY <1>0, <2>3 DEF Parts, OtherTypes, hubVars
  <2>7. MissedAccounted'
    BY <1>0, <2>1, <2>2, <2>3 DEF MissedAccounted, At, hubVars
  <2> QED BY <2>2, <2>4, <2>5, <2>6, <2>7 DEF Parts
<1>3. CASE CopyClients(t)
  <2>1. /\ task' \in [Tasks -> TaskRecord]
        /\ task[t].step = "emit" /\ task'[t].step = "copied" /\ task'[t].todo = hub
        /\ \A u \in Tasks \ {t} : task'[u] = task[u]
    BY <1>0, <1>3 DEF CopyClients, At, TaskRecord
  <2>2. WriteHeld' /\ HubHeld'
    BY <1>0, <1>3, <2>1 DEF CopyClients, Parts, WriteHeld, HubHeld
  <2>3. missed' \in [Tasks -> SUBSET Clients]  BY <1>0, <1>3 DEF CopyClients
  <2>4. Parts'
    BY <1>0, <1>3, <2>1, <2>2, <2>3, BroadcastUpdate DEF CopyClients
  <2>5. MissedAccounted'
    BY <1>0, <1>3, <2>1 DEF CopyClients, MissedAccounted, At
  <2> QED BY <2>4, <2>5
<1>4. CASE Copied(t)
  <2>1. /\ task' \in [Tasks -> TaskRecord]
        /\ task[t].step = "copied" /\ task'[t].step \in {"ask", "send"}
        /\ task'[t].step = "ask" <=> task[t].todo = {}
        /\ task'[t].todo = task[t].todo
        /\ \A u \in Tasks \ {t} : task'[u] = task[u]
    BY <1>0, <1>4, NextClientType DEF Copied, At
  <2>2. WriteHeld' /\ HubHeld'
    BY <1>0, <1>4, <2>1 DEF Copied, UnlockHub, Parts, WriteHeld, HubHeld
  <2>3. Parts'
    BY <1>0, <1>4, <2>1, <2>2, BroadcastUpdate DEF Copied
  <2>4. MissedAccounted'
    BY <1>0, <1>4, <2>1 DEF Copied, MissedAccounted, At
  <2> QED BY <2>3, <2>4
<1>5. CASE LockWrite(t)
  <2>1. PICK c \in task[t].todo :
          task' = [task EXCEPT ![t].step = "write", ![t].to = c, ![t].todo = @ \ {c}]
    BY <1>5 DEF LockWrite
  <2>2. c \in Clients  BY <1>0
  <2>3. /\ task' \in [Tasks -> TaskRecord]
        /\ task[t].step = "send" /\ task'[t].step = "write"
        /\ task'[t].to = c /\ task'[t].todo = task[t].todo \ {c}
        /\ \A u \in Tasks \ {t} : task'[u] = task[u]
    BY <1>0, <1>5, <2>1, <2>2 DEF LockWrite, At, TaskRecord
  <2>4. WriteHeld' /\ HubHeld'
    BY <1>0, <1>5, <2>3, ServerAssumption DEF LockWrite, Parts, WriteHeld, HubHeld
  <2>5. Parts'
    BY <1>0, <1>5, <2>3, <2>4, BroadcastUpdate DEF LockWrite
  <2>6. MissedAccounted'
    BY <1>0, <1>5, <2>3 DEF LockWrite, MissedAccounted, At
  <2> QED BY <2>5, <2>6
<1>6. CASE WriteSucceeds(t)
  <2>1. /\ task' \in [Tasks -> TaskRecord]
        /\ task[t].step = "write" /\ task'[t].step \in {"ask", "send"}
        /\ task'[t].step = "ask" <=> task[t].todo = {}
        /\ task'[t].todo = task[t].todo
        /\ \A u \in Tasks \ {t} : task'[u] = task[u]
    BY <1>0, <1>6, NextClientType DEF WriteSucceeds, At
  <2>2. WriteHeld' /\ HubHeld'
    BY <1>0, <1>6, <2>1, ServerAssumption DEF WriteSucceeds, Parts, WriteHeld, HubHeld
  <2>3. missed' \in [Tasks -> SUBSET Clients]  BY <1>0, <1>6 DEF WriteSucceeds
  <2>4. Parts'
    BY <1>0, <1>6, <2>1, <2>2, <2>3, BroadcastUpdate DEF WriteSucceeds
  <2>5. MissedAccounted'
    BY <1>0, <1>6, <2>1 DEF WriteSucceeds, MissedAccounted, At
  <2> QED BY <2>4, <2>5
<1>7. CASE WriteFails(t)
  <2>1. /\ task' \in [Tasks -> TaskRecord]
        /\ task[t].step = "write" /\ task'[t].step = "drop"
        /\ task'[t].todo = task[t].todo /\ task'[t].to = task[t].to
        /\ \A u \in Tasks \ {t} : task'[u] = task[u]
    BY <1>0, <1>7, GotoType DEF WriteFails, At
  <2>2. WriteHeld' /\ HubHeld'
    BY <1>0, <1>7, <2>1, ServerAssumption
    DEF WriteFails, UnlockWrite, Parts, WriteHeld, HubHeld
  <2>3. Parts'
    BY <1>0, <1>7, <2>1, <2>2, BroadcastUpdate DEF WriteFails
  <2>4. MissedAccounted'
    BY <1>0, <1>7, <2>1 DEF WriteFails, MissedAccounted, At
  <2> QED BY <2>3, <2>4
<1>8. CASE DropClient(t)
  <2>1. /\ task' \in [Tasks -> TaskRecord]
        /\ task[t].step = "drop" /\ task'[t].step \in {"ask", "send"}
        /\ task'[t].step = "ask" <=> task[t].todo = {}
        /\ task'[t].todo = task[t].todo
        /\ \A u \in Tasks \ {t} : task'[u] = task[u]
    BY <1>0, <1>8, NextClientType DEF DropClient, AfterError, At
  <2>2. WriteHeld' /\ HubHeld'
    BY <1>0, <1>8, <2>1 DEF DropClient, Parts, WriteHeld, HubHeld
  <2>3. Parts'
    BY <1>0, <1>8, <2>1, <2>2, BroadcastUpdate DEF DropClient
  <2>4. MissedAccounted'
    BY <1>0, <1>8, <2>1 DEF DropClient, MissedAccounted, At
  <2> QED BY <2>3, <2>4
<1>9. CASE AskRouter(t)
  <2>1. task[t] \in TaskRecord /\ task[t].step = "ask"  BY <1>0, <1>9 DEF AskRouter, At
  <2>2. /\ task' \in [Tasks -> TaskRecord]
        /\ task'[t].step \in {"exec", "done"}
        /\ \A u \in Tasks \ {t} : task'[u] = task[u]
    <3>1. CASE task[t].round < Rounds
      <4>1. task' = [task EXCEPT ![t].step = "exec", ![t].round = task[t].round + 1]
        BY <1>9, <3>1 DEF AskRouter
      <4> QED BY <1>0, <2>1, <4>1 DEF TaskRecord
    <3>2. CASE ~(task[t].round < Rounds)
      <4>1. task' = [task EXCEPT ![t].step = "done", ![t].round = task[t].round]
        BY <1>9, <3>2 DEF AskRouter
      <4> QED BY <1>0, <2>1, <4>1 DEF TaskRecord
    <3> QED BY <3>1, <3>2
  <2>3. WriteHeld' /\ HubHeld'
    BY <1>0, <1>9, <2>1, <2>2 DEF AskRouter, Parts, WriteHeld, HubHeld, hubVars
  <2>4. missed' \in [Tasks -> SUBSET Clients]  BY <1>0, <1>9 DEF AskRouter
  <2>5. Parts'
    BY <1>0, <1>9, <2>1, <2>2, <2>3, <2>4, BroadcastUpdate DEF AskRouter, hubVars
  <2>6. MissedAccounted'
    BY <1>0, <1>9, <2>2 DEF AskRouter, MissedAccounted, At, hubVars
  <2> QED BY <2>5, <2>6
<1> QED BY <1>2, <1>3, <1>4, <1>5, <1>6, <1>7, <1>8, <1>9 DEF TaskStep

LEMMA ClientInv ==
  ASSUME Inv, NEW c \in Clients, Connect(c) \/ ClientMoves(c) \/ Forget(c) PROVE Inv'
<1>0. Parts /\ MissedAccounted  BY PartsAreTypeOK DEF Inv
<1>1. UNCHANGED <<poolVars, task, readers, writing, router, missed>>
  BY DEF Connect, ClientMoves, Forget
<1>2. hub' \subseteq Clients
  BY <1>0 DEF Connect, ClientMoves, Forget, Parts, OtherTypes
<1>3. /\ client' \in [Clients -> {"away", "reading", "stalled", "gone"}]
      /\ \A x \in Clients : client[x] = "gone" => client'[x] = "gone"
  BY <1>0 DEF Connect, ClientMoves, Forget, Parts, OtherTypes
<1>4. Parts'
  BY <1>0, <1>1, <1>2, <1>3
  DEF Parts, OtherTypes, ConnHeld, WriteHeld, HubHeld, poolVars
<1>5. MissedAccounted'
  BY <1>0, <1>1, <1>3 DEF MissedAccounted, At, Parts, OtherTypes
<1> QED BY <1>4, <1>5, PartsAreTypeOKPrimed DEF Inv

LEMMA CheckInv == ASSUME Inv, BeginCheck \/ EndCheck PROVE Inv'
<1>0. Parts /\ MissedAccounted  BY PartsAreTypeOK DEF Inv
<1>1. UNCHANGED <<poolVars, task, hubVars, missed>>  BY DEF BeginCheck, EndCheck
<1>2. MissedAccounted'  BY <1>0, <1>1 DEF MissedAccounted, At, hubVars
<1>3. router' \in [step : {"sleep", "check"}, active : Providers \cup {"none"}]
  BY <1>0 DEF BeginCheck, EndCheck, Parts, OtherTypes, Providers
<1>4. Parts'
  BY <1>0, <1>1, <1>3
  DEF Parts, OtherTypes, ConnHeld, WriteHeld, HubHeld, poolVars, hubVars
<1> QED BY <1>2, <1>4, PartsAreTypeOKPrimed DEF Inv

LEMMA NextInv == Inv /\ [Next]_vars => Inv'
<1> SUFFICES ASSUME Inv, [Next]_vars PROVE Inv' OBVIOUS
<1>1. CASE UNCHANGED vars
  BY <1>1 DEF vars, poolVars, hubVars, Inv, TypeOK, MissedAccounted, At
<1>2. CASE Next
  BY <1>2, RequestInv, TaskInv, ClientInv, CheckInv DEF Next
<1> QED BY <1>1, <1>2

-----------------------------------------------------------------------------
(* Results *)

\* Each resource is held exactly by the goroutine whose step needs it: the
\* connection of the pool, the lock of the writes and the hub's read lock are
\* all released in every way out (sqlite.go:30, handlers.go:411-447).
THEOREM TypeCorrect == Spec => []TypeOK
<1>1. Inv => TypeOK  BY DEF Inv
<1> QED BY InitInv, NextInv, <1>1, PTL DEF Spec

\* A broadcast reaches every client that stays, whoever else comes, goes or
\* fails meanwhile (handlers.go:411-447).
THEOREM BroadcastsAreComplete == Spec => []EventsReachClients
<1>1. Inv => EventsReachClients
  BY DEF Inv, MissedAccounted, EventsReachClients, At
<1> QED BY InitInv, NextInv, <1>1, PTL DEF Spec
=============================================================================
