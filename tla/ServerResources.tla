-------------------------- MODULE ServerResources --------------------------
(***************************************************************************)
(* What the goroutines of the server wait for: the one database            *)
(* connection, the AI router's lock, which the health check holds while    *)
(* it calls the providers, and the WebSocket hub, where one lock lets a    *)
(* single goroutine write to a client at a time.                           *)
(*                                                                         *)
(* A task is a pipeline or an AI worker: each round it executes a          *)
(* statement, tells every client, and asks the router for the provider.    *)
(* A request reads the database.  Go's scheduler, mutexes and pool         *)
(* (external) are the fairness of the specification.                       *)
(***************************************************************************)
EXTENDS Naturals, Sequences

CONSTANTS
  Tasks,       \* pipelines and AI workers
  Requests,    \* HTTP requests that read the database
  Clients,     \* WebSocket connections, each made at most once
  Endpoints,   \* the operations a request may ask for
  None,        \* no holder
  Rounds,      \* bound: rounds of a task
  MaxSessions  \* bound: sessions of an analysis

ASSUME ServerAssumption ==
  /\ Endpoints \subseteq {"list", "session", "sessions", "report", "dashboard"}
  /\ Rounds \in Nat /\ MaxSessions \in Nat
  /\ None \notin Tasks \cup Requests /\ Tasks \cap Requests = {}

VARIABLES
  conn,      \* who has the database connection
  request,   \* per request: its step and the statements left
  task,      \* per task: its step, round, the clients left and the one written to
  hub,       \* wsClients
  readers,   \* the tasks that hold wsMu for reading
  writing,   \* the task that holds wsWriteMu
  client,    \* per client: "away", "reading", "stalled", "gone"
  router,    \* the health check's step, and the active provider
  missed     \* history: per task, the clients its event did not reach yet

poolVars == <<conn, request>>
hubVars  == <<hub, readers, writing, client>>
vars == <<conn, request, task, hub, readers, writing, client, router, missed>>

-----------------------------------------------------------------------------
(* The connection: one for all, held from a query to the end of its rows *)

\* The statements of an operation in their order.  An error of a "must" ends
\* the request, one of a "may" does not; "sessions" is a must that is followed
\* by a query for the findings of each session it read.
Plan(endpoint) ==
  CASE endpoint = "list"      -> <<"must">>
    [] endpoint = "session"   -> <<"must", "may">>
    [] endpoint = "sessions"  -> <<"sessions">>
    [] endpoint = "report"    -> <<"must", "sessions">>
    [] endpoint = "dashboard" -> [i \in 1..9 |-> "may"]

Arrive(r) ==
  /\ request[r].step = "idle"
  /\ \E endpoint \in Endpoints :
       request' = [request EXCEPT ![r] = [step |-> "wait", left |-> Plan(endpoint)]]
  /\ UNCHANGED <<conn, task, hubVars, router, missed>>

Query(r) ==
  /\ request[r].step = "wait" /\ conn = None
  /\ conn' = r
  /\ request' = [request EXCEPT ![r].step = "read"]
  /\ UNCHANGED <<task, hubVars, router, missed>>

\* Variant: the rows of the sessions stay open while their findings are read.
CloseAtReturn(r, left) ==
  IF Head(request[r].left) = "sessions" /\ left # <<>> THEN r ELSE None

\* rows.Close, or the end of the rows, or Scan.
Close(r, left) == None

RequestAfter(left) == [step |-> IF left = <<>> THEN "answered" ELSE "wait",
                       left |-> left]

EndRead(r, left) ==
  /\ request[r].step = "read"
  /\ conn' = Close(r, left)
  /\ request' = [request EXCEPT ![r] = RequestAfter(left)]
  /\ UNCHANGED <<task, hubVars, router, missed>>

ReadRows(r) ==
  LET left == request[r].left IN
  /\ left # <<>>
  /\ IF Head(left) = "sessions"
     THEN \E n \in 0..MaxSessions : EndRead(r, [i \in 1..n |-> "may"])
     ELSE EndRead(r, Tail(left))

QueryFails(r) ==
  LET left == request[r].left IN
  /\ left # <<>>
  /\ EndRead(r, IF Head(left) = "may" THEN Tail(left) ELSE <<>>)

RequestStep(r) == Query(r) \/ ReadRows(r) \/ QueryFails(r)

-----------------------------------------------------------------------------
(* A task *)

At(t, step) == task[t].step = step
Goto(t, step) == task' = [task EXCEPT ![t].step = step]

Exec(t) ==
  /\ At(t, "exec") /\ conn = None
  /\ conn' = t
  /\ Goto(t, "execing")
  /\ UNCHANGED <<request, hubVars, router, missed>>

ExecEnds(t) ==
  /\ At(t, "execing")
  /\ conn' = None
  /\ Goto(t, "emit")
  /\ UNCHANGED <<request, hubVars, router, missed>>

\* Variant: the broadcast ends with the first client that fails.
Return(t) == [task EXCEPT ![t].step = "ask", ![t].to = None, ![t].todo = {}]

NextClient(t) ==
  IF task[t].todo = {} THEN [task EXCEPT ![t].step = "ask", ![t].to = None]
  ELSE [task EXCEPT ![t].step = "send", ![t].to = None]

\* Continue with the next client.
AfterError(t) == NextClient(t)

\* The broadcast: the clients are copied under the hub's read lock.
CopyClients(t) ==
  /\ At(t, "emit")
  /\ readers' = readers \cup {t}
  /\ task' = [task EXCEPT ![t].step = "copied", ![t].todo = hub]
  /\ missed' = [missed EXCEPT ![t] = hub]
  /\ UNCHANGED <<poolVars, hub, writing, client, router>>

\* Variant: the lock is kept.
UnlockForgotten(t) == readers

UnlockHub(t) == readers \ {t}

Copied(t) ==
  /\ At(t, "copied")
  /\ readers' = UnlockHub(t)
  /\ task' = NextClient(t)
  /\ UNCHANGED <<poolVars, hub, writing, client, router, missed>>

LockWrite(t) ==
  /\ At(t, "send") /\ writing = None
  /\ writing' = t
  /\ \E c \in task[t].todo :
       task' = [task EXCEPT ![t].step = "write", ![t].to = c, ![t].todo = @ \ {c}]
  /\ UNCHANGED <<poolVars, hub, readers, client, router, missed>>

\* A write to a client that stopped reading has no deadline: no action.
WriteSucceeds(t) ==
  /\ At(t, "write") /\ client[task[t].to] = "reading"
  /\ writing' = None
  /\ task' = NextClient(t)
  /\ missed' = [missed EXCEPT ![t] = @ \ {task[t].to}]
  /\ UNCHANGED <<poolVars, hub, readers, client, router>>

\* Variant: an error returns before the unlock.
UnlockOnSuccess == writing

UnlockWrite == None

WriteFails(t) ==
  /\ At(t, "write") /\ client[task[t].to] = "gone"
  /\ writing' = UnlockWrite
  /\ Goto(t, "drop")
  /\ UNCHANGED <<poolVars, hub, readers, client, router, missed>>

DropClient(t) ==
  /\ At(t, "drop") /\ readers = {}
  /\ hub' = hub \ {task[t].to}
  /\ task' = AfterError(t)
  /\ UNCHANGED <<poolVars, readers, writing, client, router, missed>>

\* GetActiveProvider waits while the health check has the lock.
AskRouter(t) ==
  /\ At(t, "ask") /\ router.step = "sleep"
  /\ task' = [task EXCEPT
       ![t].step = IF task[t].round < Rounds THEN "exec" ELSE "done",
       ![t].round = IF task[t].round < Rounds THEN @ + 1 ELSE @]
  /\ missed' = [missed EXCEPT ![t] = {}]
  /\ UNCHANGED <<poolVars, hubVars, router>>

TaskStep(t) ==
  \/ Exec(t) \/ ExecEnds(t) \/ CopyClients(t) \/ Copied(t) \/ LockWrite(t)
  \/ WriteSucceeds(t) \/ WriteFails(t) \/ DropClient(t) \/ AskRouter(t)

-----------------------------------------------------------------------------
(* WebSocket clients *)

Connect(c) ==
  /\ client[c] = "away" /\ readers = {}
  /\ client' = [client EXCEPT ![c] = "reading"]
  /\ hub' = hub \cup {c}
  /\ UNCHANGED <<poolVars, task, readers, writing, router, missed>>

\* The client's machine: it stops reading, reads again, or is gone.
ClientMoves(c) ==
  /\ \E move \in {<<"reading", "stalled">>, <<"stalled", "reading">>,
                  <<"reading", "gone">>, <<"stalled", "gone">>} :
       /\ client[c] = move[1]
       /\ client' = [client EXCEPT ![c] = move[2]]
  /\ UNCHANGED <<poolVars, task, hub, readers, writing, router, missed>>

\* ReadMessage returns an error; deleting a client twice changes nothing.
Forget(c) ==
  /\ c \in hub /\ client[c] = "gone" /\ readers = {}
  /\ hub' = hub \ {c}
  /\ UNCHANGED <<poolVars, task, readers, writing, client, router, missed>>

-----------------------------------------------------------------------------
(* The AI router *)

Providers == {"remote", "local"}

\* checkHealth takes the lock and keeps it while it calls the providers.
BeginCheck ==
  /\ router.step = "sleep"
  /\ router' = [router EXCEPT !.step = "check"]
  /\ UNCHANGED <<poolVars, task, hubVars, missed>>

\* What the check finds of each provider, at every check anew: it answers, or it
\* is down, not enabled or out of time.  A remote provider that hangs may leave
\* the local one no time: its own timeout, 60 s unless configured otherwise, may
\* exceed the 10 s that the two calls share.  Nobody sees what happens under the
\* lock before it is released.
EndCheck ==
  /\ router.step = "check"
  /\ \E remote, local \in BOOLEAN :
       router' = [step |-> "sleep",
                  active |-> CASE remote -> "remote" [] ~remote /\ local -> "local"
                               [] OTHER -> "none"]
  /\ UNCHANGED <<poolVars, task, hubVars, missed>>

-----------------------------------------------------------------------------
Init ==
  /\ conn = None
  /\ request = [r \in Requests |-> [step |-> "idle", left |-> <<>>]]
  /\ task = [t \in Tasks |-> [step |-> "exec", round |-> 1, todo |-> {}, to |-> None]]
  /\ hub = {} /\ readers = {} /\ writing = None
  /\ client = [c \in Clients |-> "away"]
  /\ router = [step |-> "sleep", active |-> "none"]
  /\ missed = [t \in Tasks |-> {}]

Next ==
  \/ \E r \in Requests : Arrive(r) \/ RequestStep(r)
  \/ \E t \in Tasks : TaskStep(t)
  \/ \E c \in Clients : Connect(c) \/ ClientMoves(c) \/ Forget(c)
  \/ BeginCheck \/ EndCheck

\* Goroutines run and HTTP calls of the health check return; a lock that is
\* released goes to those who wait, so that a health check every 15 s cannot
\* keep a reader out for ever, nor the other users of the pool a request.
\* Nothing is asked of clients, and no request has to arrive.
Fairness ==
  /\ \A r \in Requests : SF_vars(RequestStep(r))
  /\ \A t \in Tasks : SF_vars(TaskStep(t))
  /\ \A c \in Clients : WF_vars(Forget(c))
  /\ WF_vars(EndCheck)

Spec == Init /\ [][Next]_vars /\ Fairness

-----------------------------------------------------------------------------
(* Properties *)

\* Types, and each resource is held exactly by the goroutine whose step needs it:
\* nobody waits for one with another in hand, nobody keeps one he is done with.
TypeOK ==
  /\ request \in [Requests -> [step : {"idle", "wait", "read", "answered"},
                               left : Seq({"must", "may", "sessions"})]]
  /\ task \in [Tasks -> [step : {"exec", "execing", "emit", "copied", "send",
                                 "write", "drop", "ask", "done"},
                         round : Nat, todo : SUBSET Clients,
                         to : Clients \cup {None}]]
  /\ hub \subseteq Clients
  /\ client \in [Clients -> {"away", "reading", "stalled", "gone"}]
  /\ router \in [step : {"sleep", "check"}, active : Providers \cup {"none"}]
  /\ missed \in [Tasks -> SUBSET Clients]
  /\ conn \in Tasks \cup Requests \cup {None}
  /\ \A r \in Requests : conn = r <=> request[r].step = "read"
  /\ \A t \in Tasks : conn = t <=> At(t, "execing")
  /\ writing \in Tasks \cup {None}
  /\ \A t \in Tasks : writing = t <=> At(t, "write")
  /\ readers = {t \in Tasks : At(t, "copied")}

\* An event reaches every client that was in the hub when it was sent and is
\* still there, whatever happens to the other clients meanwhile
\* (handlers.go:411-447).
EventsReachClients ==
  \A t \in Tasks : At(t, "ask") => \A c \in missed[t] : client[c] = "gone"

\* Every request is answered: whatever becomes of tasks, clients and providers,
\* none waits for the one connection for ever (sqlite.go:30, 362).
RequestsAnswered ==
  \A r \in Requests :
    request[r].step = "wait" ~> request[r].step = "answered"

\* The tasks end unless some client stops reading for good and is not gone: a
\* provider that hangs does not hold them up for ever, nor do clients that come
\* and go (handlers.go:419-425, ai_router.go:286).
TasksEnd ==
  <>(\A t \in Tasks : At(t, "done")) \/ (\E c \in Clients : <>[](client[c] = "stalled"))

\* A client that is gone leaves the hub, even while a task is stuck in a write
\* to another one (handlers.go:402-408, 411-417).
HubForgets ==
  <>[](\A c \in Clients : client[c] = "gone" => c \notin hub)
=============================================================================
