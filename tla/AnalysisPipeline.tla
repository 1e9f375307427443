------------------------- MODULE AnalysisPipeline --------------------------
(***************************************************************************)
(* The Go backend's analysis service: the goroutine that StartAnalysis     *)
(* spawns runs ExecutePipeline step by step against the SQLite tables and  *)
(* two files in the analysis directory, the AI queue's workers write LLM   *)
(* assessments back later, and one more goroutine per finished run asks    *)
(* for the global assessment.  Every repository statement is one step:     *)
(* between two of them any other goroutine may run, a write may fail, or   *)
(* the process may die.                                                    *)
(*                                                                         *)
(* Packets, payloads and scores are abstracted.  A capture has N streams,  *)
(* numbered 1..N; the reassembler returns them in the order of a Go map    *)
(* iteration, so each run numbers its sessions by an order of its own.     *)
(* Every stream has one rule finding, whose id is made of the rule and the *)
(* session id, and one finding the Python engine adds under a fresh id.    *)
(***************************************************************************)
EXTENDS Naturals, Sequences

CONSTANTS
  Analyses,     \* identifiers CreateAnalysis may hand out
  N,            \* number of TCP streams in a capture
  MaxRuns,      \* bound: pipeline goroutines ever started
  Workers,      \* AI queue workers (AI_WORKERS)
  QueueSize,    \* capacity of the AI job channel (AI_QUEUE_SIZE)
  Retry,        \* TRUE: a client may start an analysis that was started before
  Flaky,        \* TRUE: an active LLM provider may become unreachable
  MaxFaults,    \* bound: database statements that fail
  MaxCrashes    \* bound: times the process is killed from outside

ASSUME ConstantsAssumption ==
  /\ N \in Nat
  /\ MaxRuns \in Nat
  /\ QueueSize \in Nat \ {0}
  /\ Retry \in BOOLEAN
  /\ Flaky \in BOOLEAN
  /\ MaxFaults \in Nat
  /\ MaxCrashes \in Nat

VARIABLES
  row,        \* analyses table: status, finished_at set, error set,
              \*   total_sessions, global assessment present
  sess,       \* sessions table: sess[a][k] is the stream of session k, 0: no row
  ai,         \* ai[a]: session rows that hold an LLM assessment
  findings,   \* findings table of each analysis
  dumped,     \* sessions.json: the run that wrote it, 0: no file
  report,     \* ai_report.json: whose sessions it is about and which run's
              \*   engine wrote it
  pc, of, order, next, extra,  \* a pipeline goroutine: where it is, its
              \*   analysis, its stream order, its loop index, what it merged
  gpc,        \* the global-assessment goroutine of each run
  queue,      \* the AI job channel; a job is <<run, session number>>
  wpc, wjob,  \* an AI worker: where it is and its job
  active,     \* GetActiveProvider() # nil
  announced,  \* final stages emitted as events, per analysis
  lost,       \* session rows whose write failed, per analysis
  faults, crashes,  \* failures so far
  panicked    \* a nil provider was called

dbVars   == <<row, sess, ai, findings>>
fileVars == <<dumped, report>>
runVars  == <<pc, of, order, next, extra>>
aiVars   == <<queue, wpc, wjob>>
histVars == <<announced, lost, faults, crashes, panicked>>
vars     == <<dbVars, fileVars, runVars, gpc, aiVars, active, histVars>>

-----------------------------------------------------------------------------
(* Data *)

Slots   == 1..N
Streams == 1..N
Runs    == 1..MaxRuns
NoRun   == 0
NoRow   == 0

Statuses == {"ABSENT", "QUEUED", "PARSING", "REASSEMBLING",
             "DETECTING_PROTOCOLS", "ANALYZING_TLS", "ASSESSING_RISK",
             "COMPLETED", "FAILED"}
IsFinal(s) == s \in {"COMPLETED", "FAILED"}

NoReport == [about |-> NoRun, by |-> NoRun]
NoJob    == <<0, 0>>
Jobs     == Runs \X Slots

\* A finding row: the session it names, the stream it was derived from, and
\* the run whose engine invented its id (NoRun: the id is rule-session).
FindingRows == [slot : Slots, stream : Streams, by : 0..MaxRuns]

PipelineLabels ==
  {"unused", "get", "parse", "read", "reassemble", "stats", "detect", "tls",
   "risk", "dump", "engine", "merge", "row", "findings", "enqueue",
   "aggregate", "announce", "fail", "announceFail", "done", "dead"}

\* Variant: the findings follow the capture's order instead of the run's.
FindingsByPosition(r, k) == {[slot |-> k, stream |-> k, by |-> NoRun]}

\* What the slice parsedSessions holds for session k of run r when it is
\* saved: the rule's finding, and whatever the merged report says of session k.
FindingsOf(r, k) ==
  {[slot |-> k, stream |-> order[r][k], by |-> NoRun]} \cup
  (IF extra[r] = NoReport THEN {}
   ELSE {[slot |-> k, stream |-> order[extra[r].about][k], by |-> NoRun],
         [slot |-> k, stream |-> order[extra[r].about][k], by |-> extra[r].by]})

-----------------------------------------------------------------------------
(* The repository *)

\* Variant: a status that is not final leaves finished_at alone.
StatusRowKeepsFinished(old, s, err) ==
  [old EXCEPT !.status = s, !.finished = @ \/ IsFinal(s), !.error = err]

\* UpdateAnalysisStatus(id, status, errMsg) sets three columns at once.
StatusRow(old, s, err) ==
  [old EXCEPT !.status = s, !.finished = IsFinal(s), !.error = err]

\* UpdateAnalysisAggregate sets the status and finished_at, never the error.
AggregateRow(old) == [old EXCEPT !.status = "COMPLETED", !.finished = TRUE]

\* A statement fails and changes nothing.
DBFault == faults < MaxFaults /\ faults' = faults + 1

\* One UPDATE of a row of analyses; its error is ignored by the caller.
UpdateRow(a, new) ==
  \/ row' = [row EXCEPT ![a] = new] /\ UNCHANGED faults
  \/ DBFault /\ UNCHANGED row

WriteStatus(a, s, err) == UpdateRow(a, StatusRow(row[a], s, err))

\* The INSERT OR REPLACE of SaveSession: session k of analysis a now shows
\* stream s, with or without an LLM assessment.
PutSession(a, k, s, assessed) ==
  /\ sess' = [sess EXCEPT ![a][k] = s]
  /\ ai' = [ai EXCEPT ![a] = IF assessed THEN @ \cup {k} ELSE @ \ {k}]

\* The INSERT OR REPLACE of every finding; a failing one ends the loop.
PutFindings(a, F) ==
  \/ findings' = [findings EXCEPT ![a] = @ \cup F] /\ UNCHANGED faults
  \/ /\ DBFault
     /\ \E G \in SUBSET F \ {F} : findings' = [findings EXCEPT ![a] = @ \cup G]

-----------------------------------------------------------------------------
(* Creating and starting an analysis *)

\* The copy of the capture is in place before the row is inserted; a failing
\* insert leaves no row and the request returns an error.
CreateAnalysis(a) ==
  /\ row[a].status = "ABSENT"
  /\ row' = [row EXCEPT ![a].status = "QUEUED"]
  /\ UNCHANGED <<sess, ai, findings, fileVars, runVars, gpc, aiVars, active,
                 histVars>>

\* POST /analyses/:id/start looks the row up and spawns the goroutine.  It
\* does not look at the status: only the client keeps from asking twice.
StartAnalysis(a, r) ==
  /\ row[a].status # "ABSENT"
  /\ pc[r] = "unused" /\ \A q \in Runs : q < r => pc[q] # "unused"
  /\ Retry \/ \A q \in Runs : of[q] # a
  /\ pc' = [pc EXCEPT ![r] = "get"]
  /\ of' = [of EXCEPT ![r] = a]
  /\ UNCHANGED <<dbVars, fileVars, order, next, extra, gpc, aiVars, active,
                 histVars>>

-----------------------------------------------------------------------------
(* ExecutePipeline, statement by statement *)

Goto(r, from, to) ==
  /\ pc[r] = from
  /\ pc' = [pc EXCEPT ![r] = to]

\* GetAnalysis: an error ends the run.
GetAnalysis(r) ==
  /\ \/ Goto(r, "get", "parse") /\ UNCHANGED faults
     \/ Goto(r, "get", "fail") /\ DBFault
  /\ UNCHANGED <<dbVars, fileVars, of, order, next, extra, gpc, aiVars, active,
                 announced, lost, crashes, panicked>>

\* emitEvent of a stage, then the status write.
EnterStage(r, from, to, s) ==
  /\ Goto(r, from, to)
  /\ WriteStatus(of[r], s, FALSE)
  /\ UNCHANGED <<sess, ai, findings, fileVars, of, order, next, extra, gpc,
                 aiVars, active, announced, lost, crashes, panicked>>

Parse(r)      == EnterStage(r, "parse", "read", "PARSING")
Reassemble(r) == EnterStage(r, "reassemble", "stats", "REASSEMBLING")
Detect(r)     == EnterStage(r, "detect", "tls", "DETECTING_PROTOCOLS")
InspectTLS(r) == EnterStage(r, "tls", "risk", "ANALYZING_TLS")
AssessRisk(r) == EnterStage(r, "risk", "dump", "ASSESSING_RISK")

\* Variant: a run that cannot read its capture just returns.
ReadPacketsGivesUp(r) ==
  /\ Goto(r, "read", "reassemble") \/ Goto(r, "read", "done")
  /\ UNCHANGED <<dbVars, fileVars, of, order, next, extra, gpc, aiVars, active,
                 histVars>>

\* ReadPackets: the file may be missing or no capture.
ReadPackets(r) ==
  /\ Goto(r, "read", "reassemble") \/ Goto(r, "read", "fail")
  /\ UNCHANGED <<dbVars, fileVars, of, order, next, extra, gpc, aiVars, active,
                 histVars>>

\* An order in which a map iteration can return the streams.
Orders == {f \in [Slots -> Streams] : \A i, j \in Slots : f[i] = f[j] => i = j}

\* GetStreams, then UpdateAnalysisStats.
CountStreams(r) ==
  /\ Goto(r, "stats", "detect")
  /\ \E f \in Orders : order' = [order EXCEPT ![r] = f]
  /\ UpdateRow(of[r], [row[of[r]] EXCEPT !.total = N])
  /\ UNCHANGED <<sess, ai, findings, fileVars, of, next, extra, gpc, aiVars,
                 active, announced, lost, crashes, panicked>>

\* sessions.json in the analysis directory is overwritten.
DumpSessions(r) ==
  /\ Goto(r, "dump", "engine")
  /\ dumped' = [dumped EXCEPT ![of[r]] = r]
  /\ UNCHANGED <<dbVars, report, of, order, next, extra, gpc, aiVars, active,
                 histVars>>

\* Variant: the aggregate is left out.
LoopLabelNoAggregate(k) == IF k \in Slots THEN "row" ELSE "announce"

\* The loop over parsedSessions is entered, or has nothing left to do.
LoopLabel(k) == IF k \in Slots THEN "row" ELSE "aggregate"

\* Variant: without the engine's report no session is saved.
RunEngineOrNothing(r) ==
  /\ \/ /\ Goto(r, "engine", "merge")
        /\ report' = [report EXCEPT ![of[r]] =
                        [about |-> dumped[of[r]], by |-> r]]
     \/ /\ Goto(r, "engine", "aggregate")
        /\ UNCHANGED report
  /\ next' = [next EXCEPT ![r] = 1]
  /\ UNCHANGED <<dbVars, dumped, of, order, extra, gpc, aiVars, active,
                 histVars>>

\* The Python engine reads sessions.json and writes ai_report.json, or it
\* cannot be started or exits with an error and the rules alone decide.
RunEngine(r) ==
  /\ \/ /\ Goto(r, "engine", "merge")
        /\ report' = [report EXCEPT ![of[r]] =
                        [about |-> dumped[of[r]], by |-> r]]
     \/ /\ Goto(r, "engine", LoopLabel(1))
        /\ UNCHANGED report
  /\ next' = [next EXCEPT ![r] = 1]
  /\ UNCHANGED <<dbVars, dumped, of, order, extra, gpc, aiVars, active,
                 histVars>>

\* The report is read back, its (empty) global assessment stored, and its
\* findings appended to the sessions with the same number.  A report that
\* cannot be read (os.ReadFile) or is not the JSON the pipeline knows, as while
\* another run's engine is writing it (json.Unmarshal), is passed over in
\* silence: the rules alone decide.
MergeReport(r) ==
  /\ Goto(r, "merge", LoopLabel(1))
  /\ \/ UNCHANGED <<extra, row, faults>>    \* unreadable
     \/ UNCHANGED <<extra, row, faults>>    \* malformed
     \/ /\ extra' = [extra EXCEPT ![r] = report[of[r]]]
        /\ UpdateRow(of[r], [row[of[r]] EXCEPT !.global = FALSE])
  /\ UNCHANGED <<sess, ai, findings, fileVars, of, order, next, gpc, aiVars,
                 active, announced, lost, crashes, panicked>>

\* Variant: the findings are inserted even when the row was not.
SaveRowGoesOn(r) ==
  /\ Goto(r, "row", "findings")
  /\ \/ /\ PutSession(of[r], next[r], order[r][next[r]], FALSE)
        /\ UNCHANGED <<lost, faults>>
     \/ /\ DBFault
        /\ lost' = [lost EXCEPT ![of[r]] = @ \cup {next[r]}]
        /\ UNCHANGED <<sess, ai>>
  /\ UNCHANGED <<row, findings, fileVars, of, order, next, extra, gpc, aiVars,
                 active, announced, crashes, panicked>>

\* SaveSession, the session's row.  If it fails SaveSession returns before
\* the findings, and the pipeline ignores the error.
SaveRow(r) ==
  /\ \/ /\ Goto(r, "row", "findings")
        /\ PutSession(of[r], next[r], order[r][next[r]], FALSE)
        /\ UNCHANGED <<lost, faults>>
     \/ /\ Goto(r, "row", "enqueue")
        /\ DBFault
        /\ lost' = [lost EXCEPT ![of[r]] = @ \cup {next[r]}]
        /\ UNCHANGED <<sess, ai>>
  /\ UNCHANGED <<row, findings, fileVars, of, order, next, extra, gpc, aiVars,
                 active, announced, crashes, panicked>>

\* SaveSession, the findings.
SaveFindings(r) ==
  /\ Goto(r, "findings", "enqueue")
  /\ PutFindings(of[r], FindingsOf(r, next[r]))
  /\ UNCHANGED <<row, sess, ai, fileVars, of, order, next, extra, gpc, aiVars,
                 active, announced, lost, crashes, panicked>>

\* Variant: the channel grows as needed.
EnqueueUnbounded(j) == queue' = Append(queue, j)

\* AIQueue.Enqueue: a send that never blocks; a full channel drops the job.
Enqueue(j) ==
  queue' = IF Len(queue) < QueueSize THEN Append(queue, j) ELSE queue

\* Variant: the send blocks while the channel is full.
EnqueueSessionBlocking(r) ==
  /\ Goto(r, "enqueue", LoopLabel(next[r] + 1))
  /\ next' = [next EXCEPT ![r] = @ + 1]
  /\ IF active THEN Len(queue) < QueueSize /\ Enqueue(<<r, next[r]>>)
               ELSE UNCHANGED queue
  /\ UNCHANGED <<dbVars, fileVars, of, order, extra, gpc, wpc, wjob, active,
                 histVars>>

\* Variant: the address of the loop variable is queued, which in the end
\* is the last session for every job.
EnqueueSessionLast(r) ==
  /\ Goto(r, "enqueue", LoopLabel(next[r] + 1))
  /\ next' = [next EXCEPT ![r] = @ + 1]
  /\ IF active THEN Enqueue(<<r, N>>) ELSE UNCHANGED queue
  /\ UNCHANGED <<dbVars, fileVars, of, order, extra, gpc, wpc, wjob, active,
                 histVars>>

EnqueueSession(r) ==
  /\ Goto(r, "enqueue", LoopLabel(next[r] + 1))
  /\ next' = [next EXCEPT ![r] = @ + 1]
  /\ IF active THEN Enqueue(<<r, next[r]>>) ELSE UNCHANGED queue
  /\ UNCHANGED <<dbVars, fileVars, of, order, extra, gpc, wpc, wjob, active,
                 histVars>>

\* UpdateAnalysisAggregate(COMPLETED).
Aggregate(r) ==
  /\ Goto(r, "aggregate", "announce")
  /\ UpdateRow(of[r], AggregateRow(row[of[r]]))
  /\ UNCHANGED <<sess, ai, findings, fileVars, of, order, next, extra, gpc,
                 aiVars, active, announced, lost, crashes, panicked>>

Announcing(r, s) == announced' = [announced EXCEPT ![of[r]] = @ \cup {s}]

\* The COMPLETED event, then the global-assessment goroutine is spawned.
Announce(r) ==
  /\ Goto(r, "announce", "done")
  /\ Announcing(r, "COMPLETED")
  /\ gpc' = [gpc EXCEPT ![r] = "check"]
  /\ UNCHANGED <<dbVars, fileVars, of, order, next, extra, aiVars, active, lost,
                 faults, crashes, panicked>>

\* RunAnalysisAsync on an error: the FAILED status, then the event.
Fail(r) ==
  /\ Goto(r, "fail", "announceFail")
  /\ WriteStatus(of[r], "FAILED", TRUE)
  /\ UNCHANGED <<sess, ai, findings, fileVars, of, order, next, extra, gpc,
                 aiVars, active, announced, lost, crashes, panicked>>

AnnounceFail(r) ==
  /\ Goto(r, "announceFail", "done")
  /\ Announcing(r, "FAILED")
  /\ UNCHANGED <<dbVars, fileVars, of, order, next, extra, gpc, aiVars, active,
                 lost, faults, crashes, panicked>>

RunStep(r) ==
  \/ GetAnalysis(r) \/ Parse(r) \/ ReadPackets(r) \/ Reassemble(r)
  \/ CountStreams(r) \/ Detect(r) \/ InspectTLS(r) \/ AssessRisk(r)
  \/ DumpSessions(r) \/ RunEngine(r) \/ MergeReport(r)
  \/ SaveRow(r) \/ SaveFindings(r) \/ EnqueueSession(r)
  \/ Aggregate(r) \/ Announce(r) \/ Fail(r) \/ AnnounceFail(r)

-----------------------------------------------------------------------------
(* The AI queue's workers *)

\* A worker receives the oldest job.
TakeJob(w) ==
  /\ wpc[w] = "idle" /\ queue # <<>>
  /\ wjob' = [wjob EXCEPT ![w] = Head(queue)]
  /\ wpc' = [wpc EXCEPT ![w] = "check"]
  /\ queue' = Tail(queue)
  /\ UNCHANGED <<dbVars, fileVars, runVars, gpc, active, histVars>>

WorkerGoto(w, from, to) ==
  /\ wpc[w] = from
  /\ wpc' = [wpc EXCEPT ![w] = to]
  /\ wjob' = [wjob EXCEPT ![w] = IF to = "idle" THEN NoJob ELSE @]

\* Variant: the worker waits for a provider.
CheckProviderWaits(w) ==
  /\ active
  /\ WorkerGoto(w, "check", "ask")
  /\ UNCHANGED <<dbVars, fileVars, runVars, gpc, queue, active, histVars>>

\* Without a provider the job is skipped.
CheckProvider(w) ==
  /\ WorkerGoto(w, "check", IF active THEN "ask" ELSE "idle")
  /\ UNCHANGED <<dbVars, fileVars, runVars, gpc, queue, active, histVars>>

\* Variant: a failing provider fails the analysis.
AssessmentFailsAnalysis(w) ==
  /\ WorkerGoto(w, "ask", "idle")
  /\ WriteStatus(of[wjob[w][1]], "FAILED", TRUE)
  /\ UNCHANGED <<sess, ai, findings, fileVars, runVars, gpc, queue, active,
                 announced, lost, crashes, panicked>>

\* GenerateStructuredAssessment fails or runs into its 45 s: no retry.
AssessmentFails(w) ==
  /\ WorkerGoto(w, "ask", "idle")
  /\ UNCHANGED <<dbVars, fileVars, runVars, gpc, queue, active, histVars>>

\* It succeeds: the whole session is saved again, now with the assessment.
SaveAssessment(w) ==
  LET r == wjob[w][1]
      k == wjob[w][2] IN
  /\ \/ /\ WorkerGoto(w, "ask", "findings")
        /\ PutSession(of[r], k, order[r][k], TRUE)
        /\ UNCHANGED faults
     \/ /\ WorkerGoto(w, "ask", "idle")
        /\ DBFault
        /\ UNCHANGED <<sess, ai>>
  /\ UNCHANGED <<row, findings, fileVars, runVars, gpc, queue, active,
                 announced, lost, crashes, panicked>>

SaveJobFindings(w) ==
  LET r == wjob[w][1]
      k == wjob[w][2] IN
  /\ WorkerGoto(w, "findings", "idle")
  /\ PutFindings(of[r], FindingsOf(r, k))
  /\ UNCHANGED <<row, sess, ai, fileVars, runVars, gpc, queue, active,
                 announced, lost, crashes, panicked>>

WorkerStep(w) ==
  \/ TakeJob(w) \/ CheckProvider(w) \/ AssessmentFails(w)
  \/ SaveAssessment(w) \/ SaveJobFindings(w)

-----------------------------------------------------------------------------
(* The process and the provider *)

\* Everything in memory is gone; tables and files stay.  NewService starts
\* with an empty queue, idle workers and no provider, and picks up nothing.
ProcessRestarts ==
  /\ pc' = [r \in Runs |-> IF pc[r] \in {"unused", "done"} THEN pc[r] ELSE "dead"]
  /\ gpc' = [r \in Runs |-> "idle"]
  /\ queue' = <<>>
  /\ wpc' = [w \in Workers |-> "idle"]
  /\ wjob' = [w \in Workers |-> NoJob]
  /\ active' = FALSE

\* The process is killed from outside and started again.
Crash ==
  /\ crashes < MaxCrashes
  /\ crashes' = crashes + 1
  /\ ProcessRestarts
  /\ UNCHANGED <<dbVars, fileVars, of, order, next, extra, announced, lost,
                 faults, panicked>>

\* The router's health check finds a provider, or loses the one it had.
HealthCheck ==
  /\ Flaky \/ ~active
  /\ active' = ~active
  /\ UNCHANGED <<dbVars, fileVars, runVars, gpc, aiVars, histVars>>

-----------------------------------------------------------------------------
(* The goroutine that asks for the global assessment of run r *)

GlobalGoto(r, from, to) ==
  /\ gpc[r] = from
  /\ gpc' = [gpc EXCEPT ![r] = to]

\* First call of GetActiveProvider.
GlobalCheck(r) ==
  /\ GlobalGoto(r, "check", IF active THEN "get" ELSE "idle")
  /\ UNCHANGED <<dbVars, fileVars, runVars, aiVars, active, histVars>>

\* GetAnalysis: without a row there is nothing to assess.
GlobalGet(r) ==
  /\ \/ GlobalGoto(r, "get", "call") /\ UNCHANGED faults
     \/ GlobalGoto(r, "get", "idle") /\ DBFault
  /\ UNCHANGED <<dbVars, fileVars, runVars, aiVars, active, announced, lost,
                 crashes, panicked>>

\* Second call of GetActiveProvider, whose result is used unchecked: a nil
\* provider is dereferenced outside of gin's recovery, so the process dies.
GlobalCall(r) ==
  /\ gpc[r] = "call"
  /\ IF active
     THEN /\ GlobalGoto(r, "call", "wait")
          /\ UNCHANGED <<pc, aiVars, active, panicked>>
     ELSE /\ ProcessRestarts
          /\ panicked' = TRUE
  /\ UNCHANGED <<dbVars, fileVars, of, order, next, extra, announced, lost,
                 faults, crashes>>

\* The provider answers and the text is stored, or it fails (120 s at most).
GlobalAnswer(r) ==
  /\ GlobalGoto(r, "wait", "idle")
  /\ \/ UpdateRow(of[r], [row[of[r]] EXCEPT !.global = TRUE])
     \/ UNCHANGED <<row, faults>>
  /\ UNCHANGED <<sess, ai, findings, fileVars, runVars, aiVars, active,
                 announced, lost, crashes, panicked>>

GlobalStep(r) ==
  GlobalCheck(r) \/ GlobalGet(r) \/ GlobalCall(r) \/ GlobalAnswer(r)

-----------------------------------------------------------------------------
Init ==
  /\ row = [a \in Analyses |-> [status |-> "ABSENT", finished |-> FALSE,
                                error |-> FALSE, total |-> 0, global |-> FALSE]]
  /\ sess = [a \in Analyses |-> [k \in Slots |-> NoRow]]
  /\ ai = [a \in Analyses |-> {}]
  /\ findings = [a \in Analyses |-> {}]
  /\ dumped = [a \in Analyses |-> NoRun]
  /\ report = [a \in Analyses |-> NoReport]
  /\ pc = [r \in Runs |-> "unused"]
  /\ of = [r \in Runs |-> "none"]
  /\ order = [r \in Runs |-> [k \in Slots |-> k]]
  /\ next = [r \in Runs |-> 1]
  /\ extra = [r \in Runs |-> NoReport]
  /\ gpc = [r \in Runs |-> "idle"]
  /\ queue = <<>>
  /\ wpc = [w \in Workers |-> "idle"]
  /\ wjob = [w \in Workers |-> NoJob]
  /\ active = FALSE
  /\ announced = [a \in Analyses |-> {}]
  /\ lost = [a \in Analyses |-> {}]
  /\ faults = 0
  /\ crashes = 0
  /\ panicked = FALSE

Next ==
  \/ \E a \in Analyses : CreateAnalysis(a)
  \/ \E a \in Analyses, r \in Runs : StartAnalysis(a, r)
  \/ \E r \in Runs : RunStep(r)
  \/ \E w \in Workers : WorkerStep(w)
  \/ \E r \in Runs : GlobalStep(r)
  \/ HealthCheck
  \/ Crash

\* A started pipeline keeps running: the Go scheduler runs its goroutine, and
\* its blocking calls (SQLite, tshark under a 60 s limit, the Python engine)
\* return.  No client, health check or crash has to happen.
RunFairness == \A r \in Runs : WF_vars(RunStep(r))

\* The AI workers run too, each call of the provider under its 45 s limit.
WorkerFairness == \A w \in Workers : WF_vars(WorkerStep(w))

Spec     == Init /\ [][Next]_vars
FairSpec == Spec /\ RunFairness

-----------------------------------------------------------------------------
(* Properties *)

RowType == [status : Statuses, finished : BOOLEAN, error : BOOLEAN,
            total : {0, N}, global : BOOLEAN]
Reports == [about : Runs, by : Runs] \cup {NoReport}

DBTypeOK ==
  /\ row \in [Analyses -> RowType]
  /\ sess \in [Analyses -> [Slots -> Streams \cup {NoRow}]]
  /\ ai \in [Analyses -> SUBSET Slots]
  /\ findings \in [Analyses -> SUBSET FindingRows]

FileTypeOK ==
  /\ dumped \in [Analyses -> Runs \cup {NoRun}]
  /\ report \in [Analyses -> Reports]

RunTypeOK ==
  /\ pc \in [Runs -> PipelineLabels]
  /\ of \in [Runs -> Analyses \cup {"none"}]
  /\ order \in [Runs -> [Slots -> Streams]]
  /\ next \in [Runs -> 1..(N + 1)]
  /\ extra \in [Runs -> Reports]
  /\ gpc \in [Runs -> {"idle", "check", "get", "call", "wait"}]

AITypeOK ==
  /\ queue \in Seq(Jobs) /\ Len(queue) <= QueueSize
  /\ wpc \in [Workers -> {"idle", "check", "ask", "findings"}]
  /\ wjob \in [Workers -> Jobs \cup {NoJob}]
  /\ active \in BOOLEAN

HistTypeOK ==
  /\ announced \in [Analyses -> SUBSET {"COMPLETED", "FAILED"}]
  /\ lost \in [Analyses -> SUBSET Slots]
  /\ faults \in 0..MaxFaults
  /\ crashes \in 0..MaxCrashes
  /\ panicked \in BOOLEAN

\* The columns, channels and program counters hold what the Go types allow;
\* in particular the job channel never exceeds its capacity.
TypeOK == DBTypeOK /\ FileTypeOK /\ RunTypeOK /\ AITypeOK /\ HistTypeOK

\* Session k of analysis a has a row, or the statement that should have
\* written it failed.
Settled(a, k) == sess[a][k] # NoRow \/ k \in lost[a]

\* A client that sees COMPLETED can read every session: each session number
\* has its row, or the statement that should have written it failed.  It holds
\* for overlapping runs, after a crash and with failing statements
\* (service.go:434 comes before 452, and no session row is ever deleted).
CompletedMeansSaved ==
  \A a \in Analyses : row[a].status = "COMPLETED" =>
    \A k \in Slots : Settled(a, k)

\* The FOREIGN KEY of the schema, which SQLite does not enforce here: a
\* finding's session has a row, because SaveSession writes the row first and
\* gives up on the findings when that fails (sqlite.go:269-277).
NoOrphanFindings ==
  \A a \in Analyses : \A f \in findings[a] : sess[a][f.slot] # NoRow

\* The AI queue only holds sessions the pipeline has already tried to save, so
\* an assessment never makes a session visible before the pipeline does
\* (service.go:434, 438).
JobsArePersisted ==
  \A j \in {queue[i] : i \in 1..Len(queue)} \cup {wjob[w] : w \in Workers} :
    j # NoJob => Settled(of[j[1]], j[2])

\* finished_at is set exactly while the status is final, whichever of the two
\* update statements wrote last (sqlite.go:136-145, 169).
FinishedWhenFinal ==
  \A a \in Analyses : row[a].finished = IsFinal(row[a].status)

\* When an analysis is started once: a finding stored for a session is about
\* the stream that the session shows, and the engine's findings are there at
\* most once (service.go:387-410).
FindingsMatchSession ==
  \A a \in Analyses : \A f, g \in findings[a] :
    /\ f.stream = sess[a][f.slot]
    /\ f.slot = g.slot /\ f.by # NoRun /\ g.by # NoRun => f.by = g.by

\* When an analysis is started once and no statement fails: an event of a
\* final stage is only sent when the database already says so, so that the
\* dashboard's refetch on that event is not answered with an older status
\* (service.go:131-132, 452-453).
AnnouncedIsStored ==
  \A a \in Analyses : \A s \in announced[a] : row[a].status = s

\* The second GetActiveProvider of the global-assessment goroutine never
\* returns nil.
NeverPanics == ~panicked

\* A started pipeline ends, or dies with the process: it waits for no AI
\* worker and no provider, and never for room in the AI queue.
PipelineTerminates ==
  \A r \in Runs : pc[r] = "get" ~> pc[r] \in {"done", "dead"}

\* A started analysis reaches a final status in the database unless the
\* process dies, whatever the providers and AI workers do.
AnalysisFinishes ==
  \A r \in Runs : \A a \in Analyses :
    (pc[r] = "get" /\ of[r] = a) ~> (IsFinal(row[a].status) \/ pc[r] = "dead")

\* If the AI workers run, then however often providers come and go the queue is
\* eventually empty and every worker free again: a job without a provider is
\* skipped, not kept (ai_queue.go:62-73).
QueueDrains ==
  WorkerFairness =>
    (queue # <<>> ~> queue = <<>> /\ \A w \in Workers : wpc[w] = "idle")

-----------------------------------------------------------------------------
(* The inductive strengthening of the invariants *)

\* A goroutine has an analysis; in the loop it has a current session.
RunOK(r) ==
  /\ pc[r] # "unused" \/ gpc[r] # "idle" => of[r] \in Analyses
  /\ pc[r] = "engine" => dumped[of[r]] \in Runs
  /\ pc[r] = "merge" => next[r] = 1
  /\ pc[r] \in {"row", "findings", "enqueue"} => next[r] \in Slots

\* The sessions a run has passed in its loop are settled.
SavedOK(r) ==
  /\ pc[r] \in {"row", "findings", "enqueue"} =>
       \A k \in Slots : k < next[r] => Settled(of[r], k)
  /\ pc[r] = "findings" => sess[of[r]][next[r]] # NoRow
  /\ pc[r] = "enqueue" => Settled(of[r], next[r])
  /\ pc[r] = "aggregate" => \A k \in Slots : Settled(of[r], k)

\* So is the session of every job, queued or taken.
JobOK(j) == pc[j[1]] # "unused" /\ Settled(of[j[1]], j[2])

WorkerOK(w) ==
  /\ wpc[w] # "idle" => wjob[w] \in Jobs
  /\ wjob[w] \in Jobs => JobOK(wjob[w])
  /\ wpc[w] = "findings" => sess[of[wjob[w][1]]][wjob[w][2]] # NoRow

RunInv   == \A r \in Runs : RunOK(r)
SavedInv == \A r \in Runs : SavedOK(r)
JobInv   == /\ \A i \in 1..Len(queue) : JobOK(queue[i])
            /\ \A w \in Workers : WorkerOK(w)

IInv ==
  /\ TypeOK /\ RunInv /\ SavedInv /\ JobInv
  /\ CompletedMeansSaved /\ NoOrphanFindings /\ FinishedWhenFinal

-----------------------------------------------------------------------------
(* ... and of those that hold when an analysis is started once *)

\* Nothing of analysis a is in the tables yet, or failed to get there.
Untouched(a) ==
  /\ \A k \in Slots : sess[a][k] = NoRow
  /\ ai[a] = {} /\ findings[a] = {} /\ lost[a] = {}

OwnReports(r) == {NoReport, [about |-> r, by |-> r]}

\* All there is of r's analysis comes from r, and tells of r's stream order,
\* which is drawn before anything is stored.
OwnRun(r) ==
  /\ \A q \in Runs : pc[q] # "unused" /\ of[q] = of[r] => q = r
  /\ pc[r] \in {"get", "parse", "read", "reassemble", "stats"} => Untouched(of[r])
  /\ dumped[of[r]] \in {NoRun, r}
  /\ report[of[r]] \in OwnReports(r) /\ extra[r] \in OwnReports(r)
  /\ \A k \in Slots : sess[of[r]][k] \in {NoRow, order[r][k]}
  /\ \A f \in findings[of[r]] : f.stream = order[r][f.slot] /\ f.by \in {NoRun, r}

NotStarted(a) == \A r \in Runs : pc[r] # "unused" => of[r] # a

OnceInv ==
  /\ \A r \in Runs : IF pc[r] = "unused" THEN extra[r] = NoReport ELSE OwnRun(r)
  /\ \A a \in Analyses : NotStarted(a) =>
       Untouched(a) /\ dumped[a] = NoRun /\ report[a] = NoReport

\* If no statement fails either, the label of the run tells the status, ...
StatusFits(r) ==
  LET s == row[of[r]].status IN
  /\ s # "ABSENT"
  /\ pc[r] \in {"get", "parse"} => s = "QUEUED"
  /\ pc[r] \in {"read", "reassemble", "fail"} => s = "PARSING"
  /\ pc[r] \in {"stats", "detect"} => s = "REASSEMBLING"
  /\ pc[r] = "tls" => s = "DETECTING_PROTOCOLS"
  /\ pc[r] = "risk" => s = "ANALYZING_TLS"
  /\ pc[r] \in {"dump", "engine", "merge", "row", "findings", "enqueue",
                "aggregate"} => s = "ASSESSING_RISK"
  /\ pc[r] = "announce" => s = "COMPLETED"
  /\ pc[r] = "announceFail" => s = "FAILED"

\* ... and sessions become visible in the order of the loop.
UnsavedAhead(r) ==
  /\ pc[r] \in {"detect", "tls", "risk", "dump", "engine", "merge"} =>
       \A k \in Slots : sess[of[r]][k] = NoRow
  /\ pc[r] = "row" => \A k \in Slots : k >= next[r] => sess[of[r]][k] = NoRow
  /\ pc[r] \in {"findings", "enqueue"} =>
       \A k \in Slots : k > next[r] => sess[of[r]][k] = NoRow

StoredOK(r) ==
  /\ StatusFits(r) /\ UnsavedAhead(r)
  /\ announced[of[r]] \subseteq IF pc[r] = "done" THEN {row[of[r]].status} ELSE {}

StoredInv ==
  /\ \A r \in Runs : pc[r] # "unused" => StoredOK(r)
  /\ \A a \in Analyses :
       /\ NotStarted(a) => row[a].status \in {"ABSENT", "QUEUED"} /\ announced[a] = {}
       /\ lost[a] = {}
       /\ \A k \in ai[a] : sess[a][k] # NoRow

-----------------------------------------------------------------------------
(* The abstract specification this implements while each analysis is started
   once and no statement fails *)
Lifecycle == INSTANCE AnalysisLifecycle WITH
  status   <- [a \in Analyses |-> row[a].status],
  visible  <- [a \in Analyses |-> {k \in Slots : sess[a][k] # NoRow}],
  assessed <- ai

LifecycleSpec == Lifecycle!Spec
=============================================================================
