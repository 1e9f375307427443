----------------------- MODULE AnalysisPipelineProofs -----------------------
(***************************************************************************)
(* Theorems about AnalysisPipeline for every number of analyses, streams,  *)
(* runs, workers, failures and crashes.                                    *)
(*                                                                         *)
(* First those that hold whether or not clients start an analysis again.   *)
(* They all follow from the inductive invariant IInv: a session row or a   *)
(* recorded failure to write it never goes away (Grows), so what a run has *)
(* settled in its loop stays settled while other runs, workers and         *)
(* restarts interleave.  Then those for one start per analysis.            *)
(***************************************************************************)
EXTENDS AnalysisPipeline, TLAPS

-----------------------------------------------------------------------------
(* Lemmas about the operators the steps are built from *)

\* The loop over the sessions either goes on or reaches the aggregate.
LEMMA LoopLabelCases ==
  \A k : \/ k \in Slots /\ LoopLabel(k) = "row"
         \/ k \notin Slots /\ LoopLabel(k) = "aggregate"
  BY DEF LoopLabel

\* Records of the analyses table stay records of the analyses table.
LEMMA RowOps ==
  ASSUME NEW old \in RowType
  PROVE  /\ \A s \in Statuses : \A e \in BOOLEAN : StatusRow(old, s, e) \in RowType
         /\ AggregateRow(old) \in RowType
         /\ [old EXCEPT !.total = N] \in RowType
         /\ \A b \in BOOLEAN : [old EXCEPT !.global = b] \in RowType
         /\ [old EXCEPT !.status = "QUEUED"] \in RowType
  <1>1. \A s \in Statuses : \A f, e \in BOOLEAN :
          [old EXCEPT !.status = s, !.finished = f, !.error = e] \in RowType
    BY DEF RowType
  <1>2. \A s : IsFinal(s) \in BOOLEAN
    BY DEF IsFinal
  <1>3. \A s \in Statuses : \A e \in BOOLEAN : StatusRow(old, s, e) \in RowType
    BY <1>1, <1>2, Zenon DEF StatusRow
  <1>4. "COMPLETED" \in Statuses /\ "QUEUED" \in Statuses
    BY DEF Statuses
  <1>5. AggregateRow(old) \in RowType
    BY <1>4 DEF RowType, AggregateRow
  <1>6. /\ [old EXCEPT !.total = N] \in RowType
        /\ [old EXCEPT !.status = "QUEUED"] \in RowType
    BY <1>4 DEF RowType
  <1>7. \A b \in BOOLEAN : [old EXCEPT !.global = b] \in RowType
    BY DEF RowType
  <1>8. QED
    BY <1>3, <1>5, <1>6, <1>7

\* The findings of a session are rows of the findings table, about it.
LEMMA FindingsOfType ==
  ASSUME RunTypeOK, NEW r \in Runs, NEW k \in Slots
  PROVE  /\ FindingsOf(r, k) \in SUBSET FindingRows
         /\ \A f \in FindingsOf(r, k) : f.slot = k
  <1>1. order[r][k] \in Streams
    BY DEF RunTypeOK
  <1>2. NoRun \in 0..MaxRuns /\ Runs \subseteq 0..MaxRuns
    BY ConstantsAssumption DEF NoRun, Runs
  <1>3. \A s \in Streams : \A b \in 0..MaxRuns :
          /\ [slot |-> k, stream |-> s, by |-> b] \in FindingRows
          /\ [slot |-> k, stream |-> s, by |-> b].slot = k
    BY DEF FindingRows
  <1>4. CASE extra[r] = NoReport
    BY <1>1, <1>2, <1>3, <1>4 DEF FindingsOf
  <1>5. CASE extra[r] # NoReport
    <2>1. extra[r] \in [about : Runs, by : Runs]
      BY <1>5 DEF RunTypeOK, Reports
    <2>2. extra[r].about \in Runs /\ extra[r].by \in Runs
      BY <2>1
    <2>3. order[extra[r].about][k] \in Streams
      BY <2>2 DEF RunTypeOK
    <2>4. QED
      BY <1>1, <1>2, <1>3, <1>5, <2>2, <2>3 DEF FindingsOf
  <1>6. QED
    BY <1>4, <1>5

\* A failed statement is counted.
LEMMA FaultType ==
  ASSUME TypeOK, DBFault \/ UNCHANGED faults
  PROVE  faults' \in 0..MaxFaults
  BY ConstantsAssumption DEF DBFault, TypeOK, HistTypeOK

\* An update of a row, done or failed, keeps the table and the failure count.
LEMMA UpdateRowType ==
  ASSUME DBTypeOK, HistTypeOK, NEW a \in Analyses, NEW new \in RowType,
         UpdateRow(a, new)
  PROVE  /\ row' \in [Analyses -> RowType]
         /\ faults' \in 0..MaxFaults
  BY ConstantsAssumption DEF DBTypeOK, HistTypeOK, UpdateRow, DBFault

\* A session row, or the findings of a session, are written.
LEMMA PutSessionType ==
  ASSUME DBTypeOK, NEW a \in Analyses, NEW k \in Slots, NEW s \in Streams,
         NEW b \in BOOLEAN, PutSession(a, k, s, b)
  PROVE  /\ sess' \in [Analyses -> [Slots -> Streams \cup {NoRow}]]
         /\ ai' \in [Analyses -> SUBSET Slots]
  BY DEF DBTypeOK, PutSession

LEMMA PutFindingsType ==
  ASSUME DBTypeOK, HistTypeOK, NEW a \in Analyses, NEW F \in SUBSET FindingRows,
         PutFindings(a, F)
  PROVE  /\ findings' \in [Analyses -> SUBSET FindingRows]
         /\ faults' \in 0..MaxFaults
  BY ConstantsAssumption DEF DBTypeOK, HistTypeOK, PutFindings, DBFault

\* A label of the pipeline goroutine is replaced by another.
LEMMA GotoType ==
  ASSUME RunTypeOK, NEW r \in Runs, NEW from, NEW to \in PipelineLabels,
         Goto(r, from, to)
  PROVE  pc' \in [Runs -> PipelineLabels]
  BY DEF RunTypeOK, Goto

-----------------------------------------------------------------------------
(* What the invariant says about the actors of a step *)

\* A run that was started has an analysis; in its loop, a session number.
LEMMA RunFacts ==
  ASSUME IInv, NEW r \in Runs, pc[r] # "unused" \/ gpc[r] # "idle"
  PROVE  of[r] \in Analyses
  BY DEF IInv, RunInv, RunOK

LEMMA LoopFacts ==
  ASSUME IInv, NEW r \in Runs, pc[r] \in {"row", "findings", "enqueue"}
  PROVE  /\ of[r] \in Analyses
         /\ next[r] \in Slots
         /\ order[r][next[r]] \in Streams
  <1>1. next[r] \in Slots
    BY DEF IInv, RunInv, RunOK
  <1>2. QED
    BY <1>1, RunFacts DEF IInv, TypeOK, RunTypeOK

\* A busy worker's job names a started run and one of its sessions.
LEMMA JobFacts ==
  ASSUME IInv, NEW w \in Workers, wpc[w] # "idle"
  PROVE  /\ wjob[w] \in Jobs
         /\ wjob[w][1] \in Runs
         /\ wjob[w][2] \in Slots
         /\ of[wjob[w][1]] \in Analyses
         /\ order[wjob[w][1]][wjob[w][2]] \in Streams
  <1>1. wjob[w] \in Jobs /\ JobOK(wjob[w])
    BY DEF IInv, JobInv, WorkerOK
  <1>2. wjob[w][1] \in Runs /\ wjob[w][2] \in Slots
    BY <1>1 DEF Jobs
  <1>3. of[wjob[w][1]] \in Analyses
    BY <1>1, <1>2, RunFacts DEF JobOK
  <1>4. QED
    BY <1>1, <1>2, <1>3 DEF IInv, TypeOK, RunTypeOK

-----------------------------------------------------------------------------
(* Types *)

\* A restarted process has an empty queue and idle workers.
LEMMA RestartedAI == ProcessRestarts => AITypeOK'
  <1>1. <<>> \in Seq(Jobs) /\ Len(<<>>) = 0
    OBVIOUS
  <1> SUFFICES ASSUME ProcessRestarts PROVE AITypeOK'
    OBVIOUS
  <1>2. queue' \in Seq(Jobs) /\ Len(queue') <= QueueSize
    BY <1>1, ConstantsAssumption DEF ProcessRestarts
  <1>3. /\ wpc' \in [Workers -> {"idle", "check", "ask", "findings"}]
        /\ wjob' \in [Workers -> Jobs \cup {NoJob}]
        /\ active' \in BOOLEAN
    BY DEF ProcessRestarts
  <1>4. QED
    BY <1>2, <1>3 DEF AITypeOK

\* The steps that enter a stage, or the failed status, change one label and
\* one row.
LEMMA StatusStepType ==
  ASSUME IInv, NEW r \in Runs, NEW from, NEW to \in PipelineLabels,
         from # "unused", NEW s \in Statuses, NEW e \in BOOLEAN,
         Goto(r, from, to), WriteStatus(of[r], s, e),
         UNCHANGED <<sess, ai, findings, fileVars, of, order, next, extra, gpc,
                     aiVars, active, announced, lost, crashes, panicked>>
  PROVE  TypeOK'
  <1>1. of[r] \in Analyses
    BY RunFacts DEF Goto
  <1>2. row' \in [Analyses -> RowType] /\ faults' \in 0..MaxFaults
    <2>1. row[of[r]] \in RowType
      BY <1>1 DEF IInv, TypeOK, DBTypeOK
    <2>2. StatusRow(row[of[r]], s, e) \in RowType
      BY <2>1, RowOps
    <2>3. QED
      BY <1>1, <2>2, UpdateRowType DEF WriteStatus, IInv, TypeOK
  <1>3. pc' \in [Runs -> PipelineLabels]
    BY GotoType DEF IInv, TypeOK
  <1>4. DBTypeOK' /\ RunTypeOK' /\ HistTypeOK'
    BY <1>2, <1>3 DEF IInv, TypeOK, DBTypeOK, RunTypeOK, HistTypeOK
  <1>5. FileTypeOK' /\ AITypeOK'
    BY DEF IInv, TypeOK, FileTypeOK, AITypeOK, fileVars, aiVars
  <1>6. QED
    BY <1>4, <1>5 DEF TypeOK

\* No step takes a column, channel or counter out of its type.
LEMMA TypeStep == IInv /\ [Next]_vars => TypeOK'
  <1> SUFFICES ASSUME IInv, [Next]_vars PROVE TypeOK'
    OBVIOUS
  <1>0. TypeOK
    BY DEF IInv
  <1>1. ASSUME NEW a \in Analyses, CreateAnalysis(a) PROVE TypeOK'
    <2>1. DBTypeOK'
      BY <1>0, <1>1, RowOps DEF TypeOK, DBTypeOK, HistTypeOK, CreateAnalysis
    <2>2. FileTypeOK' /\ RunTypeOK' /\ AITypeOK' /\ HistTypeOK'
      BY <1>0, <1>1 DEF TypeOK, FileTypeOK, RunTypeOK, AITypeOK, HistTypeOK,
         CreateAnalysis, fileVars, runVars, aiVars, histVars
    <2>3. QED
      BY <2>1, <2>2 DEF TypeOK
  <1>2. ASSUME NEW a \in Analyses, NEW r \in Runs, StartAnalysis(a, r) PROVE TypeOK'
    <2>1. RunTypeOK'
      BY <1>0, <1>2 DEF TypeOK, RunTypeOK, StartAnalysis, PipelineLabels
    <2>2. DBTypeOK' /\ FileTypeOK' /\ AITypeOK' /\ HistTypeOK'
      BY <1>0, <1>2 DEF TypeOK, DBTypeOK, FileTypeOK, AITypeOK, HistTypeOK,
         StartAnalysis, dbVars, fileVars, aiVars, histVars
    <2>3. QED
      BY <2>1, <2>2 DEF TypeOK
  <1>3. ASSUME NEW r \in Runs, GetAnalysis(r) PROVE TypeOK'
    <2>1. RunTypeOK'
      BY <1>0, <1>3 DEF TypeOK, RunTypeOK, GetAnalysis, Goto, PipelineLabels
    <2>2. HistTypeOK'
      BY <1>0, <1>3, ConstantsAssumption DEF TypeOK, HistTypeOK, GetAnalysis,
         DBFault
    <2>3. DBTypeOK' /\ FileTypeOK' /\ AITypeOK'
      BY <1>0, <1>3 DEF TypeOK, DBTypeOK, FileTypeOK, AITypeOK, GetAnalysis,
         dbVars, fileVars, aiVars
    <2>4. QED
      BY <2>1, <2>2, <2>3 DEF TypeOK
  <1>4. ASSUME NEW r \in Runs, ReadPackets(r) PROVE TypeOK'
    <2>1. RunTypeOK'
      BY <1>0, <1>4 DEF TypeOK, RunTypeOK, ReadPackets, Goto, PipelineLabels
    <2>2. DBTypeOK' /\ FileTypeOK' /\ AITypeOK' /\ HistTypeOK'
      BY <1>0, <1>4 DEF TypeOK, DBTypeOK, FileTypeOK, AITypeOK, HistTypeOK,
         ReadPackets, dbVars, fileVars, aiVars, histVars
    <2>3. QED
      BY <2>1, <2>2 DEF TypeOK
  <1>5. ASSUME NEW r \in Runs, CountStreams(r) PROVE TypeOK'
    <2>1. DBTypeOK'
      BY <1>0, <1>5, RunFacts, RowOps, UpdateRowType DEF TypeOK, DBTypeOK,
         HistTypeOK, CountStreams, Goto
    <2>2. RunTypeOK'
      BY <1>0, <1>5 DEF TypeOK, RunTypeOK, CountStreams, Goto, PipelineLabels,
         Orders
    <2>3. HistTypeOK'
      BY <1>0, <1>5, ConstantsAssumption DEF TypeOK, HistTypeOK, CountStreams,
         UpdateRow, DBFault
    <2>4. FileTypeOK' /\ AITypeOK'
      BY <1>0, <1>5 DEF TypeOK, FileTypeOK, AITypeOK, CountStreams, fileVars,
         aiVars
    <2>5. QED
      BY <2>1, <2>2, <2>3, <2>4 DEF TypeOK
  <1>6. ASSUME NEW r \in Runs, DumpSessions(r) PROVE TypeOK'
    <2>1. FileTypeOK'
      BY <1>0, <1>6 DEF TypeOK, FileTypeOK, DumpSessions
    <2>2. RunTypeOK'
      BY <1>0, <1>6 DEF TypeOK, RunTypeOK, DumpSessions, Goto, PipelineLabels
    <2>3. DBTypeOK' /\ AITypeOK' /\ HistTypeOK'
      BY <1>0, <1>6 DEF TypeOK, DBTypeOK, AITypeOK, HistTypeOK, DumpSessions,
         dbVars, aiVars, histVars
    <2>4. QED
      BY <2>1, <2>2, <2>3 DEF TypeOK
  <1>7. ASSUME NEW r \in Runs, RunEngine(r) PROVE TypeOK'
    <2>1. FileTypeOK'
      BY <1>0, <1>7 DEF TypeOK, FileTypeOK, RunEngine, Goto, Reports, IInv,
         RunInv, RunOK
    <2>2. RunTypeOK'
      BY <1>0, <1>7, ConstantsAssumption, LoopLabelCases DEF TypeOK,
         RunTypeOK, RunEngine, Goto, PipelineLabels
    <2>3. DBTypeOK' /\ AITypeOK' /\ HistTypeOK'
      BY <1>0, <1>7 DEF TypeOK, DBTypeOK, AITypeOK, HistTypeOK, RunEngine,
         dbVars, aiVars, histVars
    <2>4. QED
      BY <2>1, <2>2, <2>3 DEF TypeOK
  <1>8. ASSUME NEW r \in Runs, MergeReport(r) PROVE TypeOK'
    <2>1. DBTypeOK'
      BY <1>0, <1>8, RunFacts, RowOps, UpdateRowType DEF TypeOK, DBTypeOK,
         HistTypeOK, MergeReport, Goto
    <2>2. RunTypeOK'
      BY <1>0, <1>8, RunFacts, LoopLabelCases DEF TypeOK, RunTypeOK,
         MergeReport, Goto, PipelineLabels, FileTypeOK
    <2>3. HistTypeOK'
      BY <1>0, <1>8, ConstantsAssumption DEF TypeOK, HistTypeOK, MergeReport,
         UpdateRow, DBFault
    <2>4. FileTypeOK' /\ AITypeOK'
      BY <1>0, <1>8 DEF TypeOK, FileTypeOK, AITypeOK, MergeReport, fileVars,
         aiVars
    <2>5. QED
      BY <2>1, <2>2, <2>3, <2>4 DEF TypeOK
  <1>9. ASSUME NEW r \in Runs, SaveRow(r) PROVE TypeOK'
    <2>1. of[r] \in Analyses /\ next[r] \in Slots /\ order[r][next[r]] \in Streams
      BY <1>0, <1>9, LoopFacts DEF SaveRow, Goto
    <2>2. DBTypeOK'
      BY <1>0, <1>9, <2>1, PutSessionType DEF TypeOK, DBTypeOK, SaveRow
    <2>3. RunTypeOK'
      BY <1>0, <1>9 DEF TypeOK, RunTypeOK, SaveRow, Goto, PipelineLabels
    <2>4. lost' \in [Analyses -> SUBSET Slots]
      <3>1. \/ UNCHANGED lost
            \/ lost' = [lost EXCEPT ![of[r]] = @ \cup {next[r]}]
        BY <1>9 DEF SaveRow
      <3>2. lost \in [Analyses -> SUBSET Slots]
        BY <1>0 DEF TypeOK, HistTypeOK
      <3>3. QED
        BY <2>1, <3>1, <3>2
    <2>5. faults' \in 0..MaxFaults
      BY <1>0, <1>9, FaultType DEF SaveRow
    <2>6. FileTypeOK' /\ AITypeOK' /\ HistTypeOK'
      BY <1>0, <1>9, <2>4, <2>5 DEF TypeOK, FileTypeOK, AITypeOK, HistTypeOK, SaveRow,
                        fileVars, aiVars
    <2>7. QED
      BY <2>2, <2>3, <2>6 DEF TypeOK
  <1>10. ASSUME NEW r \in Runs, SaveFindings(r) PROVE TypeOK'
    <2>1. DBTypeOK'
      BY <1>0, <1>10, LoopFacts, FindingsOfType, PutFindingsType DEF TypeOK,
         DBTypeOK, SaveFindings, Goto, HistTypeOK, RunTypeOK
    <2>2. RunTypeOK'
      BY <1>0, <1>10 DEF TypeOK, RunTypeOK, SaveFindings, Goto, PipelineLabels
    <2>3. HistTypeOK'
      BY <1>0, <1>10, ConstantsAssumption DEF TypeOK, HistTypeOK,
         SaveFindings, PutFindings, DBFault
    <2>4. FileTypeOK' /\ AITypeOK'
      BY <1>0, <1>10 DEF TypeOK, FileTypeOK, AITypeOK, SaveFindings, fileVars,
         aiVars
    <2>5. QED
      BY <2>1, <2>2, <2>3, <2>4 DEF TypeOK
  <1>11. ASSUME NEW r \in Runs, EnqueueSession(r) PROVE TypeOK'
    <2>1. <<r, next[r]>> \in Jobs /\ next[r] + 1 \in 1..(N + 1)
      BY <1>0, <1>11, LoopFacts, ConstantsAssumption
         DEF EnqueueSession, Goto, Jobs, Slots
    <2>2. queue' \in Seq(Jobs) /\ Len(queue') <= QueueSize
      <3>1. CASE active /\ Len(queue) < QueueSize
        <4>1. queue' = Append(queue, <<r, next[r]>>)
          BY <1>11, <3>1 DEF EnqueueSession, Enqueue
        <4>2. queue \in Seq(Jobs)
          BY <1>0 DEF TypeOK, AITypeOK
        <4>3. queue' \in Seq(Jobs) /\ Len(queue') = Len(queue) + 1
          BY <2>1, <4>1, <4>2
        <4>4. QED
          BY <3>1, <4>2, <4>3, ConstantsAssumption
      <3>2. CASE ~(active /\ Len(queue) < QueueSize)
        BY <1>0, <1>11, <3>2 DEF EnqueueSession, Enqueue, TypeOK, AITypeOK
      <3>3. QED
        BY <3>1, <3>2
    <2>3. AITypeOK'
      BY <1>0, <1>11, <2>2 DEF TypeOK, AITypeOK, EnqueueSession
    <2>4. RunTypeOK'
      BY <1>0, <1>11, <2>1, LoopLabelCases
         DEF TypeOK, RunTypeOK, EnqueueSession, Goto, PipelineLabels
    <2>5. DBTypeOK' /\ FileTypeOK' /\ HistTypeOK'
      BY <1>0, <1>11 DEF TypeOK, DBTypeOK, FileTypeOK, HistTypeOK, EnqueueSession,
                  dbVars, fileVars, histVars
    <2>6. QED
      BY <2>3, <2>4, <2>5 DEF TypeOK
  <1>12. ASSUME NEW r \in Runs, Aggregate(r) PROVE TypeOK'
    <2>1. DBTypeOK'
      BY <1>0, <1>12, RunFacts, RowOps, UpdateRowType DEF TypeOK, DBTypeOK,
         HistTypeOK, Aggregate, Goto
    <2>2. RunTypeOK'
      BY <1>0, <1>12 DEF TypeOK, RunTypeOK, Aggregate, Goto, PipelineLabels
    <2>3. HistTypeOK'
      BY <1>0, <1>12, ConstantsAssumption DEF TypeOK, HistTypeOK, Aggregate,
         UpdateRow, DBFault
    <2>4. FileTypeOK' /\ AITypeOK'
      BY <1>0, <1>12 DEF TypeOK, FileTypeOK, AITypeOK, Aggregate, fileVars,
         aiVars
    <2>5. QED
      BY <2>1, <2>2, <2>3, <2>4 DEF TypeOK
  <1>13. ASSUME NEW r \in Runs, Announce(r) PROVE TypeOK'
    <2>1. RunTypeOK'
      BY <1>0, <1>13 DEF TypeOK, RunTypeOK, Announce, Goto, PipelineLabels
    <2>2. HistTypeOK'
      BY <1>0, <1>13 DEF TypeOK, HistTypeOK, Announce, Announcing
    <2>3. DBTypeOK' /\ FileTypeOK' /\ AITypeOK'
      BY <1>0, <1>13 DEF TypeOK, DBTypeOK, FileTypeOK, AITypeOK, Announce,
         dbVars, fileVars, aiVars
    <2>4. QED
      BY <2>1, <2>2, <2>3 DEF TypeOK
  <1>14. ASSUME NEW r \in Runs, AnnounceFail(r) PROVE TypeOK'
    <2>1. RunTypeOK'
      BY <1>0, <1>14 DEF TypeOK, RunTypeOK, AnnounceFail, Goto, PipelineLabels
    <2>2. HistTypeOK'
      BY <1>0, <1>14 DEF TypeOK, HistTypeOK, AnnounceFail, Announcing
    <2>3. DBTypeOK' /\ FileTypeOK' /\ AITypeOK'
      BY <1>0, <1>14 DEF TypeOK, DBTypeOK, FileTypeOK, AITypeOK, AnnounceFail,
         dbVars, fileVars, aiVars
    <2>4. QED
      BY <2>1, <2>2, <2>3 DEF TypeOK
  <1>15. ASSUME NEW w \in Workers, TakeJob(w) PROVE TypeOK'
    <2>1. AITypeOK'
      BY <1>0, <1>15, ConstantsAssumption DEF TypeOK, AITypeOK, TakeJob
    <2>2. DBTypeOK' /\ FileTypeOK' /\ RunTypeOK' /\ HistTypeOK'
      BY <1>0, <1>15 DEF TypeOK, DBTypeOK, FileTypeOK, RunTypeOK, HistTypeOK,
         TakeJob, dbVars, fileVars, runVars, histVars
    <2>3. QED
      BY <2>1, <2>2 DEF TypeOK
  <1>16. ASSUME NEW w \in Workers, CheckProvider(w) PROVE TypeOK'
    <2>1. AITypeOK'
      BY <1>0, <1>16 DEF TypeOK, AITypeOK, CheckProvider, WorkerGoto
    <2>2. DBTypeOK' /\ FileTypeOK' /\ RunTypeOK' /\ HistTypeOK'
      BY <1>0, <1>16 DEF TypeOK, DBTypeOK, FileTypeOK, RunTypeOK, HistTypeOK,
         CheckProvider, dbVars, fileVars, runVars, histVars
    <2>3. QED
      BY <2>1, <2>2 DEF TypeOK
  <1>17. ASSUME NEW w \in Workers, AssessmentFails(w) PROVE TypeOK'
    <2>1. AITypeOK'
      BY <1>0, <1>17 DEF TypeOK, AITypeOK, AssessmentFails, WorkerGoto
    <2>2. DBTypeOK' /\ FileTypeOK' /\ RunTypeOK' /\ HistTypeOK'
      BY <1>0, <1>17 DEF TypeOK, DBTypeOK, FileTypeOK, RunTypeOK, HistTypeOK,
         AssessmentFails, dbVars, fileVars, runVars, histVars
    <2>3. QED
      BY <2>1, <2>2 DEF TypeOK
  <1>18. ASSUME NEW w \in Workers, SaveAssessment(w) PROVE TypeOK'
    <2> DEFINE r == wjob[w][1]
               k == wjob[w][2]
    <2>1. of[r] \in Analyses /\ k \in Slots /\ order[r][k] \in Streams
      BY <1>0, <1>18, JobFacts DEF SaveAssessment, WorkerGoto
    <2>2. \/ PutSession(of[r], k, order[r][k], TRUE) /\ UNCHANGED faults
          \/ DBFault /\ UNCHANGED <<sess, ai>>
      BY <1>0, <1>18 DEF SaveAssessment
    <2>3. UNCHANGED <<row, findings, fileVars, runVars, gpc, queue, active,
                      announced, lost, crashes, panicked>>
      BY <1>0, <1>18 DEF SaveAssessment
    <2> HIDE DEF r, k
    <2>4. DBTypeOK'
      BY <1>0, <2>1, <2>2, <2>3, PutSessionType DEF TypeOK, DBTypeOK
    <2>5. faults' \in 0..MaxFaults
      BY <1>0, <2>2, FaultType
    <2>6. AITypeOK'
      BY <1>0, <1>18 DEF TypeOK, AITypeOK, SaveAssessment, WorkerGoto
    <2>7. FileTypeOK' /\ RunTypeOK' /\ HistTypeOK'
      BY <1>0, <2>3, <2>5 DEF TypeOK, FileTypeOK, RunTypeOK, HistTypeOK, fileVars,
                        runVars
    <2>8. QED
      BY <2>4, <2>6, <2>7 DEF TypeOK
  <1>19. ASSUME NEW w \in Workers, SaveJobFindings(w) PROVE TypeOK'
    <2>1. DBTypeOK'
      BY <1>0, <1>19, JobFacts, FindingsOfType, PutFindingsType DEF TypeOK,
         DBTypeOK, SaveJobFindings, WorkerGoto, HistTypeOK, RunTypeOK
    <2>2. AITypeOK'
      BY <1>0, <1>19 DEF TypeOK, AITypeOK, SaveJobFindings, WorkerGoto
    <2>3. HistTypeOK'
      BY <1>0, <1>19, ConstantsAssumption DEF TypeOK, HistTypeOK,
         SaveJobFindings, PutFindings, DBFault
    <2>4. FileTypeOK' /\ RunTypeOK'
      BY <1>0, <1>19 DEF TypeOK, FileTypeOK, RunTypeOK, SaveJobFindings,
         fileVars, runVars
    <2>5. QED
      BY <2>1, <2>2, <2>3, <2>4 DEF TypeOK
  <1>20. ASSUME NEW r \in Runs, GlobalCheck(r) PROVE TypeOK'
    <2>1. RunTypeOK'
      BY <1>0, <1>20 DEF TypeOK, RunTypeOK, GlobalCheck, GlobalGoto, runVars
    <2>2. DBTypeOK' /\ FileTypeOK' /\ AITypeOK' /\ HistTypeOK'
      BY <1>0, <1>20 DEF TypeOK, DBTypeOK, FileTypeOK, AITypeOK, HistTypeOK,
         GlobalCheck, dbVars, fileVars, aiVars, histVars
    <2>3. QED
      BY <2>1, <2>2 DEF TypeOK
  <1>21. ASSUME NEW r \in Runs, GlobalGet(r) PROVE TypeOK'
    <2>1. RunTypeOK'
      BY <1>0, <1>21 DEF TypeOK, RunTypeOK, GlobalGet, GlobalGoto, runVars
    <2>2. HistTypeOK'
      BY <1>0, <1>21, ConstantsAssumption DEF TypeOK, HistTypeOK, GlobalGet,
         DBFault
    <2>3. DBTypeOK' /\ FileTypeOK' /\ AITypeOK'
      BY <1>0, <1>21 DEF TypeOK, DBTypeOK, FileTypeOK, AITypeOK, GlobalGet,
         dbVars, fileVars, aiVars
    <2>4. QED
      BY <2>1, <2>2, <2>3 DEF TypeOK
  <1>22. ASSUME NEW r \in Runs, GlobalCall(r) PROVE TypeOK'
    <2>1. RunTypeOK'
      BY <1>0, <1>22 DEF TypeOK, RunTypeOK, GlobalCall, GlobalGoto,
         ProcessRestarts, PipelineLabels
    <2>2. AITypeOK'
      BY <1>0, <1>22, RestartedAI DEF TypeOK, AITypeOK, GlobalCall,
         GlobalGoto, aiVars
    <2>3. HistTypeOK'
      BY <1>0, <1>22 DEF TypeOK, HistTypeOK, GlobalCall
    <2>4. DBTypeOK' /\ FileTypeOK'
      BY <1>0, <1>22 DEF TypeOK, DBTypeOK, FileTypeOK, GlobalCall, dbVars,
         fileVars
    <2>5. QED
      BY <2>1, <2>2, <2>3, <2>4 DEF TypeOK
  <1>23. ASSUME NEW r \in Runs, GlobalAnswer(r) PROVE TypeOK'
    <2>1. DBTypeOK'
      BY <1>0, <1>23, RunFacts, RowOps, UpdateRowType DEF TypeOK, DBTypeOK,
         HistTypeOK, GlobalAnswer, GlobalGoto
    <2>2. RunTypeOK'
      BY <1>0, <1>23 DEF TypeOK, RunTypeOK, GlobalAnswer, GlobalGoto, runVars
    <2>3. HistTypeOK'
      BY <1>0, <1>23, ConstantsAssumption DEF TypeOK, HistTypeOK,
         GlobalAnswer, UpdateRow, DBFault
    <2>4. FileTypeOK' /\ AITypeOK'
      BY <1>0, <1>23 DEF TypeOK, FileTypeOK, AITypeOK, GlobalAnswer, fileVars,
         aiVars
    <2>5. QED
      BY <2>1, <2>2, <2>3, <2>4 DEF TypeOK
  <1>24. ASSUME HealthCheck PROVE TypeOK'
    <2>1. AITypeOK'
      BY <1>0, <1>24 DEF TypeOK, AITypeOK, HealthCheck, aiVars
    <2>2. DBTypeOK' /\ FileTypeOK' /\ RunTypeOK' /\ HistTypeOK'
      BY <1>0, <1>24 DEF TypeOK, DBTypeOK, FileTypeOK, RunTypeOK, HistTypeOK,
         HealthCheck, dbVars, fileVars, runVars, histVars
    <2>3. QED
      BY <2>1, <2>2 DEF TypeOK
  <1>25. ASSUME Crash PROVE TypeOK'
    <2>1. RunTypeOK'
      BY <1>0, <1>25 DEF TypeOK, RunTypeOK, Crash, ProcessRestarts,
         PipelineLabels
    <2>2. AITypeOK'
      BY <1>0, <1>25, RestartedAI DEF TypeOK, AITypeOK, Crash
    <2>3. HistTypeOK'
      BY <1>0, <1>25, ConstantsAssumption DEF TypeOK, HistTypeOK, Crash
    <2>4. DBTypeOK' /\ FileTypeOK'
      BY <1>0, <1>25 DEF TypeOK, DBTypeOK, FileTypeOK, Crash, dbVars, fileVars
    <2>5. QED
      BY <2>1, <2>2, <2>3, <2>4 DEF TypeOK
  <1>26. ASSUME NEW r \in Runs,
               Parse(r) \/ Reassemble(r) \/ Detect(r) \/ InspectTLS(r) \/ AssessRisk(r)
        PROVE TypeOK'
    BY <1>26, StatusStepType DEF Parse, Reassemble, Detect, InspectTLS,
       AssessRisk, EnterStage, PipelineLabels, Statuses
  <1>27. ASSUME NEW r \in Runs, Fail(r) PROVE TypeOK'
    BY <1>27, StatusStepType DEF Fail, PipelineLabels, Statuses
  <1>28. CASE UNCHANGED vars
    BY <1>0, <1>28 DEF vars, dbVars, fileVars, runVars, aiVars, histVars, TypeOK,
       DBTypeOK, FileTypeOK, RunTypeOK, AITypeOK, HistTypeOK
  <1>29. QED
    BY <1>1, <1>2, <1>3, <1>4, <1>5, <1>6, <1>7, <1>8, <1>9, <1>10, <1>11,
       <1>12, <1>13, <1>14, <1>15, <1>16, <1>17, <1>18, <1>19, <1>20, <1>21,
       <1>22, <1>23, <1>24, <1>25, <1>26, <1>27, <1>28 DEF Next, RunStep,
       WorkerStep, GlobalStep

-----------------------------------------------------------------------------
(* What never goes back *)

\* A session row stays, a failure to write one stays on record, and a started
\* run keeps its analysis.
Grows ==
  /\ \A a \in Analyses : \A k \in Slots : sess[a][k] # NoRow => sess'[a][k] # NoRow
  /\ \A a \in Analyses : lost[a] \subseteq lost'[a]
  /\ \A q \in Runs : pc[q] # "unused" => pc'[q] # "unused" /\ of'[q] = of[q]

\* Writing a session row takes no other row away.
LEMMA PutSessionGrows ==
  ASSUME DBTypeOK, NEW a \in Analyses, NEW k \in Slots, NEW s \in Streams,
         NEW b \in BOOLEAN, PutSession(a, k, s, b)
  PROVE  /\ \A c \in Analyses : \A i \in Slots : sess[c][i] # NoRow => sess'[c][i] # NoRow
         /\ sess'[a][k] # NoRow
  BY ConstantsAssumption DEF DBTypeOK, PutSession, Streams, NoRow

\* A step of run r leaves the labels, indices and analyses of all other runs
\* alone, and keeps r's analysis.
LEMMA RunStepFrame ==
  ASSUME IInv, NEW r \in Runs, RunStep(r)
  PROVE  /\ of' = of
         /\ pc[r] # "unused" /\ pc'[r] # "unused"
         /\ \A q \in Runs \ {r} : pc'[q] = pc[q] /\ next'[q] = next[q] /\ gpc'[q] = gpc[q]
  <1>1. RunTypeOK
    BY DEF IInv, TypeOK
  <1>2. CASE \/ GetAnalysis(r) \/ Parse(r) \/ ReadPackets(r) \/ Reassemble(r)
             \/ CountStreams(r) \/ Detect(r) \/ InspectTLS(r) \/ AssessRisk(r)
             \/ DumpSessions(r) \/ Aggregate(r) \/ Announce(r) \/ Fail(r)
             \/ AnnounceFail(r)
    BY <1>1, <1>2 DEF RunTypeOK, Goto, EnterStage, GetAnalysis, Parse, ReadPackets,
       Reassemble, CountStreams, Detect, InspectTLS, AssessRisk, DumpSessions,
       Aggregate, Announce, Fail, AnnounceFail
  <1>3. CASE \/ RunEngine(r) \/ MergeReport(r) \/ SaveRow(r) \/ SaveFindings(r)
             \/ EnqueueSession(r)
    BY <1>1, <1>3, LoopLabelCases DEF RunTypeOK, Goto, RunEngine, MergeReport,
       SaveRow, SaveFindings, EnqueueSession
  <1>4. QED
    BY <1>2, <1>3 DEF RunStep

\* A step of an AI worker touches no pipeline goroutine.
LEMMA WorkerStepFrame ==
  ASSUME NEW w \in Workers, WorkerStep(w)
  PROVE  UNCHANGED <<row, fileVars, runVars, gpc, active, lost>>
  BY DEF WorkerStep, TakeJob, CheckProvider, AssessmentFails, SaveAssessment,
     SaveJobFindings, histVars, dbVars

\* A step of a global-assessment goroutine touches no session, and the
\* pipeline goroutines only when it takes the process down.
LEMMA GlobalStepFrame ==
  ASSUME IInv, NEW r \in Runs, GlobalStep(r)
  PROVE  /\ UNCHANGED <<sess, ai, findings, fileVars, of, order, next, extra, lost>>
         /\ \/ UNCHANGED <<pc, aiVars>> /\ gpc[r] # "idle"
               /\ \A q \in Runs \ {r} : gpc'[q] = gpc[q]
            \/ UNCHANGED row /\ ProcessRestarts
  <1>1. RunTypeOK
    BY DEF IInv, TypeOK
  <1>2. QED
    BY <1>1 DEF RunTypeOK, GlobalStep, GlobalCheck, GlobalGet, GlobalCall,
       GlobalAnswer, GlobalGoto, dbVars, runVars, histVars

LEMMA GrowsStep == IInv /\ [Next]_vars => Grows
  <1> SUFFICES ASSUME IInv, [Next]_vars PROVE Grows
    OBVIOUS
  <1>0. DBTypeOK /\ RunTypeOK /\ HistTypeOK
    BY DEF IInv, TypeOK
  <1>1. ASSUME NEW a \in Analyses, CreateAnalysis(a) PROVE Grows
    BY <1>1 DEF CreateAnalysis, Grows, runVars, histVars
  <1>2. ASSUME NEW a \in Analyses, NEW r \in Runs, StartAnalysis(a, r) PROVE Grows
    BY <1>0, <1>2 DEF StartAnalysis, Grows, dbVars, histVars, RunTypeOK
  <1>3. ASSUME NEW r \in Runs, RunStep(r) PROVE Grows
    <2>1. \A q \in Runs : pc[q] # "unused" => pc'[q] # "unused" /\ of'[q] = of[q]
      BY <1>3, RunStepFrame
    <2>2. CASE SaveRow(r)
      <3>1. of[r] \in Analyses /\ next[r] \in Slots /\ order[r][next[r]] \in Streams
        BY <2>2, LoopFacts DEF SaveRow, Goto
      <3>2. \A a \in Analyses : \A k \in Slots : sess[a][k] # NoRow => sess'[a][k] # NoRow
        BY <1>0, <2>2, <3>1, PutSessionGrows DEF SaveRow
      <3>3. \A a \in Analyses : lost[a] \subseteq lost'[a]
        <4>1. \/ UNCHANGED lost
              \/ lost' = [lost EXCEPT ![of[r]] = @ \cup {next[r]}]
          BY <2>2 DEF SaveRow
        <4>2. lost \in [Analyses -> SUBSET Slots]
          BY <1>0 DEF HistTypeOK
        <4>3. QED
          BY <3>1, <4>1, <4>2
      <3>4. QED
        BY <2>1, <3>2, <3>3 DEF Grows
    <2>3. CASE ~SaveRow(r)
      <3>1. UNCHANGED <<sess, lost>>
        BY <1>3, <2>3 DEF RunStep, EnterStage, GetAnalysis, Parse, ReadPackets,
           Reassemble, CountStreams, Detect, InspectTLS, AssessRisk, DumpSessions,
           RunEngine, MergeReport, SaveFindings, EnqueueSession, Aggregate,
           Announce, Fail, AnnounceFail, dbVars, histVars
      <3>2. QED
        BY <2>1, <3>1 DEF Grows
    <2>4. QED
      BY <2>2, <2>3
  <1>4. ASSUME NEW w \in Workers, WorkerStep(w) PROVE Grows
    <2>1. UNCHANGED <<pc, of, lost>>
      BY <1>4, WorkerStepFrame DEF runVars
    <2>2. \A a \in Analyses : \A k \in Slots : sess[a][k] # NoRow => sess'[a][k] # NoRow
      <3>1. CASE SaveAssessment(w)
        <4> DEFINE r == wjob[w][1]
                   k == wjob[w][2]
        <4>1. of[r] \in Analyses /\ k \in Slots /\ order[r][k] \in Streams
          BY <3>1, JobFacts DEF SaveAssessment, WorkerGoto
        <4>2. PutSession(of[r], k, order[r][k], TRUE) \/ UNCHANGED sess
          BY <3>1 DEF SaveAssessment
        <4> HIDE DEF r, k
        <4>3. QED
          BY <1>0, <4>1, <4>2, PutSessionGrows
      <3>2. CASE ~SaveAssessment(w)
        BY <1>4, <3>2 DEF WorkerStep, TakeJob, CheckProvider, AssessmentFails,
           SaveJobFindings, dbVars
      <3>3. QED
        BY <3>1, <3>2
    <2>3. QED
      BY <2>1, <2>2 DEF Grows
  <1>5. ASSUME NEW r \in Runs, GlobalStep(r) PROVE Grows
    BY <1>0, <1>5, GlobalStepFrame DEF Grows, ProcessRestarts, RunTypeOK
  <1>6. CASE HealthCheck
    BY <1>6 DEF HealthCheck, Grows, dbVars, runVars, histVars
  <1>7. CASE Crash
    BY <1>0, <1>7 DEF Crash, Grows, ProcessRestarts, dbVars, RunTypeOK
  <1>8. CASE UNCHANGED vars
    BY <1>8 DEF vars, Grows, dbVars, runVars, histVars
  <1>9. QED
    BY <1>1, <1>2, <1>3, <1>4, <1>5, <1>6, <1>7, <1>8 DEF Next

\* So a settled session stays settled.
LEMMA SettledStays ==
  ASSUME Grows, NEW a \in Analyses, NEW k \in Slots, Settled(a, k)
  PROVE  Settled(a, k)'
  BY DEF Grows, Settled

-----------------------------------------------------------------------------
(* The runs: RunInv and SavedInv *)

\* A started run has an analysis, a run about to start the engine has dumped
\* its sessions, and a loop index is a session number.
LEMMA RunInvStep == IInv /\ [Next]_vars => RunInv'
  <1> SUFFICES ASSUME IInv, [Next]_vars, NEW q \in Runs PROVE RunOK(q)'
    BY DEF RunInv
  <1>0. RunTypeOK /\ FileTypeOK /\ RunOK(q)
    BY DEF IInv, TypeOK, RunInv
  <1>1. ASSUME NEW a \in Analyses, CreateAnalysis(a) PROVE RunOK(q)'
    BY <1>0, <1>1 DEF CreateAnalysis, RunOK, runVars, fileVars
  <1>2. ASSUME NEW a \in Analyses, NEW r \in Runs, StartAnalysis(a, r) PROVE RunOK(q)'
    BY <1>0, <1>2 DEF StartAnalysis, RunOK, fileVars, RunTypeOK
  <1>3. ASSUME NEW r \in Runs, RunStep(r) PROVE RunOK(q)'
    <2>1. (pc'[q] # "unused" \/ gpc'[q] # "idle") => of'[q] \in Analyses
      <3>1. of' = of /\ pc[r] # "unused"
        BY <1>3, RunStepFrame
      <3>2. CASE q = r
        BY <3>1, <3>2, RunFacts
      <3>3. CASE q # r
        BY <1>3, <3>1, <3>3, RunStepFrame, RunFacts
      <3>4. QED
        BY <3>2, <3>3
    <2>2. pc'[q] = "engine" => dumped'[of'[q]] \in Runs
      <3>1. of' = of /\ pc[r] # "unused" /\ of[r] \in Analyses
        BY <1>3, RunStepFrame, RunFacts
      <3>2. CASE DumpSessions(r)
        BY <1>0, <1>3, <2>1, <3>1, <3>2, RunStepFrame
           DEF DumpSessions, FileTypeOK, RunOK, RunTypeOK, Goto
      <3>3. CASE ~DumpSessions(r)
        <4>1. UNCHANGED dumped
          BY <1>3, <3>3 DEF RunStep, EnterStage, GetAnalysis, Parse, ReadPackets,
             Reassemble, CountStreams, Detect, InspectTLS, AssessRisk, RunEngine,
             MergeReport, SaveRow, SaveFindings, EnqueueSession, Aggregate,
             Announce, Fail, AnnounceFail, fileVars
        <4>2. pc'[r] # "engine"
          BY <1>0, <1>3, <3>3, LoopLabelCases DEF RunStep, EnterStage, GetAnalysis,
             Parse, ReadPackets, Reassemble, CountStreams, Detect, InspectTLS,
             AssessRisk, RunEngine, MergeReport, SaveRow, SaveFindings,
             EnqueueSession, Aggregate, Announce, Fail, AnnounceFail, Goto, RunTypeOK
        <4>3. QED
          BY <1>0, <1>3, <3>1, <4>1, <4>2, RunStepFrame DEF RunOK
      <3>4. QED
        BY <3>2, <3>3
    <2>3. /\ pc'[q] = "merge" => next'[q] = 1
          /\ pc'[q] \in {"row", "findings", "enqueue"} => next'[q] \in Slots
      <3>1. CASE q # r
        BY <1>0, <1>3, <3>1, RunStepFrame DEF RunOK
      <3>2. CASE q = r /\ (RunEngine(r) \/ MergeReport(r) \/ SaveRow(r) \/ SaveFindings(r))
        <4>1. CASE RunEngine(r)
          BY <1>0, <3>2, <4>1, LoopLabelCases DEF RunEngine, Goto, RunTypeOK
        <4>2. CASE MergeReport(r)
          BY <1>0, <3>2, <4>2, LoopLabelCases DEF MergeReport, Goto, RunOK, RunTypeOK
        <4>3. CASE SaveRow(r) \/ SaveFindings(r)
          BY <1>0, <3>2, <4>3 DEF SaveRow, SaveFindings, Goto, RunOK, RunTypeOK
        <4>4. QED
          BY <3>2, <4>1, <4>2, <4>3
      <3>3. CASE q = r /\ EnqueueSession(r)
        BY <1>0, <3>3, LoopLabelCases DEF EnqueueSession, Goto, RunOK, RunTypeOK
      <3>4. CASE q = r /\ ~(RunEngine(r) \/ MergeReport(r) \/ SaveRow(r)
                             \/ SaveFindings(r) \/ EnqueueSession(r))
        BY <1>0, <1>3, <3>4 DEF RunStep, EnterStage, GetAnalysis, Parse, ReadPackets,
           Reassemble, CountStreams, Detect, InspectTLS, AssessRisk, DumpSessions,
           Aggregate, Announce, Fail, AnnounceFail, Goto, RunTypeOK
      <3>5. QED
        BY <3>1, <3>2, <3>3, <3>4
    <2>4. QED
      BY <2>1, <2>2, <2>3 DEF RunOK
  <1>4. ASSUME NEW w \in Workers, WorkerStep(w) PROVE RunOK(q)'
    BY <1>0, <1>4, WorkerStepFrame DEF RunOK, runVars, fileVars
  <1>5. ASSUME NEW r \in Runs, GlobalStep(r) PROVE RunOK(q)'
    BY <1>0, <1>5, GlobalStepFrame DEF RunOK, fileVars, ProcessRestarts, RunTypeOK
  <1>6. CASE HealthCheck
    BY <1>0, <1>6 DEF HealthCheck, RunOK, runVars, fileVars
  <1>7. CASE Crash
    BY <1>0, <1>7 DEF Crash, RunOK, ProcessRestarts, fileVars, RunTypeOK
  <1>8. CASE UNCHANGED vars
    BY <1>0, <1>8 DEF vars, RunOK, runVars, fileVars
  <1>9. QED
    BY <1>1, <1>2, <1>3, <1>4, <1>5, <1>6, <1>7, <1>8 DEF Next

\* What run q has settled stays so while q stands still ...
LEMMA SavedFrame ==
  ASSUME IInv, Grows, NEW q \in Runs, pc'[q] = pc[q], next'[q] = next[q]
  PROVE  SavedOK(q)'
  <1>1. CASE pc[q] \in {"row", "findings", "enqueue", "aggregate"}
    <2>1. of[q] \in Analyses /\ of'[q] = of[q]
      BY <1>1, RunFacts DEF Grows
    <2>2. pc[q] # "aggregate" => next[q] \in Slots
      BY <1>1, LoopFacts
    <2>3. SavedOK(q)
      BY DEF IInv, SavedInv
    <2>4. \A k \in Slots : Settled(of[q], k) => Settled(of[q], k)'
      BY <2>1, SettledStays DEF Grows, Settled
    <2>5. \A k \in Slots : sess[of[q]][k] # NoRow => sess'[of[q]][k] # NoRow
      BY <2>1 DEF Grows
    <2>6. QED
      BY <1>1, <2>1, <2>2, <2>3, <2>4, <2>5 DEF SavedOK, Settled
  <1>2. CASE pc[q] \notin {"row", "findings", "enqueue", "aggregate"}
    BY <1>2 DEF SavedOK
  <1>3. QED
    BY <1>1, <1>2

\* ... and nothing is asked of a run outside of its loop.
LEMMA SavedAway ==
  ASSUME NEW q \in Runs, pc'[q] \notin {"row", "findings", "enqueue", "aggregate"}
  PROVE  SavedOK(q)'
  BY DEF SavedOK

\* Every step of a run's loop settles what the loop's next label relies on.
LEMMA SavedInvStep == IInv /\ [Next]_vars /\ Grows => SavedInv'
  <1> SUFFICES ASSUME IInv, [Next]_vars, Grows, NEW q \in Runs PROVE SavedOK(q)'
    BY DEF SavedInv
  <1>0. RunTypeOK /\ RunOK(q) /\ SavedOK(q)
    BY DEF IInv, TypeOK, RunInv, SavedInv
  <1>1. ASSUME NEW a \in Analyses, CreateAnalysis(a) PROVE SavedOK(q)'
    BY <1>1, SavedFrame DEF CreateAnalysis, runVars
  <1>2. ASSUME NEW a \in Analyses, NEW r \in Runs, StartAnalysis(a, r) PROVE SavedOK(q)'
    <2>1. next'[q] = next[q] /\ (pc'[q] = pc[q] \/ pc'[q] = "get")
      BY <1>0, <1>2 DEF StartAnalysis, RunTypeOK
    <2>2. QED
      BY <2>1, SavedFrame, SavedAway
  <1>3. ASSUME NEW r \in Runs, RunStep(r) PROVE SavedOK(q)'
    <2>1. CASE q # r
      BY <1>3, <2>1, RunStepFrame, SavedFrame
    <2>2. CASE q = r /\ ~(RunEngine(r) \/ MergeReport(r) \/ SaveRow(r)
                           \/ SaveFindings(r) \/ EnqueueSession(r))
      <3>1. pc'[q] \notin {"row", "findings", "enqueue"}
        BY <1>0, <1>3, <2>2 DEF RunStep, EnterStage, GetAnalysis, Parse, ReadPackets,
           Reassemble, CountStreams, Detect, InspectTLS, AssessRisk, DumpSessions,
           Aggregate, Announce, Fail, AnnounceFail, Goto, RunTypeOK
      <3>2. pc'[q] # "aggregate"
        BY <1>0, <1>3, <2>2 DEF RunStep, EnterStage, GetAnalysis, Parse, ReadPackets,
           Reassemble, CountStreams, Detect, InspectTLS, AssessRisk, DumpSessions,
           Aggregate, Announce, Fail, AnnounceFail, Goto, RunTypeOK
      <3>3. QED
        BY <3>1, <3>2, SavedAway
    <2>3. CASE q = r /\ (RunEngine(r) \/ MergeReport(r))
      <3>1. \/ pc'[q] = "row" /\ next'[q] = 1
            \/ pc'[q] = "aggregate" /\ 1 \notin Slots
            \/ pc'[q] = "merge"
        <4>1. CASE RunEngine(r)
          BY <1>0, <2>3, <4>1, LoopLabelCases DEF RunEngine, Goto, RunTypeOK
        <4>2. CASE MergeReport(r)
          BY <1>0, <2>3, <4>2, LoopLabelCases DEF MergeReport, Goto, RunOK, RunTypeOK
        <4>3. QED
          BY <2>3, <4>1, <4>2
      <3>2. \A k \in Slots : ~(k < 1)
        BY ConstantsAssumption DEF Slots
      <3>3. 1 \notin Slots => Slots = {}
        BY ConstantsAssumption DEF Slots
      <3>4. QED
        BY <3>1, <3>2, <3>3 DEF SavedOK
    <2>4. CASE q = r /\ SaveRow(r)
      <3>1. of' = of /\ next' = next /\ pc[q] = "row" /\ pc'[q] \in {"findings", "enqueue"}
        BY <1>0, <2>4 DEF SaveRow, Goto, RunTypeOK
      <3>2. of[q] \in Analyses /\ next[q] \in Slots /\ order[q][next[q]] \in Streams
        BY <3>1, LoopFacts
      <3>3. \A k \in Slots : k < next[q] => Settled(of[q], k)'
        BY <1>0, <3>1, <3>2, SettledStays DEF SavedOK, Settled
      <3>4. CASE PutSession(of[r], next[r], order[r][next[r]], FALSE)
        <4>1. sess'[of[q]][next[q]] # NoRow
          BY <2>4, <3>2, <3>4, PutSessionGrows DEF IInv, TypeOK
        <4>2. QED
          BY <3>1, <3>2, <3>3, <4>1 DEF SavedOK, Settled
      <3>5. CASE pc'[q] = "enqueue" /\ lost' = [lost EXCEPT ![of[r]] = @ \cup {next[r]}]
        <4>1. lost \in [Analyses -> SUBSET Slots]
          BY DEF IInv, TypeOK, HistTypeOK
        <4>2. next[q] \in lost'[of[q]]
          BY <2>4, <3>2, <3>5, <4>1
        <4>3. QED
          BY <3>1, <3>2, <3>3, <3>5, <4>2 DEF SavedOK, Settled
      <3>6. QED
        <4>1. \/ PutSession(of[r], next[r], order[r][next[r]], FALSE)
              \/ pc'[q] = "enqueue" /\ lost' = [lost EXCEPT ![of[r]] = @ \cup {next[r]}]
          BY <1>0, <2>4 DEF SaveRow, Goto, RunTypeOK
        <4>2. QED
          BY <3>4, <3>5, <4>1
    <2>5. CASE q = r /\ SaveFindings(r)
      <3>1. of' = of /\ next' = next /\ pc[q] = "findings" /\ pc'[q] = "enqueue"
        BY <1>0, <2>5 DEF SaveFindings, Goto, RunTypeOK
      <3>2. of[q] \in Analyses /\ next[q] \in Slots
        BY <3>1, LoopFacts
      <3>3. /\ \A k \in Slots : k < next[q] => Settled(of[q], k)
            /\ Settled(of[q], next[q])
        BY <1>0, <3>1 DEF SavedOK, Settled
      <3>4. /\ \A k \in Slots : k < next[q] => Settled(of[q], k)'
            /\ Settled(of[q], next[q])'
        BY <3>1, <3>2, <3>3, SettledStays DEF Settled
      <3>5. QED
        BY <3>1, <3>2, <3>4 DEF SavedOK, Settled
    <2>6. CASE q = r /\ EnqueueSession(r)
      <3>1. /\ of' = of /\ next'[q] = next[q] + 1 /\ pc[q] = "enqueue"
            /\ pc'[q] = LoopLabel(next[q] + 1)
        BY <1>0, <2>6 DEF EnqueueSession, Goto, RunTypeOK
      <3>2. of[q] \in Analyses /\ next[q] \in Slots
        BY <3>1, LoopFacts
      <3>3. /\ \A k \in Slots : k < next[q] => Settled(of[q], k)
            /\ Settled(of[q], next[q])
        BY <1>0, <3>1 DEF SavedOK
      <3>4. \A k \in Slots : k < next[q] + 1 => k < next[q] \/ k = next[q]
        BY <3>2, ConstantsAssumption DEF Slots
      <3>5. \A k \in Slots : k < next[q] + 1 => Settled(of[q], k)'
        <4>1. \A k \in Slots : Settled(of[q], k) => Settled(of[q], k)'
          BY <3>1, <3>2, SettledStays DEF Settled
        <4>2. QED
          BY <3>1, <3>2, <3>3, <3>4, <4>1 DEF Settled
      <3>6. next[q] + 1 \notin Slots => \A k \in Slots : k < next[q] + 1
        BY <3>2, ConstantsAssumption DEF Slots
      <3>7. CASE pc'[q] = "row"
        BY <3>1, <3>5, <3>7 DEF SavedOK, Settled
      <3>8. CASE pc'[q] = "aggregate" /\ next[q] + 1 \notin Slots
        BY <3>1, <3>5, <3>6, <3>8 DEF SavedOK, Settled
      <3>9. QED
        BY <3>1, <3>7, <3>8, LoopLabelCases
    <2>7. QED
      BY <1>3, <2>1, <2>2, <2>3, <2>4, <2>5, <2>6
  <1>4. ASSUME NEW w \in Workers, WorkerStep(w) PROVE SavedOK(q)'
    BY <1>4, WorkerStepFrame, SavedFrame DEF runVars
  <1>5. ASSUME NEW r \in Runs, GlobalStep(r) PROVE SavedOK(q)'
    <2>1. CASE UNCHANGED <<pc, next>>
      BY <2>1, SavedFrame
    <2>2. CASE ProcessRestarts
      BY <1>0, <2>2, SavedAway DEF ProcessRestarts, RunTypeOK
    <2>3. QED
      BY <1>5, <2>1, <2>2, GlobalStepFrame
  <1>6. CASE HealthCheck
    BY <1>6, SavedFrame DEF HealthCheck, runVars
  <1>7. CASE Crash
    BY <1>0, <1>7, SavedAway DEF Crash, ProcessRestarts, RunTypeOK
  <1>8. CASE UNCHANGED vars
    BY <1>8, SavedFrame DEF vars, runVars
  <1>9. QED
    BY <1>1, <1>2, <1>3, <1>4, <1>5, <1>6, <1>7, <1>8 DEF Next

-----------------------------------------------------------------------------
(* The AI queue: JobInv *)

\* JobOK after the step, of a job given by an expression of either state.
JobOKNext(j) ==
  /\ pc'[j[1]] # "unused"
  /\ sess'[of'[j[1]]][j[2]] # NoRow \/ j[2] \in lost'[of'[j[1]]]

\* A job whose session was settled stays such a job.
LEMMA JobStays ==
  ASSUME IInv, Grows, NEW j \in Jobs, JobOK(j)
  PROVE  JobOK(j)' /\ of'[j[1]] = of[j[1]] /\ of[j[1]] \in Analyses
  <1>1. j[1] \in Runs /\ j[2] \in Slots
    BY DEF Jobs
  <1>2. of[j[1]] \in Analyses /\ of'[j[1]] = of[j[1]] /\ pc'[j[1]] # "unused"
    BY <1>1, RunFacts DEF JobOK, Grows
  <1>3. Settled(of[j[1]], j[2])'
    BY <1>1, <1>2, SettledStays DEF JobOK, Settled
  <1>4. QED
    BY <1>2, <1>3 DEF JobOK

\* A worker that stands still keeps what it relies on.
LEMMA WorkerStays ==
  ASSUME IInv, Grows, NEW w \in Workers, wpc'[w] = wpc[w], wjob'[w] = wjob[w]
  PROVE  WorkerOK(w)'
  <1>1. WorkerOK(w)
    BY DEF IInv, JobInv
  <1>2. CASE wjob[w] \in Jobs
    <2>1. JobOK(wjob[w])
      BY <1>1, <1>2 DEF WorkerOK
    <2>2. JobOK(wjob[w])' /\ of'[wjob[w][1]] = of[wjob[w][1]]
          /\ of[wjob[w][1]] \in Analyses
      <3>1. PICK j \in Jobs : j = wjob[w]
        BY <1>2
      <3>2. JobOK(j)' /\ of'[j[1]] = of[j[1]] /\ of[j[1]] \in Analyses
        BY <2>1, <3>1, JobStays
      <3>3. QED
        BY <3>1, <3>2 DEF JobOK, Settled
    <2>3. wjob[w][2] \in Slots
      BY <1>2 DEF Jobs
    <2>4. wpc[w] = "findings" => sess'[of[wjob[w][1]]][wjob[w][2]] # NoRow
      BY <1>1, <2>2, <2>3 DEF WorkerOK, Grows
    <2>5. QED
      BY <1>2, <2>2, <2>4 DEF WorkerOK, JobOK, Settled
  <1>3. CASE wjob[w] \notin Jobs
    BY <1>1, <1>3 DEF WorkerOK
  <1>4. QED
    BY <1>2, <1>3

\* The jobs a step leaves in the queue were there before, or are new and fine.
LEMMA QueueStays ==
  ASSUME IInv, Grows,
         \A i \in 1..Len(queue') :
           \/ \E h \in 1..Len(queue) : queue'[i] = queue[h]
           \/ JobOKNext(queue'[i])
  PROVE  (\A i \in 1..Len(queue) : JobOK(queue[i]))'
  <1>1. queue \in Seq(Jobs)
    BY DEF IInv, TypeOK, AITypeOK
  <1>2. \A h \in 1..Len(queue) : queue[h] \in Jobs /\ JobOK(queue[h])
    BY <1>1 DEF IInv, JobInv
  <1>3. \A j \in Jobs : JobOK(j) => JobOKNext(j)
    BY JobStays DEF JobOK, Settled, JobOKNext
  <1>4. \A i \in 1..Len(queue') : JobOKNext(queue'[i])
    BY <1>2, <1>3
  <1>5. QED
    BY <1>4 DEF JobOK, Settled, JobOKNext

\* A job is queued after its session's write was tried, and a worker only
\* works on such jobs.
LEMMA JobInvStep == IInv /\ [Next]_vars /\ Grows => JobInv'
  <1> SUFFICES ASSUME IInv, [Next]_vars, Grows PROVE JobInv'
    OBVIOUS
  <1>0. AITypeOK /\ RunTypeOK /\ JobInv
    BY DEF IInv, TypeOK
  <1>q. queue \in Seq(Jobs)
    BY <1>0 DEF AITypeOK
  <1>a. ASSUME UNCHANGED aiVars PROVE JobInv'
    <2>1. (\A i \in 1..Len(queue) : JobOK(queue[i]))'
      BY <1>a, QueueStays DEF aiVars
    <2>2. \A w \in Workers : WorkerOK(w)'
      BY <1>a, WorkerStays DEF aiVars
    <2>3. QED
      BY <2>1, <2>2 DEF JobInv
  <1>b. ASSUME ProcessRestarts PROVE JobInv'
    <2>1. queue' = <<>> /\ \A w \in Workers : wpc'[w] = "idle" /\ wjob'[w] = NoJob
      BY <1>b DEF ProcessRestarts
    <2>2. NoJob \notin Jobs
      BY DEF NoJob, Jobs, Runs
    <2>3. QED
      BY <2>1, <2>2 DEF JobInv, WorkerOK
  <1>1. ASSUME NEW a \in Analyses, CreateAnalysis(a) PROVE JobInv'
    BY <1>1, <1>a DEF CreateAnalysis
  <1>2. ASSUME NEW a \in Analyses, NEW r \in Runs, StartAnalysis(a, r) PROVE JobInv'
    BY <1>2, <1>a DEF StartAnalysis
  <1>3. ASSUME NEW r \in Runs, RunStep(r) PROVE JobInv'
    <2>1. CASE EnqueueSession(r)
      <3>1. of[r] \in Analyses /\ next[r] \in Slots
        BY <2>1, LoopFacts DEF EnqueueSession, Goto
      <3>2. <<r, next[r]>> \in Jobs /\ JobOK(<<r, next[r]>>)
        BY <2>1, <3>1 DEF IInv, SavedInv, SavedOK, JobOK, Jobs, EnqueueSession, Goto
      <3>3. JobOKNext(<<r, next[r]>>)
        <4>1. PICK j \in Jobs : j = <<r, next[r]>> /\ JobOK(j)
          BY <3>2
        <4>2. JobOK(j)'
          BY <4>1, JobStays
        <4>3. QED
          BY <4>1, <4>2 DEF JobOK, Settled, JobOKNext
      <3>4. UNCHANGED <<wpc, wjob>> /\ queue' \in {queue, Append(queue, <<r, next[r]>>)}
        BY <2>1 DEF EnqueueSession, Enqueue
      <3>5. \A i \in 1..Len(queue') : \/ \E h \in 1..Len(queue) : queue'[i] = queue[h]
                                      \/ queue'[i] = <<r, next[r]>>
        BY <1>q, <3>2, <3>4
      <3>6. (\A i \in 1..Len(queue) : JobOK(queue[i]))'
        BY <3>3, <3>5, QueueStays
      <3>7. QED
        BY <3>4, <3>6, WorkerStays DEF JobInv
    <2>2. CASE ~EnqueueSession(r)
      <3>1. UNCHANGED aiVars
        BY <1>3, <2>2 DEF RunStep, EnterStage, GetAnalysis, Parse, ReadPackets,
           Reassemble, CountStreams, Detect, InspectTLS, AssessRisk, DumpSessions,
           RunEngine, MergeReport, SaveRow, SaveFindings, Aggregate, Announce, Fail,
           AnnounceFail
      <3>2. QED
        BY <3>1, <1>a
    <2>3. QED
      BY <2>1, <2>2
  <1>4. ASSUME NEW w \in Workers, WorkerStep(w) PROVE JobInv'
    <2>1. \A v \in Workers \ {w} : wpc'[v] = wpc[v] /\ wjob'[v] = wjob[v]
      BY <1>0, <1>4 DEF WorkerStep, TakeJob, CheckProvider, AssessmentFails,
         SaveAssessment, SaveJobFindings, WorkerGoto, AITypeOK
    <2>2. \A i \in 1..Len(queue') : \E h \in 1..Len(queue) : queue'[i] = queue[h]
      <3>1. CASE TakeJob(w)
        <4>1. queue # <<>> /\ queue' = Tail(queue)
          BY <3>1 DEF TakeJob
        <4>2. \A i \in 1..Len(queue') : i + 1 \in 1..Len(queue) /\ queue'[i] = queue[i + 1]
          BY <1>q, <4>1
        <4>3. QED
          BY <4>2
      <3>2. CASE ~TakeJob(w)
        <4>1. UNCHANGED queue
          BY <1>4, <3>2 DEF WorkerStep, CheckProvider, AssessmentFails,
             SaveAssessment, SaveJobFindings
        <4>2. QED
          BY <4>1
      <3>3. QED
        BY <3>1, <3>2
    <2>3. WorkerOK(w)'
      <3>1. CASE TakeJob(w)
        <4>1. PICK j \in Jobs : j = Head(queue) /\ JobOK(j)
          BY <1>0, <1>q, <3>1 DEF TakeJob, JobInv
        <4>2. wjob'[w] = j /\ wpc'[w] = "check"
          BY <1>0, <3>1, <4>1 DEF TakeJob, AITypeOK
        <4>3. JobOK(j)'
          BY <4>1, JobStays
        <4>4. JobOK(wjob[w])'
          BY <4>2, <4>3 DEF JobOK, Settled
        <4>5. QED
          BY <4>1, <4>2, <4>4 DEF WorkerOK
      <3>2. CASE wpc'[w] = "idle" /\ wjob'[w] = NoJob
        <4>1. NoJob \notin Jobs
          BY DEF NoJob, Jobs, Runs
        <4>2. QED
          BY <3>2, <4>1 DEF WorkerOK
      <3>3. CASE wpc[w] # "idle" /\ wpc'[w] # "idle" /\ wjob'[w] = wjob[w]
        <4>1. PICK j \in Jobs : j = wjob[w] /\ JobOK(j)
          BY <3>3 DEF IInv, JobInv, WorkerOK
        <4>2. JobOK(j)'
          BY <4>1, JobStays
        <4>3. JobOK(wjob[w])'
          BY <3>3, <4>1, <4>2 DEF JobOK, Settled
        <4>4. wpc'[w] = "findings" =>
                sess'[of'[wjob'[w][1]]][wjob'[w][2]] # NoRow
          <5>1. UNCHANGED of
            BY <1>4, WorkerStepFrame DEF runVars
          <5>2. ASSUME wpc'[w] = "findings"
                PROVE  SaveAssessment(w)
                       /\ PutSession(of[wjob[w][1]], wjob[w][2],
                                     order[wjob[w][1]][wjob[w][2]], TRUE)
            BY <1>0, <1>4, <3>3, <5>2 DEF WorkerStep, TakeJob, CheckProvider, AssessmentFails,
               SaveAssessment, SaveJobFindings, WorkerGoto, AITypeOK
          <5>3. /\ of[wjob[w][1]] \in Analyses /\ wjob[w][2] \in Slots
                /\ order[wjob[w][1]][wjob[w][2]] \in Streams
            BY <3>3, JobFacts
          <5>4. ASSUME wpc'[w] = "findings"
                PROVE  sess'[of[wjob[w][1]]][wjob[w][2]] # NoRow
            BY <5>2, <5>3, <5>4, PutSessionGrows DEF IInv, TypeOK
          <5>5. QED
            BY <3>3, <5>1, <5>4
        <4>5. QED
          BY <3>3, <4>1, <4>3, <4>4 DEF WorkerOK
      <3>4. QED
        BY <1>0, <1>4, <3>1, <3>2, <3>3 DEF WorkerStep, CheckProvider,
           AssessmentFails, SaveAssessment, SaveJobFindings, WorkerGoto, AITypeOK
    <2>4. (\A i \in 1..Len(queue) : JobOK(queue[i]))'
      BY <2>2, QueueStays
    <2>5. QED
      BY <2>1, <2>3, <2>4, WorkerStays DEF JobInv
  <1>5. ASSUME NEW r \in Runs, GlobalStep(r) PROVE JobInv'
    BY <1>5, <1>a, <1>b, GlobalStepFrame
  <1>6. CASE HealthCheck
    BY <1>6, <1>a DEF HealthCheck
  <1>7. CASE Crash
    BY <1>7, <1>b DEF Crash
  <1>8. CASE UNCHANGED vars
    BY <1>8, <1>a DEF vars
  <1>9. QED
    BY <1>1, <1>2, <1>3, <1>4, <1>5, <1>6, <1>7, <1>8 DEF Next

-----------------------------------------------------------------------------
(* The tables: what a client reads *)

\* The new rows the statements compute: finished_at goes with the status, and
\* only the aggregate makes an analysis COMPLETED.
LEMMA NewRows ==
  ASSUME NEW old \in RowType, old.finished = IsFinal(old.status)
  PROVE  /\ \A s \in Statuses : \A e \in BOOLEAN :
              /\ StatusRow(old, s, e).finished = IsFinal(StatusRow(old, s, e).status)
              /\ StatusRow(old, s, e).status = s
         /\ AggregateRow(old).finished = IsFinal(AggregateRow(old).status)
         /\ \A n : /\ [old EXCEPT !.total = n].finished = IsFinal([old EXCEPT !.total = n].status)
                   /\ [old EXCEPT !.total = n].status = old.status
         /\ \A b : /\ [old EXCEPT !.global = b].finished = IsFinal([old EXCEPT !.global = b].status)
                   /\ [old EXCEPT !.global = b].status = old.status
  <1>1. \A s \in Statuses : \A e \in BOOLEAN :
              /\ StatusRow(old, s, e).finished = IsFinal(s)
              /\ StatusRow(old, s, e).status = s
    BY DEF StatusRow, RowType
  <1>2. /\ AggregateRow(old).finished = TRUE
        /\ AggregateRow(old).status = "COMPLETED"
    BY DEF AggregateRow, RowType
  <1>3. /\ \A n : /\ [old EXCEPT !.total = n].finished = old.finished
                  /\ [old EXCEPT !.total = n].status = old.status
        /\ \A b : /\ [old EXCEPT !.global = b].finished = old.finished
                  /\ [old EXCEPT !.global = b].status = old.status
    BY DEF RowType
  <1>4. IsFinal("COMPLETED") = TRUE
    BY DEF IsFinal
  <1>5. QED
    BY <1>1, <1>2, <1>3, <1>4, Zenon

\* What an update of one row does to the two properties of the status.
LEMMA UpdateRowFinal ==
  ASSUME IInv, NEW a \in Analyses, NEW new \in RowType,
         new.finished = IsFinal(new.status), UpdateRow(a, new)
  PROVE  /\ FinishedWhenFinal'
         /\ \A c \in Analyses : row'[c].status = "COMPLETED" =>
              row[c].status = "COMPLETED" \/ (c = a /\ new.status = "COMPLETED")
  <1>1. row \in [Analyses -> RowType] /\ FinishedWhenFinal
    BY DEF IInv, TypeOK, DBTypeOK
  <1>2. \A c \in Analyses : row'[c] = row[c] \/ (c = a /\ row'[c] = new)
    BY <1>1 DEF UpdateRow
  <1>3. \A c \in Analyses : row'[c].finished = IsFinal(row'[c].status)
    <2>1. TAKE c \in Analyses
    <2>2. CASE row'[c] = row[c]
      BY <1>1, <2>2, Zenon DEF FinishedWhenFinal
    <2>3. CASE row'[c] = new
      BY <2>3, Zenon
    <2>4. QED
      BY <1>2, <2>2, <2>3
  <1>4. FinishedWhenFinal'
    BY <1>3 DEF FinishedWhenFinal, IsFinal
  <1>5. QED
    BY <1>2, <1>4

\* A status update with anything but COMPLETED, and an update that keeps the
\* status, complete no analysis.
LEMMA StatusWriteFinal ==
  ASSUME IInv, NEW a \in Analyses, NEW s \in Statuses \ {"COMPLETED"},
         NEW e \in BOOLEAN, WriteStatus(a, s, e)
  PROVE  /\ FinishedWhenFinal'
         /\ \A c \in Analyses : row'[c].status = "COMPLETED" => row[c].status = "COMPLETED"
  <1>1. row[a] \in RowType /\ row[a].finished = IsFinal(row[a].status)
    BY DEF IInv, TypeOK, DBTypeOK, FinishedWhenFinal
  <1>2. StatusRow(row[a], s, e) \in RowType
    BY <1>1, RowOps
  <1>3. /\ StatusRow(row[a], s, e).finished = IsFinal(StatusRow(row[a], s, e).status)
        /\ StatusRow(row[a], s, e).status = s
    BY <1>1, NewRows
  <1>4. QED
    BY <1>2, <1>3, UpdateRowFinal DEF WriteStatus

\* Either nothing becomes COMPLETED, or a run at its aggregate does it; and
\* finished_at follows the status.
LEMMA RowStep ==
  ASSUME IInv, [Next]_vars
  PROVE  /\ FinishedWhenFinal'
         /\ \A c \in Analyses : row'[c].status = "COMPLETED" =>
              \/ row[c].status = "COMPLETED"
              \/ \E r \in Runs : pc[r] = "aggregate" /\ of[r] = c
  <1> DEFINE Goal == /\ FinishedWhenFinal'
                     /\ \A c \in Analyses : row'[c].status = "COMPLETED" =>
                          \/ row[c].status = "COMPLETED"
                          \/ \E r \in Runs : pc[r] = "aggregate" /\ of[r] = c
  <1>0. row \in [Analyses -> RowType] /\ FinishedWhenFinal
    BY DEF IInv, TypeOK, DBTypeOK
  <1>f. \A a \in Analyses : row[a].finished = IsFinal(row[a].status) /\ row[a] \in RowType
    BY <1>0, Zenon DEF FinishedWhenFinal
  <1>a. ASSUME UNCHANGED row PROVE Goal
    BY <1>0, <1>a DEF FinishedWhenFinal
  <1>u. ASSUME NEW a \in Analyses, NEW new \in RowType,
               new.finished = IsFinal(new.status),
               \/ new.status = row[a].status
               \/ \E r \in Runs : pc[r] = "aggregate" /\ of[r] = a,
               UpdateRow(a, new)
        PROVE  Goal
    BY <1>u, UpdateRowFinal
  <1>n. ASSUME NEW a \in Analyses
        PROVE  /\ [row[a] EXCEPT !.total = N] \in RowType
               /\ [row[a] EXCEPT !.total = N].finished
                    = IsFinal([row[a] EXCEPT !.total = N].status)
               /\ [row[a] EXCEPT !.total = N].status = row[a].status
               /\ \A b \in BOOLEAN :
                    /\ [row[a] EXCEPT !.global = b] \in RowType
                    /\ [row[a] EXCEPT !.global = b].finished
                         = IsFinal([row[a] EXCEPT !.global = b].status)
                    /\ [row[a] EXCEPT !.global = b].status = row[a].status
               /\ AggregateRow(row[a]) \in RowType
               /\ AggregateRow(row[a]).finished = IsFinal(AggregateRow(row[a]).status)
    <2>1. row[a] \in RowType /\ row[a].finished = IsFinal(row[a].status)
      BY <1>f
    <2>2. \A b \in BOOLEAN : [row[a] EXCEPT !.global = b] \in RowType
      BY <2>1, RowOps
    <2>3. [row[a] EXCEPT !.total = N] \in RowType /\ AggregateRow(row[a]) \in RowType
      BY <2>1, RowOps
    <2>4. AggregateRow(row[a]).finished = IsFinal(AggregateRow(row[a]).status)
      BY <2>1, NewRows
    <2>5. /\ [row[a] EXCEPT !.total = N].finished
               = IsFinal([row[a] EXCEPT !.total = N].status)
          /\ [row[a] EXCEPT !.total = N].status = row[a].status
      BY <2>1, NewRows
    <2>6. \A b \in BOOLEAN :
             /\ [row[a] EXCEPT !.global = b].finished
                  = IsFinal([row[a] EXCEPT !.global = b].status)
             /\ [row[a] EXCEPT !.global = b].status = row[a].status
      BY <2>1, NewRows
    <2>7. QED
      BY <2>2, <2>3, <2>4, <2>5, <2>6, Zenon
  <1> HIDE DEF Goal
  <1>1. ASSUME NEW a \in Analyses, CreateAnalysis(a) PROVE Goal
    <2>1. row' = [row EXCEPT ![a].status = "QUEUED"] /\ row[a].status = "ABSENT"
      BY <1>1 DEF CreateAnalysis
    <2>2. /\ row'[a].status = "QUEUED"
          /\ row'[a].finished = row[a].finished
          /\ \A c \in Analyses \ {a} : row'[c] = row[c]
      BY <1>0, <2>1 DEF RowType
    <2>3. row[a].finished = FALSE /\ IsFinal("QUEUED") = FALSE
      <3>1. IsFinal("ABSENT") = FALSE /\ IsFinal("QUEUED") = FALSE
        BY DEF IsFinal
      <3>2. QED
        BY <1>f, <2>1, <3>1, Zenon
    <2>4. \A c \in Analyses : row'[c].finished = IsFinal(row'[c].status)
      BY <1>f, <2>2, <2>3, Zenon
    <2>5. QED
      <3>1. FinishedWhenFinal'
        BY <2>4 DEF FinishedWhenFinal, IsFinal
      <3>2. \A c \in Analyses : row'[c].status = "COMPLETED" => row[c].status = "COMPLETED"
        BY <2>2
      <3>3. QED
        BY <3>1, <3>2 DEF Goal
  <1>2. ASSUME NEW a \in Analyses, NEW r \in Runs, StartAnalysis(a, r) PROVE Goal
    BY <1>2, <1>a DEF StartAnalysis, dbVars
  <1>3. ASSUME NEW r \in Runs, RunStep(r) PROVE Goal
    <2>0. of[r] \in Analyses
      BY <1>3, RunStepFrame, RunFacts
    <2>1. CASE \/ Parse(r) \/ Reassemble(r) \/ Detect(r) \/ InspectTLS(r) \/ AssessRisk(r)
      <3>1. \E s \in Statuses \ {"COMPLETED"} : WriteStatus(of[r], s, FALSE)
        BY <2>1 DEF Parse, Reassemble, Detect, InspectTLS, AssessRisk, EnterStage,
           Statuses
      <3>2. QED
        BY <2>0, <3>1, StatusWriteFinal DEF Goal
    <2>2. CASE Fail(r)
      <3>1. "FAILED" \in Statuses \ {"COMPLETED"}
        BY DEF Statuses
      <3>2. QED
        BY <2>0, <2>2, <3>1, StatusWriteFinal DEF Fail, Goal
    <2>3. CASE CountStreams(r)
      <3>1. UpdateRow(of[r], [row[of[r]] EXCEPT !.total = N])
        BY <2>3 DEF CountStreams
      <3>2. QED
        BY <1>n, <1>u, <2>0, <3>1, Zenon
    <2>4. CASE MergeReport(r)
      <3>1. UNCHANGED row \/ UpdateRow(of[r], [row[of[r]] EXCEPT !.global = FALSE])
        BY <2>4 DEF MergeReport
      <3>2. CASE UNCHANGED row
        BY <1>a, <3>2
      <3>3. CASE UpdateRow(of[r], [row[of[r]] EXCEPT !.global = FALSE])
        BY <1>n, <1>u, <2>0, <3>3, Zenon
      <3>4. QED
        BY <3>1, <3>2, <3>3
    <2>5. CASE Aggregate(r)
      <3>1. UpdateRow(of[r], AggregateRow(row[of[r]])) /\ pc[r] = "aggregate"
        BY <2>5 DEF Aggregate, Goto
      <3>2. QED
        BY <1>n, <1>u, <2>0, <3>1, Zenon
    <2>6. CASE \/ GetAnalysis(r) \/ ReadPackets(r) \/ DumpSessions(r) \/ RunEngine(r)
               \/ SaveRow(r) \/ SaveFindings(r) \/ EnqueueSession(r) \/ Announce(r)
               \/ AnnounceFail(r)
      BY <1>a, <2>6 DEF GetAnalysis, ReadPackets, DumpSessions, RunEngine, SaveRow,
         SaveFindings, EnqueueSession, Announce, AnnounceFail, dbVars
    <2>7. QED
      BY <1>3, <2>1, <2>2, <2>3, <2>4, <2>5, <2>6 DEF RunStep
  <1>4. ASSUME NEW w \in Workers, WorkerStep(w) PROVE Goal
    BY <1>4, <1>a, WorkerStepFrame
  <1>5. ASSUME NEW r \in Runs, GlobalStep(r) PROVE Goal
    <2>1. CASE GlobalAnswer(r) /\ ~UNCHANGED row
      <3>1. UpdateRow(of[r], [row[of[r]] EXCEPT !.global = TRUE])
        BY <2>1 DEF GlobalAnswer
      <3>2. of[r] \in Analyses
        BY <2>1, RunFacts DEF GlobalAnswer, GlobalGoto
      <3>3. QED
        BY <1>n, <1>u, <3>1, <3>2, Zenon
    <2>2. CASE ~GlobalAnswer(r)
      BY <1>5, <1>a, <2>2 DEF GlobalStep, GlobalCheck, GlobalGet, GlobalCall, dbVars
    <2>3. QED
      BY <1>a, <2>1, <2>2
  <1>6. CASE HealthCheck
    BY <1>6, <1>a DEF HealthCheck, dbVars, Goal
  <1>7. CASE Crash
    BY <1>7, <1>a DEF Crash, dbVars, Goal
  <1>8. CASE UNCHANGED vars
    BY <1>8, <1>a DEF vars, dbVars, Goal
  <1>9. QED
    BY <1>1, <1>2, <1>3, <1>4, <1>5, <1>6, <1>7, <1>8 DEF Next, Goal

\* At the aggregate everything is settled, so COMPLETED hides no session.
LEMMA CompletedStep == IInv /\ [Next]_vars /\ Grows => CompletedMeansSaved'
  <1> SUFFICES ASSUME IInv, [Next]_vars, Grows, NEW a \in Analyses,
                      row'[a].status = "COMPLETED", NEW k \in Slots
               PROVE  Settled(a, k)'
    BY DEF CompletedMeansSaved
  <1>1. CASE row[a].status = "COMPLETED"
    BY <1>1, SettledStays DEF IInv, CompletedMeansSaved
  <1>2. CASE \E r \in Runs : pc[r] = "aggregate" /\ of[r] = a
    BY <1>2, SettledStays DEF IInv, SavedInv, SavedOK
  <1>3. QED
    BY <1>1, <1>2, RowStep

\* Findings are written for a session whose row was written, or exists since.
LEMMA OrphanStep == IInv /\ [Next]_vars /\ Grows => NoOrphanFindings'
  <1> SUFFICES ASSUME IInv, [Next]_vars, Grows PROVE NoOrphanFindings'
    OBVIOUS
  <1>0. findings \in [Analyses -> SUBSET FindingRows] /\ NoOrphanFindings /\ RunTypeOK
    BY DEF IInv, TypeOK, DBTypeOK
  <1>1. \A f \in FindingRows : f.slot \in Slots
    BY DEF FindingRows
  <1>a. ASSUME UNCHANGED findings PROVE NoOrphanFindings'
    BY <1>0, <1>1, <1>a DEF NoOrphanFindings, Grows
  <1>b. ASSUME NEW r \in Runs, NEW k \in Slots, of[r] \in Analyses,
               sess[of[r]][k] # NoRow, PutFindings(of[r], FindingsOf(r, k))
        PROVE  NoOrphanFindings'
    <2>1. FindingsOf(r, k) \in SUBSET FindingRows /\ \A f \in FindingsOf(r, k) : f.slot = k
      BY <1>0, <1>b, FindingsOfType
    <2>2. \E G \in SUBSET FindingsOf(r, k) :
            findings' = [findings EXCEPT ![of[r]] = @ \cup G]
      BY <1>b DEF PutFindings
    <2>3. PICK G \in SUBSET FindingsOf(r, k) :
            findings' = [findings EXCEPT ![of[r]] = @ \cup G]
      BY <2>2
    <2>4. SUFFICES ASSUME NEW a \in Analyses, NEW f \in findings'[a]
                   PROVE  sess'[a][f.slot] # NoRow
      BY DEF NoOrphanFindings
    <2>5. f \in findings[a] \/ (a = of[r] /\ f \in G)
      BY <1>0, <1>b, <2>3
    <2>6. f \in FindingRows /\ f.slot \in Slots
      BY <1>0, <1>1, <2>1, <2>5
    <2>7. sess[a][f.slot] # NoRow
      BY <1>0, <1>b, <2>1, <2>5 DEF NoOrphanFindings
    <2>8. QED
      BY <2>6, <2>7 DEF Grows
  <1>2. ASSUME NEW r \in Runs, RunStep(r) PROVE NoOrphanFindings'
    <2>1. CASE SaveFindings(r)
      <3>1. of[r] \in Analyses /\ next[r] \in Slots
        BY <2>1, LoopFacts DEF SaveFindings, Goto
      <3>2. sess[of[r]][next[r]] # NoRow
        BY <2>1 DEF IInv, SavedInv, SavedOK, SaveFindings, Goto
      <3>3. QED
        BY <2>1, <3>1, <3>2, <1>b DEF SaveFindings
    <2>2. CASE ~SaveFindings(r)
      <3>1. UNCHANGED findings
        BY <1>2, <2>2 DEF RunStep, EnterStage, GetAnalysis, Parse, ReadPackets,
           Reassemble, CountStreams, Detect, InspectTLS, AssessRisk, DumpSessions,
           RunEngine, MergeReport, SaveRow, EnqueueSession, Aggregate, Announce,
           Fail, AnnounceFail, dbVars
      <3>2. QED
        BY <3>1, <1>a
    <2>3. QED
      BY <2>1, <2>2
  <1>3. ASSUME NEW w \in Workers, WorkerStep(w) PROVE NoOrphanFindings'
    <2>1. CASE SaveJobFindings(w)
      <3>1. /\ wjob[w][1] \in Runs /\ wjob[w][2] \in Slots
            /\ of[wjob[w][1]] \in Analyses
        BY <2>1, JobFacts DEF SaveJobFindings, WorkerGoto
      <3>2. sess[of[wjob[w][1]]][wjob[w][2]] # NoRow
        BY <2>1 DEF IInv, JobInv, WorkerOK, SaveJobFindings, WorkerGoto
      <3>3. PutFindings(of[wjob[w][1]], FindingsOf(wjob[w][1], wjob[w][2]))
        BY <2>1 DEF SaveJobFindings
      <3>4. QED
        BY <3>1, <3>2, <3>3, <1>b
    <2>2. CASE ~SaveJobFindings(w)
      BY <1>3, <2>2, <1>a DEF WorkerStep, TakeJob, CheckProvider, AssessmentFails,
         SaveAssessment, dbVars
    <2>3. QED
      BY <2>1, <2>2
  <1>4. ASSUME NEW r \in Runs, GlobalStep(r) PROVE NoOrphanFindings'
    BY <1>4, <1>a, GlobalStepFrame
  <1>5. CASE \/ \E a \in Analyses : CreateAnalysis(a)
             \/ \E a \in Analyses, r \in Runs : StartAnalysis(a, r)
             \/ HealthCheck \/ Crash \/ UNCHANGED vars
    BY <1>5, <1>a DEF CreateAnalysis, StartAnalysis, HealthCheck, Crash, vars, dbVars
  <1>6. QED
    BY <1>2, <1>3, <1>4, <1>5 DEF Next

-----------------------------------------------------------------------------
(* The theorems *)

\* Empty tables, no goroutine and an empty queue satisfy the invariant.
LEMMA InitIInv == Init => IInv
  <1> SUFFICES ASSUME Init PROVE IInv
    OBVIOUS
  <1>1. DBTypeOK
    <2>1. "ABSENT" \in Statuses
      BY DEF Statuses
    <2>2. QED
      BY <2>1 DEF Init, DBTypeOK, RowType
  <1>2. FileTypeOK
    BY DEF Init, FileTypeOK, Reports
  <1>3. RunTypeOK
    <2>1. 1 \in 1..(N + 1) /\ "unused" \in PipelineLabels
      BY ConstantsAssumption DEF PipelineLabels
    <2>2. QED
      BY <2>1 DEF Init, RunTypeOK, Reports, Streams, Slots
  <1>4. AITypeOK
    <2>1. <<>> \in Seq(Jobs) /\ Len(<<>>) = 0
      OBVIOUS
    <2>2. queue \in Seq(Jobs) /\ Len(queue) <= QueueSize
      BY <2>1, ConstantsAssumption DEF Init
    <2>3. /\ wpc \in [Workers -> {"idle", "check", "ask", "findings"}]
          /\ wjob \in [Workers -> Jobs \cup {NoJob}]
          /\ active \in BOOLEAN
      BY DEF Init
    <2>4. QED
      BY <2>2, <2>3 DEF AITypeOK
  <1>5. HistTypeOK
    <2>1. 0 \in 0..MaxFaults /\ 0 \in 0..MaxCrashes
      BY ConstantsAssumption
    <2>2. /\ announced \in [Analyses -> SUBSET {"COMPLETED", "FAILED"}]
          /\ lost \in [Analyses -> SUBSET Slots]
      BY DEF Init
    <2>3. faults = 0 /\ crashes = 0 /\ panicked \in BOOLEAN
      BY DEF Init
    <2>4. QED
      BY <2>1, <2>2, <2>3 DEF HistTypeOK
  <1>6. RunInv /\ SavedInv
    BY DEF Init, RunInv, RunOK, SavedInv, SavedOK
  <1>7. JobInv
    BY DEF Init, JobInv, WorkerOK, NoJob, Jobs, Runs
  <1>8. CompletedMeansSaved /\ NoOrphanFindings /\ FinishedWhenFinal
    <2>1. \A a \in Analyses : /\ row[a].status = "ABSENT" /\ row[a].finished = FALSE
                              /\ findings[a] = {}
      BY DEF Init
    <2>2. IsFinal("ABSENT") = FALSE
      BY DEF IsFinal
    <2>3. FinishedWhenFinal
      BY <2>1, <2>2, Zenon DEF FinishedWhenFinal
    <2>4. QED
      BY <2>1, <2>3 DEF CompletedMeansSaved, NoOrphanFindings
  <1>9. QED
    BY <1>1, <1>2, <1>3, <1>4, <1>5, <1>6, <1>7, <1>8 DEF IInv, TypeOK

\* Every behaviour of the service keeps the inductive invariant.
THEOREM Inductive == Spec => []IInv
  <1>1. IInv /\ [Next]_vars => IInv'
    <2> SUFFICES ASSUME IInv, [Next]_vars PROVE IInv'
      OBVIOUS
    <2>1. TypeOK' /\ Grows
      BY TypeStep, GrowsStep
    <2>2. RunInv' /\ SavedInv' /\ JobInv'
      BY <2>1, RunInvStep, SavedInvStep, JobInvStep
    <2>3. CompletedMeansSaved' /\ NoOrphanFindings' /\ FinishedWhenFinal'
      BY <2>1, CompletedStep, OrphanStep, RowStep
    <2>4. QED
      BY <2>1, <2>2, <2>3 DEF IInv
  <1>2. QED
    BY InitIInv, <1>1, PTL DEF Spec

\* The columns, channels and labels keep their types; the job channel never
\* holds more than its capacity.
THEOREM TypeCorrect == Spec => []TypeOK
  <1>1. IInv => TypeOK
    BY DEF IInv
  <1>2. QED
    BY Inductive, <1>1, PTL

\* COMPLETED in the database means that every session has its row or that its
\* own INSERT failed, for any number of overlapping runs of the analysis,
\* failing statements and restarts.
THEOREM CompletedIsSaved == Spec => []CompletedMeansSaved
  <1>1. IInv => CompletedMeansSaved
    BY DEF IInv
  <1>2. QED
    BY Inductive, <1>1, PTL

\* No finding is ever without its session's row, although the database does
\* not enforce the foreign key.
THEOREM FindingsHaveSessions == Spec => []NoOrphanFindings
  <1>1. IInv => NoOrphanFindings
    BY DEF IInv
  <1>2. QED
    BY Inductive, <1>1, PTL

\* finished_at is set exactly while the status is final.
THEOREM FinishedIsFinal == Spec => []FinishedWhenFinal
  <1>1. IInv => FinishedWhenFinal
    BY DEF IInv
  <1>2. QED
    BY Inductive, <1>1, PTL

\* Whatever the AI workers hold or find in the queue was first tried to be
\* saved by the pipeline.
THEOREM QueuedIsSaved == Spec => []JobsArePersisted
  <1>1. IInv => JobsArePersisted
    <2> SUFFICES ASSUME IInv PROVE JobsArePersisted
      OBVIOUS
    <2>1. queue \in Seq(Jobs) /\ wjob \in [Workers -> Jobs \cup {NoJob}]
      BY DEF IInv, TypeOK, AITypeOK
    <2>2. \A i \in 1..Len(queue) : Settled(of[queue[i][1]], queue[i][2])
      BY DEF IInv, JobInv, JobOK
    <2>3. \A w \in Workers : wjob[w] # NoJob => Settled(of[wjob[w][1]], wjob[w][2])
      BY <2>1 DEF IInv, JobInv, WorkerOK, JobOK
    <2>4. QED
      BY <2>2, <2>3 DEF JobsArePersisted
  <1>2. QED
    BY Inductive, <1>1, PTL

-----------------------------------------------------------------------------
(***************************************************************************)
(* One start per analysis.                                                 *)
(*                                                                         *)
(* When no analysis is started a second time, one run owns everything that *)
(* is stored of an analysis (OnceInv).  If no statement fails either, the  *)
(* label of that run tells what a client reads (StoredInv), and the        *)
(* pipeline implements AnalysisLifecycle.                                  *)
(***************************************************************************)

Before == {"get", "parse", "read", "reassemble", "stats"}

-----------------------------------------------------------------------------
(* Whose data a step touches *)

\* A step of run r leaves the data of all other analyses and runs alone.
LEMMA RunStepLocal ==
  ASSUME IInv, NEW r \in Runs, RunStep(r)
  PROVE  /\ \A a \in Analyses \ {of[r]} :
              /\ row'[a] = row[a] /\ sess'[a] = sess[a] /\ ai'[a] = ai[a]
              /\ findings'[a] = findings[a] /\ lost'[a] = lost[a]
              /\ dumped'[a] = dumped[a] /\ report'[a] = report[a]
              /\ announced'[a] = announced[a]
         /\ \A q \in Runs \ {r} : order'[q] = order[q] /\ extra'[q] = extra[q]
  <1>0. DBTypeOK /\ FileTypeOK /\ RunTypeOK /\ HistTypeOK
    BY DEF IInv, TypeOK
  <1>1. \A a \in Analyses \ {of[r]} : row'[a] = row[a]
    BY <1>0 DEF RunStep, EnterStage, GetAnalysis, Parse, ReadPackets, Reassemble,
       CountStreams, Detect, InspectTLS, AssessRisk, DumpSessions, RunEngine,
       MergeReport, SaveRow, SaveFindings, EnqueueSession, Aggregate, Announce,
       Fail, AnnounceFail, WriteStatus, UpdateRow, dbVars, DBTypeOK
  <1>2. \A a \in Analyses \ {of[r]} : sess'[a] = sess[a] /\ ai'[a] = ai[a]
    BY <1>0 DEF RunStep, EnterStage, GetAnalysis, Parse, ReadPackets, Reassemble,
       CountStreams, Detect, InspectTLS, AssessRisk, DumpSessions, RunEngine,
       MergeReport, SaveRow, SaveFindings, EnqueueSession, Aggregate, Announce,
       Fail, AnnounceFail, PutSession, dbVars, DBTypeOK
  <1>3. \A a \in Analyses \ {of[r]} : findings'[a] = findings[a]
    BY <1>0 DEF RunStep, EnterStage, GetAnalysis, Parse, ReadPackets, Reassemble,
       CountStreams, Detect, InspectTLS, AssessRisk, DumpSessions, RunEngine,
       MergeReport, SaveRow, SaveFindings, EnqueueSession, Aggregate, Announce,
       Fail, AnnounceFail, PutFindings, dbVars, DBTypeOK
  <1>4. \A a \in Analyses \ {of[r]} : lost'[a] = lost[a] /\ announced'[a] = announced[a]
    BY <1>0 DEF RunStep, EnterStage, GetAnalysis, Parse, ReadPackets, Reassemble,
       CountStreams, Detect, InspectTLS, AssessRisk, DumpSessions, RunEngine,
       MergeReport, SaveRow, SaveFindings, EnqueueSession, Aggregate, Announce,
       Fail, AnnounceFail, Announcing, histVars, HistTypeOK
  <1>5. \A a \in Analyses \ {of[r]} : dumped'[a] = dumped[a] /\ report'[a] = report[a]
    BY <1>0 DEF RunStep, EnterStage, GetAnalysis, Parse, ReadPackets, Reassemble,
       CountStreams, Detect, InspectTLS, AssessRisk, DumpSessions, RunEngine,
       MergeReport, SaveRow, SaveFindings, EnqueueSession, Aggregate, Announce,
       Fail, AnnounceFail, fileVars, FileTypeOK
  <1>6. \A q \in Runs \ {r} : order'[q] = order[q] /\ extra'[q] = extra[q]
    BY <1>0 DEF RunStep, EnterStage, GetAnalysis, Parse, ReadPackets, Reassemble,
       CountStreams, Detect, InspectTLS, AssessRisk, DumpSessions, RunEngine,
       MergeReport, SaveRow, SaveFindings, EnqueueSession, Aggregate, Announce,
       Fail, AnnounceFail, RunTypeOK
  <1>7. QED
    BY <1>1, <1>2, <1>3, <1>4, <1>5, <1>6

\* A worker writes for its job's analysis only.
LEMMA WorkerStepLocal ==
  ASSUME IInv, NEW w \in Workers, WorkerStep(w)
  PROVE  /\ announced' = announced
         /\ \A a \in Analyses \ {of[wjob[w][1]]} :
              sess'[a] = sess[a] /\ ai'[a] = ai[a] /\ findings'[a] = findings[a]
  <1>0. DBTypeOK
    BY DEF IInv, TypeOK
  <1>1. announced' = announced
    BY DEF WorkerStep, TakeJob, CheckProvider, AssessmentFails, SaveAssessment,
       SaveJobFindings, histVars
  <1>2. \A a \in Analyses \ {of[wjob[w][1]]} : sess'[a] = sess[a] /\ ai'[a] = ai[a]
    BY <1>0 DEF WorkerStep, TakeJob, CheckProvider, AssessmentFails, SaveAssessment,
       SaveJobFindings, PutSession, dbVars, DBTypeOK
  <1>3. \A a \in Analyses \ {of[wjob[w][1]]} : findings'[a] = findings[a]
    BY <1>0 DEF WorkerStep, TakeJob, CheckProvider, AssessmentFails, SaveAssessment,
       SaveJobFindings, PutFindings, dbVars, DBTypeOK
  <1>4. QED
    BY <1>1, <1>2, <1>3

-----------------------------------------------------------------------------
(* One run owns an analysis: OnceInv *)

\* With a report of its own, a run only makes findings of its own.
LEMMA OwnFindings ==
  ASSUME NEW r \in Runs, NEW k \in Slots, extra[r] \in OwnReports(r)
  PROVE  \A f \in FindingsOf(r, k) :
           f.slot = k /\ f.stream = order[r][k] /\ f.by \in {NoRun, r}
  <1>1. CASE extra[r] = NoReport
    BY <1>1 DEF FindingsOf
  <1>2. CASE extra[r] # NoReport
    <2>1. extra[r].about = r /\ extra[r].by = r
      BY <1>2 DEF OwnReports
    <2>2. QED
      BY <1>2, <2>1 DEF FindingsOf
  <1>3. QED
    BY <1>1, <1>2

\* Nothing changes for the owner of an analysis that is left alone ...
LEMMA OwnFrame ==
  ASSUME NEW q \in Runs, OwnRun(q), of'[q] = of[q],
         \A p \in Runs : pc'[p] # "unused" /\ of'[p] = of[q] => p = q,
         pc'[q] \in Before => pc[q] \in Before,
         UNCHANGED <<sess[of[q]], ai[of[q]], findings[of[q]], lost[of[q]],
                     dumped[of[q]], report[of[q]], order[q], extra[q]>>
  PROVE  OwnRun(q)'
  <1>1. \A p \in Runs : pc'[p] # "unused" /\ of'[p] = of'[q] => p = q
    OBVIOUS
  <1>2. pc'[q] \in Before => Untouched(of[q])'
    BY DEF OwnRun, Before, Untouched
  <1>3. /\ dumped'[of[q]] \in {NoRun, q} /\ report'[of[q]] \in OwnReports(q)
        /\ extra'[q] \in OwnReports(q)
    BY DEF OwnRun
  <1>4. /\ \A k \in Slots : sess'[of[q]][k] \in {NoRow, order'[q][k]}
        /\ \A f \in findings'[of[q]] : f.stream = order'[q][f.slot] /\ f.by \in {NoRun, q}
    BY DEF OwnRun
  <1>5. QED
    BY <1>1, <1>2, <1>3, <1>4 DEF OwnRun, Before, Untouched, OwnReports

\* ... and what its own run adds is its own.
LEMMA OwnRunStep ==
  ASSUME IInv, NEW r \in Runs, OwnRun(r), RunStep(r)
  PROVE  OwnRun(r)'
  <1> DEFINE a == of[r]
  <1>0. DBTypeOK /\ FileTypeOK /\ RunTypeOK /\ HistTypeOK
    BY DEF IInv, TypeOK
  <1>1. a \in Analyses /\ pc[r] # "unused" /\ pc'[r] # "unused" /\ of' = of
    BY RunStepFrame, RunFacts
  <1>2. \A p \in Runs : pc'[p] # "unused" /\ of'[p] = of'[r] => p = r
    <2>1. \A p \in Runs \ {r} : pc'[p] = pc[p]
      BY RunStepFrame
    <2>2. QED
      BY <1>1, <2>1 DEF OwnRun
  <1>3. CASE CountStreams(r)
    <2>1. pc[r] = "stats" /\ pc'[r] = "detect"
      BY <1>0, <1>3 DEF CountStreams, Goto, RunTypeOK
    <2>2. UNCHANGED <<sess, ai, findings, lost, dumped, report, extra>>
      BY <1>3 DEF CountStreams, fileVars
    <2>3. \A k \in Slots : sess[a][k] = NoRow
      BY <2>1 DEF OwnRun, Untouched
    <2>4. findings[a] = {}
      BY <2>1 DEF OwnRun, Untouched
    <2>5. QED
      BY <1>1, <1>2, <2>1, <2>2, <2>3, <2>4 DEF OwnRun, OwnReports
  <1>4. CASE DumpSessions(r)
    <2>1. pc'[r] = "engine" /\ dumped'[a] = r
      BY <1>0, <1>1, <1>4 DEF DumpSessions, Goto, RunTypeOK, FileTypeOK
    <2>2. UNCHANGED <<sess, ai, findings, lost, report, extra, order>>
      BY <1>4 DEF DumpSessions, dbVars, histVars
    <2>3. QED
      BY <1>1, <1>2, <2>1, <2>2 DEF OwnRun, OwnReports
  <1>5. CASE RunEngine(r)
    <2>1. pc'[r] \notin Before
      BY <1>0, <1>5, LoopLabelCases DEF RunEngine, Goto, RunTypeOK, Before
    <2>2. dumped[a] = r
      <3>1. pc[r] = "engine"
        BY <1>5 DEF RunEngine, Goto
      <3>2. dumped[a] \in Runs
        BY <3>1 DEF IInv, RunInv, RunOK
      <3>3. NoRun \notin Runs
        BY ConstantsAssumption DEF NoRun, Runs
      <3>4. QED
        BY <3>2, <3>3 DEF OwnRun
    <2>3. report'[a] = report[a] \/ report'[a] = [about |-> dumped[a], by |-> r]
      BY <1>0, <1>1, <1>5 DEF RunEngine, FileTypeOK
    <2>4. UNCHANGED <<sess, ai, findings, lost, dumped, extra, order>>
      BY <1>5 DEF RunEngine, dbVars, histVars
    <2>5. QED
      BY <1>1, <1>2, <2>1, <2>2, <2>3, <2>4 DEF OwnRun, OwnReports, Before
  <1>6. CASE MergeReport(r)
    <2>1. pc'[r] \notin Before
      BY <1>0, <1>6, LoopLabelCases DEF MergeReport, Goto, RunTypeOK, Before
    <2>2. extra'[r] \in {extra[r], report[a]}
      BY <1>0, <1>6 DEF MergeReport, RunTypeOK
    <2>3. UNCHANGED <<sess, ai, findings, lost, dumped, report, order>>
      BY <1>6 DEF MergeReport, fileVars
    <2>4. QED
      BY <1>1, <1>2, <2>1, <2>2, <2>3 DEF OwnRun, OwnReports, Before
  <1>7. CASE SaveRow(r)
    <2>1. pc'[r] \notin Before /\ next[r] \in Slots
      BY <1>0, <1>7, LoopFacts DEF SaveRow, Goto, RunTypeOK, Before
    <2>2. \A k \in Slots : sess'[a][k] \in {sess[a][k], order[r][k]}
      BY <1>0, <1>1, <1>7, <2>1 DEF SaveRow, PutSession, DBTypeOK
    <2>3. UNCHANGED <<findings, dumped, report, extra, order>>
      BY <1>7 DEF SaveRow, fileVars
    <2>4. QED
      BY <1>1, <1>2, <2>1, <2>2, <2>3 DEF OwnRun, OwnReports, Before
  <1>8. CASE SaveFindings(r)
    <2>1. pc'[r] \notin Before /\ next[r] \in Slots
      BY <1>0, <1>8, LoopFacts DEF SaveFindings, Goto, RunTypeOK, Before
    <2>2. \A f \in FindingsOf(r, next[r]) : f.stream = order[r][f.slot] /\ f.by \in {NoRun, r}
      BY <2>1, OwnFindings DEF OwnRun
    <2>3. \A f \in findings'[a] : f \in findings[a] \/ f \in FindingsOf(r, next[r])
      BY <1>0, <1>1, <1>8 DEF SaveFindings, PutFindings, DBTypeOK
    <2>4. UNCHANGED <<sess, dumped, report, extra, order>>
      BY <1>8 DEF SaveFindings, fileVars
    <2>5. QED
      BY <1>1, <1>2, <2>1, <2>2, <2>3, <2>4 DEF OwnRun, OwnReports, Before
  <1>9. CASE ~(\/ CountStreams(r) \/ DumpSessions(r) \/ RunEngine(r)
               \/ MergeReport(r) \/ SaveRow(r) \/ SaveFindings(r))
    <2>1. UNCHANGED <<sess, ai, findings, lost, dumped, report, order, extra>>
      BY <1>9 DEF RunStep, EnterStage, GetAnalysis, Parse, ReadPackets, Reassemble,
         Detect, InspectTLS, AssessRisk, EnqueueSession, Aggregate, Announce, Fail,
         AnnounceFail, dbVars, fileVars, histVars
    <2>2. pc'[r] \in Before => pc[r] \in Before
      BY <1>0, <1>9, LoopLabelCases DEF RunStep, EnterStage, GetAnalysis, Parse,
         ReadPackets, Reassemble, Detect, InspectTLS, AssessRisk, EnqueueSession,
         Aggregate, Announce, Fail, AnnounceFail, Goto, RunTypeOK, Before
    <2>3. QED
      BY <1>1, <1>2, <2>1, <2>2, OwnFrame
  <1>10. QED
    BY <1>3, <1>4, <1>5, <1>6, <1>7, <1>8, <1>9

\* An assessment is written by a worker with a job of the same run.
LEMMA OwnWorkerStep ==
  ASSUME IInv, NEW w \in Workers, WorkerStep(w), NEW r \in Runs, OwnRun(r),
         pc[r] # "unused", wjob[w][1] = r, of[r] \in Analyses
  PROVE  OwnRun(r)'
  <1> DEFINE k == wjob[w][2]
  <1>0. DBTypeOK /\ UNCHANGED <<pc, of, order, extra, dumped, report, lost>>
    BY WorkerStepFrame DEF IInv, TypeOK, runVars, fileVars
  <1>1. CASE SaveAssessment(w) \/ SaveJobFindings(w)
    <2>1. k \in Slots /\ wjob[w] \in Jobs
      BY <1>1, JobFacts DEF SaveAssessment, SaveJobFindings, WorkerGoto
    <2>2. pc[r] \notin Before
      <3>1. Settled(of[r], k)
        BY <2>1 DEF IInv, JobInv, WorkerOK, JobOK
      <3>2. QED
        BY <2>1, <3>1 DEF OwnRun, Before, Untouched, Settled
    <2>3. \A i \in Slots : sess'[of[r]][i] \in {sess[of[r]][i], order[r][i]}
      BY <1>0, <1>1, <2>1 DEF SaveAssessment, SaveJobFindings, PutSession, DBTypeOK
    <2>4. \A f \in FindingsOf(r, k) : f.stream = order[r][f.slot] /\ f.by \in {NoRun, r}
      BY <2>1, OwnFindings DEF OwnRun
    <2>5. \A f \in findings'[of[r]] : f \in findings[of[r]] \/ f \in FindingsOf(r, k)
      BY <1>0, <1>1 DEF SaveAssessment, SaveJobFindings, PutFindings, DBTypeOK
    <2>6. QED
      BY <1>0, <2>2, <2>3, <2>4, <2>5 DEF OwnRun, OwnReports, Before
  <1>2. CASE ~(SaveAssessment(w) \/ SaveJobFindings(w))
    <2>1. UNCHANGED <<sess, ai, findings>>
      BY <1>2 DEF WorkerStep, TakeJob, CheckProvider, AssessmentFails, dbVars
    <2>2. QED
      BY <1>0, <2>1, OwnFrame DEF OwnRun
  <1>3. QED
    BY <1>1, <1>2

\* A step that stores nothing, and at most kills runs.
Quiet ==
  /\ UNCHANGED <<sess, ai, findings, lost, dumped, report, of, order, extra>>
  /\ \A q \in Runs : pc'[q] = pc[q] \/ (pc[q] # "unused" /\ pc'[q] = "dead")

LEMMA QuietOnce ==
  ASSUME OnceInv, Quiet
  PROVE  OnceInv'
  <1>1. \A q \in Runs : pc[q] = "unused" <=> pc'[q] = "unused"
    BY DEF Quiet
  <1>2. ASSUME NEW q \in Runs, pc[q] # "unused"
        PROVE  OwnRun(q)'
    <2>1. OwnRun(q)
      BY <1>2 DEF OnceInv
    <2>2. \A p \in Runs : pc'[p] # "unused" /\ of'[p] = of[q] => p = q
      BY <1>1, <2>1 DEF OwnRun, Quiet
    <2>3. pc'[q] \in Before => pc[q] \in Before
      BY DEF Quiet, Before
    <2>4. QED
      BY <2>1, <2>2, <2>3, OwnFrame DEF Quiet
  <1>3. ASSUME NEW q \in Runs, pc[q] = "unused"
        PROVE  extra'[q] = NoReport
    BY <1>3 DEF OnceInv, Quiet
  <1>4. ASSUME NEW a \in Analyses, NotStarted(a)'
        PROVE  Untouched(a)' /\ dumped'[a] = NoRun /\ report'[a] = NoReport
    <2>1. NotStarted(a)
      BY <1>1, <1>4 DEF NotStarted, Quiet
    <2>2. QED
      BY <2>1 DEF OnceInv, Untouched, Quiet
  <1>5. QED
    BY <1>1, <1>2, <1>3, <1>4 DEF OnceInv

\* Without a retry the invariant holds after every step.
LEMMA OnceStep ==
  ASSUME Retry = FALSE, IInv, OnceInv, [Next]_vars
  PROVE  OnceInv'
  <1>0. RunTypeOK
    BY DEF IInv, TypeOK
  <1>1. ASSUME NEW a \in Analyses, CreateAnalysis(a) PROVE OnceInv'
    BY <1>1, QuietOnce DEF CreateAnalysis, Quiet, fileVars, runVars, histVars
  <1>2. ASSUME NEW a \in Analyses, NEW r \in Runs, StartAnalysis(a, r) PROVE OnceInv'
    <2>1. /\ pc[r] = "unused" /\ pc'[r] = "get" /\ of'[r] = a
          /\ \A q \in Runs \ {r} : pc'[q] = pc[q] /\ of'[q] = of[q]
          /\ UNCHANGED <<sess, ai, findings, lost, dumped, report, order, extra>>
      BY <1>0, <1>2 DEF StartAnalysis, dbVars, fileVars, histVars, RunTypeOK
    <2>2. \A q \in Runs : of[q] # a
      BY <1>2 DEF StartAnalysis
    <2>3. OwnRun(r)'
      <3>1. Untouched(a) /\ dumped[a] = NoRun /\ report[a] = NoReport
        BY <2>2 DEF OnceInv, NotStarted
      <3>2. extra[r] = NoReport
        BY <2>1 DEF OnceInv
      <3>3. QED
        BY <2>1, <2>2, <3>1, <3>2 DEF OwnRun, Untouched, OwnReports
    <2>4. ASSUME NEW q \in Runs \ {r}, pc[q] # "unused" PROVE OwnRun(q)'
      <3>1. OwnRun(q)
        BY <2>4 DEF OnceInv
      <3>2. \A p \in Runs : pc'[p] # "unused" /\ of'[p] = of[q] => p = q
        BY <2>1, <2>2, <3>1 DEF OwnRun
      <3>3. QED
        BY <2>1, <3>1, <3>2, OwnFrame
    <2>5. ASSUME NEW b \in Analyses, NotStarted(b)'
          PROVE  Untouched(b)' /\ dumped'[b] = NoRun /\ report'[b] = NoReport
      <3>1. NotStarted(b)
        BY <2>1, <2>5 DEF NotStarted
      <3>2. QED
        BY <2>1, <3>1 DEF OnceInv, Untouched
    <2>6. \A q \in Runs \ {r} : pc[q] = "unused" => extra'[q] = NoReport
      BY <2>1 DEF OnceInv
    <2>7. QED
      BY <2>1, <2>3, <2>4, <2>5, <2>6 DEF OnceInv
  <1>3. ASSUME NEW r \in Runs, RunStep(r) PROVE OnceInv'
    <2>1. /\ of' = of /\ pc[r] # "unused" /\ pc'[r] # "unused" /\ of[r] \in Analyses
          /\ \A q \in Runs \ {r} : pc'[q] = pc[q]
      BY <1>3, RunStepFrame, RunFacts
    <2>2. OwnRun(r) /\ OwnRun(r)'
      BY <1>3, <2>1, OwnRunStep DEF OnceInv
    <2>3. ASSUME NEW q \in Runs \ {r}, pc[q] # "unused" PROVE OwnRun(q)'
      <3>1. OwnRun(q) /\ of[q] # of[r] /\ of[q] \in Analyses
        BY <2>1, <2>2, <2>3, RunFacts DEF OnceInv, OwnRun
      <3>2. \A p \in Runs : pc'[p] # "unused" /\ of'[p] = of[q] => p = q
        BY <2>1, <3>1 DEF OwnRun
      <3>3. QED
        BY <1>3, <2>1, <3>1, <3>2, OwnFrame, RunStepLocal
    <2>4. ASSUME NEW b \in Analyses, NotStarted(b)'
          PROVE  Untouched(b)' /\ dumped'[b] = NoRun /\ report'[b] = NoReport
      <3>1. NotStarted(b) /\ b # of[r]
        BY <2>1, <2>4 DEF NotStarted
      <3>2. QED
        BY <1>3, <3>1, RunStepLocal DEF OnceInv, Untouched
    <2>5. \A q \in Runs : pc'[q] = "unused" => extra'[q] = NoReport
      BY <1>3, <2>1, RunStepLocal DEF OnceInv
    <2>6. QED
      BY <2>1, <2>2, <2>3, <2>4, <2>5 DEF OnceInv
  <1>4. ASSUME NEW w \in Workers, WorkerStep(w) PROVE OnceInv'
    <2>0. UNCHANGED <<pc, of, order, extra, dumped, report, lost>>
      BY <1>4, WorkerStepFrame DEF runVars, fileVars
    <2>1. CASE SaveAssessment(w) \/ SaveJobFindings(w)
      <3>0. /\ wjob[w][1] \in Runs /\ wjob[w] \in Jobs
            /\ of[wjob[w][1]] \in Analyses
        BY <2>1, JobFacts DEF SaveAssessment, SaveJobFindings, WorkerGoto
      <3>1. PICK r \in Runs : r = wjob[w][1] /\ of[r] \in Analyses
        BY <3>0
      <3>2. pc[r] # "unused"
        BY <3>0, <3>1 DEF IInv, JobInv, WorkerOK, JobOK
      <3>3. OwnRun(r) /\ OwnRun(r)'
        <4>1. OwnRun(r)
          BY <3>2 DEF OnceInv
        <4>2. QED
          BY <1>4, <3>1, <3>2, <4>1, OwnWorkerStep
      <3>4. ASSUME NEW q \in Runs \ {r}, pc[q] # "unused" PROVE OwnRun(q)'
        <4>1. OwnRun(q) /\ of[q] # of[r] /\ of[q] \in Analyses
          BY <3>2, <3>3, <3>4, RunFacts DEF OnceInv, OwnRun
        <4>2. QED
          BY <1>4, <2>0, <3>1, <4>1, OwnFrame, WorkerStepLocal DEF OwnRun
      <3>5. ASSUME NEW b \in Analyses, NotStarted(b)'
            PROVE  Untouched(b)' /\ dumped'[b] = NoRun /\ report'[b] = NoReport
        <4>1. NotStarted(b) /\ b # of[r]
          BY <2>0, <3>1, <3>2, <3>5 DEF NotStarted
        <4>2. QED
          BY <1>4, <2>0, <3>1, <4>1, WorkerStepLocal DEF OnceInv, Untouched
      <3>6. \A q \in Runs : pc[q] = "unused" => extra'[q] = NoReport
        BY <2>0 DEF OnceInv
      <3>7. QED
        BY <2>0, <3>3, <3>4, <3>5, <3>6 DEF OnceInv
    <2>2. CASE ~(SaveAssessment(w) \/ SaveJobFindings(w))
      <3>1. UNCHANGED <<sess, ai, findings>>
        BY <1>4, <2>2 DEF WorkerStep, TakeJob, CheckProvider, AssessmentFails, dbVars
      <3>2. QED
        BY <2>0, <3>1, QuietOnce DEF Quiet
    <2>3. QED
      BY <2>1, <2>2
  <1>5. ASSUME NEW r \in Runs, GlobalStep(r) PROVE OnceInv'
    <2>1. UNCHANGED pc \/ ProcessRestarts
      BY <1>5, GlobalStepFrame
    <2>2. Quiet
      BY <1>0, <1>5, <2>1, GlobalStepFrame DEF Quiet, ProcessRestarts, fileVars
    <2>3. QED
      BY <2>2, QuietOnce
  <1>6. CASE HealthCheck
    BY <1>6, QuietOnce DEF HealthCheck, Quiet, dbVars, fileVars, runVars, histVars
  <1>7. CASE Crash
    BY <1>0, <1>7, QuietOnce DEF Crash, Quiet, ProcessRestarts, dbVars, fileVars
  <1>8. CASE UNCHANGED vars
    BY <1>8, QuietOnce DEF vars, Quiet, dbVars, fileVars, runVars, histVars
  <1>9. QED
    BY <1>1, <1>2, <1>3, <1>4, <1>5, <1>6, <1>7, <1>8 DEF Next

-----------------------------------------------------------------------------
(* What a step writes when no statement fails *)

LEMMA NoFault ==
  ASSUME MaxFaults = 0, TypeOK
  PROVE  ~DBFault
  BY DEF TypeOK, HistTypeOK, DBFault

\* Every update of a row is done; it changes the status as it says.
LEMMA RowWritten ==
  ASSUME MaxFaults = 0, IInv, NEW a \in Analyses
  PROVE  /\ \A s, e : WriteStatus(a, s, e) => row'[a].status = s
         /\ UpdateRow(a, AggregateRow(row[a])) => row'[a].status = "COMPLETED"
         /\ UpdateRow(a, [row[a] EXCEPT !.total = N]) => row'[a].status = row[a].status
         /\ \A b : UpdateRow(a, [row[a] EXCEPT !.global = b])
                     => row'[a].status = row[a].status
  <1>1. row \in [Analyses -> RowType] /\ row[a] \in RowType
    BY DEF IInv, TypeOK, DBTypeOK
  <1>2. \A new : UpdateRow(a, new) => row'[a] = new
    BY <1>1, NoFault DEF UpdateRow, IInv
  <1>3. \A s, e : StatusRow(row[a], s, e).status = s
    BY <1>1 DEF StatusRow, RowType
  <1>4. AggregateRow(row[a]).status = "COMPLETED"
    BY <1>1 DEF AggregateRow, RowType
  <1>5. /\ [row[a] EXCEPT !.total = N].status = row[a].status
        /\ \A b : [row[a] EXCEPT !.global = b].status = row[a].status
    BY <1>1 DEF RowType
  <1>6. \A s, e : WriteStatus(a, s, e) => row'[a].status = s
    BY <1>2, <1>3, Zenon DEF WriteStatus
  <1>7. UpdateRow(a, AggregateRow(row[a])) => row'[a].status = "COMPLETED"
    BY <1>2, <1>4, Zenon
  <1>8. /\ UpdateRow(a, [row[a] EXCEPT !.total = N]) => row'[a].status = row[a].status
        /\ \A b : UpdateRow(a, [row[a] EXCEPT !.global = b])
                     => row'[a].status = row[a].status
    BY <1>2, <1>5, Zenon
  <1>9. QED
    BY <1>6, <1>7, <1>8

\* The labels a run goes through without writing its status.
SilentMoves ==
  {<<"get", "parse">>, <<"read", "reassemble">>, <<"read", "fail">>,
   <<"stats", "detect">>, <<"dump", "engine">>, <<"engine", "merge">>,
   <<"engine", "row">>, <<"engine", "aggregate">>, <<"merge", "row">>,
   <<"merge", "aggregate">>, <<"row", "findings">>, <<"findings", "enqueue">>,
   <<"enqueue", "row">>, <<"enqueue", "aggregate">>, <<"announce", "done">>,
   <<"announceFail", "done">>}

\* The labels between which it does, and what it writes.
StatusMoves ==
  {<<"parse", "read", "PARSING">>, <<"reassemble", "stats", "REASSEMBLING">>,
   <<"detect", "tls", "DETECTING_PROTOCOLS">>, <<"tls", "risk", "ANALYZING_TLS">>,
   <<"risk", "dump", "ASSESSING_RISK">>, <<"aggregate", "announce", "COMPLETED">>,
   <<"fail", "announceFail", "FAILED">>}

LEMMA RunMoves ==
  ASSUME MaxFaults = 0, IInv, NEW r \in Runs, RunStep(r)
  PROVE  \/ /\ <<pc[r], pc'[r]>> \in SilentMoves
            /\ row'[of[r]].status = row[of[r]].status
         \/ <<pc[r], pc'[r], row'[of[r]].status>> \in StatusMoves
  <1>0. RunTypeOK /\ of[r] \in Analyses
    BY RunStepFrame, RunFacts DEF IInv, TypeOK
  <1>1. CASE Parse(r) \/ Reassemble(r) \/ Detect(r) \/ InspectTLS(r) \/ AssessRisk(r)
    BY <1>0, <1>1, RowWritten DEF Parse, Reassemble, Detect, InspectTLS, AssessRisk,
       EnterStage, Goto, RunTypeOK, StatusMoves
  <1>2. CASE Fail(r)
    BY <1>0, <1>2, RowWritten DEF Fail, Goto, RunTypeOK, StatusMoves
  <1>3. CASE Aggregate(r)
    BY <1>0, <1>3, RowWritten DEF Aggregate, Goto, RunTypeOK, StatusMoves
  <1>4. CASE CountStreams(r)
    <2>1. row'[of[r]].status = row[of[r]].status
      BY <1>0, <1>4, RowWritten, Zenon DEF CountStreams
    <2>2. <<pc[r], pc'[r]>> \in SilentMoves
      BY <1>0, <1>4 DEF CountStreams, Goto, RunTypeOK, SilentMoves
    <2>3. QED
      BY <2>1, <2>2
  <1>5. CASE MergeReport(r)
    <2>1. row'[of[r]].status = row[of[r]].status
      BY <1>0, <1>5, RowWritten, Zenon DEF MergeReport
    <2>2. <<pc[r], pc'[r]>> \in SilentMoves
      BY <1>0, <1>5, LoopLabelCases DEF MergeReport, Goto, RunTypeOK, SilentMoves
    <2>3. QED
      BY <2>1, <2>2
  <1>6. CASE \/ GetAnalysis(r) \/ ReadPackets(r) \/ DumpSessions(r) \/ RunEngine(r)
             \/ SaveRow(r) \/ SaveFindings(r) \/ EnqueueSession(r) \/ Announce(r)
             \/ AnnounceFail(r)
    <2>1. UNCHANGED row
      BY <1>6 DEF GetAnalysis, ReadPackets, DumpSessions, RunEngine, SaveRow,
         SaveFindings, EnqueueSession, Announce, AnnounceFail, dbVars
    <2>2. ~DBFault
      BY NoFault DEF IInv
    <2>3. <<pc[r], pc'[r]>> \in SilentMoves
      BY <1>0, <1>6, <2>2, LoopLabelCases DEF GetAnalysis, ReadPackets, DumpSessions,
         RunEngine, SaveRow, SaveFindings, EnqueueSession, Announce, AnnounceFail,
         Goto, RunTypeOK, SilentMoves
    <2>4. QED
      BY <2>1, <2>3
  <1>7. QED
    BY <1>1, <1>2, <1>3, <1>4, <1>5, <1>6 DEF RunStep

\* The answer to a global assessment changes no status.
LEMMA GlobalStepStatus ==
  ASSUME MaxFaults = 0, IInv, NEW r \in Runs, GlobalStep(r)
  PROVE  \A a \in Analyses : row'[a].status = row[a].status
  <1>1. CASE GlobalAnswer(r)
    <2>1. of[r] \in Analyses
      BY <1>1, RunFacts DEF GlobalAnswer, GlobalGoto
    <2>2. \/ UNCHANGED row
          \/ UpdateRow(of[r], [row[of[r]] EXCEPT !.global = TRUE])
      BY <1>1 DEF GlobalAnswer
    <2>3. row'[of[r]].status = row[of[r]].status
      BY <2>1, <2>2, RowWritten, Zenon
    <2>4. \A a \in Analyses \ {of[r]} : row'[a] = row[a]
      BY <2>2 DEF UpdateRow, IInv, TypeOK, DBTypeOK
    <2>5. QED
      BY <2>3, <2>4
  <1>2. CASE ~GlobalAnswer(r)
    BY <1>2 DEF GlobalStep, GlobalCheck, GlobalGet, GlobalCall, dbVars
  <1>3. QED
    BY <1>1, <1>2

\* Only SaveRow makes a session visible, ...
LEMMA RunStepShows ==
  ASSUME MaxFaults = 0, IInv, NEW r \in Runs, RunStep(r)
  PROVE  /\ lost' = lost
         /\ \/ UNCHANGED <<sess, ai>> /\ pc[r] # "row"
            \/ /\ pc[r] = "row" /\ pc'[r] = "findings" /\ next' = next
               /\ PutSession(of[r], next[r], order[r][next[r]], FALSE)
  <1>0. RunTypeOK
    BY DEF IInv, TypeOK
  <1>1. CASE SaveRow(r)
    BY <1>0, <1>1, NoFault DEF SaveRow, Goto, RunTypeOK, IInv
  <1>2. CASE ~SaveRow(r)
    BY <1>0, <1>2 DEF RunStep, EnterStage, GetAnalysis, Parse, ReadPackets,
       Reassemble, CountStreams, Detect, InspectTLS, AssessRisk, DumpSessions,
       RunEngine, MergeReport, SaveFindings, EnqueueSession, Aggregate, Announce,
       Fail, AnnounceFail, Goto, dbVars, histVars
  <1>3. QED
    BY <1>1, <1>2

\* ... as a worker only writes a session that has a row.
LEMMA WorkerStepShows ==
  ASSUME IInv, StoredInv, NEW w \in Workers, WorkerStep(w)
  PROVE  /\ \A a \in Analyses, k \in Slots : sess'[a][k] = NoRow <=> sess[a][k] = NoRow
         /\ \/ UNCHANGED ai
            \/ \E a \in Analyses, k \in Slots :
                 sess[a][k] # NoRow /\ ai' = [ai EXCEPT ![a] = @ \cup {k}]
  <1>1. CASE SaveAssessment(w)
    <2> DEFINE r == wjob[w][1]
               k == wjob[w][2]
    <2>1. wjob[w] \in Jobs /\ k \in Slots /\ of[r] \in Analyses /\ order[r][k] \in Streams
      BY <1>1, JobFacts DEF SaveAssessment, WorkerGoto
    <2>2. Settled(of[r], k)
      BY <2>1 DEF IInv, JobInv, WorkerOK, JobOK
    <2>3. sess[of[r]][k] # NoRow
      BY <2>1, <2>2 DEF Settled, StoredInv
    <2>4. \/ UNCHANGED <<sess, ai>>
          \/ PutSession(of[r], k, order[r][k], TRUE)
      BY <1>1 DEF SaveAssessment
    <2>5. order[r][k] # NoRow
      BY <2>1, ConstantsAssumption DEF Streams, NoRow
    <2> HIDE DEF r, k
    <2>6. QED
      BY <2>1, <2>3, <2>4, <2>5 DEF PutSession, IInv, TypeOK, DBTypeOK
  <1>2. CASE ~SaveAssessment(w)
    BY <1>2 DEF WorkerStep, TakeJob, CheckProvider, AssessmentFails, SaveJobFindings,
       dbVars
  <1>3. QED
    BY <1>1, <1>2

-----------------------------------------------------------------------------
(* The label of the run tells what is stored: StoredInv *)

LEMMA StoredFrame ==
  ASSUME NEW q \in Runs, StoredOK(q), of'[q] = of[q], next'[q] = next[q],
         announced'[of[q]] = announced[of[q]],
         row'[of[q]].status = row[of[q]].status,
         pc'[q] = pc[q] \/ (pc[q] # "done" /\ pc'[q] = "dead"),
         \A k \in Slots : sess[of[q]][k] = NoRow => sess'[of[q]][k] = NoRow
  PROVE  StoredOK(q)'
  <1>1. StatusFits(q)'
    BY DEF StoredOK, StatusFits
  <1>2. UnsavedAhead(q)'
    BY DEF StoredOK, UnsavedAhead
  <1>3. announced'[of'[q]] \subseteq IF pc'[q] = "done" THEN {row'[of'[q]].status} ELSE {}
    BY DEF StoredOK
  <1>4. QED
    BY <1>1, <1>2, <1>3 DEF StoredOK

\* The run that moves writes the status its next label asks for, shows its
\* sessions in order, and announces what it has written.
LEMMA StoredRunStep ==
  ASSUME MaxFaults = 0, IInv, NEW r \in Runs, OwnRun(r), StoredOK(r), RunStep(r)
  PROVE  StoredOK(r)'
  <1> DEFINE a == of[r]
  <1>0. DBTypeOK /\ RunTypeOK /\ HistTypeOK
    BY DEF IInv, TypeOK
  <1>1. a \in Analyses /\ of' = of
    BY RunStepFrame, RunFacts
  <1>2. StatusFits(r)'
    BY <1>1, RunMoves DEF StoredOK, StatusFits, SilentMoves, StatusMoves
  <1>3. UnsavedAhead(r)'
    <2>1. CASE pc[r] = "row"
      <3>1. next[r] \in Slots
        BY <2>1, LoopFacts
      <3>2. /\ pc'[r] = "findings" /\ next'[r] = next[r]
            /\ PutSession(a, next[r], order[r][next[r]], FALSE)
        BY <2>1, RunStepShows
      <3>3. \A k \in Slots : k # next[r] => sess'[a][k] = sess[a][k]
        BY <1>0, <1>1, <3>1, <3>2 DEF PutSession, DBTypeOK
      <3>4. \A k \in Slots : k > next[r] => k >= next[r] /\ k # next[r]
        BY <3>1, ConstantsAssumption DEF Slots
      <3>5. QED
        BY <1>1, <2>1, <3>2, <3>3, <3>4 DEF StoredOK, UnsavedAhead
    <2>2. CASE pc[r] # "row"
      <3>1. sess' = sess
        BY <2>2, RunStepShows
      <3>2. CASE pc[r] \in {"stats", "detect", "tls", "risk", "dump", "engine", "merge"}
        <4>1. \A k \in Slots : sess[a][k] = NoRow
          BY <3>2 DEF OwnRun, Untouched, StoredOK, UnsavedAhead
        <4>2. QED
          BY <1>1, <3>1, <4>1 DEF UnsavedAhead
      <3>3. CASE pc[r] = "findings"
        <4>1. pc'[r] = "enqueue"
          BY <3>3, RunMoves DEF SilentMoves, StatusMoves
        <4>2. next' = next
          BY <3>3 DEF RunStep, EnterStage, GetAnalysis, Parse, ReadPackets, Reassemble,
             CountStreams, Detect, InspectTLS, AssessRisk, DumpSessions, RunEngine,
             MergeReport, SaveRow, SaveFindings, EnqueueSession, Aggregate, Announce,
             Fail, AnnounceFail, Goto
        <4>3. QED
          BY <1>1, <3>1, <3>3, <4>1, <4>2 DEF StoredOK, UnsavedAhead
      <3>4. CASE pc[r] = "enqueue"
        <4>1. pc'[r] \in {"row", "aggregate"}
          BY <3>4, RunMoves DEF SilentMoves, StatusMoves
        <4>2. next'[r] = next[r] + 1 /\ next[r] \in Slots
          BY <1>0, <3>4, LoopFacts DEF RunStep, EnterStage, GetAnalysis, Parse,
             ReadPackets, Reassemble, CountStreams, Detect, InspectTLS, AssessRisk,
             DumpSessions, RunEngine, MergeReport, SaveRow, SaveFindings,
             EnqueueSession, Aggregate, Announce, Fail, AnnounceFail, Goto, RunTypeOK
        <4>3. \A k \in Slots : k >= next[r] + 1 => k > next[r]
          BY <4>2, ConstantsAssumption DEF Slots
        <4>4. QED
          BY <1>1, <3>1, <3>4, <4>1, <4>2, <4>3 DEF StoredOK, UnsavedAhead
      <3>5. CASE pc[r] \notin {"row", "stats", "detect", "tls", "risk", "dump", "engine",
                               "merge", "findings", "enqueue"}
        <4>1. pc'[r] \notin {"row", "detect", "tls", "risk", "dump", "engine",
                             "merge", "findings", "enqueue"}
          BY <3>5, RunMoves DEF SilentMoves, StatusMoves
        <4>2. QED
          BY <4>1 DEF UnsavedAhead
      <3>6. QED
        BY <2>2, <3>2, <3>3, <3>4, <3>5
    <2>3. QED
      BY <2>1, <2>2
  <1>4. announced'[a] \subseteq IF pc'[r] = "done" THEN {row'[a].status} ELSE {}
    <2>1. pc[r] # "done" /\ announced[a] = {}
      BY RunMoves DEF SilentMoves, StatusMoves, StoredOK
    <2>2. CASE pc[r] \in {"announce", "announceFail"}
      <3>1. /\ pc'[r] = "done" /\ row'[a].status = row[a].status
        BY <2>2, RunMoves DEF SilentMoves, StatusMoves
      <3>2. CASE Announce(r)
        <4>1. announced'[a] = {"COMPLETED"} /\ pc[r] = "announce"
          BY <1>0, <1>1, <2>1, <3>2 DEF Announce, Announcing, Goto, HistTypeOK
        <4>2. QED
          BY <3>1, <4>1 DEF StoredOK, StatusFits
      <3>3. CASE AnnounceFail(r)
        <4>1. announced'[a] = {"FAILED"} /\ pc[r] = "announceFail"
          BY <1>0, <1>1, <2>1, <3>3 DEF AnnounceFail, Announcing, Goto, HistTypeOK
        <4>2. QED
          BY <3>1, <4>1 DEF StoredOK, StatusFits
      <3>4. QED
        BY <2>2, <3>2, <3>3 DEF RunStep, EnterStage, GetAnalysis, Parse, ReadPackets,
           Reassemble, CountStreams, Detect, InspectTLS, AssessRisk, DumpSessions,
           RunEngine, MergeReport, SaveRow, SaveFindings, EnqueueSession, Aggregate,
           Fail, Goto
    <2>3. CASE pc[r] \notin {"announce", "announceFail"}
      <3>1. announced' = announced
        BY <2>3 DEF RunStep, EnterStage, GetAnalysis, Parse, ReadPackets, Reassemble,
           CountStreams, Detect, InspectTLS, AssessRisk, DumpSessions, RunEngine,
           MergeReport, SaveRow, SaveFindings, EnqueueSession, Aggregate, Announce,
           Fail, AnnounceFail, Goto, histVars
      <3>2. QED
        BY <2>1, <3>1
    <2>4. QED
      BY <2>2, <2>3
  <1>5. QED
    BY <1>1, <1>2, <1>3, <1>4 DEF StoredOK

\* What the invariant says of the tables themselves.
TablesOK ==
  \A a \in Analyses : lost[a] = {} /\ \A k \in ai[a] : sess[a][k] # NoRow

LEMMA TablesStep ==
  ASSUME MaxFaults = 0, IInv, StoredInv, [Next]_vars, Grows
  PROVE  TablesOK'
  <1>0. DBTypeOK
    BY DEF IInv, TypeOK
  <1>1. \A a \in Analyses : ai[a] \subseteq Slots
    BY <1>0 DEF DBTypeOK
  <1>2. \A a \in Analyses : \A k \in ai[a] : sess'[a][k] # NoRow
    BY <1>1 DEF StoredInv, Grows
  <1>3. lost' = lost
    <2>1. ASSUME NEW r \in Runs, RunStep(r) PROVE lost' = lost
      BY <2>1, RunStepShows
    <2>2. CASE ~\E r \in Runs : RunStep(r)
      BY <2>2, WorkerStepFrame, GlobalStepFrame
         DEF Next, CreateAnalysis, StartAnalysis, HealthCheck, Crash, vars, histVars
    <2>3. QED
      BY <2>1, <2>2
  <1>4. \A a \in Analyses : \A k \in ai'[a] : k \in ai[a] \/ sess'[a][k] # NoRow
    <2>1. ASSUME NEW r \in Runs, RunStep(r)
          PROVE  \A a \in Analyses : ai'[a] \subseteq ai[a]
      <3>1. CASE UNCHANGED ai
        BY <3>1
      <3>2. CASE PutSession(of[r], next[r], order[r][next[r]], FALSE)
        BY <1>0, <3>2 DEF PutSession, DBTypeOK
      <3>3. QED
        BY <2>1, <3>1, <3>2, RunStepShows
    <2>2. ASSUME NEW w \in Workers, WorkerStep(w)
          PROVE  \A a \in Analyses : \A k \in ai'[a] : k \in ai[a] \/ sess'[a][k] # NoRow
      <3>1. CASE UNCHANGED ai
        BY <3>1
      <3>2. ASSUME NEW b \in Analyses, NEW i \in Slots, sess[b][i] # NoRow,
                   ai' = [ai EXCEPT ![b] = @ \cup {i}]
            PROVE  \A a \in Analyses : \A k \in ai'[a] : k \in ai[a] \/ sess'[a][k] # NoRow
        <4>1. sess'[b][i] # NoRow
          BY <3>2 DEF Grows
        <4>2. \A a \in Analyses : \A k \in ai'[a] : k \in ai[a] \/ (a = b /\ k = i)
          BY <1>0, <3>2 DEF DBTypeOK
        <4>3. QED
          BY <4>1, <4>2
      <3>3. QED
        BY <2>2, <3>1, <3>2, WorkerStepShows
    <2>3. CASE ~(\E r \in Runs : RunStep(r)) /\ ~(\E w \in Workers : WorkerStep(w))
      <3>1. ai' = ai
        BY <2>3, GlobalStepFrame
           DEF Next, CreateAnalysis, StartAnalysis, HealthCheck, Crash, vars, dbVars
      <3>2. QED
        BY <3>1
    <2>4. QED
      BY <2>1, <2>2, <2>3
  <1>5. QED
    BY <1>2, <1>3, <1>4 DEF TablesOK, StoredInv

\* Without a retry and a failing statement the invariant holds after every step.
LEMMA StoredStep ==
  ASSUME Retry = FALSE, MaxFaults = 0, IInv, OnceInv, StoredInv, [Next]_vars, Grows
  PROVE  StoredInv'
  <1> DEFINE Goal ==
        /\ \A q \in Runs : pc'[q] # "unused" => StoredOK(q)'
        /\ \A a \in Analyses : NotStarted(a)' =>
             row'[a].status \in {"ABSENT", "QUEUED"} /\ announced'[a] = {}
  <1>0. DBTypeOK /\ RunTypeOK
    BY DEF IInv, TypeOK
  <1>f. ASSUME NEW q \in Runs, pc[q] # "unused" PROVE of[q] \in Analyses /\ StoredOK(q)
    BY <1>f, RunFacts DEF StoredInv
  <1>a. ASSUME \A a \in Analyses : row'[a].status = row[a].status
                                   /\ announced'[a] = announced[a],
               \A a \in Analyses, k \in Slots : sess[a][k] = NoRow => sess'[a][k] = NoRow,
               UNCHANGED <<of, next>>,
               \A q \in Runs : \/ pc'[q] = pc[q]
                               \/ pc[q] \notin {"unused", "done"} /\ pc'[q] = "dead"
        PROVE  Goal
    <2>1. \A q \in Runs : pc'[q] # "unused" <=> pc[q] # "unused"
      BY <1>a
    <2>2. ASSUME NEW q \in Runs, pc'[q] # "unused" PROVE StoredOK(q)'
      <3>1. of[q] \in Analyses /\ StoredOK(q)
        BY <2>1, <2>2, <1>f
      <3>2. QED
        BY <1>a, <3>1, StoredFrame
    <2>3. \A a \in Analyses : NotStarted(a)' => NotStarted(a)
      BY <1>a, <2>1 DEF NotStarted
    <2>4. QED
      BY <1>a, <2>2, <2>3 DEF StoredInv
  <1> HIDE DEF Goal
  <1>1. ASSUME NEW a \in Analyses, CreateAnalysis(a) PROVE Goal
    <2>1. /\ row[a].status = "ABSENT" /\ row'[a].status = "QUEUED"
          /\ \A b \in Analyses \ {a} : row'[b] = row[b]
          /\ UNCHANGED <<sess, announced, pc, of, next>>
      BY <1>0, <1>1 DEF CreateAnalysis, DBTypeOK, RowType, runVars, histVars
    <2>2. ASSUME NEW q \in Runs, pc'[q] # "unused" PROVE StoredOK(q)'
      <3>1. of[q] \in Analyses /\ StoredOK(q) /\ of[q] # a
        BY <2>1, <2>2, <1>f DEF StoredOK, StatusFits
      <3>2. QED
        BY <2>1, <3>1, StoredFrame
    <2>3. QED
      BY <2>1, <2>2 DEF StoredInv, NotStarted, Goal
  <1>2. ASSUME NEW a \in Analyses, NEW r \in Runs, StartAnalysis(a, r) PROVE Goal
    <2>1. /\ pc[r] = "unused" /\ pc'[r] = "get" /\ of'[r] = a
          /\ \A q \in Runs \ {r} : pc'[q] = pc[q] /\ of'[q] = of[q]
          /\ UNCHANGED <<row, sess, next, announced>>
      BY <1>0, <1>2 DEF StartAnalysis, dbVars, histVars, RunTypeOK
    <2>2. StoredOK(r)'
      <3>1. row[a].status = "QUEUED" /\ announced[a] = {}
        BY <1>2 DEF StartAnalysis, StoredInv, NotStarted
      <3>2. QED
        BY <2>1, <3>1 DEF StoredOK, StatusFits, UnsavedAhead
    <2>3. ASSUME NEW q \in Runs \ {r}, pc'[q] # "unused" PROVE StoredOK(q)'
      BY <2>1, <2>3, <1>f, StoredFrame
    <2>4. \A b \in Analyses : NotStarted(b)' => NotStarted(b)
      BY <2>1 DEF NotStarted
    <2>5. QED
      BY <2>1, <2>2, <2>3, <2>4 DEF StoredInv, Goal
  <1>3. ASSUME NEW r \in Runs, RunStep(r) PROVE Goal
    <2>1. /\ of' = of /\ pc[r] # "unused" /\ pc'[r] # "unused"
          /\ \A q \in Runs \ {r} : pc'[q] = pc[q] /\ next'[q] = next[q]
      BY <1>3, RunStepFrame
    <2>2. OwnRun(r) /\ of[r] \in Analyses /\ StoredOK(r)
      BY <2>1, <1>f DEF OnceInv
    <2>3. StoredOK(r)'
      BY <1>3, <2>2, StoredRunStep
    <2>4. ASSUME NEW q \in Runs \ {r}, pc'[q] # "unused" PROVE StoredOK(q)'
      <3>1. of[q] \in Analyses \ {of[r]} /\ StoredOK(q)
        BY <2>1, <2>2, <2>4, <1>f DEF OwnRun
      <3>2. QED
        BY <1>3, <2>1, <3>1, RunStepLocal, StoredFrame
    <2>5. ASSUME NEW a \in Analyses, NotStarted(a)'
          PROVE  row'[a].status \in {"ABSENT", "QUEUED"} /\ announced'[a] = {}
      <3>1. NotStarted(a) /\ a # of[r]
        BY <2>1, <2>5 DEF NotStarted
      <3>2. QED
        BY <1>3, <3>1, RunStepLocal DEF StoredInv
    <2>6. QED
      BY <2>3, <2>4, <2>5 DEF Goal
  <1>4. ASSUME NEW w \in Workers, WorkerStep(w) PROVE Goal
    BY <1>4, <1>a, WorkerStepFrame, WorkerStepLocal, WorkerStepShows DEF runVars
  <1>5. ASSUME NEW r \in Runs, GlobalStep(r) PROVE Goal
    <2>1. \A a \in Analyses : row'[a].status = row[a].status
      BY <1>5, GlobalStepStatus
    <2>2. announced' = announced
      BY <1>5 DEF GlobalStep, GlobalCheck, GlobalGet, GlobalCall, GlobalAnswer, histVars
    <2>3. \A q \in Runs : \/ pc'[q] = pc[q]
                          \/ pc[q] \notin {"unused", "done"} /\ pc'[q] = "dead"
      BY <1>0, <1>5, GlobalStepFrame DEF ProcessRestarts, RunTypeOK
    <2>4. QED
      BY <1>5, <2>1, <2>2, <2>3, <1>a, GlobalStepFrame
  <1>6. ASSUME HealthCheck PROVE Goal
    BY <1>6, <1>a DEF HealthCheck, dbVars, runVars, histVars
  <1>7. ASSUME Crash PROVE Goal
    BY <1>0, <1>7, <1>a DEF Crash, ProcessRestarts, dbVars, RunTypeOK
  <1>8. ASSUME UNCHANGED vars PROVE Goal
    BY <1>8, <1>a DEF vars, dbVars, runVars, histVars
  <1>9. Goal
    BY <1>1, <1>2, <1>3, <1>4, <1>5, <1>6, <1>7, <1>8 DEF Next
  <1>10. QED
    BY <1>9, TablesStep DEF StoredInv, TablesOK, Goal

-----------------------------------------------------------------------------
(* The refinement: what the tables show moves as AnalysisLifecycle says *)

\* The mapping of AnalysisPipeline's Lifecycle instance.
Status  == [a \in Analyses |-> row[a].status]
Visible == [a \in Analyses |-> {k \in Slots : sess[a][k] # NoRow}]

\* Nothing that a client reads has changed.
LEMMA LifecycleStutter ==
  ASSUME UNCHANGED <<Status, Visible, ai>>
  PROVE  UNCHANGED Lifecycle!vars
  BY DEF Lifecycle!vars, Status, Visible, NoRow

\* A status of one analysis is written and no session.
LEMMA LifecycleMoves ==
  ASSUME UNCHANGED <<Visible, ai>>, NEW a \in Analyses, NEW s,
         Status' = [Status EXCEPT ![a] = s],
         \/ \E i \in 1..6 : Status[a] = Lifecycle!Stages[i] /\ s = Lifecycle!Stages[i + 1]
         \/ Status[a] = "ASSESSING_RISK" /\ Visible[a] = Slots /\ s = "COMPLETED"
         \/ Status[a] = "PARSING" /\ s = "FAILED"
  PROVE  Lifecycle!Next
  <1>1. CASE \E i \in 1..6 : Status[a] = Lifecycle!Stages[i] /\ s = Lifecycle!Stages[i + 1]
    <2>1. Lifecycle!Advance(a)
      BY <1>1 DEF Lifecycle!Advance, Status, Visible, NoRow
    <2>2. QED
      BY <2>1 DEF Lifecycle!Next
  <1>2. CASE Status[a] = "ASSESSING_RISK" /\ Visible[a] = Slots /\ s = "COMPLETED"
    <2>1. Lifecycle!Complete(a)
      BY <1>2 DEF Lifecycle!Complete, Lifecycle!Slots, Slots, Status, Visible, NoRow
    <2>2. QED
      BY <2>1 DEF Lifecycle!Next
  <1>3. CASE Status[a] = "PARSING" /\ s = "FAILED"
    <2>1. Lifecycle!Fail(a)
      BY <1>3 DEF Lifecycle!Fail, Status, Visible, NoRow
    <2>2. QED
      BY <2>1 DEF Lifecycle!Next
  <1>4. QED
    BY <1>1, <1>2, <1>3

\* The stages by their number.
LEMMA StageNumbers ==
  /\ Lifecycle!Stages[1] = "ABSENT"       /\ Lifecycle!Stages[2] = "QUEUED"
  /\ Lifecycle!Stages[3] = "PARSING"      /\ Lifecycle!Stages[4] = "REASSEMBLING"
  /\ Lifecycle!Stages[5] = "DETECTING_PROTOCOLS"
  /\ Lifecycle!Stages[6] = "ANALYZING_TLS" /\ Lifecycle!Stages[7] = "ASSESSING_RISK"
  BY DEF Lifecycle!Stages

LEMMA LifecycleInit == Init => Lifecycle!Init
  <1> SUFFICES ASSUME Init PROVE Lifecycle!Init
    OBVIOUS
  <1>1. [a \in Analyses |-> row[a].status] = [a \in Analyses |-> "ABSENT"]
    BY DEF Init
  <1>2. [a \in Analyses |-> {k \in Slots : sess[a][k] # NoRow}] = [a \in Analyses |-> {}]
    BY DEF Init
  <1>3. ai = [a \in Analyses |-> {}]
    BY DEF Init
  <1>4. QED
    BY <1>1, <1>2, <1>3 DEF Lifecycle!Init

\* Every step of the service is a step of the lifecycle or changes nothing a
\* client reads.
LEMMA LifecycleStep ==
  ASSUME MaxFaults = 0, IInv, OnceInv, StoredInv, [Next]_vars
  PROVE  [Lifecycle!Next]_(Lifecycle!vars)
  <1>0. DBTypeOK /\ RunTypeOK
    BY DEF IInv, TypeOK
  <1>1. ASSUME NEW a \in Analyses, CreateAnalysis(a) PROVE Lifecycle!Next
    <2>1. /\ row[a].status = "ABSENT" /\ row'[a].status = "QUEUED"
          /\ \A b \in Analyses \ {a} : row'[b] = row[b]
          /\ UNCHANGED <<sess, ai>>
      BY <1>0, <1>1 DEF CreateAnalysis, DBTypeOK, RowType
    <2>2. Status' = [Status EXCEPT ![a] = "QUEUED"] /\ Status[a] = "ABSENT"
      BY <2>1 DEF Status
    <2>3. UNCHANGED <<Visible, ai>>
      BY <2>1 DEF Visible
    <2>4. Status[a] = Lifecycle!Stages[1] /\ "QUEUED" = Lifecycle!Stages[1 + 1]
      BY <2>2, StageNumbers
    <2>5. \E i \in 1..6 : Status[a] = Lifecycle!Stages[i] /\ "QUEUED" = Lifecycle!Stages[i + 1]
      BY <2>4
    <2>6. QED
      BY <2>2, <2>3, <2>5, LifecycleMoves
  <1>2. ASSUME NEW a \in Analyses, NEW r \in Runs, StartAnalysis(a, r)
        PROVE  UNCHANGED Lifecycle!vars
    BY <1>2, LifecycleStutter DEF StartAnalysis, dbVars, Status, Visible
  <1>3. ASSUME NEW r \in Runs, RunStep(r) PROVE [Lifecycle!Next]_(Lifecycle!vars)
    <2> DEFINE a == of[r]
    <2>1. a \in Analyses /\ StoredOK(r) /\ lost[a] = {}
      BY <1>3, RunStepFrame, RunFacts DEF StoredInv
    <2>2. \A b \in Analyses \ {a} : row'[b] = row[b]
      BY <1>3, RunStepLocal
    <2>3. CASE pc[r] = "row"
      <3> DEFINE k == next[r]
      <3>1. k \in Slots /\ order[r][k] \in Streams
        BY <2>3, LoopFacts
      <3>2. PutSession(a, k, order[r][k], FALSE) /\ pc'[r] = "findings"
        BY <1>3, <2>3, RunStepShows
      <3>3. row'[a].status = row[a].status
        BY <1>3, <2>3, <3>2, RunMoves DEF StatusMoves
      <3>4. Status' = Status
        BY <2>2, <3>3 DEF Status
      <3>5. sess[a][k] = NoRow /\ Status[a] = "ASSESSING_RISK"
        <4>1. k >= k
          BY <3>1, ConstantsAssumption DEF Slots
        <4>2. QED
          BY <2>1, <2>3, <3>1, <4>1 DEF StoredOK, UnsavedAhead, StatusFits, Status
      <3>6. order[r][k] # NoRow
        BY <3>1, ConstantsAssumption DEF Streams, NoRow
      <3> HIDE DEF a, k
      <3>7. Visible' = [Visible EXCEPT ![a] = @ \cup {k}]
        <4>1. sess' = [sess EXCEPT ![a][k] = order[r][k]]
          BY <3>2 DEF PutSession
        <4>2. \A b \in Analyses : \A i \in Slots :
                sess'[b][i] # NoRow <=> sess[b][i] # NoRow \/ (b = a /\ i = k)
          BY <1>0, <2>1, <3>1, <3>6, <4>1 DEF DBTypeOK
        <4>3. \A b \in Analyses : {i \in Slots : sess'[b][i] # NoRow} =
                IF b = a THEN {i \in Slots : sess[b][i] # NoRow} \cup {k}
                ELSE {i \in Slots : sess[b][i] # NoRow}
          BY <3>1, <4>2
        <4>4. QED
          BY <2>1, <4>3 DEF Visible
      <3>8. ai' = ai
        <4>1. k \notin ai[a]
          BY <2>1, <3>5 DEF StoredInv
        <4>2. ai' = [ai EXCEPT ![a] = @ \ {k}]
          BY <3>2 DEF PutSession
        <4>3. QED
          BY <1>0, <4>1, <4>2 DEF DBTypeOK
      <3>9. ASSUME NEW b \in Analyses, NEW i \in Slots, b = a, i = k
            PROVE  Lifecycle!Next
        <4>1. Lifecycle!Publish(b, i)
          BY <3>4, <3>5, <3>7, <3>8, <3>9 DEF Lifecycle!Publish, Status, Visible, NoRow
        <4>2. QED
          BY <4>1 DEF Lifecycle!Next, Lifecycle!Slots, Slots
      <3>10. QED
        BY <2>1, <3>1, <3>9
    <2>4. CASE pc[r] # "row"
      <3>1. UNCHANGED <<Visible, ai>>
        BY <1>3, <2>4, RunStepShows DEF Visible
      <3>2. CASE row'[a].status = row[a].status
        BY <2>2, <3>1, <3>2, LifecycleStutter DEF Status
      <3>3. CASE <<pc[r], pc'[r], row'[a].status>> \in StatusMoves
        <4> DEFINE s == row'[a].status
        <4>1. Status' = [Status EXCEPT ![a] = s] /\ Status[a] = row[a].status
          BY <2>1, <2>2 DEF Status
        <4>2. CASE s \notin {"COMPLETED", "FAILED"}
          <5>1. \/ Status[a] = Lifecycle!Stages[2] /\ s = Lifecycle!Stages[2 + 1]
                \/ Status[a] = Lifecycle!Stages[3] /\ s = Lifecycle!Stages[3 + 1]
                \/ Status[a] = Lifecycle!Stages[4] /\ s = Lifecycle!Stages[4 + 1]
                \/ Status[a] = Lifecycle!Stages[5] /\ s = Lifecycle!Stages[5 + 1]
                \/ Status[a] = Lifecycle!Stages[6] /\ s = Lifecycle!Stages[6 + 1]
            BY <2>1, <3>3, <4>1, <4>2, StageNumbers DEF StatusMoves, StoredOK, StatusFits
          <5>2. \E i \in 1..6 : Status[a] = Lifecycle!Stages[i] /\ s = Lifecycle!Stages[i + 1]
            BY <5>1
          <5>3. Lifecycle!Next
            BY <2>1, <3>1, <4>1, <5>2, LifecycleMoves
          <5>4. QED
            BY <5>3
        <4>3. CASE s = "COMPLETED"
          <5>1. pc[r] = "aggregate" /\ Status[a] = "ASSESSING_RISK"
            BY <2>1, <3>3, <4>1, <4>3 DEF StatusMoves, StoredOK, StatusFits
          <5>2. Visible[a] = Slots
            <6>1. \A k \in Slots : Settled(a, k)
              BY <5>1 DEF IInv, SavedInv, SavedOK
            <6>2. \A k \in Slots : sess[a][k] # NoRow
              BY <2>1, <6>1 DEF Settled
            <6>3. QED
              BY <2>1, <6>2 DEF Visible
          <5>3. Lifecycle!Next
            BY <2>1, <3>1, <4>1, <4>3, <5>1, <5>2, LifecycleMoves
          <5>4. QED
            BY <5>3
        <4>4. CASE s = "FAILED"
          <5>1. Status[a] = "PARSING"
            BY <2>1, <3>3, <4>1, <4>4 DEF StatusMoves, StoredOK, StatusFits
          <5>2. Lifecycle!Next
            BY <2>1, <3>1, <4>1, <4>4, <5>1, LifecycleMoves
          <5>3. QED
            BY <5>2
        <4>5. QED
          BY <4>2, <4>3, <4>4
      <3>4. QED
        BY <1>3, <3>2, <3>3, RunMoves
    <2>5. QED
      BY <2>3, <2>4
  <1>4. ASSUME NEW w \in Workers, WorkerStep(w) PROVE [Lifecycle!Next]_(Lifecycle!vars)
    <2>1. Status' = Status
      BY <1>4, WorkerStepFrame DEF Status
    <2>2. Visible' = Visible
      BY <1>4, WorkerStepShows DEF Visible
    <2>3. ASSUME NEW a \in Analyses, NEW k \in Slots, sess[a][k] # NoRow,
                 ai' = [ai EXCEPT ![a] = @ \cup {k}]
          PROVE  Lifecycle!Next
      <3>1. k \in Visible[a]
        BY <2>3 DEF Visible
      <3>2. Lifecycle!Assess(a, k)
        BY <2>1, <2>2, <2>3, <3>1 DEF Lifecycle!Assess, Status, Visible, NoRow
      <3>3. QED
        BY <3>2 DEF Lifecycle!Next, Lifecycle!Slots, Slots
    <2>4. CASE UNCHANGED ai
      BY <2>1, <2>2, <2>4, LifecycleStutter
    <2>5. QED
      BY <1>4, <2>3, <2>4, WorkerStepShows
  <1>5. ASSUME NEW r \in Runs, GlobalStep(r) PROVE UNCHANGED Lifecycle!vars
    <2>1. Status' = Status
      BY <1>5, GlobalStepStatus DEF Status
    <2>2. QED
      BY <1>5, <2>1, GlobalStepFrame, LifecycleStutter DEF Visible
  <1>6. CASE HealthCheck \/ Crash \/ UNCHANGED vars
    BY <1>6, LifecycleStutter DEF HealthCheck, Crash, vars, dbVars, Status, Visible
  <1>7. QED
    BY <1>1, <1>2, <1>3, <1>4, <1>5, <1>6 DEF Next

-----------------------------------------------------------------------------
(* The theorems *)

LEMMA InitOnce == Init => OnceInv /\ StoredInv
  <1> SUFFICES ASSUME Init PROVE OnceInv /\ StoredInv
    OBVIOUS
  <1>1. OnceInv
    BY DEF Init, OnceInv, Untouched
  <1>2. StoredInv
    <2>1. \A r \in Runs : pc[r] = "unused"
      BY DEF Init
    <2>2. \A a \in Analyses : /\ row[a].status = "ABSENT" /\ announced[a] = {}
                              /\ lost[a] = {} /\ ai[a] = {}
      BY DEF Init
    <2>3. QED
      BY <2>1, <2>2 DEF StoredInv
  <1>3. QED
    BY <1>1, <1>2

\* When no client starts an analysis again, one run owns all that is stored of
\* it, whatever fails or crashes.
THEOREM OnceInductive ==
  ASSUME Retry = FALSE
  PROVE  Spec => []OnceInv
  <1>1. IInv /\ OnceInv /\ [Next]_vars => OnceInv'
    BY OnceStep
  <1>2. Init => OnceInv
    BY InitOnce
  <1>3. QED
    BY Inductive, <1>1, <1>2, PTL DEF Spec

\* Then every finding a client reads is about the stream that its session
\* shows, and the engine's findings are there at most once: also after failed
\* statements and crashes.
THEOREM FindingsAreOfTheirSession ==
  ASSUME Retry = FALSE
  PROVE  Spec => []FindingsMatchSession
  <1>1. IInv /\ OnceInv => FindingsMatchSession
    <2> SUFFICES ASSUME IInv, OnceInv, NEW a \in Analyses,
                        NEW f \in findings[a], NEW g \in findings[a]
                 PROVE  /\ f.stream = sess[a][f.slot]
                        /\ f.slot = g.slot /\ f.by # NoRun /\ g.by # NoRun => f.by = g.by
      BY DEF FindingsMatchSession
    <2>1. f.slot \in Slots /\ sess[a][f.slot] # NoRow
      BY DEF IInv, TypeOK, DBTypeOK, FindingRows, NoOrphanFindings
    <2>2. PICK r \in Runs : pc[r] # "unused" /\ of[r] = a
      BY DEF OnceInv, NotStarted, Untouched
    <2>3. OwnRun(r)
      BY <2>2 DEF OnceInv
    <2>4. QED
      BY <2>1, <2>2, <2>3 DEF OwnRun
  <1>2. QED
    BY Inductive, OnceInductive, <1>1, PTL

\* If no statement fails either, the tables keep pace with the run.
THEOREM StoredInductive ==
  ASSUME Retry = FALSE, MaxFaults = 0
  PROVE  Spec => []StoredInv
  <1>1. IInv /\ OnceInv /\ StoredInv /\ [Next]_vars => StoredInv'
    BY StoredStep, GrowsStep
  <1>2. Init => StoredInv
    BY InitOnce
  <1>3. QED
    BY Inductive, OnceInductive, <1>1, <1>2, PTL DEF Spec

\* Then a final event is only sent when the database already says so.
THEOREM AnnouncedWasStored ==
  ASSUME Retry = FALSE, MaxFaults = 0
  PROVE  Spec => []AnnouncedIsStored
  <1>1. StoredInv => AnnouncedIsStored
    <2> SUFFICES ASSUME StoredInv, NEW a \in Analyses, NEW s \in announced[a]
                 PROVE  row[a].status = s
      BY DEF AnnouncedIsStored
    <2>1. PICK r \in Runs : pc[r] # "unused" /\ of[r] = a
      BY DEF StoredInv, NotStarted
    <2>2. announced[a] \subseteq IF pc[r] = "done" THEN {row[a].status} ELSE {}
      BY <2>1 DEF StoredInv, StoredOK
    <2>3. QED
      BY <2>2
  <1>2. QED
    BY StoredInductive, <1>1, PTL

\* And what a client reads of an analysis moves as AnalysisLifecycle promises:
\* the status only forward, no session or assessment ever taken back, COMPLETED
\* only when all sessions are there; with any number of crashes.
THEOREM ImplementsLifecycle ==
  ASSUME Retry = FALSE, MaxFaults = 0
  PROVE  Spec => LifecycleSpec
  <1>1. IInv /\ OnceInv /\ StoredInv /\ [Next]_vars => [Lifecycle!Next]_(Lifecycle!vars)
    BY LifecycleStep
  <1>2. Init => Lifecycle!Init
    BY LifecycleInit
  <1>3. QED
    BY Inductive, OnceInductive, StoredInductive, <1>1, <1>2, PTL
       DEF Spec, LifecycleSpec, Lifecycle!Spec
=============================================================================
