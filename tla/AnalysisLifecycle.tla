------------------------- MODULE AnalysisLifecycle -------------------------
(***************************************************************************)
(* What the analysis service promises about one analysis to a client that  *)
(* polls the database through the REST API: the status only moves forward, *)
(* every session is visible before the status says COMPLETED, and neither  *)
(* a session nor an AI assessment of it disappears again.  No goroutines,  *)
(* no queue, no files: only what GetAnalysis and GetSessionsForAnalysis    *)
(* return.                                                                 *)
(***************************************************************************)
EXTENDS Naturals

CONSTANTS Analyses,   \* identifiers of analyses
          N           \* number of sessions in a capture

VARIABLES status,     \* status[a]: the status column of the analyses table
          visible,    \* visible[a]: the session numbers that have a row
          assessed    \* assessed[a]: those whose row holds an LLM assessment

vars == <<status, visible, assessed>>

Slots == 1..N

\* The order in which models.go lists the statuses of a run.
Stages == <<"ABSENT", "QUEUED", "PARSING", "REASSEMBLING",
            "DETECTING_PROTOCOLS", "ANALYZING_TLS", "ASSESSING_RISK">>

Stage == {Stages[i] : i \in 1..7}
Terminal == {"COMPLETED", "FAILED"}

TypeOK ==
  /\ status \in [Analyses -> Stage \cup Terminal]
  /\ visible \in [Analyses -> SUBSET Slots]
  /\ assessed \in [Analyses -> SUBSET Slots]

Init ==
  /\ status = [a \in Analyses |-> "ABSENT"]
  /\ visible = [a \in Analyses |-> {}]
  /\ assessed = [a \in Analyses |-> {}]

\* The next of the stages; one status write of the pipeline.
Advance(a) ==
  /\ \E i \in 1..6 :
       /\ status[a] = Stages[i]
       /\ status' = [status EXCEPT ![a] = Stages[i + 1]]
  /\ UNCHANGED <<visible, assessed>>

\* Session k becomes visible, which happens only in the last stage.
Publish(a, k) ==
  /\ status[a] = "ASSESSING_RISK"
  /\ visible' = [visible EXCEPT ![a] = @ \cup {k}]
  /\ UNCHANGED <<status, assessed>>

\* The LLM's assessment of a visible session arrives, at any later time.
Assess(a, k) ==
  /\ k \in visible[a]
  /\ assessed' = [assessed EXCEPT ![a] = @ \cup {k}]
  /\ UNCHANGED <<status, visible>>

Complete(a) ==
  /\ status[a] = "ASSESSING_RISK"
  /\ visible[a] = Slots
  /\ status' = [status EXCEPT ![a] = "COMPLETED"]
  /\ UNCHANGED <<visible, assessed>>

\* Only reading the capture can fail.
Fail(a) ==
  /\ status[a] = "PARSING"
  /\ status' = [status EXCEPT ![a] = "FAILED"]
  /\ UNCHANGED <<visible, assessed>>

Next ==
  \E a \in Analyses :
    \/ Advance(a)
    \/ \E k \in Slots : Publish(a, k) \/ Assess(a, k)
    \/ Complete(a)
    \/ Fail(a)

Spec == Init /\ [][Next]_vars
=============================================================================
