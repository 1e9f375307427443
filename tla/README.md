# SecureMailScope: TLA+ models, checks and proofs

SecureMailScope analyses captures of e-mail traffic (SMTP, IMAP, POP3): it
reassembles TCP streams, recognises the protocol and its STARTTLS negotiation,
judges the TLS parameters, and reports sessions with findings and a risk score.
This directory holds the formal models of its Go backend, the TLC runs that
check them on small instances, and theorems about them checked by TLAPS.
Source paths below are relative to the repository root.

## 1. Inventory

### Components, their state, their operations

| component | source | state it keeps | operations |
|---|---|---|---|
| Analysis pipeline | `backend/internal/analysis/service.go` | one goroutine per started run: `parsedSessions`, loop index; files `sessions.json`, `ai_report.json` in the analysis directory | `CreateAnalysis`, `RunAnalysisAsync`, `ExecutePipeline`, global-assessment goroutine |
| AI job queue | `backend/internal/analysis/ai_queue.go` | bounded channel of jobs, worker goroutines | `Enqueue` (drops when full), worker loop with a 45 s call and a write-back |
| AI provider router | `backend/internal/analysis/ai_router.go` | active provider, guarded by a mutex | health-check loop every 15 s, `GetActiveProvider` |
| SQLite repository | `backend/internal/storage/sqlite.go` | tables `analyses`, `sessions`, `findings`; one connection | one SQL statement per method, except `SaveSession`: one for the row and one per finding |
| Live capture manager | `backend/internal/capture/manager.go` | status, stop channel, cancel function, filter, counters; per capture a loop goroutine, a chunk queue, workers | `Start`, `Stop`, `SetFilter`, `Stats`, `captureLoop` |
| HTTP and WebSocket API | `backend/internal/api/handlers.go`, `backend/cmd/server/main.go` | set of WebSocket clients | create, start, read, delete; capture start/stop; broadcast of events |
| TCP reassembly | `backend/internal/session/reassembler.go`, `backend/internal/capture/reader.go` | map of streams, chunks per direction | `ProcessPacket`, `GetStreams` |
| Protocol detection, STARTTLS timeline | `backend/internal/protocol/{detector,timeline}.go` | flags of one session while its chunks are read | `Detect`, `Analyze` |
| TLS inspection | `backend/internal/tlsinspect/inspector.go` | one result per TCP stream while TShark's packets are read | `Inspect`, `parseOutput`, `AssessForwardSecrecy` |
| Risk engine | `backend/internal/risk`, scores in `service.go` | none: functions of one session | `Assess`, `ClassifyCipher`, `computeScores` |
| Certificate parser | `backend/internal/certificate/parser.go` | none | `ParseRawDER`, `AnalyzeCertificate` |
| Standalone parser | `parser/` | a goroutine and a session per direction of a connection; the collector | `processPCAP`, `emailStream.run`, `ProcessRecord`; shares nothing with the backend |
| Python engine | `ai_engine/` | none; child process per run | reads `sessions.json`, writes `ai_report.json` |
| Dashboard | `dashboard/src` | React state | polls the REST API, refetches on events |
| Legacy handler and PostgreSQL store | `backend/internal/handler`, `backend/internal/db` | tables of its own | not wired into `main.go` |

### How they interact

`main.go` opens the repository, builds the service (which starts the router's
health check and the AI workers), builds the API server (which builds the
capture manager with a callback that calls `CreateAnalysis` and
`RunAnalysisAsync`), and serves HTTP. So these goroutines share state:

- *requests* (gin handlers) read and write the tables, spawn pipelines, and call
  the capture manager under its mutex;
- *pipelines*, one per start. They share the three tables with everyone, the two
  files of an analysis with every other run of the same analysis, and the job
  channel with the AI workers;
- *AI workers* write the session they were given back to the tables later;
- *global-assessment goroutines*, one per completed run;
- *the health check* makes the provider appear and disappear, and holds the
  router's lock while it calls the providers;
- *WebSocket clients*, each with a goroutine that waits for it to go away; events
  are written to them by whoever sends the event, pipelines included, one at a time;
- *capture loops and chunk workers*, which share the manager's fields with the
  request handlers and, because the loop reads the field `m.stopChan`, with each
  other.

Facts of the code that shape the models: nothing looks at an analysis' status
before starting it (`handlers.go:199`); nothing resumes an unfinished analysis at
start-up; the errors of the repository's writes are ignored by the pipeline;
foreign keys are not enforced; the AI queue drops when it is full; the reassembler
returns streams in Go's map order, so two runs of one capture number the
sessions differently.

### What is hard

Overlapping runs of one analysis; a session written again by an AI worker while
the pipeline goes on; statements that fail or a process that dies between two
of them; a provider that goes away between two calls; loops of two captures; a
child process that outlives its parent; full queues; one database connection, and
one client that stops reading, for everybody; captures that miss, repeat or reorder
any packet, read by analysers that take each line or packet at its word; a reader that
returns while the assembler waits for it. `PROJECT.json` lists every
hazard with its line and the properties that would catch it going wrong.

What makes each component correct:

- *pipeline and repository*: COMPLETED never hides a missing session; a finding
  belongs to the stream its session shows; events never run ahead of the tables;
  a started pipeline ends; a client that polls sees the status only move forward;
- *AI queue*: bounded, never blocks a pipeline, drains, and only ever adds to
  sessions already saved;
- *router*: a health check, which holds the router's lock, holds nobody up for ever;
- *database and hub*: the one connection and every lock is given back on every way
  out, each request is answered, an event reaches every client that stays;
- *capture manager*: ACTIVE means a loop is capturing and Stop can end it; no
  send on a closed queue; no chunk is lost silently; a stopped loop returns;
- *timeline*: a session is judged encrypted, plaintext or stripped by what was
  on the wire, by the answer to STARTTLS and no other line, and never above it
  (in IMAP the code does not keep to this, see Findings);
- *reassembly and detection*: the bytes come out once, in order, with their true
  direction, and the protocol found is the one spoken;
- *TLS inspection and risk*: what is said of a session's TLS is what was negotiated,
  a weakness that was captured is reported if the inspector has a name for the suite,
  nothing else is, and the three tables that are shown (findings, flags, radar) agree;
- *standalone parser*: it ends, and its output is about all that was captured.

## 2. Modules

| module | role |
|---|---|
| `AnalysisLifecycle` | abstract: one analysis as a polling client sees it |
| `AnalysisPipeline` | pipeline, AI queue, repository statements, crashes, providers |
| `AnalysisPipelineProofs` | type proof, the inductive invariant and the theorems; then those for one start per analysis, the refinement of `AnalysisLifecycle` among them |
| `LiveCapture` | capture manager, capture loops, chunk workers, bash and tcpdump |
| `LiveCaptureProofs` | its inductive invariant and theorems |
| `StartTlsTimeline` | the STARTTLS analyser on any sequence of chunks |
| `StartTlsTimelineProofs` | its inductive invariant and theorems |
| `MailDialogue` | the analyser composed with a mail client and a mail server, or fed anything |
| `MailDialogueProofs` | its inductive invariant and theorems |
| `ProtocolDetection` | `Detector.Detect` as an operator on signs in a payload |
| `TcpReassembly` | one TCP connection, its capture, gopacket's assembler and `StreamReassembler` |
| `TcpReassemblyProofs` | its inductive invariant and theorems, `Detect` on what was reassembled among them |
| `TlsInspection` | TLS handshakes, what is captured of them, and `parseOutput` |
| `SessionAssessment` | step 5 of the pipeline: TLS results matched to a session, findings, scores |
| `MCSessionAssessment` | the servers' choices and certificates of its run |
| `SessionAssessmentProofs` | its inductive invariant and theorems |
| `ServerResources` | the database connection, the WebSocket hub, the router's lock and health check |
| `ServerResourcesProofs` | its inductive invariant and theorems |
| `StandaloneParser` | the command-line parser: assembler, readers, output |
| `StandaloneParserProofs` | its inductive invariant and theorems |

Each specification is parameterised by CONSTANTS; the `.cfg` files give them
values. Operators whose comment starts with "Variant" are not part of a
specification. Each is a plausible mistake in the operator it stands before
(a guard dropped, a send that blocks, a step left out), kept to show that the
property it is paired with in `PROJECT.json` notices that mistake.

### AnalysisPipeline and AnalysisLifecycle

One action per repository statement, file write or channel operation of
`ExecutePipeline`, since between two of them any other goroutine may run.
`pc[r]` says where run `r` is:

| `pc` | action | code (`service.go`) |
|---|---|---|
| `get` | `GetAnalysis` | the row is read; an error ends the run |
| `parse`, `read` | `Parse`, `ReadPackets` | status PARSING, then the capture is read, or the run fails |
| `reassemble`, `stats` | `Reassemble`, `CountStreams` | status, then `UpdateAnalysisStats` |
| `detect`, `tls`, `risk` | `Detect`, `InspectTLS`, `AssessRisk` | one status write each; the work between them changes nothing shared |
| `dump`, `engine`, `merge` | `DumpSessions`, `RunEngine`, `MergeReport` | `sessions.json`, the Python child, `ai_report.json`; a report that cannot be read or is malformed is passed over |
| `row`, `findings`, `enqueue` | `SaveRow`, `SaveFindings`, `EnqueueSession` | the body of the saving loop |
| `aggregate`, `announce` | `Aggregate`, `Announce` | COMPLETED row, then COMPLETED event and the global-assessment goroutine |
| `fail`, `announceFail` | `Fail`, `AnnounceFail` | `RunAnalysisAsync` on an error |

`wpc[w]` and `gpc[r]` do the same for the AI workers and the global-assessment
goroutines. `row`, `sess`, `ai`, `findings` are the tables. `dumped` and
`report` are the two files, which belong to the analysis and not to the run.
`order[r]` is the map order run `r` met, so `sess[a][k]` says which *stream*
session number `k` shows. Every stream has one rule finding (its id is made of
rule and session id, so writing it twice is harmless) and one finding of the
engine (a fresh id per run of the engine): enough to tell apart a finding
written twice, a finding of another numbering, and a missing one.

`announced`, `lost`, `faults`, `crashes`, `panicked` are history variables: they
record events sent, failed row writes, and failures so far, and no program step
reads them except to respect a bound.

`AnalysisLifecycle` is what a client may rely on. The refinement maps `row[a].status`
to `status`, the session numbers with a row to `visible` and `ai` to `assessed`.
It holds while each analysis is started once and no statement fails; with a
second start the status goes back to PARSING, which the code allows.

### LiveCapture

`Start` and `Stop` are the handlers up to the event they emit under the manager's mutex,
`StartReturns` and `StopReturns` the rest; `mu` says who holds the mutex meanwhile.
`lpc[l]` says where the loop of the `l`-th `Start` is:

| `lpc` | action | code (`manager.go`) |
|---|---|---|
| `check` | `CheckStop` | the `select` on `m.stopChan` and naming the next chunk |
| `arm`, `launch` | `ArmCancel`, `Launch` | the event `chunk_started` and setting `m.cancelFunc`, starting bash |
| `capture` | `CaptureEnds`, `KillShell` | the script ends, or its context is cancelled |
| `killed` | `KilledReturns` | `CombinedOutput` waits for the output pipe |
| `inspect`, `failing` | `InspectFile`, `GiveUp` | ERROR or skip; the event `capture.error` and the return |
| `move`, `publish` | `MoveChunk`, `Publish` | rename or copy; three events, then send or drop |
| `drain`, `exited`, `failed` | `Drain` | `wg.Wait` and the two ways to return |

A step that emits an event is enabled only while every WebSocket client reads (`Emits`),
since the write has no deadline: `reader` is turned by `ClientTurns` as the clients please,
whenever an event is on its way. `name` says whose name a chunk's file has. It is made of a
second and the index in the loop, so loops that overlap may share files: `NewNames` lets a
loop take the name another loop has for a chunk of the same index, and while it does
(`Shared`) the other's file may be found, emptied or gone. A later loop names one chunk less
than the one before it (`MayName`), which bounds the run.

`TcpdumpExits` is the child ending by itself. `TakeChunk`, `AnalyzeChunk`,
`WorkerReturns` are the chunk workers. That `exec.CommandContext` kills only the
direct child, and that `CombinedOutput` waits until the output pipe has no
writer, is the documented behaviour of Go's `os/exec` with no `WaitDelay` set.

### StartTlsTimeline and MailDialogue

`StartTlsTimeline` is `TimelineAnalyzer.Analyze`. Its loops are the values of `pc`:

| `pc` | action | code (`timeline.go`) |
|---|---|---|
| `next` | `Feed`, `Finish` | the next chunk is appended to its side's buffer, or none is left |
| `lines` | `ProcessLine`, `OutOfLines` | one turn of the line loop, which a positive reply to STARTTLS ends |
| `hello` | `LookForHello` | the ClientHello search in the chunk |

`startTLS`, `events` and `lastCmd` are the variables of the same names
(`lastClientCmd`); `lines` holds both buffers. A line is its *kind*: a tracked
command, STARTTLS, one of the replies the code tells apart. A partial line needs no
kind until its newline comes, so it belongs to the chunk that completes it. Two
details of the code are kept because verdicts depend on them: in IMAP any tracked
command whose text contains STARTTLS counts as STARTTLS when its reply comes
(`mention`), and lines left behind when the loop ends early are parsed with the next
chunk of that side. `wire` is the history of what was processed.

`Feed` brings any lines of either side, so the module covers every order in which
reassembly may hand over the two directions. `MailDialogue` restricts it to real
sessions: a client that waits for each reply and a server, whose actions each `Feed`
one segment, captured in order. `truth` is what really happened, and the
properties compare the verdict with it. A refusal may say anything and, in IMAP, untagged
lines of any kind may come before the answer. `truth.plain` records that no refusal
mentioned STARTTLS and no untagged line came before an answer, `truth.misled` that the first
line after STARTTLS contained the letters OK without being an acceptance: the code takes it
for one. What the code calls *established* is a ClientHello after an acceptance, and
`truth.hello` is that and not more. A *scrambled* stream is any sequence of up to `MaxScrambled`
chunks and lines of either side: the same run checks the properties of
`StartTlsTimeline` on those, and all of them on dialogues.

### TcpReassembly and ProtocolDetection

A client and a server send SYN, bytes and FIN. Each segment is captured as it is sent,
or not; an earlier one may be captured late or again (`Repeat`), alone or merged with
its neighbours. `ProcessPacket` is the method of that name, with `ClientSide` (the
first packet decides who is the client), gopacket's `Assembled` beneath it, and
`Reassembled` and `ReassemblyComplete` as its callbacks; `GetStreams` is the flush at the
end. `half[d]` is the assembler's state of a direction, `stream` the
`ReassembledStream`. The assembler is a library; `Assembled`, `Deliver`, `Insert` and
`Piece` follow its documented behaviour (in sequence, trimmed, early pages kept,
a FIN forgets the direction). Its loop over the pages is stated by its result: `Ready` is
how many pages are taken, `Due` what is due after each. `wire`, `orderly` and `past` are
histories. The module ends with `RInv`, the inductive invariant of the proofs.

The detector's payload is the set of the words it looks for. `SpokenIsDetected` applies
`Detect` to what is left of typical sessions by the modelled reassembly.

### TlsInspection and SessionAssessment

On every TCP stream a handshake goes forward (`Packet`) and each packet is captured or
missed; `Aggregate` is one turn of the loop of `parseOutput`. `Inspect` makes the map
from connection key to result, in which streams that reuse a port collide and any of
them may win, since the results are listed in the order of a Go map. `AssessSession`
assesses one session: `Sources` is its TLS result or, when it has none, the capture's
only one. `Assess`, `ClassifyCipher` and `computeScores` are the operators of the same
names or, for the last two, the operators `IsPFS` to `IsWeak` and `VersionScore` to
`SignatureScore`. A cipher suite is known by its name, the set of words that the rules look
for (`NameWords`, the thirteen names of `formatCipherSuite`), or, without a name, by its
code, in which there is no word (`Codes`). What a suite really is, with forward secrecy and
authenticated encryption or without (`Ephemeral`, `Authenticated`), comes from the registry
of TLS parameters and not from its name, so that the rules can be wrong. The STARTTLS verdict is
any that `VerdictCoherent` allows, which `StartTlsTimelineProofs` shows to be all.

### ServerResources

`request[r]` reads the database with the statements of its endpoint in order (`Plan`);
`conn` is the pool's only connection. `task[t]` is a pipeline or an AI worker: it
executes a statement, broadcasts an event and asks for the provider, in rounds.

| step | action | code |
|---|---|---|
| `exec`, `execing` | `Exec`, `ExecEnds` | a statement takes the connection and gives it back (`sqlite.go:136`) |
| `emit`, `copied` | `CopyClients`, `Copied` | the client set is copied under the read lock (`handlers.go:412`) |
| `send`, `write`, `drop` | `LockWrite`, `WriteSucceeds`, `WriteFails`, `DropClient` | one write at a time, an error removes the client (`handlers.go:420`) |
| `ask` | `AskRouter` | `GetActiveProvider` (`ai_router.go:310`) |

Clients connect, stop reading, read again and go away as they please (`ClientMoves`);
`Forget` is the goroutine that notices. `BeginCheck` and `EndCheck` are the health
check, which has the router's lock in between; what it finds of each provider is a free
choice at every check.

### StandaloneParser

`main` feeds the assembler, which hands each chunk to the reader of its direction and
waits until that reader asks for more: `reader[s]` is "asking", "busy" or
"returned". `mode[s]` is the loop the reader is in: lines, records, or discarding.
An item is a line or a record (a hello, a Certificate, both, or any other), told apart as
the code does. `WriteOutput` comes after
the wait for all readers.

## 3. Runs

| run | bounds | question | states, time |
|---|---|---|---|
| `pipeline_once` | 2 analyses, 2 sessions, 1 worker, queue of 1, each started once | findings match sessions, events match rows, COMPLETED, jobs, refinement of `AnalysisLifecycle` | 2.7 M, 120 s |
| `pipeline_overlap` | 1 analysis, 1 session, 2 overlapping runs, 1 failing statement, 1 crash | types, COMPLETED, findings, `finished_at` under faults | 1.6 M, 35 s |
| `pipeline_live` | 2 analyses, 1 session each | pipelines end, statuses become final, the AI queue drains | 95 k, 40 s |
| `pipeline_panic` | 1 run | expected violation, see Findings | < 1 s |
| `capture` | 2 captures, 1 worker each, queue of 1, 2 chunks and 1 | status, queues, chunks; queued chunks are analysed, stopped loops return | 0.37 M, 140 s |
| `capture_stop`, `capture_twice` | 1 and 2 captures | expected violations, see Findings | seconds |
| `dialogue` | dialogues of 6 segments and 6 lines; scrambled streams of 3 chunks and 3 lines | what acceptance and the events rest on; the verdict is exactly what happened, or at least too high in one case only | 3.3 M, 35 s |
| `assessment` | 2 streams, 3 keys, 6 offers, 3 certificates; symmetric in streams and keys | the four properties of `TlsInspection` and `SessionAssessment` | 1.7 M, 125 s |
| `reassembly` | 3 bytes a side, 1 late or repeated segment, server ports 587 and 2525 | bytes, gaps, order, direction, protocol | 110 s |
| `server` | 2 tasks, 1 request for the sessions of an analysis, 2 clients, 1 round | locks, events; requests answered, tasks end, the hub forgets | 0.17 M, 75 s |
| `parser` | 2 directions of any kind, 4 items, 2 records parsed instead of 20 | the output is written exactly when all is read, and is true | 4.5 M, 170 s |

Why these bounds are enough: the interesting cases need two runs (or loops) that overlap, a
queue that is full while another job is with a worker (two jobs, a capacity of one), two
sessions so that their order matters and one is saved while the other is not, and one
failure at an arbitrary place. All of these occur. A verdict needs at most a command, its
reply and a third line that could be mistaken for either, in one chunk or three; a dialogue
of six segments has room for a refused STARTTLS, a second, accepted one and the ClientHello,
or for an upgrade followed by encrypted segments. Two TLS streams and three keys give a
session a handshake of its own, a shared one, a stranger's, or none, and the offers have a
suite of each kind the rules tell apart, two of them weak and without a name. Two captures
overlap with a shared name (the first chunk of each) and without (the second of the first).
Three bytes leave a hole between two others. Two tasks contend for every lock with a request
and a health check, one of two clients fails while the other is still to be served. Four
items suffice for a greeting, the start of TLS and one record more than are parsed. The
request of `server` asks for the endpoint with the longest plan; the proof covers the
others. The bounds are the constants `MaxRuns`, `MaxFaults`, `MaxCrashes` (pipeline),
`MaxStarts`, `MaxChunks` (capture), `MaxChunks`, `MaxLines`, `MaxScrambled` (timeline),
`MaxBytes`, `MaxRepeats` (reassembly), `Rounds`, `MaxSessions` (server) and `MaxItems`
(parser); each is a guard of the action it bounds. The theorems of section 5 hold for every
value of them.

Only the pipeline runs check for deadlock. The other bounded systems really stop: after
`MaxStarts` captures, at the end of a stream, of a capture file or of the rounds.

### Fairness

- `RunFairness`: weak fairness of each pipeline goroutine. The Go scheduler runs it, SQLite
  statements return, tshark has a 60 s limit. Two calls have no limit in the code, and this
  fairness *assumes* that they return: the Python engine (`service.go:335`) and the write of
  an event to a WebSocket client that does not read, which `TasksEnd` of `ServerResources`
  looks into. Clients, health checks and crashes are not fair.
- `WorkerFairness` (pipeline): the AI workers, whose provider calls end after 45 s.
  Assumed in `QueueDrains` itself; `PipelineTerminates` and `AnalysisFinishes` hold
  without it, which is the point: no pipeline waits for the AI.
- `HandlerFairness`, `LoopFairness`, `WorkerFairness` (capture): the goroutines run and bash
  ends its script. A running tcpdump need not end, and nobody has to call `Stop`. Nothing is
  asked of WebSocket clients: a goroutine with an event to send is not enabled while one of
  them does not read. `QueuedIsAnalysed` and `StoppedLoopReturns` need more and say so
  themselves: their premise `ClientsRead` is that some day all clients read for good.
- `ServerResources`: *strong* fairness of each task and request, because a Go mutex and the
  connection pool of `database/sql` hand over to those who wait: a lock that is taken and
  released again and again still gets to everybody. Weak fairness of the health check's end
  (its calls share a context of 10 s) and of the goroutine that waits for a client. Nothing
  is asked of clients, and no request or check has to come.
- `StandaloneParser`: weak fairness of main and of each reader. No more packets have to
  come.

### Findings

1. `pipeline_panic`: the goroutine that asks for the global assessment checks
   `GetActiveProvider()` and calls it again without a check (`service.go:463`).
   If the health check loses the provider in between, a nil interface is called
   in a plain goroutine and the whole process ends, although README.md:187
   promises that analysis works when Ollama is unreachable.
2. `capture_stop`: `Stop` cancels the context, which kills bash but not the
   tcpdump bash put in the background (`manager.go:257`). That tcpdump holds the
   output pipe, so `CombinedOutput` does not return and the loop never reaches
   "Stop signal received, draining queue and exiting" (`manager.go:213`).
3. `capture_twice`: the loop looks at the field `m.stopChan` (`manager.go:212`). A
   `Stop` and a `Start` between two looks put a new open channel there: the old
   loop goes on and two loops capture at the same time, which `manager.go:106`
   means to refuse.

More that the models show; each is part of a passing property, which says exactly
when the code does what one would expect:

- A WebSocket client that stops reading without closing holds the write lock for as
  long as it likes, and with it every pipeline (`TasksEnd`, `handlers.go:421`).
- Likewise it holds the capture loop and its workers, whose chunks stay unanalysed, and with
  the handler that emits under the manager's mutex every capture request
  (`QueuedIsAnalysed`, `StoppedLoopReturns`; `manager.go:199`, `231`, `331`).
- The standalone parser does not end on captures with a TLS stream of 20 records
  or more, or with a server line that lists STARTTLS and contains OK or starts with 220:
  the reader returns and the assembler waits for it (`WrittenIfAllRead`,
  `stream.go:202`, `229`).
- A session of which only the ClientHello was captured is reported with TLS 1.0, CRITICAL,
  whatever was negotiated: the version is that of the record (`AlarmsAreTrue`,
  `inspector.go:225`). SSLv3, on the other hand, is HIGH only (`engine.go:101-126`).
- When a capture has one TLS connection, all its sessions get its TLS data, findings
  included (`Sources`, `service.go:262`).
- A suite without a name in `formatCipherSuite` is never reported, however weak it is: ECDHE
  with CBC (0xc013), RSA with RC4 (0x0004) and RSA without encryption (0x0001) among them
  (`WeakTlsIsReportedWhenNamed`, `inspector.go:343`).
- In IMAP any line that contains OK, as "NO not OK now" or "* OK still here", is taken for
  the acceptance of STARTTLS when it is the first after the command (`timeline.go:118`): a
  refused upgrade is shown as accepted. In a dialogue no other line flatters, and TLS that
  the client did not start is never shown (`FlattersOnlyWhenMisled`).
- A small ECDSA key is scored low but not reported: `Policy.MinimumECDSABits` is not read
  (`TablesAgree`, `engine.go:18-26`). CIPHER-002 is unreachable: of the
  named suites every one without authenticated encryption is weak already, and of the
  others nothing is said.
- In a capture without the SYN of a direction, that direction is held back until the flush
  and its chunks follow all others: verdicts about such captures rest on a stream that is
  out of order (`ChunksAreWire`; the properties of `StartTlsTimeline` hold on such streams too,
  those of `MailDialogue` do not apply).
  A server on port 2525, which only the detector knows, is taken for the
  client when its packet comes first.
- In IMAP an untagged line may come between STARTTLS and its answer. The first server line
  is taken for the answer (`timeline.go:100-129`), and the accepted STARTTLS is reported as
  FAILED: this is why `VerdictMatchesDialogue` asks for plain answers.
- After acceptance one line of every later chunk is still parsed as plaintext, although
  `timeline.go:176` means to stop (the `break` leaves the line loop only).
- `Supported` is set by any server line that mentions STARTTLS, a refusal included
  (`timeline.go:151`, against `architure.md:275-283`); "established" means that the client
  sent its ClientHello (`timeline.go:204`), not that the handshake succeeded.

Met while reading, without a model: the dashboard's averages ask for `status='completed'`
(`handlers.go:461`, `463`) where the status is `COMPLETED`, so they are always those of no
analysis; README.md:181 promises failover, but both health checks share 10 s
(`ai_router.go:283`), so that a remote provider that hangs for as long, which its own
timeout of 60 s allows unless it is configured shorter (`.env.example` has 5 s), leaves the
local one no time; chunks of two captures may have the same file name (`manager.go:220`),
and one file is then analysed for both; the comment at `service.go:531` says 0.1 for TLS
1.0, the code gives 0.2; the flush at the end sets `StreamComplete` on every stream;
`service.go:196` compares a path that never contains the word it looks for.

## 4. What the properties say

Pipeline: `CompletedMeansSaved`, `NoOrphanFindings`, `FinishedWhenFinal` and
`JobsArePersisted` hold whatever clients, faults and crashes do.
`FindingsMatchSession` and `AnnouncedIsStored` need a single start per analysis:
with two, the runs number the sessions differently and overwrite each other's
files, so that the findings of both mix. (TLC shows it at once when `Retry` is `TRUE`.)

Capture: `ActiveMeansCapturing` (with a loop of an earlier capture still alive, the
ACTIVE status is never a lie), `NoSendOnClosedQueue`, `ChunksAccounted` (no chunk
vanishes between the loop, the queue, a worker and the drop log, whatever file names are shared),
`QueuedIsAnalysed`, `StoppedLoopReturns`.

Timeline: on *any* stream, `AcceptedIsAnswered` (the accepting line is the first reply
to a STARTTLS command), `VerdictCoherent` (the flags and the state
never contradict each other) and `TimelineMatchesWire` (each command is shown with its
own reply); `EstablishedIsShown` is proved only. On a real dialogue,
`VerdictMatchesDialogue` (the verdict is exactly what happened, as long as the server
answers STARTTLS in one plain line), and without that proviso `FlattersOnlyWhenMisled` (it
claims more than there was in one case alone, an IMAP line with OK before the answer).

Reassembly: `BytesOnceInOrder` and `GapMeansMissing` whatever the capture misses, repeats
or reorders, until the assembler meets a direction again that it had ended; `ChunksAreWire`
when every segment was first captured as it was sent, which is what `MailDialogue` takes for
granted; `SpokenIsDetected` on whatever part of a session is left.

Assessment: `ResultIsNegotiated`, `WeakTlsIsReportedWhenNamed`, `AlarmsAreTrue`
and `TablesAgree` follow a handshake from the wire through a
capture with holes, TShark, the match by port and the rules to the finding.

Server: `TypeOK` pairs each resource with the step that needs it, so that nobody waits for
one with another in hand; `EventsReachClients`; `RequestsAnswered`, `TasksEnd`, `HubForgets`
for what must eventually happen.

Parser: `WrittenIfAllRead` and `WrittenUnlessLeft` together say exactly when there is an
output, `ReportIsTrue` what is in it.

## 5. Proofs

`AnalysisPipelineProofs` proves `Spec => []IInv` for every set of analyses,
workers, number of runs, sessions, queue capacity, faults and crashes, and from
it the four pipeline properties above and `TypeOK`. Assumption:
`ConstantsAssumption` (the bounds are naturals, the queue has a capacity of at
least one).

`CompletedMeansSaved` is not inductive: it says nothing of the run that is about
to write COMPLETED. `IInv` adds, for each run, that the sessions before its loop
index are settled (`SavedOK`), for each job and worker that its session is settled
(`JobOK`, `WorkerOK`), and that a goroutine in the loop has an analysis and a
current session (`RunOK`). The argument turns on one fact, which no step can
undo: *settled sessions stay settled* (`Grows` in the proofs). No statement
deletes a session row, and no failure is taken back. With it, another
goroutine's step cannot disturb any conjunct about this one, so each step has to
be examined only for the run or worker that takes it.

The type proof comes first, one lemma per action.

The second half assumes in addition `Retry = FALSE`, as the run `pipeline_once` does: no
client starts an analysis that was started before. This cannot be dropped, since the code
refuses no second start, and two runs really mix their numberings. Two invariants are proved
on top of `IInv`.

- `OnceInv` (any faults, any crashes): a run owns its analysis. Every stored
  session, file, finding and report of an analysis is its only run's (`OwnRun`), with that
  run's map order, and an analysis without a run has nothing. From it
  `FindingsMatchSession`: the finding was written under the numbering that the session row
  was written under, however many statements failed in between.
- `StoredInv` (`MaxFaults = 0`): the label of the run tells the status of the row (`StatusFits`)
  and which sessions are stored. From it `AnnouncedIsStored`; with a
  failing statement the code sends the event all the same, so the assumption is needed too.

`ImplementsLifecycle` is proved from the three invariants, step by step: a status write
is `Advance`, a session row is `Show`, a worker's saved answer is `Assess`, every
other step leaves what the client reads unchanged. Crashes are included.

`LiveCaptureProofs` proves `CInv` for every number of captures, workers, chunks and
every capacity, and from it `TypeOK`, `ActiveMeansCapturing` and
`NoSendOnClosedQueue`. `ActiveMeansCapturing` needs to know why a cancelled
context cannot hit the newest loop: `NothingNewer` (no channel, context or loop is
newer than the last `Start`) and `NewestUncanceled` (while the status is ACTIVE, no
context of the newest loop is cancelled), since `Stop`, which cancels, also ends
ACTIVE. `SpawnPending` covers the moment in which `Start` is ACTIVE but waits for the clients
before it spawns the loop. Nothing is assumed of clients or of file names.

`ChunksAccounted` counts: the chunks that a loop handed on are as many as those analysed, in
the queue, with a worker or dropped. `AInv` says this of the chunk numbers themselves
(`ChunkOnce`: each number is in exactly one of these places, and the loop's current one in
none of them yet) and that a worker only returns when the queue is closed and empty
(`WorkersLast`). The steps that move a chunk share one lemma each (`HopKeeps`, `TakeKeeps`,
`AnalyzeKeeps`).

`StartTlsTimelineProofs` proves `TInv` for streams of every length and from it
`TypeOK`, `AcceptedIsAnswered`, `EstablishedIsShown` and `VerdictCoherent`.
`AcceptedIsAnswered` alone is not inductive: it says nothing of the command a reply is
about to be matched with. `CommandAwaited` says that while `lastCmd` is set, the last
event is the last tracked command of the wire, with neither a command nor a reply
after it; `RequestSeen` that while the stream is read the state leaves PLAINTEXT
only with a request, which a client line shows. The history only grows at its end,
so lines once found to answer each other stay so.

`TimelineMatchesWire` speaks of positions: the n-th command that is shown is the n-th tracked one
of the wire (`Rank`), with its own reply. It is inductive with `NoneAwaited` (no shown
command lacks its reply but the one awaited). What makes a proof by positions possible
are three lemmas about ranks: a new last element has the highest rank, and no
other rank changes (`RankFacts`, `RankAdd`, `RankLast`).

`MailDialogueProofs` first proves that a dialogue is a behaviour of `StartTlsTimeline`
(`DialoguesAreStreams`), so that everything proved about arbitrary streams is available; `DInv`
then adds what a dialogue has more. `StageFits` says how far client and server are and
what is still to be read, `OneLineAtATime` that an unread line is the only one,
`AnswerAwaited` when the analyser waits for the answer to STARTTLS. `OutlookFits` is the
centre: *what the verdict would be if the client stopped now*, computed from the analyser's
state and the lines not yet read (`Outlook`), already agrees with `truth`. At the end nothing is
unread and the outlook is the verdict, whence `FlattersOnlyWhenMisled` and
`VerdictMatchesDialogue`, for dialogues of every length.

`SessionAssessmentProofs` proves every property of the run `assessment`, for any finite
set of streams, any keys, offers and certificates. The invariant says of each stream that its
result is a function of what was captured (`InspectInv`), of the map that each key leads
to a listed stream of that key (`MapInv`), and of the session that it is `Assessed` from the
map (`SessionInv`). The suites are finitely many, so the facts about their words are
lemmas by cases, which compare the words of each name with what the suite is; with them the
three tables are compared once for every suite with a name.
Assumptions: `TlsAssumption` (a suite is offered in TLS 1.3 or before, as it belongs),
`CertificateAssumption` and `NilAssumption` (types).

`ServerResourcesProofs` proves `TypeOK` and `EventsReachClients` for any
number of tasks, requests, clients, rounds and any endpoints. `TypeOK` is inductive, since
it says who holds what. For the events it adds `MissedAccounted`: a client
that the event has not reached is either still to be served, or gone.

`StandaloneParserProofs` proves `TypeOK`, `WrittenIfAllRead` and `ReportIsTrue` for any
number of streams and items and any limit of records. `Progress` says what a reader knows as
a function of the items it has taken (`ReadSoFar`); a reader that returned while main
waits for it is `Abandoned`, and nothing needs to be known of it, since main then never
gets to write. At "written" nobody is abandoned and all items are taken, and both
properties follow.

`TcpReassemblyProofs` proves `RInv`, and from it all four properties of `TcpReassembly`, for
any number of bytes, of lost, late and repeated segments, and any server ports. No property is
inductive: none mentions what the assembler keeps. `RInv` adds

- `HalfFits`, `ChunksFit`: what is kept and what was handed on was sent;
- `InStep`: the chunks of a direction end before `half[d].next`, where the assembler goes on, and
  as long as no gap was noticed no byte is missing between a chunk and that point (`UpTo`);
- `GapStays`: a gap that was noticed has a missing byte *behind* `half[d].next`, so that
  nothing can fill it any more;
- `InOrder`: of a capture in the order of the wire the assembler keeps nothing back, and what it
  has handed on is the wire.

The centre is one lemma about the assembler, `DeliverBrings`: whatever pages it takes, the pieces
it makes are a `Stretch`, in order, from what was due before to what is due after, without a
hole unless one is flagged, and with a hole if one is. `HandOver` carries a stretch over to the
chunks of the stream, and `PacketStep` and `FlushStep` apply it to a packet and to the flush. The
library's induction theorems cannot be used, so the lemmas about the pages take the least
counterexample instead (`LeastNumber`, from the well-foundedness of finite subsets). For a
capture in order `TakenAtOnce` shows that a segment which follows on is one piece and leaves
nothing behind; then each way of sending and repeating keeps `InOrder`. `SpokenIsDetected`
counts the words that one protocol's session can have of another's, and compares the scores.
Assumption: `ReassemblyAssumption` (the bounds are naturals). The detector's words and
the words of typical sessions are those of the model.

Model-checked only: the liveness properties and `WrittenUnlessLeft` (what must eventually
happen is out of the prover's reach), and the three expected violations.

## 6. Not modelled, and why

- Log texts, JSON, the HTML and PDF reports, uploads and TShark's packet views
  (`handlers.go`): output and file copies.
- The repository's column-by-column reads, and `DeleteAnalysis`, which only the
  drop of live captures calls (`service.go:196`), whose condition is never true.
- The capture manager's packet and byte counters, filter and `Stats`.
- The decoding of packets (`reader.go`) and timestamps.
- SNI, ALPN, GREASE and signature algorithms of hellos; names, fingerprints and PEM of
  certificates; the field-by-field parsing of `parser/internal/tlsparser` past the
  first message of a record.
- The numeric scoring of the Python engine: a child process that answers or fails.
- The legacy handler and the PostgreSQL store (`internal/handler`, `internal/db`), which no
  program starts.
- The dashboard, apart from what a polling client may rely on (`AnalysisLifecycle`); build,
  deployment and test scripts.
- Hazards without a property: the mixed numberings of a second start
  (`reassembler.go:210`), which contradict no promise; the race on assessment texts
  (`ai_queue.go:98`), whose model could only restate it; the TLS of a capture's only
  connection (`service.go:262`), for the same reason; captures that begin in the middle
  (`reassembler.go:94`), of which the order of the two directions is not promised; failover
  behind a provider that hangs (`ai_router.go:297`), where a property would restate the
  choice of `EndCheck`; packets of two chunks in one file (`manager.go:220`), which the
  model does not count.

## 7. Plan

All modules of the plan are written, and every safety property of the runs is a theorem. To
come, the most valuable first:

1. the expected violations as theorems about when they cannot happen: one capture as long as
   nobody starts a second, no panic as long as no provider becomes inactive between the two
   calls that ask for it;
2. for the liveness properties, the steps that can be proved without fairness: what decreases at
   each step of a pipeline and of a broadcast;
3. `WrittenUnlessLeft` as the invariant that names where the parser can stand still.
