---------------------------- MODULE LiveCapture ----------------------------
(***************************************************************************)
(* The live capture manager: HTTP handlers call Start and Stop under the   *)
(* manager's lock; every Start spawns a captureLoop goroutine with a chunk *)
(* queue and analysis workers of its own.  A loop runs tcpdump for one     *)
(* chunk at a time as a background child of a bash script and looks at     *)
(* m.stopChan, the field and not the channel it was started with, only     *)
(* between chunks.                                                         *)
(*                                                                         *)
(* The l-th Start makes the l-th stop channel and the l-th loop.  A chunk  *)
(* and its context are <<l, i>>, the i-th one of loop l.  Its file name is *)
(* the second it was named in and i; a loop takes longer than a second for *)
(* a chunk, so that only chunks of two loops can share a name, and only as *)
(* long as the loop that named it first has not gone on.                   *)
(* Packet and byte counters, the current chunk's name and the filter,      *)
(* which only Stats shows, are left out.  The unsynchronised read of       *)
(* m.stopChan is a load of one pointer between calls the compiler cannot   *)
(* see through, so it returns the field's value at some moment: it is one  *)
(* atomic step.                                                            *)
(*                                                                         *)
(* m.eventEmitter writes to every WebSocket client and has no deadline: a  *)
(* client that has stopped reading holds whoever emits, the handler inside *)
(* of the manager's lock, the loop and the workers.  A section under the   *)
(* lock, and the emissions next to it, are part of the step that follows   *)
(* and of its guard: they change nothing the model keeps.                  *)
(***************************************************************************)
EXTENDS Naturals, Sequences, FiniteSets

CONSTANTS
  Workers,     \* analysis workers of one loop (ANALYSIS_WORKERS)
  QueueCap,    \* capacity of a loop's chunk queue (100 in the code)
  MaxStarts,   \* bound: successful calls of Start
  MaxChunks    \* bound: chunks the first loop names, a later one names one less

ASSUME CaptureAssumption ==
  /\ Workers # {}
  /\ QueueCap \in Nat \ {0}
  /\ MaxStarts \in Nat
  /\ MaxChunks \in Nat \ {0}

VARIABLES
  mu,        \* m.mu: "free", or held by Start or Stop while it emits
  status,    \* m.status
  stopChan,  \* m.stopChan: the number of the Start that made it, 0: nil
  closed,    \* stop channels that are closed
  cancel,    \* m.cancelFunc: the context it cancels
  canceled,  \* contexts canceled through m.cancelFunc
  lpc, idx,  \* a captureLoop: where it is, the index of its chunk
  tcpdump,   \* the tcpdump child of the loop's current chunk
  name,      \* the loop that first gave a chunk its name
  reader,    \* "stalled": a WebSocket client has stopped reading
  moved,     \* chunks whose file was moved to outputDir
  queue,     \* a loop's chunk queue, of chunk indices
  qclosed,   \* loops that have closed their queue
  held,      \* the chunk a worker is busy with, 0: none
  wdone,     \* workers that have returned, per loop
  analysed,  \* chunks handed to analyzeFunc
  dropped    \* chunks dropped because the queue was full

mgrVars   == <<mu, status, stopChan, closed, cancel, canceled>>
loopVars  == <<lpc, idx, tcpdump>>
chunkVars == <<moved, queue, qclosed, held, wdone, analysed, dropped>>
vars      == <<mgrVars, loopVars, name, reader, chunkVars>>

Loops   == 1..MaxStarts
Indices == 1..MaxChunks
Chunks  == Loops \X Indices
NoContext == <<0, 0>>
NoChunk   == 0
Current(l) == <<l, idx[l]>>

\* live-capture-<timestamp>-<index>.pcap: the timestamp counts seconds, the
\* index starts again with every loop.
NewNames(l, i) == {l} \cup {name[m][i] : m \in {n \in Loops : idx[n] = i}}

\* The file of the loop's chunk is another loop's too, which may empty it, write
\* to it, move it or remove it.
Shared(l) == \E m \in Loops \ {l} : name[m][idx[l]] = name[l][idx[l]]

\* An event is out when every client has taken it.
Emits == reader = "reads"

-----------------------------------------------------------------------------
(* Requests *)

\* Start refuses only while the status is ACTIVE; it does not wait for the
\* loop of an earlier capture to end.
Start ==
  /\ mu = "free" /\ status # "ACTIVE"
  /\ stopChan < MaxStarts
  /\ mu' = "starting"
  /\ status' = "ACTIVE"
  /\ stopChan' = stopChan + 1
  /\ UNCHANGED <<closed, cancel, canceled, loopVars, name, reader, chunkVars>>

\* capture.started is out: the loop is spawned and the lock given back.
StartReturns ==
  /\ mu = "starting" /\ Emits
  /\ mu' = "free"
  /\ lpc' = [lpc EXCEPT ![stopChan] = "check"]
  /\ UNCHANGED <<status, stopChan, closed, cancel, canceled, idx, tcpdump,
                 name, reader, chunkVars>>

\* Variant: Stop only cancels the running chunk.
StopCancelsOnly ==
  /\ mu = "free" /\ status = "ACTIVE"
  /\ mu' = "stopping"
  /\ canceled' = canceled \cup ({cancel} \ {NoContext})
  /\ status' = "STOPPED"
  /\ UNCHANGED <<closed, stopChan, cancel, loopVars, name, reader,
                 chunkVars>>

\* Stop closes the channel and cancels whichever context was set last.
Stop ==
  /\ mu = "free" /\ status = "ACTIVE"
  /\ mu' = "stopping"
  /\ closed' = closed \cup {stopChan}
  /\ canceled' = canceled \cup ({cancel} \ {NoContext})
  /\ status' = "STOPPED"
  /\ UNCHANGED <<stopChan, cancel, loopVars, name, reader, chunkVars>>

\* capture.stopped is out and the lock given back.
StopReturns ==
  /\ mu = "stopping" /\ Emits
  /\ mu' = "free"
  /\ UNCHANGED <<status, stopChan, closed, cancel, canceled, loopVars,
                 name, reader, chunkVars>>

HandlerReturns == StartReturns \/ StopReturns

-----------------------------------------------------------------------------
(* The WebSocket clients *)

\* Someone has an event to send.
Emitting ==
  \/ mu # "free"
  \/ \E l \in Loops : \/ lpc[l] \in {"arm", "publish", "failing"}
                      \/ \E w \in Workers : held[l][w] # NoChunk

\* A client stops reading and its buffers are full, which is noticed when an
\* event is sent; it reads on, or goes.
ClientTurns ==
  /\ Emitting
  /\ reader' = IF reader = "reads" THEN "stalled" ELSE "reads"
  /\ UNCHANGED <<mgrVars, loopVars, name, chunkVars>>

-----------------------------------------------------------------------------
(* captureLoop *)

\* The bound on the chunks of loop l.
MayName(l) == idx[l] + l <= MaxChunks

Goto(l, from, to) ==
  /\ lpc[l] = from
  /\ lpc' = [lpc EXCEPT ![l] = to]

\* Variant: the loop goes on to the next chunk after it has closed its queue.
CheckStopGoesOn(l) ==
  /\ MayName(l)
  /\ Goto(l, "check", "arm")
  /\ idx' = [idx EXCEPT ![l] = @ + 1]
  /\ \E m \in NewNames(l, idx[l] + 1) : name' = [name EXCEPT ![l][idx[l] + 1] = m]
  /\ qclosed' = IF stopChan \in closed THEN qclosed \cup {l} ELSE qclosed
  /\ UNCHANGED <<mgrVars, tcpdump, reader, moved, queue, held, wdone,
                 analysed, dropped>>

\* The loop finds its stop channel closed and closes the queue, or names its
\* next chunk after the second it is in by now.
CheckStop(l) ==
  /\ \/ /\ stopChan \in closed
        /\ Goto(l, "check", "drain")
        /\ qclosed' = qclosed \cup {l}
        /\ UNCHANGED <<idx, name>>
     \/ /\ stopChan \notin closed
        /\ MayName(l)
        /\ Goto(l, "check", "arm")
        /\ idx' = [idx EXCEPT ![l] = @ + 1]
        /\ \E m \in NewNames(l, idx[l] + 1) :
             name' = [name EXCEPT ![l][idx[l] + 1] = m]
        /\ UNCHANGED qclosed
  /\ UNCHANGED <<mgrVars, tcpdump, reader, moved, queue, held, wdone,
                 analysed, dropped>>

\* capture.chunk_started is out; the chunk's context is made and m.cancelFunc
\* set to cancel it.
ArmCancel(l) ==
  /\ mu = "free" /\ Emits
  /\ Goto(l, "arm", "launch")
  /\ cancel' = Current(l)
  /\ UNCHANGED <<mu, status, stopChan, closed, canceled, idx, tcpdump,
                 name, reader, chunkVars>>

\* A command whose context is canceled, or that cannot be started, returns an
\* error at once; the loop sleeps 2 s and tries again.  Otherwise bash runs
\* tcpdump in the background, which captures to an emptied file or fails to
\* start.
Launch(l) ==
  /\ \/ /\ Current(l) \notin canceled
        /\ Goto(l, "launch", "capture")
        /\ \E t \in {"up", "failed"} : tcpdump' = [tcpdump EXCEPT ![l] = t]
     \/ Goto(l, "launch", "check") /\ UNCHANGED tcpdump
  /\ UNCHANGED <<mgrVars, idx, name, reader, chunkVars>>

\* bash sleeps for chunkSeconds, terminates tcpdump, waits for it and exits.
\* (A tcpdump that takes longer than 5 s to end makes the context expire; the
\* loop then goes on in the same way.)
CaptureEnds(l) ==
  /\ Goto(l, "capture", "inspect")
  /\ tcpdump' = [tcpdump EXCEPT ![l] = IF @ = "up" THEN "exited" ELSE @]
  /\ UNCHANGED <<mgrVars, idx, name, reader, chunkVars>>

\* The context of the running command is canceled: bash, and only bash, is
\* killed, so that nobody will terminate tcpdump.
KillShell(l) ==
  /\ Current(l) \in canceled
  /\ Goto(l, "capture", "killed")
  /\ UNCHANGED <<mgrVars, idx, tcpdump, name, reader, chunkVars>>

\* CombinedOutput returns when the last process that holds the output pipe is
\* gone: the sleep ends by itself, tcpdump does not.  The file stays in /tmp.
KilledReturns(l) ==
  /\ tcpdump[l] # "up"
  /\ Goto(l, "killed", "check")
  /\ UNCHANGED <<mgrVars, idx, tcpdump, name, reader, chunkVars>>

\* The interface goes away and with it tcpdump.
TcpdumpExits(l) ==
  /\ lpc[l] \in {"capture", "killed"} /\ tcpdump[l] = "up"
  /\ tcpdump' = [tcpdump EXCEPT ![l] = "exited"]
  /\ UNCHANGED <<mgrVars, lpc, idx, name, reader, chunkVars>>

FileFound(l) == tcpdump[l] # "failed" \/ Shared(l)

\* Variant: a capture without a file leaves the status alone.
InspectFileIgnoresError(l) ==
  /\ \/ mu = "free" /\ Goto(l, "inspect", "failing")
     \/ \E to \in {"check", "move"} : Goto(l, "inspect", to) /\ FileFound(l)
  /\ UNCHANGED <<mgrVars, idx, tcpdump, name, reader, chunkVars>>

\* Without a file, or with one of no bytes (a full disk; another loop has just
\* emptied it), the loop gives up, whatever capture is active by now; a file with
\* no packet is skipped.
InspectFile(l) ==
  /\ \/ mu = "free" /\ Goto(l, "inspect", "failing") /\ status' = "ERROR"
     \/ /\ \E to \in {"check", "move"} : Goto(l, "inspect", to) /\ FileFound(l)
        /\ UNCHANGED status
  /\ UNCHANGED <<mu, stopChan, closed, cancel, canceled, idx, tcpdump, name, reader,
                 chunkVars>>

\* capture.error is out; the loop returns without closing its queue.
GiveUp(l) ==
  /\ Emits
  /\ Goto(l, "failing", "failed")
  /\ UNCHANGED <<mgrVars, idx, tcpdump, name, reader, chunkVars>>

\* The file is moved to outputDir, where another loop's of the same name is
\* replaced; if that fails it is lost.
MoveChunk(l) ==
  /\ \/ Goto(l, "move", "publish") /\ moved' = moved \cup {Current(l)}
     \/ Goto(l, "move", "check") /\ UNCHANGED moved
  /\ UNCHANGED <<mgrVars, idx, tcpdump, name, reader, queue, qclosed, held, wdone,
                 analysed, dropped>>

\* Variant: a full queue gives up its oldest chunk without a trace.
PublishEvicts(l) ==
  /\ mu = "free" /\ Emits
  /\ Goto(l, "publish", "check")
  /\ queue' = [queue EXCEPT ![l] = IF Len(@) < QueueCap THEN Append(@, idx[l])
                                   ELSE Append(Tail(@), idx[l])]
  /\ UNCHANGED <<mgrVars, idx, tcpdump, name, reader, moved, qclosed,
                 held, wdone, analysed, dropped>>

\* Variant: the queue has no capacity.
PublishUnbounded(l) ==
  /\ mu = "free" /\ Emits
  /\ Goto(l, "publish", "check")
  /\ queue' = [queue EXCEPT ![l] = Append(@, idx[l])]
  /\ UNCHANGED <<mgrVars, idx, tcpdump, name, reader, moved, qclosed,
                 held, wdone, analysed, dropped>>

\* packet_stats, chunk_completed and analysis.queued are out; then a send that
\* never blocks: a full queue drops the chunk.
Publish(l) ==
  /\ mu = "free" /\ Emits
  /\ Goto(l, "publish", "check")
  /\ IF Len(queue[l]) < QueueCap
     THEN queue' = [queue EXCEPT ![l] = Append(@, idx[l])] /\ UNCHANGED dropped
     ELSE dropped' = dropped \cup {Current(l)} /\ UNCHANGED queue
  /\ UNCHANGED <<mgrVars, idx, tcpdump, name, reader, moved, qclosed,
                 held, wdone, analysed>>

\* wg.Wait, then captureLoop returns.
Drain(l) ==
  /\ wdone[l] = Workers
  /\ Goto(l, "drain", "exited")
  /\ UNCHANGED <<mgrVars, idx, tcpdump, name, reader, chunkVars>>

LoopStep(l) ==
  \/ CheckStop(l) \/ ArmCancel(l) \/ Launch(l) \/ CaptureEnds(l) \/ KillShell(l)
  \/ KilledReturns(l) \/ InspectFile(l) \/ GiveUp(l) \/ MoveChunk(l) \/ Publish(l)
  \/ Drain(l)

-----------------------------------------------------------------------------
(* The analysis workers of loop l *)

TakeChunk(l, w) ==
  /\ w \notin wdone[l] /\ held[l][w] = NoChunk /\ queue[l] # <<>>
  /\ held' = [held EXCEPT ![l][w] = Head(queue[l])]
  /\ queue' = [queue EXCEPT ![l] = Tail(@)]
  /\ UNCHANGED <<mgrVars, loopVars, name, reader, moved, qclosed, wdone,
                 analysed, dropped>>

\* analysis.started is out; analyzeFunc copies the file and spawns a pipeline.
AnalyzeChunk(l, w) ==
  /\ held[l][w] # NoChunk /\ Emits
  /\ analysed' = analysed \cup {<<l, held[l][w]>>}
  /\ held' = [held EXCEPT ![l][w] = NoChunk]
  /\ UNCHANGED <<mgrVars, loopVars, name, reader, moved, queue, qclosed,
                 wdone, dropped>>

\* Variant: a worker returns as soon as the queue is closed.
WorkerReturnsEarly(l, w) ==
  /\ w \notin wdone[l] /\ held[l][w] = NoChunk
  /\ l \in qclosed
  /\ wdone' = [wdone EXCEPT ![l] = @ \cup {w}]
  /\ UNCHANGED <<mgrVars, loopVars, name, reader, moved, queue, qclosed,
                 held, analysed, dropped>>

\* The range over the queue ends when it is closed and empty.
WorkerReturns(l, w) ==
  /\ w \notin wdone[l] /\ held[l][w] = NoChunk
  /\ l \in qclosed /\ queue[l] = <<>>
  /\ wdone' = [wdone EXCEPT ![l] = @ \cup {w}]
  /\ UNCHANGED <<mgrVars, loopVars, name, reader, moved, queue, qclosed,
                 held, analysed, dropped>>

WorkerStep(l, w) == TakeChunk(l, w) \/ AnalyzeChunk(l, w) \/ WorkerReturns(l, w)

-----------------------------------------------------------------------------
Init ==
  /\ mu = "free"
  /\ status = "STOPPED"
  /\ stopChan = 0
  /\ closed = {}
  /\ cancel = NoContext
  /\ canceled = {}
  /\ lpc = [l \in Loops |-> "none"]
  /\ idx = [l \in Loops |-> 0]
  /\ tcpdump = [l \in Loops |-> "none"]
  /\ name = [l \in Loops |-> [i \in Indices |-> l]]
  /\ reader = "reads"
  /\ moved = {}
  /\ queue = [l \in Loops |-> <<>>]
  /\ qclosed = {}
  /\ held = [l \in Loops |-> [w \in Workers |-> NoChunk]]
  /\ wdone = [l \in Loops |-> {}]
  /\ analysed = {}
  /\ dropped = {}

Next ==
  \/ Start \/ Stop \/ HandlerReturns \/ ClientTurns
  \/ \E l \in Loops : LoopStep(l) \/ TcpdumpExits(l)
  \/ \E l \in Loops, w \in Workers : WorkerStep(l, w)

\* The scheduler runs every goroutine and bash ends its script; a worker's
\* analyzeFunc only copies a file and spawns a goroutine.  Requests need not
\* come, a running tcpdump need not end by itself, and a client that has stopped
\* reading need not read on.
HandlerFairness == WF_vars(HandlerReturns)
LoopFairness    == \A l \in Loops : WF_vars(LoopStep(l))
WorkerFairness  == \A l \in Loops : \A w \in Workers : WF_vars(WorkerStep(l, w))

Spec     == Init /\ [][Next]_vars
FairSpec == Spec /\ HandlerFairness /\ LoopFairness /\ WorkerFairness

-----------------------------------------------------------------------------
(* Properties *)

Labels == {"none", "check", "arm", "launch", "capture", "killed", "inspect",
           "move", "publish", "drain", "exited", "failing", "failed"}

MgrTypeOK ==
  /\ mu \in {"free", "starting", "stopping"}
  /\ status \in {"STOPPED", "ACTIVE", "ERROR"}
  /\ stopChan \in 0..MaxStarts
  /\ closed \subseteq Loops
  /\ cancel \in Chunks \cup {NoContext}
  /\ canceled \subseteq Chunks

LoopTypeOK ==
  /\ lpc \in [Loops -> Labels]
  /\ idx \in [Loops -> 0..MaxChunks]
  /\ tcpdump \in [Loops -> {"none", "up", "failed", "exited"}]

EventTypeOK ==
  /\ name \in [Loops -> [Indices -> Loops]]
  /\ reader \in {"reads", "stalled"}

ChunkTypeOK ==
  /\ moved \subseteq Chunks
  /\ queue \in [Loops -> Seq(Indices)]
  /\ \A l \in Loops : Len(queue[l]) <= QueueCap
  /\ qclosed \subseteq Loops
  /\ held \in [Loops -> [Workers -> Indices \cup {NoChunk}]]
  /\ wdone \in [Loops -> SUBSET Workers]
  /\ analysed \subseteq Chunks
  /\ dropped \subseteq Chunks

\* Every field holds what its Go type allows, no chunk is worked on before it
\* has a name, and a chunk queue never exceeds its capacity.
TypeOK == MgrTypeOK /\ LoopTypeOK /\ EventTypeOK /\ ChunkTypeOK

Queued(l) == {queue[l][i] : i \in 1..Len(queue[l])}
Held(l)   == {held[l][w] : w \in Workers} \ {NoChunk}

Ended == {"drain", "exited", "failing", "failed"}

\* The status ACTIVE is never a lie: the loop of the last Start is working or
\* about to be spawned, was not killed and will not end by itself, and the
\* channel Stop will close is open, however the loops of earlier captures
\* interleave with it (manager.go:105-120, 133-145, 212).
ActiveMeansCapturing ==
  status = "ACTIVE" =>
    /\ IF mu = "starting" THEN lpc[stopChan] = "none"
       ELSE lpc[stopChan] \in Labels \ ({"none", "killed"} \cup Ended)
    /\ stopChan \notin closed

\* No loop sends a chunk on the queue it has closed, which would panic
\* (manager.go:214, 341).
NoSendOnClosedQueue ==
  \A l \in Loops : l \in qclosed => lpc[l] \in {"drain", "exited"}

\* Where chunk i of loop l can be.
InPlace(p, l, i) ==
  \/ p = "publish" /\ lpc[l] = "publish" /\ idx[l] = i
  \/ p = "queue" /\ i \in Queued(l)
  \/ p = "worker" /\ i \in Held(l)
  \/ p = "analysed" /\ <<l, i>> \in analysed
  \/ p = "dropped" /\ <<l, i>> \in dropped

Places(l, i) ==
  {p \in {"publish", "queue", "worker", "analysed", "dropped"} : InPlace(p, l, i)}

\* Every chunk a loop has moved is in exactly one place, about to be published,
\* queued, with one worker, analysed, or dropped, and a loop that has returned
\* after a stop leaves none behind (manager.go:196-205, 213-216, 340-344).  This
\* is about the entries of the loops' queues: of two chunks that share a file each
\* is an entry, and the one file that is left is analysed for both.
ChunksAccounted ==
  \A l \in Loops : \A i \in Indices :
    /\ Cardinality(Places(l, i)) = IF <<l, i>> \in moved THEN 1 ELSE 0
    /\ lpc[l] = "exited" => Places(l, i) \subseteq {"analysed", "dropped"}

\* From some moment on no WebSocket client keeps the manager waiting.
ClientsRead == <>[](reader = "reads")

\* A chunk that was queued is analysed, whether the capture is stopped, fails
\* or goes on: the workers outlive the loop's return (manager.go:196-205).  It
\* takes clients that read: a worker tells them before it analyses.
QueuedIsAnalysed ==
  ClientsRead =>
    \A l \in Loops : \A i \in Indices :
      i \in Queued(l) ~> <<l, i>> \in analysed

\* After Stop, and unless a new capture is started, a loop that is not inside
\* of its capture command when it is stopped returns (manager.go:211-218),
\* provided that the clients it tells of its chunks read.
StoppedLoopReturns ==
  ClientsRead =>
    \A l \in Loops :
      (status = "STOPPED" /\ lpc[l] \in {"check", "inspect", "move", "publish", "drain"})
        ~> (lpc[l] \in {"exited", "failed"} \/ status = "ACTIVE")

\* The same of a loop that is capturing: the stop signal makes it drain its
\* queue and exit.
StopEndsCapture ==
  ClientsRead =>
    \A l \in Loops :
      (status = "STOPPED" /\ lpc[l] = "capture")
        ~> (lpc[l] \in {"exited", "failed"} \/ status = "ACTIVE")

\* A capture is refused while another one is active: never do two loops
\* capture at the same time.
OneCapture ==
  \A l, m \in Loops : lpc[l] = "capture" /\ lpc[m] = "capture" => l = m

-----------------------------------------------------------------------------
(* The inductive strengthening of ActiveMeansCapturing and
   NoSendOnClosedQueue *)

\* No channel, context or loop is newer than the last Start.
NothingNewer ==
  /\ closed \subseteq 1..stopChan
  /\ cancel[1] <= stopChan
  /\ \A c \in canceled : c[1] <= stopChan
  /\ \A l \in Loops : l > stopChan => lpc[l] = "none"
  /\ \A l \in qclosed : lpc[l] # "none"

\* A loop inside of its body has named its chunk.
ChunkNamed ==
  \A l \in Loops :
    lpc[l] \in Labels \ ({"none", "check"} \cup Ended) => idx[l] # 0

\* While the status is ACTIVE no context of the newest loop is canceled.
NewestUncanceled ==
  status = "ACTIVE" => stopChan \in Loops /\ \A c \in canceled : c[1] # stopChan

\* Start holds the lock until the loop is spawned.
SpawnPending == mu = "starting" => status = "ACTIVE"

CInv == /\ TypeOK /\ ChunkNamed /\ NothingNewer /\ NewestUncanceled /\ SpawnPending
        /\ ActiveMeansCapturing /\ NoSendOnClosedQueue

(* ... and of ChunksAccounted *)

\* The loop has named its chunk, whose file has not been moved.
Fresh(l) == lpc[l] \in {"arm", "launch", "capture", "killed", "inspect", "move"}

\* A chunk is at most once in the queue and with at most one worker, in one
\* place once it was moved and in none before.
ChunkOnce(l) ==
  /\ \A h, j \in 1..Len(queue[l]) : queue[l][h] = queue[l][j] => h = j
  /\ \A v, w \in Workers : held[l][v] = held[l][w] /\ held[l][v] # NoChunk => v = w
  /\ \A i \in Indices :
       /\ <<l, i>> \in moved <=> Places(l, i) # {}
       /\ \A p, q \in Places(l, i) : p = q
       /\ <<l, i>> \in moved => i <= idx[l] /\ (Fresh(l) => i # idx[l])

\* A worker returns with nothing in its hands or the queue, and the loop only
\* after all workers.
WorkersLast(l) ==
  /\ \A w \in wdone[l] : held[l][w] = NoChunk
  /\ wdone[l] # {} => queue[l] = <<>> /\ l \in qclosed
  /\ lpc[l] = "exited" => wdone[l] = Workers

AInv == \A l \in Loops : ChunkOnce(l) /\ WorkersLast(l)
=============================================================================
