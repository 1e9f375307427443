------------------------- MODULE LiveCaptureProofs --------------------------
(***************************************************************************)
(* Theorems about LiveCapture for every number of workers, captures and    *)
(* chunks.  Loops of earlier captures may still be running while a new one *)
(* is active; the argument is that everything that could end the newest    *)
(* loop, a closed channel or a canceled context, belongs to an older one   *)
(* until Stop is called.                                                   *)
(***************************************************************************)
EXTENDS LiveCapture, FiniteSetTheorems, TLAPS

\* A label is replaced by another.
LEMMA GotoType ==
  ASSUME LoopTypeOK, NEW l \in Loops, NEW from, NEW to \in Labels, Goto(l, from, to)
  PROVE  /\ lpc' \in [Loops -> Labels]
         /\ lpc[l] = from /\ lpc'[l] = to
         /\ \A m \in Loops \ {l} : lpc'[m] = lpc[m]
  BY DEF LoopTypeOK, Goto

\* A new name is the loop's own or the one another loop has given.
LEMMA EventTypeStep == CInv /\ [Next]_vars => EventTypeOK'
  <1> SUFFICES ASSUME CInv, [Next]_vars PROVE EventTypeOK'
    OBVIOUS
  <1>0. EventTypeOK /\ LoopTypeOK
    BY DEF CInv, TypeOK
  <1>1. ASSUME NEW l \in Loops, CheckStop(l) PROVE EventTypeOK'
    <2>1. CASE UNCHANGED name
      BY <1>0, <1>1, <2>1 DEF CheckStop, EventTypeOK
    <2>2. CASE MayName(l) /\ \E m \in NewNames(l, idx[l] + 1) :
                 name' = [name EXCEPT ![l][idx[l] + 1] = m]
      <3>1. idx[l] + 1 \in Indices
        BY <1>0, <2>2, CaptureAssumption DEF LoopTypeOK, MayName, Loops, Indices
      <3>2. NewNames(l, idx[l] + 1) \subseteq Loops
        BY <1>0, <3>1 DEF NewNames, EventTypeOK
      <3>3. PICK m \in Loops : name' = [name EXCEPT ![l][idx[l] + 1] = m]
        BY <2>2, <3>2
      <3>4. name' \in [Loops -> [Indices -> Loops]]
        BY <1>0, <3>3 DEF EventTypeOK
      <3>5. QED
        BY <1>0, <1>1, <3>4 DEF CheckStop, EventTypeOK
    <2>3. QED
      BY <1>1, <2>1, <2>2 DEF CheckStop
  <1>2. CASE ClientTurns
    BY <1>0, <1>2 DEF ClientTurns, EventTypeOK
  <1>3. CASE UNCHANGED <<name, reader>>
    BY <1>0, <1>3 DEF EventTypeOK
  <1>4. QED
    BY <1>1, <1>2, <1>3 DEF Next, HandlerReturns, LoopStep, WorkerStep, Start, Stop,
       StartReturns, StopReturns, ArmCancel, Launch, CaptureEnds, KillShell,
       KilledReturns, InspectFile, GiveUp, MoveChunk, Publish, Drain, TcpdumpExits,
       TakeChunk, AnalyzeChunk, WorkerReturns, vars

\* No step takes a variable of the manager, a loop or a queue out of its type.
LEMMA TypeStep == CInv /\ [Next]_vars => TypeOK'
  <1> SUFFICES ASSUME CInv, [Next]_vars PROVE TypeOK'
    OBVIOUS
  <1>0. MgrTypeOK /\ LoopTypeOK /\ EventTypeOK /\ ChunkTypeOK
    BY DEF CInv, TypeOK
  <1>e. EventTypeOK'
    BY EventTypeStep
  <1>n. \A l \in Loops : lpc[l] \in {"arm", "launch", "capture", "killed", "inspect",
                                     "move", "publish"} => idx[l] \in Indices
    <2>1. \A n \in 0..MaxChunks : n # 0 => n \in Indices
      BY CaptureAssumption DEF Indices
    <2>2. QED
      BY <1>0, <2>1 DEF CInv, ChunkNamed, LoopTypeOK, Labels, Ended
  <1>1. CASE Start
    <2>1. stopChan + 1 \in Loops /\ stopChan' \in 0..MaxStarts
      BY <1>0, <1>1, CaptureAssumption DEF Start, MgrTypeOK, Loops
    <2>2. MgrTypeOK'
      BY <1>0, <1>1, <2>1 DEF Start, MgrTypeOK
    <2>3. LoopTypeOK' /\ ChunkTypeOK'
      BY <1>0, <1>1 DEF Start, LoopTypeOK, ChunkTypeOK, loopVars, chunkVars
    <2>4. QED
      BY <1>e, <2>2, <2>3 DEF TypeOK
  <1>2. CASE Stop
    <2>1. stopChan \in Loops
      BY <1>2 DEF CInv, NewestUncanceled, Stop
    <2>2. MgrTypeOK'
      BY <1>0, <1>2, <2>1 DEF Stop, MgrTypeOK
    <2>3. LoopTypeOK' /\ ChunkTypeOK'
      BY <1>0, <1>2 DEF Stop, LoopTypeOK, ChunkTypeOK, loopVars, chunkVars
    <2>4. QED
      BY <1>e, <2>2, <2>3 DEF TypeOK
  <1>a. CASE StartReturns
    <2>1. MgrTypeOK' /\ ChunkTypeOK'
      BY <1>0, <1>a DEF StartReturns, MgrTypeOK, ChunkTypeOK, chunkVars
    <2>2. LoopTypeOK'
      BY <1>0, <1>a DEF StartReturns, LoopTypeOK, Labels
    <2>3. QED
      BY <1>e, <2>1, <2>2 DEF TypeOK
  <1>b. CASE StopReturns \/ ClientTurns
    <2>1. MgrTypeOK' /\ LoopTypeOK' /\ ChunkTypeOK'
      BY <1>0, <1>b DEF StopReturns, ClientTurns, MgrTypeOK, LoopTypeOK, ChunkTypeOK,
         mgrVars, loopVars, chunkVars
    <2>2. QED
      BY <1>e, <2>1 DEF TypeOK
  <1>c. ASSUME NEW l \in Loops, GiveUp(l) PROVE TypeOK'
    <2>1. LoopTypeOK'
      BY <1>0, <1>c DEF GiveUp, Goto, LoopTypeOK, Labels
    <2>2. MgrTypeOK' /\ ChunkTypeOK'
      BY <1>0, <1>c DEF GiveUp, MgrTypeOK, ChunkTypeOK, mgrVars, chunkVars
    <2>3. QED
      BY <1>e, <2>1, <2>2 DEF TypeOK
  <1>3. ASSUME NEW l \in Loops, CheckStop(l) PROVE TypeOK'
    <2>1. LoopTypeOK'
      <3>1. MayName(l) => idx[l] + 1 \in 0..MaxChunks
        BY <1>0, CaptureAssumption DEF LoopTypeOK, MayName, Loops
      <3>2. QED
        BY <1>0, <1>3, <3>1 DEF CheckStop, Goto, LoopTypeOK, Labels
    <2>2. MgrTypeOK' /\ ChunkTypeOK'
      BY <1>0, <1>3 DEF CheckStop, MgrTypeOK, ChunkTypeOK, mgrVars
    <2>3. QED
      BY <1>e, <2>1, <2>2 DEF TypeOK
  <1>4. ASSUME NEW l \in Loops, ArmCancel(l) PROVE TypeOK'
    <2>1. Current(l) \in Chunks
      BY <1>n, <1>4 DEF ArmCancel, Goto, Current, Chunks
    <2>2. MgrTypeOK' /\ LoopTypeOK' /\ ChunkTypeOK'
      BY <1>0, <1>4, <2>1 DEF ArmCancel, Goto, MgrTypeOK, LoopTypeOK, ChunkTypeOK,
         chunkVars, Labels
    <2>3. QED
      BY <1>e, <2>1, <2>2 DEF TypeOK
  <1>5. ASSUME NEW l \in Loops, Launch(l) PROVE TypeOK'
    <2>1. LoopTypeOK'
      BY <1>0, <1>5 DEF Launch, Goto, LoopTypeOK, Labels
    <2>2. MgrTypeOK' /\ ChunkTypeOK'
      BY <1>0, <1>5 DEF Launch, MgrTypeOK, ChunkTypeOK, mgrVars, chunkVars
    <2>3. QED
      BY <1>e, <2>1, <2>2 DEF TypeOK
  <1>6. ASSUME NEW l \in Loops, CaptureEnds(l) PROVE TypeOK'
    <2>1. LoopTypeOK'
      BY <1>0, <1>6 DEF CaptureEnds, Goto, LoopTypeOK, Labels
    <2>2. MgrTypeOK' /\ ChunkTypeOK'
      BY <1>0, <1>6 DEF CaptureEnds, MgrTypeOK, ChunkTypeOK, mgrVars, chunkVars
    <2>3. QED
      BY <1>e, <2>1, <2>2 DEF TypeOK
  <1>7. ASSUME NEW l \in Loops, KillShell(l) PROVE TypeOK'
    <2>1. LoopTypeOK'
      BY <1>0, <1>7 DEF KillShell, Goto, LoopTypeOK, Labels
    <2>2. MgrTypeOK' /\ ChunkTypeOK'
      BY <1>0, <1>7 DEF KillShell, MgrTypeOK, ChunkTypeOK, mgrVars, chunkVars
    <2>3. QED
      BY <1>e, <2>1, <2>2 DEF TypeOK
  <1>8. ASSUME NEW l \in Loops, KilledReturns(l) PROVE TypeOK'
    <2>1. LoopTypeOK'
      BY <1>0, <1>8 DEF KilledReturns, Goto, LoopTypeOK, Labels
    <2>2. MgrTypeOK' /\ ChunkTypeOK'
      BY <1>0, <1>8 DEF KilledReturns, MgrTypeOK, ChunkTypeOK, mgrVars, chunkVars
    <2>3. QED
      BY <1>e, <2>1, <2>2 DEF TypeOK
  <1>9. ASSUME NEW l \in Loops, InspectFile(l) PROVE TypeOK'
    <2>1. LoopTypeOK'
      BY <1>0, <1>9 DEF InspectFile, Goto, LoopTypeOK, Labels
    <2>2. MgrTypeOK' /\ ChunkTypeOK'
      BY <1>0, <1>9 DEF InspectFile, MgrTypeOK, ChunkTypeOK, chunkVars
    <2>3. QED
      BY <1>e, <2>1, <2>2 DEF TypeOK
  <1>10. ASSUME NEW l \in Loops, MoveChunk(l) PROVE TypeOK'
    <2>1. Current(l) \in Chunks
      BY <1>n, <1>10 DEF MoveChunk, Goto, Current, Chunks
    <2>2. LoopTypeOK'
      BY <1>0, <1>10 DEF MoveChunk, Goto, LoopTypeOK, Labels
    <2>3. MgrTypeOK' /\ ChunkTypeOK'
      BY <1>0, <1>10, <2>1 DEF MoveChunk, MgrTypeOK, ChunkTypeOK, mgrVars
    <2>4. QED
      BY <1>e, <2>1, <2>2, <2>3 DEF TypeOK
  <1>11. ASSUME NEW l \in Loops, Publish(l) PROVE TypeOK'
    <2>1. idx[l] \in Indices /\ Current(l) \in Chunks
      BY <1>n, <1>11 DEF Publish, Goto, Current, Chunks
    <2>2. LoopTypeOK'
      BY <1>0, <1>11 DEF Publish, Goto, LoopTypeOK, Labels
    <2>3. /\ queue' \in [Loops -> Seq(Indices)]
          /\ \A m \in Loops : Len(queue'[m]) <= QueueCap
      <3>1. queue[l] \in Seq(Indices)
        BY <1>0 DEF ChunkTypeOK
      <3>2. CASE Len(queue[l]) < QueueCap
        <4>1. queue' = [queue EXCEPT ![l] = Append(queue[l], idx[l])]
          BY <1>11, <3>2 DEF Publish
        <4>2. /\ Append(queue[l], idx[l]) \in Seq(Indices)
              /\ Len(Append(queue[l], idx[l])) = Len(queue[l]) + 1
          BY <2>1, <3>1
        <4>3. Len(queue[l]) + 1 <= QueueCap
          BY <3>1, <3>2, CaptureAssumption
        <4>4. QED
          BY <1>0, <4>1, <4>2, <4>3 DEF ChunkTypeOK
      <3>3. CASE ~(Len(queue[l]) < QueueCap)
        BY <1>0, <1>11, <3>3 DEF Publish, ChunkTypeOK
      <3>4. QED
        BY <3>2, <3>3
    <2>4. MgrTypeOK' /\ ChunkTypeOK'
      BY <1>0, <1>11, <2>1, <2>3 DEF Publish, MgrTypeOK, ChunkTypeOK, mgrVars
    <2>5. QED
      BY <1>e, <2>1, <2>2, <2>3, <2>4 DEF TypeOK
  <1>12. ASSUME NEW l \in Loops, Drain(l) PROVE TypeOK'
    <2>1. LoopTypeOK'
      BY <1>0, <1>12 DEF Drain, Goto, LoopTypeOK, Labels
    <2>2. MgrTypeOK' /\ ChunkTypeOK'
      BY <1>0, <1>12 DEF Drain, MgrTypeOK, ChunkTypeOK, mgrVars, chunkVars
    <2>3. QED
      BY <1>e, <2>1, <2>2 DEF TypeOK
  <1>13. ASSUME NEW l \in Loops, TcpdumpExits(l) PROVE TypeOK'
    <2>1. LoopTypeOK'
      BY <1>0, <1>13 DEF TcpdumpExits, LoopTypeOK, Labels
    <2>2. MgrTypeOK' /\ ChunkTypeOK'
      BY <1>0, <1>13 DEF TcpdumpExits, MgrTypeOK, ChunkTypeOK, mgrVars, chunkVars
    <2>3. QED
      BY <1>e, <2>1, <2>2 DEF TypeOK
  <1>14. ASSUME NEW l \in Loops, NEW w \in Workers, TakeChunk(l, w) PROVE TypeOK'
    <2>1. queue[l] \in Seq(Indices) /\ queue[l] # <<>> /\ Len(queue[l]) <= QueueCap
      BY <1>0, <1>14 DEF TakeChunk, ChunkTypeOK
    <2>2. /\ Head(queue[l]) \in Indices /\ Tail(queue[l]) \in Seq(Indices)
          /\ Len(Tail(queue[l])) <= QueueCap
      BY <2>1, CaptureAssumption
    <2>3. ChunkTypeOK'
      BY <1>0, <1>14, <2>2 DEF TakeChunk, ChunkTypeOK
    <2>4. MgrTypeOK' /\ LoopTypeOK'
      BY <1>0, <1>14 DEF TakeChunk, MgrTypeOK, LoopTypeOK, mgrVars, loopVars
    <2>5. QED
      BY <1>e, <2>1, <2>2, <2>3, <2>4 DEF TypeOK
  <1>15. ASSUME NEW l \in Loops, NEW w \in Workers, AnalyzeChunk(l, w) PROVE TypeOK'
    <2>1. held[l][w] \in Indices
      BY <1>0, <1>15 DEF AnalyzeChunk, ChunkTypeOK
    <2>2. ChunkTypeOK'
      BY <1>0, <1>15, <2>1 DEF AnalyzeChunk, ChunkTypeOK, Chunks
    <2>3. MgrTypeOK' /\ LoopTypeOK'
      BY <1>0, <1>15 DEF AnalyzeChunk, MgrTypeOK, LoopTypeOK, mgrVars, loopVars
    <2>4. QED
      BY <1>e, <2>1, <2>2, <2>3 DEF TypeOK
  <1>16. ASSUME NEW l \in Loops, NEW w \in Workers, WorkerReturns(l, w) PROVE TypeOK'
    <2>1. ChunkTypeOK'
      BY <1>0, <1>16 DEF WorkerReturns, ChunkTypeOK
    <2>2. MgrTypeOK' /\ LoopTypeOK'
      BY <1>0, <1>16 DEF WorkerReturns, MgrTypeOK, LoopTypeOK, mgrVars, loopVars
    <2>3. QED
      BY <1>e, <2>1, <2>2 DEF TypeOK
  <1>17. CASE UNCHANGED vars
    BY <1>0, <1>e, <1>17 DEF vars, mgrVars, loopVars, chunkVars, TypeOK, MgrTypeOK,
       LoopTypeOK, ChunkTypeOK
  <1>18. QED
    BY <1>1, <1>2, <1>a, <1>b, <1>c, <1>3, <1>4, <1>5, <1>6, <1>7, <1>8,
       <1>9, <1>10, <1>11, <1>12, <1>13, <1>14, <1>15, <1>16, <1>17
       DEF Next, HandlerReturns, LoopStep, WorkerStep

\* Which chunk a loop works on is known while it works on it.
LEMMA NamedStep == CInv /\ [Next]_vars => ChunkNamed'
  <1> SUFFICES ASSUME CInv, [Next]_vars, NEW m \in Loops,
                      lpc'[m] \in Labels \ ({"none", "check"} \cup Ended)
               PROVE  idx'[m] # 0
    BY DEF ChunkNamed
  <1>0. LoopTypeOK /\ MgrTypeOK /\ ChunkNamed
    BY DEF CInv, TypeOK
  <1>1. CASE StartReturns
    BY <1>0, <1>1 DEF StartReturns, ChunkNamed, LoopTypeOK
  <1>2. ASSUME NEW l \in Loops, CheckStop(l) PROVE idx'[m] # 0
    BY <1>0, <1>2, CaptureAssumption DEF CheckStop, Goto, ChunkNamed, LoopTypeOK, Ended
  <1>3. ASSUME NEW l \in Loops,
               ArmCancel(l) \/ Launch(l) \/ CaptureEnds(l) \/ KillShell(l)
               \/ KilledReturns(l) \/ InspectFile(l) \/ GiveUp(l) \/ MoveChunk(l)
               \/ Publish(l) \/ Drain(l)
        PROVE  idx'[m] # 0
    BY <1>0, <1>3 DEF ArmCancel, Launch, CaptureEnds, KillShell, KilledReturns,
       InspectFile, GiveUp, MoveChunk, Publish, Drain, Goto, ChunkNamed, LoopTypeOK,
       Labels, Ended
  <1>4. CASE UNCHANGED <<lpc, idx>>
    BY <1>0, <1>4 DEF ChunkNamed
  <1>5. QED
    BY <1>1, <1>2, <1>3, <1>4 DEF Next, HandlerReturns, LoopStep, WorkerStep, Start, Stop,
       StopReturns, ClientTurns, TcpdumpExits, TakeChunk, AnalyzeChunk, WorkerReturns,
       vars, loopVars

\* Nothing is newer than the last Start, and nothing of the newest capture is
\* canceled while it is active.
LEMMA NewestStep ==
  CInv /\ [Next]_vars => NothingNewer' /\ NewestUncanceled' /\ SpawnPending'
  <1> SUFFICES ASSUME CInv, [Next]_vars
               PROVE  NothingNewer' /\ NewestUncanceled' /\ SpawnPending'
    OBVIOUS
  <1>0. LoopTypeOK /\ MgrTypeOK /\ NothingNewer /\ NewestUncanceled /\ SpawnPending
    BY DEF CInv, TypeOK
  <1>1. CASE Start
    <2>1. /\ stopChan \in Nat /\ stopChan' = stopChan + 1 /\ stopChan' \in Loops
          /\ UNCHANGED <<closed, cancel, canceled, qclosed, lpc>>
      BY <1>0, <1>1, CaptureAssumption DEF Start, MgrTypeOK, Loops, loopVars, chunkVars
    <2>2. \A c \in canceled : c[1] <= stopChan /\ c[1] \in Nat
      BY <1>0 DEF NothingNewer, MgrTypeOK, Chunks, Loops
    <2>3. cancel[1] \in Nat /\ cancel[1] <= stopChan
      BY <1>0 DEF NothingNewer, MgrTypeOK, Chunks, Loops, NoContext
    <2>4. \A l \in Loops : l > stopChan + 1 => lpc'[l] = "none"
      BY <1>0, <2>1 DEF NothingNewer, Loops
    <2>5. \A l \in Loops : lpc[l] # "none" => lpc'[l] # "none"
      BY <2>1
    <2>6. closed' \subseteq 1..stopChan'
      BY <1>0, <2>1 DEF NothingNewer
    <2>7. NothingNewer'
      BY <1>0, <2>1, <2>2, <2>3, <2>4, <2>5, <2>6 DEF NothingNewer, CInv, TypeOK,
         ChunkTypeOK
    <2>8. NewestUncanceled'
      BY <2>1, <2>2 DEF NewestUncanceled
    <2>9. QED
      BY <1>1, <2>7, <2>8 DEF Start, SpawnPending
  <1>2. CASE Stop
    <2>1. stopChan \in Loops /\ stopChan \in 1..stopChan
      BY <1>0, <1>2 DEF Stop, NewestUncanceled, Loops
    <2>2. NothingNewer'
      BY <1>0, <1>2, <2>1 DEF Stop, NothingNewer, loopVars, chunkVars
    <2>3. QED
      BY <1>2, <2>2 DEF Stop, NewestUncanceled, SpawnPending
  <1>a. CASE StartReturns
    <2>1. status = "ACTIVE" /\ stopChan \in Loops /\ ~(stopChan > stopChan)
      BY <1>0, <1>a DEF StartReturns, SpawnPending, NewestUncanceled, Loops
    <2>2. lpc'[stopChan] = "check" /\ \A l \in Loops \ {stopChan} : lpc'[l] = lpc[l]
      BY <1>0, <1>a, <2>1 DEF StartReturns, LoopTypeOK
    <2>3. \A l \in Loops : l > stopChan => lpc'[l] = "none"
      BY <1>0, <2>1, <2>2 DEF NothingNewer
    <2>4. \A l \in qclosed : lpc'[l] # "none"
      <3>1. qclosed \subseteq Loops
        BY DEF CInv, TypeOK, ChunkTypeOK
      <3>2. QED
        BY <1>0, <2>2, <3>1 DEF NothingNewer
    <2>5. QED
      BY <1>0, <1>a, <2>3, <2>4 DEF StartReturns, NothingNewer, NewestUncanceled,
         SpawnPending, chunkVars
  <1>b. CASE StopReturns
    BY <1>0, <1>b DEF StopReturns, NothingNewer, NewestUncanceled, SpawnPending, loopVars,
       chunkVars
  <1>3. ASSUME NEW l \in Loops, LoopStep(l)
        PROVE  NothingNewer' /\ NewestUncanceled' /\ SpawnPending'
    <2>1. /\ UNCHANGED <<mu, stopChan, closed, canceled>>
          /\ status' = status \/ (status' = "ERROR" /\ mu = "free")
          /\ cancel' \in {cancel, <<l, idx[l]>>}
      BY <1>3 DEF LoopStep, CheckStop, ArmCancel, Launch, CaptureEnds, KillShell,
         KilledReturns, InspectFile, GiveUp, MoveChunk, Publish, Drain, Goto, mgrVars, Current
    <2>2. /\ lpc[l] # "none" /\ lpc'[l] # "none"
          /\ \A m \in Loops \ {l} : lpc'[m] = lpc[m]
          /\ qclosed' \in {qclosed, qclosed \cup {l}}
      BY <1>0, <1>3 DEF LoopStep, CheckStop, ArmCancel, Launch, CaptureEnds, KillShell,
         KilledReturns, InspectFile, GiveUp, MoveChunk, Publish, Drain, Goto, LoopTypeOK,
         chunkVars
    <2>3. l <= stopChan
      BY <1>0, <2>2 DEF NothingNewer, Loops, MgrTypeOK
    <2>4. NothingNewer'
      <3>1. cancel'[1] <= stopChan
        BY <1>0, <2>1, <2>3 DEF NothingNewer
      <3>2. qclosed \subseteq Loops
        BY DEF CInv, TypeOK, ChunkTypeOK
      <3>3. \A m \in Loops : m > stopChan => lpc'[m] = "none"
        <4>1. ~(l > stopChan)
          BY <1>0, <2>3 DEF Loops, MgrTypeOK
        <4>2. QED
          BY <1>0, <2>2, <4>1 DEF NothingNewer
      <3>4. \A m \in qclosed' : lpc'[m] # "none"
        BY <1>0, <2>2, <3>2 DEF NothingNewer
      <3>5. QED
        BY <1>0, <2>1, <3>1, <3>3, <3>4 DEF NothingNewer
    <2>5. NewestUncanceled'
      BY <1>0, <2>1 DEF NewestUncanceled
    <2>6. SpawnPending'
      BY <1>0, <2>1 DEF SpawnPending
    <2>7. QED
      BY <2>4, <2>5, <2>6
  <1>4. CASE UNCHANGED <<mgrVars, lpc, qclosed>>
    BY <1>0, <1>4 DEF NothingNewer, NewestUncanceled, SpawnPending, mgrVars
  <1>5. QED
    BY <1>1, <1>2, <1>a, <1>b, <1>3, <1>4 DEF Next, HandlerReturns, WorkerStep,
       ClientTurns, TcpdumpExits, TakeChunk, AnalyzeChunk, WorkerReturns, vars, loopVars, chunkVars

\* The loop of the active capture does not end and is not killed, and no loop
\* leaves the drain for its body.
LEMMA ActiveStep ==
  CInv /\ [Next]_vars => ActiveMeansCapturing' /\ NoSendOnClosedQueue'
  <1> SUFFICES ASSUME CInv, [Next]_vars
               PROVE  ActiveMeansCapturing' /\ NoSendOnClosedQueue'
    OBVIOUS
  <1>0. /\ LoopTypeOK /\ MgrTypeOK /\ NothingNewer /\ NewestUncanceled
        /\ SpawnPending /\ ActiveMeansCapturing /\ NoSendOnClosedQueue
    BY DEF CInv, TypeOK
  <1>1. CASE Start
    <2>1. /\ stopChan \in Nat /\ stopChan' = stopChan + 1 /\ stopChan' \in Loops
          /\ UNCHANGED <<closed, qclosed, lpc>> /\ mu' = "starting"
      BY <1>0, <1>1, CaptureAssumption DEF Start, MgrTypeOK, Loops, loopVars, chunkVars
    <2>2. lpc'[stopChan'] = "none" /\ stopChan' \notin closed
      BY <1>0, <2>1 DEF NothingNewer
    <2>3. QED
      BY <1>0, <2>1, <2>2 DEF ActiveMeansCapturing, NoSendOnClosedQueue
  <1>2. CASE Stop
    BY <1>0, <1>2 DEF Stop, ActiveMeansCapturing, NoSendOnClosedQueue, loopVars, chunkVars
  <1>a. CASE StartReturns
    <2>1. status = "ACTIVE" /\ stopChan \in Loops /\ lpc[stopChan] = "none"
      BY <1>0, <1>a DEF StartReturns, SpawnPending, NewestUncanceled, ActiveMeansCapturing
    <2>2. lpc'[stopChan] = "check" /\ \A l \in Loops \ {stopChan} : lpc'[l] = lpc[l]
      BY <1>0, <1>a, <2>1 DEF StartReturns, LoopTypeOK
    <2>3. stopChan \notin qclosed
      BY <1>0, <2>1 DEF NothingNewer
    <2>4. QED
      BY <1>0, <1>a, <2>2, <2>3 DEF StartReturns, ActiveMeansCapturing,
         NoSendOnClosedQueue, Labels, Ended, chunkVars
  <1>b. CASE StopReturns
    BY <1>0, <1>b DEF StopReturns, ActiveMeansCapturing, NoSendOnClosedQueue, loopVars,
       chunkVars
  <1>3. ASSUME NEW l \in Loops, LoopStep(l)
        PROVE  ActiveMeansCapturing' /\ NoSendOnClosedQueue'
    <2>1. UNCHANGED <<mu, stopChan, closed>> /\ \A m \in Loops \ {l} : lpc'[m] = lpc[m]
      BY <1>0, <1>3 DEF LoopStep, CheckStop, ArmCancel, Launch, CaptureEnds, KillShell,
         KilledReturns, InspectFile, GiveUp, MoveChunk, Publish, Drain, Goto, LoopTypeOK, mgrVars
    <2>2. NoSendOnClosedQueue'
      <3>1. CASE CheckStop(l)
        BY <1>0, <3>1 DEF CheckStop, Goto, LoopTypeOK, NoSendOnClosedQueue
      <3>2. CASE ~CheckStop(l)
        <4>1. UNCHANGED qclosed
          BY <1>3, <3>2 DEF LoopStep, ArmCancel, Launch, CaptureEnds, KillShell,
             KilledReturns, InspectFile, GiveUp, MoveChunk, Publish, Drain, chunkVars
        <4>2. l \in qclosed => lpc'[l] \in {"drain", "exited"}
          BY <1>0, <1>3, <3>2 DEF LoopStep, ArmCancel, Launch, CaptureEnds, KillShell,
             KilledReturns, InspectFile, GiveUp, MoveChunk, Publish, Drain, Goto, LoopTypeOK,
             NoSendOnClosedQueue
        <4>3. QED
          BY <1>0, <2>1, <4>1, <4>2 DEF NoSendOnClosedQueue
      <3>3. QED
        BY <3>1, <3>2
    <2>3. ActiveMeansCapturing'
      <3>1. SUFFICES ASSUME status' = "ACTIVE" PROVE ActiveMeansCapturing'
        BY DEF ActiveMeansCapturing
      <3>2. status = "ACTIVE"
        BY <1>3, <3>1 DEF LoopStep, CheckStop, ArmCancel, Launch, CaptureEnds, KillShell,
           KilledReturns, InspectFile, GiveUp, MoveChunk, Publish, Drain, mgrVars
      <3>3. /\ IF mu = "starting" THEN lpc[stopChan] = "none"
               ELSE lpc[stopChan] \in Labels \ ({"none", "killed"} \cup Ended)
            /\ stopChan \notin closed /\ stopChan \in Loops
        BY <1>0, <3>2 DEF ActiveMeansCapturing, NewestUncanceled
      <3>4. CASE l # stopChan
        BY <2>1, <3>3, <3>4 DEF ActiveMeansCapturing
      <3>5. CASE l = stopChan
        <4>1. Current(l) \notin canceled
          <5>1. Current(l)[1] = stopChan
            BY <3>5 DEF Current
          <5>2. QED
            BY <1>0, <3>2, <5>1 DEF NewestUncanceled
        <4>a. mu # "starting"
          BY <1>3, <3>3, <3>5 DEF LoopStep, CheckStop, ArmCancel, Launch, CaptureEnds,
             KillShell, KilledReturns, InspectFile, GiveUp, MoveChunk, Publish, Drain, Goto
        <4>2. lpc'[l] \in Labels \ ({"none", "killed"} \cup Ended)
          <5>1. CASE CheckStop(l) \/ ArmCancel(l) \/ Launch(l) \/ CaptureEnds(l)
            BY <1>0, <3>3, <3>5, <5>1 DEF CheckStop, ArmCancel, Launch, CaptureEnds,
               Goto, LoopTypeOK, Labels, Ended
          <5>2. CASE MoveChunk(l) \/ Publish(l)
            BY <1>0, <5>2 DEF MoveChunk, Publish, Goto, LoopTypeOK, Labels, Ended
          <5>3. CASE InspectFile(l)
            BY <1>0, <3>1, <5>3 DEF InspectFile, Goto, LoopTypeOK, Labels, Ended
          <5>4. CASE KillShell(l) \/ KilledReturns(l) \/ GiveUp(l) \/ Drain(l)
            BY <3>3, <3>5, <4>1, <4>a, <5>4 DEF KillShell, KilledReturns, GiveUp, Drain,
               Goto, Ended
          <5>5. QED
            BY <1>3, <5>1, <5>2, <5>3, <5>4 DEF LoopStep
        <4>3. QED
          BY <2>1, <3>3, <3>5, <4>a, <4>2 DEF ActiveMeansCapturing
      <3>6. QED
        BY <3>4, <3>5
    <2>4. QED
      BY <2>2, <2>3
  <1>4. CASE UNCHANGED <<mgrVars, lpc, qclosed>>
    BY <1>0, <1>4 DEF ActiveMeansCapturing, NoSendOnClosedQueue, mgrVars
  <1>5. QED
    BY <1>1, <1>2, <1>a, <1>b, <1>3, <1>4 DEF Next, HandlerReturns, WorkerStep,
       ClientTurns, TcpdumpExits, TakeChunk, AnalyzeChunk, WorkerReturns, vars, loopVars, chunkVars

\* A manager that was never started satisfies the invariant.
LEMMA InitCInv == Init => CInv
  <1> SUFFICES ASSUME Init PROVE CInv
    OBVIOUS
  <1>1. MgrTypeOK /\ LoopTypeOK /\ EventTypeOK
    BY CaptureAssumption DEF Init, MgrTypeOK, LoopTypeOK, EventTypeOK, Labels
  <1>2. ChunkTypeOK
    <2>1. <<>> \in Seq(Indices) /\ Len(<<>>) = 0
      OBVIOUS
    <2>2. \A l \in Loops : Len(queue[l]) <= QueueCap
      BY <2>1, CaptureAssumption DEF Init
    <2>3. QED
      BY <2>1, <2>2 DEF Init, ChunkTypeOK
  <1>3. ChunkNamed /\ NothingNewer /\ NewestUncanceled /\ SpawnPending
    BY DEF Init, ChunkNamed, NothingNewer, NewestUncanceled, SpawnPending, NoContext
  <1>4. ActiveMeansCapturing /\ NoSendOnClosedQueue
    BY DEF Init, ActiveMeansCapturing, NoSendOnClosedQueue
  <1>5. QED
    BY <1>1, <1>2, <1>3, <1>4 DEF CInv, TypeOK

\* Every behaviour of the manager and its loops keeps the invariant.
THEOREM Inductive == Spec => []CInv
  <1>1. CInv /\ [Next]_vars => CInv'
    BY TypeStep, NamedStep, NewestStep, ActiveStep DEF CInv
  <1>2. QED
    BY InitCInv, <1>1, PTL DEF Spec

\* Every field keeps its type and no chunk queue exceeds its capacity.
THEOREM TypeCorrect == Spec => []TypeOK
  <1>1. CInv => TypeOK
    BY DEF CInv
  <1>2. QED
    BY Inductive, <1>1, PTL

\* While the status is ACTIVE the loop of the last Start is alive and the
\* channel that Stop would close is open, whatever earlier loops do.
THEOREM ActiveIsCapturing == Spec => []ActiveMeansCapturing
  <1>1. CInv => ActiveMeansCapturing
    BY DEF CInv
  <1>2. QED
    BY Inductive, <1>1, PTL

\* No loop sends on a queue it has closed.
THEOREM NoPanicOnSend == Spec => []NoSendOnClosedQueue
  <1>1. CInv => NoSendOnClosedQueue
    BY DEF CInv
  <1>2. QED
    BY Inductive, <1>1, PTL

-----------------------------------------------------------------------------
(* Where the chunks are *)

\* Taking the head of a sequence without duplicates removes one element.
LEMMA TailTakesHead ==
  ASSUME NEW S, NEW q \in Seq(S), q # <<>>,
         \A h, j \in 1..Len(q) : q[h] = q[j] => h = j
  PROVE  /\ Head(q) \in {q[j] : j \in 1..Len(q)}
         /\ {Tail(q)[j] : j \in 1..Len(Tail(q))} = {q[j] : j \in 1..Len(q)} \ {Head(q)}
         /\ \A h, j \in 1..Len(Tail(q)) : Tail(q)[h] = Tail(q)[j] => h = j
  <1>1. /\ Len(q) \in Nat /\ Len(q) >= 1 /\ Len(Tail(q)) = Len(q) - 1 /\ Head(q) = q[1]
        /\ \A j \in 1..Len(Tail(q)) : Tail(q)[j] = q[j + 1]
    OBVIOUS
  <1>2. \A j \in 1..Len(Tail(q)) : j + 1 \in 1..Len(q) /\ q[j + 1] # q[1]
    BY <1>1
  <1>3. \A j \in 1..Len(q) : q[j] # q[1] => j - 1 \in 1..Len(Tail(q)) /\ Tail(q)[j - 1] = q[j]
    BY <1>1
  <1>4. {Tail(q)[j] : j \in 1..Len(Tail(q))} = {q[j] : j \in 1..Len(q)} \ {Head(q)}
    BY <1>1, <1>2, <1>3
  <1>5. \A h, j \in 1..Len(Tail(q)) : Tail(q)[h] = Tail(q)[j] => h = j
    BY <1>1, <1>2
  <1>6. QED
    BY <1>1, <1>4, <1>5

\* Appending an element that is not in the sequence adds it.
LEMMA AppendAdds ==
  ASSUME NEW S, NEW q \in Seq(S), NEW x \in S, x \notin {q[j] : j \in 1..Len(q)},
         \A h, j \in 1..Len(q) : q[h] = q[j] => h = j
  PROVE  /\ {Append(q, x)[j] : j \in 1..Len(Append(q, x))}
              = {q[j] : j \in 1..Len(q)} \cup {x}
         /\ \A h, j \in 1..Len(Append(q, x)) :
              Append(q, x)[h] = Append(q, x)[j] => h = j
  <1>1. /\ Len(q) \in Nat /\ Len(Append(q, x)) = Len(q) + 1
        /\ Append(q, x)[Len(q) + 1] = x
        /\ \A j \in 1..Len(q) : Append(q, x)[j] = q[j] /\ q[j] # x
    OBVIOUS
  <1>2. 1..Len(Append(q, x)) = 1..Len(q) \cup {Len(q) + 1}
    BY <1>1
  <1>3. QED
    BY <1>1, <1>2

\* What a step keeps of loop m when no chunk of it changes its place.
Settled(m) ==
  /\ queue'[m] = queue[m] /\ held'[m] = held[m] /\ wdone'[m] = wdone[m]
  /\ \A i \in Indices : /\ <<m, i>> \in moved' <=> <<m, i>> \in moved
                        /\ <<m, i>> \in analysed' <=> <<m, i>> \in analysed
                        /\ <<m, i>> \in dropped' <=> <<m, i>> \in dropped
  /\ m \in qclosed => m \in qclosed'
  /\ lpc'[m] = "publish" <=> lpc[m] = "publish"
  /\ \/ idx'[m] = idx[m] /\ (Fresh(m)' => Fresh(m))
     \/ idx'[m] = idx[m] + 1 /\ lpc[m] # "publish"
  /\ lpc'[m] = "exited" => lpc[m] = "exited" \/ wdone[m] = Workers

\* Such a step keeps the loop's part of the invariant.
LEMMA SettledKeeps ==
  ASSUME CInv, NEW m \in Loops, ChunkOnce(m), WorkersLast(m), Settled(m)
  PROVE  ChunkOnce(m)' /\ WorkersLast(m)'
  <1>1. WorkersLast(m)'
    BY DEF WorkersLast, Settled
  <1>2. \A i \in Indices : Places(m, i)' = Places(m, i)
    BY DEF Places, InPlace, Queued, Held, Settled
  <1>3. idx[m] \in Nat
    BY DEF CInv, TypeOK, LoopTypeOK
  <1>4. \A i \in Indices : <<m, i>> \in moved' =>
          i <= idx'[m] /\ (Fresh(m)' => i # idx'[m])
    <2>1. \A i \in Indices : i \in Nat
      BY DEF Indices
    <2>2. \A i \in Indices : <<m, i>> \in moved => i <= idx[m] /\ (Fresh(m) => i # idx[m])
      BY DEF ChunkOnce
    <2>3. QED
      BY <1>3, <2>1, <2>2 DEF Settled
  <1>5. QED
    BY <1>1, <1>2, <1>4 DEF ChunkOnce, Settled

\* Requests, and the steps that only move a loop along, settle every loop.
LEMMA LoopSettles ==
  ASSUME CInv, AInv, NEW m \in Loops,
         \/ Start \/ Stop \/ HandlerReturns \/ ClientTurns
         \/ \E l \in Loops :
              \/ CheckStop(l) \/ ArmCancel(l) \/ Launch(l) \/ CaptureEnds(l)
              \/ KillShell(l) \/ KilledReturns(l) \/ InspectFile(l) \/ GiveUp(l)
              \/ Drain(l) \/ TcpdumpExits(l)
         \/ UNCHANGED vars
  PROVE  Settled(m)
  <1>0. LoopTypeOK /\ MgrTypeOK /\ ChunkTypeOK /\ NothingNewer
    BY DEF CInv, TypeOK
  <1>1. CASE StartReturns
    <2>1. stopChan \in Loops /\ lpc[stopChan] = "none"
      BY <1>1 DEF StartReturns, CInv, SpawnPending, NewestUncanceled, ActiveMeansCapturing
    <2>2. lpc'[m] = lpc[m] \/ (lpc[m] = "none" /\ lpc'[m] = "check")
      BY <1>0, <1>1, <2>1 DEF StartReturns, LoopTypeOK
    <2>3. QED
      BY <1>1, <2>2 DEF StartReturns, Settled, chunkVars, Fresh
  <1>2. CASE Start \/ Stop \/ StopReturns \/ ClientTurns
    BY <1>2 DEF Start, Stop, StopReturns, ClientTurns, Settled, loopVars, chunkVars, Fresh
  <1>3. ASSUME NEW l \in Loops, CheckStop(l) PROVE Settled(m)
    BY <1>0, <1>3 DEF CheckStop, Goto, Settled, Fresh, LoopTypeOK
  <1>4. ASSUME NEW l \in Loops,
               \/ ArmCancel(l) \/ Launch(l) \/ CaptureEnds(l) \/ KillShell(l)
               \/ KilledReturns(l) \/ InspectFile(l) \/ GiveUp(l)
        PROVE  Settled(m)
    <2>1. UNCHANGED <<idx, chunkVars>>
      BY <1>4 DEF ArmCancel, Launch, CaptureEnds, KillShell, KilledReturns, InspectFile, GiveUp
    <2>2. \/ lpc'[m] = lpc[m]
          \/ /\ lpc[m] \notin {"publish", "exited"} /\ (Fresh(m)' => Fresh(m))
             /\ lpc'[m] \notin {"publish", "exited"}
      BY <1>0, <1>4 DEF ArmCancel, Launch, CaptureEnds, KillShell, KilledReturns,
         InspectFile, GiveUp, Goto, Fresh, LoopTypeOK
    <2>3. QED
      BY <2>1, <2>2 DEF Settled, Fresh, chunkVars
  <1>5. ASSUME NEW l \in Loops, Drain(l) PROVE Settled(m)
    BY <1>0, <1>5 DEF Drain, Goto, Settled, Fresh, LoopTypeOK, chunkVars
  <1>6. ASSUME NEW l \in Loops, TcpdumpExits(l) PROVE Settled(m)
    BY <1>6 DEF TcpdumpExits, Settled, Fresh, chunkVars
  <1>7. CASE UNCHANGED vars
    BY <1>7 DEF vars, loopVars, chunkVars, Settled, Fresh
  <1>8. QED
    BY <1>1, <1>2, <1>3, <1>4, <1>5, <1>6, <1>7 DEF HandlerReturns

\* A step that moves a chunk of loop l settles every other loop.
LEMMA OthersSettle ==
  ASSUME CInv, NEW l \in Loops, NEW m \in Loops \ {l},
         \/ MoveChunk(l) \/ Publish(l)
         \/ \E w \in Workers : WorkerStep(l, w)
  PROVE  Settled(m)
  <1>0. LoopTypeOK /\ ChunkTypeOK
    BY DEF CInv, TypeOK
  <1>1. CASE MoveChunk(l) \/ Publish(l)
    BY <1>0, <1>1 DEF MoveChunk, Publish, Goto, Current, Settled, Fresh, LoopTypeOK, ChunkTypeOK
  <1>2. ASSUME NEW w \in Workers, WorkerStep(l, w) PROVE Settled(m)
    BY <1>0, <1>2 DEF WorkerStep, TakeChunk, AnalyzeChunk, WorkerReturns, Settled, Fresh,
       ChunkTypeOK, loopVars
  <1>3. QED
    BY <1>1, <1>2

\* The chunk k of loop l goes to place b, the others stay where they are.
Hops(l, k, b) ==
  /\ <<l, k>> \in moved' /\ Places(l, k)' = {b}
  /\ \A i \in Indices \ {k} : /\ Places(l, i)' = Places(l, i)
                              /\ <<l, i>> \in moved' <=> <<l, i>> \in moved
  /\ idx'[l] = idx[l] /\ (Fresh(l)' => Fresh(l) /\ <<l, k>> \in moved)

\* Then every chunk is in one place again.
LEMMA HopKeeps ==
  ASSUME NEW l \in Loops, ChunkOnce(l), NEW k \in Indices, NEW b, Hops(l, k, b), k <= idx[l]
  PROVE  \A i \in Indices :
           /\ <<l, i>> \in moved' <=> Places(l, i)' # {}
           /\ \A p, q \in Places(l, i)' : p = q
           /\ <<l, i>> \in moved' => i <= idx'[l] /\ (Fresh(l)' => i # idx'[l])
  BY DEF ChunkOnce, Hops

\* The file of the loop's chunk is moved, the chunk about to be published.
LEMMA MoveKeeps ==
  ASSUME CInv, AInv, NEW l \in Loops, MoveChunk(l)
  PROVE  ChunkOnce(l)' /\ WorkersLast(l)'
  <1>0. LoopTypeOK /\ ChunkTypeOK /\ ChunkNamed /\ ChunkOnce(l) /\ WorkersLast(l)
    BY DEF CInv, TypeOK, AInv
  <1>1. CASE Goto(l, "move", "check") /\ UNCHANGED moved
    <2>1. Settled(l)
      BY <1>0, <1>1 DEF MoveChunk, Goto, Settled, Fresh, LoopTypeOK
    <2>2. QED
      BY <1>0, <2>1, SettledKeeps
  <1>2. CASE Goto(l, "move", "publish") /\ moved' = moved \cup {Current(l)}
    <2>1. lpc[l] = "move" /\ lpc'[l] = "publish"
      BY <1>0, <1>2 DEF Goto, LoopTypeOK
    <2>2. PICK k \in Indices : k = idx[l]
      BY <1>0, <2>1 DEF ChunkNamed, Labels, Ended, LoopTypeOK, Indices
    <2>3. <<l, k>> \notin moved /\ Places(l, k) = {}
      BY <1>0, <2>1, <2>2 DEF ChunkOnce, Fresh
    <2>4. Hops(l, k, "publish")
      <3>1. UNCHANGED <<idx, queue, held, analysed, dropped>>
        BY DEF MoveChunk
      <3>2. \A i \in Indices : <<l, i>> \in moved' <=> i = k \/ <<l, i>> \in moved
        BY <1>2, <2>2 DEF Current
      <3>3. Places(l, k)' = {"publish"}
        BY <2>1, <2>2, <2>3, <3>1 DEF Places, InPlace, Queued, Held
      <3>4. \A i \in Indices \ {k} : Places(l, i)' = Places(l, i)
        BY <2>1, <2>2, <3>1 DEF Places, InPlace, Queued, Held
      <3>5. QED
        BY <2>1, <3>1, <3>2, <3>3, <3>4 DEF Hops, Fresh
    <2>5. k <= idx[l]
      BY <2>2 DEF Indices
    <2>6. WorkersLast(l)'
      BY <1>0, <2>1 DEF MoveChunk, WorkersLast
    <2>7. QED
      BY <1>0, <2>4, <2>5, <2>6, HopKeeps DEF ChunkOnce, MoveChunk
  <1>3. QED
    BY <1>1, <1>2 DEF MoveChunk

\* The loop's chunk goes to the end of the queue or, when that is full, away.
LEMMA PublishKeeps ==
  ASSUME CInv, AInv, NEW l \in Loops, Publish(l)
  PROVE  ChunkOnce(l)' /\ WorkersLast(l)'
  <1>0. /\ LoopTypeOK /\ ChunkTypeOK /\ ChunkNamed /\ NoSendOnClosedQueue
        /\ ChunkOnce(l) /\ WorkersLast(l)
    BY DEF CInv, TypeOK, AInv
  <1>1. lpc[l] = "publish" /\ lpc'[l] = "check" /\ l \notin qclosed
    BY <1>0 DEF Publish, Goto, LoopTypeOK, NoSendOnClosedQueue
  <1>2. PICK k \in Indices : k = idx[l]
    BY <1>0, <1>1 DEF ChunkNamed, Labels, Ended, LoopTypeOK, Indices
  <1>3. Places(l, k) = {"publish"} /\ <<l, k>> \in moved
    <2>1. "publish" \in Places(l, k)
      BY <1>1, <1>2 DEF Places, InPlace
    <2>2. QED
      BY <1>0, <2>1 DEF ChunkOnce
  <1>4. k \notin Queued(l) /\ <<l, k>> \notin dropped
    BY <1>3 DEF Places, InPlace
  <1>5. UNCHANGED <<idx, moved, held, analysed, wdone, qclosed>> /\ k <= idx[l]
    BY <1>2 DEF Publish, Indices
  <1>6. ~Fresh(l)'
    BY <1>1 DEF Fresh
  <1>7. CASE Len(queue[l]) < QueueCap
    <2>1. UNCHANGED dropped /\ queue'[l] = Append(queue[l], k)
      BY <1>0, <1>2, <1>7 DEF Publish, ChunkTypeOK
    <2>2. queue[l] \in Seq(Indices)
      BY <1>0 DEF ChunkTypeOK
    <2>3. /\ Queued(l)' = Queued(l) \cup {k}
          /\ \A h, j \in 1..Len(queue'[l]) : queue'[l][h] = queue'[l][j] => h = j
      BY <1>0, <1>4, <2>1, <2>2, AppendAdds DEF Queued, ChunkOnce
    <2>4. Places(l, k)' = {"queue"}
      BY <1>1, <1>3, <1>5, <2>1, <2>3 DEF Places, InPlace, Held
    <2>5. \A i \in Indices \ {k} : Places(l, i)' = Places(l, i)
      BY <1>1, <1>2, <1>5, <2>1, <2>3 DEF Places, InPlace, Held
    <2>6. Hops(l, k, "queue")
      BY <1>3, <1>5, <1>6, <2>4, <2>5 DEF Hops
    <2>7. WorkersLast(l)'
      BY <1>0, <1>1, <1>5 DEF WorkersLast
    <2>8. QED
      BY <1>0, <1>5, <2>3, <2>6, <2>7, HopKeeps DEF ChunkOnce
  <1>8. CASE ~(Len(queue[l]) < QueueCap)
    <2>1. UNCHANGED queue /\ \A i \in Indices : <<l, i>> \in dropped' <=> i = k \/ <<l, i>> \in dropped
      BY <1>2, <1>8 DEF Publish, Current
    <2>2. Places(l, k)' = {"dropped"}
      BY <1>1, <1>3, <1>5, <2>1 DEF Places, InPlace, Held, Queued
    <2>3. \A i \in Indices \ {k} : Places(l, i)' = Places(l, i)
      BY <1>1, <1>2, <1>5, <2>1 DEF Places, InPlace, Held, Queued
    <2>4. Hops(l, k, "dropped")
      BY <1>3, <1>5, <1>6, <2>2, <2>3 DEF Hops
    <2>5. WorkersLast(l)'
      BY <1>0, <1>1, <1>5, <2>1 DEF WorkersLast
    <2>6. QED
      BY <1>0, <1>5, <2>1, <2>4, <2>5, HopKeeps DEF ChunkOnce
  <1>9. QED
    BY <1>7, <1>8

\* The chunk at the head of the queue goes to worker w.
LEMMA TakeKeeps ==
  ASSUME CInv, AInv, NEW l \in Loops, NEW w \in Workers, TakeChunk(l, w)
  PROVE  ChunkOnce(l)' /\ WorkersLast(l)'
  <1>0. LoopTypeOK /\ ChunkTypeOK /\ ChunkOnce(l) /\ WorkersLast(l)
    BY DEF CInv, TypeOK, AInv
  <1>1. /\ queue[l] \in Seq(Indices) /\ queue[l] # <<>> /\ queue'[l] = Tail(queue[l])
        /\ w \notin wdone[l] /\ held[l][w] = NoChunk
        /\ UNCHANGED <<lpc, idx, moved, analysed, dropped, wdone, qclosed>>
    BY <1>0 DEF TakeChunk, ChunkTypeOK, loopVars
  <1>2. PICK k \in Indices : k = Head(queue[l])
    BY <1>1
  <1>3. /\ k \in Queued(l) /\ Queued(l)' = Queued(l) \ {k}
        /\ \A h, j \in 1..Len(queue'[l]) : queue'[l][h] = queue'[l][j] => h = j
    <2>1. \A h, j \in 1..Len(queue[l]) : queue[l][h] = queue[l][j] => h = j
      BY <1>0 DEF ChunkOnce
    <2>2. PICK q \in Seq(Indices) : q = queue[l]
      BY <1>1
    <2>3. /\ Head(q) \in {q[j] : j \in 1..Len(q)}
          /\ {Tail(q)[j] : j \in 1..Len(Tail(q))} = {q[j] : j \in 1..Len(q)} \ {Head(q)}
          /\ \A h, j \in 1..Len(Tail(q)) : Tail(q)[h] = Tail(q)[j] => h = j
      BY <1>1, <2>1, <2>2, TailTakesHead
    <2>4. queue'[l] = Tail(q) /\ k = Head(q)
      BY <1>1, <1>2, <2>2
    <2>5. /\ Queued(l) = {q[j] : j \in 1..Len(q)}
          /\ Queued(l)' = {Tail(q)[j] : j \in 1..Len(Tail(q))}
      BY <2>2, <2>4 DEF Queued
    <2>6. QED
      BY <2>3, <2>4, <2>5
  <1>4. /\ held'[l][w] = k
        /\ \A v \in Workers \ {w} : held'[l][v] = held[l][v]
    BY <1>0, <1>2 DEF TakeChunk, ChunkTypeOK
  <1>5. Places(l, k) = {"queue"}
    <2>1. "queue" \in Places(l, k)
      BY <1>3 DEF Places, InPlace
    <2>2. \A p, q \in Places(l, k) : p = q
      BY <1>0 DEF ChunkOnce
    <2>3. QED
      BY <2>1, <2>2
  <1>6. k # NoChunk /\ k \in Nat
    BY DEF Indices, NoChunk
  <1>7. k \notin Held(l) /\ Held(l)' = Held(l) \cup {k}
    <2>1. k \notin Held(l)
      BY <1>5 DEF Places, InPlace
    <2>2. QED
      BY <1>1, <1>4, <1>6, <2>1 DEF Held
  <1>8. \A u, v \in Workers : held'[l][u] = held'[l][v] /\ held'[l][u] # NoChunk => u = v
    BY <1>0, <1>4, <1>6, <1>7 DEF ChunkOnce, Held
  <1>9. Hops(l, k, "worker") /\ k <= idx[l]
    <2>1. Places(l, k)' = {"worker"}
      BY <1>1, <1>3, <1>5, <1>7 DEF Places, InPlace
    <2>2. \A i \in Indices \ {k} : Places(l, i)' = Places(l, i)
      BY <1>1, <1>3, <1>7 DEF Places, InPlace
    <2>3. <<l, k>> \in moved /\ k <= idx[l]
      BY <1>0, <1>5 DEF ChunkOnce
    <2>4. QED
      BY <1>1, <2>1, <2>2, <2>3 DEF Hops, Fresh
  <1>10. WorkersLast(l)'
    BY <1>0, <1>1, <1>4 DEF WorkersLast, ChunkTypeOK
  <1>11. QED
    BY <1>0, <1>3, <1>8, <1>9, <1>10, HopKeeps DEF ChunkOnce

\* Worker w hands its chunk to the analysis.
LEMMA AnalyzeKeeps ==
  ASSUME CInv, AInv, NEW l \in Loops, NEW w \in Workers, AnalyzeChunk(l, w)
  PROVE  ChunkOnce(l)' /\ WorkersLast(l)'
  <1>0. LoopTypeOK /\ ChunkTypeOK /\ ChunkOnce(l) /\ WorkersLast(l)
    BY DEF CInv, TypeOK, AInv
  <1>1. UNCHANGED <<queue, lpc, idx, moved, dropped, wdone, qclosed>>
    BY DEF AnalyzeChunk, loopVars
  <1>2. PICK k \in Indices : k = held[l][w]
    BY <1>0 DEF AnalyzeChunk, ChunkTypeOK
  <1>3. /\ held'[l][w] = NoChunk /\ held[l][w] # NoChunk
        /\ \A v \in Workers \ {w} : held'[l][v] = held[l][v]
    BY <1>0 DEF AnalyzeChunk, ChunkTypeOK
  <1>4. k \in Held(l) /\ Held(l)' = Held(l) \ {k}
    <2>1. \A v, u \in Workers : held[l][v] = held[l][u] /\ held[l][v] # NoChunk => v = u
      BY <1>0 DEF ChunkOnce
    <2>2. QED
      BY <1>2, <1>3, <2>1 DEF Held
  <1>5. Places(l, k) = {"worker"}
    <2>1. "worker" \in Places(l, k)
      BY <1>4 DEF Places, InPlace
    <2>2. \A p, q \in Places(l, k) : p = q
      BY <1>0 DEF ChunkOnce
    <2>3. QED
      BY <2>1, <2>2
  <1>6. \A i \in Indices : <<l, i>> \in analysed' <=> i = k \/ <<l, i>> \in analysed
    BY <1>2 DEF AnalyzeChunk
  <1>7. Hops(l, k, "analysed") /\ k <= idx[l]
    <2>1. Places(l, k)' = {"analysed"}
      BY <1>1, <1>4, <1>5, <1>6 DEF Places, InPlace, Queued
    <2>2. \A i \in Indices \ {k} : Places(l, i)' = Places(l, i)
      BY <1>1, <1>4, <1>6 DEF Places, InPlace, Queued
    <2>3. <<l, k>> \in moved /\ k <= idx[l]
      BY <1>0, <1>5 DEF ChunkOnce
    <2>4. QED
      BY <1>1, <2>1, <2>2, <2>3 DEF Hops, Fresh
  <1>8. /\ \A u, v \in Workers : held'[l][u] = held'[l][v] /\ held'[l][u] # NoChunk => u = v
        /\ \A h, j \in 1..Len(queue'[l]) : queue'[l][h] = queue'[l][j] => h = j
    BY <1>0, <1>1, <1>3 DEF ChunkOnce
  <1>9. WorkersLast(l)'
    <2>1. \A v \in wdone[l] : v \in Workers
      BY <1>0 DEF ChunkTypeOK
    <2>2. QED
      BY <1>0, <1>1, <1>3, <2>1 DEF WorkersLast
  <1>10. QED
    BY <1>0, <1>7, <1>8, <1>9, HopKeeps DEF ChunkOnce

\* Worker w returns: its hands and the closed queue are empty.
LEMMA ReturnKeeps ==
  ASSUME CInv, AInv, NEW l \in Loops, NEW w \in Workers, WorkerReturns(l, w)
  PROVE  ChunkOnce(l)' /\ WorkersLast(l)'
  <1>0. ChunkTypeOK /\ ChunkOnce(l) /\ WorkersLast(l)
    BY DEF CInv, TypeOK, AInv
  <1>1. UNCHANGED <<lpc, idx, moved, queue, qclosed, held, analysed, dropped>>
    BY DEF WorkerReturns, loopVars
  <1>2. ChunkOnce(l)'
    <2>1. \A i \in Indices : Places(l, i)' = Places(l, i)
      BY <1>1 DEF Places, InPlace, Queued, Held
    <2>2. QED
      BY <1>0, <1>1, <2>1 DEF ChunkOnce, Fresh
  <1>3. wdone'[l] = wdone[l] \cup {w}
    BY <1>0 DEF WorkerReturns, ChunkTypeOK
  <1>4. lpc[l] = "exited" => wdone'[l] = Workers
    BY <1>0, <1>3 DEF WorkersLast
  <1>5. QED
    BY <1>0, <1>1, <1>2, <1>3, <1>4 DEF WorkerReturns, WorkersLast

\* Every step keeps every chunk of every loop accounted for.
LEMMA AccountStep == CInv /\ AInv /\ [Next]_vars => AInv'
  <1> SUFFICES ASSUME CInv, AInv, [Next]_vars, NEW m \in Loops
               PROVE  ChunkOnce(m)' /\ WorkersLast(m)'
    BY DEF AInv
  <1>0. ChunkOnce(m) /\ WorkersLast(m)
    BY DEF AInv
  <1>1. CASE Settled(m)
    BY <1>0, <1>1, SettledKeeps
  <1>2. ASSUME NEW l \in Loops, l # m,
               MoveChunk(l) \/ Publish(l) \/ \E w \in Workers : WorkerStep(l, w)
        PROVE  Settled(m)
    BY <1>2, OthersSettle
  <1>3. CASE \/ MoveChunk(m) \/ Publish(m)
             \/ \E w \in Workers : WorkerStep(m, w)
    BY <1>3, MoveKeeps, PublishKeeps, TakeKeeps, AnalyzeKeeps, ReturnKeeps DEF WorkerStep
  <1>4. QED
    BY <1>1, <1>2, <1>3, LoopSettles DEF Next, LoopStep

\* Nothing has been moved, and no worker has returned, when the manager is made.
LEMMA InitAInv == Init => AInv
  <1> SUFFICES ASSUME Init, NEW m \in Loops PROVE ChunkOnce(m) /\ WorkersLast(m)
    BY DEF AInv
  <1>1. /\ lpc[m] = "none" /\ moved = {} /\ queue[m] = <<>> /\ wdone[m] = {}
        /\ \A w \in Workers : held[m][w] = NoChunk
        /\ analysed = {} /\ dropped = {}
    BY DEF Init
  <1>2. Queued(m) = {} /\ Held(m) = {}
    BY <1>1 DEF Queued, Held
  <1>3. \A i \in Indices : Places(m, i) = {}
    BY <1>1, <1>2 DEF Places, InPlace
  <1>4. QED
    BY <1>1, <1>3 DEF ChunkOnce, WorkersLast

\* Every chunk file that reached outputDir is about to be published, queued,
\* with one worker, analysed or dropped, and in one of these places only; the
\* loop that returns after a stop leaves every chunk analysed or dropped.
THEOREM ChunksAreAccounted == Spec => []ChunksAccounted
  <1>1. CInv /\ AInv => ChunksAccounted
    <2> SUFFICES ASSUME CInv, AInv, NEW l \in Loops, NEW i \in Indices
                 PROVE  /\ Cardinality(Places(l, i)) = IF <<l, i>> \in moved THEN 1 ELSE 0
                        /\ lpc[l] = "exited" => Places(l, i) \subseteq {"analysed", "dropped"}
      BY DEF ChunksAccounted
    <2>1. ChunkOnce(l) /\ WorkersLast(l)
      BY DEF AInv
    <2>2. <<l, i>> \in moved => Cardinality(Places(l, i)) = 1
      <3> SUFFICES ASSUME <<l, i>> \in moved PROVE Cardinality(Places(l, i)) = 1
        OBVIOUS
      <3>1. PICK p : p \in Places(l, i)
        BY <2>1 DEF ChunkOnce
      <3>2. \A q \in Places(l, i) : q = p
        BY <2>1, <3>1 DEF ChunkOnce
      <3>3. Places(l, i) = {p}
        BY <3>1, <3>2
      <3>4. QED
        BY <3>3, FS_Singleton
    <2>3. <<l, i>> \notin moved => Cardinality(Places(l, i)) = 0
      BY <2>1, FS_EmptySet DEF ChunkOnce
    <2>4. lpc[l] = "exited" => Queued(l) = {} /\ Held(l) = {}
      <3>1. SUFFICES ASSUME lpc[l] = "exited" PROVE Queued(l) = {} /\ Held(l) = {}
        OBVIOUS
      <3>2. Workers # {} /\ wdone[l] = Workers
        BY <2>1, <3>1, CaptureAssumption DEF WorkersLast
      <3>3. queue[l] = <<>> /\ \A w \in Workers : held[l][w] = NoChunk
        BY <2>1, <3>2 DEF WorkersLast
      <3>4. QED
        BY <3>3 DEF Queued, Held
    <2>5. lpc[l] = "exited" => Places(l, i) \subseteq {"analysed", "dropped"}
      BY <2>4 DEF Places, InPlace
    <2>6. QED
      BY <2>2, <2>3, <2>5
  <1>2. QED
    BY Inductive, InitAInv, AccountStep, <1>1, PTL DEF Spec
=============================================================================
