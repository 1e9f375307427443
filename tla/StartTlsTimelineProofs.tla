----------------------- MODULE StartTlsTimelineProofs -----------------------
(***************************************************************************)
(* The verdict of the timeline analyser is sound on every stream: however  *)
(* long, in any order of the two directions, for any lines and any places  *)
(* of ClientHellos.                                                        *)
(***************************************************************************)
EXTENDS StartTlsTimeline, SequenceTheorems, FiniteSetTheorems, TLAPS

USE DEF None

-----------------------------------------------------------------------------
(* Types, one lemma per action *)

\* A line at the head of a buffer is one that its sender can send.
LEMMA HeadIsLine ==
  ASSUME TypeOK, lines[chunk.from] # <<>>
  PROVE  /\ chunk.from \in Sides
         /\ Head(lines[chunk.from]) \in Lines(proto, chunk.from)
         /\ Head(lines[chunk.from]) \in AllLines(proto)
         /\ Tail(lines[chunk.from]) \in Seq(Lines(proto, chunk.from))
         /\ Tail(lines[chunk.from]) \in Seq(AllLines(proto))
<1>1. chunk.from \in Sides
  BY DEF TypeOK
<1>2. lines[chunk.from] \in Seq(Lines(proto, chunk.from))
  BY <1>1 DEF TypeOK, Sides
<1>3. Lines(proto, chunk.from) \subseteq AllLines(proto)
  BY <1>1 DEF Sides, AllLines
<1>4. lines[chunk.from] \in Seq(AllLines(proto))
  BY <1>1 DEF TypeOK
<1> QED BY <1>1, <1>2, <1>3, <1>4, HeadTailProperties

\* Chunks only add to the buffer of their own side.
LEMMA FeedTypes ==
  ASSUME TypeOK, NEW side \in Sides, NEW hello \in BOOLEAN,
         NEW data \in Data(side), Feed(side, data, hello)
  PROVE  TypeOK'
<1>1. data \in Seq(Lines(proto, side))
  <2>1. PICK n \in 0..(MaxLines - fed.lines) : data \in [1..n -> Lines(proto, side)]
    BY DEF Data
  <2>2. n \in Nat
    BY TimelineAssumption DEF TypeOK
  <2>3. \A S : [1..n -> S] \subseteq Seq(S)
    BY <2>2, SeqDef
  <2> QED BY <2>1, <2>3
<1>2. Lines(proto, side) \subseteq AllLines(proto)
  BY DEF Sides, AllLines
<1>3. data \in Seq(AllLines(proto))
  BY <1>1, <1>2, SeqMonotonic
<1>4. Len(data) \in Nat
  BY <1>1, LenProperties
<1>5. lines[side] \in Seq(Lines(proto, side)) /\ lines[side] \in Seq(AllLines(proto))
  BY DEF TypeOK, Sides
<1>6. /\ lines[side] \o data \in Seq(Lines(proto, side))
      /\ lines[side] \o data \in Seq(AllLines(proto))
  BY <1>1, <1>3, <1>5, ConcatProperties
<1>7. lines' = [lines EXCEPT ![side] = lines[side] \o data] /\ proto' = proto
  BY DEF Feed
<1>8. /\ lines' \in [Sides -> Seq(AllLines(proto))]
      /\ lines'["client"] \in Seq(Lines(proto, "client"))
      /\ lines'["server"] \in Seq(Lines(proto, "server"))
  BY <1>6, <1>7 DEF TypeOK, Sides
<1>9. fed' \in [chunks : 0..MaxChunks, lines : 0..MaxLines]
  BY <1>4, TimelineAssumption DEF Feed, TypeOK
<1> QED BY <1>7, <1>8, <1>9 DEF Feed, TypeOK

\* A command that is noted is a client's.
LEMMA ClientLineTypes ==
  ASSUME TypeOK, NEW l \in Lines(proto, "client"), ClientLine(l)
  PROVE  /\ events' \in Seq([command : ClientKinds(proto) \cup {None},
                             response : ReplyKinds(proto) \cup {None}])
         /\ lastCmd' \in ClientKinds(proto) \cup {None}
         /\ startTLS' \in [state : States, supported : BOOLEAN, requested : BOOLEAN,
                           accepted : BOOLEAN, established : BOOLEAN]
<1> DEFINE E == [command : ClientKinds(proto) \cup {None},
                 response : ReplyKinds(proto) \cup {None}]
<1>1. l.kind \in ClientKinds(proto)
  BY DEF Lines
<1>2. [command |-> l.kind, response |-> None] \in E
  BY <1>1
<1>3. events \in Seq(E)
  BY DEF TypeOK
<1>4. Append(events, [command |-> l.kind, response |-> None]) \in Seq(E)
  BY <1>2, <1>3, AppendProperties
<1>5. events' \in Seq(E) /\ lastCmd' \in ClientKinds(proto) \cup {None}
  <2>1. CASE IsCommand(l)
    BY <2>1, <1>1, <1>4 DEF ClientLine, NoteCommand
  <2>2. CASE ~IsCommand(l)
    BY <2>2 DEF ClientLine, NoteCommand, TypeOK
  <2> QED BY <2>1, <2>2
<1>6. startTLS' \in [state : States, supported : BOOLEAN, requested : BOOLEAN,
                     accepted : BOOLEAN, established : BOOLEAN]
  BY DEF ClientLine, TypeOK, States
<1> QED BY <1>5, <1>6

\* A reply goes to the last event or becomes one.
LEMMA ServerLineTypes ==
  ASSUME TypeOK, NEW l \in Lines(proto, "server"), ServerLine(l)
  PROVE  /\ events' \in Seq([command : ClientKinds(proto) \cup {None},
                             response : ReplyKinds(proto) \cup {None}])
         /\ lastCmd' \in ClientKinds(proto) \cup {None}
         /\ startTLS' \in [state : States, supported : BOOLEAN, requested : BOOLEAN,
                           accepted : BOOLEAN, established : BOOLEAN]
<1> DEFINE E == [command : ClientKinds(proto) \cup {None},
                 response : ReplyKinds(proto) \cup {None}]
           n == Len(events)
<1>1. l.kind \in ReplyKinds(proto) /\ l.advert \in BOOLEAN
  BY DEF Lines
<1>2. events \in Seq(E)
  BY DEF TypeOK
<1>3. ASSUME events # <<>>
      PROVE  [events EXCEPT ![n].response = l.kind] \in Seq(E)
  <2>1. n \in 1..n
    BY <1>2, <1>3, EmptySeq
  <2>2. events[n] \in E
    BY <1>2, <2>1, ElementOfSeq
  <2>3. [events[n] EXCEPT !.response = l.kind] \in E
    BY <2>2, <1>1
  <2>4. [events EXCEPT ![n] = [events[n] EXCEPT !.response = l.kind]] \in Seq(E)
    BY <1>2, <2>1, <2>3, ExceptSeq
  <2> QED BY <2>4
<1>4. Append(events, [command |-> None, response |-> l.kind]) \in Seq(E)
  <2>1. [command |-> None, response |-> l.kind] \in E
    BY <1>1
  <2> QED BY <2>1, <1>2, AppendProperties
<1>5. events' \in Seq(E) /\ lastCmd' \in ClientKinds(proto) \cup {None}
  <2>1. CASE l.kind = "blank"
    BY <2>1 DEF ServerLine, TypeOK
  <2>2. CASE l.kind # "blank" /\ Awaited
    BY <2>2, <1>3 DEF ServerLine, NoteReply, Awaited
  <2>3. CASE l.kind # "blank" /\ ~Awaited
    BY <2>3, <1>2, <1>4 DEF ServerLine, NoteReply, TypeOK
  <2> QED BY <2>1, <2>2, <2>3
<1>6. startTLS' \in [state : States, supported : BOOLEAN, requested : BOOLEAN,
                     accepted : BOOLEAN, established : BOOLEAN]
  BY <1>1 DEF ServerLine, Judged, TypeOK, States
<1> QED BY <1>5, <1>6

LEMMA ProcessLineTypes ==
  ASSUME TypeOK, ProcessLine
  PROVE  TypeOK'
<1> DEFINE l == Head(lines[chunk.from])
<1>1. lines[chunk.from] # <<>>
  BY DEF ProcessLine
<1>2. /\ chunk.from \in Sides
      /\ l \in Lines(proto, chunk.from) /\ l \in AllLines(proto)
      /\ Tail(lines[chunk.from]) \in Seq(Lines(proto, chunk.from))
      /\ Tail(lines[chunk.from]) \in Seq(AllLines(proto))
  BY <1>1, HeadIsLine
<1>3. /\ events' \in Seq([command : ClientKinds(proto) \cup {None},
                          response : ReplyKinds(proto) \cup {None}])
      /\ lastCmd' \in ClientKinds(proto) \cup {None}
      /\ startTLS' \in [state : States, supported : BOOLEAN, requested : BOOLEAN,
                        accepted : BOOLEAN, established : BOOLEAN]
  <2>1. CASE chunk.from = "client"
    <3>1. l \in Lines(proto, "client") /\ ClientLine(l)
      BY <2>1, <1>2 DEF ProcessLine
    <3> HIDE DEF l
    <3> QED BY <3>1, ClientLineTypes
  <2>2. CASE chunk.from = "server"
    <3>1. l \in Lines(proto, "server") /\ ServerLine(l)
      BY <2>2, <1>2 DEF ProcessLine
    <3> HIDE DEF l
    <3> QED BY <3>1, ServerLineTypes
  <2> QED BY <2>1, <2>2, <1>2 DEF Sides
<1>4. wire' \in Seq(AllLines(proto) \cup Hellos)
  <2>1. wire' = Append(wire, l) /\ wire \in Seq(AllLines(proto) \cup Hellos)
    BY DEF ProcessLine, TypeOK
  <2> HIDE DEF l
  <2> QED BY <2>1, <1>2, AppendProperties
<1>5. lines' = [lines EXCEPT ![chunk.from] = Tail(lines[chunk.from])]
  BY DEF ProcessLine
<1>6. /\ lines' \in [Sides -> Seq(AllLines(proto))]
      /\ lines'["client"] \in Seq(Lines(proto, "client"))
      /\ lines'["server"] \in Seq(Lines(proto, "server"))
  BY <1>2, <1>5 DEF TypeOK, Sides
<1>7. pc' \in {"next", "lines", "hello", "done"}
  BY DEF ProcessLine
<1>8. UNCHANGED <<proto, chunk, fed>>
  BY DEF ProcessLine
<1> QED BY <1>3, <1>4, <1>6, <1>7, <1>8 DEF TypeOK

LEMMA LookForHelloTypes ==
  ASSUME TypeOK, LookForHello
  PROVE  TypeOK'
<1>1. Hello \in AllLines(proto) \cup Hellos
  BY DEF Hello, Hellos, TypeOK
<1>2. wire' \in Seq(AllLines(proto) \cup Hellos)
  BY <1>1, AppendProperties DEF LookForHello, TypeOK
<1> QED BY <1>2 DEF LookForHello, TypeOK, States

LEMMA TypeStep ==
  ASSUME TypeOK, [Next]_vars
  PROVE  TypeOK'
<1>1. CASE \E side \in Sides, hello \in BOOLEAN : \E data \in Data(side) :
             Feed(side, data, hello)
  BY <1>1, FeedTypes
<1>2. CASE ProcessLine
  BY <1>2, ProcessLineTypes
<1>3. CASE OutOfLines
  BY <1>3 DEF OutOfLines, TypeOK
<1>4. CASE LookForHello
  BY <1>4, LookForHelloTypes
<1>5. CASE Finish
  BY <1>5 DEF Finish, FinalState, TypeOK, States
<1>6. CASE UNCHANGED vars
  BY <1>6 DEF vars, TypeOK
<1> QED BY <1>1, <1>2, <1>3, <1>4, <1>5, <1>6 DEF Next, Analysis

-----------------------------------------------------------------------------
(* What the lines show *)

\* Reading one more line, or passing a ClientHello, leaves what was read.
LEMMA WireGrows ==
  ASSUME NEW W, wire \in Seq(W), NEW x \in W, wire' = Append(wire, x)
  PROVE  /\ Len(wire) \in Nat /\ Len(wire') = Len(wire) + 1
         /\ \A i \in 1..Len(wire) : wire'[i] = wire[i]
         /\ wire'[Len(wire) + 1] = x
BY AppendProperties, LenProperties

\* Whatever was once shown stays shown.
LEMMA ShownStays ==
  ASSUME TypeOK, NEW x \in AllLines(proto) \cup Hellos, wire' = Append(wire, x)
  PROVE  /\ \A i, j \in 1..Len(wire) : Answers(i, j) => Answers(i, j)'
         /\ Len(wire) \in Nat /\ Len(wire') = Len(wire) + 1
         /\ \A i \in 1..Len(wire) : wire'[i] = wire[i]
         /\ wire'[Len(wire) + 1] = x
<1>1. wire \in Seq(AllLines(proto) \cup Hellos)
  BY DEF TypeOK
<1>2. /\ Len(wire) \in Nat /\ Len(wire') = Len(wire) + 1
      /\ \A i \in 1..Len(wire) : wire'[i] = wire[i]
      /\ wire'[Len(wire) + 1] = x
  BY <1>1, WireGrows
<1>3. ASSUME NEW i \in 1..Len(wire), NEW j \in 1..Len(wire), Answers(i, j)
      PROVE  Answers(i, j)'
  <2>1. \A k \in (i + 1)..(j - 1) : k \in 1..Len(wire)
    BY <1>2
  <2> QED BY <1>2, <1>3, <2>1 DEF Answers, IsCommand, IsReply
<1> QED BY <1>2, <1>3

\* A line that opens or closes nothing: the request, the acceptance and the
\* ClientHello stay shown.
LEMMA EvidenceStays ==
  ASSUME TInv, NEW x \in AllLines(proto) \cup Hellos, wire' = Append(wire, x)
  PROVE  /\ startTLS.requested => \E k \in 1..Len(wire') : IsStartTls(wire'[k])
         /\ startTLS.accepted =>
              \E i, j \in 1..Len(wire') :
                /\ Answers(i, j)' /\ Accepts(wire'[j])
                /\ wire'[i].kind \in {"STARTTLS", "mention"}
                /\ \E k \in 1..i : IsStartTls(wire'[k])
         /\ startTLS.established =>
              \E j, k \in 1..Len(wire') :
                /\ j < k /\ wire'[k] \in Hellos
                /\ IsReply(wire'[j]) /\ Accepts(wire'[j])
<1>0. TypeOK
  BY DEF TInv
<1>1. /\ \A i, j \in 1..Len(wire) : Answers(i, j) => Answers(i, j)'
      /\ Len(wire) \in Nat /\ Len(wire') = Len(wire) + 1
      /\ \A i \in 1..Len(wire) : wire'[i] = wire[i]
  BY <1>0, ShownStays
<1>2. 1..Len(wire) \subseteq 1..Len(wire')
  BY <1>1
<1>3. startTLS.requested => \E k \in 1..Len(wire') : IsStartTls(wire'[k])
  BY <1>1, <1>2 DEF TInv, RequestSeen, IsStartTls
<1>4. ASSUME startTLS.accepted
      PROVE  \E i, j \in 1..Len(wire') :
               /\ Answers(i, j)' /\ Accepts(wire'[j])
               /\ wire'[i].kind \in {"STARTTLS", "mention"}
               /\ \E k \in 1..i : IsStartTls(wire'[k])
  <2>1. PICK i \in 1..Len(wire), j \in 1..Len(wire) :
               /\ Answers(i, j) /\ Accepts(wire[j])
               /\ wire[i].kind \in {"STARTTLS", "mention"}
               /\ \E k \in 1..i : IsStartTls(wire[k])
    BY <1>4 DEF TInv, AcceptedIsAnswered
  <2>2. /\ Answers(i, j)' /\ Accepts(wire'[j])
        /\ wire'[i].kind \in {"STARTTLS", "mention"}
    BY <1>1, <2>1
  <2>3. \E k \in 1..i : IsStartTls(wire'[k])
    BY <1>1, <2>1
  <2> QED BY <1>2, <2>2, <2>3
<1>5. startTLS.established =>
        \E j, k \in 1..Len(wire') :
          /\ j < k /\ wire'[k] \in Hellos
          /\ IsReply(wire'[j]) /\ Accepts(wire'[j])
  BY <1>1, <1>2 DEF TInv, EstablishedIsShown
<1> QED BY <1>3, <1>4, <1>5

-----------------------------------------------------------------------------
(* The steps preserve the invariant *)

\* A line of the client asks for STARTTLS, becomes the awaited command, or
\* changes nothing.
LEMMA ClientStep ==
  ASSUME TInv, ProcessLine, chunk.from = "client"
  PROVE  TInv'
<1> DEFINE l == Head(lines[chunk.from])
<1>0. TypeOK /\ TypeOK'
  BY ProcessLineTypes DEF TInv
<1>1. /\ l \in Lines(proto, "client") /\ l \in AllLines(proto) \cup Hellos
      /\ ClientLine(l) /\ wire' = Append(wire, l)
      /\ pc = "lines" /\ pc' \in {"lines", "hello"}
  <2>1. lines[chunk.from] # <<>>
    BY DEF ProcessLine
  <2> QED BY <1>0, <2>1, HeadIsLine DEF ProcessLine
<1> HIDE DEF l
<1>2. l.from = "client" /\ ~IsReply(l)
  BY <1>1 DEF Lines, IsReply
<1>3. /\ Len(wire) \in Nat /\ Len(wire') = Len(wire) + 1
      /\ \A i \in 1..Len(wire) : wire'[i] = wire[i]
      /\ wire'[Len(wire) + 1] = l
  BY <1>0, <1>1, ShownStays
<1>4. /\ startTLS'.accepted = startTLS.accepted
      /\ startTLS'.established = startTLS.established
      /\ IsStartTls(l) => startTLS'.requested /\ startTLS'.state = "TLS_COMMAND_SENT"
      /\ ~IsStartTls(l) => startTLS' = startTLS
  BY <1>0, <1>1 DEF ClientLine, TypeOK
<1>5. RequestSeen'
  <2>1. CASE IsStartTls(l)
    <3>1. IsStartTls(wire'[Len(wire) + 1]) /\ Len(wire) + 1 \in 1..Len(wire')
      BY <1>3, <2>1
    <3> QED BY <1>4, <2>1, <3>1 DEF RequestSeen
  <2>2. CASE ~IsStartTls(l)
    <3>1. startTLS.requested => \E k \in 1..Len(wire') : IsStartTls(wire'[k])
      BY <1>1, EvidenceStays
    <3> QED BY <1>1, <1>4, <2>2, <3>1 DEF TInv, RequestSeen
  <2> QED BY <2>1, <2>2
<1>6. CommandAwaited'
  <2>1. CASE IsCommand(l)
    <3> DEFINE e == [command |-> l.kind, response |-> None]
               E == [command : ClientKinds(proto) \cup {None},
                     response : ReplyKinds(proto) \cup {None}]
    <3>1. e \in E /\ events \in Seq(E)
      BY <1>0, <1>1 DEF TypeOK, Lines
    <3>2. events' = Append(events, e) /\ lastCmd' = l.kind
      BY <1>1, <2>1 DEF ClientLine, NoteCommand
    <3>3. events' # <<>> /\ events'[Len(events')] = e
      <4> HIDE DEF e, E
      <4> QED BY <3>1, <3>2, AppendProperties
    <3>4. IsCommand(wire'[Len(wire) + 1]) /\ wire'[Len(wire) + 1].kind = lastCmd'
      BY <1>3, <2>1, <3>2
    <3>5. \A k \in (Len(wire) + 2)..Len(wire') : FALSE
      BY <1>3
    <3> QED BY <1>3, <3>2, <3>3, <3>4, <3>5 DEF CommandAwaited
  <2>2. CASE ~IsCommand(l)
    <3>1. UNCHANGED <<events, lastCmd>>
      BY <1>1, <2>2 DEF ClientLine, NoteCommand
    <3>2. SUFFICES ASSUME lastCmd # None
                   PROVE  \E i \in 1..Len(wire') :
                            /\ IsCommand(wire'[i]) /\ wire'[i].kind = lastCmd
                            /\ \A k \in (i + 1)..Len(wire') :
                                 ~IsCommand(wire'[k]) /\ ~IsReply(wire'[k])
      BY <3>1 DEF TInv, CommandAwaited
    <3>3. PICK i \in 1..Len(wire) :
            /\ IsCommand(wire[i]) /\ wire[i].kind = lastCmd
            /\ \A k \in (i + 1)..Len(wire) : ~IsCommand(wire[k]) /\ ~IsReply(wire[k])
      BY <3>2 DEF TInv, CommandAwaited
    <3>4. i \in 1..Len(wire') /\ wire'[i] = wire[i]
      BY <1>3
    <3>5. \A k \in (i + 1)..Len(wire') : ~IsCommand(wire'[k]) /\ ~IsReply(wire'[k])
      BY <1>2, <1>3, <2>2, <3>3
    <3> QED BY <3>3, <3>4, <3>5
  <2> QED BY <2>1, <2>2
<1>7. AcceptedIsAnswered'
  BY <1>1, <1>4, EvidenceStays DEF AcceptedIsAnswered
<1>8. EstablishedIsShown'
  BY <1>1, <1>4, EvidenceStays DEF EstablishedIsShown
<1>9. VerdictCoherent'
  BY <1>1, <1>4 DEF TInv, VerdictCoherent
<1> QED BY <1>0, <1>5, <1>6, <1>7, <1>8, <1>9 DEF TInv

\* A line of the server answers the awaited command, accepts STARTTLS when that
\* command was STARTTLS, or is unsolicited.
LEMMA ServerStep ==
  ASSUME TInv, ProcessLine, chunk.from = "server"
  PROVE  TInv'
<1> DEFINE l == Head(lines[chunk.from])
<1>0. TypeOK /\ TypeOK'
  BY ProcessLineTypes DEF TInv
<1>1. /\ l \in Lines(proto, "server") /\ l \in AllLines(proto) \cup Hellos
      /\ ServerLine(l) /\ wire' = Append(wire, l)
      /\ pc = "lines" /\ pc' \in {"lines", "hello"}
  <2>1. lines[chunk.from] # <<>>
    BY DEF ProcessLine
  <2> QED BY <1>0, <2>1, HeadIsLine DEF ProcessLine
<1> HIDE DEF l
<1>2. /\ ~IsCommand(l) /\ (l.kind # "blank" => IsReply(l))
      /\ (l.kind = "blank" => ~IsReply(l))
  <2>1. l.from = "server" /\ l.kind \in ReplyKinds(proto)
    BY <1>1 DEF Lines
  <2>2. proto \in {"SMTP", "IMAP", "POP3"}
    BY <1>0, TimelineAssumption DEF TypeOK
  <2>3. "ClientHello" \notin ReplyKinds(proto)
    BY <2>2 DEF ReplyKinds
  <2> QED BY <2>1, <2>3 DEF IsReply, IsCommand
<1>3. /\ Len(wire) \in Nat /\ Len(wire') = Len(wire) + 1
      /\ \A i \in 1..Len(wire) : wire'[i] = wire[i]
      /\ wire'[Len(wire) + 1] = l
  BY <1>0, <1>1, ShownStays
<1> DEFINE accepting == /\ l.kind # "blank" /\ Awaited /\ AnswersStartTls
                        /\ Accepts(l)
<1>4. /\ startTLS'.requested = startTLS.requested
      /\ startTLS'.established = startTLS.established
      /\ accepting => startTLS'.accepted /\ startTLS'.state = "TLS_ACCEPTED"
      /\ ~accepting =>
           /\ startTLS'.accepted = startTLS.accepted
           /\ \/ startTLS'.state = startTLS.state
              \/ Awaited /\ AnswersStartTls /\ startTLS'.state = "FAILED"
  <2> DEFINE T == [state : States, supported : BOOLEAN, requested : BOOLEAN,
                   accepted : BOOLEAN, established : BOOLEAN]
  <2>1. startTLS \in T
    BY <1>0 DEF TypeOK
  <2>2. CASE l.kind = "blank"
    BY <1>1, <2>2 DEF ServerLine
  <2>3. CASE l.kind # "blank"
    <3>1. /\ Judged(l) \in T
          /\ Judged(l).requested = startTLS.requested
          /\ Judged(l).established = startTLS.established
          /\ accepting => Judged(l).accepted /\ Judged(l).state = "TLS_ACCEPTED"
          /\ ~accepting =>
               /\ Judged(l).accepted = startTLS.accepted
               /\ \/ Judged(l).state = startTLS.state
                  \/ Awaited /\ AnswersStartTls /\ Judged(l).state = "FAILED"
      BY <2>1, <2>3 DEF Judged, States
    <3>2. startTLS' = [Judged(l) EXCEPT !.supported = @ \/ l.advert]
      BY <1>1, <2>3 DEF ServerLine
    <3>3. /\ startTLS'.requested = Judged(l).requested
          /\ startTLS'.established = Judged(l).established
          /\ startTLS'.accepted = Judged(l).accepted
          /\ startTLS'.state = Judged(l).state
      BY <3>1, <3>2
    <3> HIDE DEF accepting
    <3> QED BY <3>1, <3>3
  <2> QED BY <2>2, <2>3
<1>5. Awaited /\ AnswersStartTls =>
        startTLS.requested /\ startTLS.state = "TLS_COMMAND_SENT"
  BY <1>1 DEF AnswersStartTls, TInv, RequestSeen
<1>6. RequestSeen'
  <2>1. startTLS.requested => \E k \in 1..Len(wire') : IsStartTls(wire'[k])
    BY <1>1, EvidenceStays
  <2> QED BY <1>1, <1>4, <1>5, <2>1 DEF TInv, RequestSeen
<1>7. CommandAwaited'
  <2>1. CASE l.kind # "blank"
    <3>1. lastCmd' = None
      BY <1>1, <2>1 DEF ServerLine, NoteReply, Awaited, TInv, CommandAwaited
    <3> QED BY <3>1 DEF CommandAwaited
  <2>2. CASE l.kind = "blank"
    <3>1. UNCHANGED <<events, lastCmd>>
      BY <1>1, <2>2 DEF ServerLine
    <3>2. SUFFICES ASSUME lastCmd # None
                   PROVE  \E i \in 1..Len(wire') :
                            /\ IsCommand(wire'[i]) /\ wire'[i].kind = lastCmd
                            /\ \A k \in (i + 1)..Len(wire') :
                                 ~IsCommand(wire'[k]) /\ ~IsReply(wire'[k])
      BY <3>1 DEF TInv, CommandAwaited
    <3>3. PICK i \in 1..Len(wire) :
            /\ IsCommand(wire[i]) /\ wire[i].kind = lastCmd
            /\ \A k \in (i + 1)..Len(wire) : ~IsCommand(wire[k]) /\ ~IsReply(wire[k])
      BY <3>2 DEF TInv, CommandAwaited
    <3>4. i \in 1..Len(wire') /\ wire'[i] = wire[i]
      BY <1>3
    <3>5. \A k \in (i + 1)..Len(wire') : ~IsCommand(wire'[k]) /\ ~IsReply(wire'[k])
      BY <1>2, <1>3, <2>2, <3>3
    <3> QED BY <3>3, <3>4, <3>5
  <2> QED BY <2>1, <2>2
<1>8. AcceptedIsAnswered'
  <2>1. CASE accepting
    <3>1. PICK i \in 1..Len(wire) :
            /\ IsCommand(wire[i]) /\ wire[i].kind = lastCmd
            /\ \A k \in (i + 1)..Len(wire) : ~IsCommand(wire[k]) /\ ~IsReply(wire[k])
      BY <2>1 DEF Awaited, TInv, CommandAwaited
    <3>2. lastCmd \in {"STARTTLS", "mention"}
      BY <2>1 DEF Awaited, AnswersStartTls, TInv, CommandAwaited
    <3>3. PICK k \in 1..Len(wire) : IsStartTls(wire[k])
      BY <2>1, <1>5 DEF TInv, RequestSeen
    <3>4. k \in 1..i
      <4>1. IsCommand(wire[k])
        BY <3>3 DEF IsStartTls, IsCommand
      <4> QED BY <3>1, <4>1, <1>3
    <3>5. PICK j \in Nat : j = Len(wire) + 1
      BY <1>3
    <3>6. Answers(i, j)'
      <4>1. IsCommand(wire'[i]) /\ IsReply(wire'[j])
        BY <1>2, <1>3, <2>1, <3>1, <3>5
      <4>2. \A m \in (i + 1)..(j - 1) : ~IsCommand(wire'[m]) /\ ~IsReply(wire'[m])
        BY <1>3, <3>1, <3>5
      <4>3. i < j
        BY <1>3, <3>5
      <4> QED BY <4>1, <4>2, <4>3 DEF Answers
    <3>7. /\ i \in 1..Len(wire') /\ j \in 1..Len(wire')
          /\ Accepts(wire'[j]) /\ wire'[i].kind \in {"STARTTLS", "mention"}
      BY <1>3, <2>1, <3>1, <3>2, <3>5
    <3>8. IsStartTls(wire'[k])
      BY <1>3, <3>3
    <3> QED BY <3>4, <3>6, <3>7, <3>8 DEF AcceptedIsAnswered
  <2>2. CASE ~accepting
    BY <1>1, <1>4, <2>2, EvidenceStays DEF AcceptedIsAnswered
  <2> QED BY <2>1, <2>2
<1>9. EstablishedIsShown'
  BY <1>1, <1>4, EvidenceStays DEF EstablishedIsShown
<1>10. VerdictCoherent'
  BY <1>1, <1>4, <1>5 DEF TInv, VerdictCoherent
<1> QED BY <1>0, <1>6, <1>7, <1>8, <1>9, <1>10 DEF TInv

\* A ClientHello after an accepted STARTTLS, and nothing else, establishes TLS.
LEMMA HelloStep ==
  ASSUME TInv, LookForHello
  PROVE  TInv'
<1>0. TypeOK /\ TypeOK'
  BY LookForHelloTypes DEF TInv
<1>1. /\ Hello \in AllLines(proto) \cup Hellos /\ Hello \in Hellos
      /\ ~IsCommand(Hello) /\ ~IsReply(Hello)
  BY <1>0 DEF Hello, Hellos, TypeOK, IsCommand, IsReply
<1>2. /\ UNCHANGED <<events, lastCmd>> /\ pc # "done" /\ pc' # "done"
      /\ startTLS'.requested = startTLS.requested
      /\ startTLS'.accepted = startTLS.accepted
      /\ ~Establishes => startTLS' = startTLS
      /\ Establishes => startTLS'.established /\ startTLS'.state = "ENCRYPTED"
  BY <1>0 DEF LookForHello, TypeOK
<1>3. Establishes => startTLS.accepted /\ startTLS.requested
  BY DEF Establishes, TInv, VerdictCoherent
<1>4. VerdictCoherent'
  BY <1>2, <1>3 DEF TInv, VerdictCoherent
<1>5. CASE wire' = wire
  <2>1. ~Establishes \/ wire' = Append(wire, Hello)
    BY DEF LookForHello, Establishes
  <2>2. ~Establishes
    <3>1. wire \in Seq(AllLines(proto) \cup Hellos)
      BY <1>0 DEF TypeOK
    <3> QED BY <1>1, <1>5, <2>1, <3>1, AppendProperties, LenProperties
  <2>3. RequestSeen' /\ CommandAwaited'
    BY <1>2, <1>5, <2>2 DEF TInv, RequestSeen, CommandAwaited
  <2>4. \A i, j : Answers(i, j)' <=> Answers(i, j)
    BY <1>5 DEF Answers
  <2>5. AcceptedIsAnswered'
    BY <1>2, <1>5, <2>2, <2>4 DEF TInv, AcceptedIsAnswered
  <2>6. EstablishedIsShown'
    BY <1>2, <1>5, <2>2 DEF TInv, EstablishedIsShown
  <2> QED BY <1>0, <1>4, <2>3, <2>5, <2>6 DEF TInv
<1>6. CASE wire' = Append(wire, Hello)
  <2>1. /\ Len(wire) \in Nat /\ Len(wire') = Len(wire) + 1
        /\ \A i \in 1..Len(wire) : wire'[i] = wire[i]
        /\ wire'[Len(wire) + 1] = Hello
    BY <1>0, <1>1, <1>6, ShownStays
  <2>2. RequestSeen'
    <3>1. startTLS.requested => \E k \in 1..Len(wire') : IsStartTls(wire'[k])
      BY <1>1, <1>6, EvidenceStays
    <3> QED BY <1>2, <1>3, <3>1 DEF TInv, RequestSeen
  <2>3. CommandAwaited'
    <3>1. SUFFICES ASSUME lastCmd # None
                   PROVE  \E i \in 1..Len(wire') :
                            /\ IsCommand(wire'[i]) /\ wire'[i].kind = lastCmd
                            /\ \A k \in (i + 1)..Len(wire') :
                                 ~IsCommand(wire'[k]) /\ ~IsReply(wire'[k])
      BY <1>2 DEF TInv, CommandAwaited
    <3>2. PICK i \in 1..Len(wire) :
            /\ IsCommand(wire[i]) /\ wire[i].kind = lastCmd
            /\ \A k \in (i + 1)..Len(wire) : ~IsCommand(wire[k]) /\ ~IsReply(wire[k])
      BY <3>1 DEF TInv, CommandAwaited
    <3>3. i \in 1..Len(wire') /\ wire'[i] = wire[i]
      BY <2>1
    <3>4. \A k \in (i + 1)..Len(wire') : ~IsCommand(wire'[k]) /\ ~IsReply(wire'[k])
      BY <1>1, <2>1, <3>2
    <3> QED BY <3>2, <3>3, <3>4
  <2>4. AcceptedIsAnswered'
    BY <1>1, <1>2, <1>6, EvidenceStays DEF AcceptedIsAnswered
  <2>5. EstablishedIsShown'
    <3>1. CASE Establishes
      <4>1. PICK j \in 1..Len(wire) : IsReply(wire[j]) /\ Accepts(wire[j])
        BY <1>3, <3>1 DEF TInv, AcceptedIsAnswered, Answers
      <4>2. /\ j \in 1..Len(wire') /\ Len(wire) + 1 \in 1..Len(wire')
            /\ j < Len(wire) + 1 /\ wire'[Len(wire) + 1] \in Hellos
            /\ IsReply(wire'[j]) /\ Accepts(wire'[j])
        BY <1>1, <2>1, <4>1
      <4> QED BY <4>2 DEF EstablishedIsShown
    <3>2. CASE ~Establishes
      BY <1>1, <1>2, <1>6, <3>2, EvidenceStays DEF EstablishedIsShown
    <3> QED BY <3>1, <3>2
  <2> QED BY <1>0, <1>4, <2>2, <2>3, <2>4, <2>5 DEF TInv
<1> QED BY <1>5, <1>6 DEF LookForHello

\* A step that reads nothing and judges nothing.
LEMMA QuietStep ==
  ASSUME TInv, TypeOK', UNCHANGED <<startTLS, events, lastCmd, wire>>,
         pc' = "done" <=> pc = "done"
  PROVE  TInv'
<1>1. \A i, j : Answers(i, j)' <=> Answers(i, j)
  BY DEF Answers
<1>2. AcceptedIsAnswered'
  BY <1>1 DEF TInv, AcceptedIsAnswered
<1>3. RequestSeen' /\ CommandAwaited' /\ EstablishedIsShown' /\ VerdictCoherent'
  BY DEF TInv, RequestSeen, CommandAwaited, EstablishedIsShown, VerdictCoherent
<1> QED BY <1>2, <1>3 DEF TInv

\* The end of the stream can only turn PLAINTEXT into STARTTLS_NOT_USED.
LEMMA FinishStep ==
  ASSUME TInv, Finish
  PROVE  TInv'
<1>0. TypeOK /\ TypeOK'
  BY TypeStep DEF TInv, Next
<1>1. /\ UNCHANGED <<events, lastCmd, wire>> /\ pc = "next" /\ pc' = "done"
      /\ startTLS'.state = FinalState
      /\ startTLS'.supported = startTLS.supported
      /\ startTLS'.requested = startTLS.requested
      /\ startTLS'.accepted = startTLS.accepted
      /\ startTLS'.established = startTLS.established
  BY <1>0 DEF Finish, TypeOK
<1>2. \A i, j : Answers(i, j)' <=> Answers(i, j)
  BY <1>1 DEF Answers
<1>3. AcceptedIsAnswered'
  BY <1>1, <1>2 DEF TInv, AcceptedIsAnswered
<1>4. RequestSeen' /\ CommandAwaited' /\ EstablishedIsShown'
  BY <1>1 DEF TInv, RequestSeen, CommandAwaited, EstablishedIsShown
<1>5. VerdictCoherent'
  BY <1>0, <1>1 DEF TInv, RequestSeen, VerdictCoherent, FinalState
<1> QED BY <1>0, <1>3, <1>4, <1>5 DEF TInv

LEMMA InitTInv ==
  ASSUME Init
  PROVE  TInv
<1>1. TypeOK
  BY TimelineAssumption, EmptySeq
     DEF Init, TypeOK, Sides, States
<1> QED BY <1>1 DEF Init, TInv, RequestSeen, CommandAwaited, AcceptedIsAnswered,
                    EstablishedIsShown, VerdictCoherent

\* Reading, feeding and ending the stream all preserve the invariant.
LEMMA TInvStep == TInv /\ [Next]_vars => TInv'
<1> SUFFICES ASSUME TInv, [Next]_vars
             PROVE  TInv'
  OBVIOUS
<1>0. TypeOK'
  BY TypeStep DEF TInv
<1>1. CASE \E side \in Sides, hello \in BOOLEAN : \E data \in Data(side) :
             Feed(side, data, hello)
  <2>1. UNCHANGED <<startTLS, events, lastCmd, wire>> /\ (pc' = "done" <=> pc = "done")
    BY <1>1 DEF Feed
  <2> QED BY <1>0, <2>1, QuietStep
<1>2. CASE ProcessLine
  <2>1. chunk.from \in {"client", "server"}
    BY DEF TInv, TypeOK, Sides
  <2> QED BY <1>2, <2>1, ClientStep, ServerStep
<1>3. CASE OutOfLines
  <2>1. UNCHANGED <<startTLS, events, lastCmd, wire>> /\ (pc' = "done" <=> pc = "done")
    BY <1>3 DEF OutOfLines
  <2> QED BY <1>0, <2>1, QuietStep
<1>4. CASE LookForHello
  BY <1>4, HelloStep
<1>5. CASE Finish
  BY <1>5, FinishStep
<1>6. CASE UNCHANGED vars
  BY <1>0, <1>6, QuietStep DEF vars
<1> QED BY <1>1, <1>2, <1>3, <1>4, <1>5, <1>6 DEF Next, Analysis

-----------------------------------------------------------------------------
(* Ranks in a finite set of numbers *)

LEMMA RankFacts ==
  ASSUME NEW n \in Nat, NEW S \in SUBSET (1..n)
  PROVE  /\ IsFiniteSet(S) /\ Cardinality(S) \in Nat
         /\ \A i \in Nat : Rank(S, i) \in Nat /\ Rank(S, i) <= Cardinality(S)
         /\ \A i, j \in S : Rank(S, i) = Rank(S, j) => i = j
<1>0. \A k \in S : k \in 1..n /\ k \in Nat
  OBVIOUS
<1>1. IsFiniteSet(S) /\ Cardinality(S) \in Nat
  <2>1. 1 \in Int /\ n \in Int
    OBVIOUS
  <2>2. IsFiniteSet(1..n)
    BY <2>1, FS_Interval
  <2>3. IsFiniteSet(S)
    BY <2>2, FS_Subset
  <2> QED BY <2>3, FS_CardinalityType
<1>2. \A T \in SUBSET S : IsFiniteSet(T) /\ Cardinality(T) \in Nat
                          /\ Cardinality(T) <= Cardinality(S)
  BY <1>1, FS_Subset, FS_CardinalityType
<1>3. \A i \in Nat : Rank(S, i) \in Nat /\ Rank(S, i) <= Cardinality(S)
  BY <1>2 DEF Rank
<1>4. ASSUME NEW i \in S, NEW j \in S, i < j
      PROVE  Rank(S, i) < Rank(S, j)
  <2> DEFINE I == {k \in S : k <= i}
             J == {k \in S : k <= j}
  <2>1. I \subseteq J /\ j \in J /\ j \notin I
    <3>1. \A k \in S : k <= i => k <= j
      BY <1>0, <1>4
    <3>2. j <= j /\ ~(j <= i)
      BY <1>0, <1>4
    <3> QED BY <3>1, <3>2
  <2>2. IsFiniteSet(J) /\ IsFiniteSet(I) /\ Cardinality(I) \in Nat /\ Cardinality(J) \in Nat
    BY <1>2
  <2>3. Cardinality(I) < Cardinality(J)
    <3> HIDE DEF I, J
    <3>1. Cardinality(I) <= Cardinality(J) /\ (Cardinality(J) = Cardinality(I) => J = I)
      BY <2>1, <2>2, FS_Subset
    <3> QED BY <2>1, <2>2, <3>1
  <2> QED BY <2>3 DEF Rank
<1>5. ASSUME NEW i \in S, NEW j \in S, Rank(S, i) = Rank(S, j)
      PROVE  i = j
  <2>1. i \in Nat /\ j \in Nat /\ Rank(S, i) \in Nat
    BY <1>0, <1>3
  <2>2. ~(i < j) /\ ~(j < i)
    BY <1>4, <1>5, <2>1
  <2> QED BY <2>1, <2>2
<1> QED BY <1>1, <1>3, <1>5

\* A new greatest number ranks last and leaves the other ranks alone.
LEMMA RankAdd ==
  ASSUME NEW n \in Nat, NEW S \in SUBSET (1..n)
  PROVE  /\ Cardinality(S \cup {n + 1}) = Cardinality(S) + 1
         /\ Rank(S \cup {n + 1}, n + 1) = Cardinality(S) + 1
         /\ \A i \in S : Rank(S \cup {n + 1}, i) = Rank(S, i)
<1>1. IsFiniteSet(S) /\ n + 1 \notin S
  BY RankFacts
<1>2. Cardinality(S \cup {n + 1}) = Cardinality(S) + 1
  BY <1>1, FS_AddElement
<1>k. \A k \in S : k \in Nat /\ k <= n
  OBVIOUS
<1>3. {k \in S \cup {n + 1} : k <= n + 1} = S \cup {n + 1}
  <2>1. \A k \in S \cup {n + 1} : k <= n + 1
    BY <1>k
  <2> QED BY <2>1
<1>4. \A i \in S : {k \in S \cup {n + 1} : k <= i} = {k \in S : k <= i}
  BY <1>k
<1> QED BY <1>2, <1>3, <1>4 DEF Rank

\* The greatest number ranks last.
LEMMA RankLast ==
  ASSUME NEW S, NEW i \in S, \A k \in S : k <= i
  PROVE  Rank(S, i) = Cardinality(S)
<1>1. {k \in S : k <= i} = S
  OBVIOUS
<1> QED BY <1>1 DEF Rank

-----------------------------------------------------------------------------
(* The timeline shows what was read *)

\* One more line answers a command that awaits its reply, or none.
LEMMA AnswersOneMore ==
  ASSUME TypeOK, NEW x \in AllLines(proto) \cup Hellos, wire' = Append(wire, x),
         NEW n \in Nat, n = Len(wire)
  PROVE  /\ \A i, j \in 1..n : Answers(i, j)' <=> Answers(i, j)
         /\ \A i \in 1..n : Answers(i, n + 1)' <=>
              /\ IsCommand(wire[i]) /\ IsReply(x)
              /\ \A k \in (i + 1)..n : ~IsCommand(wire[k]) /\ ~IsReply(wire[k])
<1>1. /\ Len(wire') = n + 1 /\ wire'[n + 1] = x
      /\ \A i \in 1..n : wire'[i] = wire[i]
  BY ShownStays
<1>2. \A i, j \in 1..n : \A k \in (i + 1)..(j - 1) : k \in 1..n
  OBVIOUS
<1>3. \A i, j \in 1..n : Answers(i, j)' <=> Answers(i, j)
  BY <1>1, <1>2 DEF Answers
<1>4. ASSUME NEW i \in 1..n
      PROVE  Answers(i, n + 1)' <=>
               /\ IsCommand(wire[i]) /\ IsReply(x)
               /\ \A k \in (i + 1)..n : ~IsCommand(wire[k]) /\ ~IsReply(wire[k])
  <2>1. (i + 1)..((n + 1) - 1) = (i + 1)..n /\ i < n + 1
    OBVIOUS
  <2> QED BY <1>1, <2>1 DEF Answers
<1> QED BY <1>3, <1>4

\* Is command i still without a reply, and the last one?
Open(i) == \A k \in (i + 1)..Len(wire) : ~IsCommand(wire[k]) /\ ~IsReply(wire[k])

\* One more line is a command, the reply to the open one, or neither.
LEMMA WireReads ==
  ASSUME TypeOK, NEW x \in AllLines(proto) \cup Hellos, wire' = Append(wire, x),
         NEW n \in Nat, n = Len(wire)
  PROVE  /\ Len(wire') = n + 1 /\ wire'[n + 1] = x
         /\ \A i \in 1..n : wire'[i] = wire[i]
         /\ Commands \in SUBSET (1..n)
         /\ Commands' = IF IsCommand(x) THEN Commands \cup {n + 1} ELSE Commands
         /\ \A i \in Commands :
              Replies(i)' = IF IsReply(x) /\ Open(i) THEN Replies(i) \cup {n + 1}
                            ELSE Replies(i)
         /\ IsCommand(x) => Replies(n + 1)' = {}
         /\ NoneAwaited /\ lastCmd = None => \A i \in Commands : ~Open(i)
<1>1. /\ Len(wire') = n + 1 /\ wire'[n + 1] = x
      /\ \A i \in 1..n : wire'[i] = wire[i]
  BY ShownStays
<1>2. /\ \A i, j \in 1..n : Answers(i, j)' <=> Answers(i, j)
      /\ \A i \in Commands : Answers(i, n + 1)' <=> IsReply(x) /\ Open(i)
  BY AnswersOneMore DEF Commands, Open
<1>3. Commands' = IF IsCommand(x) THEN Commands \cup {n + 1} ELSE Commands
  BY <1>1 DEF Commands
<1>4. \A i \in Commands : Replies(i)' = IF IsReply(x) /\ Open(i) THEN Replies(i) \cup {n + 1}
                                        ELSE Replies(i)
  <2>1. 1..(n + 1) = 1..n \cup {n + 1} /\ Commands \subseteq 1..n
    BY DEF Commands
  <2> QED BY <1>1, <1>2, <2>1 DEF Replies
<1>5. Replies(n + 1)' = {}
  BY <1>1 DEF Replies, Answers
<1>6. NoneAwaited /\ lastCmd = None => \A i \in Commands : ~Open(i)
  BY DEF NoneAwaited, Open
<1>7. Commands \in SUBSET (1..n)
  BY DEF Commands
<1> QED BY <1>1, <1>3, <1>4, <1>5, <1>6, <1>7

\* A line that is neither a command nor a reply.
LEMMA NeitherShown ==
  ASSUME TypeOK, EInv, NEW x \in AllLines(proto) \cup Hellos, wire' = Append(wire, x),
         ~IsCommand(x), ~IsReply(x), UNCHANGED <<events, lastCmd>>
  PROVE  EInv'
<1>1. PICK n \in Nat : n = Len(wire)
  BY ShownStays
<1>2. /\ Len(wire') = n + 1 /\ Commands' = Commands /\ Commands \in SUBSET (1..n)
      /\ \A i \in 1..n : wire'[i] = wire[i]
      /\ \A i \in Commands : Replies(i)' = Replies(i)
  BY <1>1, WireReads
<1>3. Shown' = Shown
  BY DEF Shown
<1>4. \A i \in Commands, e \in Shown : ShownAs(i, e)' <=> ShownAs(i, e)
  BY <1>2 DEF ShownAs, Replies
<1>5. TimelineMatchesWire'
  BY <1>2, <1>3, <1>4 DEF EInv, TimelineMatchesWire, Rank
<1>6. NoneAwaited'
  <2> SUFFICES ASSUME lastCmd = None, NEW i \in Commands
               PROVE  \E k \in (i + 1)..Len(wire') : IsCommand(wire'[k]) \/ IsReply(wire'[k])
    BY <1>2 DEF NoneAwaited
  <2>1. PICK k \in (i + 1)..n : IsCommand(wire[k]) \/ IsReply(wire[k])
    BY <1>1 DEF EInv, NoneAwaited
  <2>2. k \in (i + 1)..Len(wire') /\ wire'[k] = wire[k]
    BY <1>2, <2>1
  <2> QED BY <2>1, <2>2
<1> QED BY <1>5, <1>6 DEF EInv

\* A tracked command is shown last.
LEMMA CommandShown ==
  ASSUME TypeOK, EInv, NEW x \in AllLines(proto) \cup Hellos, wire' = Append(wire, x),
         IsCommand(x), lastCmd' = x.kind,
         events' = Append(events, [command |-> x.kind, response |-> None])
  PROVE  EInv'
<1> DEFINE e == [command |-> x.kind, response |-> None]
           E == [command : ClientKinds(proto) \cup {None},
                 response : ReplyKinds(proto) \cup {None}]
<1>0. x.kind # None /\ x.kind \in ClientKinds(proto) /\ ~IsReply(x)
  <2>1. x.from = "client" /\ x.kind \in {"command", "STARTTLS", "mention"}
    BY DEF IsCommand
  <2>2. x \in Lines(proto, "client")
    BY <2>1 DEF AllLines, Hellos, Lines
  <2> QED BY <2>1, <2>2 DEF Lines, IsReply
<1>1. PICK n \in Nat : n = Len(wire)
  BY ShownStays
<1>2. /\ Len(wire') = n + 1 /\ wire'[n + 1] = x /\ Commands \in SUBSET (1..n)
      /\ \A i \in 1..n : wire'[i] = wire[i]
      /\ Commands' = Commands \cup {n + 1} /\ Replies(n + 1)' = {}
      /\ \A i \in Commands : Replies(i)' = Replies(i)
  BY <1>0, <1>1, WireReads
<1>3. PICK m \in Nat : m = Len(events)
  BY LenProperties DEF TypeOK
<1>4. /\ Len(events') = m + 1 /\ events'[m + 1] = e
      /\ \A k \in 1..m : events'[k] = events[k]
  <2>1. e \in E /\ events \in Seq(E) /\ events' = Append(events, e)
    BY <1>0 DEF TypeOK
  <2> HIDE DEF e, E
  <2> QED BY <1>3, <2>1, AppendProperties
<1>5. Shown' = Shown \cup {m + 1} /\ Shown \in SUBSET (1..m)
  BY <1>0, <1>3, <1>4 DEF Shown
<1>6. /\ Cardinality(Commands \cup {n + 1}) = Cardinality(Commands) + 1
      /\ Cardinality(Shown \cup {m + 1}) = Cardinality(Shown) + 1
      /\ Rank(Commands \cup {n + 1}, n + 1) = Cardinality(Commands) + 1
      /\ Rank(Shown \cup {m + 1}, m + 1) = Cardinality(Shown) + 1
      /\ \A i \in Commands : Rank(Commands \cup {n + 1}, i) = Rank(Commands, i)
      /\ \A k \in Shown : Rank(Shown \cup {m + 1}, k) = Rank(Shown, k)
  BY <1>2, <1>5, RankAdd
<1>7. /\ Cardinality(Shown) = Cardinality(Commands) /\ Cardinality(Commands) \in Nat
      /\ \A i \in Commands : Rank(Commands, i) \in Nat /\ Rank(Commands, i) <= Cardinality(Commands)
      /\ \A k \in Shown : Rank(Shown, k) \in Nat /\ Rank(Shown, k) <= Cardinality(Commands)
  <2>1. /\ \A i \in Commands : i \in Nat
        /\ \A k \in Shown : k \in Nat
    BY <1>2, <1>5
  <2>2. Cardinality(Shown) = Cardinality(Commands)
    BY DEF EInv, TimelineMatchesWire
  <2> QED BY <1>2, <1>5, <2>1, <2>2, RankFacts
<1>8. ASSUME NEW i \in Commands, NEW k \in Shown, ShownAs(i, k)
      PROVE  ShownAs(i, k)'
  <2>1. i \in 1..n /\ k \in 1..m
    BY <1>2, <1>5
  <2>2. wire'[i] = wire[i] /\ events'[k] = events[k] /\ Replies(i)' = Replies(i)
    BY <1>2, <1>4, <2>1
  <2>3. \A j \in Replies(i) : wire'[j] = wire[j]
    BY <1>1, <1>2 DEF Replies
  <2> QED BY <1>8, <2>2, <2>3 DEF ShownAs
<1>9. ShownAs(n + 1, m + 1)'
  BY <1>2, <1>4 DEF ShownAs
<1>10. TimelineMatchesWire'
  <2> SUFFICES ASSUME NEW i \in Commands \cup {n + 1}, NEW k \in Shown \cup {m + 1},
                      Rank(Shown \cup {m + 1}, k) = Rank(Commands \cup {n + 1}, i)
               PROVE  ShownAs(i, k)'
    BY <1>2, <1>5, <1>6, <1>7 DEF TimelineMatchesWire, Rank
  <2>1. CASE i = n + 1 /\ k = m + 1
    BY <1>9, <2>1
  <2>2. CASE i \in Commands /\ k \in Shown
    BY <1>6, <1>8, <2>2 DEF EInv, TimelineMatchesWire
  <2>3. ~(i \in Commands /\ k = m + 1)
    <3> SUFFICES ASSUME i \in Commands, k = m + 1 PROVE FALSE
      OBVIOUS
    <3>1. Rank(Commands, i) = Cardinality(Commands) + 1
      BY <1>6, <1>7
    <3> QED BY <1>7, <3>1
  <2>4. ~(i = n + 1 /\ k \in Shown)
    <3> SUFFICES ASSUME i = n + 1, k \in Shown PROVE FALSE
      OBVIOUS
    <3>1. Rank(Shown, k) = Cardinality(Commands) + 1
      BY <1>6, <1>7
    <3> QED BY <1>7, <3>1
  <2> QED BY <2>1, <2>2, <2>3, <2>4
<1>11. NoneAwaited'
  BY <1>0 DEF NoneAwaited
<1> QED BY <1>10, <1>11 DEF EInv

\* The reply that is awaited is shown with the last command.
LEMMA ReplyShown ==
  ASSUME TInv, EInv, NEW x \in AllLines(proto) \cup Hellos, wire' = Append(wire, x),
         IsReply(x), lastCmd # None, lastCmd' = None,
         events' = [events EXCEPT ![Len(events)].response = x.kind]
  PROVE  EInv'
<1> DEFINE E == [command : ClientKinds(proto) \cup {None},
                 response : ReplyKinds(proto) \cup {None}]
<1>0. TypeOK /\ ~IsCommand(x)
  BY DEF TInv, IsReply, IsCommand
<1>1. PICK n \in Nat : n = Len(wire)
  BY <1>0, ShownStays
<1>2. /\ Len(wire') = n + 1 /\ wire'[n + 1] = x /\ Commands \in SUBSET (1..n)
      /\ \A i \in 1..n : wire'[i] = wire[i]
      /\ Commands' = Commands
      /\ \A i \in Commands : Replies(i)' = IF Open(i) THEN Replies(i) \cup {n + 1}
                                           ELSE Replies(i)
  BY <1>0, <1>1, WireReads
<1>3. PICK m \in Nat : m = Len(events)
  BY <1>0, LenProperties DEF TypeOK
<1>4. events \in Seq(E) /\ m \in 1..m /\ events[m].command = lastCmd
  BY <1>0, <1>3, EmptySeq DEF TInv, CommandAwaited, TypeOK
<1>5. /\ Len(events') = m
      /\ \A k \in 1..m : events'[k].command = events[k].command
      /\ \A k \in 1..m : k # m => events'[k] = events[k]
      /\ events'[m].response = x.kind
  <2>1. events' = [events EXCEPT ![m] = [events[m] EXCEPT !.response = x.kind]]
    BY <1>3
  <2>2. events \in [1..m -> E] /\ events[m] \in E
    BY <1>3, <1>4, LenProperties, SeqDef, ElementOfSeq
  <2>3. /\ [events[m] EXCEPT !.response = x.kind].command = events[m].command
        /\ [events[m] EXCEPT !.response = x.kind].response = x.kind
    BY <2>2
  <2>4. /\ DOMAIN events' = 1..m /\ Len(events') = m
        /\ events'[m] = [events[m] EXCEPT !.response = x.kind]
        /\ \A k \in 1..m : k # m => events'[k] = events[k]
    <3>1. events[m] \in E /\ m \in 1..Len(events)
      BY <1>3, <1>4, <2>2
    <3> HIDE DEF E
    <3> QED BY <1>3, <1>4, <2>1, <2>2, <3>1, ExceptSeq
  <2> QED BY <1>4, <2>3, <2>4
<1>6. Shown' = Shown /\ m \in Shown /\ Shown \in SUBSET (1..m)
  BY <1>3, <1>4, <1>5 DEF Shown
<1>7. PICK c \in Commands : Open(c)
  BY <1>1 DEF TInv, CommandAwaited, Commands, Open
<1>8. /\ \A i \in Commands : i <= c
      /\ \A i \in Commands : Open(i) => i = c
      /\ \A k \in Shown : k <= m
  <2>1. \A i \in Commands : IsCommand(wire[i]) /\ i \in 1..n
    BY <1>1 DEF Commands
  <2>2. \A i \in Commands : i <= c
    BY <1>1, <1>7, <2>1 DEF Open
  <2>3. \A i \in Commands : Open(i) => c <= i
    BY <1>1, <2>1 DEF Open
  <2>4. \A k \in Shown : k <= m
    BY <1>6
  <2> QED BY <2>1, <2>2, <2>3, <2>4
<1>9. /\ Rank(Commands, c) = Cardinality(Commands)
      /\ Rank(Shown, m) = Cardinality(Shown)
      /\ Cardinality(Shown) = Cardinality(Commands)
      /\ \A i \in Commands : Rank(Commands, i) = Rank(Commands, c) => i = c
      /\ \A k \in Shown : Rank(Shown, k) = Rank(Shown, m) => k = m
  BY <1>2, <1>6, <1>7, <1>8, RankLast, RankFacts DEF EInv, TimelineMatchesWire
<1>10. TimelineMatchesWire'
  <2> SUFFICES ASSUME NEW i \in Commands, NEW k \in Shown,
                      Rank(Shown, k) = Rank(Commands, i)
               PROVE  ShownAs(i, k)'
    BY <1>2, <1>6, <1>9 DEF TimelineMatchesWire, Rank
  <2>1. ShownAs(i, k) /\ i \in 1..n /\ k \in 1..m
    BY <1>2, <1>6 DEF EInv, TimelineMatchesWire
  <2>2. events'[k].command = wire'[i].kind
    BY <1>2, <1>5, <2>1 DEF ShownAs
  <2>3. CASE i = c
    <3>1. k = m
      BY <1>9, <2>3
    <3>2. Replies(i) = {}
      <4>1. \A j \in 1..n : i < j => j \in (i + 1)..n
        BY <2>1
      <4> QED BY <1>1, <1>7, <2>3, <4>1 DEF Replies, Answers, Open
    <3>3. Replies(i)' = {n + 1}
      BY <1>2, <1>7, <2>3, <3>2
    <3>4. events'[k].response = wire'[n + 1].kind
      BY <1>2, <1>5, <3>1
    <3> QED BY <2>2, <3>3, <3>4 DEF ShownAs
  <2>4. CASE i # c
    <3>1. k # m
      BY <1>9, <2>4
    <3>2. events'[k] = events[k] /\ Replies(i)' = Replies(i)
      BY <1>2, <1>5, <1>8, <2>1, <2>4, <3>1
    <3>3. \A j \in Replies(i) : wire'[j] = wire[j]
      BY <1>1, <1>2 DEF Replies
    <3> QED BY <2>1, <2>2, <3>2, <3>3 DEF ShownAs
  <2> QED BY <2>3, <2>4
<1>11. NoneAwaited'
  <2>1. \A i \in Commands : n + 1 \in (i + 1)..(n + 1)
    BY <1>2
  <2>2. IsReply(wire'[n + 1])
    BY <1>2
  <2> QED BY <1>2, <2>1, <2>2 DEF NoneAwaited
<1> QED BY <1>10, <1>11 DEF EInv

\* A reply that nobody awaits is shown without a command, or not at all.
LEMMA UnsolicitedShown ==
  ASSUME TypeOK, EInv, NEW x \in AllLines(proto) \cup Hellos, wire' = Append(wire, x),
         IsReply(x), lastCmd = None, lastCmd' = None,
         \/ events' = events
         \/ events' = Append(events, [command |-> None, response |-> x.kind])
  PROVE  EInv'
<1>0. ~IsCommand(x)
  BY DEF IsReply, IsCommand
<1>1. PICK n \in Nat : n = Len(wire)
  BY ShownStays
<1>2. /\ Len(wire') = n + 1 /\ wire'[n + 1] = x /\ Commands \in SUBSET (1..n)
      /\ \A i \in 1..n : wire'[i] = wire[i]
      /\ Commands' = Commands
      /\ \A i \in Commands : Replies(i)' = Replies(i)
  BY <1>0, <1>1, WireReads DEF EInv
<1>3. PICK m \in Nat : m = Len(events)
  BY LenProperties DEF TypeOK
<1>4. Shown \in SUBSET (1..m) /\ Shown' = Shown /\ \A k \in Shown : events'[k] = events[k]
  <2>1. CASE events' = events
    BY <1>3, <2>1 DEF Shown
  <2>2. CASE events' = Append(events, [command |-> None, response |-> x.kind])
    <3> DEFINE e == [command |-> None, response |-> x.kind]
    <3>1. PICK E : events \in Seq(E) /\ e \in E
      <4> DEFINE F == [command : ClientKinds(proto) \cup {None},
                       response : ReplyKinds(proto) \cup {None}] \cup {e}
      <4>1. events \in Seq(F)
        BY SeqMonotonic DEF TypeOK
      <4> QED BY <4>1
    <3>2. e.command = None
      OBVIOUS
    <3> HIDE DEF e
    <3>3. /\ Len(events') = m + 1 /\ events'[m + 1] = e
          /\ \A k \in 1..m : events'[k] = events[k]
      BY <1>3, <2>2, <3>1, AppendProperties DEF e
    <3> QED BY <1>3, <3>2, <3>3 DEF Shown
  <2> QED BY <2>1, <2>2
<1>5. \A i \in Commands, k \in Shown : ShownAs(i, k) => ShownAs(i, k)'
  BY <1>1, <1>2, <1>4 DEF ShownAs, Replies
<1>6. TimelineMatchesWire'
  BY <1>2, <1>4, <1>5 DEF EInv, TimelineMatchesWire, Rank
<1>7. NoneAwaited'
  <2>1. \A i \in Commands : n + 1 \in (i + 1)..(n + 1)
    BY <1>2
  <2>2. IsReply(wire'[n + 1])
    BY <1>2
  <2> QED BY <1>2, <2>1, <2>2 DEF NoneAwaited
<1> QED BY <1>6, <1>7 DEF EInv

\* A step that reads nothing.
LEMMA NothingShown ==
  ASSUME EInv, UNCHANGED <<events, lastCmd, wire>>
  PROVE  EInv'
<1>1. \A i, j : Answers(i, j)' <=> Answers(i, j)
  BY DEF Answers
<1>2. Commands' = Commands /\ Shown' = Shown /\ \A i : Replies(i)' = Replies(i)
  BY <1>1 DEF Commands, Shown, Replies
<1>3. \A i \in Commands, k \in Shown : ShownAs(i, k) => ShownAs(i, k)'
  BY <1>2 DEF ShownAs
<1>4. TimelineMatchesWire'
  BY <1>2, <1>3 DEF EInv, TimelineMatchesWire, Rank
<1>5. NoneAwaited'
  BY <1>2 DEF EInv, NoneAwaited
<1> QED BY <1>4, <1>5 DEF EInv

\* Every step keeps the timeline and the wire together.
LEMMA EInvStep == TInv /\ EInv /\ [Next]_vars => EInv'
<1> SUFFICES ASSUME TInv, EInv, [Next]_vars
             PROVE  EInv'
  OBVIOUS
<1>0. TypeOK /\ (lastCmd # None => events # <<>>)
  BY DEF TInv, CommandAwaited
<1>1. CASE ProcessLine
  <2>1. PICK l \in AllLines(proto) \cup Hellos :
          /\ l \in Lines(proto, chunk.from) /\ wire' = Append(wire, l)
          /\ IF chunk.from = "client" THEN ClientLine(l) ELSE ServerLine(l)
    BY <1>0, <1>1, HeadIsLine DEF ProcessLine
  <2>2. CASE chunk.from = "client"
    <3>1. ClientLine(l) /\ ~IsReply(l)
      BY <2>1, <2>2 DEF Lines, IsReply
    <3>2. CASE IsCommand(l)
      <4>1. /\ lastCmd' = l.kind
            /\ events' = Append(events, [command |-> l.kind, response |-> None])
        BY <3>1, <3>2 DEF ClientLine, NoteCommand
      <4> QED BY <1>0, <2>1, <3>2, <4>1, CommandShown
    <3>3. CASE ~IsCommand(l)
      <4>1. UNCHANGED <<events, lastCmd>>
        BY <3>1, <3>3 DEF ClientLine, NoteCommand
      <4> QED BY <1>0, <2>1, <3>1, <3>3, <4>1, NeitherShown
    <3> QED BY <3>2, <3>3
  <2>3. CASE chunk.from = "server"
    <3>1. /\ l.from = "server" /\ l.kind \in ReplyKinds(proto) /\ ServerLine(l)
          /\ ~IsCommand(l)
      BY <2>1, <2>3 DEF Lines, IsCommand
    <3>2. "ClientHello" \notin ReplyKinds(proto)
      BY <1>0, TimelineAssumption DEF ReplyKinds, TypeOK
    <3>3. CASE l.kind = "blank"
      <4>1. UNCHANGED <<events, lastCmd>> /\ ~IsReply(l)
        BY <3>1, <3>3 DEF ServerLine, IsReply
      <4> QED BY <1>0, <2>1, <3>1, <4>1, NeitherShown
    <3>4. CASE l.kind # "blank" /\ lastCmd # None
      <4>1. /\ IsReply(l) /\ lastCmd' = None
            /\ events' = [events EXCEPT ![Len(events)].response = l.kind]
        BY <1>0, <3>1, <3>2, <3>4 DEF ServerLine, NoteReply, Awaited, IsReply
      <4> QED BY <2>1, <3>4, <4>1, ReplyShown
    <3>5. CASE l.kind # "blank" /\ lastCmd = None
      <4>1. /\ IsReply(l) /\ lastCmd' = None
            /\ \/ events' = events
               \/ events' = Append(events, [command |-> None, response |-> l.kind])
        BY <3>1, <3>2, <3>5 DEF ServerLine, NoteReply, Awaited, IsReply
      <4> QED BY <1>0, <2>1, <3>5, <4>1, UnsolicitedShown
    <3> QED BY <3>3, <3>4, <3>5
  <2>4. chunk.from \in {"client", "server"}
    BY <1>0 DEF TypeOK, Sides
  <2> QED BY <2>2, <2>3, <2>4
<1>2. CASE LookForHello
  <2>1. UNCHANGED <<events, lastCmd>> /\ wire' \in {wire, Append(wire, Hello)}
    BY <1>2 DEF LookForHello
  <2>2. Hello \in Hellos /\ ~IsCommand(Hello) /\ ~IsReply(Hello)
    BY <1>0 DEF Hello, Hellos, TypeOK, IsCommand, IsReply
  <2> QED BY <1>0, <2>1, <2>2, NeitherShown, NothingShown
<1>3. CASE UNCHANGED <<events, lastCmd, wire>>
  BY <1>3, NothingShown
<1> QED BY <1>1, <1>2, <1>3 DEF Next, Analysis, Feed, OutOfLines, Finish, vars

LEMMA InitEInv == Init => EInv
<1> SUFFICES ASSUME Init PROVE EInv
  OBVIOUS
<1>1. Commands = {} /\ Shown = {}
  BY EmptySeq DEF Init, Commands, Shown
<1> QED BY <1>1 DEF EInv, NoneAwaited, TimelineMatchesWire

-----------------------------------------------------------------------------
(* Theorems *)

\* The strengthened invariant holds of every reading of every stream.
THEOREM Inductive == Spec => []TInv
  BY InitTInv, TInvStep, PTL DEF Spec

\* The analyser's variables keep their types.
THEOREM TypeCorrect == Spec => []TypeOK
<1>1. TInv => TypeOK
  BY DEF TInv
<1> QED BY <1>1, Inductive, PTL

\* No stream makes the analyser believe in an acceptance that is not the
\* first reply after a STARTTLS.
THEOREM AcceptanceIsAnswer == Spec => []AcceptedIsAnswered
<1>1. TInv => AcceptedIsAnswered
  BY DEF TInv
<1> QED BY <1>1, Inductive, PTL

\* No stream counts as encrypted without a ClientHello after a positive reply.
THEOREM EncryptionIsShown == Spec => []EstablishedIsShown
<1>1. TInv => EstablishedIsShown
  BY DEF TInv
<1> QED BY <1>1, Inductive, PTL

\* The state and the flags of the verdict agree.
THEOREM VerdictsCohere == Spec => []VerdictCoherent
<1>1. TInv => VerdictCoherent
  BY DEF TInv
<1> QED BY <1>1, Inductive, PTL

\* The timeline shows the tracked commands of every stream, all of them and in
\* their order, each with the first reply before the next command or with none.
THEOREM TimelineIsTheWire == Spec => []TimelineMatchesWire
<1>1. EInv => TimelineMatchesWire
  BY DEF EInv
<1> QED BY InitEInv, EInvStep, Inductive, <1>1, PTL DEF Spec
=============================================================================
