------------------------ MODULE MailDialogueProofs -------------------------
(***************************************************************************)
(* What the timeline analyser says of a dialogue, for dialogues of any     *)
(* length, any number of refusals and retries and any encrypted bytes.     *)
(* The analyser reads each line before the next segment comes, so that its *)
(* verdict, with the one line it may still have to read, keeps step with   *)
(* what client and server have said to each other.                         *)
(***************************************************************************)
EXTENDS MailDialogue, StartTlsTimelineProofs

USE DEF None

-----------------------------------------------------------------------------
(* Every dialogue is a stream *)

\* What a peer says is data that the analyser may be fed.
LEMMA SaidIsData ==
  ASSUME TypeOK, NEW side \in Sides, NEW hello, NEW n \in Nat,
         NEW data \in [1..n -> Lines(proto, side)], Feed(side, data, hello)
  PROVE  data \in Data(side)
  <1>1. Len(data) = n
    <2>1. data \in Seq(Lines(proto, side)) /\ DOMAIN data = 1..n
      BY SeqDef
    <2>2. QED
      BY <2>1, LenProperties
  <1>2. n \in 0..(MaxLines - fed.lines)
    BY <1>1, TimelineAssumption DEF Feed, TypeOK
  <1>3. QED
    BY <1>2 DEF Data

\* The same of a single line, or of none.
LEMMA LineIsData ==
  ASSUME TypeOK, NEW side \in Sides, NEW hello
  PROVE  /\ Feed(side, <<>>, hello) => <<>> \in Data(side)
         /\ \A l \in Lines(proto, side) :
              Feed(side, <<l>>, hello) => <<l>> \in Data(side)
  <1>1. <<>> \in [1..0 -> Lines(proto, side)]
    BY EmptySeq, SeqDef
  <1>2. \A l \in Lines(proto, side) : <<l>> \in [1..1 -> Lines(proto, side)]
    OBVIOUS
  <1>3. QED
    BY <1>1, <1>2, SaidIsData

\* The lines of the dialogue are lines of the protocol.
LEMMA SaidLines ==
  ASSUME TypeOK
  PROVE  /\ \A k \in {"command", "noise", "STARTTLS"} :
              [from |-> "client", kind |-> k, advert |-> FALSE] \in Lines(proto, "client")
         /\ \A k \in ReplyKinds(proto), a \in BOOLEAN : (k = "blank" => ~a) =>
              [from |-> "server", kind |-> k, advert |-> a] \in Lines(proto, "server")
         /\ Banner \in ReplyKinds(proto) \ {"blank"}
         /\ Positive \in ReplyKinds(proto) \ {"blank"}
         /\ \A side \in Sides : \A data \in Noise(side) :
              data = <<>> \/ \E l \in Lines(proto, side) :
                /\ data = <<l>> /\ ~l.advert
                /\ l.kind \in {"noise", "other", "blank", "OK"}
  <1>1. proto \in {"SMTP", "IMAP", "POP3"}
    BY TimelineAssumption DEF TypeOK
  <1>2. \A k \in {"command", "noise", "STARTTLS"} :
          [from |-> "client", kind |-> k, advert |-> FALSE] \in Lines(proto, "client")
    BY DEF Lines, ClientKinds
  <1>3. \A k \in ReplyKinds(proto), a \in BOOLEAN : (k = "blank" => ~a) =>
          [from |-> "server", kind |-> k, advert |-> a] \in Lines(proto, "server")
    BY DEF Lines
  <1>4. /\ Banner \in ReplyKinds(proto) \ {"blank"}
        /\ Positive \in ReplyKinds(proto) \ {"blank"}
    BY <1>1 DEF Banner, Positive, ReplyKinds
  <1>5. \A side \in Sides : \A data \in Noise(side) :
          data = <<>> \/ \E l \in Lines(proto, side) :
            /\ data = <<l>> /\ ~l.advert
            /\ l.kind \in {"noise", "other", "blank", "OK"}
    BY DEF Noise
  <1>6. QED
    BY <1>2, <1>3, <1>4, <1>5

\* A step of the dialogue is a step of the analyser on some stream.
LEMMA DialogueIsStream ==
  ASSUME TypeOK, DialogueNext
  PROVE  Next
  <1> DEFINE Fed == \E side \in Sides, hello \in BOOLEAN : \E data \in Data(side) :
                      Feed(side, data, hello)
  <1>1. \A k \in {"command", "noise", "STARTTLS"} : ClientSays(k) => Fed
    BY SaidLines, LineIsData DEF ClientSays, Sides
  <1>2. \A k \in ReplyKinds(proto), a \in BOOLEAN :
          (k = "blank" => ~a) /\ ServerSays(k, a) => Fed
    BY SaidLines, LineIsData DEF ServerSays, Sides
  <1>3. \A side \in Sides, hello \in BOOLEAN : \A data \in Noise(side) :
          Feed(side, data, hello) => Fed
    BY SaidLines, LineIsData
  <1>4. Scrambled => Fed
    <2> SUFFICES ASSUME Scrambled PROVE Fed
      OBVIOUS
    <2>1. PICK side \in Sides, hello \in BOOLEAN, n \in 0..(MaxScrambled - fed.lines) :
            \E data \in [1..n -> Lines(proto, side)] : Feed(side, data, hello)
      BY DEF Scrambled
    <2>2. n \in Nat
      BY ScrambledAssumption DEF TypeOK
    <2>3. QED
      BY <2>1, <2>2, SaidIsData
  <1>5. Peers => Fed
    <2>1. ServerGreets => Fed
      BY <1>2, SaidLines DEF ServerGreets
    <2>2. ClientCommands \/ ClientAsks => Fed
      BY <1>1 DEF ClientCommands, ClientAsks
    <2>3. ServerReplies => Fed
      BY <1>2 DEF ServerReplies
    <2>4. ServerInterrupts => Fed
      BY <1>2 DEF ServerInterrupts
    <2>5. ServerAccepts \/ ServerRefuses => Fed
      BY <1>2, SaidLines DEF ServerAccepts, ServerRefuses
    <2>6. ClientSendsHello \/ ServerSendsHello \/ Encrypted => Fed
      BY <1>3 DEF ClientSendsHello, ServerSendsHello, Encrypted, Sides
    <2> HIDE DEF Fed
    <2>7. QED
      BY <1>4, <2>1, <2>2, <2>3, <2>4, <2>5, <2>6 DEF Peers
  <1>6. QED
    BY <1>5 DEF DialogueNext, Next

\* Every dialogue, scrambled or not, is a stream: what is proved of the analyser
\* on any stream holds of the dialogues too.
THEOREM DialoguesAreStreams == DialogueSpec => Spec
  <1>1. DialogueInit => Init /\ TypeOK
    BY InitTInv DEF DialogueInit, TInv
  <1>2. TypeOK /\ [DialogueNext]_<<vars, dialogueVars>> => [Next]_vars
    BY DialogueIsStream
  <1>3. TypeOK /\ [Next]_vars => TypeOK'
    BY TypeStep
  <1>4. QED
    BY <1>1, <1>2, <1>3, PTL DEF DialogueSpec, Spec

-----------------------------------------------------------------------------
(* What the analyser will say *)

VerdictType == [state : States, supported : BOOLEAN, requested : BOOLEAN,
                accepted : BOOLEAN, established : BOOLEAN]

\* The reply to an awaited STARTTLS judges the negotiation, no other line does.
Judges(l) ==
  /\ l.from = "server" /\ l.kind # "blank"
  /\ lastCmd = "STARTTLS" /\ startTLS.state = "TLS_COMMAND_SENT"

\* A line changes the verdict field by field.
LEMMA AfterLine ==
  ASSUME TInv, lastCmd # "mention", NEW side \in Sides, NEW l \in Lines(proto, side)
  PROVE  /\ l.from = side /\ VerdictAfter(l) \in VerdictType
         /\ VerdictAfter(l).requested <=> startTLS.requested \/ IsStartTls(l)
         /\ VerdictAfter(l).supported <=> startTLS.supported \/ l.advert
         /\ VerdictAfter(l).accepted <=> startTLS.accepted \/ (Judges(l) /\ Accepts(l))
         /\ VerdictAfter(l).established <=> startTLS.established
         /\ VerdictAfter(l).state =
              IF IsStartTls(l) THEN "TLS_COMMAND_SENT"
              ELSE IF ~Judges(l) THEN startTLS.state
              ELSE IF Accepts(l) THEN "TLS_ACCEPTED" ELSE "FAILED"
  <1>0. startTLS \in VerdictType
    BY DEF TInv, TypeOK, VerdictType
  <1>1. CASE side = "client"
    <2>1. l.from = "client" /\ l.advert = FALSE /\ ~Judges(l)
      BY <1>1 DEF Lines, Judges
    <2>2. QED
      BY <1>0, <1>1, <2>1 DEF VerdictAfter, VerdictType, States
  <1>2. CASE side = "server"
    <2>1. l.from = "server" /\ l.advert \in BOOLEAN /\ (l.kind = "blank" => ~l.advert)
          /\ ~IsStartTls(l)
      BY <1>2 DEF Lines, IsStartTls
    <2>2. CASE l.kind = "blank"
      BY <1>0, <1>2, <2>1, <2>2 DEF VerdictAfter, Judges
    <2>3. CASE l.kind # "blank"
      <3>1. Awaited /\ AnswersStartTls <=> Judges(l)
        BY <2>1, <2>3 DEF Awaited, AnswersStartTls, Judges, TInv, CommandAwaited
      <3>2. /\ Judged(l) \in VerdictType
            /\ Judged(l).requested = startTLS.requested
            /\ Judged(l).supported = startTLS.supported
            /\ Judged(l).established = startTLS.established
            /\ Judged(l).accepted <=> startTLS.accepted \/ (Judges(l) /\ Accepts(l))
            /\ Judged(l).state = IF ~Judges(l) THEN startTLS.state
                                 ELSE IF Accepts(l) THEN "TLS_ACCEPTED" ELSE "FAILED"
        BY <1>0, <3>1 DEF Judged, VerdictType, States
      <3>3. VerdictAfter(l) = [Judged(l) EXCEPT !.supported = @ \/ l.advert]
        BY <2>1, <2>3 DEF VerdictAfter
      <3>4. QED
        BY <1>2, <2>1, <3>2, <3>3 DEF VerdictType
    <2>4. QED
      BY <2>2, <2>3
  <1>3. QED
    BY <1>1, <1>2 DEF Sides

\* What is fed to an analyser that has read everything is what it reads next.
LEMMA FedIsUnread ==
  ASSUME TypeOK, DialogueTypeOK, OneLineAtATime, NEW side \in Sides, NEW hello \in BOOLEAN,
         NEW data, data = <<>> \/ \E l \in Lines(proto, side) : data = <<l>>,
         Feed(side, data, hello), truth.hello \/ hello => truth'.hello
  PROVE  /\ Unread = <<>> /\ Unread' = data /\ OneLineAtATime'
         /\ pc = "next" /\ pc' = "lines" /\ chunk' = [from |-> side, hello |-> hello]
         /\ UNCHANGED <<proto, startTLS, events, lastCmd>>
  <1>1. /\ pc = "next" /\ pc' = "lines" /\ chunk' = [from |-> side, hello |-> hello]
        /\ UNCHANGED <<proto, startTLS, events, lastCmd>>
        /\ lines' = [lines EXCEPT ![side] = lines[side] \o data]
    BY DEF Feed
  <1>2. \A d \in Sides : lines[d] = <<>>
    BY <1>1 DEF OneLineAtATime
  <1>3. <<>> \o data = data /\ Len(data) <= 1
    <2>1. /\ <<>> \in Seq(Lines(proto, side)) /\ Len(<<>>) = 0
          /\ \A l \in Lines(proto, side) :
               <<l>> \in Seq(Lines(proto, side)) /\ Len(<<l>>) = 1
      OBVIOUS
    <2>2. data \in Seq(Lines(proto, side)) /\ Len(data) \in {0, 1}
      BY <2>1
    <2>3. QED
      BY <2>2, ConcatEmptySeq
  <1>4. lines'[side] = data /\ \A d \in Sides \ {side} : lines'[d] = <<>>
    BY <1>1, <1>2, <1>3 DEF TypeOK
  <1>5. Unread = <<>> /\ Unread' = data
    BY <1>1, <1>4 DEF Unread
  <1>6. OneLineAtATime'
    <2>1. \A d \in Sides : Len(lines'[d]) <= 1
      BY <1>3, <1>4
    <2>2. \A d \in Sides : lines'[d] # <<>> => d = side
      BY <1>4
    <2>3. QED
      BY <1>1, <2>1, <2>2 DEF OneLineAtATime
  <1>7. QED
    BY <1>1, <1>5, <1>6

\* The outlook after one more line.
LEMMA OutlookAfterLine ==
  ASSUME DInv, stage # "scrambled", NEW side \in Sides, NEW hello \in BOOLEAN,
         NEW l \in Lines(proto, side), Feed(side, <<l>>, hello), truth.hello \/ hello => truth'.hello
  PROVE  /\ AnswerAwaited /\ OutlookFits /\ Outlook = startTLS /\ Command = lastCmd
         /\ OneLineAtATime' /\ pc' = "lines"
         /\ Command' = IF l.from = "client" THEN IF IsCommand(l) THEN l.kind ELSE lastCmd
                       ELSE IF l.kind = "blank" THEN lastCmd ELSE None
         /\ Outlook'.requested <=> startTLS.requested \/ IsStartTls(l)
         /\ Outlook'.supported <=> startTLS.supported \/ l.advert
         /\ Outlook'.accepted <=> startTLS.accepted \/ (Judges(l) /\ Accepts(l))
         /\ Outlook'.established <=>
              startTLS.established \/ (hello /\ Outlook'.accepted)
         /\ Outlook'.state =
              IF hello /\ Outlook'.accepted THEN "ENCRYPTED"
              ELSE IF IsStartTls(l) THEN "TLS_COMMAND_SENT"
              ELSE IF ~Judges(l) THEN startTLS.state
              ELSE IF Accepts(l) THEN "TLS_ACCEPTED" ELSE "FAILED"
  <1>0. TInv /\ TypeOK /\ DialogueTypeOK /\ OneLineAtATime
    BY DEF DInv, TInv
  <1>1. /\ Unread = <<>> /\ Unread' = <<l>> /\ OneLineAtATime'
        /\ pc = "next" /\ pc' = "lines" /\ chunk' = [from |-> side, hello |-> hello]
        /\ UNCHANGED <<proto, startTLS, events, lastCmd>>
    BY <1>0, FedIsUnread
  <1>2. Outlook = startTLS /\ Command = lastCmd /\ AnswerAwaited /\ OutlookFits
    BY <1>1 DEF Outlook, Verdict, Command, DInv
  <1>3. Verdict' = VerdictAfter(l) /\ Command' = CommandAfter(l)
    <2>1. Unread' # <<>> /\ Head(Unread') = l
      BY <1>1
    <2>2. VerdictAfter(l)' = VerdictAfter(l) /\ CommandAfter(l)' = CommandAfter(l)
      BY <1>1 DEF VerdictAfter, CommandAfter, Judged, Awaited, AnswersStartTls
    <2>3. QED
      BY <2>1, <2>2 DEF Verdict, Command
  <1>4. lastCmd # "mention"
    BY <1>2 DEF AnswerAwaited
  <1>5. /\ Outlook' = IF hello /\ VerdictAfter(l).accepted
                      THEN [VerdictAfter(l) EXCEPT !.established = TRUE, !.state = "ENCRYPTED"]
                      ELSE VerdictAfter(l)
        /\ VerdictAfter(l) \in VerdictType
    BY <1>0, <1>1, <1>3, <1>4, AfterLine DEF Outlook
  <1>6. /\ Outlook'.requested = VerdictAfter(l).requested
        /\ Outlook'.supported = VerdictAfter(l).supported
        /\ Outlook'.accepted = VerdictAfter(l).accepted
        /\ Outlook'.established <=>
              VerdictAfter(l).established \/ (hello /\ VerdictAfter(l).accepted)
        /\ Outlook'.state = IF hello /\ VerdictAfter(l).accepted THEN "ENCRYPTED"
                            ELSE VerdictAfter(l).state
    BY <1>5 DEF VerdictType
  <1>7. Command' = IF l.from = "client" THEN IF IsCommand(l) THEN l.kind ELSE lastCmd
                   ELSE IF l.kind = "blank" THEN lastCmd ELSE None
    BY <1>3 DEF CommandAfter
  <1>8. QED
    BY <1>0, <1>1, <1>2, <1>4, <1>6, <1>7, AfterLine

\* ... and after a segment that ends no line.
LEMMA OutlookAfterNothing ==
  ASSUME DInv, stage # "scrambled", NEW side \in Sides, NEW hello \in BOOLEAN,
         Feed(side, <<>>, hello), truth.hello \/ hello => truth'.hello
  PROVE  /\ AnswerAwaited /\ OutlookFits /\ Outlook = startTLS /\ Command = lastCmd
         /\ OneLineAtATime' /\ pc' = "lines" /\ Command' = lastCmd
         /\ Outlook'.requested = startTLS.requested
         /\ Outlook'.supported = startTLS.supported
         /\ Outlook'.accepted = startTLS.accepted
         /\ Outlook'.established <=> startTLS.established \/ (hello /\ startTLS.accepted)
         /\ Outlook'.state = IF hello /\ startTLS.accepted THEN "ENCRYPTED"
                             ELSE startTLS.state
  <1>0. TInv /\ TypeOK /\ DialogueTypeOK /\ OneLineAtATime
    BY DEF DInv, TInv
  <1>1. /\ Unread = <<>> /\ Unread' = <<>> /\ OneLineAtATime'
        /\ pc = "next" /\ pc' = "lines" /\ chunk' = [from |-> side, hello |-> hello]
        /\ UNCHANGED <<proto, startTLS, events, lastCmd>>
    BY <1>0, FedIsUnread
  <1>2. Outlook = startTLS /\ Command = lastCmd /\ AnswerAwaited /\ OutlookFits
    BY <1>1 DEF Outlook, Verdict, Command, DInv
  <1>3. Verdict' = startTLS /\ Command' = lastCmd /\ startTLS \in VerdictType
    BY <1>0, <1>1 DEF Verdict, Command, TypeOK, VerdictType
  <1>4. Outlook' = IF hello /\ startTLS.accepted
                   THEN [startTLS EXCEPT !.established = TRUE, !.state = "ENCRYPTED"]
                   ELSE startTLS
    BY <1>1, <1>3 DEF Outlook
  <1>5. /\ Outlook'.requested = startTLS.requested
        /\ Outlook'.supported = startTLS.supported
        /\ Outlook'.accepted = startTLS.accepted
        /\ Outlook'.established <=> startTLS.established \/ (hello /\ startTLS.accepted)
        /\ Outlook'.state = IF hello /\ startTLS.accepted THEN "ENCRYPTED"
                            ELSE startTLS.state
    BY <1>3, <1>4 DEF VerdictType
  <1>6. QED
    BY <1>1, <1>2, <1>3, <1>5

-----------------------------------------------------------------------------
(* The peers keep the analyser in step *)

InStep ==
  /\ DialogueTypeOK /\ StageFits /\ OneLineAtATime /\ AnswerAwaited /\ OutlookFits
  /\ stage # "scrambled" /\ pc = "lines"

\* The state that the negotiation is in, answer by answer.
LEMMA OpenStates ==
  ASSUME DialogueTypeOK
  PROVE  /\ truth.hello => OpenState = "ENCRYPTED"
         /\ ~truth.hello /\ truth.answer = "yes" => OpenState = "TLS_ACCEPTED"
         /\ ~truth.hello /\ truth.answer = "no" => OpenState = "FAILED"
         /\ ~truth.hello /\ truth.answer = "awaited" => OpenState = "TLS_COMMAND_SENT"
         /\ ~truth.hello /\ truth.answer = "none" => OpenState = "PLAINTEXT"
  BY DEF OpenState, TrueState, DialogueTypeOK

\* A line that is neither STARTTLS nor the answer to it changes what is offered.
LEMMA TalkInStep ==
  ASSUME DInv, stage # "scrambled", stage # "answer",
         NEW side \in Sides, NEW l \in Lines(proto, side), Feed(side, <<l>>, FALSE),
         l.kind \notin {"STARTTLS", "mention"},
         stage' \in {"idle", "reply", "secure"},
         stage' = "secure" <=> truth.hello, truth.answer = "yes" => stage' = "secure",
         \/ l.advert = FALSE /\ truth' = truth
         \/ truth' = [truth EXCEPT !.offered = @ \/ l.advert]
  PROVE  InStep'
  <1>0. DialogueTypeOK /\ StageFits /\ l.advert \in BOOLEAN /\ l.from = side
    BY DEF DInv, Lines, Sides
  <1>1. /\ truth' \in [offered : BOOLEAN, answer : {"none", "awaited", "late", "yes", "no"},
                       hello : BOOLEAN, plain : BOOLEAN, misled : BOOLEAN]
        /\ truth'.answer = truth.answer /\ truth'.hello = truth.hello
        /\ truth'.misled = truth.misled
        /\ truth'.plain = truth.plain /\ truth'.offered = (truth.offered \/ l.advert)
    BY <1>0 DEF DialogueTypeOK
  <1>2. /\ AnswerAwaited /\ OutlookFits /\ Outlook = startTLS /\ Command = lastCmd
        /\ OneLineAtATime' /\ pc' = "lines"
        /\ Command' = IF l.from = "client" THEN IF IsCommand(l) THEN l.kind ELSE lastCmd
                      ELSE IF l.kind = "blank" THEN lastCmd ELSE None
        /\ Outlook'.requested <=> startTLS.requested \/ IsStartTls(l)
        /\ Outlook'.supported <=> startTLS.supported \/ l.advert
        /\ Outlook'.accepted <=> startTLS.accepted \/ (Judges(l) /\ Accepts(l))
        /\ Outlook'.established <=> startTLS.established
        /\ Outlook'.state = IF IsStartTls(l) THEN "TLS_COMMAND_SENT"
                            ELSE IF ~Judges(l) THEN startTLS.state
                            ELSE IF Accepts(l) THEN "TLS_ACCEPTED" ELSE "FAILED"
    BY <1>1, OutlookAfterLine
  <1>3. ~Judges(l) /\ ~IsStartTls(l) /\ truth.answer # "awaited"
    BY <1>0, <1>2 DEF AnswerAwaited, Judges, IsStartTls, StageFits
  <1>4. DialogueTypeOK' /\ StageFits'
    BY <1>0, <1>1, <1>2 DEF DialogueTypeOK, StageFits, Feed
  <1>5. AnswerAwaited'
    BY <1>1, <1>2, <1>3 DEF AnswerAwaited, IsCommand
  <1>6. OpenState' = OpenState
    BY <1>0, <1>1, <1>4, OpenStates DEF OpenState, TrueState
  <1>7. OutlookFits'
    BY <1>1, <1>2, <1>3, <1>6 DEF OutlookFits
  <1>8. QED
    BY <1>2, <1>4, <1>5, <1>7 DEF InStep

\* The banner, commands other than STARTTLS and the replies to them.
LEMMA PlainTalkInStep ==
  ASSUME DInv, stage # "scrambled", ServerGreets \/ ClientCommands \/ ServerReplies
  PROVE  InStep'
  <1>0. TypeOK /\ DialogueTypeOK /\ StageFits
    BY DEF DInv, TInv
  <1>1. CASE ServerGreets
    <2>1. PICK a \in BOOLEAN : ServerSays(Banner, a) /\ Offering(a)
      BY <1>1 DEF ServerGreets
    <2>2. PICK l \in Lines(proto, "server") :
            l = [from |-> "server", kind |-> Banner, advert |-> a]
      BY <1>0, SaidLines
    <2>3. l.kind \notin {"STARTTLS", "mention"} /\ l.advert = a
      BY <2>2, <1>0, TimelineAssumption DEF Banner, TypeOK
    <2>4. Feed("server", <<l>>, FALSE) /\ truth' = [truth EXCEPT !.offered = @ \/ l.advert]
      BY <2>1, <2>2, <2>3 DEF ServerSays, Offering
    <2>5. stage = "greeting" /\ stage' = "idle"
      BY <1>1 DEF ServerGreets, Turn
    <2>6. QED
      BY <1>0, <2>3, <2>4, <2>5, TalkInStep DEF StageFits, Sides
  <1>2. CASE ClientCommands
    <2>1. PICK k \in {"command", "noise"} : ClientSays(k)
      BY <1>2 DEF ClientCommands
    <2>2. PICK l \in Lines(proto, "client") :
            l = [from |-> "client", kind |-> k, advert |-> FALSE]
      BY <1>0, SaidLines
    <2>3. l.kind \notin {"STARTTLS", "mention"} /\ l.advert = FALSE
      BY <2>2
    <2>4. Feed("client", <<l>>, FALSE) /\ truth' = truth
      BY <1>2, <2>1, <2>2 DEF ClientSays, ClientCommands
    <2>5. stage = "idle" /\ stage' = "reply"
      BY <1>2 DEF ClientCommands, Turn
    <2>6. QED
      BY <1>0, <2>3, <2>4, <2>5, TalkInStep DEF StageFits, Sides
  <1>3. CASE ServerReplies
    <2>1. PICK k \in ReplyKinds(proto), a \in BOOLEAN :
            (k = "blank" => ~a) /\ ServerSays(k, a) /\ Offering(a)
      BY <1>3 DEF ServerReplies
    <2>2. PICK l \in Lines(proto, "server") :
            l = [from |-> "server", kind |-> k, advert |-> a]
      BY <1>0, <2>1, SaidLines
    <2>3. l.kind \notin {"STARTTLS", "mention"} /\ l.advert = a
      BY <2>2, <1>0, TimelineAssumption DEF ReplyKinds, TypeOK
    <2>4. Feed("server", <<l>>, FALSE) /\ truth' = [truth EXCEPT !.offered = @ \/ l.advert]
      BY <2>1, <2>2, <2>3 DEF ServerSays, Offering
    <2>5. stage = "reply" /\ stage' \in {"reply", "idle"}
      BY <1>3 DEF ServerReplies, Turn
    <2>6. QED
      BY <1>0, <2>3, <2>4, <2>5, TalkInStep DEF StageFits, Sides
  <1>4. QED
    BY <1>1, <1>2, <1>3

\* The request makes the analyser await its answer.
LEMMA RequestInStep ==
  ASSUME DInv, stage # "scrambled", ClientAsks
  PROVE  InStep'
  <1>0. TypeOK /\ DialogueTypeOK /\ StageFits
    BY DEF DInv, TInv
  <1>1. stage = "idle" /\ stage' = "answer" /\ truth' = [truth EXCEPT !.answer = "awaited"]
    BY DEF ClientAsks, Turn
  <1>2. PICK l \in Lines(proto, "client") :
          l = [from |-> "client", kind |-> "STARTTLS", advert |-> FALSE]
    BY <1>0, SaidLines
  <1>3. /\ Feed("client", <<l>>, FALSE) /\ IsStartTls(l) /\ IsCommand(l) /\ ~Judges(l)
        /\ l.advert = FALSE
    BY <1>2 DEF ClientAsks, ClientSays, IsStartTls, IsCommand, Judges
  <1>4. /\ DialogueTypeOK' /\ StageFits'
        /\ truth'.answer = "awaited" /\ truth'.hello = FALSE /\ truth.answer # "yes"
        /\ truth'.plain = truth.plain /\ truth'.offered = truth.offered
        /\ truth.hello = FALSE /\ truth'.misled = truth.misled
    BY <1>0, <1>1, <1>3 DEF DialogueTypeOK, StageFits, Feed
  <1>5. /\ AnswerAwaited /\ OutlookFits /\ Outlook = startTLS /\ OneLineAtATime'
        /\ pc' = "lines" /\ Command' = "STARTTLS"
        /\ Outlook'.requested
        /\ Outlook'.supported <=> startTLS.supported
        /\ Outlook'.accepted <=> startTLS.accepted
        /\ Outlook'.established <=> startTLS.established
        /\ Outlook'.state = "TLS_COMMAND_SENT"
    BY <1>2, <1>3, <1>4, OutlookAfterLine DEF Sides
  <1>6. AnswerAwaited'
    BY <1>4, <1>5 DEF AnswerAwaited
  <1>7. OpenState' = "TLS_COMMAND_SENT"
    BY <1>4, OpenStates DEF OpenState, TrueState
  <1>8. OutlookFits'
    BY <1>4, <1>5, <1>7 DEF OutlookFits
  <1>9. QED
    BY <1>1, <1>4, <1>5, <1>6, <1>8 DEF InStep

\* A first line after STARTTLS that is taken for an acceptance is one or misleads.
LEMMA AnswerKinds ==
  ASSUME TypeOK, NEW k \in ReplyKinds(proto), NEW l, l.kind = k
  PROVE  /\ k = Positive => Accepts(l)
         /\ truth.answer = "awaited" /\ (proto = "IMAP" \/ k \in {"other", "OK"})
               /\ Accepts(l) => Misleads(k)
         /\ Misleads(k) => proto = "IMAP" /\ truth.answer = "awaited"
  <1>1. proto \in {"SMTP", "IMAP", "POP3"}
    BY TimelineAssumption DEF TypeOK
  <1>2. CASE proto = "IMAP"
    BY <1>2, Zenon DEF Accepts, Misleads, Positive, ReplyKinds
  <1>3. CASE proto = "SMTP"
    BY <1>3, Zenon DEF Accepts, Misleads, Positive, ReplyKinds
  <1>4. CASE proto = "POP3"
    BY <1>4, Zenon DEF Accepts, Misleads, Positive, ReplyKinds
  <1>5. QED
    BY <1>1, <1>2, <1>3, <1>4

\* An answer, and the line that comes before one, ends the wait.
LEMMA AnswerInStep ==
  ASSUME DInv, stage # "scrambled", ServerInterrupts \/ ServerAccepts \/ ServerRefuses
  PROVE  InStep'
  <1>0. TypeOK /\ DialogueTypeOK /\ StageFits /\ stage = "answer"
    BY DEF DInv, TInv, ServerInterrupts, ServerAccepts, ServerRefuses, Turn
  <1>1. PICK k \in ReplyKinds(proto), a \in BOOLEAN :
          /\ k # "blank" /\ ServerSays(k, a)
          /\ \/ /\ proto = "IMAP" /\ stage' = "answer"
                /\ truth' = [truth EXCEPT !.offered = @ \/ a, !.plain = FALSE,
                                          !.misled = @ \/ Misleads(k), !.answer = "late"]
             \/ /\ k = Positive /\ a = FALSE /\ stage' = "upgrade"
                /\ truth' = [truth EXCEPT !.answer = "yes"]
             \/ /\ k \in {"other", "OK"} /\ stage' = "idle"
                /\ truth' = [truth EXCEPT !.answer = "no",
                                          !.plain = @ /\ ~a /\ ~Misleads(k),
                                          !.misled = @ \/ Misleads(k)]
    <2>1. CASE ServerInterrupts
      <3>1. PICK k \in ReplyKinds(proto) \ {"blank"}, a \in BOOLEAN :
              /\ ServerSays(k, a)
              /\ truth' = [truth EXCEPT !.offered = @ \/ a, !.plain = FALSE,
                                        !.misled = @ \/ Misleads(k), !.answer = "late"]
        BY <2>1 DEF ServerInterrupts
      <3>2. k \in ReplyKinds(proto) /\ k # "blank" /\ proto = "IMAP" /\ stage' = "answer"
        BY <2>1 DEF ServerInterrupts, Turn
      <3>3. QED
        BY <3>1, <3>2
    <2>2. CASE ServerAccepts
      BY <1>0, <2>2, SaidLines DEF ServerAccepts, Turn
    <2>3. CASE ServerRefuses
      BY <1>0, <2>3 DEF ServerRefuses, Turn
    <2>4. QED
      BY <2>1, <2>2, <2>3
  <1>2. PICK l \in Lines(proto, "server") :
          l = [from |-> "server", kind |-> k, advert |-> a]
    BY <1>0, <1>1, SaidLines
  <1>3. /\ Feed("server", <<l>>, FALSE) /\ ~IsStartTls(l) /\ l.advert = a
        /\ l.from = "server" /\ l.kind = k
    BY <1>1, <1>2 DEF ServerSays, IsStartTls
  <1>4. /\ k = Positive => Accepts(l)
        /\ truth.answer = "awaited" /\ (proto = "IMAP" \/ k \in {"other", "OK"})
              /\ Accepts(l) => Misleads(k)
        /\ Misleads(k) => proto = "IMAP" /\ truth.answer = "awaited"
    BY <1>0, <1>1, <1>3, AnswerKinds
  <1>m. Misleads(k) \in BOOLEAN
    BY DEF Misleads
  <1>5. /\ DialogueTypeOK' /\ StageFits' /\ truth'.hello = FALSE /\ truth.hello = FALSE
        /\ truth.answer \in {"awaited", "late"} /\ truth'.answer \notin {"none", "awaited"}
        /\ truth'.misled = (truth.misled \/ (stage' # "upgrade" /\ Misleads(k)))
        /\ truth'.answer = "yes" <=> stage' = "upgrade"
        /\ truth'.plain => truth.plain
    BY <1>0, <1>1, <1>3, <1>4, <1>m DEF DialogueTypeOK, StageFits, Feed
  <1>6. /\ AnswerAwaited /\ OutlookFits /\ Outlook = startTLS /\ Command = lastCmd
        /\ OneLineAtATime' /\ pc' = "lines" /\ Command' = None
        /\ Outlook'.requested <=> startTLS.requested
        /\ Outlook'.supported <=> startTLS.supported \/ a
        /\ Outlook'.accepted <=> startTLS.accepted \/ (Judges(l) /\ Accepts(l))
        /\ Outlook'.established <=> startTLS.established
        /\ Outlook'.state = IF ~Judges(l) THEN startTLS.state
                            ELSE IF Accepts(l) THEN "TLS_ACCEPTED" ELSE "FAILED"
    BY <1>1, <1>3, <1>5, OutlookAfterLine DEF Sides
  <1>7. truth.plain => Judges(l) /\ startTLS.supported = truth.offered
    <2>1. truth.plain => truth.answer = "awaited"
      BY <1>0, <1>5 DEF StageFits
    <2>2. truth.plain => OpenState = "TLS_COMMAND_SENT"
      BY <1>0, <1>5, <2>1, OpenStates
    <2>3. QED
      BY <1>0, <1>1, <1>3, <1>6, <2>1, <2>2 DEF AnswerAwaited, OutlookFits, Judges, DInv,
         TInv, TypeOK, DialogueTypeOK
  <1>8. AnswerAwaited'
    BY <1>5, <1>6 DEF AnswerAwaited
  <1>9. OutlookFits'
    <2>1. Judges(l) => truth.answer = "awaited"
      BY <1>6 DEF Judges, AnswerAwaited
    <2>2. Outlook'.accepted => truth'.answer = "yes" \/ truth'.misled
      BY <1>0, <1>1, <1>4, <1>5, <1>6, <2>1 DEF OutlookFits, StageFits
    <2>3. CASE stage' = "answer"
      <3>1. ~truth'.plain
        BY <1>0, <1>1, <2>3 DEF DialogueTypeOK
      <3>2. QED
        BY <1>0, <1>5, <1>6, <2>2, <3>1 DEF OutlookFits
    <2>4. CASE stage' = "upgrade"
      <3>1. /\ truth'.answer = "yes" /\ truth'.plain = truth.plain
            /\ truth'.offered = truth.offered /\ Accepts(l) /\ a = FALSE
        BY <1>0, <1>1, <1>4, <2>4 DEF DialogueTypeOK
      <3>2. OpenState' = "TLS_ACCEPTED"
        BY <1>5, <3>1 DEF OpenState, TrueState
      <3>3. QED
        BY <1>5, <1>6, <1>7, <2>2, <3>1, <3>2 DEF OutlookFits
    <2>5. CASE stage' = "idle"
      <3>1. /\ truth'.answer = "no" /\ (truth'.plain => truth.plain /\ ~a /\ ~Misleads(k))
            /\ truth'.offered = truth.offered /\ k \in {"other", "OK"}
        BY <1>0, <1>1, <1>m, <2>5 DEF DialogueTypeOK
      <3>2. OpenState' = "FAILED"
        BY <1>5, <3>1 DEF OpenState, TrueState
      <3>3. truth'.plain => ~Accepts(l)
        BY <1>4, <1>7, <2>1, <3>1
      <3>4. QED
        BY <1>0, <1>5, <1>6, <1>7, <2>2, <3>1, <3>2, <3>3 DEF OutlookFits
    <2>6. QED
      BY <1>1, <2>3, <2>4, <2>5
  <1>10. QED
    BY <1>1, <1>5, <1>6, <1>8, <1>9 DEF InStep

\* The ClientHello after an acceptance.
LEMMA HelloInStep ==
  ASSUME DInv, stage # "scrambled", ClientSendsHello
  PROVE  InStep'
  <1>0. TypeOK /\ DialogueTypeOK /\ StageFits
    BY DEF DInv, TInv
  <1>1. stage = "upgrade" /\ stage' = "handshake" /\ truth' = [truth EXCEPT !.hello = TRUE]
    BY DEF ClientSendsHello, Turn
  <1>3. PICK data \in Noise("client") : Feed("client", data, TRUE)
    BY DEF ClientSendsHello
  <1>2. /\ DialogueTypeOK' /\ StageFits' /\ truth'.hello /\ truth.hello = FALSE
        /\ truth.answer = "yes" /\ truth'.answer = "yes"
        /\ truth'.plain = truth.plain /\ truth'.offered = truth.offered
        /\ truth'.misled = truth.misled
    BY <1>0, <1>1, <1>3 DEF DialogueTypeOK, StageFits, Feed
  <1>4. /\ AnswerAwaited /\ OutlookFits /\ Outlook = startTLS /\ Command = lastCmd
        /\ OneLineAtATime' /\ pc' = "lines" /\ Command' = lastCmd
        /\ Outlook'.requested <=> startTLS.requested
        /\ Outlook'.supported <=> startTLS.supported
        /\ Outlook'.accepted <=> startTLS.accepted
        /\ Outlook'.established <=> startTLS.established \/ startTLS.accepted
        /\ startTLS.accepted => Outlook'.state = "ENCRYPTED"
    <2>1. CASE data = <<>>
      BY <1>2, <1>3, <2>1, OutlookAfterNothing DEF Sides
    <2>2. CASE data # <<>>
      <3>1. PICK l \in Lines(proto, "client") :
              /\ data = <<l>> /\ ~l.advert /\ l.kind \in {"noise", "other", "blank", "OK"}
        BY <1>0, <1>3, <2>2, SaidLines DEF Sides
      <3>2. l.from = "client" /\ ~IsCommand(l) /\ ~IsStartTls(l) /\ ~Judges(l)
        BY <3>1 DEF Lines, IsCommand, IsStartTls, Judges
      <3>3. Feed("client", <<l>>, TRUE)
        BY <1>3, <3>1
      <3>4. QED
        BY <1>2, <3>1, <3>2, <3>3, OutlookAfterLine DEF Sides
    <2>3. QED
      BY <2>1, <2>2
  <1>5. AnswerAwaited'
    BY <1>1, <1>2, <1>4 DEF AnswerAwaited
  <1>6. OpenState' = "ENCRYPTED"
    BY <1>2 DEF OpenState, TrueState
  <1>7. OutlookFits'
    BY <1>2, <1>4, <1>6 DEF OutlookFits
  <1>8. QED
    BY <1>1, <1>2, <1>4, <1>5, <1>7 DEF InStep

\* Encrypted segments.
LEMMA SecureInStep ==
  ASSUME DInv, stage # "scrambled", ServerSendsHello \/ Encrypted
  PROVE  InStep'
  <1>0. TypeOK /\ DialogueTypeOK /\ StageFits
    BY DEF DInv, TInv
  <1>1. stage \in {"handshake", "secure"} /\ stage' = "secure" /\ truth' = truth
    BY DEF ServerSendsHello, Encrypted, Turn
  <1>s. PICK side \in Sides : \E data \in Noise(side) : Feed(side, data, FALSE)
    BY DEF ServerSendsHello, Encrypted, Sides
  <1>2. PICK data \in Noise(side) : Feed(side, data, FALSE)
    BY <1>s
  <1>3. CASE data = <<>>
    <2>1. DialogueTypeOK' /\ StageFits' /\ truth.hello
      BY <1>0, <1>1, <1>2 DEF DialogueTypeOK, StageFits, Feed
    <2>2. /\ AnswerAwaited /\ OutlookFits /\ Outlook = startTLS /\ Command = lastCmd
          /\ OneLineAtATime' /\ pc' = "lines" /\ Command' = lastCmd
          /\ Outlook'.requested = startTLS.requested
          /\ Outlook'.supported = startTLS.supported
          /\ Outlook'.accepted = startTLS.accepted
          /\ Outlook'.established <=> startTLS.established
          /\ Outlook'.state = startTLS.state
      BY <1>1, <1>2, <1>3, <2>1, OutlookAfterNothing
    <2>3. AnswerAwaited'
      BY <1>1, <2>2 DEF AnswerAwaited
    <2>4. OpenState' = OpenState
      BY <1>1 DEF OpenState, TrueState
    <2>5. OutlookFits'
      BY <1>1, <2>2, <2>4 DEF OutlookFits
    <2>6. QED
      BY <1>1, <2>1, <2>2, <2>3, <2>5 DEF InStep
  <1>4. CASE data # <<>>
    <2>1. PICK l \in Lines(proto, side) :
            /\ data = <<l>> /\ ~l.advert /\ l.kind \in {"noise", "other", "blank", "OK"}
      BY <1>0, <1>2, <1>4, SaidLines
    <2>2. l.advert = FALSE /\ l.kind \notin {"STARTTLS", "mention"}
      BY <2>1 DEF Lines, Sides
    <2>3. Feed(side, <<l>>, FALSE)
      BY <1>2, <2>1
    <2>4. stage # "answer" /\ stage' = "secure" /\ truth.hello
      BY <1>0, <1>1 DEF StageFits
    <2>5. QED
      BY <1>1, <2>2, <2>3, <2>4, TalkInStep
  <1>5. QED
    BY <1>3, <1>4

\* Whatever client and server say, in turns, the analyser stays in step.
LEMMA PeersInStep ==
  ASSUME DInv, Peers, stage' # "scrambled"
  PROVE  InStep'
  <1>1. stage # "scrambled" /\ ~Scrambled
    BY DEF Peers, Turn, ServerGreets, ClientCommands, ServerReplies, ClientAsks,
       ServerInterrupts, ServerAccepts, ServerRefuses, ClientSendsHello, ServerSendsHello,
       Encrypted, Scrambled
  <1>2. QED
    BY <1>1, PlainTalkInStep, RequestInStep, AnswerInStep, HelloInStep, SecureInStep DEF Peers

-----------------------------------------------------------------------------
(* The analyser's steps bring the outlook about *)

\* Reading the line, and looking for the ClientHello, change nothing in it.
LEMMA AnalysisInStep ==
  ASSUME DInv, stage # "scrambled", Analysis, UNCHANGED dialogueVars
  PROVE  AnswerAwaited' /\ OutlookFits' /\ OneLineAtATime' /\ pc' # "done"
  <1>0. /\ TInv /\ TypeOK /\ DialogueTypeOK /\ OneLineAtATime
        /\ UNCHANGED <<stage, truth>> /\ pc # "done" /\ AnswerAwaited /\ OutlookFits
        /\ chunk.from \in Sides
    BY DEF DInv, TInv, dialogueVars, TypeOK, Analysis, ProcessLine, OutOfLines, LookForHello
  <1> SUFFICES Outlook' = Outlook /\ Command' = Command /\ OneLineAtATime' /\ pc' # "done"
    BY <1>0 DEF AnswerAwaited, OutlookFits, OpenState, TrueState
  <1>1. CASE ProcessLine
    <2>1. PICK l \in Lines(proto, chunk.from) : l = Head(lines[chunk.from])
      BY <1>0, <1>1, HeadIsLine DEF ProcessLine
    <2>2. /\ pc = "lines" /\ lines[chunk.from] # <<>> /\ pc' \in {"lines", "hello"}
          /\ IF chunk.from = "client" THEN ClientLine(l) ELSE ServerLine(l)
          /\ lines' = [lines EXCEPT ![chunk.from] = Tail(lines[chunk.from])]
          /\ UNCHANGED chunk
      BY <1>1, <2>1 DEF ProcessLine
    <2>3. \A side \in Sides : lines'[side] = <<>>
      <3>1. lines[chunk.from] \in Seq(AllLines(proto)) /\ Len(lines[chunk.from]) <= 1
        BY <1>0 DEF TypeOK, OneLineAtATime
      <3>2. Tail(lines[chunk.from]) = <<>>
        BY <2>2, <3>1
      <3>3. QED
        BY <1>0, <2>2, <3>2 DEF TypeOK, OneLineAtATime
    <2>4. l.from = chunk.from
      BY <1>0 DEF Lines, Sides
    <2>5. startTLS' = VerdictAfter(l) /\ lastCmd' = CommandAfter(l)
      <3>1. lastCmd # None => events # <<>>
        BY <1>0 DEF TInv, CommandAwaited
      <3>2. CASE chunk.from = "client"
        BY <2>2, <2>4, <3>2 DEF ClientLine, NoteCommand, VerdictAfter, CommandAfter
      <3>3. CASE chunk.from # "client"
        BY <2>2, <2>4, <3>1, <3>3 DEF ServerLine, NoteReply, Awaited, VerdictAfter,
           CommandAfter
      <3>4. QED
        BY <3>2, <3>3
    <2>6. Unread' = <<>> /\ Verdict = startTLS' /\ Command = lastCmd'
      BY <1>0, <2>1, <2>2, <2>3, <2>5 DEF Unread, Verdict, Command
    <2>7. Outlook' = Outlook /\ Command' = Command
      BY <2>2, <2>6 DEF Outlook, Verdict, Command
    <2>8. OneLineAtATime'
      BY <1>0, <2>2, <2>3 DEF OneLineAtATime
    <2>9. QED
      BY <2>2, <2>7, <2>8
  <1>2. CASE OutOfLines
    <2>1. /\ pc = "lines" /\ pc' = "hello" /\ Unread = <<>> /\ Unread' = <<>>
          /\ UNCHANGED <<startTLS, lastCmd, chunk, lines>> /\ lines[chunk.from] = <<>>
      BY <1>2 DEF OutOfLines, Unread
    <2>2. Outlook' = Outlook /\ Command' = Command
      BY <2>1 DEF Outlook, Verdict, Command
    <2>3. OneLineAtATime'
      BY <1>0, <2>1 DEF OneLineAtATime
    <2>4. QED
      BY <2>1, <2>2, <2>3
  <1>3. CASE LookForHello
    <2>1. /\ pc = "hello" /\ pc' = "next" /\ Unread = <<>> /\ Unread' = <<>>
          /\ UNCHANGED <<lastCmd, chunk, lines>>
          /\ startTLS' = IF startTLS.accepted /\ chunk.hello
                         THEN [startTLS EXCEPT !.established = TRUE, !.state = "ENCRYPTED"]
                         ELSE startTLS
      BY <1>3 DEF LookForHello, Unread, Establishes
    <2>2. Outlook' = Outlook /\ Command' = Command
      BY <2>1 DEF Outlook, Verdict, Command
    <2>3. OneLineAtATime'
      BY <1>0, <2>1 DEF OneLineAtATime
    <2>4. QED
      BY <2>1, <2>2, <2>3
  <1>4. QED
    BY <1>1, <1>2, <1>3 DEF Analysis

\* At the end of the stream the analyser says what it has found.
LEMMA FinishInStep ==
  ASSUME DInv, stage # "scrambled", Finish, UNCHANGED dialogueVars
  PROVE  OneLineAtATime' /\ FlattersOnlyWhenMisled' /\ VerdictMatchesDialogue'
  <1>0. /\ TInv /\ TypeOK /\ DialogueTypeOK /\ StageFits /\ OneLineAtATime
        /\ UNCHANGED <<stage, truth>>
    BY DEF DInv, TInv, dialogueVars
  <1>1. /\ pc = "next" /\ pc' = "done" /\ UNCHANGED <<lines, chunk>>
        /\ startTLS' = [startTLS EXCEPT !.state = FinalState]
    BY DEF Finish
  <1>2. Outlook = startTLS /\ OutlookFits
    BY <1>1 DEF DInv, Outlook, Verdict, Unread
  <1>3. OneLineAtATime'
    BY <1>0, <1>1 DEF OneLineAtATime
  <1>4. /\ startTLS' \in VerdictType /\ startTLS'.state = FinalState
        /\ startTLS'.supported = startTLS.supported
        /\ startTLS'.requested = startTLS.requested
        /\ startTLS'.accepted = startTLS.accepted
        /\ startTLS'.established = startTLS.established
    BY <1>0, <1>1 DEF TypeOK, VerdictType, FinalState, States
  <1>5. FlattersOnlyWhenMisled'
    <2>1. proto' = proto /\ (truth.misled => proto = "IMAP")
      BY <1>0 DEF Finish, StageFits
    <2>2. QED
      BY <1>0, <1>2, <1>4, <2>1 DEF FlattersOnlyWhenMisled, OutlookFits
  <1>6. ASSUME truth.plain PROVE startTLS'.state = TrueState
    <2>1. /\ startTLS.state = OpenState /\ (startTLS.supported <=> truth.offered)
          /\ startTLS.requested <=> truth.answer # "none"
      BY <1>2, <1>6 DEF OutlookFits
    <2>2. truth.answer # "none" \/ truth.offered => TrueState = OpenState
      BY <1>0, <1>6 DEF TrueState, OpenState, DialogueTypeOK, StageFits
    <2>3. truth.answer = "none" /\ ~truth.offered => TrueState = "STARTTLS_NOT_USED"
      BY <1>0 DEF TrueState, StageFits
    <2>4. QED
      BY <1>4, <2>1, <2>2, <2>3 DEF FinalState
  <1>7. ASSUME truth.plain
        PROVE  /\ startTLS'.supported = truth.offered
               /\ startTLS'.requested = (truth.answer # "none")
               /\ startTLS'.accepted = (truth.answer = "yes")
               /\ startTLS'.established = truth.hello
    <2>1. startTLS \in VerdictType
      BY <1>0 DEF TypeOK, VerdictType
    <2>2. QED
      BY <1>0, <1>2, <1>4, <1>7, <2>1 DEF OutlookFits, VerdictType, DialogueTypeOK,
         StageFits
  <1>8. VerdictMatchesDialogue'
    <2>1. TrueState' = TrueState
      BY <1>0 DEF TrueState
    <2>2. QED
      BY <1>0, <1>4, <1>6, <1>7, <2>1 DEF VerdictMatchesDialogue, VerdictType
  <1>9. QED
    BY <1>3, <1>5, <1>8

-----------------------------------------------------------------------------
(* Theorems *)

\* Reading on never takes a flag of the verdict back.
LEMMA FlagsGrow ==
  ASSUME TypeOK
  PROVE  /\ startTLS.requested => Outlook.requested
         /\ startTLS.accepted => Outlook.accepted
         /\ startTLS.established => Outlook.established
  <1>0. startTLS \in VerdictType /\ chunk.from \in Sides
    BY DEF TypeOK, VerdictType
  <1>1. /\ Verdict \in VerdictType
        /\ startTLS.requested => Verdict.requested
        /\ startTLS.accepted => Verdict.accepted
        /\ startTLS.established => Verdict.established
    <2>1. CASE Unread = <<>>
      BY <1>0, <2>1 DEF Verdict
    <2>2. CASE Unread # <<>>
      <3>1. PICK l \in Lines(proto, chunk.from) : l = Head(Unread)
        BY <2>2, HeadIsLine DEF Unread
      <3>2. l.advert \in BOOLEAN
        BY <1>0, <3>1 DEF Lines, Sides
      <3>3. /\ Judged(l) \in VerdictType
            /\ startTLS.requested => Judged(l).requested
            /\ startTLS.accepted => Judged(l).accepted
            /\ startTLS.established => Judged(l).established
        BY <1>0 DEF Judged, VerdictType, States
      <3>4. Verdict = VerdictAfter(l)
        BY <2>2, <3>1 DEF Verdict
      <3>5. CASE l.from = "client"
        BY <1>0, <3>4, <3>5 DEF VerdictAfter, VerdictType, States
      <3>6. CASE l.from # "client"
        BY <1>0, <3>2, <3>3, <3>4, <3>6 DEF VerdictAfter, VerdictType
      <3>7. QED
        BY <3>5, <3>6
    <2>3. QED
      BY <2>1, <2>2
  <1>2. QED
    BY <1>1 DEF Outlook, VerdictType

LEMMA InitDInv == DialogueInit => DInv
  <1> SUFFICES ASSUME DialogueInit PROVE DInv
    OBVIOUS
  <1>1. TInv /\ DialogueTypeOK /\ StageFits
    BY InitTInv DEF DialogueInit, DialogueTypeOK, StageFits
  <1>2. OneLineAtATime
    BY EmptySeq DEF DialogueInit, Init, OneLineAtATime
  <1>3. Outlook = startTLS /\ Command = None /\ pc = "next"
    BY DEF DialogueInit, Init, Outlook, Verdict, Command, Unread
  <1>4. AnswerAwaited /\ OutlookFits
    BY <1>3 DEF DialogueInit, Init, AnswerAwaited, OutlookFits, OpenState, TrueState
  <1>5. QED
    BY <1>1, <1>2, <1>3, <1>4 DEF DInv

\* The analyser keeps step with every dialogue that is not scrambled.
THEOREM DialogueInductive == DialogueSpec => []DInv
  <1>1. DInv /\ [DialogueNext]_<<vars, dialogueVars>> => DInv'
    <2> SUFFICES ASSUME DInv, [DialogueNext]_<<vars, dialogueVars>> PROVE DInv'
      OBVIOUS
    <2>0. TInv' /\ TypeOK /\ DialogueTypeOK
      BY DialogueIsStream, TInvStep DEF DInv, TInv
    <2>1. CASE Peers /\ stage' # "scrambled"
      BY <2>0, <2>1, PeersInStep DEF InStep, DInv
    <2>2. CASE Peers /\ stage' = "scrambled"
      <3>1. UNCHANGED truth
        BY <2>2 DEF Peers, Turn, ServerGreets, ClientCommands, ServerReplies, ClientAsks,
           ServerInterrupts, ServerAccepts, ServerRefuses, ClientSendsHello,
           ServerSendsHello, Encrypted, Scrambled
      <3>2. QED
        BY <2>0, <2>2, <3>1 DEF DInv, DialogueTypeOK
    <2>3. CASE (Analysis \/ Finish) /\ UNCHANGED dialogueVars
      <3>1. /\ UNCHANGED <<stage, truth>> /\ DialogueTypeOK'
            /\ stage # "scrambled" => StageFits'
        <4>1. UNCHANGED <<proto, stage, truth>>
          BY <2>3 DEF dialogueVars, Analysis, ProcessLine, OutOfLines, LookForHello, Finish
        <4>2. QED
          BY <2>0, <4>1 DEF DialogueTypeOK, DInv, StageFits
      <3>2. CASE stage = "scrambled"
        BY <2>0, <3>1, <3>2 DEF DInv
      <3>3. CASE stage # "scrambled" /\ Analysis
        BY <2>0, <2>3, <3>1, <3>3, AnalysisInStep DEF DInv
      <3>4. CASE stage # "scrambled" /\ Finish
        BY <2>0, <2>3, <3>1, <3>4, FinishInStep DEF DInv, Finish
      <3>5. QED
        BY <2>3, <3>2, <3>3, <3>4
    <2>4. CASE UNCHANGED <<vars, dialogueVars>>
      <3>1. UNCHANGED <<proto, pc, chunk, lines, startTLS, events, lastCmd, stage, truth>>
        BY <2>4 DEF vars, dialogueVars
      <3>2. Outlook' = Outlook /\ Command' = Command
        BY <3>1 DEF Outlook, Verdict, Command, Unread, VerdictAfter, CommandAfter, Judged,
           Awaited, AnswersStartTls
      <3>3. QED
        BY <2>0, <3>1, <3>2 DEF DInv, DialogueTypeOK, StageFits, OneLineAtATime,
           AnswerAwaited, OutlookFits, OpenState, TrueState, FlattersOnlyWhenMisled,
           VerdictMatchesDialogue
    <2>5. QED
      BY <2>1, <2>2, <2>3, <2>4 DEF DialogueNext
  <1>2. QED
    BY InitDInv, <1>1, PTL DEF DialogueSpec

\* Whatever a refusal says and whatever untagged lines come between, the
\* analyser claims no request and no TLS that the dialogue did not have, and no
\* acceptance either, but for an IMAP line with OK in it that comes first after
\* STARTTLS.
THEOREM FlatteryIsMisled == DialogueSpec => []FlattersOnlyWhenMisled
  <1>1. DInv => FlattersOnlyWhenMisled
    <2> SUFFICES ASSUME DInv, stage # "scrambled", pc # "done" PROVE FlattersOnlyWhenMisled
      BY DEF DInv, FlattersOnlyWhenMisled
    <2>1. TypeOK /\ OutlookFits /\ StageFits
      BY DEF DInv, TInv
    <2>2. QED
      BY <2>1, FlagsGrow DEF OutlookFits, StageFits, FlattersOnlyWhenMisled
  <1>2. QED
    BY DialogueInductive, <1>1, PTL

\* When client and server keep to their turns, no refusal mentions STARTTLS
\* or, in IMAP, contains OK and no untagged line comes in between, the verdict is
\* exact, after any number of commands, refusals and retries and whatever the
\* encrypted bytes look like.
THEOREM VerdictsAreExact == DialogueSpec => []VerdictMatchesDialogue
  <1>1. DInv => VerdictMatchesDialogue
    BY DEF DInv, VerdictMatchesDialogue
  <1>2. QED
    BY DialogueInductive, <1>1, PTL
=============================================================================
