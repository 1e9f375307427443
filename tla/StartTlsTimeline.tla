------------------------- MODULE StartTlsTimeline --------------------------
(***************************************************************************)
(* TimelineAnalyzer.Analyze: it walks the chunks of a reassembled stream,  *)
(* cuts each direction into lines, keeps the meaningful commands with the  *)
(* reply to each as events, and judges the STARTTLS negotiation of an      *)
(* SMTP, IMAP or POP3 session.                                             *)
(*                                                                         *)
(* A line is abstracted to what the code asks of it: its kind, and for a   *)
(* server line whether it mentions STARTTLS (POP3: STLS).  A line belongs  *)
(* to the chunk that brings its newline, so the bytes of an unfinished     *)
(* line need no place in the buffers.  A chunk also holds a TLS            *)
(* ClientHello or not.  Timestamps and the redaction of event texts are    *)
(* left out.                                                               *)
(***************************************************************************)
EXTENDS Naturals, Sequences, FiniteSets

CONSTANTS
  Protocols,  \* the protocols a session may be detected as
  MaxChunks,  \* bound: chunks of a stream
  MaxLines    \* bound: lines of a stream

ASSUME TimelineAssumption ==
  /\ Protocols \subseteq {"SMTP", "IMAP", "POP3"}
  /\ MaxChunks \in Nat
  /\ MaxLines \in Nat

VARIABLES
  proto,     \* the detected protocol
  pc,        \* "next": before a chunk, "lines", "hello", "done"
  chunk,     \* the current chunk: who sent it, does it hold a ClientHello
  lines,     \* clientBuf and serverBuf: complete lines not yet processed
  startTLS,  \* the verdict; TLSStarted is set with Accepted and left out
  events,    \* the command and the reply of every event, as line kinds
  lastCmd,   \* lastClientCmd: the command whose reply is awaited
  wire,      \* history: the lines processed and the ClientHellos passed
  fed        \* history: chunks and lines so far

vars == <<proto, pc, chunk, lines, startTLS, events, lastCmd, wire, fed>>

None == "none"

\* What a client line is to the code: ignored, a tracked command, STARTTLS (or
\* STLS), or - IMAP only, where the code looks for the word anywhere in the
\* event's text - another tracked command that mentions STARTTLS.
ClientKinds(p) ==
  {"blank", "noise", "command", "STARTTLS"} \cup
  (IF p = "IMAP" THEN {"mention"} ELSE {})

\* What a server line is to the code.  IMAP: "OK" is any line that contains OK,
\* a refusal too, and is not one of the untagged kinds; an untagged CAPABILITY
\* line may contain it as well.
ReplyKinds(p) ==
  {"blank", "other"} \cup
  (CASE p = "SMTP" -> {"220", "250"}
     [] p = "IMAP" -> {"OK", "* OK", "* CAPABILITY", "* CAPABILITY OK"}
     [] p = "POP3" -> {"+OK"})

Sides == {"client", "server"}

Lines(p, side) ==
  IF side = "client"
  THEN [from : {side}, kind : ClientKinds(p), advert : {FALSE}]
  ELSE {l \in [from : {side}, kind : ReplyKinds(p), advert : BOOLEAN] :
          l.kind = "blank" => ~l.advert}

\* Variant: every known reply accepts.
AcceptsKnown(l) == l.kind \notin {"blank", "other"}

IsCommand(l)  == l.from = "client" /\ l.kind \in {"command", "STARTTLS", "mention"}
IsReply(l)    == l.from = "server" /\ l.kind \notin {"blank", "ClientHello"}
IsStartTls(l) == l.from = "client" /\ l.kind = "STARTTLS"

\* In IMAP every line that contains OK is taken for an acceptance.
Accepts(l) == l.kind \in {"220", "OK", "* OK", "* CAPABILITY OK", "+OK"}
Greets(l)  ==
  l.kind \in {"220", "250", "* OK", "* CAPABILITY", "* CAPABILITY OK", "+OK"}

-----------------------------------------------------------------------------
(* The loop over the chunks *)

\* The next chunk of the stream: its data goes to its sender's buffer.
Feed(side, data, hello) ==
  /\ pc = "next"
  /\ fed.chunks < MaxChunks /\ fed.lines + Len(data) <= MaxLines
  /\ fed' = [chunks |-> fed.chunks + 1, lines |-> fed.lines + Len(data)]
  /\ chunk' = [from |-> side, hello |-> hello]
  /\ lines' = [lines EXCEPT ![side] = @ \o data]
  /\ pc' = "lines"
  /\ UNCHANGED <<proto, startTLS, events, lastCmd, wire>>

\* Variant: STARTTLS is not one of the tracked commands.
NoteCommandMissing(l) ==
  IF IsCommand(l) /\ ~IsStartTls(l)
  THEN /\ events' = Append(events, [command |-> l.kind, response |-> None])
       /\ lastCmd' = l.kind
  ELSE UNCHANGED <<events, lastCmd>>

\* A tracked command becomes an event that awaits its reply.
NoteCommand(l) ==
  IF IsCommand(l)
  THEN /\ events' = Append(events, [command |-> l.kind, response |-> None])
       /\ lastCmd' = l.kind
  ELSE UNCHANGED <<events, lastCmd>>

\* processClientLine.
ClientLine(l) ==
  /\ NoteCommand(l)
  /\ startTLS' = IF IsStartTls(l)
                 THEN [startTLS EXCEPT !.requested = TRUE,
                                       !.state = "TLS_COMMAND_SENT"]
                 ELSE startTLS

\* Is the reply awaited, and is it to an event that reads STARTTLS?
Awaited == lastCmd # None /\ events # <<>>

\* Variant: whatever is awaited, it answers STARTTLS.
AnswersAnything == startTLS.state = "TLS_COMMAND_SENT"

AnswersStartTls ==
  /\ startTLS.state = "TLS_COMMAND_SENT"
  /\ events[Len(events)].command \in {"STARTTLS", "mention"}

Judged(l) ==
  IF Awaited /\ AnswersStartTls
  THEN IF Accepts(l)
       THEN [startTLS EXCEPT !.accepted = TRUE, !.state = "TLS_ACCEPTED"]
       ELSE [startTLS EXCEPT !.state = "FAILED"]
  ELSE startTLS

\* Variant: the command goes on awaiting replies.
NoteReplyAgain(l) ==
  IF Awaited
  THEN /\ events' = [events EXCEPT ![Len(events)].response = l.kind]
       /\ UNCHANGED lastCmd
  ELSE /\ events' = IF Greets(l)
                    THEN Append(events, [command |-> None, response |-> l.kind])
                    ELSE events
       /\ UNCHANGED lastCmd

\* The reply completes the last event; an unsolicited one may be an event.
NoteReply(l) ==
  IF Awaited
  THEN /\ events' = [events EXCEPT ![Len(events)].response = l.kind]
       /\ lastCmd' = None
  ELSE /\ events' = IF Greets(l)
                    THEN Append(events, [command |-> None, response |-> l.kind])
                    ELSE events
       /\ UNCHANGED lastCmd

\* processServerLine.
ServerLine(l) ==
  IF l.kind = "blank"
  THEN UNCHANGED <<events, lastCmd, startTLS>>
  ELSE /\ NoteReply(l)
       /\ startTLS' = [Judged(l) EXCEPT !.supported = @ \/ l.advert]

\* One turn of the inner loop; it ends when STARTTLS is accepted, and what is
\* left in the buffer stays there.
ProcessLine ==
  /\ pc = "lines" /\ lines[chunk.from] # <<>>
  /\ LET l == Head(lines[chunk.from]) IN
       /\ IF chunk.from = "client" THEN ClientLine(l) ELSE ServerLine(l)
       /\ wire' = Append(wire, l)
  /\ lines' = [lines EXCEPT ![chunk.from] = Tail(@)]
  /\ pc' = IF startTLS'.accepted THEN "hello" ELSE "lines"
  /\ UNCHANGED <<proto, chunk, fed>>

OutOfLines ==
  /\ pc = "lines" /\ lines[chunk.from] = <<>>
  /\ pc' = "hello"
  /\ UNCHANGED <<proto, chunk, lines, startTLS, events, lastCmd, wire, fed>>

Hello == [from |-> chunk.from, kind |-> "ClientHello", advert |-> FALSE]

\* bytesContainTLSClientHello, asked of the chunk alone.
Establishes == startTLS.accepted /\ chunk.hello

LookForHello ==
  /\ pc = "hello"
  /\ startTLS' = IF Establishes
                 THEN [startTLS EXCEPT !.established = TRUE, !.state = "ENCRYPTED"]
                 ELSE startTLS
  /\ wire' = IF chunk.hello THEN Append(wire, Hello) ELSE wire
  /\ pc' = "next"
  /\ UNCHANGED <<proto, chunk, lines, events, lastCmd, fed>>

\* Variant: a session that did not ask for STARTTLS did not use it.
FinalStateUnasked ==
  IF ~startTLS.requested THEN "STARTTLS_NOT_USED" ELSE startTLS.state

FinalState ==
  IF ~startTLS.supported /\ ~startTLS.requested THEN "STARTTLS_NOT_USED"
  ELSE startTLS.state

\* No chunk is left.
Finish ==
  /\ pc = "next"
  /\ startTLS' = [startTLS EXCEPT !.state = FinalState]
  /\ pc' = "done"
  /\ UNCHANGED <<proto, chunk, lines, events, lastCmd, wire, fed>>

Analysis == ProcessLine \/ OutOfLines \/ LookForHello

-----------------------------------------------------------------------------
Init ==
  /\ proto \in Protocols
  /\ pc = "next"
  /\ chunk = [from |-> "client", hello |-> FALSE]
  /\ lines = [side \in Sides |-> <<>>]
  /\ startTLS = [state |-> "PLAINTEXT", supported |-> FALSE, requested |-> FALSE,
                 accepted |-> FALSE, established |-> FALSE]
  /\ events = <<>>
  /\ lastCmd = None
  /\ wire = <<>>
  /\ fed = [chunks |-> 0, lines |-> 0]

\* A stream is any sequence of chunks, in any order of the two directions.
Data(side) == UNION {[1..n -> Lines(proto, side)] : n \in 0..(MaxLines - fed.lines)}

Next ==
  \/ \E side \in Sides, hello \in BOOLEAN : \E data \in Data(side) :
       Feed(side, data, hello)
  \/ Analysis
  \/ Finish

Spec == Init /\ [][Next]_vars

-----------------------------------------------------------------------------
(* Properties *)

States == {"PLAINTEXT", "TLS_COMMAND_SENT", "TLS_ACCEPTED", "FAILED",
           "ENCRYPTED", "STARTTLS_NOT_USED"}
AllLines(p) == Lines(p, "client") \cup Lines(p, "server")
Hellos == [from : Sides, kind : {"ClientHello"}, advert : {FALSE}]

\* The buffers hold lines of their own direction, an awaited command is one a
\* client can send, and the verdict is one of the declared states.
TypeOK ==
  /\ proto \in Protocols
  /\ pc \in {"next", "lines", "hello", "done"}
  /\ chunk \in [from : Sides, hello : BOOLEAN]
  /\ lines \in [Sides -> Seq(AllLines(proto))]
  /\ lines["client"] \in Seq(Lines(proto, "client"))
  /\ lines["server"] \in Seq(Lines(proto, "server"))
  /\ startTLS \in [state : States, supported : BOOLEAN, requested : BOOLEAN,
                   accepted : BOOLEAN, established : BOOLEAN]
  /\ events \in Seq([command : ClientKinds(proto) \cup {None},
                     response : ReplyKinds(proto) \cup {None}])
  /\ lastCmd \in ClientKinds(proto) \cup {None}
  /\ wire \in Seq(AllLines(proto) \cup Hellos)
  /\ fed \in [chunks : 0..MaxChunks, lines : 0..MaxLines]

\* Line j is the reply to command i: the first one after it, with no other
\* tracked command between.
Answers(i, j) ==
  /\ i < j /\ IsCommand(wire[i]) /\ IsReply(wire[j])
  /\ \A k \in (i + 1)..(j - 1) : ~IsCommand(wire[k]) /\ ~IsReply(wire[k])

\* STARTTLS only counts as accepted by a line the code takes for positive that is
\* the first reply after a STARTTLS command: never by the greeting, by a second
\* line of that reply, or by the reply to a command sent after STARTTLS
\* (timeline.go:104-122).  In IMAP the line is any that contains OK, and a later
\* command that mentions the word counts as well.
AcceptedIsAnswered ==
  startTLS.accepted =>
    \E i, j \in 1..Len(wire) :
      /\ Answers(i, j) /\ Accepts(wire[j])
      /\ wire[i].kind \in {"STARTTLS", "mention"}
      /\ \E k \in 1..i : IsStartTls(wire[k])

\* A session only counts as encrypted when a ClientHello followed a positive
\* reply: implicit TLS or a ClientHello before the answer does not count
\* (timeline.go:202).  That the server answers the ClientHello is not asked.
EstablishedIsShown ==
  startTLS.established =>
    \E j, k \in 1..Len(wire) :
      /\ j < k /\ wire[k] \in Hellos
      /\ IsReply(wire[j]) /\ Accepts(wire[j])

\* What the risk engine relies on when the analysis is over: the states that
\* speak of a negotiation need a request, NOT_USED excludes one and an
\* advertisement as well, and each flag needs the one before it
\* (timeline.go:208-210, engine.go:40-70).
VerdictCoherent ==
  LET s == startTLS IN
  /\ s.established => s.accepted
  /\ s.accepted => s.requested
  /\ s.state = "ENCRYPTED" => s.established
  /\ s.state = "TLS_ACCEPTED" => s.accepted
  /\ pc = "done" =>
       /\ s.state = "STARTTLS_NOT_USED" <=> ~s.supported /\ ~s.requested
       /\ s.state = "PLAINTEXT" <=> s.supported /\ ~s.requested

Commands   == {i \in 1..Len(wire) : IsCommand(wire[i])}
Shown      == {n \in 1..Len(events) : events[n].command # None}
Rank(S, i) == Cardinality({k \in S : k <= i})
Replies(i) == {j \in 1..Len(wire) : Answers(i, j)}

ShownAs(i, n) ==
  /\ events[n].command = wire[i].kind
  /\ IF Replies(i) = {} THEN events[n].response = None
     ELSE \A j \in Replies(i) : events[n].response = wire[j].kind

\* The timeline shows every tracked command in its order, each with the first
\* reply that followed it before the next command, or with none
\* (timeline.go:69-82, 100-102, 124).
TimelineMatchesWire ==
  /\ Cardinality(Shown) = Cardinality(Commands)
  /\ \A i \in Commands, n \in Shown :
       Rank(Shown, n) = Rank(Commands, i) => ShownAs(i, n)

-----------------------------------------------------------------------------
(* The inductive strengthening of the invariants *)

\* While the stream is read the state says PLAINTEXT until STARTTLS is asked
\* for, which a line of the client shows.
RequestSeen ==
  /\ pc # "done" =>
       /\ startTLS.state # "STARTTLS_NOT_USED"
       /\ startTLS.state = "PLAINTEXT" <=> ~startTLS.requested
  /\ startTLS.requested => \E k \in 1..Len(wire) : IsStartTls(wire[k])

\* An awaited command is the last event, and the last tracked command, with no
\* reply after it.
CommandAwaited ==
  lastCmd # None =>
    /\ events # <<>> /\ events[Len(events)].command = lastCmd
    /\ \E i \in 1..Len(wire) :
         /\ IsCommand(wire[i]) /\ wire[i].kind = lastCmd
         /\ \A k \in (i + 1)..Len(wire) : ~IsCommand(wire[k]) /\ ~IsReply(wire[k])

TInv == /\ TypeOK /\ RequestSeen /\ CommandAwaited
        /\ AcceptedIsAnswered /\ EstablishedIsShown /\ VerdictCoherent

\* When no command is awaited, each has been followed by a reply or another
\* command.
NoneAwaited ==
  lastCmd = None =>
    \A i \in Commands : \E k \in (i + 1)..Len(wire) : IsCommand(wire[k]) \/ IsReply(wire[k])

EInv == NoneAwaited /\ TimelineMatchesWire
=============================================================================
