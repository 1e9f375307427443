--------------------------- MODULE MailDialogue ----------------------------
(***************************************************************************)
(* The timeline analyser at work on a real session: a mail client and its  *)
(* server talk, every segment is captured in order and becomes a chunk,    *)
(* and the analyser reads it.  The client waits for each reply, as RFC     *)
(* 3207, 2595 and 9051 ask of one that is about to start TLS.  What is     *)
(* true of the session is kept beside what the analyser says of it; in     *)
(* IMAP the two part where a line that is no acceptance contains OK        *)
(* (timeline.go:118).                                                      *)
(*                                                                         *)
(* A capture may also be anything else: segments that were lost, sides     *)
(* that talk at once, a capture that starts in the middle.  A scrambled    *)
(* stream is any sequence of chunks, up to a bound of its own.             *)
(***************************************************************************)
EXTENDS StartTlsTimeline

CONSTANT MaxScrambled  \* bound: chunks, and lines, of a scrambled stream

ASSUME ScrambledAssumption == MaxScrambled \in Nat

VARIABLES
  stage,   \* whose turn it is in the dialogue
  truth    \* what is true of the session so far

dialogueVars == <<stage, truth>>

Turn(from, to) ==
  /\ stage = from
  /\ stage' = to

ClientSays(kind) ==
  Feed("client", <<[from |-> "client", kind |-> kind, advert |-> FALSE]>>, FALSE)

ServerSays(kind, advert) ==
  Feed("server", <<[from |-> "server", kind |-> kind, advert |-> advert]>>, FALSE)

Offering(advert) == truth' = [truth EXCEPT !.offered = @ \/ advert]

Positive == CASE proto = "SMTP" -> "220" [] proto = "IMAP" -> "OK"
              [] proto = "POP3" -> "+OK"
Banner   == CASE proto = "SMTP" -> "220" [] proto = "IMAP" -> "* OK"
              [] proto = "POP3" -> "+OK"

-----------------------------------------------------------------------------
(* In plaintext *)

ServerGreets ==
  /\ Turn("greeting", "idle")
  /\ \E advert \in BOOLEAN : ServerSays(Banner, advert) /\ Offering(advert)

\* A command that is tracked or not; its reply may take several segments, and
\* lists the server's capabilities or not.
ClientCommands ==
  /\ Turn("idle", "reply")
  /\ \E kind \in {"command", "noise"} : ClientSays(kind)
  /\ UNCHANGED truth

ServerReplies ==
  /\ Turn("reply", "reply") \/ Turn("reply", "idle")
  /\ \E kind \in ReplyKinds(proto), advert \in BOOLEAN :
       /\ kind = "blank" => ~advert
       /\ ServerSays(kind, advert)
       /\ Offering(advert)

ClientAsks ==
  /\ Turn("idle", "answer")
  /\ ClientSays("STARTTLS")
  /\ truth' = [truth EXCEPT !.answer = "awaited"]

\* A line that is no acceptance but contains OK misleads when it is the first
\* after STARTTLS.
Misleads(kind) ==
  truth.answer = "awaited" /\ kind \in {"OK", "* OK", "* CAPABILITY OK"}

\* An untagged line of any kind between an IMAP command and its tagged answer.
ServerInterrupts ==
  /\ proto = "IMAP"
  /\ Turn("answer", "answer")
  /\ \E kind \in ReplyKinds(proto) \ {"blank"}, advert \in BOOLEAN :
       /\ ServerSays(kind, advert)
       /\ truth' = [truth EXCEPT !.offered = @ \/ advert, !.plain = FALSE,
                                 !.misled = @ \/ Misleads(kind), !.answer = "late"]

ServerAccepts ==
  /\ Turn("answer", "upgrade")
  /\ ServerSays(Positive, FALSE)
  /\ truth' = [truth EXCEPT !.answer = "yes"]

\* The text of a refusal may mention STARTTLS and, in IMAP, contain OK.
ServerRefuses ==
  /\ Turn("answer", "idle")
  /\ \E kind \in {"other", "OK"} \cap ReplyKinds(proto), mention \in BOOLEAN :
       /\ ServerSays(kind, mention)
       /\ truth' = [truth EXCEPT !.answer = "no",
                                 !.plain = @ /\ ~mention /\ ~Misleads(kind),
                                 !.misled = @ \/ Misleads(kind)]

-----------------------------------------------------------------------------
(* In TLS *)

\* Bytes of TLS records may look like lines, but do not spell a command.
Noise(side) ==
  {<<>>} \cup {<<l>> : l \in {l \in Lines(proto, side) :
                  l.kind \in {"noise", "other", "blank", "OK"} /\ ~l.advert}}

ClientSendsHello ==
  /\ Turn("upgrade", "handshake")
  /\ \E data \in Noise("client") : Feed("client", data, TRUE)
  /\ truth' = [truth EXCEPT !.hello = TRUE]

ServerSendsHello ==
  /\ Turn("handshake", "secure")
  /\ \E data \in Noise("server") : Feed("server", data, FALSE)
  /\ UNCHANGED truth

Encrypted ==
  /\ Turn("secure", "secure")
  /\ \E side \in Sides : \E data \in Noise(side) : Feed(side, data, FALSE)
  /\ UNCHANGED truth

-----------------------------------------------------------------------------
(* Anything at all *)

Scrambled ==
  /\ Turn("greeting", "scrambled") \/ Turn("scrambled", "scrambled")
  /\ fed.chunks < MaxScrambled
  /\ \E side \in Sides, hello \in BOOLEAN, n \in 0..(MaxScrambled - fed.lines) :
       \E data \in [1..n -> Lines(proto, side)] : Feed(side, data, hello)
  /\ UNCHANGED truth

Peers ==
  \/ ServerGreets \/ ClientCommands \/ ServerReplies \/ ClientAsks
  \/ ServerInterrupts \/ ServerAccepts \/ ServerRefuses
  \/ ClientSendsHello \/ ServerSendsHello \/ Encrypted \/ Scrambled

DialogueInit ==
  /\ Init
  /\ stage = "greeting"
  /\ truth = [offered |-> FALSE, answer |-> "none", hello |-> FALSE,
              plain |-> TRUE, misled |-> FALSE]

DialogueNext ==
  \/ Peers
  \/ (Analysis \/ Finish) /\ UNCHANGED dialogueVars

DialogueSpec == DialogueInit /\ [][DialogueNext]_<<vars, dialogueVars>>

-----------------------------------------------------------------------------
(* Properties *)

\* The state the analyser should end in.
TrueState ==
  IF truth.hello THEN "ENCRYPTED"
  ELSE CASE truth.answer = "yes"     -> "TLS_ACCEPTED"
         [] truth.answer = "no"      -> "FAILED"
         [] truth.answer = "awaited" -> "TLS_COMMAND_SENT"
         [] OTHER -> IF truth.offered THEN "PLAINTEXT" ELSE "STARTTLS_NOT_USED"

\* When client and server keep to their turns, no refusal mentions STARTTLS or,
\* in IMAP, contains OK and no untagged line comes in between, the verdict is
\* exact: offered, requested, accepted, a ClientHello sent (which the code calls
\* established, whether or not the server answers it), and the state of the
\* negotiation, after any refusals and retries and whatever the encrypted bytes
\* look like (timeline.go:32-210).
VerdictMatchesDialogue ==
  pc = "done" /\ truth.plain /\ stage # "scrambled" =>
    startTLS = [state       |-> TrueState,
                supported   |-> truth.offered,
                requested   |-> truth.answer # "none",
                accepted    |-> truth.answer = "yes",
                established |-> truth.hello]

\* The verdict claims more than there was in one case alone: in IMAP, when the
\* first line after a STARTTLS command is a refusal, or an untagged line, that
\* contains OK, an acceptance the server did not give.  Whatever else is said,
\* and after that line too, there is no request the client did not make, and no
\* TLS the client did not start, which takes an acceptance that was given
\* (timeline.go:104-122, 202).
FlattersOnlyWhenMisled ==
  stage # "scrambled" =>
    /\ startTLS.requested => truth.answer # "none"
    /\ startTLS.accepted => truth.answer = "yes" \/ truth.misled
    /\ startTLS.established => truth.hello
    /\ truth.misled => proto = "IMAP"

-----------------------------------------------------------------------------
(* The inductive strengthening of FlattersOnlyWhenMisled and
   VerdictMatchesDialogue: what the analyser will say once it has read what it
   was fed *)

\* The line of the current chunk that is not read yet.
Unread == IF pc = "lines" THEN lines[chunk.from] ELSE <<>>

\* The verdict, and the command awaiting its reply, when a line has been read.
VerdictAfter(l) ==
  IF l.from = "client"
  THEN IF IsStartTls(l)
       THEN [startTLS EXCEPT !.requested = TRUE, !.state = "TLS_COMMAND_SENT"]
       ELSE startTLS
  ELSE IF l.kind = "blank" THEN startTLS
       ELSE [Judged(l) EXCEPT !.supported = @ \/ l.advert]

CommandAfter(l) ==
  IF l.from = "client" THEN IF IsCommand(l) THEN l.kind ELSE lastCmd
  ELSE IF l.kind = "blank" THEN lastCmd ELSE None

Verdict == IF Unread = <<>> THEN startTLS ELSE VerdictAfter(Head(Unread))
Command == IF Unread = <<>> THEN lastCmd ELSE CommandAfter(Head(Unread))

\* ... and when its chunk has been searched for a ClientHello.
Outlook ==
  IF pc \in {"lines", "hello"} /\ chunk.hello /\ Verdict.accepted
  THEN [Verdict EXCEPT !.established = TRUE, !.state = "ENCRYPTED"]
  ELSE Verdict

DialogueTypeOK ==
  /\ stage \in {"greeting", "idle", "reply", "answer", "upgrade", "handshake",
                "secure", "scrambled"}
  /\ truth \in [offered : BOOLEAN, answer : {"none", "awaited", "late", "yes", "no"},
                hello : BOOLEAN, plain : BOOLEAN, misled : BOOLEAN]

\* Whose turn it is tells how far the negotiation is.
StageFits ==
  /\ truth.answer \in {"awaited", "late"} <=> stage = "answer"
  /\ truth.misled => proto = "IMAP" /\ ~truth.plain
  /\ truth.plain => truth.answer # "late"
  /\ truth.answer = "yes" <=> stage \in {"upgrade", "handshake", "secure"}
  /\ truth.hello <=> stage \in {"handshake", "secure"}

\* A segment brings at most one line, which is read before the next segment.
OneLineAtATime ==
  /\ \A side \in Sides : Len(lines[side]) <= 1
  /\ \A side \in Sides : lines[side] # <<>> => pc = "lines" /\ chunk.from = side
  /\ pc \in {"lines", "hello"} /\ chunk.hello => truth.hello

\* The analyser awaits the answer to STARTTLS until the server says a line.
AnswerAwaited ==
  /\ Command \in {None, "command", "STARTTLS"}
  /\ Command = "STARTTLS" <=> truth.answer = "awaited"

\* The state of the negotiation before the stream ends.
OpenState == IF TrueState = "STARTTLS_NOT_USED" THEN "PLAINTEXT" ELSE TrueState

OutlookFits ==
  /\ Outlook.requested <=> truth.answer # "none"
  /\ Outlook.accepted => truth.answer = "yes" \/ truth.misled
  /\ Outlook.established => truth.hello
  /\ truth.plain => /\ Outlook.state = OpenState
                    /\ Outlook.supported <=> truth.offered
                    /\ truth.answer = "yes" => Outlook.accepted
                    /\ truth.hello => Outlook.established

DInv ==
  /\ TInv /\ DialogueTypeOK
  /\ stage # "scrambled" =>
       /\ StageFits /\ OneLineAtATime
       /\ pc # "done" => AnswerAwaited /\ OutlookFits
       /\ pc = "done" => FlattersOnlyWhenMisled /\ VerdictMatchesDialogue
=============================================================================
