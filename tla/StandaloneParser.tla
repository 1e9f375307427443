-------------------------- MODULE StandaloneParser --------------------------
(***************************************************************************)
(* The command-line parser: main feeds packets to gopacket's assembler,    *)
(* which hands the bytes of each direction of a connection to a            *)
(* tcpreader.ReaderStream, and a goroutine per direction reads them.       *)
(* ReaderStream (external) is a rendezvous: Reassembled hands over a chunk *)
(* and returns when the reader asks for the next one.                      *)
(*                                                                         *)
(* The bytes of a direction are items: text lines and TLS records.  A      *)
(* chunk is one item: of several the reader would take each in turn before *)
(* it asks for more.                                                       *)
(***************************************************************************)
EXTENDS Naturals, Sequences, FiniteSetsExt

CONSTANTS
  Streams,      \* the directions of the connections of a capture
  RecordLimit,  \* the records read of a TLS stream; 20 in the code
  MaxItems      \* bound: items of a capture

ASSUME ParserAssumption == RecordLimit \in Nat \ {0} /\ MaxItems \in Nat

VARIABLES
  kind,      \* per stream: its ports, see Kinds
  main,      \* the assembler: where it is, for which stream, with which chunk
  closed,    \* the streams that are complete
  reader,    \* per stream: "asking", "busy", "returned"
  mode,      \* per stream: "lines", "records", "discard"
  records,   \* per stream: records read
  session,   \* per stream: what is known of the session
  output,    \* the collector: the streams whose session is in the output
  captured   \* history: per stream, all items handed to it

vars == <<kind, main, closed, reader, mode, records, session, output, captured>>
readVars == <<reader, mode, records, session, output>>

\* On a port with TLS from the start (465, 993, 995), from or to a mail port
\* (25, 587, 143, 110), or none of these.
Kinds == {"tls", "server", "client", "other"}

\* A line with the word STARTTLS that starts with 220 or contains OK is a "go",
\* another with the word a "mention".  A record begins with a hello, or with a
\* Certificate, or holds a hello and the Certificate after it; or it is another
\* one: a key exchange, ChangeCipherSpec, an alert, application data.
TlsRecords == {"hello", "cert", "hello+cert", "record"}
Items == TlsRecords \cup {"mention", "go", "anything else"}

-----------------------------------------------------------------------------
(* main and the assembler *)

MainAt(at) == main.at = at

\* The next bytes, in order, of some stream.
Assemble(s) ==
  /\ MainAt("feed") /\ s \notin closed
  /\ MapThenSumSet(LAMBDA x : Len(captured[x]), Streams) < MaxItems
  /\ \E item \in Items :
       /\ main' = [at |-> "send", stream |-> s, chunk |-> item]
       /\ captured' = [captured EXCEPT ![s] = Append(@, item)]
  /\ UNCHANGED <<kind, closed, readVars>>

\* Reassembled: the reader takes the chunk, and main waits for it.
HandOver(s) ==
  /\ MainAt("send") /\ main.stream = s /\ reader[s] = "asking"
  /\ main' = [main EXCEPT !.at = "sent"]
  /\ reader' = [reader EXCEPT ![s] = "busy"]
  /\ UNCHANGED <<kind, closed, captured, mode, records, session, output>>

\* ReassemblyComplete, when a connection ends and for the others in FlushAll.
Complete(s) ==
  /\ MainAt("feed") /\ s \notin closed
  /\ closed' = closed \cup {s}
  /\ UNCHANGED <<kind, main, captured, readVars>>

\* FlushAll has returned.
Flushed ==
  /\ MainAt("feed") /\ closed = Streams
  /\ main' = [main EXCEPT !.at = "wait"]
  /\ UNCHANGED <<kind, closed, captured, readVars>>

\* Variant: nobody waits for the goroutines.
WaitsForNone == TRUE

WaitGroupDone == \A s \in Streams : reader[s] = "returned"

\* factory.Wait returns and main writes the output.
WriteOutput ==
  /\ MainAt("wait") /\ WaitGroupDone
  /\ main' = [main EXCEPT !.at = "written"]
  /\ UNCHANGED <<kind, closed, captured, readVars>>

MainStep == (\E s \in Streams : HandOver(s) \/ Complete(s)) \/ Flushed \/ WriteOutput

-----------------------------------------------------------------------------
(* A reader *)

Item == main.chunk

Nothing == [starttls |-> FALSE, banner |-> FALSE, hello |-> FALSE, certs |-> FALSE]

Reads(s, in) == reader[s] = "busy" /\ mode[s] = in

\* The reader wants more, which lets the assembler go on.
AsksForMore(s) ==
  /\ reader' = [reader EXCEPT ![s] = "asking"]
  /\ main' = [main EXCEPT !.at = "feed"]
  /\ UNCHANGED output

\* Whether a session has something to show.
Meaningful(known) == known.hello \/ known.starttls \/ known.banner

\* run is done with the reader, whatever comes after; a session with nothing
\* to show is not collected.
Returns(s, known) ==
  /\ reader' = [reader EXCEPT ![s] = "returned"]
  /\ output' = IF Meaningful(known) THEN output \cup {s} ELSE output
  /\ UNCHANGED main

EndOfStream(s) ==
  /\ reader[s] = "asking" /\ s \in closed
  /\ Returns(s, session[s])
  /\ UNCHANGED <<kind, closed, captured, mode, records, session>>

\* Variant: a client's line starts TLS as well.
StartsTlsAnySide(s) == Item = "go"

StartsTls(s) == Item = "go" /\ kind[s] = "server"

\* A line is kept as a banner, and the word STARTTLS is noted.
NoteLine(known) ==
  [known EXCEPT !.starttls = @ \/ Item \in {"mention", "go"}, !.banner = TRUE]

\* parsePlaintextStream: after a line with STARTTLS all is TLS at once.
ReadLine(s) ==
  /\ Reads(s, "lines")
  /\ session' = [session EXCEPT ![s] = NoteLine(@)]
  /\ mode' = [mode EXCEPT ![s] = IF StartsTls(s) THEN "records" ELSE @]
  /\ AsksForMore(s)
  /\ UNCHANGED <<kind, closed, captured, records>>

\* ProcessRecord looks at the first handshake message of a record, and passes
\* over a record without one or with another.
Process(known) ==
  [known EXCEPT !.hello = @ \/ Item \in {"hello", "hello+cert"},
                !.certs = @ \/ Item = "cert"]

\* The record that is read now is the last one.
LastOne(s) == records[s] + 1 = RecordLimit

\* parseTLSStream: it returns after its last record.
ReadRecord(s) ==
  /\ Reads(s, "records") /\ Item \in TlsRecords
  /\ session' = [session EXCEPT ![s] = Process(@)]
  /\ records' = [records EXCEPT ![s] = @ + 1]
  /\ IF LastOne(s) THEN Returns(s, Process(session[s])) ELSE AsksForMore(s)
  /\ UNCHANGED <<kind, closed, captured, mode>>

\* Not a record's type, or a length above 16384.
NotARecord(s) ==
  /\ Reads(s, "records") /\ Item \notin TlsRecords
  /\ Returns(s, session[s])
  /\ UNCHANGED <<kind, closed, captured, mode, records, session>>

\* Variant: the bytes of a stream that is not email are left alone.
LeaveAlone(s) == Returns(s, session[s])

\* DiscardBytesToEOF.
DiscardBytes(s) == AsksForMore(s)

Discard(s) ==
  /\ Reads(s, "discard")
  /\ DiscardBytes(s)
  /\ UNCHANGED <<kind, closed, captured, mode, records, session>>

ReaderStep(s) ==
  EndOfStream(s) \/ ReadLine(s) \/ ReadRecord(s) \/ NotARecord(s) \/ Discard(s)

-----------------------------------------------------------------------------
Init ==
  /\ kind \in [Streams -> Kinds]
  /\ main = [at |-> "feed", stream |-> "none", chunk |-> "none"]
  /\ closed = {}
  /\ reader = [s \in Streams |-> "asking"]
  /\ mode = [s \in Streams |-> CASE kind[s] = "tls"   -> "records"
                                 [] kind[s] = "other" -> "discard"
                                 [] OTHER             -> "lines"]
  /\ records = [s \in Streams |-> 0]
  /\ session = [s \in Streams |-> Nothing]
  /\ output = {}
  /\ captured = [s \in Streams |-> <<>>]

Next ==
  \/ \E s \in Streams : Assemble(s) \/ ReaderStep(s)
  \/ MainStep

\* Goroutines run, and a capture is finite.
Fairness == WF_vars(MainStep) /\ \A s \in Streams : WF_vars(ReaderStep(s))

Spec == Init /\ [][Next]_vars /\ Fairness
-----------------------------------------------------------------------------
(* Properties *)

\* Types, and main waits for a reader exactly while that reader is at work or
\* has returned in the middle of it.
TypeOK ==
  /\ kind \in [Streams -> Kinds]
  /\ main \in [at : {"feed", "send", "sent", "wait", "written"},
                stream : Streams \cup {"none"}, chunk : Items \cup {"none"}]
  /\ closed \subseteq Streams
  /\ reader \in [Streams -> {"asking", "busy", "returned"}]
  /\ mode \in [Streams -> {"lines", "records", "discard"}]
  /\ records \in [Streams -> 0..RecordLimit]
  /\ session \in [Streams -> [starttls : BOOLEAN, banner : BOOLEAN,
                               hello : BOOLEAN, certs : BOOLEAN]]
  /\ output \subseteq Streams
  /\ captured \in [Streams -> Seq(Items)]
  /\ \A s \in Streams : reader[s] = "busy" => MainAt("sent") /\ main.stream = s

\* Where TLS begins in a stream: after so many items.
TlsFrom(s) ==
  CASE kind[s] = "tls" -> {0}
    [] kind[s] = "server" -> {i \in 1..Len(captured[s]) : captured[s][i] = "go"}
    [] OTHER -> {}

\* A stream that its reader does not read to the end: something that is no
\* record follows the start of TLS, or as many records as are parsed.  A
\* greeting that lists STARTTLS does, and most sessions on a TLS port.
LeftUnread(s) ==
  \E i \in TlsFrom(s) :
    \/ Len(captured[s]) - i >= RecordLimit
    \/ \E j \in (i + 1)..Len(captured[s]) : captured[s][j] \notin TlsRecords

\* An output is only ever written about captures whose every stream was read to
\* its end: one stream that is left unread and no session of any file is shown
\* (main.go:186-187, stream.go:232-248).
WrittenIfAllRead ==
  MainAt("written") =>
    \A s \in Streams : reader[s] = "returned" /\ ~LeftUnread(s)

\* When every stream can be read to its end, the output is written.
WrittenUnlessLeft ==
  <>(MainAt("written") \/ \E s \in Streams : LeftUnread(s))

Told(s) == IF s \in output THEN session[s] ELSE Nothing

\* An output tells the handshake of every stream of a TLS port, and with it the
\* certificates, except those that share a record with another message; without
\* a hello it tells no certificate either.  It tells every STARTTLS seen on a
\* mail port; behind STARTTLS it tells the handshake of the server alone, and
\* only after a reply with the word in its text (stream.go:172-206,
\* handshake.go:192-216).
ReportIsTrue ==
  MainAt("written") =>
    \A s \in Streams :
      LET Shown(items) == \E i \in 1..Len(captured[s]) : captured[s][i] \in items
          hello == Shown({"hello", "hello+cert"}) IN
      /\ kind[s] = "tls" =>
           /\ Told(s).hello <=> hello
           /\ Told(s).certs <=> hello /\ Shown({"cert"})
      /\ kind[s] \in {"server", "client"} =>
           /\ Told(s).starttls <=> Shown({"mention", "go"})
           /\ Told(s).hello \/ Told(s).certs =>
                kind[s] = "server" /\ Shown({"go"})
=============================================================================
