--------------------------- MODULE TcpReassembly ---------------------------
(***************************************************************************)
(* StreamReassembler: the packets of a capture file become a stream of     *)
(* chunks that the timeline analyser reads.  One TCP connection between a  *)
(* mail client and its server; the capture may miss, repeat and reorder    *)
(* its segments.                                                           *)
(*                                                                         *)
(* The assembler is gopacket's (tcpassembly), which is not in the          *)
(* repository: it delivers each direction in sequence, keeps what comes    *)
(* too early, trims what comes twice, forgets a direction at its FIN or    *)
(* RST, and flushes what it kept when asked to.                            *)
(*                                                                         *)
(* A sequence number counts from the SYN's 0, a byte stands for a line or  *)
(* a record.  RST, which the assembler treats as FIN, timestamps and the   *)
(* wrap of sequence numbers are left out.                                  *)
(***************************************************************************)
EXTENDS Integers, Sequences, FiniteSetsExt, ProtocolDetection

CONSTANTS
  MaxBytes,   \* bound: bytes each side sends
  MaxRepeats, \* bound: segments captured late or again
  ServerPort  \* the ports the server may have

ASSUME ReassemblyAssumption ==
  MaxBytes \in Nat /\ MaxRepeats \in Nat /\ ServerPort \subseteq 1..65535

VARIABLES
  pc,       \* "reading", "done"
  port,     \* the server's port
  sent,     \* per side: has it sent SYN, FIN, how many bytes
  wire,     \* history: sides and bytes in the order they were sent
  half,     \* the assembler's state of each direction
  stream,   \* the ReassembledStream, Nil before the first packet
  orderly,  \* history: every segment was first captured as it was sent
  past,     \* history: has the assembler ended a direction, and met it again
  repeats   \* late and repeated segments so far

vars == <<pc, port, sent, wire, half, stream, orderly, past, repeats>>

Sides   == {"client", "server"}
Peer(d) == IF d = "client" THEN "server" ELSE "client"
Nil     == <<>>

Ephemeral == 50000
PortOf(d) == IF d = "client" THEN Ephemeral ELSE port

isServerPort(p) == p \in {25, 465, 587, 110, 995, 143, 993}

-----------------------------------------------------------------------------
(* tcpassembly *)

Unstarted == -1
Closed    == [open |-> FALSE, next |-> Unstarted, pages |-> <<>>]
Opened    == [Closed EXCEPT !.open = TRUE]

Larger(a, b) == IF a > b THEN a ELSE b
Lesser(a, b) == IF a < b THEN a ELSE b

\* Variant: nothing is trimmed.
PieceWhole(next, seg) ==
  [lo |-> seg.seq, hi |-> seg.seq + seg.len - 1,
   skip |-> next # Unstarted /\ seg.seq > next, end |-> seg.fin]

\* What goes to the stream of a segment when next is due: bytes lo..hi, none if
\* lo > hi.
Piece(next, seg) ==
  [lo |-> Larger(next, seg.seq), hi |-> seg.seq + seg.len - 1,
   skip |-> next # Unstarted /\ seg.seq > next, end |-> seg.fin]

\* Pages are kept in sequence; of equals the older is first.
Insert(pages, seg) ==
  LET n == Max({0} \cup {i \in 1..Len(pages) : pages[i].seq <= seg.seq}) IN
  SubSeq(pages, 1, n) \o <<seg>> \o SubSeq(pages, n + 1, Len(pages))

\* What is due after the first n pages (byteSpan).
Due(conn, n) ==
  Max({conn.next} \cup {conn.pages[i].seq + conn.pages[i].len : i \in 1..n})

\* So many pages follow on, or with force all are taken.
Ready(conn, force) ==
  Max({n \in 0..Len(conn.pages) :
         \A i \in 1..n : force \/ conn.pages[i].seq <= Due(conn, i - 1)})

\* Delivers the pages that are ready.
Deliver(conn, force) ==
  LET n == Ready(conn, force) IN
  [next   |-> Due(conn, n),
   pieces |-> [i \in 1..n |-> Piece(Due(conn, i - 1), conn.pages[i])],
   pages  |-> SubSeq(conn.pages, n + 1, Len(conn.pages))]

\* What AssembleWithTimestamp makes of a segment.  A SYN takes one sequence
\* number, FIN none.
Assembled(conn, seg) ==
  IF seg.syn /\ conn.next = Unstarted
  THEN Deliver([conn EXCEPT !.next = 1], FALSE)
  ELSE IF conn.next = Unstarted \/ seg.seq > conn.next
  THEN [next |-> conn.next, pieces |-> <<>>, pages |-> Insert(conn.pages, seg)]
  ELSE Deliver([conn EXCEPT !.pages = <<seg>> \o @], FALSE)

Ends(pieces) == pieces # <<>> /\ pieces[Len(pieces)].end

-----------------------------------------------------------------------------
(* The stream *)

\* Variant: the port decides before the flags do.
ClientSideByPort(d, seg) ==
  IF isServerPort(PortOf(Peer(d))) THEN d ELSE Peer(d)

\* ProcessPacket: who is the client is decided by the first packet.
ClientSide(d, seg) ==
  IF seg.syn /\ d = "client" THEN d
  ELSE IF isServerPort(PortOf(d)) /\ ~isServerPort(PortOf(Peer(d))) THEN Peer(d)
  ELSE d

Known(d, seg) ==
  IF stream # Nil THEN stream
  ELSE [client |-> ClientSide(d, seg), complete |-> FALSE, gap |-> FALSE, chunks |-> <<>>]

\* The k-th of a set of numbers.
Nth(S, k) == CHOOSE i \in S : Cardinality({j \in S : j <= i}) = k

\* The pieces that bring bytes, as chunks of direction d.
ChunksOf(st, d, pieces) ==
  LET full == {i \in 1..Len(pieces) : pieces[i].lo <= pieces[i].hi} IN
  [k \in 1..Cardinality(full) |->
     [isClient |-> d = st.client, from |-> d,
      lo |-> pieces[Nth(full, k)].lo, hi |-> pieces[Nth(full, k)].hi]]

\* Variant: the flag says what the last delivery did.
ReassembledLastGap(st, d, pieces) ==
  [st EXCEPT !.gap = \E i \in 1..Len(pieces) : pieces[i].skip,
             !.chunks = @ \o ChunksOf(st, d, pieces)]

\* bidiStream.Reassembled.
Reassembled(st, d, pieces) ==
  [st EXCEPT !.gap = @ \/ \E i \in 1..Len(pieces) : pieces[i].skip,
             !.chunks = @ \o ChunksOf(st, d, pieces)]

\* The connection of the direction, made if the segment may make one; a FIN
\* alone does not.
ConnOf(d, seg) == IF half[d].open THEN half[d] ELSE Opened

\* ProcessPacket.
ProcessPacket(d, seg) ==
  IF seg.len = 0 /\ ~seg.syn /\ (~seg.fin \/ ~half[d].open)
  THEN /\ stream' = Known(d, seg)
       /\ UNCHANGED <<half, past>>
  ELSE LET done == Assembled(ConnOf(d, seg), seg)
           ends == Ends(done.pieces)
           st   == Reassembled(Known(d, seg), d, done.pieces) IN
       /\ half' = [half EXCEPT ![d] =
            IF ends THEN Closed
            ELSE [open |-> TRUE, next |-> done.next, pages |-> done.pages]]
       /\ stream' = [st EXCEPT !.complete = @ \/ ends]
       /\ past' = [past EXCEPT ![d] = IF @ # "open" THEN "reopened"
                                      ELSE IF ends THEN "ended" ELSE "open"]

-----------------------------------------------------------------------------
(* The connection and its capture *)

Syn(d)     == [seq |-> 0, len |-> 0, syn |-> TRUE, fin |-> FALSE]
Bytes(i,j) == [seq |-> i, len |-> j - i + 1, syn |-> FALSE, fin |-> FALSE]
Fin(d)     == [seq |-> sent[d].bytes + 1, len |-> 0, syn |-> FALSE, fin |-> TRUE]
Ack(d)     == [seq |-> sent[d].bytes + 1, len |-> 0, syn |-> FALSE, fin |-> FALSE]

\* A segment is captured as it is sent, or not (yet).
Captured(d, seg) ==
  \/ ProcessPacket(d, seg) /\ UNCHANGED orderly
  \/ orderly' = FALSE /\ UNCHANGED <<half, stream, past>>

\* The server answers the client's SYN, and data flows after both.
SendSyn(d) ==
  /\ ~sent[d].syn
  /\ d = "server" => sent["client"].syn
  /\ sent' = [sent EXCEPT ![d].syn = TRUE]
  /\ Captured(d, Syn(d))
  /\ UNCHANGED wire

SendByte(d) ==
  /\ sent["server"].syn /\ ~sent[d].fin /\ sent[d].bytes < MaxBytes
  /\ sent' = [sent EXCEPT ![d].bytes = @ + 1]
  /\ wire' = Append(wire, <<d, sent'[d].bytes>>)
  /\ Captured(d, Bytes(sent'[d].bytes, sent'[d].bytes))

SendFin(d) ==
  /\ sent["server"].syn /\ ~sent[d].fin
  /\ sent' = [sent EXCEPT ![d].fin = TRUE]
  /\ Captured(d, Fin(d))
  /\ UNCHANGED wire

\* A segment that was sent before is captured: delayed, retransmitted, or
\* several retransmitted as one.
Repeat(d) ==
  /\ repeats < MaxRepeats
  /\ repeats' = repeats + 1
  /\ \/ sent[d].syn /\ ProcessPacket(d, Syn(d))
     \/ sent[d].fin /\ ProcessPacket(d, Fin(d))
     \/ sent["server"].syn /\ ProcessPacket(d, Ack(d))
     \/ \E i, j \in 1..sent[d].bytes : i <= j /\ ProcessPacket(d, Bytes(i, j))
  /\ UNCHANGED <<sent, wire, orderly>>

Reading ==
  /\ pc = "reading"
  /\ \E d \in Sides :
       \/ (SendSyn(d) \/ SendByte(d) \/ SendFin(d)) /\ UNCHANGED repeats
       \/ Repeat(d)
  /\ UNCHANGED <<pc, port>>

\* FlushAll of one direction: all it kept is delivered, then it is closed.
Flushed(st, d) ==
  IF half[d].open
  THEN [Reassembled(st, d, Deliver(half[d], TRUE).pieces) EXCEPT !.complete = TRUE]
  ELSE st

\* GetStreams, at the end of the file: the directions in the order of a map.
GetStreams ==
  /\ pc = "reading" /\ stream # Nil
  /\ \E d \in Sides : stream' = Flushed(Flushed(stream, d), Peer(d))
  /\ half' = [d \in Sides |-> Closed]
  /\ pc' = "done"
  /\ UNCHANGED <<port, sent, wire, orderly, past, repeats>>

Init ==
  /\ pc = "reading"
  /\ port \in ServerPort
  /\ sent = [d \in Sides |-> [syn |-> FALSE, fin |-> FALSE, bytes |-> 0]]
  /\ wire = <<>>
  /\ half = [d \in Sides |-> Closed]
  /\ stream = Nil
  /\ orderly = TRUE
  /\ past = [d \in Sides |-> "open"]
  /\ repeats = 0

Next == Reading \/ GetStreams

Spec == Init /\ [][Next]_vars

-----------------------------------------------------------------------------
(* Properties *)

Chunks == IF stream = Nil THEN <<>> ELSE stream.chunks

From(cs, d)    == {i \in 1..Len(cs) : cs[i].from = d}
Carried(cs, d) == UNION {cs[i].lo..cs[i].hi : i \in From(cs, d)}
Delivered(d)   == Carried(Chunks, d)

\* Directions of which the assembler has met more after their FIN.
Reopened == {d \in Sides : past[d] = "reopened"}

\* Until the assembler has forgotten a direction its bytes come out once and in
\* order, whatever was lost, repeated or reordered in the capture; only what is
\* captured after a FIN may come twice (reassembler.go:114-144).
BytesOnceInOrder ==
  \A d \in Sides \ Reopened :
    /\ Delivered(d) \subseteq 1..sent[d].bytes
    /\ \A i, j \in From(Chunks, d) : i < j => Chunks[i].hi < Chunks[j].lo

\* ReassemblyGap is never raised for a whole stream, and always when bytes are
\* missing between others of the same direction; what is missing at the start,
\* when there is no SYN to count from, or at the end goes unnoticed
\* (reassembler.go:120-122).
Missing(d) == (1..sent[d].bytes) \ Delivered(d)

Holes(d) == {b \in Missing(d) : \E a, z \in Delivered(d) : a < b /\ b < z}

GapMeansMissing ==
  stream # Nil /\ Reopened = {} =>
    /\ \A d \in Sides : Holes(d) # {} => stream.gap
    /\ stream.gap => \E d \in Sides : Missing(d) # {}

\* When every segment was first captured as it was sent, the chunks are the
\* connection's bytes in the order of the wire, each with its true direction,
\* before and after the flush and whatever was retransmitted while both
\* directions were open: what MailDialogue takes for granted
\* (reassembler.go:114-144, 163-217).
ChunksAreWire ==
  orderly /\ stream # Nil /\ Reopened = {} =>
    /\ Len(stream.chunks) = Len(wire)
    /\ \A i \in 1..Len(wire) :
         LET c == stream.chunks[i] IN
         /\ <<c.from, c.lo>> = wire[i] /\ c.hi = c.lo
         /\ c.isClient <=> c.from = "client"

\* What the first bytes of a session say, to the detector.
Says(protocol, d) ==
  CASE protocol = "SMTP" /\ d = "server" -> <<{"220"}, {"250", "STARTTLS", "LOGIN"}>>
    [] protocol = "SMTP" /\ d = "client" -> <<{"EHLO"}, {"LOGIN"}>>
    [] protocol = "IMAP" /\ d = "server" -> <<{"* OK"}, {"CAPABILITY", "IMAP", "STARTTLS"}>>
    [] protocol = "IMAP" /\ d = "client" -> <<{"A001", "CAPABILITY"}, {"A001", "LIST"}>>
    [] protocol = "POP3" /\ d = "server" -> <<{"+OK"}, {"+OK", "STLS"}>>
    [] protocol = "POP3" /\ d = "client" -> <<{"USER"}, {"LIST"}>>

\* FullPayload, as signs.
Payload(protocol) ==
  UNION {UNION {Says(protocol, Chunks[i].from)[b] :
                  b \in Chunks[i].lo..Lesser(Chunks[i].hi, 2)} : i \in 1..Len(Chunks)}

Greeted == \E i \in 1..Len(Chunks) : Chunks[i].from = "server" /\ Chunks[i].lo = 1

\* The protocol of a stream is the one spoken on it, whatever part of the
\* session the capture has, if the server's port is one of the protocol's; on
\* any other port it is if the greeting is there, although sessions speak of
\* LOGIN, LIST and STARTTLS in each other's terms (detector.go:25-131).
SpokenIsDetected ==
  pc = "done" =>
    \A p \in {25, 143, 110, 2525, 10143, 10110, 4190} :
      \A protocol \in {"SMTP", "IMAP", "POP3"} :
        \/ protocol = "SMTP" /\ isSMTPPort(p)
        \/ protocol = "IMAP" /\ isIMAPPort(p)
        \/ protocol = "POP3" /\ isPOP3Port(p)
        \/ p = 4190 /\ Greeted
        => Detect(Ephemeral, p, Payload(protocol)) = protocol

-----------------------------------------------------------------------------
(* The inductive strengthening of the invariants *)

Segments     == [seq : Nat, len : Nat, syn : BOOLEAN, fin : BOOLEAN]
Halves       == [open : BOOLEAN, next : Nat \cup {Unstarted}, pages : Seq(Segments)]
StreamChunks == [isClient : BOOLEAN, from : Sides, lo : Nat, hi : Nat]
Streams      == [client : Sides, complete : BOOLEAN, gap : BOOLEAN,
                 chunks : Seq(StreamChunks)]

TypeOK ==
  /\ pc \in {"reading", "done"} /\ port \in ServerPort
  /\ sent \in [Sides -> [syn : BOOLEAN, fin : BOOLEAN, bytes : 0..MaxBytes]]
  /\ wire \in Seq(Sides \X (1..MaxBytes))
  /\ half \in [Sides -> Halves]
  /\ stream # Nil => stream \in Streams
  /\ orderly \in BOOLEAN /\ repeats \in 0..MaxRepeats
  /\ past \in [Sides -> {"open", "ended", "reopened"}]

Gap == stream # Nil /\ stream.gap

\* A segment or page holds something that was sent.
WasSent(d, seg) == seg.seq >= 1 /\ seg.seq + seg.len <= sent[d].bytes + 1

HalfFits(d) ==
  /\ half[d].open \/ half[d] = Closed
  /\ half[d].next \in {Unstarted} \cup 1..(sent[d].bytes + 1)
  /\ \A i \in 1..Len(half[d].pages) : WasSent(d, half[d].pages[i])

ChunksFit ==
  \A i \in 1..Len(Chunks) :
    LET c == Chunks[i] IN 1 <= c.lo /\ c.lo <= c.hi /\ c.hi <= sent[c.from].bytes

\* The chunks of d are in order and from before byte n; if no gap was noticed,
\* none of these bytes is missing after the first chunk.
UpTo(cs, gap, d, n) ==
  /\ \A i \in From(cs, d) : cs[i].hi < n
  /\ \A i, j \in From(cs, d) : i < j => cs[i].hi < cs[j].lo
  /\ ~gap => \A i \in From(cs, d) : cs[i].lo..(n - 1) \subseteq Carried(cs, d)

\* The assembler goes on where the chunks of an open direction end.
InStep(d) ==
  past[d] # "reopened" =>
    IF past[d] = "open" /\ pc = "reading" THEN UpTo(Chunks, Gap, d, half[d].next)
    ELSE /\ half[d] = Closed
         /\ \E n \in 0..(sent[d].bytes + 1) : UpTo(Chunks, Gap, d, n)

\* A gap that was noticed cannot be filled any more.
GapStays ==
  Gap /\ Reopened = {} =>
    \E d \in Sides : \E b \in Missing(d) :
      past[d] = "open" /\ pc = "reading" => b < half[d].next

\* If every segment is captured as it is sent, the assembler keeps nothing back.
InOrder ==
  orderly /\ Reopened = {} =>
    /\ stream = Nil <=> ~sent["client"].syn
    /\ stream # Nil => stream.client = "client"
    /\ ChunksAreWire
    /\ pc = "reading" => \A d \in Sides :
         /\ past[d] = "ended" <=> sent[d].fin
         /\ half[d] = IF sent[d].syn /\ ~sent[d].fin
                      THEN [Opened EXCEPT !.next = sent[d].bytes + 1] ELSE Closed

\* Data and FIN are sent by those who are connected.
Connected ==
  /\ sent["server"].syn => sent["client"].syn
  /\ wire # <<>> => sent["server"].syn
  /\ \A d \in Sides : sent[d].bytes > 0 \/ sent[d].fin => sent["server"].syn

RInv == /\ TypeOK /\ ChunksFit /\ GapStays /\ Connected /\ InOrder
        /\ \A d \in Sides : HalfFits(d) /\ InStep(d)
=============================================================================
