---------------------- MODULE StandaloneParserProofs -----------------------
(***************************************************************************)
(* The parser's output, for any number of streams and items and any limit  *)
(* of records: it is only written when every stream was read to its end,   *)
(* and then it tells what they held.                                       *)
(*                                                                         *)
(* The invariant follows each reader through the items it has taken.  A    *)
(* reader that returns in the middle leaves main waiting, so nothing has   *)
(* to be known of a stream after that.                                     *)
(***************************************************************************)
EXTENDS StandaloneParser, SequenceTheorems, TLAPS

SessionType ==
  [starttls : BOOLEAN, banner : BOOLEAN, hello : BOOLEAN, certs : BOOLEAN]

\* The stream that main waits for.
Pending(s) == main.at \in {"send", "sent"} /\ main.stream = s

\* Items that the reader has taken and processed.
Taken(s) == IF Pending(s) THEN Len(captured[s]) - 1 ELSE Len(captured[s])

\* A stream whose reader returned while main waits for it.
Abandoned(s) == main.at = "sent" /\ main.stream = s /\ reader[s] = "returned"

Has(c, n, items) == \E j \in 1..n : c[j] \in items

\* A server's stream in which TLS began with item i.
BeganAt(c, n, r, i) ==
  /\ i \in 1..n /\ c[i] = "go" /\ ~Has(c, i - 1, {"go"})
  /\ \A j \in (i + 1)..n : c[j] \in TlsRecords
  /\ r = n - i /\ r < RecordLimit

\* What a reader knows when it has taken the first n items of c: k is the kind
\* of its stream, m its mode, r its records, known its session.
ReadSoFar(k, m, r, known, c, n) ==
  /\ k = "tls" =>
       /\ m = "records" /\ r = n /\ n < RecordLimit
       /\ \A j \in 1..n : c[j] \in TlsRecords
       /\ known.hello <=> Has(c, n, {"hello", "hello+cert"})
       /\ known.certs <=> Has(c, n, {"cert"})
       /\ ~known.starttls /\ ~known.banner
  /\ k = "server" =>
       \/ m = "lines" /\ r = 0 /\ ~Has(c, n, {"go"})
       \/ m = "records" /\ \E i \in 1..n : BeganAt(c, n, r, i)
  /\ k = "client" => m = "lines"
  /\ k \in {"server", "client"} =>
       /\ known.starttls <=> Has(c, n, {"mention", "go"})
       /\ known.hello \/ known.certs => m = "records"
  /\ k = "other" => m = "discard"

Progress(s) ==
  /\ ReadSoFar(kind[s], mode[s], records[s], session[s], captured[s], Taken(s))
  /\ s \in output <=> reader[s] = "returned" /\ Meaningful(session[s])

MainInv ==
  /\ main.at \in {"send", "sent"} =>
       /\ main.stream \in Streams
       /\ Len(captured[main.stream]) > 0
       /\ main.chunk = captured[main.stream][Len(captured[main.stream])]
  /\ main.at = "sent" => reader[main.stream] \in {"busy", "returned"}
  /\ main.at = "written" => \A s \in Streams : reader[s] = "returned"

Inv ==
  /\ TypeOK
  /\ MainInv
  /\ \A s \in Streams : Abandoned(s) \/ Progress(s)

-----------------------------------------------------------------------------
(* Reading one more item *)

LEMMA HasOneMore ==
  ASSUME NEW c, NEW n \in Nat, NEW items
  PROVE Has(c, n + 1, items) <=> Has(c, n, items) \/ c[n + 1] \in items
BY DEF Has

LEMMA HasNone == ASSUME NEW c, NEW items PROVE ~Has(c, 0, items)
BY DEF Has

\* What comes after the first n items does not matter.
LEMMA HasSame ==
  ASSUME NEW c, NEW d, NEW n \in Nat, \A j \in 1..n : c[j] = d[j], NEW items
  PROVE Has(c, n, items) <=> Has(d, n, items)
BY DEF Has

LEMMA ReadSame ==
  ASSUME NEW c, NEW d, NEW n \in Nat, \A j \in 1..n : c[j] = d[j],
         NEW k, NEW m, NEW r, NEW known, ReadSoFar(k, m, r, known, c, n)
  PROVE ReadSoFar(k, m, r, known, d, n)
<1>1. ASSUME NEW items PROVE Has(c, n, items) <=> Has(d, n, items)
  BY HasSame
<1>2. ASSUME NEW i \in 1..n, BeganAt(c, n, r, i) PROVE BeganAt(d, n, r, i)
  <2>1. Has(c, i - 1, {"go"}) <=> Has(d, i - 1, {"go"})
    BY HasSame
  <2> QED BY <1>2, <2>1 DEF BeganAt
<1> QED BY <1>1, <1>2 DEF ReadSoFar

LEMMA LineRead ==
  ASSUME NEW c, NEW n \in Nat, NEW k \in Kinds, NEW r, NEW known \in SessionType,
         ReadSoFar(k, "lines", r, known, c, n), NEW new, NEW m,
         new = [known EXCEPT !.starttls = @ \/ c[n + 1] \in {"mention", "go"},
                             !.banner = TRUE],
         m = IF c[n + 1] = "go" /\ k = "server" THEN "records" ELSE "lines"
  PROVE ReadSoFar(k, m, r, new, c, n + 1)
<1>1. k \in {"server", "client"}  BY DEF ReadSoFar, Kinds
<1>2. /\ new.starttls <=> known.starttls \/ c[n + 1] \in {"mention", "go"}
      /\ new.hello <=> known.hello
      /\ new.certs <=> known.certs
  BY DEF SessionType
<1>3. ~known.hello /\ ~known.certs /\ (known.starttls <=> Has(c, n, {"mention", "go"}))
  BY <1>1 DEF ReadSoFar
<1>4. /\ new.starttls <=> Has(c, n + 1, {"mention", "go"})
      /\ ~new.hello /\ ~new.certs
  BY <1>2, <1>3, HasOneMore
<1>5. CASE k = "client"  BY <1>4, <1>5 DEF ReadSoFar
<1>6. CASE k = "server"
  <2>1. r = 0 /\ ~Has(c, n, {"go"})  BY <1>6 DEF ReadSoFar
  <2>2. CASE c[n + 1] = "go"
    <3>1. BeganAt(c, n + 1, r, n + 1)
      BY <2>1, <2>2, ParserAssumption DEF BeganAt
    <3> QED BY <1>4, <1>6, <2>2, <3>1 DEF ReadSoFar
  <2>3. CASE c[n + 1] # "go"
    <3>1. ~Has(c, n + 1, {"go"})  BY <2>1, <2>3, HasOneMore
    <3> QED BY <1>4, <1>6, <2>1, <2>3, <3>1 DEF ReadSoFar
  <2> QED BY <2>2, <2>3
<1> QED BY <1>1, <1>5, <1>6

LEMMA RecordRead ==
  ASSUME NEW c, NEW n \in Nat, NEW k \in Kinds, NEW r \in Nat, NEW known \in SessionType,
         ReadSoFar(k, "records", r, known, c, n), NEW new,
         c[n + 1] \in TlsRecords, r + 1 # RecordLimit,
         new = [known EXCEPT !.hello = @ \/ c[n + 1] \in {"hello", "hello+cert"},
                             !.certs = @ \/ c[n + 1] = "cert"]
  PROVE ReadSoFar(k, "records", r + 1, new, c, n + 1)
<1>1. k \in {"tls", "server"}  BY DEF ReadSoFar, Kinds
<1>2. /\ new.hello <=> known.hello \/ c[n + 1] \in {"hello", "hello+cert"}
      /\ new.certs <=> known.certs \/ c[n + 1] \in {"cert"}
      /\ new.starttls <=> known.starttls
      /\ new.banner <=> known.banner
  BY DEF SessionType
<1>3. CASE k = "tls"
  <2>1. /\ new.hello <=> Has(c, n + 1, {"hello", "hello+cert"})
        /\ new.certs <=> Has(c, n + 1, {"cert"})
        /\ ~new.starttls /\ ~new.banner
    BY <1>2, <1>3, HasOneMore DEF ReadSoFar
  <2>2. r + 1 = n + 1 /\ n + 1 < RecordLimit /\ \A j \in 1..(n + 1) : c[j] \in TlsRecords
    BY <1>3, ParserAssumption DEF ReadSoFar
  <2> QED BY <1>3, <2>1, <2>2 DEF ReadSoFar
<1>4. CASE k = "server"
  <2>1. PICK i \in 1..n : BeganAt(c, n, r, i)  BY <1>4 DEF ReadSoFar
  <2>2. BeganAt(c, n + 1, r + 1, i)  BY <2>1, ParserAssumption DEF BeganAt
  <2>3. c[n + 1] \notin {"mention", "go"}  BY DEF TlsRecords
  <2>4. new.starttls <=> Has(c, n + 1, {"mention", "go"})
    BY <1>2, <1>4, <2>3, HasOneMore DEF ReadSoFar
  <2>5. i \in 1..(n + 1)  OBVIOUS
  <2> QED BY <1>4, <2>2, <2>4, <2>5 DEF ReadSoFar
<1> QED BY <1>1, <1>3, <1>4

LEMMA NothingRead ==
  ASSUME NEW c, NEW k \in Kinds, NEW m,
         m = CASE k = "tls" -> "records" [] k = "other" -> "discard" [] OTHER -> "lines"
  PROVE ReadSoFar(k, m, 0, Nothing, c, 0)
<1>1. ASSUME NEW items PROVE ~Has(c, 0, items)  BY HasNone
<1>2. /\ ~Nothing.starttls /\ ~Nothing.banner /\ ~Nothing.hello /\ ~Nothing.certs
  BY DEF Nothing
<1>3. CASE k = "tls"  BY <1>1, <1>2, <1>3, ParserAssumption DEF ReadSoFar
<1>4. CASE k = "other"  BY <1>4 DEF ReadSoFar
<1>5. CASE k \in {"server", "client"}  BY <1>1, <1>2, <1>5 DEF ReadSoFar
<1> QED BY <1>3, <1>4, <1>5 DEF Kinds

-----------------------------------------------------------------------------
(* Types *)

LEMMA InitType == Init => TypeOK
<1> SUFFICES ASSUME Init PROVE TypeOK OBVIOUS
<1>1. mode \in [Streams -> {"lines", "records", "discard"}]  BY DEF Init
<1>2. session \in [Streams -> SessionType]  BY DEF Init, Nothing, SessionType
<1>3. captured \in [Streams -> Seq(Items)]  BY DEF Init
<1> QED BY <1>1, <1>2, <1>3, ParserAssumption DEF Init, TypeOK, SessionType, MainAt

LEMMA Learned ==
  ASSUME NEW known \in SessionType
  PROVE NoteLine(known) \in SessionType /\ Process(known) \in SessionType
<1>1. ASSUME NEW a \in BOOLEAN, NEW b \in BOOLEAN
      PROVE /\ [known EXCEPT !.starttls = a, !.banner = b] \in SessionType
            /\ [known EXCEPT !.hello = a, !.certs = b] \in SessionType
  BY DEF SessionType
<1>2. /\ (known.starttls \/ Item \in {"mention", "go"}) \in BOOLEAN
      /\ (known.hello \/ Item \in {"hello", "hello+cert"}) \in BOOLEAN
      /\ (known.certs \/ Item = "cert") \in BOOLEAN
  BY Zenon
<1> QED BY <1>1, <1>2, Zenon DEF NoteLine, Process

LEMMA NextType == Inv /\ [Next]_vars => TypeOK'
<1> SUFFICES ASSUME Inv, TypeOK, [Next]_vars PROVE TypeOK'  BY DEF Inv
<1> DEFINE MainType == [at : {"feed", "send", "sent", "wait", "written"},
                        stream : Streams \cup {"none"}, chunk : Items \cup {"none"}]
<1>0. main \in MainType  BY DEF TypeOK
<1> USE DEF MainAt, Item, SessionType
<1>1. ASSUME NEW s \in Streams, Assemble(s) PROVE TypeOK'
  <2>1. PICK item \in Items :
          /\ main' = [at |-> "send", stream |-> s, chunk |-> item]
          /\ captured' = [captured EXCEPT ![s] = Append(@, item)]
    BY <1>1 DEF Assemble
  <2>2. Append(captured[s], item) \in Seq(Items)
    BY AppendProperties DEF TypeOK
  <2> QED BY <1>1, <2>1, <2>2 DEF Assemble, TypeOK, readVars
<1>2. ASSUME NEW s \in Streams, HandOver(s) PROVE TypeOK'
  <2>1. main' \in MainType /\ main'.at = "sent" /\ main'.stream = s
    BY <1>0, <1>2 DEF HandOver
  <2>2. reader' = [reader EXCEPT ![s] = "busy"] /\ main.at = "send"
    BY <1>2 DEF HandOver
  <2> QED BY <1>2, <2>1, <2>2 DEF HandOver, TypeOK
<1>3. ASSUME NEW s \in Streams, Complete(s) PROVE TypeOK'
  BY <1>3 DEF Complete, TypeOK, readVars
<1>4. CASE Flushed \/ WriteOutput
  <2>1. main' \in MainType /\ main.at \in {"feed", "wait"}
    BY <1>0, <1>4 DEF Flushed, WriteOutput
  <2>2. UNCHANGED <<kind, closed, captured, reader, mode, records, session, output>>
    BY <1>4 DEF Flushed, WriteOutput, readVars
  <2> QED BY <2>1, <2>2 DEF TypeOK
<1>5. ASSUME NEW s \in Streams, EndOfStream(s) PROVE TypeOK'
  BY <1>5 DEF EndOfStream, Returns, TypeOK
<1>6. ASSUME NEW s \in Streams, reader[s] = "busy", AsksForMore(s)
      PROVE /\ main' \in MainType /\ output' = output
            /\ reader' \in [Streams -> {"asking", "busy", "returned"}]
            /\ \A x \in Streams : reader'[x] # "busy"
  <2>1. main' \in MainType /\ output' = output
    BY <1>0, <1>6 DEF AsksForMore
  <2>2. /\ reader' = [reader EXCEPT ![s] = "asking"]
        /\ \A x \in Streams \ {s} : reader[x] # "busy"
    BY <1>6 DEF AsksForMore, TypeOK
  <2> QED BY <2>1, <2>2 DEF TypeOK
<1>7. ASSUME NEW s \in Streams, NEW known, Returns(s, known)
      PROVE /\ main' = main /\ output' \subseteq Streams
            /\ reader' \in [Streams -> {"asking", "busy", "returned"}]
            /\ \A x \in Streams : reader'[x] = "busy" => MainAt("sent") /\ main.stream = x
  BY <1>7 DEF Returns, TypeOK
<1>8. ASSUME NEW s \in Streams, ReadLine(s) PROVE TypeOK'
  <2>1. session' \in [Streams -> SessionType]
    <3>1. NoteLine(session[s]) \in SessionType  BY Learned DEF TypeOK
    <3> QED BY <1>8, <3>1 DEF ReadLine, TypeOK
  <2>2. mode' \in [Streams -> {"lines", "records", "discard"}]
    BY <1>8 DEF ReadLine, TypeOK
  <2> QED BY <1>6, <1>8, <2>1, <2>2 DEF ReadLine, Reads, TypeOK
<1>9. ASSUME NEW s \in Streams, ReadRecord(s) PROVE TypeOK'
  <2>1. session' \in [Streams -> SessionType]
    <3>1. Process(session[s]) \in SessionType  BY Learned DEF TypeOK
    <3> QED BY <1>9, <3>1 DEF ReadRecord, TypeOK
  <2>2. reader[s] = "busy" /\ mode[s] = "records" /\ kind[s] \in Kinds
    BY <1>9 DEF ReadRecord, Reads, TypeOK
  <2>3. Progress(s)  BY <2>2 DEF Inv, Abandoned
  <2>4. records[s] < RecordLimit
    BY <2>2, <2>3 DEF Progress, ReadSoFar, BeganAt, Kinds
  <2>5. records' \in [Streams -> 0..RecordLimit]
    BY <1>9, <2>4, ParserAssumption DEF ReadRecord, TypeOK
  <2>6. UNCHANGED <<kind, closed, captured, mode>>  BY <1>9 DEF ReadRecord
  <2>7. CASE AsksForMore(s)
    BY <1>6, <2>1, <2>2, <2>5, <2>6, <2>7 DEF TypeOK
  <2>8. CASE Returns(s, Process(session[s]))
    BY <1>7, <2>1, <2>5, <2>6, <2>8 DEF TypeOK
  <2> QED BY <1>9, <2>7, <2>8 DEF ReadRecord
<1>10. ASSUME NEW s \in Streams, NotARecord(s) PROVE TypeOK'
  BY <1>7, <1>10 DEF NotARecord, TypeOK
<1>11. ASSUME NEW s \in Streams, Discard(s) PROVE TypeOK'
  BY <1>6, <1>11 DEF Discard, DiscardBytes, Reads, TypeOK
<1>12. CASE UNCHANGED vars  BY <1>12 DEF vars, readVars, TypeOK
<1> QED BY <1>1, <1>2, <1>3, <1>4, <1>5, <1>8, <1>9, <1>10, <1>11, <1>12
        DEF Next, MainStep, ReaderStep

-----------------------------------------------------------------------------
(* The invariant *)

LEMMA InitInv == Init => Inv
<1> SUFFICES ASSUME Init PROVE Inv OBVIOUS
<1>1. TypeOK  BY InitType
<1>2. MainInv  BY DEF Init, MainInv
<1>3. ASSUME NEW s \in Streams PROVE Progress(s)
  <2>1. Taken(s) = 0 /\ captured[s] = <<>>  BY DEF Init, Taken, Pending
  <2>2. kind[s] \in Kinds /\ records[s] = 0 /\ session[s] = Nothing
    BY DEF Init
  <2>3. mode[s] = CASE kind[s] = "tls" -> "records" [] kind[s] = "other" -> "discard"
                    [] OTHER -> "lines"
    BY DEF Init
  <2>4. ReadSoFar(kind[s], mode[s], records[s], session[s], captured[s], Taken(s))
    BY <2>1, <2>2, <2>3, NothingRead
  <2>5. s \notin output /\ reader[s] # "returned"  BY DEF Init
  <2> QED BY <2>4, <2>5 DEF Progress
<1> QED BY <1>1, <1>2, <1>3 DEF Inv

\* A stream that a step leaves alone.
LEMMA Untouched ==
  ASSUME NEW x \in Streams, Progress(x), kind'[x] = kind[x], mode'[x] = mode[x],
         records'[x] = records[x], session'[x] = session[x],
         captured'[x] = captured[x], Taken(x)' = Taken(x), reader'[x] = reader[x],
         x \in output' <=> x \in output
  PROVE Progress(x)'
BY DEF Progress

\* What main does to the streams.
LEMMA NextAssemble ==
  ASSUME TypeOK, Inv, NEW s \in Streams, Assemble(s)
  PROVE MainInv' /\ \A x \in Streams : Progress(x)'
<1>1. PICK item \in Items :
        /\ main' = [at |-> "send", stream |-> s, chunk |-> item]
        /\ captured' = [captured EXCEPT ![s] = Append(@, item)]
  BY DEF Assemble
<1>2. main.at = "feed" /\ UNCHANGED <<kind, closed, reader, mode, records, session, output>>
  BY DEF Assemble, MainAt, readVars
<1>3. /\ captured[s] \in Seq(Items) /\ Len(captured[s]) \in Nat
      /\ captured'[s] = Append(captured[s], item)
  BY <1>1 DEF TypeOK
<1>4. /\ Len(captured'[s]) = Len(captured[s]) + 1
      /\ captured'[s][Len(captured[s]) + 1] = item
      /\ \A j \in 1..Len(captured[s]) : captured'[s][j] = captured[s][j]
  BY <1>3, AppendProperties
<1>5. MainInv'  BY <1>1, <1>3, <1>4 DEF MainInv
<1>6. ASSUME NEW x \in Streams PROVE Progress(x) /\ Taken(x) = Len(captured[x])
  BY <1>2 DEF Inv, Abandoned, Taken, Pending
<1>7. Progress(s)'
  <2>1. Taken(s) = Len(captured[s]) /\ Taken(s)' = Len(captured[s])
    BY <1>1, <1>3, <1>4, <1>6 DEF Taken, Pending
  <2>2. ReadSoFar(kind[s], mode[s], records[s], session[s], captured'[s],
                  Len(captured[s]))
    <3>1. ReadSoFar(kind[s], mode[s], records[s], session[s], captured[s],
                    Len(captured[s]))
      BY <1>6, <2>1 DEF Progress
    <3> QED BY <1>3, <1>4, <3>1, ReadSame
  <2> QED BY <1>2, <1>6, <2>1, <2>2 DEF Progress
<1>8. ASSUME NEW x \in Streams, x # s PROVE Progress(x)'
  <2>1. captured'[x] = captured[x]  BY <1>1, <1>8 DEF TypeOK
  <2>2. Taken(x)' = Len(captured'[x])  BY <1>1, <1>8 DEF Taken, Pending
  <2> QED BY <1>2, <1>6, <2>1, <2>2, Untouched
<1> QED BY <1>5, <1>7, <1>8

LEMMA NextMain ==
  ASSUME TypeOK, Inv, MainStep
  PROVE MainInv' /\ \A x \in Streams : Progress(x)'
<1>1. UNCHANGED <<kind, captured, mode, records, session, output>>
  BY DEF MainStep, HandOver, Complete, Flushed, WriteOutput, readVars
<1>2. main.at # "sent"
  BY DEF MainStep, HandOver, Complete, Flushed, WriteOutput, MainAt
<1>3. ASSUME NEW x \in Streams PROVE Progress(x)  BY <1>2 DEF Inv, Abandoned
<1>4. ASSUME NEW s \in Streams, HandOver(s)
      PROVE MainInv' /\ \A x \in Streams : Progress(x)'
  <2>1. /\ main' = [main EXCEPT !.at = "sent"] /\ main.at = "send" /\ main.stream = s
        /\ reader' = [reader EXCEPT ![s] = "busy"] /\ reader[s] = "asking"
    BY <1>4 DEF HandOver, MainAt
  <2>2. main'.at = "sent" /\ main'.stream = main.stream /\ main'.chunk = main.chunk
    BY <2>1 DEF TypeOK
  <2>3. reader'[s] = "busy" /\ \A x \in Streams \ {s} : reader'[x] = reader[x]
    BY <2>1 DEF TypeOK
  <2>4. MainInv'  BY <1>1, <2>1, <2>2, <2>3 DEF Inv, MainInv
  <2>5. ASSUME NEW x \in Streams PROVE Taken(x)' = Taken(x)
    BY <1>1, <2>1, <2>2 DEF Taken, Pending
  <2>6. ASSUME NEW x \in Streams PROVE Progress(x)'
    <3>1. CASE x = s
      BY <1>1, <1>3, <2>1, <2>3, <2>5, <3>1 DEF Progress
    <3>2. CASE x # s
      BY <1>1, <1>3, <2>3, <2>5, <3>2, Untouched
    <3> QED BY <3>1, <3>2
  <2> QED BY <2>4, <2>6
<1>5. ASSUME NEW s \in Streams, Complete(s)
      PROVE MainInv' /\ \A x \in Streams : Progress(x)'
  <2>1. main' = main /\ reader' = reader  BY <1>5 DEF Complete, readVars
  <2>2. MainInv'  BY <1>1, <2>1 DEF Inv, MainInv
  <2>3. ASSUME NEW x \in Streams PROVE Taken(x)' = Taken(x)
    BY <1>1, <2>1 DEF Taken, Pending
  <2> QED BY <1>1, <1>3, <2>1, <2>2, <2>3, Untouched
<1>6. CASE Flushed \/ WriteOutput
  <2>1. /\ reader' = reader /\ main.at \in {"feed", "wait"} /\ main'.at \in {"wait", "written"}
        /\ main'.at = "written" => WaitGroupDone
    BY <1>6 DEF Flushed, WriteOutput, MainAt, readVars, TypeOK
  <2>2. MainInv'  BY <2>1 DEF MainInv, WaitGroupDone
  <2>3. ASSUME NEW x \in Streams PROVE Taken(x)' = Taken(x)
    BY <1>1, <2>1 DEF Taken, Pending
  <2> QED BY <1>1, <1>3, <2>1, <2>2, <2>3, Untouched
<1> QED BY <1>4, <1>5, <1>6 DEF MainStep

\* What a reader at work does: the item main waits with is the next one, and
\* no other stream is touched.
LEMMA Reading ==
  ASSUME TypeOK, Inv, NEW s \in Streams, reader[s] = "busy"
  PROVE /\ main.at = "sent" /\ main.stream = s /\ Progress(s)
        /\ Len(captured[s]) - 1 \in Nat /\ Taken(s) = Len(captured[s]) - 1
        /\ Item = captured[s][Taken(s) + 1]
        /\ s \notin output
        /\ \A x \in Streams \ {s} : Progress(x) /\ Taken(x) = Len(captured[x])
<1>1. main.at = "sent" /\ main.stream = s  BY DEF TypeOK, MainAt
<1>2. captured[s] \in Seq(Items) /\ Len(captured[s]) \in Nat  BY DEF TypeOK
<1>3. Len(captured[s]) > 0 /\ main.chunk = captured[s][Len(captured[s])]
  BY <1>1 DEF Inv, MainInv
<1>4. Progress(s)  BY DEF Inv, Abandoned
<1>5. ASSUME NEW x \in Streams, x # s PROVE Progress(x) /\ Taken(x) = Len(captured[x])
  BY <1>1, <1>5 DEF Inv, Abandoned, Taken, Pending
<1>6. Taken(s) = Len(captured[s]) - 1  BY <1>1 DEF Taken, Pending
<1>7. s \notin output  BY <1>4 DEF Progress
<1> QED BY <1>1, <1>2, <1>3, <1>4, <1>5, <1>6, <1>7 DEF Item

\* When it asks for more, main goes on and the item is taken.
LEMMA Asking ==
  ASSUME TypeOK, Inv, NEW s \in Streams, reader[s] = "busy", AsksForMore(s),
         UNCHANGED <<kind, captured>>,
         \A x \in Streams \ {s} : /\ mode'[x] = mode[x] /\ records'[x] = records[x]
                                  /\ session'[x] = session[x],
         ReadSoFar(kind[s], mode'[s], records'[s], session'[s], captured[s], Taken(s) + 1)
  PROVE MainInv' /\ \A x \in Streams : Progress(x)'
<1>1. /\ main'.at = "feed" /\ output' = output /\ reader'[s] = "asking"
      /\ \A x \in Streams \ {s} : reader'[x] = reader[x]
  BY DEF AsksForMore, TypeOK
<1>2. MainInv'  BY <1>1 DEF MainInv
<1>3. ASSUME NEW x \in Streams PROVE Taken(x)' = Len(captured[x])
  BY <1>1 DEF Taken, Pending
<1>4. Progress(s)'
  <2>1. Taken(s) + 1 = Taken(s)'  BY <1>3, Reading
  <2>2. s \notin output  BY Reading
  <2> QED BY <1>1, <2>1, <2>2 DEF Progress
<1>5. ASSUME NEW x \in Streams, x # s PROVE Progress(x)'
  <2>1. Progress(x) /\ Taken(x) = Len(captured[x])  BY <1>5, Reading
  <2> QED BY <1>1, <1>3, <1>5, <2>1, Untouched
<1> QED BY <1>2, <1>4, <1>5

\* When it returns, it leaves main waiting.
LEMMA Leaving ==
  ASSUME TypeOK, Inv, NEW s \in Streams, reader[s] = "busy", NEW known,
         Returns(s, known), UNCHANGED <<kind, captured>>,
         \A x \in Streams \ {s} : /\ mode'[x] = mode[x] /\ records'[x] = records[x]
                                  /\ session'[x] = session[x]
  PROVE MainInv' /\ \A x \in Streams : Abandoned(x)' \/ Progress(x)'
<1>1. /\ main' = main /\ reader'[s] = "returned"
      /\ \A x \in Streams \ {s} : /\ reader'[x] = reader[x]
                                  /\ x \in output' <=> x \in output
  BY DEF Returns, TypeOK
<1>2. main.at = "sent" /\ main.stream = s  BY Reading
<1>3. MainInv'  BY <1>1, <1>2 DEF Inv, MainInv
<1>4. Abandoned(s)'  BY <1>1, <1>2 DEF Abandoned
<1>5. ASSUME NEW x \in Streams, x # s PROVE Progress(x)'
  <2>1. Progress(x) /\ Taken(x)' = Taken(x)  BY <1>1, <1>5, Reading DEF Taken, Pending
  <2> QED BY <1>1, <1>5, <2>1, Untouched
<1> QED BY <1>3, <1>4, <1>5

LEMMA NextReader ==
  ASSUME TypeOK, Inv, NEW s \in Streams, ReaderStep(s)
  PROVE MainInv' /\ \A x \in Streams : Abandoned(x)' \/ Progress(x)'
<1>1. CASE EndOfStream(s)
  <2>1. /\ reader[s] = "asking" /\ Returns(s, session[s])
        /\ UNCHANGED <<kind, captured, mode, records, session>>
    BY <1>1 DEF EndOfStream
  <2>2. /\ main' = main /\ reader'[s] = "returned"
        /\ \A x \in Streams \ {s} : /\ reader'[x] = reader[x]
                                    /\ x \in output' <=> x \in output
        /\ s \in output' <=> s \in output \/ Meaningful(session[s])
    BY <2>1 DEF Returns, TypeOK
  <2>3. MainInv'  BY <2>1, <2>2 DEF Inv, MainInv
  <2>4. ASSUME NEW x \in Streams PROVE Taken(x)' = Taken(x)
    BY <2>1, <2>2 DEF Taken, Pending
  <2>5. Progress(s)'
    <3>1. Progress(s)  BY <2>1 DEF Inv, Abandoned
    <3> QED BY <2>1, <2>2, <2>4, <3>1 DEF Progress
  <2>6. ASSUME NEW x \in Streams, x # s PROVE Abandoned(x)' \/ Progress(x)'
    <3>1. CASE Abandoned(x)  BY <2>2, <2>6, <3>1 DEF Abandoned
    <3>2. CASE Progress(x)  BY <2>1, <2>2, <2>4, <2>6, <3>2, Untouched
    <3> QED BY <3>1, <3>2 DEF Inv
  <2> QED BY <2>3, <2>5, <2>6
<1>2. CASE ReadLine(s)
  <2>1. /\ reader[s] = "busy" /\ mode[s] = "lines" /\ AsksForMore(s)
        /\ UNCHANGED <<kind, captured, records>>
        /\ session' = [session EXCEPT ![s] = NoteLine(@)]
        /\ mode' = [mode EXCEPT ![s] = IF StartsTls(s) THEN "records" ELSE @]
    BY <1>2 DEF ReadLine, Reads
  <2>2. session[s] \in SessionType /\ kind[s] \in Kinds  BY DEF TypeOK, SessionType
  <2>3. session'[s] = NoteLine(session[s])  BY <2>1 DEF TypeOK
  <2>4. mode'[s] = IF Item = "go" /\ kind[s] = "server" THEN "records" ELSE "lines"
    BY <2>1 DEF TypeOK, StartsTls
  <2>5. Item = captured[s][Taken(s) + 1] /\ Taken(s) \in Nat /\ Progress(s)
    BY <2>1, Reading
  <2>6. ReadSoFar(kind[s], "lines", records[s], session[s], captured[s], Taken(s))
    BY <2>1, <2>5 DEF Progress
  <2>7. ReadSoFar(kind[s], mode'[s], records'[s], session'[s], captured[s], Taken(s) + 1)
    BY <2>1, <2>2, <2>3, <2>4, <2>5, <2>6, LineRead DEF NoteLine
  <2>8. \A x \in Streams \ {s} : /\ mode'[x] = mode[x] /\ records'[x] = records[x]
                                 /\ session'[x] = session[x]
    BY <2>1 DEF TypeOK
  <2> QED BY <2>1, <2>7, <2>8, Asking
<1>3. CASE ReadRecord(s)
  <2>1. /\ reader[s] = "busy" /\ mode[s] = "records" /\ Item \in TlsRecords
        /\ UNCHANGED <<kind, captured, mode>>
        /\ session' = [session EXCEPT ![s] = Process(@)]
        /\ records' = [records EXCEPT ![s] = @ + 1]
    BY <1>3 DEF ReadRecord, Reads
  <2>2. \A x \in Streams \ {s} : /\ mode'[x] = mode[x] /\ records'[x] = records[x]
                                 /\ session'[x] = session[x]
    BY <2>1 DEF TypeOK
  <2>3. CASE LastOne(s)
    BY <1>3, <2>1, <2>2, <2>3, Leaving DEF ReadRecord
  <2>4. CASE ~LastOne(s)
    <3>1. session[s] \in SessionType /\ kind[s] \in Kinds /\ records[s] \in Nat
      BY ParserAssumption DEF TypeOK, SessionType
    <3>2. session'[s] = Process(session[s]) /\ records'[s] = records[s] + 1
      BY <2>1 DEF TypeOK
    <3>3. Item = captured[s][Taken(s) + 1] /\ Taken(s) \in Nat /\ Progress(s)
      BY <2>1, Reading
    <3>4. ReadSoFar(kind[s], "records", records[s], session[s], captured[s], Taken(s))
      BY <2>1, <3>3 DEF Progress
    <3>5. ReadSoFar(kind[s], "records", records[s] + 1, Process(session[s]),
                    captured[s], Taken(s) + 1)
      BY <2>1, <2>4, <3>1, <3>3, <3>4, RecordRead DEF Process, LastOne
    <3>6. ReadSoFar(kind[s], mode'[s], records'[s], session'[s], captured[s], Taken(s) + 1)
      BY <2>1, <3>2, <3>5
    <3> QED BY <1>3, <2>1, <2>2, <2>4, <3>6, Asking DEF ReadRecord
  <2> QED BY <2>3, <2>4
<1>4. CASE NotARecord(s)
  BY <1>4, Leaving DEF NotARecord, Reads
<1>5. CASE Discard(s)
  <2>1. /\ reader[s] = "busy" /\ mode[s] = "discard" /\ AsksForMore(s)
        /\ UNCHANGED <<kind, captured, mode, records, session>>
    BY <1>5 DEF Discard, DiscardBytes, Reads
  <2>2. Progress(s) /\ kind[s] \in Kinds  BY <2>1, Reading DEF TypeOK
  <2>3. kind[s] = "other"
    BY <2>1, <2>2 DEF Progress, ReadSoFar, Kinds
  <2>4. ReadSoFar(kind[s], mode'[s], records'[s], session'[s], captured[s], Taken(s) + 1)
    BY <2>1, <2>3 DEF ReadSoFar
  <2> QED BY <2>1, <2>4, Asking
<1> QED BY <1>1, <1>2, <1>3, <1>4, <1>5 DEF ReaderStep

LEMMA NextInv == Inv /\ [Next]_vars => Inv'
<1> SUFFICES ASSUME Inv, TypeOK, [Next]_vars PROVE Inv'  BY DEF Inv
<1>1. TypeOK'  BY NextType
<1>2. ASSUME NEW s \in Streams, Assemble(s) PROVE Inv'
  BY <1>1, <1>2, NextAssemble DEF Inv
<1>3. ASSUME NEW s \in Streams, ReaderStep(s) PROVE Inv'
  BY <1>1, <1>3, NextReader DEF Inv
<1>4. CASE MainStep  BY <1>1, <1>4, NextMain DEF Inv
<1>5. CASE UNCHANGED vars
  BY <1>1, <1>5 DEF vars, readVars, Inv, MainInv, Abandoned, Progress, Taken, Pending
<1> QED BY <1>2, <1>3, <1>4, <1>5 DEF Next

LEMMA Invariance == Spec => []Inv
BY InitInv, NextInv, PTL DEF Spec

-----------------------------------------------------------------------------
(* The properties *)

\* Main waits for a reader exactly while it is at work, and no stream has more
\* records read than are parsed.
THEOREM TypeCorrect == Spec => []TypeOK
<1>1. Inv => TypeOK  BY DEF Inv
<1> QED BY <1>1, Invariance, PTL

\* At the end every reader has taken all that was captured.
LEMMA AllTaken ==
  ASSUME Inv, MainAt("written"), NEW s \in Streams
  PROVE /\ reader[s] = "returned" /\ Taken(s) = Len(captured[s])
        /\ Len(captured[s]) \in Nat /\ Progress(s)
BY DEF Inv, MainInv, MainAt, Abandoned, Taken, Pending, TypeOK

\* An output is written only when no stream was left unread
\* (main.go:186-187, stream.go:232-248).
THEOREM WrittenMeansAllRead == Spec => []WrittenIfAllRead
<1>1. Inv => WrittenIfAllRead
  <2> SUFFICES ASSUME Inv, MainAt("written"), NEW s \in Streams
               PROVE reader[s] = "returned" /\ ~LeftUnread(s)
    BY DEF WrittenIfAllRead
  <2> DEFINE n == Len(captured[s])
  <2>1. reader[s] = "returned" /\ n \in Nat
    BY AllTaken
  <2>2. ReadSoFar(kind[s], mode[s], records[s], session[s], captured[s], n)
    BY AllTaken DEF Progress
  <2> HIDE DEF n
  <2>3. SUFFICES ASSUME NEW i \in TlsFrom(s)
                 PROVE n - i < RecordLimit /\ \A j \in (i + 1)..n : captured[s][j] \in TlsRecords
    <3>1. TlsFrom(s) \subseteq Int  BY DEF TlsFrom
    <3> QED BY <2>1, <2>3, <3>1, ParserAssumption DEF LeftUnread, n
  <2>4. CASE kind[s] = "tls"
    BY <2>1, <2>2, <2>3, <2>4 DEF TlsFrom, ReadSoFar
  <2>5. CASE kind[s] = "server"
    <3>1. i \in 1..n /\ captured[s][i] = "go"  BY <2>3, <2>5 DEF TlsFrom, n
    <3>2. PICK b \in 1..n : BeganAt(captured[s], n, records[s], b)
      BY <2>1, <2>2, <2>5, <3>1 DEF ReadSoFar, Has
    <3>3. i = b
      BY <2>1, <3>1, <3>2 DEF BeganAt, Has, TlsRecords
    <3> QED BY <2>1, <3>2, <3>3 DEF BeganAt
  <2>6. kind[s] \in {"tls", "server"}  BY <2>3 DEF TlsFrom
  <2> QED BY <2>4, <2>5, <2>6
<1> QED BY <1>1, Invariance, PTL

\* What an output tells of a stream is what the stream held
\* (stream.go:172-206, handshake.go:192-216).
THEOREM OutputIsTrue == Spec => []ReportIsTrue
<1>1. Inv => ReportIsTrue
  <2> SUFFICES ASSUME Inv, MainAt("written"), NEW s \in Streams
               PROVE LET Shown(items) == \E i \in 1..Len(captured[s]) : captured[s][i] \in items
                         hello == Shown({"hello", "hello+cert"}) IN
                     /\ kind[s] = "tls" =>
                          /\ Told(s).hello <=> hello
                          /\ Told(s).certs <=> hello /\ Shown({"cert"})
                     /\ kind[s] \in {"server", "client"} =>
                          /\ Told(s).starttls <=> Shown({"mention", "go"})
                          /\ Told(s).hello \/ Told(s).certs =>
                               kind[s] = "server" /\ Shown({"go"})
    BY DEF ReportIsTrue
  <2> DEFINE n == Len(captured[s])
             Shows(items) == Has(captured[s], n, items)
  <2>1. /\ n \in Nat
        /\ ReadSoFar(kind[s], mode[s], records[s], session[s], captured[s], n)
        /\ s \in output <=> Meaningful(session[s])
    BY AllTaken DEF Progress
  <2>2. ~Nothing.hello /\ ~Nothing.certs /\ ~Nothing.starttls  BY DEF Nothing
  <2>3. ASSUME kind[s] = "tls"
        PROVE /\ Told(s).hello <=> Shows({"hello", "hello+cert"})
              /\ Told(s).certs <=> Shows({"hello", "hello+cert"}) /\ Shows({"cert"})
    <3>1. /\ session[s].hello <=> Shows({"hello", "hello+cert"})
          /\ session[s].certs <=> Shows({"cert"})
          /\ s \in output <=> session[s].hello
      BY <2>1, <2>3 DEF ReadSoFar, Meaningful
    <3> QED BY <2>2, <3>1 DEF Told
  <2>4. ASSUME kind[s] \in {"server", "client"}
        PROVE /\ Told(s).starttls <=> Shows({"mention", "go"})
              /\ Told(s).hello \/ Told(s).certs =>
                   kind[s] = "server" /\ Shows({"go"})
    <3>1. /\ session[s].starttls <=> Shows({"mention", "go"})
          /\ session[s].starttls => s \in output
          /\ session[s].hello \/ session[s].certs => mode[s] = "records"
      BY <2>1, <2>4 DEF ReadSoFar, Meaningful
    <3>2. mode[s] = "records" => kind[s] = "server" /\ Shows({"go"})
      BY <2>1, <2>4 DEF ReadSoFar, BeganAt, Has
    <3> QED BY <2>2, <3>1, <3>2 DEF Told
  <2> QED BY <2>3, <2>4 DEF Has
<1> QED BY <1>1, Invariance, PTL
=============================================================================
