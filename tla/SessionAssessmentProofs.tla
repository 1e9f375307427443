---------------------- MODULE SessionAssessmentProofs ----------------------
(***************************************************************************)
(* TLS inspection and assessment for any number of streams and keys, any   *)
(* offers of the servers and any certificates.                             *)
(*                                                                         *)
(* The inductive invariant has three parts: what the aggregation knows of  *)
(* each stream, how the results are mapped to keys, and what the session   *)
(* was assessed from.  The properties then follow from the tables.         *)
(***************************************************************************)
EXTENDS SessionAssessment, FiniteSetTheorems, TLAPS

-----------------------------------------------------------------------------
(* The invariant *)

\* Before the ServerHello the version is the one of the first record.
FirstRecord ==
  \A s \in Streams :
    /\ stage[s] = "start" => seen[s] = {}
    /\ "ServerHello" \in seen[s] => stage[s] \notin {"start", "ClientHello"}
    /\ "ServerHello" \notin seen[s] /\ seen[s] # {} =>
         result[s].version = IF "ClientHello" \in seen[s] THEN "TLS 1.0" ELSE Legacy(s)

\* ResultIsNegotiated, of one stream.
Negotiated(s) ==
  IF "ServerHello" \in seen[s]
  THEN /\ result[s].serverHello
       /\ result[s].version = Version(s) /\ result[s].cipher = Suite(s)
       /\ result[s].group <=> Version(s) = "TLS 1.3"
  ELSE /\ ~result[s].serverHello /\ ~result[s].group
       /\ result[s].cipher = Unset
       /\ result[s].version = Unset <=> seen[s] = {}

InspectInv == InspectTypeOK /\ FirstRecord /\ ResultIsNegotiated

ListedStreams == {s \in Streams : Listed(s)}
ListedKeys    == {keyOf[s] : s \in ListedStreams}

MapInv ==
  /\ pc \in {"capture", "match", "done"}
  /\ pc = "capture" => tlsByKey = <<>>
  /\ \/ tlsByKey = <<>>
     \/ /\ tlsByKey \in [ListedKeys -> ListedStreams]
        /\ \A k \in ListedKeys : keyOf[tlsByKey[k]] = k

\* What the session is made of.
MadeOf(k, source, verdict, events, cert) ==
  /\ source \in IF Sources(k) = {} THEN {Nil} ELSE Sources(k)
  /\ cert \in Parsed(source)
  /\ session = Assessed(k, source, verdict, events, cert)

SessionInv ==
  pc = "done" =>
    \E k \in Keys, source \in Streams \cup {Nil}, verdict \in CoherentVerdicts,
       events \in {{}, {"command"}, {"command", "login"}},
       cert \in CertificateInfo \cup {Nil} : MadeOf(k, source, verdict, events, cert)

Inv == InspectInv /\ MapInv /\ SessionInv

-----------------------------------------------------------------------------
(* The names of the suites *)

LEMMA SuiteNames ==
  /\ Unset \notin Suites /\ Unset \notin Versions
  /\ Named \subseteq Suites
  /\ \A c \in Suites : c \notin Named => Words[c] = {}
  /\ \A c \in Named : Words[c] = NameWords[c]
<1>1. Unset \notin Named /\ Unset \notin Codes /\ Unset \notin Versions
  BY DEF Named, NameWords, Codes, Unset, Versions
<1> QED BY <1>1 DEF Suites, Words

\* What the rules and the tables rely on in the words of a name, and what the
\* words say of the suite.
LEMMA SuiteWords ==
  ASSUME NEW c \in Named, NEW w, w = Words[c]
  PROVE /\ "DES" \in w => "CBC" \in w
        /\ w \cap {"CBC", "RC4"} # {} => w \cap {"GCM", "POLY1305"} = {}
        /\ w \cap {"CBC", "RC4", "GCM", "POLY1305"} # {}
        /\ w \cap {"DHE", "TLS 1.3"} = {} => "RSA_WITH" \in w
        /\ w \cap {"AES_256_GCM", "CHACHA20", "AES_128_GCM"} # {} =>
             w \cap {"GCM", "POLY1305"} # {}
        /\ w \cap {"GCM", "POLY1305"} # {} =>
             w \cap {"AES_256_GCM", "CHACHA20", "AES_128_GCM"} # {}
        /\ w \cap {"CBC", "RC4"} # {} <=>
             w \cap {"AES_256_CBC", "AES_128_CBC", "3DES", "RC4"} # {}
        /\ w \cap {"CBC", "RC4"} # {} <=> c \notin Authenticated
        /\ "DHE" \in w \/ "TLS 1.3" \in w <=> c \in Ephemeral
        /\ "TLS 1.3" \in w <=> c \in Tls13
<1>0. w = NameWords[c]  BY SuiteNames
<1>1. c \in {"TLS_AES_128_GCM_SHA256",
             "TLS_AES_256_GCM_SHA384",
             "TLS_CHACHA20_POLY1305_SHA256",
             "TLS_ECDHE_RSA_WITH_AES_128_GCM_SHA256",
             "TLS_ECDHE_RSA_WITH_AES_256_GCM_SHA384",
             "TLS_ECDHE_RSA_WITH_AES_128_CBC_SHA256",
             "TLS_ECDHE_RSA_WITH_AES_256_CBC_SHA384",
             "TLS_RSA_WITH_AES_128_GCM_SHA256",
             "TLS_RSA_WITH_AES_256_GCM_SHA384",
             "TLS_RSA_WITH_AES_128_CBC_SHA",
             "TLS_RSA_WITH_AES_256_CBC_SHA",
             "TLS_RSA_WITH_3DES_EDE_CBC_SHA",
             "TLS_RSA_WITH_RC4_128_SHA"}
  BY DEF Named, NameWords
<1>2. CASE c = "TLS_AES_128_GCM_SHA256"
  <2>1. w = {"TLS 1.3", "GCM", "AES_128_GCM", "128"}  BY <1>0, <1>2 DEF NameWords
  <2> QED BY <1>2, <2>1 DEF Authenticated, Ephemeral, Tls13
<1>3. CASE c = "TLS_AES_256_GCM_SHA384"
  <2>1. w = {"TLS 1.3", "GCM", "AES_256_GCM", "256"}  BY <1>0, <1>3 DEF NameWords
  <2> QED BY <1>3, <2>1 DEF Authenticated, Ephemeral, Tls13
<1>4. CASE c = "TLS_CHACHA20_POLY1305_SHA256"
  <2>1. w = {"TLS 1.3", "POLY1305", "CHACHA20", "256"}  BY <1>0, <1>4 DEF NameWords
  <2> QED BY <1>4, <2>1 DEF Authenticated, Ephemeral, Tls13
<1>5. CASE c = "TLS_ECDHE_RSA_WITH_AES_128_GCM_SHA256"
  <2>1. w = {"DHE", "RSA_WITH", "GCM", "AES_128_GCM", "128"}  BY <1>0, <1>5 DEF NameWords
  <2> QED BY <1>5, <2>1 DEF Authenticated, Ephemeral, Tls13
<1>6. CASE c = "TLS_ECDHE_RSA_WITH_AES_256_GCM_SHA384"
  <2>1. w = {"DHE", "RSA_WITH", "GCM", "AES_256_GCM", "256"}  BY <1>0, <1>6 DEF NameWords
  <2> QED BY <1>6, <2>1 DEF Authenticated, Ephemeral, Tls13
<1>7. CASE c = "TLS_ECDHE_RSA_WITH_AES_128_CBC_SHA256"
  <2>1. w = {"DHE", "RSA_WITH", "CBC", "AES_128_CBC", "128"}  BY <1>0, <1>7 DEF NameWords
  <2> QED BY <1>7, <2>1 DEF Authenticated, Ephemeral, Tls13
<1>8. CASE c = "TLS_ECDHE_RSA_WITH_AES_256_CBC_SHA384"
  <2>1. w = {"DHE", "RSA_WITH", "CBC", "AES_256_CBC", "256"}  BY <1>0, <1>8 DEF NameWords
  <2> QED BY <1>8, <2>1 DEF Authenticated, Ephemeral, Tls13
<1>9. CASE c = "TLS_RSA_WITH_AES_128_GCM_SHA256"
  <2>1. w = {"RSA_WITH", "GCM", "AES_128_GCM", "128"}  BY <1>0, <1>9 DEF NameWords
  <2> QED BY <1>9, <2>1 DEF Authenticated, Ephemeral, Tls13
<1>10. CASE c = "TLS_RSA_WITH_AES_256_GCM_SHA384"
  <2>1. w = {"RSA_WITH", "GCM", "AES_256_GCM", "256"}  BY <1>0, <1>10 DEF NameWords
  <2> QED BY <1>10, <2>1 DEF Authenticated, Ephemeral, Tls13
<1>11. CASE c = "TLS_RSA_WITH_AES_128_CBC_SHA"
  <2>1. w = {"RSA_WITH", "CBC", "AES_128_CBC", "128"}  BY <1>0, <1>11 DEF NameWords
  <2> QED BY <1>11, <2>1 DEF Authenticated, Ephemeral, Tls13
<1>12. CASE c = "TLS_RSA_WITH_AES_256_CBC_SHA"
  <2>1. w = {"RSA_WITH", "CBC", "AES_256_CBC", "256"}  BY <1>0, <1>12 DEF NameWords
  <2> QED BY <1>12, <2>1 DEF Authenticated, Ephemeral, Tls13
<1>13. CASE c = "TLS_RSA_WITH_3DES_EDE_CBC_SHA"
  <2>1. w = {"RSA_WITH", "3DES", "DES", "CBC"}  BY <1>0, <1>13 DEF NameWords
  <2> QED BY <1>13, <2>1 DEF Authenticated, Ephemeral, Tls13
<1>14. CASE c = "TLS_RSA_WITH_RC4_128_SHA"
  <2>1. w = {"RSA_WITH", "RC4", "128"}  BY <1>0, <1>14 DEF NameWords
  <2> QED BY <1>14, <2>1 DEF Authenticated, Ephemeral, Tls13
<1> QED BY <1>1, <1>2, <1>3, <1>4, <1>5, <1>6, <1>7, <1>8,
         <1>9, <1>10, <1>11, <1>12, <1>13, <1>14

\* The name of a suite of TLS 1.3 tells it.
LEMMA VersionOfName ==
  ASSUME NEW c \in Named PROVE "TLS 1.3" \in Words[c] <=> c \in Tls13
<1>1. PICK w : w = Words[c]  OBVIOUS
<1> QED BY <1>1, SuiteWords

\* So does the name of a suite without forward secrecy.
LEMMA StaticNames ==
  ASSUME NEW c \in Named, c \notin Ephemeral
  PROVE "RSA_WITH" \in Words[c] /\ "DHE" \notin Words[c]
<1>1. PICK w : w = Words[c]  OBVIOUS
<1>2. "DHE" \notin w /\ "TLS 1.3" \notin w  BY <1>1, SuiteWords
<1>3. w \cap {"DHE", "TLS 1.3"} = {}  BY <1>2
<1>4. "RSA_WITH" \in w  BY <1>1, <1>3, SuiteWords
<1> QED BY <1>1, <1>2, <1>4

-----------------------------------------------------------------------------
(* Inspection *)

LEMMA OfferFacts ==
  ASSUME InspectTypeOK, NEW s \in Streams
  PROVE /\ Version(s) \in Versions /\ Suite(s) \in Suites /\ Legacy(s) \in Versions
        /\ Version(s) = "TLS 1.3" <=> Suite(s) \in Tls13
<1>1. agreed[s] \in Offers  BY DEF InspectTypeOK
<1>2. agreed[s] \in Versions \X Suites  BY <1>1, TlsAssumption
<1> QED BY <1>1, <1>2, TlsAssumption DEF Version, Suite, Legacy, Versions

LEMMA AggregateType ==
  ASSUME NEW r \in TlsInfo, NEW p,
         p.record \in Versions, p.supported \in Versions \cup {Unset},
         p.legacy \in Versions \cup {Unset}, p.suite \in Suites \cup {Unset},
         p.group \in BOOLEAN
  PROVE Aggregate(r, p) \in TlsInfo
BY DEF Aggregate, NoteVersion, Selected, TlsInfo

LEMMA AggregateFields ==
  ASSUME NEW r, NEW p, NEW new, new = Aggregate(r, p)
  PROVE /\ new.version = NoteVersion(r, p)
        /\ new.cipher = IF p.kind = "ServerHello" THEN p.suite ELSE r.cipher
        /\ new.group <=> r.group \/ p.group
        /\ new.serverHello <=> r.serverHello \/ p.kind = "ServerHello"
BY DEF Aggregate

LEMMA OthersNegotiated ==
  ASSUME ResultIsNegotiated, NEW s \in Streams, Negotiated(s)', UNCHANGED agreed,
         \A x \in Streams \ {s} : result'[x] = result[x] /\ seen'[x] = seen[x]
  PROVE ResultIsNegotiated'
<1>1. ASSUME NEW x \in Streams \ {s} PROVE Negotiated(x)'
  <2>1. Negotiated(x)  BY DEF ResultIsNegotiated, Negotiated
  <2> QED BY <2>1 DEF Negotiated, Version, Suite
<1>2. \A x \in Streams : Negotiated(x)'  BY <1>1
<1> QED BY <1>2 DEF ResultIsNegotiated, Negotiated

LEMMA PacketInv ==
  ASSUME InspectInv, NEW s \in Streams, Packet(s) PROVE InspectInv'
<1>0. InspectTypeOK /\ FirstRecord /\ ResultIsNegotiated /\ result[s] \in TlsInfo
  BY DEF InspectInv, InspectTypeOK
<1>1. PICK from, p :
        /\ Sniff(s, from, p)
        /\ \/ from = {"start"} /\ p = ClientHello
           \/ from = {"ClientHello"} /\ p = ServerHello(s)
           \/ from = {"ServerHello"} /\ p = Plain("Certificate", Legacy(s))
           \/ /\ from = {"ClientHello", "ServerHello", "Certificate"}
              /\ p = Plain("Alert", Legacy(s))
  BY DEF Packet
<1>2. /\ Version(s) \in Versions /\ Suite(s) \in Suites /\ Legacy(s) \in Versions
      /\ Unset \notin Suites /\ Unset \notin Versions
  BY <1>0, OfferFacts, SuiteNames
<1>3. /\ p.kind \in Stages \ {"start"} /\ p.record \in Versions
      /\ p.supported \in Versions \cup {Unset} /\ p.legacy \in Versions \cup {Unset}
      /\ p.suite \in Suites \cup {Unset} /\ p.group \in BOOLEAN
  <2>1. CASE p = ClientHello
    BY <2>1 DEF ClientHello, Plain, Stages, Versions
  <2>2. CASE p = ServerHello(s)
    BY <1>2, <2>2 DEF ServerHello, Stages, Versions
  <2>3. ASSUME NEW kind \in {"Certificate", "Alert"}, p = Plain(kind, Legacy(s))
        PROVE /\ p.kind \in Stages \ {"start"} /\ p.record \in Versions
              /\ p.supported = Unset /\ p.legacy = Unset /\ p.suite = Unset
              /\ p.group = FALSE
    BY <1>2, <2>3 DEF Plain, Stages
  <2> QED BY <1>1, <2>1, <2>2, <2>3
<1>4. /\ p.kind = "ServerHello" =>
           /\ Selected(p) = Version(s) /\ p.suite = Suite(s)
           /\ p.group <=> Version(s) = "TLS 1.3"
           /\ from = {"ClientHello"}
      /\ p.kind # "ServerHello" => ~p.group
      /\ p.kind = "ClientHello" => p.record = "TLS 1.0" /\ from = {"start"}
      /\ p.kind \in {"Certificate", "Alert"} => p.record = Legacy(s)
      /\ "start" \in from => p.kind = "ClientHello"
  <2>1. CASE from = {"start"} /\ p = ClientHello
    BY <2>1 DEF ClientHello, Plain
  <2>2. CASE from = {"ClientHello"} /\ p = ServerHello(s)
    BY <1>2, <2>2 DEF ServerHello, Selected, Legacy
  <2>3. ASSUME NEW kind \in {"Certificate", "Alert"}, p = Plain(kind, Legacy(s))
        PROVE p.kind = kind /\ ~p.group /\ p.record = Legacy(s)
    BY <2>3 DEF Plain
  <2> QED BY <1>1, <2>1, <2>2, <2>3
<1>5. /\ stage' = [stage EXCEPT ![s] = p.kind] /\ stage[s] \in from
      /\ UNCHANGED <<keyOf, agreed>>
  BY <1>1 DEF Sniff
<1>6. CASE UNCHANGED <<result, seen>>
  <2>1. InspectTypeOK'  BY <1>0, <1>3, <1>5, <1>6 DEF InspectTypeOK
  <2>2. FirstRecord'
    BY <1>0, <1>3, <1>4, <1>5, <1>6 DEF FirstRecord, InspectTypeOK, Legacy, Version
  <2>3. ResultIsNegotiated'
    BY <1>0, <1>5, <1>6 DEF ResultIsNegotiated, Version, Suite
  <2> QED BY <2>1, <2>2, <2>3 DEF InspectInv
<1>7. CASE /\ result' = [result EXCEPT ![s] = Aggregate(@, p)]
           /\ seen' = [seen EXCEPT ![s] = @ \cup {p.kind}]
  <2>1. Aggregate(result[s], p) \in TlsInfo  BY <1>0, <1>3, AggregateType
  <2>2. /\ result'[s] = Aggregate(result[s], p) /\ seen'[s] = seen[s] \cup {p.kind}
        /\ stage'[s] = p.kind
        /\ \A x \in Streams \ {s} :
             result'[x] = result[x] /\ seen'[x] = seen[x] /\ stage'[x] = stage[x]
    BY <1>0, <1>5, <1>7 DEF InspectTypeOK
  <2>6. /\ result'[s].version = NoteVersion(result[s], p)
        /\ result'[s].cipher = IF p.kind = "ServerHello" THEN p.suite ELSE result[s].cipher
        /\ result'[s].group <=> result[s].group \/ p.group
        /\ result'[s].serverHello <=> result[s].serverHello \/ p.kind = "ServerHello"
    BY <2>2, AggregateFields
  <2>3. InspectTypeOK'
    BY <1>0, <1>3, <1>5, <1>7, <2>1 DEF InspectTypeOK
  <2>4. CASE p.kind = "ServerHello"
    <3>1. "ServerHello" \notin seen[s] /\ stage[s] = "ClientHello"
      BY <1>0, <1>4, <1>5, <2>4 DEF FirstRecord
    <3>2. /\ result'[s].serverHello /\ result'[s].version = Version(s)
          /\ result'[s].cipher = Suite(s)
          /\ result'[s].group <=> Version(s) = "TLS 1.3"
      <4>1. ~result[s].group  BY <1>0, <3>1 DEF ResultIsNegotiated
      <4> QED BY <1>4, <2>4, <2>6, <4>1 DEF NoteVersion
    <3>3. FirstRecord'  BY <1>0, <1>5, <2>2, <2>4, <3>1 DEF FirstRecord, Legacy, Version
    <3>4. ResultIsNegotiated'
      <4>1. Negotiated(s)'  BY <1>5, <2>2, <2>4, <3>2 DEF Negotiated, Version, Suite
      <4> QED BY <1>0, <1>5, <2>2, <4>1, OthersNegotiated
    <3> QED BY <2>3, <3>3, <3>4 DEF InspectInv
  <2>5. CASE p.kind # "ServerHello"
    <3>1. /\ result'[s].version =
               IF result[s].version = Unset THEN p.record ELSE result[s].version
          /\ result'[s].cipher = result[s].cipher
          /\ result'[s].group <=> result[s].group
          /\ result'[s].serverHello <=> result[s].serverHello
      BY <1>4, <2>5, <2>6 DEF NoteVersion
    <3>2. "ServerHello" \in seen'[s] <=> "ServerHello" \in seen[s]
      BY <2>2, <2>5
    <3>3. p.kind = "ClientHello" => seen[s] = {}
      BY <1>0, <1>4, <1>5 DEF FirstRecord
    <3>4. FirstRecord'
      <4>1. ASSUME "ServerHello" \notin seen[s]
            PROVE result'[s].version =
                    IF "ClientHello" \in seen'[s] THEN "TLS 1.0" ELSE Legacy(s)
        <5>1. CASE seen[s] = {}
          <6>1. result'[s].version = p.record
            BY <1>0, <3>1, <4>1, <5>1 DEF ResultIsNegotiated
          <6>2. "ClientHello" \in seen'[s] <=> p.kind = "ClientHello"
            BY <2>2, <5>1
          <6>3. p.kind \in {"ClientHello", "Certificate", "Alert"}
            BY <1>3, <2>5 DEF Stages
          <6> QED BY <1>4, <6>1, <6>2, <6>3
        <5>2. CASE seen[s] # {}
          <6>1. result[s].version # Unset
            BY <1>0, <4>1, <5>2 DEF ResultIsNegotiated
          <6>2. result[s].version =
                  IF "ClientHello" \in seen[s] THEN "TLS 1.0" ELSE Legacy(s)
            BY <1>0, <4>1, <5>2 DEF FirstRecord
          <6> QED BY <2>2, <3>1, <3>3, <5>2, <6>1, <6>2
        <5> QED BY <5>1, <5>2
      <4>2. /\ stage'[s] # "start"
            /\ "ServerHello" \in seen'[s] => stage'[s] \notin {"start", "ClientHello"}
        BY <1>3, <2>2, <2>5, <3>3
      <4> QED BY <1>0, <1>5, <2>2, <3>2, <4>1, <4>2 DEF FirstRecord, Legacy, Version
    <3>5. ResultIsNegotiated'
      <4>1. /\ "ServerHello" \notin seen[s] => result'[s].version # Unset
        BY <1>2, <1>3, <3>1
      <4>2. "ServerHello" \in seen[s] => result'[s].version = result[s].version
        BY <1>0, <1>2, <3>1 DEF ResultIsNegotiated
      <4>3. seen'[s] # {}  BY <2>2
      <4>4. Negotiated(s)  BY <1>0 DEF ResultIsNegotiated, Negotiated
      <4>5. Negotiated(s)'
        BY <1>5, <3>1, <3>2, <4>1, <4>2, <4>3, <4>4 DEF Negotiated, Version, Suite
      <4> QED BY <1>0, <1>5, <2>2, <4>5, OthersNegotiated
    <3> QED BY <2>3, <3>4, <3>5 DEF InspectInv
  <2> QED BY <2>4, <2>5
<1> QED BY <1>1, <1>6, <1>7 DEF Sniff

-----------------------------------------------------------------------------
(* The invariant is inductive *)

LEMMA NoResultType == NoResult \in TlsInfo
BY DEF NoResult, TlsInfo

LEMMA InitInv == Init => Inv
<1> SUFFICES ASSUME Init PROVE Inv OBVIOUS
<1>1. InspectInv
  <2>1. InspectTypeOK  BY NoResultType DEF Init, InspectInit, InspectTypeOK, Stages
  <2>2. FirstRecord  BY DEF Init, InspectInit, FirstRecord
  <2>3. ResultIsNegotiated  BY DEF Init, InspectInit, ResultIsNegotiated, NoResult
  <2> QED BY <2>1, <2>2, <2>3 DEF InspectInv
<1>2. MapInv  BY DEF Init, MapInv
<1>3. SessionInv  BY DEF Init, SessionInv
<1> QED BY <1>1, <1>2, <1>3 DEF Inv

LEMMA ParsedType ==
  ASSUME NEW source, NEW cert \in Parsed(source) PROVE cert \in CertificateInfo \cup {Nil}
<1>1. \A leaf \in Certificates : AnalyzeCertificate(leaf) \in CertificateInfo
  BY CertificateAssumption DEF AnalyzeCertificate, CertificateInfo, Algorithms, Signatures
<1> QED BY <1>1 DEF Parsed

LEMMA SourceType ==
  ASSUME MapInv, NEW k, NEW source \in IF Sources(k) = {} THEN {Nil} ELSE Sources(k)
  PROVE source \in Streams \cup {Nil}
<1>1. CASE tlsByKey = <<>>
  <2>1. DOMAIN tlsByKey = {}  BY <1>1
  <2> QED BY <2>1 DEF Sources, Range
<1>2. CASE tlsByKey \in [ListedKeys -> ListedStreams]
  BY <1>2 DEF Sources, Range, ListedStreams
<1> QED BY <1>1, <1>2 DEF MapInv

LEMMA NextInv == Inv /\ [Next]_<<inspectVars, assessVars>> => Inv'
<1> SUFFICES ASSUME Inv, [Next]_<<inspectVars, assessVars>> PROVE Inv' OBVIOUS
<1>0. InspectInv /\ MapInv /\ SessionInv  BY DEF Inv
<1>1. CASE Capturing
  <2>1. InspectInv'  BY <1>0, <1>1, PacketInv DEF Capturing
  <2>2. pc = "capture" /\ UNCHANGED assessVars  BY <1>1 DEF Capturing
  <2>3. MapInv' /\ SessionInv'  BY <1>0, <2>2 DEF assessVars, MapInv, SessionInv
  <2> QED BY <2>1, <2>3 DEF Inv
<1>2. CASE Inspect
  <2>1. UNCHANGED inspectVars /\ pc' = "match"  BY <1>2 DEF Inspect
  <2>2. InspectInv'
    BY <1>0, <2>1 DEF inspectVars, InspectInv, InspectTypeOK, FirstRecord,
                      ResultIsNegotiated, Legacy, Version, Suite
  <2>3. MapInv'
    BY <1>2, <2>1 DEF Inspect, MapInv, ListedStreams, ListedKeys, Listed, inspectVars
  <2>4. SessionInv'  BY <2>1 DEF SessionInv
  <2> QED BY <2>2, <2>3, <2>4 DEF Inv
<1>3. ASSUME NEW k \in Keys, AssessSession(k) PROVE Inv'
  <2>1. UNCHANGED <<inspectVars, tlsByKey>> /\ pc' = "done"  BY <1>3 DEF AssessSession
  <2>2. InspectInv'
    BY <1>0, <2>1 DEF inspectVars, InspectInv, InspectTypeOK, FirstRecord,
                      ResultIsNegotiated, Legacy, Version, Suite
  <2>3. MapInv'
    <3>1. ListedStreams' = ListedStreams /\ ListedKeys' = ListedKeys
      BY <2>1 DEF ListedStreams, ListedKeys, Listed, inspectVars
    <3> QED BY <1>0, <2>1, <3>1 DEF MapInv, inspectVars
  <2>4. PICK source \in IF Sources(k) = {} THEN {Nil} ELSE Sources(k),
             verdict \in CoherentVerdicts,
             events \in {{}, {"command"}, {"command", "login"}} :
          \E cert \in Parsed(source) :
            session' = Assessed(k, source, verdict, events, cert)
    BY <1>3 DEF AssessSession
  <2>9. PICK cert \in Parsed(source) : session' = Assessed(k, source, verdict, events, cert)
    BY <2>4
  <2>5. source \in Streams \cup {Nil} /\ cert \in CertificateInfo \cup {Nil}
    BY <1>0, SourceType, ParsedType
  <2>6. /\ Sources(k)' = Sources(k) /\ Parsed(source)' = Parsed(source)
        /\ Assessed(k, source, verdict, events, cert)'
             = Assessed(k, source, verdict, events, cert)
    BY <2>1 DEF inspectVars, Sources, Parsed, Assessed, Unsourced
  <2>7. MadeOf(k, source, verdict, events, cert)'
    BY <2>9, <2>6 DEF MadeOf
  <2>8. SessionInv'  BY <2>5, <2>7 DEF SessionInv
  <2> QED BY <2>2, <2>3, <2>8 DEF Inv
<1>4. CASE UNCHANGED <<inspectVars, assessVars>>
  <2>1. InspectInv'
    BY <1>0, <1>4 DEF inspectVars, InspectInv, InspectTypeOK, FirstRecord,
                      ResultIsNegotiated, Legacy, Version, Suite
  <2>2. MapInv'
    BY <1>0, <1>4 DEF MapInv, ListedKeys, ListedStreams, Listed, inspectVars, assessVars
  <2>3. SessionInv'
    BY <1>0, <1>4 DEF SessionInv, MadeOf, Sources, Parsed, Assessed, Unsourced,
                      inspectVars, assessVars
  <2> QED BY <2>1, <2>2, <2>3 DEF Inv
<1> QED BY <1>1, <1>2, <1>3, <1>4 DEF Next

-----------------------------------------------------------------------------
(* Where a session's TLS information comes from *)

LEMMA KeysAreFinite == IsFiniteSet(ListedKeys)
<1>1. IsFiniteSet(ListedStreams)
  BY TlsAssumption, FS_Subset DEF ListedStreams
<1> DEFINE f == [s \in ListedStreams |-> keyOf[s]]
<1>2. f \in Surjection(ListedStreams, ListedKeys)
  BY DEF Surjection, ListedKeys
<1> QED BY <1>1, <1>2, FS_Surjection

LEMMA SourceFacts ==
  ASSUME MapInv, NEW k,
         NEW source \in IF Sources(k) = {} THEN {Nil} ELSE Sources(k)
  PROVE /\ source # Nil =>
             /\ source \in ListedStreams
             /\ k \in ListedKeys => keyOf[source] = k
             /\ k \notin ListedKeys =>
                  \A s \in ListedStreams : keyOf[s] = keyOf[source]
        /\ DOMAIN tlsByKey # {} => DOMAIN tlsByKey = ListedKeys
        /\ DOMAIN tlsByKey # {} /\ k \in ListedKeys => source # Nil
<1>1. CASE tlsByKey = <<>>
  <2>1. DOMAIN tlsByKey = {}  BY <1>1
  <2>2. Sources(k) = {}  BY <2>1 DEF Sources, Range
  <2> QED BY <2>1, <2>2
<1>2. CASE /\ tlsByKey \in [ListedKeys -> ListedStreams]
           /\ \A x \in ListedKeys : keyOf[tlsByKey[x]] = x
  <2>1. DOMAIN tlsByKey = ListedKeys  BY <1>2
  <2>2. CASE k \in ListedKeys
    <3>1. Sources(k) = {tlsByKey[k]} /\ tlsByKey[k] \in ListedStreams
      BY <1>2, <2>1, <2>2 DEF Sources
    <3>2. tlsByKey[k] # Nil  BY <3>1, NilAssumption DEF ListedStreams
    <3> QED BY <1>2, <2>1, <2>2, <3>1, <3>2
  <2>3. CASE k \notin ListedKeys /\ Cardinality(ListedKeys) = 1
    <3>1. PICK x : ListedKeys = {x}
      BY <2>3, KeysAreFinite, FS_Singleton
    <3>2. Sources(k) = {tlsByKey[x]} /\ tlsByKey[x] \in ListedStreams
      BY <1>2, <2>1, <2>3, <3>1 DEF Sources, Range
    <3>3. keyOf[tlsByKey[x]] = x  BY <1>2, <3>1
    <3>4. \A s \in ListedStreams : keyOf[s] = x  BY <3>1 DEF ListedKeys
    <3> QED BY <2>1, <2>3, <3>2, <3>3, <3>4
  <2>4. CASE k \notin ListedKeys /\ Cardinality(ListedKeys) # 1
    <3>1. Sources(k) = {}  BY <2>1, <2>4 DEF Sources
    <3> QED BY <2>1, <2>4, <3>1
  <2> QED BY <2>2, <2>3, <2>4
<1> QED BY <1>1, <1>2 DEF MapInv

-----------------------------------------------------------------------------
(* The findings and the scores *)

Ids(findings) == {f.id : f \in findings}

LEMMA IdsUnion ==
  ASSUME NEW S, NEW T, NEW i PROVE i \in Ids(S \cup T) <=> i \in Ids(S) \/ i \in Ids(T)
BY DEF Ids

LEMMA IdsNone == ASSUME NEW i PROVE i \notin Ids({})
BY DEF Ids

LEMMA IdsUnion3 ==
  ASSUME NEW S, NEW T, NEW U, NEW i
  PROVE i \in Ids(S \cup T \cup U) <=> i \in Ids(S) \/ i \in Ids(T) \/ i \in Ids(U)
BY DEF Ids

LEMMA IdsOne ==
  ASSUME NEW id, NEW severity, NEW i
  PROVE i \in Ids({[id |-> id, severity |-> severity]}) <=> i = id
BY DEF Ids

LEMMA StartTlsIds ==
  ASSUME NEW v, NEW events, NEW i, i \in Ids(StartTlsFindings(v, events))
  PROVE i \in {"STARTTLS-001", "STARTTLS-002", "PLAINTEXT-001"}
BY DEF StartTlsFindings, Raise, Ids

LEMMA CertificateIds ==
  ASSUME NEW cert, NEW i
  PROVE i \in Ids(CertificateFindings(cert)) <=>
          \/ cert.expired /\ i = "CERT-001"
          \/ cert.notYetValid /\ i = "CERT-002"
          \/ cert.algorithm = "RSA" /\ cert.bits \in 1..(MinimumRSABits - 1) /\ i = "KEY-001"
          \/ cert.signature \in {"MD5", "SHA1"} /\ i = "SIG-001"
<1> DEFINE weak == cert.algorithm = "RSA" /\ cert.bits \in 1..(MinimumRSABits - 1)
           old  == cert.signature \in {"MD5", "SHA1"}
           S == Raise(cert.expired, "CERT-001", "HIGH")
           T == Raise(cert.notYetValid, "CERT-002", "HIGH")
           U == Raise(weak, "KEY-001", "HIGH")
           V == Raise(old, "SIG-001", "CRITICAL")
<1>1. /\ i \in Ids(S) <=> cert.expired /\ i = "CERT-001"
      /\ i \in Ids(T) <=> cert.notYetValid /\ i = "CERT-002"
  BY IdsOne, IdsNone DEF Raise
<1>2. i \in Ids(U) <=> weak /\ i = "KEY-001"  BY IdsOne, IdsNone DEF Raise
<1>3. i \in Ids(V) <=> old /\ i = "SIG-001"  BY IdsOne, IdsNone DEF Raise
<1>4. CertificateFindings(cert) = S \cup T \cup U \cup V  BY DEF CertificateFindings
<1> HIDE DEF S, T, U, V
<1>5. i \in Ids(CertificateFindings(cert)) <=>
        i \in Ids(S) \/ i \in Ids(T) \/ i \in Ids(U) \/ i \in Ids(V)
  <2>1. i \in Ids((S \cup T \cup U) \cup V) <=> i \in Ids(S \cup T \cup U) \/ i \in Ids(V)
    BY IdsUnion
  <2>2. i \in Ids(S \cup T \cup U) <=> i \in Ids(S) \/ i \in Ids(T) \/ i \in Ids(U)
    BY IdsUnion3
  <2> QED BY <1>4, <2>1, <2>2
<1> QED BY <1>1, <1>2, <1>3, <1>5

Judged(tls) == tls.cipher # Unset /\ tls.serverHello /\ IsKnown(tls.cipher)

LEMMA CipherIds ==
  ASSUME NEW tls, NEW i
  PROVE i \in Ids(CipherFindings(tls)) <=>
          /\ Judged(tls)
          /\ \/ IsWeak(tls.cipher) /\ i = "CIPHER-001"
             \/ ~IsWeak(tls.cipher) /\ ~IsAEAD(tls.cipher) /\ i = "CIPHER-002"
             \/ ~IsPFS(tls.cipher) /\ i = "FS-001"
<1>1. CASE Judged(tls)
  <2>1. CipherFindings(tls) =
          Raise(IsWeak(tls.cipher), "CIPHER-001", "CRITICAL") \cup
          Raise(~IsWeak(tls.cipher) /\ ~IsAEAD(tls.cipher), "CIPHER-002", "MEDIUM") \cup
          Raise(~IsPFS(tls.cipher), "FS-001", "MEDIUM")
    BY <1>1 DEF CipherFindings, Judged
  <2> DEFINE S == Raise(IsWeak(tls.cipher), "CIPHER-001", "CRITICAL")
             T == Raise(~IsWeak(tls.cipher) /\ ~IsAEAD(tls.cipher), "CIPHER-002", "MEDIUM")
             U == Raise(~IsPFS(tls.cipher), "FS-001", "MEDIUM")
  <2>2. i \in Ids(S) <=> IsWeak(tls.cipher) /\ i = "CIPHER-001"
    BY IdsOne, IdsNone DEF Raise
  <2>3. i \in Ids(T) <=>
          ~IsWeak(tls.cipher) /\ ~IsAEAD(tls.cipher) /\ i = "CIPHER-002"
    BY IdsOne, IdsNone DEF Raise
  <2>4. i \in Ids(U) <=> ~IsPFS(tls.cipher) /\ i = "FS-001"
    BY IdsOne, IdsNone DEF Raise
  <2> HIDE DEF S, T, U
  <2>5. CipherFindings(tls) = S \cup T \cup U  BY <2>1 DEF S, T, U
  <2> QED BY <1>1, <2>2, <2>3, <2>4, <2>5, IdsUnion3
<1>2. CASE ~Judged(tls)
  BY <1>2, IdsNone DEF CipherFindings, Judged
<1> QED BY <1>1, <1>2

TlsFindings(tls) ==
  VersionFindings(tls) \cup CipherFindings(tls) \cup
  Raise(tls.alert, "TLS-FAIL-001", "HIGH")

LEMMA TlsIds ==
  ASSUME NEW tls, NEW i
  PROVE i \in Ids(TlsFindings(tls)) <=>
          \/ tls.version \notin AllowedTLSVersions \cup {Unset} /\ i = "TLS-001"
          \/ i \in Ids(CipherFindings(tls))
          \/ tls.alert /\ i = "TLS-FAIL-001"
<1>1. i \in Ids(VersionFindings(tls)) <=>
        tls.version \notin AllowedTLSVersions \cup {Unset} /\ i = "TLS-001"
  BY IdsOne, IdsNone DEF VersionFindings, Raise
<1>2. i \in Ids(Raise(tls.alert, "TLS-FAIL-001", "HIGH")) <=> tls.alert /\ i = "TLS-FAIL-001"
  BY IdsOne, IdsNone DEF Raise
<1> DEFINE U == Raise(tls.alert, "TLS-FAIL-001", "HIGH")
<1>3. TlsFindings(tls) = VersionFindings(tls) \cup CipherFindings(tls) \cup U
  BY DEF TlsFindings
<1>4. i \in Ids(U) <=> tls.alert /\ i = "TLS-FAIL-001"  BY <1>2
<1> HIDE DEF U
<1> QED BY <1>1, <1>3, <1>4, IdsUnion3

\* Which rule raised a finding can be read from its identifier.
LEMMA IdsOfAssess ==
  ASSUME NEW verdict, NEW events, NEW tls, NEW cert, NEW ids,
         ids = Ids(Assess(verdict, events, tls, cert))
  PROVE /\ "TLS-001" \in ids <=>
             tls # Nil /\ tls.version \notin AllowedTLSVersions \cup {Unset}
        /\ "CIPHER-001" \in ids <=> tls # Nil /\ Judged(tls) /\ IsWeak(tls.cipher)
        /\ "FS-001" \in ids <=> tls # Nil /\ Judged(tls) /\ ~IsPFS(tls.cipher)
        /\ "CERT-001" \in ids <=> cert # Nil /\ cert.expired
        /\ "KEY-001" \in ids <=>
             cert # Nil /\ cert.algorithm = "RSA" /\ cert.bits \in 1..(MinimumRSABits - 1)
        /\ "SIG-001" \in ids <=> cert # Nil /\ cert.signature \in {"MD5", "SHA1"}
<1> DEFINE S == StartTlsFindings(verdict, events)
           T == IF tls = Nil THEN {} ELSE TlsFindings(tls)
           C == IF cert = Nil THEN {} ELSE CertificateFindings(cert)
<1>1. ids = Ids(S \cup T \cup C)  BY DEF Assess, TlsFindings
<1>2. ASSUME NEW i PROVE i \in Ids(T) <=> tls # Nil /\ i \in Ids(TlsFindings(tls))
  BY IdsNone
<1>3. ASSUME NEW i PROVE i \in Ids(C) <=> cert # Nil /\ i \in Ids(CertificateFindings(cert))
  BY IdsNone
<1> HIDE DEF S, T, C
<1>4. ASSUME NEW i PROVE i \in ids <=> i \in Ids(S) \/ i \in Ids(T) \/ i \in Ids(C)
  BY <1>1, IdsUnion
<1>5. \A i : i \in Ids(S) => i \in {"STARTTLS-001", "STARTTLS-002", "PLAINTEXT-001"}
  BY StartTlsIds DEF S
<1>6. \A i : i \in ids <=>
          \/ i \in Ids(S)
          \/ tls # Nil /\ i \in Ids(TlsFindings(tls))
          \/ cert # Nil /\ i \in Ids(CertificateFindings(cert))
  BY <1>2, <1>3, <1>4
<1>7. /\ "TLS-001" \in ids <=> tls # Nil /\ "TLS-001" \in Ids(TlsFindings(tls))
      /\ "CIPHER-001" \in ids <=> tls # Nil /\ "CIPHER-001" \in Ids(TlsFindings(tls))
      /\ "FS-001" \in ids <=> tls # Nil /\ "FS-001" \in Ids(TlsFindings(tls))
  BY <1>5, <1>6, CertificateIds
<1>8. /\ "CERT-001" \in ids <=> cert # Nil /\ "CERT-001" \in Ids(CertificateFindings(cert))
      /\ "KEY-001" \in ids <=> cert # Nil /\ "KEY-001" \in Ids(CertificateFindings(cert))
      /\ "SIG-001" \in ids <=> cert # Nil /\ "SIG-001" \in Ids(CertificateFindings(cert))
  BY <1>5, <1>6, TlsIds, CipherIds
<1>9. /\ "TLS-001" \in Ids(TlsFindings(tls)) <=>
           tls.version \notin AllowedTLSVersions \cup {Unset}
      /\ "CIPHER-001" \in Ids(TlsFindings(tls)) <=> Judged(tls) /\ IsWeak(tls.cipher)
      /\ "FS-001" \in Ids(TlsFindings(tls)) <=> Judged(tls) /\ ~IsPFS(tls.cipher)
  BY TlsIds, CipherIds
<1> QED BY <1>7, <1>8, <1>9, CertificateIds

\* A suite that is not judged is not called weak either.
LEMMA CipherNotes ==
  ASSUME NEW verdict, NEW events, NEW tls, NEW cert, tls # Nil, ~Judged(tls)
  PROVE "CIPHER-002" \notin Ids(Assess(verdict, events, tls, cert))
<1> DEFINE S == StartTlsFindings(verdict, events)
           T == TlsFindings(tls)
           C == IF cert = Nil THEN {} ELSE CertificateFindings(cert)
<1>1. Assess(verdict, events, tls, cert) = S \cup T \cup C  BY DEF Assess, TlsFindings
<1>2. "CIPHER-002" \notin Ids(S)  BY StartTlsIds
<1>3. "CIPHER-002" \notin Ids(T)  BY TlsIds, CipherIds
<1>4. "CIPHER-002" \notin Ids(C)  BY CertificateIds, IdsNone
<1> HIDE DEF S, T, C
<1> QED BY <1>1, <1>2, <1>3, <1>4, IdsUnion3

\* The worst finding decides.
LEMMA RiskIs ==
  ASSUME NEW findings, \A f \in findings : f.severity \in {"CRITICAL", "HIGH", "MEDIUM"}
  PROVE /\ RiskScore(findings) = 90 <=> \E f \in findings : f.severity = "CRITICAL"
        /\ (\E f \in findings : f.severity = "HIGH") => RiskScore(findings) >= 70
<1> DEFINE S == {0} \cup {severityToScore[f.severity] : f \in findings}
<1>1. /\ severityToScore["CRITICAL"] = 90 /\ severityToScore["HIGH"] = 70
      /\ severityToScore["MEDIUM"] = 50
  BY DEF severityToScore
<1>2. /\ S \subseteq {0, 50, 70, 90} /\ 0 \in S
      /\ 90 \in S <=> \E f \in findings : f.severity = "CRITICAL"
      /\ 70 \in S <=> \E f \in findings : f.severity = "HIGH"
  BY <1>1
<1> HIDE DEF S
<1>3. \E x \in S : \A y \in S : x >= y
  <2>1. CASE 90 \in S  BY <1>2, <2>1
  <2>2. CASE 90 \notin S /\ 70 \in S  BY <1>2, <2>2
  <2>3. CASE 90 \notin S /\ 70 \notin S /\ 50 \in S  BY <1>2, <2>3
  <2>4. CASE S \subseteq {0}  BY <1>2, <2>4
  <2> QED BY <1>2, <2>1, <2>2, <2>3, <2>4
<1>4. Max(S) \in S /\ \A y \in S : Max(S) >= y  BY <1>3 DEF Max
<1>5. RiskScore(findings) = Max(S)  BY DEF RiskScore, S
<1>6. RiskScore(findings) \in {0, 50, 70, 90}  BY <1>2, <1>4, <1>5
<1>7. RiskScore(findings) = 90 <=> 90 \in S  BY <1>4, <1>5, <1>6
<1>8. 70 \in S => RiskScore(findings) >= 70  BY <1>4, <1>5
<1> QED BY <1>2, <1>7, <1>8

LEMMA SeveritiesAre ==
  ASSUME NEW verdict, NEW events, NEW tls, NEW cert,
         NEW f \in Assess(verdict, events, tls, cert)
  PROVE f.severity \in {"CRITICAL", "HIGH", "MEDIUM"}
<1>2. ASSUME f \in StartTlsFindings(verdict, events)
      PROVE f.severity \in {"CRITICAL", "HIGH"}
  BY <1>2 DEF StartTlsFindings, Raise
<1>3. ASSUME f \in VersionFindings(tls) PROVE f.severity \in {"CRITICAL", "HIGH"}
  <2>1. f \in VersionFindings(tls)  BY <1>3
  <2>2. VersionFindings(tls) \subseteq
          {[id |-> "TLS-001", severity |-> "CRITICAL"],
           [id |-> "TLS-001", severity |-> "HIGH"]}
    BY DEF VersionFindings, Raise
  <2>3. f = [id |-> "TLS-001", severity |-> "CRITICAL"] \/ f = [id |-> "TLS-001", severity |-> "HIGH"]
    BY <2>1, <2>2
  <2> QED BY <2>3
<1>4. ASSUME f \in CipherFindings(tls) PROVE f.severity \in {"CRITICAL", "MEDIUM"}
  BY <1>4 DEF CipherFindings, Raise
<1>5. ASSUME f \in CertificateFindings(cert) PROVE f.severity \in {"CRITICAL", "HIGH"}
  BY <1>5 DEF CertificateFindings, Raise
<1>6. ASSUME f \in Raise(tls.alert, "TLS-FAIL-001", "HIGH") PROVE f.severity = "HIGH"
  BY <1>6 DEF Raise
<1> QED BY <1>2, <1>3, <1>4, <1>5, <1>6 DEF Assess

\* The severities of the findings that decide the scores.
LEMMA FindingSeverity ==
  ASSUME NEW verdict, NEW events, NEW tls, NEW cert, NEW findings,
         findings = Assess(verdict, events, tls, cert)
  PROVE /\ "TLS-001" \in Ids(findings) =>
             \E f \in findings : f.severity \in {"CRITICAL", "HIGH"}
        /\ "CIPHER-001" \in Ids(findings) => \E f \in findings : f.severity = "CRITICAL"
<1>1. ASSUME "TLS-001" \in Ids(findings)
      PROVE \E f \in findings : f.severity \in {"CRITICAL", "HIGH"}
  <2>1. tls # Nil /\ tls.version \notin AllowedTLSVersions \cup {Unset}
    BY <1>1, IdsOfAssess
  <2>2. \E sev \in {"CRITICAL", "HIGH"} :
          [id |-> "TLS-001", severity |-> sev] \in VersionFindings(tls)
    BY <2>1 DEF VersionFindings, Raise
  <2> QED BY <2>1, <2>2 DEF Assess
<1>2. ASSUME "CIPHER-001" \in Ids(findings)
      PROVE \E f \in findings : f.severity = "CRITICAL"
  <2>1. tls # Nil /\ Judged(tls) /\ IsWeak(tls.cipher)  BY <1>2, IdsOfAssess
  <2>2. [id |-> "CIPHER-001", severity |-> "CRITICAL"] \in CipherFindings(tls)
    BY <2>1 DEF CipherFindings, Raise, Judged
  <2> QED BY <2>1, <2>2 DEF Assess
<1> QED BY <1>1, <1>2

-----------------------------------------------------------------------------
(* What the session of an invariant state is *)

\* The session's own names for what it is made of.
LEMMA SessionIs ==
  ASSUME Inv, pc = "done"
  PROVE \E verdict, events :
          /\ session.key \in Keys
          /\ session.source \in IF Sources(session.key) = {} THEN {Nil} ELSE Sources(session.key)
          /\ session.source \in Streams \cup {Nil}
          /\ session.source # Nil => session.tls = result[session.source]
          /\ session.source = Nil => session.tls \in {Nil, NoResult}
          /\ session.fs = IF session.source = Nil THEN "UNKNOWN"
                          ELSE AssessForwardSecrecy(session.tls)
          /\ session.findings = Assess(verdict, events, session.tls, session.cert)
          /\ session.risk = RiskScore(session.findings)
          /\ session.scores = computeScores(session.tls, session.fs, session.cert)
          /\ session.cert \in CertificateInfo \cup {Nil}
          /\ session.cert \in Parsed(session.source)
<1>1. PICK k \in Keys, source \in Streams \cup {Nil}, verdict \in CoherentVerdicts,
        events \in {{}, {"command"}, {"command", "login"}},
        cert \in CertificateInfo \cup {Nil} : MadeOf(k, source, verdict, events, cert)
  BY DEF Inv, SessionInv
<1>2. /\ session.key = k /\ session.source = source /\ session.cert = cert
      /\ session.tls = IF source = Nil THEN Unsourced(verdict) ELSE result[source]
      /\ session.fs = IF source = Nil THEN "UNKNOWN" ELSE AssessForwardSecrecy(session.tls)
      /\ session.findings = Assess(verdict, events, session.tls, cert)
      /\ session.risk = RiskScore(session.findings)
      /\ session.scores = computeScores(session.tls, session.fs, cert)
  BY <1>1 DEF MadeOf, Assessed
<1>3. /\ source \in IF Sources(k) = {} THEN {Nil} ELSE Sources(k)
      /\ cert \in Parsed(source)
  BY <1>1 DEF MadeOf
<1>4. Unsourced(verdict) \in {Nil, NoResult}  BY DEF Unsourced
<1> QED BY <1>1, <1>2, <1>3, <1>4

LEMMA SessionTls ==
  ASSUME Inv, pc = "done"
  PROVE /\ session.source \in ListedStreams \cup {Nil}
        /\ session.tls \in TlsInfo \cup {Nil}
        /\ session.source # Nil =>
             /\ session.source \in Streams /\ session.tls = result[session.source]
             /\ session.tls # Nil /\ Negotiated(session.source)
        /\ session.source = Nil => session.tls = Nil \/ session.tls = NoResult
<1>1. MapInv /\ InspectTypeOK /\ ResultIsNegotiated  BY DEF Inv, InspectInv
<1>2. session.source \in ListedStreams \cup {Nil}  BY <1>1, SessionIs, SourceFacts
<1>3. \A s \in Streams : result[s] \in TlsInfo /\ result[s] # Nil
  BY <1>1, NilAssumption DEF InspectTypeOK
<1>4. \A s \in Streams : Negotiated(s)  BY <1>1 DEF ResultIsNegotiated, Negotiated
<1> QED BY <1>2, <1>3, <1>4, SessionIs, NoResultType DEF ListedStreams

\* What a captured or a missing ServerHello leaves in a result.
LEMMA ResultWords ==
  ASSUME InspectInv, NEW s \in Streams, NEW r, r = result[s]
  PROVE /\ "ServerHello" \in seen[s] =>
             /\ r.version = Version(s) /\ r.cipher = Suite(s) /\ r.serverHello
             /\ Version(s) \in Versions /\ Suite(s) \in Suites
        /\ "ServerHello" \notin seen[s] =>
             /\ r.cipher = Unset /\ ~r.serverHello
             /\ r.version \in {Unset, Legacy(s)} \/ "ClientHello" \in seen[s]
<1>1. InspectTypeOK /\ FirstRecord /\ Negotiated(s)
  BY DEF InspectInv, ResultIsNegotiated, Negotiated
<1>2. CASE "ServerHello" \in seen[s]  BY <1>1, <1>2, OfferFacts DEF Negotiated
<1>3. CASE "ServerHello" \notin seen[s]  BY <1>1, <1>3 DEF Negotiated, FirstRecord
<1> QED BY <1>2, <1>3

LEMMA WeakSuites ==
  ASSUME NEW c \in Suites
  PROVE /\ IsKnown(c) <=> c \in Named
        /\ IsKnown(c) /\ IsWeak(c) <=> c \in Named \ Authenticated
        /\ IsKnown(c) /\ ~IsPFS(c) <=> c \in Named \ Ephemeral
<1> DEFINE w == Words[c]
<1>1. w = Words[c]  OBVIOUS
<1>2. c \notin Named => w = {}  BY SuiteNames
<1>3. c \in Named =>
        /\ "DES" \in w => "CBC" \in w
        /\ w \cap {"CBC", "RC4"} # {} => w \cap {"GCM", "POLY1305"} = {}
        /\ w \cap {"CBC", "RC4", "GCM", "POLY1305"} # {}
        /\ w \cap {"CBC", "RC4"} # {} <=> c \notin Authenticated
        /\ "DHE" \in w \/ "TLS 1.3" \in w <=> c \in Ephemeral
  BY SuiteWords
<1> HIDE DEF w
<1>4. IsAEAD(c) <=> w \cap {"GCM", "POLY1305"} # {}  BY <1>1 DEF IsAEAD
<1>5. IsPFS(c) <=> "DHE" \in w \/ "TLS 1.3" \in w  BY <1>1 DEF IsPFS
<1>6. IsKnown(c) <=> IsAEAD(c) \/ w \cap {"CBC", "RC4"} # {}  BY <1>1 DEF IsKnown
<1>7. IsKnown(c) <=> c \in Named  BY <1>2, <1>3, <1>4, <1>6
<1>8. IsKnown(c) /\ IsWeak(c) <=> w \cap {"CBC", "RC4"} # {}
  BY <1>1, <1>2, <1>3, <1>4, <1>6 DEF IsWeak
<1>9. w \cap {"CBC", "RC4"} # {} => c \in Named  BY <1>2
<1> QED BY <1>3, <1>5, <1>7, <1>8, <1>9

-----------------------------------------------------------------------------
(* Results *)

\* The aggregation of any part of a handshake, packets missing anywhere, is what
\* the server selected once its ServerHello is in (inspector.go:197-230).
THEOREM AggregationIsNegotiation == Spec => []ResultIsNegotiated
<1>1. Inv => ResultIsNegotiated  BY DEF Inv, InspectInv
<1> QED BY InitInv, NextInv, <1>1, PTL DEF Spec

LEMMA InvAlarms == Inv => AlarmsAreTrue
<1> SUFFICES ASSUME Inv, pc = "done" PROVE AlarmsAreTrue
  BY DEF AlarmsAreTrue
<1>1. Raised = Ids(session.findings)  BY DEF Raised, Ids
<1>2. /\ "TLS-001" \in Raised <=>
           session.tls # Nil /\ session.tls.version \notin AllowedTLSVersions \cup {Unset}
      /\ "CIPHER-001" \in Raised <=>
           session.tls # Nil /\ Judged(session.tls) /\ IsWeak(session.tls.cipher)
      /\ "FS-001" \in Raised <=>
           session.tls # Nil /\ Judged(session.tls) /\ ~IsPFS(session.tls.cipher)
  BY <1>1, SessionIs, IdsOfAssess
<1>3. CASE session.source = Nil
  <2>1. session.tls # Nil => session.tls.version = Unset /\ session.tls.cipher = Unset
    BY <1>3, SessionTls DEF NoResult
  <2>2. Raised \cap {"TLS-001", "CIPHER-001", "FS-001"} = {}
    BY <1>2, <2>1 DEF Judged
  <2> QED BY <1>3, <2>2 DEF AlarmsAreTrue
<1>4. CASE session.source # Nil
  <2> DEFINE s == session.source
  <2>1. s \in Streams /\ session.tls = result[s] /\ InspectInv /\ InspectTypeOK
    BY <1>4, SessionTls DEF Inv, InspectInv
  <2> HIDE DEF s
  <2>2. CASE "ServerHello" \in seen[s]
    <3>1. /\ session.tls.version = Version(s) /\ session.tls.cipher = Suite(s)
          /\ Suite(s) \in Suites
      BY <2>1, <2>2, ResultWords
    <3>2. /\ "TLS-001" \in Raised => Version(s) \notin AllowedTLSVersions
          /\ "CIPHER-001" \in Raised => Suite(s) \notin Authenticated
          /\ "FS-001" \in Raised => Suite(s) \notin Ephemeral
      BY <1>2, <3>1, WeakSuites DEF Judged
    <3> QED BY <1>4, <2>2, <3>2 DEF AlarmsAreTrue, s
  <2>3. CASE "ServerHello" \notin seen[s]
    <3>1. "CIPHER-001" \notin Raised /\ "FS-001" \notin Raised
      BY <1>2, <2>1, <2>3, ResultWords DEF Judged
    <3>2. session.tls.version \in {Unset, Legacy(s)} \/ "ClientHello" \in seen[s]
      BY <2>1, <2>3, ResultWords
    <3>3. Legacy(s) \notin AllowedTLSVersions => Version(s) \notin AllowedTLSVersions
      BY DEF Legacy, AllowedTLSVersions
    <3>4. "TLS-001" \in Raised =>
            Version(s) \notin AllowedTLSVersions \/ "ClientHello" \in seen[s]
      BY <1>2, <3>2, <3>3
    <3> QED BY <1>4, <2>3, <3>1, <3>4 DEF AlarmsAreTrue, s
  <2> QED BY <2>2, <2>3
<1> QED BY <1>3, <1>4

\* No false alarm, whatever the servers select and whichever packets are missing:
\* only the version of a ClientHello's record may stand for another
\* (inspector.go:224-230, engine.go:100-175).
THEOREM NoFalseAlarm == Spec => []AlarmsAreTrue
BY InitInv, NextInv, InvAlarms, PTL DEF Spec

LEMMA InvWeakTls == Inv => WeakTlsIsReportedWhenNamed
<1> SUFFICES ASSUME Inv, pc = "done", DOMAIN tlsByKey # {},
                    NEW s \in Streams,
                    Own(session.key) = {s}, "ServerHello" \in seen[s]
             PROVE
               /\ Version(s) \notin AllowedTLSVersions =>
                    "TLS-001" \in Raised /\ session.risk >= 70
               /\ Suite(s) \in Named \ Authenticated =>
                    "CIPHER-001" \in Raised /\ session.risk = 90
               /\ Suite(s) \in Named \ Ephemeral =>
                    "FS-001" \in Raised /\ session.fs = "NO"
               /\ Suite(s) \notin Named =>
                    /\ Raised \cap {"CIPHER-001", "CIPHER-002", "FS-001"} = {}
                    /\ Suite(s) \notin Tls13 => session.fs = "UNKNOWN"
  BY DEF WeakTlsIsReportedWhenNamed
<1>0. MapInv /\ InspectInv /\ InspectTypeOK  BY DEF Inv, InspectInv
<1> DEFINE tls == session.tls
<1>1. /\ result[s].version = Version(s) /\ result[s].cipher = Suite(s)
      /\ result[s].serverHello
      /\ Version(s) \in Versions /\ Suite(s) \in Suites
      /\ Version(s) # Unset /\ Suite(s) # Unset
      /\ result[s].group <=> Version(s) = "TLS 1.3"
  <2>1. Negotiated(s)  BY <1>0 DEF InspectInv, ResultIsNegotiated, Negotiated
  <2> QED BY <1>0, <2>1, ResultWords, SuiteNames DEF Negotiated
<1>2. session.source = s
  <2>1. keyOf[s] = session.key  BY DEF Own
  <2>2. s \in ListedStreams  BY <1>1 DEF ListedStreams, Listed
  <2>3. session.key \in ListedKeys  BY <2>1, <2>2 DEF ListedKeys
  <2>4. /\ session.source # Nil /\ session.source \in ListedStreams
        /\ keyOf[session.source] = session.key
    BY <1>0, <2>3, SessionIs, SourceFacts
  <2>5. session.source \in Own(session.key)  BY <2>4 DEF Own, ListedStreams
  <2> QED BY <2>5
<1>3. s # Nil  BY NilAssumption
<1>4. /\ tls = result[s] /\ tls # Nil  BY <1>2, <1>3, SessionTls
<1>5. Raised = Ids(session.findings)  BY DEF Raised, Ids
<1>6. /\ "TLS-001" \in Raised <=> tls.version \notin AllowedTLSVersions \cup {Unset}
      /\ "CIPHER-001" \in Raised <=> Judged(tls) /\ IsWeak(tls.cipher)
      /\ "FS-001" \in Raised <=> Judged(tls) /\ ~IsPFS(tls.cipher)
  BY <1>4, <1>5, SessionIs, IdsOfAssess
<1>7. PICK verdict, events :
        /\ session.findings = Assess(verdict, events, tls, session.cert)
        /\ session.risk = RiskScore(session.findings)
        /\ session.fs = AssessForwardSecrecy(tls)
  BY <1>2, <1>3, SessionIs
<1>8. \A f \in session.findings : f.severity \in {"CRITICAL", "HIGH", "MEDIUM"}
  BY <1>7, SeveritiesAre
<1> HIDE DEF tls
<1>9. ASSUME Version(s) \notin AllowedTLSVersions
      PROVE "TLS-001" \in Raised /\ session.risk >= 70
  <2>1. "TLS-001" \in Raised  BY <1>1, <1>4, <1>6, <1>9
  <2>2. \E f \in session.findings : f.severity \in {"CRITICAL", "HIGH"}
    BY <1>5, <1>7, <2>1, FindingSeverity
  <2>3. session.risk = 90 \/ session.risk >= 70
    BY <1>7, <1>8, <2>2, RiskIs
  <2> QED BY <2>1, <2>3
<1>10. ASSUME Suite(s) \in Named \ Authenticated
       PROVE "CIPHER-001" \in Raised /\ session.risk = 90
  <2>1. "CIPHER-001" \in Raised
    BY <1>1, <1>4, <1>6, <1>10, WeakSuites DEF Judged
  <2>2. \E f \in session.findings : f.severity = "CRITICAL"
    BY <1>5, <1>7, <2>1, FindingSeverity
  <2> QED BY <1>7, <1>8, <2>1, <2>2, RiskIs
<1>11. ASSUME Suite(s) \in Named \ Ephemeral
       PROVE "FS-001" \in Raised /\ session.fs = "NO"
  <2>1. "FS-001" \in Raised
    BY <1>1, <1>4, <1>6, <1>11, WeakSuites DEF Judged
  <2>2. Suite(s) \notin Tls13  BY <1>11 DEF Ephemeral
  <2>3. Version(s) # "TLS 1.3"  BY <1>0, <2>2, OfferFacts
  <2>4. "RSA_WITH" \in Words[Suite(s)] /\ "DHE" \notin Words[Suite(s)]
    BY <1>11, StaticNames
  <2>5. AssessForwardSecrecy(tls) = "NO"
    BY <1>1, <1>4, <2>3, <2>4 DEF AssessForwardSecrecy
  <2> QED BY <1>7, <2>1, <2>5
<1>12. ASSUME Suite(s) \notin Named
       PROVE /\ Raised \cap {"CIPHER-001", "CIPHER-002", "FS-001"} = {}
             /\ Suite(s) \notin Tls13 => session.fs = "UNKNOWN"
  <2>1. ~IsKnown(tls.cipher)  BY <1>1, <1>4, <1>12, WeakSuites
  <2>2. "CIPHER-001" \notin Raised /\ "FS-001" \notin Raised
    BY <1>6, <2>1 DEF Judged
  <2>3. "CIPHER-002" \notin Raised
    BY <1>4, <1>5, <1>7, <2>1, CipherNotes DEF Judged
  <2>4. Words[Suite(s)] = {}  BY <1>1, <1>12, SuiteNames
  <2>5. Suite(s) \notin Tls13 => Version(s) # "TLS 1.3"  BY <1>0, OfferFacts
  <2>6. Suite(s) \notin Tls13 => AssessForwardSecrecy(tls) = "UNKNOWN"
    BY <1>1, <1>4, <2>4, <2>5 DEF AssessForwardSecrecy
  <2> QED BY <1>7, <2>2, <2>3, <2>6
<1> QED BY <1>9, <1>10, <1>11, <1>12

\* Of the handshake that is a session's own, in any capture, deprecated versions
\* are reported, and weak suites and the lack of forward secrecy exactly when the
\* code has a name for the suite (inspector.go:197-230, 311-345,
\* service.go:257-280, engine.go:100-175).
THEOREM WeakTlsIsSeenWhenNamed == Spec => []WeakTlsIsReportedWhenNamed
BY InitInv, NextInv, InvWeakTls, PTL DEF Spec

-----------------------------------------------------------------------------
(* The tables *)

LEMMA VersionTable ==
  ASSUME NEW v \in Versions
  PROVE v \notin AllowedTLSVersions \cup {Unset} <=> VersionScore(v) < 8
<1>1. CASE v \in AllowedTLSVersions
  <2>1. VersionScore(v) \in {8, 10}  BY <1>1 DEF AllowedTLSVersions, VersionScore
  <2> QED BY <1>1, <2>1
<1>3. CASE v \in {"TLS 1.1", "TLS 1.0", "SSLv3"}
  <2>1. VersionScore(v) \in {0, 2, 4}  BY <1>3 DEF VersionScore
  <2>2. v \notin AllowedTLSVersions \cup {Unset}
    BY <1>3 DEF AllowedTLSVersions, Unset
  <2> QED BY <2>1, <2>2
<1> QED BY <1>1, <1>3 DEF Versions, AllowedTLSVersions

LEMMA CipherTable ==
  ASSUME NEW c \in Named
  PROVE /\ IsKnown(c)
        /\ IsWeak(c) <=> CipherScore(c) < 9
<1> DEFINE w == Words[c]
<1>1. /\ "DES" \in w => "CBC" \in w
      /\ w \cap {"CBC", "RC4"} # {} => w \cap {"GCM", "POLY1305"} = {}
      /\ w \cap {"CBC", "RC4", "GCM", "POLY1305"} # {}
      /\ w \cap {"AES_256_GCM", "CHACHA20", "AES_128_GCM"} # {} <=>
           w \cap {"GCM", "POLY1305"} # {}
      /\ w \cap {"CBC", "RC4"} # {} <=>
           w \cap {"AES_256_CBC", "AES_128_CBC", "3DES", "RC4"} # {}
  BY SuiteWords
<1>2. c # Unset  BY SuiteNames
<1>3. CipherScore(c) =
        CASE w \cap {"AES_256_GCM", "CHACHA20"} # {} -> 10
          [] "AES_128_GCM" \in w -> 9
          [] "AES_256_CBC" \in w -> 7
          [] "AES_128_CBC" \in w -> 6
          [] "3DES" \in w -> 2
          [] "RC4" \in w -> 1
          [] OTHER -> 5
  BY <1>2 DEF CipherScore
<1>4. IsKnown(c) /\ (IsWeak(c) <=> w \cap {"GCM", "POLY1305"} = {})
  BY <1>1 DEF IsKnown, IsWeak, IsAEAD
<1>5. w \cap {"AES_256_GCM", "CHACHA20", "AES_128_GCM"} # {} => CipherScore(c) \in {9, 10}
  BY <1>1, <1>3
<1>6. w \cap {"AES_256_GCM", "CHACHA20", "AES_128_GCM"} = {} => CipherScore(c) \in {7, 6, 2, 1}
  BY <1>1, <1>3
<1>7. CipherScore(c) < 9 <=> w \cap {"AES_256_GCM", "CHACHA20", "AES_128_GCM"} = {}
  BY <1>5, <1>6
<1> QED BY <1>1, <1>4, <1>7

LEMMA ForwardSecrecyTable ==
  ASSUME NEW s \in Streams, InspectTypeOK, NEW tls,
         tls.version = Version(s), tls.cipher = Suite(s),
         tls.group <=> Version(s) = "TLS 1.3",
         Suite(s) \in Named
  PROVE AssessForwardSecrecy(tls) = IF IsPFS(tls.cipher) THEN "YES" ELSE "NO"
<1> DEFINE w == Words[tls.cipher]
<1>1. /\ tls.cipher \in Named /\ tls.cipher # Unset
      /\ Version(s) = "TLS 1.3" <=> "TLS 1.3" \in w
  <2>1. "TLS 1.3" \in w <=> tls.cipher \in Tls13  BY VersionOfName
  <2> QED BY <2>1, OfferFacts, SuiteNames
<1>2. w \cap {"DHE", "TLS 1.3"} = {} => "RSA_WITH" \in w
  BY <1>1, SuiteWords
<1>3. IsPFS(tls.cipher) <=> "DHE" \in w \/ "TLS 1.3" \in w  BY DEF IsPFS
<1>4. AssessForwardSecrecy(tls) =
        IF "TLS 1.3" \in w THEN "YES"
        ELSE IF "DHE" \in w THEN "YES"
        ELSE IF w \cap {"RSA_WITH", "3DES", "RC4"} # {} THEN "NO" ELSE "UNKNOWN"
  BY <1>1 DEF AssessForwardSecrecy
<1> HIDE DEF w
<1> QED BY <1>2, <1>3, <1>4

LEMMA CertificateTable ==
  ASSUME NEW cert \in CertificateInfo
  PROVE /\ cert.expired <=> CertificateScore(cert) = 1
        /\ cert.algorithm = "RSA" /\ cert.bits \in 1..2047 => CertificateScore(cert) <= 3
        /\ CertificateScore(cert) = 3 =>
             \/ cert.algorithm = "RSA" /\ cert.bits \in 1..2047
             \/ cert.algorithm = "ECDSA"
        /\ cert.signature \in {"MD5", "SHA1"} <=> SignatureScore(cert) < 5
<1> DEFINE small == \/ cert.algorithm = "RSA" /\ cert.bits \in 1..2047
                    \/ cert.algorithm = "ECDSA" /\ cert.bits \in 1..255
<1>1. CertificateScore(cert) = IF cert.expired THEN 1 ELSE IF small THEN 3 ELSE 10
  BY DEF CertificateScore, Lesser
<1>2. cert.signature \in Signatures  BY DEF CertificateInfo
<1>3. CASE cert.signature = "SHA256"
  <2>1. SignatureScore(cert) = 10  BY <1>3 DEF SignatureScore
  <2> QED BY <1>1, <1>3, <2>1
<1>4. CASE cert.signature = "other"
  <2>1. SignatureScore(cert) = 5  BY <1>4 DEF SignatureScore
  <2> QED BY <1>1, <1>4, <2>1
<1>5. CASE cert.signature \in {"SHA1", "MD5"}
  <2>1. SignatureScore(cert) \in {1, 3}  BY <1>5 DEF SignatureScore
  <2> QED BY <1>1, <1>5, <2>1
<1> QED BY <1>2, <1>3, <1>4, <1>5 DEF Signatures

LEMMA InvTables == Inv => TablesAgree
<1> SUFFICES ASSUME Inv, pc = "done", session.tls # Nil PROVE TablesAgree
  BY DEF TablesAgree
<1> DEFINE tls == session.tls
           cert == session.cert
           scores == session.scores
<1>0. InspectInv /\ InspectTypeOK /\ tls \in TlsInfo /\ cert \in CertificateInfo \cup {Nil}
  BY SessionTls, SessionIs DEF Inv, InspectInv
<1>1. Raised = Ids(session.findings)  BY DEF Raised, Ids
<1>2. PICK verdict, events :
        /\ session.findings = Assess(verdict, events, tls, cert)
        /\ session.risk = RiskScore(session.findings)
        /\ scores = computeScores(tls, session.fs, cert)
        /\ session.source # Nil => session.fs = AssessForwardSecrecy(tls)
        /\ session.source = Nil => tls = NoResult
  BY SessionIs
<1>3. /\ "TLS-001" \in Raised <=> tls.version \notin AllowedTLSVersions \cup {Unset}
      /\ "CIPHER-001" \in Raised <=> Judged(tls) /\ IsWeak(tls.cipher)
      /\ "FS-001" \in Raised <=> Judged(tls) /\ ~IsPFS(tls.cipher)
      /\ "CERT-001" \in Raised <=> cert # Nil /\ cert.expired
      /\ "KEY-001" \in Raised <=>
           cert # Nil /\ cert.algorithm = "RSA" /\ cert.bits \in 1..(MinimumRSABits - 1)
      /\ "SIG-001" \in Raised <=> cert # Nil /\ cert.signature \in {"MD5", "SHA1"}
  <2>2. Raised = Ids(Assess(verdict, events, tls, cert))  BY <1>1, <1>2
  <2> HIDE DEF tls, cert, scores
  <2>3. /\ "TLS-001" \in Raised <=>
             tls # Nil /\ tls.version \notin AllowedTLSVersions \cup {Unset}
        /\ "CIPHER-001" \in Raised <=> tls # Nil /\ Judged(tls) /\ IsWeak(tls.cipher)
        /\ "FS-001" \in Raised <=> tls # Nil /\ Judged(tls) /\ ~IsPFS(tls.cipher)
        /\ "CERT-001" \in Raised <=> cert # Nil /\ cert.expired
        /\ "KEY-001" \in Raised <=>
             cert # Nil /\ cert.algorithm = "RSA" /\ cert.bits \in 1..(MinimumRSABits - 1)
        /\ "SIG-001" \in Raised <=> cert # Nil /\ cert.signature \in {"MD5", "SHA1"}
    BY <2>2, IdsOfAssess
  <2>4. tls # Nil  BY DEF tls
  <2> QED BY <2>3, <2>4
<1>4. /\ scores.version = VersionScore(tls.version)
      /\ scores.cipher = CipherScore(tls.cipher)
      /\ scores.keyExchange = KeyExchangeScore(session.fs)
      /\ scores.certificate = IF cert = Nil THEN 5 ELSE CertificateScore(cert)
      /\ scores.signature = IF cert = Nil THEN 5 ELSE SignatureScore(cert)
  BY <1>2 DEF computeScores
<1> HIDE DEF tls, cert, scores
<1>5. tls.version # Unset => ("TLS-001" \in Raised <=> scores.version < 8)
  BY <1>0, <1>3, <1>4, VersionTable DEF TlsInfo
<1>6. ASSUME tls.cipher \in Named
      PROVE /\ "CIPHER-001" \in Raised <=> scores.cipher < 9
            /\ "FS-001" \in Raised <=> session.fs = "NO"
            /\ "FS-001" \in Raised <=> scores.keyExchange < 5
  <2>0. tls.cipher # Unset  BY <1>6, SuiteNames
  <2>1. session.source # Nil  BY <1>2, <2>0 DEF NoResult
  <2> DEFINE s == session.source
  <2>2. s \in Streams /\ tls = result[s] /\ Negotiated(s)
    BY <2>1, SessionTls DEF tls
  <2> HIDE DEF s
  <2>3. "ServerHello" \in seen[s]  BY <2>0, <2>2 DEF Negotiated
  <2>4. /\ tls.version = Version(s) /\ tls.cipher = Suite(s) /\ tls.serverHello
        /\ tls.group <=> Version(s) = "TLS 1.3"
    BY <2>2, <2>3 DEF Negotiated
  <2>5. tls.cipher \in Suites  BY <1>6, SuiteNames
  <2>6. Judged(tls)  BY <1>6, <2>0, <2>4, CipherTable DEF Judged
  <2>7. session.fs = IF IsPFS(tls.cipher) THEN "YES" ELSE "NO"
    BY <1>0, <1>2, <1>6, <2>1, <2>2, <2>4, ForwardSecrecyTable
  <2>8. /\ session.fs = "YES" => KeyExchangeScore(session.fs) = 10
        /\ session.fs = "NO" => KeyExchangeScore(session.fs) = 2
    BY DEF KeyExchangeScore
  <2> QED BY <1>3, <1>4, <1>6, <2>5, <2>6, <2>7, <2>8, CipherTable
<1>7. /\ "CERT-001" \in Raised <=> scores.certificate = 1
      /\ "KEY-001" \in Raised => scores.certificate <= 3
      /\ scores.certificate = 3 => "KEY-001" \in Raised \/ cert.algorithm = "ECDSA"
      /\ "SIG-001" \in Raised <=> scores.signature < 5
  BY <1>0, <1>3, <1>4, CertificateTable DEF MinimumRSABits
<1>8. session.risk = 90 <=> \E f \in session.findings : f.severity = "CRITICAL"
  BY <1>2, SeveritiesAre, RiskIs
<1> QED BY <1>5, <1>6, <1>7, <1>8 DEF TablesAgree, tls, cert, scores

\* Findings, forward-secrecy flag and radar are three tables that agree on every
\* suite, version and certificate (engine.go:100-251, inspector.go:348-369,
\* service.go:528-612).
THEOREM TablesAlwaysAgree == Spec => []TablesAgree
BY InitInv, NextInv, InvTables, PTL DEF Spec
=============================================================================
