--------------------------- MODULE TlsInspection ---------------------------
(***************************************************************************)
(* TSharkInspector.parseOutput: the TLS packets TShark prints, in the      *)
(* order of the capture, are aggregated into one result per TCP stream.    *)
(*                                                                         *)
(* Beside the inspector stands what it looks at: on every TCP stream a TLS *)
(* handshake goes forward packet by packet, and the capture may miss any   *)
(* of them.  The capture stops at any moment; the file is inert from then  *)
(* on, so each packet is parsed in the step that records it.               *)
(*                                                                         *)
(* A cipher suite is what it is, and the name the code has for it: the     *)
(* words it looks for in that name.  Left out: GREASE values, which a      *)
(* server never selects; SNI, ALPN and the signature algorithm;            *)
(* HandshakeCompleted and AppDataObserved, which only temper               *)
(* HandshakeFailed, a field the risk engine joins with AlertCount > 0,     *)
(* from which it follows.                                                  *)
(***************************************************************************)
EXTENDS Naturals, FiniteSets, SequencesExt

CONSTANTS
  Streams,  \* TShark's tcp.stream numbers of the TLS streams
  Keys,     \* connection keys; two streams that reuse a port share one
  Offers    \* <<version, suite>> pairs the servers may select

\* Every suite formatCipherSuite has a name for, with the words of the name
\* that the rules and the scores test.
NameWords ==
  [TLS_AES_128_GCM_SHA256                |-> {"TLS 1.3", "GCM", "AES_128_GCM", "128"},
   TLS_AES_256_GCM_SHA384                |-> {"TLS 1.3", "GCM", "AES_256_GCM", "256"},
   TLS_CHACHA20_POLY1305_SHA256          |-> {"TLS 1.3", "POLY1305", "CHACHA20", "256"},
   TLS_ECDHE_RSA_WITH_AES_128_GCM_SHA256 |-> {"DHE", "RSA_WITH", "GCM", "AES_128_GCM", "128"},
   TLS_ECDHE_RSA_WITH_AES_256_GCM_SHA384 |-> {"DHE", "RSA_WITH", "GCM", "AES_256_GCM", "256"},
   TLS_ECDHE_RSA_WITH_AES_128_CBC_SHA256 |-> {"DHE", "RSA_WITH", "CBC", "AES_128_CBC", "128"},
   TLS_ECDHE_RSA_WITH_AES_256_CBC_SHA384 |-> {"DHE", "RSA_WITH", "CBC", "AES_256_CBC", "256"},
   TLS_RSA_WITH_AES_128_GCM_SHA256       |-> {"RSA_WITH", "GCM", "AES_128_GCM", "128"},
   TLS_RSA_WITH_AES_256_GCM_SHA384       |-> {"RSA_WITH", "GCM", "AES_256_GCM", "256"},
   TLS_RSA_WITH_AES_128_CBC_SHA          |-> {"RSA_WITH", "CBC", "AES_128_CBC", "128"},
   TLS_RSA_WITH_AES_256_CBC_SHA          |-> {"RSA_WITH", "CBC", "AES_256_CBC", "256"},
   TLS_RSA_WITH_3DES_EDE_CBC_SHA         |-> {"RSA_WITH", "3DES", "DES", "CBC"},
   TLS_RSA_WITH_RC4_128_SHA              |-> {"RSA_WITH", "RC4", "128"}]

Named == DOMAIN NameWords

\* Suites it has no name for and shows by their code, in which there is no word:
\* ECDHE with CBC, RSA with RC4, RSA without encryption, and two sound ones.
Codes == {"0xc013", "0x0004", "0x0001", "0xc02b", "0x1304"}

Suites == Named \cup Codes
Words  == [c \in Suites |-> IF c \in Named THEN NameWords[c] ELSE {}]

\* What the suites are, by the registry of TLS parameters and not by their words:
\* those of TLS 1.3, those with forward secrecy, those with authenticated
\* encryption.
Tls13 ==
  {"TLS_AES_128_GCM_SHA256", "TLS_AES_256_GCM_SHA384",
   "TLS_CHACHA20_POLY1305_SHA256", "0x1304"}

Ephemeral ==
  Tls13 \cup
  {"TLS_ECDHE_RSA_WITH_AES_128_GCM_SHA256", "TLS_ECDHE_RSA_WITH_AES_256_GCM_SHA384",
   "TLS_ECDHE_RSA_WITH_AES_128_CBC_SHA256", "TLS_ECDHE_RSA_WITH_AES_256_CBC_SHA384",
   "0xc013", "0xc02b"}

Authenticated ==
  Tls13 \cup
  {"TLS_ECDHE_RSA_WITH_AES_128_GCM_SHA256", "TLS_ECDHE_RSA_WITH_AES_256_GCM_SHA384",
   "TLS_RSA_WITH_AES_128_GCM_SHA256", "TLS_RSA_WITH_AES_256_GCM_SHA384", "0xc02b"}

Versions == {"SSLv3", "TLS 1.0", "TLS 1.1", "TLS 1.2", "TLS 1.3"}
Unset    == ""

\* A suite belongs to TLS 1.3 or to the versions before it.
ASSUME TlsAssumption ==
  /\ IsFiniteSet(Streams)
  /\ Offers \subseteq Versions \X Suites
  /\ \A offer \in Offers : offer[1] = "TLS 1.3" <=> offer[2] \in Tls13

VARIABLES
  keyOf,   \* the connection key of each TLS stream
  stage,   \* the last packet of the handshake on the wire
  agreed,  \* the <<version, suite>> the server of the stream selects
  seen,    \* history: the packets of the stream that were captured
  result   \* streamMap: what parseOutput has of each stream

inspectVars == <<keyOf, stage, agreed, seen, result>>

Stages == {"start", "ClientHello", "ServerHello", "Certificate", "Alert"}

TlsInfo ==
  [version : Versions \cup {Unset}, cipher : Suites \cup {Unset},
   group : BOOLEAN, serverHello : BOOLEAN, certs : BOOLEAN, alert : BOOLEAN]

NoResult ==
  [version |-> Unset, cipher |-> Unset, group |-> FALSE,
   serverHello |-> FALSE, certs |-> FALSE, alert |-> FALSE]

-----------------------------------------------------------------------------
(* The packets, as TShark prints them *)

Version(s) == agreed[s][1]
Suite(s)   == agreed[s][2]

\* The version field that TLS 1.3 keeps at TLS 1.2.
Legacy(s) == IF Version(s) = "TLS 1.3" THEN "TLS 1.2" ELSE Version(s)

Plain(kind, record) ==
  [kind |-> kind, record |-> record, supported |-> Unset, legacy |-> Unset,
   suite |-> Unset, group |-> FALSE]

\* The record around a ClientHello says TLS 1.0, whatever the client offers.
ClientHello == Plain("ClientHello", "TLS 1.0")

ServerHello(s) ==
  [kind |-> "ServerHello", record |-> Legacy(s),
   supported |-> IF Version(s) = "TLS 1.3" THEN "TLS 1.3" ELSE Unset,
   legacy |-> Legacy(s), suite |-> Suite(s), group |-> Version(s) = "TLS 1.3"]

-----------------------------------------------------------------------------
(* parseOutput *)

\* The version a ServerHello selects.
Selected(p) == IF p.supported # Unset THEN p.supported ELSE p.legacy

\* Variant: the version of the first record stays.
NoteVersionOnce(r, p) ==
  IF r.version # Unset THEN r.version
  ELSE IF p.kind = "ServerHello" THEN Selected(p) ELSE p.record

\* A ServerHello settles the version; without one the record's is taken.
NoteVersion(r, p) ==
  IF p.kind = "ServerHello" THEN Selected(p)
  ELSE IF r.version = Unset THEN p.record ELSE r.version

\* One turn of the loop over the packets.
Aggregate(r, p) ==
  [version     |-> NoteVersion(r, p),
   cipher      |-> IF p.kind = "ServerHello" THEN p.suite ELSE r.cipher,
   group       |-> r.group \/ p.group,
   serverHello |-> r.serverHello \/ p.kind = "ServerHello",
   certs       |-> r.certs \/ p.kind = "Certificate",
   alert       |-> r.alert \/ p.kind = "Alert"]

Listed(s) == result[s].version # Unset \/ result[s].cipher # Unset

-----------------------------------------------------------------------------
(* The handshakes and the capture *)

\* The next packet of a stream goes over the wire; it is captured, or missed.
Sniff(s, from, p) ==
  /\ stage[s] \in from
  /\ stage' = [stage EXCEPT ![s] = p.kind]
  /\ \/ /\ result' = [result EXCEPT ![s] = Aggregate(@, p)]
        /\ seen' = [seen EXCEPT ![s] = @ \cup {p.kind}]
     \/ UNCHANGED <<result, seen>>
  /\ UNCHANGED <<keyOf, agreed>>

\* TLS 1.3 encrypts the certificate.
Packet(s) ==
  \/ Sniff(s, {"start"}, ClientHello)
  \/ Sniff(s, {"ClientHello"}, ServerHello(s))
  \/ Version(s) # "TLS 1.3" /\ Sniff(s, {"ServerHello"}, Plain("Certificate", Legacy(s)))
  \/ Sniff(s, {"ClientHello", "ServerHello", "Certificate"}, Plain("Alert", Legacy(s)))

InspectInit ==
  /\ keyOf \in [Streams -> Keys]
  /\ agreed \in [Streams -> Offers]
  /\ stage = [s \in Streams |-> "start"]
  /\ seen = [s \in Streams |-> {}]
  /\ result = [s \in Streams |-> NoResult]

InspectTypeOK ==
  /\ keyOf \in [Streams -> Keys]
  /\ agreed \in [Streams -> Offers]
  /\ stage \in [Streams -> Stages]
  /\ seen \in [Streams -> SUBSET Stages]
  /\ result \in [Streams -> TlsInfo]

\* What the aggregation of any part of a handshake amounts to: once the
\* ServerHello is captured the result is what the server selected, and before
\* that the version is the one of the first record (inspector.go:197-230).
ResultIsNegotiated ==
  \A s \in Streams :
    IF "ServerHello" \in seen[s]
    THEN /\ result[s].serverHello
         /\ result[s].version = Version(s) /\ result[s].cipher = Suite(s)
         /\ result[s].group <=> Version(s) = "TLS 1.3"
    ELSE /\ ~result[s].serverHello /\ ~result[s].group
         /\ result[s].cipher = Unset
         /\ result[s].version = Unset <=> seen[s] = {}
=============================================================================
