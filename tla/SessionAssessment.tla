------------------------- MODULE SessionAssessment -------------------------
(***************************************************************************)
(* Step 5 of the pipeline for one mail session: TLS information is matched *)
(* to it by connection key, forward secrecy is judged, the risk engine     *)
(* raises its findings, and risk, severity and radar scores follow.        *)
(*                                                                         *)
(* The sessions of a capture are assessed independently, so a behaviour    *)
(* assesses one.  Its STARTTLS verdict is any that the timeline analyser   *)
(* reaches (VerdictCoherent of StartTlsTimeline).  Scores are in tenths.   *)
(***************************************************************************)
EXTENDS TlsInspection

CONSTANTS
  Certificates, \* the certificates that servers may present
  Now,          \* the time of the analysis
  Nil           \* no stream, no TLS information, no certificate

VARIABLES
  pc,        \* "capture", "match", "done"
  tlsByKey,  \* the stream whose TLS information each key has
  session    \* the session assessed, when done

assessVars == <<pc, tlsByKey, session>>

\* "SHA256" stands for SHA384 and SHA512 as well.
Algorithms == {"RSA", "ECDSA", "Unknown"}
Signatures == {"SHA256", "SHA1", "MD5", "other"}

CertificateInfo ==
  [expired : BOOLEAN, notYetValid : BOOLEAN, algorithm : Algorithms, bits : Nat,
   signature : Signatures]

ASSUME CertificateAssumption ==
  /\ Certificates \subseteq [notBefore : Nat, notAfter : Nat, algorithm : Algorithms,
                             bits : Nat, signature : Signatures]
  /\ Now \in Nat

ASSUME NilAssumption == Nil \notin Streams \cup TlsInfo \cup CertificateInfo

-----------------------------------------------------------------------------
(* The rules of the risk engine, and the tables *)

AllowedTLSVersions == {"TLS 1.2", "TLS 1.3"}
MinimumRSABits     == 2048

Raise(condition, id, severity) ==
  IF condition THEN {[id |-> id, severity |-> severity]} ELSE {}

StartTlsFindings(v, events) ==
  Raise(v.supported /\ ~v.requested, "STARTTLS-001", "HIGH") \cup
  Raise(v.requested /\ ~v.accepted, "STARTTLS-002", "CRITICAL") \cup
  Raise(v.state = "STARTTLS_NOT_USED" /\ events # {}, "PLAINTEXT-001",
        IF "login" \in events THEN "CRITICAL" ELSE "HIGH")

\* Variant: the suites of TLS 1.3 are not known to have forward secrecy.
IsPFSByName(cipher) == "DHE" \in Words[cipher]

\* ClassifyCipher.
IsPFS(cipher)   == Words[cipher] \cap {"DHE", "TLS 1.3"} # {}
IsAEAD(cipher)  == Words[cipher] \cap {"GCM", "POLY1305"} # {}
IsKnown(cipher) == IsAEAD(cipher) \/ Words[cipher] \cap {"CBC", "RC4"} # {}
IsWeak(cipher)  ==
  \/ ~IsAEAD(cipher) /\ Words[cipher] \cap {"CBC", "RC4"} # {}
  \/ Words[cipher] \cap {"128", "256"} = {} /\ "DES" \in Words[cipher]

\* Variant: a suite is judged only when the certificate is in the capture too.
CipherFindingsCertified(tls) ==
  IF tls.cipher = Unset \/ ~tls.certs \/ ~IsKnown(tls.cipher) THEN {}
  ELSE Raise(IsWeak(tls.cipher), "CIPHER-001", "CRITICAL") \cup
       Raise(~IsWeak(tls.cipher) /\ ~IsAEAD(tls.cipher), "CIPHER-002", "MEDIUM") \cup
       Raise(~IsPFS(tls.cipher), "FS-001", "MEDIUM")

CipherFindings(tls) ==
  IF tls.cipher = Unset \/ ~tls.serverHello \/ ~IsKnown(tls.cipher) THEN {}
  ELSE Raise(IsWeak(tls.cipher), "CIPHER-001", "CRITICAL") \cup
       Raise(~IsWeak(tls.cipher) /\ ~IsAEAD(tls.cipher), "CIPHER-002", "MEDIUM") \cup
       Raise(~IsPFS(tls.cipher), "FS-001", "MEDIUM")

VersionFindings(tls) ==
  Raise(tls.version \notin AllowedTLSVersions \cup {Unset}, "TLS-001",
        IF tls.version \in {"TLS 1.0", "TLS 1.1"} THEN "CRITICAL" ELSE "HIGH")

CertificateFindings(cert) ==
  Raise(cert.expired, "CERT-001", "HIGH") \cup
  Raise(cert.notYetValid, "CERT-002", "HIGH") \cup
  Raise(cert.algorithm = "RSA" /\ cert.bits \in 1..(MinimumRSABits - 1),
        "KEY-001", "HIGH") \cup
  Raise(cert.signature \in {"MD5", "SHA1"}, "SIG-001", "CRITICAL")

\* Engine.Assess.
Assess(verdict, events, tls, cert) ==
  StartTlsFindings(verdict, events) \cup
  (IF tls = Nil THEN {}
   ELSE VersionFindings(tls) \cup CipherFindings(tls) \cup
        Raise(tls.alert, "TLS-FAIL-001", "HIGH")) \cup
  (IF cert = Nil THEN {} ELSE CertificateFindings(cert))

AssessForwardSecrecy(tls) ==
  IF tls.version = "TLS 1.3" \/ tls.group THEN "YES"
  ELSE IF tls.cipher = Unset THEN "UNKNOWN"
  ELSE IF "DHE" \in Words[tls.cipher] THEN "YES"
  ELSE IF Words[tls.cipher] \cap {"RSA_WITH", "3DES", "RC4"} # {} THEN "NO"
  ELSE "UNKNOWN"

severityToScore ==
  [CRITICAL |-> 90, HIGH |-> 70, MEDIUM |-> 50, LOW |-> 30, INFO |-> 10]

RiskScore(findings) ==
  Max({0} \cup {severityToScore[f.severity] : f \in findings})

\* computeScores: the axes of the radar that TLS information decides.
VersionScore(version) ==
  CASE version = "TLS 1.3" -> 10 [] version = "TLS 1.2" -> 8
    [] version = "TLS 1.1" -> 4  [] version = "TLS 1.0" -> 2 [] OTHER -> 0

CipherScore(cipher) ==
  LET words == IF cipher = Unset THEN {} ELSE Words[cipher] IN
  CASE words \cap {"AES_256_GCM", "CHACHA20"} # {} -> 10
    [] "AES_128_GCM" \in words -> 9
    [] "AES_256_CBC" \in words -> 7
    [] "AES_128_CBC" \in words -> 6
    [] "3DES" \in words -> 2
    [] "RC4" \in words -> 1
    [] OTHER -> 5

KeyExchangeScore(fs) == CASE fs = "YES" -> 10 [] fs = "NO" -> 2 [] OTHER -> 5

Lesser(a, b) == IF a < b THEN a ELSE b

CertificateScore(cert) ==
  Lesser(IF cert.expired THEN 1 ELSE 10,
         IF \/ cert.algorithm = "RSA" /\ cert.bits \in 1..2047
            \/ cert.algorithm = "ECDSA" /\ cert.bits \in 1..255
         THEN 3 ELSE 10)

SignatureScore(cert) ==
  CASE cert.signature = "SHA256" -> 10 [] cert.signature = "SHA1" -> 3
    [] cert.signature = "MD5" -> 1 [] OTHER -> 5

computeScores(tls, fs, cert) ==
  [version     |-> IF tls = Nil THEN 0 ELSE VersionScore(tls.version),
   cipher      |-> IF tls = Nil THEN 0 ELSE CipherScore(tls.cipher),
   keyExchange |-> IF tls = Nil THEN 0 ELSE KeyExchangeScore(fs),
   certificate |-> IF cert = Nil THEN 5 ELSE CertificateScore(cert),
   signature   |-> IF cert = Nil THEN 5 ELSE SignatureScore(cert)]

-----------------------------------------------------------------------------
(* The steps *)

\* What the timeline analyser may say of a session that is over.
Verdicts ==
  {v \in [state : {"PLAINTEXT", "TLS_COMMAND_SENT", "TLS_ACCEPTED", "FAILED",
                   "ENCRYPTED", "STARTTLS_NOT_USED"},
          supported : BOOLEAN, requested : BOOLEAN,
          accepted : BOOLEAN, established : BOOLEAN] :
     CASE v.state = "PLAINTEXT" -> v.supported /\ ~v.requested /\ ~v.accepted
       [] v.state = "STARTTLS_NOT_USED" -> ~v.supported /\ ~v.requested /\ ~v.accepted
       [] v.state \in {"TLS_COMMAND_SENT", "FAILED"} -> v.requested /\ ~v.accepted
       [] OTHER -> v.requested /\ v.accepted}

CoherentVerdicts == {v \in Verdicts : v.established <=> v.state = "ENCRYPTED"}

Capturing ==
  /\ pc = "capture"
  /\ \E s \in Streams : Packet(s)
  /\ UNCHANGED assessVars

\* The results as a map: a stream per key, any of those that share it, since
\* parseOutput lists them in the order of a Go map.  TShark may be missing or
\* run out of time.
Inspect ==
  /\ pc = "capture"
  /\ LET listed == {s \in Streams : Listed(s)}
         keys   == {keyOf[s] : s \in listed} IN
     \/ tlsByKey' \in {m \in [keys -> listed] : \A k \in keys : keyOf[m[k]] = k}
     \/ tlsByKey' = <<>>
  /\ pc' = "match"
  /\ UNCHANGED <<inspectVars, session>>

\* The stream whose information session k gets: its own, or the only one.
Sources(k) ==
  IF k \in DOMAIN tlsByKey THEN {tlsByKey[k]}
  ELSE IF Cardinality(DOMAIN tlsByKey) = 1 THEN Range(tlsByKey) ELSE {}

\* AnalyzeCertificate, of the first certificate of the server's chain.
AnalyzeCertificate(leaf) ==
  [expired     |-> Now > leaf.notAfter,
   notYetValid |-> Now < leaf.notBefore,
   algorithm   |-> leaf.algorithm,
   bits        |-> leaf.bits,
   signature   |-> leaf.signature]

\* The certificate is read from the handshake, if it can be; without one there
\* it is looked for in the server's plain bytes, which are none.
Parsed(source) ==
  IF source # Nil /\ result[source].certs
  THEN {AnalyzeCertificate(leaf) : leaf \in Certificates} \cup {Nil} ELSE {Nil}

\* The TLS information of a session without a source.
Unsourced(verdict) == IF verdict.established THEN NoResult ELSE Nil

\* What becomes of session k; source is in Sources(k), or Nil.
Assessed(k, source, verdict, events, cert) ==
  LET tls      == IF source = Nil THEN Unsourced(verdict) ELSE result[source]
      fs       == IF source = Nil THEN "UNKNOWN" ELSE AssessForwardSecrecy(tls)
      findings == Assess(verdict, events, tls, cert) IN
  [key      |-> k,
   source   |-> source,
   tls      |-> tls,
   fs       |-> fs,
   findings |-> findings,
   risk     |-> RiskScore(findings),
   cert     |-> cert,
   scores   |-> computeScores(tls, fs, cert)]

AssessSession(k) ==
  /\ pc = "match"
  /\ \E source \in IF Sources(k) = {} THEN {Nil} ELSE Sources(k),
        verdict \in CoherentVerdicts, events \in {{}, {"command"}, {"command", "login"}} :
     \E cert \in Parsed(source) :
       session' = Assessed(k, source, verdict, events, cert)
  /\ pc' = "done"
  /\ UNCHANGED <<inspectVars, tlsByKey>>

Init ==
  /\ InspectInit
  /\ pc = "capture"
  /\ tlsByKey = <<>>
  /\ session = Nil

Next == Capturing \/ Inspect \/ \E k \in Keys : AssessSession(k)

Spec == Init /\ [][Next]_<<inspectVars, assessVars>>

-----------------------------------------------------------------------------
(* Properties *)

Raised == {f.id : f \in session.findings}
Own(k) == {s \in Streams : keyOf[s] = k}

\* What is reported of a session's own handshake, whatever else is in the capture:
\* when TShark ran, the session's key belongs to one TCP stream and the capture has
\* its ServerHello, a deprecated version always, and a suite that lacks
\* authenticated encryption or forward secrecy if the code has a name for it, are
\* each reported and counted.  Of a suite without a name such as 0xc013 or 0x0004
\* nothing is reported, however weak it is (inspector.go:197-230, 311-345,
\* service.go:257-280, engine.go:100-175).
WeakTlsIsReportedWhenNamed ==
  pc = "done" /\ DOMAIN tlsByKey # {} =>
    \A s \in Streams :
      Own(session.key) = {s} /\ "ServerHello" \in seen[s] =>
        /\ Version(s) \notin AllowedTLSVersions =>
             "TLS-001" \in Raised /\ session.risk >= 70
        /\ Suite(s) \in Named \ Authenticated =>
             "CIPHER-001" \in Raised /\ session.risk = 90
        /\ Suite(s) \in Named \ Ephemeral =>
             "FS-001" \in Raised /\ session.fs = "NO"
        /\ Suite(s) \notin Named =>
             /\ Raised \cap {"CIPHER-001", "CIPHER-002", "FS-001"} = {}
             /\ Suite(s) \notin Tls13 => session.fs = "UNKNOWN"

\* No false alarm: what is said of version and cipher is true of the handshake
\* it was read from, except that without a ServerHello the version is the one
\* of a ClientHello's record, which is TLS 1.0 whatever is then negotiated
\* (inspector.go:224-230).
AlarmsAreTrue ==
  pc = "done" =>
    /\ Raised \cap {"TLS-001", "CIPHER-001", "FS-001"} # {} => session.source # Nil
    /\ session.source # Nil =>
         LET s == session.source IN
         /\ "TLS-001" \in Raised =>
              \/ Version(s) \notin AllowedTLSVersions
              \/ "ClientHello" \in seen[s] /\ "ServerHello" \notin seen[s]
         /\ "CIPHER-001" \in Raised => Suite(s) \notin Authenticated
         /\ "FS-001" \in Raised => Suite(s) \notin Ephemeral
         /\ "CIPHER-001" \in Raised \/ "FS-001" \in Raised => "ServerHello" \in seen[s]

\* The radar, the forward-secrecy flag and the findings are three tables over
\* the same handshake, and of a suite with a name they agree: what is reported scores below what is
\* not, on its own axis, but for a small ECDSA key, which scores as low as a
\* small RSA key and is not reported (engine.go:100-251, inspector.go:348-369,
\* service.go:528-612).
TablesAgree ==
  pc = "done" /\ session.tls # Nil =>
    LET scores == session.scores  tls == session.tls IN
    /\ tls.version # Unset =>
         "TLS-001" \in Raised <=> scores.version < 8
    /\ tls.cipher \in Named =>
         /\ "CIPHER-001" \in Raised <=> scores.cipher < 9
         /\ "FS-001" \in Raised <=> session.fs = "NO"
         /\ "FS-001" \in Raised <=> scores.keyExchange < 5
    /\ "CERT-001" \in Raised <=> scores.certificate = 1
    /\ "KEY-001" \in Raised => scores.certificate <= 3
    /\ scores.certificate = 3 => "KEY-001" \in Raised \/ session.cert.algorithm = "ECDSA"
    /\ "SIG-001" \in Raised <=> scores.signature < 5
    /\ session.risk = 90 <=> \E f \in session.findings : f.severity = "CRITICAL"
=============================================================================
