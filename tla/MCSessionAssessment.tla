------------------------ MODULE MCSessionAssessment ------------------------
(***************************************************************************)
(* What the servers of the run negotiate: each version with a suite that   *)
(* the rules treat differently, and two weak suites without a name.        *)
(***************************************************************************)
EXTENDS SessionAssessment

MCOffers ==
  {<<"SSLv3",   "TLS_RSA_WITH_3DES_EDE_CBC_SHA">>,
   <<"TLS 1.0", "0x0004">>,
   <<"TLS 1.1", "TLS_ECDHE_RSA_WITH_AES_256_CBC_SHA384">>,
   <<"TLS 1.2", "TLS_RSA_WITH_AES_256_GCM_SHA384">>,
   <<"TLS 1.2", "0xc013">>,
   <<"TLS 1.3", "TLS_CHACHA20_POLY1305_SHA256">>}

Leaf(from, until, algorithm, bits, signature) ==
  [notBefore |-> from, notAfter |-> until, algorithm |-> algorithm,
   bits |-> bits, signature |-> signature]

\* The analysis is at time 2; 2047 bits and 224 are below the limits.
MCCertificates ==
  {Leaf(1, 2, "RSA", 2048, "SHA256"),
   Leaf(0, 1, "RSA", 1024, "SHA1"),
   Leaf(1, 3, "RSA", 2047, "SHA256"),
   Leaf(3, 4, "ECDSA", 224, "MD5")}

\* Streams and keys are only compared.
Symmetry == Permutations(Streams) \cup Permutations(Keys)
=============================================================================
