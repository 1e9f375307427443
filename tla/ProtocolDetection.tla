------------------------- MODULE ProtocolDetection -------------------------
(***************************************************************************)
(* Detector.Detect: a stream's mail protocol is guessed from its ports and *)
(* from signs in its payload.  A payload is the set of signs it contains,  *)
(* each named after the words the code looks for; scores are in tenths.    *)
(***************************************************************************)
EXTENDS Naturals, FiniteSets

isSMTPPort(p) == p \in {25, 465, 587, 2525, 10025, 10466, 10465, 10587}
isIMAPPort(p) == p \in {143, 993, 10143, 10993}
isPOP3Port(p) == p \in {110, 995, 10110, 10995}

SMTPSigns(payload) ==
  payload \cap ({"220", "EHLO", "MAIL FROM", "250"} \cup
                (IF "STLS" \in payload THEN {} ELSE {"STARTTLS"}))
IMAPSigns(payload) == payload \cap {"* OK", "CAPABILITY", "IMAP", "LOGIN", "A001"}
POP3Signs(payload) == payload \cap {"+OK", "-ERR", "USER", "STLS", "LIST"}

Score(portMatches, signs) == (IF portMatches THEN 5 ELSE 0) + 2 * Cardinality(signs)

\* Variant: of equal scores IMAP's is taken before SMTP's.
DetectIMAPFirst(src, dst, payload) ==
  LET smtp == Score(isSMTPPort(dst) \/ isSMTPPort(src), SMTPSigns(payload))
      imap == Score(isIMAPPort(dst) \/ isIMAPPort(src), IMAPSigns(payload))
      pop3 == Score(isPOP3Port(dst) \/ isPOP3Port(src), POP3Signs(payload)) IN
  IF imap > 0 /\ imap >= smtp /\ imap >= pop3 THEN "IMAP"
  ELSE IF smtp > 0 /\ smtp >= pop3 THEN "SMTP"
  ELSE IF pop3 > 0 THEN "POP3" ELSE "UNKNOWN"

Detect(src, dst, payload) ==
  LET smtp == Score(isSMTPPort(dst) \/ isSMTPPort(src), SMTPSigns(payload))
      imap == Score(isIMAPPort(dst) \/ isIMAPPort(src), IMAPSigns(payload))
      pop3 == Score(isPOP3Port(dst) \/ isPOP3Port(src), POP3Signs(payload)) IN
  IF smtp > 0 /\ smtp >= imap /\ smtp >= pop3 THEN "SMTP"
  ELSE IF imap > 0 /\ imap >= pop3 THEN "IMAP"
  ELSE IF pop3 > 0 THEN "POP3" ELSE "UNKNOWN"
=============================================================================
