SPECIFICATION DialogueSpec
CONSTANTS
  Protocols = {"SMTP", "IMAP", "POP3"}
  MaxChunks = 6
  MaxLines = 6
  MaxScrambled = 3
INVARIANTS
  AcceptedIsAnswered
  VerdictCoherent
  TimelineMatchesWire
  VerdictMatchesDialogue
  FlattersOnlyWhenMisled
CHECK_DEADLOCK FALSE
