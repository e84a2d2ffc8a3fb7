SPECIFICATION FairSpec
CONSTANTS
  Kinds = {"a", "u", "x"}
  Rules <- MCRules
  MaxLines = 3
  MaxEarlier = 2
  MaxSessions = 2
  MaxRestarts = 2
  MaxErrors = 1
INVARIANTS TypeOK CursorOnlyPastStored SweptIsComplete CountedOnce
PROPERTY LineNoticed
CHECK_DEADLOCK FALSE
