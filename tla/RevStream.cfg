SPECIFICATION FairSpec
CONSTANTS
  Ids = {1}
  Cap = 1
  WireCap = 2
  MaxData = 2
  LinkFailures = TRUE
  SinkFailures = TRUE
INVARIANTS TypeOK InOrder EofComplete
PROPERTIES ReadersFinish EntriesReaped
CHECK_DEADLOCK FALSE
