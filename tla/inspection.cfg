\* Three records in a ring of two.  A process at its bound has no step left.
SPECIFICATION FairOneSlowTab
CONSTANTS
  Worker = {k1, k2}
  Tab = {t1, t2}
  First = t1
  Request = {"a", "b"}
  Truncated = {}
  Escaped = {"b"}
  Cap = 2
  MaxRecords = 3
INVARIANTS
  TypeOK
  FeedHasNoGaps
  ReplaySendsWhatIsShown
PROPERTIES
  StoreIsBoundedLog
  EveryRecordIsShown
CHECK_DEADLOCK FALSE
