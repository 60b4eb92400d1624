SPECIFICATION FairSpec
CONSTANTS
  hold = hold
  posting = posting
  other = other
  Ids = {hold, posting}
  Versions = {v1, v2}
  PendingOf <- MCPendingOf
  Unwritable = {}
  NoId = NoId
  NoRow = NoRow
  Absent = Absent
  NoCursor = NoCursor
  Runs = {r1}
  MAX_PAGES_PER_RUN = 1
  MAX_PAGINATION_RESTARTS = 1
  PAGE_SIZE = 3
  MAX_POLLS = 1
  MaxFeed = 3
  MaxFaults = 2
INVARIANTS StoreMirrorsCursor FreshMeansHistoryIsIn
PROPERTIES ImplementsMirror EveryChangeArrives
