SPECIFICATION Spec
CONSTANTS
  hold = hold
  posting = posting
  other = other
  Ids = {hold, posting}
  Versions = {v1}
  PendingOf <- MCPendingOf
  Unwritable = {}
  NoId = NoId
  NoRow = NoRow
  Absent = Absent
  NoCursor = NoCursor
  Runs = {r1, r2}
  MAX_PAGES_PER_RUN = 2
  MAX_PAGINATION_RESTARTS = 1
  PAGE_SIZE = 3
  MAX_POLLS = 0
  MaxFeed = 3
  MaxFaults = 1
INVARIANTS ArchiveCoversCursor SettledHoldIsGone
