SPECIFICATION Spec
CONSTANTS
  old = old
  mid = mid
  new = new
  r1 = r1
  Trades = {old, mid, new}
  TradeDate <- MCTradeDate
  Rank <- MCRank
  Restatable = {mid}
  Runs = {r1}
  HISTORY_DAYS = 1
  PAGE_SIZE = 1
  MAX_PAGES_PER_RUN = 2
  StillWhilePaged = TRUE
  MaxDay = 2
  MaxFaults = 1
  MaxArchive = 3
  NoRow = NoRow
  NoTotal = NoTotal
INVARIANTS OnlyUnreturnedIsRetired WholeWindowIsExact RebuildReproduces
