\* Two sources share external_ids with rows older than migration 0009; their
\* cycles go on and may fail.
CONSTANTS
  Own = own
  Others = {other}
  Legacy = legacy
  LegacyRows = {e1}
  Externals = {e1}
  Categories = {sport, film}
  Types = {"permanent", "event"}
  Grace = 2
  EventDays = 1
  PermanentDays = 2
  Horizon = 2
  Gaps = {1}
  MaxListing = 2
  Window = 2
  Failures = TRUE
SPECIFICATION LiveSpec
INVARIANTS TypeOK RowsAgree HistoryCovers OneRowPerIdentity ListedIsActive
  SweptAreListed
PROPERTIES RowsEndure AbsentIsArchived
