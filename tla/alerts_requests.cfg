\* Overlapping evaluations and PATCHes while metrics come and go, then quiet.
CONSTANTS
  Fingerprints = {cpu, stale}
  Requests = {r1, r2}
  MaxChanges = 3
SPECIFICATION LiveSpec
INVARIANTS TypeOK
PROPERTIES QuietEvaluationMirrors AlertsSettle
