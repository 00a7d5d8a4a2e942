\* A request, two background jobs and a collection over two rows of one server.
CONSTANTS
  Requests = {r1}
  Workers = {w1, w2}
  MaxRows = 2
SPECIFICATION LiveSpec
INVARIANTS TypeOK ToldJobNeverCompletes
PROPERTIES QuietDeleteRetires RetiredSamplingEnds
CHECK_DEADLOCK FALSE
