\* A deletion and a collection of the same server.
CONSTANTS
  Requests = {r1}
  Workers = {w1}
  MaxRows = 1
SPECIFICATION Spec
PROPERTIES DeleteKeepsHistory
CHECK_DEADLOCK FALSE
