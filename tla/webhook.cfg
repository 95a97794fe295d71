SPECIFICATION CardSpec
CONSTANTS
  o1 = o1
  u1 = u1
  u2 = u2
  r1 = r1
  r2 = r2
  a1 = a1
  a2 = a2
  malformed = malformed
  infinite = infinite
  unstorable = unstorable
  none = none
  c1 = c1
  Readers = {c1}
  OrderIds = {o1}
  Users = {}
  Requests = {r1, r2}
  AdminTasks = {}
  Messages <- TwoEvents
  Statuses = {1, 2}
  Transitions <- OneEdge
  Stamps = {"t1", "t2"}
  NoOrder = none
  NoMessage = none
  Malformed = malformed
  Infinite = infinite
  Unstorable = unstorable
  WebhookSecret = "s3cret"
  MaxFaults = 1
SYMMETRY RequestSymmetry
INVARIANTS
  RecordedMeansApplied
  AckMeansApplied
  ErrorMeansFaultOrRecorded
  ConflictMeansClosed
  DuplicatesBounded
  MetricNeverOverstates
  CardTellsStatus
PROPERTIES
  ImplementsInbox
