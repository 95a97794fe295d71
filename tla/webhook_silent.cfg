SPECIFICATION LiveSpec
CONSTANTS
  o1 = o1
  u1 = u1
  u2 = u2
  r1 = r1
  r2 = r2
  a1 = a1
  a2 = a2
  malformed = malformed
  infinite = infinite
  unstorable = unstorable
  none = none
  OrderIds = {o1}
  Users = {u1}
  Requests = {r1}
  AdminTasks = {a1}
  Messages <- OneEvent
  Statuses <- Chain
  Transitions <- ChainEdges
  Stamps = {"t1", "t2"}
  NoOrder = none
  NoMessage = none
  Malformed = malformed
  Infinite = infinite
  Unstorable = unstorable
  WebhookSecret = "s3cret"
  MaxFaults = 0
PROPERTY ChangesAreTold
