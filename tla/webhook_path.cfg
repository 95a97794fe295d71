SPECIFICATION Spec
CONSTANTS
  Modes <- WebhookOnly
  Tables = 1
  SeedRows = 7
  MaxFaults = 0
  s1 = s1
  s2 = s2
  Slots = {}
  Handlers <- AllHandlers
  Interval = 1
  MaxTime = 1
  MaxRetries = 1
  Limit = 1
  MaxMessages = 0
INVARIANT StatusEndpointServed
