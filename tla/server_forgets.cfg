\* After a restart the events of the stream find no endpoint, and count as handled.
SPECIFICATION Spec
CONSTANTS
  None = None
  s1 = s1
  s2 = s2
  dev = dev
  ownKey = ownKey
  Secrets = {s1, s2}
  DevKey = dev
  DevSecret = dev
  Environments <- EnvironmentsInThreeStages
  Rollout <- InThreeStages
  Clients = {c1, c2}
  Urls = {u1}
  MaxBatch = 2
  MaxRotations = 1
INVARIANTS
  EventsFindEndpoint
CHECK_DEADLOCK FALSE
