\* Two edits under If-Match that are under way at once are both accepted.
SPECIFICATION Spec
CONSTANTS
  None = None
  s1 = s1
  s2 = s2
  dev = dev
  ownKey = ownKey
  Secrets = {s1, s2}
  DevKey = dev
  DevSecret = dev
  Environments <- EnvironmentsInThreeStages
  Rollout <- InThreeStages
  Clients = {c1, c2}
  Urls = {u1, u2}
  MaxBatch = 2
  MaxRotations = 1
PROPERTIES
  IfMatchGuards
CHECK_DEADLOCK FALSE
