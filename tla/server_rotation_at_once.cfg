\* A new cursor secret that signs as soon as it is known is not known to every server yet.
SPECIFICATION Spec
CONSTANTS
  None = None
  s1 = s1
  s2 = s2
  dev = dev
  ownKey = ownKey
  Secrets = {s1, s2}
  DevKey = dev
  DevSecret = dev
  Environments <- EnvironmentsAtOnce
  Rollout <- AtOnce
  Clients = {c1, c2}
  Urls = {u1}
  MaxBatch = 2
  MaxRotations = 1
INVARIANTS
  RotationKeepsWalks
CHECK_DEADLOCK FALSE
