\* One server of a fleet: its configurations, its shutdown, a rotation of cursor secrets
\* in three stages, and two clients that edit the same endpoint, of which
\* only the secret matters here.
SPECIFICATION Spec
CONSTANTS
  None = None
  s1 = s1
  s2 = s2
  dev = dev
  ownKey = ownKey
  Secrets = {s1, s2}
  DevKey = dev
  DevSecret = dev
  Environments <- EnvironmentsInThreeStages
  Rollout <- InThreeStages
  Clients = {c1, c2}
  Urls = {u1}
  MaxBatch = 2
  MaxRotations = 1
INVARIANTS
  AcceptedConfigBuilds
  NothingUsedClosed
  RotationKeepsWalks
PROPERTIES
  RotatedStaysRotated
  ShutdownEnds
CHECK_DEADLOCK FALSE
