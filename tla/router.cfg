\* Three payments over two providers and a policy that names the default one.
SPECIFICATION FairSpec
CONSTANTS
  Priority <- Policy
  a = a
  b = b
  c = c
  Payments = {x1, x2, x3}
  Names = {a, b, c}
  Providers = {a, b}
  Default = b
  Threshold = 2
  Cooldown = 2
  TransientOnly = TRUE
INVARIANTS
  NoProviderTwice
  OpensOnStreak
PROPERTIES
  CircuitsHeal
