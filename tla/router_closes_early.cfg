\* Answers of payments that chose before the circuit opened.
SPECIFICATION Spec
CONSTANTS
  Priority <- Policy
  a = a
  b = b
  c = c
  Payments = {x1, x2, x3}
  Names = {a, b, c}
  Providers = {a, b}
  Default = b
  Threshold = 2
  Cooldown = 2
  TransientOnly = TRUE
PROPERTIES
  StaysOpen
SYMMETRY Symmetry
CHECK_DEADLOCK FALSE
