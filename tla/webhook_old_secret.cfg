\* The attempts of a dispatch keep the secret the endpoint had at first.
SPECIFICATION Spec
CONSTANTS
  other = other
  Events = {e1}
  Subscriptions <- AllOrOther
  Endpoints = {w1}
  Replayers = {r1}
  MaxAttempts = 2
  BatchLimit = 2
  MaxChanges = 1
  MaxReplays = 1
PROPERTIES
  SignedWithSecret
CHECK_DEADLOCK FALSE
