SPECIFICATION Spec
SYMMETRY Symmetry
CONSTANTS
  NoAuth = none
  Auths = {a1, a2}
  Requests = {f1, f2}
  MaxAttempts = 2
  MaxTurns = 3
INVARIANTS
  ProtectedNeedsFace
  FailuresEndTheSession
  SessionStaysCleared
  OnceWithoutListener
CHECK_DEADLOCK FALSE
