\* Every way a fair review of two actions can go.
SPECIFICATION FairSpec
CONSTANTS
  Actions = {a1, a2}
  Fields = {"emotion"}
  MaxSteps = 3
  MaxCalls = 3
INVARIANTS EscalationIsFinal
PROPERTIES ReviewEnds
CHECK_DEADLOCK FALSE
