\* Two runs that may overlap, with a retry, in a process that may die.
SPECIFICATION Spec
CONSTANTS
  r1 = r1
  r2 = r2
  Runs = {r1, r2}
  Intents = {"sms"}
  None = None
  MaxRetries = 1
  MaxProposals = 0
  NotionReady = FALSE
  Serial = FALSE
  Faults = {"crash"}
SYMMETRY Symmetry
INVARIANTS OnlyReviewedPublished
CHECK_DEADLOCK FALSE
