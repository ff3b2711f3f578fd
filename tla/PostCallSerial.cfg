\* Two runs one after the other; MCP answers may be lost.
SPECIFICATION Spec
CONSTANTS
  r1 = r1
  r2 = r2
  Runs = {r1, r2}
  Intents = {"sms"}
  None = None
  MaxRetries = 0
  MaxProposals = 2
  NotionReady = FALSE
  Serial = TRUE
  Faults = {"mcp"}
SYMMETRY Symmetry
INVARIANTS NoResendAcrossRuns LogTellsTruth RecordsAgree
CHECK_DEADLOCK FALSE
