\* One fair run with the retry limit of the code and every fault.
SPECIFICATION FairSpec
CONSTANTS
  r1 = r1
  r2 = r2
  Runs = {r1}
  Intents = {"sms"}
  None = None
  MaxRetries = 2
  MaxProposals = 1
  NotionReady = TRUE
  Serial = FALSE
  Faults = {"db", "mcp", "crash"}
INVARIANTS SentRespectsReview SentFromLastTry EscalationLeavesNoTrace EveryPlannedActionAttempted
PROPERTIES KeepsPromise RunsEnd RefusalAlertsAdmin
CHECK_DEADLOCK FALSE
