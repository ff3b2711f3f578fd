SPECIFICATION AlgorithmsSpec
CONSTANTS
  Files <- MCFiles
  MinChars = 200
  MaxChars = 800
  PolishBatch = 2
  EnrichBatch = 2
  Replies <- MCReplies
  Extra = 1
  Industries = {"", "hospital", "restaurant", "government", "finance"}
  Wordings <- MCWordings
  Briefs <- MCBriefs
  Emotions = {"angry", "glad"}
  Statuses = {"escalated", "open"}
  Priorities = {"low", "soon"}
  Categories = {"etc", "product"}
  MaxCorrections = 2
INVARIANTS
  EveryTextOnce
  PathEncloses
  SectionNumbersKept
  ValidOutputKept
  WorseNewsIsNotLower
CHECK_DEADLOCK FALSE
