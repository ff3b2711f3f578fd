SPECIFICATION MCSpec
CONSTANTS
  Jobs = {j1, j2}
  Docs <- MCDocs
  Names = {f1}
  Texts = {t1, t2}
  MaxChunks = 1
  ReindexLimit = 1
  MaxActive = 2
  Clients = {"server"}
  NoText = NoText
INVARIANT DeletedNotSearchable
CHECK_DEADLOCK FALSE
