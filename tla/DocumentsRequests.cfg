SPECIFICATION MCSpec
CONSTANTS
  Jobs = {j1, j2, j3}
  Docs <- MCDocs
  Names = {f1}
  Texts = {t1, t2}
  MaxChunks = 2
  ReindexLimit = 1
  MaxActive = 2
  Clients = {"server", "local"}
  NoText = NoText
SYMMETRY Symmetry
INVARIANTS
  VectorsHaveADocument
  EditSurvives
  KeptAnswerIsCurrent
CHECK_DEADLOCK FALSE
