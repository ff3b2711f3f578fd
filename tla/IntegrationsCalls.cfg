SPECIFICATION Spec
CONSTANTS
  a1 = a1
  a2 = a2
  t1 = t1
  t2 = t2
  w1 = w1
  Slots = {k1, k2}
  States = {s1, s2}
  Accounts = {a1, a2}
  Sites = {t1, t2}
  Wishes = {w1}
  Match <- MCMatch
  None = None
SYMMETRY Symmetry
INVARIANTS
  OneExchangePerState
  IssueGoesToAChosenSite
  RowIsOneAccount
  DisconnectStays
CHECK_DEADLOCK FALSE
