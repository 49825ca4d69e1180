SPECIFICATION Spec
CONSTANTS
  t1 = t1
  t2 = t2
  k1 = k1
  k2 = k2
  NoKey = NoKey
  NoRow = NoRow
  Threads = {t1, t2}
  Keys = {k1, k2}
  DefaultProvider = "disabled"
  DefaultKey = NoKey
  Drafts <- PanelDrafts
INVARIANTS
  RemovedKeyIsNotSent
CHECK_DEADLOCK FALSE
