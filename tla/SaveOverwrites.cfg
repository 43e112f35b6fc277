SPECIFICATION Spec
CONSTANTS
  None = None
  e1 = e1
  e2 = e2
  s1 = s1
  s2 = s2
  p1 = p1
  Events = {e1, e2}
  Sessions = {s1, s2}
  Providers = {p1}
  Handlers = {h1, h2}
  Tools = {t1}
  Target <- TwoSessions
  Home <- OneProvider
  MaxHistory = 3
  Overlap = TRUE
  Budget <- BudgetTools
PROPERTY SaveTouchesOwnSession
CHECK_DEADLOCK FALSE
