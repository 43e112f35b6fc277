SPECIFICATION FairSpec
CONSTANTS
  None = None
  e1 = e1
  e2 = e2
  s1 = s1
  s2 = s2
  p1 = p1
  Events = {e1}
  Sessions = {s1}
  Providers = {p1}
  Handlers = {h1, h2}
  Tools = {t1}
  Target <- OneSession
  Home <- OneProvider
  MaxHistory = 3
  Overlap = TRUE
  Budget <- BudgetLive
INVARIANT CompletedMeansRan
PROPERTIES
  EveryEventAnswered
  ImplementsAtLeastOnce
CHECK_DEADLOCK FALSE
