SPECIFICATION Spec
CONSTANTS
  None = None
  Providers = {p1}
  SessionIds = {s1}
  Workspaces = {w1}
  Pids = {x1, x2}
  Callers = {c1}
  Overlap = FALSE
  Budget <- BudgetZombie
PROPERTY StaleFileIsNotRunning
