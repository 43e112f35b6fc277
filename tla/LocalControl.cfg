SPECIFICATION Spec
CONSTANTS
  None = None
  Providers = {p1, p2}
  SessionIds = {s1}
  Workspaces = {w1, w2}
  Pids = {x1, x2}
  Callers = {c1, c2}
  Overlap = FALSE
  Budget <- BudgetControl
SYMMETRY ControlSymmetry
INVARIANTS
  TypeOK
  OneDaemon
  DaemonIsOnFile
  BindingsAreUnique
PROPERTIES
  
  SaveKeepsOthers
  ImplementsControlPlane
