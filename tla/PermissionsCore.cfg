SPECIFICATION Spec
CONSTANTS
  None = None
  wake = wake
  read = read
  wakeDef = wakeDef
  readDef = readDef
  readChanged = readChanged
  Sessions = {s1, s2}
  Ids = {wake, read}
  Wake = wake
  Definitions = {wakeDef, readDef, readChanged}
  Id <- IdOf
  InteractiveOnly = {readChanged}
  LocalDef <- Local
  Tools = {t1}
  Overlap = FALSE
  Budget <- BudgetPermissions
SYMMETRY SessionSymmetry
INVARIANTS
  TypeOK
  OnceWakesOnce
PROPERTIES
  WakesOnlyWithApproval
  RevokedWhileStopped
