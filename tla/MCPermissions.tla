---------------------------- MODULE MCPermissions ----------------------------
(* A small instance of Permissions for TLC: runtime.wake and one more      *)
(* permission in two versions, of which the second is interactive-only.    *)
EXTENDS Permissions, TLC

CONSTANTS wake, read, wakeDef, readDef, readChanged

IdOf == (wakeDef :> wake) @@ (readDef :> read) @@ (readChanged :> read)
Local == (wake :> wakeDef) @@ (read :> readDef)
SessionSymmetry == Permutations(Sessions)

Calls(tools, saveErrors) == ("tool" :> tools) @@ ("saveError" :> saveErrors)
BudgetPermissions == Calls(3, 1)
BudgetRevoke == Calls(2, 0)
=============================================================================
