------------------------------- MODULE MCLocal -------------------------------
(* Small instances of Local for TLC.                                       *)
EXTENDS Local, TLC

Counts(call, dies, killed, writeError, foreground, reuse) ==
  [f \in Faults |->
     CASE f = "call" -> call [] f = "dies" -> dies [] f = "killed" -> killed
       [] f = "writeError" -> writeError [] f = "foreground" -> foreground
       [] f = "reuse" -> reuse]

BudgetControl == Counts(4, 1, 1, 1, 1, 1)
BudgetZombie == Counts(2, 1, 0, 0, 0, 0)
ControlSymmetry == Permutations(Pids) \cup Permutations(Callers)
=============================================================================
