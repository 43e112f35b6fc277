------------------------------ MODULE MCDaemon ------------------------------
(* Small instances of Daemon for TLC.                                      *)
EXTENDS Daemon, TLC

CONSTANTS e1, e2, s1, s2, p1

OneSession == [e \in Events |-> s1]
TwoSessions == [e \in Events |-> IF e = e1 THEN s1 ELSE s2]
OneProvider == [s \in Sessions |-> p1]

Counts(drop, crash, saveError, tools) ==
  [f \in Faults |-> CASE f = "drop" -> drop [] f = "crash" -> crash
                      [] f = "saveError" -> saveError [] f = "tool" -> tools]

BudgetCore == Counts(1, 0, 0, 1)
BudgetLive == Counts(1, 1, 1, 1)
BudgetTools == Counts(0, 0, 0, 1)
BudgetHeld == Counts(0, 0, 0, 2)
BudgetCrash == Counts(0, 1, 0, 0)

HandlerSymmetry == Permutations(Handlers)
=============================================================================
