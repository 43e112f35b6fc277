------------------------------ MODULE EventLog ------------------------------
(***************************************************************************)
(* What the event store promises to those who share it, with the file      *)
(* left out: no loads and saves, no list of records and its limit, no      *)
(* locks.  It knows of each session how it is and of each event what       *)
(* became of it, and every change is one atomic operation.                 *)
(*                                                                         *)
(* An event is settled only while it is pending, and a completed one is    *)
(* delivered again only after it was forgotten, which happens to the old   *)
(* events of a session one at a time when a new one arrives.               *)
(* The daemon and the tools (module Daemon) implement this as long as      *)
(* their loads and saves do not overlap.                                   *)
(***************************************************************************)
CONSTANTS Events, Sessions, Target

VARIABLES
  life,     \* how each session is
  status    \* what became of each event

vars == <<life, status>>

Init ==
  /\ life = [s \in Sessions |-> "absent"]
  /\ status = [e \in Events |-> "none"]

Gated(s) == life[s] \in {"paused", "crashed"}
Others(e) == {f \in Events : f # e /\ Target[f] = Target[e]}

(* A delivery: the event is pending, its session at work unless it is      *)
(* gated.  A new event may take the place of one other of its session.     *)
Deliver(e) ==
  /\ status[e] # "completed"
  /\ \E gone \in SUBSET Others(e) :
       /\ \A f, g \in gone : f = g
       /\ status[e] # "none" => gone = {}
       /\ status' = [f \in Events |-> IF f = e THEN "pending"
                                      ELSE IF f \in gone THEN "none" ELSE status[f]]
  /\ life' = IF Gated(Target[e]) THEN life ELSE [life EXCEPT ![Target[e]] = "running"]

(* The outcome of a delivery, which opens a gate as well.                  *)
Settle(e, outcome, next) ==
  /\ status[e] = "pending"
  /\ next \in IF outcome = "completed" THEN {"idle"} ELSE {"failed", "crashed"}
  /\ status' = [status EXCEPT ![e] = outcome]
  /\ life' = [life EXCEPT ![Target[e]] = next]

PauseSession(s) ==
  /\ life' = [life EXCEPT ![s] = "paused"]
  /\ UNCHANGED status

ResumeSession(s) ==
  /\ life[s] # "absent"
  /\ life' = [life EXCEPT ![s] = "idle"]
  /\ UNCHANGED status

Next ==
  \/ \E e \in Events :
       \/ Deliver(e)
       \/ \E outcome \in {"completed", "failed"}, next \in {"idle", "failed", "crashed"} :
            Settle(e, outcome, next)
  \/ \E s \in Sessions : PauseSession(s) \/ ResumeSession(s)

Spec == Init /\ [][Next]_vars
=============================================================================
