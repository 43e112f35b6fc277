----------------------------- MODULE AtLeastOnce -----------------------------
(***************************************************************************)
(* What the wake path promises about an event, with everything left out    *)
(* that carries it: connections, processes, files, locks, retries.         *)
(*                                                                         *)
(* A published event is pending until the provider crosses it off, which   *)
(* needs an answer.  The agent may be woken for it any number of times,    *)
(* before the answer and, by a stray copy, after it; but `completed` is    *)
(* only said of an event the agent has been woken for with success.        *)
(* The daemon (module Daemon) and the connection beneath it (module        *)
(* Client) each implement this.                                            *)
(***************************************************************************)
CONSTANT Events

VARIABLES
  status,   \* what the provider knows of each event
  done      \* the events some runtime was run for with success

vars == <<status, done>>

Statuses == {"none", "pending", "completed", "failed"}

Init ==
  /\ status = [e \in Events |-> "none"]
  /\ done = {}

Publish(e) ==
  /\ status[e] = "none"
  /\ status' = [status EXCEPT ![e] = "pending"]
  /\ UNCHANGED done

Wake(e) ==
  /\ status[e] # "none"
  /\ done' = done \cup {e}
  /\ UNCHANGED status

Answer(e, s) ==
  /\ status[e] # "none"
  /\ s = "completed" => e \in done
  /\ status' = [status EXCEPT ![e] = s]
  /\ UNCHANGED done

Next ==
  \E e \in Events :
    \/ Publish(e) \/ Wake(e)
    \/ \E s \in {"completed", "failed"} : Answer(e, s)

Spec == Init /\ [][Next]_vars
=============================================================================
