------------------------------ MODULE WakeStore ------------------------------
(***************************************************************************)
(* The per-session record of the event store (events.json), and the        *)
(* operations of internal/wake/store.go on it.  Every operation of the     *)
(* code loads the whole file, changes one session's record and saves the   *)
(* whole file; the operators below are that change, the modules that use   *)
(* them model the load and the save.                                       *)
(*                                                                         *)
(* Abstracted: timestamps, reasons, delivery ids and payloads, which no    *)
(* control decision of the code reads.  A session that is not in the file  *)
(* is the record Absent.                                                   *)
(***************************************************************************)
EXTENDS Integers, Sequences, FiniteSets

CONSTANTS Events,       \* event ids, each addressed to one session
          MaxHistory    \* maxEventHistory: records kept per session

ASSUME MaxHistoryAssumption == MaxHistory \in Nat \ {0}

Lifecycles == {"absent", "idle", "running", "paused", "failed", "crashed"}
EventStatuses == {"pending", "completed", "failed"}

EventRecords == [event : Events, status : EventStatuses]
SessionStates == [life : Lifecycles, events : Seq(EventRecords)]

Absent == [life |-> "absent", events |-> << >>]

Rec(e, status) == [event |-> e, status |-> status]

Seen(st, e) == \E i \in DOMAIN st.events : st.events[i].event = e

HasStatus(st, e, status) ==
  \E i \in DOMAIN st.events : st.events[i] = Rec(e, status)

(* What the list of records says of an event.                              *)
StatusOf(st, e) ==
  IF Seen(st, e) THEN CHOOSE status \in EventStatuses : HasStatus(st, e, status) ELSE "none"

(* ensureSession: a record that does not exist yet starts idle.            *)
Ensure(st) == IF st.life = "absent" THEN [st EXCEPT !.life = "idle"] ELSE st

Gate(st) == st.life \in {"paused", "crashed"}

SeenEvents(st) == {e \in Events : Seen(st, e)}   \* mutant of Pending

Pending(st) == {e \in Events : HasStatus(st, e, "pending")}

WithStatus(events, e, status) ==
  [i \in DOMAIN events |->
     IF events[i].event = e THEN Rec(e, status) ELSE events[i]]

(* The newest MaxHistory records survive, whatever their status.           *)
Newest(events) ==
  IF Len(events) > MaxHistory
  THEN SubSeq(events, (Len(events) - MaxHistory) + 1, Len(events))
  ELSE events

(* Mutant of Duplicate: no deduplication.                                  *)
NeverDuplicate(st, e) == FALSE

(* Only a completed event is a duplicate; a failed or pending one is       *)
(* reset to pending.  A gated session keeps its lifecycle.                 *)
Duplicate(st, e) == HasStatus(st, e, "completed")

(* Mutant of RecordDelivery: the gate is ignored.                          *)
RecordUngated(st, e) ==
  IF Duplicate(st, e) THEN st
  ELSE [life   |-> "running",
        events |-> IF Seen(st, e)
                   THEN WithStatus(st.events, e, "pending")
                   ELSE Newest(Append(st.events, Rec(e, "pending")))]

(* Mutant of RecordDelivery: every copy gets a record of its own.          *)
RecordAgain(st, e) ==
  IF Duplicate(st, e) THEN st
  ELSE [life   |-> IF Gate(st) THEN st.life ELSE "running",
        events |-> Newest(Append(st.events, Rec(e, "pending")))]

RecordDelivery(st, e) ==
  IF Duplicate(st, e) THEN st
  ELSE [life   |-> IF Gate(st) THEN st.life ELSE "running",
        events |-> IF Seen(st, e)
                   THEN WithStatus(st.events, e, "pending")
                   ELSE Newest(Append(st.events, Rec(e, "pending")))]

(* Mutants of CompleteEvent: one half of its effect is missing.            *)
CompleteLifecycle(st, e, status) ==
  IF Seen(st, e)
  THEN [st EXCEPT !.life = IF status = "failed" THEN "failed" ELSE "idle"] ELSE st

CompleteRecord(st, e, status) ==
  IF Seen(st, e)
  THEN [st EXCEPT !.events = WithStatus(st.events, e, status)] ELSE st

(* An event that is not on record leaves the session as it was.            *)
CompleteEvent(st, e, status) ==
  IF Seen(st, e)
  THEN [life   |-> IF status = "failed" THEN "failed" ELSE "idle",
        events |-> WithStatus(st.events, e, status)]
  ELSE st

Pause(st) == [st EXCEPT !.life = "paused"]
MarkCrashed(st) == [st EXCEPT !.life = "crashed"]
Resume(st) == [st EXCEPT !.life = "idle"]      \* refused for an absent session

(* The granted permission ids are not modelled: what is left of            *)
(* SetPermissions is that the session exists afterwards.                   *)
SetPermissions(st) == Ensure(st)

(* WriteProjection: what <workspace>/.awp/data.json shows the agent.       *)
Projections == [life : Lifecycles, pending : SUBSET Events]
Projection(st) == [life |-> st.life, pending |-> Pending(st)]
=============================================================================
