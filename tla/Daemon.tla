------------------------------- MODULE Daemon -------------------------------
(***************************************************************************)
(* The daemon (internal/cli/daemon.go on internal/client/client.go): one   *)
(* websocket connection per provider, one goroutine per delivery, a lock   *)
(* per session and one lock around the event store file; beside it the     *)
(* CLI and MCP processes that pause and resume sessions in the same file,  *)
(* and a provider that behaves like example/backend/main.py.               *)
(*                                                                         *)
(* A handler goroutine moves through                                       *)
(*   lock       waits for its session's lock                               *)
(*   record     recordOrGate: records the delivery in events.json          *)
(*   authorize  asks the permission store (its answer is free here)        *)
(*   denied     records the failure of an event that was not authorized    *)
(*   grant      stores the granted permissions with the session            *)
(*   start      enters the adapter                                         *)
(*   running    the runtime process is alive                               *)
(*   finish     records the outcome                                        *)
(*   project    writes the workspace projection, frees the session         *)
(*   ack        answers the provider                                       *)
(* and a Txn step (record, denied, grant, finish) is a load of the whole   *)
(* file followed by a save of the whole file.                              *)
(***************************************************************************)
EXTENDS WakeStore

CONSTANTS Sessions, Providers,
          Handlers,     \* bound: deliveries in work at one time
          Tools,        \* bound: `awp sessions ...` and MCP calls at one time
          Target,       \* the session an event is addressed to
          Home,         \* the provider a session is bound to
          Overlap,      \* may a tool's load and save straddle the daemon's?
          Budget,       \* bound: how often each kind of fault or call happens
          None

Faults == {"drop", "crash", "saveError", "tool"}

ASSUME TargetAssumption == Target \in [Events -> Sessions]
ASSUME HomeAssumption == Home \in [Sessions -> Providers]
ASSUME OverlapAssumption == Overlap \in BOOLEAN
ASSUME BudgetAssumption == Budget \in [Faults -> Nat]
ASSUME NoneAssumption == None \notin Events \cup Handlers \cup Sessions

VARIABLES
  disk,         \* events.json: the record of every session
  eventLock,    \* the handler inside a Txn, or None
  loaded,       \* what that handler loaded
  sessionLock,  \* the handler that holds each session's mutex, or None
  handler,      \* the handler goroutines
  proj,         \* <workspace>/.awp/data.json of each session
  up,           \* is the daemon process alive?
  conn,         \* its connection to each provider
  orphans,      \* events whose runtime outlived the daemon that started it
  tool,         \* the CLI and MCP processes
  registered,   \* provider: sessions bound at least once
  bound,        \* provider: sessions bound on the current connection
  prov,         \* provider: the status of each event's delivery
  outbox,       \* provider: frames it is about to send
  wire,         \* event.deliver frames in flight, per event
  acks,         \* event.ack frames in flight, per provider
  left,         \* what is left of the Budget
  ranOK         \* history: events whose runtime exited with success

daemonVars == <<eventLock, loaded, sessionLock, handler>>
fileVars == <<disk, proj>>
provVars == <<registered, prov>>
netVars == <<bound, outbox, wire, acks>>
vars == <<daemonVars, fileVars, provVars, netVars,
          up, conn, orphans, tool, left, ranOK>>

NoProjection == [life |-> "absent", pending |-> {}]
NoStore == [s \in Sessions |-> Absent]
Idle == [pc |-> "idle", event |-> None, outcome |-> "none", final |-> NoProjection]
ToolIdle == [op |-> "none", session |-> None, snap |-> NoStore]

TxnSteps == {"record", "denied", "grant", "finish"}

Init ==
  /\ disk = NoStore
  /\ eventLock = None
  /\ loaded = NoStore
  /\ sessionLock = [s \in Sessions |-> None]
  /\ handler = [h \in Handlers |-> Idle]
  /\ proj = [s \in Sessions |-> NoProjection]
  /\ up = TRUE
  /\ conn = [p \in Providers |-> "closed"]
  /\ orphans = {}
  /\ tool = [t \in Tools |-> ToolIdle]
  /\ registered = {}
  /\ bound = {}
  /\ prov = [e \in Events |-> "none"]
  /\ outbox = {}
  /\ wire = [e \in Events |-> 0]
  /\ acks = [p \in Providers |-> << >>]
  /\ left = Budget
  /\ ranOK = {}

Owner(e) == Home[Target[e]]
SessionOf(h) == Target[handler[h].event]
Spend(fault) == left[fault] > 0 /\ left' = [left EXCEPT ![fault] = @ - 1]
Busy(p) == \E h \in Handlers : handler[h].pc # "idle" /\ Owner(handler[h].event) = p

-----------------------------------------------------------------------------
(* The provider.                                                           *)

(* POST /events: the delivery is pending from here on; it is sent at once  *)
(* only if the provider believes the device is connected.                  *)
Publish(e) ==
  /\ prov[e] = "none" /\ Target[e] \in registered
  /\ prov' = [prov EXCEPT ![e] = "pending"]
  /\ outbox' = IF conn[Owner(e)] = "closed" THEN outbox
               ELSE outbox \cup {<<"publish", e>>}
  /\ UNCHANGED <<daemonVars, fileVars, registered, bound, wire, acks,
                 up, conn, orphans, tool, left, ranOK>>

(* state.send: a frame sent to a connection that is gone is lost.          *)
Send(kind, e) ==
  /\ <<kind, e>> \in outbox
  /\ outbox' = outbox \ {<<kind, e>>}
  /\ wire' = IF conn[Owner(e)] = "open" THEN [wire EXCEPT ![e] = @ + 1] ELSE wire
  /\ UNCHANGED <<daemonVars, fileVars, provVars, bound, acks,
                 up, conn, orphans, tool, left, ranOK>>

(* session.bind, and the provider's answer: deliver_pending takes a copy   *)
(* of the pending deliveries of that session and sends them one by one.    *)
Bind(s) ==
  /\ conn[Home[s]] = "open" /\ s \notin bound
  /\ bound' = bound \cup {s}
  /\ registered' = registered \cup {s}
  /\ outbox' = outbox \cup
       {<<"resend", e>> : e \in {x \in Events : prov[x] = "pending" /\ Target[x] = s}}
  /\ UNCHANGED <<daemonVars, fileVars, prov, wire, acks,
                 up, conn, orphans, tool, left, ranOK>>

(* event.ack, in the order of the connection.  Any terminal status takes   *)
(* the delivery out of the provider's pending list for good.               *)
AckArrives(p) ==
  /\ acks[p] # << >>
  /\ LET ack == Head(acks[p]) IN prov' = [prov EXCEPT ![ack.event] = ack.status]
  /\ acks' = [acks EXCEPT ![p] = Tail(@)]
  /\ UNCHANGED <<daemonVars, fileVars, registered, bound, outbox, wire,
                 up, conn, orphans, tool, left, ranOK>>

-----------------------------------------------------------------------------
(* The connection.                                                         *)

(* What a connection of the providers P takes with it when it goes.        *)
Lose(P) ==
  /\ bound' = {s \in bound : Home[s] \notin P}
  /\ wire' = [e \in Events |-> IF Owner(e) \in P THEN 0 ELSE wire[e]]
  /\ acks' = [p \in Providers |-> IF p \in P THEN << >> ELSE acks[p]]
  /\ outbox' = {f \in outbox : f[1] = "publish" \/ Owner(f[2]) \notin P}

(* Run dials, says hello and is welcomed.                                  *)
Connect(p) ==
  /\ up /\ conn[p] = "closed"
  /\ conn' = [conn EXCEPT ![p] = "open"]
  /\ UNCHANGED <<daemonVars, fileVars, provVars, netVars,
                 up, orphans, tool, left, ranOK>>

(* The connection breaks, or Run returns an error: the context of its      *)
(* handlers is cancelled, what was on the wire is lost.                    *)
Drop(p) ==
  /\ conn[p] = "open"
  /\ Spend("drop")
  /\ conn' = [conn EXCEPT ![p] = "closing"]
  /\ Lose({p})
  /\ UNCHANGED <<daemonVars, fileVars, provVars, up, orphans, tool, ranOK>>

(* Mutant of RunReturns: processing.Wait is missing.                       *)
RunWithoutWait(p) ==
  /\ conn[p] = "closing"
  /\ conn' = [conn EXCEPT ![p] = "closed"]
  /\ UNCHANGED <<daemonVars, fileVars, provVars, netVars,
                 up, orphans, tool, left, ranOK>>

(* processing.Wait: Run returns only after its last handler.               *)
RunReturns(p) ==
  /\ conn[p] = "closing" /\ ~Busy(p)
  /\ conn' = [conn EXCEPT ![p] = "closed"]
  /\ UNCHANGED <<daemonVars, fileVars, provVars, netVars,
                 up, orphans, tool, left, ranOK>>

-----------------------------------------------------------------------------
(* The handler goroutines.                                                 *)

Move(h, pc) == handler' = [handler EXCEPT ![h].pc = pc]
Decide(h, pc, outcome) ==
  handler' = [handler EXCEPT ![h] = [@ EXCEPT !.pc = pc, !.outcome = outcome]]

Receive(h, e) ==
  /\ handler[h] = Idle
  /\ conn[Owner(e)] = "open" /\ wire[e] > 0
  /\ wire' = [wire EXCEPT ![e] = @ - 1]
  /\ handler' = [handler EXCEPT ![h] = [Idle EXCEPT !.pc = "lock", !.event = e]]
  /\ UNCHANGED <<eventLock, loaded, sessionLock, fileVars, provVars, bound, outbox,
                 acks, up, conn, orphans, tool, left, ranOK>>

(* Mutant of LockSession: the mutex is not waited for.                     *)
LockNothing(h) ==
  /\ handler[h].pc = "lock"
  /\ sessionLock' = [sessionLock EXCEPT ![SessionOf(h)] = h]
  /\ Move(h, "record")
  /\ UNCHANGED <<eventLock, loaded, fileVars, provVars, netVars,
                 up, conn, orphans, tool, left, ranOK>>

LockSession(h) ==
  /\ handler[h].pc = "lock" /\ sessionLock[SessionOf(h)] = None
  /\ sessionLock' = [sessionLock EXCEPT ![SessionOf(h)] = h]
  /\ Move(h, "record")
  /\ UNCHANGED <<eventLock, loaded, fileVars, provVars, netVars,
                 up, conn, orphans, tool, left, ranOK>>

(* Mutant of Unlock: the session stays locked.                             *)
KeepLocked(h) == UNCHANGED sessionLock

(* Unlocking the session is deferred to the end of the handler, so it      *)
(* comes before the acknowledgement is written.                            *)
Unlock(h) == sessionLock' = [sessionLock EXCEPT ![SessionOf(h)] = None]

(* A Txn: eventLock, wake.Load, (a change), wake.Save, unlock.             *)
BeginTxn(h) ==
  /\ handler[h].pc \in TxnSteps /\ eventLock = None
  /\ Overlap \/ \A t \in Tools : tool[t] = ToolIdle
  /\ eventLock' = h
  /\ loaded' = disk
  /\ UNCHANGED <<sessionLock, handler, fileVars, provVars, netVars,
                 up, conn, orphans, tool, left, ranOK>>

EndTxn == eventLock' = None /\ loaded' = NoStore

(* Mutant of Commit: a store without the other sessions is saved.          *)
CommitAlone(h, st) ==
  /\ EndTxn
  /\ disk' = [NoStore EXCEPT ![SessionOf(h)] = st]

Commit(h, st) ==
  /\ EndTxn
  /\ disk' = [loaded EXCEPT ![SessionOf(h)] = st]

(* recordOrGate.                                                           *)
CommitRecord(h) ==
  LET e == handler[h].event
      before == loaded[SessionOf(h)]
      after == RecordDelivery(before, e)
      known == Duplicate(before, e)
  IN /\ handler[h].pc = "record" /\ eventLock = h
     /\ Commit(h, after)
     /\ IF known \/ Gate(after)
        THEN Unlock(h) /\ Decide(h, "ack", IF known THEN "duplicate" ELSE "failed")
        ELSE Move(h, "authorize") /\ UNCHANGED sessionLock
     /\ UNCHANGED <<proj, provVars, netVars, up, conn, orphans, tool, left, ranOK>>

(* permissions.Authorize and the save of the permission store.             *)
Authorize(h) ==
  /\ handler[h].pc = "authorize"
  /\ Move(h, "grant") \/ Decide(h, "denied", "failed")
  /\ UNCHANGED <<eventLock, loaded, sessionLock, fileVars, provVars, netVars,
                 up, conn, orphans, tool, left, ranOK>>

CommitDenied(h) ==
  /\ handler[h].pc = "denied" /\ eventLock = h
  /\ Commit(h, CompleteEvent(loaded[SessionOf(h)], handler[h].event, "failed"))
  /\ Unlock(h) /\ Move(h, "ack")
  /\ UNCHANGED <<proj, provVars, netVars, up, conn, orphans, tool, left, ranOK>>

CommitGrant(h) ==
  /\ handler[h].pc = "grant" /\ eventLock = h
  /\ Commit(h, SetPermissions(loaded[SessionOf(h)]))
  /\ Move(h, "start")
  /\ UNCHANGED <<sessionLock, proj, provVars, netVars,
                 up, conn, orphans, tool, left, ranOK>>

(* adapter.Run gets as far as starting the runtime process ...             *)
StartRun(h) ==
  /\ handler[h].pc = "start" /\ conn[Owner(handler[h].event)] = "open"
  /\ Move(h, "running")
  /\ UNCHANGED <<eventLock, loaded, sessionLock, fileVars, provVars, netVars,
                 up, conn, orphans, tool, left, ranOK>>

(* ... or not: the binding is unusable, the input is refused, or the       *)
(* context is already cancelled.                                           *)
RefuseRun(h) ==
  /\ handler[h].pc = "start"
  /\ \E outcome \in {"failed", "unusable"} : Decide(h, "finish", outcome)
  /\ UNCHANGED <<eventLock, loaded, sessionLock, fileVars, provVars, netVars,
                 up, conn, orphans, tool, left, ranOK>>

(* The runtime exits; a cancelled context kills it, which is a failure.    *)
RunExits(h) ==
  /\ handler[h].pc = "running"
  /\ \/ /\ Decide(h, "finish", "ok")
        /\ ranOK' = ranOK \cup {handler[h].event}
     \/ /\ Decide(h, "finish", "failed")
        /\ UNCHANGED ranOK
  /\ UNCHANGED <<eventLock, loaded, sessionLock, fileVars, provVars, netVars,
                 up, conn, orphans, tool, left>>

(* Mutant of AckStatus: the status of a client without a handler.          *)
AckAccepted(outcome) == IF outcome \in {"ok", "duplicate"} THEN "accepted" ELSE "failed"
AckStatus(outcome) ==
  IF outcome \in {"ok", "duplicate"} THEN "completed" ELSE "failed"

(* CompleteEvent and, for an unusable binding, MarkCrashed.  When          *)
(* CompleteEvent finds no record its zero value is what gets projected.    *)
Finished(st, e, outcome) ==
  LET done == CompleteEvent(st, e, AckStatus(outcome))
  IN IF outcome = "unusable" THEN MarkCrashed(done) ELSE done

FinalState(st, e, outcome) ==
  IF Seen(st, e) \/ outcome = "unusable"
  THEN Projection(Finished(st, e, outcome)) ELSE NoProjection

CommitFinish(h) ==
  LET e == handler[h].event
      before == loaded[SessionOf(h)]
      outcome == handler[h].outcome
  IN /\ handler[h].pc = "finish" /\ eventLock = h
     /\ Commit(h, Finished(before, e, outcome))
     /\ handler' = [handler EXCEPT ![h] =
          [@ EXCEPT !.pc = "project", !.final = FinalState(before, e, outcome)]]
     /\ UNCHANGED <<sessionLock, proj, provVars, netVars,
                    up, conn, orphans, tool, left, ranOK>>

(* The load or the save failed.  Only recordOrGate's caller gives up on    *)
(* that; the others report it and go on.                                   *)
TxnFails(h) ==
  /\ eventLock = h
  /\ EndTxn
  /\ Spend("saveError")
  /\ \/ /\ handler[h].pc = "record"
        /\ Unlock(h) /\ Decide(h, "ack", "failed")
     \/ /\ handler[h].pc \in {"denied", "finish"}
        /\ Unlock(h) /\ Move(h, "ack")
     \/ /\ handler[h].pc = "grant"
        /\ Move(h, "start") /\ UNCHANGED sessionLock
  /\ UNCHANGED <<fileVars, provVars, netVars, up, conn, orphans, tool, ranOK>>

(* WriteProjection, whose failure is only reported.                        *)
Project(h) ==
  /\ handler[h].pc = "project"
  /\ \/ /\ proj' = [proj EXCEPT ![SessionOf(h)] = handler[h].final]
        /\ UNCHANGED left
     \/ Spend("saveError") /\ UNCHANGED proj
  /\ handler' = [handler EXCEPT ![h] =
       [@ EXCEPT !.pc = "ack", !.final = NoProjection]]
  /\ Unlock(h)
  /\ UNCHANGED <<eventLock, loaded, disk, provVars, netVars,
                 up, conn, orphans, tool, ranOK>>

(* event.ack on the connection the delivery came in on; if that is gone    *)
(* the acknowledgement is lost and the provider keeps the delivery.        *)
Acknowledge(h) ==
  LET e == handler[h].event
  IN /\ handler[h].pc = "ack"
     /\ acks' = IF conn[Owner(e)] = "open"
                THEN [acks EXCEPT ![Owner(e)] =
                        Append(@, Rec(e, AckStatus(handler[h].outcome)))]
                ELSE acks
     /\ handler' = [handler EXCEPT ![h] = Idle]
     /\ UNCHANGED <<eventLock, loaded, sessionLock, fileVars, provVars, bound,
                    outbox, wire, up, conn, orphans, tool, left, ranOK>>

-----------------------------------------------------------------------------
(* The daemon process dies (`awp daemon stop`, a crash, a reboot): nothing *)
(* kills the runtimes it started.  The files are as the last rename left   *)
(* them.                                                                   *)
Crash ==
  /\ up /\ Spend("crash")
  /\ up' = FALSE
  /\ orphans' = orphans \cup
       {handler[h].event : h \in {x \in Handlers : handler[x].pc = "running"}}
  /\ handler' = [h \in Handlers |-> Idle]
  /\ sessionLock' = [s \in Sessions |-> None]
  /\ EndTxn
  /\ conn' = [p \in Providers |-> "closed"]
  /\ Lose(Providers)
  /\ UNCHANGED <<fileVars, provVars, tool, ranOK>>

Restart ==
  /\ ~up /\ up' = TRUE
  /\ UNCHANGED <<daemonVars, fileVars, provVars, netVars,
                 conn, orphans, tool, left, ranOK>>

OrphanExits(e) ==
  /\ e \in orphans /\ orphans' = orphans \ {e}
  /\ UNCHANGED <<daemonVars, fileVars, provVars, netVars,
                 up, conn, tool, left, ranOK>>

-----------------------------------------------------------------------------
(* `awp sessions pause|resume` and the MCP tools pause_session and         *)
(* resume_session, each a load and a save of the same file in a process    *)
(* that shares no lock with the daemon.                                    *)
ToolLoads(t, op, s) ==
  /\ tool[t] = ToolIdle
  /\ Overlap \/ (eventLock = None /\ \A u \in Tools : tool[u] = ToolIdle)
  /\ op = "resume" => disk[s].life # "absent"
  /\ Spend("tool")
  /\ tool' = [tool EXCEPT ![t] = [op |-> op, session |-> s, snap |-> disk]]
  /\ UNCHANGED <<daemonVars, fileVars, provVars, netVars, up, conn, orphans, ranOK>>

Changed(op, st) == IF op = "pause" THEN Pause(st) ELSE Resume(st)

ToolSaves(t) ==
  /\ tool[t].op # "none"
  /\ disk' = [tool[t].snap EXCEPT ![tool[t].session] = Changed(tool[t].op, @)]
  /\ tool' = [tool EXCEPT ![t] = ToolIdle]
  /\ UNCHANGED <<daemonVars, proj, provVars, netVars, up, conn, orphans, left, ranOK>>

-----------------------------------------------------------------------------
Txn(h) == \/ CommitRecord(h) \/ CommitDenied(h) \/ CommitGrant(h)
          \/ CommitFinish(h)

HandlerStep(h) ==
  \/ LockSession(h) \/ BeginTxn(h) \/ Txn(h) \/ Authorize(h)
  \/ StartRun(h) \/ RefuseRun(h) \/ RunExits(h) \/ Project(h) \/ Acknowledge(h)

ProviderStep ==
  \/ \E e \in Events, kind \in {"publish", "resend"} : Send(kind, e)
  \/ \E s \in Sessions : Bind(s)

ConnectionStep(p) == Connect(p) \/ RunReturns(p) \/ AckArrives(p)

Next ==
  \/ \E e \in Events : Publish(e) \/ OrphanExits(e)
  \/ ProviderStep
  \/ \E p \in Providers : ConnectionStep(p) \/ Drop(p)
  \/ \E h \in Handlers, e \in Events : Receive(h, e)
  \/ \E h \in Handlers : HandlerStep(h) \/ TxnFails(h)
  \/ Crash \/ Restart
  \/ \E t \in Tools, op \in {"pause", "resume"}, s \in Sessions : ToolLoads(t, op, s)
  \/ \E t \in Tools : ToolSaves(t)

Spec == Init /\ [][Next]_vars

(* Weak fairness of the steps the program takes by itself: goroutines run  *)
(* and reconnection is retried for ever (client.go:19-62), the provider    *)
(* handles what it receives, a killed daemon is started again, a runtime   *)
(* terminates.  A waiter needs no strong fairness for a mutex or a frame:  *)
(* the Budget leaves it finitely many competitors.  Nothing has to be      *)
(* published, break, die, pause or resume.                                 *)
Fairness ==
  /\ \A h \in Handlers : WF_vars(HandlerStep(h))
  /\ WF_vars(\E h \in Handlers, e \in Events : Receive(h, e))
  /\ WF_vars(ProviderStep)
  /\ \A p \in Providers : WF_vars(ConnectionStep(p))
  /\ WF_vars(Restart)
  /\ \A t \in Tools : WF_vars(ToolSaves(t))

FairSpec == Spec /\ Fairness
-----------------------------------------------------------------------------
(* Properties.                                                             *)

HandlerStates ==
  [pc : {"idle", "lock", "record", "authorize", "denied", "grant", "start",
         "running", "finish", "project", "ack"},
   event : Events \cup {None},
   outcome : {"none", "ok", "duplicate", "failed", "unusable"},
   final : Projections]

Stores == [Sessions -> SessionStates]

FileTypes ==
  /\ disk \in Stores /\ loaded \in Stores
  /\ proj \in [Sessions -> Projections]

HandlerTypes ==
  /\ handler \in [Handlers -> HandlerStates]
  /\ \A h \in Handlers : handler[h].pc # "idle" => handler[h].event \in Events
  /\ eventLock \in Handlers \cup {None}
  /\ sessionLock \in [Sessions -> Handlers \cup {None}]

ProviderTypes ==
  /\ registered \subseteq Sessions /\ bound \subseteq Sessions
  /\ prov \in [Events -> {"none", "pending", "completed", "failed"}]
  /\ outbox \subseteq ({"publish", "resend"} \X Events)
  /\ wire \in [Events -> Nat]
  /\ acks \in [Providers -> Seq(EventRecords)]

ProcessTypes ==
  /\ up \in BOOLEAN
  /\ conn \in [Providers -> {"closed", "open", "closing"}]
  /\ orphans \subseteq Events
  /\ left \in [Faults -> Nat]
  /\ ranOK \subseteq Events

ToolTypes ==
  /\ tool \in [Tools -> [op : {"none", "pause", "resume"},
                        session : Sessions \cup {None}, snap : Stores]]
  /\ \A t \in Tools : tool[t].op # "none" => tool[t].session \in Sessions

(* The type invariant: every variable has its type, and whoever is at work *)
(* has something to work on.                                               *)
TypeOK == FileTypes /\ HandlerTypes /\ ProviderTypes /\ ProcessTypes /\ ToolTypes

(* Holding the session: between lock.Lock and the deferred unlock.         *)
Inside(h) == handler[h].pc \notin {"idle", "lock", "ack"}

(* Past recordOrGate: the event was let through.                           *)
LetThrough(h) == Inside(h) /\ handler[h].pc \notin {"record", "project"}

(* The runtimes alive for a session, the ones a dead daemon left included. *)
Runtimes(s) ==
  {<<"handler", h>> : h \in {x \in Handlers : handler[x].pc = "running" /\ SessionOf(x) = s}}
  \cup {<<"orphan", e>> : e \in {x \in orphans : Target[x] = s}}

(* The session mutex does what store.go:352-355 relies on: deliveries of   *)
(* one session are handled one after the other, however many goroutines    *)
(* and redelivered copies there are.                                       *)
OneHandlerPerSession ==
  \A g, h \in Handlers :
    Inside(g) /\ Inside(h) /\ SessionOf(g) = SessionOf(h) => g = h

(* No lock is left behind, whatever breaks, fails or dies: a session is    *)
(* locked only by a handler at work in it, the store only by a handler in  *)
(* a transaction of a session it has locked (daemon.go:186-188, 294-337).  *)
LocksHaveHolders ==
  /\ \A s \in Sessions : sessionLock[s] # None =>
       Inside(sessionLock[s]) /\ SessionOf(sessionLock[s]) = s
  /\ eventLock # None =>
       /\ handler[eventLock].pc \in TxnSteps
       /\ sessionLock[SessionOf(eventLock)] = eventLock

(* Waiting for the mutex of a session or of the store, and for whom.       *)
Waits(h) ==
  \/ handler[h].pc = "lock" /\ sessionLock[SessionOf(h)] # None
  \/ handler[h].pc \in TxnSteps /\ eventLock \notin {None, h}
Holder(h) == IF handler[h].pc = "lock" THEN sessionLock[SessionOf(h)] ELSE eventLock

(* Nobody waits in a circle: who waits for a session waits for a handler   *)
(* that waits for the store at most, and who has the store does not wait.  *)
WaitsEnd ==
  \A h \in Handlers : Waits(h) =>
    Holder(h) \in Handlers /\ (Waits(Holder(h)) => ~Waits(Holder(Holder(h))))

(* An agent session is never woken while its runtime is still at work.     *)
(* The mutex lives in the daemon and the runtime is a process of its own,  *)
(* so this needs a daemon that does not die (store.go:352-355).            *)
OneRuntimePerSession == \A s \in Sessions : Cardinality(Runtimes(s)) <= 1

(* What a provider is told is `completed` was carried out: a runtime       *)
(* exited with success for exactly that event (client.go:161-173,          *)
(* daemon.go:200-205), through crashes, lost updates and failed saves.     *)
CompletedMeansRan == \A e \in Events : prov[e] = "completed" => e \in ranOK

(* What the provider has crossed off is on record here: a delivery it will *)
(* never send again is not lost, and a completed one is known as completed *)
(* so that a stray copy is recognized (README.md:116-117).                 *)
AnsweredIsRecorded ==
  \A e \in Events :
    LET st == disk[Target[e]]
    IN /\ prov[e] = "failed" => Seen(st, e)
       /\ prov[e] = "completed" => HasStatus(st, e, "completed")

(* While a delivery is between recordOrGate and CompleteEvent it is on     *)
(* record as pending: neither the other sessions, the tools nor the        *)
(* eviction of old records can take it away (daemon.go:190-253).           *)
InFlightOnRecord ==
  \A h \in Handlers :
    LetThrough(h) => HasStatus(disk[SessionOf(h)], handler[h].event, "pending")

(* A session shown as running has a handler at work on it.                 *)
RunningHasHandler ==
  \A s \in Sessions :
    disk[s].life = "running" => \E h \in Handlers : LetThrough(h) /\ SessionOf(h) = s

(* A session's history holds an event once and stays within its limit.     *)
HistoryIsBounded ==
  \A s \in Sessions :
    LET events == disk[s].events
    IN /\ Len(events) <= MaxHistory
       /\ \A i, j \in DOMAIN events : events[i].event = events[j].event => i = j

(* No handler outlives the connection it answers on (client.go:55-59).     *)
ClosedIsQuiet == \A p \in Providers : conn[p] = "closed" => ~Busy(p)

(* The workspace projection of a session at rest lists no event that is    *)
(* already completed (projection.go:10-14).                                *)
ProjectionDropsCompleted ==
  \A e \in Events :
    LET s == Target[e]
    IN sessionLock[s] = None /\ HasStatus(disk[s], e, "completed")
         => e \notin proj[s].pending

(* A redelivered event that the provider knows to be completed does not    *)
(* wake the runtime again (README.md:116).                                 *)
CompletedNotRerun ==
  [][\A h \in Handlers : StartRun(h) => prov[handler[h].event] # "completed"]_vars

(* A paused or crashed session is opened up again only by a resume, or by  *)
(* the end of a wake that was let through before the pause.                *)
GateHolds ==
  [][\A s \in Sessions :
       Gate(disk[s]) /\ ~Gate(disk'[s]) =>
         \/ \E t \in Tools : tool[t].op = "resume" /\ tool[t].session = s /\ ToolSaves(t)
         \/ \E h \in Handlers : LetThrough(h) /\ SessionOf(h) = s]_vars

(* The daemon's save changes no other session's record (daemon.go:302-305  *)
(* and 333-335).  Nothing but the absence of another process between the   *)
(* load and the save makes it so.                                          *)
SaveTouchesOwnSession ==
  [][\A h \in Handlers : Txn(h) =>
       \A s \in Sessions : s # SessionOf(h) => disk'[s] = disk[s]]_vars

(* A pause stops future wakes until Resume is called (store.go:311-313).   *)
PauseHoldsUntilResume ==
  [][\A s \in Sessions :
       disk[s].life = "paused" /\ disk'[s].life # "paused" =>
         \E t \in Tools : tool[t].op = "resume" /\ tool[t].session = s /\ ToolSaves(t)]_vars

Held(e) == prov[e] = "failed" /\ HasStatus(disk[Target[e]], e, "pending")

(* An event that was held while its session was paused or crashed is run   *)
(* once the session is open again (cli/sessions.go:230, README.md:117).    *)
HeldEventsRun ==
  \A e \in Events :
    Held(e) /\ ~Gate(disk[Target[e]]) ~> (~Held(e) \/ Gate(disk[Target[e]]))

Promise == INSTANCE AtLeastOnce WITH status <- prov, done <- ranOK

(* The daemon implements the abstract promise: seen from the provider and  *)
(* from the runtimes, every step of every handler, connection and crash is *)
(* a publication, a wake, an answer or nothing (PROTOCOL.md:196-211).      *)
ImplementsAtLeastOnce == Promise!Spec

Log == INSTANCE EventLog WITH
         life <- [s \in Sessions |-> disk[s].life],
         status <- [e \in Events |-> StatusOf(disk[Target[e]], e)]

(* The file, its lists of records and the transactions of daemon and tools *)
(* implement the abstract log: whatever handlers and tools come between a  *)
(* delivery and its outcome, the outcome finds it pending, and every save  *)
(* is one operation on what is in the file (store.go:199-300).             *)
ImplementsEventLog == Log!Spec

(* Every published event is answered, whatever connections break and       *)
(* daemons die in between: a live connection loses nothing and a rebind    *)
(* brings back what a dead one lost (PROTOCOL.md:196).                     *)
EveryEventAnswered ==
  \A e \in Events : prov[e] = "pending" ~> prov[e] \in {"completed", "failed"}
=============================================================================
