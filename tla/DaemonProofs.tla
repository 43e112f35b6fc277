---------------------------- MODULE DaemonProofs ----------------------------
(***************************************************************************)
(* Theorems about Daemon, for every number of events, sessions, providers, *)
(* handlers and tools, every budget of faults, with and without tools that *)
(* overlap the daemon's file transactions.                                 *)
(***************************************************************************)
EXTENDS Daemon, WakeStoreProofs

(* The session and the provider of a handler at work.                      *)
LEMMA WorkTypes ==
  ASSUME HandlerTypes, NEW h \in Handlers, handler[h].pc # "idle"
  PROVE  /\ handler[h].event \in Events
         /\ SessionOf(h) \in Sessions
         /\ Owner(handler[h].event) \in Providers
BY TargetAssumption, HomeAssumption DEF HandlerTypes, SessionOf, Owner

(* An event is addressed to a session, and comes from a provider.          *)
LEMMA OwnerType == \A e \in Events : Target[e] \in Sessions /\ Owner(e) \in Providers
BY TargetAssumption, HomeAssumption DEF Owner

(* The projection of nothing is a projection.                              *)
LEMMA NoProjectionType == NoProjection \in Projections
BY DEF NoProjection, Projections, Lifecycles

(* The empty file is a store.                                              *)
LEMMA NoStoreType == NoStore \in Stores
BY AbsentType DEF NoStore, Stores

(* An idle handler is in a handler state.                                  *)
LEMMA IdleType == Idle \in HandlerStates
BY NoProjectionType DEF Idle, HandlerStates

(* A delivery that was handled is completed or failed.                     *)
LEMMA AckStatusType ==
  ASSUME NEW outcome
  PROVE  AckStatus(outcome) \in {"completed", "failed"}
BY DEF AckStatus

(* What a handler records and projects at its end has its type.            *)
LEMMA FinishedType ==
  ASSUME NEW st \in SessionStates, NEW e \in Events, NEW outcome
  PROVE  /\ Finished(st, e, outcome) \in SessionStates
         /\ FinalState(st, e, outcome) \in Projections
<1>1. Finished(st, e, outcome) \in SessionStates
  BY AckStatusType, CompleteEventType, LifecycleOpsType DEF Finished
<1>2. QED
  BY <1>1, ProjectionType, NoProjectionType DEF FinalState

(* A step of one handler's control state, the file and the locks aside.    *)
LEMMA MoveType ==
  ASSUME HandlerTypes, NEW h \in Handlers, handler[h].pc # "idle",
         NEW pc \in {"record", "authorize", "denied", "grant", "start",
                     "running", "finish", "project", "ack"},
         NEW outcome \in {"none", "ok", "duplicate", "failed", "unusable"},
         Move(h, pc) \/ Decide(h, pc, outcome)
  PROVE  /\ handler' \in [Handlers -> HandlerStates]
         /\ \A x \in Handlers : handler'[x].pc # "idle" => handler'[x].event \in Events
<1>1. handler \in [Handlers -> HandlerStates]
  BY DEF HandlerTypes
<1>2. handler[h].event \in Events
  BY DEF HandlerTypes
<1>3. CASE Move(h, pc)
  BY <1>1, <1>2, <1>3 DEF Move, HandlerStates, HandlerTypes
<1>4. CASE Decide(h, pc, outcome)
  <2> DEFINE r == [handler[h] EXCEPT !.pc = pc, !.outcome = outcome]
  <2>1. r \in HandlerStates /\ r.event = handler[h].event
    BY <1>1 DEF HandlerStates
  <2>2. handler' = [handler EXCEPT ![h] = r]
    BY <1>4 DEF Decide
  <2> HIDE DEF r
  <2>3. QED
    BY <1>1, <1>2, <2>1, <2>2 DEF HandlerTypes
<1>5. QED
  BY <1>3, <1>4

(* A fault that is spent leaves a budget.                                  *)
LEMMA SpendType ==
  ASSUME left \in [Faults -> Nat], NEW fault \in Faults, Spend(fault)
  PROVE  left' \in [Faults -> Nat]
BY DEF Spend

(* Unlocking a session leaves a lock.                                      *)
LEMMA UnlockType ==
  ASSUME HandlerTypes, NEW h \in Handlers, Unlock(h)
  PROVE  sessionLock' \in [Sessions -> Handlers \cup {None}]
BY DEF HandlerTypes, Unlock

(* A commit of a session record leaves a store on disk.                    *)
LEMMA CommitType ==
  ASSUME FileTypes, NEW h \in Handlers, NEW st \in SessionStates, Commit(h, st)
  PROVE  /\ disk' \in Stores /\ loaded' \in Stores
         /\ eventLock' = None
BY NoStoreType DEF FileTypes, Commit, EndTxn, Stores

(* What a lost connection leaves of the network has its type.              *)
LEMMA LoseType ==
  ASSUME ProviderTypes, NEW P, Lose(P), UNCHANGED <<registered, prov>>
  PROVE  ProviderTypes'
BY DEF ProviderTypes, Lose

(* Every variable keeps its type through every action of the daemon, the   *)
(* provider, the tools and the faults.                                     *)
THEOREM TypeCorrect == Spec => []TypeOK
<1>1. Init => TypeOK
  <2> SUFFICES ASSUME Init PROVE TypeOK
    OBVIOUS
  <2>1. FileTypes
    BY NoStoreType, NoProjectionType DEF Init, FileTypes
  <2>2. HandlerTypes
    BY IdleType DEF Init, HandlerTypes, Idle
  <2>3. ProviderTypes
    BY DEF Init, ProviderTypes
  <2>4. ProcessTypes
    BY BudgetAssumption DEF Init, ProcessTypes
  <2>5. ToolTypes
    BY NoStoreType DEF Init, ToolTypes, ToolIdle
  <2>6. QED
    BY <2>1, <2>2, <2>3, <2>4, <2>5 DEF TypeOK
<1>2. TypeOK /\ [Next]_vars => TypeOK'
  <2> SUFFICES ASSUME TypeOK, [Next]_vars PROVE TypeOK'
    OBVIOUS
  <2> USE DEF TypeOK, daemonVars, fileVars, provVars, netVars
  <2>1. ASSUME NEW e \in Events, Publish(e)
        PROVE  TypeOK'
    BY <2>1 DEF Publish, FileTypes, HandlerTypes, ProviderTypes, ProcessTypes, ToolTypes
  <2>2. ASSUME NEW e \in Events, OrphanExits(e)
        PROVE  TypeOK'
    BY <2>2 DEF OrphanExits, FileTypes, HandlerTypes, ProviderTypes, ProcessTypes, ToolTypes
  <2>3. ASSUME NEW e \in Events, NEW kind \in {"publish", "resend"}, Send(kind, e)
        PROVE  TypeOK'
    BY <2>3 DEF Send, FileTypes, HandlerTypes, ProviderTypes, ProcessTypes, ToolTypes
  <2>4. ASSUME NEW s \in Sessions, Bind(s)
        PROVE  TypeOK'
    BY <2>4 DEF Bind, FileTypes, HandlerTypes, ProviderTypes, ProcessTypes, ToolTypes
  <2>5. ASSUME NEW p \in Providers, Connect(p)
        PROVE  TypeOK'
    BY <2>5 DEF Connect, FileTypes, HandlerTypes, ProviderTypes, ProcessTypes, ToolTypes
  <2>6. ASSUME NEW p \in Providers, RunReturns(p)
        PROVE  TypeOK'
    BY <2>6 DEF RunReturns, FileTypes, HandlerTypes, ProviderTypes, ProcessTypes, ToolTypes
  <2>7. ASSUME NEW p \in Providers, AckArrives(p)
        PROVE  TypeOK'
    <3>1. Head(acks[p]) \in EventRecords /\ Tail(acks[p]) \in Seq(EventRecords)
      BY <2>7, HeadTailProperties DEF AckArrives, ProviderTypes
    <3>2. ProviderTypes'
      BY <2>7, <3>1 DEF AckArrives, ProviderTypes, EventRecords, EventStatuses
    <3>3. QED
      BY <2>7, <3>2 DEF AckArrives, FileTypes, HandlerTypes, ProcessTypes, ToolTypes
  <2>8. ASSUME NEW p \in Providers, Drop(p)
        PROVE  TypeOK'
    <3>1. ProviderTypes'
      BY <2>8, LoseType DEF Drop
    <3>2. ProcessTypes'
      BY <2>8, SpendType DEF Drop, ProcessTypes, Faults
    <3>3. QED
      BY <2>8, <3>1, <3>2 DEF Drop, FileTypes, HandlerTypes, ToolTypes
  <2>9. ASSUME NEW h \in Handlers, NEW e \in Events, Receive(h, e)
        PROVE  TypeOK'
    <3>1. HandlerTypes'
      BY <2>9, IdleType DEF Receive, HandlerTypes, HandlerStates, Idle
    <3>2. ProviderTypes'
      BY <2>9 DEF Receive, ProviderTypes
    <3>3. QED
      BY <2>9, <3>1, <3>2 DEF Receive, FileTypes, ProcessTypes, ToolTypes
  <2>10. ASSUME NEW h \in Handlers, LockSession(h)
         PROVE  TypeOK'
    <3>1. SessionOf(h) \in Sessions
      BY <2>10, WorkTypes DEF LockSession
    <3>2. HandlerTypes'
      BY <2>10, <3>1, MoveType DEF LockSession, HandlerTypes
    <3>3. QED
      BY <2>10, <3>2 DEF LockSession, FileTypes, ProviderTypes, ProcessTypes, ToolTypes
  <2>11. ASSUME NEW h \in Handlers, BeginTxn(h)
         PROVE  TypeOK'
    BY <2>11 DEF BeginTxn, FileTypes, HandlerTypes, ProviderTypes, ProcessTypes, ToolTypes
  <2>12. ASSUME NEW h \in Handlers, CommitRecord(h)
         PROVE  TypeOK'
    <3> DEFINE st == loaded[SessionOf(h)]
               new == RecordDelivery(st, handler[h].event)
    <3>1. handler[h].event \in Events /\ SessionOf(h) \in Sessions
      BY <2>12, WorkTypes DEF CommitRecord
    <3>2. new \in SessionStates
      BY <3>1, RecordDeliveryType DEF FileTypes, Stores
    <3>3. FileTypes' /\ eventLock' = None
      BY <2>12, <3>2, CommitType DEF CommitRecord, FileTypes
    <3>4. HandlerTypes'
      BY <2>12, <3>3, MoveType, UnlockType DEF CommitRecord, HandlerTypes
    <3>5. QED
      BY <2>12, <3>3, <3>4 DEF CommitRecord, ProviderTypes, ProcessTypes, ToolTypes
  <2>13. ASSUME NEW h \in Handlers, Authorize(h)
         PROVE  TypeOK'
    <3>1. HandlerTypes'
      BY <2>13, MoveType DEF Authorize, HandlerTypes
    <3>2. QED
      BY <2>13, <3>1 DEF Authorize, FileTypes, ProviderTypes, ProcessTypes, ToolTypes
  <2>14. ASSUME NEW h \in Handlers, CommitDenied(h)
         PROVE  TypeOK'
    <3>1. handler[h].event \in Events /\ SessionOf(h) \in Sessions
      BY <2>14, WorkTypes DEF CommitDenied
    <3>2. CompleteEvent(loaded[SessionOf(h)], handler[h].event, "failed") \in SessionStates
      BY <3>1, CompleteEventType DEF FileTypes, Stores
    <3>3. FileTypes' /\ eventLock' = None
      BY <2>14, <3>2, CommitType DEF CommitDenied, FileTypes
    <3>4. HandlerTypes'
      BY <2>14, <3>3, MoveType, UnlockType DEF CommitDenied, HandlerTypes
    <3>5. QED
      BY <2>14, <3>3, <3>4 DEF CommitDenied, ProviderTypes, ProcessTypes, ToolTypes
  <2>15. ASSUME NEW h \in Handlers, CommitGrant(h)
         PROVE  TypeOK'
    <3>1. handler[h].event \in Events /\ SessionOf(h) \in Sessions
      BY <2>15, WorkTypes DEF CommitGrant
    <3>2. SetPermissions(loaded[SessionOf(h)]) \in SessionStates
      BY <3>1, LifecycleOpsType DEF FileTypes, Stores
    <3>3. FileTypes' /\ eventLock' = None
      BY <2>15, <3>2, CommitType DEF CommitGrant, FileTypes
    <3>4. HandlerTypes'
      BY <2>15, <3>3, MoveType DEF CommitGrant, HandlerTypes
    <3>5. QED
      BY <2>15, <3>3, <3>4 DEF CommitGrant, ProviderTypes, ProcessTypes, ToolTypes
  <2>16. ASSUME NEW h \in Handlers, CommitFinish(h)
         PROVE  TypeOK'
    <3> DEFINE st == loaded[SessionOf(h)]
               final == FinalState(st, handler[h].event, handler[h].outcome)
               r == [handler[h] EXCEPT !.pc = "project", !.final = final]
    <3>1. handler[h].event \in Events /\ SessionOf(h) \in Sessions
      BY <2>16, WorkTypes DEF CommitFinish
    <3>2. /\ Finished(st, handler[h].event, handler[h].outcome) \in SessionStates
          /\ final \in Projections
      BY <3>1, FinishedType DEF FileTypes, Stores
    <3>3. FileTypes' /\ eventLock' = None
      BY <2>16, <3>2, CommitType DEF CommitFinish, FileTypes
    <3>4. r \in HandlerStates /\ r.event = handler[h].event
      BY <3>2 DEF HandlerTypes, HandlerStates
    <3>5. handler' = [handler EXCEPT ![h] = r]
      BY <2>16 DEF CommitFinish
    <3> HIDE DEF r
    <3>6. HandlerTypes'
      BY <2>16, <3>1, <3>3, <3>4, <3>5 DEF CommitFinish, HandlerTypes
    <3>7. QED
      BY <2>16, <3>3, <3>6 DEF CommitFinish, ProviderTypes, ProcessTypes, ToolTypes
  <2>17. ASSUME NEW h \in Handlers, TxnFails(h)
         PROVE  TypeOK'
    <3>1. FileTypes' /\ eventLock' = None
      BY <2>17, NoStoreType DEF TxnFails, EndTxn, FileTypes
    <3>2. HandlerTypes'
      BY <2>17, <3>1, MoveType, UnlockType DEF TxnFails, HandlerTypes
    <3>3. ProcessTypes'
      BY <2>17, SpendType DEF TxnFails, ProcessTypes, Faults
    <3>4. QED
      BY <2>17, <3>1, <3>2, <3>3 DEF TxnFails, ProviderTypes, ToolTypes
  <2>18. ASSUME NEW h \in Handlers, StartRun(h)
         PROVE  TypeOK'
    <3>1. HandlerTypes'
      BY <2>18, MoveType DEF StartRun, HandlerTypes
    <3>2. QED
      BY <2>18, <3>1 DEF StartRun, FileTypes, ProviderTypes, ProcessTypes, ToolTypes
  <2>19. ASSUME NEW h \in Handlers, RefuseRun(h)
         PROVE  TypeOK'
    <3>1. HandlerTypes'
      BY <2>19, MoveType DEF RefuseRun, HandlerTypes
    <3>2. QED
      BY <2>19, <3>1 DEF RefuseRun, FileTypes, ProviderTypes, ProcessTypes, ToolTypes
  <2>20. ASSUME NEW h \in Handlers, RunExits(h)
         PROVE  TypeOK'
    <3>1. HandlerTypes'
      BY <2>20, MoveType DEF RunExits, HandlerTypes
    <3>2. ProcessTypes'
      BY <2>20, WorkTypes DEF RunExits, ProcessTypes
    <3>3. QED
      BY <2>20, <3>1, <3>2 DEF RunExits, FileTypes, ProviderTypes, ToolTypes
  <2>21. ASSUME NEW h \in Handlers, Project(h)
         PROVE  TypeOK'
    <3> DEFINE r == [handler[h] EXCEPT !.pc = "ack", !.final = NoProjection]
    <3>1. handler[h].event \in Events /\ SessionOf(h) \in Sessions
      BY <2>21, WorkTypes DEF Project
    <3>2. FileTypes'
      BY <2>21, <3>1 DEF Project, FileTypes, HandlerTypes, HandlerStates
    <3>3. r \in HandlerStates /\ r.event = handler[h].event
      BY NoProjectionType DEF HandlerTypes, HandlerStates
    <3>4. handler' = [handler EXCEPT ![h] = r]
      BY <2>21 DEF Project
    <3> HIDE DEF r
    <3>5. HandlerTypes'
      BY <2>21, <3>1, <3>3, <3>4, UnlockType DEF Project, HandlerTypes
    <3>6. ProcessTypes'
      BY <2>21, SpendType DEF Project, ProcessTypes, Faults
    <3>7. QED
      BY <2>21, <3>2, <3>5, <3>6 DEF Project, ProviderTypes, ToolTypes
  <2>22. ASSUME NEW h \in Handlers, Acknowledge(h)
         PROVE  TypeOK'
    <3> DEFINE e == handler[h].event
               ack == Rec(e, AckStatus(handler[h].outcome))
    <3>1. e \in Events /\ Owner(e) \in Providers
      BY <2>22, WorkTypes DEF Acknowledge
    <3>2. ack \in EventRecords
      BY <3>1, RecType, AckStatusType DEF EventStatuses
    <3>3. ProviderTypes'
      <4>1. acks' \in [Providers -> Seq(EventRecords)]
        BY <2>22, <3>1, <3>2 DEF Acknowledge, ProviderTypes
      <4>2. QED
        BY <2>22, <4>1 DEF Acknowledge, ProviderTypes
    <3>4. HandlerTypes'
      BY <2>22, IdleType DEF Acknowledge, HandlerTypes, Idle
    <3>5. QED
      BY <2>22, <3>3, <3>4 DEF Acknowledge, FileTypes, ProcessTypes, ToolTypes
  <2>23. ASSUME Crash
         PROVE  TypeOK'
    <3>1. FileTypes' /\ eventLock' = None
      BY <2>23, NoStoreType DEF Crash, EndTxn, FileTypes
    <3>2. HandlerTypes'
      BY <2>23, <3>1, IdleType DEF Crash, HandlerTypes, Idle
    <3>3. ProviderTypes'
      BY <2>23, LoseType DEF Crash
    <3>4. ProcessTypes'
      <4>1. orphans' \subseteq Events
        BY <2>23, WorkTypes DEF Crash, ProcessTypes
      <4>2. QED
        BY <2>23, <4>1, SpendType DEF Crash, ProcessTypes, Faults
    <3>5. QED
      BY <2>23, <3>1, <3>2, <3>3, <3>4 DEF Crash, ToolTypes
  <2>24. ASSUME Restart
         PROVE  TypeOK'
    BY <2>24 DEF Restart, FileTypes, HandlerTypes, ProviderTypes, ProcessTypes, ToolTypes
  <2>25. ASSUME NEW t \in Tools, NEW op \in {"pause", "resume"}, NEW s \in Sessions,
                ToolLoads(t, op, s)
         PROVE  TypeOK'
    <3>1. ProcessTypes'
      BY <2>25, SpendType DEF ToolLoads, ProcessTypes, Faults
    <3>2. ToolTypes'
      BY <2>25 DEF ToolLoads, ToolTypes, FileTypes
    <3>3. QED
      BY <2>25, <3>1, <3>2 DEF ToolLoads, FileTypes, HandlerTypes, ProviderTypes
  <2>26. ASSUME NEW t \in Tools, ToolSaves(t)
         PROVE  TypeOK'
    <3> DEFINE s == tool[t].session
               new == Changed(tool[t].op, tool[t].snap[s])
    <3>1. s \in Sessions /\ tool[t].snap \in Stores
      BY <2>26 DEF ToolSaves, ToolTypes
    <3>2. new \in SessionStates
      BY <3>1, LifecycleOpsType DEF Changed, Stores
    <3>3. FileTypes'
      BY <2>26, <3>1, <3>2 DEF ToolSaves, FileTypes, Stores
    <3>4. ToolTypes'
      BY <2>26, NoStoreType DEF ToolSaves, ToolTypes, ToolIdle
    <3>5. QED
      BY <2>26, <3>3, <3>4 DEF ToolSaves, HandlerTypes, ProviderTypes, ProcessTypes
  <2>27. CASE UNCHANGED vars
    BY <2>27 DEF vars, FileTypes, HandlerTypes, ProviderTypes, ProcessTypes, ToolTypes, Stores
  <2>28. QED
    BY <2>1, <2>2, <2>3, <2>4, <2>5, <2>6, <2>7, <2>8, <2>9, <2>10, <2>11, <2>12, <2>13,
       <2>14, <2>15, <2>16, <2>17, <2>18, <2>19, <2>20, <2>21, <2>22, <2>23, <2>24, <2>25, <2>26, <2>27
       DEF Next, HandlerStep, ProviderStep, ConnectionStep, Txn
<1>3. QED
  BY <1>1, <1>2, PTL DEF Spec

-----------------------------------------------------------------------------
(* Mutual exclusion.  OneHandlerPerSession is not inductive: it has to be  *)
(* known that whoever is inside is the one registered as the holder.       *)
HolderIsInside ==
  \A h \in Handlers : Inside(h) => sessionLock[SessionOf(h)] = h

(* Steps that leave the handlers and their locks alone, or move one        *)
(* handler on inside its critical section.                                 *)
LEMMA HolderStays ==
  ASSUME HandlerTypes, HolderIsInside, UNCHANGED sessionLock,
         NEW h \in Handlers, Inside(h),
         \A g \in Handlers : g # h => handler'[g] = handler[g],
         handler'[h].event = handler[h].event
  PROVE  HolderIsInside'
BY DEF HolderIsInside, Inside, SessionOf

(* A handler that unlocks its session is no longer inside.                 *)
LEMMA HolderLeaves ==
  ASSUME HandlerTypes, HolderIsInside,
         NEW h \in Handlers, Inside(h), Unlock(h),
         \A g \in Handlers : g # h => handler'[g] = handler[g],
         handler'[h].pc = "ack"
  PROVE  HolderIsInside'
<1> SUFFICES ASSUME NEW g \in Handlers, Inside(g)'
             PROVE  sessionLock'[SessionOf(g)'] = g
  BY DEF HolderIsInside
<1>1. g # h /\ handler'[g] = handler[g]
  BY DEF Inside
<1>2. Inside(g) /\ SessionOf(g)' = SessionOf(g)
  BY <1>1 DEF Inside, SessionOf
<1>3. SessionOf(g) \in Sessions /\ SessionOf(h) \in Sessions
  BY <1>2, WorkTypes DEF Inside
<1>4. sessionLock[SessionOf(g)] = g /\ sessionLock[SessionOf(h)] = h
  BY <1>2 DEF HolderIsInside
<1>5. QED
  BY <1>1, <1>2, <1>3, <1>4 DEF Unlock, HandlerTypes

(* What a handler's step does to the handlers: only its own entry changes, *)
(* and a handler at work keeps its event.                                  *)
LEMMA MoveFrame ==
  ASSUME HandlerTypes, NEW h \in Handlers, NEW pc, NEW outcome,
         Move(h, pc) \/ Decide(h, pc, outcome)
  PROVE  /\ \A g \in Handlers : g # h => handler'[g] = handler[g]
         /\ handler'[h].event = handler[h].event
         /\ handler'[h].pc = pc
<1>1. handler \in [Handlers -> HandlerStates]
  BY DEF HandlerTypes
<1>2. CASE Move(h, pc)
  BY <1>1, <1>2 DEF Move, HandlerStates
<1>3. CASE Decide(h, pc, outcome)
  <2> DEFINE r == [handler[h] EXCEPT !.pc = pc, !.outcome = outcome]
  <2>1. r.event = handler[h].event /\ r.pc = pc
    BY <1>1 DEF HandlerStates
  <2>2. handler' = [handler EXCEPT ![h] = r]
    BY <1>3 DEF Decide
  <2> HIDE DEF r
  <2>3. QED
    BY <1>1, <2>1, <2>2
<1>4. QED
  BY <1>2, <1>3

(* Every step keeps the holder of each lock inside, and nobody else.       *)
LEMMA HolderStep == TypeOK /\ HolderIsInside /\ [Next]_vars => HolderIsInside'
<1> SUFFICES ASSUME TypeOK, HolderIsInside, [Next]_vars PROVE HolderIsInside'
  OBVIOUS
<1>0. HandlerTypes /\ handler \in [Handlers -> HandlerStates]
  BY DEF TypeOK, HandlerTypes
<1>1. CASE UNCHANGED <<handler, sessionLock>>
  BY <1>1 DEF HolderIsInside, Inside, SessionOf
<1>2. ASSUME NEW h \in Handlers, NEW e \in Events, Receive(h, e)
      PROVE  HolderIsInside'
  <2>1. \A g \in Handlers : g # h => handler'[g] = handler[g]
    BY <1>0, <1>2 DEF Receive
  <2>2. handler'[h].pc = "lock"
    BY <1>0, <1>2 DEF Receive, Idle
  <2>3. QED
    BY <1>2, <2>1, <2>2 DEF Receive, HolderIsInside, Inside, SessionOf
<1>3. ASSUME NEW h \in Handlers, LockSession(h)
      PROVE  HolderIsInside'
  <2>1. /\ \A g \in Handlers : g # h => handler'[g] = handler[g]
        /\ handler'[h].event = handler[h].event
    BY <1>0, <1>3, MoveFrame DEF LockSession
  <2>2. SessionOf(h) \in Sessions /\ SessionOf(h)' = SessionOf(h)
    BY <1>0, <1>3, <2>1, WorkTypes DEF LockSession, SessionOf
  <2>3. sessionLock' = [sessionLock EXCEPT ![SessionOf(h)] = h]
        /\ sessionLock[SessionOf(h)] = None
    BY <1>3 DEF LockSession
  <2>4. ASSUME NEW g \in Handlers, Inside(g)', g # h
        PROVE  sessionLock'[SessionOf(g)'] = g
    <3>1. Inside(g) /\ SessionOf(g)' = SessionOf(g)
      BY <2>1, <2>4 DEF Inside, SessionOf
    <3>2. sessionLock[SessionOf(g)] = g
      BY <3>1 DEF HolderIsInside
    <3>3. SessionOf(g) \in Sessions
      BY <1>0, <3>1, WorkTypes DEF Inside
    <3>4. QED
      BY <1>0, <2>3, <3>1, <3>2, <3>3, NoneAssumption DEF HandlerTypes
  <2>5. sessionLock'[SessionOf(h)'] = h
    BY <1>0, <2>2, <2>3 DEF HandlerTypes
  <2>6. QED
    BY <2>4, <2>5 DEF HolderIsInside
<1>4. ASSUME NEW h \in Handlers, CommitRecord(h) \/ CommitDenied(h) \/ TxnFails(h)
      PROVE  HolderIsInside'
  <2>1. Inside(h)
    BY <1>4 DEF CommitRecord, CommitDenied, TxnFails, Inside
  <2>2. CASE /\ UNCHANGED sessionLock
             /\ \E pc, outcome : Move(h, pc) \/ Decide(h, pc, outcome)
    BY <1>0, <2>1, <2>2, MoveFrame, HolderStays
  <2>3. CASE /\ Unlock(h)
             /\ \E outcome : Move(h, "ack") \/ Decide(h, "ack", outcome)
    BY <1>0, <2>1, <2>3, MoveFrame, HolderLeaves
  <2>4. QED
    BY <1>4, <2>2, <2>3 DEF CommitRecord, CommitDenied, TxnFails
<1>5. ASSUME NEW h \in Handlers,
             Authorize(h) \/ CommitGrant(h) \/ StartRun(h) \/ RefuseRun(h) \/ RunExits(h)
      PROVE  HolderIsInside'
  <2>1. Inside(h)
    BY <1>5 DEF Authorize, CommitGrant, StartRun, RefuseRun, RunExits, Inside
  <2>2. UNCHANGED sessionLock
    BY <1>5 DEF Authorize, CommitGrant, StartRun, RefuseRun, RunExits
  <2>3. \E pc, outcome : Move(h, pc) \/ Decide(h, pc, outcome)
    BY <1>5 DEF Authorize, CommitGrant, StartRun, RefuseRun, RunExits
  <2>4. QED
    BY <1>0, <2>1, <2>2, <2>3, MoveFrame, HolderStays
<1>6. ASSUME NEW h \in Handlers, CommitFinish(h)
      PROVE  HolderIsInside'
  <2> DEFINE final == FinalState(loaded[SessionOf(h)], handler[h].event, handler[h].outcome)
             r == [handler[h] EXCEPT !.pc = "project", !.final = final]
  <2>1. r.event = handler[h].event
    BY <1>0 DEF HandlerStates
  <2>2. handler' = [handler EXCEPT ![h] = r]
    BY <1>6 DEF CommitFinish
  <2> HIDE DEF r
  <2>3. \A g \in Handlers : g # h => handler'[g] = handler[g]
    BY <1>0, <2>2
  <2>4. handler'[h].event = handler[h].event
    BY <1>0, <2>1, <2>2
  <2>5. Inside(h) /\ UNCHANGED sessionLock
    BY <1>6 DEF CommitFinish, Inside
  <2>6. QED
    BY <1>0, <2>3, <2>4, <2>5, HolderStays
<1>7. ASSUME NEW h \in Handlers, Project(h)
      PROVE  HolderIsInside'
  <2> DEFINE r == [handler[h] EXCEPT !.pc = "ack", !.final = NoProjection]
  <2>1. r.pc = "ack"
    BY <1>0 DEF HandlerStates
  <2>2. handler' = [handler EXCEPT ![h] = r]
    BY <1>7 DEF Project
  <2> HIDE DEF r
  <2>3. /\ \A g \in Handlers : g # h => handler'[g] = handler[g]
        /\ handler'[h].pc = "ack"
    BY <1>0, <2>1, <2>2
  <2>4. Inside(h) /\ Unlock(h)
    BY <1>7 DEF Project, Inside
  <2>5. QED
    BY <1>0, <2>3, <2>4, HolderLeaves
<1>8. ASSUME NEW h \in Handlers, Acknowledge(h)
      PROVE  HolderIsInside'
  <2>1. handler'[h].pc = "idle" /\ \A g \in Handlers : g # h => handler'[g] = handler[g]
    BY <1>0, <1>8 DEF Acknowledge, Idle
  <2>2. QED
    BY <1>8, <2>1 DEF Acknowledge, HolderIsInside, Inside, SessionOf
<1>9. CASE Crash
  BY <1>9 DEF Crash, HolderIsInside, Inside, Idle
<1>10. CASE UNCHANGED vars
  BY <1>1, <1>10 DEF vars, daemonVars
<1>11. QED
  BY <1>1, <1>2, <1>3, <1>4, <1>5, <1>6, <1>7, <1>8, <1>9, <1>10
     DEF Next, HandlerStep, ProviderStep, ConnectionStep, Txn, daemonVars,
         Publish, OrphanExits, Send, Bind, Connect, RunReturns, AckArrives, Drop,
         BeginTxn, Restart, ToolLoads, ToolSaves

(* At most one handler works for a session at any time, whatever copies    *)
(* and reconnections there are: the session mutex (daemon.go:186-188).     *)
THEOREM MutualExclusion == Spec => []OneHandlerPerSession
<1>1. Init => HolderIsInside
  BY DEF Init, HolderIsInside, Inside, Idle
<1>2. HolderIsInside => OneHandlerPerSession
  BY DEF HolderIsInside, OneHandlerPerSession
<1>3. QED
  BY <1>1, <1>2, HolderStep, TypeCorrect, PTL DEF Spec

-----------------------------------------------------------------------------
(* The locks.  Mutual exclusion says who has a lock while it works; this   *)
(* says that nobody else has it, and that it comes back.                   *)

(* A step of one handler that keeps its session, and ends a transaction    *)
(* or is none.                                                             *)
LEMMA LocksStay ==
  ASSUME HandlerTypes, LocksHaveHolders, UNCHANGED sessionLock,
         NEW h \in Handlers, Inside(h)',
         \A g \in Handlers : g # h => handler'[g] = handler[g],
         handler'[h].event = handler[h].event,
         eventLock' = None \/ (handler[h].pc \notin TxnSteps /\ UNCHANGED eventLock)
  PROVE  LocksHaveHolders'
BY DEF LocksHaveHolders, Inside, SessionOf, HandlerTypes

(* A step of one handler that gives its session back.                      *)
LEMMA LocksReturn ==
  ASSUME HandlerTypes, HolderIsInside, LocksHaveHolders,
         NEW h \in Handlers, Inside(h), Unlock(h),
         \A g \in Handlers : g # h => handler'[g] = handler[g],
         eventLock' = None \/ (handler[h].pc \notin TxnSteps /\ UNCHANGED eventLock)
  PROVE  LocksHaveHolders'
<1>1. SessionOf(h) \in Sessions /\ sessionLock[SessionOf(h)] = h
  BY WorkTypes DEF HolderIsInside, Inside
<1>2. ASSUME NEW s \in Sessions, sessionLock'[s] # None
      PROVE  /\ sessionLock'[s] = sessionLock[s]
             /\ sessionLock[s] \in Handlers /\ sessionLock[s] # h
             /\ Inside(sessionLock[s]) /\ SessionOf(sessionLock[s]) = s
  <2>1. s # SessionOf(h) /\ sessionLock'[s] = sessionLock[s]
    BY <1>1, <1>2 DEF Unlock, HandlerTypes
  <2>2. QED
    BY <1>2, <2>1 DEF LocksHaveHolders, HandlerTypes
<1>3. ASSUME eventLock' # None
      PROVE  /\ eventLock' = eventLock /\ eventLock \in Handlers /\ eventLock # h
             /\ handler[eventLock].pc \in TxnSteps
             /\ SessionOf(eventLock) \in Sessions
             /\ sessionLock'[SessionOf(eventLock)] = eventLock
  <2>1. /\ eventLock' = eventLock /\ eventLock \in Handlers /\ eventLock # h
        /\ handler[eventLock].pc \in TxnSteps
        /\ sessionLock[SessionOf(eventLock)] = eventLock
    BY <1>3 DEF LocksHaveHolders, HandlerTypes
  <2>2. SessionOf(eventLock) \in Sessions
    BY <2>1, WorkTypes DEF TxnSteps
  <2>3. SessionOf(eventLock) # SessionOf(h)
    BY <1>1, <2>1
  <2>4. QED
    BY <2>1, <2>2, <2>3 DEF Unlock, HandlerTypes
<1>4. QED
  BY <1>2, <1>3 DEF LocksHaveHolders, Inside, SessionOf

(* Every step takes, keeps or gives back a lock and leaves none behind.    *)
LEMMA LocksStep ==
  ASSUME TypeOK, HolderIsInside, LocksHaveHolders, [Next]_vars
  PROVE  LocksHaveHolders'
<1>0. HandlerTypes /\ handler \in [Handlers -> HandlerStates]
  BY DEF TypeOK, HandlerTypes
<1>1. CASE UNCHANGED <<handler, sessionLock, eventLock>>
  BY <1>1 DEF LocksHaveHolders, Inside, SessionOf
<1>2. ASSUME NEW h \in Handlers, ~Inside(h), UNCHANGED <<sessionLock, eventLock>>,
             \A g \in Handlers : g # h => handler'[g] = handler[g]
      PROVE  LocksHaveHolders'
  BY <1>0, <1>2 DEF LocksHaveHolders, Inside, SessionOf, HandlerTypes, TxnSteps
<1>3. ASSUME NEW h \in Handlers, NEW e \in Events, Receive(h, e)
      PROVE  LocksHaveHolders'
  BY <1>0, <1>2, <1>3 DEF Receive, Idle, Inside
<1>4. ASSUME NEW h \in Handlers, Acknowledge(h)
      PROVE  LocksHaveHolders'
  BY <1>0, <1>2, <1>4 DEF Acknowledge, Inside
<1>5. ASSUME NEW h \in Handlers, LockSession(h)
      PROVE  LocksHaveHolders'
  <2>1. /\ \A g \in Handlers : g # h => handler'[g] = handler[g]
        /\ handler'[h].event = handler[h].event /\ handler'[h].pc = "record"
    BY <1>0, <1>5, MoveFrame DEF LockSession
  <2>2. SessionOf(h) \in Sessions /\ Inside(h)' /\ SessionOf(h)' = SessionOf(h)
    BY <1>0, <1>5, <2>1, WorkTypes DEF LockSession, SessionOf, Inside
  <2>3. /\ sessionLock' = [sessionLock EXCEPT ![SessionOf(h)] = h]
        /\ sessionLock[SessionOf(h)] = None /\ UNCHANGED eventLock
    BY <1>5 DEF LockSession
  <2>4. ASSUME NEW s \in Sessions, sessionLock'[s] # None
        PROVE  /\ sessionLock'[s] \in Handlers /\ handler'[sessionLock'[s]].event =
                    handler[sessionLock'[s]].event
               /\ handler'[sessionLock'[s]].pc \notin {"idle", "lock", "ack"}
               /\ Target[handler[sessionLock'[s]].event] = s
    <3>1. CASE s = SessionOf(h)
      BY <1>0, <2>1, <2>3, <3>1 DEF HandlerTypes, SessionOf
    <3>2. CASE s # SessionOf(h)
      <4>1. /\ sessionLock'[s] = sessionLock[s] /\ sessionLock[s] \in Handlers
            /\ Inside(sessionLock[s]) /\ SessionOf(sessionLock[s]) = s
        BY <1>0, <2>3, <2>4, <3>2 DEF HandlerTypes, LocksHaveHolders
      <4>2. sessionLock[s] # h
        BY <1>5, <4>1 DEF LockSession, Inside
      <4>3. QED
        BY <2>1, <4>1, <4>2 DEF Inside, SessionOf
    <3>3. QED
      BY <3>1, <3>2
  <2>5. ASSUME eventLock' # None
        PROVE  /\ eventLock' \in Handlers /\ handler'[eventLock'] = handler[eventLock']
               /\ handler[eventLock'].pc \in TxnSteps
               /\ sessionLock'[SessionOf(eventLock')] = eventLock'
    <3>1. /\ eventLock' = eventLock /\ eventLock \in Handlers
          /\ handler[eventLock].pc \in TxnSteps
          /\ sessionLock[SessionOf(eventLock)] = eventLock
      BY <1>0, <2>3, <2>5 DEF HandlerTypes, LocksHaveHolders
    <3>2. eventLock # h
      BY <1>5, <3>1 DEF LockSession, TxnSteps
    <3>3. SessionOf(eventLock) \in Sessions /\ SessionOf(eventLock) # SessionOf(h)
      BY <1>0, <2>3, <3>1, NoneAssumption, WorkTypes DEF TxnSteps
    <3>4. QED
      BY <1>0, <2>1, <2>3, <3>1, <3>2, <3>3 DEF HandlerTypes
  <2>6. QED
    BY <2>4, <2>5 DEF LocksHaveHolders, Inside, SessionOf
<1>6. ASSUME NEW h \in Handlers, BeginTxn(h)
      PROVE  LocksHaveHolders'
  <2>1. sessionLock[SessionOf(h)] = h
    BY <1>6 DEF BeginTxn, HolderIsInside, Inside, TxnSteps
  <2>2. QED
    BY <1>6, <2>1 DEF BeginTxn, LocksHaveHolders, Inside, SessionOf
<1>7. ASSUME NEW h \in Handlers,
             Authorize(h) \/ CommitGrant(h) \/ StartRun(h) \/ RefuseRun(h) \/ RunExits(h)
      PROVE  LocksHaveHolders'
  <2>1. PICK pc \in {"grant", "denied", "start", "running", "finish"} :
          \E outcome : Move(h, pc) \/ Decide(h, pc, outcome)
    BY <1>7 DEF Authorize, CommitGrant, StartRun, RefuseRun, RunExits
  <2>2. /\ \A g \in Handlers : g # h => handler'[g] = handler[g]
        /\ handler'[h].event = handler[h].event /\ handler'[h].pc = pc
    BY <1>0, <2>1, MoveFrame
  <2>3. UNCHANGED sessionLock
    BY <1>7 DEF Authorize, CommitGrant, StartRun, RefuseRun, RunExits
  <2>4. eventLock' = None \/ (handler[h].pc \notin TxnSteps /\ UNCHANGED eventLock)
    BY <1>7 DEF Authorize, CommitGrant, StartRun, RefuseRun, RunExits, Commit, EndTxn, TxnSteps
  <2>5. QED
    BY <1>0, <2>2, <2>3, <2>4, LocksStay DEF Inside
<1>8. ASSUME NEW h \in Handlers, CommitRecord(h) \/ CommitDenied(h) \/ TxnFails(h)
      PROVE  LocksHaveHolders'
  <2>1. eventLock' = None /\ Inside(h)
    BY <1>8 DEF CommitRecord, CommitDenied, TxnFails, Commit, EndTxn, Inside
  <2>2. CASE /\ UNCHANGED sessionLock
             /\ \E pc \in {"authorize", "start"} :
                  \E outcome : Move(h, pc) \/ Decide(h, pc, outcome)
    BY <1>0, <2>1, <2>2, MoveFrame, LocksStay DEF Inside
  <2>3. CASE /\ Unlock(h)
             /\ \E outcome : Move(h, "ack") \/ Decide(h, "ack", outcome)
    BY <1>0, <2>1, <2>3, MoveFrame, LocksReturn
  <2>4. QED
    BY <1>8, <2>2, <2>3 DEF CommitRecord, CommitDenied, TxnFails
<1>9. ASSUME NEW h \in Handlers, CommitFinish(h)
      PROVE  LocksHaveHolders'
  <2> DEFINE final == FinalState(loaded[SessionOf(h)], handler[h].event, handler[h].outcome)
             r == [handler[h] EXCEPT !.pc = "project", !.final = final]
  <2>1. r.event = handler[h].event /\ r.pc = "project"
    BY <1>0 DEF HandlerStates
  <2>2. handler' = [handler EXCEPT ![h] = r] /\ UNCHANGED sessionLock /\ eventLock' = None
    BY <1>9 DEF CommitFinish, Commit, EndTxn
  <2> HIDE DEF r
  <2>3. /\ \A g \in Handlers : g # h => handler'[g] = handler[g]
        /\ handler'[h] = r
    BY <1>0, <2>2
  <2>4. QED
    BY <1>0, <2>1, <2>2, <2>3, LocksStay DEF Inside
<1>10. ASSUME NEW h \in Handlers, Project(h)
       PROVE  LocksHaveHolders'
  BY <1>0, <1>10, LocksReturn DEF Project, Inside, TxnSteps
<1>11. CASE Crash
  BY <1>11 DEF Crash, EndTxn, LocksHaveHolders
<1>12. CASE UNCHANGED vars
  BY <1>1, <1>12 DEF vars, daemonVars
<1>13. QED
  BY <1>1, <1>3, <1>4, <1>5, <1>6, <1>7, <1>8, <1>9, <1>10, <1>11, <1>12
     DEF Next, HandlerStep, ProviderStep, ConnectionStep, Txn, daemonVars,
         Publish, OrphanExits, Send, Bind, Connect, RunReturns, AckArrives, Drop,
         Restart, ToolLoads, ToolSaves

(* No lock is left behind by a handler that fails, is refused, or whose    *)
(* daemon dies: a locked session has a handler at work in it, a locked     *)
(* store a transaction that will commit or fail (daemon.go:186-188,        *)
(* 294-337).  For every overlap of the tools and every fault.              *)
THEOREM LocksComeBack == Spec => []LocksHaveHolders
<1>1. Init => HolderIsInside /\ LocksHaveHolders
  BY DEF Init, HolderIsInside, LocksHaveHolders, Inside, Idle
<1>2. QED
  BY <1>1, HolderStep, LocksStep, TypeCorrect, PTL DEF Spec

(* Nobody waits in a circle: the holder of a session waits for the store   *)
(* at most, and the holder of the store for nobody (daemon.go:186-188).    *)
THEOREM NoCircularWait == Spec => []WaitsEnd
<1>1. TypeOK /\ LocksHaveHolders => WaitsEnd
  <2> SUFFICES ASSUME TypeOK, LocksHaveHolders, NEW h \in Handlers, Waits(h)
               PROVE  /\ Holder(h) \in Handlers
                      /\ Waits(Holder(h)) => ~Waits(Holder(Holder(h)))
    BY DEF WaitsEnd
  <2>1. eventLock # None =>
          /\ eventLock \in Handlers /\ handler[eventLock].pc \in TxnSteps
          /\ ~Waits(eventLock)
    BY DEF TypeOK, HandlerTypes, LocksHaveHolders, Waits, TxnSteps
  <2>2. CASE handler[h].pc = "lock"
    <3>1. SessionOf(h) \in Sessions /\ sessionLock[SessionOf(h)] # None
      BY <2>2, WorkTypes DEF Waits, TxnSteps, TypeOK
    <3>2. Holder(h) \in Handlers /\ handler[Holder(h)].pc # "lock"
      BY <2>2, <3>1 DEF Holder, LocksHaveHolders, Inside, TypeOK, HandlerTypes
    <3>3. Waits(Holder(h)) => eventLock # None /\ Holder(Holder(h)) = eventLock
      BY <3>2 DEF Waits, Holder
    <3>4. QED
      BY <2>1, <3>2, <3>3
  <2>3. CASE handler[h].pc # "lock"
    BY <2>1, <2>3 DEF Waits, Holder
  <2>4. QED
    BY <2>2, <2>3
<1>2. QED
  BY <1>1, LocksComeBack, TypeCorrect, PTL

-----------------------------------------------------------------------------
(* Honest acknowledgements.  What the provider is told comes from a        *)
(* handler's outcome, which comes from a run or from a record of the file, *)
(* which comes from any copy of the file that any process ever loaded: the *)
(* invariant has to hold of every one of these places.                     *)
RecordsHonest(store) ==
  \A s \in Sessions, e \in Events :
    HasStatus(store[s], e, "completed") => e \in ranOK

FilesHonest ==
  /\ RecordsHonest(disk)
  /\ RecordsHonest(loaded)
  /\ \A t \in Tools : RecordsHonest(tool[t].snap)

HandlersHonest ==
  \A h \in Handlers :
    handler[h].outcome \in {"ok", "duplicate"} => handler[h].event \in ranOK

AcksHonest ==
  \A p \in Providers : \A i \in DOMAIN acks[p] :
    acks[p][i].status = "completed" => acks[p][i].event \in ranOK

Honest == FilesHonest /\ HandlersHonest /\ AcksHonest /\ CompletedMeansRan

(* The empty file claims nothing.                                          *)
LEMMA NoStoreHonest == RecordsHonest(NoStore)
BY DEF RecordsHonest, NoStore, HasStatus, Absent

(* Successful runs are not forgotten.                                      *)
LEMMA RanGrows == [Next]_vars => ranOK \subseteq ranOK'
BY DEF Next, HandlerStep, ProviderStep, ConnectionStep, Txn, vars, daemonVars,
       Publish, OrphanExits, Send, Bind, Connect, RunReturns, AckArrives, Drop,
       Receive, LockSession, BeginTxn, CommitRecord, Authorize, CommitDenied,
       CommitGrant, StartRun, RefuseRun, RunExits, CommitFinish, TxnFails, Project,
       Acknowledge, Crash, Restart, ToolLoads, ToolSaves

(* A commit is honest if the record it writes is.                          *)
LEMMA CommitHonest ==
  ASSUME FileTypes, FilesHonest, UNCHANGED <<tool, ranOK>>,
         NEW h \in Handlers, NEW st \in SessionStates, Commit(h, st),
         \A f \in Events : HasStatus(st, f, "completed") => f \in ranOK
  PROVE  FilesHonest'
<1>1. loaded \in [Sessions -> SessionStates]
  BY DEF FileTypes, Stores
<1>2. RecordsHonest(disk)'
  BY <1>1 DEF Commit, FilesHonest, RecordsHonest
<1>3. RecordsHonest(loaded)'
  BY NoStoreHonest DEF Commit, EndTxn, RecordsHonest
<1>4. QED
  BY <1>2, <1>3 DEF FilesHonest, RecordsHonest

(* Steps that save nothing.                                                *)
LEMMA FilesKeepHonest ==
  ASSUME FilesHonest, UNCHANGED <<disk, tool>>, ranOK \subseteq ranOK',
         loaded' = loaded \/ loaded' = disk \/ loaded' = NoStore
  PROVE  FilesHonest'
<1>1. RecordsHonest(loaded)'
  BY NoStoreHonest DEF FilesHonest, RecordsHonest
<1>2. QED
  BY <1>1 DEF FilesHonest, RecordsHonest

(* Every step keeps the file and what was loaded of it honest.             *)
LEMMA FilesStep == TypeOK /\ Honest /\ [Next]_vars => FilesHonest'
<1> SUFFICES ASSUME TypeOK, Honest, [Next]_vars PROVE FilesHonest'
  OBVIOUS
<1> USE DEF TypeOK
<1>1. ranOK \subseteq ranOK' /\ FilesHonest /\ HandlersHonest
  BY RanGrows DEF Honest
<1>2. CASE UNCHANGED <<disk, tool, loaded>>
  BY <1>1, <1>2, FilesKeepHonest
<1>3. ASSUME NEW h \in Handlers, BeginTxn(h) \/ TxnFails(h)
      PROVE  FilesHonest'
  BY <1>1, <1>3, FilesKeepHonest DEF BeginTxn, TxnFails, EndTxn, fileVars
<1>4. CASE Crash
  BY <1>1, <1>4, FilesKeepHonest DEF Crash, EndTxn, fileVars
<1>5. ASSUME NEW h \in Handlers, CommitRecord(h)
      PROVE  FilesHonest'
  <2> DEFINE st == loaded[SessionOf(h)]
             new == RecordDelivery(st, handler[h].event)
  <2>1. handler[h].event \in Events /\ SessionOf(h) \in Sessions
    BY <1>5, WorkTypes DEF CommitRecord
  <2>2. st \in SessionStates /\ new \in SessionStates
    BY <2>1, RecordDeliveryType DEF FileTypes, Stores
  <2>3. \A f \in Events : HasStatus(new, f, "completed") => HasStatus(st, f, "completed")
    BY <2>1, <2>2, RecordCompletesNothing
  <2>4. \A f \in Events : HasStatus(new, f, "completed") => f \in ranOK
    BY <1>1, <2>1, <2>3 DEF FilesHonest, RecordsHonest
  <2>5. Commit(h, new) /\ UNCHANGED <<tool, ranOK>>
    BY <1>5 DEF CommitRecord
  <2> HIDE DEF new
  <2>6. QED
    BY <1>1, <2>2, <2>4, <2>5, CommitHonest
<1>6. ASSUME NEW h \in Handlers, CommitDenied(h)
      PROVE  FilesHonest'
  <2> DEFINE st == loaded[SessionOf(h)]
             new == CompleteEvent(st, handler[h].event, "failed")
  <2>1. handler[h].event \in Events /\ SessionOf(h) \in Sessions
    BY <1>6, WorkTypes DEF CommitDenied
  <2>2. st \in SessionStates /\ new \in SessionStates
    BY <2>1, CompleteEventType DEF FileTypes, Stores
  <2>3. \A f \in Events : HasStatus(new, f, "completed") => HasStatus(st, f, "completed")
    BY <2>1, <2>2, CompleteCompletesOne
  <2>4. \A f \in Events : HasStatus(new, f, "completed") => f \in ranOK
    BY <1>1, <2>1, <2>3 DEF FilesHonest, RecordsHonest
  <2>5. Commit(h, new) /\ UNCHANGED <<tool, ranOK>>
    BY <1>6 DEF CommitDenied
  <2> HIDE DEF new
  <2>6. QED
    BY <1>1, <2>2, <2>4, <2>5, CommitHonest
<1>7. ASSUME NEW h \in Handlers, CommitGrant(h)
      PROVE  FilesHonest'
  <2> DEFINE st == loaded[SessionOf(h)]
             new == SetPermissions(st)
  <2>1. handler[h].event \in Events /\ SessionOf(h) \in Sessions
    BY <1>7, WorkTypes DEF CommitGrant
  <2>2. st \in SessionStates /\ new \in SessionStates /\ new.events = st.events
    BY <2>1, LifecycleOpsType, LifecycleOpsKeepRecords DEF FileTypes, Stores
  <2>3. \A f \in Events : HasStatus(new, f, "completed") => f \in ranOK
    BY <1>1, <2>1, <2>2 DEF FilesHonest, RecordsHonest, HasStatus
  <2>4. Commit(h, new) /\ UNCHANGED <<tool, ranOK>>
    BY <1>7 DEF CommitGrant
  <2> HIDE DEF new
  <2>5. QED
    BY <1>1, <2>2, <2>3, <2>4, CommitHonest
<1>8. ASSUME NEW h \in Handlers, CommitFinish(h)
      PROVE  FilesHonest'
  <2> DEFINE st == loaded[SessionOf(h)]
             status == AckStatus(handler[h].outcome)
             done == CompleteEvent(st, handler[h].event, status)
             new == Finished(st, handler[h].event, handler[h].outcome)
  <2>1. handler[h].event \in Events /\ SessionOf(h) \in Sessions
    BY <1>8, WorkTypes DEF CommitFinish
  <2>2. st \in SessionStates /\ status \in {"completed", "failed"}
    BY <2>1, AckStatusType DEF FileTypes, Stores
  <2>3. done \in SessionStates
    BY <2>1, <2>2, CompleteEventType
  <2>4. new \in SessionStates /\ new.events = done.events
    BY <2>1, <2>2, <2>3, FinishedType, LifecycleOpsKeepRecords DEF Finished
  <2>5. status = "completed" => handler[h].event \in ranOK
    BY <1>1 DEF AckStatus, HandlersHonest
  <2>6. ASSUME NEW f \in Events, HasStatus(new, f, "completed")
        PROVE  f \in ranOK
    <3>1. HasStatus(done, f, "completed")
      BY <2>4, <2>6 DEF HasStatus
    <3>2. HasStatus(st, f, "completed") \/ (f = handler[h].event /\ status = "completed")
      <4> HIDE DEF st, status
      <4>1. QED
        BY <2>1, <2>2, <3>1, CompleteCompletesOne
    <3>3. QED
      BY <1>1, <2>1, <2>5, <3>2 DEF FilesHonest, RecordsHonest
  <2>7. Commit(h, new) /\ UNCHANGED <<tool, ranOK>>
    BY <1>8 DEF CommitFinish
  <2> HIDE DEF new
  <2>8. QED
    BY <1>1, <2>4, <2>6, <2>7, CommitHonest
<1>9. ASSUME NEW t \in Tools, NEW op \in {"pause", "resume"}, NEW s \in Sessions,
             ToolLoads(t, op, s)
      PROVE  FilesHonest'
  <2>1. \A u \in Tools : tool'[u].snap = IF u = t THEN disk ELSE tool[u].snap
    BY <1>9 DEF ToolLoads, ToolTypes
  <2>2. UNCHANGED <<disk, loaded, ranOK>>
    BY <1>9 DEF ToolLoads, fileVars, daemonVars
  <2>3. QED
    BY <1>1, <2>1, <2>2 DEF FilesHonest, RecordsHonest
<1>10. ASSUME NEW t \in Tools, ToolSaves(t)
       PROVE  FilesHonest'
  <2> DEFINE s == tool[t].session
             old == tool[t].snap[s]
             new == Changed(tool[t].op, old)
  <2>1. s \in Sessions /\ tool[t].snap \in Stores
    BY <1>10 DEF ToolSaves, ToolTypes
  <2>2. new.events = old.events
    BY <2>1, LifecycleOpsKeepRecords DEF Changed, Stores
  <2>3. disk' = [tool[t].snap EXCEPT ![s] = new] /\ UNCHANGED <<loaded, ranOK>>
    BY <1>10 DEF ToolSaves, daemonVars
  <2>4. \A u \in Tools : tool'[u].snap = IF u = t THEN NoStore ELSE tool[u].snap
    BY <1>10 DEF ToolSaves, ToolTypes, ToolIdle
  <2>5. RecordsHonest(tool[t].snap)
    BY <1>1 DEF FilesHonest
  <2> HIDE DEF new
  <2>6. RecordsHonest(disk)'
    BY <2>1, <2>2, <2>3, <2>5 DEF RecordsHonest, HasStatus, Stores
  <2>7. QED
    BY <1>1, <2>3, <2>4, <2>6, NoStoreHonest DEF FilesHonest, RecordsHonest
<1>11. CASE UNCHANGED vars
  BY <1>2, <1>11 DEF vars, fileVars, daemonVars
<1>12. QED
  BY <1>2, <1>3, <1>4, <1>5, <1>6, <1>7, <1>8, <1>9, <1>10, <1>11
     DEF Next, HandlerStep, ProviderStep, ConnectionStep, Txn, daemonVars, fileVars,
         Publish, OrphanExits, Send, Bind, Connect, RunReturns, AckArrives, Drop,
         Receive, LockSession, Authorize, StartRun, RefuseRun, RunExits, Project,
         Acknowledge, Restart

(* Steps that let no outcome and no event of a handler change.             *)
LEMMA HandlersKeepHonest ==
  ASSUME HandlersHonest, ranOK \subseteq ranOK',
         \A h \in Handlers : /\ handler'[h].outcome = handler[h].outcome
                             /\ handler'[h].event = handler[h].event
  PROVE  HandlersHonest'
BY DEF HandlersHonest

(* Every step keeps what the handlers are about to answer honest.          *)
LEMMA HandlersStep == TypeOK /\ Honest /\ [Next]_vars => HandlersHonest'
<1> SUFFICES ASSUME TypeOK, Honest, [Next]_vars PROVE HandlersHonest'
  OBVIOUS
<1>0. HandlerTypes /\ handler \in [Handlers -> HandlerStates]
  BY DEF TypeOK, HandlerTypes
<1>1. ranOK \subseteq ranOK' /\ FilesHonest /\ HandlersHonest
  BY RanGrows DEF Honest
<1>2. CASE UNCHANGED handler
  BY <1>1, <1>2 DEF HandlersHonest
<1>3. ASSUME NEW h \in Handlers, \E pc : Move(h, pc)
      PROVE  HandlersHonest'
  BY <1>0, <1>1, <1>3 DEF Move, HandlersHonest, HandlerStates
<1>4. ASSUME NEW h \in Handlers, NEW pc, NEW outcome, Decide(h, pc, outcome),
             outcome \in {"ok", "duplicate"} => handler[h].event \in ranOK'
      PROVE  HandlersHonest'
  <2> DEFINE r == [handler[h] EXCEPT !.pc = pc, !.outcome = outcome]
  <2>1. r.event = handler[h].event /\ r.outcome = outcome
    BY <1>0 DEF HandlerStates
  <2>2. handler' = [handler EXCEPT ![h] = r]
    BY <1>4 DEF Decide
  <2> HIDE DEF r
  <2>3. QED
    BY <1>0, <1>1, <1>4, <2>1, <2>2 DEF HandlersHonest
<1>5. ASSUME NEW h \in Handlers, NEW e \in Events, Receive(h, e)
      PROVE  HandlersHonest'
  BY <1>0, <1>1, <1>5 DEF Receive, Idle, HandlersHonest
<1>6. ASSUME NEW h \in Handlers, CommitRecord(h)
      PROVE  HandlersHonest'
  <2>1. handler[h].event \in Events /\ SessionOf(h) \in Sessions
    BY <1>0, <1>6, WorkTypes DEF CommitRecord
  <2>2. Duplicate(loaded[SessionOf(h)], handler[h].event) => handler[h].event \in ranOK'
    BY <1>1, <2>1 DEF Duplicate, FilesHonest, RecordsHonest
  <2>3. CASE Duplicate(loaded[SessionOf(h)], handler[h].event)
    BY <1>4, <1>6, <2>2, <2>3 DEF CommitRecord
  <2>4. CASE ~Duplicate(loaded[SessionOf(h)], handler[h].event)
    BY <1>3, <1>4, <1>6, <2>4 DEF CommitRecord
  <2>5. QED
    BY <2>3, <2>4
<1>7. ASSUME NEW h \in Handlers,
             LockSession(h) \/ CommitDenied(h) \/ CommitGrant(h) \/ StartRun(h)
      PROVE  HandlersHonest'
  BY <1>3, <1>7 DEF LockSession, CommitDenied, CommitGrant, StartRun
<1>8. ASSUME NEW h \in Handlers, Authorize(h) \/ RefuseRun(h) \/ TxnFails(h)
      PROVE  HandlersHonest'
  BY <1>3, <1>4, <1>8 DEF Authorize, RefuseRun, TxnFails
<1>9. ASSUME NEW h \in Handlers, RunExits(h)
      PROVE  HandlersHonest'
  <2>1. CASE Decide(h, "finish", "ok") /\ ranOK' = ranOK \cup {handler[h].event}
    BY <1>4, <2>1
  <2>2. CASE Decide(h, "finish", "failed")
    BY <1>4, <2>2
  <2>3. QED
    BY <1>9, <2>1, <2>2 DEF RunExits
<1>10. ASSUME NEW h \in Handlers, CommitFinish(h)
       PROVE  HandlersHonest'
  <2> DEFINE final == FinalState(loaded[SessionOf(h)], handler[h].event, handler[h].outcome)
             r == [handler[h] EXCEPT !.pc = "project", !.final = final]
  <2>1. r.event = handler[h].event /\ r.outcome = handler[h].outcome
    BY <1>0 DEF HandlerStates
  <2>2. handler' = [handler EXCEPT ![h] = r]
    BY <1>10 DEF CommitFinish
  <2> HIDE DEF r
  <2>3. QED
    BY <1>0, <1>1, <2>1, <2>2, HandlersKeepHonest
<1>11. ASSUME NEW h \in Handlers, Project(h)
       PROVE  HandlersHonest'
  <2> DEFINE r == [handler[h] EXCEPT !.pc = "ack", !.final = NoProjection]
  <2>1. r.event = handler[h].event /\ r.outcome = handler[h].outcome
    BY <1>0 DEF HandlerStates
  <2>2. handler' = [handler EXCEPT ![h] = r]
    BY <1>11 DEF Project
  <2> HIDE DEF r
  <2>3. QED
    BY <1>0, <1>1, <2>1, <2>2, HandlersKeepHonest
<1>12. ASSUME NEW h \in Handlers, Acknowledge(h)
       PROVE  HandlersHonest'
  BY <1>0, <1>1, <1>12 DEF Acknowledge, Idle, HandlersHonest
<1>13. CASE Crash
  BY <1>13 DEF Crash, Idle, HandlersHonest
<1>14. CASE UNCHANGED vars
  BY <1>2, <1>14 DEF vars, daemonVars
<1>15. QED
  BY <1>2, <1>5, <1>6, <1>7, <1>8, <1>9, <1>10, <1>11, <1>12, <1>13, <1>14
     DEF Next, HandlerStep, ProviderStep, ConnectionStep, Txn, daemonVars,
         Publish, OrphanExits, Send, Bind, Connect, RunReturns, AckArrives, Drop,
         BeginTxn, Restart, ToolLoads, ToolSaves

(* An answer under way was under way before, or a handler gave it just now.*)
LEMMA AcksFrom ==
  ASSUME TypeOK, [Next]_vars, NEW p \in Providers, NEW i \in DOMAIN acks'[p]
  PROVE  \/ \E j \in DOMAIN acks[p] : acks'[p][i] = acks[p][j]
         \/ \E h \in Handlers :
              /\ handler[h].pc = "ack" /\ handler[h].event \in Events
              /\ acks'[p][i] = Rec(handler[h].event, AckStatus(handler[h].outcome))
<1> DEFINE Known == \E j \in DOMAIN acks[p] : acks'[p][i] = acks[p][j]
<1>0. acks \in [Providers -> Seq(EventRecords)]
  BY DEF TypeOK, ProviderTypes
<1>1. CASE acks'[p] = << >> \/ acks'[p] = acks[p]
  BY <1>1
<1>2. ASSUME NEW q \in Providers, AckArrives(q)
      PROVE  Known
  <2>1. acks[q] \in Seq(EventRecords) /\ acks[q] # << >>
    BY <1>0, <1>2 DEF AckArrives
  <2>2. /\ Tail(acks[q]) \in Seq(EventRecords)
        /\ Len(Tail(acks[q])) = Len(acks[q]) - 1
        /\ \A k \in 1..Len(Tail(acks[q])) : Tail(acks[q])[k] = acks[q][k + 1]
    BY <2>1, HeadTailProperties
  <2>3. \A k \in DOMAIN Tail(acks[q]) : k + 1 \in DOMAIN acks[q] /\ Tail(acks[q])[k] = acks[q][k + 1]
    BY <2>1, <2>2
  <2>4. acks' = [acks EXCEPT ![q] = Tail(acks[q])]
    BY <1>2 DEF AckArrives
  <2>5. QED
    BY <1>0, <2>3, <2>4
<1>3. ASSUME NEW h \in Handlers, Acknowledge(h)
      PROVE  Known \/ /\ handler[h].pc = "ack" /\ handler[h].event \in Events
                      /\ acks'[p][i] = Rec(handler[h].event, AckStatus(handler[h].outcome))
  <2> DEFINE e == handler[h].event
             ack == Rec(e, AckStatus(handler[h].outcome))
             q == Owner(e)
  <2>1. e \in Events /\ handler[h].pc = "ack"
    BY <1>3, WorkTypes DEF Acknowledge, TypeOK
  <2>2. ack \in EventRecords
    BY <2>1, RecType, AckStatusType DEF EventStatuses
  <2>3. acks' = acks \/ acks' = [acks EXCEPT ![q] = Append(@, ack)]
    BY <1>3 DEF Acknowledge
  <2> HIDE DEF ack, q, e
  <2>4. CASE acks' = [acks EXCEPT ![q] = Append(@, ack)] /\ p = q
    <3>1. acks[p] \in Seq(EventRecords) /\ acks'[p] = Append(acks[p], ack)
      BY <1>0, <2>4
    <3>2. \A k \in DOMAIN Append(acks[p], ack) :
            \/ k \in DOMAIN acks[p] /\ Append(acks[p], ack)[k] = acks[p][k]
            \/ Append(acks[p], ack)[k] = ack
      BY <2>2, <3>1
    <3>3. QED
      BY <2>1, <3>1, <3>2 DEF ack, e
  <2>5. QED
    BY <1>0, <2>3, <2>4
<1>4. ASSUME NEW P, Lose(P)
      PROVE  Known
  BY <1>1, <1>4 DEF Lose
<1>5. CASE UNCHANGED acks
  BY <1>1, <1>5
<1>6. CASE UNCHANGED vars
  BY <1>5, <1>6 DEF vars, netVars
<1>7. QED
  BY <1>2, <1>3, <1>4, <1>5, <1>6
     DEF Next, HandlerStep, ProviderStep, ConnectionStep, Txn, netVars,
         Publish, OrphanExits, Send, Bind, Connect, RunReturns, Drop, Receive,
         LockSession, BeginTxn, CommitRecord, Authorize, CommitDenied, CommitGrant,
         StartRun, RefuseRun, RunExits, CommitFinish, TxnFails, Project, Crash,
         Restart, ToolLoads, ToolSaves

(* What the provider knows of an event it knew before, has published just  *)
(* now, or was answered.                                                   *)
LEMMA ProvFrom ==
  ASSUME TypeOK, [Next]_vars, NEW e \in Events
  PROVE  \/ prov'[e] \in {prov[e], "pending"}
         \/ \E p \in Providers : \E i \in DOMAIN acks[p] : acks[p][i] = Rec(e, prov'[e])
<1>0. /\ acks \in [Providers -> Seq(EventRecords)]
      /\ prov \in [Events -> {"none", "pending", "completed", "failed"}]
  BY DEF TypeOK, ProviderTypes
<1>1. CASE UNCHANGED prov
  BY <1>1
<1>2. ASSUME NEW f \in Events, Publish(f)
      PROVE  prov'[e] \in {prov[e], "pending"}
  BY <1>0, <1>2 DEF Publish
<1>3. ASSUME NEW p \in Providers, AckArrives(p)
      PROVE  prov'[e] = prov[e] \/ \E i \in DOMAIN acks[p] : acks[p][i] = Rec(e, prov'[e])
  <2> DEFINE ack == Head(acks[p])
  <2>1. acks[p] \in Seq(EventRecords) /\ acks[p] # << >>
    BY <1>0, <1>3 DEF AckArrives
  <2>2. ack \in EventRecords /\ ack = acks[p][1] /\ 1 \in DOMAIN acks[p]
    BY <2>1, HeadTailProperties
  <2>3. prov' = [prov EXCEPT ![ack.event] = ack.status]
    BY <1>3 DEF AckArrives
  <2>4. ack = Rec(ack.event, ack.status)
    BY <2>2 DEF EventRecords, Rec
  <2> HIDE DEF ack
  <2>5. prov'[e] = IF e = ack.event THEN ack.status ELSE prov[e]
    BY <1>0, <2>3
  <2>6. QED
    BY <2>2, <2>4, <2>5
<1>4. CASE UNCHANGED vars
  BY <1>1, <1>4 DEF vars, provVars
<1>5. QED
  BY <1>1, <1>2, <1>3, <1>4
     DEF Next, HandlerStep, ProviderStep, ConnectionStep, Txn, provVars,
         OrphanExits, Send, Bind, Connect, RunReturns, Drop, Receive,
         LockSession, BeginTxn, CommitRecord, Authorize, CommitDenied, CommitGrant,
         StartRun, RefuseRun, RunExits, CommitFinish, TxnFails, Project, Acknowledge,
         Crash, Restart, ToolLoads, ToolSaves

(* Every step keeps what is answered, and what the provider knows, honest. *)
LEMMA AcksStep == TypeOK /\ Honest /\ [Next]_vars => AcksHonest' /\ CompletedMeansRan'
<1> SUFFICES ASSUME TypeOK, Honest, [Next]_vars PROVE AcksHonest' /\ CompletedMeansRan'
  OBVIOUS
<1>1. ranOK \subseteq ranOK' /\ HandlersHonest /\ AcksHonest /\ CompletedMeansRan
  BY RanGrows DEF Honest
<1>2. \A h \in Handlers :
        LET ack == Rec(handler[h].event, AckStatus(handler[h].outcome))
        IN  ack.status = "completed" => ack.event \in ranOK
  BY <1>1 DEF Rec, AckStatus, HandlersHonest
<1>3. AcksHonest'
  BY <1>1, <1>2, AcksFrom DEF AcksHonest
<1>4. ASSUME NEW e \in Events, prov'[e] = "completed"
      PROVE  e \in ranOK
  <2>1. CASE prov'[e] = prov[e]
    BY <1>1, <1>4, <2>1 DEF CompletedMeansRan
  <2>2. ASSUME NEW p \in Providers, NEW i \in DOMAIN acks[p], acks[p][i] = Rec(e, prov'[e])
        PROVE  e \in ranOK
    BY <1>1, <1>4, <2>2 DEF Rec, AcksHonest
  <2>3. QED
    BY <1>4, <2>1, <2>2, ProvFrom
<1>5. QED
  BY <1>1, <1>3, <1>4 DEF CompletedMeansRan

(* An event that a provider was told is completed was carried out by a     *)
(* runtime that exited with success, through any number of crashes, lost   *)
(* connections, failed saves and tools that overwrite the daemon's file.   *)
THEOREM AcknowledgementsAreHonest == Spec => []CompletedMeansRan
<1>1. Init => Honest
  <2> SUFFICES ASSUME Init PROVE Honest
    OBVIOUS
  <2>1. FilesHonest
    BY NoStoreHonest DEF Init, FilesHonest, RecordsHonest, ToolIdle
  <2>2. HandlersHonest /\ AcksHonest /\ CompletedMeansRan
    BY DEF Init, HandlersHonest, AcksHonest, CompletedMeansRan, Idle
  <2>3. QED
    BY <2>1, <2>2 DEF Honest
<1>2. TypeOK /\ Honest /\ [Next]_vars => Honest'
  BY FilesStep, HandlersStep, AcksStep DEF Honest
<1>3. Honest => CompletedMeansRan
  BY DEF Honest
<1>4. QED
  BY <1>1, <1>2, <1>3, TypeCorrect, PTL DEF Spec
=============================================================================
