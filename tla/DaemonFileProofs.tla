-------------------------- MODULE DaemonFileProofs --------------------------
(***************************************************************************)
(* Theorems about the event store file that the daemon and the tools       *)
(* share.  Its records stay sound and within their limit whatever          *)
(* overlaps, dies or fails; the other theorems need what Overlap = FALSE   *)
(* says: nobody saves between another's load and save.  The runs show what *)
(* happens without that.  What the file says of answers holds until a save *)
(* fails, and as long as the events of a session fit in its history        *)
(* (Room); what it shows of work in progress, until a daemon dies or a     *)
(* save fails (Faultless).                                                 *)
(***************************************************************************)
EXTENDS DaemonProofs

(* A sound record of a session: a good history of its own events, and a    *)
(* lifecycle that fits.                                                    *)
RecordSound(s, st) ==
  /\ HistoryOK(st) /\ LifeFits(st)
  /\ \A e \in Events : Seen(st, e) => Target[e] = s

(* An outcome keeps a record sound.                                        *)
LEMMA OutcomeKeepsSound ==
  ASSUME NEW st \in SessionStates, NEW e \in Events, NEW status \in {"completed", "failed"},
         NEW s, RecordSound(s, st)
  PROVE  RecordSound(s, CompleteEvent(st, e, status))
<1>1. status \in EventStatuses
  BY DEF EventStatuses
<1>2. QED
  BY <1>1, CompleteKeepsHistory, CompleteKeepsLife, RecordSees DEF RecordSound

(* What a handler's transaction writes is one session record, and that     *)
(* record is sound if the one that was loaded is.                          *)
LEMMA TxnCommits ==
  ASSUME TypeOK, NEW h \in Handlers, Txn(h)
  PROVE  /\ SessionOf(h) \in Sessions
         /\ handler[h].pc \in TxnSteps /\ eventLock = h
         /\ UNCHANGED tool
         /\ \E st \in SessionStates :
              /\ Commit(h, st)
              /\ RecordSound(SessionOf(h), loaded[SessionOf(h)])
                   => RecordSound(SessionOf(h), st)
<1> DEFINE old == loaded[SessionOf(h)]
           e == handler[h].event
<1>1. SessionOf(h) \in Sessions /\ e \in Events /\ Target[e] = SessionOf(h)
  BY WorkTypes DEF SessionOf, TypeOK, Txn, CommitRecord, CommitDenied, CommitGrant, CommitFinish
<1>2. old \in SessionStates
  BY <1>1 DEF TypeOK, FileTypes, Stores
<1>3. handler[h].pc \in TxnSteps /\ eventLock = h /\ UNCHANGED tool
  BY DEF Txn, CommitRecord, CommitDenied, CommitGrant, CommitFinish, TxnSteps
<1> HIDE DEF old
<1>4. CASE CommitRecord(h)
  <2>1. Commit(h, RecordDelivery(old, e))
    BY <1>4 DEF CommitRecord, old
  <2>2. QED
    <3> DEFINE new == RecordDelivery(old, e)
    <3>1. new \in SessionStates
      BY <1>1, <1>2, RecordDeliveryType
    <3>2. RecordSound(SessionOf(h), old) => RecordSound(SessionOf(h), new)
      BY <1>1, <1>2, RecordKeepsHistory, RecordKeepsLife, RecordSees DEF RecordSound
    <3> HIDE DEF new
    <3>3. QED
      BY <1>1, <1>3, <2>1, <3>1, <3>2 DEF old, new
<1>5. CASE CommitDenied(h)
  <2>1. Commit(h, CompleteEvent(old, e, "failed"))
    BY <1>5 DEF CommitDenied, old
  <2>2. QED
    <3> DEFINE new == CompleteEvent(old, e, "failed")
    <3>1. new \in SessionStates
      BY <1>1, <1>2, CompleteEventType
    <3>2. RecordSound(SessionOf(h), old) => RecordSound(SessionOf(h), new)
      BY <1>1, <1>2, OutcomeKeepsSound
    <3> HIDE DEF new
    <3>3. QED
      BY <1>1, <1>3, <2>1, <3>1, <3>2 DEF old, new
<1>6. CASE CommitGrant(h)
  <2>1. Commit(h, SetPermissions(old))
    BY <1>6 DEF CommitGrant, old
  <2>2. SetPermissions(old) \in SessionStates /\ SetPermissions(old).events = old.events
    BY <1>2, LifecycleOpsType, LifecycleOpsKeepRecords
  <2>3. RecordSound(SessionOf(h), old) => RecordSound(SessionOf(h), SetPermissions(old))
    BY <1>2, <2>2, LifecycleOpsKeepLife DEF RecordSound, HistoryOK, Seen
  <2>4. QED
    BY <1>1, <1>3, <2>1, <2>2, <2>3 DEF old
<1>7. CASE CommitFinish(h)
  <2> DEFINE outcome == handler[h].outcome
             done == CompleteEvent(old, e, AckStatus(outcome))
             new == Finished(old, e, outcome)
  <2>1. Commit(h, new)
    BY <1>7 DEF CommitFinish, old
  <2>2. /\ done \in SessionStates
        /\ RecordSound(SessionOf(h), old) => RecordSound(SessionOf(h), done)
    BY <1>1, <1>2, AckStatusType, CompleteEventType, OutcomeKeepsSound
  <2>3. new \in SessionStates /\ new.events = done.events
    BY <1>1, <1>2, <2>2, FinishedType, LifecycleOpsKeepRecords DEF Finished
  <2>4. RecordSound(SessionOf(h), done) => RecordSound(SessionOf(h), new)
    BY <2>2, <2>3, LifecycleOpsKeepLife DEF Finished, RecordSound, HistoryOK, Seen
  <2> HIDE DEF new
  <2>5. QED
    BY <1>1, <1>3, <2>1, <2>2, <2>3, <2>4 DEF old
<1>8. QED
  BY <1>4, <1>5, <1>6, <1>7 DEF Txn

(* The steps that neither commit a transaction nor belong to a tool leave  *)
(* the file as it is; what is loaded is kept, read from it or dropped.     *)
OtherStep ==
  /\ UNCHANGED <<disk, tool>>
  /\ loaded' = loaded \/ loaded' = disk \/ loaded' = NoStore

(* Every step is a commit, a step of a tool, or one that saves nothing.    *)
LEMMA StepsByFile ==
  ASSUME TypeOK, [Next]_vars
  PROVE  \/ OtherStep
         \/ \E h \in Handlers : Txn(h)
         \/ \E t \in Tools, op \in {"pause", "resume"}, s \in Sessions : ToolLoads(t, op, s)
         \/ \E t \in Tools : ToolSaves(t)
<1>1. CASE UNCHANGED vars
  BY <1>1 DEF vars, daemonVars, fileVars, OtherStep
<1>2. ASSUME NEW h \in Handlers, HandlerStep(h) \/ TxnFails(h), ~Txn(h)
      PROVE  OtherStep
  BY <1>2 DEF HandlerStep, LockSession, BeginTxn, Authorize, StartRun, RefuseRun, RunExits,
              Project, Acknowledge, TxnFails, EndTxn, OtherStep, fileVars
<1>3. CASE \/ \E e \in Events : Publish(e) \/ OrphanExits(e)
           \/ ProviderStep
           \/ \E p \in Providers : ConnectionStep(p) \/ Drop(p)
           \/ \E h \in Handlers, e \in Events : Receive(h, e)
           \/ Crash \/ Restart
  BY <1>3 DEF Publish, OrphanExits, ProviderStep, Send, Bind, ConnectionStep, Connect,
              RunReturns, AckArrives, Drop, Receive, Crash, EndTxn, Restart, OtherStep,
              daemonVars, fileVars
<1>4. QED
  BY <1>1, <1>2, <1>3 DEF Next

-----------------------------------------------------------------------------
(* The records.  A tool may put back any copy of the file that it loaded,  *)
(* so they have to be sound in every copy there is.                        *)
StoreSound(store) == \A s \in Sessions : RecordSound(s, store[s])

CopiesSound ==
  /\ StoreSound(disk)
  /\ StoreSound(loaded)
  /\ \A t \in Tools : StoreSound(tool[t].snap)

(* The empty file is sound.                                                *)
LEMMA NoStoreSound == StoreSound(NoStore)
BY MaxHistoryAssumption
   DEF StoreSound, NoStore, RecordSound, HistoryOK, LifeFits, Seen, Absent

(* Every step keeps every copy of the file sound.                          *)
LEMMA SoundStep == TypeOK /\ CopiesSound /\ [Next]_vars => CopiesSound'
<1> SUFFICES ASSUME TypeOK, CopiesSound, [Next]_vars PROVE CopiesSound'
  OBVIOUS
<1>1. CASE OtherStep
  BY <1>1, NoStoreSound DEF OtherStep, CopiesSound, StoreSound
<1>2. ASSUME NEW h \in Handlers, Txn(h)
      PROVE  CopiesSound'
  <2>1. PICK st \in SessionStates :
          /\ Commit(h, st)
          /\ RecordSound(SessionOf(h), loaded[SessionOf(h)]) => RecordSound(SessionOf(h), st)
    BY <1>2, TxnCommits
  <2>2. SessionOf(h) \in Sessions /\ UNCHANGED tool
    BY <1>2, TxnCommits
  <2>3. loaded \in [Sessions -> SessionStates]
    BY DEF TypeOK, FileTypes, Stores
  <2>4. RecordSound(SessionOf(h), st)
    BY <2>1, <2>2 DEF CopiesSound, StoreSound
  <2>5. StoreSound(disk)'
    BY <2>1, <2>2, <2>3, <2>4 DEF Commit, CopiesSound, StoreSound
  <2>6. QED
    BY <2>1, <2>2, <2>5, NoStoreSound
       DEF Commit, EndTxn, CopiesSound, StoreSound
<1>3. ASSUME NEW t \in Tools, NEW op \in {"pause", "resume"}, NEW s \in Sessions,
             ToolLoads(t, op, s)
      PROVE  CopiesSound'
  <2>1. \A u \in Tools : tool'[u].snap = IF u = t THEN disk ELSE tool[u].snap
    BY <1>3 DEF ToolLoads, TypeOK, ToolTypes
  <2>2. UNCHANGED <<disk, loaded>>
    BY <1>3 DEF ToolLoads, fileVars, daemonVars
  <2>3. QED
    BY <2>1, <2>2 DEF CopiesSound, StoreSound
<1>4. ASSUME NEW t \in Tools, ToolSaves(t)
      PROVE  CopiesSound'
  <2> DEFINE s == tool[t].session
             new == Changed(tool[t].op, tool[t].snap[s])
  <2>1. s \in Sessions /\ tool[t].snap \in [Sessions -> SessionStates]
    BY <1>4 DEF ToolSaves, TypeOK, ToolTypes, Stores
  <2>2. RecordSound(s, tool[t].snap[s]) => RecordSound(s, new)
    BY <2>1, LifecycleOpsKeepRecords, LifecycleOpsKeepLife
       DEF Changed, RecordSound, HistoryOK, Seen
  <2>3. disk' = [tool[t].snap EXCEPT ![s] = new] /\ UNCHANGED loaded
    BY <1>4 DEF ToolSaves, daemonVars
  <2>4. \A u \in Tools : tool'[u].snap = IF u = t THEN NoStore ELSE tool[u].snap
    BY <1>4 DEF ToolSaves, TypeOK, ToolTypes, ToolIdle
  <2> HIDE DEF new
  <2>5. StoreSound(disk)'
    BY <2>1, <2>2, <2>3 DEF CopiesSound, StoreSound
  <2>6. QED
    BY <2>3, <2>4, <2>5, NoStoreSound DEF CopiesSound, StoreSound
<1>5. QED
  BY <1>1, <1>2, <1>3, <1>4, StepsByFile

(* A session's history holds an event once and never more records than     *)
(* maxEventHistory, for every limit and every overlap of the tools: old    *)
(* records are evicted, none is doubled (store.go:244-268).                *)
THEOREM HistoriesStayBounded == Spec => []HistoryIsBounded
<1>1. Init => CopiesSound
  BY NoStoreSound DEF Init, CopiesSound, StoreSound, ToolIdle
<1>2. CopiesSound => HistoryIsBounded
  BY DEF CopiesSound, StoreSound, RecordSound, HistoryOK, HistoryIsBounded
<1>3. QED
  BY <1>1, <1>2, SoundStep, TypeCorrect, PTL DEF Spec

(* The file never shows a session as running with nothing to run, keeps    *)
(* events of a session that does not exist, or mixes up the sessions, for  *)
(* every overlap of the tools, every death of the daemon and every failed  *)
(* save: each operation leaves a record that fits, and a save writes whole *)
(* records (store.go:199-360).                                             *)
THEOREM RecordsStaySound ==
  Spec => [](\A s \in Sessions :
               /\ disk[s].life = "running" => Pending(disk[s]) # {}
               /\ disk[s].life = "absent" => disk[s].events = << >>
               /\ \A e \in Events : Seen(disk[s], e) => Target[e] = s)
<1>1. Init => CopiesSound
  BY NoStoreSound DEF Init, CopiesSound, StoreSound, ToolIdle
<1>2. CopiesSound =>
        \A s \in Sessions :
          /\ disk[s].life = "running" => Pending(disk[s]) # {}
          /\ disk[s].life = "absent" => disk[s].events = << >>
          /\ \A e \in Events : Seen(disk[s], e) => Target[e] = s
  BY DEF CopiesSound, StoreSound, RecordSound, LifeFits
<1>3. QED
  BY <1>1, <1>2, SoundStep, TypeCorrect, PTL DEF Spec

-----------------------------------------------------------------------------
(* Transactions.  Without overlap, what somebody has loaded is still what  *)
(* is on disk, and a handler is not inside a transaction while a tool is.  *)
TxnsAlone ==
  \A h \in Handlers : eventLock = h =>
    handler[h].pc \in TxnSteps /\ loaded = disk /\ \A t \in Tools : tool[t] = ToolIdle

ToolsAlone ==
  \A t \in Tools : tool[t] # ToolIdle =>
    /\ tool[t].snap = disk /\ eventLock = None
    /\ \A u \in Tools : u # t => tool[u] = ToolIdle

Atomic == TxnsAlone /\ ToolsAlone

(* The handlers are no None, and a tool that has loaded is not idle.       *)
LEMMA AtWork ==
  ASSUME NEW t \in Tools
  PROVE  /\ None \notin Handlers
         /\ tool[t].op # "none" => tool[t] # ToolIdle
BY NoneAssumption DEF ToolIdle

(* Every step keeps the transactions apart.                                *)
LEMMA AtomicStep ==
  ASSUME Overlap = FALSE, TypeOK, Atomic, [Next]_vars
  PROVE  Atomic'
<1>0. HandlerTypes /\ handler \in [Handlers -> HandlerStates] /\ None \notin Handlers
  BY NoneAssumption DEF TypeOK, HandlerTypes
<1>1. ASSUME NEW h \in Handlers, BeginTxn(h)
      PROVE  Atomic'
  BY <1>0, <1>1 DEF BeginTxn, Atomic, TxnsAlone, ToolsAlone, fileVars
<1>2. ASSUME NEW h \in Handlers, Txn(h) \/ TxnFails(h)
      PROVE  Atomic'
  <2>1. eventLock = h /\ eventLock' = None /\ UNCHANGED tool
    BY <1>2 DEF Txn, CommitRecord, CommitDenied, CommitGrant, CommitFinish, TxnFails,
                Commit, EndTxn
  <2>2. \A t \in Tools : tool[t] = ToolIdle
    BY <2>1 DEF Atomic, TxnsAlone
  <2>3. QED
    BY <1>0, <2>1, <2>2 DEF Atomic, TxnsAlone, ToolsAlone
<1>3. ASSUME NEW t \in Tools, NEW op \in {"pause", "resume"}, NEW s \in Sessions,
             ToolLoads(t, op, s)
      PROVE  Atomic'
  <2>1. /\ eventLock = None /\ eventLock' = None
        /\ \A u \in Tools : tool[u] = ToolIdle
        /\ disk' = disk
        /\ tool' = [tool EXCEPT ![t] = [op |-> op, session |-> s, snap |-> disk]]
    BY <1>3 DEF ToolLoads, daemonVars, fileVars
  <2>2. tool'[t].snap = disk /\ \A u \in Tools : u # t => tool'[u] = ToolIdle
    BY <2>1 DEF TypeOK, ToolTypes
  <2>3. QED
    BY <1>0, <2>1, <2>2 DEF Atomic, TxnsAlone, ToolsAlone
<1>4. ASSUME NEW t \in Tools, ToolSaves(t)
      PROVE  Atomic'
  <2>1. tool[t] # ToolIdle /\ eventLock' = eventLock
    BY <1>4 DEF ToolSaves, ToolIdle, daemonVars
  <2>2. eventLock = None /\ \A u \in Tools : u # t => tool[u] = ToolIdle
    BY <2>1 DEF Atomic, ToolsAlone
  <2>3. \A u \in Tools : tool'[u] = ToolIdle
    BY <1>4, <2>2 DEF ToolSaves, TypeOK, ToolTypes
  <2>4. QED
    BY <1>0, <2>1, <2>2, <2>3 DEF Atomic, TxnsAlone, ToolsAlone
<1>5. CASE Crash
  BY <1>0, <1>5 DEF Crash, EndTxn, Atomic, TxnsAlone, ToolsAlone, fileVars
<1>6. ASSUME NEW h \in Handlers, UNCHANGED <<eventLock, loaded, disk, tool>>,
             eventLock = h => handler'[h] = handler[h],
             \A g \in Handlers : g # h => handler'[g] = handler[g]
      PROVE  Atomic'
  BY <1>6 DEF Atomic, TxnsAlone, ToolsAlone
<1>7. ASSUME NEW h \in Handlers, NEW e \in Events, Receive(h, e)
      PROVE  Atomic'
  BY <1>0, <1>6, <1>7 DEF Receive, Idle, TxnSteps, Atomic, TxnsAlone, fileVars
<1>8. ASSUME NEW h \in Handlers,
             \/ LockSession(h) \/ Authorize(h) \/ StartRun(h) \/ RefuseRun(h)
             \/ RunExits(h) \/ Project(h) \/ Acknowledge(h)
      PROVE  Atomic'
  <2>1. handler[h].pc \notin TxnSteps /\ UNCHANGED <<eventLock, loaded, disk, tool>>
    BY <1>8 DEF LockSession, Authorize, StartRun, RefuseRun, RunExits, Project,
                Acknowledge, TxnSteps, fileVars
  <2>2. eventLock # h
    BY <2>1 DEF Atomic, TxnsAlone
  <2>3. \A g \in Handlers : g # h => handler'[g] = handler[g]
    BY <1>0, <1>8 DEF LockSession, Authorize, StartRun, RefuseRun, RunExits, Project,
                      Acknowledge, Move, Decide
  <2>4. QED
    BY <1>6, <2>1, <2>2, <2>3
<1>9. CASE UNCHANGED <<eventLock, loaded, disk, tool, handler>>
  BY <1>9 DEF Atomic, TxnsAlone, ToolsAlone
<1>10. CASE UNCHANGED vars
  BY <1>9, <1>10 DEF vars, daemonVars, fileVars
<1>11. QED
  BY <1>1, <1>2, <1>3, <1>4, <1>5, <1>7, <1>8, <1>9, <1>10
     DEF Next, HandlerStep, ProviderStep, ConnectionStep, daemonVars, fileVars,
         Publish, OrphanExits, Send, Bind, Connect, RunReturns, AckArrives, Drop, Restart

(* Nobody is inside a transaction at the start.                            *)
LEMMA InitAtomic == Init => Atomic
BY NoneAssumption DEF Init, Atomic, TxnsAlone, ToolsAlone

(* A commit writes on what is on disk, and changes one session of it.      *)
LEMMA CommitInPlace ==
  ASSUME TypeOK, Atomic, NEW h \in Handlers, Txn(h)
  PROVE  /\ loaded = disk
         /\ SessionOf(h) \in Sessions
         /\ \A s \in Sessions : s # SessionOf(h) => disk'[s] = disk[s]
<1>1. SessionOf(h) \in Sessions /\ eventLock = h
  BY TxnCommits
<1>2. loaded = disk
  BY <1>1 DEF Atomic, TxnsAlone
<1>3. PICK st \in SessionStates : Commit(h, st)
  BY TxnCommits
<1>4. QED
  BY <1>1, <1>2, <1>3 DEF Commit, TypeOK, FileTypes, Stores

(* A tool's save changes the lifecycle of its own session and nothing else.*)
LEMMA SaveInPlace ==
  ASSUME TypeOK, Atomic, NEW t \in Tools, ToolSaves(t)
  PROVE  /\ tool[t].session \in Sessions
         /\ disk'[tool[t].session] = Changed(tool[t].op, disk[tool[t].session])
         /\ \A s \in Sessions : s # tool[t].session => disk'[s] = disk[s]
         /\ \A s \in Sessions : disk'[s].events = disk[s].events
<1>1. tool[t].session \in Sessions /\ disk \in [Sessions -> SessionStates]
  BY DEF ToolSaves, TypeOK, ToolTypes, FileTypes, Stores
<1>2. tool[t].snap = disk
  BY DEF ToolSaves, ToolIdle, Atomic, ToolsAlone
<1>3. disk' = [disk EXCEPT ![tool[t].session] = Changed(tool[t].op, @)]
  BY <1>2 DEF ToolSaves
<1>4. Changed(tool[t].op, disk[tool[t].session]).events = disk[tool[t].session].events
  BY <1>1, LifecycleOpsKeepRecords DEF Changed
<1>5. QED
  BY <1>1, <1>3, <1>4

(* Without overlap the daemon's save changes no other session's record.    *)
THEOREM SavesStayInTheirSession ==
  ASSUME Overlap = FALSE
  PROVE  Spec => SaveTouchesOwnSession
<1>1. TypeOK /\ Atomic /\ [Next]_vars => Atomic'
  BY AtomicStep
<1>2. TypeOK /\ Atomic =>
        \A h \in Handlers : Txn(h) =>
          \A s \in Sessions : s # SessionOf(h) => disk'[s] = disk[s]
  BY CommitInPlace
<1>3. QED
  BY <1>1, <1>2, InitAtomic, TypeCorrect, PTL DEF Spec, SaveTouchesOwnSession

-----------------------------------------------------------------------------
(* The records of deliveries in work.                                      *)

(* Of two handlers let through, each has a session of its own.             *)
LEMMA OwnSession ==
  ASSUME HolderIsInside, NEW g \in Handlers, NEW h \in Handlers, g # h,
         Inside(g), Inside(h)
  PROVE  SessionOf(g) # SessionOf(h)
BY DEF HolderIsInside

(* A step that keeps the handlers' events, the records on disk and lets    *)
(* nobody through keeps what is in flight on record.                       *)
LEMMA FlightKept ==
  ASSUME InFlightOnRecord, HandlerTypes,
         \A h \in Handlers : LetThrough(h)' =>
           LetThrough(h) /\ handler'[h].event = handler[h].event,
         \A s \in Sessions : disk'[s].events = disk[s].events
  PROVE  InFlightOnRecord'
<1> SUFFICES ASSUME NEW h \in Handlers, LetThrough(h)'
             PROVE  HasStatus(disk[SessionOf(h)], handler[h].event, "pending")'
  BY DEF InFlightOnRecord
<1>1. LetThrough(h) /\ handler'[h].event = handler[h].event
  OBVIOUS
<1>2. SessionOf(h)' = SessionOf(h) /\ SessionOf(h) \in Sessions
  BY <1>1, WorkTypes DEF SessionOf, LetThrough, Inside
<1>3. disk'[SessionOf(h)].events = disk[SessionOf(h)].events
  BY <1>2
<1>4. HasStatus(disk[SessionOf(h)], handler[h].event, "pending")
  BY <1>1 DEF InFlightOnRecord
<1>5. QED
  BY <1>1, <1>2, <1>3, <1>4 DEF HasStatus

(* A commit keeps on record what other handlers have in work.              *)
LEMMA FlightOfOthers ==
  ASSUME TypeOK, Atomic, HolderIsInside, InFlightOnRecord,
         NEW h \in Handlers, Txn(h),
         NEW g \in Handlers, g # h, handler'[g] = handler[g], LetThrough(g)
  PROVE  HasStatus(disk[SessionOf(g)], handler[g].event, "pending")'
<1>1. Inside(h)
  BY DEF Txn, CommitRecord, CommitDenied, CommitGrant, CommitFinish, Inside
<1>2. SessionOf(g) # SessionOf(h) /\ SessionOf(g) \in Sessions
  BY <1>1, OwnSession, WorkTypes DEF LetThrough, Inside, TypeOK
<1>3. disk'[SessionOf(g)] = disk[SessionOf(g)] /\ SessionOf(g)' = SessionOf(g)
  BY <1>2, CommitInPlace DEF SessionOf
<1>4. QED
  BY <1>3 DEF InFlightOnRecord, HasStatus

(* Every step keeps what is in flight on record.                           *)
LEMMA FlightStep ==
  ASSUME TypeOK, Atomic, HolderIsInside, InFlightOnRecord, [Next]_vars
  PROVE  InFlightOnRecord'
<1>0. HandlerTypes /\ handler \in [Handlers -> HandlerStates]
  BY DEF TypeOK, HandlerTypes
<1>1. ASSUME NEW h \in Handlers, CommitRecord(h)
      PROVE  InFlightOnRecord'
  <2> DEFINE old == loaded[SessionOf(h)]
             e == handler[h].event
  <2>1. e \in Events /\ SessionOf(h) \in Sessions
    BY <1>0, <1>1, WorkTypes DEF CommitRecord
  <2>2. /\ \A g \in Handlers : g # h => handler'[g] = handler[g]
        /\ handler'[h].event = e
        /\ handler'[h].pc = "ack" \/ ~Duplicate(old, e)
    BY <1>0, <1>1, MoveFrame DEF CommitRecord
  <2>3. ASSUME ~Duplicate(old, e)
        PROVE  HasStatus(disk[SessionOf(h)], e, "pending")'
    <3>1. loaded \in [Sessions -> SessionStates]
      BY DEF TypeOK, FileTypes, Stores
    <3>2. disk'[SessionOf(h)] = RecordDelivery(old, e)
      BY <1>1, <2>1, <3>1 DEF CommitRecord, Commit
    <3>3. HasStatus(RecordDelivery(old, e), e, "pending")
      BY <2>1, <2>3, <3>1, RecordedIsPending
    <3>4. SessionOf(h)' = SessionOf(h)
      BY <2>2 DEF SessionOf
    <3>5. QED
      BY <2>2, <3>2, <3>3, <3>4 DEF HasStatus
  <2>4. ASSUME NEW g \in Handlers, LetThrough(g)'
        PROVE  HasStatus(disk[SessionOf(g)], handler[g].event, "pending")'
    <3>1. CASE g = h
      BY <2>2, <2>3, <2>4, <3>1 DEF LetThrough, Inside
    <3>2. CASE g # h
      BY <1>1, <2>2, <2>4, <3>2, FlightOfOthers DEF Txn, LetThrough, Inside
    <3>3. QED
      BY <3>1, <3>2
  <2>5. QED
    BY <2>4 DEF InFlightOnRecord
<1>2. ASSUME NEW h \in Handlers, CommitDenied(h) \/ CommitFinish(h)
      PROVE  InFlightOnRecord'
  <2>1. \A g \in Handlers : g # h => handler'[g] = handler[g]
    BY <1>0, <1>2 DEF CommitDenied, CommitFinish, Move
  <2>2. handler'[h].pc \in {"ack", "project"}
    <3>1. CASE CommitDenied(h)
      BY <1>0, <3>1, MoveFrame DEF CommitDenied
    <3>2. CASE CommitFinish(h)
      <4> DEFINE final == FinalState(loaded[SessionOf(h)], handler[h].event, handler[h].outcome)
                 r == [handler[h] EXCEPT !.pc = "project", !.final = final]
      <4>1. r.pc = "project"
        BY <1>0 DEF HandlerStates
      <4>2. handler' = [handler EXCEPT ![h] = r]
        BY <3>2 DEF CommitFinish
      <4> HIDE DEF r
      <4>3. QED
        BY <1>0, <4>1, <4>2
    <3>3. QED
      BY <1>2, <3>1, <3>2
  <2>3. ASSUME NEW g \in Handlers, LetThrough(g)'
        PROVE  HasStatus(disk[SessionOf(g)], handler[g].event, "pending")'
    <3>1. g # h
      BY <2>2, <2>3 DEF LetThrough, Inside
    <3>2. QED
      BY <1>2, <2>1, <2>3, <3>1, FlightOfOthers DEF Txn, LetThrough, Inside
  <2>4. QED
    BY <2>3 DEF InFlightOnRecord
<1>3. ASSUME NEW h \in Handlers, CommitGrant(h)
      PROVE  InFlightOnRecord'
  <2>1. /\ \A g \in Handlers : g # h => handler'[g] = handler[g]
        /\ handler'[h].event = handler[h].event
    BY <1>0, <1>3, MoveFrame DEF CommitGrant
  <2>2. LetThrough(h)
    BY <1>3 DEF CommitGrant, LetThrough, Inside
  <2>3. /\ loaded = disk /\ SessionOf(h) \in Sessions
        /\ \A s \in Sessions : s # SessionOf(h) => disk'[s] = disk[s]
    BY <1>3, CommitInPlace DEF Txn
  <2>4. disk \in [Sessions -> SessionStates]
    BY DEF TypeOK, FileTypes, Stores
  <2>5. disk'[SessionOf(h)].events = disk[SessionOf(h)].events
    BY <1>3, <2>3, <2>4, LifecycleOpsKeepRecords DEF CommitGrant, Commit
  <2>6. QED
    BY <1>0, <2>1, <2>2, <2>3, <2>5, FlightKept DEF LetThrough, Inside
<1>4. ASSUME NEW t \in Tools, ToolSaves(t)
      PROVE  InFlightOnRecord'
  <2>1. UNCHANGED handler
    BY <1>4 DEF ToolSaves, daemonVars
  <2>2. QED
    BY <1>0, <1>4, <2>1, SaveInPlace, FlightKept DEF LetThrough, Inside
<1>5. ASSUME NEW h \in Handlers,
             \/ Authorize(h) \/ StartRun(h) \/ RefuseRun(h) \/ RunExits(h)
             \/ TxnFails(h) \/ LockSession(h)
      PROVE  InFlightOnRecord'
  <2>1. PICK pc, outcome : Move(h, pc) \/ Decide(h, pc, outcome)
    BY <1>5 DEF Authorize, StartRun, RefuseRun, RunExits, TxnFails, LockSession
  <2>2. /\ \A g \in Handlers : g # h => handler'[g] = handler[g]
        /\ handler'[h].event = handler[h].event
        /\ handler'[h].pc = pc
    BY <1>0, <2>1, MoveFrame
  <2>3. UNCHANGED disk
    BY <1>5 DEF Authorize, StartRun, RefuseRun, RunExits, TxnFails, LockSession, fileVars
  <2>4. LetThrough(h)' => LetThrough(h)
    <3>1. CASE LockSession(h)
      BY <1>0, <3>1, MoveFrame DEF LockSession, LetThrough, Inside
    <3>2. CASE TxnFails(h)
      BY <1>0, <3>2, MoveFrame DEF TxnFails, LetThrough, Inside
    <3>3. QED
      BY <1>5, <3>1, <3>2 DEF Authorize, StartRun, RefuseRun, RunExits, LetThrough, Inside
  <2>5. QED
    BY <1>0, <2>2, <2>3, <2>4, FlightKept DEF LetThrough, Inside
<1>6. ASSUME UNCHANGED disk,
             \A h \in Handlers : LetThrough(h)' => handler'[h] = handler[h]
      PROVE  InFlightOnRecord'
  BY <1>0, <1>6, FlightKept DEF LetThrough, Inside
<1>7. ASSUME NEW h \in Handlers, NEW e \in Events, Receive(h, e)
      PROVE  InFlightOnRecord'
  BY <1>0, <1>6, <1>7 DEF Receive, LetThrough, Inside, fileVars
<1>8. ASSUME NEW h \in Handlers, Project(h) \/ Acknowledge(h)
      PROVE  InFlightOnRecord'
  <2> DEFINE r == [handler[h] EXCEPT !.pc = "ack", !.final = NoProjection]
  <2>1. r.pc = "ack"
    BY <1>0 DEF HandlerStates
  <2>2. handler' = [handler EXCEPT ![h] = r] \/ handler' = [handler EXCEPT ![h] = Idle]
    BY <1>8 DEF Project, Acknowledge
  <2> HIDE DEF r
  <2>3. handler'[h].pc \in {"ack", "idle"} /\ \A g \in Handlers : g # h => handler'[g] = handler[g]
    BY <1>0, <2>1, <2>2 DEF Idle
  <2>4. QED
    BY <1>6, <1>8, <2>3 DEF Project, Acknowledge, LetThrough, Inside, fileVars
<1>9. CASE Crash
  BY <1>6, <1>9 DEF Crash, Idle, LetThrough, Inside, fileVars
<1>10. CASE UNCHANGED <<disk, handler>>
  BY <1>6, <1>10
<1>11. CASE UNCHANGED vars
  BY <1>10, <1>11 DEF vars, daemonVars, fileVars
<1>12. QED
  BY <1>1, <1>2, <1>3, <1>4, <1>5, <1>7, <1>8, <1>9, <1>10, <1>11
     DEF Next, HandlerStep, ProviderStep, ConnectionStep, Txn, daemonVars, fileVars,
         Publish, OrphanExits, Send, Bind, Connect, RunReturns, AckArrives, Drop,
         BeginTxn, Restart, ToolLoads

(* While an event is being handled its record stays in the file, pending:  *)
(* no other session's delivery, no tool and no eviction takes it away, for *)
(* every limit of the history (daemon.go:190-253, store.go:244-268).       *)
THEOREM InFlightStaysOnRecord ==
  ASSUME Overlap = FALSE
  PROVE  Spec => []InFlightOnRecord
<1>1. TypeOK /\ Atomic /\ [Next]_vars => Atomic'
  BY AtomicStep
<1>2. TypeOK /\ Atomic /\ HolderIsInside /\ InFlightOnRecord /\ [Next]_vars
        => InFlightOnRecord'
  BY FlightStep
<1>3. Init => HolderIsInside /\ InFlightOnRecord
  BY DEF Init, HolderIsInside, InFlightOnRecord, LetThrough, Inside, Idle
<1>4. QED
  BY <1>1, <1>2, <1>3, InitAtomic, HolderStep, TypeCorrect, PTL DEF Spec

-----------------------------------------------------------------------------
(* The gate.                                                               *)

(* Recording a delivery never opens a gated session.                       *)
LEMMA RecordKeepsGate ==
  ASSUME NEW st \in SessionStates, NEW e \in Events, Gate(st)
  PROVE  Gate(RecordDelivery(st, e))
BY DEF RecordDelivery, Gate

(* A step opens a gated session only as a resume of that session, or as    *)
(* the step of a handler that was let through for it.                      *)
GateStep(s) ==
  Gate(disk[s]) /\ ~Gate(disk'[s]) =>
    \/ \E t \in Tools : tool[t].op = "resume" /\ tool[t].session = s /\ ToolSaves(t)
    \/ \E h \in Handlers : LetThrough(h) /\ SessionOf(h) = s

(* Every step keeps to that.                                               *)
LEMMA GateKept ==
  ASSUME TypeOK, Atomic, [Next]_vars, NEW s \in Sessions
  PROVE  GateStep(s)
<1>1. CASE UNCHANGED disk
  BY <1>1 DEF GateStep, Gate
<1>2. ASSUME NEW h \in Handlers, Txn(h)
      PROVE  GateStep(s)
  <2>1. /\ loaded = disk /\ SessionOf(h) \in Sessions
        /\ s # SessionOf(h) => disk'[s] = disk[s]
    BY <1>2, CommitInPlace
  <2>2. disk \in [Sessions -> SessionStates]
    BY DEF TypeOK, FileTypes, Stores
  <2>3. CASE CommitRecord(h) /\ SessionOf(h) = s
    <3>1. handler[h].event \in Events
      BY <2>3, WorkTypes DEF CommitRecord, TypeOK
    <3>2. disk'[s] = RecordDelivery(disk[s], handler[h].event)
      BY <2>1, <2>2, <2>3 DEF CommitRecord, Commit
    <3>3. QED
      BY <2>2, <3>1, <3>2, RecordKeepsGate DEF GateStep
  <2>4. CASE (CommitDenied(h) \/ CommitGrant(h) \/ CommitFinish(h)) /\ SessionOf(h) = s
    BY <2>4 DEF CommitDenied, CommitGrant, CommitFinish, LetThrough, Inside, GateStep
  <2>5. CASE SessionOf(h) # s
    BY <2>1, <2>5 DEF GateStep
  <2>6. QED
    BY <1>2, <2>3, <2>4, <2>5 DEF Txn
<1>3. ASSUME NEW t \in Tools, ToolSaves(t)
      PROVE  GateStep(s)
  <2>1. /\ disk'[tool[t].session] = Changed(tool[t].op, disk[tool[t].session])
        /\ s # tool[t].session => disk'[s] = disk[s]
    BY <1>3, SaveInPlace
  <2>2. CASE tool[t].session = s /\ tool[t].op = "resume"
    BY <1>3, <2>2 DEF GateStep
  <2>3. CASE tool[t].session = s /\ tool[t].op # "resume"
    <3>1. tool[t].op = "pause"
      BY <1>3, <2>3 DEF ToolSaves, TypeOK, ToolTypes
    <3>2. disk[s] \in SessionStates
      BY DEF TypeOK, FileTypes, Stores
    <3>3. disk'[s].life = "paused"
      BY <2>1, <2>3, <3>1, <3>2 DEF Changed, Pause, SessionStates
    <3>4. QED
      BY <3>3 DEF GateStep, Gate
  <2>4. QED
    BY <2>1, <2>2, <2>3 DEF GateStep
<1>4. QED
  BY <1>1, <1>2, <1>3, StepsByFile DEF OtherStep, ToolLoads, fileVars

(* A paused or crashed session is opened up again only by a resume, or by  *)
(* the end of a wake that was let through before (store.go:250-252).       *)
THEOREM GateStaysShut ==
  ASSUME Overlap = FALSE
  PROVE  Spec => GateHolds
<1>1. TypeOK /\ Atomic /\ [Next]_vars => Atomic'
  BY AtomicStep
<1>2. TypeOK /\ Atomic /\ [Next]_vars =>
        \A s \in Sessions :
          Gate(disk[s]) /\ ~Gate(disk'[s]) =>
            \/ \E t \in Tools : tool[t].op = "resume" /\ tool[t].session = s /\ ToolSaves(t)
            \/ \E h \in Handlers : LetThrough(h) /\ SessionOf(h) = s
  BY GateKept DEF GateStep
<1>3. QED
  BY <1>1, <1>2, InitAtomic, TypeCorrect, PTL DEF Spec, GateHolds
-----------------------------------------------------------------------------
(* Until the first fault.  What is left of the budget tells whether some   *)
(* kind of fault has happened yet: every one of them spends of it.         *)
WithinBudget == \A fault \in Faults : left[fault] <= Budget[fault]
Unspent(fault) == left[fault] = Budget[fault]

(* No daemon has died and no save has failed so far.                       *)
Faultless == Unspent("crash") /\ Unspent("saveError")

(* No step adds to the budget of faults.                                   *)
LEMMA BudgetShrinks ==
  ASSUME TypeOK, [Next]_vars, NEW fault \in Faults
  PROVE  left'[fault] <= left[fault]
<1>1. left \in [Faults -> Nat]
  BY DEF TypeOK, ProcessTypes
<1>2. ASSUME NEW f \in Faults, Spend(f)
      PROVE  left'[fault] <= left[fault]
  <2>1. left[f] \in Nat /\ left[fault] \in Nat /\ left' = [left EXCEPT ![f] = left[f] - 1]
    BY <1>1, <1>2 DEF Spend
  <2>2. left'[fault] = left[fault] - 1 \/ left'[fault] = left[fault]
    BY <1>1, <2>1
  <2>3. QED
    BY <2>1, <2>2
<1>3. ASSUME UNCHANGED left
      PROVE  left'[fault] <= left[fault]
  BY <1>1, <1>3
<1>4. ASSUME NEW h \in Handlers, HandlerStep(h) \/ TxnFails(h)
      PROVE  left'[fault] <= left[fault]
  BY <1>2, <1>3, <1>4
     DEF HandlerStep, LockSession, BeginTxn, Txn, CommitRecord, CommitDenied, CommitGrant,
         CommitFinish, Authorize, StartRun, RefuseRun, RunExits, Project, Acknowledge,
         TxnFails, Faults
<1>5. CASE UNCHANGED vars
  BY <1>3, <1>5 DEF vars
<1>6. QED
  BY <1>2, <1>3, <1>4, <1>5
     DEF Next, ProviderStep, ConnectionStep, Publish, OrphanExits, Send, Bind, Connect,
         RunReturns, AckArrives, Drop, Receive, Crash, Restart, ToolLoads, ToolSaves, Faults

(* The budget is never exceeded.                                           *)
LEMMA WithinBudgetStep ==
  ASSUME TypeOK, TypeOK', WithinBudget, [Next]_vars
  PROVE  WithinBudget'
<1> SUFFICES ASSUME NEW fault \in Faults
             PROVE  left'[fault] <= Budget[fault]
  BY DEF WithinBudget
<1>1. left'[fault] <= left[fault] /\ left[fault] <= Budget[fault]
  BY BudgetShrinks DEF WithinBudget
<1>2. left[fault] \in Nat /\ left'[fault] \in Nat
  BY DEF TypeOK, ProcessTypes
<1>3. QED
  BY <1>1, <1>2, BudgetAssumption

(* Nothing is spent at the start.                                          *)
LEMMA InitWithinBudget == Init => WithinBudget
BY BudgetAssumption DEF Init, WithinBudget

(* What is not spent after a step was not before, nor spent by the step.   *)
LEMMA NotSpent ==
  ASSUME TypeOK, WithinBudget, [Next]_vars, NEW fault \in Faults, Unspent(fault)'
  PROVE  Unspent(fault) /\ ~Spend(fault)
<1>1. /\ left \in [Faults -> Nat] /\ Budget[fault] \in Nat /\ left'[fault] = Budget[fault]
      /\ left'[fault] <= left[fault] /\ left[fault] <= Budget[fault]
  BY BudgetShrinks, BudgetAssumption DEF WithinBudget, Unspent, TypeOK, ProcessTypes
<1>2. QED
  BY <1>1 DEF Unspent, Spend

(* As long as there was no fault nothing died and no save failed.          *)
LEMMA NoFaults ==
  ASSUME TypeOK, WithinBudget, Faultless', [Next]_vars
  PROVE  /\ Faultless /\ ~Spend("saveError")
         /\ ~Crash /\ \A h \in Handlers : ~TxnFails(h)
<1>1. Faultless /\ ~Spend("saveError") /\ ~Spend("crash")
  BY NotSpent DEF Faultless, Faults
<1>2. QED
  BY <1>1 DEF Crash, TxnFails

(* A handler's step changes no other handler.                              *)
LEMMA OthersStay ==
  ASSUME TypeOK, NEW g \in Handlers,
         HandlerStep(g) \/ TxnFails(g) \/ (\E e \in Events : Receive(g, e)),
         NEW h \in Handlers, h # g
  PROVE  handler'[h] = handler[h]
BY DEF TypeOK, HandlerTypes, HandlerStep, LockSession, BeginTxn, Txn, CommitRecord,
       CommitDenied, CommitGrant, CommitFinish, Authorize, StartRun, RefuseRun, RunExits,
       Project, Acknowledge, TxnFails, Receive, Move, Decide

(* The steps that are no handler's and kill nobody leave all handlers.     *)
LEMMA StepsByHandler ==
  ASSUME [Next]_vars
  PROVE  \/ UNCHANGED <<handler, sessionLock>>
         \/ Crash
         \/ \E h \in Handlers : HandlerStep(h) \/ TxnFails(h)
         \/ \E h \in Handlers, e \in Events : Receive(h, e)
BY DEF Next, vars, daemonVars, ProviderStep, ConnectionStep, Publish, OrphanExits, Send, Bind,
       Connect, RunReturns, AckArrives, Drop, Restart, ToolLoads, ToolSaves

(* A delivery that was let through stays so until its outcome is recorded. *)
LEMMA StaysThrough ==
  ASSUME TypeOK, WithinBudget, Faultless', [Next]_vars,
         NEW h \in Handlers, LetThrough(h), ~CommitDenied(h), ~CommitFinish(h)
  PROVE  LetThrough(h)' /\ SessionOf(h)' = SessionOf(h)
<1>1. CASE handler'[h] = handler[h]
  BY <1>1 DEF LetThrough, Inside, SessionOf
<1>2. CASE HandlerStep(h)
  <2>1. CASE BeginTxn(h)
    BY <1>1, <2>1 DEF BeginTxn
  <2>2. CASE Authorize(h) \/ CommitGrant(h) \/ StartRun(h) \/ RefuseRun(h) \/ RunExits(h)
    <3>1. PICK pc \in {"grant", "denied", "start", "running", "finish"} :
            \E outcome : Move(h, pc) \/ Decide(h, pc, outcome)
      BY <2>2 DEF Authorize, CommitGrant, StartRun, RefuseRun, RunExits
    <3>2. handler'[h].pc = pc /\ handler'[h].event = handler[h].event
      BY <3>1, MoveFrame DEF TypeOK
    <3>3. QED
      BY <3>2 DEF LetThrough, Inside, SessionOf
  <2>3. QED
    BY <1>2, <2>1, <2>2
       DEF HandlerStep, Txn, LockSession, CommitRecord, Project, Acknowledge, LetThrough, Inside
<1>3. ASSUME NEW e \in Events
      PROVE  ~Receive(h, e)
  BY DEF Receive, Idle, LetThrough, Inside
<1>4. QED
  BY <1>1, <1>2, <1>3, NoFaults, StepsByHandler, OthersStay

-----------------------------------------------------------------------------
(* A session that is shown as running.                                     *)

(* An outcome on record takes the session out of `running'.                *)
LEMMA OutcomeEndsRunning ==
  ASSUME NEW st \in SessionStates, NEW e \in Events, Seen(st, e), NEW outcome
  PROVE  /\ CompleteEvent(st, e, "failed").life # "running"
         /\ Finished(st, e, outcome).life # "running"
BY CompleteEventType DEF CompleteEvent, Finished, MarkCrashed, AckStatus, SessionStates

(* Every step keeps a handler at work on a session shown as running.       *)
LEMMA RunningStep ==
  ASSUME TypeOK, WithinBudget, Faultless', Atomic, HolderIsInside, InFlightOnRecord,
         RunningHasHandler, [Next]_vars
  PROVE  RunningHasHandler'
<1> SUFFICES ASSUME NEW s \in Sessions, disk'[s].life = "running"
             PROVE  \E h \in Handlers : LetThrough(h)' /\ SessionOf(h)' = s
  BY DEF RunningHasHandler
<1>0. disk \in [Sessions -> SessionStates] /\ HandlerTypes
  BY DEF TypeOK, FileTypes, Stores
<1>1. ASSUME disk[s].life = "running",
             \A h \in Handlers : SessionOf(h) = s => ~CommitDenied(h) /\ ~CommitFinish(h)
      PROVE  \E h \in Handlers : LetThrough(h)' /\ SessionOf(h)' = s
  <2>1. PICK h \in Handlers : LetThrough(h) /\ SessionOf(h) = s
    BY <1>1 DEF RunningHasHandler
  <2>2. QED
    BY <1>1, <2>1, StaysThrough
<1>2. ASSUME NEW g \in Handlers, Txn(g)
      PROVE  \E h \in Handlers : LetThrough(h)' /\ SessionOf(h)' = s
  <2>1. /\ loaded = disk /\ SessionOf(g) \in Sessions
        /\ s # SessionOf(g) => disk'[s] = disk[s]
    BY <1>2, CommitInPlace
  <2>2. Inside(g) /\ handler[g].event \in Events
    BY <1>0, <1>2, WorkTypes DEF Txn, CommitRecord, CommitDenied, CommitGrant, CommitFinish, Inside
  <2>3. CASE s # SessionOf(g)
    <3>1. \A h \in Handlers : CommitDenied(h) \/ CommitFinish(h) => h = g
      BY <1>2, TxnCommits DEF CommitDenied, CommitFinish
    <3>2. QED
      BY <1>1, <2>1, <2>3, <3>1
  <2>4. CASE CommitRecord(g) /\ s = SessionOf(g)
    <3> DEFINE e == handler[g].event
    <3>1. disk'[s] = RecordDelivery(disk[s], e)
      BY <1>0, <2>1, <2>4 DEF CommitRecord, Commit
    <3>2. CASE Duplicate(disk[s], e)
      <4>1. PICK h \in Handlers : LetThrough(h) /\ SessionOf(h) = s
        BY <3>1, <3>2 DEF RecordDelivery, RunningHasHandler
      <4>2. h # g /\ Inside(h)
        BY <2>4, <4>1 DEF CommitRecord, LetThrough
      <4>3. QED
        BY <2>2, <2>4, <4>1, <4>2, OwnSession
    <3>3. CASE ~Duplicate(disk[s], e)
      <4>1. ~Gate(RecordDelivery(disk[s], e))
        BY <3>1 DEF Gate
      <4>2. Move(g, "authorize")
        BY <2>1, <2>4, <3>3, <4>1 DEF CommitRecord
      <4>3. handler'[g].pc = "authorize" /\ handler'[g].event = e
        BY <1>0, <4>2, MoveFrame
      <4>4. QED
        BY <2>4, <4>3 DEF LetThrough, Inside, SessionOf
    <3>4. QED
      BY <3>2, <3>3
  <2>5. CASE (CommitDenied(g) \/ CommitFinish(g)) /\ s = SessionOf(g)
    <3> DEFINE e == handler[g].event
               outcome == handler[g].outcome
    <3>1. Seen(disk[s], e)
      <4>1. LetThrough(g)
        BY <2>5 DEF CommitDenied, CommitFinish, LetThrough, Inside
      <4>2. HasStatus(disk[s], e, "pending")
        BY <2>5, <4>1 DEF InFlightOnRecord
      <4>3. QED
        BY <4>2 DEF HasStatus, Seen, Rec
    <3>2. \/ disk'[s] = CompleteEvent(disk[s], e, "failed")
          \/ disk'[s] = Finished(disk[s], e, outcome)
      BY <1>0, <2>1, <2>5 DEF CommitDenied, CommitFinish, Commit
    <3>3. QED
      BY <1>0, <2>2, <3>1, <3>2, OutcomeEndsRunning
  <2>6. CASE CommitGrant(g) /\ s = SessionOf(g)
    <3>1. LetThrough(g) /\ ~CommitDenied(g) /\ ~CommitFinish(g)
      BY <2>6 DEF CommitGrant, CommitDenied, CommitFinish, LetThrough, Inside
    <3>2. QED
      BY <2>6, <3>1, StaysThrough
  <2>7. QED
    BY <1>2, <2>3, <2>4, <2>5, <2>6 DEF Txn
<1>3. ASSUME NEW t \in Tools, ToolSaves(t)
      PROVE  \E h \in Handlers : LetThrough(h)' /\ SessionOf(h)' = s
  <2>1. /\ disk'[tool[t].session] = Changed(tool[t].op, disk[tool[t].session])
        /\ s # tool[t].session => disk'[s] = disk[s]
    BY <1>3, SaveInPlace
  <2>2. s # tool[t].session
    BY <1>0, <2>1 DEF Changed, Pause, Resume, SessionStates
  <2>3. UNCHANGED <<handler, eventLock>>
    BY <1>3 DEF ToolSaves, daemonVars
  <2>4. PICK h \in Handlers : LetThrough(h) /\ SessionOf(h) = s
    BY <2>1, <2>2 DEF RunningHasHandler
  <2>5. QED
    BY <2>3, <2>4 DEF LetThrough, Inside, SessionOf
<1>4. CASE (\A h \in Handlers : ~Txn(h)) /\ UNCHANGED disk
  BY <1>1, <1>4 DEF Txn
<1>5. QED
  BY <1>2, <1>3, <1>4, StepsByFile DEF OtherStep, ToolLoads, fileVars

(* Until the first fault a session that is shown as running has a handler  *)
(* at work on it: as long as no daemon has died and no save has failed, if *)
(* nobody saves between another's load and save (daemon.go:190-253).       *)
THEOREM RunningMeansAtWork ==
  ASSUME Overlap = FALSE
  PROVE  Spec => [](Faultless => RunningHasHandler)
<1>1. TypeOK /\ Atomic /\ [Next]_vars => Atomic'
  BY AtomicStep
<1>2. TypeOK /\ TypeOK' /\ WithinBudget /\ [Next]_vars => WithinBudget'
  BY WithinBudgetStep
<1>3. TypeOK /\ Atomic /\ HolderIsInside /\ InFlightOnRecord /\ [Next]_vars
        => InFlightOnRecord'
  BY FlightStep
<1>4. TypeOK /\ WithinBudget /\ Atomic /\ HolderIsInside /\ InFlightOnRecord
        /\ (Faultless => RunningHasHandler) /\ [Next]_vars
        => (Faultless' => RunningHasHandler')
  BY RunningStep, NoFaults
<1>5. Init => WithinBudget /\ HolderIsInside /\ InFlightOnRecord
  BY InitWithinBudget
     DEF Init, HolderIsInside, InFlightOnRecord, LetThrough, Inside, Idle
<1>6. Init => RunningHasHandler
  BY DEF Init, RunningHasHandler, NoStore, Absent
<1>7. QED
  BY <1>1, <1>2, <1>3, <1>4, <1>5, <1>6, InitAtomic, HolderStep, TypeCorrect, PTL DEF Spec
-----------------------------------------------------------------------------
(* The projection of a session at rest.                                    *)
Projecting(s) == \E h \in Handlers : handler[h].pc = "project" /\ SessionOf(h) = s

(* What a handler is about to show, and what is shown when nobody is about *)
(* to, has no event that is completed in the file.                         *)
ShownIsFresh ==
  \A s \in Sessions, e \in Events : HasStatus(disk[s], e, "completed") =>
    /\ \A h \in Handlers :
         handler[h].pc = "project" /\ SessionOf(h) = s => e \notin handler[h].final.pending
    /\ e \in proj[s].pending => Projecting(s)

(* The projection of a good history has no completed event.                *)
LEMMA ProjectionIsFresh ==
  ASSUME NEW st \in SessionStates, NEW e \in Events, NEW outcome, NEW f \in Events,
         HistoryOK(Finished(st, e, outcome)),
         HasStatus(Finished(st, e, outcome), f, "completed")
  PROVE  f \notin FinalState(st, e, outcome).pending
<1>1. ~HasStatus(Finished(st, e, outcome), f, "pending")
  BY OneStatus
<1>2. CASE Seen(st, e) \/ outcome = "unusable"
  BY <1>1, <1>2 DEF FinalState, Projection, Pending
<1>3. CASE ~(Seen(st, e) \/ outcome = "unusable")
  BY <1>3 DEF FinalState, NoProjection
<1>4. QED
  BY <1>2, <1>3

(* What CommitFinish does to its handler and its session.                  *)
LEMMA FinishFrame ==
  ASSUME TypeOK, Atomic, NEW h \in Handlers, CommitFinish(h)
  PROVE  /\ handler'[h].pc = "project" /\ SessionOf(h)' = SessionOf(h)
         /\ handler'[h].event = handler[h].event
         /\ handler'[h].outcome = handler[h].outcome
         /\ handler'[h].final =
              FinalState(disk[SessionOf(h)], handler[h].event, handler[h].outcome)
         /\ disk'[SessionOf(h)] =
              Finished(disk[SessionOf(h)], handler[h].event, handler[h].outcome)
         /\ UNCHANGED proj
<1> DEFINE final == FinalState(disk[SessionOf(h)], handler[h].event, handler[h].outcome)
           r == [handler[h] EXCEPT !.pc = "project", !.final = final]
<1>1. loaded = disk /\ SessionOf(h) \in Sessions
  BY CommitInPlace DEF Txn
<1>2. handler \in [Handlers -> HandlerStates] /\ disk \in [Sessions -> SessionStates]
  BY DEF TypeOK, HandlerTypes, FileTypes, Stores
<1>3. /\ r.pc = "project" /\ r.event = handler[h].event
      /\ r.outcome = handler[h].outcome /\ r.final = final
  BY <1>2 DEF HandlerStates
<1>4. /\ handler' = [handler EXCEPT ![h] = r]
      /\ disk'[SessionOf(h)] = Finished(disk[SessionOf(h)], handler[h].event, handler[h].outcome)
      /\ UNCHANGED proj
  BY <1>1, <1>2 DEF CommitFinish, Commit
<1> HIDE DEF r, final
<1>5. handler'[h] = r
  BY <1>2, <1>4
<1>6. QED
  BY <1>3, <1>4, <1>5 DEF SessionOf, final

(* A step that keeps the projections, completes nothing and starts no new  *)
(* one keeps what is shown fresh.                                          *)
LEMMA ShownKept ==
  ASSUME ShownIsFresh, UNCHANGED proj, NEW s \in Sessions, NEW e \in Events,
         HasStatus(disk[s], e, "completed"),
         \A h \in Handlers :
           handler[h].pc = "project" \/ handler'[h].pc = "project" => handler'[h] = handler[h]
  PROVE  /\ \A h \in Handlers :
              handler'[h].pc = "project" /\ SessionOf(h)' = s => e \notin handler'[h].final.pending
         /\ e \in proj'[s].pending => Projecting(s)'
<1>1. \A h \in Handlers :
        handler[h].pc = "project" \/ handler'[h].pc = "project" =>
          handler'[h] = handler[h] /\ SessionOf(h)' = SessionOf(h)
  BY DEF SessionOf
<1>2. QED
  BY <1>1 DEF ShownIsFresh, Projecting

(* Which steps change what a handler projects: it starts and it ends that. *)
LEMMA ProjectFrame ==
  ASSUME TypeOK, WithinBudget, Faultless', [Next]_vars, NEW h \in Handlers,
         ~Project(h), ~CommitFinish(h),
         handler[h].pc = "project" \/ handler'[h].pc = "project"
  PROVE  handler'[h] = handler[h]
<1>0. handler \in [Handlers -> HandlerStates]
  BY DEF TypeOK, HandlerTypes
<1>1. ASSUME NEW e \in Events, Receive(h, e)
      PROVE  FALSE
  BY <1>0, <1>1 DEF Receive, Idle
<1>2. CASE HandlerStep(h) /\ handler'[h] # handler[h]
  <2>1. CASE Acknowledge(h)
    BY <1>0, <2>1 DEF Acknowledge, Idle
  <2>2. CASE BeginTxn(h)
    BY <1>2, <2>2 DEF BeginTxn
  <2>3. CASE \/ LockSession(h) \/ CommitRecord(h) \/ CommitDenied(h) \/ CommitGrant(h)
             \/ Authorize(h) \/ StartRun(h) \/ RefuseRun(h) \/ RunExits(h)
    <3>1. PICK pc \in {"record", "ack", "authorize", "grant", "denied", "start", "running",
                       "finish"} :
            \E outcome : Move(h, pc) \/ Decide(h, pc, outcome)
      BY <2>3 DEF LockSession, CommitRecord, CommitDenied, CommitGrant, Authorize, StartRun,
                  RefuseRun, RunExits
    <3>2. handler'[h].pc = pc
      BY <3>1, MoveFrame DEF TypeOK
    <3>3. QED
      BY <2>3, <3>2 DEF LockSession, CommitRecord, CommitDenied, CommitGrant, Authorize,
                        StartRun, RefuseRun, RunExits
  <2>4. QED
    BY <1>2, <2>1, <2>2, <2>3 DEF HandlerStep, Txn
<1>3. QED
  BY <1>1, <1>2, NoFaults, StepsByHandler, OthersStay

(* No step but CommitFinish completes an event, and none is completed in a *)
(* session that somebody projects.                                         *)
LEMMA CompletedBefore ==
  ASSUME TypeOK, Atomic, [Next]_vars, NEW s \in Sessions, NEW e \in Events,
         HasStatus(disk'[s], e, "completed"),
         \A h \in Handlers : SessionOf(h) = s => ~CommitFinish(h)
  PROVE  HasStatus(disk[s], e, "completed")
<1>0. disk \in [Sessions -> SessionStates]
  BY DEF TypeOK, FileTypes, Stores
<1>1. ASSUME NEW g \in Handlers, Txn(g)
      PROVE  HasStatus(disk[s], e, "completed")
  <2>1. /\ loaded = disk
        /\ s # SessionOf(g) => disk'[s] = disk[s]
    BY <1>1, CommitInPlace
  <2>2. handler[g].event \in Events
    BY <1>1, WorkTypes DEF Txn, CommitRecord, CommitDenied, CommitGrant, CommitFinish, TypeOK
  <2>3. CASE CommitRecord(g) /\ s = SessionOf(g)
    <3>1. disk'[s] = RecordDelivery(disk[s], handler[g].event)
      BY <1>0, <2>1, <2>3 DEF CommitRecord, Commit
    <3>2. QED
      BY <1>0, <2>2, <3>1, RecordCompletesNothing
  <2>4. CASE CommitDenied(g) /\ s = SessionOf(g)
    <3>1. disk'[s] = CompleteEvent(disk[s], handler[g].event, "failed")
      BY <1>0, <2>1, <2>4 DEF CommitDenied, Commit
    <3>2. QED
      BY <1>0, <2>2, <3>1, CompleteCompletesOne
  <2>5. CASE CommitGrant(g) /\ s = SessionOf(g)
    <3>1. disk'[s].events = disk[s].events
      BY <1>0, <2>1, <2>5, LifecycleOpsKeepRecords DEF CommitGrant, Commit
    <3>2. QED
      BY <3>1 DEF HasStatus
  <2>6. QED
    BY <1>1, <2>1, <2>3, <2>4, <2>5 DEF Txn
<1>2. ASSUME NEW t \in Tools, ToolSaves(t)
      PROVE  HasStatus(disk[s], e, "completed")
  BY <1>2, SaveInPlace DEF HasStatus
<1>3. CASE UNCHANGED disk
  BY <1>3
<1>4. QED
  BY <1>1, <1>2, <1>3, StepsByFile DEF OtherStep, ToolLoads, fileVars

(* Every step keeps what is shown fresh.                                   *)
LEMMA ShownStep ==
  ASSUME TypeOK, WithinBudget, Faultless', Atomic, HolderIsInside, CopiesSound, CopiesSound',
         ShownIsFresh, [Next]_vars
  PROVE  ShownIsFresh'
<1> SUFFICES ASSUME NEW s \in Sessions, NEW e \in Events, HasStatus(disk'[s], e, "completed")
             PROVE  /\ \A h \in Handlers :
                         handler'[h].pc = "project" /\ SessionOf(h)' = s
                           => e \notin handler'[h].final.pending
                    /\ e \in proj'[s].pending => Projecting(s)'
  BY DEF ShownIsFresh
<1>0. disk \in [Sessions -> SessionStates] /\ HandlerTypes
  BY DEF TypeOK, FileTypes, Stores
<1>1. ASSUME NEW g \in Handlers, CommitFinish(g), SessionOf(g) = s
      PROVE  /\ \A h \in Handlers :
                  handler'[h].pc = "project" /\ SessionOf(h)' = s
                    => e \notin handler'[h].final.pending
             /\ Projecting(s)'
  <2>1. /\ handler'[g].pc = "project" /\ SessionOf(g)' = s
        /\ handler'[g].final = FinalState(disk[s], handler[g].event, handler[g].outcome)
        /\ disk'[s] = Finished(disk[s], handler[g].event, handler[g].outcome)
    BY <1>1, FinishFrame
  <2>2. handler[g].event \in Events /\ Inside(g)
    BY <1>0, <1>1, WorkTypes DEF CommitFinish, Inside
  <2>3. HistoryOK(disk'[s])
    BY DEF CopiesSound, StoreSound, RecordSound
  <2>4. e \notin handler'[g].final.pending
    BY <1>0, <2>1, <2>2, <2>3, ProjectionIsFresh
  <2>5. ASSUME NEW h \in Handlers, h # g, handler'[h].pc = "project"
        PROVE  SessionOf(h)' # s
    <3>1. handler'[h] = handler[h]
      BY <1>1, <2>5, OthersStay DEF HandlerStep, Txn
    <3>2. Inside(h) /\ SessionOf(h)' = SessionOf(h)
      BY <2>5, <3>1 DEF Inside, SessionOf
    <3>3. QED
      BY <1>1, <2>2, <2>5, <3>2, OwnSession
  <2>6. QED
    BY <2>1, <2>4, <2>5 DEF Projecting
<1>2. CASE \A h \in Handlers : SessionOf(h) = s => ~CommitFinish(h)
  <2>1. HasStatus(disk[s], e, "completed")
    BY <1>2, CompletedBefore
  <2>2. ASSUME NEW g \in Handlers, Project(g)
        PROVE  /\ \A h \in Handlers :
                    handler'[h].pc = "project" /\ SessionOf(h)' = s
                      => e \notin handler'[h].final.pending
               /\ e \in proj'[s].pending => Projecting(s)'
    <3> DEFINE r == [handler[g] EXCEPT !.pc = "ack", !.final = NoProjection]
    <3>1. r.pc = "ack"
      BY <1>0 DEF HandlerTypes, HandlerStates
    <3>2. handler' = [handler EXCEPT ![g] = r]
      BY <2>2 DEF Project
    <3> HIDE DEF r
    <3>3. /\ handler'[g].pc = "ack"
          /\ \A h \in Handlers : h # g => handler'[h] = handler[h] /\ SessionOf(h)' = SessionOf(h)
      BY <1>0, <3>1, <3>2 DEF HandlerTypes, SessionOf
    <3>4. Inside(g) /\ SessionOf(g) \in Sessions
      BY <1>0, <2>2, WorkTypes DEF Project, Inside
    <3>5. proj' = [proj EXCEPT ![SessionOf(g)] = handler[g].final]
      BY <2>2, NoFaults DEF Project
    <3>6. proj \in [Sessions -> Projections] /\ handler[g].pc = "project"
      BY <2>2 DEF TypeOK, FileTypes, Project
    <3>7. CASE SessionOf(g) = s
      BY <2>1, <3>3, <3>5, <3>6, <3>7 DEF ShownIsFresh
    <3>8. CASE SessionOf(g) # s
      <4>1. proj'[s] = proj[s]
        BY <3>5, <3>6, <3>8
      <4>2. QED
        BY <2>1, <3>3, <3>8, <4>1 DEF ShownIsFresh, Projecting
    <3>9. QED
      BY <3>7, <3>8
  <2>3. CASE \A h \in Handlers : ~Project(h) /\ ~CommitFinish(h)
    <3>1. UNCHANGED proj
      BY <2>3, NoFaults
         DEF Next, vars, fileVars, HandlerStep, ProviderStep, ConnectionStep, Txn, LockSession,
             BeginTxn, CommitRecord, CommitDenied, CommitGrant, Authorize, StartRun,
             RefuseRun, RunExits, Acknowledge, Publish, OrphanExits, Send, Bind, Connect,
             RunReturns, AckArrives, Drop, Restart, Receive, ToolLoads, ToolSaves
    <3>2. \A h \in Handlers :
            handler[h].pc = "project" \/ handler'[h].pc = "project" => handler'[h] = handler[h]
      BY <2>3, ProjectFrame
    <3>3. QED
      BY <2>1, <3>1, <3>2, ShownKept
  <2>4. ASSUME NEW g \in Handlers, CommitFinish(g)
        PROVE  /\ \A h \in Handlers :
                    handler'[h].pc = "project" /\ SessionOf(h)' = s
                      => e \notin handler'[h].final.pending
               /\ e \in proj'[s].pending => Projecting(s)'
    <3>1. /\ handler[g].pc = "finish" /\ SessionOf(g) # s
          /\ SessionOf(g)' = SessionOf(g) /\ UNCHANGED proj
      BY <1>2, <2>4, FinishFrame DEF CommitFinish
    <3>2. \A h \in Handlers : h # g => handler'[h] = handler[h] /\ SessionOf(h)' = SessionOf(h)
      BY <2>4, OthersStay DEF HandlerStep, Txn, SessionOf
    <3>3. QED
      BY <2>1, <3>1, <3>2 DEF ShownIsFresh, Projecting
  <2>5. QED
    BY <2>2, <2>3, <2>4
<1>3. QED
  BY <1>1, <1>2

(* Until the first fault the projection of a session at rest lists no      *)
(* completed event: as long as no daemon has died and no save has failed,  *)
(* if nobody saves between another's load and save (projection.go:10-14,   *)
(* daemon.go:245-262).                                                     *)
THEOREM ProjectionsAreFresh ==
  ASSUME Overlap = FALSE
  PROVE  Spec => [](Faultless => ProjectionDropsCompleted)
<1>1. TypeOK /\ Atomic /\ [Next]_vars => Atomic'
  BY AtomicStep
<1>2. TypeOK /\ TypeOK' /\ WithinBudget /\ [Next]_vars => WithinBudget'
  BY WithinBudgetStep
<1>3. TypeOK /\ WithinBudget /\ Atomic /\ HolderIsInside /\ CopiesSound
        /\ CopiesSound' /\ (Faultless => ShownIsFresh) /\ [Next]_vars
        => (Faultless' => ShownIsFresh')
  BY ShownStep, NoFaults
<1>4. Init => WithinBudget /\ HolderIsInside /\ CopiesSound
  BY InitWithinBudget, NoStoreSound
     DEF Init, HolderIsInside, Inside, Idle, CopiesSound, StoreSound, ToolIdle
<1>5. Init => ShownIsFresh
  BY DEF Init, ShownIsFresh, NoStore, Absent, HasStatus
<1>6. TypeOK /\ HolderIsInside /\ ShownIsFresh => ProjectionDropsCompleted
  <2> SUFFICES ASSUME TypeOK, HolderIsInside, ShownIsFresh, NEW e \in Events,
                      sessionLock[Target[e]] = None,
                      HasStatus(disk[Target[e]], e, "completed")
               PROVE  e \notin proj[Target[e]].pending
    BY DEF ProjectionDropsCompleted
  <2>1. Target[e] \in Sessions
    BY OwnerType
  <2>2. ~Projecting(Target[e])
    BY NoneAssumption DEF Projecting, HolderIsInside, Inside
  <2>3. QED
    BY <2>1, <2>2 DEF ShownIsFresh
<1>7. QED
  BY <1>1, <1>2, <1>3, <1>4, <1>5, <1>6, InitAtomic, HolderStep, SoundStep, TypeCorrect,
     PTL DEF Spec
-----------------------------------------------------------------------------
(* What the provider has been answered is on record.                       *)

(* Nothing is evicted as long as every session has room for its events.    *)
EventsOf(s) == {e \in Events : Target[e] = s}
Room == \A s \in Sessions : RoomFor(EventsOf(s))

(* With room for every event no step takes one off the record, and a       *)
(* completed event stays completed.                                        *)
LEMMA RecordsKept ==
  ASSUME Room, TypeOK, Atomic, CopiesSound, InFlightOnRecord, [Next]_vars,
         NEW s \in Sessions, NEW e \in Events
  PROVE  /\ Seen(disk[s], e) => Seen(disk'[s], e)
         /\ HasStatus(disk[s], e, "completed") => HasStatus(disk'[s], e, "completed")
<1> DEFINE Kept == /\ Seen(disk[s], e) => Seen(disk'[s], e)
                   /\ HasStatus(disk[s], e, "completed") => HasStatus(disk'[s], e, "completed")
<1>0. disk \in [Sessions -> SessionStates] /\ RecordSound(s, disk[s])
  BY DEF TypeOK, FileTypes, Stores, CopiesSound, StoreSound
<1>00. HistoryOK(disk[s]) /\ \A f \in Events : Seen(disk[s], f) => f \in EventsOf(s)
  BY <1>0 DEF RecordSound, EventsOf
<1>1. ASSUME disk'[s].events = disk[s].events
      PROVE  Kept
  BY <1>1 DEF Seen, HasStatus
<1>2. ASSUME NEW h \in Handlers, Txn(h)
      PROVE  Kept
  <2> DEFINE f == handler[h].event
             outcome == handler[h].outcome
             done == CompleteEvent(disk[s], f, AckStatus(outcome))
  <2>1. /\ loaded = disk
        /\ s # SessionOf(h) => disk'[s] = disk[s]
    BY <1>2, CommitInPlace
  <2>2. f \in Events
    BY <1>2, WorkTypes DEF Txn, CommitRecord, CommitDenied, CommitGrant, CommitFinish, TypeOK
  <2>3. CASE CommitRecord(h) /\ s = SessionOf(h)
    <3>1. disk'[s] = RecordDelivery(disk[s], f)
      BY <1>0, <2>1, <2>3 DEF CommitRecord, Commit
    <3>2. f \in EventsOf(s) /\ RoomFor(EventsOf(s))
      BY <2>2, <2>3 DEF EventsOf, SessionOf, Room
    <3>3. QED
      BY <1>0, <1>00, <2>2, <3>1, <3>2, RecordKeepsRecords
  <2>4. ASSUME CommitDenied(h) \/ CommitFinish(h), s = SessionOf(h)
        PROVE  HasStatus(disk[s], e, "completed") => e # f
    <3>1. LetThrough(h)
      BY <2>4 DEF CommitDenied, CommitFinish, LetThrough, Inside
    <3>2. HasStatus(disk[s], f, "pending")
      BY <2>4, <3>1 DEF InFlightOnRecord
    <3>3. QED
      BY <1>00, <3>2, OneStatus
  <2>5. CASE CommitDenied(h) /\ s = SessionOf(h)
    <3>1. disk'[s] = CompleteEvent(disk[s], f, "failed")
      BY <1>0, <2>1, <2>5 DEF CommitDenied, Commit
    <3>2. QED
      BY <1>0, <2>2, <2>4, <2>5, <3>1, CompleteKeepsRecords
  <2>6. CASE CommitFinish(h) /\ s = SessionOf(h)
    <3>1. disk'[s] = Finished(disk[s], f, outcome)
      BY <1>0, <2>1, <2>6 DEF CommitFinish, Commit
    <3>2. done \in SessionStates
      BY <1>0, <2>2, AckStatusType, CompleteEventType
    <3>3. disk'[s].events = done.events
      BY <3>1, <3>2, LifecycleOpsKeepRecords DEF Finished
    <3>4. /\ Seen(disk[s], e) => Seen(done, e)
          /\ HasStatus(disk[s], e, "completed") => HasStatus(done, e, "completed")
      BY <1>0, <2>2, <2>4, <2>6, AckStatusType, CompleteKeepsRecords
    <3>5. QED
      BY <3>3, <3>4 DEF Seen, HasStatus
  <2>7. CASE CommitGrant(h) /\ s = SessionOf(h)
    <3>1. disk'[s].events = disk[s].events
      BY <1>0, <2>1, <2>7, LifecycleOpsKeepRecords DEF CommitGrant, Commit
    <3>2. QED
      BY <1>1, <3>1
  <2>8. QED
    BY <1>1, <1>2, <2>1, <2>3, <2>5, <2>6, <2>7 DEF Txn
<1>3. ASSUME NEW t \in Tools, ToolSaves(t)
      PROVE  Kept
  BY <1>1, <1>3, SaveInPlace
<1>4. QED
  BY <1>1, <1>2, <1>3, StepsByFile DEF OtherStep, ToolLoads, fileVars

(* An answer is on record if its event is and, if the answer is that it is *)
(* completed, the record says so.                                          *)
OnRecord(e, status) ==
  /\ Seen(disk[Target[e]], e)
  /\ status = "completed" => HasStatus(disk[Target[e]], e, "completed")

(* A handler that has finished has its answer on record; the answer of one *)
(* that was denied is settled before that.                                 *)
OutcomesOnRecord ==
  \A h \in Handlers :
    /\ handler[h].pc \in {"project", "ack"} =>
         OnRecord(handler[h].event, AckStatus(handler[h].outcome))
    /\ handler[h].pc = "denied" => handler[h].outcome = "failed"

AcksOnRecord ==
  \A p \in Providers : \A i \in DOMAIN acks[p] : OnRecord(acks[p][i].event, acks[p][i].status)

AnswersOnRecord == OutcomesOnRecord /\ AcksOnRecord /\ AnsweredIsRecorded

(* What a handler's move and decision leave as its outcome.                *)
LEMMA OutcomeFrame ==
  ASSUME HandlerTypes, NEW h \in Handlers, NEW pc, NEW outcome
  PROVE  /\ Move(h, pc) => handler'[h].outcome = handler[h].outcome
         /\ Decide(h, pc, outcome) => handler'[h].outcome = outcome
<1>1. handler \in [Handlers -> HandlerStates]
  BY DEF HandlerTypes
<1> DEFINE r == [handler[h] EXCEPT !.pc = pc, !.outcome = outcome]
<1>2. r.outcome = outcome
  BY <1>1 DEF HandlerStates
<1>3. Decide(h, pc, outcome) => handler' = [handler EXCEPT ![h] = r]
  BY DEF Decide
<1> HIDE DEF r
<1>4. QED
  BY <1>1, <1>2, <1>3 DEF Move, HandlerStates

(* A handler that goes on to answer has recorded what it will say.         *)
LEMMA OutcomeRecorded ==
  ASSUME TypeOK, Atomic, CopiesSound, InFlightOnRecord, OutcomesOnRecord,
         NEW h \in Handlers, CommitRecord(h) \/ CommitDenied(h) \/ CommitFinish(h),
         handler'[h].pc \in {"project", "ack"}
  PROVE  OnRecord(handler[h].event, AckStatus(handler[h].outcome))'
<1> DEFINE e == handler[h].event
           s == SessionOf(h)
<1>1. e \in Events /\ s \in Sessions /\ s = Target[e] /\ loaded = disk
  BY WorkTypes, CommitInPlace DEF Txn, CommitRecord, CommitDenied, CommitFinish, TypeOK, SessionOf
<1>2. disk \in [Sessions -> SessionStates] /\ HandlerTypes
  BY DEF TypeOK, FileTypes, Stores
<1>3. ASSUME handler'[h].event = e, NEW status, AckStatus(handler'[h].outcome) = status,
             Seen(disk'[s], e), status = "completed" => HasStatus(disk'[s], e, "completed")
      PROVE  OnRecord(handler[h].event, AckStatus(handler[h].outcome))'
  BY <1>1, <1>3 DEF OnRecord
<1>4. CASE CommitRecord(h)
  <2>1. disk'[s] = RecordDelivery(disk[s], e)
    BY <1>1, <1>2, <1>4 DEF CommitRecord, Commit
  <2> DEFINE outcome == IF Duplicate(disk[s], e) THEN "duplicate" ELSE "failed"
  <2>2. Decide(h, "ack", outcome)
    <3>1. CASE Move(h, "authorize")
      <4>1. handler'[h].pc = "authorize"
        BY <1>2, <3>1, MoveFrame
      <4>2. QED
        BY <4>1
    <3>2. Move(h, "authorize") \/ Decide(h, "ack", outcome)
      BY <1>1, <1>4 DEF CommitRecord
    <3>3. QED
      BY <3>1, <3>2
  <2>3. handler'[h].event = e /\ handler'[h].outcome = outcome
    BY <1>2, <2>2, MoveFrame, OutcomeFrame
  <2>4. CASE Duplicate(disk[s], e)
    <3>1. HasStatus(disk'[s], e, "completed")
      BY <2>1, <2>4 DEF RecordDelivery, Duplicate
    <3>2. Seen(disk'[s], e)
      BY <3>1 DEF Seen, HasStatus, Rec
    <3>3. QED
      BY <1>3, <2>3, <3>1, <3>2
  <2>5. CASE ~Duplicate(disk[s], e)
    <3>1. HasStatus(disk'[s], e, "pending")
      BY <1>1, <1>2, <2>1, <2>5, RecordedIsPending
    <3>2. Seen(disk'[s], e)
      BY <3>1 DEF Seen, HasStatus, Rec
    <3>3. AckStatus(handler'[h].outcome) = "failed"
      BY <2>3, <2>5 DEF AckStatus
    <3>4. QED
      BY <1>3, <2>3, <3>2, <3>3
  <2>6. QED
    BY <2>4, <2>5
<1>5. CASE CommitDenied(h) \/ CommitFinish(h)
  <2>1. Seen(disk[s], e)
    <3>1. LetThrough(h)
      BY <1>5 DEF CommitDenied, CommitFinish, LetThrough, Inside
    <3>2. HasStatus(disk[s], e, "pending")
      BY <3>1 DEF InFlightOnRecord
    <3>3. QED
      BY <3>2 DEF Seen, HasStatus, Rec
  <2>2. CASE CommitDenied(h)
    <3>1. disk'[s] = CompleteEvent(disk[s], e, "failed")
      BY <1>1, <1>2, <2>2 DEF CommitDenied, Commit
    <3>2. Seen(disk'[s], e)
      BY <1>1, <1>2, <2>1, <3>1, CompleteKeepsRecords
    <3>3. handler'[h].event = e /\ handler'[h].outcome = "failed"
      BY <1>2, <2>2, MoveFrame, OutcomeFrame DEF CommitDenied, OutcomesOnRecord
    <3>4. AckStatus(handler'[h].outcome) = "failed"
      BY <3>3 DEF AckStatus
    <3>5. QED
      BY <1>3, <3>2, <3>3, <3>4
  <2>3. CASE CommitFinish(h)
    <3> DEFINE outcome == handler[h].outcome
               done == CompleteEvent(disk[s], e, AckStatus(outcome))
    <3>1. /\ handler'[h].event = e /\ handler'[h].outcome = outcome
          /\ disk'[s] = Finished(disk[s], e, outcome)
      BY <2>3, FinishFrame
    <3>2. done \in SessionStates /\ HasStatus(done, e, AckStatus(outcome))
      BY <1>1, <1>2, <2>1, AckStatusType, CompleteEventType, CompleteKeepsRecords
    <3>3. disk'[s].events = done.events
      BY <3>1, <3>2, LifecycleOpsKeepRecords DEF Finished
    <3>4. HasStatus(disk'[s], e, AckStatus(outcome))
      BY <3>2, <3>3 DEF HasStatus
    <3>5. Seen(disk'[s], e)
      BY <3>4 DEF Seen, HasStatus, Rec
    <3>6. QED
      BY <1>3, <3>1, <3>4, <3>5
  <2>4. QED
    BY <1>5, <2>2, <2>3
<1>6. QED
  BY <1>4, <1>5

(* Every step keeps what handlers are about to answer on record.           *)
LEMMA OutcomesStep ==
  ASSUME Room, WithinBudget, Unspent("saveError")', TypeOK, Atomic, CopiesSound,
         InFlightOnRecord, OutcomesOnRecord, [Next]_vars
  PROVE  OutcomesOnRecord'
<1> SUFFICES ASSUME NEW h \in Handlers
             PROVE  /\ handler'[h].pc \in {"project", "ack"} =>
                         OnRecord(handler[h].event, AckStatus(handler[h].outcome))'
                    /\ handler'[h].pc = "denied" => handler'[h].outcome = "failed"
  BY DEF OutcomesOnRecord
<1> DEFINE Good == /\ handler'[h].pc \in {"project", "ack"} =>
                        OnRecord(handler[h].event, AckStatus(handler[h].outcome))'
                   /\ handler'[h].pc = "denied" => handler'[h].outcome = "failed"
<1>0. HandlerTypes /\ handler \in [Handlers -> HandlerStates]
  BY DEF TypeOK, HandlerTypes
<1>1. ASSUME handler'[h].event = handler[h].event, handler'[h].outcome = handler[h].outcome,
             handler'[h].pc = "denied" => handler[h].pc = "denied",
             handler'[h].pc \in {"project", "ack"} => handler[h].pc \in {"project", "ack"}
      PROVE  Good
  <2>1. handler[h].pc \in {"project", "ack"} =>
          handler[h].event \in Events /\ Target[handler[h].event] \in Sessions
    BY <1>0, WorkTypes DEF SessionOf
  <2>2. QED
    BY <1>1, <2>1, RecordsKept DEF OutcomesOnRecord, OnRecord
<1>2. CASE handler'[h] = handler[h]
  BY <1>1, <1>2
<1>3. CASE handler'[h] = Idle
  BY <1>3 DEF Idle
<1>4. ASSUME NEW e \in Events, Receive(h, e)
      PROVE  Good
  BY <1>0, <1>4 DEF Receive, Idle
<1>5. CASE HandlerStep(h)
  <2>1. CASE BeginTxn(h)
    BY <1>2, <2>1 DEF BeginTxn
  <2>2. CASE CommitRecord(h)
    <3>1. handler'[h].pc # "denied"
      <4>1. PICK pc \in {"authorize", "ack"} :
              \E outcome : Move(h, pc) \/ Decide(h, pc, outcome)
        BY <2>2 DEF CommitRecord
      <4>2. handler'[h].pc = pc
        BY <1>0, <4>1, MoveFrame
      <4>3. QED
        BY <4>2
    <3>2. QED
      BY <2>2, <3>1, OutcomeRecorded
  <2>3. CASE CommitDenied(h)
    <3>1. Move(h, "ack")
      BY <2>3 DEF CommitDenied
    <3>2. handler'[h].pc = "ack"
      BY <1>0, <3>1, MoveFrame
    <3>3. QED
      BY <2>3, <3>2, OutcomeRecorded
  <2>4. CASE CommitFinish(h)
    BY <2>4, FinishFrame, OutcomeRecorded
  <2>5. CASE Authorize(h)
    <3>1. Move(h, "grant") \/ Decide(h, "denied", "failed")
      BY <2>5 DEF Authorize
    <3>2. Move(h, "grant") => handler'[h].pc = "grant"
      BY <1>0, MoveFrame
    <3>3. Decide(h, "denied", "failed") => handler'[h].pc = "denied"
      BY <1>0, MoveFrame
    <3>4. Decide(h, "denied", "failed") => handler'[h].outcome = "failed"
      BY <1>0, OutcomeFrame
    <3>5. QED
      BY <3>1, <3>2, <3>3, <3>4
  <2>6. CASE LockSession(h) \/ CommitGrant(h) \/ StartRun(h) \/ RefuseRun(h) \/ RunExits(h)
    <3>1. PICK pc \in {"record", "start", "running", "finish"} :
            \E outcome : Move(h, pc) \/ Decide(h, pc, outcome)
      BY <2>6 DEF LockSession, CommitGrant, StartRun, RefuseRun, RunExits
    <3>2. QED
      BY <1>0, <3>1, MoveFrame
  <2>7. CASE Project(h)
    <3> DEFINE r == [handler[h] EXCEPT !.pc = "ack", !.final = NoProjection]
    <3>1. r.pc = "ack" /\ r.event = handler[h].event /\ r.outcome = handler[h].outcome
      BY <1>0 DEF HandlerStates
    <3>2. handler' = [handler EXCEPT ![h] = r] /\ handler[h].pc = "project"
      BY <2>7 DEF Project
    <3> HIDE DEF r
    <3>3. handler'[h] = r
      BY <1>0, <3>2
    <3>4. QED
      BY <1>1, <3>1, <3>2, <3>3
  <2>8. CASE Acknowledge(h)
    BY <1>0, <1>3, <2>8 DEF Acknowledge
  <2>9. QED
    BY <1>5, <2>1, <2>2, <2>3, <2>4, <2>5, <2>6, <2>7, <2>8 DEF HandlerStep, Txn
<1>6. ~TxnFails(h)
  BY NotSpent DEF TxnFails, Faults
<1>7. CASE Crash
  BY <1>3, <1>7 DEF Crash
<1>8. QED
  BY <1>2, <1>4, <1>5, <1>6, <1>7, StepsByHandler, OthersStay

(* Every step keeps what is answered on record.                            *)
LEMMA AnswersOnRecordStep ==
  ASSUME Room, WithinBudget, Unspent("saveError")', TypeOK, TypeOK', Atomic, CopiesSound,
         InFlightOnRecord, AnswersOnRecord, [Next]_vars
  PROVE  AnswersOnRecord'
<1>1. \A e \in Events : \A status : OnRecord(e, status) => OnRecord(e, status)'
  BY RecordsKept, OwnerType DEF OnRecord
<1>2. \A p \in Providers : \A i \in DOMAIN acks[p] :
        acks[p][i].event \in Events /\ OnRecord(acks[p][i].event, acks[p][i].status)
  <2>1. \A p \in Providers : \A i \in DOMAIN acks[p] : acks[p][i] \in EventRecords
    BY DEF TypeOK, ProviderTypes
  <2>2. QED
    BY <2>1 DEF EventRecords, AnswersOnRecord, AcksOnRecord
<1>3. OutcomesOnRecord'
  BY OutcomesStep DEF AnswersOnRecord
<1>4. AcksOnRecord'
  <2> SUFFICES ASSUME NEW p \in Providers, NEW i \in DOMAIN acks'[p]
               PROVE  /\ Seen(disk'[Target[acks'[p][i].event]], acks'[p][i].event)
                      /\ acks'[p][i].status = "completed" =>
                           HasStatus(disk'[Target[acks'[p][i].event]], acks'[p][i].event, "completed")
    BY DEF AcksOnRecord, OnRecord
  <2>1. CASE \E j \in DOMAIN acks[p] : acks'[p][i] = acks[p][j]
    <3>1. PICK j \in DOMAIN acks[p] : acks'[p][i] = acks[p][j]
      BY <2>1
    <3>2. acks[p][j].event \in Events /\ OnRecord(acks[p][j].event, acks[p][j].status)
      BY <1>2
    <3>3. /\ Seen(disk'[Target[acks[p][j].event]], acks[p][j].event)
          /\ acks[p][j].status = "completed" =>
               HasStatus(disk'[Target[acks[p][j].event]], acks[p][j].event, "completed")
      BY <1>1, <3>2 DEF OnRecord
    <3>4. QED
      BY <3>1, <3>3
  <2>2. ASSUME NEW h \in Handlers, handler[h].pc = "ack", handler[h].event \in Events,
               acks'[p][i] = Rec(handler[h].event, AckStatus(handler[h].outcome))
        PROVE  /\ Seen(disk'[Target[acks'[p][i].event]], acks'[p][i].event)
               /\ acks'[p][i].status = "completed" =>
                    HasStatus(disk'[Target[acks'[p][i].event]], acks'[p][i].event, "completed")
    <3>1. OnRecord(handler[h].event, AckStatus(handler[h].outcome))
      BY <2>2 DEF AnswersOnRecord, OutcomesOnRecord
    <3>2. /\ Seen(disk'[Target[handler[h].event]], handler[h].event)
          /\ AckStatus(handler[h].outcome) = "completed" =>
               HasStatus(disk'[Target[handler[h].event]], handler[h].event, "completed")
      BY <1>1, <2>2, <3>1 DEF OnRecord
    <3>3. /\ acks'[p][i].event = handler[h].event
          /\ acks'[p][i].status = AckStatus(handler[h].outcome)
      BY <2>2 DEF Rec
    <3>4. QED
      BY <3>2, <3>3
  <2>3. QED
    BY <2>1, <2>2, AcksFrom
<1>5. AnsweredIsRecorded'
  <2> SUFFICES ASSUME NEW e \in Events, prov'[e] \in {"completed", "failed"}
               PROVE  OnRecord(e, prov[e])'
    BY DEF AnsweredIsRecorded, OnRecord
  <2>1. CASE prov'[e] = prov[e]
    <3>1. OnRecord(e, prov[e])
      <4>1. /\ prov[e] = "failed" => Seen(disk[Target[e]], e)
            /\ prov[e] = "completed" => HasStatus(disk[Target[e]], e, "completed")
        BY DEF AnswersOnRecord, AnsweredIsRecorded
      <4>2. HasStatus(disk[Target[e]], e, "completed") => Seen(disk[Target[e]], e)
        BY DEF HasStatus, Seen, Rec
      <4>3. QED
        BY <2>1, <4>1, <4>2 DEF OnRecord
    <3>2. QED
      BY <1>1, <2>1, <3>1 DEF OnRecord
  <2>2. ASSUME NEW p \in Providers, NEW i \in DOMAIN acks[p], acks[p][i] = Rec(e, prov'[e])
        PROVE  OnRecord(e, prov[e])'
    <3>1. acks[p][i].event = e /\ acks[p][i].status = prov'[e]
      BY <2>2 DEF Rec
    <3>2. QED
      BY <1>1, <1>2, <3>1 DEF OnRecord
  <2>3. QED
    BY <2>1, <2>2, ProvFrom
<1>6. QED
  BY <1>3, <1>4, <1>5 DEF AnswersOnRecord

(* The start has nothing to answer.                                        *)
LEMMA InitAnswers ==
  Init => /\ HolderIsInside /\ InFlightOnRecord /\ CopiesSound /\ AnswersOnRecord
BY NoStoreSound
   DEF Init, HolderIsInside, InFlightOnRecord, LetThrough, Inside, Idle, CopiesSound,
       StoreSound, ToolIdle, AnswersOnRecord, OutcomesOnRecord, AcksOnRecord,
       AnsweredIsRecorded

(* What the provider has crossed off is on record here, as completed if    *)
(* that is what it was told: through deaths of the daemon and broken       *)
(* connections, until the first save of the file fails, if nobody saves    *)
(* between another's load and save and no record is evicted                *)
(* (README.md:116-117).                                                    *)
THEOREM AnsweredStaysRecorded ==
  ASSUME Room, Overlap = FALSE
  PROVE  Spec => [](Unspent("saveError") => AnsweredIsRecorded)
<1>1. TypeOK /\ Atomic /\ [Next]_vars => Atomic'
  BY AtomicStep
<1>2. TypeOK /\ TypeOK' /\ WithinBudget /\ [Next]_vars => WithinBudget'
  BY WithinBudgetStep
<1>3. TypeOK /\ Atomic /\ HolderIsInside /\ InFlightOnRecord /\ [Next]_vars
        => InFlightOnRecord'
  BY FlightStep
<1>4. WithinBudget /\ TypeOK /\ TypeOK' /\ Atomic /\ CopiesSound
        /\ InFlightOnRecord /\ (Unspent("saveError") => AnswersOnRecord) /\ [Next]_vars
        => (Unspent("saveError")' => AnswersOnRecord')
  BY AnswersOnRecordStep, NotSpent DEF Faults
<1>5. AnswersOnRecord => AnsweredIsRecorded
  BY DEF AnswersOnRecord
<1>6. QED
  BY <1>1, <1>2, <1>3, <1>4, <1>5, InitAnswers, InitWithinBudget, InitAtomic, HolderStep,
     SoundStep, TypeCorrect, PTL DEF Spec

(* What is about to be run is pending, so it is not what the provider has  *)
(* crossed off as completed.                                               *)
LEMMA StartsNothingCompleted ==
  ASSUME TypeOK, CopiesSound, InFlightOnRecord, AnsweredIsRecorded,
         NEW h \in Handlers, StartRun(h)
  PROVE  prov[handler[h].event] # "completed"
<1>1. handler[h].event \in Events /\ SessionOf(h) \in Sessions /\ LetThrough(h)
  BY WorkTypes DEF StartRun, TypeOK, LetThrough, Inside
<1>2. HasStatus(disk[SessionOf(h)], handler[h].event, "pending")
  BY <1>1 DEF InFlightOnRecord
<1>3. ~HasStatus(disk[SessionOf(h)], handler[h].event, "completed")
  BY <1>1, <1>2, OneStatus DEF CopiesSound, StoreSound, RecordSound
<1>4. QED
  BY <1>1, <1>3 DEF AnsweredIsRecorded, SessionOf

(* Until the first save fails, a redelivered event that the provider knows *)
(* to be completed does not wake the runtime again, as long as its record  *)
(* is not evicted (README.md:116).                                         *)
THEOREM RunsNothingCompleted ==
  ASSUME Room, Overlap = FALSE
  PROVE  Spec => [][Unspent("saveError") =>
                      \A h \in Handlers :
                        StartRun(h) => prov[handler[h].event] # "completed"]_vars
<1>1. TypeOK /\ Atomic /\ [Next]_vars => Atomic'
  BY AtomicStep
<1>2. TypeOK /\ Atomic /\ HolderIsInside /\ InFlightOnRecord /\ [Next]_vars
        => InFlightOnRecord'
  BY FlightStep
<1>3. TypeOK /\ CopiesSound /\ InFlightOnRecord
        /\ (Unspent("saveError") => AnsweredIsRecorded)
        => (Unspent("saveError") =>
              \A h \in Handlers : StartRun(h) => prov[handler[h].event] # "completed")
  BY StartsNothingCompleted
<1>4. QED
  BY <1>1, <1>2, <1>3, InitAnswers, InitAtomic, HolderStep, SoundStep, TypeCorrect,
     AnsweredStaysRecorded, PTL DEF Spec

(* If no save can fail, it never does.                                     *)
THEOREM CompletedStaysCompleted ==
  ASSUME Room, Overlap = FALSE, Budget["saveError"] = 0
  PROVE  Spec => CompletedNotRerun
<1>1. TypeOK /\ WithinBudget => Unspent("saveError")
  BY DEF WithinBudget, Unspent, Faults, TypeOK, ProcessTypes
<1>2. TypeOK /\ TypeOK' /\ WithinBudget /\ [Next]_vars => WithinBudget'
  BY WithinBudgetStep
<1>3. QED
  BY <1>1, <1>2, InitWithinBudget, TypeCorrect, RunsNothingCompleted, PTL
     DEF Spec, CompletedNotRerun
=============================================================================
