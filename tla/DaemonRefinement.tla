-------------------------- MODULE DaemonRefinement --------------------------
(***************************************************************************)
(* The daemon implements AtLeastOnce: the initial states are initial       *)
(* states, and every step is a publication, a wake, an answer or nothing,  *)
(* for every instance and whatever the tools overwrite.  On the way:       *)
(* nothing is under way for an event that nobody published, and no handler *)
(* outlives its connection.                                                *)
(* Daemon, tools and file implement EventLog as long as loads and saves do *)
(* not overlap: every save is one operation of the log or nothing.         *)
(***************************************************************************)
EXTENDS DaemonFileProofs

(* What is under way belongs to a published event, and an answer is final. *)
Published(e) == prov[e] # "none"

FramesKnown ==
  /\ \A f \in outbox : Published(f[2])
  /\ \A e \in Events : wire[e] > 0 => Published(e)

WorkKnown == \A h \in Handlers : handler[h].pc # "idle" => Published(handler[h].event)

AnswersKnown ==
  \A p \in Providers : \A i \in DOMAIN acks[p] :
    Published(acks[p][i].event) /\ acks[p][i].status \in {"completed", "failed"}

UnderWayKnown == FramesKnown /\ WorkKnown /\ AnswersKnown

(* An event once published stays so.                                       *)
LEMMA StaysPublished ==
  ASSUME TypeOK, UnderWayKnown, [Next]_vars, NEW e \in Events, Published(e)
  PROVE  Published(e)'
<1>0. prov \in [Events -> {"none", "pending", "completed", "failed"}]
  BY DEF TypeOK, ProviderTypes
<1>1. CASE UNCHANGED prov
  BY <1>1 DEF Published
<1>2. ASSUME NEW f \in Events, Publish(f)
      PROVE  Published(e)'
  BY <1>0, <1>2 DEF Publish, Published
<1>3. ASSUME NEW p \in Providers, AckArrives(p)
      PROVE  Published(e)'
  <2>1. acks[p] \in Seq(EventRecords) /\ acks[p] # << >>
    BY <1>3 DEF AckArrives, TypeOK, ProviderTypes
  <2>2. Head(acks[p]).status \in {"completed", "failed"}
    BY <2>1 DEF UnderWayKnown, AnswersKnown
  <2>3. QED
    BY <1>0, <1>3, <2>2 DEF AckArrives, Published
<1>4. CASE UNCHANGED vars
  BY <1>1, <1>4 DEF vars, provVars
<1>5. QED
  BY <1>1, <1>2, <1>3, <1>4
     DEF Next, HandlerStep, ProviderStep, ConnectionStep, Txn, provVars,
         OrphanExits, Send, Bind, Connect, RunReturns, Drop, Receive, LockSession,
         BeginTxn, CommitRecord, Authorize, CommitDenied, CommitGrant, StartRun,
         RefuseRun, RunExits, CommitFinish, TxnFails, Project, Acknowledge, Crash,
         Restart, ToolLoads, ToolSaves

(* Frames are sent, and sent again, only for published events.             *)
LEMMA FramesStep == TypeOK /\ UnderWayKnown /\ [Next]_vars => FramesKnown'
<1> SUFFICES ASSUME TypeOK, UnderWayKnown, [Next]_vars PROVE FramesKnown'
  OBVIOUS
<1>0. /\ outbox \subseteq ({"publish", "resend"} \X Events) /\ wire \in [Events -> Nat]
      /\ FramesKnown
  BY DEF TypeOK, ProviderTypes, UnderWayKnown
<1>1. \A e \in Events : Published(e) => Published(e)'
  BY StaysPublished
<1>2. ASSUME \A f \in outbox' : f \in outbox \/ (f[2] \in Events /\ Published(f[2])'),
             \A e \in Events : wire'[e] > 0 => wire[e] > 0 \/ Published(e)'
      PROVE  FramesKnown'
  BY <1>0, <1>1, <1>2 DEF FramesKnown
<1>3. ASSUME NEW e \in Events, Publish(e)
      PROVE  FramesKnown'
  <2>1. Published(e)'
    BY <1>3 DEF Publish, Published, TypeOK, ProviderTypes
  <2>2. /\ \A f \in outbox' : f \in outbox \/ f[2] = e
        /\ wire' = wire
    BY <1>3 DEF Publish
  <2>3. QED
    BY <1>2, <2>1, <2>2
<1>4. ASSUME NEW e \in Events, NEW kind \in {"publish", "resend"}, Send(kind, e)
      PROVE  FramesKnown'
  <2>1. Published(e)'
    BY <1>0, <1>1, <1>4 DEF Send, FramesKnown
  <2>2. /\ outbox' \subseteq outbox
        /\ \A f \in Events : f # e => wire'[f] = wire[f]
    BY <1>0, <1>4 DEF Send
  <2>3. QED
    BY <1>2, <2>1, <2>2
<1>5. ASSUME NEW s \in Sessions, Bind(s)
      PROVE  FramesKnown'
  <2>1. /\ \A f \in outbox' :
             f \in outbox \/ \E e \in Events : prov[e] = "pending" /\ f = <<"resend", e>>
        /\ wire' = wire /\ prov' = prov
    BY <1>5 DEF Bind
  <2>2. QED
    BY <1>2, <2>1 DEF Published
<1>6. ASSUME NEW P, Lose(P)
      PROVE  FramesKnown'
  BY <1>0, <1>2, <1>6 DEF Lose
<1>7. ASSUME NEW h \in Handlers, NEW e \in Events, Receive(h, e)
      PROVE  FramesKnown'
  BY <1>0, <1>2, <1>7 DEF Receive
<1>8. CASE UNCHANGED <<outbox, wire>>
  BY <1>2, <1>8
<1>9. CASE UNCHANGED vars
  BY <1>8, <1>9 DEF vars, netVars
<1>10. QED
  BY <1>3, <1>4, <1>5, <1>6, <1>7, <1>8, <1>9
     DEF Next, HandlerStep, ProviderStep, ConnectionStep, Txn, netVars,
         OrphanExits, Connect, RunReturns, AckArrives, Drop, LockSession,
         BeginTxn, CommitRecord, Authorize, CommitDenied, CommitGrant, StartRun,
         RefuseRun, RunExits, CommitFinish, TxnFails, Project, Acknowledge, Crash,
         Restart, ToolLoads, ToolSaves

(* A handler keeps its event from its receipt to its answer.               *)
LEMMA EventsKept ==
  ASSUME TypeOK, [Next]_vars, NEW h \in Handlers, handler'[h].pc # "idle"
  PROVE  \/ handler[h].pc # "idle" /\ handler'[h].event = handler[h].event
         \/ \E e \in Events : Receive(h, e) /\ handler'[h].event = e
<1>0. HandlerTypes /\ handler \in [Handlers -> HandlerStates]
  BY DEF TypeOK, HandlerTypes
<1>1. ASSUME NEW g \in Handlers, NEW e \in Events, Receive(g, e)
      PROVE  \/ handler[h].pc # "idle" /\ handler'[h].event = handler[h].event
             \/ Receive(h, e) /\ handler'[h].event = e
  BY <1>0, <1>1 DEF Receive, Idle
<1>2. ASSUME NEW g \in Handlers,
             \/ LockSession(g) \/ CommitRecord(g) \/ Authorize(g) \/ CommitDenied(g)
             \/ CommitGrant(g) \/ StartRun(g) \/ RefuseRun(g) \/ RunExits(g) \/ TxnFails(g)
      PROVE  handler[h].pc # "idle" /\ handler'[h].event = handler[h].event
  <2>1. PICK pc, outcome : Move(g, pc) \/ Decide(g, pc, outcome)
    BY <1>2 DEF LockSession, CommitRecord, Authorize, CommitDenied, CommitGrant,
                StartRun, RefuseRun, RunExits, TxnFails
  <2>2. /\ \A x \in Handlers : x # g => handler'[x] = handler[x]
        /\ handler'[g].event = handler[g].event
    BY <1>0, <2>1, MoveFrame
  <2>3. handler[g].pc # "idle"
    BY <1>2 DEF LockSession, CommitRecord, Authorize, CommitDenied, CommitGrant,
                StartRun, RefuseRun, RunExits, TxnFails
  <2>4. QED
    BY <2>2, <2>3
<1>3. ASSUME NEW g \in Handlers, CommitFinish(g) \/ Project(g)
      PROVE  handler[h].pc # "idle" /\ handler'[h].event = handler[h].event
  <2> DEFINE final == FinalState(loaded[SessionOf(g)], handler[g].event, handler[g].outcome)
             r == [handler[g] EXCEPT !.pc = "project", !.final = final]
             q == [handler[g] EXCEPT !.pc = "ack", !.final = NoProjection]
  <2>1. r.event = handler[g].event /\ q.event = handler[g].event
    BY <1>0 DEF HandlerStates
  <2>2. handler' = [handler EXCEPT ![g] = r] \/ handler' = [handler EXCEPT ![g] = q]
    BY <1>3 DEF CommitFinish, Project
  <2> HIDE DEF r, q
  <2>3. handler[g].pc # "idle"
    BY <1>3 DEF CommitFinish, Project
  <2>4. QED
    BY <1>0, <2>1, <2>2, <2>3
<1>4. ASSUME NEW g \in Handlers, Acknowledge(g)
      PROVE  handler[h].pc # "idle" /\ handler'[h].event = handler[h].event
  BY <1>0, <1>4 DEF Acknowledge, Idle
<1>5. CASE Crash
  BY <1>5 DEF Crash, Idle
<1>6. CASE UNCHANGED handler
  BY <1>6
<1>7. CASE UNCHANGED vars
  BY <1>6, <1>7 DEF vars, daemonVars
<1>8. QED
  BY <1>1, <1>2, <1>3, <1>4, <1>5, <1>6, <1>7
     DEF Next, HandlerStep, ProviderStep, ConnectionStep, Txn, daemonVars,
         Publish, OrphanExits, Send, Bind, Connect, RunReturns, AckArrives, Drop,
         BeginTxn, Restart, ToolLoads, ToolSaves

(* So every event in work has been published.                              *)
LEMMA WorkStep == TypeOK /\ UnderWayKnown /\ [Next]_vars => WorkKnown'
<1> SUFFICES ASSUME TypeOK, UnderWayKnown, [Next]_vars,
                    NEW h \in Handlers, handler'[h].pc # "idle"
             PROVE  Published(handler[h].event)'
  BY DEF WorkKnown
<1>1. CASE handler[h].pc # "idle" /\ handler'[h].event = handler[h].event
  <2>1. handler[h].event \in Events /\ Published(handler[h].event)
    BY <1>1 DEF TypeOK, HandlerTypes, UnderWayKnown, WorkKnown
  <2>2. Published(handler[h].event)' <=> prov'[handler[h].event] # "none"
    BY <1>1 DEF Published
  <2>3. QED
    BY <2>1, <2>2, StaysPublished DEF Published
<1>2. ASSUME NEW e \in Events, Receive(h, e), handler'[h].event = e
      PROVE  Published(handler[h].event)'
  BY <1>2 DEF Receive, Published, provVars, UnderWayKnown, FramesKnown
<1>3. QED
  BY <1>1, <1>2, EventsKept

(* Every answer under way is a final one, for a published event.           *)
LEMMA AnswersStep == TypeOK /\ UnderWayKnown /\ [Next]_vars => AnswersKnown'
<1> SUFFICES ASSUME TypeOK, UnderWayKnown, [Next]_vars,
                    NEW p \in Providers, NEW i \in DOMAIN acks'[p]
             PROVE  /\ prov'[acks'[p][i].event] # "none"
                    /\ acks'[p][i].status \in {"completed", "failed"}
  BY DEF AnswersKnown, Published
<1>1. \A e \in Events : Published(e) => prov'[e] # "none"
  BY StaysPublished DEF Published
<1>2. CASE \E j \in DOMAIN acks[p] : acks'[p][i] = acks[p][j]
  <2>1. PICK j \in DOMAIN acks[p] : acks'[p][i] = acks[p][j]
    BY <1>2
  <2>2. acks[p][j] \in EventRecords
    BY DEF TypeOK, ProviderTypes
  <2>3. acks[p][j].event \in Events
    BY <2>2 DEF EventRecords
  <2>4. Published(acks[p][j].event) /\ acks[p][j].status \in {"completed", "failed"}
    BY DEF UnderWayKnown, AnswersKnown
  <2>5. QED
    BY <1>1, <2>1, <2>3, <2>4
<1>3. ASSUME NEW h \in Handlers, handler[h].pc = "ack", handler[h].event \in Events,
             acks'[p][i] = Rec(handler[h].event, AckStatus(handler[h].outcome))
      PROVE  /\ prov'[acks'[p][i].event] # "none"
             /\ acks'[p][i].status \in {"completed", "failed"}
  <2>1. Published(handler[h].event)
    BY <1>3 DEF UnderWayKnown, WorkKnown
  <2>2. QED
    BY <1>1, <1>3, <2>1, AckStatusType DEF Rec
<1>4. QED
  BY <1>2, <1>3, AcksFrom

-----------------------------------------------------------------------------
(* The refinement.                                                         *)

(* A step that neither the provider nor the runtimes notice is a stutter;  *)
(* the others are steps of AtLeastOnce.                                    *)
LEMMA PromiseStep ==
  ASSUME TypeOK, UnderWayKnown, Honest, [Next]_vars
  PROVE  [Promise!Next]_(Promise!vars)
<1>0. prov \in [Events -> {"none", "pending", "completed", "failed"}]
  BY DEF TypeOK, ProviderTypes
<1> USE DEF Promise!vars, Promise!Next
<1>1. ASSUME NEW e \in Events, Publish(e)
      PROVE  Promise!Next
  BY <1>1 DEF Publish, Promise!Publish
<1>2. ASSUME NEW p \in Providers, AckArrives(p)
      PROVE  Promise!Next
  <2> DEFINE ack == Head(acks[p])
  <2>1. acks[p] \in Seq(EventRecords) /\ acks[p] # << >>
    BY <1>2 DEF AckArrives, TypeOK, ProviderTypes
  <2>2. ack \in EventRecords /\ ack = acks[p][1] /\ 1 \in DOMAIN acks[p]
    BY <2>1, HeadTailProperties
  <2>3. /\ ack.event \in Events /\ ack.status \in {"completed", "failed"}
        /\ prov[ack.event] # "none"
        /\ ack.status = "completed" => ack.event \in ranOK
    BY <2>2 DEF EventRecords, UnderWayKnown, AnswersKnown, Published, Honest, AcksHonest
  <2>4. prov' = [prov EXCEPT ![ack.event] = ack.status] /\ UNCHANGED ranOK
    BY <1>2 DEF AckArrives
  <2> HIDE DEF ack
  <2>5. Promise!Answer(ack.event, ack.status)
    BY <2>3, <2>4 DEF Promise!Answer
  <2>6. QED
    BY <2>3, <2>5
<1>3. ASSUME NEW h \in Handlers, RunExits(h)
      PROVE  [Promise!Next]_(Promise!vars)
  <2> DEFINE e == handler[h].event
  <2>1. e \in Events /\ prov[e] # "none" /\ UNCHANGED prov
    BY <1>3 DEF RunExits, TypeOK, HandlerTypes, UnderWayKnown, WorkKnown, Published, provVars
  <2>2. CASE ranOK' = ranOK \cup {e}
    BY <2>1, <2>2 DEF Promise!Wake
  <2>3. CASE UNCHANGED ranOK
    BY <2>1, <2>3
  <2>4. QED
    BY <1>3, <2>2, <2>3 DEF RunExits
<1>4. CASE UNCHANGED <<prov, ranOK>>
  BY <1>4
<1>5. CASE UNCHANGED vars
  BY <1>4, <1>5 DEF vars, provVars
<1>6. QED
  BY <1>1, <1>2, <1>3, <1>4, <1>5
     DEF Next, HandlerStep, ProviderStep, ConnectionStep, Txn, provVars,
         OrphanExits, Send, Bind, Connect, RunReturns, Drop, Receive, LockSession,
         BeginTxn, CommitRecord, Authorize, CommitDenied, CommitGrant, StartRun,
         RefuseRun, CommitFinish, TxnFails, Project, Acknowledge, Crash, Restart,
         ToolLoads, ToolSaves

(* Nothing is claimed at the start.                                        *)
LEMMA InitHonest == Init => Honest
<1> SUFFICES ASSUME Init PROVE Honest
  OBVIOUS
<1>1. FilesHonest
  BY NoStoreHonest DEF Init, FilesHonest, RecordsHonest, ToolIdle
<1>2. QED
  BY <1>1 DEF Init, Honest, HandlersHonest, AcksHonest, CompletedMeansRan, Idle

(* The daemon keeps the abstract promise: through crashes, connections,    *)
(* tools and file errors, what the provider and the runtimes see is what   *)
(* AtLeastOnce allows (PROTOCOL.md:196-211).                               *)
THEOREM DaemonKeepsThePromise == Spec => ImplementsAtLeastOnce
<1>1. Init => Promise!Init
  BY DEF Init, Promise!Init
<1>2. Init => UnderWayKnown
  BY DEF Init, UnderWayKnown, FramesKnown, WorkKnown, AnswersKnown, Idle
<1>3. TypeOK /\ UnderWayKnown /\ [Next]_vars => UnderWayKnown'
  BY FramesStep, WorkStep, AnswersStep DEF UnderWayKnown
<1>4. TypeOK /\ Honest /\ [Next]_vars => Honest'
  BY FilesStep, HandlersStep, AcksStep DEF Honest
<1>5. TypeOK /\ UnderWayKnown /\ Honest /\ [Next]_vars => [Promise!Next]_(Promise!vars)
  BY PromiseStep
<1>6. QED
  BY <1>1, <1>2, <1>3, <1>4, <1>5, InitHonest, TypeCorrect, PTL
     DEF Spec, ImplementsAtLeastOnce, Promise!Spec

-----------------------------------------------------------------------------
(* No handler outlives the connection it answers on: Run waits for its     *)
(* handlers before it returns (client.go:55-59).                           *)
THEOREM HandlersEndBeforeRun == Spec => []ClosedIsQuiet
<1>1. Init => ClosedIsQuiet
  BY DEF Init, ClosedIsQuiet, Busy, Idle
<1>2. TypeOK /\ ClosedIsQuiet /\ [Next]_vars => ClosedIsQuiet'
  <2> SUFFICES ASSUME TypeOK, ClosedIsQuiet, [Next]_vars,
                      NEW p \in Providers, conn'[p] = "closed",
                      NEW h \in Handlers, handler'[h].pc # "idle",
                      Owner(handler'[h].event) = p
               PROVE  FALSE
    BY DEF ClosedIsQuiet, Busy, Owner
  <2>0. conn \in [Providers -> {"closed", "open", "closing"}]
    BY DEF TypeOK, ProcessTypes
  <2>1. CASE Crash
    BY <2>1 DEF Crash, Idle
  <2>2. ASSUME NEW q \in Providers, RunReturns(q)
        PROVE  FALSE
    <3>1. handler' = handler /\ ~Busy(q) /\ \A x \in Providers : x # q => conn'[x] = conn[x]
      BY <2>0, <2>2 DEF RunReturns, daemonVars
    <3>2. QED
      BY <3>1 DEF ClosedIsQuiet, Busy
  <2>3. ASSUME conn[p] = "closed"
        PROVE  FALSE
    <3>1. ~Busy(p)
      BY <2>3 DEF ClosedIsQuiet
    <3>2. PICK e \in Events : Receive(h, e) /\ handler'[h].event = e
      BY <3>1, EventsKept DEF Busy
    <3>3. QED
      BY <2>3, <3>2 DEF Receive
  <2>4. ASSUME NEW q \in Providers, Connect(q) \/ Drop(q)
        PROVE  FALSE
    BY <2>0, <2>3, <2>4 DEF Connect, Drop
  <2>5. CASE UNCHANGED conn
    BY <2>3, <2>5
  <2>6. CASE UNCHANGED vars
    BY <2>5, <2>6 DEF vars
  <2>7. QED
    BY <2>1, <2>2, <2>4, <2>5, <2>6
       DEF Next, HandlerStep, ProviderStep, ConnectionStep, Txn,
           Publish, OrphanExits, Send, Bind, AckArrives, Receive, LockSession,
           BeginTxn, CommitRecord, Authorize, CommitDenied, CommitGrant, StartRun,
           RefuseRun, RunExits, CommitFinish, TxnFails, Project, Acknowledge, Restart,
           ToolLoads, ToolSaves
<1>3. QED
  BY <1>1, <1>2, TypeCorrect, PTL DEF Spec

-----------------------------------------------------------------------------
(* The event store as a log.                                               *)

(* A resume is made of a session that the tool found in the file.          *)
ResumesKnown ==
  \A t \in Tools : tool[t].op = "resume" =>
    tool[t].snap[tool[t].session].life # "absent"

(* Only a load of the file starts a resume, and it looks.                  *)
LEMMA ResumesStep == TypeOK /\ ResumesKnown /\ [Next]_vars => ResumesKnown'
<1> SUFFICES ASSUME TypeOK, ResumesKnown, [Next]_vars PROVE ResumesKnown'
  OBVIOUS
<1>1. CASE UNCHANGED tool
  BY <1>1 DEF ResumesKnown
<1>2. ASSUME NEW t \in Tools, NEW op \in {"pause", "resume"}, NEW s \in Sessions,
             ToolLoads(t, op, s)
      PROVE  ResumesKnown'
  <2>1. /\ tool' = [tool EXCEPT ![t] = [op |-> op, session |-> s, snap |-> disk]]
        /\ op = "resume" => disk[s].life # "absent"
    BY <1>2 DEF ToolLoads
  <2>2. \A u \in Tools : tool'[u] = IF u = t THEN [op |-> op, session |-> s, snap |-> disk]
                                    ELSE tool[u]
    BY <2>1 DEF TypeOK, ToolTypes
  <2>3. QED
    BY <2>1, <2>2 DEF ResumesKnown
<1>3. ASSUME NEW t \in Tools, ToolSaves(t)
      PROVE  ResumesKnown'
  <2>1. \A u \in Tools : tool'[u] = IF u = t THEN ToolIdle ELSE tool[u]
    BY <1>3 DEF ToolSaves, TypeOK, ToolTypes
  <2>2. QED
    BY <2>1 DEF ResumesKnown, ToolIdle
<1>4. QED
  BY <1>1, <1>2, <1>3, TxnCommits, StepsByFile DEF OtherStep

(* What the log says of an event depends on the records alone.             *)
LEMMA SameRecordsSameStatus ==
  ASSUME NEW st, NEW new, new.events = st.events, NEW e
  PROVE  StatusOf(new, e) = StatusOf(st, e)
BY DEF StatusOf, Seen, HasStatus

(* A change of one session's record that keeps both is no step of the log. *)
LEMMA LogStutters ==
  ASSUME TypeOK, \A s \in Sessions : disk'[s] = disk[s]
  PROVE  UNCHANGED Log!vars
<1>1. \A e \in Events : Target[e] \in Sessions
  BY OwnerType
<1>2. QED
  BY <1>1 DEF Log!vars

(* Recording a delivery that is no duplicate is a delivery of the log.     *)
LEMMA LogDelivers ==
  ASSUME TypeOK, CopiesSound, NEW e \in Events, ~Duplicate(disk[Target[e]], e),
         disk'[Target[e]] = RecordDelivery(disk[Target[e]], e),
         \A s \in Sessions : s # Target[e] => disk'[s] = disk[s]
  PROVE  Log!Next
<1> DEFINE st == disk[Target[e]]
           Others == {f \in Events : f # e /\ Target[f] = Target[e]}
           gone == Evicted(st, e) \cap Others
           life == [s \in Sessions |-> disk[s].life]
           status == [f \in Events |-> StatusOf(disk[Target[f]], f)]
<1>1. /\ \A f \in Events : Target[f] \in Sessions
      /\ disk \in [Sessions -> SessionStates]
      /\ st \in SessionStates /\ HistoryOK(st)
  BY OwnerType DEF TypeOK, FileTypes, Stores, CopiesSound, StoreSound, RecordSound
<1>2. /\ StatusOf(RecordDelivery(st, e), e) = "pending"
      /\ \A f \in Events : f # e =>
           StatusOf(RecordDelivery(st, e), f)
             = IF f \in Evicted(st, e) THEN "none" ELSE StatusOf(st, f)
  BY <1>1, RecordDelivers
<1>3. \A f \in Events :
        StatusOf(disk'[Target[f]], f) =
          IF f = e THEN "pending"
          ELSE IF f \in gone THEN "none" ELSE StatusOf(disk[Target[f]], f)
  BY <1>1, <1>2
<1>4. /\ gone \in SUBSET Others
      /\ \A f, g \in gone : f = g
      /\ Seen(st, e) => gone = {}
  BY DEF Evicted
<1>5. StatusOf(st, e) # "completed" /\ (StatusOf(st, e) # "none" => Seen(st, e))
  <2>1. CASE Seen(st, e)
    <3>1. PICK old \in EventStatuses : HasStatus(st, e, old)
      BY <1>1, <2>1, SeenHasStatus
    <3>2. old # "completed" /\ StatusOf(st, e) = old
      BY <1>1, <3>1, StatusKnown DEF Duplicate
    <3>3. QED
      BY <2>1, <3>2
  <2>2. CASE ~Seen(st, e)
    BY <2>2 DEF StatusOf
  <2>3. QED
    BY <2>1, <2>2
<1>6. \A s \in Sessions :
        disk'[s].life = IF s = Target[e] /\ ~Gate(st) THEN "running" ELSE disk[s].life
  BY <1>1 DEF RecordDelivery
<1>7. life' = IF life[Target[e]] \in {"paused", "crashed"} THEN life
              ELSE [life EXCEPT ![Target[e]] = "running"]
  BY <1>1, <1>6 DEF Gate
<1>8. status' = [f \in Events |-> IF f = e THEN "pending"
                                  ELSE IF f \in gone THEN "none" ELSE status[f]]
  BY <1>3
<1>9. status[e] # "completed" /\ (status[e] # "none" => gone = {})
  BY <1>4, <1>5
<1> HIDE DEF gone
<1>10. Log!Deliver(e)
  BY <1>4, <1>7, <1>8, <1>9 DEF Log!Deliver, Log!Gated, Log!Others
<1>11. QED
  BY <1>10 DEF Log!Next

(* Recording an outcome of an event that is pending settles it.            *)
LEMMA LogSettles ==
  ASSUME TypeOK, CopiesSound, NEW e \in Events, HasStatus(disk[Target[e]], e, "pending"),
         NEW outcome \in {"completed", "failed"},
         disk'[Target[e]].events = CompleteEvent(disk[Target[e]], e, outcome).events,
         disk'[Target[e]].life
           \in IF outcome = "completed" THEN {"idle"} ELSE {"failed", "crashed"},
         \A s \in Sessions : s # Target[e] => disk'[s] = disk[s]
  PROVE  Log!Next
<1> DEFINE st == disk[Target[e]]
           life == [s \in Sessions |-> disk[s].life]
           status == [f \in Events |-> StatusOf(disk[Target[f]], f)]
<1>0. PICK next \in {"idle", "failed", "crashed"} :
        /\ next = disk'[Target[e]].life
        /\ next \in IF outcome = "completed" THEN {"idle"} ELSE {"failed", "crashed"}
  OBVIOUS
<1>1. /\ \A f \in Events : Target[f] \in Sessions
      /\ st \in SessionStates /\ HistoryOK(st)
  BY OwnerType DEF TypeOK, FileTypes, Stores, CopiesSound, StoreSound, RecordSound
<1>2. StatusOf(st, e) = "pending" /\ Seen(st, e)
  BY <1>1, StatusKnown, OneStatus DEF EventStatuses
<1>3. /\ StatusOf(disk'[Target[e]], e) = outcome
      /\ \A f \in Events : f # e => StatusOf(disk'[Target[e]], f) = StatusOf(st, f)
  BY <1>1, <1>2, CompleteSettles, SameRecordsSameStatus
<1>4. \A f \in Events : StatusOf(disk'[Target[f]], f)
                          = IF f = e THEN outcome ELSE StatusOf(disk[Target[f]], f)
  BY <1>1, <1>3
<1>5. status' = [status EXCEPT ![e] = outcome]
  BY <1>4
<1>6. life' = [life EXCEPT ![Target[e]] = next]
  BY <1>0, <1>1
<1>7. status[e] = "pending"
  BY <1>2
<1>8. Log!Settle(e, outcome, next)
  BY <1>0, <1>5, <1>6, <1>7 DEF Log!Settle
<1>9. QED
  BY <1>8 DEF Log!Next

(* A handler's save is one operation of the log, or none.                  *)
LEMMA LogTxn ==
  ASSUME TypeOK, Atomic, CopiesSound, InFlightOnRecord, NEW h \in Handlers, Txn(h)
  PROVE  [Log!Next]_(Log!vars)
<1> DEFINE s == SessionOf(h)
           outcome == handler[h].outcome
<1>0. PICK e \in Events : e = handler[h].event
  BY WorkTypes DEF Txn, CommitRecord, CommitDenied, CommitGrant, CommitFinish, TypeOK
<1>1. /\ s \in Sessions /\ s = Target[e]
      /\ disk \in [Sessions -> SessionStates]
      /\ loaded = disk /\ \A x \in Sessions : x # s => disk'[x] = disk[x]
  BY <1>0, WorkTypes, CommitInPlace
     DEF Txn, CommitRecord, CommitDenied, CommitGrant, CommitFinish, TypeOK, SessionOf,
         FileTypes, Stores
<1>2. LetThrough(h) => HasStatus(disk[s], e, "pending") /\ Seen(disk[s], e)
  BY <1>0 DEF InFlightOnRecord, HasStatus, Seen, Rec
<1>3. CASE CommitRecord(h)
  <2>1. disk'[s] = RecordDelivery(disk[s], e)
    BY <1>0, <1>1, <1>3 DEF CommitRecord, Commit
  <2>2. CASE Duplicate(disk[s], e)
    <3>1. \A x \in Sessions : disk'[x] = disk[x]
      BY <1>1, <2>1, <2>2 DEF RecordDelivery
    <3>2. QED
      BY <3>1, LogStutters
  <2>3. CASE ~Duplicate(disk[s], e)
    BY <1>1, <2>1, <2>3, LogDelivers
  <2>4. QED
    BY <2>2, <2>3
<1>4. CASE CommitDenied(h)
  <2>1. disk'[s] = CompleteEvent(disk[s], e, "failed")
    BY <1>0, <1>1, <1>4 DEF CommitDenied, Commit
  <2>2. HasStatus(disk[s], e, "pending") /\ Seen(disk[s], e)
    BY <1>2, <1>4 DEF CommitDenied, LetThrough, Inside
  <2>3. disk'[s].life = "failed"
    BY <2>1, <2>2 DEF CompleteEvent
  <2>4. QED
    BY <1>1, <2>1, <2>2, <2>3, LogSettles
<1>5. CASE CommitFinish(h)
  <2> DEFINE status == AckStatus(outcome)
             done == CompleteEvent(disk[s], e, status)
  <2>1. disk'[s] = Finished(disk[s], e, outcome)
    BY <1>0, <1>1, <1>5 DEF CommitFinish, Commit
  <2>2. HasStatus(disk[s], e, "pending") /\ Seen(disk[s], e)
    BY <1>2, <1>5 DEF CommitFinish, LetThrough, Inside
  <2>3. status \in {"completed", "failed"} /\ done \in SessionStates
    BY <1>1, AckStatusType, CompleteEventType
  <2>4. disk'[s].events = done.events
    BY <2>1, <2>3, LifecycleOpsKeepRecords DEF Finished
  <2>5. disk'[s].life \in IF status = "completed" THEN {"idle"} ELSE {"failed", "crashed"}
    <3>1. done.life = IF status = "failed" THEN "failed" ELSE "idle"
      BY <2>2 DEF CompleteEvent
    <3>2. CASE outcome = "unusable"
      <4>1. disk'[s].life = "crashed" /\ status = "failed"
        BY <2>1, <2>3, <3>2 DEF Finished, MarkCrashed, AckStatus, SessionStates
      <4>2. QED
        BY <4>1
    <3>3. CASE outcome # "unusable"
      <4>1. disk'[s].life = done.life
        BY <2>1, <3>3 DEF Finished
      <4>2. QED
        BY <2>3, <3>1, <4>1
    <3>4. QED
      BY <3>2, <3>3
  <2> HIDE DEF status
  <2>6. Log!Next
    BY <1>1, <2>2, <2>3, <2>4, <2>5, LogSettles
  <2>7. QED
    BY <2>6
<1>6. CASE CommitGrant(h)
  <2>1. disk'[s] = SetPermissions(disk[s])
    BY <1>1, <1>6 DEF CommitGrant, Commit
  <2>2. HasStatus(disk[s], e, "pending")
    BY <1>2, <1>6 DEF CommitGrant, LetThrough, Inside
  <2>3. disk[s].life # "absent"
    BY <1>1, <2>2 DEF CopiesSound, StoreSound, RecordSound, LifeFits, HasStatus
  <2>4. \A x \in Sessions : disk'[x] = disk[x]
    BY <1>1, <2>1, <2>3 DEF SetPermissions, Ensure
  <2>5. QED
    BY <2>4, LogStutters
<1>7. QED
  BY <1>3, <1>4, <1>5, <1>6 DEF Txn

(* A tool's save is a pause or a resume of the log.                        *)
LEMMA LogToolSaves ==
  ASSUME TypeOK, Atomic, ResumesKnown, NEW t \in Tools, ToolSaves(t)
  PROVE  Log!Next
<1> DEFINE life == [x \in Sessions |-> disk[x].life]
           status == [f \in Events |-> StatusOf(disk[Target[f]], f)]
<1>0. PICK s \in Sessions : s = tool[t].session
  BY SaveInPlace
<1>1. /\ disk'[s] = Changed(tool[t].op, disk[s])
      /\ \A x \in Sessions : x # s => disk'[x] = disk[x]
      /\ \A x \in Sessions : disk'[x].events = disk[x].events
  BY <1>0, SaveInPlace
<1>2. /\ \A f \in Events : Target[f] \in Sessions
      /\ disk \in [Sessions -> SessionStates] /\ tool[t].op \in {"pause", "resume"}
  BY OwnerType DEF ToolSaves, TypeOK, FileTypes, Stores, ToolTypes
<1>3. status' = status
  <2>1. \A f \in Events : StatusOf(disk'[Target[f]], f) = StatusOf(disk[Target[f]], f)
    BY <1>1, <1>2, SameRecordsSameStatus
  <2>2. QED
    BY <2>1
<1>4. CASE tool[t].op = "pause"
  <2>1. disk'[s].life = "paused"
    BY <1>1, <1>2, <1>4 DEF Changed, Pause, SessionStates
  <2>2. life' = [life EXCEPT ![s] = "paused"]
    BY <1>1, <2>1
  <2>3. Log!PauseSession(s)
    BY <1>3, <2>2 DEF Log!PauseSession
  <2>4. QED
    BY <2>3 DEF Log!Next
<1>5. CASE tool[t].op = "resume"
  <2>1. disk'[s].life = "idle"
    BY <1>1, <1>2, <1>5 DEF Changed, Resume, SessionStates
  <2>2. life' = [life EXCEPT ![s] = "idle"]
    BY <1>1, <2>1
  <2>3. life[s] # "absent"
    <3>1. tool[t].snap = disk
      BY <1>2 DEF Atomic, ToolsAlone, ToolIdle
    <3>2. QED
      BY <1>0, <1>5, <3>1 DEF ResumesKnown
  <2>4. Log!ResumeSession(s)
    BY <1>3, <2>2, <2>3 DEF Log!ResumeSession
  <2>5. QED
    BY <2>4 DEF Log!Next
<1>6. QED
  BY <1>2, <1>4, <1>5

(* Every step of the daemon and the tools is a step of the log, or none.   *)
LEMMA LogStep ==
  ASSUME TypeOK, Atomic, CopiesSound, InFlightOnRecord, ResumesKnown, [Next]_vars
  PROVE  [Log!Next]_(Log!vars)
<1>1. CASE UNCHANGED disk
  BY <1>1, LogStutters
<1>2. QED
  BY <1>1, LogTxn, LogToolSaves, StepsByFile DEF OtherStep, ToolLoads, fileVars

(* Without overlap the daemon, the tools and the file they share implement *)
(* the log, for every instance, every order of deliveries, crashes, broken *)
(* connections and failed saves: a save is one operation on what is in the *)
(* file, an outcome finds its event pending, and what is evicted to make   *)
(* room is one other event of the same session (store.go:199-360).         *)
THEOREM StoreImplementsLog ==
  ASSUME Overlap = FALSE
  PROVE  Spec => ImplementsEventLog
<1>1. Init => Log!Init
  <2>1. \A e \in Events : StatusOf(Absent, e) = "none" /\ Target[e] \in Sessions
    BY OwnerType DEF StatusOf, Seen, Absent
  <2>2. QED
    BY <2>1 DEF Init, NoStore, Absent, Log!Init
<1>2. Init => ResumesKnown
  BY DEF Init, ResumesKnown, ToolIdle
<1>3. TypeOK /\ Atomic /\ [Next]_vars => Atomic'
  BY AtomicStep
<1>4. TypeOK /\ Atomic /\ HolderIsInside /\ InFlightOnRecord /\ [Next]_vars
        => InFlightOnRecord'
  BY FlightStep
<1>5. TypeOK /\ Atomic /\ CopiesSound /\ InFlightOnRecord /\ ResumesKnown /\ [Next]_vars
        => [Log!Next]_(Log!vars)
  BY LogStep
<1>6. QED
  BY <1>1, <1>2, <1>3, <1>4, <1>5, InitAnswers, InitAtomic, ResumesStep, HolderStep,
     SoundStep, TypeCorrect, PTL DEF Spec, ImplementsEventLog, Log!Spec
=============================================================================
