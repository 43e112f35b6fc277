-------------------------- MODULE WakeStoreProofs --------------------------
(***************************************************************************)
(* What the operations of WakeStore return, and which records they can     *)
(* turn into completed ones, for any set of events and any MaxHistory.     *)
(***************************************************************************)
EXTENDS WakeStore, SequenceTheorems, FiniteSetTheorems, FunctionTheorems, TLAPS

(* Setting the status of an event gives a list of records of the same      *)
(* length.                                                                 *)
LEMMA WithStatusType ==
  ASSUME NEW events \in Seq(EventRecords), NEW e \in Events,
         NEW status \in EventStatuses
  PROVE  /\ WithStatus(events, e, status) \in Seq(EventRecords)
         /\ DOMAIN WithStatus(events, e, status) = DOMAIN events
<1> DEFINE new == WithStatus(events, e, status)
<1>1. PICK n \in Nat : events \in [1..n -> EventRecords]
  BY SeqDef
<1>2. new \in [1..n -> EventRecords]
  BY <1>1 DEF WithStatus, Rec, EventRecords
<1>3. QED
  BY <1>1, <1>2, SeqDef

(* Cutting off the oldest records leaves a list of records.                *)
LEMMA NewestType ==
  ASSUME NEW events \in Seq(EventRecords)
  PROVE  Newest(events) \in Seq(EventRecords)
BY MaxHistoryAssumption DEF Newest

(* What is left after the eviction is the end of the list, within the      *)
(* limit, and includes the newest record; as few as can go are gone.       *)
LEMMA NewestIsSuffix ==
  ASSUME NEW events \in Seq(EventRecords)
  PROVE  \E off \in 0..Len(events) :
           /\ Len(Newest(events)) = Len(events) - off
           /\ Len(Newest(events)) <= MaxHistory
           /\ off = 0 \/ Len(Newest(events)) = MaxHistory
           /\ events # << >> => off < Len(events)
           /\ \A i \in 1..(Len(events) - off) : Newest(events)[i] = events[off + i]
<1> DEFINE n == Len(events)
           from == (n - MaxHistory) + 1
<1>1. n \in Nat
  OBVIOUS
<1> HIDE DEF n
<1>2. CASE n > MaxHistory
  <2>1. from \in 1..n /\ from \in Int /\ n \in Int /\ from <= n
    BY <1>1, <1>2, MaxHistoryAssumption
  <2>2. \A i \in from..n : events[i] \in EventRecords
    BY <2>1, <1>1, MaxHistoryAssumption DEF n
  <2>3. Newest(events) = SubSeq(events, from, n)
    BY <1>2 DEF Newest, n
  <2>4. (n - from) + 1 = MaxHistory /\ n - (from - 1) = MaxHistory
    BY <1>1, MaxHistoryAssumption
  <2> HIDE DEF from
  <2>5. /\ SubSeq(events, from, n) \in Seq(EventRecords)
        /\ Len(SubSeq(events, from, n)) = (n - from) + 1
        /\ \A i \in 1..(n - from) + 1 : SubSeq(events, from, n)[i] = events[(from + i) - 1]
    BY <2>1, <2>2, SubSeqProperties
  <2>6. \A i \in 1..MaxHistory : Newest(events)[i] = events[(from - 1) + i]
    BY <2>1, <2>3, <2>4, <2>5, MaxHistoryAssumption
  <2>7. from - 1 \in 0..n /\ from - 1 < n
    BY <2>1
  <2> DEFINE off == from - 1
  <2>8. Len(Newest(events)) = n - off /\ n - off = MaxHistory
    BY <2>3, <2>4, <2>5
  <2>9. off \in 0..Len(events) /\ off < Len(events) /\ n = Len(events)
    BY <2>7 DEF n
  <2>10. \A i \in 1..(Len(events) - off) : Newest(events)[i] = events[off + i]
    BY <2>6, <2>8, <2>9
  <2>11. /\ Len(Newest(events)) = MaxHistory /\ Len(Newest(events)) <= MaxHistory
         /\ Len(Newest(events)) = Len(events) - off
    BY <2>8, <2>9, MaxHistoryAssumption
  <2> HIDE DEF off
  <2>12. QED
    BY <2>9, <2>10, <2>11
<1>3. CASE ~(n > MaxHistory)
  <2>1. Newest(events) = events /\ Len(events) <= MaxHistory
    BY <1>1, <1>3, MaxHistoryAssumption DEF Newest, n
  <2>2. 0 \in 0..Len(events) /\ Len(events) - 0 = Len(events)
    OBVIOUS
  <2>3. events # << >> => 0 < Len(events)
    OBVIOUS
  <2>4. \A i \in 1..(Len(events) - 0) : Newest(events)[i] = events[0 + i]
    BY <2>1
  <2>5. QED
    BY <2>1, <2>2, <2>3, <2>4
<1>4. QED
  BY <1>2, <1>3

(* Eviction invents no record.                                             *)
LEMMA NewestElements ==
  ASSUME NEW events \in Seq(EventRecords)
  PROVE  \A i \in DOMAIN Newest(events) :
           \E j \in 1..Len(events) : Newest(events)[i] = events[j]
<1>1. PICK off \in 0..Len(events) :
        /\ Len(Newest(events)) = Len(events) - off
        /\ \A i \in 1..(Len(events) - off) : Newest(events)[i] = events[off + i]
  BY NewestIsSuffix
<1>2. ASSUME NEW i \in DOMAIN Newest(events)
      PROVE  \E j \in 1..Len(events) : Newest(events)[i] = events[j]
  <2>1. i \in 1..(Len(events) - off)
    BY <1>1, NewestType
  <2>2. off + i \in 1..Len(events)
    BY <2>1
  <2>3. QED
    BY <1>1, <2>1, <2>2
<1>3. QED
  BY <1>2

(* A record made of an event and a status is a record.                     *)
LEMMA RecType ==
  ASSUME NEW e \in Events, NEW status \in EventStatuses
  PROVE  Rec(e, status) \in EventRecords
BY DEF Rec, EventRecords

(* RecordDelivery maps session records to session records.                 *)
LEMMA RecordDeliveryType ==
  ASSUME NEW st \in SessionStates, NEW e \in Events
  PROVE  RecordDelivery(st, e) \in SessionStates
<1>1. st.events \in Seq(EventRecords) /\ st.life \in Lifecycles
  BY DEF SessionStates
<1>2. WithStatus(st.events, e, "pending") \in Seq(EventRecords)
  BY <1>1, WithStatusType DEF EventStatuses
<1>3. Newest(Append(st.events, Rec(e, "pending"))) \in Seq(EventRecords)
  <2>1. Rec(e, "pending") \in EventRecords
    BY RecType DEF EventStatuses
  <2>2. Append(st.events, Rec(e, "pending")) \in Seq(EventRecords)
    BY <1>1, <2>1
  <2>3. QED
    BY <2>2, NewestType
<1>4. QED
  BY <1>1, <1>2, <1>3 DEF RecordDelivery, SessionStates, Lifecycles

(* CompleteEvent maps session records to session records.                  *)
LEMMA CompleteEventType ==
  ASSUME NEW st \in SessionStates, NEW e \in Events,
         NEW status \in {"completed", "failed"}
  PROVE  CompleteEvent(st, e, status) \in SessionStates
<1>1. WithStatus(st.events, e, status) \in Seq(EventRecords)
  BY WithStatusType DEF EventStatuses, SessionStates
<1>2. QED
  BY <1>1 DEF CompleteEvent, SessionStates, Lifecycles

(* So do the operations that only change the lifecycle.                    *)
LEMMA LifecycleOpsType ==
  ASSUME NEW st \in SessionStates
  PROVE  /\ Pause(st) \in SessionStates
         /\ Resume(st) \in SessionStates
         /\ MarkCrashed(st) \in SessionStates
         /\ SetPermissions(st) \in SessionStates
BY DEF Pause, Resume, MarkCrashed, SetPermissions, Ensure, SessionStates, Lifecycles

(* A session that is not in the file has a record all the same.            *)
LEMMA AbsentType == Absent \in SessionStates
BY DEF Absent, SessionStates, Lifecycles

(* What a session record shows to the agent is a projection.               *)
LEMMA ProjectionType ==
  ASSUME NEW st \in SessionStates
  PROVE  Projection(st) \in Projections
BY DEF Projection, Projections, Pending, SessionStates

(* Recording a delivery completes nothing, whatever it evicts.             *)
LEMMA RecordCompletesNothing ==
  ASSUME NEW st \in SessionStates, NEW e \in Events, NEW f \in Events,
         HasStatus(RecordDelivery(st, e), f, "completed")
  PROVE  HasStatus(st, f, "completed")
<1> DEFINE new == RecordDelivery(st, e)
           pending == Rec(e, "pending")
<1>1. st.events \in Seq(EventRecords)
  BY DEF SessionStates
<1>2. CASE Duplicate(st, e)
  BY <1>2 DEF RecordDelivery
<1>3. CASE ~Duplicate(st, e) /\ Seen(st, e)
  <2>1. new.events = WithStatus(st.events, e, "pending")
    BY <1>3 DEF RecordDelivery
  <2>2. PICK i \in DOMAIN new.events : new.events[i] = Rec(f, "completed")
    BY DEF HasStatus
  <2>3. i \in DOMAIN st.events
    BY <1>1, <2>1, <2>2, WithStatusType DEF EventStatuses
  <2>4. new.events[i] # pending
    BY <2>2 DEF Rec
  <2>5. new.events[i] = st.events[i]
    BY <2>1, <2>3, <2>4 DEF WithStatus
  <2>6. QED
    BY <2>2, <2>3, <2>5 DEF HasStatus
<1>4. CASE ~Duplicate(st, e) /\ ~Seen(st, e)
  <2> DEFINE longer == Append(st.events, pending)
  <2>1. new.events = Newest(longer)
    BY <1>4 DEF RecordDelivery
  <2>2. pending \in EventRecords
    BY RecType DEF EventStatuses
  <2>3. longer \in Seq(EventRecords) /\ Len(longer) = Len(st.events) + 1
    BY <1>1, <2>2
  <2>4. \A i \in DOMAIN Newest(longer) :
          \E j \in 1..Len(longer) : Newest(longer)[i] = longer[j]
    BY <2>3, NewestElements
  <2>5. PICK i \in DOMAIN new.events : new.events[i] = Rec(f, "completed")
    BY DEF HasStatus
  <2>6. PICK j \in 1..Len(longer) : longer[j] = Rec(f, "completed")
    BY <2>1, <2>4, <2>5
  <2>7. j # Len(longer)
    BY <1>1, <2>2, <2>3, <2>6 DEF Rec
  <2>8. j \in DOMAIN st.events /\ st.events[j] = Rec(f, "completed")
    BY <1>1, <2>2, <2>3, <2>6, <2>7
  <2>9. QED
    BY <2>8 DEF HasStatus
<1>5. QED
  BY <1>2, <1>3, <1>4

(* CompleteEvent completes at most the event it is called for.             *)
LEMMA CompleteCompletesOne ==
  ASSUME NEW st \in SessionStates, NEW e \in Events, NEW f \in Events,
         NEW status \in {"completed", "failed"},
         HasStatus(CompleteEvent(st, e, status), f, "completed")
  PROVE  HasStatus(st, f, "completed") \/ (f = e /\ status = "completed")
<1> DEFINE new == CompleteEvent(st, e, status)
<1>1. CASE ~Seen(st, e)
  BY <1>1 DEF CompleteEvent
<1>2. CASE Seen(st, e)
  <2>1. new.events = WithStatus(st.events, e, status)
    BY <1>2 DEF CompleteEvent
  <2>2. PICK i \in DOMAIN new.events : new.events[i] = Rec(f, "completed")
    BY DEF HasStatus
  <2>3. i \in DOMAIN st.events
    <3>1. st.events \in Seq(EventRecords)
      BY DEF SessionStates
    <3>2. DOMAIN WithStatus(st.events, e, status) = DOMAIN st.events
      BY <3>1, WithStatusType DEF EventStatuses
    <3>3. QED
      BY <2>1, <2>2, <3>2
  <2>4. new.events[i] = st.events[i] \/ new.events[i] = Rec(e, status)
    BY <2>1, <2>3 DEF WithStatus
  <2>5. QED
    BY <2>2, <2>3, <2>4 DEF HasStatus, Rec
<1>3. QED
  BY <1>1, <1>2

(* A change of the lifecycle leaves the records alone.                     *)
LEMMA LifecycleOpsKeepRecords ==
  ASSUME NEW st \in SessionStates
  PROVE  /\ Pause(st).events = st.events
         /\ Resume(st).events = st.events
         /\ MarkCrashed(st).events = st.events
         /\ SetPermissions(st).events = st.events
BY DEF Pause, Resume, MarkCrashed, SetPermissions, Ensure, SessionStates

(* The history of a session: within its limit, and every event once.       *)
HistoryOK(st) ==
  /\ Len(st.events) <= MaxHistory
  /\ \A i, j \in DOMAIN st.events : st.events[i].event = st.events[j].event => i = j

(* Setting a status changes the event of no record.                        *)
LEMMA WithStatusKeepsHistory ==
  ASSUME NEW events \in Seq(EventRecords), NEW e \in Events, NEW status \in EventStatuses
  PROVE  /\ Len(WithStatus(events, e, status)) = Len(events)
         /\ \A i \in DOMAIN events : WithStatus(events, e, status)[i].event = events[i].event
<1>1. WithStatus(events, e, status) \in Seq(EventRecords)
  BY WithStatusType
<1>2. DOMAIN WithStatus(events, e, status) = DOMAIN events
  BY WithStatusType
<1>3. Len(WithStatus(events, e, status)) = Len(events)
  BY <1>1, <1>2
<1>4. QED
  BY <1>3 DEF WithStatus, Rec

(* A delivery is recorded once, and room is made for it.                   *)
LEMMA RecordKeepsHistory ==
  ASSUME NEW st \in SessionStates, NEW e \in Events, HistoryOK(st)
  PROVE  HistoryOK(RecordDelivery(st, e))
<1> DEFINE new == RecordDelivery(st, e)
           pending == Rec(e, "pending")
<1>1. st.events \in Seq(EventRecords)
  BY DEF SessionStates
<1>2. CASE Duplicate(st, e)
  BY <1>2 DEF RecordDelivery
<1>3. CASE ~Duplicate(st, e) /\ Seen(st, e)
  <2>1. new.events = WithStatus(st.events, e, "pending")
    BY <1>3 DEF RecordDelivery
  <2>2. "pending" \in EventStatuses
    BY DEF EventStatuses
  <2>3. /\ DOMAIN new.events = DOMAIN st.events /\ Len(new.events) = Len(st.events)
        /\ \A i \in DOMAIN st.events : new.events[i].event = st.events[i].event
    BY <1>1, <2>1, <2>2, WithStatusType, WithStatusKeepsHistory
  <2>4. QED
    BY <2>3 DEF HistoryOK
<1>4. CASE ~Duplicate(st, e) /\ ~Seen(st, e)
  <2> DEFINE longer == Append(st.events, pending)
  <2>1. new.events = Newest(longer)
    BY <1>4 DEF RecordDelivery
  <2>2. pending \in EventRecords /\ pending.event = e
    BY RecType DEF EventStatuses, Rec
  <2>3. longer \in Seq(EventRecords) /\ Len(longer) = Len(st.events) + 1
    BY <1>1, <2>2
  <2>4. \A i, j \in 1..Len(longer) : longer[i].event = longer[j].event => i = j
    <3>1. \A i \in 1..Len(st.events) : longer[i] = st.events[i] /\ longer[i].event # e
      BY <1>1, <1>4, <2>2 DEF Seen
    <3>2. longer[Len(longer)].event = e
      BY <1>1, <2>2, <2>3
    <3>3. \A i \in 1..Len(longer) : i \in 1..Len(st.events) \/ i = Len(longer)
      BY <1>1, <2>3
    <3>4. QED
      BY <1>1, <3>1, <3>2, <3>3 DEF HistoryOK
  <2> HIDE DEF longer, new, pending
  <2>5. PICK off \in 0..Len(longer) :
          /\ Len(Newest(longer)) = Len(longer) - off /\ Len(Newest(longer)) <= MaxHistory
          /\ \A i \in 1..(Len(longer) - off) : Newest(longer)[i] = longer[off + i]
    BY <2>3, NewestIsSuffix
  <2>6. Newest(longer) \in Seq(EventRecords)
    BY <2>3, NewestType
  <2>7. \A i \in DOMAIN Newest(longer) :
          /\ i \in 1..(Len(longer) - off) /\ off + i \in 1..Len(longer)
          /\ Newest(longer)[i] = longer[off + i]
    BY <2>5, <2>6
  <2>8. \A i, j \in DOMAIN Newest(longer) :
          Newest(longer)[i].event = Newest(longer)[j].event => i = j
    <3>1. ASSUME NEW i \in DOMAIN Newest(longer), NEW j \in DOMAIN Newest(longer),
                 Newest(longer)[i].event = Newest(longer)[j].event
          PROVE  i = j
      <4>1. off + i = off + j
        BY <2>4, <2>7, <3>1
      <4>2. QED
        BY <2>7, <4>1
    <3>2. QED
      BY <3>1
  <2>9. QED
    BY <2>1, <2>5, <2>8 DEF HistoryOK, new
<1>5. QED
  BY <1>2, <1>3, <1>4

(* So is the outcome.                                                      *)
LEMMA CompleteKeepsHistory ==
  ASSUME NEW st \in SessionStates, NEW e \in Events, NEW status \in {"completed", "failed"},
         HistoryOK(st)
  PROVE  HistoryOK(CompleteEvent(st, e, status))
<1>1. st.events \in Seq(EventRecords) /\ status \in EventStatuses
  BY DEF SessionStates, EventStatuses
<1>2. CASE Seen(st, e)
  <2>1. CompleteEvent(st, e, status).events = WithStatus(st.events, e, status)
    BY <1>2 DEF CompleteEvent
  <2>2. QED
    BY <1>1, <2>1, WithStatusType, WithStatusKeepsHistory DEF HistoryOK
<1>3. QED
  BY <1>2 DEF CompleteEvent

(* The delivery that is recorded is on record as pending, whatever is      *)
(* evicted for it.                                                         *)
LEMMA RecordedIsPending ==
  ASSUME NEW st \in SessionStates, NEW e \in Events, ~Duplicate(st, e)
  PROVE  HasStatus(RecordDelivery(st, e), e, "pending")
<1>1. st.events \in Seq(EventRecords)
  BY DEF SessionStates
<1>2. CASE Seen(st, e)
  <2>1. RecordDelivery(st, e).events = WithStatus(st.events, e, "pending")
    BY <1>2 DEF RecordDelivery
  <2>2. PICK i \in DOMAIN st.events : st.events[i].event = e
    BY <1>2 DEF Seen
  <2>3. WithStatus(st.events, e, "pending")[i] = Rec(e, "pending")
    BY <2>2 DEF WithStatus
  <2>4. DOMAIN WithStatus(st.events, e, "pending") = DOMAIN st.events
    BY DEF WithStatus
  <2>5. QED
    BY <2>1, <2>2, <2>3, <2>4 DEF HasStatus
<1>3. CASE ~Seen(st, e)
  <2> DEFINE pending == Rec(e, "pending")
             longer == Append(st.events, pending)
  <2>1. RecordDelivery(st, e).events = Newest(longer)
    BY <1>3 DEF RecordDelivery
  <2>2. pending \in EventRecords
    BY RecType DEF EventStatuses
  <2>3. longer \in Seq(EventRecords) /\ longer # << >> /\ longer[Len(longer)] = pending
    BY <1>1, <2>2
  <2> HIDE DEF longer, pending
  <2>4. PICK off \in 0..Len(longer) :
          /\ Len(Newest(longer)) = Len(longer) - off /\ off < Len(longer)
          /\ \A i \in 1..(Len(longer) - off) : Newest(longer)[i] = longer[off + i]
    BY <2>3, NewestIsSuffix
  <2>5. Newest(longer) \in Seq(EventRecords)
    BY <2>3, NewestType
  <2>6. Len(longer) - off \in DOMAIN Newest(longer) /\ Newest(longer)[Len(longer) - off] = pending
    BY <2>3, <2>4, <2>5
  <2>7. QED
    BY <2>1, <2>6 DEF HasStatus, pending
<1>4. QED
  BY <1>2, <1>3
-----------------------------------------------------------------------------
(* What stays on record.                                                   *)

(* An event on record has one status.                                      *)
LEMMA OneStatus ==
  ASSUME NEW st, HistoryOK(st), NEW e, HasStatus(st, e, "pending")
  PROVE  Seen(st, e) /\ ~HasStatus(st, e, "completed")
BY DEF HistoryOK, HasStatus, Seen, Rec

(* Nothing is evicted as long as a session has room for every event that   *)
(* it may be sent.                                                         *)
RoomFor(E) == IsFiniteSet(E) /\ Cardinality(E) <= MaxHistory

(* A history without some event has room for it.                           *)
LEMMA RoomForOneMore ==
  ASSUME NEW E, RoomFor(E), NEW st \in SessionStates, HistoryOK(st),
         \A f \in Events : Seen(st, f) => f \in E,
         NEW e \in E, ~Seen(st, e)
  PROVE  Len(st.events) < MaxHistory
<1> DEFINE n == Len(st.events)
           others == E \ {e}
           f == [i \in 1..n |-> st.events[i].event]
<1>1. st.events \in Seq(EventRecords) /\ n \in Nat
  BY DEF SessionStates
<1>2. \A i \in 1..n : i \in DOMAIN st.events /\ st.events[i].event \in others
  <2>1. \A i \in 1..n : i \in DOMAIN st.events /\ st.events[i] \in EventRecords
    BY <1>1
  <2>2. \A r \in EventRecords : r.event \in Events
    BY DEF EventRecords
  <2>3. \A i \in DOMAIN st.events : st.events[i].event # e
    BY DEF Seen
  <2>4. \A i \in 1..n : st.events[i].event \in E
    BY <2>1, <2>2 DEF Seen
  <2>5. QED
    BY <2>1, <2>3, <2>4
<1>3. f \in [1..n -> others] /\ \A i, j \in 1..n : f[i] = f[j] => i = j
  BY <1>2 DEF HistoryOK
<1>4. /\ IsFiniteSet(others) /\ Cardinality(others) = Cardinality(E) - 1
      /\ Cardinality(E) \in Nat
  BY FS_RemoveElement, FS_CardinalityType DEF RoomFor
<1> HIDE DEF f, others, n
<1>5. f \in Injection(1..n, others)
  BY <1>3, Fun_IsInj
<1>6. Cardinality(1..n) <= Cardinality(others)
  BY <1>4, <1>5, FS_Injection
<1>7. Cardinality(1..n) = n
  <2>1. Cardinality(1..n) = IF 1 > n THEN 0 ELSE n - 1 + 1
    BY <1>1, FS_Interval
  <2>2. QED
    BY <1>1, <2>1
<1>8. n < MaxHistory
  BY <1>1, <1>4, <1>6, <1>7, MaxHistoryAssumption DEF RoomFor
<1>9. QED
  BY <1>8 DEF n

(* Setting the status of one event keeps all events on record, and the     *)
(* status of every other one.                                              *)
LEMMA WithStatusKeepsOthers ==
  ASSUME NEW events \in Seq(EventRecords), NEW e \in Events, NEW status \in EventStatuses
  PROVE  /\ DOMAIN WithStatus(events, e, status) = DOMAIN events
         /\ \A i \in DOMAIN events :
              /\ WithStatus(events, e, status)[i].event = events[i].event
              /\ events[i].event = e => WithStatus(events, e, status)[i] = Rec(e, status)
              /\ events[i].event # e => WithStatus(events, e, status)[i] = events[i]
<1>1. DOMAIN WithStatus(events, e, status) = DOMAIN events
  BY WithStatusType
<1>2. \A i \in DOMAIN events : WithStatus(events, e, status)[i].event = events[i].event
  BY WithStatusKeepsHistory
<1>3. \A i \in DOMAIN events :
        /\ events[i].event = e => WithStatus(events, e, status)[i] = Rec(e, status)
        /\ events[i].event # e => WithStatus(events, e, status)[i] = events[i]
  BY DEF WithStatus
<1>4. QED
  BY <1>1, <1>2, <1>3

(* With room for every event a delivery takes nothing off the record, and  *)
(* a completed event stays completed.                                      *)
LEMMA RecordKeepsRecords ==
  ASSUME NEW E, RoomFor(E), NEW st \in SessionStates, HistoryOK(st),
         \A g \in Events : Seen(st, g) => g \in E,
         NEW e \in Events, e \in E, NEW f \in Events
  PROVE  /\ Seen(st, f) => Seen(RecordDelivery(st, e), f)
         /\ HasStatus(st, f, "completed") => HasStatus(RecordDelivery(st, e), f, "completed")
<1> DEFINE new == RecordDelivery(st, e)
<1>1. st.events \in Seq(EventRecords) /\ "pending" \in EventStatuses
  BY DEF SessionStates, EventStatuses
<1>2. CASE Duplicate(st, e)
  BY <1>2 DEF RecordDelivery
<1>3. CASE ~Duplicate(st, e) /\ Seen(st, e)
  <2>1. new.events = WithStatus(st.events, e, "pending")
    BY <1>3 DEF RecordDelivery
  <2>2. /\ DOMAIN new.events = DOMAIN st.events
        /\ \A i \in DOMAIN st.events :
             /\ new.events[i].event = st.events[i].event
             /\ st.events[i].event # e => new.events[i] = st.events[i]
    BY <1>1, <2>1, WithStatusKeepsOthers
  <2>3. HasStatus(st, f, "completed") => f # e
    BY <1>3 DEF Duplicate
  <2>4. QED
    BY <2>2, <2>3 DEF Seen, HasStatus, Rec
<1>4. CASE ~Duplicate(st, e) /\ ~Seen(st, e)
  <2> DEFINE longer == Append(st.events, Rec(e, "pending"))
  <2>1. Rec(e, "pending") \in EventRecords
    BY <1>1, RecType
  <2>2. Len(longer) <= MaxHistory
    BY <1>1, <1>4, <2>1, RoomForOneMore, MaxHistoryAssumption
  <2>3. new.events = longer
    BY <1>1, <1>4, <2>1, <2>2, MaxHistoryAssumption DEF RecordDelivery, Newest
  <2>4. \A i \in DOMAIN st.events : i \in DOMAIN longer /\ longer[i] = st.events[i]
    BY <1>1, <2>1
  <2>5. QED
    BY <2>3, <2>4 DEF Seen, HasStatus
<1>5. QED
  BY <1>2, <1>3, <1>4

(* An outcome takes nothing off the record, and changes only the status    *)
(* of its own event, to that outcome.                                      *)
LEMMA CompleteKeepsRecords ==
  ASSUME NEW st \in SessionStates, NEW e \in Events, NEW f \in Events,
         NEW status \in {"completed", "failed"}
  PROVE  /\ Seen(st, f) => Seen(CompleteEvent(st, e, status), f)
         /\ f # e /\ HasStatus(st, f, "completed")
              => HasStatus(CompleteEvent(st, e, status), f, "completed")
         /\ Seen(st, e) => HasStatus(CompleteEvent(st, e, status), e, status)
<1> DEFINE new == CompleteEvent(st, e, status)
<1>1. st.events \in Seq(EventRecords) /\ status \in EventStatuses
  BY DEF SessionStates, EventStatuses
<1>2. CASE Seen(st, e)
  <2>1. new.events = WithStatus(st.events, e, status)
    BY <1>2 DEF CompleteEvent
  <2>2. /\ DOMAIN new.events = DOMAIN st.events
        /\ \A i \in DOMAIN st.events :
             /\ new.events[i].event = st.events[i].event
             /\ st.events[i].event = e => new.events[i] = Rec(e, status)
             /\ st.events[i].event # e => new.events[i] = st.events[i]
    BY <1>1, <2>1, WithStatusKeepsOthers
  <2>3. QED
    BY <2>2 DEF Seen, HasStatus, Rec
<1>3. CASE ~Seen(st, e)
  BY <1>3 DEF CompleteEvent
<1>4. QED
  BY <1>2, <1>3
-----------------------------------------------------------------------------
(* What the record says of an event, and how the operations change it.     *)

(* A good history says of an event on record what its record says.         *)
LEMMA StatusKnown ==
  ASSUME NEW st, HistoryOK(st), NEW e, NEW status \in EventStatuses,
         HasStatus(st, e, status)
  PROVE  StatusOf(st, e) = status
<1>1. Seen(st, e)
  BY DEF HasStatus, Seen, Rec
<1>2. \A other \in EventStatuses : HasStatus(st, e, other) => other = status
  BY DEF HistoryOK, HasStatus, Rec
<1>3. QED
  BY <1>1, <1>2 DEF StatusOf

(* An event on record has some status.                                     *)
LEMMA SeenHasStatus ==
  ASSUME NEW st \in SessionStates, NEW e, Seen(st, e)
  PROVE  \E status \in EventStatuses : HasStatus(st, e, status)
<1>1. PICK i \in DOMAIN st.events : st.events[i].event = e
  BY DEF Seen
<1>2. st.events[i] \in EventRecords
  <2>1. st.events \in Seq(EventRecords)
    BY DEF SessionStates
  <2>2. QED
    BY <1>1, <2>1
<1>3. st.events[i].status \in EventStatuses /\ st.events[i] = Rec(e, st.events[i].status)
  BY <1>1, <1>2 DEF EventRecords, Rec
<1>4. QED
  BY <1>1, <1>3 DEF HasStatus

(* Two good histories with the same record of an event say the same of it. *)
LEMMA SameStatus ==
  ASSUME NEW st \in SessionStates, HistoryOK(st), NEW new, HistoryOK(new), NEW e,
         Seen(new, e) => Seen(st, e),
         \A status \in EventStatuses : HasStatus(st, e, status) => HasStatus(new, e, status)
  PROVE  StatusOf(new, e) = StatusOf(st, e)
<1>1. CASE Seen(st, e)
  <2>1. PICK status \in EventStatuses : HasStatus(st, e, status)
    BY <1>1, SeenHasStatus
  <2>2. QED
    BY <2>1, StatusKnown
<1>2. CASE ~Seen(st, e)
  BY <1>2 DEF StatusOf
<1>3. QED
  BY <1>1, <1>2

(* Setting the status of an event on record changes what is said of it and *)
(* of no other.                                                            *)
LEMMA StatusSet ==
  ASSUME NEW st \in SessionStates, HistoryOK(st), NEW e \in Events, Seen(st, e),
         NEW status \in EventStatuses,
         NEW new, HistoryOK(new), new.events = WithStatus(st.events, e, status)
  PROVE  /\ StatusOf(new, e) = status
         /\ \A f \in Events : f # e => StatusOf(new, f) = StatusOf(st, f)
<1>1. st.events \in Seq(EventRecords)
  BY DEF SessionStates
<1>2. /\ DOMAIN new.events = DOMAIN st.events
      /\ \A i \in DOMAIN st.events :
           /\ new.events[i].event = st.events[i].event
           /\ st.events[i].event = e => new.events[i] = Rec(e, status)
           /\ st.events[i].event # e => new.events[i] = st.events[i]
  BY <1>1, WithStatusKeepsOthers
<1>3. HasStatus(new, e, status)
  BY <1>2 DEF Seen, HasStatus
<1>4. ASSUME NEW f \in Events, f # e
      PROVE  StatusOf(new, f) = StatusOf(st, f)
  <2>1. Seen(new, f) => Seen(st, f)
    BY <1>2 DEF Seen
  <2>2. \A other \in EventStatuses : HasStatus(st, f, other) => HasStatus(new, f, other)
    BY <1>2, <1>4 DEF HasStatus, Rec
  <2>3. QED
    BY <2>1, <2>2, SameStatus
<1>5. QED
  BY <1>3, <1>4, StatusKnown

(* An outcome of an event on record settles that event and no other.       *)
LEMMA CompleteSettles ==
  ASSUME NEW st \in SessionStates, HistoryOK(st), NEW e \in Events, Seen(st, e),
         NEW status \in {"completed", "failed"}
  PROVE  /\ StatusOf(CompleteEvent(st, e, status), e) = status
         /\ \A f \in Events : f # e =>
              StatusOf(CompleteEvent(st, e, status), f) = StatusOf(st, f)
<1>1. CompleteEvent(st, e, status).events = WithStatus(st.events, e, status)
  BY DEF CompleteEvent
<1>2. status \in EventStatuses /\ HistoryOK(CompleteEvent(st, e, status))
  BY CompleteKeepsHistory DEF EventStatuses
<1>3. QED
  BY <1>1, <1>2, StatusSet

(* What an event that is not on record yet takes the place of: the oldest  *)
(* record of a list that is full, or nothing.                              *)
Evicted(st, e) ==
  IF Seen(st, e) \/ Len(st.events) < MaxHistory THEN {} ELSE {st.events[1].event}

(* A delivery makes its event pending.  It changes nothing of the others   *)
(* but that the oldest one is forgotten if a new one finds the list full.  *)
LEMMA RecordDelivers ==
  ASSUME NEW st \in SessionStates, HistoryOK(st), NEW e \in Events, ~Duplicate(st, e)
  PROVE  /\ StatusOf(RecordDelivery(st, e), e) = "pending"
         /\ e \notin Evicted(st, e)
         /\ \A f \in Events : f # e =>
              StatusOf(RecordDelivery(st, e), f)
                = IF f \in Evicted(st, e) THEN "none" ELSE StatusOf(st, f)
<1> DEFINE new == RecordDelivery(st, e)
           n == Len(st.events)
<1>0. st.events \in Seq(EventRecords) /\ n \in Nat /\ n <= MaxHistory
  BY DEF SessionStates, HistoryOK
<1>1. HistoryOK(new) /\ "pending" \in EventStatuses /\ HasStatus(new, e, "pending")
  BY RecordKeepsHistory, RecordedIsPending DEF EventStatuses
<1>2. CASE Seen(st, e)
  <2>1. new.events = WithStatus(st.events, e, "pending") /\ Evicted(st, e) = {}
    BY <1>2 DEF RecordDelivery, Evicted
  <2> HIDE DEF new
  <2>2. QED
    BY <1>1, <1>2, <2>1, StatusSet DEF new
<1>3. CASE ~Seen(st, e)
  <2> DEFINE pending == Rec(e, "pending")
             longer == Append(st.events, pending)
  <2>1. new.events = Newest(longer)
    BY <1>3 DEF RecordDelivery
  <2>2. pending \in EventRecords /\ pending.event = e
    BY <1>1, RecType DEF Rec
  <2>3. /\ longer \in Seq(EventRecords) /\ Len(longer) = n + 1 /\ longer # << >>
        /\ longer[n + 1] = pending /\ \A i \in 1..n : longer[i] = st.events[i]
    BY <1>0, <2>2
  <2> HIDE DEF longer, pending, new
  <2>4. PICK off \in 0..Len(longer) :
          /\ Len(Newest(longer)) = Len(longer) - off
          /\ Len(Newest(longer)) <= MaxHistory
          /\ off = 0 \/ Len(Newest(longer)) = MaxHistory
          /\ off < Len(longer)
          /\ \A i \in 1..(Len(longer) - off) : Newest(longer)[i] = longer[off + i]
    BY <2>3, NewestIsSuffix
  <2>5. /\ off = IF n < MaxHistory THEN 0 ELSE 1
        /\ DOMAIN new.events = 1..(n + 1 - off)
        /\ \A i \in 1..(n + 1 - off) : new.events[i] = longer[off + i]
    BY <1>0, <2>1, <2>3, <2>4, NewestType, MaxHistoryAssumption
  <2>6. \A i \in 1..n : st.events[i].event # e
    BY <1>0, <1>3 DEF Seen
  <2>7. Evicted(st, e) = IF off = 0 THEN {} ELSE {st.events[1].event}
    BY <1>0, <1>3, <2>5 DEF Evicted
  <2>8. off = 1 => 1 \in 1..n
    BY <1>0, <2>5, MaxHistoryAssumption
  <2>9. e \notin Evicted(st, e)
    BY <2>6, <2>7, <2>8, <2>5
  <2>10. ASSUME NEW f \in Events, f # e
         PROVE  StatusOf(new, f) = IF f \in Evicted(st, e) THEN "none" ELSE StatusOf(st, f)
    <3>1. \A i \in DOMAIN new.events : new.events[i].event = f =>
            off + i \in 1..n /\ new.events[i] = st.events[off + i]
      <4> SUFFICES ASSUME NEW i \in 1..(n + 1 - off), new.events[i].event = f
                   PROVE  off + i \in 1..n /\ new.events[i] = st.events[off + i]
        BY <2>5
      <4>1. new.events[i] = longer[off + i] /\ off + i \in 1..(n + 1)
        BY <1>0, <2>5
      <4>2. off + i # n + 1
        BY <2>2, <2>3, <2>10, <4>1
      <4>3. off + i \in 1..n
        BY <1>0, <4>1, <4>2
      <4>4. longer[off + i] = st.events[off + i]
        BY <2>3, <4>3
      <4>5. QED
        BY <4>1, <4>3, <4>4
    <3>2. CASE f \in Evicted(st, e)
      <4>1. off = 1 /\ st.events[1].event = f
        BY <2>7, <3>2, <2>5
      <4>2. \A j \in 1..n : st.events[j].event = f => j = 1
        BY <1>0, <2>8, <4>1 DEF HistoryOK
      <4>3. ASSUME NEW i \in DOMAIN new.events, new.events[i].event = f
            PROVE  FALSE
        <5>1. off + i \in 1..n /\ st.events[off + i].event = f /\ i \in 1..(n + 1 - off)
          BY <2>5, <3>1, <4>3
        <5>2. off + i = 1
          BY <4>2, <5>1
        <5>3. QED
          BY <4>1, <5>1, <5>2
      <4>4. QED
        BY <3>2, <4>3 DEF StatusOf, Seen
    <3>3. CASE f \notin Evicted(st, e)
      <4>1. Seen(new, f) => Seen(st, f)
        BY <1>0, <3>1 DEF Seen
      <4>2. ASSUME NEW status \in EventStatuses, HasStatus(st, f, status)
            PROVE  HasStatus(new, f, status)
        <5>1. PICK j \in 1..n : st.events[j] = Rec(f, status)
          BY <1>0, <4>2 DEF HasStatus
        <5>2. off < j
          BY <2>5, <2>7, <3>3, <5>1 DEF Rec
        <5>3. j - off \in 1..(n + 1 - off) /\ off + (j - off) = j
          BY <1>0, <2>5, <5>1, <5>2
        <5>4. new.events[j - off] = Rec(f, status)
          BY <2>3, <2>5, <5>1, <5>3
        <5>5. QED
          BY <2>5, <5>3, <5>4 DEF HasStatus
      <4>3. QED
        BY <1>1, <3>3, <4>1, <4>2, SameStatus
    <3>4. QED
      BY <3>2, <3>3
  <2>11. StatusOf(new, e) = "pending"
    BY <1>1, StatusKnown
  <2>12. QED
    BY <2>9, <2>10, <2>11 DEF new
<1>4. QED
  BY <1>2, <1>3
-----------------------------------------------------------------------------
(* How a session's lifecycle and its records fit together: a session that  *)
(* is running has something to run, and an absent one has no records.      *)
LifeFits(st) ==
  /\ st.life = "running" => Pending(st) # {}
  /\ st.life = "absent" => st.events = << >>

(* Recording a delivery leaves a session that is gated or has the event to *)
(* run.                                                                    *)
LEMMA RecordKeepsLife ==
  ASSUME NEW st \in SessionStates, NEW e \in Events, LifeFits(st)
  PROVE  LifeFits(RecordDelivery(st, e))
<1>1. CASE Duplicate(st, e)
  BY <1>1 DEF RecordDelivery
<1>2. CASE ~Duplicate(st, e)
  <2>1. HasStatus(RecordDelivery(st, e), e, "pending")
    BY <1>2, RecordedIsPending
  <2>2. Pending(RecordDelivery(st, e)) # {}
    BY <2>1 DEF Pending
  <2>3. RecordDelivery(st, e).life # "absent"
    BY <1>2 DEF RecordDelivery, Gate
  <2>4. QED
    BY <2>2, <2>3 DEF LifeFits
<1>3. QED
  BY <1>1, <1>2

(* An outcome leaves a session that neither runs nor is absent, or         *)
(* everything as it was.                                                   *)
LEMMA CompleteKeepsLife ==
  ASSUME NEW st \in SessionStates, NEW e \in Events, NEW status, LifeFits(st)
  PROVE  LifeFits(CompleteEvent(st, e, status))
<1>1. CASE Seen(st, e)
  <2>1. CompleteEvent(st, e, status).life \in {"failed", "idle"}
    BY <1>1 DEF CompleteEvent
  <2>2. QED
    BY <2>1 DEF LifeFits
<1>2. CASE ~Seen(st, e)
  BY <1>2 DEF CompleteEvent
<1>3. QED
  BY <1>1, <1>2

(* So do the operations on the lifecycle.                                  *)
LEMMA LifecycleOpsKeepLife ==
  ASSUME NEW st \in SessionStates, LifeFits(st)
  PROVE  /\ LifeFits(Pause(st)) /\ LifeFits(Resume(st))
         /\ LifeFits(MarkCrashed(st)) /\ LifeFits(SetPermissions(st))
<1>1. /\ Pause(st).life = "paused" /\ Resume(st).life = "idle"
      /\ MarkCrashed(st).life = "crashed"
      /\ SetPermissions(st).life = "idle" \/ SetPermissions(st) = st
  BY DEF Pause, Resume, MarkCrashed, SetPermissions, Ensure, SessionStates
<1>2. QED
  BY <1>1 DEF LifeFits

(* A delivery puts no event on record but its own, an outcome none.        *)
LEMMA RecordSees ==
  ASSUME NEW st \in SessionStates, NEW e \in Events, NEW f \in Events
  PROVE  /\ Seen(RecordDelivery(st, e), f) => f = e \/ Seen(st, f)
         /\ \A status \in EventStatuses :
              Seen(CompleteEvent(st, e, status), f) => Seen(st, f)
<1>1. st.events \in Seq(EventRecords) /\ "pending" \in EventStatuses
  BY DEF SessionStates, EventStatuses
<1>2. ASSUME NEW status \in EventStatuses, NEW i \in DOMAIN WithStatus(st.events, e, status),
             WithStatus(st.events, e, status)[i].event = f
      PROVE  Seen(st, f)
  BY <1>1, <1>2, WithStatusKeepsOthers DEF Seen
<1>3. ASSUME Seen(RecordDelivery(st, e), f), f # e, ~Duplicate(st, e), ~Seen(st, e)
      PROVE  Seen(st, f)
  <2> DEFINE longer == Append(st.events, Rec(e, "pending"))
  <2>1. RecordDelivery(st, e).events = Newest(longer)
    BY <1>3 DEF RecordDelivery
  <2>2. Rec(e, "pending") \in EventRecords /\ Rec(e, "pending").event = e
    BY <1>1, RecType DEF Rec
  <2>3. longer \in Seq(EventRecords)
    BY <1>1, <2>2
  <2>4. PICK i \in DOMAIN Newest(longer) : Newest(longer)[i].event = f
    BY <1>3, <2>1 DEF Seen
  <2>5. PICK j \in 1..Len(longer) : longer[j].event = f
    BY <2>3, <2>4, NewestElements
  <2>6. j \in DOMAIN st.events /\ st.events[j].event = f
    BY <1>1, <1>3, <2>2, <2>5
  <2>7. QED
    BY <2>6 DEF Seen
<1>4. Seen(RecordDelivery(st, e), f) => f = e \/ Seen(st, f)
  BY <1>1, <1>2, <1>3 DEF RecordDelivery, Seen
<1>5. \A status \in EventStatuses : Seen(CompleteEvent(st, e, status), f) => Seen(st, f)
  BY <1>2 DEF CompleteEvent, Seen
<1>6. QED
  BY <1>4, <1>5
=============================================================================
