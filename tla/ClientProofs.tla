---------------------------- MODULE ClientProofs ----------------------------
(***************************************************************************)
(* Theorems about Client, for every set of client processes with any       *)
(* options, any number of connections, events and breaks of the network.   *)
(***************************************************************************)
EXTENDS Client, SequenceTheorems, TLAPS

(* A client has a connection while it runs, and an event while it handles. *)
Fits(p) ==
  /\ p.conn # None <=> p.pc \in {"reading", "handling", "closing"}
  /\ p.event # None <=> p.pc = "handling"

ProcessesOK == client \in [Clients -> Processes] /\ \A c \in Clients : Fits(client[c])

(* No connection, event or session is None.                                *)
LEMMA NoneIsNothing ==
  None \notin Clients /\ None \notin Conns /\ None \notin Events /\ None \notin Sessions
BY NoneAssumption

(* A process that is not connected is one.                                 *)
LEMMA ProcessType ==
  ASSUME NEW pc \in {"off", "delay", "done"}
  PROVE  Process(pc) \in Processes /\ Fits(Process(pc))
BY DEF Process, Processes, Fits

(* Where a process goes after Run has returned, it is not connected.       *)
LEMMA AfterType ==
  ASSUME NEW c \in Clients, NEW ok \in BOOLEAN
  PROVE  After(c, ok) \in Processes /\ Fits(After(c, ok))
BY ProcessType DEF After

(* The process of one client moves to another state of a process.          *)
LEMMA MovesType ==
  ASSUME ProcessesOK, NEW c \in Clients, NEW p \in Processes, Fits(p), Moves(c, p)
  PROVE  ProcessesOK'
<1>1. /\ client' \in [Clients -> Processes]
      /\ \A x \in Clients : client'[x] = IF x = c THEN p ELSE client[x]
  BY DEF Moves, ProcessesOK
<1>2. QED
  BY <1>1 DEF ProcessesOK, Fits

(* A client that is reading, handling or closing has a connection.         *)
LEMMA OnType ==
  ASSUME ProcessesOK, NEW c \in Clients, client[c].pc \in {"reading", "handling", "closing"}
  PROVE  On(c) \in Conns
BY DEF ProcessesOK, Processes, Fits, On

(* What is left of a queue, and what was taken from it.                    *)
LEMMA QueueType ==
  ASSUME NEW S, NEW q \in Seq(S), q # << >>
  PROVE  Head(q) \in S /\ Tail(q) \in Seq(S)
BY HeadTailProperties

(* Frames are what their kind says.                                        *)
LEMMA FrameTypes ==
  /\ Frame("welcome", None) \in DownFrames
  /\ Frame("hello", None) \in UpFrames
  /\ \A s \in Sessions : Frame("request", s) \in DownFrames /\ Frame("bind", s) \in UpFrames
  /\ \A e \in Events : Frame("deliver", e) \in DownFrames
  /\ \A e \in Events, status \in AckStatuses : AckFrame(e, status) \in UpFrames
BY DEF Frame, AckFrame, DownFrames, UpFrames

(* The sessions of a client are bound one by one.                          *)
LEMMA BindsType ==
  ASSUME NEW c \in Clients
  PROVE  [i \in DOMAIN Options[c].sessions |-> Frame("bind", Options[c].sessions[i])] \in Seq(UpFrames)
<1> DEFINE binds == [i \in DOMAIN Options[c].sessions |-> Frame("bind", Options[c].sessions[i])]
<1>1. Options[c].sessions \in Seq(Sessions)
  BY OptionsAssumption DEF OptionSets
<1>2. \A i \in DOMAIN Options[c].sessions : Frame("bind", Options[c].sessions[i]) \in UpFrames
  BY <1>1, FrameTypes
<1>3. PICK n \in Nat : Options[c].sessions \in [1..n -> Sessions]
  BY <1>1, SeqDef
<1>4. binds \in [1..n -> UpFrames]
  BY <1>2, <1>3
<1>5. QED
  BY <1>4, SeqDef

(* And a frame that was read is about what its kind says.                  *)
LEMMA AboutTypes ==
  /\ \A f \in DownFrames : f.kind = "deliver" => f.about \in Events
  /\ \A f \in UpFrames : /\ f.kind = "bind" => f.about \in Sessions
                         /\ f.kind \in AckStatuses => f.about \in Events
BY DEF DownFrames, UpFrames, AckStatuses

(* The frame at the head of a queue, read by its client.                   *)
LEMMA ReadsType ==
  ASSUME TypeOK, NEW c \in Clients, Reads(c)
  PROVE  /\ On(c) \in Conns /\ Head(down[On(c)]) \in DownFrames
         /\ Head(down[On(c)]).kind = "deliver" => Head(down[On(c)]).about \in Events
<1>1. ProcessesOK
  BY DEF TypeOK, ClientTypes, ProcessesOK, Fits, On, At
<1>2. On(c) \in Conns
  BY <1>1, OnType DEF Reads, At
<1>3. Head(down[On(c)]) \in DownFrames
  BY <1>2, QueueType DEF Reads, TypeOK, NetTypes
<1>4. QED
  BY <1>2, <1>3, AboutTypes

(* The frame at the head of a queue, received by its coroutine.            *)
LEMMA ReceivesType ==
  ASSUME NetTypes, NEW k \in Conns, NEW kind, Receives(k, kind)
  PROVE  /\ upward' \in [Conns -> Seq(UpFrames)]
         /\ Head(upward[k]) \in UpFrames /\ Head(upward[k]).kind = kind
BY QueueType DEF Receives, NetTypes

(* A connection is dialed: a free one becomes this client's.               *)
LEMMA DialType ==
  ASSUME TypeOK, NEW c \in Clients, Dial(c)
  PROVE  ProcessesOK' /\ work' \in [Conns -> [Events -> Nat]] /\ NetTypes'
         /\ ProviderTypes' /\ HistoryTypes'
<1>1. PICK k \in Conns :
        /\ Moves(c, [Process("reading") EXCEPT !.conn = k])
        /\ link' = [link EXCEPT ![k] = "open"]
        /\ upward' = [upward EXCEPT ![k] = <<Frame("hello", None)>>]
        /\ coroutine' = [coroutine EXCEPT ![k] = [Gone EXCEPT !.pc = "hello"]]
        /\ UNCHANGED <<work, down, current, known, prov, outbox, drops, boundOn, ranOK>>
  BY DEF Dial
<1>2. ProcessesOK
  BY DEF TypeOK, ClientTypes, ProcessesOK, Fits, On, At
<1>3. ProcessesOK'
  <2> DEFINE p == [Process("reading") EXCEPT !.conn = k]
  <2>1. p \in Processes /\ Fits(p)
    BY NoneIsNothing DEF Process, Processes, Fits
  <2> HIDE DEF p
  <2>2. Moves(c, p)
    BY <1>1 DEF p
  <2>3. QED
    BY <1>2, <2>1, <2>2, MovesType
<1>4. NetTypes'
  <2>1. <<Frame("hello", None)>> \in Seq(UpFrames)
    BY FrameTypes
  <2>2. QED
    BY <1>1, <2>1 DEF TypeOK, NetTypes
<1>5. ProviderTypes'
  <2> DEFINE g == [Gone EXCEPT !.pc = "hello"]
  <2>1. g \in Coroutines /\ g.pc = "hello"
    BY DEF Gone, Coroutines
  <2>2. coroutine' = [coroutine EXCEPT ![k] = g]
    BY <1>1
  <2> HIDE DEF g
  <2>3. QED
    BY <1>1, <2>1, <2>2 DEF TypeOK, ProviderTypes
<1>6. QED
  BY <1>1, <1>3, <1>4, <1>5 DEF TypeOK, ClientTypes, HistoryTypes

(* A connection whose Run returns is closed, and free if the provider has  *)
(* given it up.                                                            *)
LEMMA LeaveType ==
  ASSUME TypeOK, NEW c \in Clients, On(c) \in Conns,
         client[c].pc \in {"reading", "handling", "closing"}, NEW ok \in BOOLEAN, Leave(c, ok)
  PROVE  /\ ProcessesOK'
         /\ link' \in [Conns -> {"free", "open", "shut"}]
         /\ down' \in [Conns -> Seq(DownFrames)]
<1> DEFINE p == [client[c] EXCEPT !.pc = "closing", !.ok = ok, !.event = None]
<1>1. ProcessesOK
  BY DEF TypeOK, ClientTypes, ProcessesOK, Fits, On, At
<1>2. p \in Processes /\ Fits(p)
  <2>1. client[c] \in Processes
    BY <1>1 DEF ProcessesOK
  <2>2. p \in Processes /\ p.pc = "closing" /\ p.conn = On(c) /\ p.event = None
    BY <2>1 DEF Processes, On
  <2> HIDE DEF p
  <2>3. QED
    BY <2>2, NoneIsNothing DEF Fits
<1>3. Moves(c, After(c, ok)) \/ Moves(c, p)
  BY DEF Leave
<1> HIDE DEF p
<1>4. ProcessesOK'
  BY <1>1, <1>2, <1>3, AfterType, MovesType
<1>5. QED
  BY <1>4 DEF Leave, Closed, TypeOK, NetTypes

(* An answer is a frame, written or not, and a success is recorded.        *)
LEMMA AnswersType ==
  ASSUME TypeOK, NEW c \in Clients, On(c) \in Conns, NEW e \in Events,
         NEW failed \in BOOLEAN, Answers(c, e, failed)
  PROVE  upward' \in [Conns -> Seq(UpFrames)] /\ ranOK' \subseteq Events
<1>1. AckFrame(e, Outcome(c, failed)) \in UpFrames
  BY FrameTypes DEF Outcome, AckStatuses
<1>2. QED
  BY <1>1 DEF Answers, TypeOK, NetTypes, HistoryTypes

(* A write puts a frame at the end of the queue, or nothing.               *)
LEMMA WritesType ==
  ASSUME TypeOK, NEW k \in Conns, NEW f \in DownFrames, Writes(k, f)
  PROVE  down' \in [Conns -> Seq(DownFrames)]
BY DEF Writes, TypeOK, NetTypes

(* So does a send to the current connection.                               *)
LEMMA SendType ==
  ASSUME TypeOK, NEW e \in Events, SendCurrent(e)
  PROVE  down' \in [Conns -> Seq(DownFrames)] /\ current' \in Conns \cup {None}
<1>1. CASE current # None /\ link[current] = "open"
  <2>1. current \in Conns /\ Frame("deliver", e) \in DownFrames
    BY <1>1, FrameTypes DEF TypeOK, ProviderTypes
  <2>2. /\ current' = current
        /\ down' = [down EXCEPT ![current] = Append(@, Frame("deliver", e))]
    BY <1>1 DEF SendCurrent
  <2>3. down' \in [Conns -> Seq(DownFrames)]
    BY <2>1, <2>2 DEF TypeOK, NetTypes
  <2>4. QED
    BY <2>1, <2>2, <2>3
<1>2. CASE ~(current # None /\ link[current] = "open")
  BY <1>2 DEF SendCurrent, TypeOK, ProviderTypes, NetTypes
<1>3. QED
  BY <1>1, <1>2

(* The coroutine of one connection moves on.                               *)
LEMMA CoroutineType ==
  ASSUME ProviderTypes, NEW k \in Conns, NEW g \in Coroutines,
         g.pc = "request" => g.session # None,
         coroutine' = [coroutine EXCEPT ![k] = g]
  PROVE  /\ coroutine' \in [Conns -> Coroutines]
         /\ \A j \in Conns : coroutine'[j].pc = "request" => coroutine'[j].session # None
BY DEF ProviderTypes

(* deliver_pending takes a copy of the pending deliveries, or of what is   *)
(* left of them.                                                           *)
LEMMA ReplayingType ==
  ASSUME ProviderTypes, NEW k \in Conns, NEW E \in SUBSET Events, Replaying(k, E)
  PROVE  /\ coroutine' \in [Conns -> Coroutines]
         /\ \A j \in Conns : coroutine'[j].pc = "request" => coroutine'[j].session # None
<1> DEFINE g == [coroutine[k] EXCEPT !.pc = IF E = {} THEN "loop" ELSE "replay",
                                     !.session = None, !.queue = E]
<1>1. g \in Coroutines /\ g.pc # "request"
  BY DEF ProviderTypes, Coroutines
<1>2. coroutine' = [coroutine EXCEPT ![k] = g]
  BY DEF Replaying
<1> HIDE DEF g
<1>3. QED
  BY <1>1, <1>2, CoroutineType

(* A coroutine that only changes its step.                                 *)
LEMMA RunsType ==
  ASSUME ProviderTypes, NEW k \in Conns,
         NEW pc \in {"gone", "hello", "replace", "welcome", "loop", "replay"}, Runs(k, pc)
  PROVE  /\ coroutine' \in [Conns -> Coroutines]
         /\ \A j \in Conns : coroutine'[j].pc = "request" => coroutine'[j].session # None
<1> DEFINE g == [coroutine[k] EXCEPT !.pc = pc]
<1>1. g \in Coroutines /\ g.pc # "request"
  BY DEF ProviderTypes, Coroutines
<1>2. coroutine' = [coroutine EXCEPT ![k] = g]
  BY DEF Runs, ProviderTypes
<1> HIDE DEF g
<1>3. QED
  BY <1>1, <1>2, CoroutineType

(* The reconnect delay starts and stays positive.                          *)
LEMMA DelayTypes ==
  ASSUME NEW c \in Clients
  PROVE  /\ Options[c].initial \in Int /\ Options[c].max \in Int
         /\ InitialDelay(c) \in Nat \ {0} /\ MaxDelay(c) \in Nat \ {0}
         /\ delay[c] \in Nat \ {0} => NextDelay(c) \in Nat \ {0}
<1>1. Options[c] \in OptionSets
  BY OptionsAssumption
<1>2. Options[c].initial \in Int /\ Options[c].max \in Int
  BY <1>1 DEF OptionSets
<1>3. InitialDelay(c) \in Nat \ {0}
  BY <1>2 DEF InitialDelay
<1>4. MaxDelay(c) \in Nat \ {0}
  BY <1>2, <1>3 DEF MaxDelay
<1>5. QED
  BY <1>2, <1>3, <1>4 DEF NextDelay

-----------------------------------------------------------------------------
(* Every variable keeps its type through every step of every client and of *)
(* the provider.                                                           *)
LEMMA TypeStep == TypeOK /\ [Next]_vars => TypeOK'
<1> SUFFICES ASSUME TypeOK, [Next]_vars PROVE TypeOK'
  OBVIOUS
<1>0. /\ ProcessesOK /\ delay \in [Clients -> Nat \ {0}]
      /\ work \in [Conns -> [Events -> Nat]]
      /\ NetTypes /\ ProviderTypes /\ HistoryTypes
  BY DEF TypeOK, ClientTypes, ProcessesOK, Fits, On, At
<1>1. ASSUME ProcessesOK', (delay \in [Clients -> Nat \ {0}])',
             (work \in [Conns -> [Events -> Nat]])',
             NetTypes', ProviderTypes', HistoryTypes'
      PROVE  TypeOK'
  BY <1>1 DEF TypeOK, ClientTypes, ProcessesOK, Fits, On, At
<1>2. UNCHANGED client => ProcessesOK'
  BY <1>0 DEF ProcessesOK, Fits
<1>3. UNCHANGED provVars => ProviderTypes'
  BY <1>0 DEF ProviderTypes, provVars
<1>4. UNCHANGED netVars => NetTypes'
  BY <1>0 DEF NetTypes, netVars
<1>5. UNCHANGED <<drops, boundOn, ranOK>> => HistoryTypes'
  BY <1>0 DEF HistoryTypes
<1>6. ASSUME NEW c \in Clients, Launch(c)
      PROVE  TypeOK'
  BY <1>0, <1>1, <1>6, DialType DEF Launch
<1>7. ASSUME NEW c \in Clients, Redial(c)
      PROVE  TypeOK'
  <2>1. (delay \in [Clients -> Nat \ {0}])'
    BY <1>0, <1>7, DelayTypes DEF Redial
  <2>2. QED
    BY <1>1, <1>7, <2>1, DialType DEF Redial
<1>8. ASSUME NEW c \in Clients, ReadWelcome(c)
      PROVE  TypeOK'
  <2> DEFINE k == On(c)
             binds == [i \in DOMAIN Options[c].sessions |-> Frame("bind", Options[c].sessions[i])]
  <2>1. k \in Conns /\ down[k] # << >> /\ client[c].pc = "reading"
    BY <1>8, ReadsType DEF ReadWelcome, Reads, At
  <2>2. CASE /\ Consume(c) /\ client' = [client EXCEPT ![c].welcomed = TRUE]
             /\ upward' = [upward EXCEPT ![k] = @ \o binds] /\ UNCHANGED link
    <3>1. binds \in Seq(UpFrames)
      BY BindsType
    <3> HIDE DEF binds
    <3>2. down' \in [Conns -> Seq(DownFrames)]
      BY <1>0, <2>1, <2>2, QueueType DEF Consume, NetTypes
    <3>3. upward' \in [Conns -> Seq(UpFrames)]
      BY <1>0, <2>1, <2>2, <3>1 DEF NetTypes
    <3>4. ProcessesOK'
      BY <1>0, <2>2 DEF ProcessesOK, Processes, Fits
    <3>5. QED
      BY <1>0, <1>1, <1>3, <1>5, <1>8, <2>2, <3>2, <3>3, <3>4 DEF ReadWelcome, NetTypes
  <2>3. CASE Leave(c, FALSE) /\ UNCHANGED upward
    BY <1>0, <1>1, <1>3, <1>5, <1>8, <2>1, <2>3, LeaveType DEF ReadWelcome, NetTypes
  <2>4. QED
    BY <1>8, <2>2, <2>3 DEF ReadWelcome
<1>9. ASSUME NEW c \in Clients, ReadDelivery(c)
      PROVE  TypeOK'
  <2> DEFINE k == On(c)
             e == Head(down[k]).about
             p == [client[c] EXCEPT !.pc = "handling", !.event = e]
  <2>1. k \in Conns /\ down[k] # << >> /\ client[c].pc = "reading" /\ e \in Events
    BY <1>9, ReadsType DEF ReadDelivery, Reads, At
  <2>2. CASE Leave(c, FALSE) /\ UNCHANGED work
    BY <1>0, <1>1, <1>3, <1>5, <1>9, <2>1, <2>2, LeaveType DEF ReadDelivery, NetTypes
  <2>3. ASSUME Consume(c), UNCHANGED <<link, upward>>
        PROVE  NetTypes'
    BY <1>0, <2>1, <2>3, QueueType DEF Consume, NetTypes
  <2>4. CASE /\ Consume(c) /\ UNCHANGED link
             /\ work' = [work EXCEPT ![k][e] = @ + 1] /\ UNCHANGED client
    <3>1. (work \in [Conns -> [Events -> Nat]])'
      BY <1>0, <2>1, <2>4
    <3>2. QED
      BY <1>0, <1>1, <1>2, <1>3, <1>5, <1>9, <2>3, <2>4, <3>1 DEF ReadDelivery
  <2>5. CASE /\ Consume(c) /\ UNCHANGED link
             /\ Moves(c, p) /\ UNCHANGED work
    <3>1. p \in Processes /\ p.pc = "handling" /\ p.event = e /\ p.conn = k
      BY <1>0, <2>1 DEF ProcessesOK, Processes, On
    <3> HIDE DEF p
    <3>2. ProcessesOK'
      BY <1>0, <2>1, <2>5, <3>1, NoneIsNothing, MovesType DEF Fits
    <3>3. QED
      BY <1>0, <1>1, <1>3, <1>5, <1>9, <2>3, <2>5, <3>2 DEF ReadDelivery
  <2>6. QED
    BY <1>9, <2>2, <2>4, <2>5 DEF ReadDelivery
<1>10. ASSUME NEW c \in Clients, ReadRequest(c) \/ ReadFails(c) \/ Expire(c)
       PROVE  TypeOK'
  <2>1. On(c) \in Conns /\ client[c].pc = "reading"
    BY <1>0, <1>10, OnType DEF ReadRequest, ReadFails, Expire, Reads, At
  <2>2. CASE \E ok \in BOOLEAN : Leave(c, ok)
    BY <1>0, <1>1, <1>3, <1>5, <1>10, <2>1, <2>2, LeaveType
       DEF ReadRequest, ReadFails, Expire, NetTypes
  <2>3. CASE Consume(c) /\ UNCHANGED <<client, link>> /\ ReadRequest(c)
    <3>1. NetTypes'
      BY <1>0, <2>1, <2>3, QueueType DEF ReadRequest, Reads, Consume, NetTypes
    <3>2. QED
      BY <1>0, <1>1, <1>2, <1>3, <1>5, <2>3, <3>1 DEF ReadRequest
  <2>4. QED
    BY <1>10, <2>2, <2>3 DEF ReadRequest, ReadFails, Expire
<1>11. ASSUME NEW c \in Clients, NEW failed \in BOOLEAN, NEW e \in Events,
              HandlerReturns(c, e, failed)
       PROVE  TypeOK'
  <2>1. On(c) \in Conns
    BY <1>0, <1>11 DEF HandlerReturns, ProcessesOK, Processes, On
  <2>2. upward' \in [Conns -> Seq(UpFrames)] /\ ranOK' \subseteq Events
    BY <1>11, <2>1, AnswersType DEF HandlerReturns
  <2>3. (work \in [Conns -> [Events -> Nat]])'
    BY <1>0, <1>11, <2>1 DEF HandlerReturns
  <2>4. QED
    BY <1>0, <1>1, <1>2, <1>3, <1>11, <2>2, <2>3 DEF HandlerReturns, NetTypes, HistoryTypes
<1>12. ASSUME NEW c \in Clients, NEW failed \in BOOLEAN, LoopReturns(c, failed)
       PROVE  TypeOK'
  <2> DEFINE k == On(c)
             p == [client[c] EXCEPT !.pc = "reading", !.event = None]
  <2>1. k \in Conns /\ client[c].pc = "handling" /\ client[c].event \in Events
    BY <1>0, <1>12, OnType DEF LoopReturns, At, ProcessesOK, Processes, Fits
  <2>2. upward' \in [Conns -> Seq(UpFrames)] /\ ranOK' \subseteq Events
    BY <1>12, <2>1, AnswersType DEF LoopReturns
  <2>3. CASE Moves(c, p) /\ UNCHANGED <<link, down>>
    <3>1. p \in Processes /\ p.pc = "reading" /\ p.event = None /\ p.conn = k
      BY <1>0, <2>1 DEF ProcessesOK, Processes, On
    <3> HIDE DEF p
    <3>2. ProcessesOK'
      BY <1>0, <2>1, <2>3, <3>1, NoneIsNothing, MovesType DEF Fits
    <3>3. QED
      BY <1>0, <1>1, <1>3, <1>12, <2>2, <2>3, <3>2 DEF LoopReturns, NetTypes, HistoryTypes
  <2>4. CASE Leave(c, link[k] = "open")
    BY <1>0, <1>1, <1>3, <1>12, <2>1, <2>2, <2>4, LeaveType
       DEF LoopReturns, NetTypes, HistoryTypes
  <2>5. QED
    BY <1>12, <2>3, <2>4 DEF LoopReturns
<1>13. ASSUME NEW c \in Clients, Returned(c)
       PROVE  TypeOK'
  <2>1. On(c) \in Conns /\ client[c].ok \in BOOLEAN
    BY <1>0, <1>13, OnType DEF Returned, At, ProcessesOK, Processes
  <2>2. ProcessesOK'
    BY <1>0, <1>13, <2>1, AfterType, MovesType DEF Returned
  <2>3. NetTypes'
    BY <1>0, <1>13 DEF Returned, NetTypes, Closed
  <2>4. QED
    BY <1>0, <1>1, <1>3, <1>5, <1>13, <2>2, <2>3 DEF Returned
<1>14. ASSUME NEW k \in Conns, Drop(k)
       PROVE  TypeOK'
  <2>1. NetTypes'
    BY <1>0, <1>14 DEF Drop, NetTypes
  <2>2. drops' \in Nat
    BY <1>0, <1>14 DEF Drop, HistoryTypes
  <2>3. QED
    BY <1>0, <1>1, <1>2, <1>3, <1>14, <2>1, <2>2 DEF Drop, HistoryTypes, clientVars
<1>15. ASSUME NEW k \in Conns, Hello(k)
       PROVE  TypeOK'
  <2> DEFINE g == [coroutine[k] EXCEPT !.pc = IF current = None THEN "welcome" ELSE "replace",
                                       !.previous = current]
  <2>1. g \in Coroutines /\ g.pc # "request"
    BY <1>0 DEF ProviderTypes, Coroutines
  <2>2. coroutine' = [coroutine EXCEPT ![k] = g]
    BY <1>15 DEF Hello
  <2> HIDE DEF g
  <2>3. ProviderTypes'
    BY <1>0, <1>15, <2>1, <2>2, CoroutineType DEF Hello, ProviderTypes
  <2>4. NetTypes'
    BY <1>0, <1>15, ReceivesType DEF Hello, NetTypes
  <2>5. QED
    BY <1>0, <1>1, <1>2, <1>5, <1>15, <2>3, <2>4 DEF Hello, clientVars
<1>16. ASSUME NEW k \in Conns, ClosePrevious(k)
       PROVE  TypeOK'
  <2> DEFINE g == [coroutine[k] EXCEPT !.pc = "welcome", !.previous = None]
  <2>1. g \in Coroutines /\ g.pc # "request"
    BY <1>0 DEF ProviderTypes, Coroutines
  <2>2. coroutine' = [coroutine EXCEPT ![k] = g]
    BY <1>16 DEF ClosePrevious
  <2> HIDE DEF g
  <2>3. ProviderTypes'
    BY <1>0, <1>16, <2>1, <2>2, CoroutineType DEF ClosePrevious, ProviderTypes
  <2>4. NetTypes'
    <3>1. upward' = upward \/ upward' = [upward EXCEPT ![coroutine[k].previous] = << >>]
      BY <1>16 DEF ClosePrevious
    <3>2. upward' \in [Conns -> Seq(UpFrames)]
      <4>1. << >> \in Seq(UpFrames) /\ upward \in [Conns -> Seq(UpFrames)]
        BY <1>0 DEF NetTypes
      <4>2. CASE upward' = upward
        BY <4>1, <4>2
      <4>3. CASE upward' = [upward EXCEPT ![coroutine[k].previous] = << >>]
        <5> DEFINE S == Seq(UpFrames)
                   p == coroutine[k].previous
        <5>1. << >> \in S /\ upward \in [Conns -> S] /\ upward' = [upward EXCEPT ![p] = << >>]
          BY <4>1, <4>3
        <5> HIDE DEF S, p
        <5>2. upward' \in [Conns -> S]
          BY <5>1
        <5>3. QED
          BY <5>2 DEF S
      <4>4. QED
        BY <3>1, <4>2, <4>3
    <3>3. link' \in [Conns -> {"free", "open", "shut"}] /\ UNCHANGED down
      BY <1>0, <1>16 DEF ClosePrevious, NetTypes
    <3>4. QED
      BY <1>0, <3>2, <3>3 DEF NetTypes
  <2>5. QED
    BY <1>0, <1>1, <1>2, <1>5, <1>16, <2>3, <2>4 DEF ClosePrevious, clientVars
<1>17. ASSUME NEW k \in Conns, Welcome(k)
       PROVE  TypeOK'
  <2>1. NetTypes'
    BY <1>0, <1>17, WritesType, FrameTypes DEF Welcome, NetTypes
  <2>2. ProviderTypes'
    BY <1>0, <1>17, RunsType DEF Welcome, ProviderTypes
  <2>3. QED
    BY <1>0, <1>1, <1>2, <1>5, <1>17, <2>1, <2>2 DEF Welcome, clientVars
<1>18. ASSUME NEW k \in Conns, Bind(k)
       PROVE  TypeOK'
  <2> DEFINE s == Head(upward[k]).about
             g == [coroutine[k] EXCEPT !.pc = "request", !.session = s]
  <2>1. s \in Sessions
    BY <1>0, <1>18, ReceivesType, AboutTypes DEF Bind
  <2>2. g \in Coroutines /\ g.session # None
    BY <1>0, <2>1, NoneIsNothing DEF ProviderTypes, Coroutines
  <2>3. coroutine' = [coroutine EXCEPT ![k] = g]
    BY <1>18 DEF Bind
  <2>4. known' \subseteq Sessions
    BY <1>0, <1>18, <2>1 DEF Bind, ProviderTypes
  <2> HIDE DEF g
  <2>5. ProviderTypes'
    BY <1>0, <1>18, <2>2, <2>3, <2>4, CoroutineType DEF Bind, ProviderTypes
  <2>6. NetTypes'
    BY <1>0, <1>18, ReceivesType DEF Bind, NetTypes
  <2>7. QED
    BY <1>0, <1>1, <1>2, <1>5, <1>18, <2>5, <2>6 DEF Bind, clientVars
<1>19. ASSUME NEW k \in Conns, Request(k)
       PROVE  TypeOK'
  <2>1. coroutine[k].session \in Sessions
    BY <1>0, <1>19 DEF Request, ProviderTypes, Coroutines
  <2>2. NetTypes'
    BY <1>0, <1>19, <2>1, WritesType, FrameTypes DEF Request, NetTypes
  <2>3. PendingOf(coroutine[k].session) \in SUBSET Events
    BY DEF PendingOf
  <2>4. ProviderTypes'
    BY <1>0, <1>19, <2>3, ReplayingType DEF Request, CopyPending, ProviderTypes
  <2>5. HistoryTypes'
    BY <1>0, <1>19, <2>1 DEF Request, CopyPending, HistoryTypes
  <2>6. QED
    BY <1>0, <1>1, <1>2, <1>19, <2>2, <2>4, <2>5 DEF Request, clientVars
<1>20. ASSUME NEW k \in Conns, Replay(k)
       PROVE  TypeOK'
  <2>1. PICK e \in coroutine[k].queue :
          /\ SendCurrent(e)
          /\ Replaying(k, IF current' = None THEN {} ELSE coroutine[k].queue \ {e})
    BY <1>20 DEF Replay
  <2>2. coroutine[k].queue \subseteq Events /\ e \in Events
    BY <1>0, <2>1 DEF ProviderTypes, Coroutines
  <2>3. down' \in [Conns -> Seq(DownFrames)] /\ current' \in Conns \cup {None}
    BY <2>1, <2>2, SendType
  <2>4. NetTypes'
    BY <1>0, <1>20, <2>3 DEF Replay, NetTypes
  <2> DEFINE E == IF current' = None THEN {} ELSE coroutine[k].queue \ {e}
  <2>5. E \in SUBSET Events /\ Replaying(k, E)
    BY <2>1, <2>2
  <2> HIDE DEF E
  <2>6. ProviderTypes'
    BY <1>0, <1>20, <2>3, <2>5, ReplayingType DEF Replay, ProviderTypes
  <2>7. QED
    BY <1>0, <1>1, <1>2, <1>5, <1>20, <2>4, <2>6 DEF Replay, clientVars
<1>21. ASSUME NEW k \in Conns, Ack(k)
       PROVE  TypeOK'
  <2>1. PICK status \in AckStatuses : Receives(k, status)
    BY <1>21 DEF Ack
  <2>2. NetTypes'
    BY <1>0, <1>21, <2>1, ReceivesType DEF Ack, NetTypes
  <2>3. Head(upward[k]).kind \in AckStatuses
    BY <2>1 DEF Receives
  <2>4. ProviderTypes'
    BY <1>0, <1>21, <2>3 DEF Ack, ProviderTypes
  <2>5. QED
    BY <1>0, <1>1, <1>2, <1>5, <1>21, <2>2, <2>4 DEF Ack, clientVars
<1>22. ASSUME NEW k \in Conns, Disconnect(k)
       PROVE  TypeOK'
  <2>1. Gone \in Coroutines /\ Gone.pc # "request"
    BY DEF Gone, Coroutines
  <2>2. ProviderTypes'
    BY <1>0, <1>22, <2>1, CoroutineType DEF Disconnect, ProviderTypes, Forget
  <2>3. NetTypes'
    BY <1>0, <1>22 DEF Disconnect, NetTypes
  <2>4. HistoryTypes'
    BY <1>0, <1>22 DEF Disconnect, HistoryTypes
  <2>5. QED
    BY <1>0, <1>1, <1>2, <1>22, <2>2, <2>3, <2>4 DEF Disconnect, clientVars
<1>23. ASSUME NEW e \in Events, Publish(e)
       PROVE  TypeOK'
  <2>1. ProviderTypes'
    BY <1>0, <1>23 DEF Publish, ProviderTypes
  <2>2. QED
    BY <1>0, <1>1, <1>2, <1>4, <1>5, <1>23, <2>1 DEF Publish, clientVars
<1>24. ASSUME NEW e \in Events, SendPublished(e)
       PROVE  TypeOK'
  <2>1. down' \in [Conns -> Seq(DownFrames)] /\ current' \in Conns \cup {None}
    BY <1>24, SendType DEF SendPublished
  <2>2. ProviderTypes'
    BY <1>0, <1>24, <2>1 DEF SendPublished, ProviderTypes
  <2>3. NetTypes'
    BY <1>0, <1>24, <2>1 DEF SendPublished, NetTypes
  <2>4. QED
    BY <1>0, <1>1, <1>2, <1>5, <1>24, <2>2, <2>3 DEF SendPublished, clientVars
<1>25. CASE UNCHANGED vars
  BY <1>0, <1>1, <1>2, <1>3, <1>4, <1>5, <1>25 DEF vars, clientVars
<1>26. QED
  BY <1>6, <1>7, <1>8, <1>9, <1>10, <1>11, <1>12, <1>13, <1>14, <1>15, <1>16, <1>17,
     <1>18, <1>19, <1>20, <1>21, <1>22, <1>23, <1>24, <1>25
     DEF Next, RunStep, HandleStep, CoroutineStep

(* At the start nothing is connected, bound, published or under way.       *)
LEMMA InitTypes == Init => TypeOK
<1> SUFFICES ASSUME Init PROVE TypeOK
  OBVIOUS
<1>1. ClientTypes
  <2>1. Process("off") \in Processes /\ Fits(Process("off"))
    BY ProcessType
  <2>2. delay \in [Clients -> Nat \ {0}]
    BY DelayTypes DEF Init
  <2>3. QED
    BY <2>1, <2>2 DEF Init, ClientTypes, Fits, On, At, Idle
<1>2. NetTypes
  BY DEF Init, NetTypes
<1>3. ProviderTypes
  BY DEF Init, ProviderTypes, Gone, Coroutines
<1>4. QED
  BY <1>1, <1>2, <1>3 DEF Init, TypeOK, HistoryTypes

(* Every connection, frame and process has its type, for every set of      *)
(* clients with any options.                                               *)
THEOREM ClientTypeCorrect == Spec => []TypeOK
BY InitTypes, TypeStep, PTL DEF Spec

-----------------------------------------------------------------------------
(* The delay.                                                              *)

(* One more attempt keeps the delay within the policy.                     *)
LEMMA NextDelayWithin ==
  ASSUME NEW c \in Clients, delay[c] \in Nat \ {0}, InitialDelay(c) <= delay[c],
         delay[c] <= InitialDelay(c) \/ delay[c] <= MaxDelay(c)
  PROVE  InitialDelay(c) <= NextDelay(c) /\ (NextDelay(c) <= InitialDelay(c) \/ NextDelay(c) <= MaxDelay(c))
<1>1. InitialDelay(c) \in Nat \ {0} /\ MaxDelay(c) \in Nat \ {0}
  BY DelayTypes
<1>2. CASE delay[c] < MaxDelay(c)
  BY <1>1, <1>2 DEF NextDelay
<1>3. CASE ~(delay[c] < MaxDelay(c))
  BY <1>1, <1>3 DEF NextDelay
<1>4. QED
  BY <1>2, <1>3

(* Only another attempt changes a delay.                                   *)
LEMMA DelayChanges ==
  [Next]_vars => UNCHANGED delay \/ \E c \in Clients : Redial(c)
BY DEF Next, RunStep, HandleStep, CoroutineStep, vars, clientVars, Launch, ReadWelcome,
       ReadDelivery, ReadRequest, ReadFails, HandlerReturns, LoopReturns, Expire, Returned,
       Drop, Hello, ClosePrevious, Welcome, Bind, Request, Replay, Ack, Disconnect, Publish,
       SendPublished

(* Whatever delays are given, the client waits at least the initial delay  *)
(* and at most the maximum of its policy, or 30 seconds where the maximum  *)
(* is below the initial delay (reconnect.go:28-33, 55-60).                 *)
THEOREM DelaysKeepToThePolicy == Spec => []DelayWithinPolicy
<1>1. Init => DelayWithinPolicy
  BY DelayTypes DEF Init, DelayWithinPolicy
<1>2. TypeOK /\ DelayWithinPolicy /\ [Next]_vars => DelayWithinPolicy'
  <2> SUFFICES ASSUME TypeOK, DelayWithinPolicy, [Next]_vars PROVE DelayWithinPolicy'
    OBVIOUS
  <2>1. delay \in [Clients -> Nat \ {0}]
    BY DEF TypeOK, ClientTypes
  <2>2. CASE UNCHANGED delay
    BY <2>2 DEF DelayWithinPolicy, InitialDelay, MaxDelay
  <2>3. ASSUME NEW c \in Clients, Redial(c)
        PROVE  DelayWithinPolicy'
    <3>1. \A d \in Clients : delay'[d] = IF d = c THEN NextDelay(c) ELSE delay[d]
      BY <2>1, <2>3 DEF Redial
    <3>2. \A d \in Clients : InitialDelay(d)' = InitialDelay(d) /\ MaxDelay(d)' = MaxDelay(d)
      BY DEF InitialDelay, MaxDelay
    <3>3. \A d \in Clients :
            /\ InitialDelay(d) <= delay'[d]
            /\ delay'[d] <= InitialDelay(d) \/ delay'[d] <= MaxDelay(d)
      BY <2>1, <3>1, NextDelayWithin DEF DelayWithinPolicy
    <3>4. QED
      BY <3>2, <3>3 DEF DelayWithinPolicy
  <2>4. QED
    BY <2>2, <2>3, DelayChanges
<1>3. QED
  BY <1>1, <1>2, ClientTypeCorrect, PTL DEF Spec

-----------------------------------------------------------------------------
(* Which connection is the device's.  A connection that the provider still *)
(* serves is not given to another client.                                  *)
ServedIsTaken == \A k \in Conns : coroutine[k].pc # "gone" => link[k] # "free"

Replaces(j, k) == coroutine[j].pc = "replace" /\ coroutine[j].previous = k

(* Steps that open no connection, forget no current one and finish no      *)
(* replacement.                                                            *)
LEMMA CurrentKept ==
  ASSUME OpenIsCurrent, ServedIsTaken,
         \A k \in Conns : link'[k] = "open" => link[k] = "open",
         \A k \in Conns : link'[k] = "free" => link[k] = "free" \/ coroutine'[k].pc = "gone",
         \A k \in Conns : coroutine'[k].pc \in {"gone", "hello"} <=> coroutine[k].pc \in {"gone", "hello"},
         \A k \in Conns : coroutine'[k].pc = "gone" <=> coroutine[k].pc = "gone",
         \A j \in Conns, k \in Conns : Replaces(j, k) /\ link'[k] = "open" => Replaces(j, k)',
         \A k \in Conns : link'[k] = "open" /\ current = k => current' = k
  PROVE  OpenIsCurrent' /\ ServedIsTaken'
BY DEF OpenIsCurrent, ServedIsTaken, Replaces

(* Every step keeps it so.                                                 *)
LEMMA CurrentStep ==
  ASSUME TypeOK, OpenIsCurrent, ServedIsTaken, [Next]_vars
  PROVE  OpenIsCurrent' /\ ServedIsTaken'
<1>0. /\ link \in [Conns -> {"free", "open", "shut"}]
      /\ coroutine \in [Conns -> Coroutines]
      /\ current \in Conns \cup {None}
      /\ ProcessesOK
  BY DEF TypeOK, NetTypes, ProviderTypes, ClientTypes, ProcessesOK, Fits, On, At
<1>1. ASSUME UNCHANGED <<coroutine, current>>,
             \A k \in Conns : \/ link'[k] = link[k] \/ link'[k] = "shut"
                              \/ link'[k] = "free" /\ coroutine[k].pc = "gone"
      PROVE  OpenIsCurrent' /\ ServedIsTaken'
  BY <1>0, <1>1, CurrentKept DEF Replaces
<1>2. ASSUME NEW c \in Clients, Dial(c)
      PROVE  OpenIsCurrent' /\ ServedIsTaken'
  <2>1. PICK k \in Conns :
          /\ Free(k)
          /\ link' = [link EXCEPT ![k] = "open"]
          /\ coroutine' = [coroutine EXCEPT ![k] = [Gone EXCEPT !.pc = "hello"]]
          /\ UNCHANGED current
    BY <1>2 DEF Dial
  <2>2. coroutine'[k].pc = "hello" /\ coroutine[k].pc = "gone"
    BY <1>0, <2>1 DEF Gone, Free, ServedIsTaken
  <2>3. \A j \in Conns : j # k => coroutine'[j] = coroutine[j] /\ link'[j] = link[j]
    BY <1>0, <2>1
  <2>4. OpenIsCurrent'
    BY <2>1, <2>2, <2>3 DEF OpenIsCurrent
  <2>5. ServedIsTaken'
    BY <1>0, <2>1, <2>3 DEF ServedIsTaken
  <2>6. QED
    BY <2>4, <2>5
<1>3. ASSUME NEW c \in Clients, NEW ok, Leave(c, ok), UNCHANGED <<coroutine, current>>
      PROVE  OpenIsCurrent' /\ ServedIsTaken'
  BY <1>0, <1>1, <1>3 DEF Leave, Closed
<1>4. ASSUME NEW c \in Clients,
             ReadWelcome(c) \/ ReadDelivery(c) \/ ReadRequest(c) \/ ReadFails(c) \/ Expire(c)
      PROVE  OpenIsCurrent' /\ ServedIsTaken'
  <2>1. UNCHANGED <<coroutine, current>>
    BY <1>4 DEF ReadWelcome, ReadDelivery, ReadRequest, ReadFails, Expire, provVars
  <2>2. (\E ok : Leave(c, ok)) \/ UNCHANGED link
    BY <1>4 DEF ReadWelcome, ReadDelivery, ReadRequest, ReadFails, Expire
  <2>3. QED
    BY <1>1, <1>3, <2>1, <2>2
<1>5. ASSUME NEW c \in Clients, NEW failed \in BOOLEAN,
             LoopReturns(c, failed) \/ \E e \in Events : HandlerReturns(c, e, failed)
      PROVE  OpenIsCurrent' /\ ServedIsTaken'
  <2>1. UNCHANGED <<coroutine, current>>
    BY <1>5 DEF LoopReturns, HandlerReturns, provVars
  <2>2. (\E ok : Leave(c, ok)) \/ UNCHANGED link
    BY <1>5 DEF LoopReturns, HandlerReturns
  <2>3. QED
    BY <1>1, <1>3, <2>1, <2>2
<1>6. ASSUME NEW c \in Clients, Returned(c)
      PROVE  OpenIsCurrent' /\ ServedIsTaken'
  BY <1>0, <1>1, <1>6 DEF Returned, Closed, provVars
<1>7. ASSUME NEW k \in Conns, Drop(k)
      PROVE  OpenIsCurrent' /\ ServedIsTaken'
  BY <1>0, <1>1, <1>7 DEF Drop, provVars
<1>8. ASSUME NEW k \in Conns, Hello(k)
      PROVE  OpenIsCurrent' /\ ServedIsTaken'
  <2> DEFINE g == [coroutine[k] EXCEPT !.pc = IF current = None THEN "welcome" ELSE "replace",
                                       !.previous = current]
  <2>1. g.previous = current /\ g.pc = IF current = None THEN "welcome" ELSE "replace"
    BY <1>0 DEF Coroutines
  <2>2. coroutine' = [coroutine EXCEPT ![k] = g]
    BY <1>8 DEF Hello
  <2> HIDE DEF g
  <2>3. /\ coroutine'[k] = g /\ coroutine[k].pc = "hello"
        /\ \A j \in Conns : j # k => coroutine'[j] = coroutine[j]
        /\ current' = k /\ link' = link
    BY <1>0, <1>8, <2>2 DEF Hello
  <2>4. ASSUME NEW j \in Conns, link'[j] = "open", coroutine'[j].pc \notin {"gone", "hello"}
        PROVE  current' = j \/ \E i \in Conns : Replaces(i, j)'
    <3>1. CASE j = k
      BY <2>3, <3>1
    <3>2. CASE j # k /\ current = j
      BY <2>1, <2>3, <3>2, NoneIsNothing DEF Replaces
    <3>3. CASE j # k /\ current # j
      <4>1. PICK i \in Conns : Replaces(i, j)
        BY <2>3, <2>4, <3>3 DEF OpenIsCurrent, Replaces
      <4>2. i # k
        BY <2>3, <4>1 DEF Replaces
      <4>3. QED
        BY <2>3, <4>1, <4>2 DEF Replaces
    <3>4. QED
      BY <3>1, <3>2, <3>3
  <2>5. OpenIsCurrent'
    BY <2>4 DEF OpenIsCurrent, Replaces
  <2>6. ServedIsTaken'
    BY <2>3 DEF ServedIsTaken
  <2>7. QED
    BY <2>5, <2>6
<1>9. ASSUME NEW k \in Conns, ClosePrevious(k)
      PROVE  OpenIsCurrent' /\ ServedIsTaken'
  <2> DEFINE g == [coroutine[k] EXCEPT !.pc = "welcome", !.previous = None]
             p == coroutine[k].previous
  <2>1. g.pc = "welcome"
    BY <1>0 DEF Coroutines
  <2>2. coroutine' = [coroutine EXCEPT ![k] = g]
    BY <1>9 DEF ClosePrevious
  <2> HIDE DEF g
  <2>3. /\ coroutine'[k].pc = "welcome" /\ coroutine[k].pc = "replace"
        /\ \A j \in Conns : j # k => coroutine'[j] = coroutine[j]
        /\ current' = current
    BY <1>0, <1>9, <2>1, <2>2 DEF ClosePrevious
  <2>4. \A j \in Conns : link'[j] = IF j = p /\ link[j] = "open" THEN "shut" ELSE link[j]
    BY <1>0, <1>9 DEF ClosePrevious
  <2>5. \A i \in Conns, j \in Conns : Replaces(i, j) /\ link'[j] = "open" => Replaces(i, j)'
    <3>1. ASSUME NEW i \in Conns, NEW j \in Conns, Replaces(i, j), link'[j] = "open"
          PROVE  Replaces(i, j)'
      <4>1. i # k
        BY <2>4, <3>1 DEF Replaces
      <4>2. QED
        BY <2>3, <3>1, <4>1 DEF Replaces
    <3>2. QED
      BY <3>1
  <2>6. /\ \A j \in Conns : link'[j] = "open" => link[j] = "open"
        /\ \A j \in Conns : link'[j] = "free" => link[j] = "free"
        /\ \A j \in Conns : coroutine'[j].pc \in {"gone", "hello"} <=> coroutine[j].pc \in {"gone", "hello"}
        /\ \A j \in Conns : coroutine'[j].pc = "gone" <=> coroutine[j].pc = "gone"
    BY <2>3, <2>4
  <2>7. QED
    BY <2>3, <2>5, <2>6, CurrentKept
<1>10. ASSUME NEW k \in Conns, NEW pc \in {"loop", "request", "replay"},
              UNCHANGED link, coroutine[k].pc \in {"welcome", "loop", "request", "replay"},
              coroutine'[k].pc = pc,
              \A j \in Conns : j # k => coroutine'[j] = coroutine[j],
              current' = current \/ (current # None /\ link[current] # "open")
       PROVE  OpenIsCurrent' /\ ServedIsTaken'
  <2>1. \A i \in Conns, j \in Conns : Replaces(i, j) => Replaces(i, j)'
    BY <1>10 DEF Replaces
  <2>2. \A j \in Conns : coroutine'[j].pc \in {"gone", "hello"} <=> coroutine[j].pc \in {"gone", "hello"}
    BY <1>10
  <2>3. \A j \in Conns : coroutine'[j].pc = "gone" <=> coroutine[j].pc = "gone"
    BY <1>10
  <2>4. \A j \in Conns : link'[j] = "open" /\ current = j => current' = j
    BY <1>10
  <2>5. QED
    BY <1>10, <2>1, <2>2, <2>3, <2>4, CurrentKept
<1>11. ASSUME NEW k \in Conns, Welcome(k)
       PROVE  OpenIsCurrent' /\ ServedIsTaken'
  <2>1. /\ coroutine[k].pc = "welcome" /\ UNCHANGED <<link, current>>
        /\ coroutine' = [coroutine EXCEPT ![k].pc = "loop"]
    BY <1>11 DEF Welcome, Runs
  <2>2. coroutine'[k].pc = "loop" /\ \A j \in Conns : j # k => coroutine'[j] = coroutine[j]
    BY <1>0, <2>1 DEF Coroutines
  <2>3. QED
    BY <1>10, <2>1, <2>2
<1>12. ASSUME NEW k \in Conns, Bind(k)
       PROVE  OpenIsCurrent' /\ ServedIsTaken'
  <2> DEFINE g == [coroutine[k] EXCEPT !.pc = "request", !.session = Head(upward[k]).about]
  <2>1. g.pc = "request"
    BY <1>0 DEF Coroutines
  <2>2. coroutine' = [coroutine EXCEPT ![k] = g] /\ UNCHANGED <<link, current>>
        /\ coroutine[k].pc = "loop"
    BY <1>12 DEF Bind
  <2> HIDE DEF g
  <2>3. coroutine'[k].pc = "request" /\ \A j \in Conns : j # k => coroutine'[j] = coroutine[j]
    BY <1>0, <2>1, <2>2
  <2>4. QED
    BY <1>10, <2>2, <2>3
<1>13. ASSUME NEW k \in Conns, NEW E, Replaying(k, E)
       PROVE  /\ coroutine'[k].pc \in {"loop", "replay"}
              /\ \A j \in Conns : j # k => coroutine'[j] = coroutine[j]
  <2> DEFINE g == [coroutine[k] EXCEPT !.pc = IF E = {} THEN "loop" ELSE "replay",
                                       !.session = None, !.queue = E]
  <2>1. g.pc \in {"loop", "replay"}
    BY <1>0 DEF Coroutines
  <2>2. coroutine' = [coroutine EXCEPT ![k] = g]
    BY <1>13 DEF Replaying
  <2> HIDE DEF g
  <2>3. QED
    BY <1>0, <2>1, <2>2
<1>14. ASSUME NEW k \in Conns, Request(k)
       PROVE  OpenIsCurrent' /\ ServedIsTaken'
  <2>1. Replaying(k, PendingOf(coroutine[k].session)) /\ coroutine[k].pc = "request"
        /\ UNCHANGED <<link, current>>
    BY <1>14 DEF Request, CopyPending
  <2>2. QED
    BY <1>10, <1>13, <2>1
<1>15. ASSUME NEW e \in Events, SendCurrent(e)
       PROVE  current' = current \/ (current # None /\ link[current] # "open")
  BY <1>15 DEF SendCurrent
<1>16. ASSUME NEW k \in Conns, Replay(k)
       PROVE  OpenIsCurrent' /\ ServedIsTaken'
  <2>1. PICK e \in coroutine[k].queue :
          SendCurrent(e) /\ \E E : Replaying(k, E)
    BY <1>16 DEF Replay
  <2>2. e \in Events
    BY <1>0, <2>1 DEF Coroutines
  <2>3. coroutine[k].pc = "replay" /\ UNCHANGED link
    BY <1>16 DEF Replay
  <2>4. /\ coroutine'[k].pc \in {"loop", "replay"}
        /\ \A j \in Conns : j # k => coroutine'[j] = coroutine[j]
    BY <1>13, <2>1
  <2>5. current' = current \/ (current # None /\ link[current] # "open")
    BY <1>15, <2>1, <2>2
  <2>6. QED
    BY <1>10, <2>3, <2>4, <2>5
<1>17. ASSUME NEW k \in Conns, Disconnect(k)
       PROVE  OpenIsCurrent' /\ ServedIsTaken'
  <2>1. /\ link[k] = "shut" /\ coroutine[k].pc # "replace"
        /\ coroutine'[k].pc = "gone" /\ link'[k] # "open"
        /\ \A j \in Conns : j # k => coroutine'[j] = coroutine[j] /\ link'[j] = link[j]
        /\ \A j \in Conns : j # k /\ current = j => current' = j
    BY <1>0, <1>17 DEF Disconnect, Gone, Forget
  <2>2. \A i \in Conns, j \in Conns : Replaces(i, j) => Replaces(i, j)'
    BY <2>1 DEF Replaces
  <2>3. OpenIsCurrent'
    <3> SUFFICES ASSUME NEW j \in Conns, link'[j] = "open",
                        coroutine'[j].pc \notin {"gone", "hello"}
                 PROVE  current' = j \/ \E i \in Conns : Replaces(i, j)'
      BY DEF OpenIsCurrent, Replaces
    <3>1. j # k /\ link[j] = "open" /\ coroutine[j].pc \notin {"gone", "hello"}
      BY <2>1
    <3>2. current = j \/ \E i \in Conns : Replaces(i, j)
      BY <3>1 DEF OpenIsCurrent, Replaces
    <3>3. QED
      BY <2>1, <2>2, <3>1, <3>2
  <2>4. ServedIsTaken'
    BY <2>1 DEF ServedIsTaken
  <2>5. QED
    BY <2>3, <2>4
<1>18. ASSUME NEW e \in Events, SendPublished(e)
       PROVE  OpenIsCurrent' /\ ServedIsTaken'
  <2>1. UNCHANGED <<link, coroutine>>
    BY <1>18 DEF SendPublished
  <2>2. current' = current \/ (current # None /\ link[current] # "open")
    BY <1>15, <1>18 DEF SendPublished
  <2>3. QED
    BY <2>1, <2>2 DEF OpenIsCurrent, ServedIsTaken
<1>19. CASE UNCHANGED <<link, coroutine, current>>
  BY <1>1, <1>19
<1>20. CASE UNCHANGED vars
  BY <1>19, <1>20 DEF vars, netVars, provVars
<1>21. QED
  BY <1>2, <1>4, <1>5, <1>6, <1>7, <1>8, <1>9, <1>11, <1>12, <1>14, <1>16, <1>17, <1>18,
     <1>19, <1>20
     DEF Next, RunStep, HandleStep, CoroutineStep, Launch, Redial, Ack, Publish, netVars

(* However connections of one device overtake, replace and lose each       *)
(* other, a connection that is open past its hello is the one the provider *)
(* delivers to, or is about to be closed (main.py:162-171, 338-341).       *)
THEOREM NoConnectionIsForgotten == Spec => []OpenIsCurrent
<1>1. Init => OpenIsCurrent /\ ServedIsTaken
  BY DEF Init, OpenIsCurrent, ServedIsTaken, Gone
<1>2. TypeOK /\ OpenIsCurrent /\ ServedIsTaken /\ [Next]_vars => OpenIsCurrent' /\ ServedIsTaken'
  BY CurrentStep
<1>3. QED
  BY <1>1, <1>2, ClientTypeCorrect, PTL DEF Spec

-----------------------------------------------------------------------------
(* The refinement.  Whatever is under way for an event concerns one that   *)
(* was published, and `completed` is only under way for one that was run.  *)
Published(e) == prov[e] # "none"

DownKnown(f) == f.kind = "deliver" => Published(f.about)

UpKnown(f) ==
  f.kind \in AckStatuses =>
    Published(f.about) /\ (f.kind = "completed" => f.about \in ranOK)

ProviderKnown ==
  /\ \A e \in outbox : Published(e)
  /\ \A k \in Conns : \A e \in coroutine[k].queue : Published(e)

DeliveriesKnown == \A k \in Conns : \A i \in DOMAIN down[k] : DownKnown(down[k][i])

WorkKnown ==
  /\ \A k \in Conns, e \in Events : work[k][e] > 0 => Published(e)
  /\ \A c \in Clients : client[c].event # None => Published(client[c].event)

AnswersKnown == \A k \in Conns : \A i \in DOMAIN upward[k] : UpKnown(upward[k][i])

UnderWayKnown == ProviderKnown /\ DeliveriesKnown /\ WorkKnown /\ AnswersKnown

(* What the provider and the runtimes know of an event is changed by a     *)
(* publication, an answer and the return of a handler, and by nothing else.*)
LEMMA WhoChanges ==
  ASSUME [Next]_vars
  PROVE  \/ UNCHANGED <<prov, ranOK>>
         \/ \E e \in Events : Publish(e)
         \/ \E k \in Conns : Ack(k)
         \/ \E c \in Clients, failed \in BOOLEAN :
              LoopReturns(c, failed) \/ \E e \in Events : HandlerReturns(c, e, failed)
BY DEF Next, RunStep, HandleStep, CoroutineStep, vars, provVars, Launch, Redial, Dial,
       ReadWelcome, ReadDelivery, ReadRequest, ReadFails, Expire, Returned, Drop, Hello,
       ClosePrevious, Welcome, Bind, Request, Replay, Disconnect, SendPublished

(* The frame an acknowledgement comes in.                                  *)
LEMMA AckType ==
  ASSUME TypeOK, NEW k \in Conns, Ack(k)
  PROVE  /\ Head(upward[k]) \in UpFrames /\ Head(upward[k]) = upward[k][1]
         /\ 1 \in DOMAIN upward[k]
         /\ Head(upward[k]).kind \in AckStatuses /\ Head(upward[k]).about \in Events
<1>1. PICK status \in AckStatuses : Receives(k, status)
  BY DEF Ack
<1>2. upward[k] \in Seq(UpFrames) /\ upward[k] # << >>
  BY <1>1 DEF Receives, TypeOK, NetTypes
<1>3. Head(upward[k]) \in UpFrames /\ Head(upward[k]) = upward[k][1] /\ 1 \in DOMAIN upward[k]
  BY <1>2, HeadTailProperties
<1>4. Head(upward[k]).kind \in AckStatuses
  BY <1>1 DEF Receives
<1>5. QED
  BY <1>3, <1>4, AboutTypes

(* A published event stays one, and so does a run that succeeded.          *)
LEMMA Grows ==
  ASSUME TypeOK, [Next]_vars
  PROVE  /\ \A e \in Events : Published(e) => Published(e)'
         /\ ranOK \subseteq ranOK'
<1>0. prov \in [Events -> {"none", "pending"} \cup AckStatuses]
  BY DEF TypeOK, ProviderTypes
<1>1. CASE UNCHANGED <<prov, ranOK>>
  BY <1>1 DEF Published
<1>2. ASSUME NEW e \in Events, Publish(e)
      PROVE  (\A f \in Events : Published(f) => Published(f)') /\ ranOK \subseteq ranOK'
  BY <1>0, <1>2 DEF Publish, Published
<1>3. ASSUME NEW k \in Conns, Ack(k)
      PROVE  (\A f \in Events : Published(f) => Published(f)') /\ ranOK \subseteq ranOK'
  <2>1. Head(upward[k]).kind # "none"
    BY <1>3, AckType DEF AckStatuses
  <2>2. QED
    BY <1>0, <1>3, <2>1 DEF Ack, Published
<1>4. ASSUME NEW c \in Clients, NEW failed \in BOOLEAN,
             LoopReturns(c, failed) \/ \E e \in Events : HandlerReturns(c, e, failed)
      PROVE  (\A f \in Events : Published(f) => Published(f)') /\ ranOK \subseteq ranOK'
  BY <1>4 DEF LoopReturns, HandlerReturns, Answers, provVars, Published
<1>5. QED
  BY <1>1, <1>2, <1>3, <1>4, WhoChanges

(* What deliver_pending has left to send was left before, or is pending.   *)
LEMMA QueuesStep ==
  ASSUME TypeOK, [Next]_vars, NEW k \in Conns, NEW e \in coroutine'[k].queue
  PROVE  e \in coroutine[k].queue \/ (e \in Events /\ prov[e] = "pending")
<1>0. coroutine \in [Conns -> Coroutines]
  BY DEF TypeOK, ProviderTypes
<1>1. CASE UNCHANGED coroutine
  BY <1>1
<1>2. ASSUME NEW j \in Conns, coroutine' = [coroutine EXCEPT ![j] = Gone]
      PROVE  e \in coroutine[k].queue
  BY <1>0, <1>2 DEF Gone
<1>3. ASSUME NEW c \in Clients, Dial(c)
      PROVE  e \in coroutine[k].queue
  <2> DEFINE g == [Gone EXCEPT !.pc = "hello"]
  <2>1. g.queue = {}
    BY DEF Gone
  <2>2. PICK j \in Conns : coroutine' = [coroutine EXCEPT ![j] = g]
    BY <1>3 DEF Dial
  <2> HIDE DEF g
  <2>3. QED
    BY <1>0, <2>1, <2>2
<1>4. ASSUME NEW j \in Conns, NEW g, g.queue = coroutine[j].queue,
             coroutine' = [coroutine EXCEPT ![j] = g]
      PROVE  e \in coroutine[k].queue
  BY <1>0, <1>4
<1>5. ASSUME NEW j \in Conns, Hello(j)
      PROVE  e \in coroutine[k].queue
  <2> DEFINE g == [coroutine[j] EXCEPT !.pc = IF current = None THEN "welcome" ELSE "replace",
                                       !.previous = current]
  <2>1. g.queue = coroutine[j].queue
    BY <1>0 DEF Coroutines
  <2>2. coroutine' = [coroutine EXCEPT ![j] = g]
    BY <1>5 DEF Hello
  <2> HIDE DEF g
  <2>3. QED
    BY <1>4, <2>1, <2>2
<1>6. ASSUME NEW j \in Conns, ClosePrevious(j)
      PROVE  e \in coroutine[k].queue
  <2> DEFINE g == [coroutine[j] EXCEPT !.pc = "welcome", !.previous = None]
  <2>1. g.queue = coroutine[j].queue
    BY <1>0 DEF Coroutines
  <2>2. coroutine' = [coroutine EXCEPT ![j] = g]
    BY <1>6 DEF ClosePrevious
  <2> HIDE DEF g
  <2>3. QED
    BY <1>4, <2>1, <2>2
<1>7. ASSUME NEW j \in Conns, Welcome(j)
      PROVE  e \in coroutine[k].queue
  <2> DEFINE g == [coroutine[j] EXCEPT !.pc = "loop"]
  <2>1. g.queue = coroutine[j].queue
    BY <1>0 DEF Coroutines
  <2>2. coroutine' = [coroutine EXCEPT ![j] = g]
    BY <1>0, <1>7 DEF Welcome, Runs
  <2> HIDE DEF g
  <2>3. QED
    BY <1>4, <2>1, <2>2
<1>8. ASSUME NEW j \in Conns, Bind(j)
      PROVE  e \in coroutine[k].queue
  <2> DEFINE g == [coroutine[j] EXCEPT !.pc = "request", !.session = Head(upward[j]).about]
  <2>1. g.queue = coroutine[j].queue
    BY <1>0 DEF Coroutines
  <2>2. coroutine' = [coroutine EXCEPT ![j] = g]
    BY <1>8 DEF Bind
  <2> HIDE DEF g
  <2>3. QED
    BY <1>4, <2>1, <2>2
<1>9. ASSUME NEW j \in Conns, NEW E, Replaying(j, E)
      PROVE  e \in coroutine[k].queue \/ (k = j /\ e \in E)
  <2> DEFINE g == [coroutine[j] EXCEPT !.pc = IF E = {} THEN "loop" ELSE "replay",
                                       !.session = None, !.queue = E]
  <2>1. g.queue = E
    BY <1>0 DEF Coroutines
  <2>2. coroutine' = [coroutine EXCEPT ![j] = g]
    BY <1>9 DEF Replaying
  <2> HIDE DEF g
  <2>3. QED
    BY <1>0, <2>1, <2>2
<1>10. ASSUME NEW j \in Conns, Request(j)
       PROVE  e \in coroutine[k].queue \/ (e \in Events /\ prov[e] = "pending")
  BY <1>9, <1>10 DEF Request, CopyPending, PendingOf
<1>11. ASSUME NEW j \in Conns, Replay(j)
       PROVE  e \in coroutine[k].queue
  <2>1. PICK f : Replaying(j, IF current' = None THEN {} ELSE coroutine[j].queue \ {f})
    BY <1>11 DEF Replay
  <2>2. QED
    BY <1>9, <2>1
<1>12. CASE UNCHANGED vars
  BY <1>1, <1>12 DEF vars, provVars
<1>13. QED
  BY <1>1, <1>2, <1>3, <1>5, <1>6, <1>7, <1>8, <1>10, <1>11, <1>12
     DEF Next, RunStep, HandleStep, CoroutineStep, provVars, Launch, Redial, ReadWelcome,
         ReadDelivery, ReadRequest, ReadFails, HandlerReturns, LoopReturns, Expire, Returned,
         Drop, Ack, Disconnect, Publish, SendPublished

(* The provider sends, and sends again, only published events.             *)
LEMMA ProviderStep == TypeOK /\ UnderWayKnown /\ [Next]_vars => ProviderKnown'
<1> SUFFICES ASSUME TypeOK, UnderWayKnown, [Next]_vars PROVE ProviderKnown'
  OBVIOUS
<1>0. /\ coroutine \in [Conns -> Coroutines] /\ outbox \subseteq Events /\ ProviderKnown
      /\ prov \in [Events -> {"none", "pending"} \cup AckStatuses]
  BY DEF TypeOK, ProviderTypes, UnderWayKnown
<1>1. \A e \in Events : Published(e) => Published(e)'
  BY Grows
<1>2. ASSUME NEW k \in Conns, NEW e \in coroutine'[k].queue
      PROVE  Published(e)'
  <2>1. e \in coroutine[k].queue \/ (e \in Events /\ prov[e] = "pending")
    BY <1>2, QueuesStep
  <2>2. coroutine[k].queue \subseteq Events
    BY <1>0 DEF Coroutines
  <2>3. e \in Events /\ Published(e)
    BY <1>0, <2>1, <2>2 DEF ProviderKnown, Published
  <2>4. QED
    BY <1>1, <2>3
<1>3. ASSUME NEW e \in outbox'
      PROVE  Published(e)'
  <2>1. CASE e \in outbox
    BY <1>0, <1>1, <2>1 DEF ProviderKnown
  <2>2. CASE e \notin outbox
    <3>1. e \in Events /\ Publish(e)
      BY <1>3, <2>2
         DEF Next, RunStep, HandleStep, CoroutineStep, vars, provVars, Launch, Redial, Dial,
             ReadWelcome, ReadDelivery, ReadRequest, ReadFails, HandlerReturns, LoopReturns,
             Expire, Returned, Drop, Hello, ClosePrevious, Welcome, Bind, Request, Replay,
             Ack, Disconnect, Publish, SendPublished
    <3>2. QED
      BY <1>0, <3>1 DEF Publish, Published
  <2>3. QED
    BY <2>1, <2>2
<1>4. QED
  BY <1>2, <1>3 DEF ProviderKnown

(* A queue that loses its head, or grows at its end.                       *)
LEMMA QueueElements ==
  ASSUME NEW S, NEW q \in Seq(S)
  PROVE  /\ q # << >> => \A i \in DOMAIN Tail(q) : \E j \in DOMAIN q : Tail(q)[i] = q[j]
         /\ \A f \in S : \A i \in DOMAIN Append(q, f) :
              Append(q, f)[i] = f \/ \E j \in DOMAIN q : Append(q, f)[i] = q[j]
<1>1. ASSUME q # << >>, NEW i \in DOMAIN Tail(q)
      PROVE  \E j \in DOMAIN q : Tail(q)[i] = q[j]
  <2>1. /\ Tail(q) \in Seq(S) /\ Len(Tail(q)) = Len(q) - 1
        /\ \A n \in 1..Len(Tail(q)) : Tail(q)[n] = q[n + 1]
    BY <1>1, HeadTailProperties
  <2>2. i + 1 \in DOMAIN q /\ Tail(q)[i] = q[i + 1]
    BY <1>1, <2>1
  <2>3. QED
    BY <2>2
<1>2. ASSUME NEW f \in S, NEW i \in DOMAIN Append(q, f)
      PROVE  Append(q, f)[i] = f \/ \E j \in DOMAIN q : Append(q, f)[i] = q[j]
  <2>1. i = Len(q) + 1 \/ i \in DOMAIN q
    BY <1>2
  <2>2. i \in DOMAIN q => Append(q, f)[i] = q[i]
    BY <1>2
  <2>3. Append(q, f)[Len(q) + 1] = f
    OBVIOUS
  <2>4. QED
    BY <2>1, <2>2, <2>3
<1>3. QED
  BY <1>1, <1>2

(* A delivery under way to a client is one that was under way before, or   *)
(* one that is just sent.                                                  *)
LEMMA DeliveriesStep == TypeOK /\ UnderWayKnown /\ [Next]_vars => DeliveriesKnown'
<1> SUFFICES ASSUME TypeOK, UnderWayKnown, [Next]_vars PROVE DeliveriesKnown'
  OBVIOUS
<1>0. /\ down \in [Conns -> Seq(DownFrames)] /\ DeliveriesKnown /\ ProviderKnown
      /\ ProcessesOK /\ coroutine \in [Conns -> Coroutines]
      /\ outbox \subseteq Events /\ current \in Conns \cup {None}
  BY DEF TypeOK, NetTypes, ProviderTypes, UnderWayKnown, ClientTypes, ProcessesOK, Fits, On, At
<1>1. \A e \in Events : Published(e) => Published(e)'
  BY Grows
<1>2. ASSUME \A k \in Conns : \A i \in DOMAIN down'[k] :
               \/ \E j \in DOMAIN down[k] : down'[k][i] = down[k][j]
               \/ down'[k][i].kind # "deliver"
               \/ down'[k][i].about \in Events /\ Published(down'[k][i].about)
      PROVE  DeliveriesKnown'
  <2>1. \A k \in Conns : \A j \in DOMAIN down[k] : down[k][j] \in DownFrames
    BY <1>0
  <2>2. \A k \in Conns : \A j \in DOMAIN down[k] : down[k][j].kind = "deliver" =>
          down[k][j].about \in Events /\ Published(down[k][j].about)
    BY <1>0, <2>1, AboutTypes DEF DeliveriesKnown, DownKnown
  <2>3. \A k \in Conns : \A i \in DOMAIN down'[k] : down'[k][i].kind = "deliver" =>
          down'[k][i].about \in Events /\ Published(down'[k][i].about)
    BY <1>2, <2>2
  <2>4. \A k \in Conns : \A i \in DOMAIN down'[k] : down'[k][i].kind = "deliver" =>
          prov'[down'[k][i].about] # "none"
    BY <1>1, <2>3 DEF Published
  <2>5. QED
    BY <2>4 DEF DeliveriesKnown, DownKnown, Published
<1>3. CASE UNCHANGED down
  BY <1>2, <1>3
<1>4. ASSUME NEW k \in Conns, down' = [down EXCEPT ![k] = << >>]
      PROVE  DeliveriesKnown'
  BY <1>0, <1>2, <1>4
<1>5. ASSUME NEW k \in Conns, down[k] # << >>, down' = [down EXCEPT ![k] = Tail(@)]
      PROVE  DeliveriesKnown'
  <2>1. \A i \in DOMAIN Tail(down[k]) : \E j \in DOMAIN down[k] : Tail(down[k])[i] = down[k][j]
    BY <1>0, <1>5, QueueElements
  <2>2. QED
    BY <1>0, <1>2, <1>5, <2>1
<1>6. ASSUME NEW k \in Conns, NEW f \in DownFrames,
             f.kind # "deliver" \/ (f.about \in Events /\ Published(f.about)),
             down' = [down EXCEPT ![k] = Append(@, f)]
      PROVE  DeliveriesKnown'
  <2>1. \A i \in DOMAIN Append(down[k], f) :
          Append(down[k], f)[i] = f \/ \E j \in DOMAIN down[k] : Append(down[k], f)[i] = down[k][j]
    BY <1>0, QueueElements
  <2>2. QED
    BY <1>0, <1>2, <1>6, <2>1
<1>7. ASSUME NEW c \in Clients,
             \/ ReadWelcome(c) \/ ReadDelivery(c) \/ ReadRequest(c)
             \/ ReadFails(c) \/ Expire(c) \/ \E failed \in BOOLEAN : LoopReturns(c, failed)
      PROVE  DeliveriesKnown'
  <2>1. On(c) \in Conns
    BY <1>0, <1>7, OnType DEF ReadWelcome, ReadDelivery, ReadRequest, ReadFails, Expire,
                               LoopReturns, Reads, At
  <2>2. \/ down' = [down EXCEPT ![On(c)] = << >>] \/ UNCHANGED down
        \/ down[On(c)] # << >> /\ down' = [down EXCEPT ![On(c)] = Tail(@)]
    BY <1>7 DEF ReadWelcome, ReadDelivery, ReadRequest, ReadFails, Expire, LoopReturns,
                Reads, Leave, Consume
  <2>3. QED
    BY <1>3, <1>4, <1>5, <2>1, <2>2
<1>8. ASSUME NEW e \in Events, Published(e), SendCurrent(e)
      PROVE  DeliveriesKnown'
  <2>1. CASE UNCHANGED down
    BY <1>3, <2>1
  <2>2. CASE /\ current # None
             /\ down' = [down EXCEPT ![current] = Append(@, Frame("deliver", e))]
    <3>1. current \in Conns
      BY <1>0, <2>2
    <3>2. Frame("deliver", e) \in DownFrames /\ Frame("deliver", e).about = e
      BY FrameTypes DEF Frame
    <3>3. QED
      BY <1>6, <1>8, <2>2, <3>1, <3>2
  <2>3. QED
    BY <1>8, <2>1, <2>2 DEF SendCurrent
<1>9. ASSUME NEW k \in Conns, Replay(k)
      PROVE  DeliveriesKnown'
  <2>1. PICK e \in coroutine[k].queue : SendCurrent(e)
    BY <1>9 DEF Replay
  <2>2. e \in Events /\ Published(e)
    BY <1>0, <2>1 DEF Coroutines, ProviderKnown
  <2>3. QED
    BY <1>8, <2>1, <2>2
<1>10. ASSUME NEW e \in Events, SendPublished(e)
       PROVE  DeliveriesKnown'
  BY <1>0, <1>8, <1>10 DEF SendPublished, ProviderKnown
<1>11. ASSUME NEW k \in Conns, Welcome(k)
       PROVE  DeliveriesKnown'
  <2>1. Frame("welcome", None) \in DownFrames /\ Frame("welcome", None).kind # "deliver"
    BY FrameTypes DEF Frame
  <2>2. QED
    BY <1>3, <1>6, <1>11, <2>1 DEF Welcome, Writes
<1>12. ASSUME NEW k \in Conns, Request(k)
       PROVE  DeliveriesKnown'
  <2> DEFINE f == Frame("request", coroutine[k].session)
  <2>1. coroutine[k].session \in Sessions
    BY <1>0, <1>12 DEF Request, TypeOK, ProviderTypes, Coroutines
  <2>2. f \in DownFrames /\ f.kind # "deliver"
    BY <2>1, FrameTypes DEF Frame
  <2> HIDE DEF f
  <2>3. UNCHANGED down \/ down' = [down EXCEPT ![k] = Append(@, f)]
    BY <1>12 DEF Request, Writes, f
  <2>4. QED
    BY <1>3, <1>6, <2>2, <2>3
<1>13. ASSUME NEW k \in Conns, Drop(k)
       PROVE  DeliveriesKnown'
  BY <1>4, <1>13 DEF Drop
<1>14. CASE UNCHANGED vars
  BY <1>3, <1>14 DEF vars, netVars
<1>15. QED
  BY <1>3, <1>7, <1>9, <1>10, <1>11, <1>12, <1>13, <1>14
     DEF Next, RunStep, HandleStep, CoroutineStep, netVars, Launch, Redial, Dial,
         HandlerReturns, Returned, Hello, ClosePrevious, Bind, Ack, Disconnect, Publish

(* What is being handled was delivered.                                    *)
LEMMA WorkStep == TypeOK /\ UnderWayKnown /\ [Next]_vars => WorkKnown'
<1> SUFFICES ASSUME TypeOK, UnderWayKnown, [Next]_vars PROVE WorkKnown'
  OBVIOUS
<1>0. /\ work \in [Conns -> [Events -> Nat]] /\ ProcessesOK /\ WorkKnown
  BY DEF TypeOK, UnderWayKnown, ClientTypes, ProcessesOK, Fits, On, At
<1>1. \A e \in Events : Published(e) => Published(e)'
  BY Grows
<1>2. ASSUME \A k \in Conns, e \in Events : work'[k][e] > 0 => work[k][e] > 0 \/ Published(e),
             \A c \in Clients : client'[c].event # None =>
               \/ client[c].event # None /\ client'[c].event = client[c].event
               \/ client'[c].event \in Events /\ Published(client'[c].event)
      PROVE  WorkKnown'
  <2>1. \A c \in Clients : client[c].event # None => client[c].event \in Events
    BY <1>0 DEF ProcessesOK, Processes
  <2>2. \A c \in Clients : client'[c].event # None =>
          client'[c].event \in Events /\ Published(client'[c].event)
    BY <1>0, <1>2, <2>1 DEF WorkKnown
  <2>3. \A c \in Clients : client'[c].event # None => prov'[client'[c].event] # "none"
    BY <1>1, <2>2 DEF Published
  <2>4. \A k \in Conns, e \in Events : work'[k][e] > 0 => Published(e)'
    BY <1>0, <1>1, <1>2 DEF WorkKnown
  <2>5. QED
    BY <2>3, <2>4 DEF WorkKnown, Published
<1>3. ASSUME UNCHANGED work, NEW c \in Clients, NEW p, p.event = None, Moves(c, p)
      PROVE  WorkKnown'
  BY <1>0, <1>2, <1>3 DEF Moves, ProcessesOK
<1>4. CASE UNCHANGED <<work, client>>
  BY <1>2, <1>4
<1>5. ASSUME NEW c \in Clients, NEW ok, Leave(c, ok), UNCHANGED work
      PROVE  WorkKnown'
  <2> DEFINE p == [client[c] EXCEPT !.pc = "closing", !.ok = ok, !.event = None]
  <2>1. p.event = None
    BY <1>0 DEF ProcessesOK, Processes
  <2>2. After(c, ok).event = None
    BY DEF After, Process
  <2>3. Moves(c, After(c, ok)) \/ Moves(c, p)
    BY <1>5 DEF Leave
  <2> HIDE DEF p
  <2>4. QED
    BY <1>3, <1>5, <2>1, <2>2, <2>3
<1>6. ASSUME NEW c \in Clients, Dial(c)
      PROVE  WorkKnown'
  <2>1. PICK k \in Conns : Moves(c, [Process("reading") EXCEPT !.conn = k]) /\ UNCHANGED work
    BY <1>6 DEF Dial
  <2>2. [Process("reading") EXCEPT !.conn = k].event = None
    BY DEF Process
  <2>3. QED
    BY <1>3, <2>1, <2>2
<1>7. ASSUME NEW c \in Clients, ReadWelcome(c)
      PROVE  WorkKnown'
  <2>1. UNCHANGED work
    BY <1>7 DEF ReadWelcome
  <2>2. CASE client' = [client EXCEPT ![c].welcomed = TRUE]
    BY <1>0, <1>2, <2>1, <2>2 DEF ProcessesOK, Processes
  <2>3. CASE Leave(c, FALSE)
    BY <1>5, <2>1, <2>3
  <2>4. QED
    BY <1>7, <2>2, <2>3 DEF ReadWelcome
<1>8. ASSUME NEW c \in Clients, ReadDelivery(c)
      PROVE  WorkKnown'
  <2> DEFINE k == On(c)
             e == Head(down[k]).about
             p == [client[c] EXCEPT !.pc = "handling", !.event = e]
  <2>1. k \in Conns /\ e \in Events
    BY <1>8, ReadsType DEF ReadDelivery
  <2>2. Published(e)
    <3>1. down[k] \in Seq(DownFrames) /\ down[k] # << >>
      BY <1>8, <2>1 DEF ReadDelivery, Reads, TypeOK, NetTypes
    <3>2. Head(down[k]) = down[k][1] /\ 1 \in DOMAIN down[k]
      BY <3>1
    <3>3. QED
      BY <1>8, <2>1, <3>2 DEF ReadDelivery, UnderWayKnown, DeliveriesKnown, DownKnown
  <2>3. CASE Leave(c, FALSE) /\ UNCHANGED work
    BY <1>5, <2>3
  <2>4. CASE work' = [work EXCEPT ![k][e] = @ + 1] /\ UNCHANGED client
    BY <1>0, <1>2, <2>1, <2>2, <2>4
  <2>5. CASE Moves(c, p) /\ UNCHANGED work
    <3>1. p.event = e
      BY <1>0 DEF ProcessesOK, Processes
    <3> HIDE DEF p, e
    <3>2. QED
      BY <1>0, <1>2, <2>1, <2>2, <2>5, <3>1 DEF Moves, ProcessesOK
  <2>6. QED
    BY <1>8, <2>3, <2>4, <2>5 DEF ReadDelivery
<1>9. ASSUME NEW c \in Clients, ReadRequest(c) \/ ReadFails(c) \/ Expire(c)
      PROVE  WorkKnown'
  <2>1. UNCHANGED work /\ ((\E ok : Leave(c, ok)) \/ UNCHANGED client)
    BY <1>9 DEF ReadRequest, ReadFails, Expire
  <2>2. QED
    BY <1>4, <1>5, <2>1
<1>10. ASSUME NEW c \in Clients, NEW failed \in BOOLEAN, NEW e \in Events,
              HandlerReturns(c, e, failed)
       PROVE  WorkKnown'
  <2>1. On(c) \in Conns
    BY <1>0, <1>10 DEF HandlerReturns, ProcessesOK, Processes, On
  <2>2. work' = [work EXCEPT ![On(c)][e] = @ - 1] /\ UNCHANGED client /\ work[On(c)][e] > 0
    BY <1>10 DEF HandlerReturns
  <2>3. \A k \in Conns, f \in Events : work'[k][f] > 0 => work[k][f] > 0
    BY <1>0, <2>1, <2>2
  <2>4. QED
    BY <1>2, <2>2, <2>3
<1>11. ASSUME NEW c \in Clients, NEW failed \in BOOLEAN, LoopReturns(c, failed)
       PROVE  WorkKnown'
  <2> DEFINE p == [client[c] EXCEPT !.pc = "reading", !.event = None]
  <2>1. p.event = None
    BY <1>0 DEF ProcessesOK, Processes
  <2>2. UNCHANGED work /\ ((\E ok : Leave(c, ok)) \/ Moves(c, p))
    BY <1>11 DEF LoopReturns
  <2> HIDE DEF p
  <2>3. QED
    BY <1>3, <1>5, <2>1, <2>2
<1>12. ASSUME NEW c \in Clients, Returned(c)
       PROVE  WorkKnown'
  <2>1. After(c, client[c].ok).event = None
    BY DEF After, Process
  <2>2. QED
    BY <1>3, <1>12, <2>1 DEF Returned
<1>13. CASE UNCHANGED vars
  BY <1>4, <1>13 DEF vars, clientVars
<1>14. QED
  BY <1>4, <1>6, <1>7, <1>8, <1>9, <1>10, <1>11, <1>12, <1>13
     DEF Next, RunStep, HandleStep, CoroutineStep, clientVars, Launch, Redial, Drop, Hello,
         ClosePrevious, Welcome, Bind, Request, Replay, Ack, Disconnect, Publish, SendPublished

(* An answer claims success only for an event whose handler has returned   *)
(* without an error.                                                       *)
LEMMA AnswerHonest ==
  ASSUME NEW c \in Clients, NEW e \in Events, NEW failed \in BOOLEAN, Answers(c, e, failed),
         ranOK \subseteq Events
  PROVE  Outcome(c, failed) = "completed" => e \in ranOK'
BY DEF Answers, Outcome

(* Answers under way are for published events, and a completed one for an  *)
(* event that was run.                                                     *)
LEMMA AnswersStep == TypeOK /\ UnderWayKnown /\ [Next]_vars => AnswersKnown'
<1> SUFFICES ASSUME TypeOK, UnderWayKnown, [Next]_vars PROVE AnswersKnown'
  OBVIOUS
<1>0. /\ upward \in [Conns -> Seq(UpFrames)] /\ AnswersKnown /\ WorkKnown
      /\ ProcessesOK /\ ranOK \subseteq Events
  BY DEF TypeOK, NetTypes, HistoryTypes, UnderWayKnown, ClientTypes, ProcessesOK, Fits, On, At
<1>1. (\A e \in Events : Published(e) => Published(e)') /\ ranOK \subseteq ranOK'
  BY Grows
<1>2. ASSUME \A k \in Conns : \A i \in DOMAIN upward'[k] :
               \/ \E j \in DOMAIN upward[k] : upward'[k][i] = upward[k][j]
               \/ upward'[k][i].kind \notin AckStatuses
               \/ /\ upward'[k][i].about \in Events /\ Published(upward'[k][i].about)
                  /\ upward'[k][i].kind = "completed" => upward'[k][i].about \in ranOK'
      PROVE  AnswersKnown'
  <2>1. \A k \in Conns : \A j \in DOMAIN upward[k] : upward[k][j] \in UpFrames
    BY <1>0
  <2>2. \A k \in Conns : \A j \in DOMAIN upward[k] : upward[k][j].kind \in AckStatuses =>
          /\ upward[k][j].about \in Events /\ Published(upward[k][j].about)
          /\ upward[k][j].kind = "completed" => upward[k][j].about \in ranOK
    BY <1>0, <2>1, AboutTypes DEF AnswersKnown, UpKnown
  <2>3. \A k \in Conns : \A i \in DOMAIN upward'[k] : upward'[k][i].kind \in AckStatuses =>
          /\ upward'[k][i].about \in Events /\ Published(upward'[k][i].about)
          /\ upward'[k][i].kind = "completed" => upward'[k][i].about \in ranOK'
    BY <1>1, <1>2, <2>2
  <2>4. \A k \in Conns : \A i \in DOMAIN upward'[k] : upward'[k][i].kind \in AckStatuses =>
          /\ prov'[upward'[k][i].about] # "none"
          /\ upward'[k][i].kind = "completed" => upward'[k][i].about \in ranOK'
    BY <1>1, <2>3 DEF Published
  <2>5. QED
    BY <2>4 DEF AnswersKnown, UpKnown, Published, AckStatuses
<1>3. CASE UNCHANGED upward
  BY <1>2, <1>3
<1>4. ASSUME NEW k, upward' = [upward EXCEPT ![k] = << >>]
      PROVE  AnswersKnown'
  <2>1. \A j \in Conns : upward'[j] = << >> \/ upward'[j] = upward[j]
    BY <1>0, <1>4
  <2>2. QED
    BY <1>2, <2>1
<1>5. ASSUME NEW k \in Conns, NEW kind, Receives(k, kind)
      PROVE  AnswersKnown'
  <2>1. upward[k] # << >> /\ upward' = [upward EXCEPT ![k] = Tail(@)]
    BY <1>5 DEF Receives
  <2>2. \A i \in DOMAIN Tail(upward[k]) : \E j \in DOMAIN upward[k] : Tail(upward[k])[i] = upward[k][j]
    BY <1>0, <2>1, QueueElements
  <2>3. QED
    BY <1>0, <1>2, <2>1, <2>2
<1>6. ASSUME NEW c \in Clients, NEW e \in Events, NEW failed \in BOOLEAN,
             Answers(c, e, failed), On(c) \in Conns, Published(e)
      PROVE  AnswersKnown'
  <2> DEFINE k == On(c)
             f == AckFrame(e, Outcome(c, failed))
  <2>1. f \in UpFrames /\ f.about = e /\ f.kind = Outcome(c, failed)
    BY FrameTypes DEF Outcome, AckStatuses, AckFrame
  <2>2. f.kind = "completed" => e \in ranOK'
    BY <1>0, <1>6, <2>1, AnswerHonest
  <2>3. UNCHANGED upward \/ upward' = [upward EXCEPT ![k] = Append(@, f)]
    BY <1>6 DEF Answers
  <2> HIDE DEF f
  <2>4. \A i \in DOMAIN Append(upward[k], f) :
          Append(upward[k], f)[i] = f \/ \E j \in DOMAIN upward[k] : Append(upward[k], f)[i] = upward[k][j]
    BY <1>0, <1>6, <2>1, QueueElements
  <2>5. CASE upward' = [upward EXCEPT ![k] = Append(@, f)]
    BY <1>0, <1>2, <1>6, <2>1, <2>2, <2>4, <2>5
  <2>6. QED
    BY <1>3, <2>3, <2>5
<1>7. ASSUME NEW c \in Clients, NEW failed \in BOOLEAN, NEW e \in Events,
             HandlerReturns(c, e, failed)
      PROVE  AnswersKnown'
  <2>1. On(c) \in Conns
    BY <1>0, <1>7 DEF HandlerReturns, ProcessesOK, Processes, On
  <2>2. Published(e)
    BY <1>0, <1>7, <2>1 DEF HandlerReturns, WorkKnown
  <2>3. QED
    BY <1>6, <1>7, <2>1, <2>2 DEF HandlerReturns
<1>8. ASSUME NEW c \in Clients, NEW failed \in BOOLEAN, LoopReturns(c, failed)
      PROVE  AnswersKnown'
  <2>1. On(c) \in Conns /\ client[c].event \in Events
    BY <1>0, <1>8, OnType DEF LoopReturns, At, ProcessesOK, Processes, Fits
  <2>2. Published(client[c].event)
    BY <1>0, <2>1, NoneIsNothing DEF WorkKnown
  <2>3. QED
    BY <1>6, <1>8, <2>1, <2>2 DEF LoopReturns
<1>9. ASSUME NEW c \in Clients, Dial(c)
      PROVE  AnswersKnown'
  <2>1. PICK k \in Conns : upward' = [upward EXCEPT ![k] = <<Frame("hello", None)>>]
    BY <1>9 DEF Dial
  <2>2. Frame("hello", None).kind \notin AckStatuses
    BY DEF Frame, AckStatuses
  <2>3. QED
    BY <1>0, <1>2, <2>1, <2>2
<1>10. ASSUME NEW c \in Clients, ReadWelcome(c)
       PROVE  AnswersKnown'
  <2> DEFINE k == On(c)
             sessions == Options[c].sessions
             binds == [i \in DOMAIN sessions |-> Frame("bind", sessions[i])]
  <2>1. CASE UNCHANGED upward
    BY <1>3, <2>1
  <2>2. CASE upward' = [upward EXCEPT ![k] = @ \o binds]
    <3>1. k \in Conns
      BY <1>10, ReadsType DEF ReadWelcome
    <3>2. upward[k] \in Seq(UpFrames)
      BY <1>0, <3>1
    <3>3. binds \in Seq(UpFrames) /\ \A i \in DOMAIN binds : binds[i].kind = "bind"
      <4>1. sessions \in Seq(Sessions)
        BY OptionsAssumption DEF OptionSets
      <4>2. \A s \in Sessions : Frame("bind", s) \in UpFrames /\ Frame("bind", s).kind = "bind"
        BY FrameTypes DEF Frame
      <4>3. PICK n \in Nat : sessions \in [1..n -> Sessions]
        BY <4>1, SeqDef
      <4>4. binds \in [1..n -> UpFrames] /\ \A i \in 1..n : binds[i].kind = "bind"
        BY <4>2, <4>3
      <4> HIDE DEF binds
      <4>5. DOMAIN binds = 1..n
        BY <4>4
      <4>6. binds \in Seq(UpFrames)
        BY <4>4, SeqDef
      <4>7. QED
        BY <4>4, <4>5, <4>6
    <3> HIDE DEF binds
    <3>4. ASSUME NEW i \in DOMAIN (upward[k] \o binds)
          PROVE  \/ \E j \in DOMAIN upward[k] : (upward[k] \o binds)[i] = upward[k][j]
                 \/ (upward[k] \o binds)[i].kind \notin AckStatuses
      <4>1. CASE i \in DOMAIN upward[k]
        BY <3>2, <3>3, <4>1
      <4>2. CASE i \notin DOMAIN upward[k]
        <5>1. i - Len(upward[k]) \in DOMAIN binds
          BY <3>2, <3>3, <3>4, <4>2
        <5>2. (upward[k] \o binds)[i] = binds[i - Len(upward[k])]
          BY <3>2, <3>3, <3>4, <4>2
        <5>3. (upward[k] \o binds)[i].kind = "bind"
          BY <3>3, <5>1, <5>2
        <5>4. QED
          BY <5>3 DEF AckStatuses
      <4>3. QED
        BY <4>1, <4>2
    <3>5. QED
      BY <1>0, <1>2, <2>2, <3>1, <3>4
  <2>3. QED
    BY <1>10, <2>1, <2>2 DEF ReadWelcome
<1>11. ASSUME NEW k \in Conns, ClosePrevious(k)
       PROVE  AnswersKnown'
  <2>1. upward' = upward \/ upward' = [upward EXCEPT ![coroutine[k].previous] = << >>]
    BY <1>11 DEF ClosePrevious
  <2>2. QED
    BY <1>3, <1>4, <2>1
<1>12. ASSUME NEW k \in Conns, Drop(k) \/ Disconnect(k)
       PROVE  AnswersKnown'
  BY <1>4, <1>12 DEF Drop, Disconnect
<1>13. ASSUME NEW k \in Conns, Hello(k) \/ Bind(k) \/ Ack(k)
       PROVE  AnswersKnown'
  BY <1>5, <1>13 DEF Hello, Bind, Ack
<1>14. CASE UNCHANGED vars
  BY <1>3, <1>14 DEF vars, netVars
<1>15. QED
  BY <1>3, <1>7, <1>8, <1>9, <1>10, <1>11, <1>12, <1>13, <1>14
     DEF Next, RunStep, HandleStep, CoroutineStep, netVars, Launch, Redial, ReadDelivery,
         ReadRequest, ReadFails, Expire, Returned, Welcome, Request, Replay, Publish,
         SendPublished

(* Every step is one of AtLeastOnce, or a stutter.                         *)
LEMMA PromiseStep ==
  ASSUME TypeOK, UnderWayKnown, [Next]_vars
  PROVE  [Promise!Next]_(Promise!vars)
<1>0. /\ prov \in [Events -> {"none", "pending"} \cup AckStatuses]
      /\ ProcessesOK /\ WorkKnown
  BY DEF TypeOK, ProviderTypes, UnderWayKnown, ClientTypes, ProcessesOK, Fits, On, At
<1> USE DEF Promise!vars, Promise!Next
<1>1. ASSUME NEW e \in Events, Publish(e)
      PROVE  Promise!Next
  <2>1. CrossedOff[e] = "none" /\ CrossedOff' = [CrossedOff EXCEPT ![e] = "pending"]
        /\ UNCHANGED ranOK
    BY <1>0, <1>1 DEF Publish, CrossedOff
  <2>2. Promise!Publish(e)
    BY <2>1 DEF Promise!Publish
  <2>3. QED
    BY <2>2
<1>2. ASSUME NEW k \in Conns, Ack(k)
      PROVE  Promise!Next
  <2> DEFINE a == Head(upward[k])
             s == IF a.kind = "accepted" THEN "failed" ELSE a.kind
  <2>1. /\ a = upward[k][1] /\ 1 \in DOMAIN upward[k]
        /\ a.kind \in AckStatuses /\ a.about \in Events
    BY <1>2, AckType
  <2>2. prov[a.about] # "none" /\ (a.kind = "completed" => a.about \in ranOK)
    BY <2>1 DEF UnderWayKnown, AnswersKnown, UpKnown, Published
  <2>3. prov' = [prov EXCEPT ![a.about] = a.kind] /\ UNCHANGED ranOK
    BY <1>2 DEF Ack
  <2> HIDE DEF a
  <2>4. s \in {"completed", "failed"} /\ (s = "completed" => a.about \in ranOK)
    BY <2>1, <2>2 DEF AckStatuses
  <2>5. CrossedOff[a.about] # "none" /\ CrossedOff' = [CrossedOff EXCEPT ![a.about] = s]
    BY <1>0, <2>1, <2>2, <2>3 DEF CrossedOff
  <2> HIDE DEF s
  <2>6. Promise!Answer(a.about, s)
    BY <2>3, <2>4, <2>5 DEF Promise!Answer
  <2>7. QED
    BY <2>1, <2>4, <2>6
<1>3. ASSUME NEW e \in Events, Published(e), UNCHANGED prov,
             ranOK' = ranOK \cup {e} \/ UNCHANGED ranOK
      PROVE  [Promise!Next]_(Promise!vars)
  <2>1. CrossedOff[e] # "none" /\ UNCHANGED CrossedOff
    BY <1>0, <1>3 DEF CrossedOff, Published
  <2>2. CASE ranOK' = ranOK \cup {e}
    BY <2>1, <2>2 DEF Promise!Wake
  <2>3. CASE UNCHANGED ranOK
    BY <2>1, <2>3
  <2>4. QED
    BY <1>3, <2>2, <2>3
<1>4. ASSUME NEW c \in Clients, NEW failed \in BOOLEAN, LoopReturns(c, failed)
      PROVE  [Promise!Next]_(Promise!vars)
  <2>1. client[c].event \in Events
    BY <1>0, <1>4 DEF LoopReturns, At, ProcessesOK, Processes, Fits
  <2>2. Published(client[c].event)
    BY <1>0, <2>1, NoneIsNothing DEF WorkKnown
  <2>3. UNCHANGED prov /\ (ranOK' = ranOK \cup {client[c].event} \/ UNCHANGED ranOK)
    BY <1>4 DEF LoopReturns, Answers, provVars
  <2>4. QED
    BY <1>3, <2>1, <2>2, <2>3
<1>5. ASSUME NEW c \in Clients, NEW failed \in BOOLEAN, NEW e \in Events,
             HandlerReturns(c, e, failed)
      PROVE  [Promise!Next]_(Promise!vars)
  <2>1. Published(e)
    BY <1>0, <1>5 DEF HandlerReturns, ProcessesOK, Processes, On, WorkKnown
  <2>2. UNCHANGED prov /\ (ranOK' = ranOK \cup {e} \/ UNCHANGED ranOK)
    BY <1>5 DEF HandlerReturns, Answers, provVars
  <2>3. QED
    BY <1>3, <2>1, <2>2
<1>6. CASE UNCHANGED <<prov, ranOK>>
  BY <1>6 DEF CrossedOff
<1>7. QED
  BY <1>1, <1>2, <1>4, <1>5, <1>6, WhoChanges

(* The connection keeps the abstract promise, with any number of processes *)
(* of one device that take each other's place and any options: what the    *)
(* provider crosses off as completed was carried out (client.go:161-173).  *)
THEOREM ClientKeepsThePromise == Spec => ImplementsAtLeastOnce
<1>1. Init => Promise!Init
  BY DEF Init, Promise!Init, CrossedOff
<1>2. Init => UnderWayKnown
  BY DEF Init, UnderWayKnown, ProviderKnown, DeliveriesKnown, WorkKnown, AnswersKnown,
         Gone, Idle, Process
<1>3. TypeOK /\ UnderWayKnown /\ [Next]_vars => UnderWayKnown'
  BY ProviderStep, DeliveriesStep, WorkStep, AnswersStep DEF UnderWayKnown
<1>4. TypeOK /\ UnderWayKnown /\ [Next]_vars => [Promise!Next]_(Promise!vars)
  BY PromiseStep
<1>5. QED
  BY <1>1, <1>2, <1>3, <1>4, ClientTypeCorrect, PTL
     DEF Spec, ImplementsAtLeastOnce, Promise!Spec
-----------------------------------------------------------------------------
(* Pending deliveries on their way.                                        *)

(* A coroutine has something to replay only while it replays, and no       *)
(* session is bound on a connection that is not yet in its loop.           *)
QueueInReplay ==
  \A k \in Conns :
    /\ coroutine[k].queue # {} => coroutine[k].pc = "replay"
    /\ coroutine[k].pc \in {"gone", "hello", "replace", "welcome"} => boundOn[k] = {}

(* What a step of one coroutine does to the coroutines.                    *)
LEMMA CoroutineFrame ==
  ASSUME TypeOK, NEW k \in Conns, CoroutineStep(k)
  PROVE  \A j \in Conns : j # k => coroutine'[j] = coroutine[j] /\ boundOn'[j] = boundOn[j]
BY DEF CoroutineStep, Hello, ClosePrevious, Welcome, Bind, Request, Replay, Ack, Disconnect,
       Runs, Replaying, CopyPending, TypeOK, ProviderTypes, HistoryTypes

(* Taking, or continuing, a copy of the pending deliveries.                *)
LEMMA ReplayingFrame ==
  ASSUME TypeOK, NEW k \in Conns, NEW E, Replaying(k, E)
  PROVE  /\ coroutine'[k].queue = E
         /\ coroutine'[k].pc = IF E = {} THEN "loop" ELSE "replay"
         /\ \A j \in Conns : j # k => coroutine'[j] = coroutine[j]
<1> DEFINE g == [coroutine[k] EXCEPT !.pc = IF E = {} THEN "loop" ELSE "replay",
                                     !.session = None, !.queue = E]
<1>1. coroutine[k] \in Coroutines /\ coroutine \in [Conns -> Coroutines]
  BY DEF TypeOK, ProviderTypes
<1>2. g.queue = E /\ g.pc = IF E = {} THEN "loop" ELSE "replay"
  BY <1>1 DEF Coroutines
<1>3. coroutine' = [coroutine EXCEPT ![k] = g]
  BY DEF Replaying
<1> HIDE DEF g
<1>4. QED
  BY <1>1, <1>2, <1>3

(* The steps of a coroutine that copy or replay nothing keep its queue.    *)
LEMMA QueueKept ==
  ASSUME TypeOK, NEW k \in Conns,
         Hello(k) \/ ClosePrevious(k) \/ Welcome(k) \/ Bind(k) \/ Ack(k)
  PROVE  /\ coroutine'[k].queue = coroutine[k].queue /\ boundOn' = boundOn
         /\ coroutine[k].pc # "replay"
         /\ coroutine[k].pc = "hello" \/ coroutine'[k].pc \notin {"gone", "hello", "replace"}
         /\ coroutine[k].pc \in {"hello", "replace", "welcome"} \/ coroutine'[k].pc # "welcome"
<1>0. coroutine[k] \in Coroutines /\ coroutine \in [Conns -> Coroutines]
  BY DEF TypeOK, ProviderTypes
<1>1. ASSUME NEW g, coroutine' = [coroutine EXCEPT ![k] = g]
      PROVE  coroutine'[k] = g
  BY <1>0, <1>1
<1>2. CASE Hello(k)
  <2> DEFINE g == [coroutine[k] EXCEPT !.pc = IF current = None THEN "welcome" ELSE "replace",
                                       !.previous = current]
  <2>1. g.queue = coroutine[k].queue
    BY <1>0 DEF Coroutines
  <2>2. coroutine' = [coroutine EXCEPT ![k] = g]
    BY <1>2 DEF Hello
  <2> HIDE DEF g
  <2>3. QED
    BY <1>1, <1>2, <2>1, <2>2 DEF Hello
<1>3. CASE ClosePrevious(k)
  <2> DEFINE g == [coroutine[k] EXCEPT !.pc = "welcome", !.previous = None]
  <2>1. g.queue = coroutine[k].queue /\ g.pc = "welcome"
    BY <1>0 DEF Coroutines
  <2>2. coroutine' = [coroutine EXCEPT ![k] = g]
    BY <1>3 DEF ClosePrevious
  <2> HIDE DEF g
  <2>3. QED
    BY <1>1, <1>3, <2>1, <2>2 DEF ClosePrevious
<1>4. CASE Welcome(k)
  BY <1>0, <1>4 DEF Welcome, Runs, Coroutines
<1>5. CASE Bind(k)
  <2> DEFINE g == [coroutine[k] EXCEPT !.pc = "request", !.session = Head(upward[k]).about]
  <2>1. g.queue = coroutine[k].queue /\ g.pc = "request"
    BY <1>0 DEF Coroutines
  <2>2. coroutine' = [coroutine EXCEPT ![k] = g]
    BY <1>5 DEF Bind
  <2> HIDE DEF g
  <2>3. QED
    BY <1>1, <1>5, <2>1, <2>2 DEF Bind
<1>6. CASE Ack(k)
  BY <1>6 DEF Ack
<1>7. QED
  BY <1>2, <1>3, <1>4, <1>5, <1>6

(* Every step that is none of a coroutine leaves them alone, but for a     *)
(* client that dials.                                                      *)
LEMMA StepsByCoroutine ==
  ASSUME [Next]_vars
  PROVE  \/ \E k \in Conns : CoroutineStep(k)
         \/ \E c \in Clients : Dial(c)
         \/ UNCHANGED <<coroutine, boundOn>>
BY DEF Next, vars, provVars, RunStep, HandleStep, Launch, Redial, ReadWelcome, ReadDelivery,
       ReadRequest, ReadFails, Returned, LoopReturns, HandlerReturns, Expire, Drop, Publish,
       SendPublished

(* Every step keeps the queues where they belong.                          *)
LEMMA QueueStep ==
  ASSUME TypeOK, ServedIsTaken, QueueInReplay, [Next]_vars
  PROVE  QueueInReplay'
<1>1. ASSUME NEW k \in Conns, CoroutineStep(k)
      PROVE  QueueInReplay'
  <2> DEFINE Good == /\ coroutine'[k].queue # {} => coroutine'[k].pc = "replay"
                     /\ coroutine'[k].pc \in {"gone", "hello", "replace", "welcome"} => boundOn'[k] = {}
  <2>1. CASE Hello(k) \/ ClosePrevious(k) \/ Welcome(k) \/ Bind(k) \/ Ack(k)
    <3>1. coroutine[k].queue = {} /\ coroutine'[k].queue = {} /\ boundOn' = boundOn
      BY <2>1, QueueKept DEF QueueInReplay
    <3>2. coroutine'[k].pc \in {"gone", "hello", "replace", "welcome"} => boundOn[k] = {}
      BY <2>1, QueueKept DEF QueueInReplay
    <3>3. Good
      BY <3>1, <3>2
    <3>4. QED
      BY <1>1, <3>3, CoroutineFrame DEF QueueInReplay
  <2>2. CASE Request(k) \/ Replay(k)
    <3>1. PICK E : Replaying(k, E)
      BY <2>2 DEF Request, CopyPending, Replay
    <3>2. Good
      BY <3>1, ReplayingFrame
    <3>3. QED
      BY <1>1, <3>2, CoroutineFrame DEF QueueInReplay
  <2>3. CASE Disconnect(k)
    <3>1. coroutine'[k] = Gone /\ boundOn'[k] = {}
      BY <2>3 DEF Disconnect, TypeOK, ProviderTypes, HistoryTypes
    <3>2. Good
      BY <3>1 DEF Gone
    <3>3. QED
      BY <1>1, <3>2, CoroutineFrame DEF QueueInReplay
  <2>4. QED
    BY <1>1, <2>1, <2>2, <2>3 DEF CoroutineStep
<1>2. ASSUME NEW c \in Clients, Dial(c)
      PROVE  QueueInReplay'
  <2>1. PICK k \in Conns :
          /\ Free(k)
          /\ coroutine' = [coroutine EXCEPT ![k] = [Gone EXCEPT !.pc = "hello"]]
          /\ UNCHANGED boundOn
    BY <1>2 DEF Dial
  <2>2. /\ coroutine'[k].queue = {}
        /\ \A j \in Conns : j # k => coroutine'[j] = coroutine[j]
    BY <2>1 DEF Gone, TypeOK, ProviderTypes
  <2>3. boundOn[k] = {}
    BY <2>1 DEF Free, ServedIsTaken, QueueInReplay
  <2>4. QED
    BY <2>1, <2>2, <2>3 DEF QueueInReplay
<1>3. CASE UNCHANGED <<coroutine, boundOn>>
  BY <1>3 DEF QueueInReplay
<1>4. QED
  BY <1>1, <1>2, <1>3, StepsByCoroutine

(* The state in which the provider owes a delivery to the client, and what *)
(* it means that the delivery is on its way.                               *)
Owed(e, k) ==
  prov[e] = "pending" /\ current = k /\ link[k] = "open" /\ Target[e] \in boundOn[k]

OnItsWay(e, k) ==
  \/ e \in outbox \/ \E j \in Conns : e \in coroutine[j].queue
  \/ Has(down[k], {"deliver"}, e) \/ HandledOn(k, e)
  \/ Has(upward[k], AckStatuses, e)

(* A frame stays in a queue when others are appended to it, and when       *)
(* another one is taken from it.                                           *)
LEMMA HasKept ==
  ASSUME NEW S, NEW q \in Seq(S), NEW kinds, NEW e
  PROVE  /\ \A f \in S :
              /\ Has(q, kinds, e) => Has(Append(q, f), kinds, e)
              /\ f.kind \in kinds /\ f.about = e => Has(Append(q, f), kinds, e)
         /\ \A r \in Seq(S) : Has(q, kinds, e) => Has(q \o r, kinds, e)
         /\ q # << >> /\ Has(q, kinds, e) /\ ~(Head(q).kind \in kinds /\ Head(q).about = e)
              => Has(Tail(q), kinds, e)
<1>1. ASSUME NEW f \in S
      PROVE  /\ Has(q, kinds, e) => Has(Append(q, f), kinds, e)
             /\ f.kind \in kinds /\ f.about = e => Has(Append(q, f), kinds, e)
  <2>1. \A i \in DOMAIN q : i \in DOMAIN Append(q, f) /\ Append(q, f)[i] = q[i]
    OBVIOUS
  <2>2. Len(q) + 1 \in DOMAIN Append(q, f) /\ Append(q, f)[Len(q) + 1] = f
    OBVIOUS
  <2>3. QED
    BY <2>1, <2>2 DEF Has
<1>2. ASSUME NEW r \in Seq(S), Has(q, kinds, e)
      PROVE  Has(q \o r, kinds, e)
  <2>1. \A i \in DOMAIN q : i \in DOMAIN (q \o r) /\ (q \o r)[i] = q[i]
    OBVIOUS
  <2>2. QED
    BY <1>2, <2>1 DEF Has
<1>3. ASSUME q # << >>, Has(q, kinds, e), ~(Head(q).kind \in kinds /\ Head(q).about = e)
      PROVE  Has(Tail(q), kinds, e)
  <2>1. /\ Tail(q) \in Seq(S) /\ Len(Tail(q)) = Len(q) - 1 /\ Head(q) = q[1]
        /\ \A n \in 1..Len(Tail(q)) : Tail(q)[n] = q[n + 1]
    BY <1>3, HeadTailProperties
  <2>2. PICK i \in DOMAIN q : q[i].kind \in kinds /\ q[i].about = e
    BY <1>3 DEF Has
  <2>3. i # 1
    BY <1>3, <2>1, <2>2
  <2>4. i - 1 \in DOMAIN Tail(q) /\ Tail(q)[i - 1] = q[i]
    BY <2>1, <2>2, <2>3
  <2>5. QED
    BY <2>2, <2>4 DEF Has
<1>4. QED
  BY <1>1, <1>2, <1>3

(* A step that takes away nothing of what brings a delivery.               *)
LEMMA WayKept ==
  ASSUME NEW e \in Events, NEW k \in Conns, OnItsWay(e, k),
         e \in outbox => OnItsWay(e, k)',
         \A j \in Conns : e \in coroutine[j].queue => OnItsWay(e, k)',
         Has(down[k], {"deliver"}, e) => OnItsWay(e, k)',
         HandledOn(k, e) => OnItsWay(e, k)',
         Has(upward[k], AckStatuses, e) => OnItsWay(e, k)'
  PROVE  OnItsWay(e, k)'
BY DEF OnItsWay

(* A client's step changes nothing of other connections.                   *)
LEMMA OtherConnection ==
  ASSUME NEW e \in Events, NEW k \in Conns, OnItsWay(e, k),
         NEW c \in Clients, On(c) # k,
         \A x \in Clients : x # c => client'[x] = client[x],
         UNCHANGED <<outbox, coroutine>>,
         down'[k] = down[k], upward'[k] = upward[k], work'[k] = work[k]
  PROVE  OnItsWay(e, k)'
<1>1. HandledOn(k, e) => HandledOn(k, e)'
  BY DEF HandledOn, On
<1>2. QED
  BY <1>1, WayKept DEF OnItsWay

(* A process that moves is the only one that does.                         *)
LEMMA MovesFrame ==
  ASSUME TypeOK, NEW c \in Clients, NEW p, Moves(c, p)
  PROVE  client'[c] = p /\ \A x \in Clients : x # c => client'[x] = client[x]
BY DEF Moves, TypeOK, ClientTypes

(* When Run returns, its connection is not open any more; the others do    *)
(* not notice.                                                             *)
LEMMA LeaveKeepsWay ==
  ASSUME TypeOK, NEW e \in Events, NEW k \in Conns, OnItsWay(e, k), link'[k] = "open",
         NEW c \in Clients, On(c) \in Conns, NEW ok, Leave(c, ok),
         UNCHANGED <<outbox, coroutine, work>>,
         \A j \in Conns : j # On(c) => upward'[j] = upward[j]
  PROVE  OnItsWay(e, k)'
<1>1. On(c) # k
  BY DEF Leave, Closed, TypeOK, NetTypes
<1>2. \A x \in Clients : x # c => client'[x] = client[x]
  BY MovesFrame DEF Leave
<1>3. down'[k] = down[k]
  BY <1>1 DEF Leave, TypeOK, NetTypes
<1>4. QED
  BY <1>1, <1>2, <1>3, OtherConnection

(* What a client reads is handled, or it was no delivery.                  *)
LEMMA ReadKeepsWay ==
  ASSUME TypeOK, NEW e \in Events, NEW k \in Conns, OnItsWay(e, k), link'[k] = "open",
         NEW c \in Clients,
         ReadWelcome(c) \/ ReadDelivery(c) \/ ReadRequest(c) \/ ReadFails(c) \/ Expire(c)
  PROVE  OnItsWay(e, k)'
<1>0. /\ ProcessesOK /\ At(c, "reading")
      /\ down \in [Conns -> Seq(DownFrames)] /\ upward \in [Conns -> Seq(UpFrames)]
      /\ work \in [Conns -> [Events -> Nat]] /\ client \in [Clients -> Processes]
  BY DEF TypeOK, NetTypes, ClientTypes, ProcessesOK, Fits, On, At, ReadWelcome, ReadDelivery,
         ReadRequest, ReadFails, Expire, Reads
<1>1. On(c) \in Conns /\ client[c].event = None
  BY <1>0, OnType DEF ProcessesOK, Fits, At
<1>2. UNCHANGED <<outbox, coroutine>>
  BY DEF ReadWelcome, ReadDelivery, ReadRequest, ReadFails, Expire, provVars
<1>3. ASSUME NEW ok, Leave(c, ok), UNCHANGED <<upward, work>>
      PROVE  OnItsWay(e, k)'
  BY <1>1, <1>2, <1>3, LeaveKeepsWay
<1>4. ASSUME Reads(c), Consume(c)
      PROVE  /\ \A j \in Conns : j # On(c) => down'[j] = down[j]
             /\ Has(down[On(c)], {"deliver"}, e)
                  /\ ~(Head(down[On(c)]).kind = "deliver" /\ Head(down[On(c)]).about = e)
                  => Has(down'[On(c)], {"deliver"}, e)
  <2>1. down' = [down EXCEPT ![On(c)] = Tail(@)] /\ down[On(c)] # << >>
    BY <1>4 DEF Consume, Reads
  <2>2. down'[On(c)] = Tail(down[On(c)]) /\ down[On(c)] \in Seq(DownFrames)
    BY <1>0, <1>1, <2>1
  <2>3. QED
    BY <1>0, <2>1, <2>2, HasKept
<1>5. CASE ReadWelcome(c)
  <2>1. CASE \E ok : Leave(c, ok) /\ UNCHANGED <<upward, work>>
    BY <1>3, <2>1
  <2>2. CASE /\ Consume(c)
             /\ client' = [client EXCEPT ![c].welcomed = TRUE]
             /\ upward' = [upward EXCEPT ![On(c)] = @ \o
                  [i \in DOMAIN Options[c].sessions |-> Frame("bind", Options[c].sessions[i])]]
    <3> DEFINE binds == [i \in DOMAIN Options[c].sessions |-> Frame("bind", Options[c].sessions[i])]
    <3>1. binds \in Seq(UpFrames)
      BY BindsType
    <3> HIDE DEF binds
    <3>2. upward' = [upward EXCEPT ![On(c)] = @ \o binds]
      BY <2>2 DEF binds
    <3>3. Has(upward[k], AckStatuses, e) => Has(upward'[k], AckStatuses, e)
      <4>1. upward[k] \in Seq(UpFrames)
        BY <1>0
      <4>2. upward'[k] = upward[k] \/ upward'[k] = upward[k] \o binds
        BY <1>0, <1>1, <3>2
      <4>3. QED
        BY <3>1, <4>1, <4>2, HasKept
    <3>4. Has(down[k], {"deliver"}, e) => Has(down'[k], {"deliver"}, e)
      BY <1>4, <1>5, <2>2 DEF ReadWelcome
    <3>5. HandledOn(k, e) => HandledOn(k, e)'
      <4>1. \A x \in Clients : client'[x].conn = client[x].conn /\ client'[x].event = client[x].event
        BY <1>0, <2>2 DEF Processes
      <4>2. UNCHANGED work
        BY <1>5 DEF ReadWelcome
      <4>3. QED
        BY <4>1, <4>2 DEF HandledOn, On
    <3>6. QED
      BY <1>2, <3>3, <3>4, <3>5, WayKept DEF OnItsWay
  <2>3. QED
    BY <1>5, <2>1, <2>2 DEF ReadWelcome
<1>6. CASE ReadDelivery(c)
  <2> DEFINE d == Head(down[On(c)]).about
  <2>1. CASE \E ok : Leave(c, ok) /\ UNCHANGED <<upward, work>>
    BY <1>3, <2>1
  <2>2. d \in Events /\ Reads(c) /\ UNCHANGED upward /\ Head(down[On(c)]).kind = "deliver"
    BY <1>6, ReadsType DEF ReadDelivery
  <2>3. CASE Consume(c) /\ work' = [work EXCEPT ![On(c)][d] = @ + 1] /\ UNCHANGED client
    <3>1. /\ \A j \in Conns, f \in Events : work'[j][f] >= work[j][f]
          /\ work'[On(c)][d] > 0
      <4> HIDE DEF d
      <4>1. \A j \in Conns, f \in Events :
              work'[j][f] = IF j = On(c) /\ f = d THEN work[j][f] + 1 ELSE work[j][f]
        BY <1>0, <1>1, <2>2, <2>3
      <4>2. \A j \in Conns, f \in Events : work[j][f] \in Nat
        BY <1>0
      <4>3. QED
        BY <1>1, <2>2, <4>1, <4>2
    <3>2. HandledOn(k, e) => HandledOn(k, e)'
      <4>1. work[k][e] \in Nat /\ work'[k][e] \in Nat /\ work'[k][e] >= work[k][e]
        BY <1>0, <1>1, <2>2, <2>3
      <4>2. QED
        BY <2>3, <4>1 DEF HandledOn, On
    <3>3. Has(down[k], {"deliver"}, e) => Has(down'[k], {"deliver"}, e) \/ HandledOn(k, e)'
      BY <1>4, <2>2, <2>3, <3>1 DEF HandledOn
    <3>4. QED
      BY <1>2, <2>2, <3>2, <3>3, WayKept DEF OnItsWay
  <2>4. CASE Consume(c) /\ Moves(c, [client[c] EXCEPT !.pc = "handling", !.event = d]) /\ UNCHANGED work
    <3> DEFINE p == [client[c] EXCEPT !.pc = "handling", !.event = d]
    <3>1. p.conn = On(c) /\ p.event = d
      BY <1>0 DEF Processes, On
    <3>2. Moves(c, p)
      BY <2>4
    <3> HIDE DEF p
    <3>3. client'[c] = p /\ \A x \in Clients : x # c => client'[x] = client[x]
      BY <3>2, MovesFrame
    <3>4. HandledOn(k, e) => HandledOn(k, e)'
      <4>1. \A x \in Clients : client[x].event = e => x # c
        BY <1>1, NoneIsNothing
      <4>2. QED
        BY <2>4, <3>3, <4>1 DEF HandledOn, On
    <3>5. Has(down[k], {"deliver"}, e) => Has(down'[k], {"deliver"}, e) \/ HandledOn(k, e)'
      BY <1>4, <2>2, <2>4, <3>1, <3>3 DEF HandledOn, On
    <3>6. QED
      BY <1>2, <2>2, <3>4, <3>5, WayKept DEF OnItsWay
  <2>5. QED
    BY <1>6, <2>1, <2>3, <2>4 DEF ReadDelivery
<1>7. CASE ReadRequest(c)
  <2>1. CASE \E ok : Leave(c, ok) /\ UNCHANGED <<upward, work>>
    BY <1>3, <2>1
  <2>2. CASE Consume(c) /\ UNCHANGED <<client, upward, work>>
    <3>1. Has(down[k], {"deliver"}, e) => Has(down'[k], {"deliver"}, e)
      BY <1>4, <1>7, <2>2 DEF ReadRequest
    <3>2. HandledOn(k, e) => HandledOn(k, e)'
      BY <2>2 DEF HandledOn, On
    <3>3. QED
      BY <1>2, <2>2, <3>1, <3>2, WayKept DEF OnItsWay
  <2>3. QED
    BY <1>7, <2>1, <2>2 DEF ReadRequest
<1>8. CASE ReadFails(c) \/ Expire(c)
  BY <1>3, <1>8 DEF ReadFails, Expire
<1>9. QED
  BY <1>5, <1>6, <1>7, <1>8

(* A handler that returns has its answer written, or its connection is     *)
(* gone.                                                                   *)
LEMMA HandleKeepsWay ==
  ASSUME TypeOK, NEW e \in Events, NEW k \in Conns, OnItsWay(e, k), link'[k] = "open",
         NEW c \in Clients, HandleStep(c)
  PROVE  OnItsWay(e, k)'
<1>0. /\ ProcessesOK /\ client \in [Clients -> Processes]
      /\ upward \in [Conns -> Seq(UpFrames)] /\ work \in [Conns -> [Events -> Nat]]
      /\ link \in [Conns -> {"free", "open", "shut"}]
  BY DEF TypeOK, NetTypes, ClientTypes, ProcessesOK, Fits, On, At
<1>1. ASSUME NEW failed \in BOOLEAN, NEW f \in Events, Answers(c, f, failed), On(c) \in Conns
      PROVE  /\ \A j \in Conns : j # On(c) => upward'[j] = upward[j]
             /\ Has(upward[k], AckStatuses, e) => Has(upward'[k], AckStatuses, e)
             /\ link[On(c)] = "open" => Has(upward'[On(c)], AckStatuses, f)
  <2> DEFINE a == AckFrame(f, Outcome(c, failed))
  <2>1. a \in UpFrames /\ a.kind \in AckStatuses /\ a.about = f
    BY FrameTypes DEF Outcome, AckStatuses, AckFrame
  <2>2. upward' = IF link[On(c)] = "open" THEN [upward EXCEPT ![On(c)] = Append(@, a)] ELSE upward
    BY <1>1 DEF Answers
  <2> HIDE DEF a
  <2>3. upward[On(c)] \in Seq(UpFrames) /\ upward[k] \in Seq(UpFrames)
    BY <1>0, <1>1
  <2>4. link[On(c)] = "open" => upward'[On(c)] = Append(upward[On(c)], a)
    BY <1>0, <1>1, <2>2
  <2>5. \A j \in Conns : j # On(c) => upward'[j] = upward[j]
    BY <1>0, <2>2
  <2>6. Has(upward[k], AckStatuses, e) => Has(upward'[k], AckStatuses, e)
    BY <2>1, <2>2, <2>3, <2>4, <2>5, HasKept
  <2>7. link[On(c)] = "open" => Has(upward'[On(c)], AckStatuses, f)
    BY <2>1, <2>3, <2>4, HasKept
  <2>8. QED
    BY <2>5, <2>6, <2>7
<1>2. ASSUME NEW failed \in BOOLEAN, LoopReturns(c, failed)
      PROVE  OnItsWay(e, k)'
  <2>1. On(c) \in Conns /\ client[c].event \in Events
    BY <1>0, <1>2, OnType, NoneIsNothing DEF LoopReturns, At, ProcessesOK, Fits, Processes
  <2>2. Answers(c, client[c].event, failed) /\ UNCHANGED <<outbox, coroutine, work>>
    BY <1>2 DEF LoopReturns, provVars
  <2>3. CASE \E ok : Leave(c, ok)
    BY <1>1, <2>1, <2>2, <2>3, LeaveKeepsWay
  <2>4. CASE /\ link[On(c)] = "open" /\ UNCHANGED <<link, down>>
             /\ Moves(c, [client[c] EXCEPT !.pc = "reading", !.event = None])
    <3>1. \A x \in Clients : x # c => client'[x] = client[x]
      BY <2>4, MovesFrame
    <3>2. HandledOn(k, e) => HandledOn(k, e)' \/ Has(upward'[k], AckStatuses, e)
      BY <1>1, <2>1, <2>2, <2>4, <3>1 DEF HandledOn, On
    <3>3. QED
      BY <1>1, <2>1, <2>2, <2>4, <3>2, WayKept DEF OnItsWay
  <2>5. QED
    BY <1>2, <2>3, <2>4 DEF LoopReturns
<1>3. ASSUME NEW failed \in BOOLEAN, NEW f \in Events, HandlerReturns(c, f, failed)
      PROVE  OnItsWay(e, k)'
  <2>1. On(c) \in Conns
    BY <1>0, <1>3 DEF HandlerReturns, On, Processes
  <2>2. /\ Answers(c, f, failed) /\ UNCHANGED <<outbox, coroutine, down, client, link>>
        /\ work' = [work EXCEPT ![On(c)][f] = @ - 1]
    BY <1>3 DEF HandlerReturns, provVars
  <2>3. work'[k][e] = work[k][e] \/ (k = On(c) /\ e = f)
    BY <1>0, <2>1, <2>2
  <2>4. HandledOn(k, e) => HandledOn(k, e)' \/ Has(upward'[k], AckStatuses, e)
    BY <1>1, <2>1, <2>2, <2>3 DEF HandledOn, On
  <2>5. QED
    BY <1>1, <2>1, <2>2, <2>4, WayKept DEF OnItsWay
<1>4. QED
  BY <1>2, <1>3 DEF HandleStep

(* The other steps of a client: it dials, or it has closed its connection. *)
LEMMA ConnectKeepsWay ==
  ASSUME TypeOK, NEW e \in Events, NEW k \in Conns, OnItsWay(e, k), link'[k] = "open",
         link[k] = "open", ServedIsTaken, QueueInReplay,
         NEW c \in Clients, Launch(c) \/ Redial(c) \/ Returned(c)
  PROVE  OnItsWay(e, k)'
<1>0. ProcessesOK /\ client \in [Clients -> Processes]
  BY DEF TypeOK, ClientTypes, ProcessesOK, Fits, On, At
<1>1. CASE Returned(c)
  <2>1. On(c) # k
    BY <1>0, <1>1, OnType DEF Returned, At, Closed, TypeOK, NetTypes
  <2>2. \A x \in Clients : x # c => client'[x] = client[x]
    BY <1>1, MovesFrame DEF Returned
  <2>3. QED
    BY <1>1, <2>1, <2>2, OtherConnection DEF Returned, provVars
<1>2. CASE Launch(c) \/ Redial(c)
  <2>0. On(c) = None
    BY <1>0, <1>2 DEF Launch, Redial, At, ProcessesOK, Fits, On
  <2>1. PICK j \in Conns :
          /\ Free(j)
          /\ Moves(c, [Process("reading") EXCEPT !.conn = j])
          /\ upward' = [upward EXCEPT ![j] = <<Frame("hello", None)>>]
          /\ coroutine' = [coroutine EXCEPT ![j] = [Gone EXCEPT !.pc = "hello"]]
          /\ UNCHANGED <<work, down, outbox>>
    BY <1>2 DEF Launch, Redial, Dial
  <2>2. j # k
    BY <2>1 DEF Free
  <2>3. upward'[k] = upward[k]
    BY <2>1, <2>2 DEF TypeOK, NetTypes
  <2>4. \A i \in Conns : e \in coroutine[i].queue => e \in coroutine'[i].queue
    <3>1. coroutine[j].queue = {}
      BY <2>1 DEF Free, ServedIsTaken, QueueInReplay
    <3>2. \A i \in Conns : i # j => coroutine'[i] = coroutine[i]
      BY <2>1 DEF TypeOK, ProviderTypes
    <3>3. QED
      BY <3>1, <3>2
  <2>5. HandledOn(k, e) => HandledOn(k, e)'
    <3>1. \A x \in Clients : x # c => client'[x] = client[x]
      BY <2>1, MovesFrame
    <3>2. QED
      BY <2>0, <2>1, <3>1, NoneIsNothing DEF HandledOn, On
  <2>6. QED
    BY <2>1, <2>3, <2>4, <2>5, WayKept DEF OnItsWay
<1>3. QED
  BY <1>1, <1>2

(* Whatever a client or the network does, what the provider owes was owed  *)
(* before, and stays on its way.                                           *)
LEMMA ClientKeepsWay ==
  ASSUME TypeOK, ServedIsTaken, QueueInReplay, NothingStranded,
         NEW e \in Events, NEW k \in Conns, Owed(e, k)', NEW c \in Clients,
         Launch(c) \/ RunStep(c) \/ HandleStep(c) \/ Expire(c)
  PROVE  OnItsWay(e, k)'
<1>0. link \in [Conns -> {"free", "open", "shut"}]
  BY DEF TypeOK, NetTypes
<1>1. UNCHANGED <<prov, current, boundOn>>
  BY DEF Launch, RunStep, HandleStep, Expire, Dial, Redial, ReadWelcome, ReadDelivery,
         ReadRequest, ReadFails, Returned, LoopReturns, HandlerReturns, provVars
<1>2. link'[k] = "open" /\ Target[e] \in boundOn[k]
  BY <1>1 DEF Owed
<1>3. link[k] = "open"
  <2>1. ASSUME NEW ok, Leave(c, ok)
        PROVE  link[k] = "open"
    BY <1>0, <1>2, <2>1 DEF Leave, Closed
  <2>2. CASE Returned(c)
    BY <1>0, <1>2, <2>2 DEF Returned, Closed
  <2>3. CASE Dial(c)
    <3>1. PICK j \in Conns : Free(j) /\ link' = [link EXCEPT ![j] = "open"]
      BY <2>3 DEF Dial
    <3>2. boundOn[j] = {}
      BY <3>1 DEF Free, ServedIsTaken, QueueInReplay
    <3>3. QED
      BY <1>0, <1>2, <3>1, <3>2
  <2>4. CASE UNCHANGED link
    BY <1>2, <2>4
  <2>5. QED
    BY <2>1, <2>2, <2>3, <2>4 DEF Launch, RunStep, HandleStep, Expire, Redial, ReadWelcome,
       ReadDelivery, ReadRequest, ReadFails, LoopReturns, HandlerReturns
<1>4. OnItsWay(e, k)
  BY <1>1, <1>3 DEF NothingStranded, Owed, OnItsWay
<1>5. QED
  BY <1>2, <1>3, <1>4, ReadKeepsWay, HandleKeepsWay, ConnectKeepsWay DEF RunStep

(* A step of the provider leaves the handlers alone.                       *)
LEMMA HandledKept ==
  ASSUME UNCHANGED clientVars
  PROVE  \A e \in Events, k \in Conns : HandledOn(k, e) => HandledOn(k, e)'
BY DEF HandledOn, On, clientVars

(* A delivery that is sent while the device stays current is under way on  *)
(* its connection.                                                         *)
LEMMA SendKeepsWay ==
  ASSUME TypeOK, NEW f \in Events, SendCurrent(f), NEW k \in Conns, link[k] = "open", current' = k
  PROVE  /\ current = k
         /\ Has(down'[k], {"deliver"}, f)
         /\ \A e \in Events : Has(down[k], {"deliver"}, e) => Has(down'[k], {"deliver"}, e)
<1>1. current = k /\ down' = [down EXCEPT ![k] = Append(@, Frame("deliver", f))]
  BY NoneIsNothing DEF SendCurrent
<1>2. down'[k] = Append(down[k], Frame("deliver", f)) /\ down[k] \in Seq(DownFrames)
  BY <1>1 DEF TypeOK, NetTypes
<1>3. Frame("deliver", f) \in DownFrames
  BY FrameTypes
<1>4. Frame("deliver", f).kind = "deliver" /\ Frame("deliver", f).about = f
  BY DEF Frame
<1>5. QED
  BY <1>1, <1>2, <1>3, <1>4, HasKept

(* A coroutine takes from the way only what it puts back on it, or what    *)
(* the provider no longer owes.                                            *)
LEMMA CoroutineKeepsWay ==
  ASSUME TypeOK, QueueInReplay, NothingStranded,
         NEW e \in Events, NEW k \in Conns, Owed(e, k)', NEW g \in Conns, CoroutineStep(g)
  PROVE  OnItsWay(e, k)'
<1>0. /\ link \in [Conns -> {"free", "open", "shut"}] /\ coroutine \in [Conns -> Coroutines]
      /\ down \in [Conns -> Seq(DownFrames)] /\ upward \in [Conns -> Seq(UpFrames)]
      /\ prov \in [Events -> {"none", "pending"} \cup AckStatuses]
      /\ boundOn \in [Conns -> SUBSET Sessions]
  BY DEF TypeOK, NetTypes, ProviderTypes, HistoryTypes
<1>1. UNCHANGED <<clientVars, outbox>>
  BY DEF CoroutineStep, Hello, ClosePrevious, Welcome, Bind, Request, Replay, Ack, Disconnect
<1>2. HandledOn(k, e) => HandledOn(k, e)'
  BY <1>1, HandledKept
<1>3. prov'[e] = "pending" /\ current' = k /\ link'[k] = "open" /\ Target[e] \in boundOn'[k]
  BY DEF Owed
<1>4. Owed(e, k) => OnItsWay(e, k)
  BY DEF NothingStranded, Owed, OnItsWay
<1>5. ASSUME coroutine[g].queue = {} \/ e \in coroutine'[g].queue
      PROVE  \A j \in Conns : e \in coroutine[j].queue => e \in coroutine'[j].queue
  BY <1>5, CoroutineFrame
<1>6. CASE Hello(g)
  <2>1. k = g /\ boundOn[g] = {} /\ boundOn' = boundOn
    BY <1>3, <1>6 DEF Hello, QueueInReplay
  <2>2. QED
    BY <1>3, <2>1
<1>7. CASE ClosePrevious(g)
  <2>1. /\ UNCHANGED <<prov, current, boundOn, down>>
        /\ link' = [link EXCEPT ![coroutine[g].previous] = IF @ = "open" THEN "shut" ELSE @]
        /\ \/ upward' = upward
           \/ upward' = [upward EXCEPT ![coroutine[g].previous] = << >>]
        /\ coroutine[g].pc = "replace"
    BY <1>7 DEF ClosePrevious
  <2>2. k # coroutine[g].previous /\ link[k] = "open"
    BY <1>0, <1>3, <2>1
  <2>3. upward'[k] = upward[k]
    BY <1>0, <2>1, <2>2
  <2>4. coroutine[g].queue = {}
    BY <2>1 DEF QueueInReplay
  <2>5. QED
    BY <1>1, <1>2, <1>3, <1>4, <1>5, <2>1, <2>2, <2>3, <2>4, WayKept DEF Owed, OnItsWay
<1>8. CASE Welcome(g)
  <2>1. /\ UNCHANGED <<prov, current, boundOn, link, upward>>
        /\ Writes(g, Frame("welcome", None)) /\ coroutine[g].queue = {}
    BY <1>8, QueueKept DEF Welcome, QueueInReplay
  <2>2. down'[k] = down[k] \/ down'[k] = Append(down[k], Frame("welcome", None))
    BY <1>0, <2>1 DEF Writes
  <2>3. Has(down[k], {"deliver"}, e) => Has(down'[k], {"deliver"}, e)
    <3>1. Frame("welcome", None) \in DownFrames
      BY FrameTypes
    <3>2. \A f \in DownFrames :
            Has(down[k], {"deliver"}, e) => Has(Append(down[k], f), {"deliver"}, e)
      BY <1>0, HasKept
    <3>3. QED
      BY <2>2, <3>1, <3>2
  <2>4. QED
    BY <1>1, <1>2, <1>3, <1>4, <1>5, <2>1, <2>3, WayKept DEF Owed, OnItsWay
<1>9. CASE Bind(g)
  <2>1. /\ UNCHANGED <<prov, current, boundOn, link, down>>
        /\ Receives(g, "bind") /\ coroutine[g].queue = {}
    BY <1>9, QueueKept DEF Bind, QueueInReplay
  <2>2. Has(upward[k], AckStatuses, e) => Has(upward'[k], AckStatuses, e)
    <3>1. CASE k = g
      <4>1. upward[g] # << >> /\ upward'[g] = Tail(upward[g]) /\ Head(upward[g]).kind \notin AckStatuses
        BY <1>0, <2>1 DEF Receives, AckStatuses
      <4>2. QED
        BY <1>0, <3>1, <4>1, HasKept
    <3>2. CASE k # g
      BY <1>0, <2>1, <3>2 DEF Receives
    <3>3. QED
      BY <3>1, <3>2
  <2>3. QED
    BY <1>1, <1>2, <1>3, <1>4, <1>5, <2>1, <2>2, WayKept DEF Owed, OnItsWay
<1>10. CASE Ack(g)
  <2> DEFINE a == Head(upward[g])
  <2>1. /\ UNCHANGED <<current, boundOn, link, down, coroutine>>
        /\ upward[g] # << >> /\ upward' = [upward EXCEPT ![g] = Tail(@)]
        /\ a.kind \in AckStatuses /\ prov' = [prov EXCEPT ![a.about] = a.kind]
    BY <1>10 DEF Ack, Receives
  <2>2. a.about # e
    BY <1>0, <1>3, <2>1 DEF AckStatuses
  <2>3. prov[e] = "pending"
    BY <1>0, <1>3, <2>1, <2>2
  <2>4. Has(upward[k], AckStatuses, e) => Has(upward'[k], AckStatuses, e)
    <3>1. CASE k = g
      BY <1>0, <2>1, <2>2, <3>1, HasKept
    <3>2. CASE k # g
      BY <1>0, <2>1, <3>2
    <3>3. QED
      BY <3>1, <3>2
  <2>5. QED
    BY <1>1, <1>2, <1>3, <1>4, <2>1, <2>3, <2>4, WayKept DEF Owed, OnItsWay
<1>11. CASE Request(g)
  <2> DEFINE s == coroutine[g].session
  <2>1. /\ UNCHANGED <<prov, current, link, upward>> /\ coroutine[g].pc = "request"
        /\ Writes(g, Frame("request", s)) /\ Replaying(g, PendingOf(s))
        /\ boundOn' = [boundOn EXCEPT ![g] = @ \cup {s}]
    BY <1>11 DEF Request, CopyPending
  <2>2. coroutine[g].queue = {} /\ coroutine'[g].queue = PendingOf(s)
    BY <2>1, ReplayingFrame DEF QueueInReplay
  <2>3. s \in Sessions
    BY <1>0, <2>1 DEF TypeOK, ProviderTypes, Coroutines
  <2>4. CASE Target[e] \in boundOn[k]
    <3>1. down'[k] = down[k] \/ down'[k] = Append(down[k], Frame("request", s))
      BY <1>0, <2>1 DEF Writes
    <3>2. Has(down[k], {"deliver"}, e) => Has(down'[k], {"deliver"}, e)
      <4>1. Frame("request", s) \in DownFrames
        BY <2>3, FrameTypes
      <4>2. down[k] \in Seq(DownFrames)
        BY <1>0
      <4>3. \A f \in DownFrames :
              Has(down[k], {"deliver"}, e) => Has(Append(down[k], f), {"deliver"}, e)
        BY <4>2, HasKept
      <4>4. QED
        BY <3>1, <4>1, <4>3
    <3>3. QED
      BY <1>1, <1>2, <1>3, <1>4, <1>5, <2>1, <2>2, <2>4, <3>2, WayKept DEF Owed, OnItsWay
  <2>5. CASE Target[e] \notin boundOn[k]
    <3>1. k = g /\ Target[e] = s
      BY <1>0, <1>3, <2>1, <2>5
    <3>2. e \in PendingOf(s)
      BY <1>3, <2>1, <3>1 DEF PendingOf
    <3>3. QED
      BY <2>2, <3>2 DEF OnItsWay
  <2>6. QED
    BY <2>4, <2>5
<1>12. CASE Replay(g)
  <2>1. PICK f \in coroutine[g].queue :
          /\ SendCurrent(f)
          /\ Replaying(g, IF current' = None THEN {} ELSE coroutine[g].queue \ {f})
    BY <1>12 DEF Replay
  <2>2. UNCHANGED <<link, upward, prov, boundOn>> /\ f \in Events /\ link[k] = "open"
    BY <1>0, <1>3, <1>12 DEF Replay, Coroutines
  <2>3. /\ current = k /\ Has(down'[k], {"deliver"}, f)
        /\ Has(down[k], {"deliver"}, e) => Has(down'[k], {"deliver"}, e)
    BY <1>3, <2>1, <2>2, SendKeepsWay
  <2>4. coroutine'[g].queue = coroutine[g].queue \ {f}
    BY <1>3, <2>1, NoneIsNothing, ReplayingFrame
  <2>5. CASE e = f
    BY <2>3, <2>5 DEF OnItsWay
  <2>6. CASE e # f
    <3>1. \A j \in Conns : e \in coroutine[j].queue => e \in coroutine'[j].queue
      BY <2>4, <2>6, CoroutineFrame
    <3>2. QED
      BY <1>1, <1>2, <1>3, <1>4, <2>2, <2>3, <3>1, WayKept DEF Owed, OnItsWay
  <2>7. QED
    BY <2>5, <2>6
<1>13. CASE Disconnect(g)
  <2>1. /\ UNCHANGED <<prov, down>> /\ current' = Forget(g) /\ coroutine[g].pc # "replay"
        /\ upward' = [upward EXCEPT ![g] = << >>] /\ boundOn' = [boundOn EXCEPT ![g] = {}]
        /\ link' = [link EXCEPT ![g] = IF \E c \in Clients : On(c) = g THEN "shut" ELSE "free"]
    BY <1>13 DEF Disconnect
  <2>2. k # g
    BY <1>0, <1>3, <2>1
  <2>3. current = k /\ link[k] = "open" /\ Target[e] \in boundOn[k] /\ upward'[k] = upward[k]
    BY <1>0, <1>3, <2>1, <2>2, NoneIsNothing DEF Forget
  <2>4. coroutine[g].queue = {}
    BY <2>1 DEF QueueInReplay
  <2>5. QED
    BY <1>1, <1>2, <1>3, <1>4, <1>5, <2>1, <2>3, <2>4, WayKept DEF Owed, OnItsWay
<1>14. QED
  BY <1>6, <1>7, <1>8, <1>9, <1>10, <1>11, <1>12, <1>13 DEF CoroutineStep

(* Nor does a break of the network, a publication or its delivery.         *)
LEMMA OthersKeepWay ==
  ASSUME TypeOK, NothingStranded, NEW e \in Events, NEW k \in Conns, Owed(e, k)',
         \/ \E j \in Conns : Drop(j)
         \/ \E f \in Events : Publish(f) \/ SendPublished(f)
         \/ UNCHANGED vars
  PROVE  OnItsWay(e, k)'
<1>0. link \in [Conns -> {"free", "open", "shut"}]
      /\ prov \in [Events -> {"none", "pending"} \cup AckStatuses]
  BY DEF TypeOK, NetTypes, ProviderTypes
<1>1. UNCHANGED <<clientVars, coroutine, boundOn>>
  BY DEF Drop, Publish, SendPublished, provVars, vars
<1>2. HandledOn(k, e) => HandledOn(k, e)'
  BY <1>1, HandledKept
<1>3. prov'[e] = "pending" /\ current' = k /\ link'[k] = "open" /\ Target[e] \in boundOn[k]
  BY <1>1 DEF Owed
<1>4. Owed(e, k) => OnItsWay(e, k)
  BY DEF NothingStranded, Owed, OnItsWay
<1>5. ASSUME NEW j \in Conns, Drop(j)
      PROVE  OnItsWay(e, k)'
  <2>1. UNCHANGED <<prov, current, outbox>> /\ link' = [link EXCEPT ![j] = "shut"]
        /\ down' = [down EXCEPT ![j] = << >>] /\ upward' = [upward EXCEPT ![j] = << >>]
    BY <1>5 DEF Drop, provVars
  <2>2. k # j
    BY <1>0, <1>3, <2>1
  <2>3. link[k] = "open" /\ down'[k] = down[k] /\ upward'[k] = upward[k]
    BY <1>0, <1>3, <2>1, <2>2 DEF TypeOK, NetTypes
  <2>4. QED
    BY <1>1, <1>2, <1>3, <1>4, <2>1, <2>3, WayKept DEF Owed, OnItsWay
<1>6. ASSUME NEW f \in Events, Publish(f)
      PROVE  OnItsWay(e, k)'
  <2>1. UNCHANGED <<link, down, upward, current>> /\ prov' = [prov EXCEPT ![f] = "pending"]
        /\ outbox' = IF current # None THEN outbox \cup {f} ELSE outbox
    BY <1>6 DEF Publish, netVars
  <2>2. CASE e = f
    BY <1>3, <2>1, <2>2, NoneIsNothing DEF OnItsWay
  <2>3. CASE e # f
    BY <1>0, <1>1, <1>2, <1>3, <1>4, <2>1, <2>3, WayKept DEF Owed, OnItsWay
  <2>4. QED
    BY <2>2, <2>3
<1>7. ASSUME NEW f \in Events, SendPublished(f)
      PROVE  OnItsWay(e, k)'
  <2>1. UNCHANGED <<link, upward, prov>> /\ SendCurrent(f) /\ outbox' = outbox \ {f}
    BY <1>7 DEF SendPublished
  <2>2. /\ current = k /\ Has(down'[k], {"deliver"}, f)
        /\ Has(down[k], {"deliver"}, e) => Has(down'[k], {"deliver"}, e)
    BY <1>3, <2>1, SendKeepsWay
  <2>3. CASE e = f
    BY <2>2, <2>3 DEF OnItsWay
  <2>4. CASE e # f
    BY <1>1, <1>2, <1>3, <1>4, <2>1, <2>2, <2>4, WayKept DEF Owed, OnItsWay
  <2>5. QED
    BY <2>3, <2>4
<1>8. CASE UNCHANGED vars
  BY <1>1, <1>2, <1>3, <1>4, <1>8, WayKept DEF Owed, OnItsWay, vars, netVars, provVars
<1>9. QED
  BY <1>5, <1>6, <1>7, <1>8

(* Every step keeps what is owed on its way.                               *)
LEMMA StrandedStep ==
  ASSUME TypeOK, ServedIsTaken, QueueInReplay, NothingStranded, [Next]_vars
  PROVE  NothingStranded'
<1> SUFFICES ASSUME NEW e \in Events, NEW k \in Conns, Owed(e, k)'
             PROVE  OnItsWay(e, k)'
  BY DEF NothingStranded, Owed, OnItsWay
<1>1. QED
  BY ClientKeepsWay, CoroutineKeepsWay, OthersKeepWay DEF Next

(* While the connection it goes to lasts, a pending delivery of a session  *)
(* bound there is about to be sent, under way, being handled, or answered: *)
(* none waits for a reconnection that may never come (main.py:178-223,     *)
(* 255-265, client.go:112-143).                                            *)
THEOREM DeliveriesAreOnTheirWay == Spec => []NothingStranded
<1>1. Init => NothingStranded /\ QueueInReplay /\ OpenIsCurrent /\ ServedIsTaken
  BY DEF Init, NothingStranded, QueueInReplay, OpenIsCurrent, ServedIsTaken, Gone
<1>2. TypeOK /\ OpenIsCurrent /\ ServedIsTaken /\ [Next]_vars => OpenIsCurrent' /\ ServedIsTaken'
  BY CurrentStep
<1>3. TypeOK /\ ServedIsTaken /\ QueueInReplay /\ [Next]_vars => QueueInReplay'
  BY QueueStep
<1>4. TypeOK /\ ServedIsTaken /\ QueueInReplay /\ NothingStranded /\ [Next]_vars => NothingStranded'
  BY StrandedStep
<1>5. QED
  BY <1>1, <1>2, <1>3, <1>4, ClientTypeCorrect, PTL DEF Spec
=============================================================================
