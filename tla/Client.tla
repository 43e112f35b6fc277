------------------------------- MODULE Client -------------------------------
(***************************************************************************)
(* The connection of one device to one provider: every awp process that    *)
(* runs internal/client/client.go with the device's id -- the daemon,      *)
(* `awp permissions request` (and the MCP tool of that name), `awp         *)
(* connect` -- against the connection handling of                          *)
(* example/backend/main.py.                                                *)
(*                                                                         *)
(* The provider keeps one current connection per device.  A newer hello    *)
(* takes the place of an older connection, which is closed, before the     *)
(* newcomer is welcomed; whatever is published in between goes to it.      *)
(*                                                                         *)
(* A client process moves through                                          *)
(*   off        is not started                                             *)
(*   reading    Run's read loop                                            *)
(*   handling   Run handles a delivery in the read loop itself             *)
(*   closing    Run's deferred cancel, Close and Wait                      *)
(*   delay      runWithReconnect waits                                     *)
(*   done       the command is over                                        *)
(* and the provider's coroutine of a connection through                    *)
(*   hello      waits for client.hello                                     *)
(*   replace    closes the connection it has taken the place of            *)
(*   welcome    sends server.welcome                                       *)
(*   loop       waits for a frame                                          *)
(*   request    sends permission.request for the session it has bound, and *)
(*              takes its copy of the pending deliveries                   *)
(*   replay     sends them                                                 *)
(***************************************************************************)
EXTENDS Integers, Sequences, FiniteSets

CONSTANTS Events, Sessions, Clients,
          Options,      \* client.Options and the reconnect policy of a client
          Target,       \* the session an event is addressed to
          MaxConns,     \* bound: connections that exist at one time
          MaxTrouble,   \* bound: breaks of the network, and processes started
                        \* beside the ones that stay
          None

Conns == 1..MaxConns

(* Sessions: what it registers (none: it takes any session).  A client     *)
(* that does not reconnect runs Run once.                                  *)
OptionSets ==
  [handle : BOOLEAN, concurrent : BOOLEAN, once : BOOLEAN,
   stop : BOOLEAN,          \* StopAfterPermissionRequest
   sessions : Seq(Sessions),
   reconnect : BOOLEAN, initial : Int, max : Int]

ASSUME OptionsAssumption == Options \in [Clients -> OptionSets]
ASSUME TargetAssumption == Target \in [Events -> Sessions]
ASSUME ConnsAssumption == MaxConns \in Nat \ {0}
ASSUME TroubleAssumption == MaxTrouble \in Nat
ASSUME NoneAssumption == None \notin Clients \cup Conns \cup Events \cup Sessions

VARIABLES
  client,     \* the client processes
  delay,      \* how long each would wait before it connects again
  work,       \* deliveries being handled concurrently, per connection
  link,       \* the connection itself: free, open, or shut by either side
  down, upward, \* frames under way to the client, and to the provider
  coroutine,  \* the provider's side of each connection
  current,    \* provider: connections[device]
  known,      \* provider: sessions bound at least once
  prov,       \* provider: the status of each event's delivery
  outbox,     \* provider: published events it is about to send
  drops,      \* how often the network broke
  boundOn,    \* history: the sessions bound on each connection
  ranOK       \* history: events a handler returned from without an error

clientVars == <<client, delay, work>>
netVars == <<link, down, upward>>
provVars == <<coroutine, current, known, prov, outbox>>
vars == <<clientVars, netVars, provVars, drops, boundOn, ranOK>>

Frame(kind, about) == [kind |-> kind, about |-> about]
AckFrame(e, status) == [kind |-> status, about |-> e]
AckStatuses == {"accepted", "completed", "failed"}

Process(pc) == [pc |-> pc, conn |-> None, welcomed |-> FALSE, event |-> None, ok |-> FALSE]
Gone == [pc |-> "gone", previous |-> None, session |-> None, queue |-> {}]
Idle == [e \in Events |-> 0]

-----------------------------------------------------------------------------
(* The reconnect policy, in seconds.                                       *)

InitialAsGiven(c) == Options[c].initial      \* mutant of InitialDelay

InitialDelay(c) == IF Options[c].initial <= 0 THEN 1 ELSE Options[c].initial
MaxDelay(c) == IF Options[c].max < InitialDelay(c) THEN 30 ELSE Options[c].max

(* Mutant of NextDelay: the doubled delay is not capped.                   *)
DoubledDelay(c) == IF delay[c] < MaxDelay(c) THEN 2 * delay[c] ELSE delay[c]

NextDelay(c) ==
  IF delay[c] < MaxDelay(c)
  THEN IF 2 * delay[c] > MaxDelay(c) THEN MaxDelay(c) ELSE 2 * delay[c]
  ELSE delay[c]

-----------------------------------------------------------------------------
Init ==
  /\ client = [c \in Clients |-> Process("off")]
  /\ delay = [c \in Clients |-> InitialDelay(c)]
  /\ work = [k \in Conns |-> Idle]
  /\ link = [k \in Conns |-> "free"]
  /\ down = [k \in Conns |-> << >>]
  /\ upward = [k \in Conns |-> << >>]
  /\ coroutine = [k \in Conns |-> Gone]
  /\ current = None
  /\ known = {}
  /\ prov = [e \in Events |-> "none"]
  /\ outbox = {}
  /\ drops = 0
  /\ boundOn = [k \in Conns |-> {}]
  /\ ranOK = {}

Registers(c, s) ==
  Options[c].sessions = << >> \/ \E i \in DOMAIN Options[c].sessions : Options[c].sessions[i] = s

(* A connection is over once neither side knows it any more.               *)
Free(k) == link[k] = "free" /\ \A j \in Conns : coroutine[j].previous # k

At(c, pc) == client[c].pc = pc
On(c) == client[c].conn
Reads(c) == At(c, "reading") /\ down[On(c)] # << >>
Moves(c, process) == client' = [client EXCEPT ![c] = process]

-----------------------------------------------------------------------------
(* The clients: internal/client.                                           *)

(* Run: Dial and client.hello.                                             *)
Dial(c) ==
  \E k \in Conns :
    /\ Free(k) /\ \A j \in 1..(k - 1) : ~Free(j)
    /\ Moves(c, [Process("reading") EXCEPT !.conn = k])
    /\ link' = [link EXCEPT ![k] = "open"]
    /\ upward' = [upward EXCEPT ![k] = <<Frame("hello", None)>>]
    /\ coroutine' = [coroutine EXCEPT ![k] = [Gone EXCEPT !.pc = "hello"]]
    /\ UNCHANGED <<work, down, current, known, prov, outbox, drops, boundOn, ranOK>>

Calls == {c \in Clients : ~Options[c].reconnect /\ ~At(c, "off")}

Launch(c) ==
  /\ At(c, "off") /\ Dial(c)
  /\ Options[c].reconnect \/ Cardinality(Calls) + drops < MaxTrouble
  /\ UNCHANGED delay

(* runWithReconnect: the next attempt, after a longer delay the next time. *)
Redial(c) ==
  /\ At(c, "delay") /\ Dial(c)
  /\ delay' = [delay EXCEPT ![c] = NextDelay(c)]

(* Where a process goes when Run has returned.                             *)
After(c, ok) ==
  Process(IF Options[c].reconnect /\ ~(Options[c].once /\ ok) THEN "delay" ELSE "done")

Closed(k) == IF coroutine[k].pc = "gone" THEN "free" ELSE "shut"

(* Run returns: its context is cancelled and the connection closed; then   *)
(* it waits for the handlers that are still at work, if there are any.     *)
Leave(c, ok) ==
  LET k == On(c)
  IN /\ link' = [link EXCEPT ![k] = IF work[k] = Idle THEN Closed(k) ELSE "shut"]
     /\ down' = [down EXCEPT ![k] = << >>]
     /\ Moves(c, IF work[k] = Idle THEN After(c, ok)
                 ELSE [client[c] EXCEPT !.pc = "closing", !.ok = ok, !.event = None])

Consume(c) == down' = [down EXCEPT ![On(c)] = Tail(@)]

(* server.welcome: every registered session is bound, in order.            *)
ReadWelcome(c) ==
  /\ Reads(c) /\ Head(down[On(c)]).kind = "welcome"
  /\ IF link[On(c)] = "open" \/ Options[c].sessions = << >>
     THEN /\ Consume(c)
          /\ client' = [client EXCEPT ![c].welcomed = TRUE]
          /\ upward' = [upward EXCEPT ![On(c)] = @ \o
               [i \in DOMAIN Options[c].sessions |-> Frame("bind", Options[c].sessions[i])]]
          /\ UNCHANGED link
     ELSE Leave(c, FALSE) /\ UNCHANGED upward
  /\ UNCHANGED <<delay, work, provVars, drops, boundOn, ranOK>>

(* event.deliver before the welcome, or for a session that is not          *)
(* registered, ends the connection; otherwise it is handled in a goroutine *)
(* of its own or in the read loop.                                         *)
ReadDelivery(c) ==
  LET e == Head(down[On(c)]).about
  IN /\ Reads(c) /\ Head(down[On(c)]).kind = "deliver"
     /\ \/ /\ ~client[c].welcomed \/ ~Registers(c, Target[e])
           /\ Leave(c, FALSE) /\ UNCHANGED work
        \/ /\ client[c].welcomed /\ Registers(c, Target[e])
           /\ Consume(c) /\ UNCHANGED link
           /\ IF Options[c].concurrent /\ ~Options[c].once
              THEN work' = [work EXCEPT ![On(c)][e] = @ + 1] /\ UNCHANGED client
              ELSE /\ Moves(c, [client[c] EXCEPT !.pc = "handling", !.event = e])
                   /\ UNCHANGED work
     /\ UNCHANGED <<delay, upward, provVars, drops, boundOn, ranOK>>

(* permission.request: a client that came for it has what it wants.        *)
ReadRequest(c) ==
  /\ Reads(c) /\ Head(down[On(c)]).kind = "request"
  /\ IF Options[c].stop THEN Leave(c, TRUE) ELSE Consume(c) /\ UNCHANGED <<client, link>>
  /\ UNCHANGED <<delay, work, upward, provVars, drops, boundOn, ranOK>>

(* The read fails: the other side closed the connection and what it sent   *)
(* before has been read, or the connection broke.                          *)
ReadFails(c) ==
  /\ At(c, "reading") /\ link[On(c)] = "shut" /\ down[On(c)] = << >>
  /\ Leave(c, FALSE)
  /\ UNCHANGED <<delay, work, upward, provVars, drops, boundOn, ranOK>>

(* Mutant of Outcome: a client without a handler claims success.           *)
OutcomeCompleted(c, failed) == IF failed THEN "failed" ELSE "completed"

Outcome(c, failed) ==
  IF ~Options[c].handle THEN "accepted" ELSE IF failed THEN "failed" ELSE "completed"

(* processDelivery: Handle returns (a client without one accepts at once)  *)
(* and the outcome is written to the connection, if it still takes it.     *)
Answers(c, e, failed) ==
  LET k == On(c)
  IN /\ upward' = IF link[k] = "open"
                  THEN [upward EXCEPT ![k] = Append(@, AckFrame(e, Outcome(c, failed)))]
                  ELSE upward
     /\ ranOK' = IF Options[c].handle /\ ~failed THEN ranOK \cup {e} ELSE ranOK

HandlerReturns(c, e, failed) ==
  LET k == On(c)
  IN /\ k # None /\ work[k][e] > 0
     /\ failed => Options[c].handle
     /\ work' = [work EXCEPT ![k][e] = @ - 1]
     /\ Answers(c, e, failed)
     /\ UNCHANGED <<client, delay, link, down, provVars, drops, boundOn>>

(* In the read loop: an answer that cannot be written ends the connection, *)
(* and so does the one answer of --once.                                   *)
LoopReturns(c, failed) ==
  LET k == On(c)
  IN /\ At(c, "handling")
     /\ failed => Options[c].handle
     /\ Answers(c, client[c].event, failed)
     /\ IF link[k] = "open" /\ ~Options[c].once
        THEN /\ Moves(c, [client[c] EXCEPT !.pc = "reading", !.event = None])
             /\ UNCHANGED <<link, down>>
        ELSE Leave(c, link[k] = "open")
     /\ UNCHANGED <<delay, work, provVars, drops, boundOn>>

(* --timeout, which the permission request has by default.                 *)
Expire(c) ==
  /\ At(c, "reading") /\ ~Options[c].reconnect
  /\ Leave(c, FALSE)
  /\ UNCHANGED <<delay, work, upward, provVars, drops, boundOn, ranOK>>

(* processing.Wait is over: Run has returned.                              *)
Returned(c) ==
  /\ At(c, "closing") /\ work[On(c)] = Idle
  /\ Moves(c, After(c, client[c].ok))
  /\ link' = [link EXCEPT ![On(c)] = Closed(On(c))]
  /\ UNCHANGED <<delay, work, down, upward, provVars, drops, boundOn, ranOK>>

-----------------------------------------------------------------------------
(* The network breaks: what is under way is lost.                          *)
Drop(k) ==
  /\ link[k] = "open" /\ Cardinality(Calls) + drops < MaxTrouble
  /\ drops' = drops + 1
  /\ link' = [link EXCEPT ![k] = "shut"]
  /\ down' = [down EXCEPT ![k] = << >>]
  /\ upward' = [upward EXCEPT ![k] = << >>]
  /\ UNCHANGED <<clientVars, provVars, boundOn, ranOK>>

-----------------------------------------------------------------------------
(* The provider: example/backend/main.py.                                  *)

Runs(k, pc) == coroutine' = [coroutine EXCEPT ![k].pc = pc]
Receives(k, kind) ==
  /\ upward[k] # << >> /\ Head(upward[k]).kind = kind
  /\ upward' = [upward EXCEPT ![k] = Tail(@)]

(* client.hello: AWPState.connect.                                         *)
Hello(k) ==
  /\ coroutine[k].pc = "hello" /\ Receives(k, "hello")
  /\ current' = k
  /\ coroutine' = [coroutine EXCEPT ![k] =
       [@ EXCEPT !.pc = IF current = None THEN "welcome" ELSE "replace",
                 !.previous = current]]
  /\ UNCHANGED <<clientVars, link, down, known, prov, outbox, drops, boundOn, ranOK>>

(* Mutant of ClosePrevious: the older connection is left open.             *)
KeepPrevious(k) ==
  /\ coroutine[k].pc = "replace"
  /\ coroutine' = [coroutine EXCEPT ![k] = [@ EXCEPT !.pc = "welcome", !.previous = None]]
  /\ UNCHANGED <<clientVars, netVars, current, known, prov, outbox, drops, boundOn, ranOK>>

(* previous.close: what that client wrote may not be read any more.        *)
ClosePrevious(k) ==
  LET p == coroutine[k].previous
  IN /\ coroutine[k].pc = "replace"
     /\ link' = [link EXCEPT ![p] = IF @ = "open" THEN "shut" ELSE @]
     /\ upward' \in {upward, [upward EXCEPT ![p] = << >>]}
     /\ coroutine' = [coroutine EXCEPT ![k] = [@ EXCEPT !.pc = "welcome", !.previous = None]]
     /\ UNCHANGED <<clientVars, down, current, known, prov, outbox, drops, boundOn, ranOK>>

(* A frame written to this connection by its own coroutine; one that is    *)
(* shut swallows it, or raises (Disconnect).                               *)
Writes(k, frame) ==
  down' = IF link[k] = "open" THEN [down EXCEPT ![k] = Append(@, frame)] ELSE down

Welcome(k) ==
  /\ coroutine[k].pc = "welcome" /\ Writes(k, Frame("welcome", None))
  /\ Runs(k, "loop")
  /\ UNCHANGED <<clientVars, link, upward, current, known, prov, outbox, drops, boundOn, ranOK>>

(* Mutant of Bind: a session that is bound already is left alone.          *)
BindOnce(k) ==
  LET s == Head(upward[k]).about
  IN /\ coroutine[k].pc = "loop" /\ Receives(k, "bind")
     /\ known' = known \cup {s}
     /\ coroutine' = [coroutine EXCEPT ![k] =
          IF s \in known THEN @ ELSE [@ EXCEPT !.pc = "request", !.session = s]]
     /\ UNCHANGED <<clientVars, link, down, current, prov, outbox, drops, boundOn, ranOK>>

(* session.bind: AWPState.bind.                                            *)
Bind(k) ==
  LET s == Head(upward[k]).about
  IN /\ coroutine[k].pc = "loop" /\ Receives(k, "bind")
     /\ known' = known \cup {s}
     /\ coroutine' = [coroutine EXCEPT ![k] = [@ EXCEPT !.pc = "request", !.session = s]]
     /\ UNCHANGED <<clientVars, link, down, current, prov, outbox, drops, boundOn, ranOK>>

PendingOf(s) == {e \in Events : prov[e] = "pending" /\ Target[e] = s}

(* deliver_pending has these left to send.                                 *)
Replaying(k, E) ==
  coroutine' = [coroutine EXCEPT ![k] =
    [@ EXCEPT !.pc = IF E = {} THEN "loop" ELSE "replay", !.session = None, !.queue = E]]

(* deliver_pending copies the list under the lock.                         *)
CopyPending(k) ==
  LET s == coroutine[k].session
  IN /\ Replaying(k, PendingOf(s))
     /\ boundOn' = [boundOn EXCEPT ![k] = @ \cup {s}]

(* session.bound and permission.request, and then the pending deliveries.  *)
Request(k) ==
  /\ coroutine[k].pc = "request" /\ CopyPending(k)
  /\ Writes(k, Frame("request", coroutine[k].session))
  /\ UNCHANGED <<clientVars, link, upward, current, known, prov, outbox, drops, ranOK>>

(* AWPState.send: the frame goes to whatever connection is current by then.*)
(* One that is already shut swallows it or makes the provider forget it.   *)
SendCurrent(e) ==
  IF current # None /\ link[current] = "open"
  THEN /\ down' = [down EXCEPT ![current] = Append(@, Frame("deliver", e))]
       /\ UNCHANGED current
  ELSE current' \in {current, None} /\ UNCHANGED down

(* deliver_pending sends the copy one by one, until a send fails.          *)
Replay(k) ==
  /\ coroutine[k].pc = "replay"
  /\ \E e \in coroutine[k].queue :
       /\ SendCurrent(e)
       /\ Replaying(k, IF current' = None THEN {} ELSE coroutine[k].queue \ {e})
  /\ UNCHANGED <<clientVars, link, upward, known, prov, outbox, drops, boundOn, ranOK>>

(* event.ack: AWPState.acknowledge; any of the statuses crosses the        *)
(* delivery off, whichever connection of the device it came in on.         *)
Ack(k) ==
  LET a == Head(upward[k])
  IN /\ coroutine[k].pc = "loop"
     /\ \E status \in AckStatuses : Receives(k, status)
     /\ prov' = [prov EXCEPT ![a.about] = a.kind]
     /\ UNCHANGED <<clientVars, link, down, coroutine, current, known, outbox,
                    drops, boundOn, ranOK>>

(* Mutant of Forget: the device is taken to be offline.                    *)
ForgetDevice(k) == None

(* AWPState.disconnect.                                                    *)
Forget(k) == IF current = k THEN None ELSE current

(* A read on a connection that is shut fails once everything the client    *)
(* wrote has been read; a write may fail before that.                      *)
Disconnect(k) ==
  /\ link[k] = "shut"
  /\ \/ coroutine[k].pc \in {"hello", "loop"} /\ upward[k] = << >>
     \/ coroutine[k].pc \in {"welcome", "request"}
  /\ current' = Forget(k)
  /\ coroutine' = [coroutine EXCEPT ![k] = Gone]
  /\ upward' = [upward EXCEPT ![k] = << >>]
  /\ boundOn' = [boundOn EXCEPT ![k] = {}]
  /\ link' = [link EXCEPT ![k] = IF \E c \in Clients : On(c) = k THEN "shut" ELSE "free"]
  /\ UNCHANGED <<clientVars, down, known, prov, outbox, drops, ranOK>>

(* Mutant of Publish: the delivery waits for the next session.bind.        *)
PublishQuietly(e) ==
  /\ prov[e] = "none" /\ Target[e] \in known
  /\ prov' = [prov EXCEPT ![e] = "pending"]
  /\ UNCHANGED <<clientVars, netVars, coroutine, current, known, outbox, drops, boundOn, ranOK>>

(* POST /events: the delivery is pending from here on; it is sent only if  *)
(* the device is online at this moment ...                                 *)
Publish(e) ==
  /\ prov[e] = "none" /\ Target[e] \in known
  /\ prov' = [prov EXCEPT ![e] = "pending"]
  /\ outbox' = IF current # None THEN outbox \cup {e} ELSE outbox
  /\ UNCHANGED <<clientVars, netVars, coroutine, current, known, drops, boundOn, ranOK>>

(* ... and then to the connection that is current at the time.             *)
SendPublished(e) ==
  /\ e \in outbox
  /\ SendCurrent(e)
  /\ outbox' = outbox \ {e}
  /\ UNCHANGED <<clientVars, link, upward, coroutine, known, prov, drops, boundOn, ranOK>>

-----------------------------------------------------------------------------
RunStep(c) ==
  \/ ReadWelcome(c) \/ ReadDelivery(c) \/ ReadRequest(c) \/ ReadFails(c)
  \/ Returned(c) \/ Redial(c)

HandleStep(c) ==
  \E failed \in BOOLEAN :
    LoopReturns(c, failed) \/ \E e \in Events : HandlerReturns(c, e, failed)

CoroutineStep(k) ==
  \/ Hello(k) \/ ClosePrevious(k) \/ Welcome(k) \/ Bind(k) \/ Request(k)
  \/ Replay(k) \/ Ack(k) \/ Disconnect(k)

Next ==
  \/ \E c \in Clients : Launch(c) \/ RunStep(c) \/ HandleStep(c) \/ Expire(c)
  \/ \E k \in Conns : CoroutineStep(k) \/ Drop(k)
  \/ \E e \in Events : Publish(e) \/ SendPublished(e)

Spec == Init /\ [][Next]_vars

(* Weak fairness of what goroutines, coroutines and handlers do by         *)
(* themselves.  No client has to be started except the ones that stay, no  *)
(* event has to be published, nothing has to break or run into a timeout.  *)
Fairness ==
  /\ \A c \in Clients : WF_vars(RunStep(c)) /\ WF_vars(HandleStep(c))
  /\ \A c \in Clients : Options[c].reconnect => WF_vars(Launch(c))
  /\ \A k \in Conns : WF_vars(CoroutineStep(k))
  /\ \A e \in Events : WF_vars(SendPublished(e))

FairSpec == Spec /\ Fairness
-----------------------------------------------------------------------------
(* Properties.                                                             *)

Processes ==
  [pc : {"off", "reading", "handling", "closing", "delay", "done"},
   conn : Conns \cup {None}, welcomed : BOOLEAN, event : Events \cup {None}, ok : BOOLEAN]

DownFrames ==
  [kind : {"welcome"}, about : {None}] \cup [kind : {"request"}, about : Sessions]
  \cup [kind : {"deliver"}, about : Events]

UpFrames ==
  [kind : {"hello"}, about : {None}] \cup [kind : {"bind"}, about : Sessions]
  \cup [kind : AckStatuses, about : Events]

Coroutines ==
  [pc : {"gone", "hello", "replace", "welcome", "loop", "request", "replay"},
   previous : Conns \cup {None}, session : Sessions \cup {None}, queue : SUBSET Events]

ClientTypes ==
  /\ client \in [Clients -> Processes]
  /\ \A c \in Clients :
       /\ On(c) # None <=> client[c].pc \in {"reading", "handling", "closing"}
       /\ client[c].event # None <=> At(c, "handling")
  /\ delay \in [Clients -> Nat \ {0}]
  /\ work \in [Conns -> [Events -> Nat]]

NetTypes ==
  /\ link \in [Conns -> {"free", "open", "shut"}]
  /\ down \in [Conns -> Seq(DownFrames)]
  /\ upward \in [Conns -> Seq(UpFrames)]

ProviderTypes ==
  /\ coroutine \in [Conns -> Coroutines]
  /\ \A k \in Conns : coroutine[k].pc = "request" => coroutine[k].session # None
  /\ current \in Conns \cup {None}
  /\ known \subseteq Sessions
  /\ prov \in [Events -> {"none", "pending"} \cup AckStatuses]
  /\ outbox \subseteq Events

HistoryTypes ==
  /\ drops \in Nat
  /\ boundOn \in [Conns -> SUBSET Sessions]
  /\ ranOK \subseteq Events

(* The type invariant: whoever is connected has a connection, whoever      *)
(* handles has an event, and a frame is about what its kind says.          *)
TypeOK == ClientTypes /\ NetTypes /\ ProviderTypes /\ HistoryTypes

(* A connection that is past its hello and still open is the one the       *)
(* provider delivers to, or a newer one is about to close it: however      *)
(* connections overtake each other, no client is left listening on a       *)
(* connection that the provider has forgotten (main.py:162-171, 338-341).  *)
OpenIsCurrent ==
  \A k \in Conns :
    link[k] = "open" /\ coroutine[k].pc \notin {"gone", "hello"} =>
      current = k \/ \E j \in Conns : coroutine[j].pc = "replace" /\ coroutine[j].previous = k

HandledOn(k, e) == work[k][e] > 0 \/ \E c \in Clients : On(c) = k /\ client[c].event = e
Has(frames, kinds, e) ==
  \E i \in DOMAIN frames : frames[i].kind \in kinds /\ frames[i].about = e

(* A pending delivery of a session bound on the current connection is on   *)
(* its way: about to be sent, under way, being handled, or its answer is   *)
(* under way.  Nothing else would bring it before the next session.bind    *)
(* (main.py:178-223, 255-265, client.go:112-143).                          *)
NothingStranded ==
  \A e \in Events, k \in Conns :
    prov[e] = "pending" /\ current = k /\ link[k] = "open" /\ Target[e] \in boundOn[k] =>
      \/ e \in outbox \/ \E j \in Conns : e \in coroutine[j].queue
      \/ Has(down[k], {"deliver"}, e) \/ HandledOn(k, e)
      \/ Has(upward[k], AckStatuses, e)

(* Backing off doubles the delay up to the policy's maximum and no         *)
(* further; a maximum below the initial delay is not what is used          *)
(* (reconnect.go:28-33, 55-60).                                            *)
DelayWithinPolicy ==
  \A c \in Clients :
    /\ InitialDelay(c) <= delay[c]
    /\ delay[c] <= InitialDelay(c) \/ delay[c] <= MaxDelay(c)

CrossedOff == [e \in Events |-> IF prov[e] = "accepted" THEN "failed" ELSE prov[e]]
Promise == INSTANCE AtLeastOnce WITH status <- CrossedOff, done <- ranOK

(* The connection implements the same promise as the daemon on top of it,  *)
(* with any number of processes of one device taking each other's place.   *)
(* A delivery that was only accepted, by a process without a handler, is   *)
(* crossed off without having been carried out (client.go:161-164).        *)
ImplementsAtLeastOnce == Promise!Spec

(* A session that stays registered: by a client that connects for ever.    *)
Stays(s) == \E c \in Clients : Options[c].reconnect /\ ~Options[c].once /\ Registers(c, s)

(* Every event of a session that stays registered is answered, whatever    *)
(* other processes of the device take its connection, events of foreign    *)
(* sessions break it or arrive before the welcome (PROTOCOL.md:196).       *)
EveryEventSettled ==
  \A e \in Events : Stays(Target[e]) => (prov[e] = "pending" ~> prov[e] # "pending")

(* After a network failure, a foreign call or an early delivery the        *)
(* connection of a daemon is back for good, welcomed, with every session   *)
(* bound on it: no two sides go on believing different things about which  *)
(* connection is the device's (main.py:162-171, reconnect.go:35-62).       *)
DaemonIsBack ==
  \A c \in Clients :
    Options[c].reconnect /\ ~Options[c].once =>
      <>[](/\ At(c, "reading") /\ client[c].welcomed
           /\ current = On(c) /\ link[On(c)] = "open"
           /\ \A i \in DOMAIN Options[c].sessions : Options[c].sessions[i] \in boundOn[On(c)])
=============================================================================
