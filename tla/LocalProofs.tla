----------------------------- MODULE LocalProofs -----------------------------
(***************************************************************************)
(* Theorems about Local, for any number of callers, processes, providers   *)
(* and sessions and any budget.                                            *)
(***************************************************************************)
EXTENDS Local, TLAPS

(* The changes of a registry yield a registry without a second binding of  *)
(* any session.                                                            *)
LEMMA BindType ==
  ASSUME NEW reg \in SUBSET Bindings, NEW b \in Bindings
  PROVE  Bind(reg, b) \subseteq Bindings /\ (Unique(reg) => Unique(Bind(reg, b)))
BY DEF Bind, Unique

(* Removing bindings leaves a part of the registry.                        *)
LEMMA RemoveType ==
  ASSUME NEW reg \in SUBSET Bindings, NEW k
  PROVE  /\ Remove(reg, k) \subseteq Bindings /\ RemoveAll(reg, k) \subseteq Bindings
         /\ Unique(reg) => Unique(Remove(reg, k)) /\ Unique(RemoveAll(reg, k))
BY DEF Remove, RemoveAll, Unique

(* The state of a caller between two steps of a call is well formed.       *)
LEMMA FreshType ==
  ASSUME NEW pc \in CallerSteps
  PROVE  /\ Fresh(pc) \in CallerStates
         /\ Fresh(pc).pc = pc /\ Fresh(pc).reg = {} /\ Fresh(pc).pid = None
BY DEF Fresh, CallerStates, NoAsk

(* A step of one caller is the only change of the callers.                 *)
LEMMA GoesType ==
  ASSUME caller \in [Callers -> CallerStates], NEW c \in Callers,
         NEW state \in CallerStates, Goes(c, state)
  PROVE  /\ caller' \in [Callers -> CallerStates]
         /\ caller'[c] = state
         /\ \A d \in Callers : d # c => caller'[d] = caller[d]
BY DEF Goes

(* What is spent of the budget leaves a budget.                            *)
LEMMA SpendType ==
  ASSUME left \in [Faults -> Nat], NEW fault \in Faults, Spend(fault)
  PROVE  left' \in [Faults -> Nat]
BY DEF Spend

(* A step of one caller keeps the callers well formed.                     *)
LEMMA CallerStep ==
  ASSUME CallerTypes, NEW c \in Callers, NEW state \in CallerStates, Goes(c, state),
         state.pc \in {"truncate", "write", "signal"} => state.pid \in Pids,
         state.pc = "resolved" => state.key \in Keys
  PROVE  CallerTypes'
<1>1. /\ caller' \in [Callers -> CallerStates]
      /\ caller'[c] = state
      /\ \A d \in Callers : d # c => caller'[d] = caller[d]
  BY GoesType DEF CallerTypes
<1>2. QED
  BY <1>1 DEF CallerTypes

(* What a caller does keeps it well formed, whichever call it is in.       *)
LEMMA CallerTypesStep ==
  ASSUME TypeOK, [Next]_vars
  PROVE  CallerTypes'
<1>0. CallerTypes /\ registry \in SUBSET Bindings /\ pidFile \in Pids \cup {"missing", "torn"}
  BY DEF TypeOK
<1>1. CASE UNCHANGED caller
  BY <1>0, <1>1 DEF CallerTypes
<1>2. ASSUME NEW c \in Callers, NEW pc \in {"ready", "gone", "spawn", "remove"},
             Goes(c, Fresh(pc))
      PROVE  CallerTypes'
  <2>1. pc \in CallerSteps
    BY DEF CallerSteps
  <2>2. QED
    BY <1>0, <1>2, <2>1, FreshType, CallerStep
<1>3. ASSUME NEW c \in Callers, NEW pc \in {"truncate", "signal"}, NEW p \in Pids,
             Goes(c, [Fresh(pc) EXCEPT !.pid = p])
      PROVE  CallerTypes'
  <2> DEFINE state == [Fresh(pc) EXCEPT !.pid = p]
  <2>0. pc \in CallerSteps
    BY DEF CallerSteps
  <2>1. state \in CallerStates /\ state.pid = p /\ state.pc = pc
    BY <2>0, FreshType DEF CallerStates
  <2>2. Goes(c, state)
    BY <1>3
  <2> HIDE DEF state
  <2>3. QED
    BY <1>0, <2>1, <2>2, CallerStep
<1>4. ASSUME NEW c \in Callers, Truncate(c) PROVE CallerTypes'
  <2> DEFINE state == [caller[c] EXCEPT !.pc = "write"]
  <2>1. state \in CallerStates /\ state.pid \in Pids /\ state.pc = "write"
    BY <1>0, <1>4 DEF Truncate, CallerTypes, CallerStates, CallerSteps
  <2>2. QED
    BY <1>0, <1>4, <2>1, CallerStep DEF Truncate
<1>5. ASSUME NEW c \in Callers, NEW b \in Bindings, BindLoads(c, b) PROVE CallerTypes'
  <2> DEFINE state == [Fresh("save") EXCEPT !.reg = Bind(registry, b), !.key = b.key]
  <2>1. state \in CallerStates /\ state.pc = "save"
    BY <1>0, BindType, FreshType DEF CallerStates, CallerSteps, Bindings
  <2>2. QED
    BY <1>0, <1>5, <2>1, CallerStep DEF BindLoads
<1>6. ASSUME NEW c \in Callers, NEW key \in Keys, RemoveLoads(c, key) PROVE CallerTypes'
  <2> DEFINE state == [Fresh("save") EXCEPT !.reg = Remove(registry, key), !.key = key]
  <2>1. state \in CallerStates /\ state.pc = "save"
    BY <1>0, RemoveType, FreshType DEF CallerStates, CallerSteps
  <2>2. QED
    BY <1>0, <1>6, <2>1, CallerStep DEF RemoveLoads
<1>7. ASSUME NEW c \in Callers, NEW provider, RemoveAllLoads(c, provider) PROVE CallerTypes'
  <2> DEFINE state == [Fresh("save") EXCEPT !.reg = RemoveAll(registry, provider)]
  <2>1. state \in CallerStates /\ state.pc = "save"
    BY <1>0, RemoveType, FreshType DEF CallerStates, CallerSteps
  <2>2. QED
    BY <1>0, <1>7, <2>1, CallerStep DEF RemoveAllLoads
<1>8. ASSUME NEW c \in Callers, NEW ask \in Asks, SetResolves(c, ask) PROVE CallerTypes'
  <2>1. PICK b \in registry : Goes(c, [Fresh("resolved") EXCEPT !.key = b.key, !.ask = ask])
    BY <1>8 DEF SetResolves
  <2> DEFINE state == [Fresh("resolved") EXCEPT !.key = b.key, !.ask = ask]
  <2>2. state \in CallerStates /\ state.pc = "resolved" /\ state.key \in Keys
    BY <1>0, FreshType DEF CallerStates, CallerSteps, Bindings
  <2>3. QED
    BY <1>0, <2>1, <2>2, CallerStep
<1>9. ASSUME NEW c \in Callers, NEW workspace \in Workspaces, SetLoads(c, workspace)
      PROVE  CallerTypes'
  <2> DEFINE b == [key |-> caller[c].key, workspace |-> workspace]
             state == [caller[c] EXCEPT !.pc = "save", !.reg = Bind(registry, b)]
  <2>1. caller[c] \in CallerStates /\ caller[c].key \in Keys
    BY <1>0, <1>9 DEF SetLoads, CallerTypes
  <2>2. b \in Bindings
    BY <2>1 DEF Bindings
  <2>3. Bind(registry, b) \subseteq Bindings
    BY <1>0, <2>2, BindType
  <2> HIDE DEF b
  <2>4. state \in CallerStates /\ state.pc = "save"
    BY <2>1, <2>3 DEF CallerStates, CallerSteps
  <2>5. QED
    BY <1>0, <1>9, <2>4, CallerStep DEF SetLoads, b
<1>10. ASSUME NEW c \in Callers, StopChecks(c) PROVE CallerTypes'
  <2>1. CASE Alive(pidFile)
    <3>1. pidFile \in Pids
      BY <2>1 DEF Alive
    <3>2. Goes(c, [Fresh("signal") EXCEPT !.pid = pidFile])
      BY <1>10, <2>1 DEF StopChecks
    <3>3. QED
      BY <1>3, <3>1, <3>2
  <2>2. CASE ~Alive(pidFile)
    BY <1>2, <1>10, <2>2 DEF StopChecks
  <2>3. QED
    BY <2>1, <2>2
<1>11. ASSUME NEW c \in Callers, DaemonCall(c) PROVE CallerTypes'
  <2>1. CASE StartChecks(c)
    BY <1>2, <2>1 DEF StartChecks
  <2>2. CASE StartRefused(c) \/ Unreadable(c)
    BY <1>1, <2>2 DEF StartRefused, Unreadable
  <2>3. CASE \E p \in Pids : Spawn(c, p)
    BY <1>3, <2>3 DEF Spawn
  <2>4. CASE Write(c) \/ WriteFails(c)
    BY <1>2, <2>4 DEF Write, WriteFails
  <2>5. CASE Signal(c) \/ RemoveFile(c) \/ RemoveFails(c)
    BY <1>2, <2>5 DEF Signal, RemoveFile, RemoveFails
  <2>6. QED
    BY <1>4, <1>10, <1>11, <2>1, <2>2, <2>3, <2>4, <2>5 DEF DaemonCall
<1>12. ASSUME NEW c \in Callers, RegistryCall(c) PROVE CallerTypes'
  <2>1. CASE Saves(c)
    BY <1>2, <2>1 DEF Saves
  <2>2. QED
    BY <1>5, <1>6, <1>7, <1>8, <1>9, <1>12, <2>1 DEF RegistryCall
<1>13. ASSUME NEW c \in Callers, Open(c) \/ Close(c) \/ Fails(c) PROVE CallerTypes'
  BY <1>2, <1>13 DEF Open, Close, Fails
<1>14. ASSUME NEW p \in Pids, Process(p) PROVE CallerTypes'
  BY <1>1, <1>14 DEF Process, Boot, BootFails, Dies, Exits, Reuse, Foreground
<1>15. CASE UNCHANGED vars
  BY <1>1, <1>15 DEF vars
<1>16. QED
  BY <1>11, <1>12, <1>13, <1>14, <1>15 DEF Next

(* What happens to a process leaves every process in a known state.        *)
LEMMA ProcessTypesStep ==
  ASSUME TypeOK, NEW p \in Pids, Process(p)
  PROVE  TypeOK'
<1>0. CallerTypes'
  BY CallerTypesStep DEF Next
<1>1. CASE Boot(p) \/ BootFails(p) \/ Exits(p)
  BY <1>0, <1>1 DEF TypeOK, Boot, BootFails, Exits, Ends, fileVars, ProcStates
<1>2. CASE Dies(p) \/ Reuse(p) \/ Foreground(p)
  <2>1. left' \in [Faults -> Nat]
    BY <1>2, SpendType DEF TypeOK, Dies, Reuse, Foreground, Faults
  <2>2. QED
    BY <1>0, <1>2, <2>1 DEF TypeOK, Dies, Reuse, Foreground, Ends, fileVars, ProcStates
<1>3. QED
  BY <1>1, <1>2 DEF Process

(* What a call does to the files and the processes is well formed.         *)
LEMMA CallTypesStep ==
  ASSUME TypeOK, NEW c \in Callers, DaemonCall(c) \/ RegistryCall(c)
  PROVE  TypeOK'
<1>0. CallerTypes'
  BY CallerTypesStep DEF Next
<1>1. /\ caller[c] \in CallerStates /\ caller[c].reg \in SUBSET Bindings
      /\ Writing(c) => caller[c].pid \in Pids
  BY DEF TypeOK, CallerTypes, CallerStates, Writing
<1>2. ASSUME Begins(c), UNCHANGED <<fileVars, procVars>> PROVE TypeOK'
  <2>1. left' \in [Faults -> Nat]
    BY <1>2, SpendType DEF TypeOK, Begins, Faults
  <2>2. QED
    BY <1>0, <1>2, <2>1 DEF TypeOK, fileVars, procVars
<1>3. CASE StartChecks(c) \/ StartRefused(c) \/ Unreadable(c) \/ StopChecks(c)
  BY <1>2, <1>3 DEF StartChecks, StartRefused, Unreadable, StopChecks
<1>4. ASSUME NEW p \in Pids, Spawn(c, p) PROVE TypeOK'
  BY <1>0, <1>4 DEF TypeOK, Spawn, fileVars, ProcStates
<1>5. CASE Truncate(c) \/ Write(c) \/ RemoveFile(c)
  BY <1>0, <1>1, <1>5 DEF TypeOK, Truncate, Write, RemoveFile, procVars, Writing
<1>6. CASE WriteFails(c) \/ RemoveFails(c)
  <2>1. left' \in [Faults -> Nat]
    BY <1>6, SpendType DEF TypeOK, WriteFails, RemoveFails, Faults
  <2>2. QED
    BY <1>0, <1>6, <2>1 DEF TypeOK, WriteFails, RemoveFails, fileVars, procVars
<1>7. CASE Signal(c)
  <2>1. proc' \in [Pids -> ProcStates]
    BY <1>7 DEF TypeOK, Signal, Terminate, ProcStates
  <2>2. QED
    BY <1>0, <1>7, <2>1 DEF TypeOK, Signal, fileVars
<1>8. ASSUME NEW x,
             BindLoads(c, x) \/ RemoveLoads(c, x) \/ RemoveAllLoads(c, x) \/ SetResolves(c, x)
      PROVE  TypeOK'
  BY <1>2, <1>8 DEF BindLoads, RemoveLoads, RemoveAllLoads, SetResolves
<1>9. ASSUME NEW x, SetLoads(c, x) PROVE TypeOK'
  BY <1>0, <1>9 DEF TypeOK, SetLoads, fileVars, procVars
<1>10. CASE Saves(c)
  BY <1>0, <1>1, <1>10 DEF TypeOK, Saves, procVars
<1>11. QED
  BY <1>3, <1>4, <1>5, <1>6, <1>7, <1>8, <1>9, <1>10 DEF DaemonCall, RegistryCall

(* A caller that opens or goes leaves everything well formed.              *)
LEMMA CallerEndTypesStep ==
  ASSUME TypeOK, NEW c \in Callers, Open(c) \/ Close(c) \/ Fails(c)
  PROVE  TypeOK'
<1>0. CallerTypes'
  BY CallerTypesStep DEF Next
<1>1. CASE Open(c) \/ Fails(c)
  BY <1>0, <1>1 DEF TypeOK, Open, Fails, fileVars, procVars
<1>2. CASE Close(c)
  <2>1. left' \in [Faults -> Nat]
    BY <1>2, SpendType DEF TypeOK, Close, Faults
  <2>2. proc' \in [Pids -> ProcStates] /\ parent' \in [Pids -> Callers \cup {None}]
    BY <1>2 DEF TypeOK, Close, ProcStates
  <2>3. QED
    BY <1>0, <1>2, <2>1, <2>2 DEF TypeOK, Close, fileVars
<1>3. QED
  BY <1>1, <1>2

(* Type correctness of the local control plane: in particular, a call that *)
(* is about to write a PID or to signal one holds a PID.                   *)
THEOREM LocalTypeCorrect == Spec => []TypeOK
<1>1. Init => TypeOK
  BY BudgetAssumption, FreshType
     DEF Init, TypeOK, CallerTypes, CallerSteps, ProcStates, Fresh
<1>2. TypeOK /\ [Next]_vars => TypeOK'
  <2> SUFFICES ASSUME TypeOK, [Next]_vars PROVE TypeOK'
    OBVIOUS
  <2>1. CASE UNCHANGED vars
    BY <2>1 DEF vars, fileVars, procVars, TypeOK, CallerTypes
  <2>2. QED
    BY <2>1, ProcessTypesStep, CallTypesStep, CallerEndTypesStep DEF Next
<1>3. QED
  BY <1>1, <1>2, PTL DEF Spec
-----------------------------------------------------------------------------
(* A caller that goes on with a registry in which no session is bound      *)
(* twice leaves the bindings unique if the file stays as it is.            *)
LEMMA UniqueStep ==
  ASSUME TypeOK, BindingsAreUnique, NEW c \in Callers, NEW state,
         caller' = [caller EXCEPT ![c] = state], Unique(state.reg), UNCHANGED registry
  PROVE  BindingsAreUnique'
BY DEF TypeOK, CallerTypes, BindingsAreUnique, Unique

(* Every step of every call keeps the bindings unique.                     *)
LEMMA BindingsStep ==
  ASSUME TypeOK, BindingsAreUnique, [Next]_vars
  PROVE  BindingsAreUnique'
<1>0. /\ registry \in SUBSET Bindings /\ Unique(registry)
      /\ \A c \in Callers : caller[c] \in CallerStates /\ Unique(caller[c].reg)
  BY DEF TypeOK, CallerTypes, BindingsAreUnique
<1>1. CASE UNCHANGED <<registry, caller>>
  BY <1>1 DEF BindingsAreUnique
<1>2. ASSUME NEW c \in Callers, NEW pc \in CallerSteps, NEW p, UNCHANGED registry,
             Goes(c, Fresh(pc)) \/ Goes(c, [Fresh(pc) EXCEPT !.pid = p])
      PROVE  BindingsAreUnique'
  <2>1. Unique(Fresh(pc).reg) /\ Unique([Fresh(pc) EXCEPT !.pid = p].reg)
    BY DEF Fresh, Unique
  <2>2. QED
    BY <1>2, <2>1, UniqueStep DEF Goes
<1>3. ASSUME NEW c \in Callers, DaemonCall(c) PROVE BindingsAreUnique'
  <2>1. CASE StartRefused(c) \/ Unreadable(c)
    BY <1>1, <2>1 DEF StartRefused, Unreadable, fileVars
  <2>2. CASE StartChecks(c) \/ Write(c) \/ WriteFails(c) \/ Signal(c) \/ RemoveFile(c)
           \/ RemoveFails(c)
    BY <1>2, <2>2 DEF StartChecks, Write, WriteFails, Signal, RemoveFile, RemoveFails,
                      fileVars, CallerSteps
  <2>3. ASSUME NEW p \in Pids, Spawn(c, p) PROVE BindingsAreUnique'
    BY <1>2, <2>3 DEF Spawn, fileVars, CallerSteps
  <2>4. CASE Truncate(c)
    <3>1. Unique([caller[c] EXCEPT !.pc = "write"].reg)
      BY <1>0 DEF CallerStates
    <3>2. QED
      BY <2>4, <3>1, UniqueStep DEF Truncate, Goes
  <2>5. CASE StopChecks(c)
    <3>1. "signal" \in CallerSteps /\ "remove" \in CallerSteps /\ UNCHANGED registry
      BY <2>5 DEF StopChecks, fileVars, CallerSteps
    <3>2. \/ Goes(c, [Fresh("signal") EXCEPT !.pid = pidFile]) \/ Goes(c, Fresh("remove"))
      BY <2>5 DEF StopChecks
    <3>3. QED
      BY <1>2, <3>1, <3>2
  <2>6. QED
    BY <1>3, <2>1, <2>2, <2>3, <2>4, <2>5 DEF DaemonCall
<1>4. ASSUME NEW c \in Callers, NEW b \in Bindings, BindLoads(c, b)
      PROVE  BindingsAreUnique'
  <2>1. Unique([Fresh("save") EXCEPT !.reg = Bind(registry, b), !.key = b.key].reg)
    BY <1>0, BindType DEF Fresh
  <2>2. QED
    BY <1>4, <2>1, UniqueStep DEF BindLoads, Goes, fileVars
<1>5. ASSUME NEW c \in Callers, NEW k, RemoveLoads(c, k) \/ RemoveAllLoads(c, k)
      PROVE  BindingsAreUnique'
  <2>1. /\ Unique([Fresh("save") EXCEPT !.reg = Remove(registry, k), !.key = k].reg)
        /\ Unique([Fresh("save") EXCEPT !.reg = RemoveAll(registry, k)].reg)
    BY <1>0, RemoveType DEF Fresh
  <2>2. QED
    BY <1>5, <2>1, UniqueStep DEF RemoveLoads, RemoveAllLoads, Goes, fileVars
<1>6. ASSUME NEW c \in Callers, NEW ask, SetResolves(c, ask) PROVE BindingsAreUnique'
  <2>1. PICK b \in registry :
          Goes(c, [Fresh("resolved") EXCEPT !.key = b.key, !.ask = ask])
    BY <1>6 DEF SetResolves
  <2>2. Unique([Fresh("resolved") EXCEPT !.key = b.key, !.ask = ask].reg)
    BY DEF Fresh, Unique
  <2>3. QED
    BY <1>6, <2>1, <2>2, UniqueStep DEF SetResolves, Goes, fileVars
<1>7. ASSUME NEW c \in Callers, NEW workspace \in Workspaces, SetLoads(c, workspace)
      PROVE  BindingsAreUnique'
  <2> DEFINE b == [key |-> caller[c].key, workspace |-> workspace]
  <2>1. b \in Bindings
    BY <1>7 DEF TypeOK, CallerTypes, SetLoads, Bindings
  <2>2. Unique(Bind(registry, b))
    BY <1>0, <2>1, BindType
  <2>3. Unique([caller[c] EXCEPT !.pc = "save", !.reg = Bind(registry, b)].reg)
    BY <1>0, <2>2 DEF CallerStates
  <2>4. QED
    BY <1>7, <2>3, UniqueStep DEF SetLoads, Goes, fileVars
<1>8. ASSUME NEW c \in Callers, Saves(c) PROVE BindingsAreUnique'
  <2>1. Unique(registry')
    BY <1>0, <1>8 DEF Saves
  <2>2. \A d \in Callers : Unique(caller'[d].reg)
    BY <1>0, <1>8 DEF TypeOK, CallerTypes, Saves, Goes, Fresh, Unique
  <2>3. QED
    BY <2>1, <2>2 DEF BindingsAreUnique
<1>9. ASSUME NEW c \in Callers, RegistryCall(c) PROVE BindingsAreUnique'
  BY <1>4, <1>5, <1>6, <1>7, <1>8, <1>9 DEF RegistryCall
<1>10. ASSUME NEW c \in Callers, Open(c) \/ Close(c) \/ Fails(c)
       PROVE  BindingsAreUnique'
  BY <1>2, <1>10 DEF Open, Close, Fails, fileVars, CallerSteps
<1>11. ASSUME NEW p \in Pids, Process(p) PROVE BindingsAreUnique'
  BY <1>1, <1>11 DEF Process, Boot, BootFails, Dies, Exits, Reuse, Foreground, fileVars
<1>12. CASE UNCHANGED vars
  BY <1>1, <1>12 DEF vars, fileVars
<1>13. QED
  BY <1>3, <1>9, <1>10, <1>11, <1>12 DEF Next

(* No session is ever bound twice, whatever calls overlap: a save may      *)
(* overwrite another, but never mixes two.                                 *)
THEOREM BindingsStayUnique == Spec => []BindingsAreUnique
<1>1. Init => BindingsAreUnique
  BY DEF Init, BindingsAreUnique, Unique, Fresh
<1>2. QED
  BY <1>1, BindingsStep, LocalTypeCorrect, PTL DEF Spec
-----------------------------------------------------------------------------
(* Steps that leave the PID file and the callers alone, and record no new  *)
(* daemon, keep control.                                                   *)
LEMMA ControlShrinks ==
  ASSUME Control, UNCHANGED <<pidFile, caller>>,
         \A p \in Pids : Recorded(p)' => Recorded(p)
  PROVE  Control'
BY DEF Control, Exclusive, Busy, Fits, Writing

(* A step of the only call under way keeps control if what the call knows  *)
(* next fits the daemon recorded next.                                     *)
LEMMA ControlCall ==
  ASSUME TypeOK, Control, NEW c \in Callers, NEW state, Goes(c, state),
         \A d \in Callers : d # c => ~Busy(d),
         \A p \in Pids : Recorded(p)' =>
           Fits(state, p) /\ (pidFile' = p \/ state.pc \in {"truncate", "write"})
  PROVE  Control'
<1>1. /\ caller'[c] = state
      /\ \A d \in Callers : d # c => caller'[d] = caller[d]
  BY DEF Goes, TypeOK, CallerTypes
<1>2. \A d \in Callers : d # c => ~Busy(d)'
  BY <1>1 DEF Busy
<1>3. Exclusive'
  BY <1>2 DEF Exclusive
<1>4. ASSUME NEW p \in Pids, Recorded(p)', NEW d \in Callers PROVE Fits(caller[d], p)'
  <2>1. CASE d = c
    BY <1>1, <1>4, <2>1
  <2>2. CASE d # c
    BY <1>2, <2>2 DEF Fits, Busy
  <2>3. QED
    BY <2>1, <2>2
<1>5. ASSUME NEW p \in Pids, Recorded(p)'
      PROVE  pidFile' = p \/ \E d \in Callers : Writing(d)'
  BY <1>1, <1>5 DEF Writing
<1>6. QED
  BY <1>3, <1>4, <1>5 DEF Control

(* While one call is under way no other is, and a call begins only then.   *)
LEMMA OthersIdle ==
  ASSUME Overlap = FALSE, Control, NEW c \in Callers, Begins(c) \/ Busy(c),
         NEW d \in Callers, d # c
  PROVE  ~Busy(d)
BY DEF Control, Exclusive, Busy, Begins

(* Between two calls a recorded daemon is in the PID file.                 *)
LEMMA RecordedOnFile ==
  ASSUME Overlap = FALSE, Control, NEW c \in Callers, Begins(c), NEW p \in Pids, Recorded(p)
  PROVE  pidFile = p /\ Alive(pidFile)
<1>1. \A d \in Callers : ~Writing(d)
  BY OthersIdle DEF Begins, Busy, Writing
<1>2. pidFile = p
  BY <1>1 DEF Control
<1>3. QED
  BY <1>2 DEF Alive, Recorded, Runs

(* No process becomes a recorded daemon by itself.                         *)
LEMMA ControlProcess ==
  ASSUME TypeOK, Control, NEW p \in Pids, Process(p)
  PROVE  Control'
<1>1. UNCHANGED <<pidFile, caller>>
  BY DEF Process, Boot, BootFails, Dies, Exits, Reuse, Foreground, fileVars
<1>2. ASSUME NEW q \in Pids, Recorded(q)' PROVE Recorded(q)
  <2>1. q \notin unrecorded' /\ proc'[q] \in {"booting", "daemon"}
    BY <1>2 DEF Recorded, Runs
  <2>2. CASE Boot(p)
    BY <2>1, <2>2 DEF TypeOK, Boot, Recorded, Runs
  <2>3. CASE BootFails(p) \/ Dies(p) \/ Exits(p)
    <3>1. Ends(p)
      BY <2>3 DEF BootFails, Dies, Exits
    <3>2. proc'[p] \in {"none", "zombie"} /\ (q # p => proc'[q] = proc[q])
      BY <3>1 DEF TypeOK, Ends
    <3>3. q # p /\ q \notin unrecorded /\ proc[q] = proc'[q]
      BY <2>1, <3>1, <3>2 DEF Ends
    <3>4. QED
      BY <2>1, <3>3 DEF Recorded, Runs
  <2>4. CASE Reuse(p) \/ Foreground(p)
    BY <2>1, <2>4 DEF TypeOK, Reuse, Foreground, Recorded, Runs
  <2>5. QED
    BY <2>2, <2>3, <2>4 DEF Process
<1>3. QED
  BY <1>1, <1>2, ControlShrinks

(* A start, a stop or a call on the registry keeps control.                *)
LEMMA ControlCalls ==
  ASSUME Overlap = FALSE, TypeOK, Control, NEW c \in Callers,
         DaemonCall(c) \/ RegistryCall(c)
  PROVE  Control'
<1>0. proc \in [Pids -> ProcStates] /\ caller[c] \in CallerStates
  BY DEF TypeOK, CallerTypes
<1>1. ASSUME Begins(c) PROVE \A d \in Callers : d # c => ~Busy(d)
  BY <1>1, OthersIdle
<1>2. ASSUME Busy(c) PROVE \A d \in Callers : d # c => ~Busy(d)
  BY <1>2, OthersIdle
<1>3. ASSUME UNCHANGED procVars, NEW p \in Pids PROVE Recorded(p)' = Recorded(p)
  BY <1>3 DEF procVars, Recorded, Runs
<1>4. CASE StartChecks(c)
  <2>1. \A p \in Pids : ~Recorded(p)
    BY <1>4, RecordedOnFile DEF StartChecks
  <2>2. QED
    BY <1>1, <1>3, <1>4, <2>1, ControlCall DEF StartChecks
<1>5. CASE StartRefused(c) \/ Unreadable(c)
  BY <1>3, <1>5, ControlShrinks DEF StartRefused, Unreadable, fileVars
<1>6. ASSUME NEW q \in Pids, Spawn(c, q) PROVE Control'
  <2>1. caller[c].pc = "spawn" /\ Busy(c)
    BY <1>6 DEF Spawn, Busy
  <2>2. ASSUME NEW p \in Pids, Recorded(p)' PROVE p = q
    BY <1>0, <1>6, <2>1, <2>2 DEF Control, Fits, Spawn, Recorded, Runs
  <2> DEFINE state == [Fresh("truncate") EXCEPT !.pid = q]
  <2>3. state.pc = "truncate" /\ state.pid = q
    BY DEF Fresh
  <2>4. Goes(c, state)
    BY <1>6 DEF Spawn
  <2> HIDE DEF state
  <2>5. \A p \in Pids : Recorded(p)' => Fits(state, p)
    BY <2>2, <2>3 DEF Fits
  <2>6. QED
    BY <1>2, <2>1, <2>3, <2>4, <2>5, ControlCall
<1>7. CASE Truncate(c)
  <2> DEFINE state == [caller[c] EXCEPT !.pc = "write"]
  <2>1. caller[c].pc = "truncate" /\ Busy(c) /\ Goes(c, state) /\ UNCHANGED procVars
    BY <1>7 DEF Truncate, Busy
  <2>2. state.pc = "write" /\ state.pid = caller[c].pid
    BY <1>0 DEF CallerStates
  <2> HIDE DEF state
  <2>3. \A p \in Pids : Recorded(p)' => Fits(state, p)
    BY <1>3, <2>1, <2>2 DEF Control, Fits
  <2>4. QED
    BY <1>2, <2>1, <2>2, <2>3, ControlCall
<1>8. CASE Write(c)
  <2>1. \A p \in Pids : Recorded(p)' => pidFile' = p /\ Fits(Fresh("ready"), p)
    BY <1>3, <1>8 DEF Write, Control, Fits, Fresh
  <2>2. QED
    BY <1>2, <1>8, <2>1, ControlCall DEF Write, Busy
<1>9. CASE WriteFails(c)
  <2>1. \A p \in Pids : Recorded(p)' => Recorded(p) /\ p \notin unrecorded'
    BY <1>9 DEF WriteFails, Recorded, Runs
  <2>2. \A p \in Pids : Recorded(p) => p = caller[c].pid /\ Runs(p)
    BY <1>9 DEF WriteFails, Control, Fits, Recorded
  <2>3. \A p \in Pids : ~Recorded(p)'
    BY <1>9, <2>1, <2>2 DEF WriteFails
  <2>4. QED
    BY <1>2, <1>9, <2>3, ControlCall DEF WriteFails, Busy
<1>10. CASE StopChecks(c)
  <2>1. CASE Alive(pidFile)
    <3> DEFINE state == [Fresh("signal") EXCEPT !.pid = pidFile]
    <3>1. state.pc = "signal" /\ state.pid = pidFile
      BY DEF Fresh
    <3>2. Goes(c, state) /\ Begins(c) /\ UNCHANGED procVars /\ UNCHANGED pidFile
      BY <1>10, <2>1 DEF StopChecks, fileVars
    <3> HIDE DEF state
    <3>3. \A p \in Pids : Recorded(p)' => pidFile = p
      BY <1>3, <3>2, RecordedOnFile
    <3>4. \A p \in Pids : Recorded(p)' => Fits(state, p) /\ pidFile' = p
      BY <3>1, <3>2, <3>3 DEF Fits
    <3>5. QED
      BY <1>1, <3>2, <3>4, ControlCall
  <2>2. CASE ~Alive(pidFile)
    <3>1. \A p \in Pids : ~Recorded(p)
      BY <1>10, <2>2, RecordedOnFile DEF StopChecks
    <3>2. Goes(c, Fresh("remove")) /\ Begins(c) /\ UNCHANGED procVars
      BY <1>10, <2>2 DEF StopChecks
    <3>3. QED
      BY <1>1, <1>3, <3>1, <3>2, ControlCall
  <2>3. QED
    BY <2>1, <2>2
<1>11. CASE Signal(c)
  <2>1. \A p \in Pids : Recorded(p)' => Recorded(p) /\ p # caller[c].pid
    BY <1>0, <1>11 DEF Signal, Terminate, Recorded, Runs
  <2>2. \A p \in Pids : Recorded(p) => p = caller[c].pid
    BY <1>11 DEF Signal, Control, Fits
  <2>3. QED
    BY <1>2, <1>11, <2>1, <2>2, ControlCall DEF Signal, Busy
<1>12. CASE RemoveFile(c) \/ RemoveFails(c)
  <2>1. \A p \in Pids : ~Recorded(p)'
    BY <1>3, <1>12 DEF RemoveFile, RemoveFails, Control, Fits
  <2>2. QED
    BY <1>2, <1>12, <2>1, ControlCall DEF RemoveFile, RemoveFails, Busy
<1>13. ASSUME NEW state, Goes(c, state), UNCHANGED <<pidFile, procVars>>,
              Begins(c) \/ caller[c].pc \in {"resolved", "save"},
              state.pc \in {"save", "resolved", "ready"}
       PROVE  Control'
  <2>1. \A d \in Callers : d # c => ~Busy(d) /\ ~Writing(d)
    BY <1>1, <1>2, <1>13 DEF Busy, Writing
  <2>2. ~Writing(c)
    BY <1>13 DEF Begins, Writing
  <2>3. \A p \in Pids : Recorded(p)' => pidFile' = p
    BY <1>3, <1>13, <2>1, <2>2 DEF Control
  <2>4. \A p : Fits(state, p)
    BY <1>13 DEF Fits
  <2>5. QED
    BY <1>13, <2>1, <2>3, <2>4, ControlCall
<1>14. ASSUME RegistryCall(c) PROVE Control'
  <2>1. ASSUME NEW b \in Bindings, BindLoads(c, b) PROVE Control'
    <3>1. [Fresh("save") EXCEPT !.reg = Bind(registry, b), !.key = b.key].pc = "save"
      BY DEF Fresh
    <3>2. QED
      BY <1>13, <2>1, <3>1 DEF BindLoads, fileVars
  <2>2. ASSUME NEW k, RemoveLoads(c, k) \/ RemoveAllLoads(c, k) PROVE Control'
    <3>1. /\ [Fresh("save") EXCEPT !.reg = Remove(registry, k), !.key = k].pc = "save"
          /\ [Fresh("save") EXCEPT !.reg = RemoveAll(registry, k)].pc = "save"
      BY DEF Fresh
    <3>2. QED
      BY <1>13, <2>2, <3>1 DEF RemoveLoads, RemoveAllLoads, fileVars
  <2>3. ASSUME NEW ask, SetResolves(c, ask) PROVE Control'
    <3>1. PICK b \in registry :
            Goes(c, [Fresh("resolved") EXCEPT !.key = b.key, !.ask = ask])
      BY <2>3 DEF SetResolves
    <3>2. [Fresh("resolved") EXCEPT !.key = b.key, !.ask = ask].pc = "resolved"
      BY DEF Fresh
    <3>3. QED
      BY <1>13, <2>3, <3>1, <3>2 DEF SetResolves, fileVars
  <2>4. ASSUME NEW workspace, SetLoads(c, workspace) PROVE Control'
    <3> DEFINE b == [key |-> caller[c].key, workspace |-> workspace]
    <3>1. [caller[c] EXCEPT !.pc = "save", !.reg = Bind(registry, b)].pc = "save"
      BY <1>0 DEF CallerStates
    <3>2. QED
      BY <1>13, <2>4, <3>1 DEF SetLoads, fileVars
  <2>5. CASE Saves(c)
    <3>1. Fresh("ready").pc = "ready"
      BY DEF Fresh
    <3>2. QED
      BY <1>13, <2>5, <3>1 DEF Saves
  <2>6. QED
    BY <1>14, <2>1, <2>2, <2>3, <2>4, <2>5 DEF RegistryCall
<1>15. QED
  BY <1>4, <1>5, <1>6, <1>7, <1>8, <1>9, <1>10, <1>11, <1>12, <1>14 DEF DaemonCall

(* A caller that opens, exits, is killed or gives up keeps control.        *)
LEMMA ControlEnds ==
  ASSUME Overlap = FALSE, TypeOK, Control, NEW c \in Callers,
         Open(c) \/ Close(c) \/ Fails(c)
  PROVE  Control'
<1>0. /\ proc \in [Pids -> ProcStates]
      /\ Fits(Fresh("ready"), None) /\ \A p : Fits(Fresh("ready"), p) /\ Fits(Fresh("gone"), p)
  BY DEF TypeOK, Fits, Fresh
<1>1. \A p \in Pids : Recorded(p)' => Recorded(p)
  BY <1>0 DEF Open, Close, Fails, procVars, Recorded, Runs
<1>2. pidFile' = pidFile
  BY DEF Open, Close, Fails, fileVars
<1>3. ASSUME NEW pc \in {"ready", "gone"}, Goes(c, Fresh(pc)), ~Writing(c)
      PROVE  Control'
  <2>1. /\ caller'[c].pc = pc
        /\ \A d \in Callers : d # c => caller'[d] = caller[d]
    BY <1>3 DEF Goes, Fresh, TypeOK, CallerTypes
  <2>2. Exclusive'
    BY <2>1 DEF Control, Exclusive, Busy
  <2>3. ASSUME NEW p \in Pids, Recorded(p)'
        PROVE  /\ \A d \in Callers : Fits(caller[d], p)'
               /\ pidFile' = p \/ \E d \in Callers : Writing(d)'
    <3>1. Recorded(p)
      BY <1>1, <2>3
    <3>2. \A d \in Callers : Fits(caller[d], p)'
      BY <2>1, <3>1 DEF Control, Fits
    <3>3. pidFile' = p \/ \E d \in Callers : Writing(d)'
      BY <1>2, <1>3, <2>1, <3>1 DEF Control, Writing
    <3>4. QED
      BY <3>2, <3>3
  <2>4. QED
    BY <2>2, <2>3 DEF Control
<1>4. CASE Close(c) /\ Writing(c)
  <2>1. \A p \in Pids : Recorded(p) => p = caller[c].pid /\ Runs(p)
    BY <1>4 DEF Control, Fits, Writing, Recorded
  <2>2. \A p \in Pids : ~Recorded(p)'
    BY <1>1, <1>4, <2>1 DEF Close, Writing, Recorded
  <2>3. \A d \in Callers : d # c => ~Busy(d)
    BY <1>4, OthersIdle DEF Writing, Busy
  <2>4. QED
    BY <1>4, <2>2, <2>3, ControlCall DEF Close
<1>5. QED
  BY <1>3, <1>4 DEF Open, Close, Fails, Writing

(* Control holds as long as no two calls overlap.                          *)
LEMMA ControlInv ==
  ASSUME Overlap = FALSE
  PROVE  Spec => []Control
<1>1. Init => Control
  BY DEF Init, Control, Exclusive, Busy, Fresh, Recorded, Runs
<1>2. TypeOK /\ Control /\ [Next]_vars => Control'
  <2> SUFFICES ASSUME TypeOK, Control, [Next]_vars PROVE Control'
    OBVIOUS
  <2>1. CASE UNCHANGED vars
    BY <2>1, ControlShrinks DEF vars, fileVars, procVars, Recorded, Runs
  <2>2. QED
    BY <2>1, ControlProcess, ControlCalls, ControlEnds DEF Next
<1>3. QED
  BY <1>1, <1>2, LocalTypeCorrect, PTL DEF Spec

(* If no two calls overlap, at most one daemon runs of those that a start  *)
(* could record, and its PID is in the file or about to be: whatever       *)
(* processes die or PIDs are reused, whoever is killed and whichever       *)
(* write fails.                                                            *)
THEOREM DaemonIsControlled ==
  ASSUME Overlap = FALSE
  PROVE  Spec => [](OneDaemon /\ DaemonIsOnFile)
<1>1. Control => OneDaemon /\ DaemonIsOnFile
  BY DEF Control, Fits, OneDaemon, DaemonIsOnFile, Writing
<1>2. QED
  BY <1>1, ControlInv, PTL

(* ... so that `awp daemon stop` finds the daemon.                         *)
THEOREM DaemonStaysOnFile ==
  ASSUME Overlap = FALSE
  PROVE  Spec => []DaemonIsOnFile
<1>1. OneDaemon /\ DaemonIsOnFile => DaemonIsOnFile
  OBVIOUS
<1>2. QED
  BY <1>1, DaemonIsControlled, PTL

-----------------------------------------------------------------------------
(* One operation on a registry.                                            *)
Change(reg, new) ==
  \/ \E b \in Bindings : new = Bind(reg, b)
  \/ \E key \in Keys : new = Remove(reg, key)
  \/ \E provider \in Providers \cup {None} : new = RemoveAll(reg, provider)

(* What a call knows of the registry while nobody else is at work: what it *)
(* is about to save is one operation on it and has every binding but its   *)
(* own, and the binding it resolved is still there.                        *)
Kept(state, reg) ==
  /\ state.pc = "save" /\ state.key # None =>
       \A b \in reg : b.key # state.key => b \in state.reg
  /\ state.pc \in {"resolved", "save"} /\ state.ask # NoAsk =>
       [key |-> state.key, workspace |-> state.ask.workspace] \in reg
  /\ state.pc = "save" => Change(reg, state.reg)

RegistryKnown == \A c \in Callers : Kept(caller[c], registry)

(* A caller goes on and leaves the registry alone.                         *)
LEMMA KnownStep ==
  ASSUME TypeOK, RegistryKnown, UNCHANGED registry, NEW c \in Callers,
         NEW state, Goes(c, state), Kept(state, registry)
  PROVE  RegistryKnown'
BY DEF RegistryKnown, Goes, TypeOK, CallerTypes

(* Only a call on the registry has to know it.                             *)
LEMMA KeptElsewhere ==
  ASSUME NEW state, NEW reg, state.pc \notin {"resolved", "save"}
  PROVE  Kept(state, reg)
BY DEF Kept

(* A call on the registry knows what it loaded; its save ends it.          *)
LEMMA KnownCalls ==
  ASSUME Overlap = FALSE, TypeOK, Control, RegistryKnown, NEW c \in Callers, RegistryCall(c)
  PROVE  RegistryKnown'
<1>0. /\ registry \subseteq Bindings /\ caller \in [Callers -> CallerStates]
      /\ Kept(caller[c], registry)
  BY DEF TypeOK, CallerTypes, RegistryKnown
<1>1. ASSUME NEW b \in Bindings, BindLoads(c, b) PROVE RegistryKnown'
  <2> DEFINE state == [Fresh("save") EXCEPT !.reg = Bind(registry, b), !.key = b.key]
  <2>1. Kept(state, registry)
    BY DEF Kept, Fresh, Bind, Change
  <2>2. QED
    BY <1>1, <2>1, KnownStep DEF BindLoads, fileVars
<1>2. ASSUME NEW key \in Keys, RemoveLoads(c, key) PROVE RegistryKnown'
  <2> DEFINE state == [Fresh("save") EXCEPT !.reg = Remove(registry, key), !.key = key]
  <2>1. Kept(state, registry)
    BY DEF Kept, Fresh, Remove, Change
  <2>2. QED
    BY <1>2, <2>1, KnownStep DEF RemoveLoads, fileVars
<1>3. ASSUME NEW provider \in Providers \cup {None}, RemoveAllLoads(c, provider)
      PROVE  RegistryKnown'
  <2> DEFINE state == [Fresh("save") EXCEPT !.reg = RemoveAll(registry, provider)]
  <2>1. Kept(state, registry)
    BY DEF Kept, Fresh, Change
  <2>2. QED
    BY <1>3, <2>1, KnownStep DEF RemoveAllLoads, fileVars
<1>4. ASSUME NEW ask \in Asks, SetResolves(c, ask) PROVE RegistryKnown'
  <2>1. PICK b \in registry :
          /\ Candidates(registry, ask) = {b}
          /\ Goes(c, [Fresh("resolved") EXCEPT !.key = b.key, !.ask = ask])
    BY <1>4 DEF SetResolves
  <2> DEFINE state == [Fresh("resolved") EXCEPT !.key = b.key, !.ask = ask]
  <2>2. b \in Bindings /\ b.workspace = ask.workspace
    BY <1>0, <2>1 DEF Candidates, Matches
  <2>3. [key |-> b.key, workspace |-> ask.workspace] = b
    BY <2>2 DEF Bindings
  <2>4. Kept(state, registry)
    BY <2>3 DEF Kept, Fresh
  <2>5. QED
    BY <1>4, <2>1, <2>4, KnownStep DEF SetResolves, fileVars
<1>5. ASSUME NEW workspace \in Workspaces, SetLoads(c, workspace) PROVE RegistryKnown'
  <2> DEFINE b == [key |-> caller[c].key, workspace |-> workspace]
             state == [caller[c] EXCEPT !.pc = "save", !.reg = Bind(registry, b)]
  <2>1. state.pc = "save" /\ state.key = caller[c].key /\ state.ask = caller[c].ask
        /\ state.reg = Bind(registry, b)
    BY <1>0 DEF CallerStates
  <2>2. caller[c].pc = "resolved"
    BY <1>5 DEF SetLoads
  <2>3. b \in Bindings
    BY <2>2 DEF TypeOK, CallerTypes, Bindings
  <2>4. Change(registry, state.reg)
    BY <2>1, <2>3 DEF Change
  <2> HIDE DEF state
  <2>5. Kept(state, registry)
    BY <1>0, <2>1, <2>2, <2>4 DEF Kept, Bind
  <2>6. QED
    BY <1>5, <2>5, KnownStep DEF SetLoads, fileVars, state
<1>6. CASE Saves(c)
  <2>1. \A d \in Callers : caller'[d] = IF d = c THEN Fresh("ready") ELSE caller[d]
    BY <1>0, <1>6 DEF Saves, Goes
  <2>2. \A d \in Callers : d # c => ~Busy(d)
    BY <1>6, OthersIdle DEF Saves, Busy
  <2>3. \A d \in Callers : caller'[d].pc \notin {"resolved", "save"}
    BY <2>1, <2>2 DEF Busy, Fresh
  <2>4. QED
    BY <2>3, KeptElsewhere DEF RegistryKnown
<1>7. QED
  BY <1>1, <1>2, <1>3, <1>4, <1>5, <1>6 DEF RegistryCall

(* Nothing but a call on the registry changes what is known of it.         *)
LEMMA KnownInv ==
  ASSUME Overlap = FALSE
  PROVE  Spec => [](TypeOK /\ RegistryKnown)
<1>1. Init => RegistryKnown
  BY DEF Init, RegistryKnown, Kept, Fresh
<1>2. TypeOK /\ Control /\ RegistryKnown /\ [Next]_vars => RegistryKnown'
  <2> SUFFICES ASSUME TypeOK, Control, RegistryKnown, [Next]_vars PROVE RegistryKnown'
    OBVIOUS
  <2>0. caller \in [Callers -> CallerStates]
    BY DEF TypeOK, CallerTypes
  <2>1. ASSUME NEW c \in Callers, NEW state, Goes(c, state), UNCHANGED registry,
               state.pc \notin {"resolved", "save"}
        PROVE  RegistryKnown'
    BY <2>1, KnownStep, KeptElsewhere
  <2>2. CASE UNCHANGED <<registry, caller>>
    BY <2>2 DEF RegistryKnown
  <2>3. ASSUME NEW c \in Callers, DaemonCall(c) PROVE RegistryKnown'
    <3>1. CASE StartRefused(c) \/ Unreadable(c)
      BY <2>2, <3>1 DEF StartRefused, Unreadable, fileVars
    <3>2. CASE \/ StartChecks(c) \/ Write(c) \/ WriteFails(c) \/ Signal(c)
               \/ RemoveFile(c) \/ RemoveFails(c) \/ StopChecks(c)
      <4>1. \E state : /\ Goes(c, state)
                       /\ state \in {Fresh("spawn"), Fresh("ready"), Fresh("remove"),
                                     [Fresh("signal") EXCEPT !.pid = pidFile]}
        BY <3>2 DEF StartChecks, Write, WriteFails, Signal, RemoveFile, RemoveFails, StopChecks
      <4>2. UNCHANGED registry
        BY <3>2 DEF StartChecks, Write, WriteFails, Signal, RemoveFile, RemoveFails,
                    StopChecks, fileVars
      <4>3. QED
        BY <2>1, <4>1, <4>2 DEF Fresh
    <3>3. ASSUME NEW p \in Pids, Spawn(c, p) PROVE RegistryKnown'
      BY <2>1, <3>3 DEF Spawn, Fresh, fileVars
    <3>4. CASE Truncate(c)
      <4>1. [caller[c] EXCEPT !.pc = "write"].pc = "write"
        BY <2>0 DEF CallerStates
      <4>2. QED
        BY <2>1, <3>4, <4>1 DEF Truncate
    <3>5. QED
      BY <2>3, <3>1, <3>2, <3>3, <3>4 DEF DaemonCall
  <2>4. ASSUME NEW c \in Callers, Open(c) \/ Close(c) \/ Fails(c) PROVE RegistryKnown'
    BY <2>1, <2>4 DEF Open, Close, Fails, Fresh, fileVars
  <2>5. ASSUME NEW p \in Pids, Process(p) PROVE RegistryKnown'
    BY <2>2, <2>5 DEF Process, Boot, BootFails, Dies, Exits, Reuse, Foreground, fileVars
  <2>6. CASE UNCHANGED vars
    BY <2>2, <2>6 DEF vars, fileVars
  <2>7. QED
    BY <2>3, <2>4, <2>5, <2>6, KnownCalls DEF Next
<1>3. QED
  BY <1>1, <1>2, ControlInv, LocalTypeCorrect, PTL DEF Spec

(* If no two calls overlap, an update that leaves an id out finds the      *)
(* binding it resolved still there when it saves: it changes that one and  *)
(* makes no new one.                                                       *)
THEOREM UpdatesFindTheirBinding ==
  ASSUME Overlap = FALSE
  PROVE  Spec => UpdatesOwnBinding
<1>1. TypeOK /\ RegistryKnown =>
        [\A c \in Callers : Saves(c) /\ caller[c].ask # NoAsk =>
           [key |-> caller[c].key, workspace |-> caller[c].ask.workspace] \in registry]_vars
  BY DEF RegistryKnown, Kept, Saves
<1>2. QED
  BY <1>1, KnownInv, PTL DEF UpdatesOwnBinding

(* If no two calls overlap, a save changes the binding the call is about   *)
(* and loses no other.                                                     *)
THEOREM SavesKeepBindings ==
  ASSUME Overlap = FALSE
  PROVE  Spec => SaveKeepsOthers
<1>1. TypeOK /\ RegistryKnown =>
        [\A c \in Callers : Saves(c) /\ caller[c].key # None =>
           \A b \in registry : b.key # caller[c].key => b \in registry']_vars
  BY DEF RegistryKnown, Kept, Saves
<1>2. QED
  BY <1>1, KnownInv, PTL DEF SaveKeepsOthers

-----------------------------------------------------------------------------
(* The map a registry stands for has the workspace of each binding.        *)
LEMMA MapIs ==
  ASSUME NEW reg \in SUBSET Bindings, Unique(reg)
  PROVE  /\ DOMAIN MapOf(reg) = {b.key : b \in reg}
         /\ \A b \in reg : MapOf(reg)[b.key] = b.workspace
<1>1. ASSUME NEW b \in reg PROVE MapOf(reg)[b.key] = b.workspace
  <2>1. (CHOOSE a \in reg : a.key = b.key) = b
    BY DEF Unique
  <2>2. QED
    BY <2>1 DEF MapOf
<1>2. QED
  BY <1>1 DEF MapOf

(* One operation on the registry is one on the map.                        *)
LEMMA ChangeIsOne ==
  ASSUME TypeOK, BindingsAreUnique, Change(registry, registry'), UNCHANGED DaemonState
  PROVE  Plane!Next
<1> DEFINE m == MapOf(registry)
           new == MapOf(registry')
<1>0. /\ registry \in SUBSET Bindings /\ Unique(registry)
      /\ DOMAIN m = {b.key : b \in registry}
      /\ \A b \in registry : m[b.key] = b.workspace
  BY MapIs DEF TypeOK, BindingsAreUnique
<1>1. ASSUME NEW b \in Bindings, registry' = Bind(registry, b)
      PROVE  Plane!Next
  <2>1. registry' \in SUBSET Bindings /\ Unique(registry')
    BY <1>0, <1>1, BindType
  <2>2. /\ DOMAIN new = {x.key : x \in registry'}
        /\ \A x \in registry' : new[x.key] = x.workspace
    BY <2>1, MapIs
  <2>3. {x.key : x \in registry'} = DOMAIN m \cup {b.key}
    BY <1>0, <1>1 DEF Bind
  <2>4. ASSUME NEW k \in DOMAIN m \cup {b.key}
        PROVE  new[k] = IF k = b.key THEN b.workspace ELSE m[k]
    <3>1. PICK x \in registry' : x.key = k
      BY <2>3
    <3>2. IF k = b.key THEN x = b ELSE x \in registry
      BY <1>0, <1>1, <3>1 DEF Bind
    <3>3. QED
      BY <1>0, <2>2, <3>1, <3>2
  <2>5. new = [k \in DOMAIN new |-> new[k]]
    BY DEF MapOf
  <2>6. new = [k \in DOMAIN m \cup {b.key} |-> IF k = b.key THEN b.workspace ELSE m[k]]
    BY <2>2, <2>3, <2>4, <2>5
  <2>7. b.key \in Keys /\ b.workspace \in Workspaces \cup {None}
    BY DEF Bindings
  <2>8. Plane!Bind(b.key, b.workspace)
    BY <2>6 DEF Plane!Bind
  <2>9. QED
    BY <2>7, <2>8 DEF Plane!Next, Plane!Keys, Keys
<1>2. ASSUME NEW K \in SUBSET Keys, registry' = {x \in registry : x.key \notin K}
      PROVE  Plane!Unbind(K)
  <2>1. registry' \in SUBSET Bindings /\ Unique(registry')
    BY <1>0, <1>2 DEF Unique
  <2>2. /\ DOMAIN new = {x.key : x \in registry'}
        /\ \A x \in registry' : new[x.key] = x.workspace
    BY <2>1, MapIs
  <2>3. {x.key : x \in registry'} = DOMAIN m \ K
    BY <1>0, <1>2
  <2>4. ASSUME NEW k \in DOMAIN m \ K PROVE new[k] = m[k]
    <3>1. PICK x \in registry' : x.key = k
      BY <2>3
    <3>2. QED
      BY <1>0, <1>2, <2>2, <3>1
  <2>5. new = [k \in DOMAIN new |-> new[k]]
    BY DEF MapOf
  <2>6. new = [k \in DOMAIN m \ K |-> m[k]]
    BY <2>2, <2>3, <2>4, <2>5
  <2>7. QED
    BY <2>6 DEF Plane!Unbind
<1>3. ASSUME NEW key \in Keys, registry' = Remove(registry, key)
      PROVE  Plane!Next
  <2>1. registry' = {x \in registry : x.key \notin {key}}
    BY <1>3 DEF Remove
  <2>2. Plane!Unbind({key})
    BY <1>2, <2>1
  <2>3. QED
    BY <2>2 DEF Plane!Next, Plane!Keys, Keys
<1>4. ASSUME NEW provider \in Providers, registry' = RemoveAll(registry, provider)
      PROVE  Plane!Next
  <2> DEFINE K == {key \in Keys : key[1] = provider}
  <2>1. \A x \in registry : x.key \in Keys
    BY <1>0 DEF Bindings
  <2>2. registry' = {x \in registry : x.key \notin K}
    BY <1>4, <2>1, NoneAssumption DEF RemoveAll
  <2>3. Plane!Unbind(K)
    BY <1>2, <2>2
  <2>4. K = Plane!OfProvider(provider)
    BY DEF Plane!OfProvider, Plane!Keys, Keys
  <2> HIDE DEF K
  <2>5. QED
    BY <2>3, <2>4 DEF Plane!Next
<1>5. ASSUME registry' = RemoveAll(registry, None) PROVE Plane!Next
  <2>1. registry' = {x \in registry : x.key \notin Keys}
    BY <1>0, <1>5 DEF RemoveAll, Bindings
  <2>2. Plane!Unbind(Keys)
    BY <1>2, <2>1
  <2>3. QED
    BY <2>2 DEF Plane!Next, Plane!Keys, Keys
<1>6. QED
  BY <1>1, <1>3, <1>4, <1>5 DEF Change

(* A step that records no daemon and touches none is none of the plane.    *)
LEMMA PlaneRests ==
  ASSUME UNCHANGED registry,
         \A p \in Pids : Recorded(p)' <=> Recorded(p),
         \A p \in Pids : Recorded(p) => (proc'[p] = "daemon" <=> proc[p] = "daemon")
  PROVE  UNCHANGED Plane!vars
<1>1. DaemonState' = DaemonState
  BY DEF DaemonState
<1>2. MapOf(registry)' = MapOf(registry)
  BY DEF MapOf
<1>3. QED
  BY <1>1, <1>2 DEF Plane!vars

(* A process that stops being the recorded daemon ends it.                 *)
LEMMA PlaneLoses ==
  ASSUME OneDaemon, UNCHANGED registry, NEW p,
         \A q \in Pids : Recorded(q)' <=> (Recorded(q) /\ q # p),
         \A q \in Pids : q # p => (proc'[q] = "daemon" <=> proc[q] = "daemon")
  PROVE  [Plane!Next]_(Plane!vars)
<1>1. CASE \E q \in Pids : q = p /\ Recorded(q)
  <2>1. \A q \in Pids : ~Recorded(q)'
    BY <1>1 DEF OneDaemon
  <2>2. DaemonState' = "none" /\ DaemonState # "none"
    BY <1>1, <2>1 DEF DaemonState
  <2>3. MapOf(registry)' = MapOf(registry)
    BY DEF MapOf
  <2>4. Plane!End
    BY <2>2, <2>3 DEF Plane!End
  <2>5. QED
    BY <2>4 DEF Plane!Next
<1>2. CASE ~\E q \in Pids : q = p /\ Recorded(q)
  <2>1. \A q \in Pids : Recorded(q)' <=> Recorded(q)
    BY <1>2
  <2>2. \A q \in Pids : Recorded(q) => (proc'[q] = "daemon" <=> proc[q] = "daemon")
    BY <1>2
  <2>3. QED
    BY <2>1, <2>2, PlaneRests
<1>3. QED
  BY <1>1, <1>2

(* A daemon is started only while none is recorded: the call that spawns   *)
(* it has looked, and nobody was at work since.                            *)
LEMMA PlaneStarts ==
  ASSUME TypeOK, Control, NEW c \in Callers, NEW p \in Pids, Spawn(c, p)
  PROVE  [Plane!Next]_(Plane!vars)
<1>1. \A q \in Pids : ~Recorded(q)
  BY DEF Control, Fits, Spawn
<1>2. UNCHANGED <<registry, unrecorded>> /\ proc' = [proc EXCEPT ![p] = "booting"]
  BY DEF Spawn, fileVars
<1>3. \A q \in Pids : proc'[q] = IF q = p THEN "booting" ELSE proc[q]
  BY <1>2 DEF TypeOK
<1>4. \A q \in Pids : Recorded(q)' <=> (q = p /\ p \notin unrecorded)
  BY <1>1, <1>2, <1>3 DEF Recorded, Runs
<1>5. DaemonState = "none"
  BY <1>1 DEF DaemonState
<1>6. MapOf(registry)' = MapOf(registry)
  BY <1>2 DEF MapOf
<1>7. CASE p \in unrecorded
  BY <1>1, <1>2, <1>4, <1>7, PlaneRests
<1>8. CASE p \notin unrecorded
  <2>1. DaemonState' = "booting"
    BY <1>3, <1>4, <1>8 DEF DaemonState
  <2>2. Plane!Start
    BY <1>5, <1>6, <2>1 DEF Plane!Start
  <2>3. QED
    BY <2>2 DEF Plane!Next
<1>9. QED
  BY <1>7, <1>8

(* What a process does by itself.                                          *)
LEMMA PlaneProcess ==
  ASSUME TypeOK, OneDaemon, BindingsAreUnique, NEW p \in Pids, Process(p)
  PROVE  [Plane!Next]_(Plane!vars)
<1>0. UNCHANGED registry /\ proc \in [Pids -> ProcStates]
  BY DEF TypeOK, Process, Boot, BootFails, Dies, Exits, Reuse, Foreground, fileVars
<1>1. CASE Boot(p)
  <2>1. /\ proc[p] = "booting" /\ registry # {} /\ unrecorded' = unrecorded
        /\ \A q \in Pids : proc'[q] = IF q = p THEN "daemon" ELSE proc[q]
    BY <1>0, <1>1 DEF Boot
  <2>2. \A q \in Pids : Recorded(q)' <=> Recorded(q)
    BY <2>1 DEF Recorded, Runs
  <2>3. CASE Recorded(p)
    <3>1. \A q \in Pids : Recorded(q) => q = p
      BY <2>3 DEF OneDaemon
    <3>2. DaemonState = "booting"
      BY <2>1, <2>3, <3>1 DEF DaemonState
    <3>3. DaemonState' = "working"
      BY <2>1, <2>2, <2>3 DEF DaemonState
    <3>4. MapOf(registry)' = MapOf(registry) /\ DOMAIN MapOf(registry) # {}
      BY <1>0, <2>1 DEF MapOf
    <3>5. Plane!Work
      BY <3>2, <3>3, <3>4 DEF Plane!Work
    <3>6. QED
      BY <3>5 DEF Plane!Next
  <2>4. CASE ~Recorded(p)
    <3>1. \A q \in Pids : Recorded(q) => (proc'[q] = "daemon" <=> proc[q] = "daemon")
      BY <2>1, <2>4
    <3>2. QED
      BY <1>0, <2>2, <3>1, PlaneRests
  <2>5. QED
    BY <2>3, <2>4
<1>2. CASE BootFails(p) \/ Dies(p) \/ Exits(p)
  <2>1. Ends(p)
    BY <1>2 DEF BootFails, Dies, Exits
  <2>2. /\ proc'[p] \in {"none", "zombie"} /\ unrecorded' = unrecorded \ {p}
        /\ \A q \in Pids : q # p => proc'[q] = proc[q]
    BY <1>0, <2>1 DEF Ends
  <2>3. \A q \in Pids : Recorded(q)' <=> (Recorded(q) /\ q # p)
    BY <2>2 DEF Recorded, Runs
  <2>4. \A q \in Pids : q # p => (proc'[q] = "daemon" <=> proc[q] = "daemon")
    BY <2>2
  <2>5. QED
    BY <1>0, <2>3, <2>4, PlaneLoses
<1>3. CASE Reuse(p) \/ Foreground(p)
  <2>1. /\ proc[p] = "none" /\ (proc'[p] = "other" \/ p \in unrecorded')
        /\ \A q \in Pids : q # p => /\ proc'[q] = proc[q]
                                    /\ (q \in unrecorded' <=> q \in unrecorded)
    BY <1>0, <1>3 DEF Reuse, Foreground
  <2>2. \A q \in Pids : Recorded(q)' <=> Recorded(q)
    <3>1. ~Recorded(p)' /\ ~Recorded(p)
      BY <2>1 DEF Recorded, Runs
    <3>2. \A q \in Pids : q # p => Recorded(q)' <=> Recorded(q)
      BY <2>1 DEF Recorded, Runs
    <3>3. QED
      BY <3>1, <3>2
  <2>3. \A q \in Pids : Recorded(q) => (proc'[q] = "daemon" <=> proc[q] = "daemon")
    BY <2>1 DEF Recorded, Runs
  <2>4. QED
    BY <1>0, <2>2, <2>3, PlaneRests
<1>4. QED
  BY <1>1, <1>2, <1>3 DEF Process

(* What a call does.                                                       *)
LEMMA PlaneCall ==
  ASSUME TypeOK, Control, OneDaemon, BindingsAreUnique, RegistryKnown, NEW c \in Callers,
         Open(c) \/ Close(c) \/ Fails(c) \/ DaemonCall(c) \/ RegistryCall(c)
  PROVE  [Plane!Next]_(Plane!vars)
<1>0. proc \in [Pids -> ProcStates]
  BY DEF TypeOK
<1>1. CASE UNCHANGED <<registry, procVars>>
  <2>1. \A p \in Pids : Recorded(p)' <=> Recorded(p)
    BY <1>1 DEF procVars, Recorded, Runs
  <2>2. QED
    BY <1>1, <2>1, PlaneRests DEF procVars
<1>2. ASSUME NEW p \in Pids, Spawn(c, p) PROVE [Plane!Next]_(Plane!vars)
  BY <1>2, PlaneStarts
<1>3. CASE Close(c) \/ WriteFails(c)
  <2>1. PICK lost : lost = IF Writing(c) THEN caller[c].pid ELSE None
    OBVIOUS
  <2>2. /\ UNCHANGED registry
        /\ \A p \in Pids :
             /\ proc'[p] = proc[p] \/ (proc[p] = "zombie" /\ proc'[p] = "none")
             /\ (p \in unrecorded' <=> p \in unrecorded \/ (p = lost /\ Runs(p)))
    BY <1>3, <2>1, NoneAssumption DEF Close, WriteFails, Writing, fileVars
  <2>3. \A p \in Pids : Recorded(p)' <=> (Recorded(p) /\ p # lost)
    BY <2>2 DEF Recorded, Runs
  <2>4. \A p \in Pids : p # lost => (proc'[p] = "daemon" <=> proc[p] = "daemon")
    BY <2>2
  <2>5. QED
    BY <2>2, <2>3, <2>4, PlaneLoses
<1>4. CASE Signal(c)
  <2>1. PICK p : p = caller[c].pid
    OBVIOUS
  <2>2. /\ UNCHANGED <<registry, unrecorded>>
        /\ \A q \in Pids : q # p => proc'[q] = proc[q]
        /\ p \in Pids => proc'[p] \in {"zombie", "dying"}
    BY <1>0, <1>4, <2>1 DEF Signal, Terminate, fileVars
  <2>3. \A q \in Pids : Recorded(q)' <=> (Recorded(q) /\ q # p)
    BY <2>2 DEF Recorded, Runs
  <2>4. \A q \in Pids : q # p => (proc'[q] = "daemon" <=> proc[q] = "daemon")
    BY <2>2
  <2>5. QED
    BY <2>2, <2>3, <2>4, PlaneLoses
<1>5. CASE Saves(c)
  <2>1. registry' = caller[c].reg /\ UNCHANGED procVars /\ caller[c].pc = "save"
    BY <1>5 DEF Saves
  <2>2. Change(registry, registry')
    BY <2>1 DEF RegistryKnown, Kept
  <2>3. UNCHANGED DaemonState
    BY <2>1 DEF DaemonState, procVars, Recorded, Runs
  <2>4. QED
    BY <2>2, <2>3, ChangeIsOne
<1>6. CASE Open(c) \/ Fails(c)
  BY <1>1, <1>6 DEF Open, Fails, fileVars
<1>7. CASE \/ StartChecks(c) \/ StartRefused(c) \/ Unreadable(c) \/ Truncate(c) \/ Write(c)
           \/ StopChecks(c) \/ RemoveFile(c) \/ RemoveFails(c)
  BY <1>1, <1>7 DEF StartChecks, StartRefused, Unreadable, Truncate, Write, StopChecks,
                    RemoveFile, RemoveFails, fileVars
<1>8. ASSUME RegistryCall(c), ~Saves(c) PROVE [Plane!Next]_(Plane!vars)
  BY <1>1, <1>8 DEF RegistryCall, BindLoads, RemoveLoads, RemoveAllLoads, SetResolves,
                    SetLoads, fileVars
<1>9. QED
  BY <1>2, <1>3, <1>4, <1>5, <1>6, <1>7, <1>8 DEF DaemonCall

(* If no two calls overlap, the calls and the processes behind the PID     *)
(* file implement the control plane, whatever dies, is killed or fails: a  *)
(* save is one bind or removal (registry.go:160-192), and a daemon is      *)
(* started only while none that start can know of runs                     *)
(* (daemonctl.go:86-93).                                                   *)
THEOREM CallsImplementPlane ==
  ASSUME Overlap = FALSE
  PROVE  Spec => ImplementsControlPlane
<1>1. Init => Plane!Init
  <2> SUFFICES ASSUME Init PROVE Plane!Init
    OBVIOUS
  <2>1. DaemonState = "none"
    BY DEF Init, DaemonState, Recorded, Runs
  <2>2. MapOf(registry) = [key \in {} |-> None]
    BY DEF Init, MapOf
  <2>3. QED
    BY <2>1, <2>2 DEF Plane!Init
<1>2. Spec => []OneDaemon
  BY DaemonIsControlled, PTL
<1>3. TypeOK /\ Control /\ OneDaemon /\ BindingsAreUnique /\ RegistryKnown /\ [Next]_vars
        => [Plane!Next]_(Plane!vars)
  <2> SUFFICES ASSUME TypeOK, Control, OneDaemon, BindingsAreUnique, RegistryKnown, [Next]_vars
               PROVE  [Plane!Next]_(Plane!vars)
    OBVIOUS
  <2>1. CASE UNCHANGED vars
    BY <2>1, PlaneRests DEF vars, fileVars, procVars, Recorded, Runs
  <2>2. CASE Next
    BY <2>2, PlaneProcess, PlaneCall DEF Next
  <2>3. QED
    BY <2>1, <2>2
<1>4. QED
  BY <1>1, <1>2, <1>3, ControlInv, KnownInv, BindingsStayUnique, PTL
     DEF Spec, ImplementsControlPlane, Plane!Spec
=============================================================================
