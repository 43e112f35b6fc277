-------------------------------- MODULE Local --------------------------------
(***************************************************************************)
(* The local control plane: CLI calls and MCP servers that share two files *)
(* without a lock, the session registry (sessions.json) and the PID file   *)
(* of the background daemon (internal/daemonctl), and the processes that   *)
(* the PID file is about.                                                  *)
(*                                                                         *)
(* A caller is an awp process: a CLI command that makes one call and       *)
(* exits, or an MCP server that makes many.  It is the parent of the       *)
(* daemons it starts and never waits for them, so that a daemon that dies  *)
(* before it stays behind as a zombie.  Inside a call it moves through     *)
(*   spawn, truncate, write   Start after its check                        *)
(*   signal, remove           Stop after its check                         *)
(*   resolved                 set_awp after resolveSession                 *)
(*   save                     a changed registry, not yet saved            *)
(***************************************************************************)
EXTENDS Registry, Integers, FiniteSets

CONSTANTS Pids, Callers,
          Overlap,      \* may two calls be under way at one time?
          Budget        \* bound: how many calls, and faults of each kind

Faults == {"call", "dies", "killed", "writeError", "foreground", "reuse"}

ASSUME BudgetAssumption == Budget \in [Faults -> Nat]
ASSUME OverlapAssumption == Overlap \in BOOLEAN
ASSUME NoneAssumption ==
  None \notin Pids \cup Callers \cup Providers \cup SessionIds \cup {"missing", "torn"}
ASSUME PidsAssumption == {"missing", "torn"} \cap Pids = {}

VARIABLES
  registry,     \* sessions.json
  pidFile,      \* daemon.pid: a PID, "missing", or "torn" (there and empty)
  proc,         \* what runs under each PID
  parent,       \* the caller a process is a child of, or None
  caller,       \* the callers
  left,         \* what is left of the Budget
  unrecorded    \* history: daemons that never got into the PID file

fileVars == <<registry, pidFile>>
procVars == <<proc, parent, unrecorded>>
vars == <<fileVars, procVars, caller, left>>

ProcStates == {"none", "booting", "daemon", "dying", "zombie", "other"}
CallerSteps == {"gone", "ready", "spawn", "truncate", "write", "signal", "remove",
                "resolved", "save"}
NoAsk == [provider |-> None, session |-> None, workspace |-> None]
Fresh(pc) == [pc |-> pc, pid |-> None, reg |-> {}, key |-> None, ask |-> NoAsk]

Init ==
  /\ registry = {}
  /\ pidFile = "missing"
  /\ proc = [p \in Pids |-> "none"]
  /\ parent = [p \in Pids |-> None]
  /\ caller = [c \in Callers |-> Fresh("gone")]
  /\ left = Budget
  /\ unrecorded = {}

Spend(fault) == left[fault] > 0 /\ left' = [left EXCEPT ![fault] = @ - 1]
Goes(c, state) == caller' = [caller EXCEPT ![c] = state]
Runs(p) == proc[p] \in {"booting", "daemon"}

-----------------------------------------------------------------------------
(* Processes.                                                              *)

(* A process is over: its PID is free once its parent has waited for it,   *)
(* which init does for an orphan and a caller never does.                  *)
Ends(p) ==
  /\ proc' = [proc EXCEPT ![p] = IF parent[p] = None THEN "none" ELSE "zombie"]
  /\ unrecorded' = unrecorded \ {p}
  /\ UNCHANGED parent

(* The daemon starts to work if there is anything bound (daemon.go:83) ... *)
Boot(p) ==
  /\ proc[p] = "booting" /\ registry # {}
  /\ proc' = [proc EXCEPT ![p] = "daemon"]
  /\ UNCHANGED <<fileVars, parent, unrecorded, caller, left>>

(* ... and exits if not.                                                   *)
BootFails(p) ==
  /\ proc[p] = "booting" /\ registry = {}
  /\ Ends(p)
  /\ UNCHANGED <<fileVars, caller, left>>

(* A crash, or any other start-up check.                                   *)
Dies(p) ==
  /\ Runs(p) /\ Spend("dies")
  /\ Ends(p)
  /\ UNCHANGED <<fileVars, caller>>

(* A process that got its SIGTERM, or has nothing to do with AWP.          *)
Exits(p) ==
  /\ proc[p] \in {"dying", "other"}
  /\ Ends(p)
  /\ UNCHANGED <<fileVars, caller, left>>

(* A free PID goes to a process that has nothing to do with AWP.           *)
Reuse(p) ==
  /\ proc[p] = "none" /\ Spend("reuse")
  /\ proc' = [proc EXCEPT ![p] = "other"]
  /\ UNCHANGED <<fileVars, parent, unrecorded, caller>>

(* `awp daemon` in a terminal or under launchd writes no PID file.         *)
Foreground(p) ==
  /\ proc[p] = "none" /\ Spend("foreground")
  /\ proc' = [proc EXCEPT ![p] = "booting"]
  /\ unrecorded' = unrecorded \cup {p}
  /\ UNCHANGED <<fileVars, parent, caller>>

Process(p) ==
  \/ Boot(p) \/ BootFails(p) \/ Dies(p) \/ Exits(p) \/ Reuse(p) \/ Foreground(p)

-----------------------------------------------------------------------------
(* Callers.                                                                *)

Open(c) ==
  /\ caller[c].pc = "gone"
  /\ Goes(c, Fresh("ready"))
  /\ UNCHANGED <<fileVars, procVars, left>>

(* A caller exits after its last call, or is killed in the middle of one:  *)
(* its children are adopted and its zombies reaped.                        *)
Close(c) ==
  /\ \/ caller[c].pc = "ready" /\ UNCHANGED left
     \/ caller[c].pc \notin {"gone", "ready"} /\ Spend("killed")
  /\ Goes(c, Fresh("gone"))
  /\ parent' = [p \in Pids |-> IF parent[p] = c THEN None ELSE parent[p]]
  /\ proc' = [p \in Pids |->
                IF parent[p] = c /\ proc[p] = "zombie" THEN "none" ELSE proc[p]]
  /\ unrecorded' = unrecorded \cup
       {p \in Pids : caller[c].pc \in {"truncate", "write"} /\ p = caller[c].pid /\ Runs(p)}
  /\ UNCHANGED fileVars

Begins(c) ==
  /\ caller[c].pc = "ready" /\ Spend("call")
  /\ Overlap \/ \A d \in Callers : caller[d].pc \in {"gone", "ready"}

(* Signal 0 reaches whatever process has the PID, a zombie included.       *)
NeverAlive(p) == FALSE                                \* mutant of Alive
Alive(p) == p \in Pids /\ proc[p] # "none"

(* Start: the check ...                                                    *)
StartChecks(c) ==
  /\ Begins(c) /\ pidFile # "torn" /\ ~Alive(pidFile)
  /\ Goes(c, Fresh("spawn"))
  /\ UNCHANGED <<fileVars, procVars>>

StartRefused(c) ==
  /\ Begins(c) /\ Alive(pidFile)
  /\ UNCHANGED <<fileVars, procVars, caller>>

(* ... an empty PID file is an error, for Stop and Status as well ...      *)
Unreadable(c) ==
  /\ Begins(c) /\ pidFile = "torn"
  /\ UNCHANGED <<fileVars, procVars, caller>>

(* ... the daemon ...                                                      *)
Spawn(c, p) ==
  /\ caller[c].pc = "spawn" /\ proc[p] = "none"
  /\ proc' = [proc EXCEPT ![p] = "booting"]
  /\ parent' = [parent EXCEPT ![p] = c]
  /\ Goes(c, [Fresh("truncate") EXCEPT !.pid = p])
  /\ UNCHANGED <<fileVars, unrecorded, left>>

(* ... and os.WriteFile, which empties the file before it writes.          *)
Truncate(c) ==
  /\ caller[c].pc = "truncate"
  /\ pidFile' = "torn"
  /\ Goes(c, [caller[c] EXCEPT !.pc = "write"])
  /\ UNCHANGED <<registry, procVars, left>>

Write(c) ==
  /\ caller[c].pc = "write"
  /\ pidFile' = caller[c].pid
  /\ Goes(c, Fresh("ready"))
  /\ UNCHANGED <<registry, procVars, left>>

(* Either step may fail; the daemon runs on without a PID file.            *)
WriteFails(c) ==
  /\ caller[c].pc \in {"truncate", "write"} /\ Spend("writeError")
  /\ Goes(c, Fresh("ready"))
  /\ unrecorded' = unrecorded \cup {p \in Pids : p = caller[c].pid /\ Runs(p)}
  /\ UNCHANGED <<fileVars, proc, parent>>

(* Mutant of StopChecks: the outcome of the check is not looked at.        *)
StopBlindly(c) ==
  /\ Begins(c) /\ pidFile # "torn"
  /\ Goes(c, [Fresh("signal") EXCEPT !.pid = pidFile])
  /\ UNCHANGED <<fileVars, procVars>>

(* Stop: the check, SIGTERM, and the PID file goes.                        *)
StopChecks(c) ==
  /\ Begins(c) /\ pidFile # "torn"
  /\ Goes(c, IF Alive(pidFile) THEN [Fresh("signal") EXCEPT !.pid = pidFile] ELSE Fresh("remove"))
  /\ UNCHANGED <<fileVars, procVars>>

SignalNothing(p) == UNCHANGED proc                    \* mutant of Terminate
Terminate(p) == proc' = [proc EXCEPT ![p] = IF @ = "zombie" THEN @ ELSE "dying"]

Signal(c) ==
  /\ caller[c].pc = "signal" /\ proc[caller[c].pid] # "none"
  /\ Terminate(caller[c].pid)
  /\ Goes(c, Fresh("remove"))
  /\ UNCHANGED <<fileVars, parent, unrecorded, left>>

RemoveFile(c) ==
  /\ caller[c].pc = "remove"
  /\ pidFile' = "missing"
  /\ Goes(c, Fresh("ready"))
  /\ UNCHANGED <<registry, procVars, left>>

(* An error of os.Remove is not looked at.                                 *)
RemoveFails(c) ==
  /\ caller[c].pc = "remove" /\ Spend("writeError")
  /\ Goes(c, Fresh("ready"))
  /\ UNCHANGED <<fileVars, procVars>>

(* sessions bind, and set_awp with both ids given.                         *)
BindLoads(c, b) ==
  /\ Begins(c)
  /\ Goes(c, [Fresh("save") EXCEPT !.reg = Bind(registry, b), !.key = b.key])
  /\ UNCHANGED <<fileVars, procVars>>

(* sessions remove; nothing to remove, nothing to save.                    *)
RemoveLoads(c, key) ==
  /\ Begins(c) /\ Bound(registry, key)
  /\ Goes(c, [Fresh("save") EXCEPT !.reg = Remove(registry, key), !.key = key])
  /\ UNCHANGED <<fileVars, procVars>>

RemoveAllLoads(c, provider) ==
  /\ Begins(c) /\ RemoveAll(registry, provider) # registry
  /\ Goes(c, [Fresh("save") EXCEPT !.reg = RemoveAll(registry, provider)])
  /\ UNCHANGED <<fileVars, procVars>>

(* set_awp with an id left out: resolveSession loads the registry, ...     *)
SetResolves(c, ask) ==
  /\ Begins(c) /\ None \in {ask.provider, ask.session}
  /\ \E b \in registry :
       /\ Candidates(registry, ask) = {b}
       /\ Goes(c, [Fresh("resolved") EXCEPT !.key = b.key, !.ask = ask])
  /\ UNCHANGED <<fileVars, procVars>>

(* ... and set_awp loads it once more.                                     *)
SetLoads(c, workspace) ==
  /\ caller[c].pc = "resolved"
  /\ LET b == [key |-> caller[c].key, workspace |-> workspace]
     IN Goes(c, [caller[c] EXCEPT !.pc = "save", !.reg = Bind(registry, b)])
  /\ UNCHANGED <<fileVars, procVars, left>>

Saves(c) ==
  /\ caller[c].pc = "save"
  /\ registry' = caller[c].reg
  /\ Goes(c, Fresh("ready"))
  /\ UNCHANGED <<pidFile, procVars, left>>

(* An error anywhere else ends the call: no log file, no process, a signal *)
(* that finds nobody, a registry that cannot be loaded or saved.           *)
Fails(c) ==
  /\ \/ caller[c].pc \in {"spawn", "resolved", "save"}
     \/ caller[c].pc = "signal" /\ proc[caller[c].pid] = "none"
  /\ Goes(c, Fresh("ready"))
  /\ UNCHANGED <<fileVars, procVars, left>>

DaemonCall(c) ==
  \/ StartChecks(c) \/ StartRefused(c) \/ Unreadable(c)
  \/ \E p \in Pids : Spawn(c, p)
  \/ Truncate(c) \/ Write(c) \/ WriteFails(c)
  \/ StopChecks(c) \/ Signal(c) \/ RemoveFile(c) \/ RemoveFails(c)

RegistryCall(c) ==
  \/ \E b \in Bindings : BindLoads(c, b)
  \/ \E key \in Keys : RemoveLoads(c, key)
  \/ \E provider \in Providers \cup {None} : RemoveAllLoads(c, provider)
  \/ \E ask \in Asks : SetResolves(c, ask)
  \/ \E workspace \in Workspaces : SetLoads(c, workspace)
  \/ Saves(c)

Next ==
  \/ \E p \in Pids : Process(p)
  \/ \E c \in Callers :
       Open(c) \/ Close(c) \/ Fails(c) \/ DaemonCall(c) \/ RegistryCall(c)

Spec == Init /\ [][Next]_vars
-----------------------------------------------------------------------------
(* Properties.                                                             *)

CallerStates ==
  [pc : CallerSteps, pid : Pids \cup {None}, reg : SUBSET Bindings,
   key : Keys \cup {None}, ask : Asks \cup {NoAsk}]

(* A call that goes on to use what it found has found it.                  *)
CallerTypes ==
  /\ caller \in [Callers -> CallerStates]
  /\ \A c \in Callers :
       /\ caller[c].pc \in {"truncate", "write", "signal"} => caller[c].pid \in Pids
       /\ caller[c].pc = "resolved" => caller[c].key \in Keys

(* The type invariant: files, processes, callers and budget.               *)
TypeOK ==
  /\ registry \subseteq Bindings /\ pidFile \in Pids \cup {"missing", "torn"}
  /\ proc \in [Pids -> ProcStates] /\ parent \in [Pids -> Callers \cup {None}]
  /\ CallerTypes
  /\ left \in [Faults -> Nat] /\ unrecorded \subseteq Pids

Recorded(p) == Runs(p) /\ p \notin unrecorded
Writing(c) == caller[c].pc \in {"truncate", "write"}

(* Two daemons on the same files could race on a delivery, so that there   *)
(* is one at most (daemonctl.go:81-85): of those that Start could record.  *)
OneDaemon == \A p, q \in Pids : Recorded(p) /\ Recorded(q) => p = q

(* A daemon that runs can be stopped: its PID is in the file unless a call *)
(* is about to write it there (daemonctl.go:83, 114-116).                  *)
DaemonIsOnFile ==
  \A p \in Pids : Recorded(p) =>
    pidFile = p \/ \E c \in Callers : Writing(c) /\ caller[c].pid = p

(* The inductive form of OneDaemon and DaemonIsOnFile.  One call is under  *)
(* way at a time; if a daemon is recorded, the call was not going to spawn *)
(* another or to remove the file, and the PID it holds is that daemon's.   *)
Busy(c) == caller[c].pc \notin {"gone", "ready"}
Exclusive == \A c, d \in Callers : Busy(c) /\ Busy(d) => c = d
Fits(state, p) ==
  /\ state.pc \notin {"spawn", "remove"}
  /\ state.pc \in {"truncate", "write", "signal"} => state.pid = p
Control ==
  /\ Exclusive
  /\ \A p \in Pids : Recorded(p) =>
       /\ \A c \in Callers : Fits(caller[c], p)
       /\ pidFile = p \/ \E c \in Callers : Writing(c)

(* A file left behind by a daemon that died is not taken for a running     *)
(* daemon (daemonctl.go:47-49).                                            *)
StaleFileIsNotRunning ==
  [][\A c \in Callers : StartRefused(c) => proc[pidFile] \in {"booting", "daemon", "dying"}]_vars

(* Routing is by provider and session: no call can leave two bindings of   *)
(* one session, in the file or about to be saved (registry.go:160-173),    *)
(* whatever calls overwrite each other.                                    *)
Unique(reg) == \A a, b \in reg : a.key = b.key => a = b
BindingsAreUnique == Unique(registry) /\ \A c \in Callers : Unique(caller[c].reg)

(* An update that leaves an id out changes the binding of the workspace    *)
(* it runs in, and never another or a new one (server.go:370-374, 499-503).*)
UpdatesOwnBinding ==
  [][\A c \in Callers : Saves(c) /\ caller[c].ask # NoAsk =>
       [key |-> caller[c].key, workspace |-> caller[c].ask.workspace] \in registry]_vars

(* A save changes the binding the call is about and keeps the others.      *)
SaveKeepsOthers ==
  [][\A c \in Callers : Saves(c) /\ caller[c].key # None =>
       \A b \in registry : b.key # caller[c].key => b \in registry']_vars

(* What the registry and the processes are to ControlPlane.                *)
MapOf(reg) ==
  [key \in {b.key : b \in reg} |-> (CHOOSE b \in reg : b.key = key).workspace]
DaemonState ==
  IF \A p \in Pids : ~Recorded(p) THEN "none"
  ELSE IF \E p \in Pids : Recorded(p) /\ proc[p] = "daemon" THEN "working" ELSE "booting"
Plane == INSTANCE ControlPlane WITH bound <- MapOf(registry), daemon <- DaemonState

(* Together the calls keep the promise of ControlPlane: each save is one   *)
(* bind or removal on the map that sessions.json stands for, and a daemon  *)
(* is started only while none that start can know of runs (registry.go:    *)
(* 160-192, daemonctl.go:86-93, daemon.go:83).                             *)
ImplementsControlPlane == Plane!Spec
=============================================================================
