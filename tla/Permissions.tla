----------------------------- MODULE Permissions -----------------------------
(***************************************************************************)
(* The permission store (internal/permissions/store.go) and the processes  *)
(* that share its file: the daemon, which loads it once and keeps working  *)
(* on its own copy (internal/cli/daemon.go:90, 160-165, 207-212), and the  *)
(* CLI and MCP calls that load, change and save the file.                  *)
(*                                                                         *)
(* Abstracted: a permission definition (title, risk, delegation, tools) is *)
(* a member of Definitions, so that its hash is the definition itself; a   *)
(* grant is the set of definitions it approves, and no grant is {}.  One   *)
(* provider: every operation filters by provider first, so that the stores *)
(* of two providers do not touch.  The audit log is left out.              *)
(***************************************************************************)
EXTENDS Integers, FiniteSets

CONSTANTS Sessions,
          Ids, Wake,        \* permission ids; Wake is runtime.wake
          Definitions, Id,  \* definitions, and the id each one defines
          InteractiveOnly,  \* definitions the daemon may never be given
          LocalDef,         \* the definition AWP writes itself for an id
          Tools,            \* bound: CLI and MCP calls at one time
          Overlap,          \* may such a call straddle a save of the daemon?
          Budget,           \* bound: how many calls and failed saves
          None

Faults == {"saveError", "tool"}

ASSUME IdAssumption == Wake \in Ids /\ Id \in [Definitions -> Ids]
ASSUME InteractiveAssumption == InteractiveOnly \subseteq Definitions
ASSUME LocalDefAssumption ==
  /\ LocalDef \in [Ids -> Definitions \ InteractiveOnly]
  /\ \A i \in Ids : Id[LocalDef[i]] = i
ASSUME BudgetAssumption == Budget \in [Faults -> Nat]
ASSUME ModeAssumption == Overlap \in BOOLEAN /\ None \notin Sessions

VARIABLES
  disk,      \* permissions.json
  mem,       \* permissionState of the daemon
  up,        \* is the daemon running?
  tool,      \* CLI and MCP calls: what each one loaded
  left,      \* what is left of the Budget
  approved,  \* history: what the user ever approved, and in which grant
  given,     \* history: how often the user granted `once`, per session
  used,      \* history: wakes authorized by a `once` grant, per session
  revoked    \* history: what the user revoked and did not grant again

history == <<approved, given, used, revoked>>
vars == <<disk, mem, up, tool, left, history>>

-----------------------------------------------------------------------------
(* The store.                                                              *)

Scopes == {"once", "binding", "provider"}
Key(scope, s) == <<scope, IF scope = "provider" THEN None ELSE s>>
Keys == {Key(scope, s) : scope \in Scopes, s \in Sessions}
Applies(k, s) == k[1] = "provider" \/ k[2] = s

IdsOf(defs) == {Id[d] : d \in defs}

(* The requests that pass RecordRequest's validation: an id once, and a    *)
(* runtime.wake that can be delegated.                                     *)
Requests ==
  {r \in SUBSET Definitions :
     /\ Wake \in IdsOf(r)
     /\ \A c, d \in r : Id[c] = Id[d] => c = d
     /\ \A d \in r : Id[d] = Wake => d \notin InteractiveOnly}

AcceptAnything(r) == r # {}                        \* mutant of Acceptable
Acceptable(r) == r \in Requests

Stores == [requests : [Sessions -> {{}} \cup Requests],
           grants   : [Keys -> SUBSET Definitions]]
NewStore == [requests |-> [s \in Sessions |-> {}], grants |-> [k \in Keys |-> {}]]

RecordRequest(store, s, r) == [store EXCEPT !.requests[s] = r]

LocalRequest(ids) == {LocalDef[i] : i \in ids \cup {Wake}}
WithRequest(store, s, ids) ==
  IF store.requests[s] = {} THEN RecordRequest(store, s, LocalRequest(ids)) ELSE store

Chosen(store, s, ids) == {d \in store.requests[s] : Id[d] \in ids}

CanGrant(store, s, ids) ==
  /\ Wake \in ids /\ ids \subseteq IdsOf(store.requests[s])
  /\ Chosen(store, s, ids) \cap InteractiveOnly = {}

GrantPermissions(store, s, scope, ids) ==
  [store EXCEPT !.grants[Key(scope, s)] = Chosen(store, s, ids)]

(* Authorize takes the most specific grant there is, valid or not.         *)
SelectedScope(store, s) ==
  CASE store.grants[Key("once", s)] # {} -> "once"
    [] store.grants[Key("once", s)] = {} /\ store.grants[Key("binding", s)] # {} -> "binding"
    [] OTHER -> "provider"

Selected(store, s) == store.grants[Key(SelectedScope(store, s), s)]

(* Mutant of Granted: a permission is recognized by its id alone.          *)
GrantedById(store, s) == {d \in store.requests[s] : Id[d] \in IdsOf(Selected(store, s))}

(* Of that grant, what the request still asks for in the same words.       *)
Granted(store, s) == Selected(store, s) \cap store.requests[s]

Authorized(store, s) == Wake \in IdsOf(Granted(store, s))

KeepOnce(store, s) == store                        \* mutant of Consume
Consume(store, s) ==
  IF SelectedScope(store, s) = "once"
  THEN [store EXCEPT !.grants[Key("once", s)] = {}] ELSE store

(* Mutant of Revoke: the provider-wide grant survives.                     *)
RevokeOwn(store, s, scope, ids) ==
  [store EXCEPT !.grants = [k \in Keys |->
     IF scope \in {"any", k[1]} /\ k[2] = s
     THEN {d \in store.grants[k] : ids # {} /\ Id[d] \notin ids}
     ELSE store.grants[k]]]

(* No ids means all of them; no scope ("any") means every scope, the       *)
(* provider-wide grant included.                                           *)
Revoke(store, s, scope, ids) ==
  [store EXCEPT !.grants = [k \in Keys |->
     IF scope \in {"any", k[1]} /\ Applies(k, s)
     THEN {d \in store.grants[k] : ids # {} /\ Id[d] \notin ids}
     ELSE store.grants[k]]]

-----------------------------------------------------------------------------
(* The processes.                                                          *)

Free == [busy |-> FALSE, snap |-> NewStore]
Spend(fault) == left[fault] > 0 /\ left' = [left EXCEPT ![fault] = @ - 1]
Undisturbed == Overlap \/ \A t \in Tools : ~tool[t].busy

Init ==
  /\ disk = NewStore
  /\ mem = NewStore
  /\ up = FALSE
  /\ tool = [t \in Tools |-> Free]
  /\ left = Budget
  /\ approved = {}
  /\ given = [s \in Sessions |-> 0]
  /\ used = [s \in Sessions |-> 0]
  /\ revoked = {}

Start ==
  /\ ~up /\ up' = TRUE
  /\ mem' = disk
  /\ UNCHANGED <<disk, tool, left, history>>

Stop ==
  /\ up /\ up' = FALSE
  /\ mem' = NewStore
  /\ UNCHANGED <<disk, tool, left, history>>

(* The save of the daemon's copy: it may fail, and the copy has changed.   *)
SaveMem == disk' = mem' /\ UNCHANGED left
SaveMemFails == Spend("saveError") /\ UNCHANGED disk

(* permission.request on the daemon's connection; one that is not          *)
(* Acceptable changes nothing.                                             *)
DaemonReceives(s, r) ==
  /\ up /\ Acceptable(r) /\ Undisturbed
  /\ mem' = RecordRequest(mem, s, r)
  /\ SaveMem \/ SaveMemFails
  /\ UNCHANGED <<up, tool, history>>

(* Authorize and save, then the wake ...                                   *)
DaemonWakes(s) ==
  /\ up /\ Authorized(mem, s) /\ Undisturbed
  /\ mem' = Consume(mem, s)
  /\ SaveMem
  /\ used' = IF SelectedScope(mem, s) = "once" THEN [used EXCEPT ![s] = @ + 1] ELSE used
  /\ UNCHANGED <<up, tool, approved, given, revoked>>

(* ... or a delivery denied because the save failed.                       *)
DaemonDenies(s) ==
  /\ up /\ Authorized(mem, s)
  /\ mem' = Consume(mem, s)
  /\ SaveMemFails
  /\ UNCHANGED <<up, tool, history>>

(* A call loads the file; what it is about does not matter until it saves. *)
ToolLoads(t) ==
  /\ ~tool[t].busy
  /\ Overlap \/ \A u \in Tools : ~tool[u].busy
  /\ Spend("tool")
  /\ tool' = [tool EXCEPT ![t] = [busy |-> TRUE, snap |-> disk]]
  /\ UNCHANGED <<disk, mem, up, history>>

Ends(t) == tool[t].busy /\ tool' = [tool EXCEPT ![t] = Free]

(* A call that is refused, times out or finds nothing to change.           *)
ToolGivesUp(t) == Ends(t) /\ UNCHANGED <<disk, mem, up, left, history>>

(* permissions request, MCP request_permissions: the provider was asked on *)
(* a connection of its own between the load and the save.                  *)
ToolRequests(t, s, r) ==
  /\ Ends(t) /\ Acceptable(r)
  /\ disk' = RecordRequest(tool[t].snap, s, r)
  /\ UNCHANGED <<mem, up, left, history>>

(* permissions grant, MCP grant_permissions.                               *)
ToolGrants(t, s, scope, ids) ==
  LET store == WithRequest(tool[t].snap, s, ids)
  IN /\ Ends(t) /\ CanGrant(store, s, ids)
     /\ disk' = GrantPermissions(store, s, scope, ids)
     /\ approved' = approved \cup ({Key(scope, s)} \X Chosen(store, s, ids))
     /\ given' = IF scope = "once" THEN [given EXCEPT ![s] = @ + 1] ELSE given
     /\ revoked' = {x \in revoked :
                      ~(Applies(Key(scope, s), x.session) /\ x.id \in ids)}
     /\ UNCHANGED <<mem, up, left, used>>

(* permissions revoke: saved only if a grant changed.                      *)
ToolRevokes(t, s, scope, ids) ==
  LET after == Revoke(tool[t].snap, s, scope, ids)
  IN /\ Ends(t) /\ after # tool[t].snap
     /\ disk' = after
     /\ revoked' = revoked \cup
          {x \in [session : {s}, id : IF ids = {} THEN Ids ELSE ids, running : {up}] :
             scope = "any"}
     /\ UNCHANGED <<mem, up, left, approved, given, used>>

ToolStep(t) ==
  \/ ToolLoads(t) \/ ToolGivesUp(t)
  \/ \E s \in Sessions, r \in SUBSET Definitions : ToolRequests(t, s, r)
  \/ \E s \in Sessions, scope \in Scopes, ids \in SUBSET Ids : ToolGrants(t, s, scope, ids)
  \/ \E s \in Sessions, scope \in Scopes \cup {"any"}, ids \in SUBSET Ids :
       ToolRevokes(t, s, scope, ids)

DaemonStep(s) ==
  \/ \E r \in SUBSET Definitions : DaemonReceives(s, r)
  \/ DaemonWakes(s) \/ DaemonDenies(s)

Next ==
  \/ Start \/ Stop
  \/ \E s \in Sessions : DaemonStep(s)
  \/ \E t \in Tools : ToolStep(t)

Spec == Init /\ [][Next]_vars
-----------------------------------------------------------------------------
(* Properties.                                                             *)

(* The type invariant; every request on record passed the validation.      *)
TypeOK ==
  /\ disk \in Stores /\ mem \in Stores
  /\ up \in BOOLEAN
  /\ tool \in [Tools -> [busy : BOOLEAN, snap : Stores]]
  /\ left \in [Faults -> Nat]
  /\ approved \subseteq Keys \X Definitions
  /\ given \in [Sessions -> Nat] /\ used \in [Sessions -> Nat]
  /\ revoked \subseteq [session : Sessions, id : Ids, running : BOOLEAN]

(* A wake is given only permissions the user approved, for that session or *)
(* for the provider, in exactly the words the provider asks for now, and   *)
(* never an interactive-only one (PERMISSIONS.md:48-63) - whatever stale   *)
(* copies of the store overwrite each other.                               *)
WakesOnlyWithApproval ==
  [][\A s \in Sessions : DaemonWakes(s) =>
       \A d \in Granted(mem, s) :
         /\ d \notin InteractiveOnly
         /\ \E k \in Keys : Applies(k, s) /\ <<k, d>> \in approved]_vars

(* A `once` grant wakes a session once (PERMISSIONS.md:59), through failed *)
(* saves and restarts: it is saved as consumed before the runtime starts.  *)
OnceWakesOnce == \A s \in Sessions : used[s] <= given[s]

Unrevoked(s, running) ==
  \A d \in Granted(mem, s) :
    [session |-> s, id |-> Id[d], running |-> running] \notin revoked

(* What is revoked in every scope while no daemon runs is not used by a    *)
(* later wake, whichever of the scopes it was granted in.                  *)
RevokedWhileStopped ==
  [][\A s \in Sessions : DaemonWakes(s) => Unrevoked(s, FALSE)]_vars

(* `Revocation affects the next wake' (PERMISSIONS.md:159) - of a running  *)
(* daemon.                                                                 *)
RevocationAffectsNextWake ==
  [][\A s \in Sessions : DaemonWakes(s) => Unrevoked(s, TRUE)]_vars
=============================================================================
