-------------------------- MODULE PermissionsProofs --------------------------
(***************************************************************************)
(* Theorems about Permissions, for every set of sessions, permissions and  *)
(* definitions, any number of concurrent calls and any budget.             *)
(***************************************************************************)
EXTENDS Permissions, TLAPS

(* The operations of the store, as they keep its type and as far as they   *)
(* touch the grants.                                                       *)
LEMMA KeyType ==
  /\ \A scope \in Scopes, s \in Sessions : Key(scope, s) \in Keys
  /\ \A s \in Sessions : Applies(Key("once", s), s) /\ Applies(Key("binding", s), s)
                         /\ Applies(Key("provider", s), s)
BY DEF Keys, Key, Applies, Scopes

(* A file that does not exist yet is an empty store.                       *)
LEMMA NewStoreType == NewStore \in Stores
BY DEF NewStore, Stores

(* Recording a request keeps the store well formed and every grant.        *)
LEMMA RecordRequestType ==
  ASSUME NEW store \in Stores, NEW s \in Sessions, NEW r \in Requests
  PROVE  /\ RecordRequest(store, s, r) \in Stores
         /\ RecordRequest(store, s, r).grants = store.grants
BY DEF RecordRequest, Stores

(* The request AWP writes itself passes its own validation.                *)
LEMMA LocalRequestType ==
  ASSUME NEW ids \in SUBSET Ids
  PROVE  LocalRequest(ids) \in Requests
BY IdAssumption, LocalDefAssumption DEF LocalRequest, Requests, IdsOf

(* So does a request that AWP adds by itself.                              *)
LEMMA WithRequestType ==
  ASSUME NEW store \in Stores, NEW s \in Sessions, NEW ids \in SUBSET Ids
  PROVE  /\ WithRequest(store, s, ids) \in Stores
         /\ WithRequest(store, s, ids).grants = store.grants
BY RecordRequestType, LocalRequestType DEF WithRequest

(* A grant can only choose definitions.                                    *)
LEMMA ChosenType ==
  ASSUME NEW store \in Stores, NEW s \in Sessions, NEW ids
  PROVE  Chosen(store, s, ids) \subseteq Definitions
BY DEF Chosen, Stores, Requests

(* A grant changes its own entry and no other.                             *)
LEMMA GrantType ==
  ASSUME NEW store \in Stores, NEW s \in Sessions, NEW scope \in Scopes, NEW ids
  PROVE  /\ GrantPermissions(store, s, scope, ids) \in Stores
         /\ \A k \in Keys : GrantPermissions(store, s, scope, ids).grants[k] =
              IF k = Key(scope, s) THEN Chosen(store, s, ids) ELSE store.grants[k]
BY ChosenType, KeyType DEF GrantPermissions, Stores

(* Authorize looks for a grant in one of the scopes.                       *)
LEMMA SelectedScopeType == \A store, s : SelectedScope(store, s) \in Scopes
BY DEF SelectedScope, Scopes

(* An authorized wake adds nothing to any grant.                           *)
LEMMA ConsumeType ==
  ASSUME NEW store \in Stores, NEW s \in Sessions
  PROVE  /\ Consume(store, s) \in Stores
         /\ \A k \in Keys : Consume(store, s).grants[k] \subseteq store.grants[k]
BY KeyType DEF Consume, Stores, Scopes

(* Nor does a revoke.                                                      *)
LEMMA RevokeType ==
  ASSUME NEW store \in Stores, NEW s \in Sessions, NEW scope, NEW ids
  PROVE  /\ Revoke(store, s, scope, ids) \in Stores
         /\ \A k \in Keys : Revoke(store, s, scope, ids).grants[k] \subseteq store.grants[k]
BY DEF Revoke, Stores

(* What a call that saves leaves on disk has the type of a store.          *)
LEMMA FreeType == Free \in [busy : BOOLEAN, snap : Stores]
BY NewStoreType DEF Free

(* A call that ends had a store loaded, and the others go on.              *)
LEMMA EndsType ==
  ASSUME TypeOK, NEW t \in Tools, Ends(t)
  PROVE  /\ tool' \in [Tools -> [busy : BOOLEAN, snap : Stores]]
         /\ tool[t].snap \in Stores
         /\ \A u \in Tools : tool'[u] = IF u = t THEN Free ELSE tool[u]
BY FreeType DEF TypeOK, Ends

(* A fault that is spent leaves a budget.                                  *)
LEMMA SpendType ==
  ASSUME left \in [Faults -> Nat], NEW fault \in Faults, Spend(fault)
  PROVE  left' \in [Faults -> Nat]
BY DEF Spend
-----------------------------------------------------------------------------
(* One lemma per process: its steps keep the type.                         *)

(* The initial state has its type.                                         *)
LEMMA InitType == ASSUME Init PROVE TypeOK
<1>1. tool \in [Tools -> [busy : BOOLEAN, snap : Stores]]
  BY FreeType DEF Init
<1>2. given \in [Sessions -> Nat] /\ used \in [Sessions -> Nat]
  BY DEF Init
<1>3. QED
  BY <1>1, <1>2, NewStoreType, BudgetAssumption DEF Init, TypeOK

(* The steps of the daemon keep the type.                                  *)
LEMMA DaemonType ==
  ASSUME TypeOK, NEW s \in Sessions, Start \/ Stop \/ DaemonStep(s)
  PROVE  TypeOK'
<1> USE DEF TypeOK
<1>1. CASE Start
  BY <1>1 DEF Start, history
<1>2. CASE Stop
  BY <1>2, NewStoreType DEF Stop, history
<1>3. ASSUME SaveMem \/ SaveMemFails, mem' \in Stores
      PROVE  disk' \in Stores /\ left' \in [Faults -> Nat]
  <2>1. CASE SaveMem
    BY <1>3, <2>1 DEF SaveMem
  <2>2. CASE SaveMemFails
    BY <2>2, SpendType DEF SaveMemFails, Faults
  <2>3. QED
    BY <1>3, <2>1, <2>2
<1>4. ASSUME NEW r \in SUBSET Definitions, DaemonReceives(s, r)
      PROVE  TypeOK'
  <2>1. mem' \in Stores
    BY <1>4, RecordRequestType DEF DaemonReceives, Acceptable
  <2>2. QED
    BY <1>3, <1>4, <2>1 DEF DaemonReceives, history
<1>5. CASE DaemonWakes(s)
  <2>1. mem' \in Stores
    BY <1>5, ConsumeType DEF DaemonWakes
  <2>2. used' \in [Sessions -> Nat]
    BY <1>5 DEF DaemonWakes
  <2>3. QED
    BY <1>3, <1>5, <2>1, <2>2 DEF DaemonWakes
<1>6. CASE DaemonDenies(s)
  <2>1. mem' \in Stores
    BY <1>6, ConsumeType DEF DaemonDenies
  <2>2. QED
    BY <1>3, <1>6, <2>1 DEF DaemonDenies, history
<1>7. QED
  BY <1>1, <1>2, <1>4, <1>5, <1>6 DEF DaemonStep

(* The steps of a call keep the type.                                      *)
LEMMA ToolType ==
  ASSUME TypeOK, NEW t \in Tools, ToolStep(t)
  PROVE  TypeOK'
<1> USE DEF TypeOK
<1>1. CASE ToolLoads(t)
  <2>1. [busy |-> TRUE, snap |-> disk] \in [busy : BOOLEAN, snap : Stores]
    OBVIOUS
  <2>2. tool' \in [Tools -> [busy : BOOLEAN, snap : Stores]]
    BY <1>1, <2>1 DEF ToolLoads
  <2>3. left' \in [Faults -> Nat]
    BY <1>1, SpendType DEF ToolLoads, Faults
  <2>4. QED
    BY <1>1, <2>2, <2>3 DEF ToolLoads, history
<1>2. CASE ToolGivesUp(t)
  BY <1>2, EndsType DEF ToolGivesUp, history
<1>3. ASSUME NEW s \in Sessions, NEW r \in SUBSET Definitions, ToolRequests(t, s, r)
      PROVE  TypeOK'
  <2>1. disk' \in Stores
    BY <1>3, EndsType, RecordRequestType DEF ToolRequests, Acceptable
  <2>2. QED
    BY <1>3, <2>1, EndsType DEF ToolRequests, history
<1>4. ASSUME NEW s \in Sessions, NEW scope \in Scopes, NEW ids \in SUBSET Ids,
             ToolGrants(t, s, scope, ids)
      PROVE  TypeOK'
  <2> DEFINE store == WithRequest(tool[t].snap, s, ids)
  <2>1. store \in Stores
    BY <1>4, EndsType, WithRequestType DEF ToolGrants
  <2>2. disk' \in Stores
    BY <1>4, <2>1, GrantType DEF ToolGrants
  <2>3. approved' \subseteq Keys \X Definitions
    BY <1>4, <2>1, ChosenType, KeyType DEF ToolGrants
  <2>4. given' \in [Sessions -> Nat]
    BY <1>4 DEF ToolGrants
  <2>5. revoked' \subseteq [session : Sessions, id : Ids, running : BOOLEAN]
    BY <1>4 DEF ToolGrants
  <2>6. tool' \in [Tools -> [busy : BOOLEAN, snap : Stores]]
    BY <1>4, EndsType DEF ToolGrants
  <2>7. QED
    BY <1>4, <2>2, <2>3, <2>4, <2>5, <2>6 DEF ToolGrants
<1>5. ASSUME NEW s \in Sessions, NEW scope \in Scopes \cup {"any"},
             NEW ids \in SUBSET Ids, ToolRevokes(t, s, scope, ids)
      PROVE  TypeOK'
  <2>1. disk' \in Stores
    BY <1>5, EndsType, RevokeType DEF ToolRevokes
  <2>2. [session : {s}, id : IF ids = {} THEN Ids ELSE ids, running : {up}]
           \subseteq [session : Sessions, id : Ids, running : BOOLEAN]
    OBVIOUS
  <2>3. revoked' \subseteq [session : Sessions, id : Ids, running : BOOLEAN]
    BY <1>5, <2>2 DEF ToolRevokes
  <2>4. tool' \in [Tools -> [busy : BOOLEAN, snap : Stores]]
    BY <1>5, EndsType DEF ToolRevokes
  <2>5. QED
    BY <1>5, <2>1, <2>3, <2>4 DEF ToolRevokes
<1>6. QED
  BY <1>1, <1>2, <1>3, <1>4, <1>5 DEF ToolStep

(* Every step keeps the type.                                              *)
LEMMA NextType ==
  ASSUME TypeOK, [Next]_vars
  PROVE  TypeOK'
<1>1. CASE UNCHANGED vars
  BY <1>1 DEF TypeOK, vars, history
<1>2. CASE Start \/ Stop
  BY <1>2, NewStoreType DEF Start, Stop, TypeOK, history
<1>3. QED
  BY <1>1, <1>2, DaemonType, ToolType DEF Next

(* The permission store and all copies of it stay well formed: a request   *)
(* that is on record has passed RecordRequest's validation.                *)
THEOREM StoreTypeCorrect == Spec => []TypeOK
<1>1. Init => TypeOK
  BY InitType
<1>2. TypeOK /\ [Next]_vars => TypeOK'
  BY NextType
<1>3. QED
  BY <1>1, <1>2, PTL DEF Spec
-----------------------------------------------------------------------------
(* Approval.  Every copy of the store - the file, the daemon's, the one a  *)
(* call loaded - holds only grants the user made, so that it does not      *)
(* matter which of them overwrites which.                                  *)
Approved(store) ==
  \A k \in Keys : \A d \in store.grants[k] :
    <<k, d>> \in approved /\ d \notin InteractiveOnly

Approvals ==
  /\ Approved(disk) /\ Approved(mem)
  /\ \A t \in Tools : Approved(tool[t].snap)

(* An empty store holds nothing that was not approved.                     *)
LEMMA NewStoreApproved == Approved(NewStore)
BY DEF Approved, NewStore

(* Nothing is granted in the beginning.                                    *)
LEMMA InitApprovals == ASSUME Init PROVE Approvals
BY NewStoreApproved DEF Init, Approvals, Free

(* A step of the daemon: its copy gets no new grant, the file gets its     *)
(* copy or keeps its own.                                                  *)
LEMMA DaemonApprovals ==
  ASSUME TypeOK, Approvals, NEW s \in Sessions, DaemonStep(s)
  PROVE  Approvals'
<1>1. UNCHANGED <<approved, tool>> /\ (disk' = mem' \/ disk' = disk)
  BY DEF DaemonStep, DaemonReceives, DaemonWakes, DaemonDenies, SaveMem,
         SaveMemFails, history
<1>2. \A k \in Keys : mem'.grants[k] \subseteq mem.grants[k]
  <2>1. ASSUME NEW r \in SUBSET Definitions, DaemonReceives(s, r)
        PROVE  mem'.grants = mem.grants
    BY <2>1, RecordRequestType DEF DaemonReceives, Acceptable, TypeOK
  <2>2. CASE DaemonWakes(s) \/ DaemonDenies(s)
    BY <2>2, ConsumeType DEF DaemonWakes, DaemonDenies, TypeOK
  <2>3. QED
    BY <2>1, <2>2 DEF DaemonStep
<1>3. Approved(mem)'
  BY <1>1, <1>2 DEF Approvals, Approved
<1>4. Approved(disk)'
  BY <1>1, <1>3 DEF Approvals, Approved
<1>5. QED
  BY <1>1, <1>3, <1>4 DEF Approvals, Approved

(* A call that ends: it is enough that what it saved is approved.          *)
LEMMA EndsApprovals ==
  ASSUME TypeOK, Approvals, NEW t \in Tools, Ends(t), mem' = mem,
         approved \subseteq approved', Approved(disk)'
  PROVE  Approvals'
<1>1. Approved(mem)'
  BY DEF Approvals, Approved
<1>2. ASSUME NEW u \in Tools PROVE Approved(tool[u].snap)'
  <2>1. CASE u = t
    <3>1. tool'[u].snap = NewStore
      BY <2>1, EndsType DEF Free
    <3>2. \A k \in Keys : NewStore.grants[k] = {}
      BY DEF NewStore
    <3>3. QED
      BY <3>1, <3>2 DEF Approved
  <2>2. CASE u # t
    BY <2>2, EndsType DEF Approvals, Approved
  <2>3. QED
    BY <2>1, <2>2
<1>3. QED
  BY <1>1, <1>2 DEF Approvals

(* A call writes what it loaded, less what it revokes, or what it          *)
(* approves.                                                               *)
LEMMA ToolApprovals ==
  ASSUME TypeOK, Approvals, NEW t \in Tools, ToolStep(t)
  PROVE  Approvals'
<1>1. CASE ToolLoads(t)
  <2>1. UNCHANGED <<disk, mem, approved>>
    BY <1>1 DEF ToolLoads, history
  <2>2. \A u \in Tools : tool'[u].snap = disk \/ tool'[u].snap = tool[u].snap
    BY <1>1 DEF ToolLoads, TypeOK
  <2>3. QED
    BY <2>1, <2>2 DEF Approvals, Approved
<1>2. CASE ToolGivesUp(t)
  <2>1. Ends(t) /\ UNCHANGED <<disk, mem, approved>>
    BY <1>2 DEF ToolGivesUp, history
  <2>2. Approved(disk)'
    BY <2>1 DEF Approvals, Approved
  <2>3. QED
    BY <2>1, <2>2, EndsApprovals
<1>3. ASSUME NEW s \in Sessions, NEW r \in SUBSET Definitions, ToolRequests(t, s, r)
      PROVE  Approvals'
  <2>1. Ends(t) /\ UNCHANGED <<mem, approved>>
    BY <1>3 DEF ToolRequests, history
  <2>2. disk'.grants = tool[t].snap.grants
    BY <1>3, EndsType, RecordRequestType DEF ToolRequests, Acceptable
  <2>3. Approved(disk)'
    BY <2>1, <2>2 DEF Approvals, Approved
  <2>4. QED
    BY <2>1, <2>3, EndsApprovals
<1>4. ASSUME NEW s \in Sessions, NEW scope \in Scopes, NEW ids \in SUBSET Ids,
             ToolGrants(t, s, scope, ids)
      PROVE  Approvals'
  <2> DEFINE store == WithRequest(tool[t].snap, s, ids)
             chosen == Chosen(store, s, ids)
  <2>1. Ends(t) /\ mem' = mem /\ approved' = approved \cup ({Key(scope, s)} \X chosen)
    BY <1>4 DEF ToolGrants
  <2>2. tool[t].snap \in Stores
    BY <2>1, EndsType
  <2>3. store \in Stores /\ store.grants = tool[t].snap.grants
    BY <2>2, WithRequestType
  <2>4. chosen \cap InteractiveOnly = {}
    BY <1>4 DEF ToolGrants, CanGrant
  <2>5. \A k \in Keys : disk'.grants[k] =
          IF k = Key(scope, s) THEN chosen ELSE store.grants[k]
    BY <1>4, <2>3, GrantType DEF ToolGrants
  <2>6. ASSUME NEW k \in Keys, NEW d \in disk'.grants[k]
        PROVE  <<k, d>> \in approved' /\ d \notin InteractiveOnly
    <3>1. CASE k = Key(scope, s)
      BY <2>1, <2>4, <2>5, <2>6, <3>1
    <3>2. CASE k # Key(scope, s)
      <4>1. d \in tool[t].snap.grants[k]
        BY <2>3, <2>5, <2>6, <3>2
      <4>2. <<k, d>> \in approved /\ d \notin InteractiveOnly
        BY <4>1 DEF Approvals, Approved
      <4>3. QED
        BY <2>1, <4>2
    <3>3. QED
      BY <3>1, <3>2
  <2>7. Approved(disk)'
    BY <2>6 DEF Approved
  <2>8. QED
    BY <2>1, <2>7, EndsApprovals
<1>5. ASSUME NEW s \in Sessions, NEW scope \in Scopes \cup {"any"},
             NEW ids \in SUBSET Ids, ToolRevokes(t, s, scope, ids)
      PROVE  Approvals'
  <2>1. Ends(t) /\ UNCHANGED <<mem, approved>>
    BY <1>5 DEF ToolRevokes
  <2>2. \A k \in Keys : disk'.grants[k] \subseteq tool[t].snap.grants[k]
    BY <1>5, EndsType, RevokeType DEF ToolRevokes
  <2>3. Approved(disk)'
    BY <2>1, <2>2 DEF Approvals, Approved
  <2>4. QED
    BY <2>1, <2>3, EndsApprovals
<1>6. QED
  BY <1>1, <1>2, <1>3, <1>4, <1>5 DEF ToolStep

(* Every step keeps each copy of the store approved.                       *)
LEMMA NextApprovals ==
  ASSUME TypeOK, Approvals, [Next]_vars
  PROVE  Approvals'
<1>1. CASE UNCHANGED vars
  BY <1>1 DEF Approvals, Approved, vars, history
<1>2. CASE Start
  BY <1>2 DEF Start, Approvals, Approved, history
<1>3. CASE Stop
  <2>1. UNCHANGED <<disk, tool, approved>> /\ mem' = NewStore
    BY <1>3 DEF Stop, history
  <2>2. QED
    BY <2>1, NewStoreApproved DEF Approvals, Approved, NewStore
<1>4. QED
  BY <1>1, <1>2, <1>3, DaemonApprovals, ToolApprovals DEF Next

(* A wake is given only what the user approved, in the words approved, and *)
(* nothing interactive-only, with calls and daemon overwriting each        *)
(* other's saves in any order.                                             *)
THEOREM WakesAreApproved == Spec => WakesOnlyWithApproval
<1>1. Init => TypeOK /\ Approvals
  BY InitType, InitApprovals
<1>2. TypeOK /\ Approvals /\ [Next]_vars => TypeOK' /\ Approvals'
  BY NextType, NextApprovals
<1>3. ASSUME TypeOK, Approvals, NEW s \in Sessions, NEW d \in Granted(mem, s)
      PROVE  /\ d \notin InteractiveOnly
             /\ \E k \in Keys : Applies(k, s) /\ <<k, d>> \in approved
  <2> DEFINE k == Key(SelectedScope(mem, s), s)
  <2>1. k \in Keys /\ Applies(k, s)
    BY SelectedScopeType, KeyType DEF Scopes
  <2>2. d \in mem.grants[k]
    BY <1>3 DEF Granted, Selected
  <2>3. QED
    BY <1>3, <2>1, <2>2 DEF Approvals, Approved
<1>4. TypeOK /\ Approvals =>
        [\A s \in Sessions : DaemonWakes(s) =>
           \A d \in Granted(mem, s) :
             /\ d \notin InteractiveOnly
             /\ \E k \in Keys : Applies(k, s) /\ <<k, d>> \in approved]_vars
  BY <1>3
<1>5. QED
  BY <1>1, <1>2, <1>4, PTL DEF Spec, WakesOnlyWithApproval
-----------------------------------------------------------------------------
(* Once.  Without calls that overlap the daemon's saves, a call that is at *)
(* work is alone and what it loaded is what is on disk, and a session that *)
(* still holds a `once` grant somewhere has one more grant than wakes.     *)
HasOnce(store, s) == store.grants[Key("once", s)] # {}

Fresh ==
  \A t \in Tools : tool[t].busy =>
    tool[t].snap = disk /\ \A u \in Tools : tool[u].busy => u = t

Unused ==
  \A s \in Sessions :
    /\ used[s] <= given[s]
    /\ HasOnce(disk, s) \/ HasOnce(mem, s) => used[s] < given[s]

(* The `once` grants of two sessions are different entries.                *)
LEMMA OnceKey ==
  ASSUME NEW s \in Sessions
  PROVE  /\ Key("once", s) \in Keys
         /\ \A scope \in Scopes, x \in Sessions :
              Key(scope, x) = Key("once", s) <=> scope = "once" /\ x = s
BY KeyType DEF Key, Scopes

(* No call is at work and no grant is there in the beginning.              *)
LEMMA InitOnce == ASSUME Init PROVE Fresh /\ Unused
BY OnceKey DEF Init, Fresh, Unused, Free, NewStore, HasOnce

(* A wake authorized by a `once` grant had one and has it no longer.       *)
LEMMA ConsumeOnce ==
  ASSUME NEW store \in Stores, NEW s \in Sessions, NEW x \in Sessions
  PROVE  /\ HasOnce(Consume(store, s), x) => HasOnce(store, x)
         /\ SelectedScope(store, s) = "once" =>
              HasOnce(store, s) /\ ~HasOnce(Consume(store, s), s)
<1>1. HasOnce(Consume(store, s), x) => HasOnce(store, x)
  BY ConsumeType, OnceKey DEF HasOnce
<1>2. ASSUME SelectedScope(store, s) = "once"
      PROVE  HasOnce(store, s) /\ ~HasOnce(Consume(store, s), s)
  <2>1. HasOnce(store, s)
    BY <1>2 DEF SelectedScope, HasOnce
  <2>2. Consume(store, s).grants[Key("once", s)] = {}
    BY <1>2, OnceKey DEF Consume, Stores
  <2>3. QED
    BY <2>1, <2>2 DEF HasOnce
<1>3. QED
  BY <1>1, <1>2

(* A wake that counts as used gives up the grant in both copies.           *)
LEMMA DaemonOnce ==
  ASSUME TypeOK, Overlap = FALSE, Fresh, Unused, NEW s \in Sessions, DaemonStep(s)
  PROVE  Fresh' /\ Unused'
<1>1. tool' = tool /\ given' = given /\ (disk' = mem' \/ disk' = disk)
  BY DEF DaemonStep, DaemonReceives, DaemonWakes, DaemonDenies, SaveMem,
         SaveMemFails, history
<1>2. Fresh'
  <2>1. CASE \A t \in Tools : ~tool[t].busy
    BY <1>1, <2>1 DEF Fresh
  <2>2. CASE disk' = disk
    BY <1>1, <2>2 DEF Fresh
  <2>3. QED
    BY <2>1, <2>2 DEF DaemonStep, DaemonReceives, DaemonWakes, DaemonDenies,
         SaveMemFails, Undisturbed
<1>3. ASSUME NEW r \in SUBSET Definitions, DaemonReceives(s, r)
      PROVE  Unused'
  <2>1. mem'.grants = mem.grants /\ used' = used
    BY <1>3, RecordRequestType DEF DaemonReceives, Acceptable, TypeOK, history
  <2>2. QED
    BY <1>1, <2>1 DEF Unused, HasOnce
<1>4. CASE DaemonDenies(s)
  <2>1. used' = used /\ disk' = disk /\ mem' = Consume(mem, s)
    BY <1>4 DEF DaemonDenies, SaveMemFails, history
  <2>2. QED
    BY <1>1, <1>2, <2>1, ConsumeOnce DEF Unused, TypeOK
<1>5. CASE DaemonWakes(s)
  <2>1. disk' = mem' /\ mem' = Consume(mem, s)
    BY <1>5 DEF DaemonWakes, SaveMem
  <2>2. ASSUME NEW x \in Sessions
        PROVE  /\ used'[x] <= given'[x]
               /\ HasOnce(disk', x) \/ HasOnce(mem', x) => used'[x] < given'[x]
    <3>1. used[x] \in Nat /\ given[x] \in Nat
      BY DEF TypeOK
    <3>2. CASE SelectedScope(mem, s) = "once" /\ x = s
      <4>1. used'[x] = used[x] + 1
        BY <1>5, <3>2 DEF DaemonWakes, TypeOK
      <4>2. used[x] < given[x] /\ ~HasOnce(mem', x)
        BY <2>1, <3>2, ConsumeOnce DEF Unused, TypeOK
      <4>3. QED
        BY <1>1, <2>1, <3>1, <4>1, <4>2
    <3>3. CASE ~(SelectedScope(mem, s) = "once" /\ x = s)
      <4>1. used'[x] = used[x]
        BY <1>5, <3>3 DEF DaemonWakes, TypeOK
      <4>2. HasOnce(mem', x) => HasOnce(mem, x)
        BY <2>1, ConsumeOnce DEF TypeOK
      <4>3. QED
        BY <1>1, <2>1, <4>1, <4>2 DEF Unused
    <3>4. QED
      BY <3>2, <3>3
  <2>3. QED
    BY <1>2, <2>2 DEF Unused, HasOnce
<1>6. QED
  BY <1>2, <1>3, <1>4, <1>5 DEF DaemonStep

(* A call that ends was the only one, and what it loaded is on disk.       *)
LEMMA EndsOnce ==
  ASSUME TypeOK, Fresh, NEW t \in Tools, Ends(t)
  PROVE  Fresh' /\ tool[t].snap = disk
BY EndsType DEF Fresh, Ends, Free

(* A call brings back no `once` grant that was consumed meanwhile.         *)
LEMMA ToolOnce ==
  ASSUME TypeOK, Overlap = FALSE, Fresh, Unused, NEW t \in Tools, ToolStep(t)
  PROVE  Fresh' /\ Unused'
<1>1. CASE ToolLoads(t)
  <2>1. UNCHANGED <<disk, mem, given, used>>
    BY <1>1 DEF ToolLoads, history
  <2>2. \A u \in Tools : tool'[u] = IF u = t THEN [busy |-> TRUE, snap |-> disk] ELSE tool[u]
    BY <1>1 DEF ToolLoads, TypeOK
  <2>3. \A u \in Tools : ~tool[u].busy
    BY <1>1 DEF ToolLoads
  <2>4. QED
    BY <2>1, <2>2, <2>3 DEF Fresh, Unused, HasOnce
<1>2. CASE ToolGivesUp(t)
  <2>1. Ends(t) /\ UNCHANGED <<disk, mem, given, used>>
    BY <1>2 DEF ToolGivesUp, history
  <2>2. QED
    BY <2>1, EndsOnce DEF Unused, HasOnce
<1>3. ASSUME NEW s \in Sessions, NEW r \in SUBSET Definitions, ToolRequests(t, s, r)
      PROVE  Fresh' /\ Unused'
  <2>1. Ends(t) /\ UNCHANGED <<mem, given, used>>
    BY <1>3 DEF ToolRequests, history
  <2>2. disk'.grants = disk.grants
    BY <1>3, <2>1, EndsType, EndsOnce, RecordRequestType DEF ToolRequests, Acceptable
  <2>3. QED
    BY <2>1, <2>2, EndsOnce DEF Unused, HasOnce
<1>4. ASSUME NEW s \in Sessions, NEW scope \in Scopes, NEW ids \in SUBSET Ids,
             ToolGrants(t, s, scope, ids)
      PROVE  Fresh' /\ Unused'
  <2>1. Ends(t) /\ UNCHANGED <<mem, used>>
    BY <1>4 DEF ToolGrants
  <2>2. tool[t].snap = disk /\ disk \in Stores
    BY <2>1, EndsType, EndsOnce
  <2> DEFINE store == WithRequest(disk, s, ids)
  <2>3. store \in Stores /\ store.grants = disk.grants
    BY <2>2, WithRequestType
  <2>4. \A k \in Keys : k # Key(scope, s) => disk'.grants[k] = disk.grants[k]
    BY <1>4, <2>2, <2>3, GrantType DEF ToolGrants
  <2>5. ASSUME NEW x \in Sessions
        PROVE  /\ used'[x] <= given'[x]
               /\ HasOnce(disk', x) \/ HasOnce(mem', x) => used'[x] < given'[x]
    <3>1. used[x] \in Nat /\ given[x] \in Nat
      BY DEF TypeOK
    <3>2. CASE scope = "once" /\ x = s
      <4>1. given'[x] = given[x] + 1
        BY <1>4, <3>2 DEF ToolGrants, TypeOK
      <4>2. QED
        BY <2>1, <3>1, <4>1 DEF Unused
    <3>3. CASE ~(scope = "once" /\ x = s)
      <4>1. given'[x] = given[x]
        BY <1>4, <3>3 DEF ToolGrants, TypeOK
      <4>2. HasOnce(disk', x) => HasOnce(disk, x)
        BY <2>4, <3>3, OnceKey DEF HasOnce
      <4>3. QED
        BY <2>1, <4>1, <4>2 DEF Unused
    <3>4. QED
      BY <3>2, <3>3
  <2>6. QED
    BY <2>1, <2>5, EndsOnce DEF Unused, HasOnce
<1>5. ASSUME NEW s \in Sessions, NEW scope \in Scopes \cup {"any"},
             NEW ids \in SUBSET Ids, ToolRevokes(t, s, scope, ids)
      PROVE  Fresh' /\ Unused'
  <2>1. Ends(t) /\ UNCHANGED <<mem, given, used>>
    BY <1>5 DEF ToolRevokes
  <2>2. \A k \in Keys : disk'.grants[k] \subseteq disk.grants[k]
    BY <1>5, <2>1, EndsType, EndsOnce, RevokeType DEF ToolRevokes
  <2>3. \A x \in Sessions : HasOnce(disk', x) => HasOnce(disk, x)
    BY <2>2, OnceKey DEF HasOnce
  <2>4. QED
    BY <2>1, <2>3, EndsOnce DEF Unused, HasOnce
<1>6. QED
  BY <1>1, <1>2, <1>3, <1>4, <1>5 DEF ToolStep

(* Every step keeps the count.                                             *)
LEMMA NextOnce ==
  ASSUME TypeOK, Overlap = FALSE, Fresh, Unused, [Next]_vars
  PROVE  Fresh' /\ Unused'
<1>1. CASE UNCHANGED vars
  BY <1>1 DEF Fresh, Unused, HasOnce, vars, history
<1>2. CASE Start
  BY <1>2 DEF Start, Fresh, Unused, HasOnce, history
<1>3. CASE Stop
  <2>1. UNCHANGED <<disk, tool, given, used>> /\ mem' = NewStore
    BY <1>3 DEF Stop, history
  <2>2. \A s \in Sessions : ~HasOnce(NewStore, s)
    BY OnceKey DEF HasOnce, NewStore
  <2>3. QED
    BY <2>1, <2>2 DEF Fresh, Unused, HasOnce
<1>4. QED
  BY <1>1, <1>2, <1>3, DaemonOnce, ToolOnce DEF Next

(* A `once` grant wakes its session once, through stops and failed saves,  *)
(* provided that no call straddles a save of the daemon.                   *)
THEOREM OnceIsOnce == ASSUME Overlap = FALSE PROVE Spec => []OnceWakesOnce
<1>1. Init => TypeOK /\ Fresh /\ Unused
  BY InitType, InitOnce
<1>2. TypeOK /\ Fresh /\ Unused /\ [Next]_vars => TypeOK' /\ Fresh' /\ Unused'
  BY Overlap = FALSE, NextType, NextOnce
<1>3. Unused => OnceWakesOnce
  BY DEF Unused, OnceWakesOnce
<1>4. QED
  BY <1>1, <1>2, <1>3, PTL DEF Spec
-----------------------------------------------------------------------------
(* Revoked.  A store is clear of what was revoked while no daemon ran and  *)
(* not granted again: in every scope that applies to the session.          *)
Clear(store) ==
  \A x \in revoked : ~x.running =>
    \A k \in Keys : Applies(k, x.session) => \A d \in store.grants[k] : Id[d] # x.id

Revocations == Clear(disk) /\ Clear(mem) /\ (up \/ mem = NewStore)

(* A store that loses grants stays clear of what is still revoked.         *)
LEMMA ClearShrinks ==
  ASSUME NEW store, NEW new, Clear(store), revoked' \subseteq revoked,
         \A k \in Keys : new.grants[k] \subseteq store.grants[k]
  PROVE  \A x \in revoked' : ~x.running =>
           \A k \in Keys : Applies(k, x.session) => \A d \in new.grants[k] : Id[d] # x.id
BY DEF Clear

(* An empty store is clear of everything.                                  *)
LEMMA NewStoreClear == Clear(NewStore)
BY DEF Clear, NewStore

(* The daemon only gives up grants, and saves what it has.                 *)
LEMMA DaemonRevocations ==
  ASSUME TypeOK, Revocations, NEW s \in Sessions, DaemonStep(s)
  PROVE  Revocations'
<1>1. up /\ up' = up /\ revoked' = revoked /\ (disk' = mem' \/ disk' = disk)
  BY DEF DaemonStep, DaemonReceives, DaemonWakes, DaemonDenies, SaveMem,
         SaveMemFails, history
<1>2. \A k \in Keys : mem'.grants[k] \subseteq mem.grants[k]
  <2>1. ASSUME NEW r \in SUBSET Definitions, DaemonReceives(s, r)
        PROVE  mem'.grants = mem.grants
    BY <2>1, RecordRequestType DEF DaemonReceives, Acceptable, TypeOK
  <2>2. CASE DaemonWakes(s) \/ DaemonDenies(s)
    BY <2>2, ConsumeType DEF DaemonWakes, DaemonDenies, TypeOK
  <2>3. QED
    BY <2>1, <2>2 DEF DaemonStep
<1>3. Clear(mem)'
  BY <1>1, <1>2, ClearShrinks DEF Revocations, Clear
<1>4. Clear(disk)'
  BY <1>1, <1>3 DEF Revocations, Clear
<1>5. QED
  BY <1>1, <1>3, <1>4 DEF Revocations

(* A grant that approves an id again ends its revocation, and a revocation *)
(* in all scopes leaves nothing behind.                                    *)
LEMMA ToolRevocations ==
  ASSUME TypeOK, Fresh, Revocations, NEW t \in Tools, ToolStep(t)
  PROVE  Revocations'
<1>1. CASE ToolLoads(t) \/ ToolGivesUp(t)
  BY <1>1 DEF ToolLoads, ToolGivesUp, history, Revocations, Clear
<1>2. ASSUME NEW s \in Sessions, NEW r \in SUBSET Definitions, ToolRequests(t, s, r)
      PROVE  Revocations'
  <2>1. Ends(t) /\ UNCHANGED <<mem, up, revoked>>
    BY <1>2 DEF ToolRequests, history
  <2>2. disk'.grants = disk.grants
    BY <1>2, <2>1, EndsType, EndsOnce, RecordRequestType DEF ToolRequests, Acceptable
  <2>3. QED
    BY <2>1, <2>2 DEF Revocations, Clear
<1>3. ASSUME NEW s \in Sessions, NEW scope \in Scopes, NEW ids \in SUBSET Ids,
             ToolGrants(t, s, scope, ids)
      PROVE  Revocations'
  <2> DEFINE store == WithRequest(disk, s, ids)
  <2>1. Ends(t) /\ UNCHANGED <<mem, up>>
    BY <1>3 DEF ToolGrants
  <2>2. tool[t].snap = disk /\ disk \in Stores
    BY <2>1, EndsType, EndsOnce
  <2>3. store \in Stores /\ store.grants = disk.grants
    BY <2>2, WithRequestType
  <2>4. \A k \in Keys : disk'.grants[k] =
          IF k = Key(scope, s) THEN Chosen(store, s, ids) ELSE disk.grants[k]
    BY <1>3, <2>2, <2>3, GrantType DEF ToolGrants
  <2>5. revoked' = {x \in revoked : ~(Applies(Key(scope, s), x.session) /\ x.id \in ids)}
    BY <1>3 DEF ToolGrants
  <2>6. Clear(mem)'
    BY <2>1, <2>5 DEF Revocations, Clear
  <2>7. ASSUME NEW x \in revoked', ~x.running, NEW k \in Keys, Applies(k, x.session),
               NEW d \in disk'.grants[k]
        PROVE  Id[d] # x.id
    <3>1. CASE k = Key(scope, s)
      <4>1. Id[d] \in ids
        BY <2>4, <2>7, <3>1 DEF Chosen
      <4>2. QED
        BY <2>5, <2>7, <3>1, <4>1
    <3>2. CASE k # Key(scope, s)
      BY <2>4, <2>5, <2>7, <3>2 DEF Revocations, Clear
    <3>3. QED
      BY <3>1, <3>2
  <2>8. QED
    BY <2>1, <2>6, <2>7 DEF Revocations, Clear
<1>4. ASSUME NEW s \in Sessions, NEW scope \in Scopes \cup {"any"},
             NEW ids \in SUBSET Ids, ToolRevokes(t, s, scope, ids)
      PROVE  Revocations'
  <2> DEFINE added == {x \in [session : {s}, id : IF ids = {} THEN Ids ELSE ids,
                              running : {up}] : scope = "any"}
  <2>1. Ends(t) /\ UNCHANGED <<mem, up>> /\ revoked' = revoked \cup added
    BY <1>4 DEF ToolRevokes
  <2>2. tool[t].snap = disk /\ disk \in Stores
    BY <2>1, EndsType, EndsOnce
  <2>3. disk' = Revoke(disk, s, scope, ids)
    BY <1>4, <2>2 DEF ToolRevokes
  <2>4. \A k \in Keys : disk'.grants[k] =
          IF scope \in {"any", k[1]} /\ Applies(k, s)
          THEN {d \in disk.grants[k] : ids # {} /\ Id[d] \notin ids} ELSE disk.grants[k]
    BY <2>2, <2>3 DEF Revoke, Stores
  <2>5. Clear(disk)'
    <3>1. ASSUME NEW x \in revoked', ~x.running, NEW k \in Keys, Applies(k, x.session),
                 NEW d \in disk'.grants[k]
          PROVE  Id[d] # x.id
      <4>1. d \in disk.grants[k]
        BY <2>4, <3>1
      <4>2. CASE x \in revoked
        BY <3>1, <4>1, <4>2 DEF Revocations, Clear
      <4>3. CASE x \in added
        BY <2>4, <3>1, <4>3
      <4>4. QED
        BY <2>1, <3>1, <4>2, <4>3
    <3>2. QED
      BY <3>1 DEF Clear
  <2>6. Clear(mem)'
    <3>1. CASE up
      <4>1. \A x \in revoked' : ~x.running => x \in revoked
        BY <2>1, <3>1
      <4>2. QED
        BY <2>1, <4>1 DEF Revocations, Clear
    <3>2. CASE mem = NewStore
      BY <2>1, <3>2 DEF Clear, NewStore
    <3>3. QED
      BY <3>1, <3>2 DEF Revocations
  <2>7. QED
    BY <2>1, <2>5, <2>6 DEF Revocations
<1>5. QED
  BY <1>1, <1>2, <1>3, <1>4 DEF ToolStep

(* What was revoked in every scope while no daemon ran is not used by a    *)
(* later wake, unless it was granted again, through failed saves and       *)
(* restarts, provided that no call straddles a save of the daemon.         *)
THEOREM RevokedStaysRevoked == ASSUME Overlap = FALSE PROVE Spec => RevokedWhileStopped
<1>1. Init => TypeOK /\ Fresh /\ Unused /\ Revocations
  <2>1. Init => Revocations
    BY NewStoreClear DEF Init, Revocations
  <2>2. QED
    BY <2>1, InitType, InitOnce
<1>2. TypeOK /\ Fresh /\ Revocations /\ [Next]_vars => Revocations'
  <2> SUFFICES ASSUME TypeOK, Fresh, Revocations, [Next]_vars PROVE Revocations'
    OBVIOUS
  <2>1. CASE UNCHANGED vars
    BY <2>1 DEF Revocations, Clear, vars, history
  <2>2. CASE Start
    BY <2>2 DEF Start, Revocations, Clear, history
  <2>3. CASE Stop
    BY <2>3 DEF Stop, Revocations, Clear, NewStore, history
  <2>4. QED
    BY <2>1, <2>2, <2>3, DaemonRevocations, ToolRevocations DEF Next
<1>3. TypeOK /\ Fresh /\ Unused /\ [Next]_vars => TypeOK' /\ Fresh' /\ Unused'
  BY Overlap = FALSE, NextType, NextOnce
<1>4. TypeOK /\ Revocations => [\A s \in Sessions : DaemonWakes(s) => Unrevoked(s, FALSE)]_vars
  <2> SUFFICES ASSUME TypeOK, Revocations, NEW s \in Sessions, NEW d \in Granted(mem, s)
               PROVE  [session |-> s, id |-> Id[d], running |-> FALSE] \notin revoked
    BY DEF Unrevoked
  <2>1. PICK scope \in Scopes : d \in mem.grants[Key(scope, s)]
    BY SelectedScopeType DEF Granted, Selected
  <2>2. Key(scope, s) \in Keys /\ Applies(Key(scope, s), s)
    BY KeyType DEF Scopes
  <2>3. QED
    BY <2>1, <2>2 DEF Revocations, Clear
<1>5. QED
  BY <1>1, <1>2, <1>3, <1>4, PTL DEF Spec, RevokedWhileStopped

=============================================================================
