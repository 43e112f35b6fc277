---------------------------- MODULE UpdaterProofs ----------------------------
(***************************************************************************)
(* Theorems about Updater: the order of versions for versions of any       *)
(* length, and what the update processes do with it for any number of      *)
(* them, of versions and of intervals.                                     *)
(***************************************************************************)
EXTENDS Updater, WellFoundedInduction, TLAPS

(* An identifier is not smaller than itself, and smaller is transitive.    *)
LEMMA SmallerOrder ==
  ASSUME NEW x \in Identifiers, NEW y \in Identifiers, NEW z \in Identifiers
  PROVE  /\ ~Smaller(x, x)
         /\ Smaller(x, y) /\ Smaller(y, z) => Smaller(x, z)
         /\ x # y => Smaller(x, y) \/ Smaller(y, x)
BY DEF Smaller, Identifiers

(* The place where p is seen to come before q.                             *)
Decides(i, p, q) ==
  /\ \A j \in 1..(i - 1) : j <= Len(p) /\ p[j] = q[j]
  /\ IF i > Len(p) THEN i = Len(p) + 1 ELSE Smaller(p[i], q[i])

(* PreBefore in terms of that place.                                       *)
LEMMA PreBeforeDecided ==
  ASSUME NEW p \in Seq(Identifiers), NEW q \in Seq(Identifiers)
  PROVE  PreBefore(p, q) <=>
           \/ p # << >> /\ q = << >>
           \/ p # << >> /\ \E i \in 1..Len(q) : Decides(i, p, q)
BY DEF PreBefore, Decides

(* No list of identifiers comes before itself.                             *)
LEMMA PreBeforeIrreflexive ==
  ASSUME NEW p \in Seq(Identifiers)
  PROVE  ~PreBefore(p, p)
BY SmallerOrder DEF PreBefore

(* Of two places, the one further to the left decides.                     *)
LEMMA DecidesTransitive ==
  ASSUME NEW p \in Seq(Identifiers), NEW q \in Seq(Identifiers), NEW r \in Seq(Identifiers),
         NEW i \in 1..Len(q), NEW k \in 1..Len(r), Decides(i, p, q), Decides(k, q, r)
  PROVE  \E m \in 1..Len(r) : Decides(m, p, r)
<1>1. CASE i < k
  <2>1. i \in 1..Len(r) /\ i <= Len(q) /\ q[i] = r[i]
    BY <1>1 DEF Decides
  <2>2. \A j \in 1..(i - 1) : j <= Len(p) /\ p[j] = r[j]
    BY <1>1 DEF Decides
  <2>3. Decides(i, p, r)
    BY <2>1, <2>2 DEF Decides
  <2>4. QED
    BY <2>1, <2>3
<1>2. CASE i = k
  <2>1. \A j \in 1..(i - 1) : j <= Len(p) /\ p[j] = r[j]
    BY <1>2 DEF Decides
  <2>2. Smaller(q[i], r[i]) /\ q[i] \in Identifiers /\ r[i] \in Identifiers
    BY <1>2 DEF Decides
  <2>3. IF i > Len(p) THEN i = Len(p) + 1 ELSE Smaller(p[i], r[i])
    <3>1. CASE i > Len(p)
      BY <3>1 DEF Decides
    <3>2. CASE i <= Len(p)
      <4>1. p[i] \in Identifiers /\ Smaller(p[i], q[i])
        BY <3>2 DEF Decides
      <4>2. QED
        BY <3>2, <4>1, <2>2, SmallerOrder
    <3>3. QED
      BY <3>1, <3>2
  <2>4. Decides(i, p, r)
    BY <2>1, <2>3 DEF Decides
  <2>5. QED
    BY <1>2, <2>4
<1>3. CASE k < i
  <2>1. k <= Len(p) /\ k <= Len(q) /\ p[k] = q[k]
    BY <1>3 DEF Decides
  <2>2. \A j \in 1..(k - 1) : j <= Len(p) /\ p[j] = r[j]
    BY <1>3 DEF Decides
  <2>3. Decides(k, p, r)
    BY <2>1, <2>2 DEF Decides
  <2>4. QED
    BY <2>3
<1>4. QED
  BY <1>1, <1>2, <1>3

(* What comes before an earlier list comes before the later one.           *)
LEMMA PreBeforeTransitive ==
  ASSUME NEW p \in Seq(Identifiers), NEW q \in Seq(Identifiers), NEW r \in Seq(Identifiers),
         PreBefore(p, q), PreBefore(q, r)
  PROVE  PreBefore(p, r)
<1>1. p # << >> /\ q # << >>
  BY PreBeforeDecided
<1>2. CASE r = << >>
  BY <1>1, <1>2, PreBeforeDecided
<1>3. CASE r # << >>
  <2>1. PICK i \in 1..Len(q) : Decides(i, p, q)
    BY <1>1, PreBeforeDecided
  <2>2. PICK k \in 1..Len(r) : Decides(k, q, r)
    BY <1>3, PreBeforeDecided
  <2>3. \E m \in 1..Len(r) : Decides(m, p, r)
    BY <2>1, <2>2, DecidesTransitive
  <2>4. QED
    BY <1>1, <2>3, PreBeforeDecided
<1>4. QED
  BY <1>2, <1>3

(* A nonempty set of numbers has a least one.                              *)
LEMMA LeastNumber ==
  ASSUME NEW T \in SUBSET Nat, T # {}
  PROVE  \E n \in T : \A m \in T : ~(m < n)
<1>1. PICK n \in T : \A m \in T : ~(<<m, n>> \in OpToRel(<, Nat))
  BY WFMin, NatLessThanWellFounded, Zenon
<1>2. QED
  BY <1>1 DEF OpToRel

(* Two different lists are in order one way or the other: the first place  *)
(* at which they differ decides.                                           *)
LEMMA PreBeforeTotal ==
  ASSUME NEW p \in Seq(Identifiers), NEW q \in Seq(Identifiers), p # q
  PROVE  PreBefore(p, q) \/ PreBefore(q, p)
<1>1. CASE p = << >> \/ q = << >>
  BY <1>1, PreBeforeDecided
<1>2. CASE p # << >> /\ q # << >>
  <2> DEFINE T == {n \in Nat : n >= 1 /\ (n > Len(p) \/ n > Len(q) \/ p[n] # q[n])
                                /\ (n <= Len(p) \/ n <= Len(q))}
  <2>1. T # {}
    <3>1. CASE Len(p) < Len(q)
      <4>1. Len(q) \in T
        BY <3>1
      <4>2. QED
        BY <4>1
    <3>2. CASE Len(q) < Len(p)
      <4>1. Len(p) \in T
        BY <3>2
      <4>2. QED
        BY <4>1
    <3>3. CASE Len(p) = Len(q)
      <4>1. PICK n \in 1..Len(p) : p[n] # q[n]
        BY <3>3
      <4>2. n \in T
        BY <4>1
      <4>3. QED
        BY <4>2
    <3>4. QED
      BY <3>1, <3>2, <3>3
  <2>2. PICK n \in T : \A m \in T : ~(m < n)
    BY <2>1, LeastNumber
  <2>3. \A j \in 1..(n - 1) : j <= Len(p) /\ j <= Len(q) /\ p[j] = q[j]
    <3>1. ASSUME NEW j \in 1..(n - 1)
          PROVE  j <= Len(p) /\ j <= Len(q) /\ p[j] = q[j]
      <4>1. j \in Nat /\ j >= 1 /\ j < n /\ (n <= Len(p) \/ n <= Len(q))
        BY <2>2
      <4>2. j \notin T
        BY <2>2, <4>1
      <4>3. QED
        BY <4>1, <4>2
    <3>2. QED
      BY <3>1
  <2>4. CASE n > Len(p)
    <3>1. n = Len(p) + 1 /\ n \in 1..Len(q)
      BY <2>2, <2>3, <2>4
    <3>2. Decides(n, p, q)
      BY <2>3, <3>1 DEF Decides
    <3>3. QED
      BY <1>2, <3>1, <3>2, PreBeforeDecided
  <2>5. CASE n > Len(q)
    <3>1. n = Len(q) + 1 /\ n \in 1..Len(p)
      BY <2>2, <2>3, <2>5
    <3>2. Decides(n, q, p)
      BY <2>3, <3>1 DEF Decides
    <3>3. QED
      BY <1>2, <3>1, <3>2, PreBeforeDecided
  <2>6. CASE n <= Len(p) /\ n <= Len(q)
    <3>1. p[n] # q[n] /\ p[n] \in Identifiers /\ q[n] \in Identifiers
      BY <2>2, <2>6
    <3>2. CASE Smaller(p[n], q[n])
      <4>1. Decides(n, p, q)
        BY <2>2, <2>3, <2>6, <3>2 DEF Decides
      <4>2. QED
        BY <1>2, <2>2, <2>6, <4>1, PreBeforeDecided
    <3>3. CASE Smaller(q[n], p[n])
      <4>1. Decides(n, q, p)
        BY <2>2, <2>3, <2>6, <3>3 DEF Decides
      <4>2. QED
        BY <1>2, <2>2, <2>6, <4>1, PreBeforeDecided
    <3>4. QED
      BY <3>1, <3>2, <3>3, SmallerOrder
  <2>7. QED
    BY <2>2, <2>4, <2>5, <2>6
<1>3. QED
  BY <1>1, <1>2

-----------------------------------------------------------------------------
(* The numbers of a version are in order like the digits of a number.      *)
LEMMA CoreOrder ==
  ASSUME NEW m \in [1..3 -> Nat], NEW n \in [1..3 -> Nat], NEW o \in [1..3 -> Nat]
  PROVE  /\ ~CoreBefore(m, m)
         /\ CoreBefore(m, n) /\ CoreBefore(n, o) => CoreBefore(m, o)
         /\ CoreBefore(m, n) \/ CoreBefore(n, m) \/ m = n
<1>1. \A f, g \in [1..3 -> Nat] :
        CoreBefore(f, g) <=>
          \/ f[1] < g[1]
          \/ f[1] = g[1] /\ f[2] < g[2]
          \/ f[1] = g[1] /\ f[2] = g[2] /\ f[3] < g[3]
  <2>1. ASSUME NEW f \in [1..3 -> Nat], NEW g \in [1..3 -> Nat]
        PROVE  CoreBefore(f, g) <=>
                 \/ f[1] < g[1]
                 \/ f[1] = g[1] /\ f[2] < g[2]
                 \/ f[1] = g[1] /\ f[2] = g[2] /\ f[3] < g[3]
    <3>1. \A i \in 1..3 : i = 1 \/ i = 2 \/ i = 3
      OBVIOUS
    <3>2. \A j \in 1..0 : FALSE
      OBVIOUS
    <3>3. \A j \in 1..1 : j = 1
      OBVIOUS
    <3>4. \A j \in 1..2 : j = 1 \/ j = 2
      OBVIOUS
    <3>5. QED
      BY <3>1, <3>2, <3>3, <3>4 DEF CoreBefore
  <2>2. QED
    BY <2>1
<1>2. m[1] = n[1] /\ m[2] = n[2] /\ m[3] = n[3] => m = n
  OBVIOUS
<1>3. /\ m[1] \in Nat /\ m[2] \in Nat /\ m[3] \in Nat
      /\ n[1] \in Nat /\ n[2] \in Nat /\ n[3] \in Nat
      /\ o[1] \in Nat /\ o[2] \in Nat /\ o[3] \in Nat
  OBVIOUS
<1>4. QED
  BY <1>1, <1>2, <1>3

(* Versions have numbers and a list of identifiers.                        *)
LEMMA VersionParts ==
  ASSUME NEW a \in Versions
  PROVE  a.core \in [1..3 -> Nat] /\ a.pre \in Seq(Identifiers) /\ a.dev \in BOOLEAN
BY VersionsAssumption DEF SemanticVersions

(* Versions of any length are in order: CompareVersions is never of two    *)
(* minds, decides between any two that differ, and is transitive           *)
(* (updater.go:342-396).                                                   *)
LEMMA VersionOrder ==
  ASSUME NEW a \in Versions, NEW b \in Versions, NEW c \in Versions
  PROVE  /\ ~Before(a, a)
         /\ Before(a, b) /\ Before(b, c) => Before(a, c)
         /\ Before(a, b) \/ Before(b, a) \/ (a.core = b.core /\ a.pre = b.pre)
<1>1. /\ a.core \in [1..3 -> Nat] /\ a.pre \in Seq(Identifiers)
      /\ b.core \in [1..3 -> Nat] /\ b.pre \in Seq(Identifiers)
      /\ c.core \in [1..3 -> Nat] /\ c.pre \in Seq(Identifiers)
  BY VersionParts
<1>2. ~Before(a, a)
  BY <1>1, CoreOrder, PreBeforeIrreflexive DEF Before
<1>3. ASSUME Before(a, b), Before(b, c)
      PROVE  Before(a, c)
  <2>1. CASE CoreBefore(a.core, b.core) /\ CoreBefore(b.core, c.core)
    BY <1>1, <2>1, CoreOrder DEF Before
  <2>2. CASE CoreBefore(a.core, b.core) /\ b.core = c.core
    BY <2>2 DEF Before
  <2>3. CASE a.core = b.core /\ CoreBefore(b.core, c.core)
    BY <2>3 DEF Before
  <2>4. CASE /\ a.core = b.core /\ PreBefore(a.pre, b.pre)
             /\ b.core = c.core /\ PreBefore(b.pre, c.pre)
    BY <1>1, <2>4, PreBeforeTransitive DEF Before
  <2>5. QED
    BY <1>3, <2>1, <2>2, <2>3, <2>4 DEF Before
<1>4. Before(a, b) \/ Before(b, a) \/ (a.core = b.core /\ a.pre = b.pre)
  BY <1>1, CoreOrder, PreBeforeTotal DEF Before
<1>5. QED
  BY <1>2, <1>3, <1>4

-----------------------------------------------------------------------------
(* The state a process takes on is the only change of the processes.       *)
LEMMA BecomesType ==
  ASSUME proc \in [Procs -> ProcStates], NEW p \in Procs,
         NEW state \in ProcStates, Becomes(p, state)
  PROVE  /\ proc' \in [Procs -> ProcStates] /\ proc'[p] = state
         /\ \A q \in Procs : q # p => proc'[q] = proc[q]
BY DEF Becomes

(* The state of a process that is not at work is well formed.              *)
LEMMA OffType == Off \in ProcStates /\ Off.pc = "off"
BY NoneAssumption DEF Off, ProcStates, Policies, DefaultPolicy

(* The clock can be written down.                                          *)
LEMMA NoneIsNothing == None \notin Versions /\ None \notin Nat
BY NoneAssumption

(* A process that begins is well formed.                                   *)
LEMMA BeginningsType ==
  ASSUME TypeOK, NEW p \in Procs
  PROVE  /\ AutoBegins(p) => proc' \in [Procs -> ProcStates]
         /\ InstallBegins(p) => proc' \in [Procs -> ProcStates]
         /\ DisableBegins(p) => proc' \in [Procs -> ProcStates]
         /\ \A interval \in Intervals :
              EnableBegins(p, interval) => proc' \in [Procs -> ProcStates]
<1>1. ASSUME AutoBegins(p)
      PROVE  proc' \in [Procs -> ProcStates]
  BY <1>1, OffType DEF TypeOK, AutoBegins, Becomes, Off, ProcStates, Policies
<1>2. ASSUME InstallBegins(p)
      PROVE  proc' \in [Procs -> ProcStates]
  BY <1>2, OffType DEF TypeOK, InstallBegins, Becomes, Off, ProcStates
<1>3. ASSUME DisableBegins(p)
      PROVE  proc' \in [Procs -> ProcStates]
  BY <1>3, OffType DEF TypeOK, DisableBegins, Becomes, Off, ProcStates, Policies
<1>4. ASSUME NEW interval \in Intervals, EnableBegins(p, interval)
      PROVE  proc' \in [Procs -> ProcStates]
  <2>1. interval \in Int
    BY IntervalsAssumption
  <2>2. interval \in Nat \ {0}
    BY <1>4, <2>1 DEF EnableBegins, Valid, Enabled, TypeOK, Policies
  <2>3. Enabled(interval) \in Policies
    BY <2>2 DEF Enabled, TypeOK, Policies
  <2>4. QED
    BY <1>4, <2>3, OffType DEF TypeOK, EnableBegins, Becomes, Off, ProcStates
<1>5. QED
  BY <1>1, <1>2, <1>3, <1>4

(* What a process makes of its copy of the policy is a policy.             *)
LEMMA StampedType ==
  ASSUME TypeOK, NEW p \in Procs, NEW ok \in BOOLEAN
  PROVE  Stamped(p, ok) \in Policies
BY DEF TypeOK, Stamped, ProcStates, Policies

(* A process that goes on or ends is well formed and does not compare.     *)
LEMMA ProceedsType ==
  ASSUME TypeOK, NEW p \in Procs, NEW copy \in Policies, Proceeds(p, copy)
  PROVE  /\ proc' \in [Procs -> ProcStates]
         /\ proc'[p].pc \in {"off", "save"}
         /\ \A q \in Procs : q # p => proc'[q] = proc[q]
<1>1. proc[p] \in ProcStates
  BY DEF TypeOK
<1>2. (IF proc[p].op = "auto"
       THEN [proc[p] EXCEPT !.pc = "save", !.copy = copy, !.found = None,
                            !.asked = IF @ = None THEN now ELSE @]
       ELSE Off) \in ProcStates
  BY <1>1, OffType DEF TypeOK, ProcStates
<1>3. QED
  BY <1>1, <1>2, OffType DEF TypeOK, Proceeds, Becomes, ProcStates

(* The part of TypeOK about the processes.                                 *)
ProcTypes ==
  /\ proc \in [Procs -> ProcStates]
  /\ \A p \in Procs :
       /\ proc[p].pc \in {"check", "install"} => proc[p].version # None
       /\ At(p, "install") => proc[p].found # None

(* What a process does keeps all of them well formed.                      *)
LEMMA ProcTypesStep ==
  ASSUME TypeOK, [Next]_vars
  PROVE  ProcTypes'
<1>0. ProcTypes /\ latest \in Versions /\ binary \in Versions
  BY DEF TypeOK, ProcTypes
<1>1. ASSUME NEW p \in Procs, AutoBegins(p)
      PROVE  ProcTypes'
  <2>1. proc' \in [Procs -> ProcStates] /\ \A q \in Procs : q # p => proc'[q] = proc[q]
    BY <1>1, BeginningsType DEF AutoBegins, Becomes, TypeOK
  <2>2. proc'[p].pc = "check" /\ proc'[p].version # None
    BY <1>0, <1>1, NoneIsNothing DEF AutoBegins, Becomes, Off, ProcTypes
  <2>3. QED
    BY <1>0, <2>1, <2>2 DEF ProcTypes, At
<1>2. ASSUME NEW p \in Procs, InstallBegins(p)
      PROVE  ProcTypes'
  <2>1. proc' \in [Procs -> ProcStates] /\ \A q \in Procs : q # p => proc'[q] = proc[q]
    BY <1>2, BeginningsType DEF InstallBegins, Becomes, TypeOK
  <2>2. proc'[p].pc = "check" /\ proc'[p].version # None
    BY <1>0, <1>2, NoneIsNothing DEF InstallBegins, Becomes, Off, ProcTypes
  <2>3. QED
    BY <1>0, <2>1, <2>2 DEF ProcTypes, At
<1>3. ASSUME NEW p \in Procs, DisableBegins(p)
      PROVE  ProcTypes'
  <2>1. proc' \in [Procs -> ProcStates] /\ \A q \in Procs : q # p => proc'[q] = proc[q]
    BY <1>3, BeginningsType DEF DisableBegins, Becomes, TypeOK
  <2>2. proc'[p].pc = "save"
    BY <1>0, <1>3 DEF DisableBegins, Becomes, Off, ProcTypes
  <2>3. QED
    BY <1>0, <2>1, <2>2 DEF ProcTypes, At
<1>4. ASSUME NEW p \in Procs, NEW interval \in Intervals, EnableBegins(p, interval)
      PROVE  ProcTypes'
  <2>1. proc' \in [Procs -> ProcStates] /\ \A q \in Procs : q # p => proc'[q] = proc[q]
    BY <1>4, BeginningsType DEF EnableBegins, Becomes, TypeOK
  <2>2. proc'[p].pc = "save"
    BY <1>0, <1>4 DEF EnableBegins, Becomes, Off, ProcTypes
  <2>3. QED
    BY <1>0, <2>1, <2>2 DEF ProcTypes, At
<1>5. ASSUME NEW p \in Procs, Checked(p)
      PROVE  ProcTypes'
  <2>1. Stamped(p, TRUE) \in Policies
    BY StampedType
  <2>2. CASE UpdateAvailable(proc[p].version)
    <3> DEFINE next == [proc[p] EXCEPT !.pc = "install", !.copy = Stamped(p, TRUE),
                                       !.found = latest, !.asked = now]
    <3>1. Becomes(p, next)
      BY <1>5, <2>2 DEF Checked
    <3>2. next \in ProcStates
      BY <1>0, <2>1 DEF TypeOK, ProcStates
    <3>3. /\ proc' \in [Procs -> ProcStates] /\ proc'[p] = next
          /\ \A q \in Procs : q # p => proc'[q] = proc[q]
      BY <1>0, <3>1, <3>2, BecomesType DEF ProcTypes
    <3>4. next.version # None /\ next.found # None
      BY <1>0, <1>5, NoneIsNothing DEF Checked, ProcTypes, ProcStates, At
    <3>5. QED
      BY <1>0, <3>3, <3>4 DEF ProcTypes, At
  <2>3. CASE ~UpdateAvailable(proc[p].version)
    <3>1. Proceeds(p, Stamped(p, TRUE))
      BY <1>5, <2>3 DEF Checked
    <3>2. QED
      BY <1>0, <2>1, <3>1, ProceedsType DEF ProcTypes, At
  <2>4. QED
    BY <2>2, <2>3
<1>6. ASSUME NEW p \in Procs, CheckFails(p)
      PROVE  ProcTypes'
  BY <1>0, <1>6, StampedType, ProceedsType DEF CheckFails, ProcTypes, At
<1>7. ASSUME NEW p \in Procs, Installed(p)
      PROVE  ProcTypes'
  <2>1. [proc[p].copy EXCEPT !.installed = proc[p].found] \in Policies
    BY DEF TypeOK, ProcStates, Policies
  <2>2. QED
    BY <1>0, <1>7, <2>1, ProceedsType DEF Installed, ProcTypes, At
<1>8. ASSUME NEW p \in Procs, InstallFails(p)
      PROVE  ProcTypes'
  <2>1. proc[p].copy \in Policies
    BY DEF TypeOK, ProcStates
  <2>2. QED
    BY <1>0, <1>8, <2>1, ProceedsType DEF InstallFails, ProcTypes, At
<1>9. ASSUME NEW p \in Procs, Saves(p) \/ Ends(p)
      PROVE  ProcTypes'
  <2>1. Becomes(p, Off)
    BY <1>9 DEF Saves, Ends
  <2>2. QED
    BY <1>0, <2>1, OffType, BecomesType DEF ProcTypes, At
<1>10. ASSUME UNCHANGED proc
       PROVE  ProcTypes'
  BY <1>0, <1>10 DEF ProcTypes, At
<1>11. QED
  BY <1>1, <1>2, <1>3, <1>4, <1>5, <1>6, <1>7, <1>8, <1>9, <1>10
     DEF Next, ProcStep, Release, Replace, Tick, vars

(* The program starts well typed.                                          *)
LEMMA UpdaterInitType ==
  ASSUME Init
  PROVE  TypeOK
<1>1. policy \in Policies
  BY DEF Init, DefaultPolicy, Policies
<1>2. proc \in [Procs -> ProcStates] /\ \A p \in Procs : proc[p].pc = "off"
  BY OffType DEF Init
<1>3. QED
  BY <1>1, <1>2 DEF Init, TypeOK, At

(* Every variable keeps its type, however many processes change the policy *)
(* and the executable at the same time.                                    *)
THEOREM UpdaterTypeCorrect == Spec => []TypeOK
<1>1. Init => TypeOK
  BY UpdaterInitType
<1>2. TypeOK /\ [Next]_vars => TypeOK'
  <2> SUFFICES ASSUME TypeOK, [Next]_vars PROVE TypeOK'
    OBVIOUS
  <2>1. ProcTypes'
    BY ProcTypesStep
  <2>2. latest' \in Versions /\ now' \in Nat
    <3>1. CASE UNCHANGED <<latest, now>>
      BY <3>1 DEF TypeOK
    <3>2. ASSUME NEW v \in Versions, Release(v)
          PROVE  latest' \in Versions /\ now' \in Nat
      BY <3>2 DEF TypeOK, Release
    <3>3. CASE Tick
      BY <3>3 DEF TypeOK, Tick
    <3>4. QED
      BY <3>1, <3>2, <3>3 DEF Next, ProcStep, vars, AutoBegins, InstallBegins, EnableBegins,
           DisableBegins, Checked, CheckFails, Installed, InstallFails, Saves, Ends,
           Replace
  <2>3. binary' \in Versions /\ byHand' \in BOOLEAN
    <3>1. \A p \in Procs : At(p, "install") => proc[p].found \in Versions
      BY DEF TypeOK, ProcStates
    <3>2. QED
      BY <3>1 DEF TypeOK, Next, ProcStep, vars, AutoBegins, InstallBegins, EnableBegins,
             DisableBegins, Checked, CheckFails, Installed, InstallFails, Saves, Ends,
             Release, Replace, Tick
  <2>4. policy' \in Policies /\ checkedAt' \in Nat \cup {None} /\ wish' \in BOOLEAN
    <3>1. ASSUME NEW p \in Procs, Saves(p)
          PROVE  policy' \in Policies /\ checkedAt' \in Nat \cup {None} /\ wish' \in BOOLEAN
      BY <3>1 DEF TypeOK, Saves, ProcStates
    <3>2. ASSUME UNCHANGED <<policy, checkedAt, wish>>
          PROVE  policy' \in Policies /\ checkedAt' \in Nat \cup {None} /\ wish' \in BOOLEAN
      BY <3>2 DEF TypeOK
    <3>3. QED
      BY <3>1, <3>2 DEF Next, ProcStep, vars, AutoBegins, InstallBegins, EnableBegins,
             DisableBegins, Checked, CheckFails, Installed, InstallFails, Ends,
             Release, Replace, Tick
  <2>5. QED
    BY <2>1, <2>2, <2>3, <2>4 DEF TypeOK, ProcTypes
<1>3. QED
  BY <1>1, <1>2, PTL DEF Spec

(* Any two versions the program meets are in order.                        *)
THEOREM VersionsInOrder == Spec => []VersionsAreOrdered
<1>1. TypeOK => VersionsAreOrdered
  <2> SUFFICES ASSUME TypeOK, NEW a \in {latest, binary}, NEW b \in Versions, NEW c \in Versions
               PROVE  /\ ~(Before(a, b) /\ Before(b, a))
                      /\ Before(a, b) \/ Before(b, a) \/ (a.core = b.core /\ a.pre = b.pre)
                      /\ Before(a, b) /\ Before(b, c) => Before(a, c)
    BY DEF VersionsAreOrdered
  <2>1. a \in Versions
    BY DEF TypeOK
  <2>2. QED
    BY <2>1, VersionOrder
<1>2. QED
  BY <1>1, UpdaterTypeCorrect, PTL

-----------------------------------------------------------------------------
(* At most one process is at work.                                         *)
Solo == \A p, q \in Procs : ~At(p, "off") /\ ~At(q, "off") => p = q

(* A version the policy may name: a release not ahead of the latest one,   *)
(* nor of the executable unless that was replaced by hand.                 *)
Known(v) ==
  v # None =>
    /\ v \in Versions /\ ~v.dev /\ ~Before(latest, v)
    /\ ~byHand => ~Before(binary, v) /\ ~Before(latest, binary)

(* What holds of a process between two of its steps.                       *)
Comparing(p) ==
  At(p, "check") =>
    /\ proc[p].version = binary \/ (policy.installed # None /\ proc[p].version = policy.installed)
    /\ proc[p].asked = None

Installing(p) ==
  At(p, "install") =>
    /\ proc[p].found \in Versions /\ ~proc[p].found.dev
    /\ ~Before(latest, proc[p].found)
    /\ policy.installed # None => ~Before(proc[p].found, policy.installed)
    /\ byHand \/ binary.dev \/ ~Before(proc[p].found, binary)
    /\ proc[p].asked # None

Wishing(p) ==
  /\ proc[p].op = "auto" => proc[p].copy.enabled /\ wish
  /\ proc[p].op = "enable" => proc[p].copy.enabled
  /\ proc[p].op = "disable" => ~proc[p].copy.enabled
  /\ At(p, "save") => proc[p].op \in {"auto", "enable", "disable"}
  /\ proc[p].op \in {"enable", "disable"} => At(p, "save")

Stamping(p) ==
  /\ proc[p].op \in {"enable", "disable"} => proc[p].copy.checked = checkedAt
  /\ proc[p].op = "auto" /\ ~At(p, "check") => proc[p].copy.checked = proc[p].asked

(* The inductive invariant.                                                *)
UpdaterInv ==
  /\ TypeOK /\ Solo /\ ~latest.dev
  /\ Known(policy.installed) /\ policy.enabled = wish /\ policy.checked = checkedAt
  /\ \A p \in Procs :
       ~At(p, "off") =>
         /\ Known(proc[p].copy.installed)
         /\ Comparing(p) /\ Installing(p) /\ Wishing(p) /\ Stamping(p)

(* The part of it about one process that is at work.                       *)
Sound(p) ==
  ~At(p, "off") =>
    /\ Known(proc[p].copy.installed)
    /\ Comparing(p) /\ Installing(p) /\ Wishing(p) /\ Stamping(p)

(* While one process is at work the others are not.                        *)
LEMMA AloneStep ==
  ASSUME UpdaterInv, NEW p \in Procs,
         Overlap = FALSE, Begins(p) \/ ~At(p, "off"),
         proc' \in [Procs -> ProcStates], \A q \in Procs : q # p => proc'[q] = proc[q]
  PROVE  Solo' /\ \A q \in Procs : q # p => At(q, "off")'
BY DEF UpdaterInv, Solo, Begins, At

(* A comparison in the order of versions says which one is older.          *)
LEMMA AvailableIsNewer ==
  ASSUME TypeOK, NEW v \in Versions, UpdateAvailable(v)
  PROVE  v.dev \/ ~Before(latest, v)
<1>1. latest \in Versions
  BY DEF TypeOK
<1>2. ~Before(v, v) /\ (Before(v, latest) /\ Before(latest, v) => Before(v, v))
  BY <1>1, VersionOrder
<1>3. QED
  BY <1>2, VersionParts DEF UpdateAvailable, CompareVersions

(* What a version is known for stays so while the latest release and the   *)
(* executable do.                                                          *)
LEMMA KnownStays ==
  ASSUME NEW v, Known(v), UNCHANGED <<latest, binary, byHand>>
  PROVE  Known(v)'
BY DEF Known, Before

(* A process that has just come to its next step changes nothing but       *)
(* itself.                                                                 *)
LEMMA SoundStep ==
  ASSUME UpdaterInv, NEW p \in Procs, Solo', ~latest'.dev, TypeOK',
         \A q \in Procs : q # p => At(q, "off")',
         Sound(p)', Known(policy.installed)',
         (policy.enabled = wish)', (policy.checked = checkedAt)'
  PROVE  UpdaterInv'
BY DEF UpdaterInv, Sound

(* Beginning a check.                                                      *)
LEMMA BeginsSound ==
  ASSUME UpdaterInv, TypeOK', Overlap = FALSE, NEW p \in Procs, AutoBegins(p) \/ InstallBegins(p)
  PROVE  UpdaterInv'
<1>1. UNCHANGED <<latest, binary, policy, now, byHand, checkedAt, wish>>
  BY DEF AutoBegins, InstallBegins
<1>2. /\ proc' \in [Procs -> ProcStates]
      /\ \A q \in Procs : q # p => proc'[q] = proc[q]
  BY DEF TypeOK, UpdaterInv, AutoBegins, InstallBegins, Becomes
<1>3. Solo' /\ \A q \in Procs : q # p => At(q, "off")'
  BY <1>2, AloneStep DEF AutoBegins, InstallBegins
<1>4. Known(policy.installed)' /\ Known(None)'
  BY <1>1, KnownStays DEF UpdaterInv, Known
<1>5. CASE AutoBegins(p)
  <2>1. proc'[p] = [Off EXCEPT !.pc = "check", !.op = "auto", !.copy = policy,
                     !.version = IF policy.installed # None THEN policy.installed ELSE binary]
    BY <1>5 DEF AutoBegins, Becomes, UpdaterInv, TypeOK
  <2>2. policy.enabled /\ wish
    BY <1>5 DEF AutoBegins, Due, UpdaterInv
  <2>3. /\ proc'[p].pc = "check" /\ proc'[p].op = "auto" /\ proc'[p].copy = policy
        /\ proc'[p].version = (IF policy.installed # None THEN policy.installed ELSE binary)
        /\ proc'[p].asked = None
    BY <2>1 DEF Off
  <2>4. Sound(p)'
    BY <1>1, <1>4, <2>2, <2>3 DEF Sound, Comparing, Installing, Wishing, Stamping, At
  <2>5. QED
    BY <1>1, <1>3, <1>4, <2>4, SoundStep DEF UpdaterInv
<1>6. CASE InstallBegins(p)
  <2>1. proc'[p] = [Off EXCEPT !.pc = "check", !.op = "install", !.version = binary]
    BY <1>6 DEF InstallBegins, Becomes, UpdaterInv, TypeOK
  <2>2. /\ proc'[p].pc = "check" /\ proc'[p].op = "install"
        /\ proc'[p].copy.installed = None /\ proc'[p].version = binary
        /\ proc'[p].asked = None
    BY <2>1 DEF Off, DefaultPolicy
  <2>3. Sound(p)'
    BY <1>1, <1>4, <2>2 DEF Sound, Comparing, Installing, Wishing, Stamping, At
  <2>4. QED
    BY <1>1, <1>3, <1>4, <2>3, SoundStep DEF UpdaterInv
<1>7. QED
  BY <1>5, <1>6

(* Beginning to change the policy.                                         *)
LEMMA PolicyCallSound ==
  ASSUME UpdaterInv, TypeOK', Overlap = FALSE, NEW p \in Procs,
         DisableBegins(p) \/ \E interval \in Intervals : EnableBegins(p, interval)
  PROVE  UpdaterInv'
<1>1. UNCHANGED <<latest, binary, policy, now, byHand, checkedAt, wish>>
  BY DEF DisableBegins, EnableBegins
<1>2. /\ proc' \in [Procs -> ProcStates]
      /\ \A q \in Procs : q # p => proc'[q] = proc[q]
  BY DEF TypeOK, UpdaterInv, DisableBegins, EnableBegins, Becomes
<1>3. Solo' /\ \A q \in Procs : q # p => At(q, "off")'
  BY <1>2, AloneStep DEF DisableBegins, EnableBegins
<1>4. Known(policy.installed)'
  BY <1>1, KnownStays DEF UpdaterInv
<1>5. /\ proc'[p].pc = "save"
      /\ proc'[p].copy.installed = policy.installed
      /\ proc'[p].copy.checked = policy.checked
      /\ \/ proc'[p].op = "enable" /\ proc'[p].copy.enabled
         \/ proc'[p].op = "disable" /\ ~proc'[p].copy.enabled
  <2>1. CASE DisableBegins(p)
    <3>1. proc'[p] = [Off EXCEPT !.pc = "save", !.op = "disable",
                       !.copy = [policy EXCEPT !.enabled = FALSE]]
      BY <2>1 DEF DisableBegins, Becomes, UpdaterInv, TypeOK
    <3>2. QED
      BY <3>1 DEF Off, UpdaterInv, TypeOK, Policies
  <2>2. ASSUME NEW interval \in Intervals, EnableBegins(p, interval)
        PROVE  /\ proc'[p].pc = "save" /\ proc'[p].op = "enable"
               /\ proc'[p].copy = Enabled(interval)
    <3>1. proc'[p] = [Off EXCEPT !.pc = "save", !.op = "enable", !.copy = Enabled(interval)]
      BY <2>2 DEF EnableBegins, Becomes, UpdaterInv, TypeOK
    <3>2. QED
      BY <3>1 DEF Off
  <2>3. \A interval \in Intervals :
          /\ Enabled(interval).installed = policy.installed
          /\ Enabled(interval).checked = policy.checked
          /\ Enabled(interval).enabled
    BY DEF Enabled, UpdaterInv, TypeOK, Policies
  <2>4. QED
    BY <2>1, <2>2, <2>3
<1>6. Sound(p)'
  BY <1>1, <1>4, <1>5 DEF Sound, Comparing, Installing, Wishing, Stamping, At, UpdaterInv
<1>7. QED
  BY <1>1, <1>3, <1>4, <1>6, SoundStep DEF UpdaterInv

(* The check: a process that finds a release newer than what it compares   *)
(* with will put nothing older in the place of the executable.             *)
LEMMA CheckSound ==
  ASSUME UpdaterInv, TypeOK', Overlap = FALSE, NEW p \in Procs, Checked(p) \/ CheckFails(p)
  PROVE  UpdaterInv'
<1>1. UNCHANGED <<latest, binary, policy, now, byHand, checkedAt, wish>> /\ At(p, "check")
  BY DEF Checked, CheckFails
<1>2. Sound(p) /\ TypeOK /\ proc[p] \in ProcStates /\ ~At(p, "off") /\ ~latest.dev
  BY <1>1 DEF UpdaterInv, Sound, TypeOK, At
<1>3. /\ proc' \in [Procs -> ProcStates]
      /\ \A q \in Procs : q # p => proc'[q] = proc[q]
  BY DEF TypeOK, UpdaterInv, Checked, CheckFails, Proceeds, Becomes
<1>4. Solo' /\ \A q \in Procs : q # p => At(q, "off")'
  BY <1>2, <1>3, AloneStep
<1>5. Known(policy.installed)' /\ Known(proc[p].copy.installed) /\ proc[p].asked = None
  BY <1>1, <1>2, KnownStays DEF UpdaterInv, Sound, Comparing
<1>6. \A ok \in BOOLEAN :
        /\ Stamped(p, ok).installed = proc[p].copy.installed
        /\ Stamped(p, ok).enabled = proc[p].copy.enabled
        /\ Stamped(p, ok).checked = now
  BY <1>2 DEF Stamped, ProcStates, Policies
<1>7. now # None /\ latest \in Versions /\ ~Before(latest, latest)
  BY <1>2, NoneIsNothing, VersionOrder DEF TypeOK
<1>8. ASSUME NEW ok \in BOOLEAN, Proceeds(p, Stamped(p, ok))
      PROVE  Sound(p)'
  <2>1. CASE proc[p].op = "auto"
    <3>1. proc'[p] = [proc[p] EXCEPT !.pc = "save", !.copy = Stamped(p, ok), !.found = None,
                                     !.asked = IF @ = None THEN now ELSE @]
      BY <1>2, <1>8, <2>1 DEF Proceeds, Becomes, TypeOK
    <3>2. /\ proc'[p].pc = "save" /\ proc'[p].op = "auto"
          /\ proc'[p].copy = Stamped(p, ok) /\ proc'[p].asked = now
      BY <1>2, <1>5, <2>1, <3>1 DEF ProcStates
    <3>3. Known(proc[p].copy.installed)'
      <4>1. proc'[p].copy.installed = proc[p].copy.installed
        BY <1>6, <3>2
      <4>2. QED
        BY <1>1, <1>5, <4>1, KnownStays DEF Known
    <3>4. QED
      BY <1>1, <1>2, <1>6, <2>1, <3>2, <3>3
         DEF Sound, Comparing, Installing, Wishing, Stamping, At
  <2>2. CASE proc[p].op # "auto"
    BY <1>2, <1>8, <2>2, OffType DEF Proceeds, Becomes, TypeOK, Sound, At
  <2>3. QED
    BY <2>1, <2>2
<1>9. ASSUME Checked(p), UpdateAvailable(proc[p].version)
      PROVE  Sound(p)'
  <2>1. proc'[p] = [proc[p] EXCEPT !.pc = "install", !.copy = Stamped(p, TRUE),
                                   !.found = latest, !.asked = now]
    BY <1>2, <1>9 DEF Checked, Becomes, TypeOK
  <2>2. /\ proc'[p].pc = "install" /\ proc'[p].op = proc[p].op
        /\ proc'[p].copy = Stamped(p, TRUE) /\ proc'[p].found = latest
        /\ proc'[p].asked = now
    BY <1>2, <2>1 DEF ProcStates
  <2>3. Known(proc[p].copy.installed)'
    <3>1. proc'[p].copy.installed = proc[p].copy.installed
      BY <1>6, <2>2
    <3>2. QED
      BY <1>1, <1>5, <3>1, KnownStays DEF Known
  <2>4. byHand \/ binary.dev \/ ~Before(latest, binary)
    <3>1. CASE proc[p].version = binary
      BY <1>2, <1>9, <3>1, AvailableIsNewer DEF TypeOK
    <3>2. CASE proc[p].version # binary
      BY <1>1, <1>2, <3>2 DEF Sound, Comparing, UpdaterInv, Known
    <3>3. QED
      BY <3>1, <3>2
  <2>5. policy.installed # None => ~Before(latest, policy.installed)
    BY DEF UpdaterInv, Known
  <2>6. Installing(p)'
    BY <1>1, <1>2, <1>7, <2>2, <2>4, <2>5 DEF Installing, At, Before
  <2>7. Comparing(p)' /\ Wishing(p)' /\ Stamping(p)'
    <3>1. proc[p].op \notin {"enable", "disable"}
      BY <1>1, <1>2 DEF Sound, Wishing, At
    <3>2. QED
      BY <1>1, <1>2, <1>6, <2>2, <3>1 DEF Sound, Comparing, Wishing, Stamping, At
  <2>8. QED
    BY <2>3, <2>6, <2>7 DEF Sound
<1>10. Sound(p)'
  BY <1>8, <1>9 DEF Checked, CheckFails
<1>11. QED
  BY <1>1, <1>2, <1>4, <1>5, <1>10, SoundStep DEF UpdaterInv

(* The installation, done or failed.                                       *)
LEMMA InstallSound ==
  ASSUME UpdaterInv, TypeOK', Overlap = FALSE, NEW p \in Procs, Installed(p) \/ InstallFails(p)
  PROVE  UpdaterInv'
<1>1. UNCHANGED <<latest, policy, now, checkedAt, wish>> /\ At(p, "install")
  BY DEF Installed, InstallFails
<1>2. Sound(p) /\ TypeOK /\ proc[p] \in ProcStates /\ ~At(p, "off") /\ ~latest.dev
  BY <1>1 DEF UpdaterInv, Sound, TypeOK, At
<1>3. /\ proc' \in [Procs -> ProcStates]
      /\ \A q \in Procs : q # p => proc'[q] = proc[q]
  BY DEF TypeOK, UpdaterInv, Installed, InstallFails, Proceeds, Becomes
<1>4. Solo' /\ \A q \in Procs : q # p => At(q, "off")'
  BY <1>2, <1>3, AloneStep
<1>5. /\ proc[p].found \in Versions /\ ~proc[p].found.dev
      /\ ~Before(latest, proc[p].found) /\ ~Before(proc[p].found, proc[p].found)
      /\ policy.installed # None => ~Before(proc[p].found, policy.installed)
      /\ proc[p].asked # None
  BY <1>1, <1>2, VersionOrder DEF Sound, Installing
<1>6. ASSUME NEW CONSTANT copy, copy \in Policies, Proceeds(p, copy), Known(copy.installed)',
             copy.enabled = proc[p].copy.enabled, copy.checked = proc[p].copy.checked
      PROVE  Sound(p)'
  <2>1. CASE proc[p].op = "auto"
    <3>1. proc'[p] = [proc[p] EXCEPT !.pc = "save", !.copy = copy, !.found = None,
                                     !.asked = IF @ = None THEN now ELSE @]
      BY <1>2, <1>6, <2>1 DEF Proceeds, Becomes, TypeOK
    <3>2. /\ proc'[p].pc = "save" /\ proc'[p].op = "auto"
          /\ proc'[p].copy = copy /\ proc'[p].asked = proc[p].asked
      BY <1>2, <1>5, <2>1, <3>1 DEF ProcStates
    <3>3. Known(proc[p].copy.installed)'
      <4>1. proc'[p].copy.installed = copy.installed
        BY <3>2
      <4>2. QED
        BY <1>6, <4>1 DEF Known
    <3>4. QED
      BY <1>1, <1>2, <1>6, <2>1, <3>2, <3>3
         DEF Sound, Comparing, Installing, Wishing, Stamping, At
  <2>2. CASE proc[p].op # "auto"
    BY <1>2, <1>6, <2>2, OffType DEF Proceeds, Becomes, TypeOK, Sound, At
  <2>3. QED
    BY <2>1, <2>2
<1>7. CASE Installed(p)
  <2>1. /\ binary' = proc[p].found /\ byHand' = FALSE
        /\ Proceeds(p, [proc[p].copy EXCEPT !.installed = proc[p].found])
    BY <1>7 DEF Installed
  <2>2. PICK copy : copy = [proc[p].copy EXCEPT !.installed = proc[p].found]
    OBVIOUS
  <2>3. /\ copy \in Policies /\ copy.installed = proc[p].found
        /\ copy.enabled = proc[p].copy.enabled /\ copy.checked = proc[p].copy.checked
    BY <1>2, <1>5, <2>2 DEF ProcStates, Policies
  <2>4. Known(copy.installed)'
    BY <1>1, <1>5, <2>1, <2>3 DEF Known, Before
  <2>5. Known(policy.installed)'
    BY <1>1, <1>5, <2>1 DEF UpdaterInv, Known, Before
  <2>6. Sound(p)'
    BY <1>6, <2>1, <2>2, <2>3, <2>4
  <2>7. QED
    BY <1>1, <1>2, <1>4, <2>5, <2>6, SoundStep DEF UpdaterInv
<1>8. CASE InstallFails(p)
  <2>1. UNCHANGED <<latest, binary, byHand>> /\ Proceeds(p, proc[p].copy)
    BY <1>8 DEF InstallFails
  <2>2. PICK copy : copy = proc[p].copy
    OBVIOUS
  <2>3. copy \in Policies
    BY <1>2, <2>2 DEF ProcStates
  <2>4. Known(copy.installed)' /\ Known(policy.installed)'
    <3>1. Known(copy.installed)
      BY <1>2, <2>2 DEF Sound
    <3>2. Known(copy.installed)'
      BY <1>1, <2>1, <3>1 DEF Known, Before
    <3>3. Known(policy.installed)'
      BY <1>1, <2>1 DEF UpdaterInv, Known, Before
    <3>4. QED
      BY <3>2, <3>3
  <2>5. Sound(p)'
    BY <1>6, <2>1, <2>2, <2>3, <2>4
  <2>6. QED
    BY <1>1, <1>2, <1>4, <2>4, <2>5, SoundStep DEF UpdaterInv
<1>9. QED
  BY <1>7, <1>8

(* The end of a process, with or without its save.                         *)
LEMMA EndSound ==
  ASSUME UpdaterInv, TypeOK', Overlap = FALSE, NEW p \in Procs, Saves(p) \/ Ends(p)
  PROVE  UpdaterInv'
<1>1. UNCHANGED <<latest, binary, now, byHand>> /\ Becomes(p, Off) /\ ~At(p, "off")
  BY DEF Saves, Ends, At
<1>2. Sound(p) /\ TypeOK /\ ~latest.dev
  BY <1>1 DEF UpdaterInv, Sound
<1>3. /\ proc' \in [Procs -> ProcStates] /\ proc'[p] = Off
      /\ \A q \in Procs : q # p => proc'[q] = proc[q]
  BY <1>1, <1>2, OffType, BecomesType DEF TypeOK
<1>4. Solo' /\ \A q \in Procs : q # p => At(q, "off")'
  BY <1>1, <1>3, AloneStep
<1>5. Sound(p)'
  BY <1>3, OffType DEF Sound, At
<1>6. Known(policy.installed)'
  BY <1>1, <1>2 DEF UpdaterInv, Sound, Known, Before, Saves, Ends
<1>7. (policy.enabled = wish)' /\ (policy.checked = checkedAt)'
  <2>1. CASE Saves(p)
    <3>1. Wishing(p) /\ Stamping(p) /\ At(p, "save") /\ policy' = proc[p].copy
      BY <1>1, <1>2, <2>1 DEF Saves, Sound
    <3>2. policy'.checked = checkedAt'
      BY <2>1, <3>1 DEF Saves, Wishing, Stamping, At
    <3>3. proc[p].copy.enabled \in BOOLEAN /\ wish \in BOOLEAN
      BY <1>2 DEF TypeOK, ProcStates, Policies
    <3>4. proc[p].op \in {"auto", "enable", "disable"}
      BY <3>1 DEF Wishing
    <3>5. CASE proc[p].op = "auto"
      <4>1. wish' = wish
        BY <2>1, <3>5 DEF Saves
      <4>2. proc[p].copy.enabled /\ wish
        BY <3>1, <3>5 DEF Wishing
      <4>3. QED
        BY <3>1, <3>2, <3>3, <4>1, <4>2
    <3>6. CASE proc[p].op = "enable"
      <4>1. wish' = TRUE
        BY <2>1, <3>6 DEF Saves
      <4>2. proc[p].copy.enabled
        BY <3>1, <3>6 DEF Wishing
      <4>3. QED
        BY <3>1, <3>2, <3>3, <4>1, <4>2
    <3>7. CASE proc[p].op = "disable"
      <4>1. wish' = FALSE
        BY <2>1, <3>7 DEF Saves
      <4>2. ~proc[p].copy.enabled
        BY <3>1, <3>7 DEF Wishing
      <4>3. QED
        BY <3>1, <3>2, <3>3, <4>1, <4>2
    <3>8. QED
      BY <3>4, <3>5, <3>6, <3>7
  <2>2. CASE Ends(p)
    BY <2>2 DEF Ends, UpdaterInv
  <2>3. QED
    BY <2>1, <2>2
<1>8. QED
  BY <1>1, <1>2, <1>4, <1>5, <1>6, <1>7, SoundStep

(* What happens around the processes.                                      *)
LEMMA WorldSound ==
  ASSUME UpdaterInv, TypeOK', Overlap = FALSE,
         Tick \/ \E v \in Versions : Release(v) \/ Replace(v)
  PROVE  UpdaterInv'
<1>1. UNCHANGED <<policy, proc, checkedAt, wish>> /\ TypeOK
  BY DEF Tick, Release, Replace, UpdaterInv
<1>2. Solo'
  BY <1>1 DEF UpdaterInv, Solo, At
<1>3. CASE Tick
  BY <1>1, <1>2, <1>3 DEF Tick, UpdaterInv, Known, Comparing, Installing, Wishing, Stamping, At, Before
<1>4. ASSUME NEW v \in Versions, Release(v)
      PROVE  UpdaterInv'
  <2>1. /\ latest' = v /\ ~v.dev /\ Before(latest, v)
        /\ UNCHANGED <<binary, byHand>>
    BY <1>4 DEF Release
  <2>2. \A w \in Versions : ~Before(latest, w) => ~Before(v, w)
    BY <1>1, <2>1, VersionOrder DEF TypeOK
  <2>3. \A w : Known(w) => Known(w)'
    <3>1. ASSUME NEW CONSTANT w, Known(w)
          PROVE  Known(w)'
      BY <1>1, <2>1, <2>2, <3>1 DEF Known, TypeOK, Before
    <3>2. QED
      BY <3>1
  <2>4. Known(policy.installed)' /\ ~latest'.dev
    <3>1. PICK w : w = policy.installed
      OBVIOUS
    <3>2. Known(w)'
      BY <2>3, <3>1 DEF UpdaterInv
    <3>3. QED
      BY <1>1, <2>1, <3>1, <3>2 DEF Known
  <2>5. ASSUME NEW p \in Procs, ~At(p, "off")'
        PROVE  /\ Known(proc[p].copy.installed)'
               /\ Comparing(p)' /\ Installing(p)' /\ Wishing(p)' /\ Stamping(p)'
    <3>1. Sound(p) /\ ~At(p, "off")
      BY <1>1, <2>5 DEF UpdaterInv, Sound, At
    <3>2. Known(proc[p].copy.installed)'
      <4>1. PICK w : w = proc[p].copy.installed
        OBVIOUS
      <4>2. Known(w)'
        BY <2>3, <3>1, <4>1 DEF Sound
      <4>3. QED
        BY <1>1, <4>1, <4>2 DEF Known
    <3>3. Installing(p)'
      BY <1>1, <2>1, <2>2, <3>1 DEF Sound, Installing, At, Before
    <3>4. Comparing(p)' /\ Wishing(p)' /\ Stamping(p)'
      BY <1>1, <2>1, <3>1 DEF Sound, Comparing, Wishing, Stamping, At
    <3>5. QED
      BY <3>2, <3>3, <3>4
  <2>6. QED
    BY <1>1, <1>2, <2>4, <2>5 DEF UpdaterInv
<1>5. ASSUME NEW v \in Versions, Replace(v)
      PROVE  UpdaterInv'
  <2>1. /\ latest' = latest /\ byHand' = (policy.installed # None)
        /\ \A p \in Procs : At(p, "off")
    BY <1>5 DEF Replace
  <2>2. Known(policy.installed)'
    BY <1>1, <2>1 DEF UpdaterInv, Known, Before
  <2>3. QED
    BY <1>1, <1>2, <2>1, <2>2 DEF UpdaterInv, At
<1>6. QED
  BY <1>3, <1>4, <1>5

(* What holds if no two processes are at work at the same time.            *)
LEMMA UpdaterSafe ==
  ASSUME Overlap = FALSE
  PROVE  Spec => []UpdaterInv
<1>1. Init => UpdaterInv
  <2> SUFFICES ASSUME Init, TypeOK PROVE UpdaterInv
    BY UpdaterInitType
  <2>1. \A p \in Procs : At(p, "off")
    BY OffType DEF Init, At
  <2>2. Known(policy.installed)
    BY DEF Init, DefaultPolicy, Known
  <2>3. QED
    BY <2>1, <2>2 DEF UpdaterInv, Init, Solo, DefaultPolicy
<1>2. UpdaterInv /\ TypeOK' /\ [Next]_vars => UpdaterInv'
  <2> SUFFICES ASSUME UpdaterInv, TypeOK', [Next]_vars PROVE UpdaterInv'
    OBVIOUS
  <2>1. CASE UNCHANGED vars
    BY <2>1 DEF vars, UpdaterInv, Solo, Known, Comparing, Installing, Wishing, Stamping, At, Before
  <2>2. CASE Next
    BY <2>2, BeginsSound, PolicyCallSound, CheckSound, InstallSound, EndSound, WorldSound
       DEF Next, ProcStep
  <2>3. QED
    BY <2>1, <2>2
<1>3. QED
  BY <1>1, <1>2, UpdaterTypeCorrect, PTL DEF Spec

(* The policy never claims a version that is not there: no release is      *)
(* skipped because of a failed installation or a dead process.             *)
THEOREM PolicyIsTrue ==
  ASSUME Overlap = FALSE
  PROVE  Spec => []NoReleaseSkipped
<1>1. UpdaterInv => NoReleaseSkipped
  BY DEF UpdaterInv, Known, NoReleaseSkipped
<1>2. QED
  BY <1>1, UpdaterSafe, PTL

(* No update is a step back, for any versions.                             *)
THEOREM UpdatesGoForward ==
  ASSUME Overlap = FALSE
  PROVE  Spec => NoDowngrade
<1>1. UpdaterInv => [\A p \in Procs :
        Installed(p) => byHand \/ binary.dev \/ ~Before(binary', binary)]_vars
  <2>1. ASSUME UpdaterInv, NEW p \in Procs, Installed(p)
        PROVE  byHand \/ binary.dev \/ ~Before(binary', binary)
    BY <2>1 DEF UpdaterInv, Installed, Installing, At, Before
  <2>2. QED
    BY <2>1
<1>2. QED
  BY <1>1, UpdaterSafe, PTL DEF NoDowngrade

(* A daemon updates only with the user's consent.                          *)
THEOREM UpdatesAreWanted ==
  ASSUME Overlap = FALSE
  PROVE  Spec => OptIn
<1>1. UpdaterInv => [\A p \in Procs : Installed(p) /\ proc[p].op = "auto" => wish]_vars
  <2>1. ASSUME UpdaterInv, NEW p \in Procs, Installed(p), proc[p].op = "auto"
        PROVE  wish
    BY <2>1 DEF UpdaterInv, Installed, Wishing, At
  <2>2. QED
    BY <2>1
<1>2. QED
  BY <1>1, UpdaterSafe, PTL DEF OptIn

(* GitHub is not asked more often than the user said.                      *)
THEOREM ChecksStaySpaced ==
  ASSUME Overlap = FALSE
  PROVE  Spec => ChecksAreSpaced
<1>1. UpdaterInv => [\A p \in Procs :
        AutoBegins(p) => Elapsed(checkedAt, policy.interval)]_vars
  <2>1. ASSUME UpdaterInv, NEW p \in Procs, AutoBegins(p)
        PROVE  Elapsed(checkedAt, policy.interval)
    BY <2>1 DEF UpdaterInv, AutoBegins, Due
  <2>2. QED
    BY <2>1
<1>2. QED
  BY <1>1, UpdaterSafe, PTL DEF ChecksAreSpaced
=============================================================================
