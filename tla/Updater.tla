------------------------------- MODULE Updater -------------------------------
(***************************************************************************)
(* Self-update: internal/updater and internal/cli/update.go.  A daemon     *)
(* that starts updates itself first, if the policy file says so and the    *)
(* last check is long enough ago; `awp update install` does so on request  *)
(* and without the policy; `awp update auto enable|disable` rewrites the   *)
(* policy.  All of them are processes of their own without a common lock,  *)
(* and each may be killed between any two steps.                           *)
(*                                                                         *)
(* A process moves through                                                 *)
(*   off       is not at work                                              *)
(*   check     asks for the latest release                                 *)
(*   install   downloads and verifies it and renames it into place         *)
(*   save      writes the copy of the policy it loaded, as changed since   *)
(*                                                                         *)
(* Abstracted: archives, checksums and the temporary file (a failure       *)
(* before the rename leaves the executable as it was), and the spelling of *)
(* versions: a word in a prerelease is its rank in the order of strings.   *)
(***************************************************************************)
EXTENDS Integers, Sequences

CONSTANTS Versions,     \* bound: the versions there are
          Procs,        \* bound: daemons starting and calls at one time
          Intervals,    \* what is given as --interval-hours
          MaxTime,      \* bound on the clock, in hours
          Overlap,      \* may processes be at work at the same time?
          None

Identifiers == [numeric : BOOLEAN, value : Nat]

(* -dev: what was built without a version (cli.go:24).                     *)
SemanticVersions ==
  [core : [1..3 -> Nat], pre : Seq(Identifiers), dev : BOOLEAN]

ASSUME VersionsAssumption == Versions \subseteq SemanticVersions
ASSUME IntervalsAssumption == Intervals \subseteq Int
ASSUME OverlapAssumption == Overlap \in BOOLEAN
ASSUME NoneAssumption == None \notin Versions \cup Nat

VARIABLES
  latest,     \* GitHub: the latest release
  binary,     \* the version of the awp executable
  policy,     \* update.json
  proc,       \* the processes at work
  now,        \* the clock
  byHand,     \* was the executable replaced by other means since the policy
              \* learned what is installed?
  checkedAt,  \* history: the last check of a daemon that could save it
  wish        \* history: the user's last enable or disable that was saved

vars == <<latest, binary, policy, proc, now, byHand, checkedAt, wish>>

-----------------------------------------------------------------------------
(* The order of versions.                                                  *)

(* Numeric identifiers come before words.                                  *)
Smaller(x, y) ==
  \/ x.numeric /\ ~y.numeric
  \/ x.numeric = y.numeric /\ x.value < y.value

(* Mutant of PreBefore: the prefix rule is applied to a release, too.      *)
PrefixBefore(p, q) ==
  \/ p # << >> /\ q = << >>
  \/ \E i \in 1..Len(q) :
       /\ \A j \in 1..(i - 1) : j <= Len(p) /\ p[j] = q[j]
       /\ IF i > Len(p) THEN i = Len(p) + 1 ELSE Smaller(p[i], q[i])

(* The first identifier that differs decides, and where one list has ended *)
(* it is the smaller; every prerelease comes before its release.           *)
PreBefore(p, q) ==
  \/ p # << >> /\ q = << >>
  \/ /\ p # << >>
     /\ \E i \in 1..Len(q) :
          /\ \A j \in 1..(i - 1) : j <= Len(p) /\ p[j] = q[j]
          /\ IF i > Len(p) THEN i = Len(p) + 1 ELSE Smaller(p[i], q[i])

CoreBefore(m, n) ==
  \E i \in 1..3 : m[i] < n[i] /\ \A j \in 1..(i - 1) : m[j] = n[j]

Before(a, b) ==
  \/ CoreBefore(a.core, b.core)
  \/ a.core = b.core /\ PreBefore(a.pre, b.pre)

CompareVersions(a, b) ==
  IF Before(a, b) THEN -1 ELSE IF Before(b, a) THEN 1 ELSE 0

(* Mutant of UpdateAvailable: any other release will do.                   *)
AnyOther(version) == version.dev \/ CompareVersions(latest, version) # 0

(* Check: a build without a version takes any release.                     *)
UpdateAvailable(version) == version.dev \/ CompareVersions(latest, version) > 0

-----------------------------------------------------------------------------
(* The policy.                                                             *)

DefaultPolicy == [enabled |-> FALSE, interval |-> 24, checked |-> None, installed |-> None]

AnyPolicy(p) == TRUE      \* mutant of Valid

(* What LoadPolicy, SavePolicy and enable accept.                          *)
Valid(p) == p.interval >= 1

Elapsed(last, interval) == last # None => now - last >= interval

(* Mutant of Due: the opt-in is forgotten.                                 *)
DueByTime(p) == Elapsed(p.checked, p.interval)

Due(p) == p.enabled /\ Elapsed(p.checked, p.interval)

(* `asked` is history: when the process checked.                           *)
Off == [pc |-> "off", op |-> "none", copy |-> DefaultPolicy,
        version |-> None, found |-> None, asked |-> None]

Init ==
  /\ latest \in {v \in Versions : ~v.dev}
  /\ binary \in Versions
  /\ policy = DefaultPolicy
  /\ proc = [p \in Procs |-> Off]
  /\ now = 0
  /\ byHand = FALSE
  /\ checkedAt = None
  /\ wish = FALSE

At(p, pc) == proc[p].pc = pc
Begins(p) == At(p, "off") /\ (Overlap \/ \A q \in Procs : At(q, "off"))
Becomes(p, state) == proc' = [proc EXCEPT ![p] = state]

(* runAutomaticUpdate, at the start of the daemon: what the policy has     *)
(* installed last counts, and only without that the version that runs.     *)
AutoBegins(p) ==
  /\ Begins(p) /\ Due(policy)
  /\ Becomes(p, [Off EXCEPT !.pc = "check", !.op = "auto", !.copy = policy,
                   !.version = IF policy.installed # None THEN policy.installed ELSE binary])
  /\ UNCHANGED <<latest, binary, policy, now, byHand, checkedAt, wish>>

(* runUpdateInstall: the version that runs counts.                         *)
InstallBegins(p) ==
  /\ Begins(p)
  /\ Becomes(p, [Off EXCEPT !.pc = "check", !.op = "install", !.version = binary])
  /\ UNCHANGED <<latest, binary, policy, now, byHand, checkedAt, wish>>

(* runUpdateAuto: enable and disable.                                      *)
Enabled(interval) == [policy EXCEPT !.enabled = TRUE, !.interval = interval]

EnableBegins(p, interval) ==
  /\ Begins(p) /\ Valid(Enabled(interval))
  /\ Becomes(p, [Off EXCEPT !.pc = "save", !.op = "enable", !.copy = Enabled(interval)])
  /\ UNCHANGED <<latest, binary, policy, now, byHand, checkedAt, wish>>

DisableBegins(p) ==
  /\ Begins(p)
  /\ Becomes(p, [Off EXCEPT !.pc = "save", !.op = "disable",
                   !.copy = [policy EXCEPT !.enabled = FALSE]])
  /\ UNCHANGED <<latest, binary, policy, now, byHand, checkedAt, wish>>

(* A daemon goes on to the save, whatever came of its update; the command  *)
(* ends.                                                                   *)
Proceeds(p, copy) ==
  Becomes(p, IF proc[p].op = "auto"
             THEN [proc[p] EXCEPT !.pc = "save", !.copy = copy, !.found = None,
                                  !.asked = IF @ = None THEN now ELSE @] ELSE Off)

(* Mutant of Stamped: a failed check does not count.                       *)
StampedIf(p, ok) == IF ok THEN [proc[p].copy EXCEPT !.checked = now] ELSE proc[p].copy

Stamped(p, ok) == [proc[p].copy EXCEPT !.checked = now]

(* Client.Check, answered ...                                              *)
Checked(p) ==
  /\ At(p, "check")
  /\ IF UpdateAvailable(proc[p].version)
     THEN Becomes(p, [proc[p] EXCEPT !.pc = "install", !.copy = Stamped(p, TRUE),
                                     !.found = latest, !.asked = now])
     ELSE Proceeds(p, Stamped(p, TRUE))
  /\ UNCHANGED <<latest, binary, policy, now, byHand, checkedAt, wish>>

(* ... or not: offline, rate limited, no release.                          *)
CheckFails(p) ==
  /\ At(p, "check")
  /\ Proceeds(p, Stamped(p, FALSE))
  /\ UNCHANGED <<latest, binary, policy, now, byHand, checkedAt, wish>>

(* Client.Install up to the rename.                                        *)
Installed(p) ==
  /\ At(p, "install")
  /\ binary' = proc[p].found
  /\ byHand' = FALSE
  /\ Proceeds(p, [proc[p].copy EXCEPT !.installed = proc[p].found])
  /\ UNCHANGED <<latest, policy, now, checkedAt, wish>>

(* Mutant of InstallFails: the release counts as installed all the same.   *)
InstallClaims(p) ==
  /\ At(p, "install")
  /\ Proceeds(p, [proc[p].copy EXCEPT !.installed = proc[p].found])
  /\ UNCHANGED <<latest, binary, policy, now, byHand, checkedAt, wish>>

(* The download, the checksum, the archive or a file operation is no good. *)
InstallFails(p) ==
  /\ At(p, "install")
  /\ Proceeds(p, proc[p].copy)
  /\ UNCHANGED <<latest, binary, policy, now, byHand, checkedAt, wish>>

(* SavePolicy: temporary file and rename.                                  *)
Saves(p) ==
  /\ At(p, "save") /\ Valid(proc[p].copy)
  /\ policy' = proc[p].copy
  /\ checkedAt' = IF proc[p].op = "auto" THEN proc[p].asked ELSE checkedAt
  /\ wish' = CASE proc[p].op = "enable" -> TRUE [] proc[p].op = "disable" -> FALSE
               [] OTHER -> wish
  /\ Becomes(p, Off)
  /\ UNCHANGED <<latest, binary, now, byHand>>

(* The save fails, or the process dies: at any step, nothing is undone.    *)
Ends(p) ==
  /\ ~At(p, "off") /\ Becomes(p, Off)
  /\ UNCHANGED <<latest, binary, policy, now, byHand, checkedAt, wish>>

-----------------------------------------------------------------------------
(* What happens around it.                                                 *)

(* The project publishes releases in the order of their versions.          *)
Release(v) ==
  /\ ~v.dev /\ Before(latest, v)
  /\ latest' = v
  /\ UNCHANGED <<binary, policy, proc, now, byHand, checkedAt, wish>>

(* The user puts another build in the place of the executable.             *)
Replace(v) ==
  /\ Overlap \/ \A q \in Procs : At(q, "off")
  /\ binary' = v
  /\ byHand' = (policy.installed # None)
  /\ UNCHANGED <<latest, policy, proc, now, checkedAt, wish>>

Tick ==
  /\ now < MaxTime /\ now' = now + 1
  /\ UNCHANGED <<latest, binary, policy, proc, byHand, checkedAt, wish>>

ProcStep(p) ==
  \/ Checked(p) \/ CheckFails(p) \/ Installed(p) \/ InstallFails(p)
  \/ Saves(p) \/ Ends(p)

Next ==
  \/ \E p \in Procs :
       \/ AutoBegins(p) \/ InstallBegins(p) \/ DisableBegins(p) \/ ProcStep(p)
       \/ \E interval \in Intervals : EnableBegins(p, interval)
  \/ \E v \in Versions : Release(v) \/ Replace(v)
  \/ Tick

Spec == Init /\ [][Next]_vars
-----------------------------------------------------------------------------
(* Properties.                                                             *)

Policies ==
  [enabled : BOOLEAN, interval : Nat \ {0}, checked : Nat \cup {None},
   installed : Versions \cup {None}]

ProcStates ==
  [pc : {"off", "check", "install", "save"},
   op : {"none", "auto", "install", "enable", "disable"},
   copy : Policies, version : Versions \cup {None}, found : Versions \cup {None},
   asked : Nat \cup {None}]

(* The type invariant: a policy on disk or about to be saved is one that   *)
(* LoadPolicy accepts, and a process that compares or installs has what it *)
(* compares or installs.                                                   *)
TypeOK ==
  /\ latest \in Versions /\ binary \in Versions
  /\ policy \in Policies
  /\ proc \in [Procs -> ProcStates]
  /\ \A p \in Procs :
       /\ proc[p].pc \in {"check", "install"} => proc[p].version # None
       /\ At(p, "install") => proc[p].found # None
  /\ now \in Nat
  /\ byHand \in BOOLEAN /\ wish \in BOOLEAN
  /\ checkedAt \in Nat \cup {None}

(* CompareVersions puts the latest release and the executable in order     *)
(* with every version: of two that are spelled differently exactly one is  *)
(* older, and older than older is older (updater.go:342-396).              *)
VersionsAreOrdered ==
  \A a \in {latest, binary}, b, c \in Versions :
    /\ ~(Before(a, b) /\ Before(b, a))
    /\ Before(a, b) \/ Before(b, a) \/ (a.core = b.core /\ a.pre = b.pre)
    /\ Before(a, b) /\ Before(b, c) => Before(a, c)

(* What the policy says was installed is not ahead of the executable, so   *)
(* that comparing with it skips no release (update.go:156-169), through    *)
(* failed installations, dead processes and `update install` in between.   *)
NoReleaseSkipped ==
  policy.installed # None => byHand \/ ~Before(binary, policy.installed)

(* No update puts an older release in the place of a newer one, although   *)
(* the daemon compares with what the policy installed last and not with    *)
(* what is there (update.go:156-160).                                      *)
NoDowngrade ==
  [][\A p \in Procs :
       Installed(p) => byHand \/ binary.dev \/ ~Before(binary', binary)]_vars

(* The daemon asks GitHub at most once per interval, also when the last    *)
(* check or installation failed (update.go:147, 161, 173).                 *)
ChecksAreSpaced ==
  [][\A p \in Procs :
       AutoBegins(p) => Elapsed(checkedAt, policy.interval)]_vars

(* Automatic updates are opt-in: the daemon installs a release only if the *)
(* user's last word was enable (README.md:147), whatever saves of other    *)
(* processes come in between.                                              *)
OptIn ==
  [][\A p \in Procs : Installed(p) /\ proc[p].op = "auto" => wish]_vars
=============================================================================
