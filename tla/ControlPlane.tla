----------------------------- MODULE ControlPlane -----------------------------
(***************************************************************************)
(* What the calls on the user's machine promise together, with the files,  *)
(* the PIDs and the callers left out: the registry is a map from sessions  *)
(* to workspaces that is changed by one operation at a time, and there is  *)
(* one daemon, which is started only when there is none and works only if  *)
(* something is bound.                                                     *)
(* Module Local implements this as long as calls do not overlap.           *)
(***************************************************************************)
CONSTANTS Providers, SessionIds, Workspaces, None

VARIABLES
  bound,    \* the workspace of each session that is bound
  daemon    \* the daemon that start recorded or is about to record

vars == <<bound, daemon>>

Keys == Providers \X SessionIds
OfProvider(provider) == {key \in Keys : key[1] = provider}

Init ==
  /\ bound = [key \in {} |-> None]
  /\ daemon = "none"

Bind(key, workspace) ==
  /\ bound' = [k \in DOMAIN bound \cup {key} |-> IF k = key THEN workspace ELSE bound[k]]
  /\ UNCHANGED daemon

Unbind(keys) ==
  /\ bound' = [k \in DOMAIN bound \ keys |-> bound[k]]
  /\ UNCHANGED daemon

Start ==
  /\ daemon = "none"
  /\ daemon' = "booting"
  /\ UNCHANGED bound

Work ==
  /\ daemon = "booting" /\ DOMAIN bound # {}
  /\ daemon' = "working"
  /\ UNCHANGED bound

(* It is stopped or dies, or its PID is lost, with or without work done.   *)
End ==
  /\ daemon # "none"
  /\ daemon' = "none"
  /\ UNCHANGED bound

Next ==
  \/ \E key \in Keys :
       \/ \E workspace \in Workspaces \cup {None} : Bind(key, workspace)
       \/ Unbind({key})
  \/ \E provider \in Providers : Unbind(OfProvider(provider))
  \/ Unbind(Keys)
  \/ Start \/ Work \/ End

Spec == Init /\ [][Next]_vars
=============================================================================
