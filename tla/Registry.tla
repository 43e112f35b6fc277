------------------------------ MODULE Registry ------------------------------
(***************************************************************************)
(* The session registry (internal/sessions/registry.go): which runtime     *)
(* session, in which workspace, is bound to a provider's session.  The     *)
(* operators are the changes of a loaded registry; the load and the save   *)
(* are actions of Local.                                                   *)
(*                                                                         *)
(* Abstracted: a registry is the set of its bindings, since List sorts     *)
(* them and lookups are by key; a binding is its key and its workspace,    *)
(* since adapter, runtime session id, resume command and metadata decide   *)
(* nothing beyond the validation in Bind.                                  *)
(***************************************************************************)
CONSTANTS Providers, SessionIds, Workspaces,
          None          \* "no such thing": an argument or field left empty

Keys == Providers \X SessionIds
Bindings == [key : Keys, workspace : Workspaces \cup {None}]

Bound(registry, key) == \E b \in registry : b.key = key

(* Mutant of Bind: an existing binding is not looked for.                  *)
BindAgain(registry, b) == registry \cup {b}

(* Mutant of Bind: a binding of another provider is replaced as well.      *)
BindSession(registry, b) == {x \in registry : x.key[2] # b.key[2]} \cup {b}

(* An existing binding is replaced.                                        *)
Bind(registry, b) == {x \in registry : x.key # b.key} \cup {b}

(* Mutant of Remove: the provider is not compared.                         *)
RemoveSession(registry, key) == {x \in registry : x.key[2] # key[2]}

Remove(registry, key) == {x \in registry : x.key # key}

(* `sessions remove --all`: every binding, or every one of a provider.     *)
RemoveAll(registry, provider) ==
  {x \in registry : provider # None /\ x.key[1] # provider}

(* What an MCP call asks for: its arguments, which may be empty, and the   *)
(* workspace it runs in.                                                   *)
Asks == [provider : Providers \cup {None}, session : SessionIds \cup {None},
         workspace : Workspaces]

(* Mutant of Matches: the workspace is not compared.                       *)
MatchesAnywhere(b, ask) ==
  ask.provider \in {None, b.key[1]} /\ ask.session \in {None, b.key[2]}

Matches(b, ask) ==
  /\ b.workspace = ask.workspace
  /\ ask.provider \in {None, b.key[1]} /\ ask.session \in {None, b.key[2]}

(* resolveSession answers only if it need not guess.                       *)
Candidates(registry, ask) == {b \in registry : Matches(b, ask)}
=============================================================================
