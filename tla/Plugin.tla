------------------------------- MODULE Plugin -------------------------------
(***************************************************************************)
(* The plugin's front door (pagerduty.go): concurrent operations, each     *)
(* dispatched to the handler of its resource type with the client of its   *)
(* target, and getClient's cache of clients behind the plugin's mutex.     *)
(*                                                                         *)
(* A client is built from the credential chain of pkg/config/config.go:    *)
(* PAGERDUTY_TOKEN in the process environment, else the token file.  The   *)
(* environment is fixed while the process lives; the file is rewritten by  *)
(* whoever rotates the token; a restart of the process empties the cache   *)
(* and loses the operations under way.                                     *)
(***************************************************************************)
EXTENDS Naturals, FiniteSets

CONSTANTS
  Ops,         \* operations formae asks of the plugin
  Requests,    \* what they may be: kind, target, and whether the resource type is registered
  Targets,     \* raw target configs: the keys of the cache
  BadTargets,  \* those that do not parse
  Tokens,      \* API tokens
  NoToken,     \* the empty token: no variable, no file
  NoOp,        \* nobody
  NoClient,    \* no entry in the cache
  MaxBuilt,    \* bound on the clients built
  MaxRestarts  \* bound on restarts of the process

Kinds == {"Create", "Read", "Update", "Delete", "Status", "List"}

Client == [id : 1 .. MaxBuilt, token : Tokens]
Tried  == Tokens \union {NoToken}

ASSUME ConstantsAssumption ==
  /\ BadTargets \subseteq Targets
  /\ Requests \subseteq [kind : Kinds, target : Targets, known : BOOLEAN]
  /\ NoToken \notin Tokens /\ NoOp \notin Ops
  /\ NoClient \notin Client
  /\ MaxBuilt \in Nat /\ MaxRestarts \in Nat

VARIABLES
  mu,        \* the operation that holds the mutex
  clients,   \* the cache
  built,     \* clients built so far; their ids
  env,       \* PAGERDUTY_TOKEN, trimmed
  file,      \* the content of the token file, trimmed
  restarts,  \* restarts so far
  pc,        \* where each operation is
  req,       \* its kind, its target, and whether its resource type is registered
  token,     \* cfg.Token of the client it is about to build
  client,    \* the client it was given
  result,    \* what it reported
  current,   \* history: the tokens the chain yielded at some time since it began
  given      \* history: the clients given out for each target since the process started

process == <<mu, clients, token, client>>
creds   == <<env, file>>
vars    == <<process, built, creds, restarts, pc, req, result, current, given>>

TypeOK ==
  /\ mu \in Ops \union {NoOp}
  /\ clients \in [Targets -> Client \union {NoClient}]
  /\ built \in 0 .. MaxBuilt
  /\ env \in Tried /\ file \in Tried
  /\ restarts \in 0 .. MaxRestarts
  /\ pc \in [Ops -> {"idle", "get", "lookup", "resolve", "readfile", "build", "call", "done"}]
  /\ req \in [Ops -> Requests]
  /\ token \in [Ops -> Tried]
  /\ client \in [Ops -> Client \union {NoClient}]
  /\ result \in [Ops -> {"none", "ok", "error", "empty", "InvalidRequest", "InvalidCredentials"}]
  /\ current \in [Ops -> SUBSET Tried]
  /\ given \in [Targets -> SUBSET Client]

Init ==
  /\ mu = NoOp
  /\ clients = [t \in Targets |-> NoClient]
  /\ built = 0
  /\ env \in Tried /\ file \in Tried
  /\ restarts = 0
  /\ pc = [o \in Ops |-> "idle"]
  /\ req \in [Ops -> Requests]
  /\ token = [o \in Ops |-> NoToken]
  /\ client = [o \in Ops |-> NoClient]
  /\ result = [o \in Ops |-> "none"]
  /\ current = [o \in Ops |-> {}]
  /\ given = [t \in Targets |-> {}]

-----------------------------------------------------------------------------
\* What the credential chain yields.
Chain(e, f) == IF e # NoToken THEN e ELSE f

Goto(o, l) == pc' = [pc EXCEPT ![o] = l]

Report(o, r) == Goto(o, "done") /\ result' = [result EXCEPT ![o] = r]

\* How an operation of this kind reports that it got no handler or no client: a
\* List hides both behind an empty page.
Refusal(o, code) == IF req[o].kind = "List" THEN "empty" ELSE code

Begin(o) ==
  /\ pc[o] = "idle"
  /\ IF req[o].known
     THEN Goto(o, "get") /\ UNCHANGED result
     ELSE Report(o, Refusal(o, "InvalidRequest"))
  /\ current' = [current EXCEPT ![o] = {Chain(env, file)}]
  /\ UNCHANGED <<process, built, creds, restarts, req, given>>

-----------------------------------------------------------------------------
(* getClient. *)

\* Mutant: the cache is not guarded.
LockAnyway(o) ==
  /\ pc[o] = "get"
  /\ mu' = o
  /\ Goto(o, "lookup")
  /\ UNCHANGED <<clients, token, client, built, creds, restarts, req, result, current, given>>

Lock(o) ==
  /\ pc[o] = "get"
  /\ mu = NoOp
  /\ mu' = o
  /\ Goto(o, "lookup")
  /\ UNCHANGED <<clients, token, client, built, creds, restarts, req, result, current, given>>

\* Mutant: the mutex is not released.
Keep(o) == mu' = mu

Release(o) == mu' = NoOp

\* getClient returns an error; its deferred Unlock runs.
NoClientFor(o) ==
  /\ Release(o)
  /\ Report(o, Refusal(o, "InvalidCredentials"))
  /\ UNCHANGED <<client, given>>

Give(o, c) ==
  /\ Release(o)
  /\ client' = [client EXCEPT ![o] = c]
  /\ given' = [given EXCEPT ![req[o].target] = @ \union {c}]
  /\ Goto(o, "call")
  /\ UNCHANGED result

Cached(o) ==
  /\ pc[o] = "lookup"
  /\ clients[req[o].target] # NoClient
  /\ Give(o, clients[req[o].target])
  /\ UNCHANGED <<clients, token, built, creds, restarts, req, current>>

NotCached(o) ==
  /\ pc[o] = "lookup"
  /\ clients[req[o].target] = NoClient
  /\ Goto(o, "resolve")
  /\ UNCHANGED <<process, built, creds, restarts, req, result, current, given>>

ParseFails(o) ==
  /\ pc[o] = "resolve"
  /\ req[o].target \in BadTargets
  /\ NoClientFor(o)
  /\ UNCHANGED <<clients, token, built, creds, restarts, req, current>>

\* Mutant: the token file is not consulted.
ReadEnvOnly(o) ==
  /\ pc[o] = "resolve"
  /\ req[o].target \notin BadTargets
  /\ token' = [token EXCEPT ![o] = env]
  /\ Goto(o, "build")
  /\ UNCHANGED <<mu, clients, client, built, creds, restarts, req, result, current, given>>

\* resolveToken: the environment first, then the file.
ReadEnv(o) ==
  /\ pc[o] = "resolve"
  /\ req[o].target \notin BadTargets
  /\ token' = [token EXCEPT ![o] = env]
  /\ Goto(o, IF env # NoToken THEN "build" ELSE "readfile")
  /\ UNCHANGED <<mu, clients, client, built, creds, restarts, req, result, current, given>>

ReadFile(o) ==
  /\ pc[o] = "readfile"
  /\ token' = [token EXCEPT ![o] = file]
  /\ Goto(o, "build")
  /\ UNCHANGED <<mu, clients, client, built, creds, restarts, req, result, current, given>>

\* Mutant: a config without a token is valid.
ValidAnyway(tk) == tk \in Tried

Valid(tk) == tk # NoToken

\* Validate refuses a config without a token, and nothing is stored.
Invalid(o) ==
  /\ pc[o] = "build"
  /\ ~Valid(token[o])
  /\ NoClientFor(o)
  /\ UNCHANGED <<clients, token, built, creds, restarts, req, current>>

Build(o) ==
  /\ pc[o] = "build"
  /\ Valid(token[o])
  /\ built < MaxBuilt
  /\ built' = built + 1
  /\ LET c == [id |-> built + 1, token |-> token[o]]
     IN  clients' = [clients EXCEPT ![req[o].target] = c] /\ Give(o, c)
  /\ UNCHANGED <<token, creds, restarts, req, current>>

-----------------------------------------------------------------------------
\* The handler does its calls with the client and reports; an error or a missing
\* result becomes a failure.
Call(o) ==
  /\ pc[o] = "call"
  /\ \E r \in {"ok", "error"} : Report(o, r)
  /\ UNCHANGED <<process, built, creds, restarts, req, current, given>>

\* The token file is written or removed; every operation under way may meet what
\* the chain yields from then on.
Rotate(t) ==
  /\ t # file
  /\ file' = t
  /\ current' = [o \in Ops |->
       IF pc[o] \in {"idle", "done"} THEN current[o] ELSE current[o] \union {Chain(env, t)}]
  /\ UNCHANGED <<process, built, env, restarts, pc, req, result, given>>

Restart(e) ==
  /\ restarts < MaxRestarts
  /\ restarts' = restarts + 1
  /\ mu' = NoOp
  /\ clients' = [t \in Targets |-> NoClient]
  /\ given' = [t \in Targets |-> {}]
  /\ env' = e
  /\ pc' = [o \in Ops |-> IF pc[o] = "done" THEN "done" ELSE "idle"]
  /\ token' = [o \in Ops |-> NoToken]
  /\ client' = [o \in Ops |-> NoClient]
  /\ UNCHANGED <<built, file, req, result, current>>

Terminated == (\A o \in Ops : pc[o] = "done") /\ UNCHANGED vars

Step(o) ==
  \/ Lock(o) \/ Cached(o) \/ NotCached(o) \/ ParseFails(o)
  \/ ReadEnv(o) \/ ReadFile(o) \/ Invalid(o) \/ Build(o) \/ Call(o)

Next ==
  \/ \E o \in Ops : Begin(o)
  \/ \E o \in Ops : Lock(o)
  \/ \E o \in Ops : Cached(o)
  \/ \E o \in Ops : NotCached(o)
  \/ \E o \in Ops : ParseFails(o)
  \/ \E o \in Ops : ReadEnv(o)
  \/ \E o \in Ops : ReadFile(o)
  \/ \E o \in Ops : Invalid(o)
  \/ \E o \in Ops : Build(o)
  \/ \E o \in Ops : Call(o)
  \/ \E t \in Tried : Rotate(t)
  \/ \E e \in Tried : Restart(e)
  \/ Terminated

\* Go schedules every goroutine; each operation runs once, so a mutex that is
\* always released is free for good in the end and weak fairness is enough.
\* Nothing restarts an operation that a crash has lost.
Spec == Init /\ [][Next]_vars /\ \A o \in Ops : WF_vars(Step(o))

-----------------------------------------------------------------------------
(* Properties. *)

\* While the process lives, all operations on a target get the same client: two
\* that miss the cache at the same time do not build one each, so connections
\* and retry state are shared.
OneClientPerTarget ==
  \A t \in Targets : Cardinality(given[t]) <= 1 /\ (clients[t] = NoClient => given[t] = {})

\* An operation is refused for want of credentials only if its target does not
\* parse or the chain was without a token at some time since the operation
\* began: a failure is never remembered, and no link of the chain is skipped.
RefusedOnlyWithoutToken ==
  \A o \in Ops :
    req[o].known /\ result[o] \in {"InvalidCredentials", "empty"}
      => req[o].target \in BadTargets \/ NoToken \in current[o]

\* An operation that waits for a client gets one, or its refusal, whoever else
\* fails: unless the process is restarted under it, it ends.
EveryOperationEnds == \A o \in Ops : pc[o] = "get" ~> pc[o] \in {"done", "idle"}

\* "The API token is resolved at operation time" (README, Target Config): the
\* token an operation uses is one the chain yielded since it began.
TokenResolvedAtOperationTime ==
  \A o \in Ops : pc[o] = "call" => client[o].token \in current[o]

\* The strengthening of OneClientPerTarget: the operation between Lock and
\* Unlock is alone there, and what it found missing in the cache stays missing
\* until it stores it.
Inside(o) == pc[o] \in {"lookup", "resolve", "readfile", "build"}

CacheInv ==
  /\ \A o \in Ops : Inside(o) => mu = o
  /\ \A o \in Ops : pc[o] \in {"resolve", "readfile", "build"} => clients[req[o].target] = NoClient
  /\ \A t \in Targets : given[t] \subseteq {clients[t]} \ {NoClient}

\* The strengthening of RefusedOnlyWithoutToken: an operation under way has in
\* current what the chain yields now, so the token it read is there too; and
\* nothing is reported before the end.
TokenInv ==
  /\ \A o \in Ops : pc[o] \notin {"idle", "done"} => Chain(env, file) \in current[o]
  /\ \A o \in Ops : pc[o] = "readfile" => env = NoToken
  /\ \A o \in Ops : pc[o] = "build" => token[o] \in current[o]
  /\ \A o \in Ops : pc[o] # "done" => result[o] = "none"
  /\ RefusedOnlyWithoutToken
=============================================================================
