---------------------------- MODULE PluginProofs ----------------------------
(***************************************************************************)
(* getClient gives every operation on a target the same client, for any    *)
(* number of operations, targets and tokens.  The argument: only one       *)
(* operation is between Lock and Unlock (the first part of CacheInv); so   *)
(* the entry it found missing is still missing when it stores its client   *)
(* (the second), and no second client is ever given out for the target     *)
(* (the third).                                                            *)
(*                                                                         *)
(* And it refuses none without a reason: what an operation reads of the    *)
(* credential chain is what the chain yielded at some time since it began  *)
(* (TokenInv).  No operation leaves the mutex locked, and none but those   *)
(* of a process that is restarted ever goes back.                          *)
(***************************************************************************)
EXTENDS Plugin, FiniteSetTheorems, TLAPS

Labels  == {"idle", "get", "lookup", "resolve", "readfile", "build", "call", "done"}
Results == {"none", "ok", "error", "empty", "InvalidRequest", "InvalidCredentials"}

-----------------------------------------------------------------------------
(* Types. *)

LEMMA Facts ==
  /\ \A o \in Ops : req \in [Ops -> Requests] => req[o].target \in Targets
  /\ NoToken \in Tried /\ Tokens = Tried \ {NoToken}
  /\ NoClient \notin Client
BY ConstantsAssumption DEF ConstantsAssumption, Tried

LEMMA BuiltFacts ==
  /\ 0 \in 0 .. MaxBuilt /\ 0 \in 0 .. MaxRestarts
  /\ \A b \in 0 .. MaxBuilt : b < MaxBuilt => b + 1 \in 0 .. MaxBuilt
  /\ \A b \in 0 .. MaxBuilt, k \in Tokens :
       b < MaxBuilt => [id |-> b + 1, token |-> k] \in Client
  /\ \A r \in 0 .. MaxRestarts : r < MaxRestarts => r + 1 \in 0 .. MaxRestarts
BY ConstantsAssumption DEF ConstantsAssumption, Client

LEMMA TypeInit == Init => TypeOK
BY Facts, BuiltFacts DEF Init, TypeOK

LEMMA TypeStep == TypeOK /\ [Next]_vars => TypeOK'
<1>. SUFFICES ASSUME TypeOK, [Next]_vars PROVE TypeOK'
  OBVIOUS
<1>. USE DEF TypeOK, process, creds, Goto, Report
<1>1. ASSUME NEW o \in Ops, Begin(o) PROVE TypeOK'
  BY <1>1, Facts DEF Begin, Refusal, Chain
<1>2. ASSUME NEW o \in Ops, Lock(o) PROVE TypeOK'
  BY <1>2 DEF Lock
<1>3. ASSUME NEW o \in Ops, Cached(o) PROVE TypeOK'
  BY <1>3, Facts DEF Cached, Give, Release
<1>4. ASSUME NEW o \in Ops, NotCached(o) PROVE TypeOK'
  BY <1>4 DEF NotCached
<1>5. ASSUME NEW o \in Ops, ParseFails(o) PROVE TypeOK'
  BY <1>5 DEF ParseFails, NoClientFor, Release, Refusal
<1>6. ASSUME NEW o \in Ops, ReadEnv(o) PROVE TypeOK'
  BY <1>6 DEF ReadEnv
<1>7. ASSUME NEW o \in Ops, ReadFile(o) PROVE TypeOK'
  BY <1>7 DEF ReadFile
<1>8. ASSUME NEW o \in Ops, Invalid(o) PROVE TypeOK'
  BY <1>8 DEF Invalid, NoClientFor, Release, Refusal
<1>9. ASSUME NEW o \in Ops, Build(o) PROVE TypeOK'
  <2>. DEFINE c == [id |-> built + 1, token |-> token[o]]
  <2>1. c \in Client /\ built + 1 \in 0 .. MaxBuilt /\ req[o].target \in Targets
    BY <1>9, Facts, BuiltFacts DEF Build, Valid
  <2>2. /\ clients' = [clients EXCEPT ![req[o].target] = c]
        /\ Give(o, c)
        /\ built' = built + 1
        /\ UNCHANGED <<token, creds, restarts, req, current>>
    BY <1>9 DEF Build
  <2>. QED
    BY <2>1, <2>2 DEF Give, Release
<1>10. ASSUME NEW o \in Ops, Call(o) PROVE TypeOK'
  BY <1>10 DEF Call
<1>11. ASSUME NEW t \in Tried, Rotate(t) PROVE TypeOK'
  BY <1>11, Facts DEF Rotate, Chain
<1>12. ASSUME NEW e \in Tried, Restart(e) PROVE TypeOK'
  BY <1>12, Facts, BuiltFacts DEF Restart
<1>13. CASE UNCHANGED vars
  BY <1>13 DEF vars
<1>. QED
  BY <1>1, <1>2, <1>3, <1>4, <1>5, <1>6, <1>7, <1>8, <1>9, <1>10, <1>11, <1>12, <1>13
     DEF Next, Terminated

\* Every variable keeps to its type; in particular only clients with a token
\* are ever cached or given out.
THEOREM TypeCorrect == Spec => []TypeOK
BY TypeInit, TypeStep, PTL DEF Spec

-----------------------------------------------------------------------------
(* One client for each target. *)

LEMMA CacheInit == Init => CacheInv
BY DEF Init, CacheInv, Inside

\* A step that leaves the cache alone and brings nobody in keeps the invariant.
LEMMA CacheUntouched ==
  ASSUME TypeOK, CacheInv, UNCHANGED <<mu, clients, req, given>>,
         \A p \in Ops : Inside(p)' => Inside(p),
         \A p \in Ops : pc'[p] \in {"resolve", "readfile", "build"}
           => pc[p] \in {"resolve", "readfile", "build"} \/ clients[req[p].target] = NoClient
  PROVE  CacheInv'
BY DEF CacheInv, Inside

\* The operation inside leaves, and what is cached for its target, if anything,
\* is what was given out.
LEMMA CacheLeft ==
  ASSUME TypeOK, CacheInv, NEW o \in Ops, Inside(o), Release(o), UNCHANGED req,
         \A p \in Ops \ {o} : pc'[p] = pc[p],
         ~Inside(o)',
         \A t \in Targets : given'[t] \subseteq {clients'[t]} \ {NoClient}
  PROVE  CacheInv'
<1>1. \A p \in Ops \ {o} : ~Inside(p)
  BY DEF CacheInv
<1>2. \A p \in Ops : ~Inside(p)'
  BY <1>1 DEF Inside
<1>. QED
  BY <1>2 DEF CacheInv, Inside

LEMMA CacheStep == TypeOK /\ CacheInv /\ [Next]_vars => CacheInv'
<1>. SUFFICES ASSUME TypeOK, CacheInv, [Next]_vars PROVE CacheInv'
  OBVIOUS
<1>0. \A o \in Ops : req[o].target \in Targets
  BY Facts DEF TypeOK
<1>1. ASSUME NEW o \in Ops, Begin(o) PROVE CacheInv'
  BY <1>1, CacheUntouched DEF TypeOK, Begin, Goto, Report, process, Inside
<1>2. ASSUME NEW o \in Ops, Lock(o) PROVE CacheInv'
  <2>1. \A p \in Ops : ~Inside(p)
    BY <1>2, ConstantsAssumption DEF ConstantsAssumption, Lock, CacheInv
  <2>. QED
    BY <1>2, <2>1 DEF Lock, Goto, TypeOK, CacheInv, Inside
<1>3. ASSUME NEW o \in Ops, Cached(o) PROVE CacheInv'
  BY <1>0, <1>3, CacheLeft DEF Cached, Give, Goto, TypeOK, CacheInv, Inside
<1>4. ASSUME NEW o \in Ops, NotCached(o) PROVE CacheInv'
  BY <1>4, CacheUntouched DEF TypeOK, NotCached, Goto, process, Inside
<1>5. ASSUME NEW o \in Ops, ParseFails(o) \/ Invalid(o) PROVE CacheInv'
  BY <1>5, CacheLeft
     DEF ParseFails, Invalid, NoClientFor, Report, Goto, TypeOK, CacheInv, Inside
<1>6. ASSUME NEW o \in Ops, ReadEnv(o) \/ ReadFile(o) PROVE CacheInv'
  BY <1>6, CacheUntouched DEF TypeOK, ReadEnv, ReadFile, Goto, Inside
<1>7. ASSUME NEW o \in Ops, Build(o) PROVE CacheInv'
  <2>. DEFINE u == req[o].target
              c == [id |-> built + 1, token |-> token[o]]
  <2>1. /\ u \in Targets /\ c # NoClient
        /\ clients' = [clients EXCEPT ![u] = c]
        /\ given' = [given EXCEPT ![u] = @ \union {c}]
    BY <1>0, <1>7, Facts, BuiltFacts DEF TypeOK, Build, Valid, Give
  <2>2. given[u] = {}
    BY <1>7, <2>1 DEF Build, CacheInv
  <2>3. \A t \in Targets : given'[t] \subseteq {clients'[t]} \ {NoClient}
    BY <2>1, <2>2 DEF TypeOK, CacheInv
  <2>. QED
    BY <1>7, <2>3, CacheLeft DEF Build, Give, Goto, TypeOK, Inside
<1>8. ASSUME NEW o \in Ops, Call(o) PROVE CacheInv'
  BY <1>8, CacheUntouched DEF TypeOK, Call, Report, Goto, process, Inside
<1>9. ASSUME NEW t \in Tried, Rotate(t) PROVE CacheInv'
  BY <1>9, CacheUntouched DEF TypeOK, Rotate, process, Inside
<1>10. ASSUME NEW e \in Tried, Restart(e) PROVE CacheInv'
  BY <1>10 DEF Restart, CacheInv, Inside
<1>11. CASE UNCHANGED vars
  BY <1>11, CacheUntouched DEF vars, process, Inside
<1>. QED
  BY <1>1, <1>2, <1>3, <1>4, <1>5, <1>6, <1>7, <1>8, <1>9, <1>10, <1>11 DEF Next, Terminated

\* Two operations on one target never use two clients while the process lives,
\* and a client that was given out stays in the cache.
THEOREM ClientsAreShared == Spec => []OneClientPerTarget
<1>1. TypeOK /\ CacheInv => OneClientPerTarget
  <2>. SUFFICES ASSUME CacheInv, NEW t \in Targets
       PROVE  Cardinality(given[t]) <= 1 /\ (clients[t] = NoClient => given[t] = {})
    BY DEF OneClientPerTarget
  <2>1. given[t] \subseteq {clients[t]} \ {NoClient}
    BY DEF CacheInv
  <2>2. IsFiniteSet({clients[t]}) /\ Cardinality({clients[t]}) = 1
    BY FS_Singleton
  <2>. QED
    BY <2>1, <2>2, FS_Subset
<1>. QED
  BY <1>1, TypeInit, TypeStep, CacheInit, CacheStep, PTL DEF Spec
-----------------------------------------------------------------------------
(* No refusal without a reason. *)

\* What TokenInv says of one operation, all of it about that operation alone.
Justified(o) ==
  /\ pc[o] \notin {"idle", "done"} => Chain(env, file) \in current[o]
  /\ pc[o] = "readfile" => env = NoToken
  /\ pc[o] = "build" => token[o] \in current[o]
  /\ pc[o] # "done" => result[o] = "none"
  /\ req[o].known /\ result[o] \in {"InvalidCredentials", "empty"}
       => req[o].target \in BadTargets \/ NoToken \in current[o]

LEMMA TokenInvByOperation == TokenInv <=> \A o \in Ops : Justified(o)
BY DEF TokenInv, RefusedOnlyWithoutToken, Justified

\* A step of one operation leaves what justifies the others alone.
LEMMA OthersJustified ==
  ASSUME TypeOK, NEW o \in Ops, NEW p \in Ops, p # o, Justified(p),
         UNCHANGED <<creds, req>>,
         pc'[p] = pc[p], token'[p] = token[p], result'[p] = result[p], current'[p] = current[p]
  PROVE  Justified(p)'
BY DEF Justified, creds, Chain

LEMMA StepJustified ==
  ASSUME TypeOK, NEW o \in Ops, Justified(o), Begin(o) \/ Step(o)
  PROVE  Justified(o)'
<1>. USE DEF TypeOK, Goto, Report, creds, process
<1>1. CASE Begin(o)
  BY <1>1 DEF Begin, Justified, Chain
<1>2. CASE Lock(o) \/ Cached(o) \/ NotCached(o)
  BY <1>2 DEF Lock, Cached, NotCached, Give, Justified, Chain
<1>3. CASE ParseFails(o)
  BY <1>3 DEF ParseFails, NoClientFor, Justified
<1>4. CASE ReadEnv(o)
  BY <1>4 DEF ReadEnv, Justified, Chain
<1>5. CASE ReadFile(o)
  BY <1>5 DEF ReadFile, Justified, Chain
<1>6. CASE Invalid(o)
  BY <1>6 DEF Invalid, Valid, NoClientFor, Justified
<1>7. CASE Build(o)
  BY <1>7 DEF Build, Give, Justified, Chain
<1>8. CASE Call(o)
  BY <1>8 DEF Call, Justified
<1>. QED
  BY <1>1, <1>2, <1>3, <1>4, <1>5, <1>6, <1>7, <1>8 DEF Step

\* A step of one operation changes its own entries only.
LEMMA OwnEntries ==
  ASSUME TypeOK, NEW o \in Ops, Begin(o) \/ Step(o), NEW p \in Ops, p # o
  PROVE  /\ UNCHANGED <<creds, req>>
         /\ pc'[p] = pc[p] /\ token'[p] = token[p]
         /\ result'[p] = result[p] /\ current'[p] = current[p]
<1>. USE DEF TypeOK, Goto, Report, creds, process
<1>1. CASE Begin(o)
  BY <1>1 DEF Begin
<1>2. CASE Step(o)
  BY <1>2 DEF Step, Lock, Cached, NotCached, Give, ParseFails, ReadEnv, ReadFile, Invalid,
              NoClientFor, Build, Call
<1>. QED
  BY <1>1, <1>2

LEMMA TokenStep == TypeOK /\ TokenInv /\ [Next]_vars => TokenInv'
<1>. SUFFICES ASSUME TypeOK, \A o \in Ops : Justified(o), [Next]_vars,
                     NEW p \in Ops
              PROVE  Justified(p)'
  BY TokenInvByOperation DEF TokenInv, RefusedOnlyWithoutToken, Justified
<1>1. ASSUME NEW o \in Ops, Begin(o) \/ Step(o) PROVE Justified(p)'
  <2>1. CASE p = o
    BY <1>1, <2>1, StepJustified
  <2>2. CASE p # o
    BY <1>1, <2>2, OwnEntries, OthersJustified
  <2>. QED
    BY <2>1, <2>2
<1>2. ASSUME NEW t \in Tried, Rotate(t) PROVE Justified(p)'
  BY <1>2 DEF Rotate, Justified, Chain, TypeOK, process
<1>3. ASSUME NEW e \in Tried, Restart(e) PROVE Justified(p)'
  BY <1>3 DEF Restart, Justified, TypeOK
<1>4. CASE UNCHANGED vars
  BY <1>4 DEF vars, creds, process, Justified, Chain
<1>. QED
  BY <1>1, <1>2, <1>3, <1>4 DEF Next, Step, Terminated

\* An operation is refused for want of credentials only if there was a time since
\* it began when its target or the whole chain gave none: for any number of
\* operations, rotations and restarts.
THEOREM RefusalsAreJustified == Spec => []RefusedOnlyWithoutToken
<1>1. Init => TokenInv
  BY DEF Init, TokenInv, RefusedOnlyWithoutToken
<1>2. TokenInv => RefusedOnlyWithoutToken
  BY DEF TokenInv
<1>. QED
  BY <1>1, <1>2, TypeInit, TypeStep, TokenStep, PTL DEF Spec

-----------------------------------------------------------------------------
(* Nobody waits for ever. *)

\* The mutex is never left locked: whoever holds it is between Lock and Unlock, so
\* that an operation that waits for it waits for one that goes on.
LockHeldInside == mu # NoOp => mu \in Ops /\ Inside(mu)

\* What an operation has still to do; Begin comes first.
Distance(l) ==
  CASE l = "idle" -> 7 [] l = "get" -> 6 [] l = "lookup" -> 5 [] l = "resolve" -> 4
    [] l = "readfile" -> 3 [] l = "build" -> 2 [] l = "call" -> 1 [] l = "done" -> 0

\* No step but a restart of the process takes an operation back.
OnlyOnwards ==
  [][restarts' = restarts
       => \A o \in Ops : pc'[o] = pc[o] \/ Distance(pc'[o]) < Distance(pc[o])]_vars

\* A step of one operation keeps the mutex, takes a free one, or gives its own back.
LEMMA StepLock ==
  ASSUME TypeOK, LockHeldInside, CacheInv, NEW o \in Ops, Begin(o) \/ Step(o)
  PROVE  LockHeldInside'
<1>. USE DEF TypeOK, Goto, Report, process, LockHeldInside, Inside
<1>1. CASE Begin(o)
  BY <1>1 DEF Begin
<1>2. CASE Lock(o)
  BY <1>2 DEF Lock
<1>3. CASE Cached(o) \/ ParseFails(o) \/ Invalid(o) \/ Build(o)
  BY <1>3 DEF Cached, ParseFails, Invalid, Build, Give, NoClientFor, Release
<1>4. CASE NotCached(o) \/ ReadEnv(o) \/ ReadFile(o)
  BY <1>4 DEF NotCached, ReadEnv, ReadFile
<1>5. CASE Call(o)
  BY <1>5 DEF Call
<1>. QED
  BY <1>1, <1>2, <1>3, <1>4, <1>5 DEF Step

LEMMA NextLock == TypeOK /\ CacheInv /\ LockHeldInside /\ [Next]_vars => LockHeldInside'
<1>. SUFFICES ASSUME TypeOK, CacheInv, LockHeldInside, [Next]_vars PROVE LockHeldInside'
  OBVIOUS
<1>1. ASSUME NEW o \in Ops, Begin(o) \/ Step(o) PROVE LockHeldInside'
  BY <1>1, StepLock
<1>2. ASSUME NEW t \in Tried, Rotate(t) PROVE LockHeldInside'
  BY <1>2 DEF Rotate, process, LockHeldInside, Inside
<1>3. ASSUME NEW e \in Tried, Restart(e) PROVE LockHeldInside'
  BY <1>3 DEF Restart, LockHeldInside
<1>4. CASE UNCHANGED vars
  BY <1>4 DEF vars, process, LockHeldInside, Inside
<1>. QED
  BY <1>1, <1>2, <1>3, <1>4 DEF Next, Step, Terminated

\* getClient unlocks on every way out, also when parsing, resolving or validating
\* fails, and a crash takes the mutex with it.
THEOREM LockIsNeverLeft == Spec => []LockHeldInside
<1>1. Init => LockHeldInside
  BY DEF Init, LockHeldInside
<1>. QED
  BY <1>1, TypeInit, TypeStep, CacheInit, CacheStep, NextLock, PTL DEF Spec

LEMMA Distances ==
  /\ Distance("idle") = 7 /\ Distance("get") = 6 /\ Distance("lookup") = 5
  /\ Distance("resolve") = 4 /\ Distance("readfile") = 3 /\ Distance("build") = 2
  /\ Distance("call") = 1 /\ Distance("done") = 0
BY DEF Distance

LEMMA StepOnwards ==
  ASSUME TypeOK, NEW o \in Ops, Begin(o) \/ Step(o)
  PROVE  Distance(pc'[o]) < Distance(pc[o])
<1>. USE Distances DEF TypeOK, Goto, Report
<1>1. CASE Begin(o)
  BY <1>1 DEF Begin
<1>2. CASE Lock(o)
  BY <1>2 DEF Lock
<1>3. CASE Cached(o) \/ NotCached(o)
  BY <1>3 DEF Cached, NotCached, Give
<1>4. CASE ParseFails(o)
  BY <1>4 DEF ParseFails, NoClientFor
<1>5. CASE ReadEnv(o)
  BY <1>5 DEF ReadEnv
<1>6. CASE ReadFile(o)
  BY <1>6 DEF ReadFile
<1>7. CASE Invalid(o)
  BY <1>7 DEF Invalid, NoClientFor
<1>8. CASE Build(o)
  BY <1>8 DEF Build, Give
<1>9. CASE Call(o)
  BY <1>9 DEF Call
<1>. QED
  BY <1>1, <1>2, <1>3, <1>4, <1>5, <1>6, <1>7, <1>8, <1>9 DEF Step

\* As long as the process lives every operation takes seven steps at most, however
\* many others run: no loop, and nothing is done over.  With LockIsNeverLeft this
\* is what EveryOperationEnds rests on besides fairness.
THEOREM OperationsGoOn == Spec => OnlyOnwards
<1>1. ASSUME TypeOK, [Next]_vars, restarts' = restarts, NEW p \in Ops
      PROVE  pc'[p] = pc[p] \/ Distance(pc'[p]) < Distance(pc[p])
  <2>1. ASSUME NEW o \in Ops, Begin(o) \/ Step(o)
        PROVE  pc'[p] = pc[p] \/ Distance(pc'[p]) < Distance(pc[p])
    <3>1. CASE p = o
      BY <1>1, <2>1, <3>1, StepOnwards
    <3>2. CASE p # o
      BY <1>1, <2>1, <3>2, OwnEntries
    <3>. QED
      BY <3>1, <3>2
  <2>2. ASSUME NEW t \in Tried, Rotate(t) PROVE pc'[p] = pc[p]
    BY <2>2 DEF Rotate
  <2>3. ASSUME NEW e \in Tried, Restart(e) PROVE FALSE
    BY <1>1, <2>3 DEF Restart, TypeOK
  <2>4. CASE UNCHANGED vars
    BY <2>4 DEF vars
  <2>. QED
    BY <1>1, <2>1, <2>2, <2>3, <2>4 DEF Next, Step, Terminated
<1>2. TypeOK /\ [Next]_vars
        => (restarts' = restarts
             => \A o \in Ops : pc'[o] = pc[o] \/ Distance(pc'[o]) < Distance(pc[o]))
  BY <1>1
<1>. QED
  BY <1>2, TypeInit, TypeStep, PTL DEF Spec, OnlyOnwards
=============================================================================
