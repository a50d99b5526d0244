------------------------ MODULE RetryTransportProofs ------------------------
(***************************************************************************)
(* What the retrying transport guarantees for every value of MaxRetries.   *)
(* The argument: a POST is resent only after a 429, and a 429 removes the  *)
(* attempt it answers from the network for good; so at any time at most    *)
(* the latest attempt of a POST is at the server (PostInv).  From it       *)
(* follows that the transport implements RestCall.  Every step of the      *)
(* transport lowers what it has left to do (StepsLeft), so that a call     *)
(* takes a bounded number of them.                                         *)
(***************************************************************************)
EXTENDS RetryTransport, FiniteSetTheorems, TLAPS

\* Only a call that has a retry left waits for its timer.
AttemptsLeft == pc = "backoff" => attempt < MaxRetries

Typed == TypeOK /\ AttemptsLeft

-----------------------------------------------------------------------------
(* Types. *)

\* The loop counter starts in Attempts and stays there while a retry is left.
LEMMA AttemptsFacts ==
  /\ 0 \in Attempts
  /\ \A a \in Attempts : a \in Nat /\ (a < MaxRetries => a + 1 \in Attempts)
  /\ \A a \in Attempts : ~(a < MaxRetries) <=> a >= MaxRetries
BY MaxRetriesAssumption DEF Attempts

LEMMA TypedInit == Init => Typed
<1>. SUFFICES ASSUME Init PROVE Typed
  OBVIOUS
<1>1. TypeOK
  BY AttemptsFacts DEF Init, TypeOK
<1>2. AttemptsLeft
  BY DEF Init, AttemptsLeft
<1>. QED
  BY <1>1, <1>2 DEF Typed

LEMMA TypedStep == Typed /\ [Next]_vars => Typed'
<1>. SUFFICES ASSUME Typed, [Next]_vars PROVE Typed'
  OBVIOUS
<1>. USE DEF Typed, TypeOK, AttemptsLeft, transport, server
<1>1. CASE BufferBody
  BY <1>1 DEF BufferBody, Return
<1>2. CASE Send
  BY <1>2 DEF Send, Failures
<1>3. CASE Decide
  <2>1. CASE GiveUp /\ Return(answer)
    BY <1>3, <2>1 DEF Decide, Return
  <2>2. CASE ~GiveUp /\ pc' = "backoff" /\ open' = Drained /\ UNCHANGED result
    BY <1>3, <2>2, AttemptsFacts DEF Decide, Drained, GiveUp
  <2>. QED
    BY <1>3, <2>1, <2>2 DEF Decide
<1>4. CASE TimerFires
  BY <1>4, AttemptsFacts DEF TimerFires
<1>5. CASE CtxDone
  BY <1>5 DEF CtxDone, Return
<1>6. CASE Cancel
  BY <1>6 DEF Cancel
<1>7. ASSUME NEW a \in Attempts, Apply(a) PROVE Typed'
  BY <1>7 DEF Apply
<1>8. CASE Network
  BY <1>8 DEF Network, Accepted, Refused, ServerError, ConnectionLost, Answered, Statuses, Failures
<1>9. CASE UNCHANGED vars
  BY <1>9 DEF vars
<1>. QED
  BY <1>1, <1>2, <1>3, <1>4, <1>5, <1>6, <1>7, <1>8, <1>9 DEF Next, Network, Terminated

\* Every variable keeps to its type; in particular RoundTrip never makes more
\* than maxRetries + 1 attempts.
THEOREM TypeCorrect == Spec => []TypeOK
<1>1. Typed => TypeOK
  BY DEF Typed
<1>. QED
  BY <1>1, TypedInit, TypedStep, PTL DEF Spec

-----------------------------------------------------------------------------
(* POST: at most one effect, and none behind a refusal. *)

LEMMA PostInvInit == Init => PostInv
BY DEF Init, PostInv

LEMMA PostInvStep == Typed /\ PostInv /\ [Next]_vars => PostInv'
<1>. SUFFICES ASSUME Typed, PostInv, [Next]_vars, ~Idempotent(method)' PROVE PostInv'
  BY DEF PostInv
<1>. USE DEF transport, server
<1>0. ~Idempotent(method) /\ method' = method
  BY DEF Next, vars, BufferBody, Send, Decide, TimerFires, CtxDone, Cancel, Apply, Accepted,
         Refused, ServerError, ConnectionLost, Answered, Terminated, Idempotent
<1>1. CASE BufferBody
  BY <1>0, <1>1 DEF PostInv, BufferBody, Return
<1>2. CASE Send
  BY <1>0, <1>2 DEF PostInv, Send
<1>3. CASE Decide
  <2>1. CASE GiveUp /\ Return(answer)
    BY <1>0, <1>3, <2>1 DEF PostInv, Decide, Return
  <2>2. CASE ~GiveUp /\ pc' = "backoff"
    \* A POST goes on only after a 429.
    <3>1. answer = "429" /\ pc = "answered"
      BY <1>0, <1>3, <2>2 DEF Typed, TypeOK, Attempts, GiveUp, Retryable, Decide
    <3>. QED
      BY <1>0, <1>3, <2>2, <3>1 DEF PostInv, Decide
  <2>. QED
    BY <1>3, <2>1, <2>2 DEF Decide
<1>4. CASE TimerFires
  BY <1>0, <1>4 DEF PostInv, TimerFires
<1>5. CASE CtxDone
  BY <1>0, <1>5 DEF PostInv, CtxDone, Return
<1>6. CASE Cancel
  BY <1>0, <1>6 DEF PostInv, Cancel
<1>7. ASSUME NEW a \in Attempts, Apply(a) PROVE PostInv'
  BY <1>0, <1>7 DEF PostInv, Apply
<1>8. CASE Network
  <2>1. CASE Accepted
    BY <1>0, <2>1 DEF PostInv, Accepted, Answered
  <2>2. CASE Refused
    BY <1>0, <2>2 DEF PostInv, Refused, Answered
  <2>3. CASE ServerError
    BY <1>0, <2>3 DEF PostInv, ServerError, Answered
  <2>4. CASE ConnectionLost
    BY <1>0, <2>4 DEF PostInv, ConnectionLost, Answered
  <2>. QED
    BY <1>8, <2>1, <2>2, <2>3, <2>4 DEF Network
<1>9. CASE UNCHANGED vars
  BY <1>0, <1>9 DEF PostInv, vars
<1>. QED
  BY <1>1, <1>2, <1>3, <1>4, <1>5, <1>6, <1>7, <1>8, <1>9 DEF Next, Network, Terminated

LEMMA PostInvariant == Spec => [](Typed /\ PostInv)
BY TypedInit, TypedStep, PostInvInit, PostInvStep, PTL DEF Spec

\* The server executes a POST at most once, however the network behaves and
\* whatever the retry budget.
THEOREM PostExecutedAtMostOnce == Spec => []PostAtMostOnce
<1>1. Typed /\ PostInv => PostAtMostOnce
  <2>. SUFFICES ASSUME Typed, PostInv, ~Idempotent(method) PROVE Cardinality(applied) <= 1
    BY DEF PostAtMostOnce
  <2>1. applied \subseteq {attempt}
    BY DEF PostInv
  <2>2. IsFiniteSet({attempt}) /\ Cardinality({attempt}) = 1
    BY FS_Singleton
  <2>. QED
    BY <2>1, <2>2, FS_Subset
<1>. QED
  BY <1>1, PostInvariant, PTL

\* A POST that comes back with a client error or throttled was not executed and
\* never will be.
THEOREM RefusedPostDidNothing == Spec => []RefusedPostHasNoEffect
<1>1. PostInv => RefusedPostHasNoEffect
  BY DEF PostInv, RefusedPostHasNoEffect
<1>. QED
  BY <1>1, PostInvariant, PTL

-----------------------------------------------------------------------------
(* Response bodies and the retry budget. *)

LEMMA BodyInvInit == Init => BodyInv
BY DEF Init, BodyInv, BodiesAccountedFor

LEMMA BodyInvStep == Typed /\ BodyInv /\ [Next]_vars => BodyInv'
<1>. SUFFICES ASSUME Typed, BodyInv, [Next]_vars PROVE BodyInv'
  OBVIOUS
<1>. USE DEF BodyInv, BodiesAccountedFor, Statuses, transport, server
<1>1. CASE BufferBody
  BY <1>1 DEF BufferBody, Return
<1>2. CASE Send
  BY <1>2 DEF Send
<1>3. CASE Decide
  BY <1>3 DEF Decide, Return, Drained
<1>4. CASE TimerFires
  BY <1>4 DEF TimerFires
<1>5. CASE CtxDone
  BY <1>5 DEF CtxDone, Return
<1>6. CASE Cancel
  BY <1>6 DEF Cancel
<1>7. ASSUME NEW a \in Attempts, Apply(a) PROVE BodyInv'
  BY <1>7 DEF Apply
<1>8. CASE Network
  BY <1>8 DEF Network, Accepted, Refused, ServerError, ConnectionLost, Answered
<1>9. CASE UNCHANGED vars
  BY <1>9 DEF vars
<1>. QED
  BY <1>1, <1>2, <1>3, <1>4, <1>5, <1>6, <1>7, <1>8, <1>9 DEF Next, Network, Terminated

\* Every response body is closed by RoundTrip or left to its caller, on every
\* way out of the loop.
THEOREM EveryBodyAccountedFor == Spec => []BodiesAccountedFor
<1>1. BodyInv => BodiesAccountedFor
  BY DEF BodyInv
<1>. QED
  BY <1>1, TypedInit, TypedStep, BodyInvInit, BodyInvStep, PTL DEF Spec

\* A throttled call reaches the handler only when maxRetries retries were made,
\* and so does a failed call of an idempotent method.
THEOREM EveryRetrySpent == Spec => []RetriesSpent
<1>1. Init => RetriesSpent
  BY DEF Init, RetriesSpent
<1>2. Typed /\ RetriesSpent /\ [Next]_vars => RetriesSpent'
  <2>. SUFFICES ASSUME Typed, RetriesSpent, [Next]_vars PROVE RetriesSpent'
    OBVIOUS
  <2>. USE DEF RetriesSpent, transport, server
  <2>1. CASE BufferBody
    BY <2>1 DEF BufferBody, Return
  <2>2. CASE Decide
    <3>1. GiveUp /\ Retryable(method, answer) => attempt = MaxRetries
      BY MaxRetriesAssumption DEF Typed, TypeOK, Attempts, GiveUp
    <3>. QED
      BY <2>2, <3>1 DEF Decide, Return, Retryable
  <2>3. CASE CtxDone
    BY <2>3 DEF CtxDone, Return
  <2>4. ASSUME pc' # "done" PROVE RetriesSpent'
    BY <2>4
  <2>5. ASSUME UNCHANGED <<method, pc, attempt, result>> PROVE RetriesSpent'
    BY <2>5 DEF Idempotent
  <2>. QED
    BY <2>1, <2>2, <2>3, <2>4, <2>5
       DEF Next, vars, Send, TimerFires, Cancel, Apply, Accepted, Refused, ServerError,
           ConnectionLost, Answered, Terminated
<1>. QED
  BY <1>1, <1>2, TypedInit, TypedStep, PTL DEF Spec

-----------------------------------------------------------------------------
(* RoundTrip implements RestCall. *)

LEMMA AnswerInvInit == Init => AnswerInv
BY DEF Init, AnswerInv

LEMMA AnswerInvStep == Typed /\ AnswerInv /\ [Next]_vars => AnswerInv'
<1>. SUFFICES ASSUME Typed, AnswerInv, [Next]_vars PROVE AnswerInv'
  OBVIOUS
<1>. USE DEF AnswerInv, transport, server
<1>1. CASE BufferBody
  BY <1>1 DEF BufferBody, Return
<1>2. CASE Send
  BY <1>2 DEF Send
<1>3. CASE Decide
  BY <1>3 DEF Decide, Return
<1>4. CASE TimerFires
  BY <1>4 DEF TimerFires
<1>5. CASE CtxDone
  BY <1>5 DEF CtxDone, Return
<1>6. CASE Cancel
  BY <1>6 DEF Cancel
<1>7. ASSUME NEW a \in Attempts, Apply(a) PROVE AnswerInv'
  BY <1>7 DEF Apply
<1>8. CASE Network
  BY <1>8 DEF Network, Accepted, Refused, ServerError, ConnectionLost, Answered
<1>9. CASE UNCHANGED vars
  BY <1>9 DEF vars
<1>. QED
  BY <1>1, <1>2, <1>3, <1>4, <1>5, <1>6, <1>7, <1>8, <1>9 DEF Next, Network, Terminated

Inv == Typed /\ PostInv /\ AnswerInv

LEMMA Invariant == Spec => []Inv
BY TypedInit, TypedStep, PostInvInit, PostInvStep, AnswerInvInit, AnswerInvStep, PTL
   DEF Spec, Inv

\* An execution at the server is an effect of the abstract call, or repeats one.
LEMMA ApplyRefines ==
  ASSUME Inv, NEW a \in Attempts, Apply(a)
  PROVE  [Call!Next]_Call!vars
<1>1. Reply' = Reply /\ Idempotent(method)' = Idempotent(method)
  BY DEF Apply, transport, Reply, Idempotent
<1>2. CASE a \in applied
  BY <1>1, <1>2 DEF Apply, Call!vars
<1>3. CASE a \notin applied
  <2>1. Idempotent(method) \/ (applied = {} /\ Reply # "rejected")
    BY <1>3 DEF Inv, PostInv, AnswerInv, Apply, Reply, Typed, TypeOK, Statuses, Failures
  <2>. QED
    BY <1>1, <1>3, <2>1 DEF Apply, Call!Next, Call!TakeEffect
<1>. QED
  BY <1>2, <1>3

\* The end of RoundTrip is the reply of the abstract call.
LEMMA ReturnRefines ==
  ASSUME Inv, pc # "done", UNCHANGED <<method, applied>>,
         NEW r \in {"bodyerr", "ctxerr"} \union Statuses \union Failures, Return(r),
         r = "2xx" => applied # {},
         r \in {"4xx", "429"} => Idempotent(method) \/ applied = {}
  PROVE  [Call!Next]_Call!vars
<1>1. Reply = "pending" /\ UNCHANGED <<Idempotent(method), applied>>
  BY DEF Inv, AnswerInv, Reply, Idempotent
<1>2. result' = r
  BY DEF Return
<1>. USE DEF Statuses, Failures, Call!Next, Call!Answer, Reply
<1>3. CASE r = "2xx"
  BY <1>1, <1>2, <1>3 DEF Call!ReplyOk
<1>4. CASE r \in {"4xx", "429"}
  BY <1>1, <1>2, <1>4 DEF Call!ReplyRejected
<1>5. CASE r \in {"5xx", "neterr", "ctxerr", "bodyerr"}
  BY <1>1, <1>2, <1>5 DEF Call!ReplyUnknown
<1>. QED
  BY <1>3, <1>4, <1>5

\* Handlers may think of the client's calls as RestCalls: every step of the
\* transport, the network and the server is a step of the abstract call, or
\* none.
THEOREM Implements == Spec => ImplementsRestCall
<1>1. Init => Call!Init
  BY DEF Init, Call!Init, Reply, Idempotent
<1>2. Inv /\ [Next]_vars => [Call!Next]_Call!vars
  <2>. SUFFICES ASSUME Inv, [Next]_vars PROVE [Call!Next]_Call!vars
    OBVIOUS
  <2>. USE DEF transport, server
  <2>1. ASSUME UNCHANGED <<method, applied, result>> PROVE [Call!Next]_Call!vars
    BY <2>1 DEF Call!vars, Reply, Idempotent
  <2>2. CASE BufferBody
    <3>1. CASE Return("bodyerr")
      BY <2>2, <3>1, ReturnRefines DEF BufferBody
    <3>. QED
      BY <2>1, <2>2, <3>1 DEF BufferBody
  <2>3. CASE Decide
    <3>1. CASE GiveUp /\ Return(answer)
      <4>1. answer \in {"bodyerr", "ctxerr"} \union Statuses \union Failures
        BY <2>3 DEF Decide, Inv, AnswerInv, Typed, TypeOK
      <4>2. answer = "2xx" => applied # {}
        BY <2>3 DEF Decide, Inv, AnswerInv
      <4>3. answer \in {"4xx", "429"} => Idempotent(method) \/ applied = {}
        BY <2>3 DEF Decide, Inv, PostInv
      <4>. QED
        BY <2>3, <3>1, <4>1, <4>2, <4>3, ReturnRefines DEF Decide
    <3>. QED
      BY <2>1, <2>3, <3>1 DEF Decide
  <2>4. CASE CtxDone
    BY <2>4, ReturnRefines DEF CtxDone
  <2>5. ASSUME NEW a \in Attempts, Apply(a) PROVE [Call!Next]_Call!vars
    BY <2>5, ApplyRefines
  <2>. QED
    BY <2>1, <2>2, <2>3, <2>4, <2>5
       DEF Next, vars, Send, TimerFires, Cancel, Accepted, Refused, ServerError,
           ConnectionLost, Answered, Terminated
<1>. QED
  BY <1>1, <1>2, Invariant, PTL DEF Spec, ImplementsRestCall, Call!Spec
-----------------------------------------------------------------------------
(* How long the call waits. *)

LEMMA DelayFacts ==
  /\ BaseDelay \in Nat \ {0} /\ MaxDelay \in Nat \ {0} /\ Second \in Nat \ {0}
  /\ Word \in Nat \ {0} /\ MaxDelay < Word
BY DelayAssumption

LEMMA Modulo ==
  /\ \A x \in Int, m \in Nat \ {0} : x % m \in 0 .. m - 1
  /\ \A m \in Nat \ {0} : \A x \in 0 .. m - 1 : x % m = x
BY SMT

\* Arithmetic on durations stays in range, and is exact where nothing is lost.
LEMMA WrappedFacts ==
  ASSUME NEW x \in Int
  PROVE  /\ Wrapped(x) \in Int
         /\ x \in 0 .. Word - 1 => Wrapped(x) = x
<1>1. 2 * Word \in Nat \ {0} /\ x + Word \in Int
  BY DelayFacts
<1>2. (x + Word) % (2 * Word) \in 0 .. 2 * Word - 1
  BY <1>1, Modulo
<1>3. ASSUME x \in 0 .. Word - 1 PROVE (x + Word) % (2 * Word) = x + Word
  <2>1. x + Word \in 0 .. 2 * Word - 1
    BY <1>3, DelayFacts
  <2>. QED
    BY <1>1, <2>1, Modulo
<1>. QED
  BY <1>2, <1>3, DelayFacts DEF Wrapped

\* Doubling may overflow, the exponential delay never shows it.
LEMMA CeilingFacts ==
  ASSUME NEW n \in Nat
  PROVE  Ceiling(n) \in 1 .. MaxDelay
<1>1. 2 ^ n \in Int
  BY SMT
<1>2. BaseDelay * 2 ^ n \in Int
  BY <1>1, DelayFacts
<1>3. Wrapped(BaseDelay * 2 ^ n) \in Int
  BY <1>2, WrappedFacts
<1>. QED
  BY <1>3, DelayFacts DEF Ceiling

LEMMA HeaderFacts ==
  ASSUME NEW reset \in HeadersOf(answer), NEW after \in HeadersOf(answer)
  PROVE  RetryAfter(reset, after) \in Int
BY HeadersAssumption DEF HeadersOf, RetryAfter

\* What follows holds in every state whose loop counter has its type.
LEMMA WaitsAreShort == TypeOK => BackoffWithinBounds
<1>. SUFFICES ASSUME TypeOK, NEW reset \in HeadersOf(answer), NEW after \in HeadersOf(answer),
                     NEW w \in Wait(reset, after)
              PROVE  w <= MaxDelay /\ (RetryAfter(reset, after) < 0 => w >= 0)
  BY DEF BackoffWithinBounds
<1>. DEFINE secs == RetryAfter(reset, after)
<1>1. secs \in Int
  BY HeaderFacts
<1>2. attempt \in Nat
  BY MaxRetriesAssumption DEF TypeOK, Attempts
<1>3. CASE secs >= 0
  <2>1. w = Limited(Wrapped(secs * Second))
    BY <1>3 DEF Wait, Waits
  <2>2. Wrapped(secs * Second) \in Int
    BY <1>1, DelayFacts, WrappedFacts
  <2>. QED
    BY <1>1, <1>3, <2>1, <2>2, DelayFacts DEF Limited
<1>4. CASE ~(secs >= 0)
  <2>1. w \in 0 .. Ceiling(attempt)
    BY <1>4 DEF Wait, Waits
  <2>. QED
    BY <1>2, <2>1, CeilingFacts, DelayFacts
<1>. QED
  BY <1>3, <1>4

LEMMA HintsAreKept == HintHonored
<1>. SUFFICES ASSUME NEW reset \in HeadersOf(answer), NEW after \in HeadersOf(answer),
                     RetryAfter(reset, after) >= 0, RetryAfter(reset, after) * Second < Word,
                     NEW w \in Wait(reset, after)
              PROVE  w >= RetryAfter(reset, after) * Second \/ w = MaxDelay
  BY DEF HintHonored
<1>. DEFINE secs == RetryAfter(reset, after)
            d == secs * Second
<1>1. secs \in Int
  BY HeaderFacts
<1>2. d \in 0 .. Word - 1
  BY <1>1, DelayFacts
<1>3. Wrapped(d) = d
  BY <1>2, DelayFacts, WrappedFacts
<1>4. w = Limited(d)
  BY <1>3 DEF Wait, Waits
<1>. QED
  BY <1>2, <1>4, DelayFacts DEF Limited

\* No wait is longer than maxDelay, for any base delay, number of retries, width
\* of a duration and header: neither the doubling nor the hint can get past it.
THEOREM WaitsWithinBounds == Spec => []BackoffWithinBounds
BY TypeCorrect, WaitsAreShort, PTL

\* A hint that fits a duration is waited for, or maxDelay if that is sooner.
THEOREM HintsAreHonored == Spec => []HintHonored
BY HintsAreKept, PTL

-----------------------------------------------------------------------------
(* A call is bounded. *)

\* How far RoundTrip is from its end, within one turn of the loop.
Place(l) ==
  CASE l = "start" -> 5 [] l = "ready" -> 4 [] l = "sent" -> 3 [] l = "answered" -> 2
    [] l = "backoff" -> 1 [] l = "done" -> 0

StepsLeft == 5 * (MaxRetries - attempt) + Place(pc)

LEMMA StepsAreCounted == Typed => StepsLeft \in 0 .. 5 * MaxRetries + 5
<1>. SUFFICES ASSUME Typed PROVE StepsLeft \in 0 .. 5 * MaxRetries + 5
  OBVIOUS
<1>1. Place(pc) \in 0 .. 5
  BY DEF Typed, TypeOK, Place
<1>2. attempt \in 0 .. MaxRetries
  BY DEF Typed, TypeOK, Attempts
<1>. QED
  BY <1>1, <1>2, MaxRetriesAssumption DEF StepsLeft

LEMMA StepGoesOn == Typed /\ [Next]_vars => UNCHANGED transport \/ StepsLeft' < StepsLeft
<1>. SUFFICES ASSUME Typed, [Next]_vars PROVE UNCHANGED transport \/ StepsLeft' < StepsLeft
  OBVIOUS
<1>0. attempt \in Nat
  BY AttemptsFacts DEF Typed, TypeOK
<1>. USE MaxRetriesAssumption DEF StepsLeft, Place
<1>1. CASE BufferBody
  BY <1>0, <1>1 DEF BufferBody, Return
<1>2. CASE Send
  BY <1>0, <1>2 DEF Send
<1>3. CASE Decide
  BY <1>0, <1>3 DEF Decide, Return
<1>4. CASE TimerFires
  BY <1>0, <1>4 DEF TimerFires
<1>5. CASE CtxDone
  BY <1>0, <1>5 DEF CtxDone, Return
<1>6. CASE Network
  BY <1>0, <1>6 DEF Network, Accepted, Refused, ServerError, ConnectionLost, Answered
<1>7. CASE UNCHANGED transport
  BY <1>7
<1>. QED
  BY <1>1, <1>2, <1>3, <1>4, <1>5, <1>6, <1>7
     DEF Next, Network, Cancel, Apply, Terminated, vars, transport

\* No sequence of failures, hints and waits keeps a call going: RoundTrip takes
\* 5 * (maxRetries + 1) steps at most, whatever the server and the network do.
\* This is what EveryCallEnds rests on besides fairness.
THEOREM EveryCallIsBounded ==
  Spec => /\ [](StepsLeft \in 0 .. 5 * MaxRetries + 5)
          /\ [][UNCHANGED transport \/ StepsLeft' < StepsLeft]_vars
BY TypedInit, TypedStep, StepsAreCounted, StepGoesOn, PTL DEF Spec
=============================================================================
