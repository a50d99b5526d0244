--------------------------- MODULE RetryTransport ---------------------------
(***************************************************************************)
(* retryTransport.RoundTrip of pkg/config/retry.go: one API call, resent   *)
(* until it is answered for good, its retries are spent or its context is  *)
(* done.  The transport shares nothing between calls, so one call is       *)
(* modelled; its method is any of the methods the client may use.          *)
(*                                                                         *)
(* The other actors are the PagerDuty server and the network between.  An  *)
(* attempt that was put on the wire stays "live" until the server has      *)
(* executed or refused it.  A 5xx or a broken connection settles nothing:  *)
(* the attempt may have been executed already, or be executed later, even  *)
(* when the caller has long gone on.                                       *)
(***************************************************************************)
EXTENDS Naturals, FiniteSets, Backoff

CONSTANTS
  MaxRetries,  \* rt.maxRetries
  Headers      \* values of ratelimit-reset and Retry-After; negative: none

ASSUME MaxRetriesAssumption == MaxRetries \in Nat
ASSUME HeadersAssumption == -1 \in Headers /\ Headers \subseteq Int

Methods  == {"GET", "HEAD", "OPTIONS", "PUT", "DELETE", "POST", "PATCH"}
Attempts == 0 .. MaxRetries
Statuses == {"2xx", "4xx", "429", "5xx"}
Failures == {"neterr"}

VARIABLES
  method,     \* req.Method
  pc,         \* where RoundTrip is
  attempt,    \* the loop counter
  answer,     \* resp, err of the latest base.RoundTrip
  open,       \* attempts whose response body nobody has closed yet
  result,     \* what RoundTrip returned
  cancelled,  \* req.Context() is done
  live,       \* attempts the server may still execute
  applied     \* attempts the server has executed

transport == <<pc, attempt, answer, open, result>>
server    == <<live, applied>>
vars      == <<method, transport, cancelled, server>>

Init ==
  /\ method \in Methods
  /\ pc = "start"
  /\ attempt = 0
  /\ answer = "none"
  /\ open = {}
  /\ result = "none"
  /\ cancelled = FALSE
  /\ live = {}
  /\ applied = {}

TypeOK ==
  /\ method \in Methods
  /\ pc \in {"start", "ready", "sent", "answered", "backoff", "done"}
  /\ attempt \in Attempts
  /\ answer \in {"none"} \union Statuses \union Failures
  /\ open \subseteq Attempts
  /\ result \in {"none", "bodyerr", "ctxerr"} \union Statuses \union Failures
  /\ cancelled \in BOOLEAN
  /\ live \subseteq Attempts
  /\ applied \subseteq Attempts

-----------------------------------------------------------------------------
(* The retry policy. *)

Idempotent(m) == m \in {"GET", "HEAD", "PUT", "DELETE", "OPTIONS"}

\* Mutant: the method is not looked at.
RetryableAnyMethod(m, a) == a \in {"429", "5xx", "neterr"}

Retryable(m, a) ==
  \/ a = "429"
  \/ a \in {"5xx", "neterr"} /\ Idempotent(m)

\* Mutant: the last retry is never made.
GiveUpOneEarly == attempt + 1 >= MaxRetries \/ ~Retryable(method, answer)

\* Mutant: the retries are not counted against maxRetries.
GiveUpUnbounded == ~Retryable(method, answer)

GiveUp == attempt >= MaxRetries \/ ~Retryable(method, answer)

-----------------------------------------------------------------------------
(* RoundTrip. *)

Return(r) == pc' = "done" /\ result' = r

\* The body is read whole before anything is sent; a body that cannot be read
\* ends the call.
BufferBody ==
  /\ pc = "start"
  /\ \/ pc' = "ready" /\ UNCHANGED result
     \/ Return("bodyerr")
  /\ UNCHANGED <<method, attempt, answer, open, cancelled, server>>

\* base.RoundTrip puts the request on the wire, or fails at once when the
\* context is already done.
Send ==
  /\ pc = "ready"
  /\ \/ /\ ~cancelled
        /\ pc' = "sent"
        /\ live' = live \union {attempt}
        /\ UNCHANGED answer
     \/ /\ cancelled
        /\ pc' = "answered"
        /\ answer' = "neterr"
        /\ UNCHANGED live
  /\ UNCHANGED <<method, attempt, open, result, cancelled, applied>>

\* Mutant: the response is dropped with its body open.
NotDrained == open

Drained == open \ {attempt}

\* The response of a settled call is handed over with its body open; before
\* another attempt the response is drained and closed.
Decide ==
  /\ pc = "answered"
  /\ \/ GiveUp /\ Return(answer) /\ UNCHANGED open
     \/ ~GiveUp /\ pc' = "backoff" /\ open' = Drained /\ UNCHANGED result
  /\ UNCHANGED <<method, attempt, answer, cancelled, server>>

\* A broken connection brings no response to read headers from.
HeadersOf(a) == IF a \in Failures THEN {-1} ELSE Headers

\* The waits before the next attempt; which of them it is makes no difference to
\* the steps.
Wait(reset, after) == Waits(attempt, reset, after)

\* Mutant: the loop does not count its attempts.
TimerFiresUncounted ==
  /\ pc = "backoff"
  /\ pc' = "ready"
  /\ UNCHANGED <<method, attempt, answer, open, result, cancelled, server>>

\* The two arms of the select.  When both are ready either may be taken.
TimerFires ==
  /\ pc = "backoff"
  /\ pc' = "ready"
  /\ attempt' = attempt + 1
  /\ UNCHANGED <<method, answer, open, result, cancelled, server>>

CtxDone ==
  /\ pc = "backoff"
  /\ cancelled
  /\ Return("ctxerr")
  /\ UNCHANGED <<method, attempt, answer, open, cancelled, server>>

-----------------------------------------------------------------------------
(* The caller's context, the server and the network. *)

Cancel ==
  /\ pc # "done"
  /\ ~cancelled
  /\ cancelled' = TRUE
  /\ UNCHANGED <<method, transport, server>>

\* The server executes an attempt, possibly long after it was abandoned.
Apply(a) ==
  /\ a \in live
  /\ live' = live \ {a}
  /\ applied' = applied \union {a}
  /\ UNCHANGED <<method, transport, cancelled>>

Answered(a) ==
  /\ pc = "sent"
  /\ pc' = "answered"
  /\ answer' = a
  /\ UNCHANGED <<method, attempt, result, cancelled, applied>>

Accepted ==
  /\ attempt \in applied
  /\ Answered("2xx")
  /\ open' = open \union {attempt}
  /\ UNCHANGED live

\* A client error or a throttled request was not executed and never will be.
Refused ==
  /\ attempt \in live
  /\ \E a \in {"4xx", "429"} : Answered(a)
  /\ open' = open \union {attempt}
  /\ live' = live \ {attempt}

ServerError == Answered("5xx") /\ open' = open \union {attempt} /\ UNCHANGED live

ConnectionLost == Answered("neterr") /\ UNCHANGED <<open, live>>

Network == Accepted \/ Refused \/ ServerError \/ ConnectionLost

-----------------------------------------------------------------------------
Terminated == pc = "done" /\ UNCHANGED vars

RoundTrip == BufferBody \/ Send \/ Decide \/ TimerFires \/ CtxDone

Next ==
  \/ BufferBody
  \/ Send
  \/ Decide
  \/ TimerFires
  \/ CtxDone
  \/ Cancel
  \/ \E a \in Attempts : Apply(a)
  \/ Accepted
  \/ Refused
  \/ ServerError
  \/ ConnectionLost
  \/ Terminated

\* The transport's own steps are taken, and base.RoundTrip returns once the
\* context is done: that is all the code itself guarantees.
CallerFairness == WF_vars(RoundTrip) /\ WF_vars(cancelled /\ ConnectionLost)

\* Every request on the wire is answered or fails in the end.
NetworkFairness == WF_vars(Network)

Spec == Init /\ [][Next]_vars /\ CallerFairness

-----------------------------------------------------------------------------
(* Properties. *)

\* A POST is executed at most once, over all its attempts and whatever becomes
\* of the abandoned ones: it "must not be replayed into a duplicate resource"
\* (the comment of retryable).
PostAtMostOnce == ~Idempotent(method) => Cardinality(applied) <= 1

\* When a POST comes back refused, no attempt was executed and none ever will
\* be: the handler may report the resource as not created.
RefusedPostHasNoEffect ==
  pc = "done" /\ ~Idempotent(method) /\ result \in {"4xx", "429"}
    => applied = {} /\ live = {}

\* RoundTrip closes the body of every response it does not return, on every
\* way out of the loop, and leaves the one it returns to its caller.
BodiesAccountedFor ==
  pc = "done" => open = IF result \in Statuses THEN {attempt} ELSE {}

\* A throttled call, and a failed idempotent one, reach the handler only after
\* every retry was spent.
RetriesSpent ==
  pc = "done" /\ (result = "429" \/ (result \in {"5xx", "neterr"} /\ Idempotent(method)))
    => attempt = MaxRetries

\* Whatever the response says, however often the delay was doubled and however
\* wide a duration is, no wait is longer than maxDelay; and without a hint none
\* is negative, so that the jitter has a range to be drawn from.
BackoffWithinBounds ==
  pc = "backoff" =>
    \A reset, after \in HeadersOf(answer) : \A w \in Wait(reset, after) :
      w <= MaxDelay /\ (RetryAfter(reset, after) < 0 => w >= 0)

\* "PagerDuty's ratelimit-reset hint is honored when present" (the comment of
\* retryTransport): no attempt is made before the time the response names, or
\* maxDelay if that is sooner, as long as the hint fits a duration.
HintHonored ==
  pc = "backoff" =>
    \A reset, after \in HeadersOf(answer) :
      LET secs == RetryAfter(reset, after)
      IN  secs >= 0 /\ secs * Second < Word
            => \A w \in Wait(reset, after) : w >= secs * Second \/ w = MaxDelay

\* A call whose context is done ends, even if the server never answers.
CancelledCallEnds == cancelled ~> pc = "done"

\* Every call ends if the network always answers or breaks: no sequence of
\* failures keeps it going, as long as they come.
EveryCallEnds == NetworkFairness => <>(pc = "done")

\* The strengthening of PostAtMostOnce and RefusedPostHasNoEffect that every
\* step preserves: only the latest attempt of a POST can have reached the
\* server, and it is gone whenever another attempt may follow.
PostInv ==
  ~Idempotent(method) =>
    /\ applied \union live \subseteq {attempt} /\ applied \intersect live = {}
    /\ pc \in {"start", "ready", "backoff"} => applied \union live = {}
    /\ pc = "answered" /\ answer \in {"4xx", "429"} => applied \union live = {}
    /\ pc = "done" /\ result \in {"4xx", "429"} => applied \union live = {}

\* The strengthening of BodiesAccountedFor.
BodyInv ==
  /\ pc \in {"start", "ready", "sent", "backoff"} => open = {}
  /\ pc = "answered" => open = IF answer \in Statuses THEN {attempt} ELSE {}
  /\ BodiesAccountedFor

\* What a returned answer says of the server.
AnswerInv ==
  /\ pc = "answered" => answer # "none"
  /\ pc = "answered" /\ answer = "2xx" => attempt \in applied
  /\ pc = "done" <=> result # "none"

\* The promise to the handlers.
Reply ==
  CASE result = "none"                           -> "pending"
    [] result = "2xx"                            -> "ok"
    [] result \in {"4xx", "429"}                 -> "rejected"
    [] result \in {"5xx", "neterr", "ctxerr", "bodyerr"} -> "unknown"

Call == INSTANCE RestCall
          WITH Tokens <- Attempts, repeatable <- Idempotent(method),
               effects <- applied, reply <- Reply

\* The transport implements the abstract call.
ImplementsRestCall == Call!Spec
=============================================================================
