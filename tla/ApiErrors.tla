----------------------------- MODULE ApiErrors -----------------------------
(***************************************************************************)
(* The errors a handler gets from the PagerDuty client and the formae      *)
(* error code it makes of them: MapAPIError and IsNotFound of              *)
(* pkg/handler/handler.go.                                                 *)
(*                                                                         *)
(* An error is an API error (a non-2xx response) with its status and       *)
(* whether PagerDuty's own code is 2100, or any other error (a broken      *)
(* connection, an expired context, one of the handler's own).  Of its text *)
(* only the first of the phrases the code looks for is kept, "" for none.  *)
(***************************************************************************)
EXTENDS Naturals

ErrorCodes ==
  {"NotFound", "Throttling", "InvalidCredentials", "AccessDenied", "AlreadyExists",
   "InvalidRequest", "ServiceInternalError", "InternalFailure"}

APIError(status, code2100, says) ==
  [api |-> TRUE, status |-> status, code2100 |-> code2100, says |-> says]

OtherError(says) == [api |-> FALSE, status |-> 0, code2100 |-> FALSE, says |-> says]

\* The errors that matter: a write is refused because PagerDuty is busy, because
\* what it names is not there, because what it refers to is not visible (yet), or
\* for what it asks; and one that failed otherwise may have been executed.
Throttled    == APIError(429, FALSE, "")
NotThere     == APIError(404, FALSE, "not found")
BadReference == APIError(400, TRUE, "not found")
BadRequest   == APIError(400, FALSE, "")
Refusals     == {Throttled, NotThere, BadReference, BadRequest}
Unknown      == {APIError(503, FALSE, ""), OtherError("")}

\* The API errors whose status alone decides.
Recognised(e) == e.api /\ e.status \in {400, 401, 403, 404, 409, 429} \union 500 .. 599

\* The code an error's text stands for, when its status says nothing.
CodeOfText(says) ==
  CASE says = "not found"    -> "NotFound"
    [] says = "unauthorized" -> "InvalidCredentials"
    [] says = "forbidden"    -> "AccessDenied"
    [] says = "rate limit"   -> "Throttling"
    [] OTHER                 -> "InternalFailure"

\* Mutant: a 5xx passes for a server that is merely busy.
MapAPIErrorBusy(e) ==
  CASE e.api /\ e.status >= 500                -> "Throttling"
    [] e.api /\ e.status = 400 /\ e.code2100   -> "NotFound"
    [] OTHER                                   -> "InternalFailure"

MapAPIError(e) ==
  IF ~Recognised(e)
  THEN CodeOfText(e.says)
  ELSE CASE e.status = 404                 -> "NotFound"
         [] e.status = 400 /\ e.code2100   -> "NotFound"
         [] e.status = 400 /\ ~e.code2100  -> "InvalidRequest"
         [] e.status = 429                 -> "Throttling"
         [] e.status = 401                 -> "InvalidCredentials"
         [] e.status = 403                 -> "AccessDenied"
         [] e.status = 409                 -> "AlreadyExists"
         [] e.status >= 500                -> "ServiceInternalError"

\* Mutant: a reference that is not visible yet passes for a 404.
IsNotFoundOr2100(e) ==
  IF e.api THEN e.status = 404 \/ (e.status = 400 /\ e.code2100) ELSE e.says = "not found"

IsNotFound(e) == IF e.api THEN e.status = 404 ELSE e.says = "not found"
=============================================================================
