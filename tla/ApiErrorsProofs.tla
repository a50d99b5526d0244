--------------------------- MODULE ApiErrorsProofs ---------------------------
(***************************************************************************)
(* What MapAPIError and IsNotFound make of the errors that matter: facts   *)
(* the proofs about the handlers rest on.                                  *)
(***************************************************************************)
EXTENDS ApiErrors, TLAPS

LEMMA CodesAreErrorCodes == \A e : MapAPIError(e) \in ErrorCodes
BY DEF MapAPIError, CodeOfText, ErrorCodes, Recognised

\* An error of an unknown outcome is mapped to a code no refusal is mapped to.
LEMMA UnknownCodes ==
  \A e \in Unknown : MapAPIError(e) \in {"ServiceInternalError", "InternalFailure"}
<1> SUFFICES ASSUME NEW e \in Unknown
             PROVE  MapAPIError(e) \in {"ServiceInternalError", "InternalFailure"}
  OBVIOUS
<1>1. CASE e = APIError(503, FALSE, "")
  <2>1. e.api = TRUE /\ e.status = 503
    BY <1>1 DEF APIError
  <2>2. Recognised(e)
    <3>1. 503 \in 500 .. 599
      OBVIOUS
    <3> QED BY <2>1, <3>1, Zenon DEF Recognised
  <2> QED BY <2>1, <2>2 DEF MapAPIError
<1>2. CASE e = OtherError("")
  <2>1. ~Recognised(e) /\ e.says = ""
    BY <1>2 DEF OtherError, Recognised
  <2> QED BY <2>1 DEF MapAPIError, CodeOfText
<1> QED BY <1>1, <1>2 DEF Unknown

\* Of the refusals only a true 404 counts as gone, and in particular not the
\* 400 with code 2100 that MapAPIError turns into the same NotFound.
LEMMA OnlyNotThereIsGone == \A e \in Refusals : IsNotFound(e) => e = NotThere
<1>1. /\ Throttled.api = TRUE /\ Throttled.status = 429
      /\ BadReference.api = TRUE /\ BadReference.status = 400
      /\ BadRequest.api = TRUE /\ BadRequest.status = 400
  BY DEF Throttled, BadReference, BadRequest, APIError
<1>2. /\ IsNotFound(Throttled) => Throttled.status = 404
      /\ IsNotFound(BadReference) => BadReference.status = 404
      /\ IsNotFound(BadRequest) => BadRequest.status = 404
  BY <1>1, Zenon DEF IsNotFound
<1> QED BY <1>1, <1>2 DEF Refusals
=============================================================================
