-------------------------- MODULE MCRetryTransport ---------------------------
(***************************************************************************)
(* An instance of RetryTransport for TLC.                                  *)
(***************************************************************************)
EXTENDS RetryTransport

\* None, at once, soon, later than the limit, and two that do not fit a duration:
\* one comes out negative and one positive.
MCHeaders == {-1, 0, 7, 30, 140, 265}
=============================================================================
