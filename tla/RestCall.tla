------------------------------ MODULE RestCall ------------------------------
(***************************************************************************)
(* What a resource handler may rely on when it makes one PagerDuty API     *)
(* call, whatever the transport under the client does to get the call      *)
(* through.  A call that is not repeatable (a POST) takes effect at most   *)
(* once, and a call that was refused has none, not even later.  A          *)
(* repeatable call (GET, PUT, DELETE ...) may take effect several times,   *)
(* also after its reply: nothing is promised about it but that a good      *)
(* reply follows an effect.                                                *)
(*                                                                         *)
(* RetryTransport is shown to implement this specification.                *)
(***************************************************************************)

CONSTANT Tokens      \* names of the effects a call may have at the server

VARIABLES
  repeatable,   \* may the call take effect more than once?
  effects,      \* the effects the call has had so far
  reply         \* what the handler was told

vars == <<repeatable, effects, reply>>

Init ==
  /\ repeatable \in BOOLEAN
  /\ effects = {}
  /\ reply = "pending"

TakeEffect(t) ==
  /\ t \in Tokens \ effects
  /\ repeatable \/ (effects = {} /\ reply # "rejected")
  /\ effects' = effects \union {t}
  /\ UNCHANGED <<repeatable, reply>>

Answer(answer) ==
  /\ reply = "pending"
  /\ reply' = answer
  /\ UNCHANGED <<repeatable, effects>>

ReplyOk       == effects # {} /\ Answer("ok")
ReplyRejected == (repeatable \/ effects = {}) /\ Answer("rejected")
ReplyUnknown  == Answer("unknown")

Next ==
  \/ \E t \in Tokens : TakeEffect(t)
  \/ ReplyOk
  \/ ReplyRejected
  \/ ReplyUnknown

Spec == Init /\ [][Next]_vars
=============================================================================
