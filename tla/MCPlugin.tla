------------------------------ MODULE MCPlugin ------------------------------
(***************************************************************************)
(* Instances of Plugin for TLC.                                            *)
(***************************************************************************)
EXTENDS Plugin, TLC

CONSTANTS account, unparsable

Ask(k, t, known) == [kind |-> k, target |-> t, known |-> known]

MCRequests ==
  {Ask("Create", account, TRUE), Ask("List", account, TRUE), Ask("Read", unparsable, TRUE),
   Ask("Update", account, FALSE)}

Symmetric == Permutations(Ops)
=============================================================================
