----------------------------- MODULE MCDiscovery -----------------------------
(***************************************************************************)
(* An instance of Discovery for TLC.                                       *)
(***************************************************************************)
EXTENDS Discovery

CONSTANTS p1, p2, p3, p4, c1, c2, distant

Nested == (p1 :> <<c1, c2>>) @@ (p2 :> <<distant>>) @@ (p3 :> <<c1>>) @@ (p4 :> <<>>)

\* An account of two pages, and an empty one.
MCAccounts == {[parents |-> ps, children |-> Nested] : ps \in {<<p1, p2, p3, p4>>, <<>>}}
=============================================================================
