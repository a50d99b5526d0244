--------------------------- MODULE MCUserContacts ---------------------------
(***************************************************************************)
(* Instances of UserContacts for TLC.                                      *)
(***************************************************************************)
EXTENDS UserContacts, TLC

CONSTANTS email, sms

ForMethod(k, i, t) == [kind |-> k, of |-> "method", id |-> i, type |-> t, method |-> NoId]
ForRule(k, i, m)   == [kind |-> k, of |-> "rule", id |-> i, type |-> NoType, method |-> m]

\* The contact method 1 is there from the start; a rule on it may become 2.
MCInitMethods == <<email>>

MCRequests ==
  {ForMethod("Create", NoId, sms), ForMethod("Create", NoId, NoType),
   ForMethod("Update", 1, sms), ForMethod("Delete", 1, NoType),
   ForRule("Create", NoId, 1), ForRule("Create", NoId, 2), ForRule("Update", 2, 1),
   ForRule("Delete", 2, NoId), ForRule("Delete", NoId, NoId), ForRule("Read", 2, NoId)}

Symmetric == Permutations(Ops)
=============================================================================
