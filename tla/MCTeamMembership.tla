-------------------------- MODULE MCTeamMembership --------------------------
(***************************************************************************)
(* Instances of TeamMembership for TLC.                                    *)
(***************************************************************************)
EXTENDS TeamMembership, TLC

CONSTANTS u1, u2, manager, responder

Req(k, u, rl) == [kind |-> k, user |-> u, role |-> rl]
Member(u, rl) == [user |-> u, role |-> rl]

MCUsers == {u1, u2}
MCRoles == {manager, responder}

\* Two operations on the same user, or on a user and the one before it.
MCRequests ==
  {Req("Create", u1, manager), Req("Update", u1, responder), Req("Update", u1, NoRole),
   Req("Read", u1, NoRole), Req("Delete", u1, NoRole), Req("Delete", u2, NoRole),
   Req("Create", NoUser, manager), Req("Delete", NoUser, NoRole)}

MCInitMembers == {<<>>, <<Member(u2, manager), Member(u1, manager)>>}

Symmetric == Permutations(Ops)
=============================================================================
