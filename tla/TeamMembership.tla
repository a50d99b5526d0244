--------------------------- MODULE TeamMembership ---------------------------
(***************************************************************************)
(* Memberships of one PagerDuty team, as pkg/handler/team_membership.go    *)
(* creates, reads, updates and deletes them, several operations at a time. *)
(*                                                                         *)
(* PagerDuty executes writes at one place, Primary, and may answer a read  *)
(* from a replica that lags behind it: this is the read-after-write lag    *)
(* that membershipAfterWrite polls against (retryUntilReadable of          *)
(* handler.go).  A team's members are listed page by page, and every page  *)
(* may come from another copy.                                             *)
(*                                                                         *)
(* Every call to the API is a RestCall: a failed PUT or DELETE may have    *)
(* been executed, and an abandoned attempt of it may be executed later     *)
(* ("stray").                                                              *)
(***************************************************************************)
EXTENDS Integers, Sequences, FiniteSets, ApiErrors

CONSTANTS
  Users,       \* user ids
  Roles,       \* team roles
  Ops,         \* operations on the team's memberships
  Requests,    \* what the operations may be asked to do
  InitMembers, \* the memberships the team may have at first
  Primary,     \* the copy that executes writes
  Replicas,    \* the copies that lag behind it
  Polls,       \* attempts of retryUntilReadable
  PageSize,    \* Limit of ListTeamMembers
  MaxStrays    \* bound on abandoned attempts under way at one time

NoUser == "no user"
NoRole == "no role"
Zero   == [user |-> NoUser, role |-> NoRole]     \* teamMembershipProps{}

Membership == [user : Users, role : Roles]
Props      == Membership \union {Zero}
Kinds      == {"Create", "Read", "Update", "Delete"}
Copies     == Replicas \union {Primary}

\* A user is a member once.
Single(members) == \A i, j \in DOMAIN members : members[i].user = members[j].user => i = j

ASSUME ConstantsAssumption ==
  /\ Roles # {}
  /\ NoUser \notin Users /\ NoRole \notin Roles
  /\ Requests \subseteq [kind : Kinds, user : Users \union {NoUser}, role : Roles \union {NoRole}]
  /\ InitMembers \subseteq Seq(Membership)
  /\ \A ms \in InitMembers : Single(ms)
  /\ Primary \notin Replicas
  /\ Polls \in Nat \ {0} /\ PageSize \in Nat \ {0} /\ MaxStrays \in Nat

\* There are finitely many users who could be members.
ASSUME FiniteAssumption == IsFiniteSet(Users)

VARIABLES
  team,       \* each copy's view of the team: does it exist, and its members in order
  stray,      \* abandoned writes the server may still execute
  req,        \* what each operation was asked to do
  pc,         \* where each operation is
  poll,       \* polls made so far
  offset,     \* of the next page
  found,      \* the closure's found: the membership seen last, or Zero
  seen,       \* the closure's seen
  cancelled,  \* the operation's context is done
  result,     \* what the operation reported
  sighted,    \* history: the memberships its scans found, the latest last
  missing     \* history: the copies that were without the user since it began

scanning == <<poll, offset, found, seen>>
server   == <<team, stray, missing>>
vars     == <<server, req, pc, scanning, cancelled, result, sighted>>

None == [code |-> "none", props |-> Zero, msg |-> ""]

Codes == {"none", "ok"} \union ErrorCodes

TypeOK ==
  /\ team \in [Copies -> [exists : BOOLEAN, members : Seq(Membership)]]
  /\ stray \subseteq [kind : {"PUT", "DELETE"}, user : Users, role : Roles]
  /\ req \in [Ops -> Requests]
  /\ pc \in [Ops -> {"idle", "call", "scan", "wait", "done"}]
  /\ poll \in [Ops -> 0 .. Polls]
  /\ offset \in [Ops -> Nat]
  /\ found \in [Ops -> Props]
  /\ seen \in [Ops -> BOOLEAN]
  /\ cancelled \in [Ops -> BOOLEAN]
  /\ result \in [Ops -> [code : Codes, props : Props, msg : {"", "not found after add"}]]
  /\ sighted \in [Ops -> Seq(Membership)]
  /\ missing \in [Ops -> SUBSET Copies]

Init ==
  /\ \E ms \in InitMembers : team = [c \in Copies |-> [exists |-> TRUE, members |-> ms]]
  /\ stray = {}
  /\ req \in [Ops -> Requests]
  /\ pc = [o \in Ops |-> "idle"]
  /\ poll = [o \in Ops |-> 0]
  /\ offset = [o \in Ops |-> 0]
  /\ found = [o \in Ops |-> Zero]
  /\ seen = [o \in Ops |-> FALSE]
  /\ cancelled = [o \in Ops |-> FALSE]
  /\ result = [o \in Ops |-> None]
  /\ sighted = [o \in Ops |-> <<>>]
  /\ missing = [o \in Ops |-> {}]

-----------------------------------------------------------------------------
(* The team at the server. *)

Has(t, u) == t.exists /\ \E i \in DOMAIN t.members : t.members[i].user = u

\* A PUT of a member changes its role; of anybody else, appends.
Put(t, m) ==
  IF Has(t, m.user)
  THEN [t EXCEPT !.members =
          [i \in DOMAIN @ |-> IF @[i].user = m.user THEN m ELSE @[i]]]
  ELSE [t EXCEPT !.members = Append(@, m)]

\* A DELETE takes a member out; those behind move up.
Remove(t, u) ==
  IF Has(t, u)
  THEN LET at == CHOOSE i \in DOMAIN t.members : t.members[i].user = u
       IN  [t EXCEPT !.members = SubSeq(@, 1, at - 1) \o SubSeq(@, at + 1, Len(@))]
  ELSE t

\* What a PUT or DELETE does to the primary, now or when a stray one arrives.
Execute(t, w) ==
  CASE ~t.exists                      -> t
    [] t.exists /\ w.kind = "PUT"    -> Put(t, [user |-> w.user, role |-> w.role])
    [] t.exists /\ w.kind = "DELETE" -> Remove(t, w.user)

\* Every operation that has begun notes the copies that are now without its user.
Lacking(o) == {c \in Copies : ~Has(team'[c], req[o].user)}

NoteMissing ==
  missing' = [o \in Ops |-> IF pc[o] = "idle" THEN {} ELSE missing[o] \union Lacking(o)]

Commit(w) == team' = [team EXCEPT ![Primary] = Execute(@, w)] /\ NoteMissing

\* Without a role in the request PagerDuty chooses one.
RolesOf(r) == IF r.role = NoRole THEN Roles ELSE {r.role}

-----------------------------------------------------------------------------
(* Results. *)

Finish(o, r) ==
  /\ pc' = [pc EXCEPT ![o] = "done"]
  /\ result' = [result EXCEPT ![o] = r]

Succeed(o, m)  == Finish(o, [code |-> "ok", props |-> m, msg |-> ""])
Fail(o, code)  == Finish(o, [code |-> code, props |-> Zero, msg |-> ""])

Begin(o) ==
  /\ pc[o] = "idle"
  /\ pc' = [pc EXCEPT ![o] = "call"]
  /\ missing' = [missing EXCEPT ![o] = {c \in Copies : ~Has(team[c], req[o].user)}]
  /\ UNCHANGED <<team, stray, req, scanning, cancelled, result, sighted>>

\* A request without a user, or a native id that does not split: a Delete calls
\* it already gone, the others refuse it.
Malformed(o) ==
  /\ pc[o] = "call"
  /\ req[o].user = NoUser
  /\ IF req[o].kind = "Delete" THEN Succeed(o, Zero) ELSE Fail(o, "InvalidRequest")
  /\ UNCHANGED <<team, stray, req, scanning, cancelled, sighted, missing>>

Calling(o, kinds) == pc[o] = "call" /\ req[o].user # NoUser /\ req[o].kind \in kinds

-----------------------------------------------------------------------------
(* Errors of an API call. *)

ContextDone  == OtherError("")
ServerErrors == Unknown \union {Throttled}

Interruptions(o) == ServerErrors \union (IF cancelled[o] THEN {ContextDone} ELSE {})

\* An abandoned attempt of w stays on the wire.
LeaveBehind(w) ==
  /\ Cardinality(stray \union {w}) <= MaxStrays
  /\ stray' = stray \union {w}

\* What a write that failed may have done all the same.
MaybeExecuted(w) ==
  \/ UNCHANGED server
  \/ Commit(w) /\ UNCHANGED stray
  \/ LeaveBehind(w) /\ UNCHANGED <<team, missing>>

\* A write is refused, without effect, when what it names is not there; a member
\* not yet visible everywhere is refused with a 400 and code 2100.
Refused(w, e) ==
  /\ \/ e = BadReference
     \/ e = NotThere /\ ~team[Primary].exists
     \/ e = NotThere /\ w.kind = "DELETE" /\ ~Has(team[Primary], w.user)
  /\ UNCHANGED server

WriteError(o, w, e) ==
  \/ Refused(w, e)
  \/ e \in Interruptions(o) /\ MaybeExecuted(w)

-----------------------------------------------------------------------------
(* Delete: RemoveUserFromTeam. *)

Removal(o) == [kind |-> "DELETE", user |-> req[o].user, role |-> CHOOSE rl \in Roles : TRUE]

Delete(o) ==
  /\ Calling(o, {"Delete"})
  /\ Has(team[Primary], req[o].user)
  /\ Commit(Removal(o))
  /\ UNCHANGED stray \/ LeaveBehind(Removal(o))
  /\ Succeed(o, Zero)
  /\ UNCHANGED <<req, scanning, cancelled, sighted>>

DeleteFails(o) ==
  /\ Calling(o, {"Delete"})
  /\ \E e \in ServerErrors \union {NotThere, BadReference} :
       /\ WriteError(o, Removal(o), e)
       /\ IF IsNotFound(e) THEN Succeed(o, Zero) ELSE Fail(o, MapAPIError(e))
  /\ UNCHANGED <<req, scanning, cancelled, sighted>>

-----------------------------------------------------------------------------
(* Create and Update: AddUserToTeam, then membershipAfterWrite. *)

Addition(o, rl) == [kind |-> "PUT", user |-> req[o].user, role |-> rl]

Write(o) ==
  /\ Calling(o, {"Create", "Update"})
  /\ team[Primary].exists
  /\ \E rl \in RolesOf(req[o]) :
       /\ Commit(Addition(o, rl))
       /\ UNCHANGED stray \/ LeaveBehind(Addition(o, rl))
  /\ pc' = [pc EXCEPT ![o] = "scan"]
  /\ poll' = [poll EXCEPT ![o] = 1]
  /\ UNCHANGED <<req, offset, found, seen, cancelled, result, sighted>>

WriteFails(o) ==
  /\ Calling(o, {"Create", "Update"})
  /\ \E e \in ServerErrors \union {NotThere, BadReference}, rl \in RolesOf(req[o]) :
       /\ WriteError(o, Addition(o, rl), e)
       /\ Fail(o, MapAPIError(e))
  /\ UNCHANGED <<req, scanning, cancelled, sighted>>

\* membershipAfterWrite returns: with the latest value, if there ever was one.
Settle(o, m) ==
  IF seen'[o]
  THEN Succeed(o, m)
  ELSE Finish(o, [code |-> MapAPIError(OtherError("not found")), props |-> Zero,
                  msg |-> "not found after add"])

\* Mutant: the attempts of retryUntilReadable are not bounded.
PolledForEver(o, m, ready) ==
  IF ready THEN Settle(o, m) ELSE pc' = [pc EXCEPT ![o] = "wait"] /\ UNCHANGED result

\* The closure hands a value to retryUntilReadable, which returns it or waits.
Polled(o, m, ready) ==
  IF ready \/ poll[o] = Polls
  THEN Settle(o, m)
  ELSE pc' = [pc EXCEPT ![o] = "wait"] /\ UNCHANGED result

\* Mutant: the first sighting is taken for the converged one.
ConvergedAtOnce(o, m) == m.user = req[o].user

Converged(o, m) == req[o].role = NoRole \/ m.role = req[o].role

PollHits(o, m) ==
  /\ found' = [found EXCEPT ![o] = m]
  /\ seen' = [seen EXCEPT ![o] = TRUE]
  /\ Polled(o, m, Converged(o, m))

\* Mutant: a miss hands over the zero membership.
PollMissesWithZero(o) == UNCHANGED <<found, seen>> /\ Polled(o, Zero, FALSE)

\* Mutant: a miss forgets that the membership was seen.
PollMissesForgets(o) ==
  /\ found' = [found EXCEPT ![o] = Zero]
  /\ seen' = [seen EXCEPT ![o] = FALSE]
  /\ Polled(o, Zero, FALSE)

\* Not on any page: keep the membership seen last, if any.
PollMisses(o) ==
  /\ UNCHANGED <<found, seen>>
  /\ Polled(o, found[o], FALSE)

\* Mutant: the polls are not counted.
NextPollUncounted(o) ==
  /\ pc[o] = "wait"
  /\ pc' = [pc EXCEPT ![o] = "scan"]
  /\ UNCHANGED <<server, req, scanning, cancelled, result, sighted>>

NextPoll(o) ==
  /\ pc[o] = "wait"
  /\ pc' = [pc EXCEPT ![o] = "scan"]
  /\ poll' = [poll EXCEPT ![o] = @ + 1]
  /\ UNCHANGED <<server, req, offset, found, seen, cancelled, result, sighted>>

PollingCancelled(o) ==
  /\ pc[o] = "wait"
  /\ cancelled[o]
  /\ Fail(o, MapAPIError(ContextDone))
  /\ UNCHANGED <<server, req, scanning, cancelled, sighted>>

-----------------------------------------------------------------------------
(* findMembership: page after page, each from any copy. *)

BeginRead(o) ==
  /\ Calling(o, {"Read"})
  /\ pc' = [pc EXCEPT ![o] = "scan"]
  /\ UNCHANGED <<server, req, scanning, cancelled, result, sighted>>

\* Mutant: the last member of a page is overlooked.
OnPageButLast(o, c) ==
  {m \in Membership :
     /\ m.user = req[o].user
     /\ \E i \in DOMAIN team[c].members :
          offset[o] < i /\ i < offset[o] + PageSize /\ team[c].members[i] = m}

OnPage(o, c) ==
  {m \in Membership :
     /\ m.user = req[o].user
     /\ \E i \in DOMAIN team[c].members :
          offset[o] < i /\ i <= offset[o] + PageSize /\ team[c].members[i] = m}

More(o, c) == offset[o] + PageSize < Len(team[c].members)

Hit(o, c) ==
  /\ pc[o] = "scan"
  /\ team[c].exists
  /\ \E m \in OnPage(o, c) :
       /\ sighted' = [sighted EXCEPT ![o] = Append(@, m)]
       /\ IF req[o].kind = "Read"
          THEN Succeed(o, m) /\ UNCHANGED <<found, seen>>
          ELSE PollHits(o, m)
  /\ offset' = [offset EXCEPT ![o] = 0]
  /\ UNCHANGED <<server, req, poll, cancelled>>

NextPage(o, c) ==
  /\ pc[o] = "scan"
  /\ team[c].exists /\ OnPage(o, c) = {} /\ More(o, c)
  /\ offset' = [offset EXCEPT ![o] = @ + PageSize]
  /\ UNCHANGED <<server, req, pc, poll, found, seen, cancelled, result, sighted>>

Miss(o, c) ==
  /\ pc[o] = "scan"
  /\ team[c].exists /\ OnPage(o, c) = {} /\ ~More(o, c)
  /\ IF req[o].kind = "Read"
     THEN Fail(o, "NotFound") /\ UNCHANGED <<found, seen>>
     ELSE PollMisses(o)
  /\ offset' = [offset EXCEPT ![o] = 0]
  /\ UNCHANGED <<server, req, poll, cancelled, sighted>>

\* Any error ends the scan, and the operation with it, whatever was seen before.
ScanFails(o) ==
  /\ pc[o] = "scan"
  /\ \E e \in ServerErrors \union {NotThere} :
       /\ e = NotThere => \E c \in Copies : ~team[c].exists
       /\ Fail(o, IF req[o].kind = "Read" /\ IsNotFound(e) THEN "NotFound" ELSE MapAPIError(e))
  /\ UNCHANGED <<server, req, scanning, cancelled, sighted>>

-----------------------------------------------------------------------------
(* The server's own steps, and the contexts. *)

Replicate(c) ==
  /\ team[c] # team[Primary]
  /\ team' = [team EXCEPT ![c] = team[Primary]]
  /\ NoteMissing
  /\ UNCHANGED <<stray, req, pc, scanning, cancelled, result, sighted>>

StrayArrives(w) ==
  /\ Commit(w)
  /\ stray' = stray \ {w}
  /\ UNCHANGED <<req, pc, scanning, cancelled, result, sighted>>

RemoveTeam ==
  /\ team[Primary].exists
  /\ team' = [team EXCEPT ![Primary] = [exists |-> FALSE, members |-> <<>>]]
  /\ NoteMissing
  /\ UNCHANGED <<stray, req, pc, scanning, cancelled, result, sighted>>

Cancel(o) ==
  /\ pc[o] \notin {"idle", "done"}
  /\ ~cancelled[o]
  /\ cancelled' = [cancelled EXCEPT ![o] = TRUE]
  /\ UNCHANGED <<server, req, pc, scanning, result, sighted>>

Terminated == (\A o \in Ops : pc[o] = "done") /\ UNCHANGED vars

-----------------------------------------------------------------------------
Scan(o) == (\E c \in Copies : Hit(o, c) \/ NextPage(o, c) \/ Miss(o, c)) \/ ScanFails(o)

Advance(o) ==
  \/ Malformed(o)
  \/ Write(o) \/ WriteFails(o) \/ Delete(o) \/ DeleteFails(o) \/ BeginRead(o)
  \/ Scan(o) \/ NextPoll(o) \/ PollingCancelled(o)

Next ==
  \/ \E o \in Ops : Begin(o)
  \/ \E o \in Ops : Malformed(o)
  \/ \E o \in Ops : Write(o)
  \/ \E o \in Ops : WriteFails(o)
  \/ \E o \in Ops : Delete(o)
  \/ \E o \in Ops : DeleteFails(o)
  \/ \E o \in Ops : BeginRead(o)
  \/ \E o \in Ops, c \in Copies : Hit(o, c)
  \/ \E o \in Ops, c \in Copies : NextPage(o, c)
  \/ \E o \in Ops, c \in Copies : Miss(o, c)
  \/ \E o \in Ops : ScanFails(o)
  \/ \E o \in Ops : NextPoll(o)
  \/ \E o \in Ops : PollingCancelled(o)
  \/ \E c \in Replicas : Replicate(c)
  \/ \E w \in stray : StrayArrives(w)
  \/ RemoveTeam
  \/ \E o \in Ops : Cancel(o)
  \/ Terminated

\* An operation that has begun takes its steps, and its calls are answered or
\* fail (EveryCallEnds of RetryTransport).  Nothing else is fair: copies may lag
\* for ever.
Spec == Init /\ [][Next]_vars /\ \A o \in Ops : WF_vars(Advance(o))

-----------------------------------------------------------------------------
(* Properties. *)

Writes   == {"Create", "Update"}
Ended(o) == pc[o] = "done"
Latest(s) == s[Len(s)]

\* A Create or Update that succeeds reports the membership its own polls saw
\* last: "a transient disappearance never clobbers a membership already seen",
\* and no "bogus zero-value success".
SuccessReportsASighting ==
  \A o \in Ops :
    Ended(o) /\ req[o].kind \in Writes /\ result[o].code = "ok"
      => sighted[o] # <<>> /\ result[o].props = Latest(sighted[o])

\* Another role than the one asked for is reported only when the whole window
\* passed without one sighting of it.
StaleRoleOnlyAfterWindow ==
  \A o \in Ops :
    LET r == result[o].props.role
    IN  Ended(o) /\ req[o].kind \in Writes /\ result[o].code = "ok"
          /\ req[o].role \notin {NoRole, r}
            => /\ poll[o] = Polls
               /\ \A i \in DOMAIN sighted[o] : sighted[o][i].role # req[o].role

\* "not found after add" is said only of a membership that none of the polls,
\* all of them made, has seen.
NotFoundOnlyIfNeverSeen ==
  \A o \in Ops :
    result[o].msg = "not found after add" => poll[o] = Polls /\ sighted[o] = <<>>

\* A Read reports NotFound only if some copy of the team was without the user at
\* some time since the Read began.
ReadNotFoundIsTrue ==
  \A o \in Ops :
    Ended(o) /\ req[o].kind = "Read" /\ result[o].code = "NotFound" => missing[o] # {}

\* A Delete that succeeds was preceded, since it began, by a state in which the
\* user was not a member: a refusal for another reason never passes for "already
\* gone".
DeletedMeansGone ==
  \A o \in Ops :
    Ended(o) /\ req[o].kind = "Delete" /\ req[o].user # NoUser /\ result[o].code = "ok"
      => Primary \in missing[o]

\* Every operation that begins ends, however long the copies lag.
EveryOperationEnds == \A o \in Ops : pc[o] = "call" ~> Ended(o)
=============================================================================
