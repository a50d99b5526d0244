------------------------ MODULE TeamMembershipProofs ------------------------
(***************************************************************************)
(* What a Create or Update of a membership reports about the polls it      *)
(* made, and what a Delete or Read that finds nobody says of the team, for *)
(* any number of polls, users, roles, copies and concurrent operations,    *)
(* and however far the copies lag; and that every operation is bounded.    *)
(***************************************************************************)
EXTENDS TeamMembership, ApiErrorsProofs, SequenceTheorems, FiniteSetTheorems, TLAPS

TeamView == [exists : BOOLEAN, members : Seq(Membership)]
WriteSet == [kind : {"PUT", "DELETE"}, user : Users, role : Roles]
Result   == [code : Codes, props : Props, msg : {"", "not found after add"}]

-----------------------------------------------------------------------------
(* Types. *)

LEMMA RequestFacts ==
  ASSUME TypeOK, NEW o \in Ops
  PROVE  /\ req[o].kind \in Kinds
         /\ req[o].user \in Users \union {NoUser}
         /\ RolesOf(req[o]) \subseteq Roles
<1>1. req[o] \in [kind : Kinds, user : Users \union {NoUser}, role : Roles \union {NoRole}]
  BY ConstantsAssumption DEF ConstantsAssumption, TypeOK
<1>. QED
  BY <1>1 DEF RolesOf

LEMMA PutType ==
  ASSUME NEW t \in TeamView, NEW m \in Membership
  PROVE  Put(t, m) \in TeamView
<1>1. CASE Has(t, m.user)
  <2>. DEFINE s == [i \in DOMAIN t.members |->
                      IF t.members[i].user = m.user THEN m ELSE t.members[i]]
  <2>1. s \in Seq(Membership)
    BY DEF TeamView
  <2>2. Put(t, m) = [t EXCEPT !.members = s]
    BY <1>1 DEF Put
  <2>. QED
    BY <2>1, <2>2 DEF TeamView
<1>2. CASE ~Has(t, m.user)
  BY <1>2 DEF Put, TeamView
<1>. QED
  BY <1>1, <1>2

LEMMA RemoveType ==
  ASSUME NEW t \in TeamView, NEW u
  PROVE  Remove(t, u) \in TeamView
<1>1. CASE Has(t, u)
  <2>. DEFINE at == CHOOSE i \in DOMAIN t.members : t.members[i].user = u
              s  == SubSeq(t.members, 1, at - 1) \o SubSeq(t.members, at + 1, Len(t.members))
  <2>1. t.members \in Seq(Membership) /\ at \in 1 .. Len(t.members)
    BY <1>1 DEF Has, TeamView
  <2>. HIDE DEF at
  <2>2. /\ 1 \in Int /\ at - 1 \in Int /\ at + 1 \in Int /\ Len(t.members) \in Int
        /\ \A i \in 1 .. at - 1 : t.members[i] \in Membership
        /\ \A i \in at + 1 .. Len(t.members) : t.members[i] \in Membership
    BY <2>1
  <2>3. /\ SubSeq(t.members, 1, at - 1) \in Seq(Membership)
        /\ SubSeq(t.members, at + 1, Len(t.members)) \in Seq(Membership)
    BY <2>2, SubSeqProperties
  <2>4. s \in Seq(Membership)
    BY <2>3, ConcatProperties
  <2>5. Remove(t, u) = [t EXCEPT !.members = s]
    BY <1>1 DEF Remove, at
  <2>. QED
    BY <2>4, <2>5 DEF TeamView
<1>2. CASE ~Has(t, u)
  BY <1>2 DEF Remove
<1>. QED
  BY <1>1, <1>2

LEMMA ExecuteType ==
  ASSUME NEW t \in TeamView, NEW w \in WriteSet
  PROVE  Execute(t, w) \in TeamView
<1>1. [user |-> w.user, role |-> w.role] \in Membership
  BY DEF WriteSet, Membership
<1>. QED
  BY <1>1, PutType, RemoveType DEF Execute, WriteSet

\* The server's part of TypeOK.
ServerTypes ==
  /\ team \in [Copies -> TeamView]
  /\ stray \subseteq WriteSet
  /\ missing \in [Ops -> SUBSET Copies]

LEMMA NoteMissingType ==
  ASSUME TypeOK, NoteMissing
  PROVE  missing' \in [Ops -> SUBSET Copies]
BY DEF TypeOK, NoteMissing, Lacking

LEMMA CommitType ==
  ASSUME TypeOK, NEW w \in WriteSet, Commit(w)
  PROVE  team' \in [Copies -> TeamView] /\ missing' \in [Ops -> SUBSET Copies]
<1>1. Execute(team[Primary], w) \in TeamView
  BY ExecuteType DEF TypeOK, TeamView, Copies
<1>. QED
  BY <1>1, NoteMissingType DEF Commit, TypeOK, TeamView

LEMMA WriteErrorType ==
  ASSUME TypeOK, NEW o \in Ops, NEW w \in WriteSet, NEW e, WriteError(o, w, e)
  PROVE  ServerTypes'
<1>1. ServerTypes
  BY DEF TypeOK, ServerTypes, TeamView, WriteSet
<1>2. CASE UNCHANGED server
  BY <1>1, <1>2 DEF server, ServerTypes
<1>3. CASE Commit(w) /\ UNCHANGED stray
  BY <1>1, <1>3, CommitType DEF ServerTypes
<1>4. CASE LeaveBehind(w) /\ UNCHANGED <<team, missing>>
  BY <1>1, <1>4 DEF LeaveBehind, ServerTypes
<1>. QED
  BY <1>2, <1>3, <1>4 DEF WriteError, Refused, MaybeExecuted

\* The operations' part of TypeOK.
OpTypes ==
  /\ req \in [Ops -> Requests]
  /\ pc \in [Ops -> {"idle", "call", "scan", "wait", "done"}]
  /\ poll \in [Ops -> 0 .. Polls]
  /\ offset \in [Ops -> Nat]
  /\ found \in [Ops -> Props]
  /\ seen \in [Ops -> BOOLEAN]
  /\ cancelled \in [Ops -> BOOLEAN]
  /\ result \in [Ops -> Result]
  /\ sighted \in [Ops -> Seq(Membership)]

\* While a poll's outcome is awaited, polls are left.
PollsLeft == \A o \in Ops : pc[o] = "wait" => poll[o] < Polls

LEMMA SplitTypes == TypeOK <=> ServerTypes /\ OpTypes
BY DEF TypeOK, ServerTypes, OpTypes, TeamView, WriteSet, Result

LEMMA CodeFacts ==
  /\ \A e : MapAPIError(e) \in ErrorCodes
  /\ ErrorCodes \subseteq Codes /\ "ok" \in Codes /\ "none" \in Codes
  /\ "NotFound" \in ErrorCodes /\ "InvalidRequest" \in ErrorCodes
  /\ "ok" \notin ErrorCodes
  /\ Zero \in Props
BY DEF MapAPIError, CodeOfText, ErrorCodes, Codes, Props, Recognised

\* Finishing an operation keeps pc and result typed.
ReportTypes ==
  /\ pc' \in [Ops -> {"idle", "call", "scan", "wait", "done"}]
  /\ result' \in [Ops -> Result]

LEMMA SucceedType ==
  ASSUME OpTypes, NEW o \in Ops, NEW m \in Props, Succeed(o, m)
  PROVE  ReportTypes /\ pc' = [pc EXCEPT ![o] = "done"]
BY CodeFacts DEF OpTypes, Succeed, Finish, Result, ReportTypes

LEMMA FailType ==
  ASSUME OpTypes, NEW o \in Ops, NEW code \in ErrorCodes, Fail(o, code)
  PROVE  ReportTypes /\ pc' = [pc EXCEPT ![o] = "done"]
BY CodeFacts DEF OpTypes, Fail, Finish, Result, ReportTypes

LEMMA PolledType ==
  ASSUME OpTypes, NEW o \in Ops, NEW m \in Props, NEW ready \in BOOLEAN, Polled(o, m, ready)
  PROVE  /\ ReportTypes
         /\ pc' = [pc EXCEPT ![o] = "done"]
            \/ (poll[o] # Polls /\ pc' = [pc EXCEPT ![o] = "wait"])
<1>1. CASE ready \/ poll[o] = Polls
  <2>1. CASE seen'[o]
    BY <1>1, <2>1, SucceedType DEF Polled, Settle
  <2>2. CASE ~seen'[o]
    <3>. DEFINE r == [code |-> MapAPIError(OtherError("not found")), props |-> Zero,
                      msg |-> "not found after add"]
    <3>1. r \in Result
      BY CodeFacts DEF Result
    <3>2. Finish(o, r)
      BY <1>1, <2>2 DEF Polled, Settle
    <3>. QED
      BY <3>1, <3>2 DEF OpTypes, Finish, ReportTypes
  <2>. QED
    BY <2>1, <2>2
<1>2. CASE ~(ready \/ poll[o] = Polls)
  BY <1>2 DEF OpTypes, Polled, ReportTypes
<1>. QED
  BY <1>1, <1>2

LEMMA HitType ==
  ASSUME TypeOK, NEW o \in Ops, NEW c \in Copies, Hit(o, c)
  PROVE  OpTypes' /\ (PollsLeft => PollsLeft')
<1>. USE SplitTypes
<1>1. PICK m \in OnPage(o, c) :
        /\ sighted' = [sighted EXCEPT ![o] = Append(@, m)]
        /\ IF req[o].kind = "Read"
           THEN Succeed(o, m) /\ UNCHANGED <<found, seen>>
           ELSE PollHits(o, m)
  BY DEF Hit
<1>2. m \in Membership /\ m \in Props
  BY DEF OnPage, Props
<1>3. sighted' \in [Ops -> Seq(Membership)] /\ offset' \in [Ops -> Nat]
      /\ UNCHANGED <<req, poll, cancelled>>
  BY <1>1, <1>2 DEF Hit, OpTypes
<1>4. found' \in [Ops -> Props] /\ seen' \in [Ops -> BOOLEAN]
  BY <1>1, <1>2 DEF OpTypes, PollHits
<1>5. ReportTypes /\ (PollsLeft => PollsLeft')
  <2>1. CASE req[o].kind = "Read"
    BY <1>1, <1>2, <1>3, <2>1, SucceedType DEF PollsLeft, OpTypes
  <2>2. CASE req[o].kind # "Read"
    <3>1. Polled(o, m, Converged(o, m)) /\ Converged(o, m) \in BOOLEAN
      BY <1>1, <2>2 DEF PollHits, Converged
    <3>2. poll[o] \in 0 .. Polls /\ Polls \in Nat
      BY ConstantsAssumption DEF OpTypes, ConstantsAssumption
    <3>. QED
      BY <1>2, <1>3, <3>1, <3>2, PolledType DEF PollsLeft, OpTypes
  <2>. QED
    BY <2>1, <2>2
<1>. QED
  BY <1>3, <1>4, <1>5 DEF OpTypes, ReportTypes

LEMMA MissType ==
  ASSUME TypeOK, NEW o \in Ops, NEW c \in Copies, Miss(o, c)
  PROVE  OpTypes' /\ (PollsLeft => PollsLeft')
<1>. USE SplitTypes
<1>1. UNCHANGED <<req, poll, found, seen, cancelled, sighted>> /\ offset' \in [Ops -> Nat]
  BY DEF Miss, PollMisses, OpTypes
<1>2. ReportTypes /\ (PollsLeft => PollsLeft')
  <2>1. CASE req[o].kind = "Read"
    <3>1. ReportTypes /\ pc' = [pc EXCEPT ![o] = "done"]
      BY <2>1, FailType, CodeFacts DEF Miss
    <3>. QED
      BY <1>1, <3>1 DEF PollsLeft, OpTypes
  <2>2. CASE req[o].kind # "Read"
    <3>1. Polled(o, found[o], FALSE) /\ found[o] \in Props
      BY <2>2 DEF Miss, PollMisses, OpTypes
    <3>2. poll[o] \in 0 .. Polls /\ Polls \in Nat
      BY ConstantsAssumption DEF OpTypes, ConstantsAssumption
    <3>3. ReportTypes /\ (pc' = [pc EXCEPT ![o] = "done"]
                          \/ (poll[o] # Polls /\ pc' = [pc EXCEPT ![o] = "wait"]))
      BY <3>1, PolledType
    <3>. QED
      BY <1>1, <3>2, <3>3 DEF PollsLeft, OpTypes
  <2>. QED
    BY <2>1, <2>2
<1>. QED
  BY <1>1, <1>2 DEF OpTypes, ReportTypes

LEMMA TypeInit == Init => TypeOK /\ PollsLeft
<1>. SUFFICES ASSUME Init PROVE TypeOK /\ PollsLeft
  OBVIOUS
<1>1. ServerTypes
  BY ConstantsAssumption DEF ConstantsAssumption, Init, ServerTypes, TeamView
<1>2. 0 \in 0 .. Polls /\ None \in Result
  BY ConstantsAssumption, CodeFacts DEF ConstantsAssumption, None, Result
<1>3. OpTypes
  BY <1>2, CodeFacts DEF Init, OpTypes
<1>4. PollsLeft
  BY DEF Init, PollsLeft
<1>. QED
  BY <1>1, <1>3, <1>4, SplitTypes

LEMMA RequestedWrites ==
  ASSUME TypeOK, NEW o \in Ops, req[o].user # NoUser
  PROVE  /\ Removal(o) \in WriteSet
         /\ \A rl \in RolesOf(req[o]) : Addition(o, rl) \in WriteSet
<1>1. (CHOOSE rl \in Roles : TRUE) \in Roles
  BY ConstantsAssumption DEF ConstantsAssumption
<1>. QED
  BY <1>1, RequestFacts DEF Removal, Addition, WriteSet

LEMMA TypeStep == TypeOK /\ PollsLeft /\ [Next]_vars => TypeOK' /\ PollsLeft'
<1>. SUFFICES ASSUME TypeOK, PollsLeft, [Next]_vars PROVE TypeOK' /\ PollsLeft'
  OBVIOUS
<1>0. ServerTypes /\ OpTypes
  BY SplitTypes
<1>. SUFFICES ServerTypes' /\ OpTypes' /\ PollsLeft'
  BY SplitTypes DEF TypeOK, ServerTypes, OpTypes, TeamView, WriteSet, Result
<1>a. ASSUME UNCHANGED server PROVE ServerTypes'
  BY <1>0, <1>a DEF server, ServerTypes
<1>b. ASSUME ReportTypes, NEW o \in Ops, pc' = [pc EXCEPT ![o] = "done"],
             UNCHANGED <<req, scanning, cancelled, sighted>>
      PROVE  OpTypes' /\ PollsLeft'
  BY <1>0, <1>b DEF scanning, OpTypes, ReportTypes, PollsLeft
<1>c. ASSUME UNCHANGED <<req, pc, scanning, cancelled, result, sighted>>
      PROVE  OpTypes' /\ PollsLeft'
  BY <1>0, <1>c DEF scanning, OpTypes, PollsLeft
<1>1. ASSUME NEW o \in Ops, Begin(o) PROVE ServerTypes' /\ OpTypes' /\ PollsLeft'
  BY <1>0, <1>1 DEF Begin, scanning, ServerTypes, OpTypes, PollsLeft
<1>2. ASSUME NEW o \in Ops, Malformed(o) PROVE ServerTypes' /\ OpTypes' /\ PollsLeft'
  <2>1. ReportTypes /\ pc' = [pc EXCEPT ![o] = "done"]
    BY <1>0, <1>2, CodeFacts, SucceedType, FailType DEF Malformed
  <2>. QED
    BY <1>2, <1>a, <1>b, <2>1 DEF Malformed, server
<1>3. ASSUME NEW o \in Ops, Write(o) PROVE ServerTypes' /\ OpTypes' /\ PollsLeft'
  <2>1. PICK rl \in RolesOf(req[o]) :
          Commit(Addition(o, rl)) /\ (UNCHANGED stray \/ LeaveBehind(Addition(o, rl)))
    BY <1>3 DEF Write
  <2>2. Addition(o, rl) \in WriteSet
    BY <1>3, <2>1, RequestedWrites DEF Write, Calling
  <2>3. ServerTypes'
    BY <1>0, <2>1, <2>2, CommitType DEF LeaveBehind, ServerTypes
  <2>4. 1 \in 0 .. Polls
    BY ConstantsAssumption DEF ConstantsAssumption
  <2>. QED
    BY <1>0, <1>3, <2>3, <2>4 DEF Write, OpTypes, PollsLeft
<1>4. ASSUME NEW o \in Ops, WriteFails(o) PROVE ServerTypes' /\ OpTypes' /\ PollsLeft'
  <2>1. PICK e \in ServerErrors \union {NotThere, BadReference}, rl \in RolesOf(req[o]) :
          WriteError(o, Addition(o, rl), e) /\ Fail(o, MapAPIError(e))
    BY <1>4 DEF WriteFails
  <2>2. ServerTypes'
    BY <1>4, <2>1, RequestedWrites, WriteErrorType DEF WriteFails, Calling
  <2>3. ReportTypes /\ pc' = [pc EXCEPT ![o] = "done"]
    BY <1>0, <2>1, CodeFacts, FailType
  <2>. QED
    BY <1>4, <1>b, <2>2, <2>3 DEF WriteFails
<1>5. ASSUME NEW o \in Ops, Delete(o) PROVE ServerTypes' /\ OpTypes' /\ PollsLeft'
  <2>1. ServerTypes'
    BY <1>0, <1>5, RequestedWrites, CommitType DEF Delete, Calling, LeaveBehind, ServerTypes
  <2>2. ReportTypes /\ pc' = [pc EXCEPT ![o] = "done"]
    BY <1>0, <1>5, CodeFacts, SucceedType DEF Delete
  <2>. QED
    BY <1>5, <1>b, <2>1, <2>2 DEF Delete
<1>6. ASSUME NEW o \in Ops, DeleteFails(o) PROVE ServerTypes' /\ OpTypes' /\ PollsLeft'
  <2>1. PICK e \in ServerErrors \union {NotThere, BadReference} :
          /\ WriteError(o, Removal(o), e)
          /\ IF IsNotFound(e) THEN Succeed(o, Zero) ELSE Fail(o, MapAPIError(e))
    BY <1>6 DEF DeleteFails
  <2>2. ServerTypes'
    BY <1>6, <2>1, RequestedWrites, WriteErrorType DEF DeleteFails, Calling
  <2>3. ReportTypes /\ pc' = [pc EXCEPT ![o] = "done"]
    BY <1>0, <2>1, CodeFacts, SucceedType, FailType
  <2>. QED
    BY <1>6, <1>b, <2>2, <2>3 DEF DeleteFails
<1>7. ASSUME NEW o \in Ops, BeginRead(o) PROVE ServerTypes' /\ OpTypes' /\ PollsLeft'
  BY <1>0, <1>7, <1>a DEF BeginRead, scanning, OpTypes, PollsLeft
<1>8. ASSUME NEW o \in Ops, NEW c \in Copies, Hit(o, c)
      PROVE  ServerTypes' /\ OpTypes' /\ PollsLeft'
  BY <1>8, <1>a, HitType DEF Hit
<1>9. ASSUME NEW o \in Ops, NEW c \in Copies, NextPage(o, c)
      PROVE  ServerTypes' /\ OpTypes' /\ PollsLeft'
  <2>1. offset' \in [Ops -> Nat]
    BY <1>0, <1>9, ConstantsAssumption DEF ConstantsAssumption, NextPage, OpTypes
  <2>. QED
    BY <1>0, <1>9, <1>a, <2>1 DEF NextPage, OpTypes, PollsLeft
<1>10. ASSUME NEW o \in Ops, NEW c \in Copies, Miss(o, c)
       PROVE  ServerTypes' /\ OpTypes' /\ PollsLeft'
  BY <1>10, <1>a, MissType DEF Miss
<1>11. ASSUME NEW o \in Ops, ScanFails(o) PROVE ServerTypes' /\ OpTypes' /\ PollsLeft'
  <2>1. ReportTypes /\ pc' = [pc EXCEPT ![o] = "done"]
    BY <1>0, <1>11, CodeFacts, FailType DEF ScanFails
  <2>. QED
    BY <1>11, <1>a, <1>b, <2>1 DEF ScanFails
<1>12. ASSUME NEW o \in Ops, NextPoll(o) PROVE ServerTypes' /\ OpTypes' /\ PollsLeft'
  <2>1. poll' \in [Ops -> 0 .. Polls]
    <3>1. poll[o] \in 0 .. Polls /\ poll[o] < Polls
      BY <1>0, <1>12 DEF NextPoll, OpTypes, PollsLeft
    <3>2. poll[o] + 1 \in 0 .. Polls
      BY <3>1, ConstantsAssumption DEF ConstantsAssumption
    <3>. QED
      BY <1>0, <1>12, <3>2 DEF NextPoll, OpTypes
  <2>. QED
    BY <1>0, <1>12, <1>a, <2>1 DEF NextPoll, OpTypes, PollsLeft
<1>13. ASSUME NEW o \in Ops, PollingCancelled(o) PROVE ServerTypes' /\ OpTypes' /\ PollsLeft'
  <2>1. ReportTypes /\ pc' = [pc EXCEPT ![o] = "done"]
    BY <1>0, <1>13, CodeFacts, FailType DEF PollingCancelled
  <2>. QED
    BY <1>13, <1>a, <1>b, <2>1 DEF PollingCancelled
<1>14. ASSUME NEW c \in Replicas, Replicate(c) PROVE ServerTypes' /\ OpTypes' /\ PollsLeft'
  BY <1>0, <1>14, <1>c, NoteMissingType DEF Replicate, ServerTypes, Copies
<1>15. ASSUME NEW w \in stray, StrayArrives(w) PROVE ServerTypes' /\ OpTypes' /\ PollsLeft'
  BY <1>0, <1>15, <1>c, CommitType DEF StrayArrives, ServerTypes
<1>16. ASSUME RemoveTeam PROVE ServerTypes' /\ OpTypes' /\ PollsLeft'
  <2>1. [exists |-> FALSE, members |-> <<>>] \in TeamView
    BY DEF TeamView
  <2>. QED
    BY <1>0, <1>16, <1>c, <2>1, NoteMissingType DEF RemoveTeam, ServerTypes
<1>17. ASSUME NEW o \in Ops, Cancel(o) PROVE ServerTypes' /\ OpTypes' /\ PollsLeft'
  BY <1>0, <1>17, <1>a DEF Cancel, scanning, OpTypes, PollsLeft
<1>18. CASE UNCHANGED vars
  BY <1>18, <1>a, <1>c DEF vars
<1>. QED
  BY <1>1, <1>2, <1>3, <1>4, <1>5, <1>6, <1>7, <1>8, <1>9, <1>10, <1>11, <1>12, <1>13, <1>14,
     <1>15, <1>16, <1>17, <1>18
     DEF Next, Terminated

\* Every variable keeps to its type; in particular retryUntilReadable never
\* calls its closure more often than it was told.
THEOREM TypeCorrect == Spec => []TypeOK
BY TypeInit, TypeStep, PTL DEF Spec

-----------------------------------------------------------------------------
(* Sightings. *)

\* What the closure's variables say of the sightings made so far, and the three
\* properties it is for, of one operation.
Faithful(o) ==
  /\ pc[o] \in {"idle", "call"} => sighted[o] = <<>> /\ ~seen[o]
  /\ pc[o] # "done" => result[o] = None
  /\ pc[o] \in {"scan", "wait"} => req[o].kind \in Writes \union {"Read"}
  /\ req[o].kind \in Writes =>
       /\ seen[o] <=> sighted[o] # <<>>
       /\ seen[o] => found[o] = Latest(sighted[o])
       /\ pc[o] \in {"scan", "wait"} =>
            \A i \in DOMAIN sighted[o] : ~Converged(o, sighted[o][i])
       /\ pc[o] = "done" /\ result[o].code = "ok" =>
            /\ sighted[o] # <<>>
            /\ result[o].props = Latest(sighted[o])
            /\ req[o].role \notin {NoRole, result[o].props.role} =>
                 poll[o] = Polls /\ \A i \in DOMAIN sighted[o] : sighted[o][i].role # req[o].role
  /\ result[o].msg = "not found after add" => poll[o] = Polls /\ sighted[o] = <<>>

AllFaithful == \A o \in Ops : Faithful(o)

LEMMA FaithfulInit == Init => AllFaithful
<1>. SUFFICES ASSUME Init, NEW o \in Ops PROVE Faithful(o)
  BY DEF AllFaithful
<1>1. /\ pc[o] = "idle" /\ result[o] = None /\ sighted[o] = <<>> /\ seen[o] = FALSE
      /\ result[o].msg = ""
  BY DEF Init, None
<1>. QED
  BY <1>1 DEF Faithful

\* Nothing is said anew of an operation that did not move.
Still(p) ==
  /\ req'[p] = req[p] /\ pc'[p] = pc[p] /\ poll'[p] = poll[p] /\ found'[p] = found[p]
  /\ seen'[p] = seen[p] /\ result'[p] = result[p] /\ sighted'[p] = sighted[p]

LEMMA StillFaithful ==
  ASSUME NEW p \in Ops, Faithful(p), Still(p)
  PROVE  Faithful(p)'
BY DEF Still, Faithful, Converged

LEMMA AppendFacts ==
  ASSUME NEW s \in Seq(Membership), NEW m \in Membership
  PROVE  /\ Append(s, m) # <<>>
         /\ Latest(Append(s, m)) = m
         /\ \A i \in DOMAIN Append(s, m) : \/ i \in DOMAIN s /\ Append(s, m)[i] = s[i]
                                           \/ Append(s, m)[i] = m
BY DEF Latest

LEMMA SucceedFacts ==
  ASSUME OpTypes, NEW o \in Ops, NEW m, Succeed(o, m)
  PROVE  /\ pc'[o] = "done" /\ \A p \in Ops \ {o} : pc'[p] = pc[p] /\ result'[p] = result[p]
         /\ result'[o].code = "ok" /\ result'[o].props = m /\ result'[o].msg = ""
BY DEF OpTypes, Succeed, Finish

LEMMA FailFacts ==
  ASSUME OpTypes, NEW o \in Ops, NEW code \in ErrorCodes, Fail(o, code)
  PROVE  /\ pc'[o] = "done" /\ \A p \in Ops \ {o} : pc'[p] = pc[p] /\ result'[p] = result[p]
         /\ result'[o].code # "ok" /\ result'[o].msg = ""
BY CodeFacts DEF OpTypes, Fail, Finish

\* An operation that fails on an error says nothing of its sightings.
LEMMA FailFaithful ==
  ASSUME OpTypes, NEW o \in Ops, Faithful(o), NEW code \in ErrorCodes, Fail(o, code),
         UNCHANGED <<req, scanning, sighted>>
  PROVE  \A p \in Ops : Faithful(p) => Faithful(p)'
<1>1. Faithful(o)'
  BY FailFacts DEF Faithful, scanning
<1>2. \A p \in Ops \ {o} : Still(p)
  BY FailFacts DEF Still, scanning
<1>. QED
  BY <1>1, <1>2, StillFaithful

\* A Delete or Read may succeed without a word on sightings.
LEMMA SucceedFaithful ==
  ASSUME OpTypes, NEW o \in Ops, Faithful(o), NEW m, Succeed(o, m),
         req[o].kind \notin Writes, UNCHANGED <<req, scanning, sighted>>
  PROVE  \A p \in Ops : Faithful(p) => Faithful(p)'
<1>1. Faithful(o)'
  BY SucceedFacts DEF Faithful, scanning
<1>2. \A p \in Ops \ {o} : Still(p)
  BY SucceedFacts DEF Still, scanning
<1>. QED
  BY <1>1, <1>2, StillFaithful

\* The end of a poll, for a closure that keeps found and seen as it should.
LEMMA PolledFaithful ==
  ASSUME OpTypes, NEW o \in Ops, NEW m, NEW ready \in BOOLEAN, Polled(o, m, ready),
         pc[o] = "scan", req[o].kind \in Writes, result[o] = None,
         UNCHANGED <<req, poll>>,
         seen'[o] <=> sighted'[o] # <<>>,
         seen'[o] => m = Latest(sighted'[o]) /\ found'[o] = m,
         ready => seen'[o] /\ Converged(o, m),
         ~ready => \A i \in DOMAIN sighted'[o] : ~Converged(o, sighted'[o][i])
  PROVE  Faithful(o)'
<1>1. CASE (ready \/ poll[o] = Polls) /\ seen'[o]
  <2>1. Succeed(o, m)
    BY <1>1 DEF Polled, Settle
  <2>2. /\ pc'[o] = "done" /\ result'[o].code = "ok"
        /\ result'[o].props = m /\ result'[o].msg = ""
    BY <2>1, SucceedFacts
  <2>. QED
    BY <1>1, <2>2 DEF Faithful, Converged
<1>2. CASE (ready \/ poll[o] = Polls) /\ ~seen'[o]
  <2>1. Finish(o, [code |-> MapAPIError(OtherError("not found")), props |-> Zero,
                   msg |-> "not found after add"])
    BY <1>2 DEF Polled, Settle
  <2>2. pc'[o] = "done" /\ result'[o].code = MapAPIError(OtherError("not found"))
    BY <2>1 DEF Finish, OpTypes
  <2>3. result'[o].code # "ok"
    BY <2>2, CodeFacts
  <2>. QED
    BY <1>2, <2>2, <2>3 DEF Faithful
<1>3. CASE ~(ready \/ poll[o] = Polls)
  <2>a. pc' = [pc EXCEPT ![o] = "wait"] /\ result' = result
    BY <1>3, Zenon DEF Polled
  <2>c. pc'[o] = "wait"
    BY <2>a DEF OpTypes
  <2>d. result'[o] = None
    BY <2>a
  <2>1. pc'[o] = "wait" /\ result'[o] = None /\ result'[o].msg = ""
    <3>1. None.msg = ""
      BY DEF None
    <3>. QED
      BY <2>c, <2>d, <3>1, Zenon
  <2>b. \A i \in DOMAIN sighted'[o] : ~Converged(o, sighted'[o][i])
    BY <1>3, Zenon
  <2>2. (\A i \in DOMAIN sighted[o] : ~Converged(o, sighted[o][i]))'
    BY <2>b DEF Converged
  <2>. QED
    BY <2>1, <2>2 DEF Faithful
<1>. QED
  BY <1>1, <1>2, <1>3

LEMMA HitFaithful ==
  ASSUME TypeOK, NEW o \in Ops, Faithful(o), NEW c \in Copies, Hit(o, c)
  PROVE  \A p \in Ops : Faithful(p) => Faithful(p)'
<1>0. OpTypes
  BY SplitTypes
<1>1. PICK m \in OnPage(o, c) :
        /\ sighted' = [sighted EXCEPT ![o] = Append(@, m)]
        /\ IF req[o].kind = "Read"
           THEN Succeed(o, m) /\ UNCHANGED <<found, seen>>
           ELSE PollHits(o, m)
  BY DEF Hit
<1>2. m \in Membership /\ pc[o] = "scan" /\ UNCHANGED <<req, poll>>
  BY DEF OnPage, Hit
<1>. DEFINE s == sighted[o]
<1>3. s \in Seq(Membership) /\ sighted'[o] = Append(s, m)
      /\ \A p \in Ops \ {o} : sighted'[p] = sighted[p]
  BY <1>0, <1>1 DEF OpTypes
<1>4. sighted'[o] # <<>> /\ Latest(sighted'[o]) = m
  BY <1>2, <1>3, AppendFacts
<1>5. CASE req[o].kind = "Read"
  <2>1. Succeed(o, m) /\ UNCHANGED <<found, seen>>
    BY <1>1, <1>5
  <2>2. Faithful(o)'
    BY <1>0, <1>2, <1>5, <2>1, SucceedFacts DEF Faithful, Writes
  <2>3. \A p \in Ops \ {o} : Still(p)
    BY <1>0, <1>2, <1>3, <2>1, SucceedFacts DEF Still
  <2>. QED
    BY <2>2, <2>3, StillFaithful
<1>6. CASE req[o].kind # "Read"
  <2>1. PollHits(o, m)
    BY <1>1, <1>6
  <2>2. found'[o] = m /\ seen'[o] = TRUE
        /\ \A p \in Ops \ {o} : found'[p] = found[p] /\ seen'[p] = seen[p]
    BY <1>0, <2>1 DEF PollHits, OpTypes
  <2>3. \A p \in Ops \ {o} : pc'[p] = pc[p] /\ result'[p] = result[p]
    BY <1>0, <2>1 DEF PollHits, Polled, Settle, Succeed, Finish, OpTypes
  <2>4. \A p \in Ops \ {o} : Still(p)
    BY <1>2, <1>3, <2>2, <2>3 DEF Still
  <2>5. CASE req[o].kind \in Writes
    <3>1. \A i \in DOMAIN s : ~Converged(o, s[i])
      BY <1>2, <2>5 DEF Faithful
    <3>2. ~Converged(o, m) => \A i \in DOMAIN sighted'[o] : ~Converged(o, sighted'[o][i])
      BY <1>2, <1>3, <3>1, AppendFacts
    <3>3. Polled(o, m, Converged(o, m)) /\ Converged(o, m) \in BOOLEAN /\ result[o] = None
      BY <1>2, <2>1 DEF PollHits, Converged, Faithful
    <3>4. Faithful(o)'
      BY <1>0, <1>2, <1>4, <2>2, <2>5, <3>2, <3>3, PolledFaithful
    <3>. QED
      BY <2>4, <3>4, StillFaithful
  <2>6. req[o].kind \in Writes
    BY <1>2, <1>6 DEF Faithful
  <2>. QED
    BY <2>5, <2>6
<1>. QED
  BY <1>5, <1>6

LEMMA MissFaithful ==
  ASSUME TypeOK, NEW o \in Ops, Faithful(o), NEW c \in Copies, Miss(o, c)
  PROVE  \A p \in Ops : Faithful(p) => Faithful(p)'
<1>0. OpTypes
  BY SplitTypes
<1>1. pc[o] = "scan" /\ UNCHANGED <<req, poll, found, seen, sighted>>
  BY DEF Miss, PollMisses
<1>2. \A p \in Ops \ {o} : pc'[p] = pc[p] /\ result'[p] = result[p]
  BY <1>0 DEF Miss, PollMisses, Polled, Settle, Succeed, Fail, Finish, OpTypes
<1>3. \A p \in Ops \ {o} : Still(p)
  BY <1>1, <1>2 DEF Still
<1>4. CASE req[o].kind = "Read"
  <2>1. Fail(o, "NotFound") /\ "NotFound" \in ErrorCodes
    BY <1>4, CodeFacts DEF Miss
  <2>2. pc'[o] = "done" /\ result'[o].code # "ok" /\ result'[o].msg = ""
    BY <1>0, <2>1, FailFacts
  <2>3. Faithful(o)'
    BY <1>1, <2>2 DEF Faithful
  <2>. QED
    BY <1>3, <2>3, StillFaithful
<1>5. CASE req[o].kind \in Writes
  <2>1. Polled(o, found[o], FALSE) /\ result[o] = None
    BY <1>1, <1>5 DEF Miss, PollMisses, Faithful, Writes
  <2>2. /\ seen'[o] <=> sighted'[o] # <<>>
        /\ seen'[o] => found[o] = Latest(sighted'[o]) /\ found'[o] = found[o]
        /\ \A i \in DOMAIN sighted'[o] : ~Converged(o, sighted'[o][i])
    BY <1>1, <1>5 DEF Faithful
  <2>3. Faithful(o)'
    BY <1>0, <1>1, <1>5, <2>1, <2>2, PolledFaithful
  <2>. QED
    BY <1>3, <2>3, StillFaithful
<1>6. req[o].kind \in Writes \union {"Read"}
  BY <1>1 DEF Faithful
<1>. QED
  BY <1>4, <1>5, <1>6

LEMMA NothingSaid == None.msg = ""
BY DEF None

\* The server's own steps, and a context that is cancelled.
LEMMA ElsewhereFaithful ==
  ASSUME UNCHANGED <<req, pc, scanning, result, sighted>>
  PROVE  \A p \in Ops : Faithful(p) => Faithful(p)'
<1>1. \A p \in Ops : Still(p)
  BY DEF Still, scanning
<1>. QED
  BY <1>1, StillFaithful

LEMMA FaithfulStep == TypeOK /\ AllFaithful /\ [Next]_vars => AllFaithful'
<1>. SUFFICES ASSUME TypeOK, AllFaithful, [Next]_vars
              PROVE  \A p \in Ops : Faithful(p) => Faithful(p)'
  BY DEF AllFaithful
<1>. DEFINE Kept == \A p \in Ops : Faithful(p) => Faithful(p)'
<1>0. OpTypes /\ \A o \in Ops : Faithful(o)
  BY SplitTypes DEF AllFaithful
<1>1. ASSUME NEW o \in Ops, Begin(o) PROVE Kept
  <2>1. \A p \in Ops \ {o} : Still(p)
    BY <1>0, <1>1 DEF Begin, scanning, Still, OpTypes
  <2>2. Faithful(o)'
    <3>1. /\ pc[o] = "idle" /\ pc'[o] = "call"
          /\ UNCHANGED <<req, poll, found, seen, result, sighted>>
      BY <1>0, <1>1 DEF Begin, scanning, OpTypes
    <3>2. sighted[o] = <<>> /\ ~seen[o] /\ result[o] = None /\ result[o].msg = ""
      BY <1>0, <3>1, NothingSaid DEF Faithful
    <3>. QED
      BY <3>1, <3>2 DEF Faithful
  <2>. QED
    BY <2>1, <2>2, StillFaithful
<1>2. ASSUME NEW o \in Ops, Malformed(o) PROVE Kept
  BY <1>0, <1>2, CodeFacts, FailFaithful, SucceedFaithful DEF Malformed, Writes
<1>3. ASSUME NEW o \in Ops, Write(o) PROVE Kept
  <2>1. \A p \in Ops \ {o} : Still(p)
    BY <1>0, <1>3 DEF Write, Still, OpTypes
  <2>2. Faithful(o)'
    <3>1. /\ pc[o] = "call" /\ pc'[o] = "scan" /\ req[o].kind \in Writes
          /\ UNCHANGED <<req, found, seen, result, sighted>>
      BY <1>0, <1>3 DEF Write, Calling, Writes, OpTypes
    <3>2. sighted[o] = <<>> /\ ~seen[o] /\ result[o] = None /\ result[o].msg = ""
      BY <1>0, <3>1, NothingSaid DEF Faithful
    <3>3. sighted'[o] = <<>> /\ ~seen'[o] /\ result'[o] = None /\ result'[o].msg = ""
      BY <3>1, <3>2, Zenon
    <3>4. DOMAIN <<>> = {}
      OBVIOUS
    <3>. QED
      BY <3>1, <3>3, <3>4 DEF Faithful
  <2>. QED
    BY <2>1, <2>2, StillFaithful
<1>4. ASSUME NEW o \in Ops, WriteFails(o) PROVE Kept
  <2>1. PICK e : Fail(o, MapAPIError(e))
    BY <1>4 DEF WriteFails
  <2>. QED
    BY <1>0, <1>4, <2>1, CodeFacts, FailFaithful DEF WriteFails
<1>5. ASSUME NEW o \in Ops, Delete(o) PROVE Kept
  BY <1>0, <1>5, SucceedFaithful DEF Delete, Calling, Writes
<1>6. ASSUME NEW o \in Ops, DeleteFails(o) PROVE Kept
  <2>1. PICK e : IF IsNotFound(e) THEN Succeed(o, Zero) ELSE Fail(o, MapAPIError(e))
    BY <1>6 DEF DeleteFails
  <2>2. req[o].kind \notin Writes /\ UNCHANGED <<req, scanning, sighted>>
    BY <1>6 DEF DeleteFails, Calling, Writes
  <2>3. MapAPIError(e) \in ErrorCodes
    BY CodeFacts
  <2>. QED
    BY <1>0, <2>1, <2>2, <2>3, FailFaithful, SucceedFaithful
<1>7. ASSUME NEW o \in Ops, BeginRead(o) PROVE Kept
  <2>1. \A p \in Ops \ {o} : Still(p)
    BY <1>0, <1>7 DEF BeginRead, scanning, Still, OpTypes
  <2>2. Faithful(o)'
    <3>1. /\ pc[o] = "call" /\ pc'[o] = "scan" /\ req[o].kind = "Read"
          /\ UNCHANGED <<req, poll, found, seen, result, sighted>>
      BY <1>0, <1>7 DEF BeginRead, Calling, scanning, OpTypes
    <3>. QED
      BY <1>0, <3>1 DEF Faithful, Writes
  <2>. QED
    BY <2>1, <2>2, StillFaithful
<1>8. ASSUME NEW o \in Ops, NEW c \in Copies, Hit(o, c) PROVE Kept
  BY <1>0, <1>8, HitFaithful
<1>9. ASSUME NEW o \in Ops, NEW c \in Copies, NextPage(o, c) PROVE Kept
  <2>1. \A p \in Ops : Still(p)
    BY <1>9 DEF NextPage, Still
  <2>. QED
    BY <2>1, StillFaithful
<1>10. ASSUME NEW o \in Ops, NEW c \in Copies, Miss(o, c) PROVE Kept
  BY <1>0, <1>10, MissFaithful
<1>11. ASSUME NEW o \in Ops, ScanFails(o) PROVE Kept
  <2>1. PICK e : Fail(o, IF req[o].kind = "Read" /\ IsNotFound(e)
                         THEN "NotFound" ELSE MapAPIError(e))
    BY <1>11 DEF ScanFails
  <2>. DEFINE code == IF req[o].kind = "Read" /\ IsNotFound(e)
                      THEN "NotFound" ELSE MapAPIError(e)
  <2>2. code \in ErrorCodes
    BY CodeFacts
  <2>. HIDE DEF code
  <2>. QED
    BY <1>0, <1>11, <2>1, <2>2, FailFaithful DEF ScanFails, code
<1>12. ASSUME NEW o \in Ops, NextPoll(o) PROVE Kept
  <2>1. \A p \in Ops \ {o} : Still(p)
    BY <1>0, <1>12 DEF NextPoll, Still, OpTypes
  <2>2. Faithful(o)'
    <3>1. /\ pc[o] = "wait" /\ pc'[o] = "scan"
          /\ UNCHANGED <<req, found, seen, result, sighted>>
      BY <1>0, <1>12 DEF NextPoll, OpTypes
    <3>2. result[o] = None /\ result[o].msg = ""
      BY <1>0, <3>1, NothingSaid DEF Faithful
    <3>. QED
      BY <1>0, <3>1, <3>2 DEF Faithful, Converged
  <2>. QED
    BY <2>1, <2>2, StillFaithful
<1>13. ASSUME NEW o \in Ops, PollingCancelled(o) PROVE Kept
  BY <1>0, <1>13, CodeFacts, FailFaithful DEF PollingCancelled
<1>14. ASSUME NEW c \in Replicas, Replicate(c) PROVE Kept
  BY <1>14, ElsewhereFaithful DEF Replicate
<1>15. ASSUME NEW w \in stray, StrayArrives(w) PROVE Kept
  BY <1>15, ElsewhereFaithful DEF StrayArrives
<1>16. ASSUME RemoveTeam PROVE Kept
  BY <1>16, ElsewhereFaithful DEF RemoveTeam
<1>17. ASSUME NEW o \in Ops, Cancel(o) PROVE Kept
  BY <1>17, ElsewhereFaithful DEF Cancel
<1>18. CASE UNCHANGED vars
  BY <1>18, ElsewhereFaithful DEF vars
<1>. QED
  BY <1>1, <1>2, <1>3, <1>4, <1>5, <1>6, <1>7, <1>8, <1>9, <1>10, <1>11, <1>12, <1>13, <1>14,
     <1>15, <1>16, <1>17, <1>18
     DEF Next, Terminated

LEMMA AlwaysFaithful == Spec => []AllFaithful
<1>1. Spec => [](TypeOK /\ PollsLeft)
  BY TypeInit, TypeStep, PTL DEF Spec
<1>. QED
  BY <1>1, FaithfulInit, FaithfulStep, PTL DEF Spec

\* A Create or Update that succeeds reports the membership its polls saw last,
\* however many polls, copies and concurrent operations there are: the zero
\* membership and a value seen earlier are never reported.
THEOREM SuccessIsASighting == Spec => []SuccessReportsASighting
<1>1. AllFaithful => SuccessReportsASighting
  BY DEF AllFaithful, Faithful, SuccessReportsASighting, Ended
<1>. QED
  BY <1>1, AlwaysFaithful, PTL

\* A role other than the requested one is reported only after every poll was
\* made and none saw the requested one.
THEOREM StaleRoleTookTheWindow == Spec => []StaleRoleOnlyAfterWindow
<1>1. AllFaithful => StaleRoleOnlyAfterWindow
  BY DEF AllFaithful, Faithful, StaleRoleOnlyAfterWindow, Ended
<1>. QED
  BY <1>1, AlwaysFaithful, PTL

\* "not found after add" means that all polls were made and none saw the member.
THEOREM NotFoundWasNeverSeen == Spec => []NotFoundOnlyIfNeverSeen
<1>1. AllFaithful => NotFoundOnlyIfNeverSeen
  BY DEF AllFaithful, Faithful, NotFoundOnlyIfNeverSeen
<1>. QED
  BY <1>1, AlwaysFaithful, PTL

-----------------------------------------------------------------------------
(* The members of the team, and the copies without a user. *)

\* A DELETE takes out the one position the user has.
LEMMA RemovedMembers ==
  ASSUME NEW t \in TeamView, NEW u, Has(t, u)
  PROVE  \E at \in DOMAIN t.members :
           /\ t.members[at].user = u
           /\ LET s == Remove(t, u).members
              IN  /\ s \in Seq(Membership) /\ Len(s) = Len(t.members) - 1
                  /\ \A i \in DOMAIN s : s[i] = IF i < at THEN t.members[i] ELSE t.members[i + 1]
<1> DEFINE ms    == t.members
           at    == CHOOSE i \in DOMAIN ms : ms[i].user = u
           front == SubSeq(ms, 1, at - 1)
           back  == SubSeq(ms, at + 1, Len(ms))
<1>1. /\ ms \in Seq(Membership) /\ Len(ms) \in Nat /\ DOMAIN ms = 1 .. Len(ms)
      /\ \A i \in 1 .. Len(ms) : ms[i] \in Membership
  BY LenProperties, ElementOfSeq DEF TeamView
<1>2. at \in 1 .. Len(ms) /\ ms[at].user = u
  BY <1>1 DEF Has
<1>3. Remove(t, u).members = front \o back
  BY DEF Remove, TeamView
<1> HIDE DEF at, ms
<1>4. /\ front \in Seq(Membership) /\ Len(front) = at - 1
      /\ \A i \in 1 .. at - 1 : front[i] = ms[i]
  <2>1. \A i \in 1 .. at - 1 : ms[i] \in Membership
    BY <1>1, <1>2
  <2>2. /\ front \in Seq(Membership) /\ Len(front) = IF 1 <= at - 1 THEN at - 1 - 1 + 1 ELSE 0
        /\ \A i \in 1 .. at - 1 - 1 + 1 : front[i] = ms[1 + i - 1]
    BY <1>1, <1>2, <2>1, SubSeqProperties
  <2> HIDE DEF front
  <2> QED BY <1>1, <1>2, <2>2
<1>5. /\ back \in Seq(Membership) /\ Len(back) = Len(ms) - at
      /\ \A i \in 1 .. Len(ms) - at : back[i] = ms[at + i]
  <2>1. \A i \in at + 1 .. Len(ms) : ms[i] \in Membership
    BY <1>1, <1>2
  <2>2. /\ back \in Seq(Membership)
        /\ Len(back) = IF at + 1 <= Len(ms) THEN Len(ms) - (at + 1) + 1 ELSE 0
        /\ \A i \in 1 .. Len(ms) - (at + 1) + 1 : back[i] = ms[at + 1 + i - 1]
    BY <1>1, <1>2, <2>1, SubSeqProperties
  <2> HIDE DEF front, back
  <2>3. Len(back) = Len(ms) - at
    <3>1. Len(ms) \in Nat /\ at \in Nat /\ at <= Len(ms)
      BY <1>1, <1>2
    <3>2. Len(back) = IF at + 1 <= Len(ms) THEN Len(ms) - (at + 1) + 1 ELSE 0
      BY <2>2
    <3> QED BY <3>1, <3>2
  <2>4. ASSUME NEW i \in 1 .. Len(ms) - at
        PROVE  back[i] = ms[at + i]
    <3>1. i \in 1 .. Len(ms) - (at + 1) + 1 /\ at + 1 + i - 1 = at + i
      BY <1>1, <1>2
    <3> QED BY <2>2, <3>1
  <2> QED BY <2>2, <2>3, <2>4
<1> DEFINE s == front \o back
<1> HIDE DEF front, back
<1>6. /\ s \in Seq(Membership) /\ Len(s) = Len(front) + Len(back)
      /\ \A i \in 1 .. Len(front) + Len(back) :
           s[i] = IF i <= Len(front) THEN front[i] ELSE back[i - Len(front)]
  BY <1>4, <1>5, ConcatProperties
<1> HIDE DEF s
<1>7. Len(s) = Len(ms) - 1 /\ DOMAIN s = 1 .. Len(s)
  BY <1>1, <1>2, <1>4, <1>5, <1>6, LenProperties
<1>8. ASSUME NEW i \in 1 .. Len(s)
      PROVE  s[i] = IF i < at THEN ms[i] ELSE ms[i + 1]
  <2>1. CASE i < at
    BY <1>1, <1>2, <1>4, <1>5, <1>6, <1>7, <2>1
  <2>2. CASE i >= at
    <3>1. s[i] = back[i - (at - 1)] /\ i - (at - 1) \in 1 .. Len(ms) - at
      BY <1>1, <1>2, <1>4, <1>5, <1>6, <1>7, <2>2
    <3>2. back[i - (at - 1)] = ms[at + (i - (at - 1))]
      BY <1>5, <3>1
    <3>3. at + (i - (at - 1)) = i + 1 /\ ~(i < at)
      BY <1>1, <1>2, <2>2
    <3> QED BY <3>1, <3>2, <3>3
  <2> QED BY <1>1, <1>2, <2>1, <2>2
<1>9. /\ Remove(t, u).members = s /\ at \in DOMAIN t.members /\ t.members[at].user = u
      /\ t.members = ms
  BY <1>1, <1>2, <1>3 DEF s, ms
<1> QED BY <1>6, <1>7, <1>8, <1>9

\* It leaves the others once each, and the user not at all.
LEMMA RemoveSingle ==
  ASSUME NEW t \in TeamView, Single(t.members), NEW u
  PROVE  Single(Remove(t, u).members) /\ ~Has(Remove(t, u), u)
<1>1. CASE ~Has(t, u)
  BY <1>1 DEF Remove
<1>2. CASE Has(t, u)
  <2> DEFINE ms == t.members
             s  == Remove(t, u).members
  <2>1. PICK at \in DOMAIN ms :
          /\ ms[at].user = u
          /\ s \in Seq(Membership) /\ Len(s) = Len(ms) - 1
          /\ \A i \in DOMAIN s : s[i] = IF i < at THEN ms[i] ELSE ms[i + 1]
    BY <1>2, RemovedMembers
  <2>2. /\ ms \in Seq(Membership) /\ Len(ms) \in Nat /\ DOMAIN ms = 1 .. Len(ms)
        /\ DOMAIN s = 1 .. Len(ms) - 1
        /\ \A i, j \in DOMAIN ms : ms[i].user = ms[j].user => i = j
    BY <2>1, LenProperties DEF TeamView, Single
  <2>3. Remove(t, u).members = s
    OBVIOUS
  <2> HIDE DEF ms, s
  <2>4. ASSUME NEW i \in DOMAIN s
        PROVE  s[i].user # u
    BY <2>1, <2>2
  <2>5. ASSUME NEW i \in DOMAIN s, NEW j \in DOMAIN s, s[i].user = s[j].user
        PROVE  i = j
    <3> DEFINE place(k) == IF k < at THEN k ELSE k + 1
    <3>1. place(i) \in DOMAIN ms /\ s[i] = ms[place(i)] /\ place(j) \in DOMAIN ms /\ s[j] = ms[place(j)]
      BY <2>1, <2>2
    <3>2. place(i) = place(j)
      BY <2>2, <2>5, <3>1
    <3> QED BY <2>1, <2>2, <3>2
  <2> QED BY <2>3, <2>4, <2>5 DEF Single, Has
<1> QED BY <1>1, <1>2

LEMMA PutSingle ==
  ASSUME NEW t \in TeamView, Single(t.members), t.exists, NEW m \in Membership
  PROVE  Single(Put(t, m).members)
<1> DEFINE ms == t.members
           s  == Put(t, m).members
<1>1. /\ ms \in Seq(Membership) /\ Len(ms) \in Nat /\ DOMAIN ms = 1 .. Len(ms)
      /\ \A i, j \in DOMAIN ms : ms[i].user = ms[j].user => i = j
  BY LenProperties DEF TeamView, Single
<1>2. CASE Has(t, m.user)
  <2>1. s = [i \in DOMAIN ms |-> IF ms[i].user = m.user THEN m ELSE ms[i]]
    BY <1>2 DEF Put, TeamView
  <2>2. DOMAIN s = DOMAIN ms /\ \A i \in DOMAIN ms : s[i].user = ms[i].user
    BY <2>1
  <2> QED BY <1>1, <2>2 DEF Single
<1>3. CASE ~Has(t, m.user)
  <2>1. s = Append(ms, m)
    BY <1>3 DEF Put, TeamView
  <2>2. \A i \in DOMAIN ms : ms[i].user # m.user
    BY <1>3 DEF Has
  <2>3. /\ DOMAIN s = 1 .. Len(ms) + 1 /\ s[Len(ms) + 1] = m
        /\ \A i \in 1 .. Len(ms) : s[i] = ms[i]
    BY <1>1, <2>1, AppendProperties
  <2> HIDE DEF s, ms
  <2>4. ASSUME NEW i \in DOMAIN s, NEW j \in DOMAIN s, s[i].user = s[j].user
        PROVE  i = j
    <3>1. CASE i \in DOMAIN ms /\ j \in DOMAIN ms
      BY <1>1, <2>3, <2>4, <3>1
    <3>2. CASE i \in DOMAIN ms /\ j \notin DOMAIN ms
      BY <1>1, <2>2, <2>3, <2>4, <3>2
    <3>3. CASE i \notin DOMAIN ms /\ j \in DOMAIN ms
      BY <1>1, <2>2, <2>3, <2>4, <3>3
    <3>4. CASE i \notin DOMAIN ms /\ j \notin DOMAIN ms
      BY <1>1, <2>3, <3>4
    <3> QED BY <3>1, <3>2, <3>3, <3>4
  <2> QED BY <2>4 DEF Single, s
<1> QED BY <1>2, <1>3

LEMMA ExecuteSingle ==
  ASSUME NEW t \in TeamView, Single(t.members), NEW w \in WriteSet
  PROVE  Single(Execute(t, w).members)
<1>1. [user |-> w.user, role |-> w.role] \in Membership /\ w.kind \in {"PUT", "DELETE"}
  BY DEF WriteSet, Membership
<1>2. CASE ~t.exists
  BY <1>2 DEF Execute
<1>3. CASE t.exists /\ w.kind = "PUT"
  BY <1>1, <1>3, PutSingle DEF Execute
<1>4. CASE t.exists /\ w.kind = "DELETE"
  BY <1>4, RemoveSingle DEF Execute
<1> QED BY <1>1, <1>2, <1>3, <1>4

\* A user is a member once, of the team as writes see it.
MembersInv == Single(team[Primary].members)

\* Where an operation that has begun does not find its user, it has noted so.
MissingInv ==
  \A p \in Ops, c \in Copies :
    pc[p] # "idle" /\ ~Has(team[c], req[p].user) => c \in missing[p]

\* What a step does to the team and the notes made of it.
LEMMA StepServer ==
  ASSUME TypeOK, [Next]_vars
  PROVE  /\ req' = req
         /\ \/ UNCHANGED <<team, missing>> /\ \A p \in Ops : pc'[p] = "idle" <=> pc[p] = "idle"
            \/ NoteMissing /\ \A p \in Ops : pc'[p] = "idle" <=> pc[p] = "idle"
            \/ \E o \in Ops : Begin(o)
<1> DEFINE Going == \A p \in Ops : pc'[p] = "idle" <=> pc[p] = "idle"
           Noted == UNCHANGED <<team, missing>> \/ NoteMissing
           Kept  == req' = req /\ Going /\ Noted
<1>0. OpTypes
  BY SplitTypes
<1>a. ASSUME NEW o \in Ops, NEW there, pc[o] # "idle", there # "idle", pc' = [pc EXCEPT ![o] = there]
      PROVE  Going
  BY <1>0, <1>a DEF OpTypes
<1>b. ASSUME NEW o \in Ops, NEW r, pc[o] # "idle", Finish(o, r)
      PROVE  Going
  BY <1>a, <1>b DEF Finish
<1>c. ASSUME NEW o \in Ops, NEW w, NEW e, WriteError(o, w, e)
      PROVE  Noted
  BY <1>c, Zenon DEF WriteError, Refused, MaybeExecuted, Commit, server
<1>d. ASSUME NEW o \in Ops, NEW m, NEW ready, pc[o] # "idle", Polled(o, m, ready)
      PROVE  Going
  <2>1. CASE ready \/ poll[o] = Polls
    BY <1>b, <1>d, <2>1 DEF Polled, Settle, Succeed
  <2>2. CASE ~(ready \/ poll[o] = Polls)
    BY <1>a, <1>d, <2>2 DEF Polled
  <2> QED BY <2>1, <2>2
<1> HIDE DEF Going, Noted
<1>1. ASSUME NEW o \in Ops, Malformed(o) PROVE Kept
  <2>1. req' = req /\ Noted /\ pc[o] # "idle"
    BY <1>1 DEF Malformed, Noted
  <2> QED BY <1>1, <1>b, <2>1 DEF Malformed, Succeed, Fail
<1>2. ASSUME NEW o \in Ops, Write(o) PROVE Kept
  <2>1. req' = req /\ Noted /\ pc[o] # "idle"
    BY <1>2 DEF Write, Calling, Commit, Noted
  <2>2. pc' = [pc EXCEPT ![o] = "scan"]
    BY <1>2 DEF Write
  <2> QED BY <1>a, <2>1, <2>2
<1>3. ASSUME NEW o \in Ops, WriteFails(o) PROVE Kept
  <2>1. req' = req /\ Noted /\ pc[o] # "idle"
    BY <1>3, <1>c DEF WriteFails, Calling
  <2> QED BY <1>3, <1>b, <2>1 DEF WriteFails, Fail
<1>4. ASSUME NEW o \in Ops, Delete(o) PROVE Kept
  <2>1. req' = req /\ Noted /\ pc[o] # "idle"
    BY <1>4 DEF Delete, Calling, Commit, Noted
  <2> QED BY <1>4, <1>b, <2>1 DEF Delete, Succeed
<1>5. ASSUME NEW o \in Ops, DeleteFails(o) PROVE Kept
  <2>1. req' = req /\ Noted /\ pc[o] # "idle"
    BY <1>5, <1>c DEF DeleteFails, Calling
  <2> QED BY <1>5, <1>b, <2>1 DEF DeleteFails, Succeed, Fail
<1>6. ASSUME NEW o \in Ops, BeginRead(o) PROVE Kept
  <2>1. req' = req /\ Noted /\ pc[o] # "idle" /\ pc' = [pc EXCEPT ![o] = "scan"]
    BY <1>6 DEF BeginRead, Calling, server, Noted
  <2> QED BY <1>a, <2>1
<1>7. ASSUME NEW o \in Ops, NEW c \in Copies, Hit(o, c) PROVE Kept
  <2>1. req' = req /\ Noted /\ pc[o] # "idle"
    BY <1>7 DEF Hit, server, Noted
  <2> QED BY <1>7, <1>b, <1>d, <2>1 DEF Hit, PollHits, Succeed
<1>8. ASSUME NEW o \in Ops, NEW c \in Copies, NextPage(o, c) PROVE Kept
  BY <1>8 DEF NextPage, server, Noted, Going
<1>9. ASSUME NEW o \in Ops, NEW c \in Copies, Miss(o, c) PROVE Kept
  <2>1. req' = req /\ Noted /\ pc[o] # "idle"
    BY <1>9 DEF Miss, server, Noted
  <2> QED BY <1>9, <1>b, <1>d, <2>1 DEF Miss, PollMisses, Fail
<1>10. ASSUME NEW o \in Ops, ScanFails(o) PROVE Kept
  <2>1. req' = req /\ Noted /\ pc[o] # "idle"
    BY <1>10 DEF ScanFails, server, Noted
  <2> QED BY <1>10, <1>b, <2>1 DEF ScanFails, Fail
<1>11. ASSUME NEW o \in Ops, NextPoll(o) PROVE Kept
  <2>1. req' = req /\ Noted /\ pc[o] # "idle" /\ pc' = [pc EXCEPT ![o] = "scan"]
    BY <1>11 DEF NextPoll, server, Noted
  <2> QED BY <1>a, <2>1
<1>12. ASSUME NEW o \in Ops, PollingCancelled(o) PROVE Kept
  <2>1. req' = req /\ Noted /\ pc[o] # "idle"
    BY <1>12 DEF PollingCancelled, server, Noted
  <2> QED BY <1>12, <1>b, <2>1 DEF PollingCancelled, Fail
<1>13. ASSUME NEW c \in Replicas, Replicate(c) PROVE Kept
  BY <1>13 DEF Replicate, Noted, Going
<1>14. ASSUME NEW w \in stray, StrayArrives(w) PROVE Kept
  BY <1>14 DEF StrayArrives, Commit, Noted, Going
<1>15. ASSUME RemoveTeam \/ (\E o \in Ops : Cancel(o)) \/ UNCHANGED vars PROVE Kept
  BY <1>15 DEF RemoveTeam, Cancel, vars, server, Noted, Going
<1>16. ASSUME NEW o \in Ops, Begin(o) PROVE req' = req
  BY <1>16 DEF Begin
<1> HIDE DEF Kept
<1>17. Kept \/ \E o \in Ops : Begin(o)
  BY <1>1, <1>2, <1>3, <1>4, <1>5, <1>6, <1>7, <1>8, <1>9, <1>10, <1>11, <1>12, <1>13, <1>14, <1>15
     DEF Next, Terminated
<1> QED BY <1>16, <1>17, Zenon DEF Kept, Going, Noted

LEMMA StepMissing ==
  ASSUME TypeOK, MissingInv, [Next]_vars
  PROVE  /\ MissingInv'
         /\ \A p \in Ops : pc[p] # "idle" => missing[p] \subseteq missing'[p]
<1>0. OpTypes /\ ServerTypes /\ req' = req
  BY SplitTypes, StepServer
<1>1. CASE UNCHANGED <<team, missing>> /\ \A p \in Ops : pc'[p] = "idle" <=> pc[p] = "idle"
  BY <1>0, <1>1, Zenon DEF MissingInv, Has
<1>2. CASE NoteMissing /\ \A p \in Ops : pc'[p] = "idle" <=> pc[p] = "idle"
  <2>1. \A p \in Ops : pc[p] # "idle" => missing'[p] = missing[p] \union Lacking(p)
    BY <1>2 DEF NoteMissing
  <2>2. \A p \in Ops, c \in Copies : ~Has(team'[c], req[p].user) => c \in Lacking(p)
    BY DEF Lacking
  <2> QED BY <1>0, <1>2, <2>1, <2>2 DEF MissingInv, Has
<1>3. ASSUME NEW o \in Ops, Begin(o)
      PROVE  MissingInv' /\ \A p \in Ops : pc[p] # "idle" => missing[p] \subseteq missing'[p]
  <2>1. /\ team' = team /\ pc[o] = "idle"
        /\ missing'[o] = {c \in Copies : ~Has(team[c], req[o].user)}
        /\ \A p \in Ops \ {o} : missing'[p] = missing[p] /\ pc'[p] = pc[p]
    BY <1>0, <1>3 DEF Begin, OpTypes, ServerTypes
  <2> QED BY <1>0, <2>1 DEF MissingInv, Has
<1> QED BY <1>1, <1>2, <1>3, StepServer

\* What a step does to the team as writes see it.
LEMMA StepPrimary ==
  ASSUME TypeOK, [Next]_vars
  PROVE  \/ team'[Primary] = team[Primary]
         \/ \E w \in WriteSet : team'[Primary] = Execute(team[Primary], w)
         \/ team'[Primary].members = <<>>
<1> DEFINE Stays == team'[Primary] = team[Primary]
           Executed == \E w \in WriteSet : team'[Primary] = Execute(team[Primary], w)
<1>0. ServerTypes /\ Primary \in Copies /\ Primary \notin Replicas
  BY SplitTypes, ConstantsAssumption DEF Copies
<1>a. ASSUME NEW w \in WriteSet, Commit(w)
      PROVE  Executed
  BY <1>0, <1>a DEF Commit, ServerTypes
<1>b. ASSUME NEW o \in Ops, NEW w \in WriteSet, NEW e, WriteError(o, w, e)
      PROVE  Stays \/ Executed
  <2>1. team' = team \/ Commit(w)
    BY <1>b, Zenon DEF WriteError, Refused, MaybeExecuted, server
  <2> QED BY <1>a, <2>1
<1> HIDE DEF Executed
<1>1. ASSUME NEW o \in Ops, Write(o) \/ Delete(o) PROVE Executed
  <2>1. req[o].user # NoUser
    BY <1>1 DEF Write, Delete, Calling
  <2>2. Commit(Removal(o)) \/ \E rl \in RolesOf(req[o]) : Commit(Addition(o, rl))
    BY <1>1 DEF Write, Delete
  <2> QED BY <1>a, <2>1, <2>2, RequestedWrites
<1>2. ASSUME NEW o \in Ops, WriteFails(o) \/ DeleteFails(o) PROVE Stays \/ Executed
  <2>1. req[o].user # NoUser
    BY <1>2 DEF WriteFails, DeleteFails, Calling
  <2>2. \E e : WriteError(o, Removal(o), e) \/ \E rl \in RolesOf(req[o]) : WriteError(o, Addition(o, rl), e)
    BY <1>2, Zenon DEF WriteFails, DeleteFails
  <2> QED BY <1>b, <2>1, <2>2, RequestedWrites
<1>3. ASSUME NEW w \in stray, StrayArrives(w) PROVE Executed
  BY <1>0, <1>3, <1>a DEF StrayArrives, ServerTypes
<1>4. CASE RemoveTeam
  BY <1>0, <1>4 DEF RemoveTeam, ServerTypes
<1>5. ASSUME NEW c \in Replicas, Replicate(c) PROVE Stays
  BY <1>0, <1>5 DEF Replicate, ServerTypes, Copies
<1>6. ASSUME NEW o \in Ops,
             \/ Begin(o) \/ Malformed(o) \/ BeginRead(o) \/ ScanFails(o) \/ NextPoll(o)
             \/ PollingCancelled(o) \/ Cancel(o)
             \/ \E c \in Copies : Hit(o, c) \/ NextPage(o, c) \/ Miss(o, c)
      PROVE  Stays
  BY <1>6, Zenon
     DEF Begin, Malformed, BeginRead, ScanFails, NextPoll, PollingCancelled, Cancel, Hit, NextPage,
         Miss, server
<1>7. ASSUME UNCHANGED vars PROVE Stays
  BY <1>7 DEF vars, server
<1> HIDE DEF Stays
<1>8. Stays \/ Executed \/ RemoveTeam
  BY <1>1, <1>2, <1>3, <1>5, <1>6, <1>7 DEF Next, Terminated
<1> QED BY <1>4, <1>8 DEF Stays, Executed

LEMMA InitMissing == Init => MembersInv /\ MissingInv
<1> SUFFICES ASSUME Init PROVE MembersInv /\ MissingInv
  OBVIOUS
<1>1. PICK ms \in InitMembers : team = [c \in Copies |-> [exists |-> TRUE, members |-> ms]]
  BY DEF Init
<1>2. team[Primary].members = ms
  BY <1>1 DEF Copies
<1>3. MissingInv
  BY DEF Init, MissingInv
<1> QED BY <1>2, <1>3, ConstantsAssumption DEF MembersInv

LEMMA StepMembers == TypeOK /\ MembersInv /\ [Next]_vars => MembersInv'
<1> SUFFICES ASSUME TypeOK, MembersInv, [Next]_vars PROVE MembersInv'
  OBVIOUS
<1>1. team[Primary] \in TeamView
  BY SplitTypes DEF ServerTypes, Copies
<1>2. CASE team'[Primary] = team[Primary]
  BY <1>2 DEF MembersInv, Single
<1>3. CASE \E w \in WriteSet : team'[Primary] = Execute(team[Primary], w)
  BY <1>1, <1>3, ExecuteSingle DEF MembersInv, Single
<1>4. CASE team'[Primary].members = <<>>
  BY <1>4 DEF MembersInv, Single
<1> QED BY <1>2, <1>3, <1>4, StepPrimary

-----------------------------------------------------------------------------
(* Nobody is called gone who was there throughout. *)

\* How an operation comes to report something.
LEMMA StepReports ==
  ASSUME TypeOK, [Next]_vars, NEW p \in Ops, pc'[p] = "done"
  PROVE  \/ pc[p] = "done" /\ result'[p] = result[p]
         \/ Malformed(p) \/ WriteFails(p) \/ Delete(p) \/ DeleteFails(p)
         \/ \E c \in Copies : Hit(p, c) \/ Miss(p, c)
         \/ ScanFails(p) \/ PollingCancelled(p)
<1> DEFINE Quiet == pc'[p] = pc[p] /\ result'[p] = result[p]
<1>0. OpTypes
  BY SplitTypes
<1>a. ASSUME NEW o \in Ops, o # p, NEW r, Finish(o, r)
      PROVE  Quiet
  BY <1>0, <1>a DEF Finish, OpTypes
<1>b. ASSUME NEW o \in Ops, o # p, NEW there, pc' = [pc EXCEPT ![o] = there], result' = result
      PROVE  Quiet
  BY <1>0, <1>b DEF OpTypes
<1>c. ASSUME NEW o \in Ops, o # p, NEW m, NEW ready, Polled(o, m, ready)
      PROVE  Quiet
  BY <1>a, <1>b, <1>c DEF Polled, Settle, Succeed
<1> HIDE DEF Quiet
<1>1. ASSUME NEW o \in Ops, o # p,
             Malformed(o) \/ WriteFails(o) \/ Delete(o) \/ DeleteFails(o) \/ ScanFails(o) \/ PollingCancelled(o)
      PROVE  Quiet
  <2>1. \E r : Finish(o, r)
    BY <1>1 DEF Malformed, WriteFails, Delete, DeleteFails, ScanFails, PollingCancelled, Succeed, Fail
  <2> QED BY <1>1, <1>a, <2>1
<1>2. ASSUME NEW o \in Ops, o # p, NEW c \in Copies, Hit(o, c) \/ Miss(o, c)
      PROVE  Quiet
  <2>1. (\E r : Finish(o, r)) \/ \E m, ready : Polled(o, m, ready)
    BY <1>2 DEF Hit, Miss, PollHits, PollMisses, Succeed, Fail
  <2> QED BY <1>2, <1>a, <1>c, <2>1
<1>3. ASSUME NEW o \in Ops, Begin(o) \/ Write(o) \/ BeginRead(o) \/ NextPoll(o)
      PROVE  Quiet
  <2>1. PICK there \in {"call", "scan"} : pc' = [pc EXCEPT ![o] = there] /\ result' = result
    BY <1>3 DEF Begin, Write, BeginRead, NextPoll
  <2>2. o # p
    BY <1>0, <2>1 DEF OpTypes
  <2> QED BY <1>b, <2>1, <2>2
<1>4. ASSUME \/ \E o \in Ops, c \in Copies : NextPage(o, c)
             \/ \E c \in Replicas : Replicate(c)
             \/ \E w \in stray : StrayArrives(w)
             \/ RemoveTeam
             \/ \E o \in Ops : Cancel(o)
             \/ UNCHANGED vars
      PROVE  Quiet
  BY <1>4 DEF NextPage, Replicate, StrayArrives, RemoveTeam, Cancel, vars, Quiet
<1>5. Quiet => pc[p] = "done" /\ result'[p] = result[p]
  BY DEF Quiet
<1> QED BY <1>1, <1>2, <1>3, <1>4, <1>5 DEF Next, Terminated

\* An error of the server's or the network's does not say that nothing is there.
LEMMA InterruptionsSayNothing ==
  \A e \in ServerErrors \union {ContextDone} : ~IsNotFound(e) /\ MapAPIError(e) # "NotFound"
<1>1. \A e \in Unknown : ~IsNotFound(e) /\ MapAPIError(e) # "NotFound"
  <2>1. \A e \in Unknown : MapAPIError(e) # "NotFound"
    BY UnknownCodes
  <2>2. ~IsNotFound(APIError(503, FALSE, "")) /\ ~IsNotFound(OtherError(""))
    BY DEF IsNotFound, APIError, OtherError
  <2> QED BY <2>1, <2>2 DEF Unknown
<1>2. ASSUME NEW e, e = Throttled
      PROVE  ~IsNotFound(e) /\ MapAPIError(e) # "NotFound"
  <2>1. e.api = TRUE /\ e.status = 429
    BY <1>2 DEF Throttled, APIError
  <2>2. e.status # 404
    BY <2>1
  <2>3. ~IsNotFound(e)
    BY <2>1, <2>2, Zenon DEF IsNotFound
  <2>4. Recognised(e)
    BY <2>1, Zenon DEF Recognised
  <2>5. MapAPIError(e) = "Throttling"
    BY <2>1, <2>4 DEF MapAPIError
  <2> QED BY <2>3, <2>5
<1>3. ContextDone \in Unknown
  BY DEF ContextDone, Unknown
<1> QED BY <1>1, <1>2, <1>3 DEF ServerErrors

LEMMA StepGone ==
  TypeOK /\ AllFaithful /\ MembersInv /\ MissingInv /\ DeletedMeansGone /\ [Next]_vars => DeletedMeansGone'
<1> SUFFICES ASSUME TypeOK, AllFaithful, MembersInv, MissingInv, DeletedMeansGone, [Next]_vars,
                    NEW p \in Ops, pc'[p] = "done", req'[p].kind = "Delete", req'[p].user # NoUser,
                    result'[p].code = "ok"
             PROVE  Primary \in missing'[p]
  BY DEF DeletedMeansGone, Ended
<1>0. /\ OpTypes /\ ServerTypes /\ Primary \in Copies /\ req' = req /\ Faithful(p)
      /\ req[p].kind = "Delete" /\ req[p].user # NoUser
  BY SplitTypes, StepServer DEF Copies, AllFaithful
<1>1. CASE pc[p] = "done" /\ result'[p] = result[p]
  <2>1. Primary \in missing[p] /\ pc[p] # "idle"
    BY <1>0, <1>1 DEF DeletedMeansGone, Ended
  <2> QED BY <2>1, StepMissing
<1>2. CASE Delete(p)
  <2>1. Commit(Removal(p)) /\ Has(team[Primary], req[p].user) /\ Removal(p).kind = "DELETE"
        /\ Removal(p).user = req[p].user
    BY <1>2 DEF Delete, Removal
  <2>2. team[Primary] \in TeamView /\ team[Primary].exists
    BY <1>0, <2>1 DEF ServerTypes, Has
  <2>3. team'[Primary] = Remove(team[Primary], req[p].user)
    BY <1>0, <2>1, <2>2 DEF Commit, Execute, ServerTypes
  <2>4. ~Has(team'[Primary], req'[p].user)
    BY <1>0, <2>2, <2>3, RemoveSingle DEF MembersInv
  <2> QED BY <1>0, <2>4, StepMissing DEF MissingInv
<1>3. CASE DeleteFails(p)
  <2>1. PICK e \in ServerErrors \union {NotThere, BadReference} :
          /\ WriteError(p, Removal(p), e)
          /\ IF IsNotFound(e) THEN Succeed(p, Zero) ELSE Fail(p, MapAPIError(e))
    BY <1>3 DEF DeleteFails
  <2>2. IsNotFound(e)
    BY <1>0, <2>1, FailFacts, CodeFacts
  <2>3. ~IsNotFound(BadReference)
    BY OnlyNotThereIsGone DEF Refusals, BadReference, NotThere, APIError
  <2>4. e = NotThere /\ e # BadReference /\ e \notin Interruptions(p)
    BY <2>1, <2>2, <2>3, InterruptionsSayNothing DEF Interruptions
  <2>5. ~team[Primary].exists \/ ~Has(team[Primary], Removal(p).user)
    BY <2>1, <2>4 DEF WriteError, Refused
  <2>6. ~Has(team[Primary], req[p].user) /\ pc[p] # "idle"
    BY <1>3, <2>5 DEF Has, Removal, DeleteFails, Calling
  <2> QED BY <1>0, <2>6, StepMissing DEF MissingInv
<1>4. CASE Malformed(p) \/ WriteFails(p)
  BY <1>0, <1>4 DEF Malformed, WriteFails, Calling
<1>5. CASE (\E c \in Copies : Hit(p, c) \/ Miss(p, c)) \/ ScanFails(p) \/ PollingCancelled(p)
  <2>1. pc[p] \in {"scan", "wait"}
    BY <1>5 DEF Hit, Miss, ScanFails, PollingCancelled
  <2> QED BY <1>0, <2>1 DEF Faithful, Writes
<1> QED BY <1>1, <1>2, <1>3, <1>4, <1>5, StepReports

\* DeletedMeansGone, always: IsNotFound takes only a 404 for "already gone", and
\* whoever is removed or not found at the primary was noted as missing.
THEOREM DeletesAreTrue == Spec => []DeletedMeansGone
<1>1. Init => DeletedMeansGone
  BY DEF Init, DeletedMeansGone, Ended
<1>2. TypeOK /\ MissingInv /\ [Next]_vars => MissingInv'
  BY StepMissing
<1> QED
  BY <1>1, <1>2, TypeInit, TypeStep, AlwaysFaithful, InitMissing, StepMembers, StepGone, PTL DEF Spec

-----------------------------------------------------------------------------
(* Reads of a team that fits a page. *)

OnePage == \A c \in Copies : Len(team[c].members) <= PageSize

\* A Read begins at the first page, and so it stays.
FirstPage == \A p \in Ops : req[p].kind = "Read" => offset[p] = 0

LEMMA StepPage == TypeOK /\ OnePage /\ FirstPage /\ [Next]_vars => FirstPage'
<1> SUFFICES ASSUME TypeOK, OnePage, FirstPage, [Next]_vars PROVE FirstPage'
  OBVIOUS
<1>0. OpTypes /\ ServerTypes /\ req' = req
  BY SplitTypes, StepServer
<1> DEFINE Kept == \A p \in Ops : offset'[p] = offset[p]
<1>1. ASSUME NEW o \in Ops,
             \/ Begin(o) \/ Malformed(o) \/ Write(o) \/ WriteFails(o) \/ Delete(o) \/ DeleteFails(o)
             \/ BeginRead(o) \/ ScanFails(o) \/ NextPoll(o) \/ PollingCancelled(o) \/ Cancel(o)
      PROVE  Kept
  BY <1>1, Zenon
     DEF Begin, Malformed, Write, WriteFails, Delete, DeleteFails, BeginRead, ScanFails, NextPoll,
         PollingCancelled, Cancel, scanning
<1>2. ASSUME \/ \E c \in Replicas : Replicate(c)
             \/ \E w \in stray : StrayArrives(w)
             \/ RemoveTeam
             \/ UNCHANGED vars
      PROVE  Kept
  BY <1>2, Zenon DEF Replicate, StrayArrives, RemoveTeam, vars, scanning
<1>3. ASSUME NEW o \in Ops, NEW c \in Copies, Hit(o, c) \/ Miss(o, c)
      PROVE  \A p \in Ops : offset'[p] = offset[p] \/ offset'[p] = 0
  BY <1>0, <1>3 DEF Hit, Miss, OpTypes
<1>4. ASSUME NEW o \in Ops, NEW c \in Copies, NextPage(o, c)
      PROVE  \A p \in Ops : offset'[p] = offset[p] \/ req[p].kind # "Read"
  <2>1. pc[o] = "scan" /\ offset' = [offset EXCEPT ![o] = @ + PageSize]
        /\ offset[o] + PageSize < Len(team[c].members)
    BY <1>4 DEF NextPage, More
  <2>2. offset[o] # 0
    BY <2>1, LenProperties, ConstantsAssumption DEF OnePage
  <2>3. req[o].kind # "Read"
    BY <2>2 DEF FirstPage
  <2> QED BY <1>0, <2>1, <2>3 DEF OpTypes
<1>5. \A p \in Ops : offset'[p] = offset[p] \/ offset'[p] = 0 \/ req[p].kind # "Read"
  BY <1>1, <1>2, <1>3, <1>4 DEF Next, Terminated
<1> QED BY <1>0, <1>5 DEF FirstPage

LEMMA StepRead ==
  TypeOK /\ AllFaithful /\ MissingInv /\ OnePage /\ FirstPage /\ ReadNotFoundIsTrue /\ [Next]_vars
    => ReadNotFoundIsTrue'
<1> SUFFICES ASSUME TypeOK, AllFaithful, MissingInv, OnePage, FirstPage, ReadNotFoundIsTrue,
                    [Next]_vars, NEW p \in Ops, pc'[p] = "done", req'[p].kind = "Read",
                    result'[p].code = "NotFound"
             PROVE  missing'[p] # {}
  BY DEF ReadNotFoundIsTrue, Ended
<1>0. OpTypes /\ ServerTypes /\ req' = req /\ Faithful(p) /\ req[p].kind = "Read" /\ offset[p] = 0
  BY SplitTypes, StepServer DEF AllFaithful, FirstPage
<1>a. ASSUME pc[p] # "idle", NEW c \in Copies, ~Has(team[c], req[p].user)
      PROVE  missing'[p] # {}
  BY <1>a, StepMissing DEF MissingInv
<1>1. CASE pc[p] = "done" /\ result'[p] = result[p]
  <2>1. missing[p] # {} /\ pc[p] # "idle"
    BY <1>0, <1>1 DEF ReadNotFoundIsTrue, Ended
  <2> QED BY <2>1, StepMissing
<1>2. ASSUME NEW c \in Copies, Miss(p, c)
      PROVE  missing'[p] # {}
  <2>1. pc[p] = "scan" /\ OnPage(p, c) = {}
    BY <1>2 DEF Miss
  <2>2. ASSUME Has(team[c], req[p].user)
        PROVE  FALSE
    <3>1. team[c].members \in Seq(Membership) /\ Len(team[c].members) <= PageSize
      BY <1>0 DEF ServerTypes, TeamView, OnePage
    <3>2. PICK i \in DOMAIN team[c].members : team[c].members[i].user = req[p].user
      BY <2>2 DEF Has
    <3>3. i \in 1 .. Len(team[c].members) /\ team[c].members[i] \in Membership
      BY <3>1, LenProperties, ElementOfSeq
    <3>4. offset[p] < i /\ i <= offset[p] + PageSize
      BY <1>0, <3>1, <3>3, LenProperties, ConstantsAssumption
    <3>5. team[c].members[i] \in OnPage(p, c)
      BY <3>2, <3>3, <3>4, Zenon DEF OnPage
    <3> QED BY <2>1, <3>5
  <2> QED BY <1>a, <2>1, <2>2
<1>3. CASE ScanFails(p)
  <2>1. PICK e \in ServerErrors \union {NotThere} :
          /\ e = NotThere => \E c \in Copies : ~team[c].exists
          /\ Fail(p, IF req[p].kind = "Read" /\ IsNotFound(e) THEN "NotFound" ELSE MapAPIError(e))
    BY <1>3 DEF ScanFails
  <2>2. CASE e = NotThere
    BY <1>3, <1>a, <2>1, <2>2 DEF ScanFails, Has
  <2>3. CASE e \in ServerErrors
    <3>1. Fail(p, MapAPIError(e)) /\ MapAPIError(e) # "NotFound"
      BY <2>1, <2>3, InterruptionsSayNothing
    <3> QED BY <1>0, <3>1 DEF Fail, Finish, OpTypes
  <2> QED BY <2>1, <2>2, <2>3
<1>4. ASSUME NEW c \in Copies, Hit(p, c)
      PROVE  FALSE
  <2>1. \E m : Succeed(p, m)
    BY <1>0, <1>4 DEF Hit
  <2> QED BY <1>0, <2>1, SucceedFacts
<1>5. CASE PollingCancelled(p)
  <2>1. Fail(p, MapAPIError(ContextDone)) /\ MapAPIError(ContextDone) # "NotFound"
    BY <1>5, InterruptionsSayNothing DEF PollingCancelled
  <2> QED BY <1>0, <2>1 DEF Fail, Finish, OpTypes
<1>6. CASE Malformed(p)
  <2>1. Fail(p, "InvalidRequest")
    BY <1>0, <1>6 DEF Malformed
  <2>2. result'[p].code = "InvalidRequest"
    BY <1>0, <2>1 DEF Fail, Finish, OpTypes
  <2> QED BY <2>2
<1>7. CASE WriteFails(p) \/ Delete(p) \/ DeleteFails(p)
  BY <1>0, <1>7 DEF WriteFails, Delete, DeleteFails, Calling
<1> QED BY <1>1, <1>2, <1>3, <1>4, <1>5, <1>6, <1>7, StepReports

\* ReadNotFoundIsTrue, as long as the team fits a page: what one page can overlook
\* is nobody, however far the copies lag.
THEOREM ReadsOfOnePageAreTrue == Spec /\ []OnePage => []ReadNotFoundIsTrue
<1>1. Init => ReadNotFoundIsTrue /\ FirstPage
  BY DEF Init, ReadNotFoundIsTrue, FirstPage, Ended
<1>2. TypeOK /\ MissingInv /\ [Next]_vars => MissingInv'
  BY StepMissing
<1> QED
  BY <1>1, <1>2, TypeInit, TypeStep, AlwaysFaithful, InitMissing, StepPage, StepRead, PTL DEF Spec

-----------------------------------------------------------------------------
(* Every operation is bounded. *)

Place(l) ==
  CASE l = "idle" -> 4 [] l = "call" -> 3 [] l = "scan" -> 2 [] l = "wait" -> 1 [] l = "done" -> 0

\* What an operation has ahead of it: polls, then places of the present poll, then
\* members to page through.
Ahead(o) == <<Polls - poll[o], Place(pc[o]), Cardinality(Users) - offset[o]>>

Precedes(a, b) ==
  \/ a[1] < b[1]
  \/ a[1] = b[1] /\ a[2] < b[2]
  \/ a[1] = b[1] /\ a[2] = b[2] /\ a[3] < b[3]

\* An operation that does not take part in a step.
Rests(o) ==
  UNCHANGED <<pc[o], poll[o], offset[o], found[o], seen[o], result[o], sighted[o]>>

\* No copy lists a user twice, no page begins behind the last user there could be, and
\* no poll is made before the write.
AllSingle == \A c \in Copies : Single(team[c].members)
InBounds  ==
  \A o \in Ops :
    offset[o] <= Cardinality(Users) /\ (pc[o] \in {"idle", "call"} => poll[o] = 0)

LEMMA PlaceFacts ==
  /\ Place("idle") = 4 /\ Place("call") = 3 /\ Place("scan") = 2
  /\ Place("wait") = 1 /\ Place("done") = 0
BY DEF Place

\* A list without repetition is no longer than there are users.
LEMMA SingleIsShort ==
  ASSUME NEW ms \in Seq(Membership), Single(ms)
  PROVE  Len(ms) <= Cardinality(Users) /\ Cardinality(Users) \in Nat
<1> DEFINE f == [i \in 1 .. Len(ms) |-> ms[i].user]
<1>1. f \in Injection(1 .. Len(ms), Users)
  <2>1. Len(ms) \in Nat /\ \A i \in 1 .. Len(ms) : ms[i] \in Membership /\ i \in DOMAIN ms
    OBVIOUS
  <2>2. f \in [1 .. Len(ms) -> Users]
    BY <2>1 DEF Membership
  <2>3. \A i, j \in 1 .. Len(ms) : f[i] = f[j] => i = j
    BY <2>1 DEF Single
  <2> HIDE DEF f
  <2> QED BY <2>2, <2>3 DEF Injection, IsInjective
<1>2. Cardinality(1 .. Len(ms)) <= Cardinality(Users)
  BY <1>1, FiniteAssumption, FS_Injection
<1>3. Cardinality(1 .. Len(ms)) = Len(ms)
  <2>1. Len(ms) \in Nat /\ 1 \in Int
    OBVIOUS
  <2>2. Cardinality(1 .. Len(ms)) = IF 1 > Len(ms) THEN 0 ELSE Len(ms) - 1 + 1
    BY <2>1, FS_Interval
  <2> QED BY <2>1, <2>2
<1> QED BY <1>2, <1>3, FiniteAssumption, FS_CardinalityType

\* What a step does to a copy that lags.
LEMMA StepReplica ==
  ASSUME TypeOK, [Next]_vars, NEW c \in Copies, c # Primary
  PROVE  team'[c] \in {team[c], team[Primary]}
<1>0. ServerTypes /\ Primary \in Copies
  BY SplitTypes DEF Copies
<1>1. ASSUME NEW w, Commit(w) PROVE team'[c] = team[c]
  BY <1>0, <1>1 DEF Commit, ServerTypes
<1>2. ASSUME NEW o, NEW w, NEW e, WriteError(o, w, e) PROVE team'[c] = team[c]
  <2>1. team' = team \/ Commit(w)
    BY <1>2, Zenon DEF WriteError, Refused, MaybeExecuted, server
  <2> QED BY <1>1, <2>1
<1>3. ASSUME NEW o \in Ops, Write(o) \/ Delete(o) PROVE team'[c] = team[c]
  BY <1>1, <1>3 DEF Write, Delete
<1>4. ASSUME NEW o \in Ops, WriteFails(o) \/ DeleteFails(o) PROVE team'[c] = team[c]
  <2>1. \E w, e : WriteError(o, w, e)
    BY <1>4, Zenon DEF WriteFails, DeleteFails
  <2> QED BY <1>2, <2>1
<1>5. ASSUME NEW w \in stray, StrayArrives(w) PROVE team'[c] = team[c]
  BY <1>1, <1>5 DEF StrayArrives
<1>6. CASE RemoveTeam
  BY <1>0, <1>6 DEF RemoveTeam, ServerTypes
<1>7. ASSUME NEW d \in Replicas, Replicate(d) PROVE team'[c] \in {team[c], team[Primary]}
  BY <1>0, <1>7 DEF Replicate, ServerTypes
<1>8. ASSUME NEW o \in Ops,
             \/ Begin(o) \/ Malformed(o) \/ BeginRead(o) \/ ScanFails(o) \/ NextPoll(o)
             \/ PollingCancelled(o) \/ Cancel(o)
             \/ \E d \in Copies : Hit(o, d) \/ NextPage(o, d) \/ Miss(o, d)
      PROVE  team' = team
  BY <1>8, Zenon
     DEF Begin, Malformed, BeginRead, ScanFails, NextPoll, PollingCancelled, Cancel, Hit, NextPage,
         Miss, server
<1>9. UNCHANGED vars => team' = team
  BY DEF vars, server
<1> QED BY <1>3, <1>4, <1>5, <1>6, <1>7, <1>8, <1>9 DEF Next, Terminated

LEMMA StepSingle == TypeOK /\ AllSingle /\ [Next]_vars => AllSingle'
<1> SUFFICES ASSUME TypeOK, AllSingle, [Next]_vars, NEW c \in Copies
             PROVE  Single(team'[c].members)
  BY DEF AllSingle, Single
<1>1. Primary \in Copies
  BY DEF Copies
<1>2. CASE c = Primary
  BY <1>1, <1>2, StepMembers DEF AllSingle, MembersInv, Single
<1>3. CASE c # Primary
  BY <1>1, <1>3, StepReplica DEF AllSingle
<1> QED BY <1>2, <1>3

\* A place further on, in the same poll.
LEMMA NextPlace ==
  ASSUME OpTypes, NEW o \in Ops, NEW l, Place(l) < Place(pc[o]), pc' = [pc EXCEPT ![o] = l],
         poll' = poll
  PROVE  Precedes(Ahead(o)', Ahead(o))
BY DEF OpTypes, Ahead, Precedes

\* What an operation does to the rest of its state it does not do to another's.
Apart(o) ==
  \A q \in Ops \ {o} :
    /\ offset'[q] = offset[q] /\ found'[q] = found[q] /\ seen'[q] = seen[q]
    /\ result'[q] = result[q] /\ sighted'[q] = sighted[q]

\* Where StepAhead takes an operation.
Goes(p) ==
  /\ Rests(p) \/ Precedes(Ahead(p)', Ahead(p))
  /\ offset'[p] <= Cardinality(Users)
  /\ pc'[p] \in {"idle", "call"} => poll'[p] = 0

\* The step of an operation that goes on within its poll.
LEMMA GoesOn ==
  ASSUME OpTypes, InBounds, NEW p \in Ops, NEW o \in Ops, NEW l \in {"call", "scan", "wait", "done"},
         Place(l) < Place(pc[o]), pc' = [pc EXCEPT ![o] = l], poll' = poll,
         offset'[o] <= Cardinality(Users), Apart(o)
  PROVE  Goes(p)
<1>1. CASE p = o
  <2>1. l = "call" => pc[o] = "idle"
    <3> SUFFICES ASSUME l = "call" PROVE pc[o] = "idle"
      OBVIOUS
    <3>1. pc[o] \in {"idle", "call", "scan", "wait", "done"} /\ Place("call") < Place(pc[o])
      BY DEF OpTypes
    <3> QED BY <3>1, PlaceFacts
  <2>2. pc'[o] = l
    BY DEF OpTypes
  <2> QED BY <1>1, <2>1, <2>2, NextPlace DEF InBounds, Goes
<1>2. CASE p # o
  BY <1>2 DEF OpTypes, InBounds, Rests, Apart, Goes
<1> QED BY <1>1, <1>2

\* Every step moves an operation on, or leaves it where it is.
LEMMA StepAhead ==
  ASSUME TypeOK, PollsLeft, AllSingle, InBounds, [Next]_vars, NEW p \in Ops
  PROVE  Goes(p)
<1> DEFINE N == Cardinality(Users)
<1>0. OpTypes /\ ServerTypes /\ N \in Nat /\ 0 \in Nat /\ 0 <= N
  BY SplitTypes, FiniteAssumption, FS_CardinalityType
<1>a. ASSUME UNCHANGED <<pc, scanning, result, sighted>> PROVE Goes(p)
  BY <1>0, <1>a DEF scanning, InBounds, Rests, Goes
<1>b. ASSUME NEW o \in Ops, NEW l \in {"call", "scan", "done"}, Place(l) < Place(pc[o]),
             pc' = [pc EXCEPT ![o] = l], UNCHANGED <<scanning, sighted>>,
             \A q \in Ops \ {o} : result'[q] = result[q]
      PROVE  Goes(p)
  <2>1. offset'[o] <= N /\ Apart(o) /\ poll' = poll
    BY <1>0, <1>b DEF scanning, Apart, InBounds
  <2> QED BY <1>0, <1>b, <2>1, GoesOn
<1>c. ASSUME NEW o \in Ops, NEW r, Finish(o, r), pc[o] \in {"call", "scan", "wait"},
             UNCHANGED <<scanning, sighted>>
      PROVE  Goes(p)
  <2>1. Place("done") < Place(pc[o])
    BY <1>c, PlaceFacts
  <2>2. pc' = [pc EXCEPT ![o] = "done"] /\ \A q \in Ops \ {o} : result'[q] = result[q]
    BY <1>0, <1>c DEF Finish, OpTypes
  <2> QED BY <1>b, <1>c, <2>1, <2>2
\* The end of a scan.
<1>d. ASSUME NEW o \in Ops, NEW r, Finish(o, r) \/ (pc' = [pc EXCEPT ![o] = "wait"] /\ result' = result),
             pc[o] = "scan", UNCHANGED poll, offset' = [offset EXCEPT ![o] = 0],
             \A q \in Ops \ {o} :
               found'[q] = found[q] /\ seen'[q] = seen[q] /\ sighted'[q] = sighted[q]
      PROVE  Goes(p)
  <2>1. Place("done") < Place(pc[o]) /\ Place("wait") < Place(pc[o])
    BY <1>d, PlaceFacts
  <2>2. offset'[o] <= N /\ Apart(o)
    BY <1>0, <1>d DEF OpTypes, Apart, Finish
  <2> QED BY <1>0, <1>d, <2>1, <2>2, GoesOn DEF Finish
\* A poll hands over what it has.
<1>e. ASSUME NEW o \in Ops, NEW m, NEW ready, Polled(o, m, ready)
      PROVE  \E r : Finish(o, r) \/ (pc' = [pc EXCEPT ![o] = "wait"] /\ result' = result)
  BY <1>e DEF Polled, Settle, Succeed
<1>1. ASSUME NEW o \in Ops, Begin(o) PROVE Goes(p)
  <2>1. Place("call") < Place(pc[o]) /\ "call" \in {"call", "scan", "done"}
    BY <1>1, PlaceFacts DEF Begin
  <2> QED BY <1>1, <1>b, <2>1 DEF Begin
<1>2. ASSUME NEW o \in Ops, Malformed(o) PROVE Goes(p)
  BY <1>2, <1>c DEF Malformed, Succeed, Fail
<1>3. ASSUME NEW o \in Ops, Write(o) PROVE Goes(p)
  <2>1. /\ pc[o] = "call" /\ pc' = [pc EXCEPT ![o] = "scan"] /\ poll' = [poll EXCEPT ![o] = 1]
        /\ UNCHANGED <<offset, found, seen, result, sighted>>
    BY <1>3 DEF Write, Calling
  <2>2. CASE p = o
    <3>1. poll[o] = 0 /\ poll'[o] = 1 /\ pc'[o] = "scan"
      BY <1>0, <2>1 DEF OpTypes, InBounds
    <3> QED BY <1>0, <2>1, <2>2, <3>1, ConstantsAssumption
            DEF Goes, OpTypes, InBounds, Ahead, Precedes
  <2>3. CASE p # o
    BY <1>0, <2>1, <2>3 DEF Goes, OpTypes, InBounds, Rests
  <2> QED BY <2>2, <2>3
<1>4. ASSUME NEW o \in Ops, WriteFails(o) PROVE Goes(p)
  BY <1>4, <1>c DEF WriteFails, Calling, Fail
<1>5. ASSUME NEW o \in Ops, Delete(o) PROVE Goes(p)
  BY <1>5, <1>c DEF Delete, Calling, Succeed
<1>6. ASSUME NEW o \in Ops, DeleteFails(o) PROVE Goes(p)
  BY <1>6, <1>c DEF DeleteFails, Calling, Succeed, Fail
<1>7. ASSUME NEW o \in Ops, BeginRead(o) PROVE Goes(p)
  <2>1. Place("scan") < Place(pc[o]) /\ "scan" \in {"call", "scan", "done"}
    BY <1>7, PlaceFacts DEF BeginRead, Calling
  <2> QED BY <1>7, <1>b, <2>1 DEF BeginRead
<1>8. ASSUME NEW o \in Ops, NEW c \in Copies, Hit(o, c) PROVE Goes(p)
  <2>1. /\ pc[o] = "scan" /\ UNCHANGED poll /\ offset' = [offset EXCEPT ![o] = 0]
        /\ \A q \in Ops \ {o} : sighted'[q] = sighted[q]
    BY <1>0, <1>8 DEF Hit, OpTypes
  <2>2. PICK m : IF req[o].kind = "Read"
                 THEN Succeed(o, m) /\ UNCHANGED <<found, seen>>
                 ELSE PollHits(o, m)
    BY <1>8 DEF Hit
  <2>3. CASE req[o].kind = "Read"
    BY <1>d, <2>1, <2>2, <2>3 DEF Succeed
  <2>4. CASE req[o].kind # "Read"
    <3>1. /\ \A q \in Ops \ {o} : found'[q] = found[q] /\ seen'[q] = seen[q]
          /\ Polled(o, m, Converged(o, m))
      BY <1>0, <2>2, <2>4 DEF PollHits, OpTypes
    <3> QED BY <1>d, <1>e, <2>1, <3>1
  <2> QED BY <2>3, <2>4
<1>9. ASSUME NEW o \in Ops, NEW c \in Copies, NextPage(o, c) PROVE Goes(p)
  <2>1. /\ pc[o] = "scan" /\ offset[o] + PageSize < Len(team[c].members)
        /\ offset' = [offset EXCEPT ![o] = @ + PageSize]
        /\ UNCHANGED <<pc, poll, found, seen, result, sighted>>
    BY <1>9 DEF NextPage, More
  <2>2. Len(team[c].members) <= N /\ Len(team[c].members) \in Nat
    BY <1>0, SingleIsShort DEF ServerTypes, TeamView, AllSingle
  <2>3. PageSize \in Nat \ {0} /\ offset[o] \in Nat
    BY <1>0, ConstantsAssumption DEF OpTypes
  <2>4. CASE p = o
    <3>1. offset'[o] = offset[o] + PageSize
      BY <1>0, <2>1 DEF OpTypes
    <3> QED BY <1>0, <2>1, <2>2, <2>3, <2>4, <3>1 DEF Goes, Ahead, Precedes
  <2>5. CASE p # o
    BY <1>0, <2>1, <2>5 DEF Goes, OpTypes, InBounds, Rests
  <2> QED BY <2>4, <2>5
<1>10. ASSUME NEW o \in Ops, NEW c \in Copies, Miss(o, c) PROVE Goes(p)
  <2>1. /\ pc[o] = "scan" /\ UNCHANGED <<poll, sighted, found, seen>>
        /\ offset' = [offset EXCEPT ![o] = 0]
    BY <1>10 DEF Miss, PollMisses
  <2>2. Fail(o, "NotFound") \/ Polled(o, found[o], FALSE)
    BY <1>10 DEF Miss, PollMisses
  <2> QED BY <1>d, <1>e, <2>1, <2>2 DEF Fail
<1>11. ASSUME NEW o \in Ops, ScanFails(o) PROVE Goes(p)
  BY <1>11, <1>c DEF ScanFails, Fail
<1>12. ASSUME NEW o \in Ops, NextPoll(o) PROVE Goes(p)
  <2>1. /\ pc[o] = "wait" /\ pc' = [pc EXCEPT ![o] = "scan"] /\ poll' = [poll EXCEPT ![o] = @ + 1]
        /\ UNCHANGED <<offset, found, seen, result, sighted>>
    BY <1>12 DEF NextPoll
  <2>2. CASE p = o
    BY <1>0, <2>1, <2>2, ConstantsAssumption DEF Goes, OpTypes, InBounds, Ahead, Precedes
  <2>3. CASE p # o
    BY <1>0, <2>1, <2>3 DEF Goes, OpTypes, InBounds, Rests
  <2> QED BY <2>2, <2>3
<1>13. ASSUME NEW o \in Ops, PollingCancelled(o) PROVE Goes(p)
  BY <1>13, <1>c DEF PollingCancelled, Fail
<1> QED
  BY <1>1, <1>2, <1>3, <1>4, <1>5, <1>6, <1>7, <1>8, <1>9, <1>10, <1>11, <1>12, <1>13, <1>a
     DEF Next, Terminated, vars, Replicate, StrayArrives, RemoveTeam, Cancel

\* Every operation is bounded, whatever the copies show it and however long they lag:
\* each of its steps begins the next of its Polls polls, takes it on within a poll, or
\* pages past some of the users there could be, and none of them ever undoes another.
THEOREM OperationsAreBounded ==
  ASSUME NEW o \in Ops
  PROVE  Spec => /\ [](Ahead(o) \in (0 .. Polls) \X (0 .. 4) \X (0 .. Cardinality(Users)))
                 /\ [][Rests(o) \/ Precedes(Ahead(o)', Ahead(o))]_vars
<1> DEFINE Inv     == TypeOK /\ PollsLeft /\ MembersInv /\ AllSingle /\ InBounds
           Bounded == Ahead(o) \in (0 .. Polls) \X (0 .. 4) \X (0 .. Cardinality(Users))
           On      == Rests(o) \/ Precedes(Ahead(o)', Ahead(o))
<1>0. Cardinality(Users) \in Nat
  BY FiniteAssumption, FS_CardinalityType
<1>1. Init => Inv
  <2>1. Init => AllSingle
    BY ConstantsAssumption DEF Init, AllSingle
  <2>2. Init => InBounds
    BY <1>0 DEF Init, InBounds
  <2> QED BY <2>1, <2>2, TypeInit, InitMissing
<1>2. Inv /\ [Next]_vars => Inv'
  BY TypeStep, StepMembers, StepSingle, StepAhead DEF InBounds, Goes
<1>3. Inv => Bounded
  <2> SUFFICES ASSUME Inv PROVE Bounded
    OBVIOUS
  <2>1. \A l \in {"idle", "call", "scan", "wait", "done"} : Place(l) \in 0 .. 4
    BY PlaceFacts
  <2>2. /\ poll[o] \in 0 .. Polls /\ offset[o] \in Nat /\ offset[o] <= Cardinality(Users)
        /\ pc[o] \in {"idle", "call", "scan", "wait", "done"}
    BY SplitTypes DEF OpTypes, InBounds
  <2> QED BY <1>0, <2>1, <2>2, ConstantsAssumption DEF Ahead
<1>4. Inv /\ [Next]_vars => On
  BY StepAhead DEF Goes
<1> HIDE DEF Inv, Bounded, On
<1> QED BY <1>1, <1>2, <1>3, <1>4, PTL DEF Spec, Bounded, On
=============================================================================
