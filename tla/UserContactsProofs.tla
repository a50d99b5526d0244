-------------------------- MODULE UserContactsProofs --------------------------
(***************************************************************************)
(* Theorems about UserContacts, for any number of operations, requests,    *)
(* types, lagging copies, polls, ids and abandoned writes.                 *)
(*                                                                         *)
(* Three invariants, one after the other: what an operation under way has  *)
(* noted of the copies (SeenInv), what an id stands for (SlotInv), and who *)
(* made what (MakerInv).  From the last: a Create is a RestCall.           *)
(***************************************************************************)
EXTENDS UserContacts, ApiErrorsProofs, FiniteSetTheorems, TLAPS

Labels == {"idle", "resolve", "wait", "call", "done"}
Says   == {"", "resolve contact method type", "not visible after retries"}
Result == [code : {"none", "ok"} \union ErrorCodes, says : Says]
Writes == [verb : {"POST", "PUT", "DELETE"}, of : {"method", "rule"},
           id : Ids \union {NoId}, thing : Thing \union {Nothing}, op : Ops]

-----------------------------------------------------------------------------
(* Types, of the server's part of the state and of the operations'. *)

ServerTypes ==
  /\ view \in [Copies -> [Ids -> Thing \union {Nothing}]]
  /\ nextId \in 1 .. MaxId + 1
  /\ stray \subseteq Writes
  /\ shown \in [Ops -> SUBSET Types]
  /\ lacked \in [Ops -> BOOLEAN]
  /\ maker \in [Ids -> Ops \union {Nobody}]

OpTypes ==
  /\ req \in [Ops -> Requests]
  /\ pc \in [Ops -> Labels]
  /\ poll \in [Ops -> 0 .. Polls]
  /\ cmType \in [Ops -> Types \union {NoType}]
  /\ result \in [Ops -> Result]
  /\ known \subseteq Named
  /\ deleted \subseteq Named

LEMMA SplitTypes ==
  (TypeOK <=> ServerTypes /\ OpTypes) /\ (TypeOK' <=> ServerTypes' /\ OpTypes')
BY DEF TypeOK, ServerTypes, OpTypes, Labels, Result, Says, Writes

\* What is known of a request.
LEMMA RequestFacts ==
  ASSUME OpTypes, NEW o \in Ops
  PROVE  /\ req[o].kind \in Kinds /\ req[o].of \in {"method", "rule"}
         /\ req[o].id \in Ids \union {NoId} /\ req[o].type \in Types \union {NoType}
         /\ req[o].method \in Ids \union {NoId}
<1>1. req[o] \in Request
  BY ConstantsAssumption DEF OpTypes
<1> QED BY <1>1 DEF Request

LEMMA IdFacts ==
  /\ NoId \notin Ids /\ Ids \subseteq Nat
  /\ nextId \in 1 .. MaxId + 1 /\ nextId <= MaxId =>
       nextId \in Ids /\ nextId + 1 \in 1 .. MaxId + 1
  /\ Primary \in Copies /\ Replicas \subseteq Copies /\ Primary \notin Replicas
  /\ \A c \in Copies : c \in Replicas \/ c = Primary
BY ConstantsAssumption DEF Ids, NoId, Copies

\* Things are methods, with a type, or rules; and Nothing is neither.
LEMMA ThingFacts ==
  /\ \A x \in Thing : x.of \in {"method", "rule"} /\ (x.of = "method" => x.type \in Types)
  /\ Nothing.of = "nothing" /\ Nothing \notin Thing
  /\ \A x \in Thing \union {Nothing} : x # Nothing <=> x.of \in {"method", "rule"}
  /\ \A t \in Types : Method(t) \in Thing /\ Method(t).of = "method"
  /\ \A t \in Types \union {NoType}, m \in Ids \union {NoId} :
       Rule(t, m) \in Thing /\ Rule(t, m).of = "rule"
BY DEF Thing, Nothing, Method, Rule

\* No operation gets under way without what it needs, and none waits after the
\* last poll.
Sound ==
  \A o \in Ops : (Active(o) => WellFormed(req[o])) /\ (pc[o] = "wait" => poll[o] < Polls)

\* What a Create, Update or Delete sends.
LEMMA SubmittedFacts ==
  ASSUME OpTypes, Sound, NEW o \in Ops, Calling(o, {"Create", "Update", "Delete"})
  PROVE  LET w == Submitted(o) IN
         /\ w \in Writes /\ w.of = req[o].of /\ w.id = req[o].id /\ w.op = o
         /\ w.verb = "POST" <=> req[o].kind = "Create"
         /\ w.verb = "DELETE" <=> req[o].kind = "Delete"
         /\ w.verb = "DELETE" => w.thing = Nothing
         /\ w.verb # "DELETE" => w.thing \in Thing /\ w.thing.of = w.of
<1> DEFINE w == Submitted(o)
<1>1. /\ w.verb \in {"POST", "PUT", "DELETE"}
      /\ w.verb = "POST" <=> req[o].kind = "Create"
      /\ w.verb = "DELETE" <=> req[o].kind = "Delete"
  BY DEF Calling, Submitted, Verb
<1>2. w.thing = ToSDK(o) /\ w.of = req[o].of /\ w.id = req[o].id /\ w.op = o
  BY DEF Submitted
<1>3. cmType[o] \in Types \union {NoType}
  BY DEF OpTypes
<1>4. req[o].of = "method" /\ req[o].kind # "Delete" => req[o].type \in Types
  <2>1. req[o].kind \in {"Create", "Update", "Delete"} /\ Active(o)
    BY DEF Calling, Active
  <2>2. req[o].kind = "Create" /\ req[o].of = "method" => req[o].type # NoType
    BY <2>1 DEF Sound, WellFormed
  <2>3. req[o] \in Requests
    BY DEF OpTypes
  <2>4. req[o].of = "method" /\ req[o].kind = "Update" => req[o].type # NoType
    BY <2>3, ConstantsAssumption
  <2> QED BY <2>1, <2>2, <2>4, RequestFacts
<1>5. /\ req[o].kind = "Delete" => ToSDK(o) = Nothing
      /\ req[o].kind # "Delete" => ToSDK(o) \in Thing /\ ToSDK(o).of = req[o].of
  BY <1>3, <1>4, RequestFacts, ThingFacts DEF ToSDK
<1>6. w \in Writes
  BY <1>1, <1>2, <1>5, RequestFacts DEF Submitted, Writes
<1> QED BY <1>1, <1>2, <1>5, <1>6

\* Showing a typed view keeps the server's part typed.
LEMMA ShowTypes ==
  ASSUME ServerTypes, NEW v \in [Copies -> [Ids -> Thing \union {Nothing}]], Show(v)
  PROVE  /\ view' \in [Copies -> [Ids -> Thing \union {Nothing}]]
         /\ shown' \in [Ops -> SUBSET Types]
         /\ lacked' \in [Ops -> BOOLEAN]
<1>1. \A i : TypesShown(v, i) \subseteq Types
  BY ThingFacts DEF TypesShown
<1>2. shown' \in [Ops -> SUBSET Types]
  BY <1>1 DEF Show, ServerTypes
<1>3. lacked' \in [Ops -> BOOLEAN]
  BY Zenon DEF Show, ServerTypes, Lacks, Active
<1> QED BY <1>2, <1>3 DEF Show

LEMMA ExecuteTypes ==
  ASSUME ServerTypes, NEW w \in Writes, Execute(w), stray' \subseteq Writes
  PROVE  ServerTypes'
<1>1. w.thing \in Thing \union {Nothing} /\ w.op \in Ops
  BY DEF Writes
<1>2. CASE w.verb = "POST"
  <2>1. /\ nextId \in Ids /\ nextId + 1 \in 1 .. MaxId + 1
        /\ Show([view EXCEPT ![Primary][nextId] = w.thing])
        /\ nextId' = nextId + 1 /\ maker' = [maker EXCEPT ![nextId] = w.op]
    BY <1>2, IdFacts DEF Execute, Store, ServerTypes
  <2>2. [view EXCEPT ![Primary][nextId] = w.thing] \in [Copies -> [Ids -> Thing \union {Nothing}]]
    BY <1>1 DEF ServerTypes
  <2> QED BY <1>1, <2>1, <2>2, ShowTypes DEF ServerTypes
<1>3. CASE w.verb # "POST"
  <2>1. Show([view EXCEPT ![Primary][w.id] = w.thing]) /\ UNCHANGED <<nextId, maker>>
    BY <1>3 DEF Execute, Store
  <2>2. [view EXCEPT ![Primary][w.id] = w.thing] \in [Copies -> [Ids -> Thing \union {Nothing}]]
    BY <1>1 DEF ServerTypes
  <2> QED BY <2>1, <2>2, ShowTypes DEF ServerTypes
<1> QED BY <1>2, <1>3

LEMMA LeaveBehindTypes ==
  ASSUME ServerTypes, NEW w \in Writes, LeaveBehind(w)
  PROVE  ServerTypes'
BY DEF LeaveBehind, ServerTypes

LEMMA QuietTypes == ServerTypes /\ UNCHANGED server => ServerTypes'
BY DEF ServerTypes, server

LEMMA FinishTypes ==
  ASSUME OpTypes, NEW o \in Ops, NEW code \in {"ok"} \union ErrorCodes, NEW says \in Says,
         Finish(o, code, says)
  PROVE  /\ pc' \in [Ops -> Labels] /\ result' \in [Ops -> Result]
         /\ pc' = [pc EXCEPT ![o] = "done"]
         /\ result' = [result EXCEPT ![o] = [code |-> code, says |-> says]]
BY DEF Finish, OpTypes, Labels, Result

LEMMA CodeFacts ==
  /\ {"NotFound", "InvalidRequest", "InternalFailure", "ServiceInternalError"} \subseteq ErrorCodes
  /\ "ok" \notin ErrorCodes
  /\ {"", "resolve contact method type", "not visible after retries"} \subseteq Says
BY DEF ErrorCodes, Says

LEMMA RecordTypes ==
  ASSUME OpTypes, NEW o \in Ops, Record(o),
         req[o].kind = "Create" => nextId \in Ids, req[o].kind # "Create" => req[o].id \in Ids
  PROVE  known' \subseteq Named /\ deleted' \subseteq Named
<1> DEFINE made == IF req[o].kind = "Create" THEN nextId ELSE req[o].id
<1>1. <<req[o].of, made>> \in Named
  BY RequestFacts DEF Named
<1> QED BY <1>1 DEF Record, OpTypes

\* A step of one operation keeps Sound.
LEMMA SoundFrame ==
  ASSUME OpTypes, Sound, NEW o \in Ops, NEW l \in Labels, UNCHANGED req,
         pc' = [pc EXCEPT ![o] = l], Active(o) \/ l = "done" \/ WellFormed(req[o]),
         \A p \in Ops \ {o} : poll'[p] = poll[p], l = "wait" => poll'[o] < Polls
  PROVE  Sound'
BY DEF OpTypes, Sound, Active

\* The end of an operation.
LEMMA DoneTypes ==
  ASSUME OpTypes, Sound, NEW o \in Ops, NEW code \in {"ok"} \union ErrorCodes, NEW says \in Says,
         Finish(o, code, says), UNCHANGED <<req, poll, cmType>>,
         known' \subseteq Named, deleted' \subseteq Named
  PROVE  OpTypes' /\ Sound'
<1>1. OpTypes'
  BY FinishTypes DEF OpTypes
<1>2. Sound'
  BY FinishTypes, SoundFrame DEF Labels
<1> QED BY <1>1, <1>2

LEMMA QuietOps ==
  OpTypes /\ Sound /\ UNCHANGED <<req, pc, poll, cmType, result, history>> => OpTypes' /\ Sound'
BY DEF OpTypes, Sound, Active, history

LEMMA TypeInit == Init => TypeOK /\ Sound
<1> SUFFICES ASSUME Init PROVE TypeOK /\ Sound
  OBVIOUS
<1>1. PICK n \in 0 .. MaxId : InitMethods \in [1 .. n -> Types]
  BY ConstantsAssumption
<1>2. Cardinality(DOMAIN InitMethods) = n
  <2>1. DOMAIN InitMethods = 1 .. n /\ n \in Nat /\ 1 \in Int
    BY <1>1, ConstantsAssumption
  <2>2. Cardinality(1 .. n) = IF 1 > n THEN 0 ELSE n - 1 + 1
    BY <2>1, FS_Interval
  <2> QED BY <2>1, <2>2
<1>3. nextId \in 1 .. MaxId + 1 /\ DOMAIN InitMethods \subseteq Ids
  BY <1>1, <1>2, ConstantsAssumption DEF Init, Ids
<1>4. \A i \in DOMAIN InitMethods : Method(InitMethods[i]) \in Thing
  BY <1>1, ThingFacts
<1>5. ServerTypes
  BY <1>3, <1>4 DEF Init, ServerTypes
<1>6. OpTypes
  <2>1. None \in Result /\ 0 \in 0 .. Polls
    BY ConstantsAssumption DEF None, Result, Says
  <2> QED BY <1>3, <2>1 DEF Init, OpTypes, Labels, Named
<1>7. Sound
  BY DEF Init, Sound, Active
<1> QED BY <1>5, <1>6, <1>7, SplitTypes

LEMMA TypeStep == TypeOK /\ Sound /\ [Next]_vars => TypeOK' /\ Sound'
<1> SUFFICES ASSUME ServerTypes, OpTypes, Sound, [Next]_vars
             PROVE  ServerTypes' /\ OpTypes' /\ Sound'
  BY SplitTypes
<1>1. ASSUME NEW o \in Ops, Begin(o) PROVE ServerTypes' /\ OpTypes' /\ Sound'
  <2>1. shown' \in [Ops -> SUBSET Types]
    <3>1. TypesShown(view, req[o].method) \subseteq Types
      BY ThingFacts DEF TypesShown, ServerTypes
    <3> QED BY <1>1, <3>1 DEF Begin, ServerTypes
  <2>2. lacked' \in [Ops -> BOOLEAN]
    <3>1. Lacks(view, req[o].method) \in BOOLEAN
      BY Zenon DEF Lacks
    <3>2. lacked' = [lacked EXCEPT ![o] = Lacks(view, req[o].method)]
      BY <1>1 DEF Begin
    <3> HIDE DEF Lacks
    <3> QED BY <3>1, <3>2 DEF ServerTypes
  <2>5. ServerTypes'
    BY <1>1, <2>1, <2>2 DEF Begin, ServerTypes
  <2>3. OpTypes'
    <3>1. 0 \in 0 .. Polls /\ 1 \in 0 .. Polls
      BY ConstantsAssumption
    <3> QED BY <1>1, <3>1 DEF Begin, OpTypes, Labels, history
  <2>4. Sound'
    BY <1>1, SoundFrame DEF Begin, Labels, OpTypes
  <2> QED BY <2>3, <2>4, <2>5
<1>2. ASSUME NEW o \in Ops, Malformed(o) PROVE ServerTypes' /\ OpTypes' /\ Sound'
  <2>1. PICK code \in {"ok", "InvalidRequest"} : Finish(o, code, "")
    BY <1>2 DEF Malformed, Succeed
  <2>2. UNCHANGED <<server, req, poll, cmType, history>>
    BY <1>2 DEF Malformed
  <2> QED BY <2>1, <2>2, QuietTypes, DoneTypes, CodeFacts DEF history, OpTypes
<1>3. ASSUME NEW o \in Ops, NEW c \in Copies, PollHits(o, c)
      PROVE  ServerTypes' /\ OpTypes' /\ Sound'
  <2>1. view[c][req[o].method].type \in Types
    BY <1>3, ThingFacts DEF PollHits, Has, ServerTypes
  <2>2. OpTypes' /\ UNCHANGED server
    BY <1>3, <2>1 DEF PollHits, OpTypes, Labels, history
  <2>3. Sound'
    BY <1>3, SoundFrame DEF PollHits, Active, Labels
  <2> QED BY <2>2, <2>3, QuietTypes
<1>4. ASSUME NEW o \in Ops, NEW c \in Copies, PollMisses(o, c)
      PROVE  ServerTypes' /\ OpTypes' /\ Sound'
  <2>1. UNCHANGED <<server, req, poll, cmType, history>> /\ Active(o)
    BY <1>4 DEF PollMisses, Active
  <2>2. CASE LastPoll(o)
    BY <1>4, <2>1, <2>2, QuietTypes, DoneTypes, CodeFacts
       DEF PollMisses, NotVisible, GiveUp, history, OpTypes
  <2>3. CASE ~LastPoll(o)
    <3>1. poll[o] < Polls /\ pc' = [pc EXCEPT ![o] = "wait"] /\ UNCHANGED result
      BY <1>4, <2>3, ConstantsAssumption DEF PollMisses, LastPoll, OpTypes
    <3> QED BY <2>1, <3>1, QuietTypes, SoundFrame DEF OpTypes, history, Labels
  <2> QED BY <1>4, <2>2, <2>3 DEF PollMisses
<1>5. ASSUME NEW o \in Ops, NextPoll(o)
      PROVE  ServerTypes' /\ OpTypes' /\ Sound'
  <2>1. poll' \in [Ops -> 0 .. Polls]
    BY <1>5, ConstantsAssumption DEF NextPoll, OpTypes, Sound
  <2>2. Sound'
    BY <1>5, SoundFrame DEF NextPoll, Active, Labels, OpTypes
  <2> QED BY <1>5, <2>1, <2>2, QuietTypes DEF NextPoll, OpTypes, Labels, history
<1>6. ASSUME NEW o \in Ops, ResolveFails(o) PROVE ServerTypes' /\ OpTypes' /\ Sound'
  BY <1>6, QuietTypes, DoneTypes, CodeFacts DEF ResolveFails, GiveUp, history, OpTypes
<1>7. ASSUME NEW o \in Ops, Accepted(o) PROVE ServerTypes' /\ OpTypes' /\ Sound'
  <2> DEFINE w == Submitted(o)
  <2>1. /\ Calling(o, {"Create", "Update", "Delete"}) /\ Execute(w) /\ Finish(o, "ok", "")
        /\ Record(o) /\ UNCHANGED <<stray, req, poll, cmType>>
    BY <1>7 DEF Accepted, Succeed
  <2>2. w \in Writes /\ (w.verb = "POST" <=> req[o].kind = "Create")
    BY <2>1, SubmittedFacts
  <2>3. req[o].kind = "Create" => nextId \in Ids
    BY <2>1, <2>2, IdFacts DEF Execute, ServerTypes
  <2>4. req[o].kind # "Create" => req[o].id \in Ids
    BY <2>1, RequestFacts DEF Calling, Sound, Active, WellFormed
  <2>5. ServerTypes'
    <3> HIDE DEF w
    <3> QED BY <2>1, <2>2, ExecuteTypes DEF ServerTypes
  <2>6. known' \subseteq Named /\ deleted' \subseteq Named
    BY <2>1, <2>3, <2>4, RecordTypes
  <2> QED BY <2>1, <2>5, <2>6, DoneTypes, CodeFacts
<1>8. ASSUME NEW o \in Ops, Attempt(o) PROVE ServerTypes' /\ OpTypes' /\ Sound'
  <2> DEFINE w == Submitted(o)
  <2>1. /\ Calling(o, {"Update", "Delete"})
        /\ (Execute(w) /\ UNCHANGED stray) \/ LeaveBehind(w)
        /\ UNCHANGED <<req, pc, poll, cmType, result, history>>
    BY <1>8 DEF Attempt
  <2>2. w \in Writes
    BY <2>1, SubmittedFacts DEF Calling
  <2>3. ServerTypes'
    <3> HIDE DEF w
    <3> QED BY <2>1, <2>2, ExecuteTypes, LeaveBehindTypes DEF ServerTypes
  <2> QED BY <2>1, <2>3, QuietOps
<1>9. ASSUME NEW o \in Ops, Refused(o) PROVE ServerTypes' /\ OpTypes' /\ Sound'
  <2>1. PICK e \in Refusals :
          IF req[o].kind = "Delete" /\ IsNotFound(e)
          THEN Succeed(o) /\ Record(o)
          ELSE Finish(o, MapAPIError(e), "") /\ UNCHANGED history
    BY <1>9 DEF Refused
  <2>2. UNCHANGED <<server, req, poll, cmType>> /\ Calling(o, {"Create", "Update", "Delete"})
    BY <1>9 DEF Refused
  <2>3. CASE req[o].kind = "Delete" /\ IsNotFound(e)
    <3>1. req[o].id \in Ids
      BY <2>2, <2>3, RequestFacts DEF Calling, Sound, Active, WellFormed
    <3>2. known' \subseteq Named /\ deleted' \subseteq Named
      BY <2>1, <2>3, <3>1, RecordTypes
    <3> QED BY <2>1, <2>2, <2>3, <3>2, QuietTypes, DoneTypes, CodeFacts DEF Succeed
  <2>4. CASE ~(req[o].kind = "Delete" /\ IsNotFound(e))
    <3>1. Finish(o, MapAPIError(e), "") /\ UNCHANGED history
      BY <2>1, <2>4, Zenon
    <3> QED BY <2>2, <3>1, QuietTypes, DoneTypes, CodeFacts, CodesAreErrorCodes
            DEF history, OpTypes
  <2> QED BY <2>3, <2>4
<1>10. ASSUME NEW o \in Ops, Unanswered(o) PROVE ServerTypes' /\ OpTypes' /\ Sound'
  <2> DEFINE w == Submitted(o)
  <2>1. /\ Calling(o, {"Create", "Update", "Delete"})
        /\ UNCHANGED server \/ (Execute(w) /\ UNCHANGED stray) \/ LeaveBehind(w)
        /\ UNCHANGED <<req, poll, cmType, history>>
    BY <1>10 DEF Unanswered
  <2>2. w \in Writes
    BY <2>1, SubmittedFacts
  <2>3. ServerTypes'
    <3> HIDE DEF w
    <3> QED BY <2>1, <2>2, QuietTypes, ExecuteTypes, LeaveBehindTypes DEF ServerTypes
  <2>4. PICK e : Finish(o, MapAPIError(e), "")
    BY <1>10 DEF Unanswered, ReportUnknown
  <2> QED BY <2>1, <2>3, <2>4, DoneTypes, CodeFacts, CodesAreErrorCodes DEF history, OpTypes
<1>11. ASSUME NEW o \in Ops, Read(o) PROVE ServerTypes' /\ OpTypes' /\ Sound'
  <2>1. PICK code \in {"ok", "NotFound"} : Finish(o, code, "")
    BY <1>11 DEF Read, Succeed
  <2>2. UNCHANGED <<server, req, poll, cmType, history>>
    BY <1>11 DEF Read
  <2> QED BY <2>1, <2>2, QuietTypes, DoneTypes, CodeFacts DEF history, OpTypes
<1>12. ASSUME NEW o \in Ops, ReadFails(o) PROVE ServerTypes' /\ OpTypes' /\ Sound'
  <2>1. PICK e : Finish(o, MapAPIError(e), "")
    BY <1>12 DEF ReadFails
  <2>2. UNCHANGED <<server, req, poll, cmType, history>>
    BY <1>12 DEF ReadFails
  <2> QED BY <2>1, <2>2, QuietTypes, DoneTypes, CodeFacts, CodesAreErrorCodes DEF history, OpTypes
<1>13. ASSUME NEW c \in Replicas, Replicate(c) PROVE ServerTypes' /\ OpTypes' /\ Sound'
  <2>1. [view EXCEPT ![c] = view[Primary]] \in [Copies -> [Ids -> Thing \union {Nothing}]]
    BY IdFacts DEF ServerTypes
  <2>2. ServerTypes'
    BY <1>13, <2>1, ShowTypes DEF Replicate, ServerTypes
  <2> QED BY <1>13, <2>2, QuietOps DEF Replicate, history
<1>14. ASSUME NEW w \in stray, StrayArrives(w) PROVE ServerTypes' /\ OpTypes' /\ Sound'
  <2>1. w \in Writes /\ stray' \subseteq Writes
    BY <1>14 DEF StrayArrives, ServerTypes
  <2>2. ServerTypes'
    <3>1. CASE Execute(w)
      BY <2>1, <3>1, ExecuteTypes
    <3>2. CASE ~Execute(w)
      BY <1>14, <2>1, <3>2 DEF StrayArrives, ServerTypes
    <3> QED BY <3>1, <3>2
  <2> QED BY <1>14, <2>2, QuietOps DEF StrayArrives
<1>15. ASSUME NEW i \in Ids, RemovedByUser(i) PROVE ServerTypes' /\ OpTypes' /\ Sound'
  <2>1. [view EXCEPT ![Primary][i] = Nothing] \in [Copies -> [Ids -> Thing \union {Nothing}]]
    BY IdFacts DEF ServerTypes
  <2>2. ServerTypes'
    BY <1>15, <2>1, ShowTypes DEF RemovedByUser, Store, ServerTypes
  <2> QED BY <1>15, <2>2, QuietOps DEF RemovedByUser, history
<1>16. CASE UNCHANGED vars
  BY <1>16, QuietTypes, QuietOps DEF vars
<1> QED
  BY <1>1, <1>2, <1>3, <1>4, <1>5, <1>6, <1>7, <1>8, <1>9, <1>10, <1>11, <1>12, <1>13,
     <1>14, <1>15, <1>16 DEF Next, Terminated

\* TypeOK, always: no operation gets past an unknown label, poll count or result,
\* and no contact method is ever without a type.
THEOREM TypeCorrect == Spec => []TypeOK
BY TypeInit, TypeStep, PTL DEF Spec

-----------------------------------------------------------------------------
(* What an operation has seen of its contact method. *)

NV == "not visible after retries"

\* An operation under way has seen all that the copies show now.
Watched(o) ==
  /\ TypesShown(view, req[o].method) \subseteq shown[o]
  /\ Lacks(view, req[o].method) => lacked[o]

SeenInv ==
  \A o \in Ops :
    /\ Active(o) => Watched(o)
    /\ pc[o] = "call" /\ Resolves(req[o]) => cmType[o] \in shown[o]
    /\ result[o].says = NV => pc[o] = "done" /\ poll[o] = Polls /\ lacked[o]

\* A step of the server that nobody under way misses.
SeesAll ==
  \A o \in Ops :
    /\ shown[o] \subseteq shown'[o] /\ (lacked[o] => lacked'[o])
    /\ Active(o) => /\ TypesShown(view', req[o].method) \subseteq shown'[o]
                    /\ Lacks(view', req[o].method) => lacked'[o]

LEMMA ShowSees ==
  ASSUME NEW v, Show(v), ServerTypes
  PROVE  SeesAll
<1> SUFFICES ASSUME NEW o \in Ops
             PROVE  /\ shown[o] \subseteq shown'[o] /\ (lacked[o] => lacked'[o])
                    /\ Active(o) => /\ TypesShown(v, req[o].method) \subseteq shown'[o]
                                    /\ Lacks(v, req[o].method) => lacked'[o]
  BY DEF SeesAll, Show
<1>1. shown'[o] = IF Active(o) THEN shown[o] \union TypesShown(v, req[o].method) ELSE shown[o]
  BY DEF Show
<1>2. lacked'[o] = (lacked[o] \/ (Active(o) /\ Lacks(v, req[o].method)))
  BY Zenon DEF Show
<1> HIDE DEF Lacks, TypesShown, Active
<1>3. shown[o] \subseteq shown'[o] /\ (Active(o) => TypesShown(v, req[o].method) \subseteq shown'[o])
  BY <1>1
<1>4. (lacked[o] => lacked'[o]) /\ (Active(o) /\ Lacks(v, req[o].method) => lacked'[o])
  BY <1>2, Zenon
<1> QED BY <1>3, <1>4, Zenon

LEMMA QuietSees == SeenInv /\ UNCHANGED <<view, shown, lacked>> => SeesAll
BY DEF SeenInv, Watched, SeesAll

LEMMA ExecuteSees == \A w : ServerTypes /\ (Execute(w) \/ (LeaveBehind(w) /\ SeenInv)) => SeesAll
<1> SUFFICES ASSUME NEW w, ServerTypes, Execute(w) \/ (LeaveBehind(w) /\ SeenInv) PROVE SeesAll
  OBVIOUS
<1>1. CASE Execute(w)
  BY <1>1, ShowSees DEF Execute, Store
<1>2. CASE LeaveBehind(w) /\ SeenInv
  BY <1>2, QuietSees DEF LeaveBehind
<1> QED BY <1>1, <1>2

\* A step of operation o keeps SeenInv if it keeps it for o.
LEMMA SeenFrame ==
  ASSUME OpTypes, SeenInv, SeesAll, UNCHANGED req, NEW o \in Ops,
         \A p \in Ops \ {o} : /\ pc'[p] = pc[p] /\ cmType'[p] = cmType[p]
                              /\ result'[p] = result[p] /\ poll'[p] = poll[p],
         Active(o) \/ pc'[o] = "done",
         pc'[o] = "call" /\ Resolves(req[o]) => cmType'[o] \in shown'[o],
         result'[o].says = NV => pc'[o] = "done" /\ poll'[o] = Polls /\ lacked'[o]
  PROVE  SeenInv'
<1> SUFFICES ASSUME NEW p \in Ops
             PROVE  /\ Active(p)' => Watched(p)'
                    /\ pc'[p] = "call" /\ Resolves(req[p]) => cmType'[p] \in shown'[p]
                    /\ result'[p].says = NV => pc'[p] = "done" /\ poll'[p] = Polls /\ lacked'[p]
  BY DEF SeenInv
<1>1. Active(p)' => Active(p)
  BY DEF Active
<1>2. Active(p) => Watched(p)'
  BY DEF SeesAll, Watched, TypesShown, Lacks
<1>3. /\ pc'[p] = "call" /\ Resolves(req[p]) => cmType'[p] \in shown'[p]
      /\ result'[p].says = NV => pc'[p] = "done" /\ poll'[p] = Polls /\ lacked'[p]
  <2>1. CASE p = o
    BY <2>1
  <2>2. CASE p # o
    BY <2>2 DEF SeenInv, SeesAll
  <2> QED BY <2>1, <2>2
<1> QED BY <1>1, <1>2, <1>3

\* An operation that ends without giving up on its contact method.
LEMMA SeenDone ==
  ASSUME OpTypes, SeenInv, SeesAll, UNCHANGED <<req, poll, cmType>>, NEW o \in Ops,
         NEW code, NEW says, Finish(o, code, says), says # NV
  PROVE  SeenInv'
<1>1. /\ pc' = [pc EXCEPT ![o] = "done"]
      /\ result' = [result EXCEPT ![o] = [code |-> code, says |-> says]]
  BY DEF Finish
<1>2. pc'[o] = "done" /\ result'[o].says # NV
  BY <1>1 DEF OpTypes
<1>3. \A p \in Ops \ {o} : pc'[p] = pc[p] /\ result'[p] = result[p]
  BY <1>1 DEF OpTypes
<1> QED BY <1>2, <1>3, SeenFrame

\* A step of no operation.
LEMMA SeenQuiet ==
  ASSUME SeenInv, SeesAll, UNCHANGED <<req, pc, poll, cmType, result>>
  PROVE  SeenInv'
BY DEF SeenInv, SeesAll, Active, Watched, TypesShown, Lacks

LEMMA SeenInit == Init => SeenInv
<1> SUFFICES ASSUME Init, NEW o \in Ops
             PROVE  pc[o] = "idle" /\ result[o].says = ""
  BY DEF SeenInv, Active, NV
<1> QED BY DEF Init, None

LEMMA SeenStep == TypeOK /\ Sound /\ SeenInv /\ [Next]_vars => SeenInv'
<1> SUFFICES ASSUME ServerTypes, OpTypes, Sound, SeenInv, [Next]_vars PROVE SeenInv'
  BY SplitTypes
<1> USE DEF NV
<1>1. ASSUME NEW o \in Ops, Begin(o) PROVE SeenInv'
  <2>1. /\ shown' = [shown EXCEPT ![o] = TypesShown(view, req[o].method)]
        /\ lacked' = [lacked EXCEPT ![o] = Lacks(view, req[o].method)]
        /\ pc[o] = "idle" /\ pc' = [pc EXCEPT ![o] = IF Resolves(req[o]) THEN "resolve" ELSE "call"]
        /\ UNCHANGED <<view, req, cmType, result>> /\ \A p \in Ops \ {o} : poll'[p] = poll[p]
    BY <1>1 DEF Begin, OpTypes, history
  <2>2. Watched(o)'
    <3>1. shown'[o] = TypesShown(view, req[o].method) /\ lacked'[o] = Lacks(view, req[o].method)
      BY <2>1 DEF ServerTypes
    <3>2. TypesShown(view, req[o].method)' = TypesShown(view, req[o].method)
      BY <2>1
    <3>3. Lacks(view, req[o].method)' <=> Lacks(view, req[o].method)
      BY <2>1
    <3> HIDE DEF TypesShown, Lacks
    <3> QED BY <3>1, <3>2, <3>3, Zenon DEF Watched
  <2>3. /\ pc'[o] = "call" => ~Resolves(req[o])
        /\ result'[o].says # NV
    BY <2>1 DEF OpTypes, SeenInv
  <2>4. ASSUME NEW p \in Ops \ {o}
        PROVE  /\ Active(p)' => Watched(p)'
               /\ pc'[p] = "call" /\ Resolves(req[p]) => cmType'[p] \in shown'[p]
               /\ result'[p].says = NV => pc'[p] = "done" /\ poll'[p] = Polls /\ lacked'[p]
    <3>1. /\ pc'[p] = pc[p] /\ shown'[p] = shown[p] /\ lacked'[p] = lacked[p]
          /\ poll'[p] = poll[p]
      BY <2>1 DEF OpTypes, ServerTypes
    <3>2. (Active(p)' <=> Active(p)) /\ (Watched(p)' <=> Watched(p))
      BY <2>1, <3>1, Zenon DEF Active, Watched, TypesShown, Lacks
    <3>3. /\ Active(p) => Watched(p)
          /\ pc[p] = "call" /\ Resolves(req[p]) => cmType[p] \in shown[p]
          /\ result[p].says = NV => pc[p] = "done" /\ poll[p] = Polls /\ lacked[p]
      BY DEF SeenInv
    <3> HIDE DEF Active, Watched
    <3> QED BY <2>1, <3>1, <3>2, <3>3
  <2> QED BY <2>1, <2>2, <2>3, <2>4 DEF SeenInv
<1>2. ASSUME NEW o \in Ops, Malformed(o) PROVE SeenInv'
  BY <1>2, QuietSees, SeenDone DEF Malformed, Succeed, server
<1>3. ASSUME NEW o \in Ops, NEW c \in Copies, PollHits(o, c) PROVE SeenInv'
  <2>1. /\ cmType' = [cmType EXCEPT ![o] = view[c][req[o].method].type]
        /\ pc' = [pc EXCEPT ![o] = "call"] /\ Active(o)
        /\ UNCHANGED <<server, req, poll, result>>
    BY <1>3 DEF PollHits, Active
  <2>2. view[c][req[o].method].type \in TypesShown(view, req[o].method)
    BY <1>3 DEF PollHits, Has, TypesShown
  <2>3. view[c][req[o].method].type \in shown[o]
    BY <2>1, <2>2 DEF SeenInv, Watched
  <2>4. cmType'[o] \in shown'[o] /\ pc'[o] = "call" /\ result'[o].says # NV
    BY <2>1, <2>3 DEF OpTypes, SeenInv, server, Active
  <2>5. SeesAll
    BY <2>1, QuietSees DEF server
  <2>6. \A p \in Ops \ {o} : cmType'[p] = cmType[p] /\ pc'[p] = pc[p]
    BY <2>1 DEF OpTypes
  <2> QED BY <2>1, <2>4, <2>5, <2>6, SeenFrame
<1>4. ASSUME NEW o \in Ops, NEW c \in Copies, PollMisses(o, c) PROVE SeenInv'
  <2>1. UNCHANGED <<server, req, poll, cmType>> /\ Active(o) /\ SeesAll
    BY <1>4, QuietSees DEF PollMisses, Active, server
  <2>2. CASE LastPoll(o)
    <3>1. Finish(o, "InternalFailure", NV) /\ poll[o] = Polls
      BY <1>4, <2>2 DEF PollMisses, NotVisible, GiveUp, LastPoll
    <3>2. lacked[o]
      <4>1. Lacks(view, req[o].method)
        BY <1>4 DEF PollMisses, Has, Lacks
      <4> QED BY <2>1, <4>1 DEF SeenInv, Watched
    <3>3. /\ pc'[o] = "done" /\ poll'[o] = Polls /\ lacked'[o]
          /\ \A p \in Ops \ {o} : pc'[p] = pc[p] /\ result'[p] = result[p]
      BY <2>1, <3>1, <3>2 DEF Finish, OpTypes, server
    <3> QED BY <2>1, <3>3, SeenFrame
  <2>3. CASE ~LastPoll(o)
    <3>1. pc' = [pc EXCEPT ![o] = "wait"] /\ UNCHANGED result
      BY <1>4, <2>3 DEF PollMisses
    <3>2. /\ pc'[o] = "wait" /\ result'[o].says # NV
          /\ \A p \in Ops \ {o} : pc'[p] = pc[p]
      BY <2>1, <3>1 DEF OpTypes, SeenInv, Active
    <3> QED BY <2>1, <3>1, <3>2, SeenFrame
  <2> QED BY <2>2, <2>3
<1>5. ASSUME NEW o \in Ops, NextPoll(o) PROVE SeenInv'
  <2>1. /\ pc' = [pc EXCEPT ![o] = "resolve"] /\ poll' = [poll EXCEPT ![o] = @ + 1]
        /\ UNCHANGED <<server, req, cmType, result>> /\ Active(o) /\ SeesAll
    BY <1>5, QuietSees DEF NextPoll, Active, server
  <2>2. /\ pc'[o] = "resolve" /\ result'[o].says # NV
        /\ \A p \in Ops \ {o} : pc'[p] = pc[p] /\ poll'[p] = poll[p]
    BY <2>1 DEF OpTypes, SeenInv, Active
  <2> QED BY <2>1, <2>2, SeenFrame
<1>6. ASSUME NEW o \in Ops, ResolveFails(o) PROVE SeenInv'
  BY <1>6, QuietSees, SeenDone DEF ResolveFails, GiveUp, server
<1>7. ASSUME NEW o \in Ops, Accepted(o) PROVE SeenInv'
  BY <1>7, ExecuteSees, SeenDone DEF Accepted, Succeed
<1>8. ASSUME NEW o \in Ops, Attempt(o) PROVE SeenInv'
  BY <1>8, ExecuteSees, SeenQuiet DEF Attempt
<1>9. ASSUME NEW o \in Ops, Refused(o) PROVE SeenInv'
  <2>1. PICK code : Finish(o, code, "")
    BY <1>9 DEF Refused, Succeed
  <2> QED BY <1>9, <2>1, QuietSees, SeenDone DEF Refused, server
<1>10. ASSUME NEW o \in Ops, Unanswered(o) PROVE SeenInv'
  <2>1. PICK code : Finish(o, code, "")
    BY <1>10 DEF Unanswered, ReportUnknown
  <2>2. SeesAll
    BY <1>10, QuietSees, ExecuteSees DEF Unanswered, server
  <2> QED BY <1>10, <2>1, <2>2, SeenDone DEF Unanswered
<1>11. ASSUME NEW o \in Ops, Read(o) PROVE SeenInv'
  BY <1>11, QuietSees, SeenDone DEF Read, Succeed, server
<1>12. ASSUME NEW o \in Ops, ReadFails(o) PROVE SeenInv'
  BY <1>12, QuietSees, SeenDone DEF ReadFails, server
<1>13. ASSUME NEW c \in Replicas, Replicate(c) PROVE SeenInv'
  BY <1>13, ShowSees, SeenQuiet DEF Replicate
<1>14. ASSUME NEW w \in stray, StrayArrives(w) PROVE SeenInv'
  BY <1>14, ExecuteSees, QuietSees, SeenQuiet DEF StrayArrives
<1>15. ASSUME NEW i \in Ids, RemovedByUser(i) PROVE SeenInv'
  BY <1>15, ShowSees, SeenQuiet DEF RemovedByUser, Store
<1>16. CASE UNCHANGED vars
  BY <1>16, QuietSees, SeenQuiet DEF vars, server
<1> QED
  BY <1>1, <1>2, <1>3, <1>4, <1>5, <1>6, <1>7, <1>8, <1>9, <1>10, <1>11, <1>12, <1>13,
     <1>14, <1>15, <1>16 DEF Next, Terminated

\* ResolvedTypeWasShown, always: the poll of contactMethodTypeFor may be answered by
\* a copy that lags, but by nothing older than the operation.
THEOREM ResolvedTypesWereShown == Spec => []ResolvedTypeWasShown
<1>1. SeenInv => ResolvedTypeWasShown
  BY DEF SeenInv, ResolvedTypeWasShown
<1> QED BY <1>1, TypeInit, TypeStep, SeenInit, SeenStep, PTL DEF Spec

\* NotVisibleAfterAllPolls, always: retryUntilReadable gives up on the contact method
\* only after its last attempt, and only if a copy was without it.
THEOREM GivesUpAfterAllPolls == Spec => []NotVisibleAfterAllPolls
<1>1. SeenInv => NotVisibleAfterAllPolls
  BY DEF SeenInv, NotVisibleAfterAllPolls, NV
<1> QED BY <1>1, TypeInit, TypeStep, SeenInit, SeenStep, PTL DEF Spec

-----------------------------------------------------------------------------
(* A Delete is final. *)

\* The id i was given to a thing of this kind, which is there or gone.
Slot(of, i) == i < nextId /\ view[Primary][i].of \in {of, "nothing"}

SlotInv ==
  /\ \A i \in Ids : view[Primary][i] # Nothing => i < nextId
  /\ \A n \in known \union deleted : Slot(n[1], n[2])
  /\ \A o \in Ops : Active(o) /\ req[o].kind # "Create" => Slot(req[o].of, req[o].id)
  /\ \A w \in stray : /\ w.verb = "DELETE" => w.thing = Nothing
                      /\ w.verb # "DELETE" => w.thing.of = w.of
  /\ DeletedStaysGone

\* A step of the server that puts nothing where something was or had been.
SlotsKept ==
  /\ nextId <= nextId'
  /\ \A i \in Ids : i < nextId =>
       /\ view'[Primary][i].of \in {view[Primary][i].of, "nothing"}
       /\ view[Primary][i] = Nothing => view'[Primary][i] = Nothing
  /\ \A i \in Ids : view'[Primary][i] # Nothing => i < nextId'

LEMMA QuietKeepsSlots == ServerTypes /\ SlotInv /\ UNCHANGED <<view, nextId>> => SlotsKept
BY DEF ServerTypes, SlotInv, SlotsKept

LEMMA ExecuteKeepsSlots ==
  ASSUME ServerTypes, SlotInv, NEW w \in Writes, Execute(w),
         w.verb = "DELETE" => w.thing = Nothing, w.verb # "DELETE" => w.thing.of = w.of
  PROVE  /\ SlotsKept
         /\ w.verb = "POST" => nextId' = nextId + 1 /\ view'[Primary][nextId] = w.thing
         /\ w.verb # "POST" => view'[Primary][w.id] = w.thing
<1>1. /\ Primary \in Copies /\ view[Primary] \in [Ids -> Thing \union {Nothing}]
      /\ nextId \in Int /\ \A i \in Ids : i \in Int
      /\ \A i \in Ids : view[Primary][i] # Nothing => i < nextId
  BY IdFacts DEF ServerTypes, SlotInv
<1>2. CASE w.verb = "POST"
  <2>1. /\ nextId \in Ids /\ nextId' = nextId + 1
        /\ view' = [view EXCEPT ![Primary][nextId] = w.thing]
    BY <1>2, IdFacts DEF Execute, Store, Show, ServerTypes
  <2>2. view'[Primary] = [view[Primary] EXCEPT ![nextId] = w.thing]
    BY <1>1, <2>1 DEF ServerTypes
  <2> QED BY <1>1, <1>2, <2>1, <2>2 DEF SlotsKept
<1>3. CASE w.verb # "POST"
  <2>1. /\ w.id \in Ids /\ view[Primary][w.id].of = w.of /\ nextId' = nextId
        /\ view' = [view EXCEPT ![Primary][w.id] = w.thing]
    BY <1>3 DEF Execute, Acceptable, Has, Store, Show
  <2>2. view'[Primary] = [view[Primary] EXCEPT ![w.id] = w.thing]
    BY <1>1, <2>1 DEF ServerTypes
  <2>3. view[Primary][w.id] # Nothing /\ w.thing.of \in {w.of, "nothing"}
    BY <2>1, ThingFacts DEF Writes
  <2> QED BY <1>1, <1>3, <2>1, <2>2, <2>3 DEF SlotsKept
<1> QED BY <1>2, <1>3

\* A slot that was given stays given.
LEMMA SlotKept ==
  ASSUME ServerTypes, ServerTypes', SlotsKept, NEW of, NEW i \in Ids, Slot(of, i)
  PROVE  Slot(of, i)' /\ (view[Primary][i] = Nothing => view'[Primary][i] = Nothing)
BY IdFacts DEF Slot, SlotsKept, ServerTypes

\* A step that adds to known and deleted what the server agrees with keeps SlotInv.
LEMMA SlotFrame ==
  ASSUME TypeOK, TypeOK', Sound', SlotInv, SlotsKept, UNCHANGED req,
         \A o \in Ops : Active(o)' => Active(o) \/ <<req[o].of, req[o].id>> \in known
                                             \/ req[o].kind = "Create",
         \A n \in (known' \union deleted') \ (known \union deleted) : Slot(n[1], n[2])',
         \A n \in deleted' \ deleted : view'[Primary][n[2]] = Nothing,
         \A w \in stray' : /\ w.verb = "DELETE" => w.thing = Nothing
                           /\ w.verb # "DELETE" => w.thing.of = w.of
  PROVE  SlotInv'
<1>1. ServerTypes /\ ServerTypes' /\ OpTypes /\ OpTypes'
  BY SplitTypes
<1>2. \A n \in known \union deleted :
        n[2] \in Ids /\ Slot(n[1], n[2])'
                /\ (view[Primary][n[2]] = Nothing => view'[Primary][n[2]] = Nothing)
  BY <1>1, SlotKept DEF SlotInv, OpTypes, Named
<1>3. \A o \in Ops : Active(o)' /\ req[o].kind # "Create" => Slot(req[o].of, req[o].id)'
  <2> SUFFICES ASSUME NEW o \in Ops, Active(o)', req[o].kind # "Create"
               PROVE  Slot(req[o].of, req[o].id)'
    OBVIOUS
  <2>1. req[o].id \in Ids
    <3>1. WellFormed(req'[o])
      BY DEF Sound
    <3>2. req[o].id # NoId
      BY <3>1 DEF WellFormed
    <3> QED BY <1>1, <3>2, RequestFacts
  <2>2. Slot(req[o].of, req[o].id)
    <3>1. CASE Active(o)
      BY <3>1 DEF SlotInv
    <3>2. CASE <<req[o].of, req[o].id>> \in known
      BY <3>2 DEF SlotInv
    <3> QED BY <3>1, <3>2
  <2> QED BY <1>1, <2>1, <2>2, SlotKept
<1>4. \A n \in deleted' : view'[Primary][n[2]] = Nothing
  BY <1>2 DEF SlotInv, DeletedStaysGone
<1>5. \A n \in known' \union deleted' : Slot(n[1], n[2])'
  BY <1>2
<1>6. \A i \in Ids : view'[Primary][i] # Nothing => i < nextId'
  BY DEF SlotsKept
<1> QED BY <1>3, <1>4, <1>5, <1>6 DEF SlotInv, DeletedStaysGone

LEMMA SlotInit == Init => SlotInv
<1> SUFFICES ASSUME Init PROVE SlotInv
  OBVIOUS
<1>1. PICK n \in 0 .. MaxId : InitMethods \in [1 .. n -> Types]
  BY ConstantsAssumption
<1>2. DOMAIN InitMethods = 1 .. n /\ nextId = n + 1
  <2>1. DOMAIN InitMethods = 1 .. n /\ n \in Nat /\ 1 \in Int
    BY <1>1, ConstantsAssumption
  <2>2. Cardinality(1 .. n) = IF 1 > n THEN 0 ELSE n - 1 + 1
    BY <2>1, FS_Interval
  <2> QED BY <2>1, <2>2 DEF Init
<1>3. /\ \A i \in 1 .. n : i \in Ids /\ view[Primary][i].of = "method"
      /\ \A i \in Ids : i \notin 1 .. n => view[Primary][i] = Nothing
  BY <1>1, <1>2, IdFacts, ConstantsAssumption DEF Init, Method, Ids
<1>4. \A i \in 1 .. n : Slot("method", i)
  BY <1>2, <1>3 DEF Slot
<1>5. known \union deleted = {<<"method", i>> : i \in 1 .. n} /\ deleted = {} /\ stray = {}
  BY <1>2 DEF Init
<1>6. \A o \in Ops : ~Active(o)
  BY DEF Init, Active
<1>7. \A i \in Ids : view[Primary][i] # Nothing => i < nextId
  BY <1>2, <1>3
<1> QED BY <1>4, <1>5, <1>6, <1>7 DEF SlotInv, DeletedStaysGone

LEMMA SlotStep == TypeOK /\ TypeOK' /\ Sound /\ Sound' /\ SlotInv /\ [Next]_vars => SlotInv'
<1> SUFFICES ASSUME TypeOK, TypeOK', Sound, Sound', SlotInv, [Next]_vars PROVE SlotInv'
  OBVIOUS
<1>0. ServerTypes /\ ServerTypes' /\ OpTypes /\ OpTypes'
  BY SplitTypes
<1>a. \A w \in stray : /\ w.verb = "DELETE" => w.thing = Nothing
                       /\ w.verb # "DELETE" => w.thing.of = w.of
  BY DEF SlotInv
\* A step that leaves the server, what formae has on record and what it wrote alone.
<1>q. ASSUME UNCHANGED <<view, nextId, req, known, deleted>>, stray' \subseteq stray,
             \A o \in Ops : Active(o)' => Active(o) \/ <<req[o].of, req[o].id>> \in known
                                                 \/ req[o].kind = "Create"
      PROVE  SlotInv'
  BY <1>0, <1>a, <1>q, QuietKeepsSlots, SlotFrame
\* A step of one operation leaves the others as they are.
<1>p. ASSUME NEW o \in Ops, NEW l, pc' = [pc EXCEPT ![o] = l], Active(o) \/ l = "done"
      PROVE  \A p \in Ops : Active(p)' => Active(p)
  BY <1>0, <1>p DEF OpTypes, Active
\* A write of an operation executed, or left behind, before the operation ends.
<1>w. ASSUME NEW o \in Ops, Calling(o, {"Create", "Update", "Delete"}),
             \/ Execute(Submitted(o)) /\ UNCHANGED stray
             \/ LeaveBehind(Submitted(o)),
             UNCHANGED <<req, known, deleted>>, \A p \in Ops : Active(p)' => Active(p)
      PROVE  SlotInv'
  <2> DEFINE w == Submitted(o)
  <2>1. /\ w \in Writes
        /\ w.verb = "DELETE" => w.thing = Nothing
        /\ w.verb # "DELETE" => w.thing.of = w.of
    BY <1>0, <1>w, SubmittedFacts
  <2>2. (Execute(w) /\ UNCHANGED stray) \/ LeaveBehind(w)
    BY <1>w
  <2> HIDE DEF w
  <2>3. SlotsKept
    BY <1>0, <2>1, <2>2, ExecuteKeepsSlots, QuietKeepsSlots DEF LeaveBehind
  <2>4. stray' \subseteq stray \union {w}
    BY <2>2 DEF LeaveBehind
  <2> QED BY <1>a, <1>w, <2>1, <2>3, <2>4, SlotFrame
<1>1. ASSUME NEW o \in Ops, Begin(o) PROVE SlotInv'
  <2>1. \A p \in Ops \ {o} : Active(p)' => Active(p)
    BY <1>0, <1>1 DEF Begin, Active, OpTypes
  <2>2. <<req[o].of, req[o].id>> \in known \/ req[o].kind = "Create"
    BY <1>1 DEF Begin, OnRecord
  <2> QED BY <1>1, <2>1, <2>2, <1>q DEF Begin, history
<1>2. ASSUME NEW o \in Ops, Malformed(o) PROVE SlotInv'
  BY <1>2, <1>p, <1>q DEF Malformed, Succeed, Finish, history, server
<1>3. ASSUME NEW o \in Ops, NEW c \in Copies, PollHits(o, c) PROVE SlotInv'
  BY <1>3, <1>p, <1>q DEF PollHits, Active, history, server
<1>4. ASSUME NEW o \in Ops, NEW c \in Copies, PollMisses(o, c) PROVE SlotInv'
  <2>1. Active(o) /\ \E l : pc' = [pc EXCEPT ![o] = l]
    BY <1>4 DEF PollMisses, NotVisible, GiveUp, Finish, Active
  <2> QED BY <1>4, <2>1, <1>p, <1>q DEF PollMisses, history, server
<1>5. ASSUME NEW o \in Ops, NextPoll(o) PROVE SlotInv'
  BY <1>5, <1>p, <1>q DEF NextPoll, Active, history, server
<1>6. ASSUME NEW o \in Ops, ResolveFails(o) PROVE SlotInv'
  BY <1>6, <1>p, <1>q DEF ResolveFails, GiveUp, Finish, history, server
<1>7. ASSUME NEW o \in Ops, Accepted(o) PROVE SlotInv'
  <2> DEFINE w == Submitted(o)
  <2>0. PICK it : it = <<req[o].of, IF req[o].kind = "Create" THEN nextId ELSE req[o].id>>
    OBVIOUS
  <2>1. /\ Calling(o, {"Create", "Update", "Delete"}) /\ Execute(w)
        /\ pc' = [pc EXCEPT ![o] = "done"] /\ UNCHANGED <<stray, req>>
    BY <1>7 DEF Accepted, Succeed, Finish
  <2>2. /\ w \in Writes /\ w.of = req[o].of /\ w.id = req[o].id
        /\ w.verb = "POST" <=> req[o].kind = "Create"
        /\ w.verb = "DELETE" <=> req[o].kind = "Delete"
        /\ w.verb = "DELETE" => w.thing = Nothing
        /\ w.verb # "DELETE" => w.thing.of = w.of
    BY <1>0, <2>1, SubmittedFacts
  <2>3. /\ known' \union deleted' \subseteq known \union deleted \union {it}
        /\ deleted' \subseteq deleted \union {it}
        /\ req[o].kind # "Delete" => deleted' = deleted
    BY <1>7, <2>0 DEF Accepted, Record
  <2> HIDE DEF w
  <2>4. /\ SlotsKept
        /\ w.verb = "POST" => nextId' = nextId + 1 /\ view'[Primary][nextId] = w.thing
        /\ w.verb # "POST" => view'[Primary][w.id] = w.thing
    BY <1>0, <2>1, <2>2, ExecuteKeepsSlots
  <2>5. Slot(it[1], it[2])'
    <3>1. CASE req[o].kind = "Create"
      BY <1>0, <2>0, <2>2, <2>4, <3>1 DEF Slot, ServerTypes
    <3>2. CASE req[o].kind # "Create"
      <4>1. Slot(req[o].of, req[o].id) /\ req[o].id \in Ids
        BY <1>0, <2>1, <3>2, RequestFacts DEF SlotInv, Calling, Active, Sound, WellFormed
      <4> QED BY <1>0, <2>0, <2>4, <3>2, <4>1, SlotKept
    <3> QED BY <3>1, <3>2
  <2>6. \A n \in deleted' \ deleted : view'[Primary][n[2]] = Nothing
    <3>1. req[o].kind = "Delete" => view'[Primary][req[o].id] = Nothing
      BY <2>2, <2>4
    <3> QED BY <2>0, <2>3, <3>1
  <2>7. \A n \in (known' \union deleted') \ (known \union deleted) : Slot(n[1], n[2])'
    BY <2>3, <2>5
  <2>8. \A p \in Ops : Active(p)' => Active(p)
    BY <2>1, <1>p
  <2> QED BY <1>a, <2>1, <2>4, <2>6, <2>7, <2>8, SlotFrame
<1>8. ASSUME NEW o \in Ops, Attempt(o) PROVE SlotInv'
  <2> DEFINE w == Submitted(o)
  <2>1. /\ Calling(o, {"Create", "Update", "Delete"})
        /\ (Execute(w) /\ UNCHANGED stray) \/ LeaveBehind(w)
        /\ UNCHANGED <<req, pc, known, deleted>>
    BY <1>8 DEF Attempt, Calling, history
  <2> HIDE DEF w
  <2> QED BY <2>1, <1>w DEF w, Active
<1>9. ASSUME NEW o \in Ops, Refused(o) PROVE SlotInv'
  <2>1. PICK e \in Refusals :
          /\ e = NotThere => ~Acceptable(Submitted(o))
          /\ IF req[o].kind = "Delete" /\ IsNotFound(e)
             THEN Succeed(o) /\ Record(o)
             ELSE Finish(o, MapAPIError(e), "") /\ UNCHANGED history
    BY <1>9 DEF Refused
  <2>2. /\ UNCHANGED <<server, req>> /\ Calling(o, {"Create", "Update", "Delete"})
        /\ pc' = [pc EXCEPT ![o] = "done"]
    BY <1>9 DEF Refused, Succeed, Finish
  <2>3. CASE req[o].kind = "Delete" /\ IsNotFound(e)
    <3>0. PICK it : it = <<req[o].of, req[o].id>>
      OBVIOUS
    <3>1. known' = known \ {it} /\ deleted' = deleted \union {it}
      BY <2>1, <2>3, <3>0 DEF Record
    <3>2. Slot(it[1], it[2]) /\ Slot(req[o].of, req[o].id) /\ req[o].id \in Ids
      <4>1. Active(o)
        BY <2>2 DEF Calling, Active
      <4>2. Slot(req[o].of, req[o].id) /\ req[o].id # NoId
        BY <2>3, <4>1 DEF SlotInv, Sound, WellFormed
      <4> QED BY <1>0, <3>0, <4>2, RequestFacts
    <3>3. view[Primary][req[o].id].of # req[o].of
      <4>1. ~Acceptable(Submitted(o))
        BY <2>1, <2>3, OnlyNotThereIsGone
      <4>2. /\ Submitted(o).verb = "DELETE" /\ Submitted(o).of = req[o].of
            /\ Submitted(o).id = req[o].id
        BY <1>0, <2>2, <2>3, SubmittedFacts
      <4> QED BY <3>2, <4>1, <4>2 DEF Acceptable, Has
    <3>4. view[Primary][it[2]] = Nothing
      <4>1. view[Primary][req[o].id] \in Thing \union {Nothing}
        <5>1. req[o].id \in Ids /\ Primary \in Copies
          BY <3>2, IdFacts
        <5>2. view \in [Copies -> [Ids -> Thing \union {Nothing}]]
          BY <1>0 DEF ServerTypes
        <5> QED BY <5>1, <5>2
      <4>2. view[Primary][req[o].id].of = "nothing"
        BY <3>2, <3>3 DEF Slot
      <4> QED BY <3>0, <4>1, <4>2, ThingFacts
    <3>5. SlotsKept
      BY <1>0, <2>2, QuietKeepsSlots DEF server
    <3>6. /\ \A n \in (known' \union deleted') \ (known \union deleted) : Slot(n[1], n[2])'
          /\ \A n \in deleted' \ deleted : view'[Primary][n[2]] = Nothing
      BY <2>2, <3>1, <3>2, <3>4 DEF Slot, server
    <3>7. \A p \in Ops : Active(p)' => Active(p)
      BY <2>2, <1>p
    <3> QED BY <1>a, <2>2, <3>5, <3>6, <3>7, SlotFrame DEF server
  <2>4. CASE ~(req[o].kind = "Delete" /\ IsNotFound(e))
    <3>1. UNCHANGED history
      BY <2>1, <2>4, Zenon
    <3> QED BY <2>2, <3>1, <1>p, <1>q DEF server, history
  <2> QED BY <2>3, <2>4
<1>10. ASSUME NEW o \in Ops, Unanswered(o) PROVE SlotInv'
  <2>1. /\ Calling(o, {"Create", "Update", "Delete"}) /\ pc' = [pc EXCEPT ![o] = "done"]
        /\ UNCHANGED <<req, known, deleted>>
    BY <1>10 DEF Unanswered, ReportUnknown, Finish, history
  <2>2. \A p \in Ops : Active(p)' => Active(p)
    BY <2>1, <1>p
  <2>3. \/ UNCHANGED server
        \/ Execute(Submitted(o)) /\ UNCHANGED stray
        \/ LeaveBehind(Submitted(o))
    BY <1>10 DEF Unanswered
  <2> QED BY <2>1, <2>2, <2>3, <1>w, <1>q DEF server
<1>11. ASSUME NEW o \in Ops, Read(o) PROVE SlotInv'
  BY <1>11, <1>p, <1>q DEF Read, Succeed, Finish, history, server
<1>12. ASSUME NEW o \in Ops, ReadFails(o) PROVE SlotInv'
  BY <1>12, <1>p, <1>q DEF ReadFails, Finish, history, server
<1>13. ASSUME NEW c \in Replicas, Replicate(c) PROVE SlotInv'
  <2>1. UNCHANGED <<req, pc, stray, nextId, known, deleted>> /\ view'[Primary] = view[Primary]
    BY <1>0, <1>13, IdFacts DEF Replicate, Show, ServerTypes, history
  <2>2. SlotsKept
    BY <1>0, <2>1 DEF ServerTypes, SlotInv, SlotsKept
  <2> QED BY <1>a, <2>1, <2>2, SlotFrame DEF Active
<1>14. ASSUME NEW w \in stray, StrayArrives(w) PROVE SlotInv'
  <2>1. UNCHANGED <<req, pc, known, deleted>> /\ stray' \subseteq stray /\ w \in Writes
    BY <1>0, <1>14 DEF StrayArrives, ServerTypes, history
  <2>2. SlotsKept
    BY <1>0, <1>a, <1>14, <2>1, ExecuteKeepsSlots, QuietKeepsSlots DEF StrayArrives
  <2> QED BY <1>a, <2>1, <2>2, SlotFrame DEF Active
<1>15. ASSUME NEW i \in Ids, RemovedByUser(i) PROVE SlotInv'
  <2>1. /\ UNCHANGED <<req, pc, stray, nextId, known, deleted>>
        /\ view'[Primary] = [view[Primary] EXCEPT ![i] = Nothing]
    BY <1>0, <1>15, IdFacts DEF RemovedByUser, Store, Show, ServerTypes, history
  <2>2. SlotsKept
    <3>1. view[Primary] \in [Ids -> Thing \union {Nothing}]
      BY <1>0, IdFacts DEF ServerTypes
    <3> QED BY <1>0, <2>1, <3>1, ThingFacts DEF ServerTypes, SlotInv, SlotsKept
  <2> QED BY <1>a, <2>1, <2>2, SlotFrame DEF Active
<1>16. CASE UNCHANGED vars
  BY <1>16, <1>q DEF vars, server, history, Active
<1> QED
  BY <1>1, <1>2, <1>3, <1>4, <1>5, <1>6, <1>7, <1>8, <1>9, <1>10, <1>11, <1>12, <1>13,
     <1>14, <1>15, <1>16 DEF Next, Terminated

\* DeletedStaysGone, always: the Deletes of contact methods and of rules report gone
\* only what was removed or answers with a true 404, and neither a repeated PUT nor a
\* late POST brings it back.
THEOREM DeletesAreFinal == Spec => []DeletedStaysGone
<1>1. SlotInv => DeletedStaysGone
  BY DEF SlotInv
<1> QED BY <1>1, TypeInit, TypeStep, SlotInit, SlotStep, PTL DEF Spec

-----------------------------------------------------------------------------
(* Where a thing that formae has no record of comes from. *)

UnknownResult(r) == r.code \in {"ServiceInternalError", "InternalFailure"} /\ r.says = ""

Made(o) == \E i \in Ids : maker[i] = o

\* A Create that made something, or still may, has ended; and of the things it
\* made and the POSTs it left on the wire there is one at most.
MakerInv ==
  /\ \A i, j \in Ids : maker[i] # Nobody /\ maker[i] = maker[j] => i = j
  /\ \A i \in Ids : maker[i] # Nobody =>
       LET o == maker[i]
       IN  /\ pc[o] = "done"
           /\ \/ result[o].code = "ok" /\ <<req[o].of, i>> \in known \union deleted
              \/ UnknownResult(result[o])
  /\ \A w \in stray : w.verb = "POST" =>
       /\ pc[w.op] = "done" /\ UnknownResult(result[w.op]) /\ ~Made(w.op)
       /\ \A x \in stray : x.verb = "POST" /\ x.op = w.op => x = w

\* A step that changes no ended operation, and loses nothing of what formae knew.
Keeps ==
  /\ UNCHANGED req
  /\ \A p \in Ops : pc[p] = "done" => pc'[p] = "done" /\ result'[p] = result[p]
  /\ known \union deleted \subseteq known' \union deleted'

\* Nothing is made and no POST is left behind.
LEMMA MakerFrame ==
  ASSUME ServerTypes, MakerInv, Keeps, maker' = maker,
         \A w \in stray' : w.verb = "POST" => w \in stray
  PROVE  MakerInv'
<1>1. \A i \in Ids : maker[i] \in Ops \union {Nobody}
  BY DEF ServerTypes
<1>2. \A w \in stray : w.op \in Ops
  BY DEF ServerTypes, Writes
<1> QED BY <1>1, <1>2 DEF MakerInv, Keeps, Made

\* Operation o makes its one thing: now, as it ends, or by the POST it left behind.
LEMMA MakeFrame ==
  ASSUME ServerTypes, MakerInv, Keeps, NEW o \in Ops, ~Made(o), nextId \in Ids,
         maker' = [maker EXCEPT ![nextId] = o],
         \A w \in stray' : w.verb = "POST" => w \in stray /\ w.op # o,
         pc'[o] = "done",
         \/ result'[o].code = "ok" /\ <<req[o].of, nextId>> \in known' \union deleted'
         \/ UnknownResult(result'[o])
  PROVE  MakerInv'
<1>1. \A i \in Ids : /\ maker[i] \in Ops \union {Nobody}
                     /\ maker'[i] = IF i = nextId THEN o ELSE maker[i]
                     /\ maker[i] # o
  BY DEF ServerTypes, Made
<1>2. \A w \in stray : w.op \in Ops
  BY DEF ServerTypes, Writes
<1>3. \A i, j \in Ids : maker'[i] # Nobody /\ maker'[i] = maker'[j] => i = j
  BY <1>1 DEF MakerInv
<1>4. \A i \in Ids : maker'[i] # Nobody =>
        /\ pc'[maker'[i]] = "done"
        /\ \/ /\ result'[maker'[i]].code = "ok"
              /\ <<req[maker'[i]].of, i>> \in known' \union deleted'
           \/ UnknownResult(result'[maker'[i]])
  BY <1>1 DEF MakerInv, Keeps
<1>5. \A w \in stray' : w.verb = "POST" =>
        /\ pc'[w.op] = "done" /\ UnknownResult(result'[w.op]) /\ ~Made(w.op)'
        /\ \A x \in stray' : x.verb = "POST" /\ x.op = w.op => x = w
  BY <1>1, <1>2 DEF MakerInv, Keeps, Made
<1> QED BY <1>3, <1>4, <1>5 DEF MakerInv, Keeps

\* An operation that is calling has made nothing and left no POST.
LEMMA CallingIsFresh ==
  ASSUME MakerInv, ServerTypes, NEW o \in Ops, pc[o] # "done"
  PROVE  ~Made(o) /\ \A w \in stray : w.verb = "POST" => w.op # o
BY ConstantsAssumption DEF MakerInv, Made

LEMMA RecordKeeps == \A o \in Ops : Record(o) => known \union deleted \subseteq known' \union deleted'
BY DEF Record

LEMMA FinishKeeps ==
  ASSUME OpTypes, NEW o \in Ops, pc[o] # "done", NEW l, UNCHANGED req,
         pc' = [pc EXCEPT ![o] = l], \A p \in Ops \ {o} : result'[p] = result[p],
         known \union deleted \subseteq known' \union deleted'
  PROVE  Keeps
BY DEF OpTypes, Keeps

LEMMA MakerInit == Init => MakerInv
BY DEF Init, MakerInv, Made

\* The step of an operation that makes nothing and leaves no POST.
LEMMA MakerQuiet ==
  ASSUME TypeOK, MakerInv, NEW o \in Ops, pc[o] # "done", NEW l, UNCHANGED <<req, maker>>,
         pc' = [pc EXCEPT ![o] = l], \A p \in Ops \ {o} : result'[p] = result[p],
         known \union deleted \subseteq known' \union deleted',
         \A w \in stray' : w.verb = "POST" => w \in stray
  PROVE  MakerInv'
BY SplitTypes, FinishKeeps, MakerFrame

\* Executing anything but a POST makes nothing.
LEMMA OnlyPostsMake ==
  \A w : w.verb # "POST" /\ (Execute(w) \/ LeaveBehind(w)) => maker' = maker
BY DEF Execute, LeaveBehind

LEMMA PostMakes ==
  \A w : ServerTypes /\ w.verb = "POST" /\ Execute(w)
    => nextId \in Ids /\ maker' = [maker EXCEPT ![nextId] = w.op]
BY IdFacts DEF Execute, ServerTypes

LEMMA MakerStep == TypeOK /\ Sound /\ MakerInv /\ [Next]_vars => MakerInv'
<1> SUFFICES ASSUME TypeOK, Sound, MakerInv, [Next]_vars PROVE MakerInv'
  OBVIOUS
<1>0. ServerTypes /\ OpTypes
  BY SplitTypes
\* An operation ends without a write.
<1>d. ASSUME NEW o \in Ops, pc[o] # "done", NEW code, NEW says, Finish(o, code, says),
             UNCHANGED <<server, req>>, known \union deleted \subseteq known' \union deleted'
      PROVE  MakerInv'
  <2>1. /\ pc' = [pc EXCEPT ![o] = "done"] /\ \A p \in Ops \ {o} : result'[p] = result[p]
    BY <1>0, <1>d DEF Finish, OpTypes
  <2> QED BY <1>d, <2>1, MakerQuiet DEF server
<1>1. ASSUME NEW o \in Ops, Begin(o) PROVE MakerInv'
  BY <1>1, MakerQuiet DEF Begin, history
<1>2. ASSUME NEW o \in Ops, Malformed(o) PROVE MakerInv'
  BY <1>2, <1>d DEF Malformed, Succeed, history
<1>3. ASSUME NEW o \in Ops, NEW c \in Copies, PollHits(o, c) PROVE MakerInv'
  BY <1>3, MakerQuiet DEF PollHits, server, history
<1>4. ASSUME NEW o \in Ops, NEW c \in Copies, PollMisses(o, c) PROVE MakerInv'
  <2>1. CASE LastPoll(o)
    BY <1>4, <2>1, <1>d DEF PollMisses, NotVisible, GiveUp, history
  <2>2. CASE ~LastPoll(o)
    BY <1>4, <2>2, MakerQuiet DEF PollMisses, server, history
  <2> QED BY <2>1, <2>2
<1>5. ASSUME NEW o \in Ops, NextPoll(o) PROVE MakerInv'
  BY <1>5, MakerQuiet DEF NextPoll, server, history
<1>6. ASSUME NEW o \in Ops, ResolveFails(o) PROVE MakerInv'
  BY <1>6, <1>d DEF ResolveFails, GiveUp, history
<1>7. ASSUME NEW o \in Ops, Accepted(o) PROVE MakerInv'
  <2> DEFINE w == Submitted(o)
  <2>1. /\ Calling(o, {"Create", "Update", "Delete"}) /\ Execute(w) /\ Record(o)
        /\ UNCHANGED <<stray, req>> /\ pc[o] # "done"
        /\ pc' = [pc EXCEPT ![o] = "done"]
        /\ result' = [result EXCEPT ![o] = [code |-> "ok", says |-> ""]]
    BY <1>7 DEF Accepted, Succeed, Finish, Calling
  <2>2. w.op = o /\ (w.verb = "POST" <=> req[o].kind = "Create")
    BY <1>0, <2>1, SubmittedFacts
  <2>3. known \union deleted \subseteq known' \union deleted'
    BY <2>1, RecordKeeps
  <2>4. \A p \in Ops \ {o} : result'[p] = result[p]
    BY <1>0, <2>1 DEF OpTypes
  <2>5. CASE w.verb = "POST"
    <3>1. nextId \in Ids /\ maker' = [maker EXCEPT ![nextId] = o]
      BY <1>0, <2>1, <2>2, <2>5, PostMakes
    <3>2. <<req[o].of, nextId>> \in known' \union deleted'
      BY <2>1, <2>2, <2>5 DEF Record
    <3>3. pc'[o] = "done" /\ result'[o].code = "ok"
      BY <1>0, <2>1 DEF OpTypes
    <3>4. Keeps
      BY <1>0, <2>1, <2>3, <2>4, FinishKeeps
    <3> QED BY <1>0, <2>1, <3>1, <3>2, <3>3, <3>4, CallingIsFresh, MakeFrame
  <2>6. CASE w.verb # "POST"
    <3>1. maker' = maker
      BY <2>1, <2>6, OnlyPostsMake
    <3> QED BY <2>1, <2>3, <2>4, <3>1, MakerQuiet
  <2> QED BY <2>5, <2>6
<1>8. ASSUME NEW o \in Ops, Attempt(o) PROVE MakerInv'
  <2> DEFINE w == Submitted(o)
  <2>1. /\ Calling(o, {"Create", "Update", "Delete"}) /\ req[o].kind # "Create"
        /\ (Execute(w) /\ UNCHANGED stray) \/ LeaveBehind(w)
        /\ UNCHANGED <<req, pc, result, known, deleted>>
    BY <1>8 DEF Attempt, Calling, history
  <2>2. w.verb # "POST"
    BY <1>0, <2>1, SubmittedFacts
  <2>3. maker' = maker /\ \A x \in stray' : x.verb = "POST" => x \in stray
    BY <2>1, <2>2, OnlyPostsMake DEF LeaveBehind
  <2>4. Keeps
    BY <2>1 DEF Keeps
  <2> QED BY <1>0, <2>3, <2>4, MakerFrame
<1>9. ASSUME NEW o \in Ops, Refused(o) PROVE MakerInv'
  <2>1. PICK e \in Refusals :
          IF req[o].kind = "Delete" /\ IsNotFound(e)
          THEN Succeed(o) /\ Record(o)
          ELSE Finish(o, MapAPIError(e), "") /\ UNCHANGED history
    BY <1>9 DEF Refused
  <2>2. UNCHANGED <<server, req>> /\ pc[o] # "done"
    BY <1>9 DEF Refused, Calling
  <2>3. \/ Finish(o, "ok", "") /\ Record(o)
        \/ Finish(o, MapAPIError(e), "") /\ UNCHANGED history
    BY <2>1, Zenon DEF Succeed
  <2> QED BY <2>2, <2>3, <1>d, RecordKeeps DEF history
<1>10. ASSUME NEW o \in Ops, Unanswered(o) PROVE MakerInv'
  <2> DEFINE w == Submitted(o)
  <2>1. /\ Calling(o, {"Create", "Update", "Delete"}) /\ pc[o] # "done"
        /\ \/ UNCHANGED server
           \/ /\ req[o].kind = "Create"
              /\ (Execute(w) /\ UNCHANGED stray) \/ LeaveBehind(w)
        /\ UNCHANGED <<req, known, deleted>>
    BY <1>10 DEF Unanswered, Calling, history
  <2>2. PICK e \in Unknown : Finish(o, MapAPIError(e), "")
    BY <1>10 DEF Unanswered, ReportUnknown
  <2>3. /\ pc' = [pc EXCEPT ![o] = "done"] /\ pc'[o] = "done"
        /\ UnknownResult(result'[o])
        /\ \A p \in Ops \ {o} : result'[p] = result[p]
    BY <1>0, <2>2, UnknownCodes DEF Finish, OpTypes, UnknownResult
  <2>4. Keeps
    BY <1>0, <2>1, <2>3, FinishKeeps
  <2>5. w.op = o /\ (w.verb = "POST" <=> req[o].kind = "Create")
    BY <1>0, <2>1, SubmittedFacts
  <2> HIDE DEF w
  <2>6. CASE UNCHANGED server
    BY <1>0, <2>4, <2>6, MakerFrame DEF server
  <2>7. CASE w.verb = "POST" /\ Execute(w) /\ UNCHANGED stray
    <3>1. nextId \in Ids /\ maker' = [maker EXCEPT ![nextId] = o]
      BY <1>0, <2>5, <2>7, PostMakes
    <3> QED BY <1>0, <2>1, <2>3, <2>4, <2>7, <3>1, CallingIsFresh, MakeFrame
  <2>8. CASE w.verb = "POST" /\ LeaveBehind(w)
    <3>1. maker' = maker /\ stray' = stray \union {w}
      BY <2>8 DEF LeaveBehind
    <3>2. ~Made(o) /\ \A x \in stray : x.verb = "POST" => x.op # o
      BY <1>0, <2>1, CallingIsFresh
    <3>3. \A i \in Ids : maker[i] \in Ops \union {Nobody}
      BY <1>0 DEF ServerTypes
    <3>4. \A x \in stray : x.op \in Ops
      BY <1>0 DEF ServerTypes, Writes
    <3> QED BY <2>3, <2>4, <2>5, <3>1, <3>2, <3>3, <3>4 DEF MakerInv, Keeps, Made
  <2> QED BY <2>1, <2>5, <2>6, <2>7, <2>8
<1>11. ASSUME NEW o \in Ops, Read(o) PROVE MakerInv'
  BY <1>11, <1>d DEF Read, Calling, Succeed, history
<1>12. ASSUME NEW o \in Ops, ReadFails(o) PROVE MakerInv'
  BY <1>12, <1>d DEF ReadFails, Calling, history
<1>13. ASSUME NEW c \in Replicas, Replicate(c) PROVE MakerInv'
  BY <1>0, <1>13, MakerFrame DEF Replicate, Keeps, history
<1>14. ASSUME NEW w \in stray, StrayArrives(w) PROVE MakerInv'
  <2>1. stray' = stray \ {w} /\ Keeps /\ w.op \in Ops
    BY <1>0, <1>14 DEF StrayArrives, Keeps, history, ServerTypes, Writes
  <2>2. CASE w.verb = "POST" /\ Execute(w)
    <3>1. nextId \in Ids /\ maker' = [maker EXCEPT ![nextId] = w.op]
      BY <1>0, <2>2, PostMakes
    <3>2. /\ pc[w.op] = "done" /\ UnknownResult(result[w.op]) /\ ~Made(w.op)
          /\ \A x \in stray : x.verb = "POST" /\ x.op = w.op => x = w
      BY <2>2 DEF MakerInv
    <3>3. pc'[w.op] = "done" /\ UnknownResult(result'[w.op])
      BY <2>1, <3>2 DEF Keeps
    <3> QED BY <1>0, <2>1, <3>1, <3>2, <3>3, MakeFrame
  <2>3. CASE ~(w.verb = "POST" /\ Execute(w))
    <3>1. maker' = maker
      BY <1>14, <2>3, OnlyPostsMake DEF StrayArrives
    <3> QED BY <1>0, <2>1, <3>1, MakerFrame
  <2> QED BY <2>2, <2>3
<1>15. ASSUME NEW i \in Ids, RemovedByUser(i) PROVE MakerInv'
  BY <1>0, <1>15, MakerFrame DEF RemovedByUser, Keeps, history
<1>16. CASE UNCHANGED vars
  BY <1>0, <1>16, MakerFrame DEF vars, server, history, Keeps
<1> QED
  BY <1>1, <1>2, <1>3, <1>4, <1>5, <1>6, <1>7, <1>8, <1>9, <1>10, <1>11, <1>12, <1>13,
     <1>14, <1>15, <1>16 DEF Next, Terminated

\* OrphanOnlyAfterUnknown, always: a Create makes one thing at most, and formae lacks
\* a record of it only if the call broke off or met a server error; a refusal, or a
\* contact method that does not become visible, never leaves anything behind.
THEOREM OrphansOnlyAfterUnknown == Spec => []OrphanOnlyAfterUnknown
<1>1. TypeOK /\ MakerInv => OrphanOnlyAfterUnknown
  BY SplitTypes DEF MakerInv, OrphanOnlyAfterUnknown, UnknownResult
<1> QED BY <1>1, TypeInit, TypeStep, MakerInit, MakerStep, PTL DEF Spec

-----------------------------------------------------------------------------
(* A Create is one call. *)

\* What the Create of an operation has made, and what formae was told of it.
MadeBy(o) == {i \in Ids : maker[i] = o}

ReplyTo(o) ==
  CASE pc[o] # "done"                                             -> "pending"
    [] pc[o] = "done" /\ result[o].code = "ok"                    -> "ok"
    [] pc[o] = "done" /\ UnknownResult(result[o])                 -> "unknown"
    [] pc[o] = "done" /\ result[o].code # "ok" /\ ~UnknownResult(result[o]) -> "rejected"

\* The call the handlers make of the transport, seen by formae through the handler.
CreateCall(o) ==
  INSTANCE RestCall
    WITH Tokens <- Ids, repeatable <- FALSE, effects <- MadeBy(o), reply <- ReplyTo(o)

\* UserContacts takes the effect of a call and its reply in one step.
EffectAndReply(o) ==
  \E i \in Ids :
    /\ MadeBy(o) = {} /\ MadeBy(o)' = {i}
    /\ ReplyTo(o) = "pending" /\ ReplyTo(o)' \in {"ok", "unknown"}

\* The handlers pass on what RestCall promises of a POST: a Create makes one thing
\* at most, one that was refused or failed before its call makes none, not even
\* later, and success follows the effect.
KeepsThePromise(o) ==
  req[o].kind = "Create" =>
    /\ CreateCall(o)!Init
    /\ [][CreateCall(o)!Next \/ EffectAndReply(o)]_(CreateCall(o)!vars)

\* Ids that were not handed out have no maker, and a Create that succeeded has made
\* something.
PromiseInv ==
  /\ \A i \in Ids : i >= nextId => maker[i] = Nobody
  /\ \A o \in Ops :
       req[o].kind = "Create" /\ pc[o] = "done" /\ result[o].code = "ok" => Made(o)

LEMMA PromiseInit == Init => PromiseInv
BY DEF Init, PromiseInv

\* What is made stays made, by the same operation.
LEMMA StepMakers ==
  ASSUME TypeOK, Sound, PromiseInv, [Next]_vars
  PROVE  /\ \A i \in Ids : maker[i] # Nobody => maker'[i] = maker[i]
         /\ \A i \in Ids : i >= nextId' => maker'[i] = Nobody
<1>0. ServerTypes /\ nextId \in Nat
  BY SplitTypes, IdFacts DEF ServerTypes
<1> DEFINE Grown ==
      /\ \A i \in Ids : maker[i] # Nobody => maker'[i] = maker[i]
      /\ \A i \in Ids : i >= nextId' => maker'[i] = Nobody
<1>1. CASE UNCHANGED <<nextId, maker>>
  BY <1>1 DEF PromiseInv
<1>2. ASSUME NEW w, Execute(w) PROVE Grown
  <2>1. CASE w.verb = "POST"
    <3>1. /\ nextId \in Ids /\ maker' = [maker EXCEPT ![nextId] = w.op]
          /\ nextId' = nextId + 1
      BY <1>0, <1>2, <2>1, PostMakes DEF Execute
    <3>2. \A i \in Ids : i \in Nat /\ (maker[i] # Nobody => i < nextId)
      BY <1>0, IdFacts DEF PromiseInv
    <3> QED BY <1>0, <3>1, <3>2 DEF PromiseInv, ServerTypes
  <2>2. CASE w.verb # "POST"
    BY <1>1, <1>2, <2>2 DEF Execute
  <2> QED BY <2>1, <2>2
<1>3. ASSUME NEW o \in Ops, Accepted(o) \/ Attempt(o) \/ Unanswered(o) PROVE Grown
  <2>1. Execute(Submitted(o)) \/ UNCHANGED <<nextId, maker>>
    BY <1>3 DEF Accepted, Attempt, Unanswered, LeaveBehind, server
  <2> QED BY <1>1, <1>2, <2>1
<1>4. ASSUME NEW w \in stray, StrayArrives(w) PROVE Grown
  BY <1>1, <1>2, <1>4 DEF StrayArrives
<1> QED
  BY <1>1, <1>3, <1>4
     DEF Next, vars, server, Begin, Malformed, PollHits, PollMisses, NextPoll, ResolveFails,
         Refused, Read, ReadFails, Replicate, RemovedByUser, Terminated

\* What an operation reported stays reported; success is reported by an effect.
LEMMA StepEnds ==
  ASSUME TypeOK, Sound, [Next]_vars, NEW p \in Ops
  PROVE  /\ req' = req
         /\ pc[p] = "done" => pc'[p] = "done" /\ result'[p] = result[p]
         /\ pc[p] # "done" /\ pc'[p] = "done" /\ result'[p].code = "ok" /\ req[p].kind = "Create"
              => \E i \in Ids : maker'[i] = p
<1>0. OpTypes /\ ServerTypes
  BY SplitTypes
<1> DEFINE Fine ==
      /\ req' = req
      /\ pc[p] = "done" => pc'[p] = "done" /\ result'[p] = result[p]
      /\ pc[p] # "done" /\ pc'[p] = "done" /\ result'[p].code = "ok" /\ req[p].kind = "Create"
           => \E i \in Ids : maker'[i] = p
<1>1. CASE UNCHANGED <<req, pc, result>>
  BY <1>1
<1>2. ASSUME NEW o \in Ops, NEW l, pc[o] # "done", pc' = [pc EXCEPT ![o] = l], l # "done",
             UNCHANGED <<req, result>>
      PROVE  Fine
  BY <1>0, <1>2 DEF OpTypes
<1>3. ASSUME NEW o \in Ops, NEW code, NEW says, pc[o] # "done", Finish(o, code, says),
             UNCHANGED req, code = "ok" => req[o].kind # "Create"
      PROVE  Fine
  <2>1. CASE p = o
    <3>1. result'[p].code = code
      BY <1>0, <1>3, <2>1 DEF OpTypes, Finish
    <3> QED BY <1>3, <2>1, <3>1
  <2>2. CASE p # o
    BY <1>0, <1>3, <2>2 DEF OpTypes, Finish
  <2> QED BY <2>1, <2>2
<1>4. ASSUME NEW o \in Ops, Accepted(o) PROVE Fine
  <2>1. /\ Calling(o, {"Create", "Update", "Delete"}) /\ Execute(Submitted(o))
        /\ Finish(o, "ok", "") /\ UNCHANGED req /\ pc[o] # "done"
    BY <1>4 DEF Accepted, Succeed, Calling
  <2>2. CASE req[o].kind # "Create"
    BY <1>3, <2>1, <2>2
  <2>3. CASE req[o].kind = "Create"
    <3>1. Submitted(o).verb = "POST" /\ Submitted(o).op = o
      BY <1>0, <2>1, <2>3, SubmittedFacts
    <3>2. nextId \in Ids /\ maker' = [maker EXCEPT ![nextId] = o]
      BY <1>0, <2>1, <3>1, PostMakes
    <3>3. maker'[nextId] = o
      BY <1>0, <3>2 DEF ServerTypes
    <3> QED BY <1>0, <2>1, <3>2, <3>3 DEF OpTypes, Finish
  <2> QED BY <2>2, <2>3
<1>5. ASSUME NEW o \in Ops, Begin(o) PROVE Fine
  <2> DEFINE l == IF Resolves(req[o]) THEN "resolve" ELSE "call"
  <2>1. l # "done" /\ pc' = [pc EXCEPT ![o] = l] /\ pc[o] # "done" /\ UNCHANGED <<req, result>>
    BY <1>5 DEF Begin
  <2> HIDE DEF l
  <2> QED BY <1>2, <2>1
<1>6. ASSUME NEW o \in Ops, Malformed(o) PROVE Fine
  BY <1>3, <1>6 DEF Malformed, Succeed
<1>7. ASSUME NEW o \in Ops, NEW c \in Copies, PollHits(o, c) \/ PollMisses(o, c) PROVE Fine
  BY <1>2, <1>3, <1>7 DEF PollHits, PollMisses, NotVisible, GiveUp
<1>8. ASSUME NEW o \in Ops, NextPoll(o) PROVE Fine
  BY <1>2, <1>8 DEF NextPoll
<1>9. ASSUME NEW o \in Ops, ResolveFails(o) PROVE Fine
  BY <1>3, <1>9 DEF ResolveFails, GiveUp
<1>10. ASSUME NEW o \in Ops, Refused(o) PROVE Fine
  <2>1. UNCHANGED req /\ pc[o] # "done"
    BY <1>10 DEF Refused, Calling
  <2>2. PICK e \in Refusals :
          IF req[o].kind = "Delete" /\ IsNotFound(e)
          THEN Succeed(o) /\ Record(o)
          ELSE Finish(o, MapAPIError(e), "") /\ UNCHANGED history
    BY <1>10 DEF Refused
  <2>3. MapAPIError(e) # "ok"
    BY CodeFacts, CodesAreErrorCodes
  <2> QED BY <1>3, <2>1, <2>2, <2>3 DEF Succeed
<1>11. ASSUME NEW o \in Ops, Unanswered(o) PROVE Fine
  <2>1. PICK e \in Unknown : Finish(o, MapAPIError(e), "")
    BY <1>11 DEF Unanswered, ReportUnknown
  <2>2. MapAPIError(e) # "ok"
    BY UnknownCodes
  <2> QED BY <1>3, <1>11, <2>1, <2>2 DEF Unanswered, Calling
<1>12. ASSUME NEW o \in Ops, Read(o) \/ ReadFails(o) PROVE Fine
  <2>1. UNCHANGED req /\ pc[o] # "done" /\ req[o].kind # "Create"
    BY <1>12 DEF Read, ReadFails, Calling
  <2>2. \E code : Finish(o, code, "")
    BY <1>12 DEF Read, ReadFails, Succeed
  <2> QED BY <1>3, <2>1, <2>2
<1> QED
  BY <1>1, <1>4, <1>5, <1>6, <1>7, <1>8, <1>9, <1>10, <1>11, <1>12
     DEF Next, vars, Attempt, Replicate, StrayArrives, RemovedByUser, Terminated

LEMMA PromiseStep == TypeOK /\ Sound /\ PromiseInv /\ [Next]_vars => PromiseInv'
<1> SUFFICES ASSUME TypeOK, Sound, PromiseInv, [Next]_vars PROVE PromiseInv'
  OBVIOUS
<1>1. \A i \in Ids : i >= nextId' => maker'[i] = Nobody
  BY StepMakers
<1>2. ASSUME NEW o \in Ops, req'[o].kind = "Create", pc'[o] = "done", result'[o].code = "ok"
      PROVE  \E i \in Ids : maker'[i] = o
  <2>1. req[o].kind = "Create"
    BY <1>2, StepEnds
  <2>2. CASE pc[o] = "done"
    <3>1. result[o].code = "ok"
      BY <1>2, <2>2, StepEnds
    <3>2. PICK i \in Ids : maker[i] = o
      BY <2>1, <2>2, <3>1 DEF PromiseInv, Made
    <3> QED BY <3>2, StepMakers, ConstantsAssumption
  <2>3. CASE pc[o] # "done"
    BY <1>2, <2>1, <2>3, StepEnds
  <2> QED BY <2>2, <2>3
<1> QED BY <1>1, <1>2 DEF PromiseInv, Made


\* The cases of ReplyTo, before and after a step.
LEMMA ReplyCases ==
  ASSUME NEW o
  PROVE  /\ ReplyTo(o) = "pending" <=> pc[o] # "done"
         /\ ReplyTo(o) \in {"pending", "ok", "unknown", "rejected"}
         /\ ReplyTo(o)' \in {"pending", "ok", "unknown", "rejected"}
         /\ ReplyTo(o)' = "pending" <=> pc'[o] # "done"
         /\ ReplyTo(o)' = "ok" <=> pc'[o] = "done" /\ result'[o].code = "ok"
         /\ pc[o] = "done" /\ pc'[o] = "done" /\ result'[o] = result[o]
              => ReplyTo(o)' = ReplyTo(o)
         /\ pc[o] = "done" /\ (result[o].code = "ok" \/ UnknownResult(result[o]))
              => ReplyTo(o) \in {"ok", "unknown"}
         /\ pc'[o] = "done" /\ (result'[o].code = "ok" \/ UnknownResult(result'[o]))
              => ReplyTo(o)' \in {"ok", "unknown"}
BY DEF ReplyTo, UnknownResult

\* What a Create has made decides what it can have been told.
LEMMA MadeDecides ==
  ASSUME MakerInv, MakerInv', PromiseInv', NEW o \in Ops, req'[o].kind = "Create"
  PROVE  /\ \A i, j \in MadeBy(o)' : i = j
         /\ MadeBy(o) # {} => pc[o] = "done" /\ ReplyTo(o) \in {"ok", "unknown"}
         /\ MadeBy(o)' # {} => pc'[o] = "done" /\ ReplyTo(o)' \in {"ok", "unknown"}
         /\ ReplyTo(o)' = "ok" => MadeBy(o)' # {}
<1>1. \A i \in MadeBy(o) : i \in Ids /\ maker[i] = o /\ o # Nobody
  BY ConstantsAssumption DEF MadeBy
<1>2. \A i \in MadeBy(o)' : i \in Ids /\ maker'[i] = o /\ o # Nobody
  BY ConstantsAssumption DEF MadeBy
<1>3. \A i, j \in MadeBy(o)' : i = j
  BY <1>2 DEF MakerInv
<1>4. MadeBy(o) # {} => pc[o] = "done" /\ (result[o].code = "ok" \/ UnknownResult(result[o]))
  BY <1>1 DEF MakerInv
<1>5. MadeBy(o)' # {}
        => pc'[o] = "done" /\ (result'[o].code = "ok" \/ UnknownResult(result'[o]))
  BY <1>2 DEF MakerInv
<1>6. ReplyTo(o)' = "ok" => \E i \in Ids : maker'[i] = o
  BY ReplyCases DEF PromiseInv, Made
<1> QED BY <1>3, <1>4, <1>5, <1>6, ReplyCases DEF MadeBy

\* Every step of UserContacts is one of a Create's call, its effect and its reply
\* together, or leaves both as they are.
LEMMA CreateStep ==
  ASSUME TypeOK, Sound, MakerInv, MakerInv', PromiseInv, PromiseInv', [Next]_vars,
         NEW o \in Ops, req[o].kind = "Create"
  PROVE  [CreateCall(o)!Next \/ EffectAndReply(o)]_(CreateCall(o)!vars)
<1> DEFINE E == MadeBy(o)
           R == ReplyTo(o)
<1>1. E \subseteq E' /\ E' \subseteq Ids
  BY StepMakers, ConstantsAssumption DEF MadeBy
<1>2. req'[o].kind = "Create"
  BY StepEnds
<1>3. /\ \A i, j \in E' : i = j
      /\ E # {} => R \in {"ok", "unknown"}
      /\ E' # {} => R' \in {"ok", "unknown"}
      /\ R' = "ok" => E' # {}
  BY <1>2, MadeDecides
<1>4. R # "pending" => R' = R
  BY StepEnds, ReplyCases
<1>5. R \in {"pending", "ok", "unknown", "rejected"} /\ R' \in {"pending", "ok", "unknown", "rejected"}
  BY ReplyCases
<1>6. CASE E' = E /\ R' = R
  BY <1>6 DEF CreateCall!vars
<1>7. CASE E' # E
  <2>1. PICK i \in Ids : i \in E' \ E
    BY <1>1, <1>7
  <2>2. E = {} /\ E' = {i}
    BY <1>1, <1>3, <2>1
  <2>3. CASE R = "pending"
    BY <1>3, <2>2, <2>3 DEF EffectAndReply
  <2>4. CASE R # "pending"
    <3>1. R' = R /\ R # "rejected"
      BY <1>3, <1>4, <2>2, <2>4
    <3>2. CreateCall(o)!TakeEffect(i)
      BY <2>2, <3>1 DEF CreateCall!TakeEffect
    <3> QED BY <3>2 DEF CreateCall!Next
  <2> QED BY <2>3, <2>4
<1>8. CASE E' = E /\ R' # R
  <2>1. R = "pending" /\ E = {}
    BY <1>3, <1>4, <1>8
  <2>2. R' \in {"unknown", "rejected"}
    BY <1>3, <1>5, <1>8, <2>1
  <2>3. CreateCall(o)!ReplyUnknown \/ CreateCall(o)!ReplyRejected
    BY <1>8, <2>1, <2>2
       DEF CreateCall!ReplyUnknown, CreateCall!ReplyRejected, CreateCall!Answer
  <2> QED BY <2>3 DEF CreateCall!Next
<1> QED BY <1>6, <1>7, <1>8

\* A Create is one call of RestCall: it makes one thing at most, it makes none, not
\* even later, once formae was told that it was refused or that it failed before its
\* call, and formae is told of success only after the effect.
THEOREM CreatesAreCalls == ASSUME NEW o \in Ops PROVE Spec => KeepsThePromise(o)
<1> DEFINE Inv      == TypeOK /\ Sound /\ MakerInv /\ PromiseInv
           IsCreate == req[o].kind = "Create"
           Step     == CreateCall(o)!Next \/ EffectAndReply(o)
           Seen     == CreateCall(o)!vars
<1>1. Init => Inv /\ (IsCreate => CreateCall(o)!Init)
  <2>1. Init => CreateCall(o)!Init
    BY ConstantsAssumption DEF Init, CreateCall!Init, MadeBy, ReplyTo
  <2> QED BY <2>1, TypeInit, MakerInit, PromiseInit
<1>2. Inv /\ [Next]_vars => Inv'
  BY TypeStep, MakerStep, PromiseStep
<1>3. Inv /\ Inv' /\ IsCreate /\ [Next]_vars => [Step]_Seen
  BY CreateStep
<1>4. Inv /\ [Next]_vars => (IsCreate' <=> IsCreate)
  BY StepEnds
<1> HIDE DEF Inv, IsCreate, Step, Seen
<1>5. Spec /\ IsCreate => CreateCall(o)!Init /\ [][Step]_Seen
  BY <1>1, <1>2, <1>3, <1>4, PTL DEF Spec
<1> QED BY <1>5 DEF KeepsThePromise, IsCreate, Step, Seen
===============================================================================
