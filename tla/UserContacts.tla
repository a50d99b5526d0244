----------------------------- MODULE UserContacts -----------------------------
(***************************************************************************)
(* The contact methods of one user and the notification rules that page    *)
(* them: the handlers of pkg/handler/contact_method.go and                 *)
(* notification_rule.go, several operations at a time.                     *)
(*                                                                         *)
(* Both handlers have the shape of every handler that makes one API call   *)
(* per operation.  A rule needs one thing more: the API wants the concrete *)
(* type of the contact method next to its id, so Create and Update first   *)
(* poll for it (contactMethodTypeFor), from copies that lag, and send what *)
(* they found a while later.                                               *)
(*                                                                         *)
(* Every call is a RestCall: a POST is executed at most once and not at    *)
(* all when it was refused; a PUT or DELETE may be executed again later.   *)
(* Ids are the server's and are never used twice.                          *)
(***************************************************************************)
EXTENDS Integers, FiniteSets, ApiErrors

CONSTANTS
  Types,       \* types of contact methods
  Ops,         \* operations
  Requests,    \* what they may be asked to do
  InitMethods, \* contact methods that exist at first: ids to types
  Primary,     \* the copy that executes writes
  Replicas,    \* the copies that lag behind it
  Polls,       \* attempts of retryUntilReadable
  MaxId,       \* bound on the ids the server hands out
  MaxStrays    \* bound on abandoned attempts under way

NoId   == 0             \* an id that is missing, or a native id that does not split
NoType == "no type"     \* the zero value of cm.Type
Nobody == "nobody"

Ids    == 1 .. MaxId
Copies == Replicas \union {Primary}
Kinds  == {"Create", "Read", "Update", "Delete"}
Named  == {"method", "rule"} \X Ids     \* what formae has a native id for

\* A contact method has a type; a rule names a method and the type it has been
\* told the method has.
Thing   == [of : {"method"}, type : Types, method : {NoId}]
             \union [of : {"rule"}, type : Types \union {NoType}, method : Ids \union {NoId}]
Nothing == [of |-> "nothing", type |-> NoType, method |-> NoId]
Method(t)  == [of |-> "method", type |-> t, method |-> NoId]
Rule(t, m) == [of |-> "rule", type |-> t, method |-> m]

Request == [kind : Kinds, of : {"method", "rule"}, id : Ids \union {NoId},
            type : Types \union {NoType}, method : Ids \union {NoId}]

\* By the schema every contact method asked for has a methodType
\* (schema/pkl/core/contact_method.pkl:44).
ASSUME ConstantsAssumption ==
  /\ NoType \notin Types /\ Nobody \notin Ops
  /\ Requests \subseteq Request
  /\ \A r \in Requests : r.of = "method" /\ r.kind = "Update" => r.type # NoType
  /\ InitMethods \in UNION {[1 .. n -> Types] : n \in 0 .. MaxId}
  /\ Primary \notin Replicas
  /\ Polls \in Nat \ {0} /\ MaxId \in Nat /\ MaxStrays \in Nat

VARIABLES
  view,     \* each copy's view of what exists under the user
  nextId,   \* the id of the next new thing
  stray,    \* abandoned writes the server may still execute
  req,      \* what each operation was asked to do
  pc,       \* where each operation is
  poll,     \* polls of the contact method so far
  cmType,   \* what contactMethodTypeFor returned
  result,   \* what each operation reported
  known,    \* the things formae has on record
  shown,    \* history: the types any copy showed of the rule's method since the operation began
  lacked,   \* history: some copy was without that method since then
  maker,    \* history: the operation whose Create made a thing
  deleted   \* history: the things whose Delete succeeded

server  == <<view, nextId, stray, shown, lacked, maker>>
history == <<known, deleted>>
vars    == <<server, req, pc, poll, cmType, result, history>>

None == [code |-> "none", says |-> ""]

TypeOK ==
  /\ view \in [Copies -> [Ids -> Thing \union {Nothing}]]
  /\ nextId \in 1 .. MaxId + 1
  /\ stray \subseteq [verb : {"POST", "PUT", "DELETE"}, of : {"method", "rule"},
                      id : Ids \union {NoId}, thing : Thing \union {Nothing}, op : Ops]
  /\ req \in [Ops -> Requests]
  /\ pc \in [Ops -> {"idle", "resolve", "wait", "call", "done"}]
  /\ poll \in [Ops -> 0 .. Polls]
  /\ cmType \in [Ops -> Types \union {NoType}]
  /\ result \in [Ops -> [code : {"none", "ok"} \union ErrorCodes,
                         says : {"", "resolve contact method type", "not visible after retries"}]]
  /\ known \subseteq Named
  /\ shown \in [Ops -> SUBSET Types]
  /\ lacked \in [Ops -> BOOLEAN]
  /\ maker \in [Ids -> Ops \union {Nobody}]
  /\ deleted \subseteq Named

Init ==
  /\ view = [c \in Copies |-> [i \in Ids |->
              IF i \in DOMAIN InitMethods THEN Method(InitMethods[i]) ELSE Nothing]]
  /\ nextId = Cardinality(DOMAIN InitMethods) + 1
  /\ stray = {}
  /\ req \in [Ops -> Requests]
  /\ pc = [o \in Ops |-> "idle"]
  /\ poll = [o \in Ops |-> 0]
  /\ cmType = [o \in Ops |-> NoType]
  /\ result = [o \in Ops |-> None]
  /\ known = {<<"method", i>> : i \in DOMAIN InitMethods}
  /\ shown = [o \in Ops |-> {}]
  /\ lacked = [o \in Ops |-> FALSE]
  /\ maker = [i \in Ids |-> Nobody]
  /\ deleted = {}

-----------------------------------------------------------------------------
(* The server. *)

Has(c, of, i) == i \in Ids /\ view[c][i].of = of
Active(o)     == pc[o] \notin {"idle", "done"}

TypesShown(v, i) ==
  {v[c][i].type : c \in {d \in Copies : i \in Ids /\ v[d][i].of = "method"}}

Lacks(v, i) == i \notin Ids \/ \E c \in Copies : v[c][i].of # "method"

\* Every rule operation under way sees what becomes of its contact method.
Show(v) ==
  /\ view' = v
  /\ shown' = [o \in Ops |->
       IF Active(o) THEN shown[o] \union TypesShown(v, req[o].method) ELSE shown[o]]
  /\ lacked' = [o \in Ops |-> lacked[o] \/ (Active(o) /\ Lacks(v, req[o].method))]

Store(i, x) == Show([view EXCEPT ![Primary][i] = x])

\* A rule needs its contact method; a PUT or DELETE needs what it names.
Acceptable(w) ==
  /\ w.verb = "POST" \/ Has(Primary, w.of, w.id)
  /\ w.verb # "DELETE" /\ w.of = "rule" => Has(Primary, "method", w.thing.method)

\* What a write does, now or when a stray one arrives.
Execute(w) ==
  /\ Acceptable(w)
  /\ \/ /\ w.verb = "POST"
        /\ nextId <= MaxId
        /\ Store(nextId, w.thing)
        /\ nextId' = nextId + 1
        /\ maker' = [maker EXCEPT ![nextId] = w.op]
     \/ /\ w.verb # "POST"
        /\ Store(w.id, w.thing)
        /\ UNCHANGED <<nextId, maker>>

LeaveBehind(w) ==
  /\ Cardinality(stray \union {w}) <= MaxStrays
  /\ stray' = stray \union {w}
  /\ UNCHANGED <<view, nextId, shown, lacked, maker>>

-----------------------------------------------------------------------------
(* Results. *)

Finish(o, code, says) ==
  /\ pc' = [pc EXCEPT ![o] = "done"]
  /\ result' = [result EXCEPT ![o] = [code |-> code, says |-> says]]

Succeed(o) == Finish(o, "ok", "")

WellFormed(r) ==
  IF r.kind # "Create" THEN r.id # NoId
  ELSE IF r.of = "rule" THEN r.method # NoId ELSE r.type # NoType

\* formae asks only for what it has on record.
OnRecord(r) ==
  /\ r.kind # "Create" => <<r.of, r.id>> \in known
  /\ r.method # NoId => <<"method", r.method>> \in known

Resolves(r) == r.of = "rule" /\ r.kind \in {"Create", "Update"}

Begin(o) ==
  /\ pc[o] = "idle"
  /\ WellFormed(req[o]) /\ OnRecord(req[o])
  /\ pc' = [pc EXCEPT ![o] = IF Resolves(req[o]) THEN "resolve" ELSE "call"]
  /\ poll' = [poll EXCEPT ![o] = IF Resolves(req[o]) THEN 1 ELSE 0]
  /\ shown' = [shown EXCEPT ![o] = TypesShown(view, req[o].method)]
  /\ lacked' = [lacked EXCEPT ![o] = Lacks(view, req[o].method)]
  /\ UNCHANGED <<view, nextId, stray, maker, req, cmType, result, history>>

\* A native id that does not split, or a Create without a required field: only a
\* Delete takes it for "already gone".
Malformed(o) ==
  /\ pc[o] = "idle"
  /\ ~WellFormed(req[o])
  /\ IF req[o].kind = "Delete" THEN Succeed(o) ELSE Finish(o, "InvalidRequest", "")
  /\ UNCHANGED <<server, req, poll, cmType, history>>

-----------------------------------------------------------------------------
(* contactMethodTypeFor. *)

\* Any error while resolving is reported the same way.
GiveUp(o, says) == Finish(o, "InternalFailure", says)

\* The contact method is visible at copy c, with the type it has there.
PollHits(o, c) ==
  /\ pc[o] = "resolve"
  /\ Has(c, "method", req[o].method)
  /\ cmType' = [cmType EXCEPT ![o] = view[c][req[o].method].type]
  /\ pc' = [pc EXCEPT ![o] = "call"]
  /\ UNCHANGED <<server, req, poll, result, history>>

\* Mutant: the zero value of the type is taken for a type.
NotVisibleIgnored(o) == pc' = [pc EXCEPT ![o] = "call"] /\ UNCHANGED result

NotVisible(o) == GiveUp(o, "not visible after retries")

\* Mutant: the attempts are not counted.
NeverLastPoll(o) == poll[o] > Polls

\* Mutant: the loop stops one attempt early.
LastPollOneEarly(o) == poll[o] + 1 >= Polls

LastPoll(o) == poll[o] = Polls

PollMisses(o, c) ==
  /\ pc[o] = "resolve"
  /\ ~Has(c, "method", req[o].method)
  /\ IF LastPoll(o)
     THEN NotVisible(o)
     ELSE pc' = [pc EXCEPT ![o] = "wait"] /\ UNCHANGED result
  /\ UNCHANGED <<server, req, poll, cmType, history>>

NextPoll(o) ==
  /\ pc[o] = "wait"
  /\ pc' = [pc EXCEPT ![o] = "resolve"]
  /\ poll' = [poll EXCEPT ![o] = @ + 1]
  /\ UNCHANGED <<server, req, cmType, result, history>>

\* The poll fails, or the context is done during the wait.
ResolveFails(o) ==
  /\ pc[o] \in {"resolve", "wait"}
  /\ GiveUp(o, "resolve contact method type")
  /\ UNCHANGED <<server, req, poll, cmType, history>>

-----------------------------------------------------------------------------
(* The API call. *)

Verb(kind) ==
  CASE kind = "Create" -> "POST" [] kind = "Update" -> "PUT" [] kind = "Delete" -> "DELETE"

\* toSDK, with the type as resolved.
ToSDK(o) ==
  IF req[o].kind = "Delete" THEN Nothing
  ELSE IF req[o].of = "method" THEN Method(req[o].type)
  ELSE Rule(cmType[o], req[o].method)

Submitted(o) ==
  [verb |-> Verb(req[o].kind), of |-> req[o].of, id |-> req[o].id, thing |-> ToSDK(o), op |-> o]

Calling(o, kinds) == pc[o] = "call" /\ req[o].kind \in kinds

\* formae records what a Create made and forgets what a Delete removed.
Record(o) ==
  LET made == IF req[o].kind = "Create" THEN nextId ELSE req[o].id
      it   == <<req[o].of, made>>
  IN  /\ known' = IF req[o].kind = "Delete" THEN known \ {it} ELSE known \union {it}
      /\ deleted' = IF req[o].kind = "Delete" THEN deleted \union {it} ELSE deleted

Accepted(o) ==
  /\ Calling(o, {"Create", "Update", "Delete"})
  /\ Execute(Submitted(o))
  /\ Succeed(o)
  /\ Record(o)
  /\ UNCHANGED <<stray, req, poll, cmType>>

\* An attempt of a repeatable call without an answer that settles it: executed,
\* or still to be.
Attempt(o) ==
  /\ Calling(o, {"Update", "Delete"})
  /\ (Execute(Submitted(o)) /\ UNCHANGED stray) \/ LeaveBehind(Submitted(o))
  /\ UNCHANGED <<req, pc, poll, cmType, result, history>>

\* A refused call has no effect.  Only a Delete makes a 404 a success.
Refused(o) ==
  /\ Calling(o, {"Create", "Update", "Delete"})
  /\ \E e \in Refusals :
       /\ e = NotThere => ~Acceptable(Submitted(o))
       /\ IF req[o].kind = "Delete" /\ IsNotFound(e)
          THEN Succeed(o) /\ Record(o)
          ELSE Finish(o, MapAPIError(e), "") /\ UNCHANGED history
  /\ UNCHANGED <<server, req, poll, cmType>>

\* Mutant: a Create whose outcome is unknown is tried again by the handler.
TryAgain(o, e) ==
  IF req[o].kind = "Create"
  THEN UNCHANGED <<pc, result>>
  ELSE Finish(o, MapAPIError(e), "")

ReportUnknown(o, e) == Finish(o, MapAPIError(e), "")

\* The retries are spent, or a POST that must not be repeated was cut off: it may
\* have been executed, be executed later, or never.
Unanswered(o) ==
  /\ Calling(o, {"Create", "Update", "Delete"})
  /\ \/ UNCHANGED server
     \/ /\ req[o].kind = "Create"
        /\ (Execute(Submitted(o)) /\ UNCHANGED stray) \/ LeaveBehind(Submitted(o))
  /\ \E e \in Unknown : ReportUnknown(o, e)
  /\ UNCHANGED <<req, poll, cmType, history>>

\* A GET, answered by any copy.
Read(o) ==
  /\ Calling(o, {"Read"})
  /\ \E c \in Copies : IF Has(c, req[o].of, req[o].id) THEN Succeed(o) ELSE Finish(o, "NotFound", "")
  /\ UNCHANGED <<server, req, poll, cmType, history>>

ReadFails(o) ==
  /\ Calling(o, {"Read"})
  /\ \E e \in Unknown \union {Throttled} : Finish(o, MapAPIError(e), "")
  /\ UNCHANGED <<server, req, poll, cmType, history>>

-----------------------------------------------------------------------------
(* The server's own steps, and others. *)

Replicate(c) ==
  /\ view[c] # view[Primary]
  /\ Show([view EXCEPT ![c] = view[Primary]])
  /\ UNCHANGED <<nextId, stray, maker, req, pc, poll, cmType, result, history>>

StrayArrives(w) ==
  /\ Execute(w) \/ (~Acceptable(w) /\ UNCHANGED <<view, nextId, shown, lacked, maker>>)
  /\ stray' = stray \ {w}
  /\ UNCHANGED <<req, pc, poll, cmType, result, history>>

\* The user removes something in PagerDuty.
RemovedByUser(i) ==
  /\ view[Primary][i] # Nothing
  /\ Store(i, Nothing)
  /\ UNCHANGED <<nextId, stray, maker, req, pc, poll, cmType, result, history>>

\* Nothing is left to do, or to ask for.
Terminated == (\A o \in Ops : ~Active(o)) /\ UNCHANGED vars

Next ==
  \/ \E o \in Ops : Begin(o)
  \/ \E o \in Ops : Malformed(o)
  \/ \E o \in Ops, c \in Copies : PollHits(o, c)
  \/ \E o \in Ops, c \in Copies : PollMisses(o, c)
  \/ \E o \in Ops : NextPoll(o)
  \/ \E o \in Ops : ResolveFails(o)
  \/ \E o \in Ops : Accepted(o)
  \/ \E o \in Ops : Attempt(o)
  \/ \E o \in Ops : Refused(o)
  \/ \E o \in Ops : Unanswered(o)
  \/ \E o \in Ops : Read(o)
  \/ \E o \in Ops : ReadFails(o)
  \/ \E c \in Replicas : Replicate(c)
  \/ \E w \in stray : StrayArrives(w)
  \/ \E i \in Ids : RemovedByUser(i)
  \/ Terminated

Spec == Init /\ [][Next]_vars

-----------------------------------------------------------------------------
(* Properties. *)

\* A Create makes one thing at most, which formae has on record if the Create
\* succeeded; a thing formae has no record of can only come from a Create whose
\* call broke off or met a server error, never from one that was refused or that
\* failed before its call.
OrphanOnlyAfterUnknown ==
  \A i \in Ids :
    maker[i] # Nobody =>
      LET o == maker[i]
      IN  /\ \A j \in Ids \ {i} : maker[j] # o
          /\ pc[o] = "done" =>
               \/ result[o].code = "ok" /\ <<req[o].of, i>> \in known \union deleted
               \/ result[o].code \in {"ServiceInternalError", "InternalFailure"}
                  /\ result[o].says = ""

\* The type a rule is sent with is one that the contact method had at some copy
\* since the operation began: never the empty one, and never older than that.
ResolvedTypeWasShown ==
  \A o \in Ops : pc[o] = "call" /\ Resolves(req[o]) => cmType[o] \in shown[o]

\* A rule fails for a contact method that is "not visible after retries" only
\* after every poll was made, and only if some copy was without it.
NotVisibleAfterAllPolls ==
  \A o \in Ops : result[o].says = "not visible after retries" => poll[o] = Polls /\ lacked[o]

\* What a Delete reported gone is gone, and no late write brings it back.
DeletedStaysGone == \A it \in deleted : view[Primary][it[2]] = Nothing
===============================================================================
