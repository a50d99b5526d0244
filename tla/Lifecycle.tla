------------------------------ MODULE Lifecycle ------------------------------
(***************************************************************************)
(* The life of one resource whose handler makes one API call for each      *)
(* operation: a user, team, service, integration, escalation policy,       *)
(* maintenance window, schedule or schedule override.  formae creates it,  *)
(* reads, updates and deletes it by the native id it was given, and may    *)
(* create it again whenever it has no record of it: after an error,        *)
(* whatever the code, after a Delete, or after a Read that did not find    *)
(* it.  Others edit and remove things meanwhile.                           *)
(*                                                                         *)
(* Writes are executed at Primary; what a Create refers to may not be      *)
(* visible yet at the copy that checks it, and a read may be answered by a *)
(* copy that lags behind.  Every call is a RestCall: a POST is executed at *)
(* most once and not at all when it was refused; a PUT or DELETE may be    *)
(* executed again later.  Ids are the server's and are never used twice.   *)
(***************************************************************************)
EXTENDS Integers, Sequences, FiniteSets, ApiErrors

CONSTANTS
  Values,       \* what the fields of the resource may hold
  Parent,       \* id of what it is nested in or refers to
  Primary,      \* the copy that executes writes
  Replicas,     \* the copies that lag behind it
  MaxId,        \* bound on the ids the server hands out
  MaxStrays,    \* bound on abandoned attempts under way
  MaxCalls,     \* bound on the Creates that succeeded or whose outcome is unknown
  LookBehind,   \* overrideLookbehindYears
  LookAhead,    \* overrideLookaheadYears
  Instants,     \* when a resource with times may take place
  EndOfTime,    \* bound on the clock
  NoRecord      \* formae has no record of the resource

Incomplete == "incomplete"  \* a forma without a required field
Absent     == "absent"
NoParent   == ""            \* a serviceId or scheduleId that is missing
Timeless   == 0

Ids    == 1 .. MaxId
Calls  == 1 .. MaxCalls
Copies == Replicas \union {Primary}

\* How a time is written: in UTC, with an offset, or so that it does not parse.
Zones  == {"Z", "offset", "unparsable"}

NativeId == [parent : {Parent, NoParent}, child : Ids]
Record   == [id : NativeId, value : Values, zone : Zones]

\* The codes that leave open what became of a call.
Inconclusive == {"ServiceInternalError", "InternalFailure"}

ASSUME ConstantsAssumption ==
  /\ Values # {} /\ Absent \notin Values /\ Incomplete \notin Values
  /\ Parent # NoParent /\ NoRecord \notin Record
  /\ Primary \notin Replicas
  /\ {MaxId, MaxStrays, MaxCalls, LookBehind, LookAhead, EndOfTime} \subseteq Nat
  /\ Instants \subseteq Int /\ Instants # {}

-----------------------------------------------------------------------------
(* The handlers.  Their operations are the actions below; they differ only *)
(* in whether the resource is nested in its parent and found by a composite*)
(* id, refers to others, has times, and is read through the list of        *)
(* overrides.  Of a schedule the value stands for what is not its layers:  *)
(* those are ScheduleUpdate's.                                             *)

Handler(nested, refers, timed, windowed) ==
  [nested |-> nested, refers |-> refers, timed |-> timed, windowed |-> windowed]

User              == Handler(FALSE, FALSE, FALSE, FALSE)
Team              == Handler(FALSE, FALSE, FALSE, FALSE)
Service           == Handler(FALSE, TRUE, FALSE, FALSE)
EscalationPolicy  == Handler(FALSE, TRUE, FALSE, FALSE)
Schedule          == Handler(FALSE, TRUE, FALSE, FALSE)
MaintenanceWindow == Handler(FALSE, TRUE, TRUE, FALSE)
Integration       == Handler(TRUE, TRUE, FALSE, FALSE)
ScheduleOverride  == Handler(TRUE, TRUE, TRUE, TRUE)

Handlers ==
  {User, Team, Service, EscalationPolicy, Schedule, MaintenanceWindow, Integration, ScheduleOverride}

\* Every field of an override is createOnly: its Update refuses without a call.
Mutable(h) == ~h.windowed

VARIABLES
  handler,   \* the handler of the resource
  wanted,    \* what the forma asks for
  at,        \* when it takes place
  ref,       \* at which copies its parent is visible
  store,     \* each copy's view of the resources made
  nextId,    \* the id of the next one
  stray,     \* abandoned writes the server may still execute
  now,       \* the time
  record,    \* what formae has on record of the resource
  answer,    \* what formae was told by its last Create
  told,      \* history: what it was told by the Creates that may have made something
  maker,     \* history: which of those made a resource, 0 for none
  overlooked,\* history: the resources a Read did not find where they may not be seen
  gone       \* history: the resources a Delete reported gone

rigid   == <<handler, wanted, at>>
server  == <<ref, store, nextId, stray, maker>>
heard   == <<answer, told>>
vars    == <<rigid, server, now, record, heard, overlooked, gone>>

\* A POST carries the number of the Create it belongs to.
Write ==
  [verb : {"POST"}, id : Calls, value : Values]
    \union [verb : {"PUT", "DELETE"}, id : Ids, value : Values \union {Absent}]

Told == {s \in Seq({"Success"} \union Inconclusive) : Len(s) <= MaxCalls}

\* A record always holds what splitNativeID needs, and of its times none that
\* parses has an offset.
TypeOK ==
  /\ handler \in Handlers
  /\ wanted \in Values \union {Incomplete}
  /\ at \in Instants \union {Timeless}
  /\ ref \in [Copies -> BOOLEAN]
  /\ store \in [Copies -> [Ids -> Values \union {Absent}]]
  /\ nextId \in 1 .. MaxId + 1
  /\ stray \subseteq Write
  /\ now \in 0 .. EndOfTime
  /\ record \in Record \union {NoRecord}
  /\ record # NoRecord =>
       record.zone # "offset" /\ record.id.parent = IF handler.nested THEN Parent ELSE NoParent
  /\ answer \in {"none", "Success"} \union ErrorCodes
  /\ told \in Told
  /\ maker \in [Ids -> Calls \union {0}]
  /\ overlooked \subseteq Ids /\ gone \subseteq Ids

Init ==
  /\ handler \in Handlers
  /\ wanted \in Values \union {Incomplete}
  /\ at \in IF handler.timed THEN Instants ELSE {Timeless}
  /\ ref \in {r \in [Copies -> BOOLEAN] : r[Primary]}
  /\ store = [c \in Copies |-> [i \in Ids |-> Absent]]
  /\ nextId = 1
  /\ stray = {}
  /\ now = 0
  /\ record = NoRecord
  /\ answer = "none" /\ told = <<>>
  /\ maker = [i \in Ids |-> 0]
  /\ overlooked = {} /\ gone = {}

-----------------------------------------------------------------------------
(* The server. *)

PostOf(n)    == [verb |-> "POST", id |-> n, value |-> wanted]
PutOf(i, v)  == [verb |-> "PUT", id |-> i, value |-> v]
DeleteOf(i)  == [verb |-> "DELETE", id |-> i, value |-> Absent]

Exists(c, i) == store[c][i] # Absent

\* A POST needs the parent, a PUT or DELETE what it names.
Acceptable(w) ==
  IF w.verb = "POST" THEN ref[Primary] \/ ~handler.refers ELSE Exists(Primary, w.id)

Execute(w) ==
  /\ Acceptable(w)
  /\ \/ /\ w.verb = "POST" /\ nextId <= MaxId
        /\ store' = [store EXCEPT ![Primary][nextId] = w.value]
        /\ nextId' = nextId + 1
        /\ maker' = [maker EXCEPT ![nextId] = w.id]
     \/ /\ w.verb # "POST"
        /\ store' = [store EXCEPT ![Primary][w.id] = w.value]
        /\ UNCHANGED <<nextId, maker>>
  /\ UNCHANGED ref

LeaveBehind(w) ==
  /\ Cardinality(stray \union {w}) <= MaxStrays
  /\ stray' = stray \union {w}

\* A repeatable call that succeeds may have left another attempt on the wire.
Repeat(w) == UNCHANGED stray \/ LeaveBehind(w)

\* What a call without an answer may have done.
MaybeExecuted(w) ==
  \/ UNCHANGED server
  \/ Execute(w) /\ UNCHANGED stray
  \/ LeaveBehind(w) /\ UNCHANGED <<ref, store, nextId, maker>>

-----------------------------------------------------------------------------
(* Native ids and times. *)

Composite(i) == [parent |-> IF handler.nested THEN Parent ELSE NoParent, child |-> i]

\* Mutant: the id is composed with the serviceId of the desired state.
UpdatedFrom(desired) == desired

UpdatedOf(desired) == record.id.parent

\* splitNativeID; an id that is not composite needs no splitting.
Splits(id) == handler.nested => id.parent # NoParent

\* Mutant: a time is put on record as the endpoint wrote it.
AsGiven(zone) == zone

\* What does not parse is left as it is.
ToUTC(zone) == IF zone = "offset" THEN "Z" ELSE zone

Written == IF handler.timed THEN Zones ELSE {"Z"}

-----------------------------------------------------------------------------
(* Create. *)

Tell(code) ==
  /\ answer' = code
  /\ told' = IF code \in {"Success"} \union Inconclusive THEN Append(told, code) ELSE told

CreateInvalid ==
  /\ record = NoRecord /\ wanted = Incomplete
  /\ Tell("InvalidRequest")
  /\ UNCHANGED <<rigid, server, now, record, overlooked, gone>>

Creating == record = NoRecord /\ wanted # Incomplete /\ Len(told) < MaxCalls

Post == PostOf(Len(told) + 1)

\* Every copy that is asked for what the resource refers to has it.
Create ==
  /\ Creating
  /\ Execute(Post) /\ UNCHANGED stray
  /\ \E z \in Written : record' = [id |-> Composite(nextId), value |-> wanted, zone |-> ToUTC(z)]
  /\ Tell("Success")
  /\ UNCHANGED <<rigid, now, overlooked, gone>>

\* The copy that checks the reference does not see it, or it is nowhere any more.
ReferenceNotVisible(c) ==
  /\ Creating /\ handler.refers /\ ~ref[c]
  /\ \E e \in {BadReference, NotThere} : (e = NotThere => handler.nested) /\ Tell(MapAPIError(e))
  /\ UNCHANGED <<rigid, server, now, record, overlooked, gone>>

CreateRefused ==
  /\ Creating
  /\ \E e \in {Throttled, BadRequest} : Tell(MapAPIError(e))
  /\ UNCHANGED <<rigid, server, now, record, overlooked, gone>>

CreateUnanswered ==
  /\ Creating
  /\ MaybeExecuted(Post)
  /\ \E e \in Unknown : Tell(MapAPIError(e))
  /\ UNCHANGED <<rigid, now, record, overlooked, gone>>

-----------------------------------------------------------------------------
(* Read.  One that fails changes nothing on record. *)

InWindow == now - LookBehind <= at /\ at <= now + LookAhead

\* "only those set beyond the window won't be read back", the comment of
\* overrideListWindow.
BeyondWindow == handler.windowed /\ (at < now - LookBehind \/ at > now + LookAhead)

\* What a copy answers: with a GET by id, or a list of overrides to search.
Found(c, i) ==
  /\ Exists(c, i)
  /\ handler.windowed => InWindow

ReadHits(c) ==
  /\ record # NoRecord /\ Splits(record.id) /\ Found(c, record.id.child)
  /\ \E z \in Written :
       record' = [record EXCEPT !.value = store[c][record.id.child], !.zone = ToUTC(z)]
  /\ UNCHANGED <<rigid, server, now, heard, overlooked, gone>>

\* A resource that is reported NotFound is dropped from the record.
ReadMisses(c) ==
  /\ record # NoRecord /\ Splits(record.id) /\ ~Found(c, record.id.child)
  /\ record' = NoRecord
  /\ overlooked' =
       overlooked \union IF ~Exists(c, record.id.child) \/ BeyondWindow THEN {record.id.child} ELSE {}
  /\ UNCHANGED <<rigid, server, now, heard, gone>>

-----------------------------------------------------------------------------
(* Update.  One that is refused changes nothing. *)

Update(v, desired) ==
  /\ record # NoRecord /\ Splits(record.id) /\ Mutable(handler)
  /\ Execute(PutOf(record.id.child, v)) /\ Repeat(PutOf(record.id.child, v))
  /\ \E z \in Written :
       record' = [id |-> [parent |-> UpdatedOf(desired), child |-> record.id.child],
                  value |-> v, zone |-> ToUTC(z)]
  /\ UNCHANGED <<rigid, now, heard, overlooked, gone>>

UpdateUnanswered(v) ==
  /\ record # NoRecord /\ Splits(record.id) /\ Mutable(handler)
  /\ MaybeExecuted(PutOf(record.id.child, v))
  /\ UNCHANGED <<rigid, now, record, heard, overlooked, gone>>

-----------------------------------------------------------------------------
(* Delete. *)

ReportGone ==
  /\ record' = NoRecord
  /\ gone' = gone \union {record.id.child}
  /\ UNCHANGED <<rigid, now, heard, overlooked>>

\* "Malformed nativeID for a Delete is treated as already-gone": TypeOK says that
\* no record ever holds one.
Delete ==
  /\ record # NoRecord
  /\ LET d == DeleteOf(record.id.child)
     IN  IF Splits(record.id) THEN Execute(d) /\ Repeat(d) ELSE UNCHANGED server
  /\ ReportGone

\* A refused Delete is a success if the error says that nothing is there.
DeleteRefused ==
  /\ record # NoRecord /\ Splits(record.id)
  /\ \E e \in {Throttled, NotThere, BadReference} :
       /\ e = NotThere => ~Acceptable(DeleteOf(record.id.child))
       /\ IsNotFound(e)
  /\ ReportGone
  /\ UNCHANGED server

DeleteUnanswered ==
  /\ record # NoRecord /\ Splits(record.id)
  /\ MaybeExecuted(DeleteOf(record.id.child))
  /\ UNCHANGED <<rigid, now, record, heard, overlooked, gone>>

-----------------------------------------------------------------------------
(* The server's own steps, others, and time. *)

Replicate(c) ==
  /\ <<ref[c], store[c]>> # <<ref[Primary], store[Primary]>>
  /\ ref' = [ref EXCEPT ![c] = ref[Primary]]
  /\ store' = [store EXCEPT ![c] = store[Primary]]
  /\ UNCHANGED <<rigid, nextId, stray, maker, now, record, heard, overlooked, gone>>

StrayArrives(w) ==
  /\ Execute(w) \/ (~Acceptable(w) /\ UNCHANGED <<ref, store, nextId, maker>>)
  /\ stray' = stray \ {w}
  /\ UNCHANGED <<rigid, now, record, heard, overlooked, gone>>

\* Somebody else edits or removes the resource.
ForeignWrite(i, v) ==
  /\ Exists(Primary, i)
  /\ store' = [store EXCEPT ![Primary][i] = v]
  /\ UNCHANGED <<rigid, ref, nextId, stray, maker, now, record, heard, overlooked, gone>>

\* The parent is removed, and with it what is nested in it.
RemoveParent ==
  /\ handler.refers /\ ref[Primary]
  /\ ref' = [ref EXCEPT ![Primary] = FALSE]
  /\ store' = IF handler.nested THEN [store EXCEPT ![Primary] = [i \in Ids |-> Absent]] ELSE store
  /\ UNCHANGED <<rigid, nextId, stray, maker, now, record, heard, overlooked, gone>>

Tick ==
  /\ now < EndOfTime
  /\ now' = now + 1
  /\ UNCHANGED <<rigid, server, record, heard, overlooked, gone>>

Next ==
  \/ CreateInvalid
  \/ Create
  \/ \E c \in Copies : ReferenceNotVisible(c)
  \/ CreateRefused
  \/ CreateUnanswered
  \/ \E c \in Copies : ReadHits(c)
  \/ \E c \in Copies : ReadMisses(c)
  \/ \E v \in Values, desired \in {Parent, NoParent} : Update(v, desired)
  \/ \E v \in Values : UpdateUnanswered(v)
  \/ Delete
  \/ DeleteRefused
  \/ DeleteUnanswered
  \/ \E c \in Replicas : Replicate(c)
  \/ \E w \in stray : StrayArrives(w)
  \/ \E i \in Ids, v \in Values \union {Absent} : ForeignWrite(i, v)
  \/ RemoveParent
  \/ Tick

Spec == Init /\ [][Next]_vars

-----------------------------------------------------------------------------
(* Properties. *)

Made == {i \in Ids : maker[i] # 0}

InDoubt(n) == n \in DOMAIN told /\ told[n] # "Success"

\* However often formae calls Create again, after whatever error, and whenever an
\* abandoned attempt arrives: for every resource there is a Create that formae was
\* told has succeeded or has an unknown outcome, and no Create makes two.  A
\* Create that was told anything else made nothing and may be driven again.
OneResourcePerAnswer ==
  \A i \in Made :
    /\ maker[i] \in DOMAIN told
    /\ \A j \in Made : maker[i] = maker[j] => i = j

\* No operation loses a resource silently.  Whatever its Creates made and still
\* exists formae has on record, unless it was told that the outcome was unknown,
\* or a Read did not find it at a copy that was without it or since it is an
\* override beyond the window.  Every way a handler ends an operation counts: a
\* Delete that takes an error for success, a native id that no longer splits and
\* is "treated as already-gone", a list that leaves out what it should show.
NoSilentOrphans ==
  \A i \in Made :
    Exists(Primary, i) =>
      \/ record # NoRecord /\ record.id.child = i
      \/ InDoubt(maker[i])
      \/ i \in overlooked

\* What a Delete reported gone is gone, and no late write brings it back.
DeletedStaysGone == \A i \in gone : ~Exists(Primary, i)

\* The strengthening of OneResourcePerAnswer: an attempt on the wire belongs to a
\* Create of an unknown outcome, which has made nothing yet.
CreateInv ==
  /\ \A i \in Made : i < nextId
  /\ \A w \in stray :
       w.verb = "POST" => w = PostOf(w.id) /\ InDoubt(w.id) /\ \A i \in Made : maker[i] # w.id
  /\ OneResourcePerAnswer

\* The strengthening of DeletedStaysGone: what is on record or reported gone was
\* made, so its id is not handed out again.
DeleteInv ==
  /\ \A i \in gone : i < nextId
  /\ record # NoRecord => record.id.child < nextId
  /\ DeletedStaysGone
=============================================================================
