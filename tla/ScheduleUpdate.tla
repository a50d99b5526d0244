--------------------------- MODULE ScheduleUpdate ---------------------------
(***************************************************************************)
(* The layers of one PagerDuty schedule under the Update of                *)
(* pkg/handler/schedule.go: the PUT it builds from prior and desired       *)
(* state, resent by the retrying transport, next to whoever else edits the *)
(* schedule.                                                               *)
(*                                                                         *)
(* formae keeps the state it last read or was told (prior) and runs one    *)
(* operation on the schedule at a time.  A PUT is a repeatable RestCall:   *)
(* the server may execute it several times, and once more when the Update  *)
(* has long ended ("stray").  What a PUT does to the layers is what the    *)
(* comment in Update says of PagerDuty: a layer with an id is edited, one  *)
(* without is appended, one that is not named stays.                       *)
(***************************************************************************)
EXTENDS Naturals, Sequences, FiniteSets

CONSTANTS
  Bodies,       \* what a layer says: its name, times, users and restrictions
  Wishes,       \* the layers a forma may ask for: sequences of bodies
  InitLayers,   \* the bodies the schedule was created with
  MaxAttempts,  \* attempts of one PUT: maxRetries + 1
  MaxId,        \* bound on the ids the server hands out
  MaxStrays     \* bound on abandoned PUTs under way

NoId == 0       \* the empty ID of a layer

ASSUME ConstantsAssumption ==
  /\ Wishes \subseteq Seq(Bodies)
  /\ InitLayers \in Seq(Bodies) \ {<<>>}
  /\ MaxAttempts \in Nat \ {0}
  /\ MaxId \in Nat /\ Len(InitLayers) <= MaxId
  /\ MaxStrays \in Nat

VARIABLES
  layers,    \* the schedule's layers at the server
  nextId,    \* the id of the next new layer
  stray,     \* abandoned PUTs the server may still execute
  prior,     \* the layers formae has on record
  pc,        \* "idle", or "put" while an Update's PUT is under way
  wish,      \* the desired layers of the latest Update
  sent,      \* the body of its PUT
  attempt,   \* attempts made of it
  outcome,   \* what the latest Update reported
  disturbed, \* history: the latest Update began with a stale record, or others changed layers since
  extended,  \* history: some Update asked for more layers than its prior state had
  foreign    \* history: somebody else added or removed a layer

server  == <<layers, nextId, stray>>
update  == <<pc, wish, sent, attempt, outcome>>
history == <<disturbed, extended, foreign>>
vars    == <<server, prior, update, history>>

Layer     == [id : 0 .. MaxId, body : Bodies]
Numbered(bodies) == [i \in DOMAIN bodies |-> [id |-> i, body |-> bodies[i]]]
BodiesOf(ls)     == [i \in DOMAIN ls |-> ls[i].body]
IdsOf(ls)        == [i \in DOMAIN ls |-> ls[i].id]
HasId(ls, id)    == \E i \in DOMAIN ls : ls[i].id = id

TypeOK ==
  /\ layers \in Seq(Layer)
  /\ nextId \in 1 .. MaxId + 1
  /\ stray \subseteq Seq(Layer)
  /\ prior \in Seq(Layer)
  /\ pc \in {"idle", "put"}
  /\ wish \in Wishes \union {<<>>}
  /\ sent \in Seq(Layer)
  /\ attempt \in 0 .. MaxAttempts
  /\ outcome \in {"none", "ok", "failed"}
  /\ disturbed \in BOOLEAN /\ extended \in BOOLEAN /\ foreign \in BOOLEAN

Init ==
  /\ layers = Numbered(InitLayers)
  /\ nextId = Len(InitLayers) + 1
  /\ stray = {}
  /\ prior = layers
  /\ pc = "idle"
  /\ wish = <<>>
  /\ sent = <<>>
  /\ attempt = 0
  /\ outcome = "none"
  /\ disturbed = FALSE
  /\ extended = FALSE
  /\ foreign = FALSE

-----------------------------------------------------------------------------
(* The request. *)

\* toSDK: desired state never carries layer ids.
ToSDK(bodies) == [i \in DOMAIN bodies |-> [id |-> NoId, body |-> bodies[i]]]

\* Mutant: the ids are not carried over.
CarryNothing(old, new) == new

\* Mutant: the ids are carried over from the neighbouring position.
CarryShifted(old, new) ==
  [i \in DOMAIN new |->
     IF i + 1 \in DOMAIN old THEN [new[i] EXCEPT !.id = old[i + 1].id] ELSE new[i]]

\* Mutant: the ids come from the schedule as it is now, not from prior state.
CarryFromServer(old, new) ==
  [i \in DOMAIN new |->
     IF i \in DOMAIN layers THEN [new[i] EXCEPT !.id = layers[i].id] ELSE new[i]]

\* Without prior state there is nothing to carry.
CarryLayerIDs(old, new) ==
  [i \in DOMAIN new |->
     IF new[i].id = NoId /\ i \in DOMAIN old THEN [new[i] EXCEPT !.id = old[i].id] ELSE new[i]]

-----------------------------------------------------------------------------
(* The server. *)

Edited(ls, req) ==
  [i \in DOMAIN ls |->
     IF HasId(req, ls[i].id)
     THEN CHOOSE l \in {req[j] : j \in DOMAIN req} : l.id = ls[i].id
     ELSE ls[i]]

\* The layers without an id come last: CarryLayerIDs gives ids to the first ones.
Named(req) == Cardinality({i \in DOMAIN req : req[i].id # NoId})
New(req)   == SubSeq(req, Named(req) + 1, Len(req))

Appended(req) == [i \in DOMAIN New(req) |-> [New(req)[i] EXCEPT !.id = nextId + i - 1]]

\* A PUT that names a layer the schedule does not have is refused.
Acceptable(req) == \A i \in DOMAIN req : req[i].id = NoId \/ HasId(layers, req[i].id)

Execute(req) ==
  /\ Acceptable(req)
  /\ nextId + Len(New(req)) <= MaxId + 1
  /\ layers' = Edited(layers, req) \o Appended(req)
  /\ nextId' = nextId + Len(New(req))

-----------------------------------------------------------------------------
(* Update. *)

Report(o) == pc' = "idle" /\ outcome' = o

Begin(w) ==
  /\ pc = "idle"
  /\ pc' = "put"
  /\ wish' = w
  /\ sent' = CarryLayerIDs(prior, ToSDK(w))
  /\ attempt' = 0
  /\ outcome' = "none"
  /\ disturbed' = (prior # layers)
  /\ extended' = (extended \/ Len(w) > Len(prior))
  /\ UNCHANGED <<server, prior, foreign>>

\* The PUT is answered: formae records the layers in the answer.
Accepted ==
  /\ pc = "put"
  /\ Execute(sent)
  /\ Report("ok")
  /\ prior' = layers'
  /\ attempt' = attempt + 1
  /\ UNCHANGED <<stray, wish, sent, history>>

Refused ==
  /\ pc = "put"
  /\ ~Acceptable(sent)
  /\ Report("failed")
  /\ UNCHANGED <<server, prior, wish, sent, attempt, history>>

\* Mutant: the attempts are not counted against maxRetries.
NeverSpent(n) == n > MaxAttempts

Spent(n) == n = MaxAttempts

\* No answer that settles it: the server has executed the PUT, will, or never
\* does.  The transport sends it again until its attempts are spent.
Unanswered ==
  /\ pc = "put"
  /\ attempt' = attempt + 1
  /\ \/ Execute(sent) /\ UNCHANGED stray
     \/ /\ Cardinality(stray \union {sent}) <= MaxStrays
        /\ stray' = stray \union {sent}
        /\ UNCHANGED <<layers, nextId>>
     \/ UNCHANGED server
  /\ IF Spent(attempt') THEN Report("failed") ELSE UNCHANGED <<pc, outcome>>
  /\ UNCHANGED <<prior, wish, sent, history>>

\* Read: formae records what the server has.
Read ==
  /\ pc = "idle"
  /\ prior # layers
  /\ prior' = layers
  /\ UNCHANGED <<server, update, history>>

-----------------------------------------------------------------------------
(* Others. *)

StrayArrives(req) ==
  /\ Acceptable(req) => Execute(req)
  /\ ~Acceptable(req) => UNCHANGED <<layers, nextId>>
  /\ stray' = stray \ {req}
  /\ disturbed' = (disturbed \/ req # sent)
  /\ UNCHANGED <<prior, update, extended, foreign>>

AddLayer(b) ==
  /\ nextId <= MaxId
  /\ layers' = Append(layers, [id |-> nextId, body |-> b])
  /\ nextId' = nextId + 1

RemoveLayer(i) ==
  /\ Len(layers) > 1
  /\ layers' = SubSeq(layers, 1, i - 1) \o SubSeq(layers, i + 1, Len(layers))
  /\ UNCHANGED nextId

\* Somebody edits the schedule in PagerDuty.
ForeignEdit ==
  /\ (\E b \in Bodies : AddLayer(b)) \/ (\E i \in DOMAIN layers : RemoveLayer(i))
  /\ disturbed' = TRUE
  /\ foreign' = TRUE
  /\ UNCHANGED <<stray, prior, update, extended>>

Next ==
  \/ \E w \in Wishes : Begin(w)
  \/ Accepted
  \/ Refused
  \/ Unanswered
  \/ Read
  \/ \E req \in stray : StrayArrives(req)
  \/ ForeignEdit

Spec == Init /\ [][Next]_vars

-----------------------------------------------------------------------------
(* Properties. *)

\* As long as no Update asks for more layers than its prior state has and nobody
\* else adds or removes one, the schedule keeps the very layers it was created
\* with, through any number of Updates, retries and late PUTs: "an edit then
\* updates layers in place".
EditsStayInPlace ==
  ~extended /\ ~foreign => IdsOf(layers) = IdsOf(Numbered(InitLayers))

\* An Update that began with an accurate record, and asked for no more layers
\* than there were, makes the first layers what it asked for, however often its
\* PUT is executed.
UndisturbedEditIsExact ==
  outcome = "ok" /\ ~disturbed /\ ~HasId(sent, NoId)
    => SubSeq(BodiesOf(layers), 1, Len(wish)) = wish

\* No PUT, however late, rewrites a layer that formae has no record of: what
\* others added since it last looked stays theirs.
OnlyKnownLayersEdited ==
  [][\A i \in DOMAIN layers, j \in DOMAIN layers' :
       layers[i].id = layers'[j].id /\ layers[i] # layers'[j]
         => HasId(prior, layers[i].id)]_vars

\* A successful Update that nothing disturbed leaves the schedule with the layers
\* it asked for and no other.
UpdateLeavesWhatWasAsked ==
  outcome = "ok" /\ ~disturbed => BodiesOf(layers) = wish

\* The strengthening of the three above that every step preserves.  The ids the
\* server has handed out are those below nextId, and no two layers share one.
IdInv ==
  /\ \A i \in DOMAIN layers : layers[i].id \in 1 .. nextId - 1
  /\ \A i, j \in DOMAIN layers : layers[i].id = layers[j].id => i = j
  /\ \A i \in DOMAIN prior : prior[i].id \in 1 .. nextId - 1
  /\ \A req \in stray \union {sent} : \A i \in DOMAIN req : req[i].id < nextId

\* A layer a PUT names was on record when it was made, and is so still if it
\* exists, because ids are not used twice.
RecordInv ==
  \A req \in stray \union {sent} : \A i \in DOMAIN req :
    HasId(layers, req[i].id) => HasId(prior, req[i].id)

\* As long as no Update asked for more, no PUT appends anything.
InPlaceInv ==
  /\ ~extended => \A req \in stray \union {sent} : ~HasId(req, NoId)
  /\ EditsStayInPlace

\* Until something disturbs an Update its PUT names the first layers in order,
\* and once it was accepted they are what it says.
ExactInv ==
  /\ BodiesOf(sent) = wish
  /\ ~disturbed /\ ~HasId(sent, NoId) =>
       \A i \in DOMAIN sent :
         i \in DOMAIN layers /\ layers[i].id = sent[i].id /\ (outcome = "ok" => layers[i] = sent[i])
=============================================================================
