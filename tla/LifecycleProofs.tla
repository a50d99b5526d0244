--------------------------- MODULE LifecycleProofs ---------------------------
(***************************************************************************)
(* Theorems about Lifecycle, for any values, any number of lagging copies, *)
(* ids and abandoned writes, any window, and whatever formae does about an *)
(* error: its types, that for every resource made there is one answer,     *)
(* that no operation loses a resource silently and that a Delete is final. *)
(* CreateInv and DeleteInv strengthen the first and the last of these;     *)
(* with CreateInv the second is inductive as it stands.                    *)
(***************************************************************************)
EXTENDS Lifecycle, ApiErrorsProofs, TLAPS

-----------------------------------------------------------------------------
(* Types. *)

LEMMA BoundsAreNaturals ==
  /\ MaxId \in Nat /\ MaxCalls \in Nat /\ EndOfTime \in Nat
  /\ LookBehind \in Nat /\ LookAhead \in Nat
BY ConstantsAssumption

LEMMA WritesAreTyped ==
  ASSUME TypeOK
  PROVE  /\ Creating => Post \in Write
         /\ \A i \in Ids, v \in Values : PutOf(i, v) \in Write
         /\ \A i \in Ids : DeleteOf(i) \in Write
<1>1. Creating => Len(told) + 1 \in Calls /\ wanted \in Values
  <2>1. told \in Told /\ wanted \in Values \union {Incomplete}
    BY DEF TypeOK
  <2> QED BY <2>1, BoundsAreNaturals DEF Creating, Told, Calls
<1>2. Creating => Post \in Write
  BY <1>1 DEF Post, PostOf, Write
<1> QED BY <1>2 DEF PutOf, DeleteOf, Write

\* Executing a write keeps the server's part of the state typed.
LEMMA ExecuteIsTyped ==
  ASSUME TypeOK, NEW w \in Write, Execute(w)
  PROVE  /\ store' \in [Copies -> [Ids -> Values \union {Absent}]]
         /\ nextId' \in 1 .. MaxId + 1
         /\ maker' \in [Ids -> Calls \union {0}]
         /\ ref' = ref
<1>1. /\ ref' = ref /\ w.value \in Values \union {Absent}
      /\ w.verb = "POST" => w.id \in Calls
  BY DEF Execute, Write
<1>2. CASE w.verb = "POST"
  <2>1. /\ nextId \in Ids /\ nextId + 1 \in 1 .. MaxId + 1
        /\ store' = [store EXCEPT ![Primary][nextId] = w.value]
        /\ nextId' = nextId + 1
        /\ maker' = [maker EXCEPT ![nextId] = w.id]
    BY <1>2, BoundsAreNaturals DEF Execute, TypeOK, Ids
  <2> QED BY <1>1, <1>2, <2>1 DEF TypeOK
<1>3. CASE w.verb # "POST"
  <2>1. /\ store' = [store EXCEPT ![Primary][w.id] = w.value]
        /\ UNCHANGED <<nextId, maker>>
    BY <1>3 DEF Execute
  <2> QED BY <1>1, <2>1 DEF TypeOK
<1> QED BY <1>2, <1>3

\* What a call without an answer did keeps it typed too.
LEMMA MaybeExecutedIsTyped ==
  ASSUME TypeOK, NEW w \in Write, MaybeExecuted(w)
  PROVE  /\ store' \in [Copies -> [Ids -> Values \union {Absent}]]
         /\ nextId' \in 1 .. MaxId + 1
         /\ maker' \in [Ids -> Calls \union {0}]
         /\ stray' \subseteq Write
         /\ ref' = ref
<1>1. CASE UNCHANGED server
  BY <1>1 DEF server, TypeOK
<1>2. CASE Execute(w) /\ UNCHANGED stray
  BY <1>2, ExecuteIsTyped DEF TypeOK
<1>3. CASE LeaveBehind(w) /\ UNCHANGED <<ref, store, nextId, maker>>
  BY <1>3 DEF LeaveBehind, TypeOK
<1> QED BY <1>1, <1>2, <1>3 DEF MaybeExecuted

LEMMA TypeInit == Init => TypeOK
<1> SUFFICES ASSUME Init PROVE TypeOK
  OBVIOUS
<1>1. /\ 1 \in 1 .. MaxId + 1 /\ 0 \in 0 .. EndOfTime
      /\ at \in Instants \union {Timeless}
  BY BoundsAreNaturals DEF Init
<1>2. told \in Told
  BY BoundsAreNaturals DEF Init, Told
<1>3. maker \in [Ids -> Calls \union {0}] /\ answer \in {"none", "Success"}
  BY DEF Init
<1> QED BY <1>1, <1>2, <1>3 DEF Init, TypeOK

LEMMA RecordFacts ==
  ASSUME TypeOK, record # NoRecord
  PROVE  /\ record \in Record /\ record.id \in NativeId /\ record.id.child \in Ids
         /\ record.id.parent = (IF handler.nested THEN Parent ELSE NoParent)
         /\ Splits(record.id)
<1>1. record \in Record /\ record.id.parent = (IF handler.nested THEN Parent ELSE NoParent)
  BY DEF TypeOK
<1>2. record.id \in NativeId /\ record.id.child \in Ids
  BY <1>1 DEF Record, NativeId
<1>3. Splits(record.id)
  <2>1. CASE handler.nested
    <3>1. record.id.parent = Parent
      BY <1>1, <2>1, Zenon
    <3> QED BY <3>1, ConstantsAssumption DEF Splits
  <2>2. CASE ~handler.nested
    BY <2>2, Zenon DEF Splits
  <2> QED BY <2>1, <2>2
<1> QED BY <1>1, <1>2, <1>3

\* A time that was normalised has no offset.
LEMMA Normalised == \A z \in Zones : ToUTC(z) \in Zones /\ ToUTC(z) # "offset"
BY DEF Zones, ToUTC

LEMMA WrittenIsZone == Written \subseteq Zones
BY DEF Written, Zones

\* The record a successful operation leaves.
LEMMA NewRecordIsTyped ==
  ASSUME NEW i \in Ids, NEW v \in Values, NEW z \in Written
  PROVE  LET p == IF handler.nested THEN Parent ELSE NoParent
             r == [id |-> [parent |-> p, child |-> i], value |-> v, zone |-> ToUTC(z)]
         IN  r \in Record /\ r # NoRecord /\ r.zone # "offset" /\ r.id.parent = p
<1> DEFINE p == IF handler.nested THEN Parent ELSE NoParent
           r == [id |-> [parent |-> p, child |-> i], value |-> v, zone |-> ToUTC(z)]
<1>1. p \in {Parent, NoParent}
  BY Zenon
<1>2. ToUTC(z) \in Zones /\ ToUTC(z) # "offset"
  BY Normalised, WrittenIsZone
<1> HIDE DEF p
<1>3. r \in Record /\ r.zone # "offset" /\ r.id.parent = p
  BY <1>1, <1>2 DEF Record, NativeId
<1> QED BY <1>3, ConstantsAssumption DEF p

\* What formae hears of a Create.
LEMMA TellIsTyped ==
  ASSUME TypeOK, Len(told) < MaxCalls, NEW code \in {"Success"} \union ErrorCodes, Tell(code)
  PROVE  /\ answer' \in {"none", "Success"} \union ErrorCodes
         /\ told' \in Told
<1>1. told \in Seq({"Success"} \union Inconclusive) /\ Len(told) <= MaxCalls /\ MaxCalls \in Nat
  <2>1. told \in Told
    BY DEF TypeOK
  <2> QED BY <2>1, BoundsAreNaturals DEF Told
<1>2. answer' = code
  BY DEF Tell
<1>3. CASE code \in {"Success"} \union Inconclusive
  <2>1. told' = Append(told, code)
    BY <1>3 DEF Tell
  <2> HIDE DEF Inconclusive
  <2>2. told' \in Seq({"Success"} \union Inconclusive) /\ Len(told') = Len(told) + 1
    BY <1>1, <1>3, <2>1
  <2> QED BY <1>1, <1>2, <2>2 DEF Told
<1>4. CASE code \notin {"Success"} \union Inconclusive
  <2>1. told' = told
    BY <1>4 DEF Tell
  <2> QED BY <1>1, <1>2, <2>1 DEF Told
<1> QED BY <1>3, <1>4

LEMMA TypeStep == TypeOK /\ [Next]_vars => TypeOK'
<1> SUFFICES ASSUME TypeOK, [Next]_vars PROVE TypeOK'
  OBVIOUS
<1>1. CASE CreateInvalid
  <2>1. told' = told /\ answer' \in ErrorCodes
    BY <1>1 DEF CreateInvalid, Tell, Inconclusive, ErrorCodes
  <2> QED BY <1>1, <2>1 DEF CreateInvalid, TypeOK, rigid, server
<1>2. CASE Create
  <2>1. /\ Post \in Write /\ wanted \in Values /\ nextId \in Ids /\ Len(told) < MaxCalls
        /\ Execute(Post) /\ Tell("Success") /\ UNCHANGED <<stray, rigid, now, overlooked, gone>>
    BY <1>2, WritesAreTyped DEF Create, Creating, Execute, Post, PostOf, TypeOK, Ids
  <2>2. PICK z \in Written :
          record' = [id |-> Composite(nextId), value |-> wanted, zone |-> ToUTC(z)]
    BY <1>2 DEF Create
  <2>3. /\ record' \in Record
        /\ record'.zone # "offset"
        /\ record'.id.parent = IF handler.nested THEN Parent ELSE NoParent
    BY <2>1, <2>2, NewRecordIsTyped DEF Composite
  <2> QED BY <2>1, <2>3, ExecuteIsTyped, TellIsTyped DEF TypeOK, rigid
<1>3. ASSUME NEW c \in Copies, ReferenceNotVisible(c) PROVE TypeOK'
  <2>1. PICK e \in {BadReference, NotThere} : Tell(MapAPIError(e))
    BY <1>3 DEF ReferenceNotVisible
  <2>2. Len(told) < MaxCalls /\ UNCHANGED <<rigid, server, now, record, overlooked, gone>>
    BY <1>3 DEF ReferenceNotVisible, Creating
  <2> QED BY <2>1, <2>2, CodesAreErrorCodes, TellIsTyped DEF TypeOK, rigid, server
<1>4. CASE CreateRefused
  <2>1. PICK e \in {Throttled, BadRequest} : Tell(MapAPIError(e))
    BY <1>4 DEF CreateRefused
  <2>2. Len(told) < MaxCalls /\ UNCHANGED <<rigid, server, now, record, overlooked, gone>>
    BY <1>4 DEF CreateRefused, Creating
  <2> QED BY <2>1, <2>2, CodesAreErrorCodes, TellIsTyped DEF TypeOK, rigid, server
<1>5. CASE CreateUnanswered
  <2>1. PICK e \in Unknown : Tell(MapAPIError(e))
    BY <1>5 DEF CreateUnanswered
  <2>2. /\ Post \in Write /\ Len(told) < MaxCalls
        /\ MaybeExecuted(Post) /\ UNCHANGED <<rigid, now, record, overlooked, gone>>
    BY <1>5, WritesAreTyped DEF CreateUnanswered, Creating
  <2> QED BY <2>1, <2>2, CodesAreErrorCodes, TellIsTyped, MaybeExecutedIsTyped DEF TypeOK, rigid
<1>6. ASSUME NEW c \in Copies, ReadHits(c) PROVE TypeOK'
  <2>1. /\ record # NoRecord /\ store[c][record.id.child] \in Values
        /\ UNCHANGED <<rigid, server, now, heard, overlooked, gone>>
    BY <1>6, RecordFacts DEF ReadHits, Found, Exists, TypeOK
  <2>2. PICK z \in Written :
          record' = [record EXCEPT !.value = store[c][record.id.child], !.zone = ToUTC(z)]
    BY <1>6 DEF ReadHits
  <2>3. ToUTC(z) \in Zones /\ ToUTC(z) # "offset"
    BY Normalised, WrittenIsZone
  <2>4. record' \in Record /\ record'.zone # "offset" /\ record'.id = record.id
    BY <2>1, <2>2, <2>3, RecordFacts DEF Record
  <2> QED BY <2>1, <2>4, RecordFacts DEF TypeOK, rigid, server, heard
<1>7. ASSUME NEW c \in Copies, ReadMisses(c) PROVE TypeOK'
  <2>1. /\ record' = NoRecord /\ UNCHANGED <<rigid, server, now, heard, gone>>
        /\ record.id.child \in Ids
    BY <1>7, RecordFacts DEF ReadMisses
  <2>2. overlooked' \subseteq overlooked \union {record.id.child}
    BY <1>7 DEF ReadMisses
  <2> QED BY <2>1, <2>2 DEF TypeOK, rigid, server, heard
<1>8. ASSUME NEW v \in Values, NEW desired \in {Parent, NoParent}, Update(v, desired)
      PROVE  TypeOK'
  <2> DEFINE w == PutOf(record.id.child, v)
  <2>1. /\ record # NoRecord /\ Execute(w) /\ Repeat(w)
        /\ UNCHANGED <<rigid, now, heard, overlooked, gone>>
    BY <1>8 DEF Update
  <2>2. w \in Write /\ w.verb # "POST"
    BY <2>1, RecordFacts, WritesAreTyped DEF PutOf
  <2>3. stray' \subseteq Write
    BY <2>1, <2>2 DEF Repeat, LeaveBehind, TypeOK
  <2>4. PICK z \in Written :
          record' = [id |-> [parent |-> record.id.parent, child |-> record.id.child],
                     value |-> v, zone |-> ToUTC(z)]
    BY <1>8 DEF Update, UpdatedOf
  <2>5. /\ record' \in Record
        /\ record'.zone # "offset" /\ record'.id.parent = IF handler.nested THEN Parent ELSE NoParent
    BY <2>1, <2>4, RecordFacts, NewRecordIsTyped
  <2> HIDE DEF w
  <2> QED BY <2>1, <2>2, <2>3, <2>5, ExecuteIsTyped DEF TypeOK, rigid, heard
<1>9. ASSUME NEW v \in Values, UpdateUnanswered(v) PROVE TypeOK'
  <2> DEFINE w == PutOf(record.id.child, v)
  <2>1. /\ record # NoRecord /\ MaybeExecuted(w)
        /\ UNCHANGED <<rigid, now, record, heard, overlooked, gone>>
    BY <1>9 DEF UpdateUnanswered
  <2>2. w \in Write /\ w.verb # "POST"
    BY <2>1, RecordFacts, WritesAreTyped DEF PutOf
  <2> HIDE DEF w
  <2> QED BY <2>1, <2>2, MaybeExecutedIsTyped DEF TypeOK, rigid, heard
<1>10. CASE Delete
  <2> DEFINE w == DeleteOf(record.id.child)
  <2>1. /\ record # NoRecord /\ Execute(w) /\ Repeat(w) /\ ReportGone
    BY <1>10, RecordFacts DEF Delete
  <2>2. w \in Write /\ w.verb # "POST"
    BY <2>1, RecordFacts, WritesAreTyped DEF DeleteOf
  <2>3. stray' \subseteq Write
    BY <2>1, <2>2 DEF Repeat, LeaveBehind, TypeOK
  <2>4. record.id.child \in Ids
    BY <2>1, RecordFacts
  <2> HIDE DEF w
  <2> QED BY <2>1, <2>2, <2>3, <2>4, ExecuteIsTyped DEF ReportGone, TypeOK, rigid, heard
<1>11. CASE DeleteRefused
  <2>1. record.id.child \in Ids /\ ReportGone /\ UNCHANGED server
    BY <1>11, RecordFacts DEF DeleteRefused
  <2> QED BY <2>1 DEF ReportGone, TypeOK, rigid, server, heard
<1>12. CASE DeleteUnanswered
  <2> DEFINE w == DeleteOf(record.id.child)
  <2>1. /\ record # NoRecord /\ MaybeExecuted(w)
        /\ UNCHANGED <<rigid, now, record, heard, overlooked, gone>>
    BY <1>12 DEF DeleteUnanswered
  <2>2. w \in Write /\ w.verb # "POST"
    BY <2>1, RecordFacts, WritesAreTyped DEF DeleteOf
  <2> HIDE DEF w
  <2> QED BY <2>1, <2>2, MaybeExecutedIsTyped DEF TypeOK, rigid, heard
<1>13. ASSUME NEW c \in Replicas, Replicate(c) PROVE TypeOK'
  <2>1. ref[Primary] \in BOOLEAN /\ store[Primary] \in [Ids -> Values \union {Absent}]
    BY DEF TypeOK, Copies
  <2> QED BY <1>13, <2>1 DEF Replicate, TypeOK, rigid, heard
<1>14. ASSUME NEW w \in stray, StrayArrives(w) PROVE TypeOK'
  <2>1. w \in Write /\ stray' \subseteq Write
    BY <1>14 DEF StrayArrives, TypeOK
  <2>2. CASE Execute(w)
    BY <1>14, <2>1, <2>2, ExecuteIsTyped DEF StrayArrives, TypeOK, rigid, heard
  <2>3. CASE ~Execute(w)
    BY <1>14, <2>1, <2>3 DEF StrayArrives, TypeOK, rigid, heard
  <2> QED BY <2>2, <2>3
<1>15. ASSUME NEW i \in Ids, NEW v \in Values \union {Absent}, ForeignWrite(i, v) PROVE TypeOK'
  BY <1>15 DEF ForeignWrite, TypeOK, rigid, heard, Copies
<1>16. CASE RemoveParent
  <2>1. store' \in [Copies -> [Ids -> Values \union {Absent}]]
    <3>1. store' \in {store, [store EXCEPT ![Primary] = [i \in Ids |-> Absent]]}
      BY <1>16, Zenon DEF RemoveParent
    <3> QED BY <3>1 DEF TypeOK
  <2> QED BY <1>16, <2>1 DEF RemoveParent, TypeOK, rigid, heard
<1>17. CASE Tick
  BY <1>17, BoundsAreNaturals DEF Tick, TypeOK, rigid, server, heard
<1>18. CASE UNCHANGED vars
  BY <1>18 DEF vars, TypeOK, rigid, server, heard
<1> QED
  BY <1>1, <1>2, <1>3, <1>4, <1>5, <1>6, <1>7, <1>8, <1>9, <1>10, <1>11, <1>12, <1>13,
     <1>14, <1>15, <1>16, <1>17, <1>18 DEF Next

\* TypeOK, always: in particular no record of a nested resource ever lacks its
\* parent, whatever the desired state of an Update says, so the "treated as
\* already-gone" branch of Delete (integration.go:129) is never taken.
THEOREM TypeCorrect == Spec => []TypeOK
BY TypeInit, TypeStep, PTL DEF Spec

-----------------------------------------------------------------------------
(* What a step does to what Creates made and left on the wire. *)

\* A write that is not a POST makes nothing.
LEMMA OnlyPostsMake ==
  ASSUME NEW w, w.verb # "POST"
  PROVE  /\ Execute(w) => UNCHANGED <<maker, nextId>>
         /\ MaybeExecuted(w) => UNCHANGED <<maker, nextId>> /\ stray' \subseteq stray \union {w}
         /\ Repeat(w) => stray' \subseteq stray \union {w}
<1>1. Execute(w) => UNCHANGED <<maker, nextId>>
  BY DEF Execute
<1> QED BY <1>1 DEF MaybeExecuted, LeaveBehind, Repeat, server

\* A POST makes one resource with a new id, for the Create it belongs to.
LEMMA PostsMakeOne ==
  ASSUME TypeOK, CreateInv, NEW w \in Write, w.verb = "POST", Execute(w)
  PROVE  /\ maker' = [maker EXCEPT ![nextId] = w.id]
         /\ w.id # 0 /\ nextId \in Ids /\ nextId \notin Made
         /\ Made' = Made \union {nextId}
         /\ maker'[nextId] = w.id /\ \A i \in Made : maker'[i] = maker[i]
         /\ nextId' = nextId + 1
<1>1. /\ maker' = [maker EXCEPT ![nextId] = w.id] /\ nextId' = nextId + 1
      /\ w.id \in Calls /\ nextId \in Ids /\ maker \in [Ids -> Calls \union {0}]
  BY BoundsAreNaturals DEF Execute, Write, TypeOK, Ids
<1>2. w.id # 0 /\ nextId \notin Made
  BY <1>1, BoundsAreNaturals DEF Calls, CreateInv, Ids
<1>3. Made' = Made \union {nextId}
  BY <1>1, <1>2 DEF Made
<1>4. maker'[nextId] = w.id /\ \A i \in Made : maker'[i] = maker[i]
  BY <1>1, <1>2 DEF Made
<1> QED BY <1>1, <1>2, <1>3, <1>4

\* What formae was told of a Create stays what it was told.
LEMMA TellFacts ==
  ASSUME TypeOK, NEW code, Tell(code)
  PROVE  /\ \A n : InDoubt(n) => InDoubt(n)'
         /\ DOMAIN told \subseteq DOMAIN told' /\ \A n \in DOMAIN told : told'[n] = told[n]
         /\ \A n \in DOMAIN told : n <= Len(told)
         /\ code \in {"Success"} \union Inconclusive =>
              /\ told' = Append(told, code)
              /\ Len(told) + 1 \in DOMAIN told' /\ told'[Len(told) + 1] = code
<1>1. told \in Seq({"Success"} \union Inconclusive)
  BY DEF TypeOK, Told
<1>2. CASE code \in {"Success"} \union Inconclusive
  <2>1. told' = Append(told, code)
    BY <1>2 DEF Tell
  <2>2. /\ DOMAIN told \subseteq DOMAIN told' /\ \A n \in DOMAIN told : told'[n] = told[n]
        /\ \A n \in DOMAIN told : n <= Len(told)
        /\ Len(told) + 1 \in DOMAIN told' /\ told'[Len(told) + 1] = code
    BY <1>1, <1>2, <2>1 DEF Inconclusive
  <2> QED BY <2>1, <2>2 DEF InDoubt
<1>3. CASE code \notin {"Success"} \union Inconclusive
  <2>1. told' = told
    BY <1>3 DEF Tell
  <2>2. \A n \in DOMAIN told : n <= Len(told)
    BY <1>1
  <2> QED BY <1>3, <2>1, <2>2 DEF InDoubt
<1> QED BY <1>2, <1>3

LEMMA NotYetTold ==
  ASSUME TypeOK
  PROVE  Len(told) + 1 \notin DOMAIN told
<1>1. told \in Seq({"Success"} \union Inconclusive)
  BY DEF TypeOK, Told
<1> QED BY <1>1

-----------------------------------------------------------------------------
(* One answer for every resource. *)

\* A step that makes nothing, leaves no POST on the wire and takes no answer back
\* keeps CreateInv.
LEMMA CreateFrame ==
  ASSUME CreateInv, NEW w, w.verb # "POST", UNCHANGED <<wanted, maker, nextId>>,
         stray' \subseteq stray \union {w},
         DOMAIN told \subseteq DOMAIN told', \A n : InDoubt(n) => InDoubt(n)'
  PROVE  CreateInv'
<1>1. Made' = Made /\ \A n : PostOf(n)' = PostOf(n)
  BY DEF Made, PostOf
<1>2. OneResourcePerAnswer'
  BY <1>1 DEF CreateInv, OneResourcePerAnswer
<1>3. \A x \in stray' :
        x.verb = "POST" => x = PostOf(x.id)' /\ InDoubt(x.id)' /\ \A i \in Made' : maker'[i] # x.id
  BY <1>1 DEF CreateInv
<1> QED BY <1>1, <1>2, <1>3 DEF CreateInv

LEMMA CreateInvInit == Init => CreateInv
BY DEF Init, CreateInv, OneResourcePerAnswer, Made

\* The Create under way is executed, and formae is told of success or of an unknown
\* outcome.
LEMMA CreateMakes ==
  ASSUME TypeOK, CreateInv, Creating, Execute(Post), UNCHANGED <<stray, wanted>>,
         NEW code \in {"Success"} \union Inconclusive, Tell(code)
  PROVE  CreateInv'
<1> DEFINE n == Len(told) + 1
<1>1. Post \in Write /\ Post.verb = "POST" /\ Post.id = n /\ n \notin DOMAIN told
  BY WritesAreTyped, NotYetTold DEF Post, PostOf
<1>2. /\ Made' = Made \union {nextId} /\ nextId \notin Made
      /\ maker'[nextId] = n /\ \A i \in Made : maker'[i] = maker[i]
      /\ nextId' = nextId + 1
  BY <1>1, PostsMakeOne
<1>3. /\ n \in DOMAIN told' /\ DOMAIN told \subseteq DOMAIN told'
      /\ \A m : InDoubt(m) => InDoubt(m)'
      /\ \A m : InDoubt(m) => m \in DOMAIN told
  BY TellFacts DEF InDoubt
<1> HIDE DEF n
<1>4. OneResourcePerAnswer'
  BY <1>1, <1>2, <1>3 DEF CreateInv, OneResourcePerAnswer
<1>5. \A m : PostOf(m)' = PostOf(m)
  BY DEF PostOf
<1>6. ASSUME NEW w \in stray', w.verb = "POST"
      PROVE  w = PostOf(w.id)' /\ InDoubt(w.id)' /\ \A i \in Made' : maker'[i] # w.id
  <2>1. w = PostOf(w.id) /\ InDoubt(w.id) /\ \A i \in Made : maker[i] # w.id
    BY <1>6 DEF CreateInv
  <2>2. w.id # n
    BY <1>1, <1>3, <2>1
  <2>3. w = PostOf(w.id)'
    BY <1>5, <2>1
  <2>4. InDoubt(w.id)'
    BY <1>3, <2>1
  <2> QED BY <1>2, <2>1, <2>2, <2>3, <2>4
<1>7. \A i \in Made' : i < nextId'
  BY <1>2 DEF CreateInv, TypeOK, Made, Ids
<1> QED BY <1>4, <1>6, <1>7 DEF CreateInv

\* It is left on the wire, and formae is told of an unknown outcome.
LEMMA CreateLeaves ==
  ASSUME TypeOK, CreateInv, Creating, LeaveBehind(Post), UNCHANGED <<maker, nextId, wanted>>,
         NEW code \in Inconclusive, Tell(code)
  PROVE  CreateInv'
<1>0. PICK n : n = Len(told) + 1
  OBVIOUS
<1>1. Post = PostOf(n) /\ Post.id = n /\ n \notin DOMAIN told /\ stray' = stray \union {Post}
  BY <1>0, NotYetTold DEF Post, PostOf, LeaveBehind
<1>2. /\ DOMAIN told \subseteq DOMAIN told' /\ InDoubt(n)'
      /\ \A m : InDoubt(m) => InDoubt(m)'
  <2>1. code # "Success" /\ code \in {"Success"} \union Inconclusive
    BY DEF Inconclusive
  <2>2. n \in DOMAIN told' /\ told'[n] = code
    BY <1>0, <2>1, TellFacts
  <2>3. InDoubt(n)'
    BY <2>1, <2>2 DEF InDoubt
  <2> QED BY <2>3, TellFacts
<1>3. Made' = Made /\ \A m : PostOf(m)' = PostOf(m)
  BY DEF Made, PostOf
<1>4. OneResourcePerAnswer' /\ \A i \in Made : maker[i] # n
  <2>1. \A i \in Made : maker[i] \in DOMAIN told
    BY DEF CreateInv, OneResourcePerAnswer
  <2> QED BY <1>1, <1>2, <1>3, <2>1 DEF CreateInv, OneResourcePerAnswer
<1>5. ASSUME NEW w \in stray', w.verb = "POST"
      PROVE  w = PostOf(w.id)' /\ InDoubt(w.id)' /\ \A i \in Made' : maker'[i] # w.id
  <2>1. CASE w = Post
    BY <1>1, <1>2, <1>3, <1>4, <2>1
  <2>2. CASE w \in stray
    BY <1>2, <1>3, <1>5, <2>2 DEF CreateInv
  <2> QED BY <1>1, <2>1, <2>2
<1> QED BY <1>3, <1>4, <1>5 DEF CreateInv

\* A POST that was left on the wire is executed.
LEMMA StrayMakes ==
  ASSUME TypeOK, CreateInv, NEW w \in stray, w.verb = "POST", Execute(w),
         stray' = stray \ {w}, UNCHANGED <<wanted, told>>
  PROVE  CreateInv'
<1>1. w \in Write /\ w = PostOf(w.id) /\ InDoubt(w.id) /\ \A i \in Made : maker[i] # w.id
  BY DEF CreateInv, TypeOK
<1>2. /\ Made' = Made \union {nextId} /\ nextId \notin Made
      /\ maker'[nextId] = w.id /\ \A i \in Made : maker'[i] = maker[i]
      /\ nextId' = nextId + 1
  BY <1>1, PostsMakeOne
<1>3. \A m : PostOf(m)' = PostOf(m) /\ (InDoubt(m) => InDoubt(m)')
  BY DEF PostOf, InDoubt
<1>4. OneResourcePerAnswer'
  BY <1>1, <1>2 DEF CreateInv, OneResourcePerAnswer, InDoubt
<1>5. \A x \in stray' : x.verb = "POST" => x.id # w.id
  BY <1>1 DEF CreateInv
<1>6. \A x \in stray' :
        x.verb = "POST" => x = PostOf(x.id)' /\ InDoubt(x.id)' /\ \A i \in Made' : maker'[i] # x.id
  BY <1>2, <1>3, <1>5 DEF CreateInv
<1>7. \A i \in Made' : i < nextId'
  BY <1>2 DEF CreateInv, TypeOK, Made, Ids
<1> QED BY <1>4, <1>6, <1>7 DEF CreateInv

\* MapAPIError keeps an unknown outcome apart from every refusal.
LEMMA UnknownIsInconclusive == \A e \in Unknown : MapAPIError(e) \in Inconclusive
BY UnknownCodes DEF Inconclusive

LEMMA CreateInvStep == TypeOK /\ CreateInv /\ [Next]_vars => CreateInv'
<1> SUFFICES ASSUME TypeOK, CreateInv, [Next]_vars PROVE CreateInv'
  OBVIOUS
<1> DEFINE d == DeleteOf(1)
<1>0. d.verb # "POST"
  BY DEF DeleteOf
<1> HIDE DEF d
<1>a. ASSUME UNCHANGED <<wanted, maker, nextId, stray>>, UNCHANGED told PROVE CreateInv'
  <2>1. \A n : InDoubt(n) => InDoubt(n)'
    BY <1>a DEF InDoubt
  <2> QED BY <1>0, <1>a, <2>1, CreateFrame
<1>b. ASSUME NEW code, Tell(code), UNCHANGED <<wanted, maker, nextId, stray>> PROVE CreateInv'
  BY <1>0, <1>b, TellFacts, CreateFrame
<1>c. ASSUME NEW w, w.verb # "POST", UNCHANGED <<wanted, told>>,
             \/ Execute(w) /\ (Repeat(w) \/ stray' \subseteq stray)
             \/ MaybeExecuted(w)
      PROVE  CreateInv'
  <2>1. UNCHANGED <<maker, nextId>> /\ stray' \subseteq stray \union {w}
    BY <1>c, OnlyPostsMake
  <2>2. \A n : InDoubt(n) => InDoubt(n)'
    BY <1>c DEF InDoubt
  <2> QED BY <1>c, <2>1, <2>2, CreateFrame
<1>1. CASE CreateInvalid
  BY <1>1, <1>b DEF CreateInvalid, rigid, server
<1>2. CASE Create
  BY <1>2, CreateMakes DEF Create, rigid
<1>3. ASSUME NEW c \in Copies, ReferenceNotVisible(c) PROVE CreateInv'
  BY <1>3, <1>b DEF ReferenceNotVisible, rigid, server
<1>4. CASE CreateRefused
  BY <1>4, <1>b DEF CreateRefused, rigid, server
<1>5. CASE CreateUnanswered
  <2>1. PICK code \in Inconclusive : Tell(code)
    BY <1>5, UnknownIsInconclusive DEF CreateUnanswered
  <2>2. Creating /\ MaybeExecuted(Post) /\ wanted' = wanted
    BY <1>5 DEF CreateUnanswered, rigid
  <2>3. CASE UNCHANGED server
    BY <1>b, <2>1, <2>2, <2>3 DEF server
  <2>4. CASE Execute(Post) /\ UNCHANGED stray
    BY <2>1, <2>2, <2>4, CreateMakes
  <2>5. CASE LeaveBehind(Post) /\ UNCHANGED <<ref, store, nextId, maker>>
    BY <2>1, <2>2, <2>5, CreateLeaves
  <2> QED BY <2>2, <2>3, <2>4, <2>5 DEF MaybeExecuted
<1>6. ASSUME NEW c \in Copies, ReadHits(c) PROVE CreateInv'
  BY <1>6, <1>a DEF ReadHits, rigid, server, heard
<1>7. ASSUME NEW c \in Copies, ReadMisses(c) PROVE CreateInv'
  BY <1>7, <1>a DEF ReadMisses, rigid, server, heard
<1>8. ASSUME NEW v \in Values, NEW desired \in {Parent, NoParent}, Update(v, desired)
      PROVE  CreateInv'
  <2> DEFINE w == PutOf(record.id.child, v)
  <2>1. w.verb # "POST" /\ Execute(w) /\ Repeat(w) /\ UNCHANGED <<wanted, told>>
    BY <1>8 DEF Update, PutOf, rigid, heard
  <2> HIDE DEF w
  <2> QED BY <1>c, <2>1
<1>9. ASSUME NEW v \in Values, UpdateUnanswered(v) PROVE CreateInv'
  <2> DEFINE w == PutOf(record.id.child, v)
  <2>1. w.verb # "POST" /\ MaybeExecuted(w) /\ UNCHANGED <<wanted, told>>
    BY <1>9 DEF UpdateUnanswered, PutOf, rigid, heard
  <2> HIDE DEF w
  <2> QED BY <1>c, <2>1
<1>10. CASE Delete
  <2> DEFINE w == DeleteOf(record.id.child)
  <2>1. w.verb # "POST" /\ Execute(w) /\ Repeat(w) /\ UNCHANGED <<wanted, told>>
    BY <1>10, RecordFacts DEF Delete, DeleteOf, ReportGone, rigid, heard
  <2> HIDE DEF w
  <2> QED BY <1>c, <2>1
<1>11. CASE DeleteRefused
  BY <1>11, <1>a DEF DeleteRefused, ReportGone, rigid, server, heard
<1>12. CASE DeleteUnanswered
  <2> DEFINE w == DeleteOf(record.id.child)
  <2>1. w.verb # "POST" /\ MaybeExecuted(w) /\ UNCHANGED <<wanted, told>>
    BY <1>12 DEF DeleteUnanswered, DeleteOf, rigid, heard
  <2> HIDE DEF w
  <2> QED BY <1>c, <2>1
<1>13. ASSUME NEW c \in Replicas, Replicate(c) PROVE CreateInv'
  BY <1>13, <1>a DEF Replicate, rigid, heard
<1>14. ASSUME NEW w \in stray, StrayArrives(w) PROVE CreateInv'
  <2>1. stray' = stray \ {w} /\ UNCHANGED <<wanted, told>>
    BY <1>14 DEF StrayArrives, rigid, heard
  <2>2. CASE w.verb = "POST" /\ Execute(w)
    BY <2>1, <2>2, StrayMakes
  <2>3. CASE w.verb # "POST" /\ Execute(w)
    BY <1>c, <2>1, <2>3
  <2>4. CASE ~Execute(w)
    <3>1. UNCHANGED <<wanted, maker, nextId, told>> /\ stray' \subseteq stray \union {d}
      BY <1>14, <2>1, <2>4 DEF StrayArrives
    <3>2. \A n : InDoubt(n) => InDoubt(n)'
      BY <3>1 DEF InDoubt
    <3> QED BY <1>0, <3>1, <3>2, CreateFrame
  <2> QED BY <2>2, <2>3, <2>4
<1>15. ASSUME NEW i \in Ids, NEW v \in Values \union {Absent}, ForeignWrite(i, v) PROVE CreateInv'
  BY <1>15, <1>a DEF ForeignWrite, rigid, heard
<1>16. CASE RemoveParent
  BY <1>16, <1>a DEF RemoveParent, rigid, heard
<1>17. CASE Tick
  BY <1>17, <1>a DEF Tick, rigid, server, heard
<1>18. CASE UNCHANGED vars
  BY <1>18, <1>a DEF vars, rigid, server, heard
<1> QED
  BY <1>1, <1>2, <1>3, <1>4, <1>5, <1>6, <1>7, <1>8, <1>9, <1>10, <1>11, <1>12, <1>13,
     <1>14, <1>15, <1>16, <1>17, <1>18 DEF Next

\* OneResourcePerAnswer, always, whatever formae does about an error: MapAPIError
\* (handler.go:70) maps a 5xx and a lost answer to codes that no refusal is mapped
\* to, so a resource exists only of a Create that succeeded or was told one of them.
THEOREM EveryResourceHasItsAnswer == Spec => []OneResourcePerAnswer
<1>1. CreateInv => OneResourcePerAnswer
  BY DEF CreateInv
<1> QED BY <1>1, TypeInit, TypeStep, CreateInvInit, CreateInvStep, PTL DEF Spec

-----------------------------------------------------------------------------
(* A Delete is final. *)

\* A step of the server that leaves what was reported gone as it is.
Spares == nextId <= nextId' /\ \A i \in gone : store'[Primary][i] = Absent

\* No write reaches what is gone: a POST makes a new id, a PUT or DELETE needs its own.
LEMMA WritesSpare ==
  ASSUME TypeOK, DeleteInv, NEW w \in Write
  PROVE  (Execute(w) \/ MaybeExecuted(w)) => Spares
<1>1. /\ nextId \in Int /\ Primary \in Copies /\ store[Primary] \in [Ids -> Values \union {Absent}]
      /\ gone \subseteq Ids
      /\ \A i \in gone : i < nextId /\ i \in Int /\ store[Primary][i] = Absent
  BY DEF TypeOK, DeleteInv, DeletedStaysGone, Exists, Copies, Ids
<1>2. ASSUME Execute(w) PROVE Spares
  <2>1. CASE w.verb = "POST"
    <3>1. nextId' = nextId + 1 /\ store' = [store EXCEPT ![Primary][nextId] = w.value]
      BY <1>2, <2>1 DEF Execute
    <3> QED BY <1>1, <3>1 DEF Spares, TypeOK
  <2>2. CASE w.verb # "POST"
    <3>1. /\ store[Primary][w.id] # Absent /\ nextId' = nextId
          /\ store' = [store EXCEPT ![Primary][w.id] = w.value]
      BY <1>2, <2>2 DEF Execute, Acceptable, Exists
    <3> QED BY <1>1, <3>1 DEF Spares, TypeOK
  <2> QED BY <2>1, <2>2
<1>3. ASSUME UNCHANGED <<store, nextId>> PROVE Spares
  BY <1>1, <1>3 DEF Spares
<1> QED BY <1>2, <1>3 DEF MaybeExecuted, server

\* Such a step keeps DeleteInv, if what stays on record was made.
LEMMA DeleteFrame ==
  ASSUME TypeOK, TypeOK', DeleteInv, Spares, gone' = gone,
         record' # NoRecord => record'.id.child < nextId'
  PROVE  DeleteInv'
<1>1. \A i \in gone : i < nextId'
  BY DEF TypeOK, DeleteInv, Spares, Ids
<1> QED BY <1>1 DEF DeleteInv, DeletedStaysGone, Exists, Spares

LEMMA StillMade ==
  ASSUME TypeOK, TypeOK', DeleteInv, Spares, record # NoRecord
  PROVE  record.id.child < nextId'
BY RecordFacts DEF TypeOK, DeleteInv, Spares, Ids

LEMMA QuietSpares == TypeOK /\ DeleteInv /\ UNCHANGED <<store, nextId>> => Spares
BY DEF TypeOK, DeleteInv, DeletedStaysGone, Exists, Spares

\* Reporting what is not at Primary as gone keeps DeleteInv.
LEMMA ReportFrame ==
  ASSUME TypeOK, TypeOK', DeleteInv, Spares, record # NoRecord, ReportGone,
         store'[Primary][record.id.child] = Absent
  PROVE  DeleteInv'
<1>1. /\ gone' = gone \union {record.id.child} /\ record' = NoRecord
  BY DEF ReportGone
<1>2. \A i \in gone' : i < nextId'
  BY <1>1, StillMade DEF TypeOK, DeleteInv, Spares, Ids
<1> QED BY <1>1, <1>2 DEF DeleteInv, DeletedStaysGone, Exists, Spares

LEMMA DeleteInvInit == Init => DeleteInv
BY DEF Init, DeleteInv, DeletedStaysGone

LEMMA DeleteInvStep == TypeOK /\ TypeOK' /\ DeleteInv /\ [Next]_vars => DeleteInv'
<1> SUFFICES ASSUME TypeOK, TypeOK', DeleteInv, [Next]_vars PROVE DeleteInv'
  OBVIOUS
<1>1. CASE CreateInvalid
  BY <1>1, QuietSpares, StillMade, DeleteFrame DEF CreateInvalid, server
<1>2. CASE Create
  <2>1. Post \in Write /\ Execute(Post) /\ gone' = gone
    BY <1>2, WritesAreTyped DEF Create
  <2>2. record'.id.child = nextId /\ nextId' = nextId + 1
    BY <1>2 DEF Create, Composite, Execute, Post, PostOf
  <2>3. Spares
    BY <2>1, WritesSpare
  <2> QED BY <2>1, <2>2, <2>3, DeleteFrame DEF TypeOK
<1>3. ASSUME NEW c \in Copies, ReferenceNotVisible(c) PROVE DeleteInv'
  BY <1>3, QuietSpares, StillMade, DeleteFrame DEF ReferenceNotVisible, server
<1>4. CASE CreateRefused
  BY <1>4, QuietSpares, StillMade, DeleteFrame DEF CreateRefused, server
<1>5. CASE CreateUnanswered
  <2>1. Post \in Write /\ MaybeExecuted(Post) /\ UNCHANGED <<record, gone>>
    BY <1>5, WritesAreTyped DEF CreateUnanswered
  <2> QED BY <2>1, WritesSpare, StillMade, DeleteFrame
<1>6. ASSUME NEW c \in Copies, ReadHits(c) PROVE DeleteInv'
  <2>1. /\ record # NoRecord /\ gone' = gone /\ UNCHANGED <<store, nextId>>
        /\ \E v, z : record' = [record EXCEPT !.value = v, !.zone = z]
    BY <1>6 DEF ReadHits, server
  <2>2. record'.id.child = record.id.child
    BY <2>1, RecordFacts DEF Record
  <2> QED BY <2>1, <2>2, QuietSpares, StillMade, DeleteFrame
<1>7. ASSUME NEW c \in Copies, ReadMisses(c) PROVE DeleteInv'
  BY <1>7, QuietSpares, DeleteFrame DEF ReadMisses, server
<1>8. ASSUME NEW v \in Values, NEW desired \in {Parent, NoParent}, Update(v, desired)
      PROVE  DeleteInv'
  <2> DEFINE w == PutOf(record.id.child, v)
  <2>1. /\ record # NoRecord /\ Execute(w) /\ gone' = gone
        /\ record'.id.child = record.id.child
    BY <1>8 DEF Update
  <2>2. w \in Write
    BY <2>1, RecordFacts, WritesAreTyped
  <2> HIDE DEF w
  <2> QED BY <2>1, <2>2, WritesSpare, StillMade, DeleteFrame
<1>9. ASSUME NEW v \in Values, UpdateUnanswered(v) PROVE DeleteInv'
  <2> DEFINE w == PutOf(record.id.child, v)
  <2>1. record # NoRecord /\ MaybeExecuted(w) /\ UNCHANGED <<record, gone>>
    BY <1>9 DEF UpdateUnanswered
  <2>2. w \in Write
    BY <2>1, RecordFacts, WritesAreTyped
  <2> HIDE DEF w
  <2> QED BY <2>1, <2>2, WritesSpare, StillMade, DeleteFrame
<1>10. CASE Delete
  <2> DEFINE w == DeleteOf(record.id.child)
  <2>1. record # NoRecord /\ Execute(w) /\ ReportGone
    BY <1>10, RecordFacts DEF Delete
  <2>2. w \in Write /\ store' = [store EXCEPT ![Primary][record.id.child] = Absent]
    BY <2>1, RecordFacts, WritesAreTyped DEF DeleteOf, Execute
  <2>3. store'[Primary][record.id.child] = Absent
    BY <2>1, <2>2, RecordFacts DEF TypeOK, Copies
  <2> HIDE DEF w
  <2> QED BY <2>1, <2>2, <2>3, WritesSpare, ReportFrame
<1>11. CASE DeleteRefused
  <2>1. /\ record # NoRecord /\ ReportGone /\ UNCHANGED <<store, nextId>>
        /\ ~Acceptable(DeleteOf(record.id.child))
    BY <1>11, OnlyNotThereIsGone DEF DeleteRefused, Refusals, server
  <2>2. store'[Primary][record.id.child] = Absent
    BY <2>1 DEF Acceptable, DeleteOf, Exists
  <2> QED BY <2>1, <2>2, QuietSpares, ReportFrame
<1>12. CASE DeleteUnanswered
  <2> DEFINE w == DeleteOf(record.id.child)
  <2>1. record # NoRecord /\ MaybeExecuted(w) /\ UNCHANGED <<record, gone>>
    BY <1>12 DEF DeleteUnanswered
  <2>2. w \in Write
    BY <2>1, RecordFacts, WritesAreTyped
  <2> HIDE DEF w
  <2> QED BY <2>1, <2>2, WritesSpare, StillMade, DeleteFrame
<1>13. ASSUME NEW c \in Replicas, Replicate(c) PROVE DeleteInv'
  <2>1. /\ UNCHANGED <<nextId, record, gone>>
        /\ store' = [store EXCEPT ![c] = store[Primary]] /\ c # Primary
    BY <1>13, ConstantsAssumption DEF Replicate
  <2>2. store'[Primary] = store[Primary]
    BY <2>1 DEF TypeOK, Copies
  <2>3. Spares
    BY <2>1, <2>2 DEF TypeOK, DeleteInv, DeletedStaysGone, Exists, Spares
  <2> QED BY <2>1, <2>3, StillMade, DeleteFrame
<1>14. ASSUME NEW w \in stray, StrayArrives(w) PROVE DeleteInv'
  <2>1. UNCHANGED <<record, gone>> /\ w \in Write
    BY <1>14 DEF StrayArrives, TypeOK
  <2>2. Spares
    BY <1>14, <2>1, WritesSpare, QuietSpares DEF StrayArrives
  <2> QED BY <2>1, <2>2, StillMade, DeleteFrame
<1>15. ASSUME NEW i \in Ids, NEW v \in Values \union {Absent}, ForeignWrite(i, v) PROVE DeleteInv'
  <2>1. /\ UNCHANGED <<nextId, record, gone>> /\ store[Primary][i] # Absent
        /\ store' = [store EXCEPT ![Primary][i] = v]
    BY <1>15 DEF ForeignWrite, Exists
  <2>2. Spares
    BY <2>1 DEF TypeOK, DeleteInv, DeletedStaysGone, Exists, Spares, Copies
  <2> QED BY <2>1, <2>2, StillMade, DeleteFrame
<1>16. CASE RemoveParent
  <2>1. /\ UNCHANGED <<nextId, record, gone>>
        /\ store' \in {store, [store EXCEPT ![Primary] = [i \in Ids |-> Absent]]}
    BY <1>16, Zenon DEF RemoveParent
  <2>2. Spares
    BY <2>1 DEF TypeOK, DeleteInv, DeletedStaysGone, Exists, Spares, Copies
  <2> QED BY <2>1, <2>2, StillMade, DeleteFrame
<1>17. CASE Tick
  BY <1>17, QuietSpares, StillMade, DeleteFrame DEF Tick, server
<1>18. CASE UNCHANGED vars
  BY <1>18, QuietSpares, StillMade, DeleteFrame DEF vars, server
<1> QED
  BY <1>1, <1>2, <1>3, <1>4, <1>5, <1>6, <1>7, <1>8, <1>9, <1>10, <1>11, <1>12, <1>13,
     <1>14, <1>15, <1>16, <1>17, <1>18 DEF Next

\* DeletedStaysGone, always: Delete (user.go:109 and the other handlers) reports a
\* resource gone only on a success or a true 404, and a repeated PUT or DELETE
\* that arrives afterwards finds nothing to write to.
THEOREM DeletesAreFinal == Spec => []DeletedStaysGone
<1>1. DeleteInv => DeletedStaysGone
  BY DEF DeleteInv
<1> QED BY <1>1, TypeInit, TypeStep, DeleteInvInit, DeleteInvStep, PTL DEF Spec

-----------------------------------------------------------------------------
(* Nothing is lost silently. *)

\* A step that makes nothing keeps NoSilentOrphans, if what leaves the record is
\* not there any more or was overlooked.
LEMMA KeptFrame ==
  ASSUME NoSilentOrphans, UNCHANGED maker, overlooked \subseteq overlooked',
         \A n : InDoubt(n) => InDoubt(n)',
         \A i \in Ids : Exists(Primary, i)' => Exists(Primary, i),
         record # NoRecord =>
           \/ record' # NoRecord /\ record'.id.child = record.id.child
           \/ store'[Primary][record.id.child] = Absent
           \/ record.id.child \in overlooked'
  PROVE  NoSilentOrphans'
<1> SUFFICES ASSUME NEW i \in Ids, maker[i] # 0, Exists(Primary, i)'
             PROVE  \/ record' # NoRecord /\ record'.id.child = i
                    \/ InDoubt(maker[i])'
                    \/ i \in overlooked'
  BY DEF NoSilentOrphans, Made
<1>1. Exists(Primary, i) /\ i \in Made
  BY DEF Made
<1>2. CASE record # NoRecord /\ record.id.child = i
  BY <1>2 DEF Exists
<1>3. CASE InDoubt(maker[i])
  <2>1. PICK n : n = maker[i]
    OBVIOUS
  <2>2. InDoubt(n)'
    BY <1>3, <2>1
  <2> QED BY <2>1, <2>2 DEF InDoubt
<1> QED BY <1>1, <1>2, <1>3 DEF NoSilentOrphans

\* Executing a POST keeps it, if the new resource is on record or in doubt.
LEMMA MadeFrame ==
  ASSUME TypeOK, CreateInv, NoSilentOrphans, NEW w \in Write, w.verb = "POST", Execute(w),
         UNCHANGED overlooked, \A n : InDoubt(n) => InDoubt(n)',
         record # NoRecord => record' = record,
         InDoubt(w.id)' \/ (record' # NoRecord /\ record'.id.child = nextId)
  PROVE  NoSilentOrphans'
<1>1. /\ Made' = Made \union {nextId} /\ maker'[nextId] = w.id
      /\ \A i \in Made : maker'[i] = maker[i] /\ i # nextId
  BY PostsMakeOne
<1>2. \A i \in Made : Exists(Primary, i)' => Exists(Primary, i)
  <2>1. store' = [store EXCEPT ![Primary][nextId] = w.value]
    BY DEF Execute
  <2> QED BY <1>1, <2>1 DEF Exists, TypeOK, Copies, Made
<1> SUFFICES ASSUME NEW i \in Made', Exists(Primary, i)'
             PROVE  \/ record' # NoRecord /\ record'.id.child = i
                    \/ InDoubt(maker[i])'
                    \/ i \in overlooked'
  BY DEF NoSilentOrphans
<1>3. CASE i = nextId
  <2>1. maker'[i] = w.id
    BY <1>1, <1>3
  <2> QED BY <1>3, <2>1 DEF InDoubt
<1>4. CASE i \in Made
  <2>1. PICK n : n = maker[i] /\ n = maker'[i]
    BY <1>1, <1>4
  <2>2. (record # NoRecord /\ record.id.child = i) \/ InDoubt(n) \/ i \in overlooked
    BY <1>2, <1>4, <2>1 DEF NoSilentOrphans
  <2>3. InDoubt(n) => InDoubt(maker[i])'
    BY <2>1 DEF InDoubt
  <2> QED BY <2>2, <2>3
<1> QED BY <1>1, <1>3, <1>4

\* A PUT or DELETE brings nothing into being.
LEMMA WritesReviveNothing ==
  ASSUME TypeOK, NEW w \in Write, w.verb # "POST", Execute(w) \/ MaybeExecuted(w)
  PROVE  maker' = maker /\ \A i \in Ids : Exists(Primary, i)' => Exists(Primary, i)
<1>1. CASE Execute(w)
  <2>1. store' = [store EXCEPT ![Primary][w.id] = w.value] /\ Exists(Primary, w.id)
    BY <1>1 DEF Execute, Acceptable
  <2>2. \A i \in Ids : i # w.id => store'[Primary][i] = store[Primary][i]
    BY <2>1 DEF TypeOK, Copies
  <2> QED BY <1>1, <2>1, <2>2, OnlyPostsMake DEF Exists
<1>2. CASE UNCHANGED <<store, maker>>
  BY <1>2 DEF Exists
<1> QED BY <1>1, <1>2 DEF MaybeExecuted, server

\* A Read that misses what exists at the copy it asked is of an override whose
\* times are beyond the window it lists.
LEMMA MissesAreOverlooked ==
  ASSUME TypeOK, NEW c \in Copies, ReadMisses(c)
  PROVE  record.id.child \in overlooked' /\ overlooked \subseteq overlooked'
<1>1. ~Exists(c, record.id.child) \/ (handler.windowed /\ ~InWindow)
  BY DEF ReadMisses, Found
<1>2. handler.windowed /\ ~InWindow => BeyondWindow
  <2>1. now \in Int /\ at \in Int /\ LookBehind \in Int /\ LookAhead \in Int
    BY ConstantsAssumption DEF TypeOK, Timeless
  <2> QED BY <2>1 DEF InWindow, BeyondWindow
<1> QED BY <1>1, <1>2 DEF ReadMisses

LEMMA OrphansInit == Init => NoSilentOrphans
BY DEF Init, NoSilentOrphans, Made

LEMMA OrphansStep ==
  TypeOK /\ TypeOK' /\ CreateInv /\ NoSilentOrphans /\ [Next]_vars => NoSilentOrphans'
<1> SUFFICES ASSUME TypeOK, TypeOK', CreateInv, NoSilentOrphans, [Next]_vars
             PROVE  NoSilentOrphans'
  OBVIOUS
<1>a. ASSUME UNCHANGED <<store, maker, record, overlooked>>,
             \A n : InDoubt(n) => InDoubt(n)'
      PROVE  NoSilentOrphans'
  BY <1>a, KeptFrame DEF Exists
<1>b. ASSUME NEW w \in Write, w.verb # "POST", Execute(w) \/ MaybeExecuted(w),
             UNCHANGED <<told, overlooked>>,
             record # NoRecord =>
               \/ record' # NoRecord /\ record'.id.child = record.id.child
               \/ store'[Primary][record.id.child] = Absent
      PROVE  NoSilentOrphans'
  BY <1>b, WritesReviveNothing, KeptFrame DEF InDoubt
<1>1. CASE CreateInvalid
  BY <1>1, <1>a, TellFacts DEF CreateInvalid, server
<1>2. CASE Create
  <2>1. Post \in Write /\ Post.verb = "POST" /\ Execute(Post) /\ overlooked' = overlooked
    BY <1>2, WritesAreTyped DEF Create, Post, PostOf
  <2>2. record = NoRecord /\ Tell("Success") /\ nextId \in Ids /\ wanted \in Values
    BY <1>2 DEF Create, Creating, Execute, Post, PostOf, TypeOK, Ids
  <2>3. record' # NoRecord /\ record'.id.child = nextId
    BY <1>2, <2>2, NewRecordIsTyped DEF Create, Composite
  <2> QED BY <2>1, <2>2, <2>3, TellFacts, MadeFrame
<1>3. ASSUME NEW c \in Copies, ReferenceNotVisible(c) PROVE NoSilentOrphans'
  BY <1>3, <1>a, TellFacts DEF ReferenceNotVisible, server
<1>4. CASE CreateRefused
  BY <1>4, <1>a, TellFacts DEF CreateRefused, server
<1>5. CASE CreateUnanswered
  <2>1. PICK code \in Inconclusive : Tell(code)
    BY <1>5, UnknownIsInconclusive DEF CreateUnanswered
  <2>2. /\ Post \in Write /\ Post.verb = "POST" /\ Post.id = Len(told) + 1
        /\ MaybeExecuted(Post) /\ UNCHANGED <<record, overlooked>> /\ record = NoRecord
    BY <1>5, WritesAreTyped DEF CreateUnanswered, Creating, Post, PostOf
  <2>3. CASE UNCHANGED <<store, maker>>
    BY <1>a, <2>1, <2>2, <2>3, TellFacts
  <2>4. CASE Execute(Post)
    <3>1. PICK w \in Write : w = Post
      BY <2>2
    <3>2. w.id \in DOMAIN told' /\ told'[w.id] = code
      BY <2>1, <2>2, <3>1, TellFacts
    <3>3. InDoubt(w.id)'
      BY <3>2 DEF InDoubt, Inconclusive
    <3> QED BY <2>1, <2>2, <2>4, <3>1, <3>3, TellFacts, MadeFrame
  <2> QED BY <2>2, <2>3, <2>4 DEF MaybeExecuted, server
<1>6. ASSUME NEW c \in Copies, ReadHits(c) PROVE NoSilentOrphans'
  <2>1. record # NoRecord /\ UNCHANGED <<store, maker, told, overlooked>>
    BY <1>6 DEF ReadHits, server, heard
  <2>2. store[c][record.id.child] \in Values
    BY <1>6, <2>1, RecordFacts DEF ReadHits, Found, Exists, TypeOK
  <2>3. PICK z \in Written :
          record' = [record EXCEPT !.value = store[c][record.id.child], !.zone = ToUTC(z)]
    BY <1>6 DEF ReadHits
  <2>4. record' \in Record /\ record'.id.child = record.id.child
    BY <2>1, <2>2, <2>3, RecordFacts, Normalised, WrittenIsZone DEF Record
  <2>5. record' # NoRecord
    BY <2>4, ConstantsAssumption
  <2> QED BY <2>1, <2>4, <2>5, KeptFrame DEF Exists, InDoubt
<1>7. ASSUME NEW c \in Copies, ReadMisses(c) PROVE NoSilentOrphans'
  <2>1. UNCHANGED <<store, maker, told>>
    BY <1>7 DEF ReadMisses, server, heard
  <2> QED BY <1>7, <2>1, MissesAreOverlooked, KeptFrame DEF Exists, InDoubt
<1>8. ASSUME NEW v \in Values, NEW desired \in {Parent, NoParent}, Update(v, desired)
      PROVE  NoSilentOrphans'
  <2>1. /\ record # NoRecord /\ Execute(PutOf(record.id.child, v))
        /\ UNCHANGED <<told, overlooked>>
        /\ \E z \in Written :
             record' = [id |-> [parent |-> record.id.parent, child |-> record.id.child],
                        value |-> v, zone |-> ToUTC(z)]
    BY <1>8 DEF Update, UpdatedOf, heard
  <2>2. record' # NoRecord /\ record'.id.child = record.id.child
    BY <2>1, RecordFacts, NewRecordIsTyped
  <2>3. PICK w \in Write : w.verb # "POST" /\ Execute(w)
    BY <2>1, RecordFacts, WritesAreTyped DEF PutOf
  <2> QED BY <1>b, <2>1, <2>2, <2>3
<1>9. ASSUME NEW v \in Values, UpdateUnanswered(v) PROVE NoSilentOrphans'
  <2>1. record # NoRecord /\ UNCHANGED <<record, told, overlooked>>
    BY <1>9 DEF UpdateUnanswered, heard
  <2>2. PICK w \in Write : w.verb # "POST" /\ MaybeExecuted(w)
    BY <1>9, <2>1, RecordFacts, WritesAreTyped DEF UpdateUnanswered, PutOf
  <2> QED BY <1>b, <2>1, <2>2
<1>10. CASE Delete
  <2>1. record # NoRecord /\ UNCHANGED <<told, overlooked>>
    BY <1>10 DEF Delete, ReportGone, heard
  <2>2. PICK w \in Write : w.verb # "POST" /\ Execute(w) /\ w = DeleteOf(record.id.child)
    BY <1>10, <2>1, RecordFacts, WritesAreTyped DEF Delete, DeleteOf
  <2>3. store' = [store EXCEPT ![Primary][record.id.child] = Absent]
    BY <2>2 DEF Execute, DeleteOf
  <2>4. store'[Primary][record.id.child] = Absent
    BY <2>1, <2>3, RecordFacts DEF TypeOK, Copies
  <2> QED BY <1>b, <2>1, <2>2, <2>4
<1>11. CASE DeleteRefused
  <2>1. /\ record # NoRecord /\ UNCHANGED <<store, maker, told, overlooked>>
        /\ ~Acceptable(DeleteOf(record.id.child))
    BY <1>11, OnlyNotThereIsGone DEF DeleteRefused, Refusals, ReportGone, server, heard
  <2>2. ~Exists(Primary, record.id.child)
    BY <2>1 DEF Acceptable, DeleteOf
  <2> QED BY <2>1, <2>2, KeptFrame DEF Exists, InDoubt
<1>12. CASE DeleteUnanswered
  <2>1. record # NoRecord /\ UNCHANGED <<record, told, overlooked>>
    BY <1>12 DEF DeleteUnanswered, heard
  <2>2. PICK w \in Write : w.verb # "POST" /\ MaybeExecuted(w)
    BY <1>12, <2>1, RecordFacts, WritesAreTyped DEF DeleteUnanswered, DeleteOf
  <2> QED BY <1>b, <2>1, <2>2
<1>13. ASSUME NEW c \in Replicas, Replicate(c) PROVE NoSilentOrphans'
  <2>1. /\ UNCHANGED <<maker, record, told, overlooked>>
        /\ store' = [store EXCEPT ![c] = store[Primary]] /\ c # Primary
    BY <1>13, ConstantsAssumption DEF Replicate, heard
  <2>2. store'[Primary] = store[Primary]
    BY <2>1 DEF TypeOK, Copies
  <2> QED BY <2>1, <2>2, KeptFrame DEF Exists, InDoubt
<1>14. ASSUME NEW w \in stray, StrayArrives(w) PROVE NoSilentOrphans'
  <2>1. UNCHANGED <<record, told, overlooked>> /\ w \in Write
    BY <1>14 DEF StrayArrives, TypeOK, heard
  <2>2. CASE Execute(w) /\ w.verb = "POST"
    <3>1. InDoubt(w.id)'
      BY <2>1, <2>2 DEF CreateInv, InDoubt
    <3> QED BY <2>1, <2>2, <3>1, MadeFrame DEF InDoubt
  <2>3. CASE Execute(w) /\ w.verb # "POST"
    BY <1>b, <2>1, <2>3
  <2>4. CASE UNCHANGED <<store, maker>>
    BY <1>a, <2>1, <2>4 DEF InDoubt
  <2> QED BY <1>14, <2>2, <2>3, <2>4 DEF StrayArrives
<1>15. ASSUME NEW i \in Ids, NEW v \in Values \union {Absent}, ForeignWrite(i, v)
       PROVE  NoSilentOrphans'
  <2>1. /\ UNCHANGED <<maker, record, told, overlooked>> /\ Exists(Primary, i)
        /\ store' = [store EXCEPT ![Primary][i] = v]
    BY <1>15 DEF ForeignWrite, heard
  <2>2. \A j \in Ids : j # i => store'[Primary][j] = store[Primary][j]
    BY <2>1 DEF TypeOK, Copies
  <2>3. \A j \in Ids : Exists(Primary, j)' => Exists(Primary, j)
    BY <2>1, <2>2 DEF Exists
  <2> QED BY <2>1, <2>3, KeptFrame DEF InDoubt
<1>16. CASE RemoveParent
  <2>1. /\ UNCHANGED <<maker, record, told, overlooked>>
        /\ store' \in {store, [store EXCEPT ![Primary] = [i \in Ids |-> Absent]]}
    BY <1>16, Zenon DEF RemoveParent, heard
  <2>2. \A j \in Ids : Exists(Primary, j)' => Exists(Primary, j)
    BY <2>1 DEF Exists, TypeOK, Copies
  <2> QED BY <2>1, <2>2, KeptFrame DEF InDoubt
<1>17. CASE Tick
  BY <1>17, <1>a DEF Tick, server, heard, InDoubt
<1>18. CASE UNCHANGED vars
  BY <1>18, <1>a DEF vars, server, heard, InDoubt
<1> QED
  BY <1>1, <1>2, <1>3, <1>4, <1>5, <1>6, <1>7, <1>8, <1>9, <1>10, <1>11, <1>12, <1>13,
     <1>14, <1>15, <1>16, <1>17, <1>18 DEF Next

\* NoSilentOrphans, always: a Delete that is refused is a success only if nothing is
\* there (IsNotFound, handler.go:117), every native id that is handed out splits
\* again (handler.go:133), and the window of the overrides' list
\* (schedule_override.go:63) is the only reason a list leaves out what it holds.
THEOREM NothingIsLostSilently == Spec => []NoSilentOrphans
BY TypeInit, TypeStep, CreateInvInit, CreateInvStep, OrphansInit, OrphansStep, PTL DEF Spec

=============================================================================
