------------------------ MODULE ScheduleUpdateProofs ------------------------
(***************************************************************************)
(* The layers of a schedule under Update, for any forma, number of         *)
(* attempts and number of late PUTs: that edits stay in place, are exact   *)
(* while nothing disturbs them, and touch only layers on record, and what  *)
(* a PUT does to a schedule that is as formae has it on record.            *)
(*                                                                         *)
(* Everything rests on what one execution of a PUT does to the layers      *)
(* (ExecuteEffect): the layers there were keep their places and their ids, *)
(* those the PUT names say what it says, and the new ones follow with      *)
(* fresh ids.                                                              *)
(***************************************************************************)
EXTENDS ScheduleUpdate, SequenceTheorems, FiniteSetTheorems, TLAPS

USE DEF NoId

-----------------------------------------------------------------------------
(* Sequences of layers. *)

LEMMA LayerFields ==
  ASSUME NEW ls \in Seq(Layer), NEW i \in DOMAIN ls
  PROVE  ls[i] \in Layer /\ ls[i].id \in 0 .. MaxId /\ ls[i].body \in Bodies
<1>1. i \in 1 .. Len(ls)
  BY LenProperties
<1>2. ls[i] \in Layer
  BY <1>1, ElementOfSeq
<1> QED BY <1>2 DEF Layer

\* A sequence is a function on 1 .. n.
LEMMA FunctionIsSeq ==
  ASSUME NEW S, NEW n \in Nat, NEW f \in [1 .. n -> S]
  PROVE  f \in Seq(S) /\ Len(f) = n /\ DOMAIN f = 1 .. n
<1>1. f \in Seq(S)
  BY SeqDef
<1> QED BY <1>1, LenProperties

\* The bodies of a forma and the ids the server gives them.
LEMMA NumberedLayers ==
  /\ Numbered(InitLayers) \in Seq(Layer)
  /\ Len(Numbered(InitLayers)) = Len(InitLayers)
  /\ DOMAIN Numbered(InitLayers) = 1 .. Len(InitLayers)
  /\ \A i \in 1 .. Len(InitLayers) : Numbered(InitLayers)[i].id = i
<1>1. /\ InitLayers \in Seq(Bodies) /\ Len(InitLayers) \in Nat
      /\ DOMAIN InitLayers = 1 .. Len(InitLayers)
      /\ \A i \in 1 .. Len(InitLayers) : InitLayers[i] \in Bodies
      /\ Len(InitLayers) <= MaxId /\ MaxId \in Nat
  BY ConstantsAssumption, LenProperties, ElementOfSeq
<1>2. Numbered(InitLayers) \in [1 .. Len(InitLayers) -> Layer]
  BY <1>1 DEF Numbered, Layer
<1>3. \A i \in 1 .. Len(InitLayers) : Numbered(InitLayers)[i].id = i
  BY <1>1 DEF Numbered
<1> QED BY <1>1, <1>2, <1>3, FunctionIsSeq

\* The PUT of an Update: as long as the forma, the ids from the record.
LEMMA CarriedLayers ==
  ASSUME NEW old \in Seq(Layer), NEW w \in Seq(Bodies)
  PROVE  LET req == CarryLayerIDs(old, ToSDK(w))
         IN  /\ req \in Seq(Layer) /\ Len(req) = Len(w) /\ BodiesOf(req) = w
             /\ \A i \in DOMAIN req :
                  req[i].id = IF i <= Len(old) THEN old[i].id ELSE NoId
<1> DEFINE new == ToSDK(w)
<1> DEFINE req == CarryLayerIDs(old, new)
<1>1. /\ Len(w) \in Nat /\ DOMAIN w = 1 .. Len(w) /\ \A i \in 1 .. Len(w) : w[i] \in Bodies
      /\ Len(old) \in Nat /\ DOMAIN old = 1 .. Len(old)
      /\ MaxId \in Nat
  BY ConstantsAssumption, LenProperties, ElementOfSeq
<1>2. \A i \in DOMAIN old : old[i].id \in 0 .. MaxId
  BY LayerFields
<1>3. DOMAIN new = 1 .. Len(w) /\ \A i \in 1 .. Len(w) : new[i] = [id |-> NoId, body |-> w[i]]
  BY <1>1 DEF ToSDK
<1> HIDE DEF new
<1>4. /\ DOMAIN req = 1 .. Len(w)
      /\ \A i \in 1 .. Len(w) :
           req[i] = [id |-> IF i <= Len(old) THEN old[i].id ELSE NoId, body |-> w[i]]
  BY <1>1, <1>3 DEF CarryLayerIDs
<1>5. req = [i \in 1 .. Len(w) |-> req[i]]
  BY <1>3 DEF CarryLayerIDs
<1> HIDE DEF req
<1>6. \A i \in 1 .. Len(w) : req[i] \in Layer
  BY <1>1, <1>2, <1>4 DEF Layer
<1>7. req \in [1 .. Len(w) -> Layer]
  BY <1>5, <1>6
<1>8. BodiesOf(req) = w
  <2>1. BodiesOf(req) = [i \in 1 .. Len(w) |-> w[i]]
    BY <1>4 DEF BodiesOf
  <2>2. w = [i \in 1 .. Len(w) |-> w[i]]
    BY LenProperties
  <2> QED BY <2>1, <2>2
<1>9. req \in Seq(Layer) /\ Len(req) = Len(w) /\ DOMAIN req = 1 .. Len(w)
  BY <1>1, <1>7, FunctionIsSeq
<1> QED BY <1>4, <1>8, <1>9 DEF req, new

-----------------------------------------------------------------------------
(* What one execution of a PUT does. *)

LEMMA NewLayers ==
  ASSUME NEW req \in Seq(Layer)
  PROVE  /\ New(req) \in Seq(Layer) /\ Len(New(req)) \in Nat
         /\ ~HasId(req, NoId) => New(req) = <<>>
<1> DEFINE I == {i \in DOMAIN req : req[i].id # NoId}
<1>1. Len(req) \in Nat /\ DOMAIN req = 1 .. Len(req) /\ \A i \in 1 .. Len(req) : req[i] \in Layer
  BY LenProperties, ElementOfSeq
<1>2. IsFiniteSet(1 .. Len(req)) /\ Cardinality(1 .. Len(req)) = Len(req)
  <2> DEFINE n == Len(req)
  <2>1. n \in Nat
    BY <1>1
  <2> HIDE DEF n
  <2>2. IsFiniteSet(1 .. n) /\ Cardinality(1 .. n) = IF 1 > n THEN 0 ELSE n - 1 + 1
    BY <2>1, FS_Interval
  <2>3. Cardinality(1 .. n) = n
    BY <2>1, <2>2
  <2> QED BY <2>2, <2>3 DEF n
<1>3. IsFiniteSet(I)
  BY <1>1, <1>2, FS_Subset
<1>4. Cardinality(I) \in Nat
  BY <1>3, FS_CardinalityType
<1>5. Named(req) \in Nat
  BY <1>4 DEF Named
<1>6. ~HasId(req, NoId) => Named(req) = Len(req)
  <2> SUFFICES ASSUME ~HasId(req, NoId) PROVE Named(req) = Len(req)
    OBVIOUS
  <2>1. I = 1 .. Len(req)
    BY <1>1 DEF HasId
  <2> QED BY <2>1, <1>2 DEF Named
<1>7. \A i \in Named(req) + 1 .. Len(req) : req[i] \in Layer
  BY <1>1, <1>5
<1>8. New(req) \in Seq(Layer)
  BY <1>1, <1>5, <1>7, SubSeqProperties DEF New
<1>9. ~HasId(req, NoId) => New(req) = <<>>
  BY <1>1, <1>5, <1>6, SubSeqEmpty DEF New
<1> QED BY <1>8, <1>9, LenProperties

LEMMA AppendedLayers ==
  ASSUME NEW req \in Seq(Layer), nextId \in 1 .. MaxId + 1,
         nextId + Len(New(req)) <= MaxId + 1
  PROVE  /\ Appended(req) \in Seq(Layer) /\ Len(Appended(req)) = Len(New(req))
         /\ \A i \in 1 .. Len(New(req)) : Appended(req)[i].id = nextId + i - 1
<1> DEFINE n == Len(New(req))
<1>1. New(req) \in Seq(Layer) /\ n \in Nat /\ DOMAIN New(req) = 1 .. n
  BY NewLayers, LenProperties
<1>2. \A i \in 1 .. n : New(req)[i] \in Layer
  BY <1>1, ElementOfSeq
<1>3. MaxId \in Nat
  BY ConstantsAssumption
<1>4. Appended(req) = [i \in 1 .. n |-> [New(req)[i] EXCEPT !.id = nextId + i - 1]]
  BY <1>1 DEF Appended
<1>5. \A i \in 1 .. n : nextId + i - 1 \in 0 .. MaxId
  BY <1>1, <1>3
<1>6. \A i \in 1 .. n : /\ [New(req)[i] EXCEPT !.id = nextId + i - 1] \in Layer
                        /\ [New(req)[i] EXCEPT !.id = nextId + i - 1].id = nextId + i - 1
  BY <1>2, <1>5 DEF Layer
<1> HIDE DEF n
<1>7. Appended(req) \in [1 .. n -> Layer]
  BY <1>4, <1>6
<1>8. Appended(req) \in Seq(Layer) /\ Len(Appended(req)) = n
  BY <1>1, <1>7, FunctionIsSeq
<1>9. \A i \in 1 .. n : Appended(req)[i].id = nextId + i - 1
  BY <1>4, <1>6
<1> QED BY <1>8, <1>9 DEF n

LEMMA EditedLayers ==
  ASSUME NEW ls \in Seq(Layer), NEW req \in Seq(Layer)
  PROVE  /\ Edited(ls, req) \in Seq(Layer) /\ Len(Edited(ls, req)) = Len(ls)
         /\ \A i \in DOMAIN ls :
              LET l == Edited(ls, req)[i]
              IN  /\ l.id = ls[i].id
                  /\ l = ls[i] \/ (HasId(req, ls[i].id) /\ \E j \in DOMAIN req : req[j] = l)
                  /\ HasId(req, ls[i].id) => \E j \in DOMAIN req : req[j] = l
<1> DEFINE E(i) == IF HasId(req, ls[i].id)
                   THEN CHOOSE l \in {req[j] : j \in DOMAIN req} : l.id = ls[i].id
                   ELSE ls[i]
<1>1. Len(ls) \in Nat /\ DOMAIN ls = 1 .. Len(ls)
  BY LenProperties
<1>2. Edited(ls, req) = [i \in 1 .. Len(ls) |-> E(i)]
  BY <1>1 DEF Edited
<1>3. ASSUME NEW i \in 1 .. Len(ls)
      PROVE  /\ E(i) \in Layer /\ E(i).id = ls[i].id
             /\ HasId(req, ls[i].id) => \E j \in DOMAIN req : req[j] = E(i)
             /\ ~HasId(req, ls[i].id) => E(i) = ls[i]
  <2>1. CASE HasId(req, ls[i].id)
    <3>1. \E l \in {req[j] : j \in DOMAIN req} : l.id = ls[i].id
      BY <2>1 DEF HasId
    <3>2. E(i) \in {req[j] : j \in DOMAIN req} /\ E(i).id = ls[i].id
      BY <2>1, <3>1
    <3> HIDE DEF E
    <3>3. PICK j \in DOMAIN req : req[j] = E(i)
      BY <3>2
    <3>4. E(i) \in Layer
      BY <3>3, LayerFields
    <3> QED BY <2>1, <3>2, <3>3, <3>4
  <2>2. CASE ~HasId(req, ls[i].id)
    BY <1>1, <2>2, LayerFields
  <2> QED BY <2>1, <2>2
<1> HIDE DEF E
<1>4. Edited(ls, req) \in [1 .. Len(ls) -> Layer]
  BY <1>2, <1>3
<1>5. Edited(ls, req) \in Seq(Layer) /\ Len(Edited(ls, req)) = Len(ls)
  BY <1>1, <1>4, FunctionIsSeq
<1>6. \A i \in DOMAIN ls : Edited(ls, req)[i] = E(i)
  BY <1>1, <1>2
<1> QED BY <1>1, <1>3, <1>5, <1>6, Zenon

\* Layers keep their places and ids; what changes is named; what is new has a
\* fresh id.
Effect(req) ==
  /\ layers' \in Seq(Layer) /\ nextId' \in nextId .. MaxId + 1
  /\ Len(layers') = Len(layers) + (nextId' - nextId)
  /\ \A i \in 1 .. Len(layers) :
       /\ layers'[i].id = layers[i].id
       /\ layers'[i] = layers[i] \/ HasId(req, layers[i].id)
       /\ HasId(req, layers[i].id) => \E j \in DOMAIN req : req[j] = layers'[i]
  /\ \A i \in Len(layers) + 1 .. Len(layers') : layers'[i].id = nextId + i - Len(layers) - 1
  /\ ~HasId(req, NoId) => nextId' = nextId

LEMMA ExecuteEffect ==
  ASSUME NEW req \in Seq(Layer), layers \in Seq(Layer), nextId \in 1 .. MaxId + 1, Execute(req)
  PROVE  Effect(req)
<1> DEFINE e == Edited(layers, req)
<1> DEFINE a == Appended(req)
<1>1. /\ layers' = e \o a
      /\ nextId' = nextId + Len(New(req)) /\ nextId + Len(New(req)) <= MaxId + 1
  BY DEF Execute
<1>2. Len(New(req)) \in Nat /\ (~HasId(req, NoId) => New(req) = <<>>)
  BY NewLayers
<1>3. /\ a \in Seq(Layer) /\ Len(a) = Len(New(req))
      /\ \A i \in 1 .. Len(New(req)) : a[i].id = nextId + i - 1
  BY <1>1, AppendedLayers
<1>4. /\ e \in Seq(Layer) /\ Len(e) = Len(layers)
      /\ \A i \in DOMAIN layers :
           /\ e[i].id = layers[i].id
           /\ e[i] = layers[i] \/ HasId(req, layers[i].id)
           /\ HasId(req, layers[i].id) => \E j \in DOMAIN req : req[j] = e[i]
  BY EditedLayers, Zenon
<1>5. DOMAIN layers = 1 .. Len(layers) /\ Len(layers) \in Nat
  BY LenProperties
<1>6. MaxId \in Nat
  BY ConstantsAssumption
<1> HIDE DEF e, a
<1>7. /\ layers' \in Seq(Layer) /\ Len(layers') = Len(e) + Len(a)
      /\ \A i \in 1 .. Len(e) + Len(a) :
           layers'[i] = IF i <= Len(e) THEN e[i] ELSE a[i - Len(e)]
  <2>1. /\ e \o a \in Seq(Layer) /\ Len(e \o a) = Len(e) + Len(a)
        /\ \A i \in 1 .. Len(e) + Len(a) :
             (e \o a)[i] = IF i <= Len(e) THEN e[i] ELSE a[i - Len(e)]
    <3>1. e \in Seq(Layer) /\ a \in Seq(Layer)
      BY <1>3, <1>4
    <3> QED BY <3>1, ConcatProperties, Zenon
  <2> QED BY <1>1, <2>1, Zenon
<1>8. \A i \in 1 .. Len(layers) : layers'[i] = e[i]
  BY <1>2, <1>3, <1>4, <1>5, <1>7
<1>9. \A i \in Len(layers) + 1 .. Len(layers') : layers'[i].id = nextId + i - Len(layers) - 1
  <2> SUFFICES ASSUME NEW i \in Len(layers) + 1 .. Len(layers')
               PROVE  layers'[i].id = nextId + i - Len(layers) - 1
    OBVIOUS
  <2>1. layers'[i] = a[i - Len(layers)] /\ i - Len(layers) \in 1 .. Len(New(req))
    BY <1>2, <1>3, <1>4, <1>5, <1>7
  <2>2. a[i - Len(layers)].id = nextId + (i - Len(layers)) - 1
    BY <1>3, <2>1
  <2> QED BY <2>1, <2>2, <1>5
<1>10. ~HasId(req, NoId) => nextId' = nextId
  <2>1. Len(<<>>) = 0
    OBVIOUS
  <2> QED BY <1>1, <1>2, <2>1
<1>11. nextId' \in nextId .. MaxId + 1
  BY <1>1, <1>2, <1>6
<1>12. Len(layers') = Len(layers) + (nextId' - nextId)
  BY <1>1, <1>2, <1>3, <1>4, <1>5, <1>7
<1>13. \A i \in 1 .. Len(layers) :
         /\ layers'[i].id = layers[i].id
         /\ layers'[i] = layers[i] \/ HasId(req, layers[i].id)
         /\ HasId(req, layers[i].id) => \E j \in DOMAIN req : req[j] = layers'[i]
  BY <1>4, <1>5, <1>8, Zenon
<1> QED BY <1>7, <1>9, <1>10, <1>11, <1>12, <1>13 DEF Effect

-----------------------------------------------------------------------------
(* Type correctness. *)

LEMMA InitType == Init => TypeOK
<1> SUFFICES ASSUME Init PROVE TypeOK
  OBVIOUS
<1>1. layers \in Seq(Layer) /\ prior \in Seq(Layer)
  BY NumberedLayers DEF Init
<1>2. nextId \in 1 .. MaxId + 1
  <2>1. Len(InitLayers) \in Nat
    BY ConstantsAssumption, LenProperties
  <2> QED BY <2>1, ConstantsAssumption DEF Init
<1>3. sent \in Seq(Layer)
  BY EmptySeq DEF Init
<1>4. attempt \in 0 .. MaxAttempts
  BY ConstantsAssumption DEF Init
<1> QED BY <1>1, <1>2, <1>3, <1>4 DEF Init, TypeOK

\* Somebody else's edits: a layer is put at the end, or one is taken out.
LEMMA AddedLayer ==
  ASSUME layers \in Seq(Layer), nextId \in 1 .. MaxId + 1, NEW b \in Bodies, AddLayer(b)
  PROVE  /\ layers' \in Seq(Layer) /\ nextId' \in nextId .. MaxId + 1 /\ nextId' = nextId + 1
         /\ Len(layers') = Len(layers) + 1
         /\ layers'[Len(layers')].id = nextId
         /\ \A i \in 1 .. Len(layers) : layers'[i] = layers[i]
<1> DEFINE l == [id |-> nextId, body |-> b]
<1>1. MaxId \in Nat /\ nextId <= MaxId
  BY ConstantsAssumption DEF AddLayer
<1>2. l \in Layer /\ l.id = nextId
  BY <1>1 DEF Layer
<1>3. layers' = Append(layers, l) /\ nextId' = nextId + 1
  BY DEF AddLayer
<1> HIDE DEF l
<1>4. /\ Append(layers, l) \in Seq(Layer) /\ Len(Append(layers, l)) = Len(layers) + 1
      /\ Append(layers, l)[Len(layers) + 1] = l
      /\ \A i \in 1 .. Len(layers) : Append(layers, l)[i] = layers[i]
  BY <1>2, AppendProperties
<1> QED BY <1>1, <1>2, <1>3, <1>4

LEMMA RemovedLayer ==
  ASSUME layers \in Seq(Layer), NEW r \in DOMAIN layers, RemoveLayer(r)
  PROVE  /\ layers' \in Seq(Layer) /\ Len(layers') = Len(layers) - 1
         /\ \A i \in 1 .. Len(layers') : layers'[i] = IF i < r THEN layers[i] ELSE layers[i + 1]
<1> DEFINE front == SubSeq(layers, 1, r - 1)
<1> DEFINE back  == SubSeq(layers, r + 1, Len(layers))
<1>1. /\ Len(layers) \in Nat /\ r \in 1 .. Len(layers)
      /\ \A i \in 1 .. Len(layers) : layers[i] \in Layer
  BY LenProperties, ElementOfSeq
<1>2. /\ front \in Seq(Layer) /\ Len(front) = r - 1
      /\ \A i \in 1 .. r - 1 : front[i] = layers[i]
  <2>1. \A i \in 1 .. r - 1 : layers[i] \in Layer
    BY <1>1
  <2>2. /\ front \in Seq(Layer) /\ Len(front) = IF 1 <= r - 1 THEN r - 1 - 1 + 1 ELSE 0
        /\ \A i \in 1 .. r - 1 - 1 + 1 : front[i] = layers[1 + i - 1]
    BY <1>1, <2>1, SubSeqProperties
  <2> HIDE DEF front
  <2> QED BY <1>1, <2>2
<1>3. /\ back \in Seq(Layer) /\ Len(back) = Len(layers) - r
      /\ \A i \in 1 .. Len(layers) - r : back[i] = layers[r + i]
  <2>1. \A i \in r + 1 .. Len(layers) : layers[i] \in Layer
    BY <1>1
  <2>2. /\ back \in Seq(Layer)
        /\ Len(back) = IF r + 1 <= Len(layers) THEN Len(layers) - (r + 1) + 1 ELSE 0
        /\ \A i \in 1 .. Len(layers) - (r + 1) + 1 : back[i] = layers[r + 1 + i - 1]
    BY <1>1, <2>1, SubSeqProperties
  <2> HIDE DEF back
  <2> QED BY <1>1, <2>2
<1>4. layers' = front \o back
  BY DEF RemoveLayer
<1> HIDE DEF front, back
<1>5. /\ front \o back \in Seq(Layer) /\ Len(front \o back) = Len(front) + Len(back)
      /\ \A i \in 1 .. Len(front) + Len(back) :
           (front \o back)[i] = IF i <= Len(front) THEN front[i] ELSE back[i - Len(front)]
  BY <1>2, <1>3, ConcatProperties
<1>6. Len(layers') = Len(layers) - 1
  BY <1>1, <1>2, <1>3, <1>4, <1>5
<1>7. ASSUME NEW i \in 1 .. Len(layers')
      PROVE  layers'[i] = IF i < r THEN layers[i] ELSE layers[i + 1]
  <2>1. CASE i < r
    BY <1>1, <1>2, <1>3, <1>4, <1>5, <1>6, <2>1
  <2>2. CASE i >= r
    <3>1. layers'[i] = back[i - (r - 1)] /\ i - (r - 1) \in 1 .. Len(layers) - r
      BY <1>1, <1>2, <1>3, <1>4, <1>5, <1>6, <2>2
    <3>2. back[i - (r - 1)] = layers[r + (i - (r - 1))]
      BY <1>3, <3>1
    <3>3. r + (i - (r - 1)) = i + 1 /\ ~(i < r)
      BY <1>1, <2>2
    <3> QED BY <3>1, <3>2, <3>3
  <2> QED BY <1>1, <2>1, <2>2
<1> QED BY <1>4, <1>5, <1>6, <1>7

-----------------------------------------------------------------------------
(* What every step does to the layers: ids stay unique, those that were    *)
(* handed out before belong to layers there were, and only a layer that is *)
(* named by the PUT, if there is one, changes.                             *)

Settled(req) ==
  /\ layers' \in Seq(Layer) /\ nextId' \in nextId .. MaxId + 1
  /\ \A k \in DOMAIN layers' : layers'[k].id \in 1 .. nextId' - 1
  /\ \A k, m \in DOMAIN layers' : layers'[k].id = layers'[m].id => k = m
  /\ \A k \in DOMAIN layers' : layers'[k].id < nextId =>
       \E i \in DOMAIN layers : /\ layers[i].id = layers'[k].id
                                /\ layers[i] = layers'[k] \/ HasId(req, layers[i].id)

LEMMA ExecuteSettles ==
  ASSUME TypeOK, IdInv, NEW req \in Seq(Layer), Effect(req)
  PROVE  Settled(req)
<1>1. /\ Len(layers) \in Nat /\ DOMAIN layers = 1 .. Len(layers)
      /\ layers' \in Seq(Layer) /\ Len(layers') \in Nat /\ DOMAIN layers' = 1 .. Len(layers')
      /\ nextId \in Nat \ {0} /\ nextId' \in Nat /\ MaxId \in Nat
  BY LenProperties, ConstantsAssumption DEF TypeOK, Effect
<1>2. /\ nextId' \in nextId .. MaxId + 1 /\ nextId <= nextId'
      /\ Len(layers') = Len(layers) + (nextId' - nextId)
  BY <1>1 DEF Effect
<1>3. \A k \in 1 .. Len(layers) :
        /\ layers'[k].id = layers[k].id /\ layers[k].id \in 1 .. nextId - 1
        /\ layers'[k] = layers[k] \/ HasId(req, layers[k].id)
  BY <1>1, Zenon DEF Effect, IdInv
<1>4. ASSUME NEW k \in 1 .. Len(layers'), k > Len(layers)
      PROVE  /\ layers'[k].id = nextId + k - Len(layers) - 1
             /\ layers'[k].id \in nextId .. nextId' - 1
  <2>1. k \in Len(layers) + 1 .. Len(layers')
    BY <1>1, <1>4
  <2>2. layers'[k].id = nextId + k - Len(layers) - 1
    BY <2>1 DEF Effect
  <2>3. nextId + k - Len(layers) - 1 \in nextId .. nextId' - 1
    BY <1>1, <1>2, <1>4
  <2> QED BY <2>2, <2>3
<1>5. \A k, m \in 1 .. Len(layers) : layers[k].id = layers[m].id => k = m
  BY <1>1 DEF IdInv
<1>6. \A k \in DOMAIN layers' : layers'[k].id \in 1 .. nextId' - 1
  <2> SUFFICES ASSUME NEW k \in 1 .. Len(layers') PROVE layers'[k].id \in 1 .. nextId' - 1
    BY <1>1
  <2>1. CASE k <= Len(layers)
    BY <1>1, <1>2, <1>3, <2>1
  <2>2. CASE k > Len(layers)
    BY <1>1, <1>2, <1>4, <2>2
  <2> QED BY <1>1, <2>1, <2>2
<1>7. \A k, m \in DOMAIN layers' : layers'[k].id = layers'[m].id => k = m
  <2> SUFFICES ASSUME NEW k \in 1 .. Len(layers'), NEW m \in 1 .. Len(layers'),
                      layers'[k].id = layers'[m].id
               PROVE  k = m
    BY <1>1
  <2>1. CASE k <= Len(layers) /\ m <= Len(layers)
    <3>1. k \in 1 .. Len(layers) /\ m \in 1 .. Len(layers)
      BY <1>1, <2>1
    <3> QED BY <1>3, <1>5, <3>1
  <2>2. CASE k <= Len(layers) /\ m > Len(layers)
    <3>1. layers'[k].id \in 1 .. nextId - 1
      BY <1>1, <1>3, <2>2
    <3>2. layers'[m].id \in nextId .. nextId' - 1
      BY <1>4, <2>2
    <3> QED BY <1>1, <3>1, <3>2
  <2>3. CASE k > Len(layers) /\ m <= Len(layers)
    <3>1. layers'[m].id \in 1 .. nextId - 1
      BY <1>1, <1>3, <2>3
    <3>2. layers'[k].id \in nextId .. nextId' - 1
      BY <1>4, <2>3
    <3> QED BY <1>1, <3>1, <3>2
  <2>4. CASE k > Len(layers) /\ m > Len(layers)
    BY <1>1, <1>4, <2>4
  <2> QED BY <1>1, <2>1, <2>2, <2>3, <2>4
<1>8. ASSUME NEW k \in 1 .. Len(layers'), layers'[k].id < nextId
      PROVE  /\ k \in 1 .. Len(layers) /\ layers[k].id = layers'[k].id
             /\ layers[k] = layers'[k] \/ HasId(req, layers[k].id)
  <2>1. CASE k <= Len(layers)
    <3>1. k \in 1 .. Len(layers)
      BY <1>1, <2>1
    <3> QED BY <1>3, <3>1, Zenon
  <2>2. CASE k > Len(layers)
    BY <1>1, <1>4, <1>8, <2>2
  <2> QED BY <1>1, <2>1, <2>2
<1>9. \A k \in DOMAIN layers' : layers'[k].id < nextId =>
        \E i \in DOMAIN layers : /\ layers[i].id = layers'[k].id
                                 /\ layers[i] = layers'[k] \/ HasId(req, layers[i].id)
  BY <1>1, <1>8, Zenon
<1>10. layers' \in Seq(Layer) /\ nextId' \in nextId .. MaxId + 1
  BY <1>1, <1>2
<1> QED BY <1>6, <1>7, <1>9, <1>10, Zenon DEF Settled

LEMMA QuietSettles ==
  ASSUME TypeOK, IdInv, UNCHANGED <<layers, nextId>>, NEW req
  PROVE  Settled(req)
<1>1. nextId \in nextId .. MaxId + 1
  BY ConstantsAssumption DEF TypeOK
<1>2. /\ layers \in Seq(Layer)
      /\ \A k \in DOMAIN layers : layers[k].id \in 1 .. nextId - 1
      /\ \A k, m \in DOMAIN layers : layers[k].id = layers[m].id => k = m
  BY DEF TypeOK, IdInv
<1>3. layers' = layers /\ nextId' = nextId
  OBVIOUS
<1> QED BY <1>1, <1>2, <1>3, Zenon DEF Settled

LEMMA ForeignSettles ==
  ASSUME TypeOK, IdInv, ForeignEdit
  PROVE  Settled(<<>>)
<1>1. /\ Len(layers) \in Nat /\ DOMAIN layers = 1 .. Len(layers)
      /\ layers \in Seq(Layer) /\ nextId \in 1 .. MaxId + 1 /\ MaxId \in Nat
  BY LenProperties, ConstantsAssumption DEF TypeOK
<1>2. \A k \in 1 .. Len(layers) : layers[k].id \in 1 .. nextId - 1
  BY <1>1 DEF IdInv
<1>3. \A k, m \in 1 .. Len(layers) : layers[k].id = layers[m].id => k = m
  BY <1>1 DEF IdInv
<1>4. ASSUME NEW b \in Bodies, AddLayer(b)
      PROVE  Settled(<<>>)
  <2>1. /\ layers' \in Seq(Layer) /\ nextId' \in nextId .. MaxId + 1 /\ nextId' = nextId + 1
        /\ Len(layers') = Len(layers) + 1
        /\ layers'[Len(layers')].id = nextId
        /\ \A i \in 1 .. Len(layers) : layers'[i] = layers[i]
    BY <1>1, <1>4, AddedLayer
  <2>2. DOMAIN layers' = 1 .. Len(layers) + 1 /\ layers'[Len(layers) + 1].id = nextId
    BY <2>1, LenProperties
  <2>3. \A k \in 1 .. Len(layers) + 1 : layers'[k].id \in 1 .. nextId' - 1
    BY <1>1, <1>2, <2>1, <2>2
  <2>4. ASSUME NEW k \in 1 .. Len(layers) + 1, NEW m \in 1 .. Len(layers) + 1,
               layers'[k].id = layers'[m].id
        PROVE  k = m
    BY <1>1, <1>2, <1>3, <2>1, <2>2, <2>4
  <2>5. ASSUME NEW k \in 1 .. Len(layers) + 1, layers'[k].id < nextId
        PROVE  k \in DOMAIN layers /\ layers[k] = layers'[k]
    <3>1. k # Len(layers) + 1
      BY <1>1, <2>2, <2>5
    <3> QED BY <1>1, <2>1, <3>1
  <2> QED BY <2>1, <2>2, <2>3, <2>4, <2>5, Zenon DEF Settled
<1>5. ASSUME NEW r \in DOMAIN layers, RemoveLayer(r)
      PROVE  Settled(<<>>)
  <2>1. /\ layers' \in Seq(Layer) /\ Len(layers') = Len(layers) - 1
        /\ \A i \in 1 .. Len(layers') : layers'[i] = IF i < r THEN layers[i] ELSE layers[i + 1]
    BY <1>1, <1>5, RemovedLayer
  <2>2. DOMAIN layers' = 1 .. Len(layers') /\ nextId' = nextId
    BY <2>1, <1>5, LenProperties DEF RemoveLayer
  <2> DEFINE old(i) == IF i < r THEN i ELSE i + 1
  <2>3. \A i \in 1 .. Len(layers') : old(i) \in 1 .. Len(layers) /\ layers'[i] = layers[old(i)]
    BY <1>1, <2>1
  <2>4. \A k, m \in 1 .. Len(layers') : old(k) = old(m) => k = m
    BY <1>1, <2>1
  <2> HIDE DEF old
  <2>5. \A k \in 1 .. Len(layers') : layers'[k].id \in 1 .. nextId' - 1
    BY <1>2, <2>2, <2>3
  <2>6. \A k, m \in 1 .. Len(layers') : layers'[k].id = layers'[m].id => k = m
    BY <1>3, <2>3, <2>4
  <2>7. nextId' \in nextId .. MaxId + 1
    BY <1>1, <2>2
  <2>8. \A k \in 1 .. Len(layers') : \E i \in DOMAIN layers : layers[i] = layers'[k]
    BY <1>1, <2>3
  <2> QED BY <2>1, <2>2, <2>5, <2>6, <2>7, <2>8, Zenon DEF Settled
<1> QED BY <1>4, <1>5 DEF ForeignEdit

-----------------------------------------------------------------------------
(* Every step, whose PUT is one under way, if any. *)

LEMMA RequestTypes == TypeOK => \A req \in stray \union {sent, <<>>} : req \in Seq(Layer)
BY EmptySeq DEF TypeOK

LEMMA ExecuteHasEffect ==
  ASSUME TypeOK, NEW req \in stray \union {sent}, Execute(req)
  PROVE  req \in Seq(Layer) /\ Effect(req)
<1>1. req \in Seq(Layer) /\ layers \in Seq(Layer) /\ nextId \in 1 .. MaxId + 1
  BY RequestTypes DEF TypeOK
<1> QED BY <1>1, ExecuteEffect

\* The layers change when a PUT under way is executed or somebody else edits them.
LEMMA StepLayers ==
  ASSUME [Next]_vars
  PROVE  \/ \E req \in stray \union {sent} : Execute(req)
         \/ ForeignEdit
         \/ UNCHANGED <<layers, nextId>>
BY DEF Next, vars, server, Begin, Accepted, Refused, Unanswered, Read, StrayArrives

LEMMA StepRecord ==
  ASSUME [Next]_vars
  PROVE  /\ prior' = prior \/ prior' = layers'
         /\ stray' \union {sent'} \subseteq stray \union {sent} \/ \E w \in Wishes : Begin(w)
BY DEF Next, vars, server, update, Begin, Accepted, Refused, Unanswered, Read, StrayArrives, ForeignEdit

LEMMA StepSettles ==
  ASSUME TypeOK, IdInv, [Next]_vars
  PROVE  \E req \in stray \union {sent, <<>>} : Settled(req)
<1>1. CASE \E req \in stray \union {sent} : Execute(req)
  <2>1. PICK req \in stray \union {sent} : Execute(req)
    BY <1>1
  <2>2. Settled(req)
    BY <2>1, ExecuteHasEffect, ExecuteSettles
  <2> QED BY <2>2
<1>2. CASE ForeignEdit
  BY <1>2, ForeignSettles
<1>3. CASE UNCHANGED <<layers, nextId>>
  BY <1>3, QuietSettles
<1> QED BY <1>1, <1>2, <1>3, StepLayers

\* The PUT of an Update that begins names what is on record, in order.
LEMMA BeginSends ==
  ASSUME TypeOK, NEW w \in Wishes, Begin(w)
  PROVE  /\ sent' \in Seq(Layer) /\ Len(sent') = Len(w) /\ BodiesOf(sent') = w
         /\ \A i \in DOMAIN sent' :
              sent'[i].id = IF i \in DOMAIN prior THEN prior[i].id ELSE NoId
<1>1. prior \in Seq(Layer) /\ w \in Seq(Bodies) /\ DOMAIN prior = 1 .. Len(prior) /\ Len(prior) \in Nat
  BY ConstantsAssumption, LenProperties DEF TypeOK
<1>2. sent' = CarryLayerIDs(prior, ToSDK(w))
  BY DEF Begin
<1>3. /\ sent' \in Seq(Layer) /\ Len(sent') = Len(w) /\ BodiesOf(sent') = w
      /\ \A i \in DOMAIN sent' : sent'[i].id = IF i <= Len(prior) THEN prior[i].id ELSE NoId
  BY <1>1, <1>2, CarriedLayers
<1>4. DOMAIN sent' = 1 .. Len(sent') /\ Len(sent') \in Nat
  BY <1>3, LenProperties
<1>5. \A i \in DOMAIN sent' : i <= Len(prior) <=> i \in DOMAIN prior
  BY <1>1, <1>4
<1> QED BY <1>3, <1>5

-----------------------------------------------------------------------------
(* Type correctness. *)

\* While a PUT is under way an attempt of it is left.
AttemptsLeft == pc = "put" => attempt # MaxAttempts

LEMMA InitAttempts == Init => AttemptsLeft
BY DEF Init, AttemptsLeft

LEMMA StepAttempts == TypeOK /\ AttemptsLeft /\ [Next]_vars => attempt' \in 0 .. MaxAttempts /\ AttemptsLeft'
<1> SUFFICES ASSUME TypeOK, AttemptsLeft, [Next]_vars
             PROVE  attempt' \in 0 .. MaxAttempts /\ AttemptsLeft'
  OBVIOUS
<1>1. MaxAttempts \in Nat \ {0} /\ attempt \in 0 .. MaxAttempts
  BY ConstantsAssumption DEF TypeOK
<1>2. CASE \E w \in Wishes : Begin(w)
  BY <1>1, <1>2 DEF Begin, AttemptsLeft
<1>3. CASE Accepted
  BY <1>1, <1>3 DEF Accepted, Report, AttemptsLeft
<1>4. CASE Unanswered
  <2>1. pc = "put" /\ attempt # MaxAttempts /\ attempt' = attempt + 1
    BY <1>4 DEF Unanswered, AttemptsLeft
  <2>2. attempt' = MaxAttempts => pc' = "idle"
    BY <1>4 DEF Unanswered, Spent, Report
  <2> QED BY <1>1, <2>1, <2>2 DEF AttemptsLeft
<1>5. CASE UNCHANGED <<pc, attempt>> \/ Refused
  BY <1>1, <1>5 DEF Refused, Report, AttemptsLeft
<1> QED
  BY <1>2, <1>3, <1>4, <1>5 DEF Next, vars, update, Read, StrayArrives, ForeignEdit

LEMMA StepType == TypeOK /\ AttemptsLeft /\ [Next]_vars => TypeOK'
<1> SUFFICES ASSUME TypeOK, AttemptsLeft, [Next]_vars PROVE TypeOK'
  OBVIOUS
<1>1. layers' \in Seq(Layer) /\ nextId' \in 1 .. MaxId + 1
  <2>1. ASSUME NEW req \in stray \union {sent}, Execute(req)
        PROVE  layers' \in Seq(Layer) /\ nextId' \in 1 .. MaxId + 1
    <3>1. layers' \in Seq(Layer) /\ nextId' \in nextId .. MaxId + 1
      BY <2>1, ExecuteHasEffect DEF Effect
    <3> QED BY <3>1, ConstantsAssumption DEF TypeOK
  <2>2. CASE ForeignEdit
    <3>1. layers \in Seq(Layer) /\ nextId \in 1 .. MaxId + 1 /\ MaxId \in Nat
      BY ConstantsAssumption DEF TypeOK
    <3>2. ASSUME NEW b \in Bodies, AddLayer(b)
          PROVE  layers' \in Seq(Layer) /\ nextId' \in nextId .. MaxId + 1
      BY <3>1, <3>2, AddedLayer
    <3>3. ASSUME NEW r \in DOMAIN layers, RemoveLayer(r)
          PROVE  layers' \in Seq(Layer) /\ nextId' = nextId
      BY <3>1, <3>3, RemovedLayer DEF RemoveLayer
    <3> QED BY <2>2, <3>1, <3>2, <3>3 DEF ForeignEdit
  <2>3. CASE UNCHANGED <<layers, nextId>>
    BY <2>3 DEF TypeOK
  <2> QED BY <2>1, <2>2, <2>3, StepLayers
<1>2. prior' \in Seq(Layer)
  BY <1>1, StepRecord DEF TypeOK
<1>3. stray' \subseteq Seq(Layer) /\ sent' \in Seq(Layer)
  <2>1. CASE stray' \union {sent'} \subseteq stray \union {sent}
    BY <2>1 DEF TypeOK
  <2>2. CASE \E w \in Wishes : Begin(w)
    BY <2>2, BeginSends DEF TypeOK, Begin, server
  <2> QED BY <2>1, <2>2, StepRecord
<1>4. /\ pc' \in {"idle", "put"} /\ outcome' \in {"none", "ok", "failed"}
      /\ wish' \in Wishes \union {<<>>}
  BY DEF TypeOK, Next, vars, update, Begin, Accepted, Refused, Unanswered, Read, StrayArrives,
         ForeignEdit, Report
<1>5. disturbed' \in BOOLEAN /\ extended' \in BOOLEAN /\ foreign' \in BOOLEAN
  BY Zenon DEF TypeOK, Next, vars, history, Begin, Accepted, Refused, Unanswered, Read, StrayArrives,
         ForeignEdit
<1>6. attempt' \in 0 .. MaxAttempts
  BY StepAttempts
<1> QED BY <1>1, <1>2, <1>3, <1>4, <1>5, <1>6 DEF TypeOK

\* The variables of the model keep their types.
THEOREM TypeCorrect == Spec => []TypeOK
BY InitType, InitAttempts, StepType, StepAttempts, PTL DEF Spec

-----------------------------------------------------------------------------
(* Only known layers are edited. *)

LEMMA InitIds == Init => IdInv /\ RecordInv
<1> SUFFICES ASSUME Init PROVE IdInv /\ RecordInv
  OBVIOUS
<1>1. /\ Len(InitLayers) \in Nat /\ DOMAIN layers = 1 .. Len(InitLayers)
      /\ \A i \in DOMAIN layers : layers[i].id = i
      /\ nextId = Len(InitLayers) + 1 /\ prior = layers
  BY NumberedLayers, ConstantsAssumption, LenProperties DEF Init
<1>2. \A req \in stray \union {sent} : DOMAIN req = {}
  BY DEF Init
<1>3. IdInv
  BY <1>1, <1>2 DEF IdInv
<1>4. RecordInv
  BY <1>2 DEF RecordInv
<1> QED BY <1>3, <1>4

LEMMA StepIds == TypeOK /\ IdInv /\ [Next]_vars => IdInv'
<1> SUFFICES ASSUME TypeOK, IdInv, [Next]_vars PROVE IdInv'
  OBVIOUS
<1>1. /\ nextId' \in nextId .. MaxId + 1
      /\ \A k \in DOMAIN layers' : layers'[k].id \in 1 .. nextId' - 1
      /\ \A k, m \in DOMAIN layers' : layers'[k].id = layers'[m].id => k = m
  BY StepSettles DEF Settled
<1>2. nextId \in Nat \ {0} /\ nextId' \in Nat /\ nextId <= nextId'
  BY <1>1, ConstantsAssumption DEF TypeOK
<1>3. \A i \in DOMAIN prior : prior[i].id \in 1 .. nextId - 1 /\ prior[i].id \in 1 .. nextId' - 1
  BY <1>2 DEF IdInv
<1>4. \A i \in DOMAIN prior' : prior'[i].id \in 1 .. nextId' - 1
  BY <1>1, <1>3, StepRecord
<1>5. \A req \in stray \union {sent} : \A i \in DOMAIN req : req[i].id < nextId'
  <2> SUFFICES ASSUME NEW req \in stray \union {sent}, NEW i \in DOMAIN req PROVE req[i].id < nextId'
    OBVIOUS
  <2>1. req[i].id \in Nat
    BY RequestTypes, LayerFields, ConstantsAssumption
  <2>2. req[i].id < nextId
    BY DEF IdInv
  <2> QED BY <1>2, <2>1, <2>2
<1>6. \A req \in stray' \union {sent'} : \A i \in DOMAIN req : req[i].id < nextId'
  <2>1. CASE stray' \union {sent'} \subseteq stray \union {sent}
    BY <1>5, <2>1
  <2>2. CASE \E w \in Wishes : Begin(w)
    <3>1. stray' = stray
      BY <2>2 DEF Begin, server
    <3>2. \A i \in DOMAIN sent' : sent'[i].id = IF i \in DOMAIN prior THEN prior[i].id ELSE NoId
      BY <2>2, BeginSends
    <3>3. \A i \in DOMAIN sent' : sent'[i].id < nextId'
      BY <1>2, <1>3, <3>2
    <3> QED BY <1>5, <3>1, <3>3
  <2> QED BY <2>1, <2>2, StepRecord
<1> QED BY <1>1, <1>4, <1>6, Zenon DEF IdInv

LEMMA StepOnRecord == TypeOK /\ IdInv /\ RecordInv /\ [Next]_vars => RecordInv'
<1> SUFFICES ASSUME TypeOK, IdInv, RecordInv, [Next]_vars PROVE RecordInv'
  OBVIOUS
<1>1. CASE prior' = layers'
  BY <1>1 DEF RecordInv, HasId
<1>2. CASE prior' = prior
  <2>1. \A k \in DOMAIN layers' : layers'[k].id < nextId =>
          \E i \in DOMAIN layers : layers[i].id = layers'[k].id
    BY StepSettles DEF Settled
  <2>2. ASSUME NEW req \in stray \union {sent}, NEW i \in DOMAIN req, HasId(layers', req[i].id)
        PROVE  HasId(prior', req[i].id)
    <3>1. req[i].id < nextId
      BY DEF IdInv
    <3>2. HasId(layers, req[i].id)
      BY <2>1, <2>2, <3>1 DEF HasId
    <3> QED BY <1>2, <3>2, Zenon DEF RecordInv, HasId
  <2>3. CASE stray' \union {sent'} \subseteq stray \union {sent}
    BY <2>2, <2>3 DEF RecordInv, HasId
  <2>4. ASSUME NEW w \in Wishes, Begin(w)
        PROVE  RecordInv'
    <3>1. stray' = stray /\ layers' = layers /\ prior' = prior
      BY <2>4 DEF Begin, server
    <3>2. ASSUME NEW i \in DOMAIN sent', HasId(layers', sent'[i].id)
          PROVE  HasId(prior', sent'[i].id)
      <4>1. sent'[i].id = IF i \in DOMAIN prior THEN prior[i].id ELSE NoId
        BY <2>4, BeginSends
      <4>2. sent'[i].id # NoId
        BY <3>1, <3>2 DEF IdInv, HasId
      <4> QED BY <3>1, <4>1, <4>2 DEF HasId
    <3> QED BY <2>2, <3>1, <3>2 DEF RecordInv
  <2> QED BY <2>3, <2>4, StepRecord
<1> QED BY <1>1, <1>2, StepRecord

LEMMA StepEditsKnown ==
  ASSUME TypeOK, IdInv, RecordInv, [Next]_vars,
         NEW i \in DOMAIN layers, NEW j \in DOMAIN layers',
         layers[i].id = layers'[j].id, layers[i] # layers'[j]
  PROVE  HasId(prior, layers[i].id)
<1>1. PICK req \in stray \union {sent, <<>>} : Settled(req)
  BY StepSettles
<1>2. layers'[j].id < nextId
  BY DEF IdInv, TypeOK
<1>3. PICK k \in DOMAIN layers : /\ layers[k].id = layers'[j].id
                                 /\ layers[k] = layers'[j] \/ HasId(req, layers[k].id)
  BY <1>1, <1>2 DEF Settled
<1>4. k = i
  BY <1>3 DEF IdInv
<1>5. PICK m \in DOMAIN req : req[m].id = layers[i].id
  BY <1>3, <1>4 DEF HasId
<1>6. req \in stray \union {sent}
  BY <1>5
<1>7. HasId(layers, req[m].id)
  BY <1>5 DEF HasId
<1> QED BY <1>5, <1>6, <1>7 DEF RecordInv

\* OnlyKnownLayersEdited, always: whatever a PUT names was on record when it was
\* made, and a layer that still exists has been on record since (RecordInv).
THEOREM OnlyRecordedLayersChange == Spec => OnlyKnownLayersEdited
<1>1. Init => TypeOK /\ AttemptsLeft /\ IdInv /\ RecordInv
  BY InitType, InitAttempts, InitIds
<1>2. TypeOK /\ AttemptsLeft /\ IdInv /\ RecordInv /\ [Next]_vars
        => TypeOK' /\ AttemptsLeft' /\ IdInv' /\ RecordInv'
  BY StepType, StepAttempts, StepIds, StepOnRecord
<1>3. TypeOK /\ IdInv /\ RecordInv /\ [Next]_vars
        => [\A i \in DOMAIN layers, j \in DOMAIN layers' :
              layers[i].id = layers'[j].id /\ layers[i] # layers'[j]
                => HasId(prior, layers[i].id)]_vars
  BY StepEditsKnown
<1> QED BY <1>1, <1>2, <1>3, PTL DEF Spec, OnlyKnownLayersEdited

-----------------------------------------------------------------------------
(* Edits stay in place. *)

\* A PUT without new layers leaves the ids as they are.
LEMMA NamedEditKeepsIds ==
  ASSUME TypeOK, NEW req \in Seq(Layer), Effect(req), ~HasId(req, NoId)
  PROVE  IdsOf(layers') = IdsOf(layers) /\ DOMAIN layers' = DOMAIN layers
<1>1. Len(layers) \in Nat /\ DOMAIN layers = 1 .. Len(layers) /\ DOMAIN layers' = 1 .. Len(layers')
  BY LenProperties DEF TypeOK, Effect
<1>2. Len(layers') = Len(layers)
  <2>1. nextId' = nextId /\ nextId \in Nat
    BY ConstantsAssumption DEF Effect, TypeOK
  <2> QED BY <1>1, <2>1 DEF Effect
<1>3. \A i \in DOMAIN layers : layers'[i].id = layers[i].id
  BY <1>1 DEF Effect
<1>4. IdsOf(layers') = [i \in DOMAIN layers |-> layers'[i].id]
  BY <1>1, <1>2 DEF IdsOf
<1> QED BY <1>1, <1>2, <1>3, <1>4 DEF IdsOf

LEMMA StepMarks ==
  ASSUME [Next]_vars
  PROVE  /\ extended => extended'
         /\ foreign => foreign'
         /\ ForeignEdit => foreign'
<1>1. CASE \E w \in Wishes : Begin(w)
  <2>1. PICK w \in Wishes : Begin(w)
    BY <1>1
  <2>2. extended' = (extended \/ Len(w) > Len(prior)) /\ foreign' = foreign
    BY <2>1 DEF Begin
  <2>3. ForeignEdit => foreign'
    BY DEF ForeignEdit
  <2> QED BY <2>2, <2>3, Zenon
<1>2. CASE Accepted \/ Refused \/ Unanswered \/ Read \/ UNCHANGED vars
  <2>1. extended' = extended /\ foreign' = foreign
    BY <1>2, Zenon DEF vars, history, Accepted, Refused, Unanswered, Read
  <2>2. ForeignEdit => foreign'
    BY DEF ForeignEdit
  <2> QED BY <2>1, <2>2, Zenon
<1>3. CASE \E req \in stray : StrayArrives(req)
  <2>1. extended' = extended /\ foreign' = foreign
    BY <1>3, Zenon DEF StrayArrives
  <2>2. ForeignEdit => foreign'
    BY DEF ForeignEdit
  <2> QED BY <2>1, <2>2, Zenon
<1>4. CASE ForeignEdit
  <2>1. extended' = extended /\ foreign' = TRUE
    BY <1>4, Zenon DEF ForeignEdit
  <2> QED BY <2>1, Zenon
<1> QED BY <1>1, <1>2, <1>3, <1>4, Zenon DEF Next

LEMMA InitInPlace == Init => InPlaceInv
<1> SUFFICES ASSUME Init PROVE InPlaceInv
  OBVIOUS
<1>1. \A req \in stray \union {sent} : ~HasId(req, NoId)
  BY DEF Init, HasId
<1>2. EditsStayInPlace
  BY DEF Init, EditsStayInPlace
<1> QED BY <1>1, <1>2 DEF InPlaceInv

LEMMA StepInPlace == TypeOK /\ IdInv /\ InPlaceInv /\ [Next]_vars => InPlaceInv'
<1> SUFFICES ASSUME TypeOK, IdInv, InPlaceInv, [Next]_vars PROVE InPlaceInv'
  OBVIOUS
<1>1. ASSUME ~extended', NEW req \in stray' \union {sent'}
      PROVE  ~HasId(req, NoId)
  <2>1. ~extended
    BY <1>1, StepMarks
  <2>2. \A r \in stray \union {sent} : ~HasId(r, NoId)
    BY <2>1 DEF InPlaceInv
  <2>3. ASSUME NEW w \in Wishes, Begin(w)
        PROVE  ~HasId(req, NoId)
    <3>1. /\ prior \in Seq(Layer) /\ DOMAIN prior = 1 .. Len(prior) /\ Len(prior) \in Nat
          /\ w \in Seq(Bodies) /\ Len(w) \in Nat
      BY ConstantsAssumption, LenProperties DEF TypeOK
    <3>2. Len(w) <= Len(prior) /\ stray' = stray
      <4>1. extended' = (extended \/ Len(w) > Len(prior)) /\ stray' = stray
        BY <2>3 DEF Begin, server
      <4>2. ~(Len(w) > Len(prior))
        BY <1>1, <4>1, Zenon
      <4> QED BY <3>1, <4>1, <4>2
    <3>3. /\ sent' \in Seq(Layer) /\ Len(sent') = Len(w)
          /\ \A i \in DOMAIN sent' : sent'[i].id = IF i \in DOMAIN prior THEN prior[i].id ELSE NoId
      BY <2>3, BeginSends
    <3>4. DOMAIN sent' = 1 .. Len(w)
      BY <3>3, LenProperties
    <3>5. \A i \in DOMAIN sent' : sent'[i].id = prior[i].id /\ i \in DOMAIN prior
      BY <3>1, <3>2, <3>3, <3>4
    <3>6. ~HasId(sent', NoId)
      BY <3>5 DEF IdInv, HasId
    <3> QED BY <2>2, <3>2, <3>6
  <2> QED BY <2>2, <2>3, StepRecord
<1>2. ASSUME ~extended', ~foreign'
      PROVE  IdsOf(layers') = IdsOf(Numbered(InitLayers))
  <2>1. ~extended /\ ~foreign /\ ~ForeignEdit
    BY <1>2, StepMarks
  <2>2. IdsOf(layers) = IdsOf(Numbered(InitLayers))
    BY <2>1 DEF InPlaceInv, EditsStayInPlace
  <2>3. CASE \E req \in stray \union {sent} : Execute(req)
    <3>1. PICK req \in stray \union {sent} : Execute(req)
      BY <2>3
    <3>2. req \in Seq(Layer) /\ Effect(req) /\ ~HasId(req, NoId)
      BY <2>1, <3>1, ExecuteHasEffect DEF InPlaceInv
    <3> QED BY <2>2, <3>2, NamedEditKeepsIds
  <2>4. CASE UNCHANGED <<layers, nextId>>
    BY <2>2, <2>4
  <2> QED BY <2>1, <2>3, <2>4, StepLayers
<1> QED BY <1>1, <1>2, Zenon DEF InPlaceInv, EditsStayInPlace

\* EditsStayInPlace, always: carryLayerIDs names every layer while no Update asks
\* for more of them, so that no PUT, first, resent or late, appends one.
THEOREM EditsAreInPlace == Spec => []EditsStayInPlace
<1>1. InPlaceInv => EditsStayInPlace
  BY DEF InPlaceInv
<1> QED
  BY <1>1, InitType, InitAttempts, InitIds, InitInPlace,
     StepType, StepAttempts, StepIds, StepInPlace, PTL DEF Spec

-----------------------------------------------------------------------------
(* An undisturbed edit is exact. *)

LEMMA InitExact == Init => ExactInv
<1> SUFFICES ASSUME Init PROVE ExactInv
  OBVIOUS
<1>1. sent = <<>> /\ wish = <<>> /\ DOMAIN sent = {}
  BY DEF Init
<1>2. BodiesOf(sent) = <<>>
  BY <1>1 DEF BodiesOf
<1> QED BY <1>1, <1>2 DEF ExactInv

\* Executing the PUT makes the layers it names what it says, and doing so again
\* changes nothing.
LEMMA SentIsExact ==
  ASSUME TypeOK, IdInv, Execute(sent), sent' = sent,
         \A i \in DOMAIN sent : i \in DOMAIN layers /\ layers[i].id = sent[i].id
  PROVE  \A i \in DOMAIN sent : i \in DOMAIN layers' /\ layers'[i] = sent[i]
<1>1. sent \in Seq(Layer) /\ Effect(sent)
  BY ExecuteHasEffect
<1>2. /\ Len(layers) \in Nat /\ DOMAIN layers = 1 .. Len(layers) /\ DOMAIN layers' = 1 .. Len(layers')
      /\ Len(layers') \in Nat
  BY <1>1, LenProperties DEF TypeOK, Effect
<1>3. Len(layers) <= Len(layers')
  <2>1. nextId' >= nextId /\ nextId' \in Nat /\ nextId \in Nat
    BY <1>1, ConstantsAssumption DEF TypeOK, Effect
  <2>2. Len(layers') = Len(layers) + (nextId' - nextId)
    BY <1>1 DEF Effect
  <2> QED BY <1>2, <2>1, <2>2
<1>4. SUFFICES ASSUME NEW i \in DOMAIN sent PROVE i \in DOMAIN layers' /\ layers'[i] = sent[i]
  OBVIOUS
<1>5. i \in 1 .. Len(layers) /\ layers[i].id = sent[i].id
  BY <1>2
<1>6. HasId(sent, layers[i].id)
  BY <1>5 DEF HasId
<1>7. PICK j \in DOMAIN sent : sent[j] = layers'[i]
  BY <1>1, <1>5, <1>6, Zenon DEF Effect
<1>8. layers'[i].id = layers[i].id
  BY <1>1, <1>5 DEF Effect
<1>9. j = i
  <2>1. j \in DOMAIN layers /\ layers[j].id = layers[i].id
    BY <1>7, <1>8
  <2> QED BY <1>2, <1>5, <2>1 DEF IdInv
<1> QED BY <1>2, <1>3, <1>5, <1>7, <1>9

\* A step keeps what holds of the PUT under way if it disturbs the Update or does
\* nothing to the layers but execute that PUT.
LEMMA ExactKept ==
  ASSUME TypeOK, IdInv, ExactInv, sent' = sent, wish' = wish,
         ~disturbed' =>
           /\ ~disturbed
           /\ Execute(sent) \/ (layers' = layers /\ (outcome' = "ok" => outcome = "ok"))
  PROVE  ExactInv'
<1>1. BodiesOf(sent') = wish'
  BY DEF ExactInv
<1>2. ASSUME ~disturbed', ~HasId(sent', NoId), NEW i \in DOMAIN sent'
      PROVE  /\ i \in DOMAIN layers' /\ layers'[i].id = sent'[i].id
             /\ outcome' = "ok" => layers'[i] = sent'[i]
  <2>1. ~disturbed /\ ~HasId(sent, NoId)
    BY <1>2
  <2>2. \A k \in DOMAIN sent :
          /\ k \in DOMAIN layers /\ layers[k].id = sent[k].id
          /\ outcome = "ok" => layers[k] = sent[k]
    BY <2>1, Zenon DEF ExactInv
  <2>3. CASE Execute(sent)
    BY <2>2, <2>3, SentIsExact, Zenon
  <2>4. CASE layers' = layers /\ (outcome' = "ok" => outcome = "ok")
    BY <2>2, <2>4, Zenon
  <2> QED BY <1>2, <2>3, <2>4
<1> QED BY <1>1, <1>2, Zenon DEF ExactInv

LEMMA StepExact == TypeOK /\ IdInv /\ ExactInv /\ [Next]_vars => ExactInv'
<1> SUFFICES ASSUME TypeOK, IdInv, ExactInv, [Next]_vars PROVE ExactInv'
  OBVIOUS
<1>1. ASSUME NEW w \in Wishes, Begin(w)
      PROVE  ExactInv'
  <2>1. /\ BodiesOf(sent') = w
        /\ \A i \in DOMAIN sent' : sent'[i].id = IF i \in DOMAIN prior THEN prior[i].id ELSE NoId
    BY <1>1, BeginSends
  <2>2. wish' = w /\ layers' = layers /\ outcome' = "none" /\ disturbed' = (prior # layers)
    BY <1>1 DEF Begin, server
  <2>3. ~disturbed' => prior = layers
    BY <2>2, Zenon
  <2>4. ASSUME ~disturbed', ~HasId(sent', NoId), NEW i \in DOMAIN sent'
        PROVE  i \in DOMAIN layers' /\ layers'[i].id = sent'[i].id
    <3>1. sent'[i].id # NoId
      BY <2>4, Zenon DEF HasId
    <3>2. i \in DOMAIN prior /\ sent'[i].id = prior[i].id
      BY <2>1, <3>1
    <3> QED BY <2>2, <2>3, <2>4, <3>2
  <2>5. outcome' # "ok"
    BY <2>2
  <2> QED BY <2>1, <2>2, <2>4, <2>5, Zenon DEF ExactInv
<1>2. CASE Accepted
  <2>1. sent' = sent /\ wish' = wish /\ disturbed' = disturbed /\ Execute(sent)
    BY <1>2 DEF Accepted, history
  <2> QED BY <2>1, ExactKept, Zenon
<1>3. CASE Refused \/ Read \/ UNCHANGED vars
  <2>1. /\ sent' = sent /\ wish' = wish /\ disturbed' = disturbed /\ layers' = layers
        /\ outcome' = outcome \/ outcome' = "failed"
    BY <1>3, Zenon DEF Refused, Read, Report, vars, server, update, history
  <2>2. outcome' = "ok" => outcome = "ok"
    BY <2>1
  <2> QED BY <2>1, <2>2, ExactKept, Zenon
<1>4. CASE Unanswered
  <2>1. /\ sent' = sent /\ wish' = wish /\ disturbed' = disturbed
        /\ outcome' = outcome \/ outcome' = "failed"
    BY <1>4 DEF Unanswered, Report, history
  <2>2. Execute(sent) \/ layers' = layers
    BY <1>4, Zenon DEF Unanswered, server
  <2>3. outcome' = "ok" => outcome = "ok"
    BY <2>1
  <2> QED BY <2>1, <2>2, <2>3, ExactKept, Zenon
<1>5. ASSUME NEW req \in stray, StrayArrives(req)
      PROVE  ExactInv'
  <2>1. sent' = sent /\ wish' = wish /\ outcome' = outcome /\ disturbed' = (disturbed \/ req # sent)
    BY <1>5 DEF StrayArrives, update
  <2>2. ~disturbed' => ~disturbed /\ req = sent
    BY <2>1, Zenon
  <2>3. Execute(req) \/ layers' = layers
    BY <1>5, Zenon DEF StrayArrives
  <2> QED BY <2>1, <2>2, <2>3, ExactKept, Zenon
<1>6. CASE ForeignEdit
  <2>1. sent' = sent /\ wish' = wish /\ disturbed'
    BY <1>6, Zenon DEF ForeignEdit, update
  <2> QED BY <2>1, ExactKept, Zenon
<1> QED BY <1>1, <1>2, <1>3, <1>4, <1>5, <1>6, Zenon DEF Next

\* What ExactInv says of the layers one by one, said of them as a sequence.
LEMMA ExactIsExact == TypeOK /\ ExactInv => UndisturbedEditIsExact
<1> SUFFICES ASSUME TypeOK, ExactInv, outcome = "ok", ~disturbed, ~HasId(sent, NoId)
             PROVE  SubSeq(BodiesOf(layers), 1, Len(wish)) = wish
  BY Zenon DEF UndisturbedEditIsExact
<1>1. /\ sent \in Seq(Layer) /\ DOMAIN sent = 1 .. Len(sent) /\ Len(sent) \in Nat
      /\ layers \in Seq(Layer) /\ DOMAIN layers = 1 .. Len(layers) /\ Len(layers) \in Nat
  BY LenProperties DEF TypeOK
<1>2. \A i \in DOMAIN sent : i \in DOMAIN layers /\ layers[i] = sent[i]
  BY Zenon DEF ExactInv
<1>3. wish = [i \in 1 .. Len(sent) |-> sent[i].body]
  BY <1>1 DEF ExactInv, BodiesOf
<1>4. \A i \in 1 .. Len(sent) : sent[i].body \in Bodies
  BY <1>1, LayerFields
<1>5. wish \in Seq(Bodies) /\ Len(wish) = Len(sent) /\ DOMAIN wish = 1 .. Len(sent)
  BY <1>1, <1>3, <1>4, FunctionIsSeq
<1>6. BodiesOf(layers) \in Seq(Bodies) /\ Len(BodiesOf(layers)) = Len(layers)
  <2>1. \A i \in 1 .. Len(layers) : layers[i].body \in Bodies
    BY <1>1, LayerFields
  <2>2. BodiesOf(layers) \in [1 .. Len(layers) -> Bodies]
    BY <1>1, <2>1 DEF BodiesOf
  <2> QED BY <1>1, <2>2, FunctionIsSeq
<1>7. Len(sent) <= Len(layers)
  <2>1. CASE Len(sent) = 0
    BY <1>1, <2>1
  <2>2. CASE Len(sent) # 0
    <3>1. Len(sent) \in DOMAIN sent
      BY <1>1, <2>2
    <3> QED BY <1>1, <1>2, <3>1
  <2> QED BY <2>1, <2>2
<1> DEFINE head == SubSeq(BodiesOf(layers), 1, Len(wish))
<1>8. /\ head \in Seq(Bodies) /\ Len(head) = Len(wish)
      /\ \A i \in 1 .. Len(wish) : head[i] = BodiesOf(layers)[i]
  <2>1. 1 \in 1 .. Len(BodiesOf(layers)) + 1 /\ Len(wish) \in 1 - 1 .. Len(BodiesOf(layers))
    BY <1>1, <1>5, <1>6, <1>7
  <2>2. /\ head \in Seq(Bodies)
        /\ Len(head) = IF 1 <= Len(wish) THEN Len(wish) - 1 + 1 ELSE 0
        /\ \A i \in 1 .. Len(wish) - 1 + 1 : head[i] = BodiesOf(layers)[1 + i - 1]
    BY <1>6, <2>1, SubSeqProperties
  <2> QED BY <1>1, <1>5, <2>2
<1>9. \A i \in 1 .. Len(wish) : head[i] = wish[i]
  <2> SUFFICES ASSUME NEW i \in 1 .. Len(wish) PROVE head[i] = wish[i]
    OBVIOUS
  <2>1. i \in DOMAIN sent /\ i \in DOMAIN layers /\ layers[i] = sent[i]
    BY <1>1, <1>2, <1>5
  <2>2. BodiesOf(layers)[i] = sent[i].body
    BY <2>1 DEF BodiesOf
  <2>3. wish[i] = sent[i].body
    BY <1>1, <1>3, <2>1
  <2> QED BY <1>8, <2>2, <2>3
<1> HIDE DEF head
<1> QED BY <1>5, <1>8, <1>9, SeqEqual DEF head

\* UndisturbedEditIsExact, always: the PUT of an undisturbed Update names the first
\* layers in order, and every execution of it leaves them saying the same.
THEOREM UndisturbedEditsAreExact == Spec => []UndisturbedEditIsExact
<1>1. TypeOK /\ ExactInv => UndisturbedEditIsExact
  BY ExactIsExact
<1> QED
  BY <1>1, InitType, InitAttempts, InitIds, InitExact,
     StepType, StepAttempts, StepIds, StepExact, PTL DEF Spec

-----------------------------------------------------------------------------
(* What a PUT makes of the layers on record. *)

\* While a PUT is under way the record is the one it was made from.
SentInv == pc = "put" => wish \in Wishes /\ sent = CarryLayerIDs(prior, ToSDK(wish))

\* A PUT that meets the very layers formae has on record makes the first ones what
\* was asked for, appends what was asked for beyond them, and leaves any others
\* alone, and all layers keep their ids: the surplus layers that stay and the
\* layers added twice (see UpdateLeavesWhatWasAsked) come from a shorter forma and
\* from a PUT that meets other layers, and from nothing else.
PutOnRecordIsExact ==
  [][pc = "put" /\ layers = prior /\ Execute(sent) =>
       /\ Len(layers') = IF Len(wish) <= Len(layers) THEN Len(layers) ELSE Len(wish)
       /\ \A i \in DOMAIN layers' :
            layers'[i].body = IF i <= Len(wish) THEN wish[i] ELSE layers[i].body
       /\ \A i \in DOMAIN layers : layers'[i].id = layers[i].id]_vars

LEMMA InitSent == Init => SentInv
BY DEF Init, SentInv

LEMMA StepSent == SentInv /\ [Next]_vars => SentInv'
<1> SUFFICES ASSUME SentInv, [Next]_vars PROVE SentInv'
  OBVIOUS
<1>1. ASSUME NEW w \in Wishes, Begin(w) PROVE SentInv'
  BY <1>1 DEF Begin, SentInv
<1>2. CASE pc' = "idle"
  BY <1>2 DEF SentInv
<1>3. CASE UNCHANGED <<pc, wish, sent, prior>>
  BY <1>3 DEF SentInv, CarryLayerIDs
<1> QED
  BY <1>1, <1>2, <1>3
     DEF Next, vars, update, Accepted, Refused, Unanswered, Report, Read, StrayArrives, ForeignEdit

\* The layers of the forma that have a layer on record, and no other, are named.
LEMMA NamedOnRecord ==
  ASSUME NEW req \in Seq(Layer), NEW m \in Nat,
         \A i \in DOMAIN req : req[i].id # NoId <=> i <= m
  PROVE  Named(req) = IF Len(req) <= m THEN Len(req) ELSE m
<1> DEFINE k == IF Len(req) <= m THEN Len(req) ELSE m
<1>1. Len(req) \in Nat /\ DOMAIN req = 1 .. Len(req) /\ k \in Nat
  BY LenProperties
<1>2. {i \in DOMAIN req : req[i].id # NoId} = 1 .. k
  BY <1>1
<1> HIDE DEF k
<1>3. Cardinality(1 .. k) = IF 1 > k THEN 0 ELSE k - 1 + 1
  BY <1>1, FS_Interval
<1>4. Cardinality(1 .. k) = k
  BY <1>1, <1>3
<1> QED BY <1>2, <1>4 DEF Named, k

\* What a PUT appends says what the unnamed layers of the request say.
LEMMA AppendedBodies ==
  ASSUME NEW req \in Seq(Layer), layers \in Seq(Layer), nextId \in 1 .. MaxId + 1, Execute(req),
         Named(req) \in 0 .. Len(req)
  PROVE  /\ Len(layers') = Len(layers) + (Len(req) - Named(req))
         /\ \A i \in 1 .. Len(req) - Named(req) :
              layers'[Len(layers) + i].body = req[Named(req) + i].body
<1> DEFINE e == Edited(layers, req)
           a == Appended(req)
           n == Len(req) - Named(req)
<1>1. layers' = e \o a /\ nextId + Len(New(req)) <= MaxId + 1
  BY DEF Execute
<1>2. /\ Len(req) \in Nat /\ Named(req) \in Nat /\ n \in Nat
      /\ \A i \in 1 .. Len(req) : req[i] \in Layer
      /\ Len(layers) \in Nat
  BY LenProperties, ElementOfSeq
<1>3. /\ New(req) \in Seq(Layer) /\ Len(New(req)) = n
      /\ \A i \in 1 .. n : New(req)[i] = req[Named(req) + i]
  <2>1. \A i \in Named(req) + 1 .. Len(req) : req[i] \in Layer
    BY <1>2
  <2>2. /\ New(req) \in Seq(Layer)
        /\ Len(New(req)) = IF Named(req) + 1 <= Len(req) THEN Len(req) - (Named(req) + 1) + 1 ELSE 0
        /\ \A i \in 1 .. Len(req) - (Named(req) + 1) + 1 :
             New(req)[i] = req[Named(req) + 1 + i - 1]
    BY <1>2, <2>1, SubSeqProperties DEF New
  <2>3. Len(New(req)) = n
    BY <1>2, <2>2
  <2>4. ASSUME NEW i \in 1 .. n PROVE New(req)[i] = req[Named(req) + i]
    <3>1. i \in 1 .. Len(req) - (Named(req) + 1) + 1 /\ Named(req) + 1 + i - 1 = Named(req) + i
      BY <1>2
    <3> QED BY <2>2, <3>1
  <2> QED BY <2>2, <2>3, <2>4
<1>4. /\ a \in Seq(Layer) /\ Len(a) = n
      /\ \A i \in 1 .. n : a[i].body = req[Named(req) + i].body
  <2>1. a \in Seq(Layer) /\ Len(a) = n
    BY <1>1, <1>3, AppendedLayers
  <2>2. DOMAIN New(req) = 1 .. n
    BY <1>3, LenProperties
  <2>3. ASSUME NEW i \in 1 .. n PROVE a[i].body = req[Named(req) + i].body
    <3>1. a[i] = [New(req)[i] EXCEPT !.id = nextId + i - 1]
      BY <2>2 DEF Appended
    <3>2. New(req)[i] \in Layer
      BY <1>3, ElementOfSeq
    <3> QED BY <1>3, <3>1, <3>2 DEF Layer
  <2> QED BY <2>1, <2>3
<1>5. e \in Seq(Layer) /\ Len(e) = Len(layers)
  BY EditedLayers, Zenon
<1> HIDE DEF e, a, n
<1>6. /\ Len(e \o a) = Len(e) + Len(a)
      /\ \A i \in 1 .. Len(e) + Len(a) : (e \o a)[i] = IF i <= Len(e) THEN e[i] ELSE a[i - Len(e)]
  BY <1>4, <1>5, ConcatProperties, Zenon
<1>7. ASSUME NEW i \in 1 .. n PROVE layers'[Len(layers) + i].body = req[Named(req) + i].body
  <2>1. /\ Len(layers) + i \in 1 .. Len(e) + Len(a) /\ ~(Len(layers) + i <= Len(e))
        /\ Len(layers) + i - Len(e) = i
    BY <1>2, <1>4, <1>5
  <2>2. layers'[Len(layers) + i] = a[i]
    BY <1>1, <1>6, <2>1
  <2> QED BY <1>4, <2>2
<1>8. Len(layers') = Len(layers) + n
  BY <1>1, <1>4, <1>5, <1>6
<1> QED BY <1>7, <1>8 DEF n

LEMMA StepPutOnRecord ==
  ASSUME TypeOK, IdInv, SentInv, pc = "put", layers = prior, Execute(sent)
  PROVE  /\ Len(layers') = IF Len(wish) <= Len(layers) THEN Len(layers) ELSE Len(wish)
         /\ \A i \in DOMAIN layers' :
              layers'[i].body = IF i <= Len(wish) THEN wish[i] ELSE layers[i].body
         /\ \A i \in DOMAIN layers : layers'[i].id = layers[i].id
<1> DEFINE m == Len(layers)
           n == Len(wish)
<1>1. sent \in Seq(Layer) /\ Effect(sent) /\ nextId \in 1 .. MaxId + 1
  BY ExecuteHasEffect DEF TypeOK
<1>2. /\ layers \in Seq(Layer) /\ m \in Nat /\ DOMAIN layers = 1 .. m
      /\ wish \in Seq(Bodies) /\ n \in Nat
  BY ConstantsAssumption, LenProperties DEF TypeOK, SentInv
<1>3. /\ Len(sent) = n /\ BodiesOf(sent) = wish
      /\ \A i \in DOMAIN sent : sent[i].id = IF i <= m THEN layers[i].id ELSE NoId
  BY <1>2, CarriedLayers DEF SentInv
<1>4. DOMAIN sent = 1 .. n /\ \A i \in 1 .. n : sent[i].body = wish[i]
  <2>1. DOMAIN sent = 1 .. n
    BY <1>1, <1>3, LenProperties
  <2> QED BY <1>3, <2>1 DEF BodiesOf
<1>5. \A i \in 1 .. m : layers[i].id # NoId
  BY <1>2, ConstantsAssumption DEF IdInv, TypeOK, NoId
<1>6. Named(sent) = IF n <= m THEN n ELSE m
  <2>1. \A i \in DOMAIN sent : sent[i].id # NoId <=> i <= m
    BY <1>2, <1>3, <1>4, <1>5
  <2> HIDE DEF m
  <2> QED BY <1>1, <1>2, <1>3, <2>1, NamedOnRecord
<1>7. /\ Len(layers') = m + (n - Named(sent))
      /\ \A i \in 1 .. n - Named(sent) : layers'[m + i].body = sent[Named(sent) + i].body
  <2>1. Named(sent) \in 0 .. Len(sent)
    BY <1>2, <1>3, <1>6
  <2> QED BY <1>1, <1>2, <1>3, <2>1, AppendedBodies
<1>8. \A j \in 1 .. n, i \in 1 .. m : sent[j].id = layers[i].id => j = i
  BY <1>2, <1>3, <1>4, <1>5 DEF IdInv
<1>9. \A i \in 1 .. m :
        /\ layers'[i].id = layers[i].id
        /\ layers'[i].body = IF i <= n THEN wish[i] ELSE layers[i].body
  <2> SUFFICES ASSUME NEW i \in 1 .. m
               PROVE  /\ layers'[i].id = layers[i].id
                      /\ layers'[i].body = IF i <= n THEN wish[i] ELSE layers[i].body
    OBVIOUS
  <2>1. /\ layers'[i].id = layers[i].id
        /\ layers'[i] = layers[i] \/ HasId(sent, layers[i].id)
        /\ HasId(sent, layers[i].id) => \E j \in DOMAIN sent : sent[j] = layers'[i]
    BY <1>1 DEF Effect
  <2>2. CASE i <= n
    <3>1. sent[i].id = layers[i].id /\ i \in DOMAIN sent
      BY <1>2, <1>3, <1>4, <2>2
    <3>2. PICK j \in DOMAIN sent : sent[j] = layers'[i]
      BY <2>1, <3>1 DEF HasId
    <3>3. j = i
      BY <1>4, <1>8, <2>1, <3>2
    <3> QED BY <1>2, <1>4, <2>1, <2>2, <3>2, <3>3
  <2>3. CASE ~(i <= n)
    <3>1. ~HasId(sent, layers[i].id)
      BY <1>2, <1>4, <1>8, <2>3 DEF HasId
    <3> QED BY <2>1, <2>3, <3>1
  <2> QED BY <2>2, <2>3
<1>10. Len(layers') = IF n <= m THEN m ELSE n
  BY <1>2, <1>6, <1>7
<1>11. DOMAIN layers' = 1 .. Len(layers')
  BY <1>1, LenProperties DEF Effect
<1>12. ASSUME NEW i \in DOMAIN layers', ~(i <= m)
       PROVE  i <= n /\ layers'[i].body = wish[i]
  <2>1. n > m /\ Named(sent) = m /\ i - m \in 1 .. n - m /\ i \in 1 .. n
    BY <1>2, <1>6, <1>10, <1>11, <1>12
  <2>2. layers'[m + (i - m)].body = sent[m + (i - m)].body
    BY <1>7, <2>1
  <2>3. m + (i - m) = i
    BY <1>2, <2>1
  <2> QED BY <1>4, <2>1, <2>2, <2>3
<1>13. \A i \in DOMAIN layers' : i <= m => i \in 1 .. m
  BY <1>2, <1>10, <1>11
<1> QED BY <1>2, <1>9, <1>10, <1>12, <1>13

\* PutOnRecordIsExact, always: since Update (schedule.go:199) carries the ids of the
\* record over by position, its PUT names the first layers of a schedule that is as
\* recorded, in their order.
THEOREM PutsOnRecordAreExact == Spec => PutOnRecordIsExact
<1>1. TypeOK /\ IdInv /\ SentInv =>
        (pc = "put" /\ layers = prior /\ Execute(sent) =>
           /\ Len(layers') = IF Len(wish) <= Len(layers) THEN Len(layers) ELSE Len(wish)
           /\ \A i \in DOMAIN layers' :
                layers'[i].body = IF i <= Len(wish) THEN wish[i] ELSE layers[i].body
           /\ \A i \in DOMAIN layers : layers'[i].id = layers[i].id)
  BY StepPutOnRecord
<1> QED
  BY <1>1, InitType, InitAttempts, InitIds, InitSent,
     StepType, StepAttempts, StepIds, StepSent, PTL DEF Spec, PutOnRecordIsExact
=============================================================================
