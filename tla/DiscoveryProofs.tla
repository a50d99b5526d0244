--------------------------- MODULE DiscoveryProofs ---------------------------
(***************************************************************************)
(* Discovery for any account, any page sizes and any number of changes:    *)
(* nothing is listed twice unless something was put into the account, a    *)
(* removal hides one thing at most, and discovery is bounded.              *)
(*                                                                         *)
(* The first is about positions.  A removal moves things towards the front *)
(* and nothing else moves them, so whatever was on a page and is still     *)
(* there stands at or before the place where that page ended, and the next *)
(* page begins behind it (Behind).  The second counts them: of what stands *)
(* before the next page discovery has seen all but one for each removal    *)
(* (CountInv), because a removal brings one thing at most across the place *)
(* where that page begins.                                                 *)
(***************************************************************************)
EXTENDS Discovery, SequenceTheorems, FiniteSetTheorems, TLAPS

\* Where the next page of parents begins, if there is one.
Bound(at) ==
  \A i \in DOMAIN account.parents : account.parents[i] \in shown => i <= at

Behind ==
  /\ pc = "ask" => Bound(token)
  /\ pc = "expand" /\ next # 0 => Bound(next)

\* Whatever formae has comes from a parent that was on a page.
FromPages ==
  /\ lister.nested = "none" => listed \subseteq shown /\ ids = {}
  /\ lister.nested # "none" =>
       listed \subseteq shown \X Children /\ ids \subseteq shown \X Children

\* The call has nothing yet from the parents it still has to expand but, of the
\* first of them, the members on the pages before offset; no call before has any.
ToExpand ==
  /\ pc = "ask" => ids = {}
  /\ pc = "expand" =>
       /\ lister.nested \in {"one call", "paged"}
       /\ \A k \in 1 .. Len(todo) : todo[k] \in shown
       /\ \A k \in 1 .. Len(todo), c \in Children : <<todo[k], c>> \notin listed
       /\ \A k \in 2 .. Len(todo), c \in Children : <<todo[k], c>> \notin ids
       /\ lister.nested = "one call" =>
            \A k \in 1 .. Len(todo), c \in Children : <<todo[k], c>> \notin ids
       /\ todo # <<>> =>
            \A i \in DOMAIN account.children[todo[1]] :
              <<todo[1], account.children[todo[1]][i]>> \in ids => i <= offset

Shape ==
  /\ account \in Account
  /\ lister.nested \in {"none", "included", "one call", "paged"}
  /\ token \in Nat /\ next \in Nat /\ offset \in Nat
  /\ todo \in Unique(Parents)
  /\ shown \subseteq Parents

Once == repeated = {} /\ listed \intersect ids = {}

Holds == Shape /\ Behind /\ FromPages /\ ToExpand /\ Once

PositionInv == ~inserted => Holds

-----------------------------------------------------------------------------
(* Sequences without repetition. *)

LEMMA Places ==
  ASSUME NEW S, NEW s \in Unique(S)
  PROVE  /\ s \in Seq(S) /\ Len(s) \in Nat /\ DOMAIN s = 1 .. Len(s)
         /\ \A k \in DOMAIN s : s[k] \in S
         /\ \A j, k \in DOMAIN s : s[j] = s[k] => j = k
BY LenProperties, ElementOfSeq DEF Unique, IsInjective

\* The page has what stands at the places behind from, in order.
CutBehind(page, s, from, limit) ==
  \A k \in DOMAIN page :
    k \in 1 .. limit /\ from + k \in DOMAIN s /\ page[k] = s[from + k]

\* All of what stands there is on it.
Covers(page, s, from, limit) ==
  \A j \in DOMAIN s : from < j /\ j <= from + limit => s[j] \in ToSet(page)

LEMMA PageElements ==
  ASSUME NEW S, NEW s \in Unique(S), NEW from \in Nat, NEW limit \in Nat,
         NEW page, page = PageOf(s, from, limit)
  PROVE  /\ page \in Unique(S)
         /\ CutBehind(page, s, from, limit) /\ Covers(page, s, from, limit)
<1> DEFINE n == IF from + limit < Len(s) THEN from + limit ELSE Len(s)
<1>0. page = SubSeq(s, from + 1, n)
  BY DEF PageOf
<1>1. /\ Len(s) \in Nat /\ DOMAIN s = 1 .. Len(s) /\ \A k \in DOMAIN s : s[k] \in S
      /\ \A j, k \in DOMAIN s : s[j] = s[k] => j = k
  BY Places
<1>2. n \in Int /\ n <= Len(s) /\ n <= from + limit
  BY <1>1
<1>3. \A k \in (from + 1) .. n : s[k] \in S
  BY <1>1, <1>2
<1> HIDE DEF n
<1>4. /\ page \in Seq(S)
      /\ Len(page) = IF from + 1 <= n THEN n - (from + 1) + 1 ELSE 0
      /\ \A k \in 1 .. n - (from + 1) + 1 : page[k] = s[(from + 1) + k - 1]
  BY <1>0, <1>2, <1>3, SubSeqProperties
<1>5. DOMAIN page = 1 .. Len(page)
  BY <1>4, LenProperties
<1>6. \A k \in DOMAIN page :
        k \in 1 .. limit /\ from + k \in DOMAIN s /\ page[k] = s[from + k]
  <2> SUFFICES ASSUME NEW k \in DOMAIN page
               PROVE  k \in 1 .. limit /\ from + k \in DOMAIN s /\ page[k] = s[from + k]
    OBVIOUS
  <2>1. k \in 1 .. n - (from + 1) + 1 /\ k \in Nat \ {0}
    BY <1>2, <1>4, <1>5
  <2>2. page[k] = s[(from + 1) + k - 1]
    BY <1>4, <2>1
  <2>3. (from + 1) + k - 1 = from + k
    BY <2>1
  <2> QED BY <1>1, <1>2, <2>1, <2>2, <2>3
<1>7. IsInjective(page)
  <2> SUFFICES ASSUME NEW j \in DOMAIN page, NEW k \in DOMAIN page, page[j] = page[k]
               PROVE  j = k
    BY DEF IsInjective
  <2>1. from + j = from + k
    BY <1>1, <1>6
  <2>2. j \in Nat /\ k \in Nat
    BY <1>6
  <2> QED BY <2>1, <2>2
<1>8. Covers(page, s, from, limit)
  <2> SUFFICES ASSUME NEW j \in DOMAIN s, from < j, j <= from + limit
               PROVE  s[j] \in ToSet(page)
    BY DEF Covers
  <2>1. j \in Nat /\ j <= n
    BY <1>1 DEF n
  <2>2. j - from \in 1 .. n - (from + 1) + 1 /\ (from + 1) + (j - from) - 1 = j
    BY <1>2, <2>1
  <2>3. j - from \in DOMAIN page /\ page[j - from] = s[j]
    BY <1>2, <1>4, <1>5, <2>1, <2>2
  <2> QED BY <2>3 DEF ToSet
<1> QED BY <1>4, <1>6, <1>7, <1>8 DEF Unique, CutBehind

\* A removal moves things by one place, towards the front, and takes only s[i].
LEMMA Removal ==
  ASSUME NEW S, NEW s \in Unique(S), NEW i \in DOMAIN s
  PROVE  /\ RemoveAt(s, i) \in Unique(S)
         /\ ToSet(RemoveAt(s, i)) = ToSet(s) \ {s[i]}
         /\ \A k \in DOMAIN RemoveAt(s, i) :
              k \in Nat /\ \E j \in DOMAIN s :
                k <= j /\ j <= k + 1 /\ RemoveAt(s, i)[k] = s[j]
<1> DEFINE before == SubSeq(s, 1, i - 1)
           behind == SubSeq(s, i + 1, Len(s))
           rest   == before \o behind
           place(k) == IF k < i THEN k ELSE k + 1
<1>1. /\ Len(s) \in Nat /\ DOMAIN s = 1 .. Len(s) /\ \A k \in DOMAIN s : s[k] \in S
      /\ \A j, k \in DOMAIN s : s[j] = s[k] => j = k
  BY Places
<1>2. i \in 1 .. Len(s) /\ i \in Nat
  BY <1>1
<1>3. before \in Seq(S) /\ Len(before) = i - 1 /\ \A k \in 1 .. i - 1 : before[k] = s[k]
  <2>1. \A k \in 1 .. i - 1 : s[k] \in S
    BY <1>1, <1>2
  <2>2. /\ before \in Seq(S)
        /\ Len(before) = IF 1 <= i - 1 THEN i - 1 - 1 + 1 ELSE 0
        /\ \A k \in 1 .. i - 1 - 1 + 1 : before[k] = s[1 + k - 1]
    <3>1. 1 \in Int /\ i - 1 \in Int
      BY <1>2
    <3> QED BY <2>1, <3>1, SubSeqProperties
  <2> HIDE DEF before
  <2> QED BY <1>2, <2>2
<1>4. behind \in Seq(S) /\ Len(behind) = Len(s) - i
      /\ \A k \in 1 .. Len(s) - i : behind[k] = s[i + k]
  <2>1. \A k \in i + 1 .. Len(s) : s[k] \in S
    BY <1>1, <1>2
  <2>2. /\ behind \in Seq(S)
        /\ Len(behind) = IF i + 1 <= Len(s) THEN Len(s) - (i + 1) + 1 ELSE 0
        /\ \A k \in 1 .. Len(s) - (i + 1) + 1 : behind[k] = s[(i + 1) + k - 1]
    <3>1. i + 1 \in Int /\ Len(s) \in Int
      BY <1>1, <1>2
    <3> QED BY <2>1, <3>1, SubSeqProperties
  <2> HIDE DEF behind
  <2>3. Len(behind) = Len(s) - i
    BY <1>1, <1>2, <2>2
  <2>4. ASSUME NEW k \in 1 .. Len(s) - i
        PROVE  behind[k] = s[i + k]
    <3>1. k \in 1 .. Len(s) - (i + 1) + 1 /\ (i + 1) + k - 1 = i + k
      BY <1>1, <1>2
    <3> QED BY <2>2, <3>1
  <2> QED BY <2>2, <2>3, <2>4
<1> HIDE DEF before, behind
<1>5. /\ rest \in Seq(S) /\ Len(rest) = Len(s) - 1
      /\ \A k \in 1 .. Len(rest) : rest[k] = IF k <= i - 1 THEN before[k] ELSE behind[k - (i - 1)]
  <2>1. /\ rest \in Seq(S) /\ Len(rest) = Len(before) + Len(behind)
        /\ \A k \in 1 .. Len(before) + Len(behind) :
             rest[k] = IF k <= Len(before) THEN before[k] ELSE behind[k - Len(before)]
    BY <1>3, <1>4, ConcatProperties
  <2> HIDE DEF rest
  <2> QED BY <1>1, <1>2, <1>3, <1>4, <2>1
<1> HIDE DEF rest
<1>6. DOMAIN rest = 1 .. Len(s) - 1
  BY <1>5, LenProperties
<1>7. ASSUME NEW k \in DOMAIN rest
      PROVE  /\ k \in Nat /\ place(k) \in DOMAIN s /\ rest[k] = s[place(k)]
             /\ k <= place(k) /\ place(k) <= k + 1 /\ place(k) # i
  <2>1. k \in 1 .. Len(s) - 1 /\ k \in Nat /\ k \in 1 .. Len(rest)
    BY <1>1, <1>5, <1>6
  <2>2. CASE k < i
    <3>1. k \in 1 .. i - 1 /\ k <= i - 1 /\ k \in 1 .. Len(s)
      BY <1>1, <1>2, <2>1, <2>2
    <3>2. rest[k] = before[k] /\ before[k] = s[k]
      BY <1>3, <1>5, <2>1, <3>1
    <3> QED BY <1>1, <2>1, <2>2, <3>1, <3>2
  <2>3. CASE ~(k < i)
    <3>1. k - (i - 1) \in 1 .. Len(s) - i /\ ~(k <= i - 1) /\ i + (k - (i - 1)) = k + 1
      BY <1>1, <1>2, <2>1, <2>3
    <3>2. rest[k] = behind[k - (i - 1)] /\ behind[k - (i - 1)] = s[i + (k - (i - 1))]
      BY <1>4, <1>5, <2>1, <3>1
    <3> QED BY <1>1, <1>2, <2>1, <2>3, <3>1, <3>2
  <2> QED BY <2>2, <2>3
<1>8. IsInjective(rest)
  <2> SUFFICES ASSUME NEW j \in DOMAIN rest, NEW k \in DOMAIN rest, rest[j] = rest[k]
               PROVE  j = k
    BY DEF IsInjective
  <2>1. place(j) = place(k) /\ j \in Nat /\ k \in Nat
    BY <1>1, <1>7
  <2> QED BY <1>2, <2>1
<1>9. ToSet(rest) = ToSet(s) \ {s[i]}
  <2>1. \A k \in DOMAIN rest : rest[k] \in ToSet(s) \ {s[i]}
    BY <1>1, <1>7 DEF ToSet
  <2>2. ASSUME NEW j \in DOMAIN s, j # i PROVE s[j] \in ToSet(rest)
    <3>1. CASE j < i
      <4>1. j \in DOMAIN rest /\ place(j) = j
        BY <1>1, <1>2, <1>6, <3>1
      <4> QED BY <1>7, <4>1 DEF ToSet
    <3>2. CASE ~(j < i)
      <4>1. j - 1 \in DOMAIN rest /\ place(j - 1) = j
        BY <1>1, <1>2, <1>6, <2>2, <3>2
      <4> QED BY <1>7, <4>1 DEF ToSet
    <3> QED BY <3>1, <3>2
  <2> QED BY <1>1, <2>1, <2>2 DEF ToSet
<1>10. \A k \in DOMAIN rest :
         k \in Nat /\ \E j \in DOMAIN s : k <= j /\ j <= k + 1 /\ rest[k] = s[j]
  BY <1>7
<1>11. rest = RemoveAt(s, i)
  BY DEF rest, before, behind, RemoveAt
<1> QED BY <1>5, <1>8, <1>9, <1>10, <1>11 DEF Unique

\* An insertion moves nothing towards the front, and brings nothing but e.
LEMMA Insertion ==
  ASSUME NEW S, NEW s \in Unique(S), NEW i \in 1 .. Len(s) + 1,
         NEW e \in S, e \notin ToSet(s)
  PROVE  /\ InsertAt(s, i, e) \in Unique(S)
         /\ ToSet(InsertAt(s, i, e)) = ToSet(s) \union {e}
         /\ \A k \in DOMAIN InsertAt(s, i, e) :
              k \in Nat /\ (InsertAt(s, i, e)[k] = e
                            \/ \E j \in DOMAIN s : j <= k /\ InsertAt(s, i, e)[k] = s[j])
<1> DEFINE before == SubSeq(s, 1, i - 1)
           behind == SubSeq(s, i, Len(s))
           front  == before \o <<e>>
           longer == front \o behind
<1>1. /\ Len(s) \in Nat /\ DOMAIN s = 1 .. Len(s) /\ \A k \in DOMAIN s : s[k] \in S
      /\ \A j, k \in DOMAIN s : s[j] = s[k] => j = k
      /\ \A k \in DOMAIN s : s[k] # e
  BY Places DEF ToSet
<1>2. i \in Nat /\ 1 <= i /\ i <= Len(s) + 1
  BY <1>1
<1>3. before \in Seq(S) /\ Len(before) = i - 1 /\ \A k \in 1 .. i - 1 : before[k] = s[k]
  <2>1. \A k \in 1 .. i - 1 : s[k] \in S
    BY <1>1, <1>2
  <2>2. /\ before \in Seq(S)
        /\ Len(before) = IF 1 <= i - 1 THEN i - 1 - 1 + 1 ELSE 0
        /\ \A k \in 1 .. i - 1 - 1 + 1 : before[k] = s[1 + k - 1]
    <3>1. 1 \in Int /\ i - 1 \in Int
      BY <1>2
    <3> QED BY <2>1, <3>1, SubSeqProperties
  <2> HIDE DEF before
  <2> QED BY <1>2, <2>2
<1>4. behind \in Seq(S) /\ Len(behind) = Len(s) - i + 1
      /\ \A k \in 1 .. Len(s) - i + 1 : behind[k] = s[i + k - 1]
  <2>1. \A k \in i .. Len(s) : s[k] \in S
    BY <1>1, <1>2
  <2>2. /\ behind \in Seq(S)
        /\ Len(behind) = IF i <= Len(s) THEN Len(s) - i + 1 ELSE 0
        /\ \A k \in 1 .. Len(s) - i + 1 : behind[k] = s[i + k - 1]
    <3>1. i \in Int /\ Len(s) \in Int
      BY <1>1, <1>2
    <3> QED BY <2>1, <3>1, SubSeqProperties
  <2> HIDE DEF behind
  <2> QED BY <1>1, <1>2, <2>2
<1> HIDE DEF before, behind
<1>5. /\ front \in Seq(S) /\ Len(front) = i
      /\ \A k \in 1 .. i : front[k] = IF k <= i - 1 THEN before[k] ELSE e
  <2>1. <<e>> \in Seq(S) /\ Len(<<e>>) = 1 /\ <<e>>[1] = e
    OBVIOUS
  <2>2. /\ front \in Seq(S) /\ Len(front) = Len(before) + Len(<<e>>)
        /\ \A k \in 1 .. Len(before) + Len(<<e>>) :
             front[k] = IF k <= Len(before) THEN before[k] ELSE <<e>>[k - Len(before)]
    BY <1>3, <2>1, ConcatProperties
  <2>3. ASSUME NEW k \in 1 .. i
        PROVE  front[k] = IF k <= i - 1 THEN before[k] ELSE e
    <3>1. CASE k <= i - 1
      BY <1>2, <1>3, <2>1, <2>2, <2>3, <3>1
    <3>2. CASE ~(k <= i - 1)
      <4>1. k = i /\ k - Len(before) = 1 /\ ~(k <= Len(before)) /\ k \in 1 .. Len(before) + Len(<<e>>)
        BY <1>2, <1>3, <2>1, <2>3, <3>2
      <4> QED BY <2>1, <2>2, <3>2, <4>1
    <3> QED BY <3>1, <3>2
  <2> QED BY <1>2, <1>3, <2>1, <2>2, <2>3
<1> HIDE DEF front
<1>6. /\ longer \in Seq(S) /\ Len(longer) = Len(s) + 1
      /\ \A k \in 1 .. Len(s) + 1 : longer[k] = IF k <= i THEN front[k] ELSE behind[k - i]
  <2>1. /\ longer \in Seq(S) /\ Len(longer) = Len(front) + Len(behind)
        /\ \A k \in 1 .. Len(front) + Len(behind) :
             longer[k] = IF k <= Len(front) THEN front[k] ELSE behind[k - Len(front)]
    BY <1>4, <1>5, ConcatProperties
  <2> HIDE DEF longer
  <2>2. Len(longer) = Len(s) + 1
    BY <1>1, <1>2, <1>4, <1>5, <2>1
  <2> QED BY <1>1, <1>2, <1>5, <2>1, <2>2
<1> HIDE DEF longer
<1>7. DOMAIN longer = 1 .. Len(s) + 1
  BY <1>6, LenProperties
<1>8. /\ longer[i] = e
      /\ \A k \in 1 .. i - 1 : longer[k] = s[k] /\ k \in DOMAIN s
      /\ \A k \in i + 1 .. Len(s) + 1 : longer[k] = s[k - 1] /\ k - 1 \in DOMAIN s
  <2>1. longer[i] = e
    BY <1>1, <1>2, <1>5, <1>6
  <2>2. ASSUME NEW k \in 1 .. i - 1 PROVE longer[k] = s[k] /\ k \in DOMAIN s
    <3>1. k \in 1 .. Len(s) + 1 /\ k <= i /\ k \in 1 .. i /\ k <= i - 1 /\ k \in 1 .. Len(s)
      BY <1>1, <1>2
    <3> QED BY <1>1, <1>3, <1>5, <1>6, <3>1
  <2>3. ASSUME NEW k \in i + 1 .. Len(s) + 1 PROVE longer[k] = s[k - 1] /\ k - 1 \in DOMAIN s
    <3>1. /\ k \in 1 .. Len(s) + 1 /\ ~(k <= i) /\ k - i \in 1 .. Len(s) - i + 1
          /\ i + (k - i) - 1 = k - 1 /\ k - 1 \in 1 .. Len(s)
      BY <1>1, <1>2
    <3>2. longer[k] = behind[k - i] /\ behind[k - i] = s[i + (k - i) - 1]
      BY <1>4, <1>6, <3>1
    <3> QED BY <1>1, <3>1, <3>2
  <2> QED BY <2>1, <2>2, <2>3
<1>9. \A k \in DOMAIN longer : k \in Nat /\ (k \in 1 .. i - 1 \/ k = i \/ k \in i + 1 .. Len(s) + 1)
  BY <1>1, <1>2, <1>7
<1>10. IsInjective(longer)
  <2> SUFFICES ASSUME NEW j \in DOMAIN longer, NEW k \in DOMAIN longer, longer[j] = longer[k]
               PROVE  j = k
    BY DEF IsInjective
  <2> DEFINE place(m) == IF m <= i - 1 THEN m ELSE m - 1
  <2>1. \A m \in DOMAIN longer : m # i => place(m) \in DOMAIN s /\ longer[m] = s[place(m)]
    BY <1>2, <1>8, <1>9
  <2>2. j = i <=> k = i
    BY <1>1, <1>8, <2>1
  <2>3. CASE j # i
    <3>1. place(j) = place(k)
      BY <1>1, <2>1, <2>2, <2>3
    <3> QED BY <1>2, <1>9, <2>2, <2>3, <3>1
  <2> QED BY <2>2, <2>3
<1>11. \A k \in DOMAIN longer :
         k \in Nat /\ (longer[k] = e \/ \E j \in DOMAIN s : j <= k /\ longer[k] = s[j])
  <2> SUFFICES ASSUME NEW k \in DOMAIN longer, longer[k] # e
               PROVE  \E j \in DOMAIN s : j <= k /\ longer[k] = s[j]
    BY <1>9
  <2>1. CASE k \in 1 .. i - 1
    BY <1>8, <1>9, <2>1
  <2>2. CASE k \in i + 1 .. Len(s) + 1
    <3>1. k - 1 \in DOMAIN s /\ longer[k] = s[k - 1] /\ k - 1 <= k
      BY <1>8, <1>9, <2>2
    <3> QED BY <3>1
  <2> QED BY <1>8, <1>9, <2>1, <2>2
<1>12. ToSet(longer) = ToSet(s) \union {e}
  <2>1. \A k \in DOMAIN longer : longer[k] \in ToSet(s) \union {e}
    BY <1>11 DEF ToSet
  <2>2. e \in ToSet(longer)
    <3>1. i \in DOMAIN longer
      BY <1>1, <1>2, <1>7
    <3> QED BY <1>8, <3>1 DEF ToSet
  <2>3. ASSUME NEW j \in DOMAIN s PROVE s[j] \in ToSet(longer)
    <3>1. CASE j \in 1 .. i - 1
      <4>1. j \in DOMAIN longer
        BY <1>1, <1>2, <1>7, <3>1
      <4> QED BY <1>8, <3>1, <4>1 DEF ToSet
    <3>2. CASE j \notin 1 .. i - 1
      <4>1. j + 1 \in i + 1 .. Len(s) + 1 /\ j + 1 \in DOMAIN longer /\ (j + 1) - 1 = j
        BY <1>1, <1>2, <1>7, <3>2
      <4> QED BY <1>8, <4>1 DEF ToSet
    <3> QED BY <3>1, <3>2
  <2> QED BY <2>1, <2>2, <2>3 DEF ToSet
<1>13. longer = InsertAt(s, i, e)
  BY DEF longer, front, before, behind, InsertAt
<1> QED BY <1>6, <1>10, <1>11, <1>12, <1>13 DEF Unique

\* It is no longer than what it is made of.
LEMMA UniqueIsShort ==
  ASSUME NEW S, IsFiniteSet(S), NEW s \in Unique(S)
  PROVE  Cardinality(S) \in Nat /\ Len(s) <= Cardinality(S) /\ IsFiniteSet(ToSet(s))
<1>1. s \in [1 .. Len(s) -> S] /\ Len(s) \in Nat /\ IsInjective(s)
  BY LenProperties DEF Unique
<1>2. s \in Injection(1 .. Len(s), S)
  BY <1>1 DEF Injection
<1>3. Cardinality(1 .. Len(s)) <= Cardinality(S)
  BY <1>2, FS_Injection
<1>4. Cardinality(1 .. Len(s)) = Len(s)
  <2>1. Cardinality(1 .. Len(s)) = IF 1 > Len(s) THEN 0 ELSE Len(s) - 1 + 1
    BY <1>1, FS_Interval
  <2> QED BY <1>1, <2>1
<1>5. ToSet(s) \subseteq S
  BY <1>1 DEF ToSet
<1> QED BY <1>3, <1>4, <1>5, FS_CardinalityType, FS_Subset

LEMMA Rest ==
  ASSUME NEW S, NEW s \in Unique(S), s # <<>>
  PROVE  /\ Head(s) = s[1] /\ s[1] \in S /\ 1 \in 1 .. Len(s)
         /\ Tail(s) \in Unique(S) /\ Len(Tail(s)) = Len(s) - 1
         /\ \A k \in 1 .. Len(Tail(s)) : k + 1 \in 2 .. Len(s) /\ Tail(s)[k] = s[k + 1]
<1>1. /\ s \in Seq(S) /\ Len(s) \in Nat /\ DOMAIN s = 1 .. Len(s)
      /\ \A k \in DOMAIN s : s[k] \in S
      /\ \A j, k \in DOMAIN s : s[j] = s[k] => j = k
  BY Places
<1>2. /\ Tail(s) \in Seq(S) /\ Len(Tail(s)) = Len(s) - 1
      /\ \A k \in 1 .. Len(Tail(s)) : Tail(s)[k] = s[k + 1]
  BY <1>1, HeadTailProperties
<1>3. Len(s) # 0 /\ DOMAIN Tail(s) = 1 .. Len(Tail(s))
  BY <1>1, <1>2, EmptySeq, LenProperties
<1>4. \A k \in 1 .. Len(Tail(s)) : k \in Nat /\ k + 1 \in DOMAIN s /\ k + 1 \in 2 .. Len(s)
  BY <1>1, <1>2
<1>5. IsInjective(Tail(s))
  <2> SUFFICES ASSUME NEW j \in DOMAIN Tail(s), NEW k \in DOMAIN Tail(s), Tail(s)[j] = Tail(s)[k]
               PROVE  j = k
    BY DEF IsInjective
  <2>1. j + 1 = k + 1 /\ j \in Nat /\ k \in Nat
    BY <1>1, <1>2, <1>3, <1>4
  <2> QED BY <2>1
<1> QED BY <1>1, <1>2, <1>3, <1>4, <1>5 DEF Unique

-----------------------------------------------------------------------------
(* The invariant. *)

LEMMA Lists ==
  ASSUME account \in Account
  PROVE  /\ account.parents \in Unique(Parents)
         /\ account.children \in [Parents -> Unique(Children)]
BY DEF Account

LEMMA ListerNested ==
  ASSUME lister \in Listers
  PROVE  lister.nested \in {"none", "included", "one call", "paged"}
<1>1. \A n, w : Lister(n, w).nested = n
  BY DEF Lister
<1>2. /\ ListUsers.nested = "none" /\ ListTeams.nested = "none" /\ ListServices.nested = "none"
      /\ ListEscalationPolicies.nested = "none" /\ ListMaintenanceWindows.nested = "none"
      /\ ListSchedules.nested = "none" /\ ListIntegrations.nested = "included"
      /\ ListContactMethods.nested = "one call" /\ ListNotificationRules.nested = "one call"
      /\ ListScheduleOverrides.nested = "one call" /\ ListTeamMemberships.nested = "paged"
  BY <1>1 DEF ListUsers, ListTeams, ListServices, ListEscalationPolicies,
              ListMaintenanceWindows, ListSchedules, ListIntegrations, ListContactMethods,
              ListNotificationRules, ListScheduleOverrides, ListTeamMemberships
<1> QED BY <1>2 DEF Listers

LEMMA Numbers == {PageSize, MaxPage, MemberPage} \subseteq Nat \ {0} /\ Limit \in Nat \ {0}
BY ConstantsAssumption DEF Limit

LEMMA InitHolds == Init => Holds
<1> SUFFICES ASSUME Init PROVE Holds
  OBVIOUS
<1>1. account \in Account
  BY ConstantsAssumption DEF Init
<1>2. <<>> \in Unique(Parents)
  BY EmptySeq, LenProperties DEF Unique, IsInjective
<1>3. lister.nested \in {"none", "included", "one call", "paged"}
  BY ListerNested DEF Init
<1> QED BY <1>1, <1>2, <1>3 DEF Init, Holds, Shape, Behind, Bound, FromPages, ToExpand, Once

\* A page of parents begins behind every parent formae was shown.
LEMMA StepFetch ==
  ASSUME Holds, FetchPage
  PROVE  Holds'
<1> DEFINE page      == PageOf(account.parents, token, Limit)
           following == IF More(account.parents, token, Limit) THEN NextToken ELSE 0
<1>1. /\ account \in Account /\ token \in Nat /\ next \in Nat /\ offset \in Nat
      /\ todo \in Unique(Parents) /\ shown \subseteq Parents
  BY DEF Holds, Shape
<1>2. account.parents \in Unique(Parents) /\ account.children \in [Parents -> Unique(Children)]
  BY <1>1, Lists
<1>3. /\ page \in Unique(Parents)
      /\ \A k \in DOMAIN page :
           /\ k \in 1 .. Limit /\ token + k \in DOMAIN account.parents
           /\ page[k] = account.parents[token + k]
  <2>1. Limit \in Nat /\ page = PageOf(account.parents, token, Limit)
    BY Numbers
  <2> HIDE DEF page
  <2>2. page \in Unique(Parents) /\ CutBehind(page, account.parents, token, Limit)
    BY <1>1, <1>2, <2>1, PageElements
  <2> QED BY <2>2 DEF CutBehind
<1>4. /\ page \in Seq(Parents) /\ DOMAIN page = 1 .. Len(page)
      /\ \A k \in DOMAIN page : page[k] \in Parents
  BY <1>3, Places
<1>5. following \in Nat /\ (following # 0 => following = token + Limit)
  BY <1>1, Numbers DEF NextToken
<1>6. /\ pc = "ask" /\ shown' = shown \union ToSet(page)
      /\ account' = account /\ lister' = lister /\ offset' = offset
      /\ IF lister.nested \in {"none", "included"}
         THEN Return(OnPage(page), following) /\ next' = next /\ todo' = todo
         ELSE /\ pc' = "expand" /\ next' = following /\ todo' = page
              /\ token' = token /\ ids' = ids /\ listed' = listed /\ repeated' = repeated
  BY DEF FetchPage
<1>7. /\ Bound(token) /\ ids = {} /\ repeated = {}
      /\ lister.nested = "none" => listed \subseteq shown
      /\ lister.nested # "none" => listed \subseteq shown \X Children
  BY <1>6 DEF Holds, Behind, ToExpand, FromPages, Once
<1>8. \A k \in DOMAIN page : page[k] \notin shown
  BY <1>1, <1>3, <1>7 DEF Bound
<1>9. following # 0 => \A i \in DOMAIN account.parents : account.parents[i] \in shown' => i <= following
  <2> SUFFICES ASSUME following # 0, NEW i \in DOMAIN account.parents, account.parents[i] \in shown'
               PROVE  i <= following
    OBVIOUS
  <2>0. i \in Nat /\ \A j \in DOMAIN account.parents : account.parents[i] = account.parents[j] => i = j
    BY <1>2, Places
  <2>1. CASE account.parents[i] \in shown
    BY <1>1, <1>5, <1>7, <2>0, <2>1, Numbers DEF Bound
  <2>2. CASE account.parents[i] \in ToSet(page)
    <3>1. PICK k \in DOMAIN page : account.parents[i] = page[k]
      BY <2>2 DEF ToSet
    <3>2. i = token + k /\ k <= Limit /\ k \in Nat
      BY <1>3, <2>0, <3>1, Numbers
    <3> QED BY <1>1, <1>5, <3>2, Numbers
  <2> QED BY <1>6, <2>1, <2>2
<1> HIDE DEF page, following
<1>10. shown' \subseteq Parents /\ shown \subseteq shown'
  BY <1>1, <1>4, <1>6 DEF ToSet
<1>11. CASE lister.nested \in {"none", "included"}
  <2>1. /\ listed' = listed \union OnPage(page)
        /\ repeated' = repeated \union (listed \intersect OnPage(page))
        /\ token' = following /\ ids' = {}
        /\ pc' = IF following = 0 THEN "done" ELSE "ask"
        /\ next' = next /\ todo' = todo
    BY <1>6, <1>11 DEF Return
  <2>2. Shape' /\ Behind'
    <3>1. Shape'
      BY <1>1, <1>5, <1>6, <1>10, <2>1 DEF Holds, Shape
    <3>2. Behind'
      BY <1>6, <1>9, <2>1 DEF Behind, Bound
    <3> QED BY <3>1, <3>2
  <2>3. CASE lister.nested = "none"
    <3>1. OnPage(page) = ToSet(page)
      BY <2>3 DEF OnPage
    <3>2. listed \intersect ToSet(page) = {}
      BY <1>7, <1>8, <2>3 DEF ToSet
    <3> QED BY <1>6, <1>7, <1>10, <2>1, <2>2, <2>3, <3>1, <3>2
            DEF Holds, FromPages, ToExpand, Once
  <2>4. CASE lister.nested = "included"
    <3>1. OnPage(page) = UNION {Composite(p, account.children[p]) : p \in ToSet(page)}
      BY <2>4 DEF OnPage
    <3>2. OnPage(page) \subseteq ToSet(page) \X Children
      <4> SUFFICES ASSUME NEW p \in ToSet(page), NEW x \in Composite(p, account.children[p])
                   PROVE  x \in ToSet(page) \X Children
        BY <3>1
      <4>1. p \in Parents
        BY <1>4 DEF ToSet
      <4>2. \A i \in DOMAIN account.children[p] : account.children[p][i] \in Children
        BY <1>2, <4>1, Places
      <4> QED BY <4>2 DEF Composite, ToSet
    <3>3. listed \intersect OnPage(page) = {}
      BY <1>7, <1>8, <2>4, <3>2 DEF ToSet
    <3>4. listed' \subseteq shown' \X Children
      BY <1>6, <1>7, <1>10, <2>1, <2>4, <3>2
    <3> QED BY <1>6, <1>7, <2>1, <2>2, <2>4, <3>3, <3>4
            DEF Holds, FromPages, ToExpand, Once
  <2> QED BY <1>11, <2>3, <2>4
<1>12. CASE lister.nested \notin {"none", "included"}
  <2>1. /\ pc' = "expand" /\ next' = following /\ todo' = page
        /\ token' = token /\ ids' = {} /\ listed' = listed /\ repeated' = {}
    BY <1>6, <1>7, <1>12
  <2>2. Shape' /\ Behind'
    <3>1. Shape'
      BY <1>1, <1>3, <1>5, <1>6, <1>10, <2>1 DEF Holds, Shape
    <3>2. Behind'
      BY <1>6, <1>9, <2>1 DEF Behind, Bound
    <3> QED BY <3>1, <3>2
  <2>3. lister.nested \in {"one call", "paged"}
    BY <1>12 DEF Holds, Shape
  <2>4. \A k \in 1 .. Len(page) : page[k] \in shown'
    BY <1>4, <1>6 DEF ToSet
  <2>5. \A k \in 1 .. Len(page), c \in Children : <<page[k], c>> \notin listed
    BY <1>4, <1>7, <1>8, <1>12
  <2>6. FromPages' /\ Once'
    BY <1>6, <1>7, <1>10, <1>12, <2>1 DEF FromPages, Once
  <2>7. ToExpand'
    BY <1>6, <2>1, <2>3, <2>4, <2>5 DEF ToExpand
  <2> QED BY <2>2, <2>6, <2>7 DEF Holds
<1> QED BY <1>11, <1>12

\* What an expansion finds of a parent: resources nested in it.
LEMMA CompositeParts ==
  ASSUME NEW p, NEW cs, NEW x \in Composite(p, cs)
  PROVE  \E i \in DOMAIN cs : x = <<p, cs[i]>>
BY DEF Composite, ToSet

\* The rest of the parents on the page, from any of which there is nothing yet.
LEMMA NextParent ==
  ASSUME Holds, pc = "expand", todo # <<>>
  PROVE  /\ todo[1] \in Parents /\ todo[1] \in shown
         /\ Tail(todo) \in Unique(Parents)
         /\ \A k \in 1 .. Len(Tail(todo)) :
              /\ Tail(todo)[k] \in shown /\ Tail(todo)[k] # todo[1]
              /\ \A c \in Children : <<Tail(todo)[k], c>> \notin listed \union ids
         /\ \A c \in Children : <<todo[1], c>> \notin listed
<1>1. todo \in Unique(Parents)
  BY DEF Holds, Shape
<1>2. /\ \A k \in 1 .. Len(todo) : todo[k] \in shown
      /\ \A k \in 1 .. Len(todo), c \in Children : <<todo[k], c>> \notin listed
      /\ \A k \in 2 .. Len(todo), c \in Children : <<todo[k], c>> \notin ids
  BY DEF Holds, ToExpand
<1>3. /\ todo[1] \in Parents /\ 1 \in 1 .. Len(todo)
      /\ Tail(todo) \in Unique(Parents)
      /\ \A k \in 1 .. Len(Tail(todo)) :
           k + 1 \in 2 .. Len(todo) /\ Tail(todo)[k] = todo[k + 1]
  BY <1>1, Rest
<1>4. /\ DOMAIN todo = 1 .. Len(todo) /\ Len(todo) \in Nat
      /\ \A j, k \in DOMAIN todo : todo[j] = todo[k] => j = k
  BY <1>1, Places
<1>5. ASSUME NEW k \in 1 .. Len(Tail(todo))
      PROVE  /\ Tail(todo)[k] \in shown /\ Tail(todo)[k] # todo[1]
             /\ \A c \in Children : <<Tail(todo)[k], c>> \notin listed \union ids
  <2>1. k + 1 \in 2 .. Len(todo) /\ k + 1 \in 1 .. Len(todo) /\ Tail(todo)[k] = todo[k + 1]
        /\ k + 1 # 1
    BY <1>3, <1>4
  <2> QED BY <1>2, <1>3, <1>4, <2>1
<1> QED BY <1>2, <1>3, <1>5

\* The parent is done with: its resources, or none, are all the call has more.
LEMMA PassOn ==
  ASSUME Holds, pc = "expand", todo # <<>>,
         NEW found \in SUBSET ({todo[1]} \X Children),
         found \intersect ids = {},
         account' = account, lister' = lister, pc' = pc, token' = token, next' = next,
         listed' = listed, shown' = shown,
         repeated' = {}, ids' = ids \union found, todo' = Tail(todo), offset' \in Nat
  PROVE  Holds'
<1>1. /\ todo[1] \in Parents /\ todo[1] \in shown
      /\ Tail(todo) \in Unique(Parents)
      /\ \A k \in 1 .. Len(Tail(todo)) :
           /\ Tail(todo)[k] \in shown /\ Tail(todo)[k] # todo[1]
           /\ \A c \in Children : <<Tail(todo)[k], c>> \notin listed \union ids
      /\ \A c \in Children : <<todo[1], c>> \notin listed
  BY NextParent
<1>2. Shape' /\ Behind'
  <2>1. Shape'
    BY <1>1 DEF Holds, Shape
  <2>2. Behind'
    BY DEF Holds, Behind, Bound
  <2> QED BY <2>1, <2>2
<1>3. lister.nested \in {"one call", "paged"}
  BY DEF Holds, ToExpand
<1>4. FromPages'
  <2>1. found \subseteq shown \X Children
    BY <1>1
  <2> QED BY <1>3, <2>1 DEF Holds, FromPages
<1>5. Once'
  <2>1. listed \intersect found = {}
    BY <1>1
  <2> QED BY <2>1 DEF Holds, Once
<1>6. \A k \in 1 .. Len(todo'), c \in Children : <<todo'[k], c>> \notin ids'
  BY <1>1
<1>7. ToExpand'
  <2>1. /\ todo' # <<>> => todo'[1] \in Parents /\ 1 \in 1 .. Len(todo')
    BY <1>1, Rest
  <2>2. account.children \in [Parents -> Unique(Children)]
    BY Lists DEF Holds, Shape
  <2>3. ASSUME todo' # <<>>, NEW i \in DOMAIN account'.children[todo'[1]]
        PROVE  <<todo'[1], account'.children[todo'[1]][i]>> \notin ids'
    <3>1. account.children[todo'[1]][i] \in Children
      BY <2>1, <2>2, <2>3, Places
    <3> QED BY <1>6, <2>1, <2>3, <3>1
  <2>4. \A k \in 2 .. Len(todo') : k \in 1 .. Len(todo')
    <3>1. Len(todo') \in Nat
      BY <1>1, Places
    <3> QED BY <3>1
  <2> QED BY <1>1, <1>3, <1>6, <2>3, <2>4 DEF ToExpand
<1> QED BY <1>2, <1>4, <1>5, <1>7 DEF Holds

LEMMA StepExpand ==
  ASSUME Holds, NEW p \in Parents, Expand(p)
  PROVE  Holds'
<1>1. /\ pc = "expand" /\ todo # <<>> /\ lister.nested = "one call"
      /\ ids' = ids \union Composite(p, account.children[p])
      /\ repeated' = repeated \union (ids \intersect Composite(p, account.children[p]))
      /\ todo' = Tail(todo) /\ UNCHANGED <<account, lister, pc, token, next, offset, listed, shown>>
  BY DEF Expand, Expanding, Found, history
<1>2. p = todo[1] /\ 1 \in 1 .. Len(todo)
  BY <1>1, Rest DEF Expand, Expanding, Holds, Shape
<1>3. \A i \in DOMAIN account.children[p] : account.children[p][i] \in Children
  BY Lists, Places DEF Holds, Shape
<1>4. Composite(p, account.children[p]) \subseteq {todo[1]} \X Children
  BY <1>2, <1>3, CompositeParts
<1>5. Composite(p, account.children[p]) \intersect ids = {}
  <2>1. \A c \in Children : <<todo[1], c>> \notin ids
    BY <1>1, <1>2 DEF Holds, ToExpand
  <2> QED BY <1>4, <2>1
<1>6. repeated = {} /\ offset \in Nat
  BY DEF Holds, Once, Shape
<1> QED BY <1>1, <1>4, <1>5, <1>6, PassOn

LEMMA StepExpandFails ==
  ASSUME Holds, NEW p \in Parents, ExpandFails(p)
  PROVE  Holds'
<1>1. /\ pc = "expand" /\ todo # <<>> /\ offset' = 0 /\ todo' = Tail(todo)
      /\ UNCHANGED <<account, lister, pc, token, next, ids, listed, repeated, shown>>
  BY DEF ExpandFails, Expanding
<1>2. repeated = {}
  BY DEF Holds, Once
<1>3. ids' = ids \union {} /\ {} \in SUBSET ({todo[1]} \X Children) /\ {} \intersect ids = {}
      /\ offset' \in Nat
  BY <1>1
<1> QED BY <1>1, <1>2, <1>3, PassOn

LEMMA StepExpanded ==
  ASSUME Holds, Expanded
  PROVE  Holds'
<1>1. /\ pc = "expand" /\ todo = <<>>
      /\ listed' = listed \union ids /\ repeated' = repeated \union (listed \intersect ids)
      /\ token' = next /\ ids' = {} /\ pc' = IF next = 0 THEN "done" ELSE "ask"
      /\ UNCHANGED <<account, lister, next, todo, offset, shown>>
  BY DEF Expanded, Return, history
<1>2. Shape' /\ Behind' /\ Once'
  BY <1>1 DEF Holds, Shape, Behind, Bound, Once
<1>3. FromPages' /\ ToExpand'
  BY <1>1 DEF Holds, FromPages, ToExpand
<1> QED BY <1>2, <1>3 DEF Holds

\* Every page of members begins behind those of the pages before.
LEMMA StepExpandPage ==
  ASSUME Holds, NEW p \in Parents, ExpandPage(p)
  PROVE  Holds'
<1> DEFINE members == account.children[p]
           page    == PageOf(members, offset, MemberPage)
           found   == Composite(p, page)
<1>1. /\ pc = "expand" /\ todo # <<>> /\ lister.nested = "paged"
      /\ ids' = ids \union found /\ repeated' = repeated \union (ids \intersect found)
      /\ IF MoreMembers(p) THEN offset' = NextOffset /\ todo' = todo
                           ELSE offset' = 0 /\ todo' = Tail(todo)
      /\ UNCHANGED <<account, lister, pc, token, next, listed, shown>>
  BY DEF ExpandPage, Expanding, Found, history
<1>2. p = todo[1] /\ 1 \in 1 .. Len(todo)
  BY <1>1, Rest DEF ExpandPage, Expanding, Holds, Shape
<1>3. offset \in Nat /\ MemberPage \in Nat /\ members \in Unique(Children)
      /\ repeated = {} /\ listed \intersect ids = {} /\ todo \in Unique(Parents)
  BY Lists, Numbers DEF Holds, Shape, Once
<1>4. /\ DOMAIN members = 1 .. Len(members) /\ \A i \in DOMAIN members : members[i] \in Children
      /\ \A i, j \in DOMAIN members : members[i] = members[j] => i = j
  BY <1>3, Places
<1>5. /\ todo[1] \in shown /\ \A c \in Children : <<todo[1], c>> \notin listed
      /\ \A i \in DOMAIN members : <<p, members[i]>> \in ids => i <= offset
  BY <1>1, <1>2, NextParent DEF Holds, ToExpand
<1> HIDE DEF members
<1>6. CutBehind(page, members, offset, MemberPage)
  BY <1>3, PageElements
<1> HIDE DEF page
<1>7. \A x \in found : \E i \in DOMAIN members :
        x = <<p, members[i]>> /\ offset < i /\ i <= offset + MemberPage
  <2> SUFFICES ASSUME NEW x \in found
               PROVE  \E i \in DOMAIN members :
                        x = <<p, members[i]>> /\ offset < i /\ i <= offset + MemberPage
    OBVIOUS
  <2>1. PICK k \in DOMAIN page : x = <<p, page[k]>>
    BY CompositeParts
  <2>2. k \in 1 .. MemberPage /\ offset + k \in DOMAIN members /\ page[k] = members[offset + k]
    BY <1>6 DEF CutBehind
  <2>3. offset < offset + k /\ offset + k <= offset + MemberPage
    BY <1>3, <2>2
  <2> QED BY <2>1, <2>2, <2>3
<1> HIDE DEF found
<1>8. found \subseteq {todo[1]} \X Children
  BY <1>2, <1>4, <1>7
<1>9. found \intersect ids = {}
  <2> SUFFICES ASSUME NEW x \in found, x \in ids PROVE FALSE
    OBVIOUS
  <2>1. PICK i \in DOMAIN members : x = <<p, members[i]>> /\ offset < i
    BY <1>7
  <2>2. i <= offset /\ i \in Nat
    BY <1>4, <1>5, <2>1
  <2> QED BY <1>3, <2>1, <2>2
<1>10. CASE ~MoreMembers(p)
  <2>1. repeated' = {} /\ offset' \in Nat
    BY <1>1, <1>3, <1>9, <1>10
  <2> QED BY <1>1, <1>8, <1>9, <1>10, <2>1, PassOn
<1>11. CASE MoreMembers(p)
  <2>1. offset' = offset + MemberPage /\ offset' \in Nat /\ todo' = todo /\ repeated' = {}
    BY <1>1, <1>3, <1>9, <1>11 DEF NextOffset
  <2>2. Shape' /\ Behind'
    <3>1. Shape'
      BY <1>1, <2>1 DEF Holds, Shape
    <3>2. Behind'
      BY <1>1 DEF Holds, Behind, Bound
    <3> QED BY <3>1, <3>2
  <2>3. FromPages'
    <3>1. found \subseteq shown \X Children
      BY <1>5, <1>8
    <3> QED BY <1>1, <3>1 DEF Holds, FromPages
  <2>4. Once'
    <3>1. listed \intersect found = {}
      BY <1>5, <1>8
    <3> QED BY <1>1, <1>3, <2>1, <3>1 DEF Once
  <2>5. \A i \in DOMAIN members : <<p, members[i]>> \in ids' => i <= offset'
    <3> SUFFICES ASSUME NEW i \in DOMAIN members, <<p, members[i]>> \in ids'
                 PROVE  i <= offset'
      OBVIOUS
    <3>1. i \in Nat
      BY <1>4
    <3>2. CASE <<p, members[i]>> \in ids
      BY <1>3, <1>5, <2>1, <3>1, <3>2
    <3>3. CASE <<p, members[i]>> \in found
      <4>1. PICK j \in DOMAIN members :
              <<p, members[i]>> = <<p, members[j]>> /\ j <= offset + MemberPage
        BY <1>7, <3>3
      <4> QED BY <1>4, <2>1, <4>1
    <3> QED BY <1>1, <3>2, <3>3
  <2>6. \A k \in 2 .. Len(todo), c \in Children : <<todo[k], c>> \notin ids'
    <3> SUFFICES ASSUME NEW k \in 2 .. Len(todo), NEW c \in Children
                 PROVE  <<todo[k], c>> \notin ids'
      OBVIOUS
    <3>1. todo[k] # todo[1]
      <4>1. k \in DOMAIN todo /\ 1 \in DOMAIN todo /\ k # 1
        BY <1>2, <1>3, Places
      <4> QED BY <1>3, <4>1, Places
    <3>2. <<todo[k], c>> \notin ids
      BY <1>1 DEF Holds, ToExpand
    <3>3. <<todo[k], c>> \notin found
      BY <1>8, <3>1
    <3> QED BY <1>1, <3>2, <3>3
  <2>7. ToExpand'
    <3>1. \A i \in DOMAIN account.children[todo[1]] :
            <<todo[1], account.children[todo[1]][i]>> \in ids' => i <= offset'
      BY <1>2, <2>5 DEF members
    <3>2. /\ pc = "expand" /\ \A k \in 1 .. Len(todo) : todo[k] \in shown
          /\ \A k \in 1 .. Len(todo), c \in Children : <<todo[k], c>> \notin listed
      BY <1>1 DEF Holds, ToExpand
    <3> QED BY <1>1, <2>1, <2>6, <3>1, <3>2 DEF ToExpand
  <2> QED BY <2>2, <2>3, <2>4, <2>7 DEF Holds
<1> QED BY <1>10, <1>11

\* The account changes, and what the call still has to expand does not.
LEMMA StillToExpand ==
  ASSUME ToExpand, UNCHANGED <<lister, pc, todo, offset, ids, listed, shown>>,
         pc = "expand" /\ todo # <<>> =>
           \A k \in DOMAIN account'.children[todo[1]] :
             <<todo[1], account'.children[todo[1]][k]>> \in ids => k <= offset
  PROVE  ToExpand'
BY DEF ToExpand

\* The parents behind the one removed come closer, and the bound still holds.
LEMMA StepRemoveParent ==
  ASSUME Holds, NEW i \in DOMAIN account.parents, RemoveParent(i)
  PROVE  Holds'
<1>1. /\ account' = [account EXCEPT !.parents = RemoveAt(account.parents, i)]
      /\ UNCHANGED <<lister, pc, token, next, todo, offset, ids, listed, repeated, shown>>
  BY DEF RemoveParent, Change, call
<1>2. /\ account \in Account /\ account.parents \in Unique(Parents)
      /\ account.children \in [Parents -> Unique(Children)]
      /\ token \in Nat /\ next \in Nat
  BY Lists DEF Holds, Shape
<1>3. /\ RemoveAt(account.parents, i) \in Unique(Parents)
      /\ \A k \in DOMAIN RemoveAt(account.parents, i) : k \in Nat /\
           \E j \in DOMAIN account.parents :
             k <= j /\ RemoveAt(account.parents, i)[k] = account.parents[j]
  BY <1>2, Removal
<1>4. /\ account'.parents = RemoveAt(account.parents, i) /\ account'.children = account.children
      /\ account' \in Account
  BY <1>1, <1>2, <1>3 DEF Account
<1>5. \A at \in Nat : Bound(at) => (\A k \in DOMAIN account'.parents : account'.parents[k] \in shown => k <= at)
  <2> SUFFICES ASSUME NEW at \in Nat, Bound(at),
                      NEW k \in DOMAIN account'.parents, account'.parents[k] \in shown
               PROVE  k <= at
    OBVIOUS
  <2>1. k \in Nat /\ \E j \in DOMAIN account.parents : k <= j /\ account'.parents[k] = account.parents[j]
    BY <1>3, <1>4
  <2>2. PICK j \in DOMAIN account.parents : k <= j /\ account'.parents[k] = account.parents[j]
    BY <2>1
  <2>3. j <= at /\ j \in Nat
    BY <1>2, <2>2, Places DEF Bound
  <2> QED BY <2>1, <2>2, <2>3
<1>6. Behind'
  BY <1>1, <1>2, <1>5 DEF Holds, Behind, Bound
<1>7. Shape' /\ FromPages' /\ Once'
  BY <1>1, <1>4 DEF Holds, Shape, FromPages, Once
<1>8. ToExpand'
  <2>1. ToExpand
    BY DEF Holds
  <2>2. pc = "expand" /\ todo # <<>> =>
          \A k \in DOMAIN account'.children[todo[1]] :
            <<todo[1], account'.children[todo[1]][k]>> \in ids => k <= offset
    BY <1>4, <2>1 DEF ToExpand
  <2> QED BY <1>1, <2>1, <2>2, StillToExpand
<1> QED BY <1>6, <1>7, <1>8 DEF Holds

LEMMA StepRemoveChild ==
  ASSUME Holds, NEW p \in Parents, NEW i \in DOMAIN account.children[p], RemoveChild(p, i)
  PROVE  Holds'
<1> DEFINE fewer == RemoveAt(account.children[p], i)
<1>1. /\ account' = [account EXCEPT !.children[p] = fewer]
      /\ UNCHANGED <<lister, pc, token, next, todo, offset, ids, listed, repeated, shown>>
  BY DEF RemoveChild, Change, call
<1>2. /\ account \in Account /\ account.children \in [Parents -> Unique(Children)]
      /\ offset \in Nat /\ todo \in Unique(Parents)
  BY Lists DEF Holds, Shape
<1>3. /\ fewer \in Unique(Children)
      /\ \A k \in DOMAIN fewer : k \in Nat /\
           \E j \in DOMAIN account.children[p] : k <= j /\ fewer[k] = account.children[p][j]
  BY <1>2, Removal
<1> HIDE DEF fewer
<1>4. /\ account'.parents = account.parents
      /\ account'.children = [account.children EXCEPT ![p] = fewer]
      /\ account' \in Account
  BY <1>1, <1>2, <1>3 DEF Account
<1>5. Shape' /\ Behind' /\ FromPages' /\ Once'
  <2>1. Shape'
    BY <1>1, <1>4 DEF Holds, Shape
  <2>2. Behind'
    BY <1>1, <1>4 DEF Holds, Behind, Bound
  <2>3. FromPages' /\ Once'
    BY <1>1 DEF Holds, FromPages, Once
  <2> QED BY <2>1, <2>2, <2>3
<1>6. ASSUME pc = "expand", todo # <<>>, NEW k \in DOMAIN account'.children[todo[1]],
             <<todo[1], account'.children[todo[1]][k]>> \in ids
      PROVE  k <= offset
  <2>1. /\ todo[1] \in Parents
        /\ \A j \in DOMAIN account.children[todo[1]] :
             <<todo[1], account.children[todo[1]][j]>> \in ids => j <= offset
    BY <1>6, NextParent DEF Holds, ToExpand
  <2>2. CASE todo[1] # p
    BY <1>2, <1>4, <1>6, <2>1, <2>2
  <2>3. CASE todo[1] = p
    <3>1. account'.children[todo[1]] = fewer
      BY <1>2, <1>4, <2>3
    <3>2. k \in Nat /\ \E j \in DOMAIN account.children[p] : k <= j /\ fewer[k] = account.children[p][j]
      BY <1>3, <1>6, <3>1
    <3>3. PICK j \in DOMAIN account.children[p] : k <= j /\ fewer[k] = account.children[p][j]
      BY <3>2
    <3>4. j \in Nat /\ j <= offset
      BY <1>2, <1>6, <2>1, <2>3, <3>1, <3>3, Places
    <3> QED BY <1>2, <3>2, <3>3, <3>4
  <2> QED BY <2>2, <2>3
<1>7. ToExpand'
  <2>1. ToExpand
    BY DEF Holds
  <2> QED BY <1>1, <1>6, <2>1, StillToExpand
<1> QED BY <1>5, <1>7 DEF Holds

\* What an action leaves alone keeps the invariant.
LEMMA StillHolds ==
  ASSUME Holds,
         UNCHANGED <<account, lister, token, next, todo, offset, ids, listed, repeated, shown>>,
         pc' = pc \/ pc' \in {"done", "failed"}
  PROVE  Holds'
<1>1. Shape' /\ FromPages' /\ Once'
  BY DEF Holds, Shape, FromPages, Once
<1>2. Behind' /\ ToExpand'
  BY DEF Holds, Behind, Bound, ToExpand
<1> QED BY <1>1, <1>2 DEF Holds

LEMMA StepPositions == PositionInv /\ [Next]_vars => PositionInv'
<1> SUFFICES ASSUME PositionInv, [Next]_vars, ~inserted' PROVE Holds'
  BY DEF PositionInv
<1>1. ~inserted => Holds
  BY DEF PositionInv
<1>2. CASE FetchPage
  BY <1>1, <1>2, StepFetch DEF FetchPage
<1>3. CASE PageFails
  BY <1>1, <1>3, StillHolds DEF PageFails, call, history
<1>4. ASSUME NEW p \in Parents, Expand(p) PROVE Holds'
  BY <1>1, <1>4, StepExpand DEF Expand, history
<1>5. ASSUME NEW p \in Parents, ExpandPage(p) PROVE Holds'
  BY <1>1, <1>5, StepExpandPage DEF ExpandPage, history
<1>6. ASSUME NEW p \in Parents, ExpandFails(p) PROVE Holds'
  BY <1>1, <1>6, StepExpandFails DEF ExpandFails
<1>7. CASE Expanded
  BY <1>1, <1>7, StepExpanded DEF Expanded, history
<1>8. ASSUME NEW i \in DOMAIN account.parents, RemoveParent(i) PROVE Holds'
  BY <1>1, <1>8, StepRemoveParent DEF RemoveParent
<1>9. ASSUME NEW p \in Parents, NEW i \in DOMAIN account.children[p], RemoveChild(p, i) PROVE Holds'
  BY <1>1, <1>9, StepRemoveChild DEF RemoveChild
<1>10. ASSUME NEW p \in Parents, NEW i, InsertParent(p, i) PROVE Holds'
  BY <1>10 DEF InsertParent
<1>11. ASSUME NEW p \in Parents, NEW c, NEW i, InsertChild(p, c, i) PROVE Holds'
  BY <1>11 DEF InsertChild
<1>12. CASE UNCHANGED vars
  BY <1>1, <1>12, StillHolds DEF vars, call, history
<1> QED BY <1>2, <1>3, <1>4, <1>5, <1>6, <1>7, <1>8, <1>9, <1>10, <1>11, <1>12
        DEF Next, Terminated

-----------------------------------------------------------------------------
\* As long as nothing is put into the account, no List gives formae a native id
\* twice, neither on the page of one call nor on those of two: the offsets of the
\* pages, and of the pages of members, only ever run ahead of what was returned,
\* whatever is removed meanwhile and whichever expansions fail.
THEOREM NothingIsListedTwice == Spec => []RepeatedOnlyAfterInsertion
<1>1. Init => PositionInv
  BY InitHolds DEF PositionInv
<1>2. PositionInv /\ [Next]_vars => PositionInv'
  BY StepPositions
<1>3. PositionInv => RepeatedOnlyAfterInsertion
  BY DEF PositionInv, Holds, Once, RepeatedOnlyAfterInsertion
<1> QED BY <1>1, <1>2, <1>3, PTL DEF Spec

-----------------------------------------------------------------------------
(* What discovery overlooks, by counting. *)

\* What the type invariant needs beside itself to be inductive.
LostFitsChanges ==
  lost.parents <= changes /\ \A p \in Parents : lost.children[p] <= changes

Routine ==
  /\ \A k \in 1 .. Len(todo) : todo[k] \in shown
  /\ todo = <<>> \/ lister.nested # "paged" => offset = 0
  /\ pc # "expand" => todo = <<>> /\ ids = {}
  /\ pc = "expand" => lister.nested \in {"one call", "paged"}
  /\ lister.nested = "none" => listed = shown

TypeInv == TypeOK /\ LostFitsChanges /\ Routine

\* What was in the account all the time is there now.
KeptInv ==
  /\ kept.parents \subseteq ToSet(account.parents)
  /\ \A p \in Parents : kept.children[p] \subseteq ToSet(account.children[p])

\* Those of K that stand in s at one of the first places.
UpTo(s, at, K) == {x \in K : \E i \in DOMAIN s : i <= at /\ s[i] = x}

\* The parents discovery has gone past are those before the next page; where there
\* is no next page, all of them.  It has seen them but for one for each removal.
ParentsCounted ==
  LET hidden == kept.parents \ shown
  IN  /\ pc = "ask" => Cardinality(UpTo(account.parents, token, hidden)) <= lost.parents
      /\ pc = "expand" /\ next # 0 =>
           Cardinality(UpTo(account.parents, next, hidden)) <= lost.parents
      /\ (pc = "expand" /\ next = 0) \/ pc = "done" => Cardinality(hidden) <= lost.parents

\* What the call should have of p and has not.
Lacking(p) == {c \in kept.children[p] : InWindow(c) /\ <<p, c>> \notin listed \union ids}

\* The same of the resources nested in a parent that was expanded, and, in the one
\* being expanded, of those before the next page of them.
ChildrenCounted ==
  lister.nested # "none" =>
    \A p \in (kept.parents \intersect shown) \ failed :
      /\ p \notin ToSet(todo) => Cardinality(Lacking(p)) <= lost.children[p]
      /\ todo # <<>> /\ p = Head(todo) =>
           Cardinality(UpTo(account.children[p], offset, Lacking(p))) <= lost.children[p]

CountInv == KeptInv /\ ParentsCounted /\ ChildrenCounted

-----------------------------------------------------------------------------
(* Types. *)

LEMMA InitTypes == Init => TypeInv
<1> SUFFICES ASSUME Init PROVE TypeInv
  OBVIOUS
<1>1. account \in Account /\ MaxChanges \in Nat
  BY ConstantsAssumption DEF Init
<1>2. account.parents \in Unique(Parents) /\ account.children \in [Parents -> Unique(Children)]
  BY <1>1, Lists
<1>3. /\ ToSet(account.parents) \subseteq Parents
      /\ \A p \in Parents : ToSet(account.children[p]) \subseteq Children
  BY <1>2, Places DEF ToSet
<1>4. kept \in [parents : SUBSET Parents, children : [Parents -> SUBSET Children]]
  BY <1>3 DEF Init
<1>5. /\ Cardinality(Parents) \in Nat /\ Cardinality(Children) \in Nat
      /\ <<>> \in Seq(Parents) /\ Len(<<>>) = 0
  BY FiniteAssumption, FS_CardinalityType, EmptySeq
<1>6. lost \in [parents : 0 .. MaxChanges, children : [Parents -> 0 .. MaxChanges]]
  BY <1>1 DEF Init
<1>7. lost.parents = 0 /\ \A p \in Parents : lost.children[p] = 0
  BY DEF Init
<1>8. TypeOK
  <2>1. changes = 0 /\ 0 \in 0 .. MaxChanges /\ 0 \in 0 .. Cardinality(Parents)
        /\ 0 \in 0 .. Cardinality(Children)
    BY <1>1, <1>5 DEF Init
  <2>2. /\ account \in Account /\ lister \in Listers /\ pc = "ask" /\ token = 0 /\ next = 0
        /\ todo = <<>> /\ offset = 0 /\ ids = {} /\ listed = {} /\ repeated = {}
        /\ shown = {} /\ failed = {} /\ inserted = FALSE
    BY <1>1 DEF Init
  <2> QED BY <1>4, <1>5, <1>6, <2>1, <2>2 DEF TypeOK
<1>9. LostFitsChanges
  BY <1>1, <1>7 DEF Init, LostFitsChanges
<1>10. Routine
  BY <1>5 DEF Init, Routine
<1> QED BY <1>8, <1>9, <1>10 DEF TypeInv

LEMMA Sizes ==
  ASSUME TypeOK
  PROVE  /\ account.parents \in Unique(Parents)
         /\ account.children \in [Parents -> Unique(Children)]
         /\ Len(account.parents) <= Cardinality(Parents) /\ Cardinality(Parents) \in Nat
         /\ \A p \in Parents : Len(account.children[p]) <= Cardinality(Children)
         /\ Cardinality(Children) \in Nat
         /\ token \in Nat /\ next \in Nat /\ offset \in Nat
<1>1. /\ account.parents \in Unique(Parents)
      /\ account.children \in [Parents -> Unique(Children)]
  BY Lists DEF TypeOK
<1>2. Cardinality(Parents) \in Nat /\ Cardinality(Children) \in Nat
  BY FiniteAssumption, FS_CardinalityType
<1>3. /\ Len(account.parents) <= Cardinality(Parents)
      /\ \A p \in Parents : Len(account.children[p]) <= Cardinality(Children)
  BY <1>1, FiniteAssumption, UniqueIsShort
<1> QED BY <1>1, <1>2, <1>3 DEF TypeOK

LEMMA OnPageParts ==
  ASSUME lister.nested \in {"none", "included"}, account \in Account,
         NEW page \in Seq(Parents)
  PROVE  OnPage(page) \subseteq NativeIds
<1>1. \A p \in ToSet(page) : p \in Parents
  <2>1. DOMAIN page = 1 .. Len(page) /\ \A k \in DOMAIN page : page[k] \in Parents
    BY LenProperties, ElementOfSeq
  <2> QED BY <2>1 DEF ToSet
<1>2. CASE lister.nested = "none"
  BY <1>1, <1>2 DEF OnPage, NativeIds
<1>3. CASE lister.nested = "included"
  <2>1. OnPage(page) = UNION {Composite(p, account.children[p]) : p \in ToSet(page)}
    BY <1>3 DEF OnPage
  <2>2. ASSUME NEW p \in ToSet(page), NEW x \in Composite(p, account.children[p])
        PROVE  x \in NativeIds
    <3>1. \A i \in DOMAIN account.children[p] : account.children[p][i] \in Children
      BY <1>1, Lists, Places
    <3> QED BY <1>1, <3>1, CompositeParts DEF NativeIds
  <2> QED BY <2>1, <2>2
<1> QED BY <1>2, <1>3

LEMMA FetchTypes ==
  ASSUME TypeInv, FetchPage
  PROVE  TypeInv'
<1> DEFINE page      == PageOf(account.parents, token, Limit)
           following == IF More(account.parents, token, Limit) THEN NextToken ELSE 0
<1>1. /\ account.parents \in Unique(Parents)
      /\ Len(account.parents) <= Cardinality(Parents) /\ Cardinality(Parents) \in Nat
      /\ Len(account.parents) \in Nat /\ token \in Nat /\ Limit \in Nat
  BY Sizes, Places, Numbers DEF TypeInv
<1>2. page \in Unique(Parents)
  <2>1. page = PageOf(account.parents, token, Limit)
    OBVIOUS
  <2> HIDE DEF page
  <2> QED BY <1>1, <2>1, PageElements
<1>3. /\ page \in Seq(Parents) /\ DOMAIN page = 1 .. Len(page)
      /\ \A k \in DOMAIN page : page[k] \in Parents
  BY <1>2, Places
<1>4. following \in 0 .. Cardinality(Parents)
  BY <1>1 DEF NextToken, More
<1>5. /\ pc = "ask" /\ shown' = shown \union ToSet(page)
      /\ account' = account /\ lister' = lister /\ offset' = offset /\ changes' = changes
      /\ kept' = kept /\ failed' = failed /\ lost' = lost /\ inserted' = inserted
      /\ IF lister.nested \in {"none", "included"}
         THEN Return(OnPage(page), following) /\ next' = next /\ todo' = todo
         ELSE /\ pc' = "expand" /\ next' = following /\ todo' = page
              /\ token' = token /\ ids' = ids /\ listed' = listed /\ repeated' = repeated
  BY DEF FetchPage
<1> HIDE DEF page, following
<1>6. ToSet(page) \subseteq Parents
  BY <1>3 DEF ToSet
<1>7. /\ todo = <<>> /\ ids = {} /\ offset = 0 /\ (lister.nested = "none" => listed = shown)
  BY <1>5 DEF TypeInv, Routine
<1>8. LostFitsChanges'
  BY <1>5 DEF TypeInv, LostFitsChanges
<1>9. CASE lister.nested \in {"none", "included"}
  <2>1. /\ listed' = listed \union OnPage(page)
        /\ repeated' = repeated \union (listed \intersect OnPage(page))
        /\ token' = following /\ ids' = {} /\ next' = next /\ todo' = todo
        /\ pc' = IF following = 0 THEN "done" ELSE "ask"
    BY <1>5, <1>9 DEF Return
  <2>2. OnPage(page) \subseteq NativeIds
    BY <1>3, <1>9, OnPageParts DEF TypeInv, TypeOK
  <2>3. TypeOK'
    BY <1>4, <1>5, <1>6, <2>1, <2>2 DEF TypeInv, TypeOK
  <2>4. lister.nested = "none" => OnPage(page) = ToSet(page)
    BY DEF OnPage
  <2>5. Routine'
    BY <1>5, <1>7, <2>1, <2>4, EmptySeq DEF Routine
  <2> QED BY <1>8, <2>3, <2>5 DEF TypeInv
<1>10. CASE lister.nested \notin {"none", "included"}
  <2>1. /\ pc' = "expand" /\ next' = following /\ todo' = page
        /\ token' = token /\ ids' = {} /\ listed' = listed /\ repeated' = repeated
    BY <1>5, <1>7, <1>10
  <2>2. TypeOK'
    BY <1>3, <1>4, <1>5, <1>6, <2>1 DEF TypeInv, TypeOK
  <2>3. lister.nested \in {"one call", "paged"}
    BY <1>10, ListerNested DEF TypeInv, TypeOK
  <2>4. \A k \in 1 .. Len(page) : page[k] \in shown'
    BY <1>3, <1>5 DEF ToSet
  <2>5. Routine'
    BY <1>5, <1>7, <2>1, <2>3, <2>4 DEF Routine
  <2> QED BY <1>8, <2>2, <2>5 DEF TypeInv
<1> QED BY <1>9, <1>10

\* What a step of the expansion of the first parent does to the types.
LEMMA ExpandTypes ==
  ASSUME TypeInv, pc = "expand", todo # <<>>,
         NEW found \in SUBSET ({Head(todo)} \X Children),
         ids' = ids \union found, repeated' \subseteq repeated \union found,
         \/ todo' = Tail(todo) /\ (lister.nested = "paged" => offset' = 0)
         \/ todo' = todo /\ lister.nested = "paged",
         lister.nested # "paged" => offset' = offset,
         offset' \in 0 .. Cardinality(Children),
         failed' = failed \/ failed' = failed \union {Head(todo)},
         UNCHANGED <<account, lister, pc, token, next, listed, changes, kept, shown, lost, inserted>>
  PROVE  TypeInv'
<1>1. /\ todo \in Seq(Parents) /\ Head(todo) \in Parents /\ Head(todo) = todo[1]
      /\ 1 \in 1 .. Len(todo) /\ Tail(todo) \in Seq(Parents)
      /\ Len(Tail(todo)) = Len(todo) - 1 /\ Len(todo) \in Nat
      /\ \A k \in 1 .. Len(Tail(todo)) : Tail(todo)[k] = todo[k + 1]
  BY EmptySeq, HeadTailProperties, LenProperties DEF TypeInv, TypeOK
<1>2. Head(todo) \in shown /\ \A k \in 1 .. Len(Tail(todo)) : Tail(todo)[k] \in shown
  <2>1. \A k \in 1 .. Len(Tail(todo)) : k + 1 \in 1 .. Len(todo)
    BY <1>1
  <2> QED BY <1>1, <2>1 DEF TypeInv, Routine
<1>3. found \subseteq NativeIds
  BY <1>1 DEF NativeIds
<1>4. TypeOK'
  BY <1>1, <1>2, <1>3 DEF TypeInv, TypeOK
<1>5. LostFitsChanges'
  BY DEF TypeInv, LostFitsChanges
<1>6. Routine'
  BY <1>2 DEF TypeInv, Routine
<1> QED BY <1>4, <1>5, <1>6 DEF TypeInv

LEMMA ChangeTypes ==
  ASSUME TypeInv, Change, account' \in Account,
         kept' \in [parents : SUBSET Parents, children : [Parents -> SUBSET Children]],
         lost' \in [parents : Nat, children : [Parents -> Nat]],
         lost'.parents <= lost.parents + 1,
         \A p \in Parents : lost'.children[p] <= lost.children[p] + 1,
         inserted' \in BOOLEAN
  PROVE  TypeInv'
<1>1. /\ changes < MaxChanges /\ changes' = changes + 1
      /\ UNCHANGED <<lister, pc, token, next, todo, offset, ids, listed, repeated, shown, failed>>
  BY DEF Change, call
<1>2. changes \in Nat /\ MaxChanges \in Nat /\ changes' \in 0 .. MaxChanges
  BY <1>1, ConstantsAssumption DEF TypeInv, TypeOK
<1>3. lost.parents \in Nat /\ \A p \in Parents : lost.children[p] \in Nat
  BY <1>2 DEF TypeInv, TypeOK
<1>4. LostFitsChanges'
  BY <1>1, <1>2, <1>3 DEF TypeInv, LostFitsChanges
<1>5. lost' \in [parents : 0 .. MaxChanges, children : [Parents -> 0 .. MaxChanges]]
  BY <1>2, <1>4 DEF LostFitsChanges
<1>6. TypeOK'
  BY <1>1, <1>2, <1>5 DEF TypeInv, TypeOK
<1>7. Routine'
  BY <1>1 DEF TypeInv, Routine
<1> QED BY <1>4, <1>6, <1>7 DEF TypeInv

-----------------------------------------------------------------------------
(* What the changes do to the account and to what is counted. *)

Kept == [parents : SUBSET Parents, children : [Parents -> SUBSET Children]]
Lost == [parents : Nat, children : [Parents -> Nat]]

LEMMA Counted ==
  ASSUME TypeOK
  PROVE  /\ account \in Account /\ kept \in Kept /\ lost \in Lost
         /\ account.parents \in Unique(Parents)
         /\ account.children \in [Parents -> Unique(Children)]
         /\ kept.parents \in SUBSET Parents /\ kept.children \in [Parents -> SUBSET Children]
         /\ lost.parents \in Nat /\ lost.children \in [Parents -> Nat]
<1>1. /\ account \in Account /\ kept \in Kept /\ lost \in Lost
  BY ConstantsAssumption DEF TypeOK, Kept, Lost
<1> QED BY <1>1, Lists DEF Kept, Lost

LEMMA RemoveParentEffect ==
  ASSUME TypeOK, NEW i \in DOMAIN account.parents, RemoveParent(i)
  PROVE  /\ account'.parents = RemoveAt(account.parents, i)
         /\ account'.children = account.children /\ account' \in Account
         /\ account.parents[i] \in Parents
         /\ kept'.parents = kept.parents \ {account.parents[i]}
         /\ kept'.children = [kept.children EXCEPT ![account.parents[i]] = {}]
         /\ kept' \in Kept
         /\ lost'.parents = lost.parents + 1 /\ lost'.children = lost.children /\ lost' \in Lost
         /\ inserted' = inserted
<1> DEFINE p == account.parents[i]
<1>1. account \in Account /\ account.parents \in Unique(Parents) /\ kept \in Kept /\ lost \in Lost
  BY Counted
<1>2. p \in Parents /\ RemoveAt(account.parents, i) \in Unique(Parents)
  BY <1>1, Places, Removal
<1> HIDE DEF p
<1>3. /\ account' = [account EXCEPT !.parents = RemoveAt(account.parents, i)]
      /\ lost' = [lost EXCEPT !.parents = lost.parents + 1] /\ inserted' = inserted
  BY DEF RemoveParent
<1>4. kept' = [kept EXCEPT !.parents = kept.parents \ {p}, !.children[p] = {}]
  BY DEF RemoveParent, p
<1>5. /\ account'.parents = RemoveAt(account.parents, i)
      /\ account'.children = account.children /\ account' \in Account
  BY <1>1, <1>2, <1>3 DEF Account
<1>6. /\ lost'.parents = lost.parents + 1 /\ lost'.children = lost.children /\ lost' \in Lost
  BY <1>1, <1>3 DEF Lost
<1>7. /\ kept'.parents = kept.parents \ {p} /\ kept'.children = [kept.children EXCEPT ![p] = {}]
      /\ kept' \in Kept
  BY <1>1, <1>2, <1>4 DEF Kept
<1> QED BY <1>2, <1>3, <1>5, <1>6, <1>7 DEF p

LEMMA RemoveChildEffect ==
  ASSUME TypeOK, NEW p \in Parents, NEW i \in DOMAIN account.children[p], RemoveChild(p, i)
  PROVE  /\ account'.parents = account.parents
         /\ account'.children =
              [account.children EXCEPT ![p] = RemoveAt(account.children[p], i)]
         /\ account' \in Account
         /\ kept'.parents = kept.parents
         /\ kept'.children = [kept.children EXCEPT ![p] = kept.children[p] \ {account.children[p][i]}]
         /\ kept' \in Kept
         /\ lost'.parents = lost.parents
         /\ lost'.children = [lost.children EXCEPT ![p] = lost.children[p] + 1] /\ lost' \in Lost
         /\ inserted' = inserted
<1> DEFINE c == account.children[p][i]
           fewer == RemoveAt(account.children[p], i)
<1>1. /\ account \in Account /\ account.children \in [Parents -> Unique(Children)]
      /\ kept \in Kept /\ lost \in Lost
  BY Counted
<1>2. fewer \in Unique(Children)
  BY <1>1, Removal
<1>3. /\ account' = [account EXCEPT !.children[p] = fewer]
      /\ lost' = [lost EXCEPT !.children[p] = lost.children[p] + 1] /\ inserted' = inserted
      /\ kept' = [kept EXCEPT !.children[p] = kept.children[p] \ {c}]
  BY DEF RemoveChild
<1> HIDE DEF c, fewer
<1>4. /\ account'.parents = account.parents
      /\ account'.children = [account.children EXCEPT ![p] = fewer] /\ account' \in Account
  BY <1>1, <1>2, <1>3 DEF Account
<1>5. /\ lost'.parents = lost.parents
      /\ lost'.children = [lost.children EXCEPT ![p] = lost.children[p] + 1] /\ lost' \in Lost
  BY <1>1, <1>3 DEF Lost
<1>6. /\ kept'.parents = kept.parents
      /\ kept'.children = [kept.children EXCEPT ![p] = kept.children[p] \ {c}] /\ kept' \in Kept
  BY <1>1, <1>3 DEF Kept
<1> QED BY <1>3, <1>4, <1>5, <1>6 DEF c, fewer

LEMMA InsertParentEffect ==
  ASSUME TypeOK, NEW p \in Parents, NEW i \in 1 .. Len(account.parents) + 1, InsertParent(p, i)
  PROVE  /\ p \notin ToSet(account.parents)
         /\ account'.parents = InsertAt(account.parents, i, p)
         /\ account'.children = account.children /\ account' \in Account
         /\ kept' = kept /\ lost' = lost /\ inserted' = TRUE
<1>1. account \in Account /\ account.parents \in Unique(Parents)
  BY Counted
<1>2. /\ account' = [account EXCEPT !.parents = InsertAt(account.parents, i, p)]
      /\ p \notin ToSet(account.parents) /\ kept' = kept /\ lost' = lost /\ inserted' = TRUE
  BY DEF InsertParent
<1>3. InsertAt(account.parents, i, p) \in Unique(Parents)
  BY <1>1, <1>2, Insertion
<1> QED BY <1>1, <1>2, <1>3 DEF Account

LEMMA InsertChildEffect ==
  ASSUME TypeOK, NEW p \in Parents, NEW c \in Children,
         NEW i \in 1 .. Len(account.children[p]) + 1, InsertChild(p, c, i)
  PROVE  /\ c \notin ToSet(account.children[p])
         /\ account'.parents = account.parents
         /\ account'.children =
              [account.children EXCEPT ![p] = InsertAt(account.children[p], i, c)]
         /\ account' \in Account
         /\ kept' = kept /\ lost' = lost /\ inserted' = TRUE
<1> DEFINE more == InsertAt(account.children[p], i, c)
<1>1. account \in Account /\ account.children \in [Parents -> Unique(Children)]
  BY Counted
<1>2. /\ account' = [account EXCEPT !.children[p] = more]
      /\ c \notin ToSet(account.children[p]) /\ kept' = kept /\ lost' = lost /\ inserted' = TRUE
  BY DEF InsertChild
<1>3. more \in Unique(Children)
  BY <1>1, <1>2, Insertion
<1> HIDE DEF more
<1>4. /\ account'.parents = account.parents
      /\ account'.children = [account.children EXCEPT ![p] = more] /\ account' \in Account
  BY <1>1, <1>2, <1>3 DEF Account
<1> QED BY <1>2, <1>4 DEF more

LEMMA StepTypes == TypeInv /\ [Next]_vars => TypeInv'
<1> SUFFICES ASSUME TypeInv, [Next]_vars PROVE TypeInv'
  OBVIOUS
<1>0. TypeOK /\ kept \in Kept /\ lost \in Lost /\ lost.parents \in Nat
      /\ lost.children \in [Parents -> Nat]
  BY Counted DEF TypeInv
<1>1. CASE FetchPage
  BY <1>1, FetchTypes
<1>2. CASE PageFails
  BY <1>2 DEF PageFails, call, history, TypeInv, TypeOK, LostFitsChanges, Routine
<1>3. ASSUME NEW p \in Parents, Expanding(p)
      PROVE  /\ pc = "expand" /\ todo # <<>> /\ p = Head(todo)
             /\ offset \in 0 .. Cardinality(Children)
             /\ \A x \in ToSet(account.children[p]) : x \in Children
  <2>1. account.children[p] \in Unique(Children)
    BY <1>0, Counted
  <2> QED BY <1>3, <2>1, Places DEF Expanding, TypeInv, TypeOK, ToSet
<1>4. ASSUME NEW p \in Parents, Expand(p) PROVE TypeInv'
  <2>1. Expanding(p)
    BY <1>4 DEF Expand
  <2>2. Composite(p, account.children[p]) \subseteq {Head(todo)} \X Children
    BY <1>3, <2>1 DEF Composite
  <2> QED BY <1>3, <1>4, <2>1, <2>2, ExpandTypes DEF Expand, Found, history
<1>5. ASSUME NEW p \in Parents, ExpandPage(p) PROVE TypeInv'
  <2> DEFINE page == PageOf(account.children[p], offset, MemberPage)
  <2>1. Expanding(p)
    BY <1>5 DEF ExpandPage
  <2>2. /\ account.children[p] \in Unique(Children) /\ offset \in Nat /\ MemberPage \in Nat
        /\ Len(account.children[p]) <= Cardinality(Children) /\ Cardinality(Children) \in Nat
        /\ Len(account.children[p]) \in Nat
    BY <1>0, Sizes, Numbers, Places
  <2>3. page \in Unique(Children)
    <3>1. page = PageOf(account.children[p], offset, MemberPage)
      OBVIOUS
    <3> HIDE DEF page
    <3> QED BY <2>2, <3>1, PageElements
  <2>4. /\ ids' = ids \union Composite(p, page)
        /\ repeated' = repeated \union (ids \intersect Composite(p, page))
        /\ lister.nested = "paged"
        /\ IF MoreMembers(p) THEN offset' = NextOffset /\ todo' = todo
                             ELSE offset' = 0 /\ todo' = Tail(todo)
        /\ UNCHANGED <<account, lister, pc, token, next, listed, changes, history>>
    BY <1>5 DEF ExpandPage, Found
  <2> HIDE DEF page
  <2>5. Composite(p, page) \subseteq {Head(todo)} \X Children
    <3>1. \A x \in ToSet(page) : x \in Children
      BY <2>3, Places DEF ToSet
    <3> QED BY <1>3, <2>1, <3>1 DEF Composite
  <2>6. offset' \in 0 .. Cardinality(Children)
    BY <2>2, <2>4 DEF MoreMembers, More, NextOffset
  <2> QED BY <1>3, <2>1, <2>4, <2>5, <2>6, ExpandTypes DEF history
<1>6. ASSUME NEW p \in Parents, ExpandFails(p) PROVE TypeInv'
  <2>1. /\ Expanding(p) /\ failed' = failed \union {p} /\ offset' = 0 /\ todo' = Tail(todo)
        /\ UNCHANGED <<account, lister, pc, token, next, ids, listed, repeated, changes,
                       kept, shown, lost, inserted>>
    BY <1>6 DEF ExpandFails
  <2>2. pc = "expand" /\ todo # <<>> /\ p = Head(todo) /\ offset' \in 0 .. Cardinality(Children)
    BY <1>0, <1>3, <2>1, Sizes
  <2>3. lister.nested # "paged" => offset' = offset
    BY <2>1 DEF TypeInv, Routine
  <2>4. {} \in SUBSET ({Head(todo)} \X Children) /\ ids' = ids \union {}
        /\ repeated' \subseteq repeated \union {}
    BY <2>1
  <2> QED BY <2>1, <2>2, <2>3, <2>4, ExpandTypes
<1>7. CASE Expanded
  <2>1. /\ pc = "expand" /\ todo = <<>>
        /\ listed' = listed \union ids /\ repeated' = repeated \union (listed \intersect ids)
        /\ token' = next /\ ids' = {} /\ pc' = IF next = 0 THEN "done" ELSE "ask"
        /\ UNCHANGED <<account, lister, next, todo, offset, changes, kept, shown, failed, lost, inserted>>
    BY <1>7 DEF Expanded, Return, history
  <2>2. TypeOK'
    BY <2>1 DEF TypeInv, TypeOK
  <2>3. Routine' /\ LostFitsChanges'
    BY <2>1 DEF TypeInv, Routine, LostFitsChanges
  <2> QED BY <2>2, <2>3 DEF TypeInv
<1>8. ASSUME NEW i \in DOMAIN account.parents, RemoveParent(i) PROVE TypeInv'
  <2>1. Change
    BY <1>8 DEF RemoveParent
  <2>2. inserted' \in BOOLEAN /\ account' \in Account /\ kept' \in Kept /\ lost' \in Lost
        /\ lost'.parents = lost.parents + 1 /\ lost'.children = lost.children
    BY <1>0, <1>8, RemoveParentEffect DEF TypeOK
  <2> QED BY <1>0, <2>1, <2>2, ChangeTypes DEF Kept, Lost
<1>9. ASSUME NEW p \in Parents, NEW i \in DOMAIN account.children[p], RemoveChild(p, i)
      PROVE  TypeInv'
  <2>1. Change
    BY <1>9 DEF RemoveChild
  <2>2. inserted' \in BOOLEAN /\ account' \in Account /\ kept' \in Kept /\ lost' \in Lost
        /\ lost'.parents = lost.parents
        /\ lost'.children = [lost.children EXCEPT ![p] = lost.children[p] + 1]
    BY <1>0, <1>9, RemoveChildEffect DEF TypeOK
  <2> QED BY <1>0, <2>1, <2>2, ChangeTypes DEF Kept, Lost
<1>10. ASSUME NEW p \in Parents, NEW i \in 1 .. Len(account.parents) + 1, InsertParent(p, i)
       PROVE  TypeInv'
  <2>1. Change
    BY <1>10 DEF InsertParent
  <2>2. inserted' \in BOOLEAN /\ account' \in Account /\ kept' = kept /\ lost' = lost
    BY <1>0, <1>10, InsertParentEffect
  <2> QED BY <1>0, <2>1, <2>2, ChangeTypes DEF Kept, Lost
<1>11. ASSUME NEW p \in Parents, NEW c \in Children,
              NEW i \in 1 .. Len(account.children[p]) + 1, InsertChild(p, c, i)
       PROVE  TypeInv'
  <2>1. Change
    BY <1>11 DEF InsertChild
  <2>2. inserted' \in BOOLEAN /\ account' \in Account /\ kept' = kept /\ lost' = lost
    BY <1>0, <1>11, InsertChildEffect
  <2> QED BY <1>0, <2>1, <2>2, ChangeTypes DEF Kept, Lost
<1>12. CASE UNCHANGED vars
  BY <1>12 DEF vars, call, history, TypeInv, TypeOK, LostFitsChanges, Routine
<1> QED BY <1>1, <1>2, <1>4, <1>5, <1>6, <1>7, <1>8, <1>9, <1>10, <1>11, <1>12
        DEF Next, Terminated

\* The variables keep their types: among them that no page token and no offset runs
\* past the end of what the account can hold, for any sizes of pages.
THEOREM TypeCorrect == Spec => []TypeOK
<1>1. TypeInv => TypeOK
  BY DEF TypeInv
<1> QED BY <1>1, InitTypes, StepTypes, PTL DEF Spec

-----------------------------------------------------------------------------
(* Counting. *)

LEMMA Fewer ==
  ASSUME NEW A, IsFiniteSet(A), NEW B \in SUBSET A
  PROVE  /\ Cardinality(A) \in Nat /\ Cardinality(B) \in Nat /\ IsFiniteSet(B)
         /\ Cardinality(B) <= Cardinality(A)
BY FS_Subset, FS_CardinalityType

LEMMA OneMore ==
  ASSUME NEW A, IsFiniteSet(A), NEW x, NEW B, B \subseteq A \union {x}
  PROVE  Cardinality(B) \in Nat /\ Cardinality(B) <= Cardinality(A) + 1
<1>1. /\ IsFiniteSet(A \union {x}) /\ Cardinality(A) \in Nat
      /\ Cardinality(A \union {x}) = IF x \in A THEN Cardinality(A) ELSE Cardinality(A) + 1
  BY FS_AddElement, FS_CardinalityType
<1>2. Cardinality(B) \in Nat /\ Cardinality(B) <= Cardinality(A \union {x})
  BY <1>1, Fewer
<1> QED BY <1>1, <1>2

LEMMA UpToFew ==
  ASSUME NEW S, NEW s \in Unique(S), NEW at, NEW K, IsFiniteSet(K)
  PROVE  /\ UpTo(s, at, K) \subseteq K /\ IsFiniteSet(UpTo(s, at, K))
         /\ Cardinality(UpTo(s, at, K)) \in Nat
         /\ UpTo(s, 0, K) = {} /\ Cardinality(UpTo(s, 0, K)) = 0
<1>1. UpTo(s, at, K) \subseteq K
  BY DEF UpTo
<1>2. UpTo(s, 0, K) = {}
  BY Places DEF UpTo
<1> QED BY <1>1, <1>2, Fewer, FS_EmptySet

LEMMA UpToMonotone ==
  ASSUME NEW S, NEW s \in Unique(S), NEW at, NEW K, IsFiniteSet(K), NEW L \in SUBSET K
  PROVE  /\ Cardinality(UpTo(s, at, L)) \in Nat
         /\ Cardinality(UpTo(s, at, L)) <= Cardinality(UpTo(s, at, K))
<1>1. UpTo(s, at, L) \subseteq UpTo(s, at, K)
  BY DEF UpTo
<1> QED BY <1>1, UpToFew, Fewer

\* Of what stood behind a place, a removal brings one before it at most.
LEMMA RemovalHidesOne ==
  ASSUME NEW S, NEW s \in Unique(S), NEW i \in DOMAIN s, NEW at \in Nat,
         NEW K, IsFiniteSet(K), NEW L \in SUBSET K
  PROVE  Cardinality(UpTo(RemoveAt(s, i), at, L)) <= Cardinality(UpTo(s, at, K)) + 1
<1>1. UpTo(RemoveAt(s, i), at, L) \subseteq UpTo(s, at, K) \union {s[at + 1]}
  <2> SUFFICES ASSUME NEW x \in UpTo(RemoveAt(s, i), at, L)
               PROVE  x \in UpTo(s, at, K) \/ x = s[at + 1]
    OBVIOUS
  <2>1. PICK k \in DOMAIN RemoveAt(s, i) : k <= at /\ RemoveAt(s, i)[k] = x
    BY DEF UpTo
  <2>2. k \in Nat /\ \E j \in DOMAIN s : k <= j /\ j <= k + 1 /\ RemoveAt(s, i)[k] = s[j]
    BY <2>1, Removal
  <2>3. PICK j \in DOMAIN s : j <= k + 1 /\ x = s[j]
    BY <2>1, <2>2
  <2>4. j \in Nat /\ (j <= at \/ j = at + 1)
    BY <2>1, <2>2, <2>3, Places
  <2> QED BY <2>3, <2>4 DEF UpTo
<1> QED BY <1>1, UpToFew, OneMore

\* An insertion brings nothing before it but what it inserts.
LEMMA InsertionHidesNone ==
  ASSUME NEW S, NEW s \in Unique(S), NEW i \in 1 .. Len(s) + 1,
         NEW e \in S, e \notin ToSet(s), NEW at \in Nat,
         NEW K, IsFiniteSet(K), e \notin K
  PROVE  Cardinality(UpTo(InsertAt(s, i, e), at, K)) <= Cardinality(UpTo(s, at, K))
<1>1. UpTo(InsertAt(s, i, e), at, K) \subseteq UpTo(s, at, K)
  <2> SUFFICES ASSUME NEW x \in UpTo(InsertAt(s, i, e), at, K)
               PROVE  x \in UpTo(s, at, K)
    OBVIOUS
  <2>1. PICK k \in DOMAIN InsertAt(s, i, e) : k <= at /\ InsertAt(s, i, e)[k] = x
    BY DEF UpTo
  <2>2. x \in K /\ x # e
    BY DEF UpTo
  <2>3. k \in Nat /\ \E j \in DOMAIN s : j <= k /\ InsertAt(s, i, e)[k] = s[j]
    BY <2>1, <2>2, Insertion
  <2>4. PICK j \in DOMAIN s : j <= k /\ x = s[j]
    BY <2>1, <2>3
  <2>5. j \in Nat /\ j <= at
    BY <2>1, <2>3, <2>4, Places
  <2> QED BY <2>2, <2>4, <2>5 DEF UpTo
<1> QED BY <1>1, UpToFew, Fewer

\* What is neither on a page nor before it is behind it, if anything is.
LEMMA PageHidesNone ==
  ASSUME NEW S, NEW s \in Unique(S), NEW from \in Nat, NEW limit \in Nat,
         NEW page, page = PageOf(s, from, limit),
         NEW K, IsFiniteSet(K), K \subseteq ToSet(s),
         NEW L \in SUBSET K, L \intersect ToSet(page) = {}
  PROVE  /\ Cardinality(UpTo(s, from + limit, L)) <= Cardinality(UpTo(s, from, K))
         /\ ~More(s, from, limit) => Cardinality(L) <= Cardinality(UpTo(s, from, K))
<1>1. \A j \in DOMAIN s : s[j] \in L /\ j <= from + limit => s[j] \in UpTo(s, from, K)
  <2> SUFFICES ASSUME NEW j \in DOMAIN s, s[j] \in L, j <= from + limit
               PROVE  s[j] \in UpTo(s, from, K)
    OBVIOUS
  <2>1. Covers(page, s, from, limit)
    BY PageElements
  <2>2. ~(from < j) /\ j \in Nat
    BY <2>1, Places DEF Covers
  <2> QED BY <2>2 DEF UpTo
<1>2. UpTo(s, from + limit, L) \subseteq UpTo(s, from, K)
  BY <1>1 DEF UpTo
<1>3. ASSUME ~More(s, from, limit) PROVE L \subseteq UpTo(s, from, K)
  <2> SUFFICES ASSUME NEW x \in L PROVE x \in UpTo(s, from, K)
    OBVIOUS
  <2>1. PICK j \in DOMAIN s : s[j] = x
    BY DEF ToSet
  <2>2. j <= from + limit
    BY <1>3, <2>1, Places DEF More
  <2> QED BY <1>1, <2>1, <2>2
<1> QED BY <1>2, <1>3, UpToFew, Fewer

-----------------------------------------------------------------------------
(* Each action and the count. *)

LEMMA FiniteCounts ==
  ASSUME TypeOK
  PROVE  /\ IsFiniteSet(kept.parents \ shown)
         /\ \A p \in Parents : Lacking(p) \in SUBSET Children /\ IsFiniteSet(Lacking(p))
<1>1. kept.parents \ shown \in SUBSET Parents
  BY Counted
<1>2. \A p \in Parents : Lacking(p) \in SUBSET Children
  BY Counted DEF Lacking
<1> QED BY <1>1, <1>2, FiniteAssumption, FS_Subset

LEMMA InitCounts == Init => CountInv
<1> SUFFICES ASSUME Init PROVE CountInv
  OBVIOUS
<1>1. TypeOK /\ pc = "ask" /\ token = 0 /\ shown = {} /\ lost.parents = 0
  BY InitTypes DEF Init, TypeInv
<1>2. KeptInv
  BY DEF Init, KeptInv
<1>3. Cardinality(UpTo(account.parents, 0, kept.parents \ shown)) = 0
  BY <1>1, Counted, FiniteCounts, UpToFew
<1>4. ParentsCounted
  BY <1>1, <1>3 DEF ParentsCounted
<1>5. ChildrenCounted
  BY <1>1 DEF ChildrenCounted
<1> QED BY <1>2, <1>4, <1>5 DEF CountInv

\* The call has no less and expects no more: nothing new is lacking.
LEMMA LacksNoMore ==
  ASSUME NEW p, kept'.children[p] \subseteq kept.children[p],
         listed \union ids \subseteq listed' \union ids', lister' = lister
  PROVE  Lacking(p)' \subseteq Lacking(p)
BY DEF Lacking, InWindow

LEMMA FetchParents ==
  ASSUME TypeInv, CountInv, FetchPage
  PROVE  ParentsCounted'
<1> DEFINE page      == PageOf(account.parents, token, Limit)
           following == IF More(account.parents, token, Limit) THEN NextToken ELSE 0
           hidden    == kept.parents \ shown
           rest      == kept.parents \ (shown \union ToSet(page))
<1>1. /\ pc = "ask" /\ shown' = shown \union ToSet(page)
      /\ account' = account /\ kept' = kept /\ lost' = lost
      /\ \/ /\ pc' = IF following = 0 THEN "done" ELSE "ask"
            /\ token' = following
         \/ pc' = "expand" /\ next' = following
  BY DEF FetchPage, Return
<1>2. /\ account.parents \in Unique(Parents) /\ token \in Nat /\ Limit \in Nat /\ Limit # 0
      /\ lost.parents \in Nat
  BY Sizes, Counted, Numbers DEF TypeInv
<1>3. /\ IsFiniteSet(hidden) /\ hidden \subseteq ToSet(account.parents)
      /\ rest \in SUBSET hidden /\ rest \intersect ToSet(page) = {}
      /\ Cardinality(UpTo(account.parents, token, hidden)) <= lost.parents
      /\ Cardinality(UpTo(account.parents, token, hidden)) \in Nat
  BY <1>1, <1>2, FiniteCounts, UpToFew DEF TypeInv, CountInv, KeptInv, ParentsCounted
<1>4. page = PageOf(account.parents, token, Limit)
  OBVIOUS
<1> HIDE DEF page
<1>5. (kept.parents \ shown)' = rest
  BY <1>1
<1> HIDE DEF hidden, rest
<1>6. /\ Cardinality(UpTo(account.parents, token + Limit, rest))
           <= Cardinality(UpTo(account.parents, token, hidden))
      /\ ~More(account.parents, token, Limit) =>
           Cardinality(rest) <= Cardinality(UpTo(account.parents, token, hidden))
  BY <1>2, <1>3, <1>4, PageHidesNone
<1>7. Cardinality(rest) \in Nat /\ Cardinality(UpTo(account.parents, token + Limit, rest)) \in Nat
  BY <1>2, <1>3, Fewer, UpToFew
<1>8. CASE More(account.parents, token, Limit)
  <2>1. following = token + Limit /\ following # 0
    BY <1>2, <1>8 DEF NextToken
  <2>2. Cardinality(UpTo(account.parents, following, rest)) <= lost.parents
    BY <1>2, <1>3, <1>6, <1>7, <2>1
  <2> HIDE DEF following
  <2> QED BY <1>1, <1>5, <2>1, <2>2 DEF ParentsCounted
<1>9. CASE ~More(account.parents, token, Limit)
  <2>1. following = 0
    BY <1>9
  <2>2. Cardinality(rest) <= lost.parents
    BY <1>2, <1>3, <1>6, <1>7, <1>9
  <2> HIDE DEF following
  <2> QED BY <1>1, <1>5, <2>1, <2>2 DEF ParentsCounted
<1> QED BY <1>8, <1>9

LEMMA FetchChildren ==
  ASSUME TypeInv, CountInv, FetchPage
  PROVE  ChildrenCounted'
<1> DEFINE page == PageOf(account.parents, token, Limit)
<1>1. /\ pc = "ask" /\ shown' = shown \union ToSet(page) /\ offset' = offset
      /\ account' = account /\ lister' = lister /\ kept' = kept /\ lost' = lost /\ failed' = failed
      /\ IF lister.nested \in {"none", "included"}
         THEN listed' = listed \union OnPage(page) /\ ids' = {} /\ todo' = todo
         ELSE listed' = listed /\ ids' = ids /\ todo' = page
  BY DEF FetchPage, Return
<1>2. todo = <<>> /\ ids = {} /\ offset = 0 /\ ToSet(<<>>) = {}
  BY <1>1, EmptySeq DEF TypeInv, Routine, ToSet
<1>3. /\ account.children \in [Parents -> Unique(Children)]
      /\ kept.parents \in SUBSET Parents /\ lost.children \in [Parents -> Nat]
      /\ \A p \in Parents : kept.children[p] \subseteq ToSet(account.children[p])
      /\ \A p \in Parents : IsFiniteSet(Lacking(p)) /\ Lacking(p)' \subseteq Lacking(p)
  <2>1. \A p \in Parents : Lacking(p)' \subseteq Lacking(p)
    BY <1>1, <1>2, LacksNoMore
  <2> QED BY <2>1, Counted, FiniteCounts DEF TypeInv, CountInv, KeptInv
<1> HIDE DEF page
<1>4. SUFFICES ASSUME lister.nested # "none",
                      NEW p \in (kept.parents \intersect shown') \ failed
               PROVE  /\ p \notin ToSet(todo') => Cardinality(Lacking(p)') <= lost.children[p]
                      /\ todo' # <<>> /\ p = Head(todo') =>
                           Cardinality(UpTo(account.children[p], offset', Lacking(p)'))
                             <= lost.children[p]
  BY <1>1 DEF ChildrenCounted
<1>5. p \in Parents /\ lost.children[p] \in Nat
  BY <1>3
<1>6. /\ Cardinality(Lacking(p)) \in Nat /\ Cardinality(Lacking(p)') \in Nat
      /\ Cardinality(Lacking(p)') <= Cardinality(Lacking(p)) /\ IsFiniteSet(Lacking(p)')
  BY <1>3, <1>5, Fewer
<1>7. ASSUME p \in shown PROVE Cardinality(Lacking(p)') <= lost.children[p]
  <2>1. Cardinality(Lacking(p)) <= lost.children[p]
    BY <1>2, <1>4, <1>7 DEF CountInv, ChildrenCounted
  <2> QED BY <1>5, <1>6, <2>1
<1>8. CASE lister.nested = "included"
  <2>1. todo' = <<>> /\ listed' = listed \union OnPage(page)
    BY <1>1, <1>2, <1>8
  <2>2. ASSUME p \in ToSet(page) PROVE Cardinality(Lacking(p)') <= lost.children[p]
    <3>1. Composite(p, account.children[p]) \subseteq listed'
      BY <1>8, <2>1, <2>2 DEF OnPage
    <3>2. \A c \in kept.children[p] : InWindow(c) => <<p, c>> \in listed'
      BY <1>3, <1>5, <3>1 DEF Composite
    <3>3. Lacking(p)' = {}
      BY <1>1, <3>2 DEF Lacking, InWindow
    <3> QED BY <1>5, <3>3, FS_EmptySet
  <2> QED BY <1>1, <1>4, <1>7, <2>1, <2>2
<1>9. CASE lister.nested # "included"
  <2>1. todo' = page /\ offset' = 0
    BY <1>1, <1>2, <1>4, <1>9
  <2>2. Cardinality(UpTo(account.children[p], 0, Lacking(p)')) = 0
    BY <1>3, <1>5, <1>6, UpToFew
  <2> QED BY <1>1, <1>4, <1>5, <1>7, <2>1, <2>2
<1> QED BY <1>8, <1>9

\* The first parent is done with: either it failed or nothing lacks beyond the count.
LEMMA PassCounts ==
  ASSUME TypeInv, CountInv, pc = "expand", todo # <<>>, NEW first, first = Head(todo),
         todo' = Tail(todo), offset' = 0, ids \subseteq ids',
         failed \subseteq failed',
         \/ first \notin (kept.parents \intersect shown) \ failed'
         \/ Cardinality(Lacking(first)') <= lost.children[first],
         UNCHANGED <<account, lister, pc, token, next, listed, kept, shown, lost>>
  PROVE  CountInv'
<1>1. KeptInv' /\ ParentsCounted'
  BY DEF CountInv, KeptInv, ParentsCounted
<1>2. /\ account.children \in [Parents -> Unique(Children)]
      /\ kept.parents \in SUBSET Parents /\ lost.children \in [Parents -> Nat]
      /\ \A p \in Parents : IsFiniteSet(Lacking(p)) /\ Lacking(p)' \subseteq Lacking(p)
  <2>1. \A p \in Parents : Lacking(p)' \subseteq Lacking(p)
    BY LacksNoMore
  <2> QED BY <2>1, Counted, FiniteCounts DEF TypeInv
<1>3. \A p : p \in ToSet(todo) => p = Head(todo) \/ p \in ToSet(Tail(todo))
  <2>1. /\ todo \in Seq(Parents) /\ Len(todo) \in Nat /\ DOMAIN todo = 1 .. Len(todo)
        /\ Head(todo) = todo[1] /\ Tail(todo) \in Seq(Parents)
        /\ Len(Tail(todo)) = Len(todo) - 1
        /\ \A k \in 1 .. Len(Tail(todo)) : Tail(todo)[k] = todo[k + 1]
    BY HeadTailProperties, LenProperties DEF TypeInv, TypeOK
  <2>2. DOMAIN Tail(todo) = 1 .. Len(todo) - 1
    BY <2>1, LenProperties
  <2>3. ASSUME NEW k \in DOMAIN todo, k # 1 PROVE todo[k] \in ToSet(Tail(todo))
    <3>1. k - 1 \in DOMAIN Tail(todo) /\ k - 1 \in 1 .. Len(Tail(todo)) /\ (k - 1) + 1 = k
      BY <2>1, <2>2, <2>3
    <3>2. Tail(todo)[k - 1] = todo[k]
      BY <2>1, <3>1
    <3> QED BY <3>1, <3>2 DEF ToSet
  <2> QED BY <2>1, <2>3 DEF ToSet
<1>4. ASSUME lister.nested # "none", NEW p \in (kept.parents \intersect shown) \ failed'
      PROVE  /\ p \notin ToSet(todo') => Cardinality(Lacking(p)') <= lost.children[p]
             /\ todo' # <<>> /\ p = Head(todo') =>
                  Cardinality(UpTo(account.children[p], offset', Lacking(p)')) <= lost.children[p]
  <2>1. p \in Parents /\ lost.children[p] \in Nat /\ p \notin failed
    BY <1>2, <1>4
  <2>2. /\ Cardinality(Lacking(p)) \in Nat /\ Cardinality(Lacking(p)') \in Nat
        /\ Cardinality(Lacking(p)') <= Cardinality(Lacking(p)) /\ IsFiniteSet(Lacking(p)')
    BY <1>2, <2>1, Fewer
  <2>3. Cardinality(UpTo(account.children[p], 0, Lacking(p)')) = 0
    BY <1>2, <2>1, <2>2, UpToFew
  <2>4. ASSUME p \notin ToSet(todo') PROVE Cardinality(Lacking(p)') <= lost.children[p]
    <3>1. CASE p = first
      BY <1>4, <3>1
    <3>2. CASE p # first
      <4>1. Cardinality(Lacking(p)) <= lost.children[p]
        BY <1>3, <1>4, <2>1, <2>4, <3>2 DEF CountInv, ChildrenCounted
      <4> QED BY <2>1, <2>2, <4>1
    <3> QED BY <3>1, <3>2
  <2> QED BY <2>1, <2>3, <2>4
<1>5. ChildrenCounted'
  BY <1>4 DEF ChildrenCounted
<1> QED BY <1>1, <1>5 DEF CountInv

LEMMA ExpandCounts ==
  ASSUME TypeInv, CountInv, NEW p \in Parents, Expand(p)
  PROVE  CountInv'
<1>1. /\ pc = "expand" /\ todo # <<>> /\ p = Head(todo) /\ lister.nested = "one call"
      /\ ids' = ids \union Composite(p, account.children[p]) /\ todo' = Tail(todo)
      /\ UNCHANGED <<account, lister, pc, token, next, offset, listed, kept, shown, failed, lost>>
  BY DEF Expand, Expanding, Found, history
<1>2. offset = 0 /\ lost.children[p] \in Nat
      /\ kept.children[p] \subseteq ToSet(account.children[p])
  BY <1>1, Counted DEF TypeInv, Routine, CountInv, KeptInv
<1>3. \A c \in kept.children[p] : InWindow(c) => <<p, c>> \in ids'
  BY <1>1, <1>2 DEF Composite
<1>4. Lacking(p)' = {}
  BY <1>1, <1>3 DEF Lacking, InWindow
<1>5. Cardinality(Lacking(p)') <= lost.children[p]
  BY <1>2, <1>4, FS_EmptySet
<1> QED BY <1>1, <1>2, <1>5, PassCounts

LEMMA ExpandFailsCounts ==
  ASSUME TypeInv, CountInv, NEW p \in Parents, ExpandFails(p)
  PROVE  CountInv'
<1>1. /\ pc = "expand" /\ todo # <<>> /\ p = Head(todo)
      /\ failed' = failed \union {p} /\ offset' = 0 /\ todo' = Tail(todo)
      /\ UNCHANGED <<account, lister, pc, token, next, ids, listed, kept, shown, lost>>
  BY DEF ExpandFails, Expanding
<1> QED BY <1>1, PassCounts

LEMMA ExpandPageCounts ==
  ASSUME TypeInv, CountInv, NEW p \in Parents, ExpandPage(p)
  PROVE  CountInv'
<1> DEFINE members == account.children[p]
           page    == PageOf(members, offset, MemberPage)
           lacking == Lacking(p)
           rest    == Lacking(p)'
<1>1. /\ pc = "expand" /\ todo # <<>> /\ p = Head(todo) /\ lister.nested = "paged"
      /\ ids' = ids \union Composite(p, page)
      /\ IF MoreMembers(p) THEN offset' = NextOffset /\ todo' = todo
                           ELSE offset' = 0 /\ todo' = Tail(todo)
      /\ UNCHANGED <<account, lister, pc, token, next, listed, kept, shown, failed, lost>>
  BY DEF ExpandPage, Expanding, Found, history
<1>2. /\ members \in Unique(Children) /\ offset \in Nat /\ MemberPage \in Nat
      /\ kept.children[p] \subseteq ToSet(members) /\ lost.children[p] \in Nat
      /\ IsFiniteSet(lacking) /\ kept.parents \in SUBSET Parents
  BY Counted, Sizes, Numbers, FiniteCounts DEF TypeInv, CountInv, KeptInv
<1>3. lacking \subseteq ToSet(members) /\ rest \in SUBSET lacking
  BY <1>1, <1>2, LacksNoMore DEF Lacking
<1>4. rest \intersect ToSet(page) = {}
  <2> HIDE DEF page
  <2> QED BY <1>1 DEF Lacking, Composite, InWindow
<1>5. page = PageOf(members, offset, MemberPage)
  OBVIOUS
<1>6. MoreMembers(p) <=> More(members, offset, MemberPage)
  BY DEF MoreMembers
<1>7. \A at : UpTo(account.children[p], at, Lacking(p)) = UpTo(members, at, lacking)
  OBVIOUS
<1> HIDE DEF members, page, lacking, rest
<1>8. /\ Cardinality(UpTo(members, offset + MemberPage, rest))
           <= Cardinality(UpTo(members, offset, lacking))
      /\ ~MoreMembers(p) => Cardinality(rest) <= Cardinality(UpTo(members, offset, lacking))
  BY <1>2, <1>3, <1>4, <1>5, <1>6, PageHidesNone
<1>9. /\ Cardinality(UpTo(members, offset, lacking)) \in Nat /\ Cardinality(rest) \in Nat
      /\ Cardinality(UpTo(members, offset + MemberPage, rest)) \in Nat
  BY <1>2, <1>3, Fewer, UpToFew
<1>10. ASSUME p \in (kept.parents \intersect shown) \ failed
       PROVE  Cardinality(UpTo(members, offset, lacking)) <= lost.children[p]
  BY <1>1, <1>7, <1>10 DEF CountInv, ChildrenCounted
<1>11. CASE MoreMembers(p)
  <2>1. offset' = offset + MemberPage /\ todo' = todo
    BY <1>1, <1>11 DEF NextOffset
  <2>2. \A q : q # p => Lacking(q)' = Lacking(q)
    BY <1>1 DEF Lacking, Composite, InWindow
  <2>3. p \in ToSet(todo)
    <3>1. todo \in Seq(Parents) /\ DOMAIN todo = 1 .. Len(todo) /\ Len(todo) \in Nat \ {0}
          /\ Head(todo) = todo[1]
      BY <1>1, EmptySeq, LenProperties DEF TypeInv, TypeOK
    <3>2. 1 \in DOMAIN todo /\ p = todo[1]
      BY <1>1, <3>1
    <3> QED BY <3>2 DEF ToSet
  <2>4. ASSUME NEW q \in (kept.parents \intersect shown) \ failed
        PROVE  /\ q \notin ToSet(todo) => Cardinality(Lacking(q)') <= lost.children[q]
               /\ q = Head(todo) =>
                    Cardinality(UpTo(account.children[q], offset', Lacking(q)'))
                      <= lost.children[q]
    <3>1. CASE q = p
      <4>1. Cardinality(UpTo(members, offset', rest)) <= lost.children[p]
        BY <1>2, <1>8, <1>9, <1>10, <2>1, <2>4, <3>1
      <4> QED BY <2>3, <3>1, <4>1 DEF members, rest
    <3>2. CASE q # p
      BY <1>1, <2>2, <2>4, <3>2 DEF CountInv, ChildrenCounted
    <3> QED BY <3>1, <3>2
  <2>5. ChildrenCounted'
    BY <1>1, <2>1, <2>4 DEF ChildrenCounted
  <2>6. KeptInv' /\ ParentsCounted'
    BY <1>1 DEF CountInv, KeptInv, ParentsCounted
  <2> QED BY <2>5, <2>6 DEF CountInv
<1>12. CASE ~MoreMembers(p)
  <2>1. offset' = 0 /\ todo' = Tail(todo)
    BY <1>1, <1>12
  <2>2. CASE p \in (kept.parents \intersect shown) \ failed
    <3>1. Cardinality(Lacking(p)') <= lost.children[p]
      BY <1>2, <1>8, <1>9, <1>10, <1>12, <2>2 DEF rest
    <3> QED BY <1>1, <2>1, <3>1, PassCounts
  <2>3. CASE p \notin (kept.parents \intersect shown) \ failed
    BY <1>1, <2>1, <2>3, PassCounts
  <2> QED BY <2>2, <2>3
<1> QED BY <1>11, <1>12

\* Between two calls nothing moves, and what the call has becomes formae's.
LEMMA ExpandedCounts ==
  ASSUME TypeInv, CountInv, Expanded
  PROVE  CountInv'
<1>1. /\ pc = "expand" /\ todo = <<>>
      /\ listed' = listed \union ids /\ ids' = {} /\ token' = next
      /\ pc' = IF next = 0 THEN "done" ELSE "ask"
      /\ UNCHANGED <<account, lister, next, todo, offset, kept, shown, failed, lost>>
  BY DEF Expanded, Return, history
<1>2. KeptInv' /\ ParentsCounted'
  BY <1>1 DEF CountInv, KeptInv, ParentsCounted
<1>3. \A p : Lacking(p)' = Lacking(p)
  BY <1>1 DEF Lacking, InWindow
<1>4. ChildrenCounted'
  BY <1>1, <1>3 DEF CountInv, ChildrenCounted
<1> QED BY <1>2, <1>4 DEF CountInv

\* A change of the parents counts if it brings no more past any place than it adds to
\* what was lost.
LEMMA ParentsChangeCounts ==
  ASSUME TypeInv, CountInv, Change, account'.parents \in Unique(Parents),
         kept'.parents \subseteq kept.parents, lost'.parents \in Nat,
         NEW more \in {0, 1}, lost'.parents = lost.parents + more,
         \A at \in Nat :
           Cardinality(UpTo(account'.parents, at, kept'.parents \ shown))
             <= Cardinality(UpTo(account.parents, at, kept.parents \ shown)) + more
  PROVE  ParentsCounted'
<1> DEFINE hidden == kept.parents \ shown
           rest   == kept'.parents \ shown
<1>1. /\ UNCHANGED <<pc, token, next, shown>>
      /\ token \in Nat /\ next \in Nat /\ lost.parents \in Nat
      /\ account.parents \in Unique(Parents) /\ IsFiniteSet(hidden)
      /\ rest \in SUBSET hidden /\ (kept.parents \ shown)' = rest
  BY Sizes, Counted, FiniteCounts DEF Change, call, TypeInv
<1>2. /\ Cardinality(hidden) \in Nat /\ Cardinality(rest) \in Nat /\ IsFiniteSet(rest)
      /\ Cardinality(rest) <= Cardinality(hidden)
  BY <1>1, Fewer
<1>3. \A at \in Nat : /\ Cardinality(UpTo(account.parents, at, hidden)) \in Nat
                      /\ Cardinality(UpTo(account'.parents, at, rest)) \in Nat
                      /\ Cardinality(UpTo(account'.parents, at, rest))
                           <= Cardinality(UpTo(account.parents, at, hidden)) + more
  BY <1>1, <1>2, UpToFew
<1>4. /\ pc = "ask" => Cardinality(UpTo(account.parents, token, hidden)) <= lost.parents
      /\ pc = "expand" /\ next # 0 =>
           Cardinality(UpTo(account.parents, next, hidden)) <= lost.parents
      /\ (pc = "expand" /\ next = 0) \/ pc = "done" => Cardinality(hidden) <= lost.parents
  BY DEF CountInv, ParentsCounted
<1>5. more \in Nat
  OBVIOUS
<1> HIDE DEF hidden, rest
<1>6. /\ pc = "ask" => Cardinality(UpTo(account'.parents, token, rest)) <= lost'.parents
      /\ pc = "expand" /\ next # 0 =>
           Cardinality(UpTo(account'.parents, next, rest)) <= lost'.parents
      /\ (pc = "expand" /\ next = 0) \/ pc = "done" => Cardinality(rest) <= lost'.parents
  <2>1. ASSUME NEW at \in Nat, Cardinality(UpTo(account.parents, at, hidden)) <= lost.parents
        PROVE  Cardinality(UpTo(account'.parents, at, rest)) <= lost'.parents
    BY <1>1, <1>3, <1>5, <2>1
  <2>2. Cardinality(hidden) <= lost.parents => Cardinality(rest) <= lost'.parents
    BY <1>1, <1>2, <1>5
  <2> QED BY <1>1, <1>4, <2>1, <2>2
<1> QED BY <1>1, <1>6 DEF ParentsCounted

\* The same of the children of one parent.
LEMMA ChildrenChangeCounts ==
  ASSUME TypeInv, CountInv, Change, kept'.parents \subseteq kept.parents,
         account' \in Account, kept' \in Kept, lost' \in Lost,
         \A q \in Parents : kept'.children[q] \subseteq kept.children[q],
         \A q \in Parents : lost.children[q] <= lost'.children[q],
         \A q \in Parents :
           Cardinality(UpTo(account'.children[q], offset, Lacking(q)'))
             <= Cardinality(UpTo(account.children[q], offset, Lacking(q)))
                  + (lost'.children[q] - lost.children[q])
  PROVE  ChildrenCounted'
<1>1. UNCHANGED <<lister, todo, offset, ids, listed, shown, failed>>
  BY DEF Change, call
<1>2. /\ kept.parents \in SUBSET Parents /\ account.children \in [Parents -> Unique(Children)]
      /\ lost.children \in [Parents -> Nat] /\ lost'.children \in [Parents -> Nat]
      /\ account'.children \in [Parents -> Unique(Children)]
      /\ \A q \in Parents : IsFiniteSet(Lacking(q)) /\ Lacking(q)' \subseteq Lacking(q)
  <2>1. \A q \in Parents : Lacking(q)' \subseteq Lacking(q)
    BY <1>1, LacksNoMore
  <2>2. account'.children \in [Parents -> Unique(Children)] /\ lost'.children \in [Parents -> Nat]
    BY DEF Account, Lost
  <2> QED BY <2>1, <2>2, Counted, FiniteCounts DEF TypeInv
<1>3. ASSUME lister.nested # "none", NEW q \in (kept'.parents \intersect shown) \ failed
      PROVE  /\ q \notin ToSet(todo) => Cardinality(Lacking(q)') <= lost'.children[q]
             /\ todo # <<>> /\ q = Head(todo) =>
                  Cardinality(UpTo(account'.children[q], offset, Lacking(q)')) <= lost'.children[q]
  <2>1. /\ q \in Parents /\ q \in (kept.parents \intersect shown) \ failed
        /\ lost.children[q] \in Nat /\ lost'.children[q] \in Nat
        /\ lost.children[q] <= lost'.children[q]
    BY <1>2, <1>3
  <2>2. /\ Cardinality(Lacking(q)) \in Nat /\ Cardinality(Lacking(q)') \in Nat
        /\ Cardinality(Lacking(q)') <= Cardinality(Lacking(q)) /\ IsFiniteSet(Lacking(q)')
    BY <1>2, <2>1, Fewer
  <2>3. /\ Cardinality(UpTo(account.children[q], offset, Lacking(q))) \in Nat
        /\ Cardinality(UpTo(account'.children[q], offset, Lacking(q)')) \in Nat
    BY <1>2, <2>1, <2>2, UpToFew
  <2>4. /\ q \notin ToSet(todo) => Cardinality(Lacking(q)) <= lost.children[q]
        /\ todo # <<>> /\ q = Head(todo) =>
             Cardinality(UpTo(account.children[q], offset, Lacking(q))) <= lost.children[q]
    BY <1>3, <2>1 DEF CountInv, ChildrenCounted
  <2>5. Cardinality(UpTo(account'.children[q], offset, Lacking(q)'))
          <= Cardinality(UpTo(account.children[q], offset, Lacking(q)))
               + (lost'.children[q] - lost.children[q])
    BY <2>1
  <2>6. q \notin ToSet(todo) => Cardinality(Lacking(q)') <= lost'.children[q]
    BY <2>1, <2>2, <2>4
  <2>7. todo # <<>> /\ q = Head(todo) =>
          Cardinality(UpTo(account'.children[q], offset, Lacking(q)')) <= lost'.children[q]
    BY <2>1, <2>3, <2>4, <2>5
  <2> QED BY <2>6, <2>7
<1> QED BY <1>1, <1>3 DEF ChildrenCounted

LEMMA RemoveParentCounts ==
  ASSUME TypeInv, CountInv, NEW i \in DOMAIN account.parents, RemoveParent(i)
  PROVE  CountInv'
<1> DEFINE p == account.parents[i]
<1>1. /\ account'.parents = RemoveAt(account.parents, i)
      /\ account'.children = account.children /\ account' \in Account /\ p \in Parents
      /\ kept'.parents = kept.parents \ {p}
      /\ kept'.children = [kept.children EXCEPT ![p] = {}] /\ kept' \in Kept
      /\ lost'.parents = lost.parents + 1 /\ lost'.children = lost.children /\ lost' \in Lost
  BY RemoveParentEffect DEF TypeInv
<1>2. Change /\ UNCHANGED <<shown, offset, lister, ids, listed>>
  BY DEF RemoveParent, Change, call
<1>3. /\ account.parents \in Unique(Parents) /\ account.children \in [Parents -> Unique(Children)]
      /\ kept.children \in [Parents -> SUBSET Children] /\ lost.children \in [Parents -> Nat]
      /\ lost.parents \in Nat
      /\ kept.parents \subseteq ToSet(account.parents)
      /\ \A q \in Parents : kept.children[q] \subseteq ToSet(account.children[q])
      /\ IsFiniteSet(kept.parents \ shown) /\ \A q \in Parents : IsFiniteSet(Lacking(q))
  BY Counted, FiniteCounts DEF TypeInv, CountInv, KeptInv
<1>4. /\ RemoveAt(account.parents, i) \in Unique(Parents)
      /\ ToSet(RemoveAt(account.parents, i)) = ToSet(account.parents) \ {p}
  BY <1>3, Removal
<1> HIDE DEF p
<1>5. \A q \in Parents : kept'.children[q] \subseteq kept.children[q]
  BY <1>1, <1>3
<1>6. KeptInv'
  BY <1>1, <1>3, <1>4, <1>5 DEF KeptInv
<1>7. ParentsCounted'
  <2>1. \A at \in Nat :
          Cardinality(UpTo(account'.parents, at, kept'.parents \ shown))
            <= Cardinality(UpTo(account.parents, at, kept.parents \ shown)) + 1
    <3>1. kept'.parents \ shown \in SUBSET (kept.parents \ shown)
      BY <1>1
    <3> QED BY <1>1, <1>3, <3>1, RemovalHidesOne
  <2>2. lost'.parents \in Nat
    BY <1>1, <1>3
  <2> QED BY <1>1, <1>2, <1>4, <2>1, <2>2, ParentsChangeCounts
<1>8. ChildrenCounted'
  <2>1. ASSUME NEW q \in Parents
        PROVE  Cardinality(UpTo(account'.children[q], offset, Lacking(q)'))
                 <= Cardinality(UpTo(account.children[q], offset, Lacking(q)))
                      + (lost'.children[q] - lost.children[q])
    <3>1. Lacking(q)' \subseteq Lacking(q)
      BY <1>2, <1>5, LacksNoMore
    <3>2. /\ Cardinality(UpTo(account.children[q], offset, Lacking(q)'))
               <= Cardinality(UpTo(account.children[q], offset, Lacking(q)))
          /\ Cardinality(UpTo(account.children[q], offset, Lacking(q)')) \in Nat
          /\ Cardinality(UpTo(account.children[q], offset, Lacking(q))) \in Nat
      BY <1>3, <3>1, UpToMonotone, UpToFew
    <3>3. lost'.children[q] - lost.children[q] = 0
      BY <1>1, <1>3
    <3> QED BY <1>1, <3>2, <3>3
  <2>2. \A q \in Parents : lost.children[q] <= lost'.children[q]
    BY <1>1, <1>3
  <2>3. kept'.parents \subseteq kept.parents
    BY <1>1
  <2> QED BY <1>1, <1>2, <1>5, <2>1, <2>2, <2>3, ChildrenChangeCounts
<1> QED BY <1>6, <1>7, <1>8 DEF CountInv

LEMMA RemoveChildCounts ==
  ASSUME TypeInv, CountInv, NEW p \in Parents, NEW i \in DOMAIN account.children[p],
         RemoveChild(p, i)
  PROVE  CountInv'
<1> DEFINE c == account.children[p][i]
           members == account.children[p]
<1>1. /\ account'.parents = account.parents /\ account' \in Account
      /\ account'.children = [account.children EXCEPT ![p] = RemoveAt(members, i)]
      /\ kept'.parents = kept.parents
      /\ kept'.children = [kept.children EXCEPT ![p] = kept.children[p] \ {c}] /\ kept' \in Kept
      /\ lost'.parents = lost.parents /\ lost' \in Lost
      /\ lost'.children = [lost.children EXCEPT ![p] = lost.children[p] + 1]
  BY RemoveChildEffect DEF TypeInv
<1>2. Change /\ UNCHANGED <<shown, offset, lister, ids, listed>>
  BY DEF RemoveChild, Change, call
<1>3. /\ account.parents \in Unique(Parents) /\ account.children \in [Parents -> Unique(Children)]
      /\ kept.children \in [Parents -> SUBSET Children] /\ lost.children \in [Parents -> Nat]
      /\ lost.parents \in Nat /\ offset \in Nat
      /\ kept.parents \subseteq ToSet(account.parents)
      /\ \A q \in Parents : kept.children[q] \subseteq ToSet(account.children[q])
      /\ IsFiniteSet(kept.parents \ shown) /\ \A q \in Parents : IsFiniteSet(Lacking(q))
  BY Counted, FiniteCounts, Sizes DEF TypeInv, CountInv, KeptInv
<1>4. /\ members \in Unique(Children)
      /\ ToSet(RemoveAt(members, i)) = ToSet(members) \ {c}
  BY <1>3, Removal
<1> HIDE DEF c
<1>5. \A q \in Parents : kept'.children[q] \subseteq kept.children[q]
  BY <1>1, <1>3
<1>6. KeptInv'
  BY <1>1, <1>3, <1>4 DEF KeptInv
<1>7. ParentsCounted'
  <2>1. \A at \in Nat :
          Cardinality(UpTo(account'.parents, at, kept'.parents \ shown))
            <= Cardinality(UpTo(account.parents, at, kept.parents \ shown)) + 0
    BY <1>1, <1>3, UpToFew
  <2>2. /\ account'.parents \in Unique(Parents) /\ kept'.parents \subseteq kept.parents
        /\ lost'.parents \in Nat /\ lost'.parents = lost.parents + 0
    BY <1>1, <1>3
  <2> QED BY <1>2, <2>1, <2>2, ParentsChangeCounts
<1>8. ChildrenCounted'
  <2>1. ASSUME NEW q \in Parents
        PROVE  Cardinality(UpTo(account'.children[q], offset, Lacking(q)'))
                 <= Cardinality(UpTo(account.children[q], offset, Lacking(q)))
                      + (lost'.children[q] - lost.children[q])
    <3>1. Lacking(q)' \in SUBSET Lacking(q)
      BY <1>2, <1>5, LacksNoMore
    <3>2. CASE q = p
      <4>1. account'.children[q] = RemoveAt(members, i)
            /\ lost'.children[q] - lost.children[q] = 1
        BY <1>1, <1>3, <3>2
      <4>2. Cardinality(UpTo(RemoveAt(members, i), offset, Lacking(q)'))
              <= Cardinality(UpTo(members, offset, Lacking(q))) + 1
        BY <1>3, <1>4, <3>1, <3>2, RemovalHidesOne
      <4> QED BY <3>2, <4>1, <4>2
    <3>3. CASE q # p
      <4>1. account'.children[q] = account.children[q]
            /\ lost'.children[q] - lost.children[q] = 0
        BY <1>1, <1>3, <3>3
      <4>2. /\ Cardinality(UpTo(account.children[q], offset, Lacking(q)'))
                 <= Cardinality(UpTo(account.children[q], offset, Lacking(q)))
            /\ Cardinality(UpTo(account.children[q], offset, Lacking(q))) \in Nat
        BY <1>3, <3>1, UpToMonotone, UpToFew
      <4> QED BY <4>1, <4>2
    <3> QED BY <3>2, <3>3
  <2>2. \A q \in Parents : lost.children[q] <= lost'.children[q]
    BY <1>1, <1>3
  <2>3. kept'.parents \subseteq kept.parents
    BY <1>1
  <2> QED BY <1>1, <1>2, <1>5, <2>1, <2>2, <2>3, ChildrenChangeCounts
<1> QED BY <1>6, <1>7, <1>8 DEF CountInv

LEMMA InsertParentCounts ==
  ASSUME TypeInv, CountInv, NEW p \in Parents, NEW i \in 1 .. Len(account.parents) + 1,
         InsertParent(p, i)
  PROVE  CountInv'
<1>1. /\ p \notin ToSet(account.parents)
      /\ account'.parents = InsertAt(account.parents, i, p)
      /\ account'.children = account.children /\ account' \in Account
      /\ kept' = kept /\ lost' = lost
  BY InsertParentEffect DEF TypeInv
<1>2. Change /\ UNCHANGED <<shown, offset, lister, ids, listed, todo, failed>>
  BY DEF InsertParent, Change, call
<1>3. /\ account.parents \in Unique(Parents) /\ lost.parents \in Nat
      /\ kept.parents \subseteq ToSet(account.parents)
      /\ IsFiniteSet(kept.parents \ shown) /\ p \notin kept.parents
  BY <1>1, Counted, FiniteCounts DEF TypeInv, CountInv, KeptInv
<1>4. /\ InsertAt(account.parents, i, p) \in Unique(Parents)
      /\ ToSet(InsertAt(account.parents, i, p)) = ToSet(account.parents) \union {p}
  BY <1>1, <1>3, Insertion
<1>5. KeptInv'
  BY <1>1, <1>3, <1>4 DEF CountInv, KeptInv
<1>6. ParentsCounted'
  <2>1. ASSUME NEW at \in Nat
        PROVE  Cardinality(UpTo(account'.parents, at, kept'.parents \ shown))
                 <= Cardinality(UpTo(account.parents, at, kept.parents \ shown)) + 0
    <3>1. p \notin kept.parents \ shown
      BY <1>3
    <3>2. Cardinality(UpTo(InsertAt(account.parents, i, p), at, kept.parents \ shown))
            <= Cardinality(UpTo(account.parents, at, kept.parents \ shown))
      BY <1>1, <1>3, <3>1, InsertionHidesNone
    <3>3. Cardinality(UpTo(account.parents, at, kept.parents \ shown)) \in Nat
      BY <1>3, UpToFew
    <3> QED BY <1>1, <3>2, <3>3
  <2>2. kept'.parents \subseteq kept.parents /\ lost'.parents \in Nat
        /\ lost'.parents = lost.parents + 0
    BY <1>1, <1>3
  <2> QED BY <1>1, <1>2, <1>4, <2>1, <2>2, ParentsChangeCounts
<1>7. ChildrenCounted'
  <2>1. \A q : Lacking(q)' = Lacking(q)
    BY <1>1, <1>2 DEF Lacking, InWindow
  <2> QED BY <1>1, <1>2, <2>1 DEF CountInv, ChildrenCounted
<1> QED BY <1>5, <1>6, <1>7 DEF CountInv

LEMMA InsertChildCounts ==
  ASSUME TypeInv, CountInv, NEW p \in Parents, NEW c \in Children,
         NEW i \in 1 .. Len(account.children[p]) + 1, InsertChild(p, c, i)
  PROVE  CountInv'
<1> DEFINE members == account.children[p]
<1>1. /\ c \notin ToSet(members) /\ account'.parents = account.parents
      /\ account'.children = [account.children EXCEPT ![p] = InsertAt(members, i, c)]
      /\ account' \in Account /\ kept' = kept /\ lost' = lost
  BY InsertChildEffect DEF TypeInv
<1>2. Change /\ UNCHANGED <<pc, token, next, shown, offset, lister, ids, listed, todo, failed>>
  BY DEF InsertChild, Change, call
<1>3. /\ account.children \in [Parents -> Unique(Children)] /\ members \in Unique(Children)
      /\ lost.children \in [Parents -> Nat] /\ offset \in Nat
      /\ kept \in Kept /\ lost \in Lost
      /\ \A q \in Parents : kept.children[q] \subseteq ToSet(account.children[q])
      /\ \A q \in Parents : IsFiniteSet(Lacking(q))
  BY Counted, FiniteCounts, Sizes DEF TypeInv, CountInv, KeptInv
<1>4. /\ InsertAt(members, i, c) \in Unique(Children)
      /\ ToSet(InsertAt(members, i, c)) = ToSet(members) \union {c}
  BY <1>1, <1>3, Insertion
<1>5. KeptInv'
  BY <1>1, <1>3, <1>4 DEF CountInv, KeptInv
<1>6. ParentsCounted'
  BY <1>1, <1>2 DEF CountInv, ParentsCounted
<1>7. \A q : Lacking(q)' = Lacking(q)
  BY <1>1, <1>2 DEF Lacking, InWindow
<1>8. ASSUME NEW q \in Parents
      PROVE  Cardinality(UpTo(account'.children[q], offset, Lacking(q)'))
               <= Cardinality(UpTo(account.children[q], offset, Lacking(q)))
                    + (lost'.children[q] - lost.children[q])
  <2>1. lost'.children[q] - lost.children[q] = 0
    BY <1>1, <1>3
  <2>2. Cardinality(UpTo(account.children[q], offset, Lacking(q))) \in Nat
    BY <1>3, UpToFew
  <2>3. CASE q = p
    <3>1. c \notin Lacking(q)
      BY <1>1, <1>3, <2>3 DEF Lacking
    <3>2. Cardinality(UpTo(InsertAt(members, i, c), offset, Lacking(q)))
            <= Cardinality(UpTo(members, offset, Lacking(q)))
      BY <1>1, <1>3, <3>1, InsertionHidesNone
    <3>3. account'.children[q] = InsertAt(members, i, c)
      BY <1>1, <1>3, <2>3
    <3> QED BY <1>7, <2>1, <2>2, <2>3, <3>2, <3>3
  <2>4. CASE q # p
    <3>1. account'.children[q] = account.children[q]
      BY <1>1, <1>3, <2>4
    <3> QED BY <1>7, <2>1, <2>2, <3>1
  <2> QED BY <2>3, <2>4
<1>9. /\ \A q \in Parents : lost.children[q] <= lost'.children[q]
      /\ \A q \in Parents : kept'.children[q] \subseteq kept.children[q]
      /\ kept'.parents \subseteq kept.parents /\ kept' \in Kept /\ lost' \in Lost
  BY <1>1, <1>3
<1>10. ChildrenCounted'
  BY <1>1, <1>2, <1>8, <1>9, ChildrenChangeCounts
<1> QED BY <1>5, <1>6, <1>10 DEF CountInv

LEMMA StepCounts == TypeInv /\ CountInv /\ [Next]_vars => CountInv'
<1> SUFFICES ASSUME TypeInv, CountInv, [Next]_vars PROVE CountInv'
  OBVIOUS
<1>1. CASE FetchPage
  <2>1. KeptInv'
    BY <1>1 DEF FetchPage, CountInv, KeptInv
  <2> QED BY <1>1, <2>1, FetchParents, FetchChildren DEF CountInv
<1>2. CASE PageFails
  <2>1. /\ pc' = "failed"
        /\ UNCHANGED <<account, lister, todo, offset, ids, listed, kept, shown, failed, lost>>
    BY <1>2 DEF PageFails, call, history
  <2>2. \A q : Lacking(q)' = Lacking(q)
    BY <2>1 DEF Lacking, InWindow
  <2> QED BY <2>1, <2>2 DEF CountInv, KeptInv, ParentsCounted, ChildrenCounted
<1>3. CASE UNCHANGED vars
  <2>1. UNCHANGED <<account, pc, token, next, lister, todo, offset, ids, listed,
                    kept, shown, failed, lost>>
    BY <1>3 DEF vars, call, history
  <2>2. \A q : Lacking(q)' = Lacking(q)
    BY <2>1 DEF Lacking, InWindow
  <2> QED BY <2>1, <2>2 DEF CountInv, KeptInv, ParentsCounted, ChildrenCounted
<1> QED BY <1>1, <1>2, <1>3, ExpandCounts, ExpandPageCounts, ExpandFailsCounts, ExpandedCounts,
           RemoveParentCounts, RemoveChildCounts, InsertParentCounts, InsertChildCounts
        DEF Next, Terminated

LEMMA CountIsEnough == TypeInv /\ CountInv => EachRemovalHidesOne
<1> SUFFICES ASSUME TypeInv, CountInv, pc = "done" PROVE EachRemovalHidesOne
  BY DEF EachRemovalHidesOne
<1>1. todo = <<>> /\ ids = {} /\ (lister.nested = "none" => listed = shown)
  BY DEF TypeInv, Routine
<1>2. Cardinality(kept.parents \ shown) <= lost.parents
  BY DEF CountInv, ParentsCounted
<1>3. ASSUME lister.nested # "none", NEW p \in (kept.parents \intersect shown) \ failed
      PROVE  Cardinality({c \in kept.children[p] : InWindow(c) /\ <<p, c>> \notin listed})
               <= lost.children[p]
  <2>1. p \notin ToSet(todo)
    BY <1>1, EmptySeq DEF ToSet
  <2>2. Cardinality(Lacking(p)) <= lost.children[p]
    BY <1>3, <2>1 DEF CountInv, ChildrenCounted
  <2>3. Lacking(p) = {c \in kept.children[p] : InWindow(c) /\ <<p, c>> \notin listed}
    BY <1>1 DEF Lacking
  <2> QED BY <2>2, <2>3
<1> QED BY <1>1, <1>2, <1>3 DEF EachRemovalHidesOne

-----------------------------------------------------------------------------
\* However the account changes while discovery pages through it, each removal makes
\* it overlook one thing at most that was there all the time: as many parents as
\* parents were removed, and of the resources nested in a parent that was expanded as
\* many as that parent lost.
THEOREM RemovalsHideOneEach == Spec => []EachRemovalHidesOne
<1>1. Init => TypeInv /\ CountInv
  BY InitTypes, InitCounts
<1>2. TypeInv /\ CountInv /\ [Next]_vars => TypeInv' /\ CountInv'
  BY StepTypes, StepCounts
<1> QED BY <1>1, <1>2, CountIsEnough, PTL DEF Spec

\* Nothing was removed and no expansion failed, whatever was put in meanwhile.
Undisturbed ==
  /\ lost.parents = 0 /\ \A p \in Parents : lost.children[p] = 0
  /\ failed = {}

\* Discovery that ends without a removal or a failed expansion is complete: it has all
\* the parents or all the resources within the window nested in them that were there
\* all the time.
THEOREM UndisturbedDiscoveryIsComplete ==
  Spec => [](pc = "done" /\ Undisturbed =>
               IF lister.nested = "none"
               THEN kept.parents \subseteq listed
               ELSE \A p \in kept.parents : \A c \in kept.children[p] :
                      InWindow(c) => <<p, c>> \in listed)
<1> DEFINE Complete ==
             IF lister.nested = "none"
             THEN kept.parents \subseteq listed
             ELSE \A p \in kept.parents : \A c \in kept.children[p] :
                    InWindow(c) => <<p, c>> \in listed
<1>1. TypeOK /\ EachRemovalHidesOne /\ pc = "done" /\ Undisturbed => Complete
  <2> SUFFICES ASSUME TypeOK, EachRemovalHidesOne, pc = "done", Undisturbed PROVE Complete
    OBVIOUS
  <2>1. /\ kept.parents \in SUBSET Parents /\ kept.children \in [Parents -> SUBSET Children]
        /\ lost.parents = 0 /\ \A p \in Parents : lost.children[p] = 0 /\ failed = {}
    BY Counted DEF Undisturbed
  <2>2. \A A : IsFiniteSet(A) /\ Cardinality(A) <= 0 => A = {}
    <3>1. \A A : IsFiniteSet(A) => Cardinality(A) \in Nat
      BY FS_CardinalityType
    <3> QED BY <3>1, FS_EmptySet
  <2>3. /\ \A A \in SUBSET Parents : IsFiniteSet(A)
        /\ \A A \in SUBSET Children : IsFiniteSet(A)
    BY FiniteAssumption, FS_Subset
  <2>4. kept.parents \subseteq (IF lister.nested = "none" THEN listed ELSE shown)
    <3> DEFINE missed == kept.parents \ IF lister.nested = "none" THEN listed ELSE shown
    <3>1. Cardinality(missed) <= 0
      BY <2>1 DEF EachRemovalHidesOne
    <3>2. missed \in SUBSET Parents
      BY <2>1
    <3>3. missed = {}
      <4> HIDE DEF missed
      <4> QED BY <2>2, <2>3, <3>1, <3>2
    <3> QED BY <3>3
  <2>5. ASSUME lister.nested # "none", NEW p \in kept.parents, NEW c \in kept.children[p],
               InWindow(c), <<p, c>> \notin listed
        PROVE  FALSE
    <3> DEFINE missed == {d \in kept.children[p] : InWindow(d) /\ <<p, d>> \notin listed}
    <3>1. p \in Parents /\ p \in (kept.parents \intersect shown) \ failed
      BY <2>1, <2>4, <2>5
    <3>2. Cardinality(missed) <= 0
      BY <2>1, <2>5, <3>1 DEF EachRemovalHidesOne
    <3>3. missed \in SUBSET Children /\ c \in missed
      BY <2>1, <2>5, <3>1
    <3> HIDE DEF missed
    <3> QED BY <2>2, <2>3, <3>2, <3>3
  <2> QED BY <2>4, <2>5
<1>2. Spec => [](pc = "done" /\ Undisturbed => Complete)
  BY <1>1, TypeCorrect, RemovalsHideOneEach, PTL
<1> QED BY <1>2

-----------------------------------------------------------------------------
(* Discovery is bounded. *)

\* What discovery has ahead of it: pages of parents; of the present one, its listing;
\* then the parents still to expand; and of the first of them, members to page through.
Ahead ==
  <<IF pc \in {"done", "failed"} THEN 0 ELSE Cardinality(Parents) + 1 - token,
    IF pc = "expand" THEN 0 ELSE 1,
    Len(todo),
    Cardinality(Children) - offset>>

Precedes(a, b) ==
  \/ a[1] < b[1]
  \/ a[1] = b[1] /\ a[2] < b[2]
  \/ a[1] = b[1] /\ a[2] = b[2] /\ a[3] < b[3]
  \/ a[1] = b[1] /\ a[2] = b[2] /\ a[3] = b[3] /\ a[4] < b[4]

\* The next page lies behind this one, and no page is longer than asked for.
PagesOnwards ==
  /\ pc = "expand" => next = 0 \/ next > token
  /\ Len(todo) <= Limit

\* A step of the account's, or of nobody's.
Pauses == UNCHANGED <<pc, call, listed>>

LEMMA PageFits ==
  ASSUME NEW S, NEW s \in Unique(S), NEW from \in Nat, NEW limit \in Nat,
         NEW page, page = PageOf(s, from, limit)
  PROVE  Len(page) \in 0 .. limit
<1>1. page \in Unique(S) /\ CutBehind(page, s, from, limit)
  BY PageElements
<1>2. Len(page) \in Nat /\ DOMAIN page = 1 .. Len(page)
  BY <1>1, Places
<1>3. Len(page) # 0 => Len(page) \in DOMAIN page
  BY <1>2
<1> QED BY <1>1, <1>2, <1>3 DEF CutBehind

\* Within the expansion of a page.
LEMMA ExpandAhead ==
  ASSUME TypeInv, PagesOnwards, pc = "expand", todo # <<>>,
         UNCHANGED <<pc, token, next>>,
         \/ todo' = Tail(todo)
         \/ todo' = todo /\ offset' > offset /\ offset' \in Nat
  PROVE  PagesOnwards' /\ Precedes(Ahead', Ahead)
<1>1. Len(todo) \in Nat /\ Len(Tail(todo)) = Len(todo) - 1
  BY EmptySeq, HeadTailProperties, LenProperties DEF TypeInv, TypeOK
<1>2. Limit \in Nat /\ Cardinality(Children) \in Nat /\ offset \in Nat /\ token \in Nat
      /\ Cardinality(Parents) \in Nat
  BY Numbers, Sizes DEF TypeInv
<1>3. PagesOnwards'
  BY <1>1, <1>2 DEF PagesOnwards
<1>4. Precedes(Ahead', Ahead)
  BY <1>1, <1>2 DEF Precedes, Ahead
<1> QED BY <1>3, <1>4

LEMMA FetchAhead ==
  ASSUME TypeInv, PagesOnwards, FetchPage
  PROVE  PagesOnwards' /\ Precedes(Ahead', Ahead)
<1> DEFINE page      == PageOf(account.parents, token, Limit)
           following == IF More(account.parents, token, Limit) THEN NextToken ELSE 0
<1>1. /\ account.parents \in Unique(Parents) /\ Len(account.parents) \in Nat
      /\ Len(account.parents) <= Cardinality(Parents) /\ Cardinality(Parents) \in Nat
      /\ token \in 0 .. Cardinality(Parents) /\ Limit \in Nat \ {0}
  BY Sizes, Places, Numbers DEF TypeInv, TypeOK
<1>2. Len(page) \in 0 .. Limit
  <2>1. page = PageOf(account.parents, token, Limit) /\ token \in Nat /\ Limit \in Nat
    BY <1>1
  <2> HIDE DEF page
  <2> QED BY <1>1, <2>1, PageFits
<1>3. following = 0 \/ (following > token /\ following \in 0 .. Cardinality(Parents))
  BY <1>1 DEF NextToken, More
<1>4. /\ pc = "ask"
      /\ \/ /\ token' = following /\ pc' = IF following = 0 THEN "done" ELSE "ask"
            /\ UNCHANGED <<next, todo>>
         \/ pc' = "expand" /\ next' = following /\ todo' = page /\ UNCHANGED token
  BY DEF FetchPage, Return
<1> HIDE DEF page, following
<1>5. Len(todo) \in Nat /\ Len(todo) <= Limit
  BY LenProperties DEF TypeInv, TypeOK, PagesOnwards
<1>6. PagesOnwards'
  <2>1. Limit' = Limit
    BY DEF Limit
  <2> QED BY <1>2, <1>3, <1>4, <1>5, <2>1 DEF PagesOnwards
<1>7. Precedes(Ahead', Ahead)
  BY <1>1, <1>3, <1>4 DEF Precedes, Ahead
<1> QED BY <1>6, <1>7

LEMMA StepAhead ==
  ASSUME TypeInv, PagesOnwards, [Next]_vars
  PROVE  PagesOnwards' /\ (Pauses \/ Precedes(Ahead', Ahead))
<1>0. /\ Limit \in Nat /\ token \in 0 .. Cardinality(Parents) /\ Cardinality(Parents) \in Nat
      /\ next \in 0 .. Cardinality(Parents)
  BY Numbers, Sizes DEF TypeInv, TypeOK
<1>1. ASSUME Pauses PROVE PagesOnwards'
  BY <1>1 DEF Pauses, call, PagesOnwards, Limit
<1>2. CASE FetchPage
  BY <1>2, FetchAhead
<1>3. CASE PageFails
  <2>1. pc = "ask" /\ pc' = "failed" /\ UNCHANGED <<token, todo>>
    BY <1>3 DEF PageFails, call
  <2> QED BY <1>0, <2>1 DEF PagesOnwards, Precedes, Ahead, Limit
<1>4. ASSUME NEW p \in Parents, Expand(p) \/ ExpandFails(p)
      PROVE  PagesOnwards' /\ Precedes(Ahead', Ahead)
  BY <1>4, ExpandAhead DEF Expand, ExpandFails, Expanding
<1>5. ASSUME NEW p \in Parents, ExpandPage(p) PROVE PagesOnwards' /\ Precedes(Ahead', Ahead)
  <2>1. offset \in Nat /\ MemberPage \in Nat \ {0}
    BY Numbers, Sizes DEF TypeInv
  <2>2. todo' = Tail(todo) \/ (todo' = todo /\ offset' = offset + MemberPage)
    BY <1>5 DEF ExpandPage, NextOffset
  <2> QED BY <1>5, <2>1, <2>2, ExpandAhead DEF ExpandPage, Expanding
<1>6. CASE Expanded
  <2>1. /\ pc = "expand" /\ token' = next /\ pc' = IF next = 0 THEN "done" ELSE "ask"
        /\ UNCHANGED todo
    BY <1>6 DEF Expanded, Return
  <2> QED BY <1>0, <2>1 DEF PagesOnwards, Precedes, Ahead, Limit
<1>7. ASSUME \/ \E i \in DOMAIN account.parents : RemoveParent(i)
             \/ \E p \in Parents : \E i \in DOMAIN account.children[p] : RemoveChild(p, i)
             \/ \E p, i : InsertParent(p, i)
             \/ \E p, c, i : InsertChild(p, c, i)
             \/ UNCHANGED vars
      PROVE  Pauses
  BY <1>7 DEF RemoveParent, RemoveChild, InsertParent, InsertChild, Change, vars, Pauses
<1> QED BY <1>1, <1>2, <1>3, <1>4, <1>5, <1>6, <1>7 DEF Next, Terminated

\* Discovery is bounded, however the account changes meanwhile: each of its steps begins
\* the next of the pages the parents there could be need, goes on to expand the page, is
\* done with one of its parents, or pages past some of the children there could be.
THEOREM DiscoveryIsBounded ==
  Spec => /\ [](Ahead \in (0 .. Cardinality(Parents) + 1) \X (0 .. 1) \X (0 .. Limit)
                           \X (0 .. Cardinality(Children)))
          /\ [][Pauses \/ Precedes(Ahead', Ahead)]_vars
<1> DEFINE Inv     == TypeInv /\ PagesOnwards
           Bounded == Ahead \in (0 .. Cardinality(Parents) + 1) \X (0 .. 1) \X (0 .. Limit)
                                  \X (0 .. Cardinality(Children))
           On      == Pauses \/ Precedes(Ahead', Ahead)
<1>1. Init => Inv
  <2>1. Init => PagesOnwards
    BY Numbers, EmptySeq DEF Init, PagesOnwards
  <2> QED BY <2>1, InitTypes
<1>2. Inv /\ [Next]_vars => Inv' /\ On
  BY StepTypes, StepAhead
<1>3. Inv => Bounded
  <2> SUFFICES ASSUME Inv PROVE Bounded
    OBVIOUS
  <2>1. /\ token \in 0 .. Cardinality(Parents) /\ offset \in 0 .. Cardinality(Children)
        /\ Cardinality(Parents) \in Nat /\ Cardinality(Children) \in Nat
    BY Sizes DEF TypeInv, TypeOK
  <2>2. Len(todo) \in Nat /\ Limit \in Nat /\ Len(todo) <= Limit
    BY Numbers, LenProperties DEF TypeInv, TypeOK, PagesOnwards
  <2> QED BY <2>1, <2>2 DEF Ahead
<1> HIDE DEF Inv, Bounded, On
<1> QED BY <1>1, <1>2, <1>3, PTL DEF Spec, Bounded, On
=============================================================================
