------------------------------ MODULE Discovery ------------------------------
(***************************************************************************)
(* Discovery of one resource type: formae calls the handler's List again   *)
(* and again, each time with the page token of the call before, while the  *)
(* account goes on changing.                                               *)
(*                                                                         *)
(* Every List pages through a collection ("parents") by offset.  Some      *)
(* report the parents themselves; the others expand each parent into the   *)
(* resources nested in it, one call or several calls for each, and pass    *)
(* over a parent whose expansion fails.                                    *)
(***************************************************************************)
EXTENDS Naturals, Sequences, FiniteSets, SequencesExt

CONSTANTS
  Parents,      \* ids of what List pages through
  Children,     \* ids of what may be nested in it
  Distant,      \* the overrides outside overrideListWindow
  Accounts,     \* what the account may hold at first
  PageSize,     \* the page size formae asks for
  MaxPage,      \* the longest page PagerDuty returns
  MemberPage,   \* Limit of ListTeamMembers in List
  MaxChanges    \* bound on the changes of the account during discovery

\* Nothing is listed twice by the server: what it lists has ids.
Unique(S) == {s \in Seq(S) : IsInjective(s)}
Account   == [parents : Unique(Parents), children : [Parents -> Unique(Children)]]

ASSUME ConstantsAssumption ==
  /\ Distant \subseteq Children
  /\ Accounts \subseteq Account
  /\ {PageSize, MaxPage, MemberPage} \subseteq Nat \ {0}
  /\ MaxChanges \in Nat

\* An account holds finitely many things.
ASSUME FiniteAssumption == IsFiniteSet(Parents) /\ IsFiniteSet(Children)

-----------------------------------------------------------------------------
(* The List operations: how each finds what is nested in a parent, and     *)
(* whether only within a window of time.                                   *)

Lister(nested, windowed) == [nested |-> nested, windowed |-> windowed]

ListUsers              == Lister("none", FALSE)
ListTeams              == Lister("none", FALSE)
ListServices           == Lister("none", FALSE)
ListEscalationPolicies == Lister("none", FALSE)
ListMaintenanceWindows == Lister("none", FALSE)
ListSchedules          == Lister("none", FALSE)
ListIntegrations       == Lister("included", FALSE)
ListContactMethods     == Lister("one call", FALSE)
ListNotificationRules  == Lister("one call", FALSE)
ListScheduleOverrides  == Lister("one call", TRUE)
ListTeamMemberships    == Lister("paged", FALSE)

Listers ==
  {ListUsers, ListTeams, ListServices, ListEscalationPolicies, ListMaintenanceWindows,
   ListSchedules, ListIntegrations, ListContactMethods, ListNotificationRules,
   ListScheduleOverrides, ListTeamMemberships}

VARIABLES
  account,   \* the account at the server
  lister,    \* the List operation that runs
  pc,        \* where discovery is
  token,     \* the page token of the call, the offset of its page
  next,      \* the page token it will return, 0 for none
  todo,      \* the parents of its page still to expand
  offset,    \* mOffset, in the members of the first of them
  ids,       \* the native ids it has so far
  listed,    \* the native ids formae was given by the calls before
  repeated,  \* those it was given twice
  changes,   \* changes of the account so far
  kept,      \* history: what has been in the account all the time
  shown,     \* history: the parents that were on a page
  failed,    \* history: the parents whose expansion failed
  lost,      \* history: the parents removed, counted, and the children of each
  inserted   \* history: something was put into the account

call    == <<token, next, todo, offset, ids>>
history == <<kept, shown, failed, lost, inserted>>
vars    == <<account, lister, pc, call, listed, repeated, changes, history>>

NativeIds == Parents \union (Parents \X Children)

TypeOK ==
  /\ account \in Account
  /\ lister \in Listers
  /\ pc \in {"ask", "expand", "done", "failed"}
  /\ token \in 0 .. Cardinality(Parents) /\ next \in 0 .. Cardinality(Parents)
  /\ todo \in Seq(Parents)
  /\ offset \in 0 .. Cardinality(Children)
  /\ ids \subseteq NativeIds /\ listed \subseteq NativeIds /\ repeated \subseteq NativeIds
  /\ changes \in 0 .. MaxChanges
  /\ kept \in [parents : SUBSET Parents, children : [Parents -> SUBSET Children]]
  /\ shown \subseteq Parents /\ failed \subseteq shown
  /\ lost \in [parents : 0 .. MaxChanges, children : [Parents -> 0 .. MaxChanges]]
  /\ inserted \in BOOLEAN

Init ==
  /\ account \in Accounts
  /\ lister \in Listers
  /\ pc = "ask"
  /\ token = 0 /\ next = 0 /\ todo = <<>> /\ offset = 0 /\ ids = {}
  /\ listed = {} /\ repeated = {}
  /\ changes = 0
  /\ kept = [parents |-> ToSet(account.parents),
             children |-> [p \in Parents |-> ToSet(account.children[p])]]
  /\ shown = {} /\ failed = {}
  /\ lost = [parents |-> 0, children |-> [p \in Parents |-> 0]]
  /\ inserted = FALSE

-----------------------------------------------------------------------------
(* Pages. *)

\* The elements of s from offset from, at most limit of them.
PageOf(s, from, limit) == SubSeq(s, from + 1, IF from + limit < Len(s) THEN from + limit ELSE Len(s))
More(s, from, limit)   == from + limit < Len(s)

\* resp.Limit: the server cuts a limit that is too large.
Limit == IF PageSize < MaxPage THEN PageSize ELSE MaxPage

\* Mutant: the next page is taken to begin where the requested one would end.
TokenOfRequest == token + PageSize

\* Mutant: the last element of a page is on the next one too.
TokenOneShort == token + Limit - 1

NextToken == token + Limit

InWindow(c) == ~lister.windowed \/ c \notin Distant

Composite(p, cs) == {<<p, c>> : c \in {d \in ToSet(cs) : InWindow(d)}}

\* The native ids a page itself gives.
OnPage(page) ==
  CASE lister.nested = "none"     -> ToSet(page)
    [] lister.nested = "included" -> UNION {Composite(p, account.children[p]) : p \in ToSet(page)}

\* List returns: formae has its ids and calls again if there is a token.
Return(found, following) ==
  /\ listed' = listed \union found
  /\ repeated' = repeated \union (listed \intersect found)
  /\ token' = following
  /\ pc' = IF following = 0 THEN "done" ELSE "ask"
  /\ ids' = {}

FetchPage ==
  /\ pc = "ask"
  /\ LET page      == PageOf(account.parents, token, Limit)
         following == IF More(account.parents, token, Limit) THEN NextToken ELSE 0
     IN  /\ shown' = shown \union ToSet(page)
         /\ IF lister.nested \in {"none", "included"}
            THEN Return(OnPage(page), following) /\ UNCHANGED <<next, todo>>
            ELSE /\ pc' = "expand" /\ next' = following /\ todo' = page
                 /\ UNCHANGED <<token, ids, listed, repeated>>
  /\ UNCHANGED <<account, lister, offset, changes, kept, failed, lost, inserted>>

\* The listing call fails and List reports the error.  Asking again with the same
\* token would change nothing here; formae may also give up.
PageFails ==
  /\ pc = "ask"
  /\ pc' = "failed"
  /\ UNCHANGED <<account, lister, call, listed, repeated, changes, history>>

Found(found) ==
  /\ ids' = ids \union found
  /\ repeated' = repeated \union (ids \intersect found)

Expanding(p) == pc = "expand" /\ todo # <<>> /\ p = Head(todo)

Expand(p) ==
  /\ Expanding(p) /\ lister.nested = "one call"
  /\ p \in ToSet(account.parents)
  /\ Found(Composite(p, account.children[p]))
  /\ todo' = Tail(todo)
  /\ UNCHANGED <<account, lister, pc, token, next, offset, listed, changes, history>>

\* Mutant: the More flag is not looked at.
MoreAlways(p) == TRUE

\* Mutant: the offset does not move.
OffsetUnmoved == offset

NextOffset == offset + MemberPage

MoreMembers(p) == More(account.children[p], offset, MemberPage)

ExpandPage(p) ==
  /\ Expanding(p) /\ lister.nested = "paged"
  /\ p \in ToSet(account.parents)
  /\ Found(Composite(p, PageOf(account.children[p], offset, MemberPage)))
  /\ IF MoreMembers(p)
     THEN offset' = NextOffset /\ UNCHANGED todo
     ELSE offset' = 0 /\ todo' = Tail(todo)
  /\ UNCHANGED <<account, lister, pc, token, next, listed, changes, history>>

\* A parent that is gone, or whose expansion fails, is passed over with what its
\* pages gave so far.
ExpandFails(p) ==
  /\ Expanding(p)
  /\ failed' = failed \union {p}
  /\ offset' = 0
  /\ todo' = Tail(todo)
  /\ UNCHANGED <<account, lister, pc, token, next, ids, listed, repeated, changes, kept, shown, lost, inserted>>

Expanded ==
  /\ pc = "expand" /\ todo = <<>>
  /\ Return(ids, next)
  /\ UNCHANGED <<account, lister, next, todo, offset, changes, history>>

-----------------------------------------------------------------------------
(* Everybody else changes the account. *)

Change ==
  /\ pc \in {"ask", "expand"} /\ changes < MaxChanges
  /\ changes' = changes + 1
  /\ UNCHANGED <<lister, pc, call, listed, repeated, shown, failed>>

RemoveParent(i) ==
  /\ Change
  /\ LET p == account.parents[i]
     IN  kept' = [kept EXCEPT !.parents = @ \ {p}, !.children[p] = {}]
  /\ account' = [account EXCEPT !.parents = RemoveAt(@, i)]
  /\ lost' = [lost EXCEPT !.parents = @ + 1]
  /\ UNCHANGED inserted

RemoveChild(p, i) ==
  /\ Change
  /\ kept' = [kept EXCEPT !.children[p] = @ \ {account.children[p][i]}]
  /\ account' = [account EXCEPT !.children[p] = RemoveAt(@, i)]
  /\ lost' = [lost EXCEPT !.children[p] = @ + 1]
  /\ UNCHANGED inserted

InsertParent(p, i) ==
  /\ Change
  /\ p \notin ToSet(account.parents)
  /\ account' = [account EXCEPT !.parents = InsertAt(@, i, p)]
  /\ inserted' = TRUE
  /\ UNCHANGED <<kept, lost>>

InsertChild(p, c, i) ==
  /\ Change
  /\ c \notin ToSet(account.children[p])
  /\ account' = [account EXCEPT !.children[p] = InsertAt(@, i, c)]
  /\ inserted' = TRUE
  /\ UNCHANGED <<kept, lost>>

Terminated == pc \in {"done", "failed"} /\ UNCHANGED vars

\* What happens when nothing but a missing parent makes a call fail.
Step ==
  \/ FetchPage
  \/ Expanded
  \/ \E p \in Parents : Expand(p) \/ ExpandPage(p)
  \/ \E p \in Parents \ ToSet(account.parents) : ExpandFails(p)

Next ==
  \/ FetchPage
  \/ PageFails
  \/ \E p \in Parents : Expand(p)
  \/ \E p \in Parents : ExpandPage(p)
  \/ \E p \in Parents : ExpandFails(p)
  \/ Expanded
  \/ \E i \in DOMAIN account.parents : RemoveParent(i)
  \/ \E p \in Parents : \E i \in DOMAIN account.children[p] : RemoveChild(p, i)
  \/ \E p \in Parents, i \in 1 .. Len(account.parents) + 1 : InsertParent(p, i)
  \/ \E p \in Parents, c \in Children : \E i \in 1 .. Len(account.children[p]) + 1 : InsertChild(p, c, i)
  \/ Terminated

\* The goroutine of the call goes on, every call of the API is answered, with a
\* 404 for a parent that is gone, and formae asks for the page it was promised.
\* No error is promised that would end a loop of calls that succeed.  The account
\* is free to change, but not for ever.
Spec == Init /\ [][Next]_vars /\ WF_vars(Step)

-----------------------------------------------------------------------------
(* Properties. *)

\* What discovery overlooks.  The pages are cut by offset from a list nobody
\* freezes, so a removal may hide what it moves up, but every removal hides at
\* most one: of the parents that were there all the time, no more were on no page
\* than parents were removed, and of the resources that were there all the time
\* in a parent that was expanded, no more are missing than that parent lost.
\* Without a removal and a failure discovery is complete.
EachRemovalHidesOne ==
  pc = "done" =>
    /\ Cardinality(kept.parents \ IF lister.nested = "none" THEN listed ELSE shown)
         <= lost.parents
    /\ lister.nested # "none" =>
         \A p \in (kept.parents \intersect shown) \ failed :
           Cardinality({c \in kept.children[p] : InWindow(c) /\ <<p, c>> \notin listed})
             <= lost.children[p]

\* Nothing is reported twice unless something was put into the account meanwhile:
\* the pages of a call, and of one call after another, do not overlap.
RepeatedOnlyAfterInsertion == ~inserted => repeated = {}

\* Discovery comes to an end, however the account changes meanwhile.
DiscoveryEnds == <>(pc \in {"done", "failed"})
=============================================================================
