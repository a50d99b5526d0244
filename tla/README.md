# formae-plugin-pagerduty: TLA+ models and proofs

The plugin lets formae manage PagerDuty resources: formae calls `Create`,
`Read`, `Update`, `Delete`, `Status` and `List`, the plugin turns each into one
or more calls of PagerDuty's REST API. It keeps almost no state of its own. What
is hard about it is that the state it works on is elsewhere: calls break off
after they were executed, are executed again by the retrying transport, arrive
late; reads lag behind writes; lists change between two pages; and several
operations run at a time. The models here are about that.

Paths below are relative to the repository (`src/`).

## The system

| Component | State | Operations | Hard behaviour |
|---|---|---|---|
| Retrying transport (`pkg/config/retry.go`) | per call: the loop counter, the response at hand | `RoundTrip`, `retryable`, `idempotent`, `backoff`, `retryAfter`, `drain` | attempts executed without an answer, executed late, cancelled contexts, open bodies, durations that overflow |
| Credentials and client (`pkg/config/config.go`) | none | `ParseTargetConfig`, `resolveToken`, `Validate`, `NewClient` | the token file is rewritten while it is in use |
| Front door (`pagerduty.go`) | the client cache and its mutex | the six operations, `getClient` | concurrent misses, errors inside the critical section, a stale cache |
| Registry, results, errors (`pkg/handler/handler.go`) | the registry, fixed at start | `Get`, `MapAPIError`, `IsNotFound`, native ids, `retryUntilReadable` | telling "gone" from "not visible yet" |
| Team memberships (`pkg/handler/team_membership.go`) | none; the team is at the server | create, read, update, delete, list | read-after-write lag, paging over a changing list, upserts that arrive late |
| Schedules (`pkg/handler/schedule.go`) | none; layer ids in formae's prior state | create, read, update, delete, list | PUTs that are not idempotent, ids matched by position, stale prior state |
| Contact methods, notification rules (`contact_method.go`, `notification_rule.go`) | none | create, read, update, delete, list | check-then-act on the method's type, Creates with an unknown outcome |
| Users, teams, services, integrations, escalation policies, maintenance windows, overrides (`user.go`, `team.go`, ...) | none; native ids in formae's record | create, read, update, delete, one API call each | Creates repeated after an error, references not visible yet, late writes, the override's moving read window |
| Discovery (`List` of all eleven handlers) | none; the page token is formae's | `List`, call after call | offsets into a list that changes, parents whose expansion fails |

An operation enters at the front door, gets the client of its target from the
cache, and is handed to the handler of its resource type. The handler makes API
calls through the client, each of them through the retrying transport. Nothing
is shared between operations but the client cache and what is at PagerDuty.

## Modules

```
RestCall                 what a handler may rely on when it makes one call
   ^ implemented by
RetryTransport           RoundTrip, the server and the network, one call
   ^ uses
Backoff                  how long a wait is, in the arithmetic of durations (operators only)
RetryTransportProofs     theorems about the two

ApiErrors                errors and the codes made of them (operators only)
ApiErrorsProofs          facts about them
   ^ used by
Lifecycle                one resource of a handler of one call per operation
LifecycleProofs          its theorems
TeamMembership           membership operations over a lagging, paged team
TeamMembershipProofs     its theorems
UserContacts             contact methods and notification rules of one user
UserContactsProofs       its theorems

ScheduleUpdate           the layers of one schedule under Update
ScheduleUpdateProofs     its theorems
Discovery                the List operations, call after call
DiscoveryProofs          their theorems
Plugin                   dispatch, client cache, credential chain
PluginProofs             its theorems

MCRetryTransport, MCTeamMembership, MCUserContacts, MCScheduleUpdate, MCDiscovery, MCPlugin
                         constants for TLC (Lifecycle needs none)
```

How the calls compose: `RetryTransport` is shown, by TLC and by proof, to
implement `RestCall`. `RestCall` says that a call that is not repeatable (a
POST) takes effect at most once, and not at all, not even later, if it was
refused; that a repeatable call (GET, PUT, DELETE) may take effect several times,
also after its reply; and that a good reply follows an effect. `UserContactsProofs`
instantiates it a second time, with the Creates of contact methods and rules: what
the handlers make of the call is such a call again. The other models
do not repeat the transport: their API calls are `RestCall`s. A write is
"accepted" (executed, one more attempt possibly left behind), "refused" or
"unanswered" (executed, left behind, or neither), and attempts left behind sit in
`stray` until they arrive, long after the operation ended if need be.

### RetryTransport and the code

| Model | Code |
|---|---|
| `pc` start / ready / sent / answered / backoff / done | before the body is read / top of the loop / inside `base.RoundTrip` / before the test at `retry.go:55` / in the select / returned |
| `attempt`, `answer`, `result` | the loop counter, `resp, err`, what is returned |
| `open` | attempts whose response body is not closed |
| `live`, `applied` | what the server may still execute, and has executed |
| `BufferBody`, `Send`, `Decide`, `TimerFires`, `CtxDone` | `retry.go` 36-46, 50-54, 55-59, 63, 61-62 |

Status codes are the four classes `retryable` tells apart. A wait may end, or the
context may, in any order; how long it may be is `Backoff`: `Waits` is the set of
what `backoff` may return for an attempt and the two headers `retryAfter` reads,
with a `time.Duration` a signed word of a given width that wraps around.

### TeamMembership and the code

`team` holds, for each copy of the server, whether the team exists and the
sequence of its members. `Hit`, `NextPage` and `Miss` are the three ways a round
of the loop in `findMembership` ends, each page from any copy; `found` and `seen`
are the closure's variables; `poll` is the counter of `retryUntilReadable`.
`PollHits`, `PollMisses`, `Settle` are the closure's returns and what follows the
loop. `sighted` and `missing` are history variables for the properties.

### UserContacts and the code

Both handlers have the shape of every handler that makes one call per operation:
decode and refuse (`Malformed`), call (`Accepted`, `Attempt`, `Refused`,
`Unanswered`, `Read`, `ReadFails`), report. A rule is preceded by
`contactMethodTypeFor` (`PollHits`, `PollMisses`, `NextPoll`, `ResolveFails`).
`Attempt` is an attempt inside the transport that settled nothing. formae asks
only for ids it has on record (`known`). A context may expire at any step and is
not remembered as expired afterwards, which only adds behaviours.

### Lifecycle and the code

Eight handlers make one API call for each operation and have the same shape:
decode, refuse what lacks a required field, call, map the error or report. They
are one model, `handler` saying in what they differ: nested in a parent with a
composite native id (integration, override), referring to others, having times
(maintenance window, override), read through a list within a window (override),
immutable (override). The map names, for each of them, the file the definition
was read in. `Create`, `ReferenceNotVisible`, `CreateRefused`, `CreateUnanswered`,
`CreateInvalid` are the ends of `Create`, and `Tell` is the result formae gets.
Nothing in the repository says after which codes formae calls `Create` again, so
the model lets it do so whenever it has no record, after every code, any number of
times. `ReadHits` and `ReadMisses` are `Read` answered by any
copy; `InWindow` is `overrideListWindow`. `ToUTC` is `toUTCRFC3339`, which leaves
alone what does not parse. `Update` composes the native id as the
code does. `Delete`, `DeleteRefused`, `DeleteUnanswered` are the ends of `Delete`
with `IsNotFound`. `Tick` is the clock that moves the window. `record` is what
formae keeps and `answer` what it was told last. The history is `told`, the answers
to the Creates that succeeded or whose outcome is unknown, in order; `maker`, which
of these made a resource; `overlooked`, what a Read did not find where it may not be
seen; and `gone`, what a Delete reported gone.

### Discovery and the code

`FetchPage` is the listing call with which every `List` begins, and the token it
will return; `Expand` and `ExpandPage` are the loops over the parents of the page
(one call each, or page after page of `ListTeamMembers`); `ExpandFails` is the
`continue` after an error; `Expanded` is the return. `lister` says which handler's
`List` it is. Parents and what is nested in them are removed and inserted at any
place, at any moment.

### ScheduleUpdate and the code

A layer is its id and a body that stands for all its fields. `ToSDK` drops what
desired state cannot carry, `CarryLayerIDs` is the code's function, `Execute` is
what the comment in `Update` (schedule.go:191-195) says PagerDuty does with a
PUT. `prior` is formae's record, taken from the last reply or `Read`. The layers
without an id are the last ones of a PUT, because `carryLayerIDs` gives ids to the
first; `New` relies on it. A forma may ask for no layer at all: `Update` does not
look.

### Plugin and the code

The steps of `getClient` between `Lock` and `Unlock` are separate actions, so
that what the mutex is for is visible; `Call` is the handler's work. `Rotate`
rewrites the token file, `Restart` is a new process with an empty cache and
perhaps another environment. Target configs are opaque keys, some of which do not
parse.

## What is assumed of the outside

Marked external in the map. PagerDuty executes writes at one place and may answer
reads from copies that lag behind it without bound. A 4xx or 429 means that this
attempt was not executed and will not be (retry.go:68-69). A 5xx or a broken
connection means nothing. Of formae only this is assumed: it asks for what it has on
record, and drops a record when a Delete succeeds or a Read says NotFound. PUTs of memberships are upserts (team_membership.go:129-130);
PUTs of layers edit, append and leave as described above; a PUT of a missing
object is refused; ids are not used twice; a team has a user as a member once. The lists of `ListTeamMembers` are
ordered and a removal moves later members up. GETs never answer 400 with code
2100, which is about references in a body. `http.Transport` does not itself resend
or redirect. A context once done makes `base.RoundTrip` return.

## Runs

| Run | Bounds | Shows |
|---|---|---|
| `transport` (Transport.cfg) | `MaxRetries = 4` and delays of 500 and 20000 ms, the code's values, all methods, durations of 18 bits, six headers, two of which overflow | `TypeOK`, `PostAtMostOnce`, `RefusedPostHasNoEffect`, `BodiesAccountedFor`, `RetriesSpent`, `BackoffWithinBounds`, `HintHonored`, `CancelledCallEnds`, `EveryCallEnds`, and that `RestCall` is implemented |
| `membership` (Membership.cfg) | 2 operations of 8 requests, 2 users, 2 roles, 1 lagging replica, 3 polls, one page, 1 stray write | what Create and Update report, and that nothing is called gone that was there throughout |
| `membership_termination` | 2 polls, pages of one member, 1 replica | polling and paging end |
| `membership_paging` | one copy, pages of one member | violated: see Findings |
| `schedule` (Schedule.cfg) | 2 bodies, 6 desired states of 0 to 3 layers, 3 attempts, 4 ids, 1 stray PUT, any number of Updates | edits stay in place, are exact, and touch only known layers |
| `schedule_removal` | the forma removes the first of two layers; one attempt, no strays | violated: see Findings |
| `schedule_retry` | the forma adds a layer; two attempts, no strays | violated: see Findings |
| `plugin` (Plugin.cfg) | 2 operations of 4 requests, 2 targets (one unparsable), 2 tokens, 3 clients built, 1 restart | one client per target, no refusal without cause, no one waits for the mutex for ever |
| `plugin_token` | 2 operations, no restart | violated: see Findings |
| `contacts` (Contacts.cfg) | 3 operations of 10 requests, the code's 4 polls, 1 replica, 3 ids, 1 stray write | orphans only from unknown outcomes, resolved types are real, gone means gone |
| `lifecycle` (Lifecycle.cfg) | each of the 8 handlers, 2 values, 1 lagging replica, 2 ids, 2 stray writes, 2 Creates that succeed or whose outcome is unknown and any number of others, a window of 1 year back and 2 ahead in a life of 4 years | every resource has an answer of its own, nothing is lost silently, gone means gone |
| `discovery` (Discovery.cfg) | each of the 11 List operations, an account of 4 parents in pages of 2 where 3 were asked for, members page by page of 1, an empty account, 3 changes | a removal hides one thing at most, nothing is listed twice but after an insertion, discovery ends |

Why the bounds are enough. The transport runs with the code's own budget. Two
membership operations give every pair of requests on one user, and the user
before it on the page; three polls are enough to see, lose and see again; one
replica gives two views, and with more than one poll every order of stale and
fresh answers. Two operations on the client cache are a holder and a waiter,
each of which may come back for another target or after a restart; three on the
contacts are a Create, an Update whose PUT comes late and a Delete. One life of a
resource suffices because the handlers keep nothing between resources; a second
id is what a duplicate would get, two Creates are one of an unknown outcome whose
POST comes late and the one after it, and the window ends on either side within the
clock's bound. Durations of 18 bits are as far from 20000 ms as the code's are
from its hints that overflow: some come out negative, some short. Three changes of
the account are a removal before the page, one behind it and an insertion, and
make the two sides of a page boundary meet. Layer ids run out after two added layers, enough for a duplicate
and another layer after it.

A run's deadlock check is on; where a system may stop, `Terminated` stutters and
says when. The exception is `lifecycle`: a life simply stops once the resource is
gone, the clock has run out and nothing is on the wire. Symmetry is over operations and only in runs without
liveness.

Each property of a passing run has a mutant: an operator defined just before the
one it replaces, marked "Mutant", that changes the model as a plausible bug would
change the code, and makes TLC find the property violated. They are not part of
any specification.

## Fairness

`RetryTransport`: the goroutine runs (`WF(RoundTrip)`), and `base.RoundTrip`
returns once the context is done. That is all the code guarantees, and enough for
`CancelledCallEnds`: the client sets no `Timeout`, so an attempt on a silent
connection lasts until the context ends. `EveryCallEnds` therefore has as its
premise that the network always answers or breaks (`NetworkFairness`).
`TeamMembership`: an operation that has begun takes its steps, API calls end
(that is `EveryCallEnds`), and nothing else is fair: copies may lag for ever.
`Plugin`: goroutines are scheduled; weak fairness suffices for the mutex because
each operation takes it once.
`Discovery`: the call goes on, is answered, and formae asks for the page it was
promised. Errors are not fair: only a parent that is gone is sure to fail. The
account may go on changing, but not for ever. `ScheduleUpdate`, `UserContacts`
and `Lifecycle` state no liveness: what would have to happen in the end there is
formae's doing or PagerDuty's, not the plugin's.

## Findings

1. `membership_paging`: `findMembership` pages with a fixed offset
   (team_membership.go:50). If a member on an earlier page is removed between two
   pages, the member first on the next one is skipped, and a Read reports
   `NotFound` for somebody who is a member throughout. With the code's page of 100
   this needs a team of more than 100.
2. `schedule_removal`: ids are matched by position and a layer that is no longer
   desired is not named in the PUT. A forma that removes the first of two layers
   turns the first into a copy of the second, and the second stays, by the semantics
   the comment gives: an edit that duplicates a layer.
3. `schedule_retry`: a PUT that adds a layer is not idempotent but is resent as if
   it were (retry.go:88); the layer is appended once per execution.
4. `plugin_token`: README.md:65 says that the token is resolved at operation time;
   it is resolved when the client is built and cached with it (pagerduty.go:44).
   README.md:84 ("read fresh on each client construction") is what the code does.

## Proofs

Checked by TLAPS, for all values of the constants, from the named assumptions on
them (`ConstantsAssumption`, `MaxRetriesAssumption`, `DelayAssumption`, and
`FiniteAssumption`, that an account holds finitely many things). Except for
the action properties of a single step, each theorem is an induction: an invariant
that holds initially, that every action preserves (one step of the proof each), and
that implies the property.

- `RetryTransportProofs`. `TypeCorrect` by induction over the actions.
  `PostAtMostOnce` and `RefusedPostHasNoEffect` are not inductive: a step from a
  state in which a POST had been executed and was waiting to be resent would break
  them. `PostInv` says that this cannot be: a POST comes back to the top of the
  loop only after a 429, which took its attempt off the wire, so that only the
  latest attempt can have reached the server. `BodyInv` says where in the loop a
  body is open. `AnswerInv` ties an answer to what the server did. From these,
  `Implements`: initial states map to initial states of `RestCall`, every `Apply`
  to `TakeEffect`, every return to a reply, everything else to a stutter.
  `WaitsWithinBounds` and `HintsAreHonored` are about `Backoff`, for every width of
  a duration; the second has as its premise that the hint fits one.
  `EveryCallIsBounded`: `StepsLeft`, five for each attempt left and the place in the
  loop, is lowered by every step of the transport's.
- `PluginProofs`. `TypeCorrect`; `ClientsAreShared` from `CacheInv`: whoever
  is between `Lock` and `Unlock` holds the mutex and is alone there, and what it
  found missing in the cache stays missing until it stores it; and
  `RefusalsAreJustified` from `TokenInv`: what the chain yields now is among what it
  has yielded since the operation began, and a token that was read is too.
  `LockIsNeverLeft` follows from the first part of `CacheInv`. `OperationsGoOn`: no
  step but a restart takes an operation back (`Distance`).
- `ApiErrorsProofs`. Lemmas only (`OnlyNotThereIsGone`, `UnknownCodes`), cited by the
  proofs of the handlers.
- `LifecycleProofs`. `TypeCorrect`, in which it matters that a native id on record
  always splits and that no time that parses has an offset. `EveryResourceHasItsAnswer`
  from `CreateInv`: a POST on the wire belongs to a Create of an unknown outcome that
  has made nothing yet, because an unknown outcome is mapped to codes that no refusal
  is mapped to, and ids only grow. It assumes nothing of when formae calls `Create`
  again. `DeletesAreFinal` from `DeleteInv`: what is on record was made, ids only grow,
  and a PUT or DELETE makes nothing. `NothingIsLostSilently` is inductive together with
  `CreateInv`: what a step makes is on record or in doubt (`MadeFrame`), a PUT or DELETE
  revives nothing (`WritesReviveNothing`), and what leaves the record does so because
  it is not there any more or was overlooked (`KeptFrame`, `MissesAreOverlooked`).
- `TeamMembershipProofs`. `TypeCorrect` (with `PollsLeft`: whoever waits has polls
  left), and `SuccessIsASighting`, `StaleRoleTookTheWindow` and
  `NotFoundWasNeverSeen`, all from `AllFaithful`: for each operation, `seen` holds
  exactly when something was sighted, `found` is what was sighted last, and while
  the scan goes on nothing sighted had the requested role. An operation that does
  not move keeps it (`StillFaithful`); the others have one lemma for each way to
  end a poll. `DeletesAreTrue` from `MissingInv`, that an operation has noted every
  copy on which its user is missing, and `MembersInv`, that nobody is a member
  twice, without which a DELETE would leave the other one. `ReadsOfOnePageAreTrue`
  has `[]OnePage` as its premise: with more than one page the property is false
  (see Findings); with one, a Read never leaves the first (`FirstPage`).
  `OperationsAreBounded`: each step of an operation lowers `Ahead` (polls left, places
  left in the poll, users left to page past) in lexicographic order. That paging ends
  needs `AllSingle`: no copy lists a user twice, so no copy's list is longer than
  there are users, however it changes between two pages.
- `UserContactsProofs`. `TypeCorrect` with `Sound`, that no operation is under way
  without what its request must have. `ResolvedTypesWereShown` and
  `GivesUpAfterAllPolls` from `SeenInv`: an operation has noted every type its
  contact method shows anywhere, and whether some copy lacks it. `DeletesAreFinal`
  from `SlotInv`: an id stays with the kind of thing it was given to, and nothing
  comes back in its place. `OrphansOnlyAfterUnknown` from `MakerInv`: of what a
  Create made and the POSTs it left on the wire there is one at most, and it is
  known or the outcome was unknown. `CreatesAreCalls` is a refinement, of `RestCall`
  by one Create: `effects` is what it made (`MadeBy`), `reply` what formae was told of
  it (`ReplyTo`), and a reply that is told at once with the effect is the one step that
  stands for two (`EffectAndReply`). `PromiseInv` adds that success means an effect.
- `ScheduleUpdateProofs`. What one execution of a PUT does to the layers
  (`ExecuteEffect`) carries everything. `OnlyRecordedLayersChange` from `IdInv`, ids
  are unique and never used again, and `RecordInv`, whatever a PUT names and still
  exists is on record. `EditsAreInPlace` from `InPlaceInv`: until an Update asks for
  more layers no PUT has one without an id, and so none appends.
  `UndisturbedEditsAreExact` from `ExactInv`: until something disturbs the Update its
  PUT names the first layers in order, and executing it again changes nothing.
  `PutsOnRecordAreExact` says what a PUT does that finds the layers as recorded
  (`SentInv`: it still is the one made from the record): so what the findings show
  comes from a shorter forma, or from a PUT that meets other layers.
- `DiscoveryProofs`. `TypeCorrect`. `NothingIsListedTwice` from `PositionInv`: as long as nothing
  is put in, things only move towards the front, so what was on a page stands at or
  before the place where that page ended and the next page begins behind it; the
  same holds for the pages of members of one team. That a removal moves nothing
  towards the end (`Removal`) and what a page has (`PageElements`) are lemmas on
  sequences. The premise is that the server lists nothing twice (`Unique`).
  `RemovalsHideOneEach` from `CountInv`: of what was there all the time and stands
  before the next page, discovery has not seen one for each removal at most
  (`ParentsCounted`, and `ChildrenCounted` for the members of one team). A removal
  brings one thing at most across the place where the page begins
  (`RemovalHidesOne`), an insertion none (`InsertionHidesNone`), and a page hides none
  (`PageHidesNone`). Its corollary `UndisturbedDiscoveryIsComplete` is what one expects
  of a List. `DiscoveryIsBounded`: each step lowers `Ahead` (pages, listing or
  expanding, parents to expand, members to page past) in lexicographic order.

Only model-checked: the liveness properties, `CancelledCallEnds`, `EveryCallEnds`,
`EveryOperationEnds` of the plugin and of the memberships, and `DiscoveryEnds`,
because liveness under fairness is beyond the prover. What they rest on besides
fairness is proved: no component takes more than
a bounded number of steps (`EveryCallIsBounded`, `OperationsGoOn`,
`OperationsAreBounded`, `DiscoveryIsBounded`). No module here declares a recursive
operator.

## Not modelled

Wording of messages, JSON encoding and decoding (its failure is a malformed
request), marshalling failures of structs that always marshal, the account's rate
limit, label and discovery configuration, which header strings parse as numbers
(a header is a number or none). The conversions between properties and SDK structs
are the identity on what a property tells apart, except for what a model says they
drop. formae's own policy of retries is not in the repository: in `Lifecycle` it may do
anything, and so nothing is claimed of whether an apply succeeds in the end. Lagging copies are in the models of the handlers but not in
`Discovery`, whose account is one copy: what they would add is a page that is out
of date, which a change after the page gives as well. The PKL schema, the two SDKs
and the examples have no behaviour of their own to model.

## What is left

1. Repeated Updates that add a layer: a PUT that failed after it was executed
   leaves formae with the old prior state, and the next Update adds the layer again
   (schedule.go:199). `schedule_retry` shows the case of one Update; the case of
   several depends on when formae reads in between.
2. Discovery over copies that lag differently from one page to the next.
