# Inventory service: TLA+ models, checks and proofs

The inventory service (`src/app`) is a FastAPI application that sells tickets:
events and tickets live in PostgreSQL, idempotency keys and rate limits in
Redis, and a background loop in every pod frees reservations that are older
than their TTL. This directory holds its TLA+ models, the TLC configurations
that check them, and the TLAPS proofs about them.

`PROJECT.json` lists components, runs, seeded bugs, the source lines every
definition stands for, findings, hazards and theorems.

## 1. Inventory of the system

### Components

| Component | State | Operations | What makes it correct |
|---|---|---|---|
| Ticket service (`services/ticket_service.py`, `api/tickets.py`, `models/ticket.py`) | table `tickets` (status, reserved_at) | reserve, sell, use, cancel, batch-create; reserve_tickets (no route) | the life cycle `available -> reserved -> sold -> used` with cancel and expiry going back; a reservation only out of published stock; every request is answered |
| Event service (`services/event_service.py`, `api/events.py`, `models/event.py`) | table `events` (status) | create, update, delete (ORM cascade and `ON DELETE CASCADE`) | tickets go with their event and never outlive it |
| Expiry loop (`services/expiry_service.py`) | none of its own; row locks | scan `FOR UPDATE SKIP LOCKED`, free, commit; swallow failures | frees only lapsed reservations, none that a request is changing; every reservation ends |
| KPI recording (`services/kpi_service.py:17-44`) | table `kpi_events` | a row in every transaction | the feed tells what happened to each ticket; nothing is committed after a deletion |
| KPI read side (`kpi_service.py:46-144`, `api/kpi.py`) | none; the consumer keeps the cursor | snapshot; feed with a cursor | pages in order, no row twice, none lost without a known reason; counts are those of the table |
| Idempotency (`middleware/idempotency.py`) | Redis: marker or cached response per key | GET, SET NX, SET, DELETE around the handler | a key is processed once; replays are genuine; no marker is left behind |
| Rate limiter (`middleware/rate_limiter.py`) | Redis: a counter per minute | INCR, EXPIRE, 429 | at most the limit per minute, although counters expire; fails open |
| Application (`main.py`) | expiry task | middleware stack, lifespan, `/inventory` prefix | layers run in the order its comments state |
| Sessions (`utils/database.py`) | a transaction per request | open, close (rolls back) | nothing survives a request that ends early |
| Schemas (`schemas/*.py`) | none | validation, rendering | the unvalidated status, the quantity of a batch, counters and cursor of the KPI responses |
| Authentication, health, settings, migrations, scripts | none at run time | | not modelled, see 7 |

### Interaction

A request passes the rate limiter, then the idempotency cache, then a handler
with a database session of its own. Handlers and the expiry loops share only
the database: they interact through row locks and through rows that change
between two statements of a transaction (READ COMMITTED). A handler of a
ticket loads it twice, once in the route (404) and once in the service. The
session's identity map gives the second lookup the attributes of the first.
KPI rows are written in the same transaction as the change they report; a
consumer polls them from any pod and keeps the cursor between its requests.

### What is hard

* Reads without a lock: sell, use and cancel test a status and later write by
  primary key.
* The identity map: even `SELECT ... FOR UPDATE` does not refresh the object.
* Two lock orders: reserve locks ticket then event; deleting an event locks
  tickets, then the event, then tickets again through the cascade.
* Expiry runs in several pods and races with every request.
* Failure after the commit (`db.refresh`), dead sessions, scans that fail.
* `except Exception` around more than the Redis call it was written for, in
  both middlewares.
* Duplicates and retries that overlap with the first request.
* A feed ordered by the time of the flush whose rows become visible at the
  commit, with a cursor that is a time and not unique.

Each of these is a line of `PROJECT.json` "hazards" with its properties.

## 2. Modules

| Module | What it is |
|---|---|
| `Inventory` | rows, sessions, row locks, expiry loops; the core of the project |
| `TicketLifecycle` | abstract: what the service promises of its tickets |
| `InventoryLifecycle` | when `Inventory` implements `TicketLifecycle` |
| `RequestContract` | abstract: what a caller may rely on about its request |
| `InventoryContract` | `Inventory` implements `RequestContract`, always |
| `KpiSnapshot` | `build_snapshot` over the tables of `Inventory` |
| `InventoryInvariant`, `AnswerInvariant` | inductive invariants of `Spec` |
| `SerialInvariant` | inductive invariant of `SerialSpec` |
| `InventoryProofs`, `AnswerProofs`, `ContractProofs`, `SerialProofs` | theorems about `Inventory` |
| `SnapshotProofs` | theorems about `KpiSnapshot` |
| `MCInventory` | instances for TLC |
| `KpiFeed` | the feed reader against the transactions that write its rows |
| `KpiFeedInvariant`, `KpiFeedProofs`, `MCKpiFeed` | its inductive invariant, theorems, instances |
| `Gateway` | rate limiter and idempotency cache around an abstract handler |
| `GatewayInvariant`, `GatewayProofs`, `MCGateway` | its inductive invariant, theorems, instances |

`Gateway` and `Inventory` meet in `RequestContract`: it is the handler as
`Gateway` assumes it, and `Inventory` is shown to implement it. The feed's
writers in `KpiFeed` are the transactions of `Inventory` seen from
`kpi_events`.

### Inventory

State: `status`, `reservedAt`, `eventStatus` are the committed columns of the
two tables; `ticketKpi` and `eventKpi` the status that the committed KPI row with
the latest `occurred_at` names; `session[w]` is a request being handled (where it
stands, the status it loaded, what it wants to write); `rowLock` and `eventLock`
are PostgreSQL's row locks; `faults` counts faults. `overtaken[w]` is a history
variable: whether another transaction has committed a change of the row that `w`
works on since `w` loaded it, or even since `w` inserted its KPI row.

An action is one statement of a handler with the code up to the next await.
`GetTicket` is the route's lookup; `ReserveSelect`, `ReserveLockTicket` and
`ReserveLockEvent` are the three things PostgreSQL does in `SELECT ... JOIN ...
FOR UPDATE` (filter on the snapshot, lock the ticket, lock the event and
filter again); `CheckStatus`, `FlushTicket` and `CommitTicket` are sell, use
and cancel; and so on for events, batches and the loop. `Flushed` is what the
unit of work does with a stale object: a column is sent only if it differs
from what was loaded. A flush of a row that is gone raises (UPDATE) or warns
(DELETE). Locks of two transactions on an event conflict as in PostgreSQL's
table; the foreign key of an inserted ticket takes `key_share`.

The feed has no other order than `occurred_at` (`kpi_service.py:122`), and that is
the time of the INSERT (`models/kpi_event.py:30`). The unit of work sends the
statements of a flush in the order in which it sorts the mappers, and among
mappers that no relationship orders that is their names: `UPDATE events`,
then `INSERT kpi_events`, then `UPDATE tickets`. So an update of an event
stamps its row under the lock of the event, but sell, use and cancel stamp theirs
before they wait for the ticket, and a delete with the autoflush of its load
(`event_service.py:115`), before any lock (`FeedRowSent`). Whoever has stamped its
row, waits, and is overtaken may come first in the feed although it commits last:
`Latest` then leaves both outcomes open, since the times of the two stamps are not
part of the state. `TICKETS_BATCH_CREATED` names no ticket and no status and is
nobody's latest row; what it has to do with deletions is in
`NothingAfterDeletion`. The clocks of the pods agree in this module; `KpiFeed` is
about those that do not.

Time is the value of `reservedAt`: `TtlElapses` turns `fresh` into `lapsed`.
A loop starts a transaction only when there is something to free, since an
empty scan changes nothing.

### Gateway

State: `marker` (Redis, per idempotency key: nothing, "processing", or a cached
response), `count` per minute with the minute in which it was given its 60 seconds
(`expires`), and `http[r]` for every request: step, number of
passes through the inner layers, minute it is counted in, whether it owns the
marker, what its handler did. Each Redis call is a step that may fail
(`LimiterFails`, `CacheFails`, `ReleaseFails`, `StoreFails`) and a process may
die at any of them (`Dies`). The handler has the outcomes `RequestContract`
gives it: a response with or without an effect, or an exception before the
commit or after it (`Raise`). Starlette runs the middleware added last first, so the
limiter is outside.

A counter that got its EXPIRE in the minute `m` is dropped by Redis at some moment
of the minute after; its own minute is always over by then, since the key names a
whole minute and EXPIRE comes not before it begins. Only INCR can notice, so the
moment is left open until then: `Incr` adds one, or starts again at 1 where the
counter may be gone (`Expired`), and it must start again once the next minute is
over too. The minute of a request is computed before its INCR is awaited, so an
INCR that comes late can find its counter gone. `punctual` is a history variable:
the requests whose INCR came within their minute. All pods share one clock.

### RequestContract and InventoryContract

A request is `closed`, `open` or `written`; it changes the tables in one step
(`Write`), and its answer is one of done, refused and error. `Phase` and
`Meaning` map a session to it: a session in `refresh` has written, 2xx is done,
404 and 409 are refused, 500 is an error. Create and delete write in the step
that opens or answers the request, since the model has no statement of theirs in
between that another session could observe. `Background` is the expiry loop and
the passing of time. The refinement mapping is `INSTANCE RequestContract WITH`
in `InventoryContract`.

### KpiFeed

State: `occurredAt` (0 before the INSERT is flushed), `pending[x]` the rows
transaction `x` has flushed, `visible` the committed ones; per consumer its
`cursor`, the `response` on its way to it, what was `delivered`; `clock` and
`losses`. `overtaken` is a history variable: the rows that were committed when
the consumer was already past their time.

`Flush` is `record_event`: the row is stamped with the clock of its pod, which
may be `Skew` behind; one transaction may flush several rows, as a sweep does,
and two rows may get one time. `RespondEnabled` is `list_events`: filter by
event and `occurred_at > cursor`, order by time and id, limit, and `NextCursor`
(the last item's time, or the cursor of the request for an empty page).
`RespondDisabled` is the answer of a pod whose `enable_kpi_endpoints` is off.
The consumer (`Receive`, `Lose`) is not in the repository; it does what the
endpoint's description tells it to.

### KpiSnapshot

`Grouped` is the one SELECT with GROUP BY, `CategoryCounts` and `Snapshot` the
dictionaries with their defaults, `SumOf` the loop that adds up one counter over
the categories. Since it is a single
statement, the snapshot is a function of the state of `Inventory`.

## 3. Runs

| Run | Instance | Question |
|---|---|---|
| `core` | 1 ticket, 2 sessions, 1 loop, 2 faults; updates to published, draft or an invalid status | what the locks guarantee although handlers decide on stale reads; what a status code means and when it is true |
| `stock` | 2 tickets of one event in two categories, 2 sessions, 2 loops | batches, sweeps of several rows, both ways a delete reaches tickets, deadlocks, locks left behind, the snapshot |
| `progress` | 1 ticket, 2 sessions, 1 loop, 1 fault, fair | is every request answered, does every reservation end |
| `serial` | 2 tickets, 2 loops, 1 fault, requests for one ticket or changes of one event take turns | is the documented life cycle implemented, and the feed exact |
| `overlap` | 1 ticket, 2 sessions, no faults | is the life cycle kept when requests overlap: no |
| `phantom` | 1 ticket, 2 sessions, no faults | does a reserve that is answered 200 leave the ticket reserved: no |
| `gateway` | a request, its duplicate, a request for another endpoint with the same key; limit 2, 2 minutes, 1 fault | what marker and counter guarantee |
| `duplicate` | no faults | is a key processed once: no |
| `quota` | no faults | do cached responses skip the rate limiter: no |
| `second_pass` | one request, no faults | does a request pass uncounted only when Redis is down: no |
| `feed` | 4 rows of 2 events, 2 transactions, a consumer with a filter, pages of 2, skewed clocks, equal times, a lost response | what the cursor guarantees, and does a consumer catch up |
| `feed_gap` | distinct times, a clock for all pods, nothing lost | does a client that follows the cursor get every row: no |

What the passing runs show, beyond types:

* `ReservedHasDeadline`: no sequence of stale writes leaves a reserved ticket
  without `reserved_at`, which the loop could never find.
* `ReservationsInFeed`: the feed and the table differ in the case of `phantom` and
  where a sell, use or cancel stamped its row before it waited; but whoever holds a
  reservation is the feed's latest word on the ticket, because reserve stamps its
  row under the lock. `FeedExact` (serial): without overlap there is no
  difference at all.
* `ReservedFromPublishedStock`: filter, lock and filter again do protect
  reserve, including against an update that unpublishes the event.
* `NothingAfterDeletion`: once a deletion is committed, every other session that
  looked the event or a ticket of it up before fails, and commits neither a row nor
  a KPI row, batches included. Only another delete that was under way commits: it
  answers 204 and records a second `EVENT_DELETED`. `EVENT_DELETED` need not be
  the last row by `occurred_at`, because it is stamped before the delete waits.
* `StatusNotReverted`: of two overlapping updates of an event, one that leaves
  the status alone does not bring the old one back.
* `HonoursContract`: one run of a handler commits at most once, with its KPI row;
  404 and 409 mean that it changed nothing, 2xx that the change was made, and only
  a 500 leaves it open. This is the refinement of `RequestContract`. The client
  sees the code of the last run: through the second pass of the rate limiter
  (`second_pass`) it may see a 404 or 409 of a run that came after one that had
  committed.
* `CommitsAsRequested`: a request that no other transaction overtook between its
  load and its commit did what its success says: the ticket made its transition
  from the status the operation starts from, the event has the status that was
  sent, a delete removed the event, and the feed names the outcome.
  `RefusalsTrue`: the 409 of a reserve is true when it is sent, always; that of a
  sell, use or cancel unless it was overtaken. Both hold with overlap, faults and
  deadlocks. That the overtaken are wrong is what `overlap` shows, and two gates
  that admit one ticket, or two deletes that both answer 204, are overtaken.
* `ServerErrorsExplained`: a 500 comes from a status that is no `EventStatus`, a
  fault, a deadlock, or the deletion of the event; never from sell, use, cancel,
  expiry or update getting in each other's way.
* `SweepHoldsLapsed`: `SKIP LOCKED` and the row locks isolate the loops from requests and
  from each other.
* `NoOrphans`: batch-create against delete leaves no ticket without event.
* `DeadlocksNeedDelete`: a circle of waiting sessions always contains a delete
  and besides it only deletes and reserves.
* `NoStandstill`: requests that wait only for each other, or for a session that
  is over, are in such a circle or wait for an expiry loop. A lock that a
  transaction left behind, or a row that a delete has locked itself and waits
  for, would violate it. With the guards of the statements (`Waits`) it is the
  part of `Answered` that is a safety property, and needs no fairness.
* `SnapshotExact`: groups, defaults and sums amount to the counts of the table.
  `StockConserved`: from one snapshot to the next, tickets come only in whole
  batches and go only with their event; no stale write loses one.
* `Answered`, `HoldsEnd`: nobody waits for ever; every reservation is sold,
  cancelled, deleted or expired, whatever the event's status.
* `KeepsLifecycle` (serial): refinement of `TicketLifecycle`.
* `MarkerMatchesOwner`, `OwnersProcessOnce`, `ReplaysAreReal`, `QuotaHeld`: a
  marker belongs to at most one owner and without faults goes with it; of the
  owners a key ever has one is answered with an effect; a replay is a response
  that the handler gave to a request with the key; of the requests counted in the
  minute they arrive in, no more than the limit are let through, although counters
  expire. (A request counted after its minute may be let through beyond it.)
* `BypassNeedsDuplicate`: while Redis answers, a request with a key reaches the
  handler without the marker only as long as a duplicate is being processed (the
  window of `duplicate`), and the 409 of the cache is given only then or when the
  duplicate was answered between its GET and SET NX. A marker left
  behind by a handler that raised would open that window for 24 hours.
* `PagesAdvance`: no row is delivered twice. `GapsExplained`: a row that is
  missed was committed too late or shares the time of the end of a full page.
  `CatchesUp`: a consumer that keeps polling gets past every row.
* `IInv`, `AInv`, `SInv`, `GInv`, `FInv` are the inductive invariants of section 5.

The modules contain definitions marked "Seeded bug". They are not used by the
specifications; each is a plausible mistake in the definition after it, and
putting it in that definition's place makes TLC report the property that
`PROJECT.json` "mutants" pairs with it.

### Bounds

Two sessions: each of the races above is between two parties, or two and the
loop; a third session repeats the role of one of the two. Two tickets are
enough for an order of locks, a sweep of several rows and a batch that a
delete's first query missed. Two loops, where there are two tickets for them to
share. One event: sessions of different events share no row. Sessions are
interchangeable, and so are loops, hence `WorkerSymmetry` and `ProcessSymmetry`
(not in `progress`, where liveness is checked), as are the request and its
duplicate (`DuplicateSymmetry`). `MaxFaults` bounds dead sessions and failed scans, and in `gateway` failed Redis
calls and dead processes, one of which is enough to leave a marker behind or to
lose a response; two faults are beyond the time of a run, and the theorems hold
for any number. `MaxWindow` bounds the minutes of the rate limiter: two are enough
for a counter to expire and for an INCR to come late. `stock` and `progress` have
KPI logging off (`settings.enable_kpi_event_logging`), since none of their
properties is about the feed and its outcomes would only multiply the states.

In `feed` four rows are a full page, a page that ends inside a time, and a row
of another event that the filter leaves out; `MaxClock` 2 and `Skew` 1 are
enough for a row stamped before one that is read already. `MaxLosses` bounds
lost responses. The theorems of section 5 hold without any of these bounds.

`Gateway` stops when all its requests are answered and `KpiFeed` when all rows
are written, so their configurations switch deadlock checking off; the
`Inventory` runs check it.

### Fairness

`FairSpec` of `Inventory` assumes strong fairness of each session's steps
(uvicorn's event loop resumes every handler whose statement returned, and
PostgreSQL serves the queue of a row lock in turn, so a session cannot be
passed over for ever by others that take the same lock), weak fairness of the
deadlock detector, of each expiry loop (`while True`, line 82) and of time. No
request is assumed to be sent. `SessionLost` and `SweepFails` are not fair and
bounded.

`FairSpec` of `KpiFeed` assumes strong fairness of `RespondEnabled` and
`Receive`: a consumer keeps polling, and not all of its requests are lost or
answered by a pod whose endpoints are off. Nothing is assumed of the writers.

## 4. Findings

1. `overlap`: sell, use and cancel write whatever the row has become. A sell
   that saw `reserved` commits after the loop freed the ticket, or after the
   next customer reserved it.
2. `phantom`: a reserve whose route loaded the ticket while it was still
   reserved answers 200 and records TICKET_RESERVED, and the row stays
   `available`.
3. `duplicate`: the marker of a request in progress is read as a cached
   response without a body; the KeyError is taken for a Redis failure and the
   duplicate is processed.
4. `quota`: cached responses do count against the rate limit.
5. `second_pass`: an exception of a handler is taken for a Redis failure and
   the request goes through the stack twice.
6. `feed_gap`: a row that is flushed before and committed after another one is
   never delivered to a consumer that has read the other one's page, although
   no two times are equal and all clocks agree.

## 5. Proofs

All theorems hold for any number of tickets, events, sessions, loops, requests,
rows, consumers and faults, from the named assumptions of the modules: the
foreign key is a function, sessions and loops are distinct and sessions finitely
many, `None` is none of them, inputs are statuses or invalid
(`Inventory`); keys of tickets are finitely many, being UUIDs (`KpiSnapshot`); requests are finitely many and the limit is not 0 (`Gateway`);
rows are finitely many, with ordered keys, and a page has room for one
(`KpiFeed`).

| Module | Theorem | Statement |
|---|---|---|
| `InventoryProofs` | `Invariance` | `Spec => []IInv` |
| | `TypeCorrect` | `Spec => []TypeOK` |
| | `DeadlineCorrect` | `Spec => []ReservedHasDeadline` |
| | `SweepCorrect` | `Spec => []SweepHoldsLapsed` |
| | `OrphanFree` | `Spec => []NoOrphans` |
| | `FeedCorrect` | `Spec => []ReservationsInFeed` |
| | `ReserveCorrect` | `Spec => ReservedFromPublishedStock` |
| `AnswerProofs` | `AnswerInvariance` | `Spec => []AInv` |
| | `CommitsHonest` | `Spec => CommitsAsRequested` |
| | `RefusalsAreTrue` | `Spec => RefusalsTrue` |
| | `DeletionFinal` | `Spec => NothingAfterDeletion` |
| | `ErrorsExplained` | `Spec => ServerErrorsExplained` |
| | `NotReverted` | `Spec => StatusNotReverted` |
| | `DeadlocksExplained` | `Spec => []DeadlocksNeedDelete` |
| | `NobodyHangs` | `Spec => []NoStandstill` |
| `SnapshotProofs` | `SnapshotCorrect` | `Spec => []SnapshotExact` |
| | `StockIsConserved` | `Spec => StockConserved` |
| `ContractProofs` | `ContractHonoured` | `Spec => HonoursContract` (refinement) |
| `SerialProofs` | `SerialInvariance` | `SerialSpec => []SInv` |
| | `FeedIsExact` | `SerialSpec => []FeedExact` |
| | `LifecycleKept` | `SerialSpec => KeepsLifecycle` (refinement) |
| `GatewayProofs` | `GatewayInvariance` | `Spec => []GInv` |
| | `GatewayTyped` | `Spec => []TypeOK` |
| | `MarkersOwned` | `Spec => []MarkerMatchesOwner` |
| | `OwnedOnce` | `Spec => []OwnersProcessOnce` |
| | `ReplaysHonest` | `Spec => []ReplaysAreReal` |
| | `QuotaKept` | `Spec => []QuotaHeld` |
| | `BypassExplained` | `Spec => BypassNeedsDuplicate` |
| `KpiFeedProofs` | `FeedInvariance` | `Spec => []FInv` |
| | `FeedTyped` | `Spec => []TypeOK` |
| | `PagesInOrder` | `Spec => []PagesAdvance` |
| | `GapsAccounted` | `Spec => []GapsExplained` |

`Inventory`. None of the properties is inductive alone: that a commit of a stale
session is harmless depends on what the session has locked and on why the row
can not have changed since. `IInv` says so for every step: the arguments a step
works with (`StepHasArguments`), the row lock and the existence of the row from
the lock to the commit (`TicketCommitLocked`, which for reserve includes the
WHERE clause), the same for events (`EventCommitLocked`), the compatibility of
event locks (`EventLockCompatible`), the privacy of a batch's keys
(`BatchFresh`), what the feed says of rows not yet there (`FeedAtTheEnds`), and
who can be overtaken after it stamped its row (`StampedEarly`): never a reserve.
That is why the feed names every reservation: a reserve that commits is the
latest, and whoever could come before it in the feed commits another status. The proof has a lemma per action. Steps that commit nothing
go through `SessionStep`, which reduces them to what they do to their own
session; commits go through `OtherSession`, which states what a commit must
leave alone. The action properties follow from `IInv` and `WhoWrites`, which
names the steps that change tickets, events or the feed.

`AInv` adds to `IInv` what the answers depend on (`AnswerOK`): which requests
reach which steps (`StepIsOf`), that the rows `db.refresh` reads were there when
the session committed (`RefreshHasArguments`), that a session at its first lock
holds no row (`HoldsNothingYet`), that a delete does not wait for a row of its
own (`DeletesOnce`), that what a session has loaded is what the row holds as long
as nobody has overtaken it (`FreshOK`), and that tickets are deleted with their
event only (`GoneTogether`). `RowsForward` carries it over the steps of others: what was
inserted stays inserted or is deleted, and an event that is gone stays gone.

* `CommitsHonest`, `RefusalsAreTrue`: `FreshOK`, and the locks of `IInv`: a session
  that was not overtaken writes over the status it loaded, and every commit that
  changes a row marks the sessions that work on it.
* `DeletionFinal`: the locks of `IInv` say that every commit but a delete's finds
  its event there, and `WhoCommits` which steps are commits.
* `ErrorsExplained`: a statement that misses its row (`FlushTicket`, `FlushEvent`,
  `InsertBatch`, `Refresh`) had one earlier, so the row was deleted, and by
  `GoneTogether` its event was.
* `NotReverted`: only an update commits a status of an event that exists, and
  its flush leaves the column out if it has the value that was loaded.
* `DeadlocksExplained`: in a circle everybody is waited for, because an
  injection of a finite set into itself is onto (`CircleClosed`). Who waits and
  is waited for has a lock and wants another one (`WaitingBlocker`): only a
  reserve at its event and a delete do. If all were reserves, one would hold an
  event and wait for an event, which it does not.
* `NobodyHangs`: whoever waits does so for an open session or a loop
  (`WaitsForSomebody`). Following one of these arrows from each session of a
  closed group ends in a circle: the smallest part of the group that no arrow
  leaves is mapped onto itself, hence one to one (`CircleExists`).

`KpiSnapshot`. `SumOf` is a recursive function over sets of categories. The
induction theorems of the library are out of reach, but the function the sum
should be, the number of tickets in a set of categories, can be written down
and satisfies the same equation, and two functions that do are equal: a smallest
set on which they differ does not exist (`SumIs`, `SumCounts`). With `CountOfIs`
for the groups and their default this is `SnapshotCorrect`. `StockIsConserved`
follows from it and from what each commit does to the set of an event's tickets
(`SameTickets`, `BatchAdds`, `DeleteEmpties`).

`HonoursContract` maps every step to one of `RequestContract`. The sweep needs
`IInv`: its tickets must be reserved for it to be `Background`.

`SerialSpec`. `OneAtATime` speaks of parties, not of rows. `AtMostOne` turns the
cardinality into "nobody else" (`TicketAlone`, `SweeperAlone`, `EventAlone`), so a
commit has nobody to overtake, and `SInv` is `AInv` with nobody overtaken and an
exact feed. By `FreshOK` a flush then writes what was asked for, and the commits are
`Advance`, `Mint`, `Remove` and `Expire` of `TicketLifecycle`.

`Gateway`. `GInv` has a holder for each key (the request that processes it, or
that was answered with an effect under it), an origin for each response that is
stored or replayed, and the requests counted in a minute. `QuotaKept` is a
counting argument: as long as a minute lasts its counter is there, since whatever
EXPIRE it got came in that minute (`ExpirySet`), and is at least the number of
requests let through, so INCR adds one (`IncrFacts`) and a request that finds the
result within the limit is, at most, the last one the limit has room for
(`FS_AddElement`). After the minute the counter may start again, but nobody is
added to the punctual. `BypassExplained` looks at
single steps: `OtherSteps` rules out all but GET and SET NX, and for those two
`GInv` supplies the owner of the marker they find, or the origin of the response.

`KpiFeed`. `FInv` has an excuse for every row behind the cursor, before and after
the page on its way arrives, because it may also be lost. Two lemmas carry the
page: it has a last item (`HasLast`, by minimality in the well-founded order of
strict subsets), and what comes before an item of a page and is not on it does
not exist (`PageIsPrefix`).

Model-checked only: the liveness properties `Answered`, `HoldsEnd` and
`CatchesUp`, which need fairness and are beyond the provers. Every invariant and
every action property of a passing run is a theorem.

## 6. Plan

Done: `Inventory`, `Gateway` and `KpiFeed` with their runs, both refinements,
`KpiSnapshot`, and the proofs of all their safety properties. What could follow:

1. The composition of `Gateway` with `RequestContract` as its handler, so that
   the promise of `OwnersProcessOnce` is about the tables and not about a flag.
2. `Gateway` when a caller sends a retry only after the answer to the request
   before it, as `SerialSpec` does for `Inventory`: `ProcessedOnce` then holds
   but for handlers that raise after their commit.

## 7. Not modelled

* `reserve_tickets` (`ticket_service.py:134`): nothing calls it, so no state of
  the running service is reached through it.
* `list_tickets`, `list_events` of the event service: they only read. Pages cut
  with OFFSET over rows that change repeat or skip rows, and promise nothing else.
* Columns no property reads: names, prices, dates, `customer_email`,
  `external_reference`, `max_capacity` (which no code enforces). An update that
  violates a constraint of such a column is not distinguished from the invalid
  status.
* The clock of the loop: it compares a naive `utcnow()` with a timestamptz
  column, which is right only where the process runs in UTC.
* Redis losing its data, and idempotency keys that expire after 24 hours, which is
  longer than any behaviour modelled. (The counters of the rate limiter do
  expire.)
* Pods whose clocks differ, in `Gateway` and in `Inventory`. One that is behind
  increments counters that have expired, one that is ahead starts the next one's
  early, so the limit of `QuotaHeld` is as exact as the clocks; and the feed's
  order of rows from different pods is as well (`KpiFeed` has the skew). Rows of one
  ticket whose times are equal to the microsecond.
* A second pass of a request whose body the first pass has read: the model
  treats it as one without a body.
* The connection pool. A session that finds no connection for its refresh ends
  like one that is lost after its commit, which is modelled.
* `init_db` in pods that start together, and the migrations: they run once per
  database, before any request. (`002_confirm_flow.py:51` writes 'confirmed'
  into a column whose type does not have that value yet.)
* Authentication and health: one comparison and two probes without state. CORS,
  the path prefix and the pod header carry no state. Validation of single
  requests, beyond what the components table names.
* Scripts and containers. The smoke test is a sequential client;
  `get-docker.sh` is third-party.
