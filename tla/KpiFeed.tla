------------------------------ MODULE KpiFeed ------------------------------
(***************************************************************************)
(* The incremental KPI feed: transactions that write rows of kpi_events    *)
(* and consumers that page through them with a cursor.                     *)
(*                                                                         *)
(* A row gets its occurred_at when it is flushed and is visible from the   *)
(* commit of its transaction on.  A consumer asks for the rows after its   *)
(* cursor, ordered by occurred_at and id, and goes on from next_cursor.    *)
(* The pods answer with their own settings and stamp rows with their own   *)
(* clocks.  The consumer is not part of the repository: it does what the   *)
(* descriptions of the endpoint say.                                       *)
(***************************************************************************)
EXTENDS Naturals, FiniteSets

CONSTANTS
    Rows,           \* primary keys of kpi_events, in the order of their UUIDs
    EventOf,        \* row -> kpi_events.event_id
    Transactions,   \* sessions that write rows
    Consumers,      \* clients of GET /internal/kpi/events
    Filter,         \* consumer -> the event_id it asks for, None for all
    Limit,          \* the limit it asks for
    Skew,           \* by how much the clock of a pod may be behind
    DistinctTimes,  \* TRUE if no two rows are flushed in the same microsecond
    MaxClock,       \* bound on the time that passes
    MaxLosses,      \* bound on responses that do not arrive
    None

ASSUME FeedAssumption ==
    /\ Rows \subseteq Nat /\ IsFiniteSet(Rows)
    /\ Limit \in Nat \ {0}
    /\ Skew \in Nat /\ MaxClock \in Nat \ {0} /\ MaxLosses \in Nat
    /\ DistinctTimes \in BOOLEAN

VARIABLES
    clock,          \* the time
    occurredAt,     \* kpi_events.occurred_at, 0 for a row not flushed yet
    pending,        \* the rows a transaction has flushed
    visible,        \* the committed rows
    cursor,         \* where a consumer goes on, 0 for the beginning
    response,       \* the answer that is on its way to a consumer
    delivered,      \* the rows a consumer was given
    overtaken,      \* history: rows committed when a consumer was past them
    losses          \* responses lost so far

table == <<occurredAt, pending, visible>>
feeds == <<cursor, response, delivered>>
vars == <<clock, occurredAt, pending, visible, cursor, response, delivered, overtaken, losses>>

NoResponse == [items |-> {}, next_cursor |-> 0, waiting |-> TRUE]

Init ==
    /\ clock = 1
    /\ occurredAt = [r \in Rows |-> 0]
    /\ pending = [x \in Transactions |-> {}]
    /\ visible = {}
    /\ cursor = [c \in Consumers |-> 0]
    /\ response = [c \in Consumers |-> NoResponse]
    /\ delivered = [c \in Consumers |-> {}]
    /\ overtaken = [c \in Consumers |-> {}]
    /\ losses = 0

-----------------------------------------------------------------------------
(* The transactions that record KPI rows *)

Tick ==
    /\ clock < MaxClock
    /\ clock' = clock + 1
    /\ UNCHANGED <<table, feeds, overtaken, losses>>

\* The INSERT of a row.  A sweep flushes a row for every ticket it frees.
Flush(x, r, at) ==
    /\ occurredAt[r] = 0
    /\ at \in 1..clock /\ clock <= at + Skew
    /\ DistinctTimes => \A q \in Rows : occurredAt[q] # at
    /\ occurredAt' = [occurredAt EXCEPT ![r] = at]
    /\ pending' = [pending EXCEPT ![x] = @ \cup {r}]
    /\ UNCHANGED <<clock, visible, feeds, overtaken, losses>>

\* Where a consumer goes on once it has the answer that is on its way.
Position(c) == IF response[c].waiting THEN cursor[c] ELSE response[c].next_cursor

Commit(x) ==
    /\ pending[x] # {}
    /\ visible' = visible \cup pending[x]
    /\ overtaken' = [c \in Consumers |->
           overtaken[c] \cup {r \in pending[x] : occurredAt[r] <= Position(c)}]
    /\ pending' = [pending EXCEPT ![x] = {}]
    /\ UNCHANGED <<clock, occurredAt, feeds, losses>>

Rollback(x) ==
    /\ pending[x] # {}
    /\ pending' = [pending EXCEPT ![x] = {}]
    /\ UNCHANGED <<clock, occurredAt, visible, feeds, overtaken, losses>>

-----------------------------------------------------------------------------
(* KPIService.list_events *)

\* ORDER BY occurred_at ASC, id ASC
Before(q, r) ==
    \/ occurredAt[q] < occurredAt[r]
    \/ occurredAt[q] = occurredAt[r] /\ q < r

Matches(c, r) == Filter[c] = None \/ EventOf[r] = Filter[c]

\* Seeded bug: the cursor is not exclusive.
NewerOrEqual(c) == {r \in visible : Matches(c, r) /\ occurredAt[r] >= cursor[c]}
Newer(c) == {r \in visible : Matches(c, r) /\ occurredAt[r] > cursor[c]}

\* LIMIT
FirstOf(S) == {r \in S : Cardinality({q \in S : Before(q, r)}) < Limit}

\* Seeded bug: the cursor is the time of the newest row in the table.
CursorOfNewest(c, items) ==
    IF items = {} THEN cursor[c]
    ELSE occurredAt[CHOOSE r \in visible : \A q \in visible \ {r} : Before(q, r)]
\* Seeded bug: an empty page has no cursor.
CursorDropped(c, items) ==
    IF items = {} THEN None
    ELSE occurredAt[CHOOSE r \in items : \A q \in items \ {r} : Before(q, r)]
\* The time of the last item, or the cursor of the request.
NextCursor(c, items) ==
    IF items = {} THEN cursor[c]
    ELSE occurredAt[CHOOSE r \in items : \A q \in items \ {r} : Before(q, r)]

Respond(c, items) ==
    /\ response[c].waiting
    /\ response' = [response EXCEPT ![c] =
           [items |-> items, next_cursor |-> NextCursor(c, items), waiting |-> FALSE]]
    /\ UNCHANGED <<clock, table, cursor, delivered, overtaken, losses>>

\* enable_kpi_endpoints is off in the pod that answers.
RespondDisabled(c) == Respond(c, {})

RespondEnabled(c) == Respond(c, FirstOf(Newer(c)))

-----------------------------------------------------------------------------
(* The consumers *)

Receive(c) ==
    /\ ~response[c].waiting
    /\ delivered' = [delivered EXCEPT ![c] = @ \cup response[c].items]
    /\ cursor' = [cursor EXCEPT ![c] = response[c].next_cursor]
    /\ response' = [response EXCEPT ![c] = NoResponse]
    /\ UNCHANGED <<clock, table, overtaken, losses>>

\* The response does not arrive; the consumer asks again with its old cursor.
Lose(c) ==
    /\ ~response[c].waiting
    /\ losses < MaxLosses
    /\ response' = [response EXCEPT ![c] = NoResponse]
    /\ losses' = losses + 1
    /\ UNCHANGED <<clock, table, cursor, delivered, overtaken>>

-----------------------------------------------------------------------------
(* The system *)

Next ==
    \/ Tick
    \/ \E x \in Transactions :
          \/ \E r \in Rows, at \in 1..MaxClock : Flush(x, r, at)
          \/ Commit(x) \/ Rollback(x)
    \/ \E c \in Consumers :
          RespondEnabled(c) \/ RespondDisabled(c) \/ Receive(c) \/ Lose(c)

Spec == Init /\ [][Next]_vars

\* A consumer keeps polling, and not every one of its requests is lost or
\* answered by a pod whose endpoints are switched off.
FairSpec ==
    Spec /\ \A c \in Consumers : SF_vars(RespondEnabled(c)) /\ SF_vars(Receive(c))

-----------------------------------------------------------------------------
(* Properties *)

TypeOK ==
    /\ clock \in 1..MaxClock
    /\ occurredAt \in [Rows -> 0..MaxClock]
    /\ pending \in [Transactions -> SUBSET Rows]
    /\ visible \in SUBSET Rows
    /\ cursor \in [Consumers -> 0..MaxClock]
    /\ response \in [Consumers -> [items : SUBSET Rows, next_cursor : 0..MaxClock,
                                   waiting : BOOLEAN]]
    /\ delivered \in [Consumers -> SUBSET Rows]
    /\ overtaken \in [Consumers -> SUBSET Rows]
    /\ losses \in 0..MaxLosses

\* Pages follow each other in the order of occurred_at, and no row is
\* delivered twice (api/kpi.py:38), in spite of lost responses, pods whose
\* endpoints are off, and rows with equal times.
PagesAdvance ==
    \A c \in Consumers : \A r \in response[c].items : \A d \in delivered[c] :
        occurredAt[d] < occurredAt[r]

Passed(c) == {r \in visible : Matches(c, r) /\ occurredAt[r] <= cursor[c]}

\* A row that a consumer is past and was never given was committed after the
\* page that passed it was read, or has the same time as the last row of a
\* page that was full.  There is no third way to lose one.
GapsExplained ==
    \A c \in Consumers : \A r \in Passed(c) \ delivered[c] :
        \/ r \in overtaken[c]
        \/ \E d \in delivered[c] : occurredAt[d] = occurredAt[r] /\ d < r

\* A consumer that keeps polling gets to every row and beyond.
CatchesUp ==
    \A c \in Consumers, r \in Rows : r \in visible /\ Matches(c, r) ~> r \in Passed(c)

\* A client that follows the cursor gets every row (README.md:72).
NothingMissed == \A c \in Consumers : Passed(c) \subseteq delivered[c]

=============================================================================
