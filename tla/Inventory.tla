----------------------------- MODULE Inventory -----------------------------
(***************************************************************************)
(* The ticket inventory: the rows of the tables events and tickets, the    *)
(* request sessions that change them and the background expiry loops.      *)
(*                                                                         *)
(* A request is handled in its own SQLAlchemy session and its own          *)
(* PostgreSQL transaction (READ COMMITTED).  Every "await" of a handler is *)
(* a point where another session runs, so a handler is one action per      *)
(* statement it sends.  Writes stay in the session until COMMIT; the       *)
(* variables status, reservedAt, eventStatus, ticketKpi and eventKpi hold  *)
(* committed rows only.                                                    *)
(*                                                                         *)
(* The first SELECT of a handler puts the row in the session's identity    *)
(* map.  A later SELECT of the same row, FOR UPDATE or not, finds the      *)
(* object there and keeps the attributes loaded first: the session decides *)
(* on session[w].loaded, not on the row.                                   *)
(*                                                                         *)
(* Definitions marked "Seeded bug" are no part of the model: each is the   *)
(* definition after it with a plausible mistake, and PROJECT.json names    *)
(* the property that TLC finds violated when it takes that one's place.    *)
(***************************************************************************)
EXTENDS Naturals, FiniteSets

CONSTANTS
    Tickets,        \* primary keys of tickets, in the order of their UUIDs
    Events,         \* primary keys of events
    EventOf,        \* the foreign key: ticket -> event
    Workers,        \* request sessions that may be open at the same time
    Sweepers,       \* expiry loops, one per running pod
    StatusInputs,   \* values a client may send as the status of an event
    KpiLogging,     \* settings.enable_kpi_event_logging
    MaxFaults,      \* bound on lost sessions and failed sweeps
    None            \* nobody, nothing

TicketStatuses == {"available", "reserved", "sold", "used"}
EventStatuses == {"draft", "published", "cancelled", "sold_out", "completed"}

\* A row that was not inserted yet, or is no longer there.
Absent == {"unminted", "deleted"}

TicketOps == {"reserve", "sell", "use", "cancel"}
EventOps == {"create", "update", "delete", "batch"}
Replies == {0, 200, 201, 204, 404, 409, 500}

\* Row locks on events, weakest first.  Two locks of different transactions
\* are compatible when their strengths add up to less than 4.
LockModes == {"none", "key_share", "no_key_update", "update"}
Strength(m) == CASE m = "none" -> 0
                 [] m = "key_share" -> 1
                 [] m = "no_key_update" -> 2
                 [] m = "update" -> 3

ASSUME RowsAssumption ==
    /\ Tickets \subseteq Nat
    /\ EventOf \in [Tickets -> Events]
ASSUME ProcessAssumption ==
    /\ IsFiniteSet(Workers)
    /\ Workers \cap Sweepers = {}
    /\ None \notin Workers \cup Sweepers
ASSUME NoneAssumption == None \notin Tickets \cup Events
ASSUME InputAssumption ==
    /\ StatusInputs \subseteq EventStatuses \cup {"invalid"}
    /\ KpiLogging \in BOOLEAN
    /\ MaxFaults \in Nat

VARIABLES
    status,         \* tickets.status, or a member of Absent
    reservedAt,     \* tickets.reserved_at: "none" (NULL), "fresh", or "lapsed" (older than the TTL)
    eventStatus,    \* events.status, or a member of Absent
    ticketKpi,      \* status_after of the ticket's row in kpi_events with the latest occurred_at
    eventKpi,       \* the same of the event, "deleted" for EVENT_DELETED
    session,        \* the requests being handled
    rowLock,        \* which session or loop holds the lock of a ticket row
    eventLock,      \* the lock a request session holds on its event row
    overtaken,      \* history: when the row a session works on was changed by another one
    faults          \* faults so far

rows == <<status, reservedAt, eventStatus, ticketKpi, eventKpi>>
locks == <<rowLock, eventLock>>
vars == <<status, reservedAt, eventStatus, ticketKpi, eventKpi,
          session, rowLock, eventLock, overtaken, faults>>

-----------------------------------------------------------------------------
(* Sessions *)

Steps == {"idle",
          "select", "lock_ticket", "lock_event",    \* reserve_ticket
          "check", "flush",                         \* sell, use, cancel
          "commit",                                 \* both
          "flush_event", "commit_event",            \* update_event
          "insert", "commit_batch",                 \* batch_create
          "load", "delete_tickets", "cascade",      \* delete_event
          "refresh"}

Sessions == [pc : Steps,
             op : TicketOps \cup EventOps \cup {"none"},
             ticket : Tickets \cup {None},
             event : Events \cup {None},
             loaded : TicketStatuses \cup EventStatuses \cup {"none"},
             want : EventStatuses \cup {"none"},
             batch : SUBSET Tickets,
             reply : Replies]

\* No request is being handled; r is what the last one was answered.
Closed(r) == [pc |-> "idle", op |-> "none", ticket |-> None, event |-> None,
              loaded |-> "none", want |-> "none", batch |-> {}, reply |-> r]

Init ==
    /\ status = [t \in Tickets |-> "unminted"]
    /\ reservedAt = [t \in Tickets |-> "none"]
    /\ eventStatus = [e \in Events |-> "unminted"]
    /\ ticketKpi = [t \in Tickets |-> "none"]
    /\ eventKpi = [e \in Events |-> "none"]
    /\ session = [w \in Workers |-> Closed(0)]
    /\ rowLock = [t \in Tickets |-> None]
    /\ eventLock = [w \in Workers |-> "none"]
    /\ overtaken = [w \in Workers |-> "never"]
    /\ faults = 0

TicketExists(t) == status[t] \notin Absent
EventExists(e) == eventStatus[e] \notin Absent
TicketsOf(e) == {t \in Tickets : EventOf[t] = e /\ TicketExists(t)}

Goto(w, step) == session' = [session EXCEPT ![w].pc = step]

\* The ticket rows a session or a loop has locked.
Held(p) == {t \in Tickets : rowLock[t] = p}

\* COMMIT and ROLLBACK give back every lock of the transaction.
\* Seeded bug: a transaction that is given up keeps its locks.
LocksKept(p) == UNCHANGED rowLock
Release(p) ==
    rowLock' = [t \in Tickets |-> IF t \in Held(p) THEN None ELSE rowLock[t]]
ReleaseAll(w) ==
    /\ Release(w)
    /\ eventLock' = [eventLock EXCEPT ![w] = "none"]

\* The handler ends without COMMIT and the client gets the code r.
Abandon(w, r) ==
    /\ session' = [session EXCEPT ![w] = Closed(r)]
    /\ ReleaseAll(w)
    /\ overtaken' = [overtaken EXCEPT ![w] = "never"]
    /\ UNCHANGED <<rows, faults>>

EventLockFree(w, mode) ==
    \A v \in Workers \ {w} :
        session[v].event = session[w].event
            => Strength(eventLock[v]) + Strength(mode) < 4

\* Seeded bug: every column of the request is sent.
FlushedAll(loaded, new, current) == new
\* A flush sends only the columns whose value differs from the loaded one.
Flushed(loaded, new, current) == IF new = loaded THEN current ELSE new

\* Seeded bug: only the first row about a key is written.
RecordedOnce(kpi, key, value) ==
    IF KpiLogging /\ kpi[key] = "none" THEN [kpi EXCEPT ![key] = value] ELSE kpi
Recorded(kpi, key, value) ==
    IF KpiLogging THEN [kpi EXCEPT ![key] = value] ELSE kpi

-----------------------------------------------------------------------------
(* Changes that overlap *)

\* occurred_at is the time of the INSERT INTO kpi_events.  The unit of work
\* sends it after UPDATE events and before UPDATE tickets, and a delete sends it
\* with the load of the tickets: at these steps a session may have stamped its
\* row although it has still to get the lock of what it changes.
\* Seeded bug: reserve stamps its row before it locks the ticket.
FeedRowSentEarly(v) ==
    session[v].pc \in {"select", "lock_ticket", "flush", "load", "delete_tickets", "cascade"}
FeedRowSent(v) == session[v].pc \in {"flush", "load", "delete_tickets", "cascade"}

\* Sessions that have loaded the ticket, or the event in order to change it, and
\* have still to commit.
WorkingOn(t) == {v \in Workers : session[v].ticket = t /\ session[v].pc # "refresh"}
Changing(e) == {v \in Workers : /\ session[v].event = e /\ session[v].pc # "refresh"
                                /\ session[v].op \in {"update", "delete"}}

\* What the sessions V loaded is committed anew by another one.
Overtaking(V) ==
    [v \in Workers |-> IF v \notin V THEN overtaken[v]
                       ELSE IF FeedRowSent(v) THEN "since_flush" ELSE "since_load"]

\* The latest row of a key after w has committed its own: its own, unless w
\* stamped it before a row that was committed first.
Latest(w, kpi, key, value) ==
    {Recorded(kpi, key, value)} \cup (IF overtaken[w] = "since_flush" THEN {kpi} ELSE {})

-----------------------------------------------------------------------------
(* Ticket requests: reserve, sell, use and cancel *)

Required(op) == CASE op = "use" -> "sold" [] op \in {"sell", "cancel"} -> "reserved"
\* Seeded bug: a cancelled ticket gets a status of its own.
TargetRenamed(op) == CASE op = "reserve" -> "reserved" [] op = "sell" -> "sold"
                       [] op = "use" -> "used" [] op = "cancel" -> "cancelled"
Target(op) == CASE op = "reserve" -> "reserved" [] op = "sell" -> "sold"
                [] op = "use" -> "used" [] op = "cancel" -> "available"

\* Seeded bug: reserve forgets reserved_at.
KeptReservedAt(op, current) == IF op = "cancel" THEN "none" ELSE current
ReservedAtAfter(op, current) ==
    CASE op = "reserve" -> "fresh" [] op = "cancel" -> "none" [] OTHER -> current

\* The route looks the ticket up before it calls the service.
GetTicket(w, op, t) ==
    /\ session[w].pc = "idle"
    /\ IF TicketExists(t)
       THEN session' = [session EXCEPT ![w] =
                [Closed(0) EXCEPT !.pc = IF op = "reserve" THEN "select" ELSE "check",
                                  !.op = op, !.ticket = t, !.event = EventOf[t],
                                  !.loaded = status[t]]]
       ELSE session' = [session EXCEPT ![w] = Closed(404)]
    /\ UNCHANGED <<rows, locks, overtaken, faults>>

\* What the WHERE clause of reserve_ticket asks of the rows.
Reservable(t) ==
    /\ status[t] = "available"
    /\ eventStatus[EventOf[t]] = "published"

\* SELECT ... FOR UPDATE filters on the snapshot of the statement, locks the
\* row of the ticket, then that of the event, and filters again if it waited.
ReserveSelect(w) ==
    /\ session[w].pc = "select"
    /\ IF Reservable(session[w].ticket)
       THEN Goto(w, "lock_ticket") /\ UNCHANGED <<rows, locks, overtaken, faults>>
       ELSE Abandon(w, 409)

ReserveLockTicket(w) ==
    LET t == session[w].ticket IN
    /\ session[w].pc = "lock_ticket"
    /\ rowLock[t] = None
    /\ IF TicketExists(t)
       THEN /\ rowLock' = [rowLock EXCEPT ![t] = w]
            /\ Goto(w, "lock_event")
            /\ UNCHANGED <<rows, eventLock, overtaken, faults>>
       ELSE Abandon(w, 409)

\* Seeded bug: FOR UPDATE OF tickets, the event is read but not locked.
EventUnlocked(w) == eventLock
\* FOR UPDATE locks the rows of both tables.
EventForUpdate(w) == [eventLock EXCEPT ![w] = "update"]

ReserveLockEvent(w) ==
    /\ session[w].pc = "lock_event"
    /\ EventLockFree(w, "update")
    /\ IF Reservable(session[w].ticket)
       THEN /\ eventLock' = EventForUpdate(w)
            /\ Goto(w, "commit")
            /\ UNCHANGED <<rows, rowLock, overtaken, faults>>
       ELSE Abandon(w, 409)

\* The service looks the ticket up again, but tests the status loaded first.
\* Seeded bugs: the status is not tested; only tickets on sale are let through.
PassesIfThere(s) == TicketExists(s.ticket)
PassesIfPublished(s) ==
    TicketExists(s.ticket) /\ s.loaded = Required(s.op) /\ eventStatus[s.event] = "published"
Passes(s) == TicketExists(s.ticket) /\ s.loaded = Required(s.op)

CheckStatus(w) ==
    /\ session[w].pc = "check"
    /\ IF Passes(session[w])
       THEN Goto(w, "flush") /\ UNCHANGED <<rows, locks, overtaken, faults>>
       ELSE Abandon(w, 409)

\* Seeded bug: the event is locked after the ticket.
ThenLockEvent == "lock_event"
ThenCommit == "commit"

\* UPDATE tickets ... WHERE id = ...: no test of the status it replaces.
FlushTicket(w) ==
    LET t == session[w].ticket IN
    /\ session[w].pc = "flush"
    /\ rowLock[t] = None
    /\ IF TicketExists(t)
       THEN /\ rowLock' = [rowLock EXCEPT ![t] = w]
            /\ Goto(w, ThenCommit)
            /\ UNCHANGED <<rows, eventLock, overtaken, faults>>
       ELSE Abandon(w, 500)

CommitTicket(w) ==
    LET s == session[w]
        t == s.ticket
    IN
    /\ s.pc = "commit"
    /\ status' = [status EXCEPT ![t] = Flushed(s.loaded, Target(s.op), @)]
    /\ reservedAt' = [reservedAt EXCEPT ![t] = ReservedAtAfter(s.op, @)]
    /\ ticketKpi' \in Latest(w, ticketKpi, t, Target(s.op))
    /\ overtaken' = [Overtaking(WorkingOn(t)) EXCEPT ![w] = "never"]
    /\ Goto(w, "refresh")
    /\ ReleaseAll(w)
    /\ UNCHANGED <<eventStatus, eventKpi, faults>>

-----------------------------------------------------------------------------
(* Event requests: create, update, delete and batch-create tickets *)

CreateEvent(w, e) ==
    /\ session[w].pc = "idle"
    /\ eventStatus[e] = "unminted"
    /\ eventStatus' = [eventStatus EXCEPT ![e] = "draft"]
    /\ eventKpi' = Recorded(eventKpi, e, "draft")
    /\ session' = [session EXCEPT ![w] =
           [Closed(0) EXCEPT !.pc = "refresh", !.op = "create", !.event = e]]
    /\ UNCHANGED <<status, reservedAt, ticketKpi, locks, overtaken, faults>>

EventMissing(w, e) ==
    /\ session[w].pc = "idle"
    /\ ~EventExists(e)
    /\ session' = [session EXCEPT ![w] = Closed(404)]
    /\ UNCHANGED <<rows, locks, overtaken, faults>>

\* The status is optional, and validated by no schema.
StatusChoices(e) == StatusInputs \cup {eventStatus[e]}

\* update_event loads the event and sets the fields of the request.  One that
\* leaves the status out keeps the loaded one; one whose status names no
\* EventStatus raises before anything is written.
UpdateEvent(w, e, new) ==
    /\ session[w].pc = "idle"
    /\ EventExists(e)
    /\ session' = [session EXCEPT ![w] =
           IF new = "invalid" THEN Closed(500)
           ELSE [Closed(0) EXCEPT !.pc = "flush_event", !.op = "update", !.event = e,
                                  !.loaded = eventStatus[e], !.want = new]]
    /\ UNCHANGED <<rows, locks, overtaken, faults>>

\* Seeded bug: an update of no row passes.
FlushEventAnyRow(w) ==
    /\ session[w].pc = "flush_event"
    /\ EventLockFree(w, "no_key_update")
    /\ eventLock' = [eventLock EXCEPT ![w] = "no_key_update"]
    /\ Goto(w, "commit_event")
    /\ UNCHANGED <<rows, rowLock, overtaken, faults>>

\* UPDATE events ... WHERE id = ...: an update of no row raises.
FlushEvent(w) ==
    /\ session[w].pc = "flush_event"
    /\ EventLockFree(w, "no_key_update")
    /\ IF EventExists(session[w].event)
       THEN /\ eventLock' = [eventLock EXCEPT ![w] = "no_key_update"]
            /\ Goto(w, "commit_event")
            /\ UNCHANGED <<rows, rowLock, overtaken, faults>>
       ELSE Abandon(w, 500)

CommitEvent(w) ==
    LET s == session[w] IN
    /\ s.pc = "commit_event"
    /\ eventStatus' = [eventStatus EXCEPT ![s.event] = Flushed(s.loaded, s.want, @)]
    /\ eventKpi' = Recorded(eventKpi, s.event, s.want)
    /\ overtaken' = [Overtaking(Changing(s.event)) EXCEPT ![w] = "never"]
    /\ Goto(w, "refresh")
    /\ ReleaseAll(w)
    /\ UNCHANGED <<status, reservedAt, ticketKpi, faults>>

\* Primary keys no row and no other open batch uses: uuid4 never repeats.
FreshTickets(e) ==
    {t \in Tickets : /\ EventOf[t] = e
                     /\ status[t] = "unminted"
                     /\ \A w \in Workers : t \notin session[w].batch}

\* quantity >= 1
Batches(e) == (SUBSET FreshTickets(e)) \ {{}}

BatchCreate(w, e, new) ==
    /\ session[w].pc = "idle"
    /\ EventExists(e)
    /\ session' = [session EXCEPT ![w] =
           [Closed(0) EXCEPT !.pc = "insert", !.op = "batch", !.event = e, !.batch = new]]
    /\ UNCHANGED <<rows, locks, overtaken, faults>>

\* INSERT INTO tickets: the foreign key locks the row of the event.
InsertBatch(w) ==
    /\ session[w].pc = "insert"
    /\ EventLockFree(w, "key_share")
    /\ IF EventExists(session[w].event)
       THEN /\ eventLock' = [eventLock EXCEPT ![w] = "key_share"]
            /\ Goto(w, "commit_batch")
            /\ UNCHANGED <<rows, rowLock, overtaken, faults>>
       ELSE Abandon(w, 500)

\* The row about the batch is committed with it; it names no ticket and no
\* status, so it is nobody's latest.
CommitBatch(w) ==
    /\ session[w].pc = "commit_batch"
    /\ status' = [t \in Tickets |->
                    IF t \in session[w].batch THEN "available" ELSE status[t]]
    /\ Goto(w, "refresh")
    /\ ReleaseAll(w)
    /\ UNCHANGED <<reservedAt, eventStatus, ticketKpi, eventKpi, overtaken, faults>>

\* delete_event: the ORM loads the event's tickets, deletes them one by one in
\* the order of their keys (one that is gone is no error), then the event; the
\* ON DELETE CASCADE of the foreign key removes tickets inserted in between.
DeleteEvent(w, e) ==
    /\ session[w].pc = "idle"
    /\ EventExists(e)
    /\ session' = [session EXCEPT ![w] =
           [Closed(0) EXCEPT !.pc = "load", !.op = "delete", !.event = e]]
    /\ UNCHANGED <<rows, locks, overtaken, faults>>

LoadTickets(w) ==
    /\ session[w].pc = "load"
    /\ session' = [session EXCEPT ![w] =
           [@ EXCEPT !.pc = "delete_tickets", !.batch = TicketsOf(session[w].event)]]
    /\ UNCHANGED <<rows, locks, overtaken, faults>>

\* The row the next DELETE is about.
NextDelete(w, t) ==
    /\ session[w].pc = "delete_tickets"
    /\ t \in session[w].batch
    /\ \A u \in session[w].batch : t <= u

DeleteTicket(w, t) ==
    /\ NextDelete(w, t)
    /\ rowLock[t] = None
    /\ rowLock' = IF TicketExists(t) THEN [rowLock EXCEPT ![t] = w] ELSE rowLock
    /\ session' = [session EXCEPT ![w].batch = @ \ {t}]
    /\ UNCHANGED <<rows, eventLock, overtaken, faults>>

DeleteEventRow(w) ==
    /\ session[w].pc = "delete_tickets"
    /\ session[w].batch = {}
    /\ EventLockFree(w, "update")
    /\ eventLock' = IF EventExists(session[w].event)
                    THEN [eventLock EXCEPT ![w] = "update"] ELSE eventLock
    /\ Goto(w, "cascade")
    /\ UNCHANGED <<rows, rowLock, overtaken, faults>>

\* Tickets the cascade has still to delete.
\* Seeded bug: only the tickets that were loaded are deleted.
LeftOverLoaded(w) == {}
LeftOver(w) == {t \in TicketsOf(session[w].event) : rowLock[t] # w}

CascadeTicket(w, t) ==
    /\ session[w].pc = "cascade"
    /\ t \in LeftOver(w)
    /\ rowLock[t] = None
    /\ rowLock' = [rowLock EXCEPT ![t] = w]
    /\ UNCHANGED <<rows, session, eventLock, overtaken, faults>>

CommitDelete(w) ==
    LET e == session[w].event
        gone == TicketsOf(e) \cap Held(w)
    IN
    /\ session[w].pc = "cascade"
    /\ LeftOver(w) = {}
    /\ status' = [t \in Tickets |-> IF t \in gone THEN "deleted" ELSE status[t]]
    /\ reservedAt' = [t \in Tickets |-> IF t \in gone THEN "none" ELSE reservedAt[t]]
    /\ eventStatus' = [eventStatus EXCEPT ![e] = "deleted"]
    /\ eventKpi' \in Latest(w, eventKpi, e, "deleted")
    /\ overtaken' = [Overtaking(Changing(e)) EXCEPT ![w] = "never"]
    /\ session' = [session EXCEPT ![w] = Closed(204)]
    /\ ReleaseAll(w)
    /\ UNCHANGED <<ticketKpi, faults>>

-----------------------------------------------------------------------------
(* After the commit, and what ends a session early *)

\* db.refresh: the row was deleted in the meantime, or the client gets it.
\* Seeded bug: the ticket must be as the request left it.
RefreshableAsLeft(s) ==
    IF s.op \in TicketOps THEN status[s.ticket] = Target(s.op)
    ELSE EventExists(s.event) /\ \A t \in s.batch : TicketExists(t)
Refreshable(s) ==
    IF s.op \in TicketOps THEN TicketExists(s.ticket)
    ELSE EventExists(s.event) /\ \A t \in s.batch : TicketExists(t)

\* Seeded bug: a row that is gone is answered like one that was never there.
GoneIsRefused == 404
Gone == 500

Refresh(w) ==
    /\ session[w].pc = "refresh"
    /\ Abandon(w, CASE ~Refreshable(session[w]) -> Gone
                    [] session[w].op \in {"create", "batch"} -> 201
                    [] OTHER -> 200)

\* The ticket rows of which w locks one next, and the lock it takes on its event.
Wanted(w) ==
    {t \in Tickets : \/ session[w].pc \in {"lock_ticket", "flush"} /\ t = session[w].ticket
                     \/ NextDelete(w, t)
                     \/ session[w].pc = "cascade" /\ t \in LeftOver(w)}
WantedMode(w) ==
    CASE session[w].pc = "lock_event" -> "update"
      [] session[w].pc = "flush_event" -> "no_key_update"
      [] session[w].pc = "insert" -> "key_share"
      [] session[w].pc = "delete_tickets" /\ session[w].batch = {} -> "update"
      [] OTHER -> "none"

\* The sessions whose locks w is waiting for.
Blockers(w) ==
    {v \in Workers \ {w} :
        \/ \E t \in Wanted(w) : rowLock[t] = v
        \/ /\ session[v].event = session[w].event
           /\ Strength(eventLock[v]) + Strength(WantedMode(w)) >= 4}

\* A cycle is a set of sessions each of which waits for another one of it.
WaitCycles ==
    {S \in (SUBSET {w \in Workers : Blockers(w) # {}}) \ {{}} :
        \E next \in [S -> S] : /\ \A w \in S : next[w] \in Blockers(w)
                               /\ \A v, w \in S : next[v] = next[w] => v = w}

\* The deadlock detector of PostgreSQL fails one statement of the cycle.
DeadlockVictim(w) ==
    /\ \E S \in WaitCycles : w \in S
    /\ Abandon(w, 500)

\* The connection to the database breaks, or the process dies.
SessionLost(w) ==
    /\ session[w].pc # "idle"
    /\ faults < MaxFaults
    /\ session' = [session EXCEPT ![w] = Closed(500)]
    /\ ReleaseAll(w)
    /\ overtaken' = [overtaken EXCEPT ![w] = "never"]
    /\ faults' = faults + 1
    /\ UNCHANGED rows

-----------------------------------------------------------------------------
(* The expiry loop *)

\* reserved_at + TTL is over.
TtlElapses(t) ==
    /\ status[t] = "reserved"
    /\ reservedAt[t] = "fresh"
    /\ reservedAt' = [reservedAt EXCEPT ![t] = "lapsed"]
    /\ UNCHANGED <<status, eventStatus, ticketKpi, eventKpi, session, locks, overtaken, faults>>

\* Seeded bug: the scan does not look at locks.
LapsedAnyLock == {t \in Tickets : status[t] = "reserved" /\ reservedAt[t] = "lapsed"}
\* Seeded bug: only tickets on sale expire.
LapsedPublished == {t \in Tickets : /\ status[t] = "reserved"
                                    /\ reservedAt[t] = "lapsed"
                                    /\ rowLock[t] = None
                                    /\ eventStatus[EventOf[t]] = "published"}
Lapsed == {t \in Tickets : /\ status[t] = "reserved"
                           /\ reservedAt[t] = "lapsed"
                           /\ rowLock[t] = None}

\* SELECT ... FOR UPDATE SKIP LOCKED.  The loop never waits: expired_tickets is
\* what it holds from here to its commit.
SweepSelect(s) ==
    /\ Held(s) = {}
    /\ Lapsed # {}
    /\ rowLock' = [t \in Tickets |-> IF t \in Lapsed THEN s ELSE rowLock[t]]
    /\ UNCHANGED <<rows, session, eventLock, overtaken, faults>>

SweepCommit(s) ==
    /\ Held(s) # {}
    /\ status' = [t \in Tickets |-> IF t \in Held(s) THEN "available" ELSE status[t]]
    /\ reservedAt' = [t \in Tickets |-> IF t \in Held(s) THEN "none" ELSE reservedAt[t]]
    /\ ticketKpi' = IF KpiLogging
                    THEN [t \in Tickets |-> IF t \in Held(s) THEN "available" ELSE ticketKpi[t]]
                    ELSE ticketKpi
    /\ overtaken' = Overtaking(UNION {WorkingOn(t) : t \in Held(s)})
    /\ Release(s)
    /\ UNCHANGED <<eventStatus, eventKpi, session, eventLock, faults>>

\* The loop logs the exception, sleeps and scans again.
SweepFails(s) ==
    /\ Held(s) # {}
    /\ faults < MaxFaults
    /\ Release(s)
    /\ faults' = faults + 1
    /\ UNCHANGED <<rows, session, eventLock, overtaken>>

-----------------------------------------------------------------------------
(* The system *)

Request(w) ==
    \/ \E t \in Tickets, op \in TicketOps : GetTicket(w, op, t)
    \/ \E e \in Events :
          \/ CreateEvent(w, e)
          \/ EventMissing(w, e)
          \/ \E new \in StatusChoices(e) : UpdateEvent(w, e, new)
          \/ \E new \in Batches(e) : BatchCreate(w, e, new)
          \/ DeleteEvent(w, e)

Continue(w) ==
    \/ ReserveSelect(w) \/ ReserveLockTicket(w) \/ ReserveLockEvent(w)
    \/ CheckStatus(w) \/ FlushTicket(w) \/ CommitTicket(w)
    \/ FlushEvent(w) \/ CommitEvent(w)
    \/ InsertBatch(w) \/ CommitBatch(w)
    \/ LoadTickets(w) \/ DeleteEventRow(w) \/ CommitDelete(w)
    \/ \E t \in Tickets : DeleteTicket(w, t) \/ CascadeTicket(w, t)
    \/ Refresh(w)

Sweep(s) == SweepSelect(s) \/ SweepCommit(s)

Next ==
    \/ \E w \in Workers : Request(w) \/ Continue(w) \/ DeadlockVictim(w) \/ SessionLost(w)
    \/ \E s \in Sweepers : Sweep(s) \/ SweepFails(s)
    \/ \E t \in Tickets : TtlElapses(t)

Spec == Init /\ [][Next]_vars

\* The event loop resumes every handler whose statement returned, and the lock
\* queues of PostgreSQL are served in turn, so a session that could go on again
\* and again does (SF).  Loops wake up at their interval, time passes, and the
\* deadlock detector runs after deadlock_timeout.  Nobody has to send requests.
Fairness ==
    /\ \A w \in Workers : SF_vars(Continue(w)) /\ WF_vars(DeadlockVictim(w))
    /\ \A s \in Sweepers : WF_vars(Sweep(s))
    /\ \A t \in Tickets : WF_vars(TtlElapses(t))

FairSpec == Spec /\ Fairness

-----------------------------------------------------------------------------
(* Properties *)

TypeOK ==
    /\ status \in [Tickets -> TicketStatuses \cup Absent]
    /\ reservedAt \in [Tickets -> {"none", "fresh", "lapsed"}]
    /\ eventStatus \in [Events -> EventStatuses \cup Absent]
    /\ ticketKpi \in [Tickets -> TicketStatuses \cup {"none"}]
    /\ eventKpi \in [Events -> EventStatuses \cup {"none", "deleted"}]
    /\ session \in [Workers -> Sessions]
    /\ rowLock \in [Tickets -> Workers \cup Sweepers \cup {None}]
    /\ eventLock \in [Workers -> LockModes]
    /\ overtaken \in [Workers -> {"never", "since_load", "since_flush"}]
    /\ faults \in 0..MaxFaults

\* A reserved ticket carries the time it was reserved at, whatever cancel,
\* sell, expiry and stale sessions did to the row before: without it the WHERE
\* of expire_reserved_tickets never matches and the ticket is held for ever.
ReservedHasDeadline ==
    \A t \in Tickets : status[t] = "reserved" => reservedAt[t] # "none"

\* Until the expiry loop commits, every ticket it selected is still reserved
\* and past its TTL: nobody sells, cancels or re-reserves it in between.
SweepHoldsLapsed ==
    \A s \in Sweepers : \A t \in Held(s) :
        status[t] = "reserved" /\ reservedAt[t] = "lapsed"

\* A ticket exists only while its event does, although tickets are inserted
\* by sessions that looked the event up before it was deleted.
NoOrphans ==
    \A t \in Tickets : TicketExists(t) => EventExists(EventOf[t])

\* Sessions wait for each other in a circle only when one of them deletes an
\* event and the others delete it too or reserve its tickets: reserve locks
\* the ticket and then the event, the cascade the event and then tickets.
\* Sell, use, cancel, update and batch-create are never a deadlock's victim.
DeadlocksNeedDelete ==
    \A S \in WaitCycles :
        /\ \A w \in S : session[w].op \in {"reserve", "delete"}
        /\ \E w \in S : session[w].op = "delete"

\* The next statement of w waits for a lock.
Waits(w) ==
    \/ Wanted(w) # {} /\ \A t \in Wanted(w) : rowLock[t] # None
    \/ ~EventLockFree(w, WantedMode(w))

\* No request hangs on a lock that nobody will give back: requests that wait
\* for each other only, or for sessions that are over, are in a circle that the
\* deadlock detector breaks, or wait for an expiry loop, which never waits.
NoStandstill ==
    \A S \in (SUBSET {w \in Workers : session[w].pc # "idle"}) \ {{}} :
        (\A w \in S : Waits(w) /\ \A v \in Blockers(w) : session[v].pc = "idle" \/ v \in S)
            => \/ \E C \in WaitCycles : C \subseteq S
               \/ \E w \in S : \E t \in Wanted(w) : rowLock[t] \in Sweepers

\* As long as a ticket is held, the latest row about it says so: sell, use and
\* cancel stamp their rows before they wait for the ticket, but none of them can
\* commit one that comes before a reservation and leave the ticket reserved.  The
\* clocks that stamp the rows agree here; KpiFeed is about those that do not.
ReservationsInFeed ==
    KpiLogging => \A t \in Tickets : status[t] = "reserved" => ticketKpi[t] = "reserved"

\* A ticket becomes reserved only out of available stock of an event that is
\* published at that moment, although the status of both was tested several
\* statements earlier.
ReservedFromPublishedStock ==
    [][\A t \in Tickets :
          status[t] # "reserved" /\ status'[t] = "reserved"
              => Reservable(t)]_vars

Commits(w) ==
    /\ session[w].pc \in {"commit", "commit_event", "commit_batch", "cascade"}
    /\ session'[w].pc = "refresh" \/ session'[w] = Closed(204)

\* Once an event's deletion is committed, nothing about it or its tickets is,
\* and so nothing enters the KPI feed, but the EVENT_DELETED of a delete that was
\* under way as well: any other session that looked the row up before fails.  In
\* the order of occurred_at that is not so: the rows of whoever committed after
\* the delete had loaded the tickets come after its EVENT_DELETED.
NothingAfterDeletion ==
    [][\A e \in Events : eventStatus[e] = "deleted" =>
          /\ \A w \in Workers : session[w].event = e /\ Commits(w) => session[w].op = "delete"
          /\ \A t \in Tickets : EventOf[t] = e =>
                ticketKpi'[t] = ticketKpi[t] /\ status'[t] = status[t]]_vars

\* The status of an event moves only to one that a client asked for in place of
\* the one it saw: an update that changes other columns, or sends the status
\* back as it was, does not undo what another update committed in between.
StatusNotReverted ==
    [][\A e \in Events : EventExists(e) /\ eventStatus'[e] \notin {eventStatus[e], "deleted"} =>
          \E w \in Workers : /\ session[w].op = "update" /\ session[w].event = e
                             /\ eventStatus'[e] = session[w].want
                             /\ session[w].want # session[w].loaded]_vars

\* A request fails with 500 only for a status that is no EventStatus, after a
\* fault, in a deadlock, or because the event is gone.
ServerErrorsExplained ==
    [][\A w \in Workers :
          session[w].pc # "idle" /\ session'[w] = Closed(500) =>
              \/ faults' # faults
              \/ \E S \in WaitCycles : w \in S
              \/ eventStatus[session[w].event] = "deleted"]_vars

From(op) == IF op = "reserve" THEN "available" ELSE Required(op)

\* A request that is answered with success did what it says, unless another one
\* committed a change between the load it decided on and its own commit: the
\* ticket made the transition from the status the operation starts from (so no
\* ticket is used twice), the event has the status the client sent, a delete that
\* answers 204 is the one that removed the event, and the feed says so.
CommitsAsRequested ==
    [][\A w \in Workers : LET s == session[w] IN
          Commits(w) /\ overtaken[w] = "never" =>
              CASE s.pc = "commit" ->
                      /\ status[s.ticket] = From(s.op)
                      /\ status'[s.ticket] = Target(s.op)
                      /\ KpiLogging => ticketKpi'[s.ticket] = Target(s.op)
                [] s.pc = "commit_event" ->
                      /\ eventStatus'[s.event] = s.want
                      /\ KpiLogging => eventKpi'[s.event] = s.want
                [] s.pc = "cascade" ->
                      /\ EventExists(s.event)
                      /\ KpiLogging => eventKpi'[s.event] = "deleted"
                [] OTHER -> TRUE]_vars

\* A 409 is true when it is sent: the ticket could not have made the transition
\* the client asked for.  For a reserve, which tests the row under its lock, that
\* is always so; a sell, use or cancel tests what it loaded, and is wrong if
\* another transaction has committed since.
RefusalsTrue ==
    [][\A w \in Workers :
          session[w].pc # "idle" /\ session'[w] = Closed(409) =>
              LET t == session[w].ticket IN
              IF session[w].op = "reserve" THEN ~Reservable(t)
              ELSE overtaken[w] = "never" => status[t] # Required(session[w].op)]_vars

\* A reserve that is answered leaves the ticket reserved.
ReserveTakesEffect ==
    [][\A w \in Workers :
          session[w].pc = "commit" /\ session[w].op = "reserve" /\ session'[w].pc = "refresh"
              => status'[session[w].ticket] = "reserved"]_vars

\* Every request is answered, whatever other sessions lock.
Answered == \A w \in Workers : session[w].pc # "idle" ~> session[w].pc = "idle"

\* A reservation ends: it is sold, cancelled, deleted or expired.
HoldsEnd == \A t \in Tickets : status[t] = "reserved" ~> status[t] # "reserved"

=============================================================================
