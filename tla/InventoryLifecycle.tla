------------------------- MODULE InventoryLifecycle -------------------------
(***************************************************************************)
(* Inventory as an implementation of TicketLifecycle: without restriction  *)
(* it is none, since requests for one ticket overlap; when requests for    *)
(* one ticket, and changes of one event, take turns, it is.                *)
(***************************************************************************)
EXTENDS Inventory

\* Everybody who is at work on the ticket t: open requests for it and the
\* loop that is about to expire it.
Parties(t) ==
    {w \in Workers : session[w].ticket = t} \cup {s \in Sweepers : rowLock[t] = s}

\* Everybody who is changing the event e itself.
EventParties(e) ==
    {w \in Workers : session[w].event = e /\ session[w].op \in {"create", "update", "delete"}}

OneAtATime ==
    /\ \A t \in Tickets : Cardinality(Parties(t)) <= 1
    /\ \A e \in Events : Cardinality(EventParties(e)) <= 1

\* Clients that take turns on every ticket, with each other and with expiry,
\* and on every event; requests for an event and for its tickets overlap.
SerialSpec == Init /\ [][Next /\ OneAtATime']_vars

Promise == INSTANCE TicketLifecycle WITH Tickets <- Tickets, status <- status

\* The statuses of the tickets go through the life cycle of TicketLifecycle,
\* in the order of README.md:24, and nothing else happens to them.
KeepsLifecycle == Promise!Spec

\* Without overlap the KPI feed is exact: the latest row about a ticket or an
\* event names its status.
FeedExact ==
    KpiLogging =>
        /\ \A t \in Tickets : TicketExists(t) =>
              \/ ticketKpi[t] = status[t]
              \/ status[t] = "available" /\ ticketKpi[t] = "none"
        /\ \A e \in Events : EventExists(e) => eventKpi[e] = eventStatus[e]

=============================================================================
