---------------------------- MODULE KpiSnapshot ----------------------------
(***************************************************************************)
(* KPIService.build_snapshot over the tables of Inventory.  It sends one   *)
(* statement, so it reads what is committed at one moment, and adds the    *)
(* groups up in Python.                                                    *)
(***************************************************************************)
EXTENDS Inventory, FiniteSetsExt

CONSTANT CategoryOf     \* tickets.category

\* A key is a UUID: there are 2^128 of them.
ASSUME KeysAssumption == IsFiniteSet(Tickets)

Counters == TicketStatuses \cup {"total"}

\* WHERE event_id = e, or no filter.
Chosen(e) == {t \in Tickets : TicketExists(t) /\ (e = None \/ EventOf[t] = e)}

\* SELECT category, status, count(id) ... GROUP BY category, status
Grouped(e) ==
    {[category |-> CategoryOf[t],
      status |-> status[t],
      count |-> Cardinality({u \in Chosen(e) : /\ CategoryOf[u] = CategoryOf[t]
                                               /\ status[u] = status[t]})] : t \in Chosen(e)}

\* counts.get(s, 0): a group nobody is in has no row.
CountOf(groups, category, s) ==
    LET rowsOf == {g \in groups : g.category = category /\ g.status = s}
    IN IF rowsOf = {} THEN 0 ELSE (CHOOSE g \in rowsOf : TRUE).count

\* Seeded bug: used tickets are left out of the total.
UnusedCounts(groups, category) ==
    LET counts == [s \in TicketStatuses |-> CountOf(groups, category, s)] IN
    [k \in Counters |->
        IF k = "total" THEN counts["available"] + counts["reserved"] + counts["sold"]
        ELSE counts[k]]
CategoryCounts(groups, category) ==
    LET counts == [s \in TicketStatuses |-> CountOf(groups, category, s)] IN
    [k \in Counters |->
        IF k = "total"
        THEN counts["available"] + counts["reserved"] + counts["sold"] + counts["used"]
        ELSE counts[k]]

\* total_counts: one counter, added up category by category.
SumOf(by_category, k) ==
    MapThenSumSet(LAMBDA c : by_category[c][k], DOMAIN by_category)

Snapshot(e, enabled) ==
    LET groups == IF enabled THEN Grouped(e) ELSE {}
        by_category == [c \in {g.category : g \in groups} |-> CategoryCounts(groups, c)]
    IN [enabled |-> enabled,
        by_category |-> by_category,
        counts |-> [k \in Counters |-> SumOf(by_category, k)]]

-----------------------------------------------------------------------------
(* Properties *)

\* The counts, which pass through the groups of the statement, a dictionary
\* with defaults and sums over categories, are those of the table, with and
\* without the event filter; a category is listed if it has tickets.
SnapshotExact ==
    \A e \in Events \cup {None} :
        LET snapshot == Snapshot(e, TRUE) IN
        /\ snapshot.counts["total"] = Cardinality(Chosen(e))
        /\ \A s \in TicketStatuses :
              snapshot.counts[s] = Cardinality({t \in Chosen(e) : status[t] = s})
        /\ \A t \in Chosen(e) :
              snapshot.by_category[CategoryOf[t]]["total"] =
                  Cardinality({u \in Chosen(e) : CategoryOf[u] = CategoryOf[t]})
        /\ DOMAIN snapshot.by_category = {CategoryOf[t] : t \in Chosen(e)}

Total(e) == Snapshot(e, TRUE).counts["total"]

\* From one snapshot of an event to the next, tickets come only in whole
\* batches and go only with the event: whatever requests, expiry and the stale
\* writes between them do to a ticket, it stays in one of the four counts.
StockConserved ==
    [][status' # status => \A e \in Events : Total(e)' # Total(e) =>
          \/ eventStatus'[e] = "deleted" /\ Total(e)' = 0
          \/ \E w \in Workers :
                /\ session[w].event = e
                /\ session[w].pc = "commit_batch" /\ session'[w].pc = "refresh"
                /\ Total(e)' = Total(e) + Cardinality(session[w].batch)]_vars

=============================================================================
