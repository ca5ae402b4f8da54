--------------------------- MODULE SnapshotProofs ---------------------------
(***************************************************************************)
(* Proofs about KpiSnapshot: the counters of a snapshot are those of the   *)
(* tables, and between two snapshots tickets come in batches and go with   *)
(* their event.                                                            *)
(***************************************************************************)
EXTENDS KpiSnapshot, InventoryProofs, FiniteSetTheorems

-----------------------------------------------------------------------------
(* Sums and groups *)

\* The category the loop takes next.
Pick(s) == CHOOSE x \in s : TRUE

\* The loop over the categories computes f, whatever f satisfies its equation.
LEMMA SumIs ==
    ASSUME NEW by, NEW k, IsFiniteSet(DOMAIN by), NEW f \in [SUBSET DOMAIN by -> Nat],
           f[{}] = 0,
           \A s \in SUBSET DOMAIN by : s # {} => f[s] = by[Pick(s)][k] + f[s \ {Pick(s)}]
    PROVE  SumOf(by, k) = f[DOMAIN by]
<1> DEFINE C == DOMAIN by
           Loop(g) == [s \in SUBSET C |->
                         IF s = {} THEN 0 ELSE by[Pick(s)][k] + g[s \ {Pick(s)}]]
           iter == CHOOSE g : g = Loop(g)
<1>1. SumOf(by, k) = iter[C]
  BY DEF SumOf, MapThenSumSet, MapThenFoldSet, Pick
<1>2. f = Loop(f)
  OBVIOUS
<1>3. iter = Loop(iter)
  <2> HIDE DEF Loop
  <2> QED
    BY <1>2
<1> DEFINE Bad == {s \in SUBSET C : iter[s] # f[s]}
<1> HIDE DEF iter
<1>4. Bad = {}
  <2> SUFFICES ASSUME Bad # {} PROVE FALSE
    OBVIOUS
  <2>1. Bad \subseteq FiniteSubsetsOf(C)
    BY FS_Subset DEF FiniteSubsetsOf
  <2>2. PICK s \in Bad : \A r \in Bad : ~(<<r, s>> \in StrictSubsetOrdering(C))
    <3> HIDE DEF Bad
    <3> QED
      BY <2>1, WFMin, FS_StrictSubsetOrderingWellFounded
  <2>3. s # {}
    BY <1>3
  <2>4. Pick(s) \in s
    BY <2>3 DEF Pick
  <2>5. s \ {Pick(s)} \notin Bad
    <3>1. s \in SUBSET C
      OBVIOUS
    <3> HIDE DEF Bad, C
    <3>2. <<s \ {Pick(s)}, s>> \in StrictSubsetOrdering(C)
      BY <2>4, <3>1 DEF StrictSubsetOrdering
    <3> QED
      BY <2>2, <3>2
  <2>6. iter[s] = by[Pick(s)][k] + iter[s \ {Pick(s)}]
    BY <1>3, <2>3
  <2>7. iter[s \ {Pick(s)}] = f[s \ {Pick(s)}]
    BY <2>5
  <2> QED
    BY <2>3, <2>6, <2>7
<1> QED
  BY <1>1, <1>4

\* A set of tickets is counted part by part.
LEMMA Parts ==
    ASSUME NEW T, IsFiniteSet(T), NEW A \in SUBSET T, NEW B \in SUBSET T,
           A \cap B = {}, A \cup B = T
    PROVE  /\ Cardinality(T) = Cardinality(A) + Cardinality(B)
           /\ Cardinality(T) \in Nat /\ Cardinality(A) \in Nat /\ Cardinality(B) \in Nat
<1>1. IsFiniteSet(A) /\ IsFiniteSet(B)
  BY FS_Subset
<1>2. Cardinality(A \cup B) = Cardinality(A) + Cardinality(B) - Cardinality(A \cap B)
  BY <1>1, FS_Union
<1>3. Cardinality(A \cap B) = 0
  BY FS_EmptySet
<1>4. Cardinality(T) \in Nat /\ Cardinality(A) \in Nat /\ Cardinality(B) \in Nat
  BY <1>1, FS_CardinalityType
<1>5. Cardinality(T) = Cardinality(A) + Cardinality(B) - 0
  BY <1>2, <1>3
<1> QED
  BY <1>4, <1>5

\* A counter that holds, for each category, how many tickets of T are in it,
\* adds up to the number of tickets in T.
LEMMA SumCounts ==
    ASSUME NEW T \in SUBSET Tickets, NEW by, NEW k, IsFiniteSet(DOMAIN by),
           \A t \in T : CategoryOf[t] \in DOMAIN by,
           \A c \in DOMAIN by : by[c][k] = Cardinality({t \in T : CategoryOf[t] = c})
    PROVE  SumOf(by, k) = Cardinality(T)
<1> DEFINE C == DOMAIN by
           In(s) == {t \in T : CategoryOf[t] \in s}
           f == [s \in SUBSET C |-> Cardinality(In(s))]
<1>0. IsFiniteSet(T)
  BY KeysAssumption, FS_Subset
<1>1. \A s \in SUBSET C : Cardinality(In(s)) \in Nat
  BY <1>0, FS_Subset, FS_CardinalityType
<1>2. f \in [SUBSET C -> Nat]
  BY <1>1
<1>3. f[{}] = 0
  <2>1. In({}) = {}
    OBVIOUS
  <2> QED
    BY <2>1, FS_EmptySet
<1>4. ASSUME NEW s \in SUBSET C, s # {}
      PROVE  f[s] = by[Pick(s)][k] + f[s \ {Pick(s)}]
  <2> DEFINE c == Pick(s)
             A == {t \in T : CategoryOf[t] = c}
             B == In(s \ {c})
  <2>1. c \in s
    BY <1>4 DEF Pick
  <2>2. s \ {c} \in SUBSET C
    OBVIOUS
  <2> HIDE DEF c
  <2>3. IsFiniteSet(In(s)) /\ A \in SUBSET In(s) /\ B \in SUBSET In(s)
        /\ A \cap B = {} /\ A \cup B = In(s)
    BY <1>0, <2>1, FS_Subset
  <2>4. Cardinality(In(s)) = Cardinality(A) + Cardinality(B)
    <3> HIDE DEF A, B, In
    <3> QED
      BY <2>3, Parts
  <2>5. by[c][k] = Cardinality(A)
    BY <2>1
  <2>6. f[s] = by[c][k] + f[s \ {c}]
    BY <2>2, <2>4, <2>5
  <2> QED
    BY <2>6 DEF c
<1>5. SumOf(by, k) = f[C]
  <2> HIDE DEF f
  <2>1. \A s \in SUBSET C : s # {} => f[s] = by[Pick(s)][k] + f[s \ {Pick(s)}]
    BY <1>4
  <2> QED
    BY <1>2, <1>3, <2>1, SumIs
<1>6. In(C) = T
  OBVIOUS
<1> QED
  BY <1>5, <1>6

\* A group of the statement counts the tickets of its category and status, and
\* the default stands for the groups that are not there.
LEMMA CountOfIs ==
    ASSUME NEW e, NEW c, NEW s
    PROVE  CountOf(Grouped(e), c, s) =
              Cardinality({u \in Chosen(e) : CategoryOf[u] = c /\ status[u] = s})
<1> DEFINE N == Cardinality({u \in Chosen(e) : CategoryOf[u] = c /\ status[u] = s})
           rowsOf == {g \in Grouped(e) : g.category = c /\ g.status = s}
<1> DEFINE group(t) ==
      [category |-> CategoryOf[t],
       status |-> status[t],
       count |-> Cardinality({u \in Chosen(e) : /\ CategoryOf[u] = CategoryOf[t]
                                                /\ status[u] = status[t]})]
<1>0. Grouped(e) = {group(t) : t \in Chosen(e)}
  BY DEF Grouped
<1>1. ASSUME NEW g \in rowsOf PROVE g.count = N
  <2>1. PICK t \in Chosen(e) : g = group(t)
    BY <1>0
  <2>2. CategoryOf[t] = c /\ status[t] = s
    BY <2>1
  <2> QED
    BY <2>1, <2>2
<1>2. CASE rowsOf = {}
  <2>1. ASSUME NEW u \in Chosen(e), CategoryOf[u] = c, status[u] = s PROVE FALSE
    <3>1. group(u) \in Grouped(e)
      BY <1>0
    <3> QED
      BY <1>2, <2>1, <3>1
  <2>2. {u \in Chosen(e) : CategoryOf[u] = c /\ status[u] = s} = {}
    BY <2>1
  <2> QED
    BY <1>2, <2>2, FS_EmptySet DEF CountOf
<1>3. CASE rowsOf # {}
  BY <1>1, <1>3 DEF CountOf
<1> QED
  BY <1>2, <1>3

\* The counts of a category are those of its tickets, one status each.
LEMMA CategoryCountsAre ==
    ASSUME TypeOK, NEW e, NEW c
    PROVE  /\ \A s \in TicketStatuses : CategoryCounts(Grouped(e), c)[s] =
                 Cardinality({u \in Chosen(e) : CategoryOf[u] = c /\ status[u] = s})
           /\ CategoryCounts(Grouped(e), c)["total"] =
                 Cardinality({u \in Chosen(e) : CategoryOf[u] = c})
<1> DEFINE Of(s) == {u \in Chosen(e) : CategoryOf[u] = c /\ status[u] = s}
           T == {u \in Chosen(e) : CategoryOf[u] = c}
<1>1. \A s \in TicketStatuses : CategoryCounts(Grouped(e), c)[s] = Cardinality(Of(s))
  BY CountOfIs DEF CategoryCounts, Counters, TicketStatuses
<1>2. CategoryCounts(Grouped(e), c)["total"] =
         Cardinality(Of("available")) + Cardinality(Of("reserved"))
            + Cardinality(Of("sold")) + Cardinality(Of("used"))
  BY CountOfIs DEF CategoryCounts, Counters, TicketStatuses
<1>3. T \subseteq Tickets /\ IsFiniteSet(T)
  BY KeysAssumption, FS_Subset DEF Chosen
<1>4. \A u \in T : status[u] \in TicketStatuses
  BY DEF Chosen, TicketExists, TypeOK
<1> DEFINE Two == Of("available") \cup Of("reserved")
           Three == Two \cup Of("sold")
<1>5. Two \subseteq T /\ Three \subseteq T /\ IsFiniteSet(Two) /\ IsFiniteSet(Three)
  BY <1>3, FS_Subset
<1>6. Cardinality(Two) = Cardinality(Of("available")) + Cardinality(Of("reserved"))
  <2>1. Of("available") \cap Of("reserved") = {}
    OBVIOUS
  <2> HIDE DEF Of
  <2> QED
    BY <1>5, <2>1, Parts
<1>7. Cardinality(Three) = Cardinality(Two) + Cardinality(Of("sold"))
  <2>1. Two \cap Of("sold") = {} /\ Two \cup Of("sold") = Three
    OBVIOUS
  <2>2. Two \in SUBSET Three /\ Of("sold") \in SUBSET Three
    OBVIOUS
  <2> HIDE DEF Of, Two, Three
  <2> QED
    BY <1>5, <2>1, <2>2, Parts
<1>8. Cardinality(T) = Cardinality(Three) + Cardinality(Of("used"))
  <2>1. Three \cup Of("used") = T
    BY <1>4 DEF TicketStatuses
  <2> QED
    BY <1>3, <1>5, <2>1, Parts
<1> QED
  BY <1>1, <1>2, <1>6, <1>7, <1>8

\* A snapshot lists the categories that have tickets, finitely many.
LEMMA Categories ==
    ASSUME NEW e
    PROVE  /\ DOMAIN Snapshot(e, TRUE).by_category = {CategoryOf[t] : t \in Chosen(e)}
           /\ IsFiniteSet({CategoryOf[t] : t \in Chosen(e)})
           /\ \A c \in {CategoryOf[t] : t \in Chosen(e)} :
                 Snapshot(e, TRUE).by_category[c] = CategoryCounts(Grouped(e), c)
<1> DEFINE C == {CategoryOf[t] : t \in Chosen(e)}
<1>1. {g.category : g \in Grouped(e)} = C
  <2> DEFINE group(t) ==
        [category |-> CategoryOf[t],
         status |-> status[t],
         count |-> Cardinality({u \in Chosen(e) : /\ CategoryOf[u] = CategoryOf[t]
                                                  /\ status[u] = status[t]})]
  <2>1. Grouped(e) = {group(t) : t \in Chosen(e)}
    BY DEF Grouped
  <2>2. \A t : group(t).category = CategoryOf[t]
    OBVIOUS
  <2> HIDE DEF group
  <2> QED
    BY <2>1, <2>2
<1>2. Snapshot(e, TRUE).by_category = [c \in C |-> CategoryCounts(Grouped(e), c)]
  BY <1>1 DEF Snapshot
<1>3. IsFiniteSet(C)
  <2>1. [t \in Chosen(e) |-> CategoryOf[t]] \in Surjection(Chosen(e), C)
    BY DEF Surjection
  <2>2. IsFiniteSet(Chosen(e))
    BY KeysAssumption, FS_Subset DEF Chosen
  <2> QED
    BY <2>1, <2>2, FS_Surjection
<1> QED
  BY <1>2, <1>3

\* The counters of a snapshot, for one event or for all of them.
LEMMA SnapshotIs ==
    ASSUME TypeOK, NEW e
    PROVE  /\ Snapshot(e, TRUE).counts["total"] = Cardinality(Chosen(e))
           /\ \A s \in TicketStatuses :
                 Snapshot(e, TRUE).counts[s] = Cardinality({t \in Chosen(e) : status[t] = s})
           /\ \A t \in Chosen(e) :
                 Snapshot(e, TRUE).by_category[CategoryOf[t]]["total"] =
                     Cardinality({u \in Chosen(e) : CategoryOf[u] = CategoryOf[t]})
<1> DEFINE by == Snapshot(e, TRUE).by_category
           C == {CategoryOf[t] : t \in Chosen(e)}
<1>1. DOMAIN by = C /\ IsFiniteSet(C)
  BY Categories
<1>2. \A c \in C : by[c] = CategoryCounts(Grouped(e), c)
  BY Categories
<1>3. \A k \in Counters : Snapshot(e, TRUE).counts[k] = SumOf(by, k)
  BY DEF Snapshot
<1> HIDE DEF by
<1>4. Chosen(e) \in SUBSET Tickets
  BY DEF Chosen
<1>5. SumOf(by, "total") = Cardinality(Chosen(e))
  <2>1. \A c \in DOMAIN by : by[c]["total"] = Cardinality({t \in Chosen(e) : CategoryOf[t] = c})
    BY <1>1, <1>2, CategoryCountsAre
  <2>2. \A t \in Chosen(e) : CategoryOf[t] \in DOMAIN by
    BY <1>1
  <2> QED
    BY <1>1, <1>4, <2>1, <2>2, SumCounts
<1>6. ASSUME NEW s \in TicketStatuses
      PROVE  SumOf(by, s) = Cardinality({t \in Chosen(e) : status[t] = s})
  <2> DEFINE T == {t \in Chosen(e) : status[t] = s}
  <2>1. \A c \in DOMAIN by : by[c][s] = Cardinality({t \in T : CategoryOf[t] = c})
    <3> SUFFICES ASSUME NEW c \in DOMAIN by
                 PROVE  by[c][s] = Cardinality({t \in T : CategoryOf[t] = c})
      OBVIOUS
    <3>1. {t \in T : CategoryOf[t] = c} = {t \in Chosen(e) : CategoryOf[t] = c /\ status[t] = s}
      OBVIOUS
    <3>2. CategoryCounts(Grouped(e), c)[s] =
             Cardinality({t \in Chosen(e) : CategoryOf[t] = c /\ status[t] = s})
      BY CountOfIs DEF CategoryCounts, Counters, TicketStatuses
    <3>3. by[c] = CategoryCounts(Grouped(e), c)
      BY <1>1, <1>2
    <3> QED
      BY <3>1, <3>2, <3>3
  <2>2. \A t \in T : CategoryOf[t] \in DOMAIN by
    BY <1>1
  <2>3. T \in SUBSET Tickets
    BY <1>4
  <2> HIDE DEF T
  <2>4. SumOf(by, s) = Cardinality(T)
    BY <1>1, <2>1, <2>2, <2>3, SumCounts
  <2> QED
    BY <2>4 DEF T
<1>7. \A t \in Chosen(e) : by[CategoryOf[t]]["total"] =
         Cardinality({u \in Chosen(e) : CategoryOf[u] = CategoryOf[t]})
  BY <1>2, CategoryCountsAre
<1> QED
  BY <1>3, <1>5, <1>6, <1>7 DEF by, Counters

-----------------------------------------------------------------------------
(* Theorems *)

\* A snapshot is exact whatever the tables hold.
LEMMA TypedExact == TypeOK => SnapshotExact
  BY SnapshotIs, Categories DEF SnapshotExact

\* What KPIService.build_snapshot answers is what the table holds, for every
\* number of events, categories and tickets (kpi_service.py:46-103).
THEOREM SnapshotCorrect == Spec => []SnapshotExact
  BY TypedExact, TypeCorrect, PTL

\* The total of an event is the number of its tickets.
TotalsCounted ==
    \A e \in Events : Total(e) = Cardinality(TicketsOf(e)) /\ IsFiniteSet(TicketsOf(e))

\* It is in every state, so before a step and after it.
LEMMA TotalIs == TypeOK => TotalsCounted
<1> SUFFICES ASSUME TypeOK, NEW e \in Events
             PROVE  Total(e) = Cardinality(TicketsOf(e)) /\ IsFiniteSet(TicketsOf(e))
  BY DEF TotalsCounted
<1>1. Chosen(e) = TicketsOf(e)
  BY NoneAssumption DEF Chosen, TicketsOf
<1>2. Total(e) = Cardinality(Chosen(e))
  BY SnapshotIs DEF Total
<1>3. IsFiniteSet(TicketsOf(e))
  BY KeysAssumption, FS_Subset DEF TicketsOf
<1> QED
  BY <1>1, <1>2, <1>3

\* A commit about a ticket, and an expiry, leave a ticket where it is counted.
LEMMA SameTickets ==
    ASSUME IInv, NEW e \in Events,
           \/ UNCHANGED status
           \/ \E w \in Workers : CommitTicket(w)
           \/ \E s \in Sweepers : SweepCommit(s)
    PROVE  TicketsOf(e)' = TicketsOf(e)
<1>0. TypeOK
  BY DEF IInv
<1>1. CASE UNCHANGED status
  BY <1>1 DEF TicketsOf, TicketExists
<1>2. ASSUME NEW w \in Workers, CommitTicket(w) PROVE TicketsOf(e)' = TicketsOf(e)
  <2>1. session[w].ticket \in Tickets /\ TicketExists(session[w].ticket) /\ session[w].op \in TicketOps
    BY <1>2, CommitTicketFacts
  <2>2. Target(session[w].op) \notin Absent
    BY <2>1 DEF Target, TicketOps, Absent
  <2>3. status'[session[w].ticket] \notin Absent
    BY <1>0, <1>2, <2>1, <2>2 DEF CommitTicket, Flushed, TicketExists, TypeOK
  <2>4. \A t \in Tickets \ {session[w].ticket} : status'[t] = status[t]
    BY <1>2, CommitTicketFacts
  <2> QED
    BY <2>1, <2>3, <2>4 DEF TicketsOf, TicketExists
<1>3. ASSUME NEW s \in Sweepers, SweepCommit(s) PROVE TicketsOf(e)' = TicketsOf(e)
  <2>1. \A t \in Held(s) : TicketExists(t)
    BY DEF IInv, SweepHoldsLapsed, TicketExists, Absent
  <2>2. \A t \in Tickets : status'[t] = IF t \in Held(s) THEN "available" ELSE status[t]
    BY <1>3 DEF SweepCommit
  <2> QED
    BY <2>1, <2>2 DEF TicketsOf, TicketExists, Absent
<1> QED
  BY <1>1, <1>2, <1>3

\* A batch adds its tickets, all of them, to its event.
LEMMA BatchAdds ==
    ASSUME IInv, NEW w \in Workers, CommitBatch(w), NEW e \in Events
    PROVE  IF session[w].event = e
           THEN TicketsOf(e)' = TicketsOf(e) \cup session[w].batch
                /\ TicketsOf(e) \cap session[w].batch = {}
           ELSE TicketsOf(e)' = TicketsOf(e)
<1>1. \A t \in session[w].batch : t \in Tickets /\ status[t] = "unminted" /\ EventOf[t] = session[w].event
  BY DEF CommitBatch, IInv, SessionOK, BatchFresh, InsertSteps, TypeOK, Sessions
<1>2. \A t \in Tickets : status'[t] = IF t \in session[w].batch THEN "available" ELSE status[t]
  BY DEF CommitBatch
<1> QED
  BY <1>1, <1>2 DEF TicketsOf, TicketExists, Absent

\* A delete leaves no ticket of its event, and those of the others alone.
LEMMA DeleteEmpties ==
    ASSUME IInv, NEW w \in Workers, CommitDelete(w), NEW e \in Events
    PROVE  IF session[w].event = e
           THEN TicketsOf(e)' = {} /\ eventStatus'[e] = "deleted"
           ELSE TicketsOf(e)' = TicketsOf(e)
<1> DEFINE gone == TicketsOf(session[w].event) \cap Held(w)
<1>1. \A t \in Tickets : status'[t] = IF t \in gone THEN "deleted" ELSE status[t]
  BY DEF CommitDelete
<1>2. gone = TicketsOf(session[w].event)
  BY DEF CommitDelete, LeftOver, TicketsOf, Held
<1>3. CASE session[w].event = e
  <2>1. eventStatus'[e] = "deleted"
    BY <1>3 DEF CommitDelete, IInv, TypeOK
  <2> QED
    BY <1>1, <1>2, <1>3, <2>1 DEF TicketsOf, TicketExists, Absent
<1>4. CASE session[w].event # e
  BY <1>1, <1>2, <1>4 DEF TicketsOf, TicketExists, Absent
<1> QED
  BY <1>3, <1>4

\* Whatever requests, expiry and stale writes do to tickets, the total of an
\* event changes only by a whole batch, and becomes 0 with the event
\* (kpi_service.py:46-103, ticket_service.py:20-53, event_service.py:103-117).
THEOREM StockIsConserved == Spec => StockConserved
<1> DEFINE Conserved(e) ==
      Total(e)' # Total(e) =>
          \/ eventStatus'[e] = "deleted" /\ Total(e)' = 0
          \/ \E w \in Workers :
                /\ session[w].event = e
                /\ session[w].pc = "commit_batch" /\ session'[w].pc = "refresh"
                /\ Total(e)' = Total(e) + Cardinality(session[w].batch)
<1>1. ASSUME IInv, [Next]_vars, TypeOK', NEW e \in Events PROVE Conserved(e)
  <2>0. TypeOK
    BY <1>1 DEF IInv
  <2>1. Total(e) = Cardinality(TicketsOf(e)) /\ IsFiniteSet(TicketsOf(e))
    BY <2>0, TotalIs DEF TotalsCounted
  <2>2. Total(e)' = Cardinality(TicketsOf(e)') /\ IsFiniteSet(TicketsOf(e)')
    <3>1. TypeOK' => TotalsCounted'
      BY TotalIs, PTL
    <3> QED
      BY <1>1, <3>1 DEF TotalsCounted
  <2>3. CASE TicketsOf(e)' = TicketsOf(e)
    BY <2>1, <2>2, <2>3
  <2>4. ASSUME NEW w \in Workers, CommitBatch(w), session[w].event = e PROVE Conserved(e)
    <3>1. TicketsOf(e)' = TicketsOf(e) \cup session[w].batch /\ TicketsOf(e) \cap session[w].batch = {}
      BY <1>1, <2>4, BatchAdds
    <3>2. Cardinality(TicketsOf(e)') = Cardinality(TicketsOf(e)) + Cardinality(session[w].batch)
      BY <2>2, <3>1, Parts
    <3>3. session[w].pc = "commit_batch" /\ session'[w].pc = "refresh"
      BY <2>0, <2>4, GotoFacts DEF CommitBatch, Steps
    <3> QED
      BY <2>1, <2>2, <2>4, <3>2, <3>3
  <2>5. ASSUME NEW w \in Workers, CommitDelete(w), session[w].event = e PROVE Conserved(e)
    <3>1. TicketsOf(e)' = {} /\ eventStatus'[e] = "deleted"
      BY <1>1, <2>5, DeleteEmpties
    <3> QED
      BY <2>2, <3>1, FS_EmptySet
  <2>6. ASSUME NEW w \in Workers, CommitEvent(w) PROVE UNCHANGED status
    BY <2>6 DEF CommitEvent
  <2>7. ASSUME NEW w \in Workers, NEW f \in Events, CreateEvent(w, f) PROVE UNCHANGED status
    BY <2>7 DEF CreateEvent
  <2> HIDE DEF Conserved
  <2>8. ASSUME NEW w \in Workers, CommitBatch(w) \/ CommitDelete(w) PROVE Conserved(e)
    BY <1>1, <2>3, <2>4, <2>5, <2>8, BatchAdds, DeleteEmpties
  <2> QED
    BY <1>1, <2>3, <2>6, <2>7, <2>8, SameTickets, WhoWrites
<1>2. IInv /\ [Next]_vars /\ TypeOK' => [status' # status => \A e \in Events : Conserved(e)]_vars
  BY <1>1
<1> QED
  BY <1>2, Invariance, TypeCorrect, PTL DEF Spec, StockConserved

=============================================================================
