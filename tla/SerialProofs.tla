---------------------------- MODULE SerialProofs ----------------------------
(***************************************************************************)
(* What Inventory does when requests take turns, for every value of the    *)
(* constants: above all, that it implements TicketLifecycle.               *)
(***************************************************************************)
EXTENDS SerialInvariant, AnswerProofs

-----------------------------------------------------------------------------
(* Turns *)

\* A set with at most one element has at most one element.
LEMMA AtMostOne ==
    ASSUME NEW S, IsFiniteSet(S), Cardinality(S) <= 1, NEW p \in S, NEW q \in S
    PROVE  p = q
<1> SUFFICES ASSUME p # q PROVE FALSE
  OBVIOUS
<1>1. IsFiniteSet({p}) /\ Cardinality({p}) = 1
  BY FS_Singleton
<1>2. Cardinality({p} \cup {q}) = Cardinality({p}) + 1
  <2>1. q \notin {p}
    OBVIOUS
  <2> QED
    BY <1>1, <2>1, FS_AddElement
<1>3. {p} \cup {q} \subseteq S
  OBVIOUS
<1>4. Cardinality({p} \cup {q}) <= Cardinality(S)
  BY <1>3, FS_Subset
<1>5. Cardinality(S) \in Nat
  BY FS_CardinalityType
<1> QED
  BY <1>1, <1>2, <1>4, <1>5

\* Nobody else is at work on a ticket that somebody is at work on.
LEMMA Alone ==
    ASSUME SInv, NEW t \in Tickets, NEW p \in Parties(t), NEW q \in Parties(t)
    PROVE  p = q
<1>1. Cardinality(Parties(t)) <= 1
  BY DEF SInv, OneAtATime
<1>2. IsFiniteSet({w \in Workers : session[w].ticket = t})
  BY ProcessAssumption, FS_Subset
<1>3. IsFiniteSet({rowLock[t]})
  BY FS_Singleton
<1>4. IsFiniteSet({s \in Sweepers : rowLock[t] = s})
  <2>1. {s \in Sweepers : rowLock[t] = s} \subseteq {rowLock[t]}
    OBVIOUS
  <2> QED
    BY <1>3, <2>1, FS_Subset
<1>5. IsFiniteSet(Parties(t))
  BY <1>2, <1>4, FS_Union DEF Parties
<1> QED
  BY <1>1, <1>5, AtMostOne

\* Two requests for one ticket are one.
LEMMA TicketAlone ==
    ASSUME SInv, NEW v \in Workers, NEW w \in Workers,
           session[w].ticket \in Tickets, session[v].ticket = session[w].ticket
    PROVE  v = w
  BY Alone DEF Parties

\* No request is at work on a ticket that a loop is about to free.
LEMMA SweeperAlone ==
    ASSUME SInv, NEW v \in Workers, NEW s \in Sweepers, NEW t \in Held(s)
    PROVE  session[v].ticket # t
<1> SUFFICES ASSUME session[v].ticket = t PROVE FALSE
  OBVIOUS
<1>1. t \in Tickets /\ v \in Parties(t) /\ s \in Parties(t)
  BY DEF Held, Parties
<1> QED
  BY <1>1, Alone, ProcessAssumption

\* Two requests that change one event are one.
LEMMA EventAlone ==
    ASSUME SInv, NEW v \in Workers, NEW w \in Workers,
           session[w].event \in Events, session[v].event = session[w].event,
           session[v].op \in {"create", "update", "delete"},
           session[w].op \in {"create", "update", "delete"}
    PROVE  v = w
<1> DEFINE e == session[w].event
<1>1. Cardinality(EventParties(e)) <= 1
  BY DEF SInv, OneAtATime
<1>2. IsFiniteSet(EventParties(e))
  BY ProcessAssumption, FS_Subset DEF EventParties
<1>3. v \in EventParties(e) /\ w \in EventParties(e)
  BY DEF EventParties
<1> QED
  BY <1>1, <1>2, <1>3, AtMostOne

-----------------------------------------------------------------------------
(* Nobody is overtaken *)

\* Nobody but w is at work on what w commits.
LEMMA NobodyOvertaken ==
    ASSUME SInv, NEW V, NEW w \in Workers, V \subseteq {w},
           overtaken' = [Overtaking(V) EXCEPT ![w] = "never"]
    PROVE  \A v \in Workers : overtaken'[v] = "never"
<1>1. \A v \in Workers : v # w => overtaken'[v] = Overtaking(V)[v] /\ v \notin V
  BY DEF Overtaking
<1>2. overtaken'[w] = "never"
  BY DEF Overtaking
<1>3. \A v \in Workers : v \notin V => Overtaking(V)[v] = "never"
  BY DEF Overtaking, SInv
<1> QED
  BY <1>1, <1>2, <1>3

\* Everybody's history stays empty.
LEMMA TurnsKept ==
    ASSUME SInv, [Next]_vars
    PROVE  \A v \in Workers : overtaken'[v] = "never"
<1>0. AInv /\ IInv /\ TypeOK
  BY DEF SInv, AInv, IInv
<1>1. CASE UNCHANGED overtaken
  BY <1>1 DEF SInv
<1>2. ASSUME NEW w \in Workers, overtaken' = [overtaken EXCEPT ![w] = "never"]
      PROVE  \A v \in Workers : overtaken'[v] = "never"
  BY <1>0, <1>2 DEF SInv, TypeOK
<1>3. ASSUME NEW w \in Workers, CommitTicket(w)
      PROVE  \A v \in Workers : overtaken'[v] = "never"
  <2>1. session[w].ticket \in Tickets
    BY <1>0, <1>3, CommitTicketFacts
  <2>2. WorkingOn(session[w].ticket) \subseteq {w}
    BY <2>1, TicketAlone DEF WorkingOn
  <2> QED
    BY <1>3, <2>2, NobodyOvertaken DEF CommitTicket
<1>4. ASSUME NEW w \in Workers, CommitEvent(w) \/ CommitDelete(w)
      PROVE  \A v \in Workers : overtaken'[v] = "never"
  <2>1. session[w].event \in Events /\ session[w].op \in {"update", "delete"}
    BY <1>0, <1>4, WhoChanges DEF CommitEvent, CommitDelete, Changing
  <2>2. Changing(session[w].event) \subseteq {w}
    BY <2>1, EventAlone DEF Changing
  <2> QED
    BY <1>4, <2>2, NobodyOvertaken DEF CommitEvent, CommitDelete
<1>5. ASSUME NEW s \in Sweepers, SweepCommit(s)
      PROVE  \A v \in Workers : overtaken'[v] = "never"
  <2> DEFINE V == UNION {WorkingOn(t) : t \in Held(s)}
  <2>1. overtaken' = Overtaking(V)
    BY <1>5 DEF SweepCommit
  <2>2. \A v \in Workers : v \notin V
    BY SweeperAlone DEF WorkingOn
  <2> HIDE DEF V
  <2> QED
    BY <2>1, <2>2 DEF Overtaking, SInv
<1>6. ASSUME NEW w \in Workers, Request(w)
      PROVE  UNCHANGED overtaken
  BY <1>6 DEF Request, GetTicket, CreateEvent, EventMissing, UpdateEvent, BatchCreate, DeleteEvent
<1>7. ASSUME NEW w \in Workers, Continue(w), ~(CommitTicket(w) \/ CommitEvent(w) \/ CommitDelete(w))
      PROVE  UNCHANGED overtaken \/ overtaken' = [overtaken EXCEPT ![w] = "never"]
  BY <1>7 DEF Continue, ReserveSelect, ReserveLockTicket, ReserveLockEvent, CheckStatus, FlushTicket,
     FlushEvent, InsertBatch, CommitBatch, LoadTickets, DeleteTicket, DeleteEventRow, CascadeTicket,
     Refresh, Abandon
<1>8. ASSUME NEW w \in Workers, DeadlockVictim(w) \/ SessionLost(w)
      PROVE  overtaken' = [overtaken EXCEPT ![w] = "never"]
  BY <1>8 DEF DeadlockVictim, SessionLost, Abandon
<1>9. ASSUME NEW s \in Sweepers, SweepSelect(s) \/ SweepFails(s) PROVE UNCHANGED overtaken
  BY <1>9 DEF SweepSelect, SweepFails
<1>10. ASSUME NEW t \in Tickets, TtlElapses(t) PROVE UNCHANGED overtaken
  BY <1>10 DEF TtlElapses
<1>11. CASE UNCHANGED vars
  BY <1>1, <1>11 DEF vars
<1> QED
  BY <1>1, <1>2, <1>3, <1>4, <1>5, <1>6, <1>7, <1>8, <1>9, <1>10, <1>11 DEF Next, Sweep

-----------------------------------------------------------------------------
(* The feed follows the rows *)

\* CommitTicket: the row gets the status that the feed is told.
LEMMA CommitTicketFeed ==
    ASSUME SInv, NEW w \in Workers, CommitTicket(w)
    PROVE  FeedExact'
<1> DEFINE t == session[w].ticket
           new == Target(session[w].op)
<1>0. AInv /\ TypeOK /\ overtaken[w] = "never"
  BY DEF SInv, AInv, IInv
<1>1. /\ t \in Tickets
      /\ status' = [status EXCEPT ![t] = new]
      /\ ticketKpi' = Recorded(ticketKpi, t, new)
  BY <1>0, TicketAsLoaded
<1>2. UNCHANGED <<eventStatus, eventKpi>>
  BY DEF CommitTicket
<1>3. ASSUME KpiLogging PROVE ticketKpi'[t] = new /\ status'[t] = new
  BY <1>0, <1>1, <1>3 DEF TypeOK, Recorded
<1>4. \A u \in Tickets \ {t} : status'[u] = status[u] /\ ticketKpi'[u] = ticketKpi[u]
  BY <1>0, <1>1 DEF TypeOK, Recorded
<1> HIDE DEF t, new
<1> QED
  BY <1>2, <1>3, <1>4 DEF SInv, FeedExact, TicketExists, EventExists

\* An event's new status is the one that the feed is told.
LEMMA EventFeed ==
    ASSUME SInv, NEW e \in Events, NEW new,
           eventStatus' = [eventStatus EXCEPT ![e] = new],
           eventKpi' = Recorded(eventKpi, e, new),
           UNCHANGED <<status, ticketKpi>>
    PROVE  FeedExact'
<1>0. TypeOK
  BY DEF SInv, AInv, IInv
<1>1. ASSUME KpiLogging PROVE eventKpi'[e] = new /\ eventStatus'[e] = new
  BY <1>0, <1>1 DEF TypeOK, Recorded
<1>2. \A x \in Events \ {e} : eventStatus'[x] = eventStatus[x] /\ eventKpi'[x] = eventKpi[x]
  BY <1>0 DEF TypeOK, Recorded
<1> QED
  BY <1>1, <1>2 DEF SInv, FeedExact, TicketExists, EventExists

\* CommitEvent: nobody else has changed the event since it was loaded.
LEMMA CommitEventFeed ==
    ASSUME SInv, NEW w \in Workers, CommitEvent(w)
    PROVE  FeedExact'
<1>1. AInv /\ overtaken[w] = "never"
  BY DEF SInv
<1>2. UNCHANGED <<status, ticketKpi>>
  BY DEF CommitEvent
<1> QED
  BY <1>1, <1>2, EventAsLoaded, EventFeed

\* CommitBatch: no row of the feed is about a ticket that was never there.
LEMMA CommitBatchFeed ==
    ASSUME SInv, NEW w \in Workers, CommitBatch(w)
    PROVE  FeedExact'
<1>1. /\ status' = [t \in Tickets |-> IF t \in session[w].batch THEN "available" ELSE status[t]]
      /\ UNCHANGED <<eventStatus, ticketKpi, eventKpi>>
  BY DEF CommitBatch
<1>2. \A t \in session[w].batch : status[t] = "unminted"
  BY DEF CommitBatch, SInv, AInv, IInv, SessionOK, BatchFresh, InsertSteps
<1>3. \A t \in session[w].batch \cap Tickets : status'[t] = "available" /\ ticketKpi[t] = "none"
  BY <1>1, <1>2 DEF SInv, AInv, IInv, FeedAtTheEnds
<1> QED
  BY <1>1, <1>3 DEF SInv, FeedExact, TicketExists, EventExists

\* CommitDelete: the event and its tickets are gone.
LEMMA CommitDeleteFeed ==
    ASSUME SInv, NEW w \in Workers, CommitDelete(w)
    PROVE  FeedExact'
<1> DEFINE e == session[w].event
           gone == TicketsOf(e) \cap Held(w)
<1>0. AInv /\ TypeOK /\ overtaken[w] = "never"
  BY DEF SInv, AInv, IInv
<1>1. e \in Events
  BY <1>0, WhoChanges DEF CommitDelete
<1>2. /\ status' = [t \in Tickets |-> IF t \in gone THEN "deleted" ELSE status[t]]
      /\ eventStatus' = [eventStatus EXCEPT ![e] = "deleted"]
      /\ eventKpi' = Recorded(eventKpi, e, "deleted")
      /\ UNCHANGED ticketKpi
  BY <1>0 DEF CommitDelete, Latest
<1> HIDE DEF e, gone
<1>3. \A t \in Tickets : TicketExists(t)' => status'[t] = status[t]
  BY <1>2 DEF TicketExists, Absent
<1>4. eventStatus'[e] = "deleted"
  BY <1>0, <1>1, <1>2 DEF TypeOK
<1>5. \A x \in Events \ {e} : eventStatus'[x] = eventStatus[x] /\ eventKpi'[x] = eventKpi[x]
  BY <1>0, <1>1, <1>2 DEF TypeOK, Recorded
<1> QED
  BY <1>2, <1>3, <1>4, <1>5 DEF SInv, FeedExact, TicketExists, EventExists, Absent

\* Every step keeps the feed exact.
LEMMA FeedFollows ==
    ASSUME SInv, [Next]_vars
    PROVE  FeedExact'
<1>0. IInv
  BY DEF SInv, AInv
<1>1. CASE UNCHANGED <<status, eventStatus, ticketKpi, eventKpi>>
  BY <1>1 DEF SInv, FeedExact, TicketExists, EventExists
<1>2. ASSUME NEW w \in Workers, NEW e \in Events, CreateEvent(w, e) PROVE FeedExact'
  BY <1>2, EventFeed DEF CreateEvent
<1>3. ASSUME NEW s \in Sweepers, SweepCommit(s) PROVE FeedExact'
  <2>1. /\ UNCHANGED <<eventStatus, eventKpi>>
        /\ status' = [t \in Tickets |-> IF t \in Held(s) THEN "available" ELSE status[t]]
        /\ ticketKpi' = IF KpiLogging
                        THEN [t \in Tickets |-> IF t \in Held(s) THEN "available" ELSE ticketKpi[t]]
                        ELSE ticketKpi
    BY <1>3 DEF SweepCommit
  <2> QED
    BY <2>1 DEF SInv, FeedExact, TicketExists, EventExists
<1> QED
  BY <1>0, <1>1, <1>2, <1>3, CommitTicketFeed, CommitEventFeed, CommitBatchFeed, CommitDeleteFeed,
     WhoWrites

-----------------------------------------------------------------------------
(* The invariant *)

\* Nobody takes a turn at the start.
LEMMA InitSInv == Init => SInv
<1> SUFFICES ASSUME Init PROVE SInv
  OBVIOUS
<1>1. \A w \in Workers : session[w] = Closed(0)
  BY DEF Init
<1>2. Closed(0).ticket = None /\ Closed(0).event = None
  BY DEF Closed
<1>3. \A t \in Tickets : Parties(t) = {}
  BY <1>1, <1>2, NoneAssumption, ProcessAssumption DEF Init, Parties
<1>4. \A e \in Events : EventParties(e) = {}
  BY <1>1, <1>2, NoneAssumption DEF EventParties
<1>5. OneAtATime
  BY <1>3, <1>4, FS_EmptySet DEF OneAtATime
<1>6. \A w \in Workers : overtaken[w] = "never"
  BY DEF Init
<1>7. FeedExact
  BY DEF Init, FeedExact, TicketExists, EventExists, Absent
<1> QED
  BY <1>5, <1>6, <1>7, InitAInv DEF SInv

\* Every step that leaves at most one party at a ticket or an event keeps it.
LEMMA NextSInv == SInv /\ [Next /\ OneAtATime']_vars => SInv'
<1> SUFFICES ASSUME SInv, [Next /\ OneAtATime']_vars PROVE SInv'
  OBVIOUS
<1>1. [Next]_vars
  OBVIOUS
<1>2. AInv'
  BY <1>1, NextAInv DEF SInv
<1>3. OneAtATime'
  <2>1. CASE UNCHANGED vars
    BY <2>1 DEF SInv, OneAtATime, Parties, EventParties, vars
  <2> QED
    BY <2>1
<1> QED
  BY <1>1, <1>2, <1>3, TurnsKept, FeedFollows DEF SInv

\* While requests take turns, what a session has loaded stays true until it
\* commits, whichever statements of others run in between.
THEOREM SerialInvariance == SerialSpec => []SInv
  BY InitSInv, NextSInv, PTL DEF SerialSpec

\* While requests take turns, the latest row of the KPI feed about a ticket or
\* an event names its status (kpi_service.py:17-44).
THEOREM FeedIsExact == SerialSpec => []FeedExact
<1>1. SInv => FeedExact
  BY DEF SInv
<1> QED
  BY <1>1, SerialInvariance, PTL

-----------------------------------------------------------------------------
(* The life cycle *)

\* Every row starts where the life cycle does.
LEMMA InitLifecycle == Init => Promise!Init
  BY DEF Init, Promise!Init

\* A request that commits advances its ticket by one step.
LEMMA AdvanceStep ==
    ASSUME SInv, NEW w \in Workers, CommitTicket(w)
    PROVE  Promise!Next
<1> DEFINE t == session[w].ticket
           op == session[w].op
<1>1. /\ t \in Tickets
      /\ op \in TicketOps
      /\ status[t] = From(op)
      /\ status' = [status EXCEPT ![t] = Target(op)]
  BY TicketAsLoaded DEF SInv
<1>2. /\ <<From(op), Target(op)>> \in Promise!Lifecycle
      /\ Target(op) \in Promise!TicketStatuses
  BY <1>1 DEF TicketOps, From, Required, Target, Promise!Lifecycle, Promise!TicketStatuses
<1> HIDE DEF t, op
<1>3. status' = [u \in Tickets |-> IF u \in {t} THEN Target(op) ELSE status[u]]
  BY <1>1 DEF SInv, AInv, IInv, TypeOK
<1>4. Promise!Advance(t, Target(op))
  BY <1>1, <1>2, <1>3 DEF Promise!Advance, Promise!Move
<1> QED
  BY <1>1, <1>2, <1>4 DEF Promise!Next

\* A batch puts tickets on sale that were never there.
LEMMA MintStep ==
    ASSUME SInv, NEW w \in Workers, CommitBatch(w)
    PROVE  Promise!Next
<1>1. session[w].batch \in SUBSET Tickets
  BY DEF SInv, AInv, IInv, TypeOK, Sessions
<1>2. \A t \in session[w].batch : status[t] = "unminted"
  BY DEF CommitBatch, SInv, AInv, IInv, SessionOK, BatchFresh, InsertSteps
<1>3. Promise!Mint(session[w].batch)
  BY <1>2 DEF CommitBatch, Promise!Mint, Promise!Move
<1> QED
  BY <1>1, <1>3 DEF Promise!Next

\* A delete removes tickets that are there.
LEMMA RemoveStep ==
    ASSUME SInv, NEW w \in Workers, CommitDelete(w)
    PROVE  Promise!Next
<1> DEFINE gone == TicketsOf(session[w].event) \cap Held(w)
<1>1. gone \in SUBSET Tickets
  BY DEF Held
<1>2. \A t \in gone : status[t] \in Promise!TicketStatuses
  BY DEF SInv, AInv, IInv, TypeOK, TicketsOf, TicketExists, TicketStatuses, Promise!TicketStatuses
<1>3. Promise!Move(gone, "deleted")
  BY DEF CommitDelete, Promise!Move
<1> HIDE DEF gone
<1>4. Promise!Remove(gone)
  BY <1>2, <1>3 DEF Promise!Remove
<1> QED
  BY <1>1, <1>4 DEF Promise!Next

\* A loop frees reservations.
LEMMA ExpireStep ==
    ASSUME SInv, NEW s \in Sweepers, SweepCommit(s)
    PROVE  Promise!Next
<1>1. Held(s) \in SUBSET Tickets
  BY DEF Held
<1>2. \A t \in Held(s) : status[t] = "reserved"
  BY DEF SInv, AInv, IInv, SweepHoldsLapsed
<1>3. Promise!Expire(Held(s))
  BY <1>2 DEF SweepCommit, Promise!Expire, Promise!Move
<1> QED
  BY <1>1, <1>3 DEF Promise!Next

\* While requests take turns, tickets go through the life cycle of README.md:24
\* and nothing else happens to them: Inventory implements TicketLifecycle, for
\* any number of tickets, events, sessions, loops and faults.
THEOREM LifecycleKept == SerialSpec => KeepsLifecycle
<1>1. ASSUME SInv, [Next]_vars PROVE [Promise!Next]_status
  <2>1. CASE UNCHANGED <<status, eventStatus, ticketKpi, eventKpi>>
    BY <2>1
  <2>2. ASSUME NEW w \in Workers,
               CommitTicket(w) \/ CommitEvent(w) \/ CommitBatch(w) \/ CommitDelete(w)
        PROVE  [Promise!Next]_status
    BY <1>1, <2>2, AdvanceStep, MintStep, RemoveStep DEF CommitEvent
  <2>3. ASSUME NEW w \in Workers, NEW e \in Events, CreateEvent(w, e)
        PROVE  [Promise!Next]_status
    BY <2>3 DEF CreateEvent
  <2>4. ASSUME NEW s \in Sweepers, SweepCommit(s) PROVE [Promise!Next]_status
    BY <1>1, <2>4, ExpireStep
  <2> QED
    BY <1>1, <2>1, <2>2, <2>3, <2>4, WhoWrites DEF SInv, AInv
<1>2. SInv /\ [Next /\ OneAtATime']_vars => [Promise!Next]_status
  BY <1>1
<1> QED
  BY <1>2, InitLifecycle, SerialInvariance, PTL DEF SerialSpec, KeepsLifecycle, Promise!Spec

=============================================================================
