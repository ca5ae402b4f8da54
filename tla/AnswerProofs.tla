---------------------------- MODULE AnswerProofs ----------------------------
(***************************************************************************)
(* Proofs about the answers of requests that overlap: AInv is inductive,   *)
(* and it implies what Inventory says of successes, refusals and server    *)
(* errors, of deadlocks, of concurrent updates of an event, and of what is *)
(* committed after its deletion.                                           *)
(***************************************************************************)
EXTENDS AnswerInvariant, InventoryProofs, FiniteSetTheorems, FunctionTheorems

-----------------------------------------------------------------------------
(* What every step keeps *)

\* A row that was inserted does not become one that never was, an event that
\* is gone stays gone, and tickets go with their event only.
RowsGoForward ==
    /\ \A t \in Tickets : status[t] # "unminted" => status'[t] # "unminted"
    /\ \A e \in Events : eventStatus[e] # "unminted" => eventStatus'[e] # "unminted"
    /\ \A e \in Events : eventStatus[e] = "deleted" => eventStatus'[e] = "deleted"
    /\ \A t \in Tickets : status'[t] = "deleted" =>
          status[t] = "deleted" \/ eventStatus'[EventOf[t]] = "deleted"

\* The row an update commits is that of an event that exists, and the status it
\* commits is one a client asked for, or the one that is there.
LEMMA CommitEventFacts ==
    ASSUME AInv, NEW w \in Workers, CommitEvent(w)
    PROVE  /\ session[w].op = "update"
           /\ session[w].event \in Events
           /\ EventExists(session[w].event)
           /\ session[w].want \in EventStatuses
           /\ eventStatus'[session[w].event] =
                 Flushed(session[w].loaded, session[w].want, eventStatus[session[w].event])
           /\ \A e \in Events \ {session[w].event} : eventStatus'[e] = eventStatus[e]
           /\ status' = status
<1>1. session[w].op = "update"
  BY DEF AInv, AnswerOK, StepIsOf, CommitEvent
<1>2. session[w].event \in Events /\ session[w].want \in EventStatuses /\ EventExists(session[w].event)
  BY DEF CommitEvent, AInv, IInv, SessionOK, StepHasArguments, EventCommitLocked, EventSteps
<1>3. /\ eventStatus'[session[w].event] =
            Flushed(session[w].loaded, session[w].want, eventStatus[session[w].event])
      /\ \A e \in Events \ {session[w].event} : eventStatus'[e] = eventStatus[e]
      /\ status' = status
  BY <1>2 DEF CommitEvent, AInv, IInv, TypeOK
<1> QED
  BY <1>1, <1>2, <1>3

\* Every step of the system moves the rows forward.
LEMMA RowsForward ==
    ASSUME AInv, [Next]_vars
    PROVE  RowsGoForward
<1>0. IInv /\ TypeOK
  BY DEF AInv, IInv
<1>1. CASE UNCHANGED <<status, eventStatus, ticketKpi, eventKpi>>
  BY <1>1 DEF RowsGoForward
<1>2. ASSUME NEW w \in Workers, CommitTicket(w) PROVE RowsGoForward
  <2>1. session[w].ticket \in Tickets /\ TicketExists(session[w].ticket) /\ session[w].op \in TicketOps
    BY <1>0, <1>2, CommitTicketFacts
  <2>2. status'[session[w].ticket] \notin Absent
    <3>1. Target(session[w].op) \notin Absent
      BY <2>1 DEF Target, TicketOps, Absent
    <3> QED
      BY <1>0, <1>2, <2>1, <3>1 DEF CommitTicket, Flushed, TicketExists, TypeOK
  <2>3. \A t \in Tickets \ {session[w].ticket} : status'[t] = status[t]
    BY <1>0, <1>2, CommitTicketFacts
  <2>4. eventStatus' = eventStatus
    BY <1>2 DEF CommitTicket
  <2> QED
    BY <2>1, <2>2, <2>3, <2>4 DEF RowsGoForward, Absent
<1>3. ASSUME NEW w \in Workers, CommitEvent(w) PROVE RowsGoForward
  <2>1. eventStatus'[session[w].event] \notin Absent /\ eventStatus[session[w].event] \notin Absent
    BY <1>3, CommitEventFacts DEF Flushed, EventExists, Absent, EventStatuses
  <2> QED
    BY <1>3, <2>1, CommitEventFacts DEF RowsGoForward, Absent
<1>4. ASSUME NEW w \in Workers, CommitBatch(w) PROVE RowsGoForward
  BY <1>4 DEF CommitBatch, RowsGoForward
<1>5. ASSUME NEW w \in Workers, CommitDelete(w) PROVE RowsGoForward
  <2>1. session[w].event \in Events
    BY <1>0, <1>5 DEF CommitDelete, IInv, SessionOK, StepHasArguments, EventSteps
  <2>2. /\ eventStatus'[session[w].event] = "deleted"
        /\ \A e \in Events \ {session[w].event} : eventStatus'[e] = eventStatus[e]
    BY <1>0, <1>5, <2>1 DEF CommitDelete, TypeOK
  <2>3. \A t \in Tickets : \/ status'[t] = status[t]
                           \/ status'[t] = "deleted" /\ EventOf[t] = session[w].event
    BY <1>5 DEF CommitDelete, TicketsOf
  <2> QED
    BY <2>1, <2>2, <2>3 DEF RowsGoForward
<1>6. ASSUME NEW w \in Workers, NEW e \in Events, CreateEvent(w, e) PROVE RowsGoForward
  BY <1>0, <1>6 DEF CreateEvent, TypeOK, RowsGoForward
<1>7. ASSUME NEW s \in Sweepers, SweepCommit(s) PROVE RowsGoForward
  BY <1>7 DEF SweepCommit, RowsGoForward
<1> QED
  BY <1>0, <1>1, <1>2, <1>3, <1>4, <1>5, <1>6, <1>7, WhoWrites

\* What a step does to the row locks of the sessions that do not take it.
GrabsNothing(v) == \A t \in Tickets : rowLock'[t] = v => rowLock[t] = v

\* A session locks rows for itself, and a commit or rollback frees its own.
LEMMA OwnLocks ==
    ASSUME TypeOK, NEW v \in Workers,
           Request(v) \/ Continue(v) \/ DeadlockVictim(v) \/ SessionLost(v),
           NEW w \in Workers \ {v}
    PROVE  GrabsNothing(w)
<1>1. None # w
  BY ProcessAssumption
<1>2. CASE Request(v)
  BY <1>2 DEF Request, GetTicket, CreateEvent, EventMissing, UpdateEvent, BatchCreate, DeleteEvent,
     locks, GrabsNothing
<1>3. ASSUME NEW t \in Tickets, DeleteTicket(v, t) \/ CascadeTicket(v, t)
      PROVE  GrabsNothing(w)
  BY <1>3 DEF TypeOK, DeleteTicket, CascadeTicket, GrabsNothing
<1>4. ASSUME ReleaseAll(v) PROVE GrabsNothing(w)
  BY <1>1, <1>4 DEF ReleaseAll, Release, Held, GrabsNothing
<1>5. ASSUME NEW t \in Tickets, rowLock' = [rowLock EXCEPT ![t] = v] PROVE GrabsNothing(w)
  BY <1>5 DEF TypeOK, GrabsNothing
<1>6. CASE rowLock' = rowLock
  BY <1>6 DEF GrabsNothing
<1>7. ASSUME rowLock' = [rowLock EXCEPT ![session[v].ticket] = v] PROVE GrabsNothing(w)
  BY <1>7 DEF TypeOK, GrabsNothing
<1>8. CASE ReserveSelect(v) \/ ReserveLockTicket(v) \/ ReserveLockEvent(v) \/ CheckStatus(v)
           \/ FlushTicket(v) \/ CommitTicket(v)
  BY <1>4, <1>6, <1>7, <1>8 DEF ReserveSelect, ReserveLockTicket, ReserveLockEvent, CheckStatus,
     FlushTicket, CommitTicket, Abandon, locks
<1>9. CASE FlushEvent(v) \/ CommitEvent(v) \/ InsertBatch(v) \/ CommitBatch(v) \/ LoadTickets(v)
           \/ DeleteEventRow(v) \/ CommitDelete(v) \/ Refresh(v) \/ DeadlockVictim(v) \/ SessionLost(v)
  BY <1>4, <1>6, <1>9 DEF FlushEvent, CommitEvent, InsertBatch, CommitBatch, LoadTickets,
     DeleteEventRow, CommitDelete, Refresh, DeadlockVictim, SessionLost, Abandon, locks
<1> QED
  BY <1>2, <1>3, <1>8, <1>9 DEF Continue

\* The expiry loops and the clock leave sessions and their locks alone.
LEMMA BackgroundLocks ==
    ASSUME TypeOK,
           \/ \E s \in Sweepers : Sweep(s) \/ SweepFails(s)
           \/ \E t \in Tickets : TtlElapses(t),
           NEW w \in Workers
    PROVE  session' = session /\ GrabsNothing(w)
<1>0. w \notin Sweepers /\ w # None
  BY ProcessAssumption
<1>1. ASSUME NEW s \in Sweepers, SweepSelect(s) PROVE session' = session /\ GrabsNothing(w)
  BY <1>0, <1>1 DEF SweepSelect, GrabsNothing
<1>2. ASSUME NEW s \in Sweepers, SweepCommit(s) \/ SweepFails(s)
      PROVE  session' = session /\ GrabsNothing(w)
  BY <1>0, <1>2 DEF SweepCommit, SweepFails, Release, Held, GrabsNothing
<1>3. ASSUME NEW t \in Tickets, TtlElapses(t) PROVE session' = session /\ GrabsNothing(w)
  BY <1>3 DEF TtlElapses, locks, GrabsNothing
<1> QED
  BY <1>1, <1>2, <1>3 DEF Sweep

\* What is known of a session outlives the steps of the others.
LEMMA OthersAnswer ==
    ASSUME AInv, RowsGoForward, NEW w \in Workers, session'[w] = session[w], GrabsNothing(w)
    PROVE  AnswerOK(w)'
<1>0. AnswerOK(w) /\ TypeOK
  BY DEF AInv, IInv
<1>1. StepIsOf(w)'
  BY <1>0 DEF AnswerOK, StepIsOf
<1>2. HoldsNothingYet(w)'
  BY <1>0 DEF AnswerOK, HoldsNothingYet, Held, GrabsNothing
<1>3. RefreshHasArguments(w)'
  <2> SUFFICES ASSUME session[w].pc = "refresh" PROVE RefreshHasArguments(w)'
    BY DEF RefreshHasArguments
  <2>1. RefreshHasArguments(w)
    BY <1>0 DEF AnswerOK
  <2>2. CASE session[w].op \in TicketOps
    BY <2>1, <2>2 DEF RefreshHasArguments, RowsGoForward
  <2>3. CASE session[w].op \notin TicketOps
    <3>1. session[w].batch \subseteq Tickets
      BY <1>0 DEF TypeOK, Sessions
    <3> QED
      BY <2>1, <2>3, <3>1 DEF RefreshHasArguments, RowsGoForward
  <2> QED
    BY <2>2, <2>3
<1>4. DeletesOnce(w)'
  BY <1>0 DEF AnswerOK, DeletesOnce, Held, GrabsNothing
<1> QED
  BY <1>1, <1>2, <1>3, <1>4 DEF AnswerOK

-----------------------------------------------------------------------------
(* AnswerOK, for the session that takes the step *)

\* A session whose transaction ended holds nothing and has nothing to read.
LEMMA EndedAnswer ==
    ASSUME AInv, NEW w \in Workers, NEW code, ReleaseAll(w),
           session' = [session EXCEPT ![w] = Closed(code)]
    PROVE  AnswerOK(w)'
<1>1. session'[w].pc = "idle"
  BY DEF AInv, IInv, TypeOK, Closed
<1>2. Held(w)' = {}
  BY ProcessAssumption DEF ReleaseAll, Release, Held
<1> QED
  BY <1>1, <1>2 DEF AnswerOK, StepIsOf, RefreshHasArguments, HoldsNothingYet, DeletesOnce, InsertSteps

\* A request that is opened holds nothing yet.
LEMMA OpenedAnswer ==
    ASSUME AInv, NEW w \in Workers, Request(w), IInv'
    PROVE  AnswerOK(w)'
<1>0. TypeOK /\ session[w].pc = "idle" /\ rowLock' = rowLock
  BY DEF AInv, IInv, Request, GetTicket, CreateEvent, EventMissing, UpdateEvent, BatchCreate,
     DeleteEvent, locks
<1>1. HoldsNothingYet(w)'
  BY <1>0 DEF AInv, AnswerOK, HoldsNothingYet, HoldSteps, Held
<1>2. ASSUME NEW code, session' = [session EXCEPT ![w] = Closed(code)]
      PROVE  StepIsOf(w)' /\ RefreshHasArguments(w)' /\ DeletesOnce(w)'
  BY <1>0, <1>2 DEF TypeOK, Closed, StepIsOf, RefreshHasArguments, DeletesOnce, InsertSteps
<1>3. ASSUME NEW t \in Tickets, NEW op \in TicketOps, GetTicket(w, op, t)
      PROVE  StepIsOf(w)' /\ RefreshHasArguments(w)' /\ DeletesOnce(w)'
  <2>1. CASE TicketExists(t)
    <3>1. session'[w].pc \in {"select", "check"}
      BY <1>0, <1>3, <2>1 DEF GetTicket, TypeOK, Closed
    <3> QED
      BY <3>1 DEF StepIsOf, RefreshHasArguments, DeletesOnce, InsertSteps
  <2> QED
    BY <1>2, <1>3, <2>1 DEF GetTicket
<1>4. ASSUME NEW e \in Events, CreateEvent(w, e)
      PROVE  StepIsOf(w)' /\ RefreshHasArguments(w)' /\ DeletesOnce(w)'
  <2>1. /\ session'[w].pc = "refresh" /\ session'[w].op = "create" /\ session'[w].event = e
        /\ session'[w].batch = {}
        /\ eventStatus'[e] = "draft"
    BY <1>0, <1>4 DEF CreateEvent, TypeOK, Closed
  <2> QED
    BY <2>1 DEF StepIsOf, RefreshHasArguments, DeletesOnce, InsertSteps, TicketOps
<1>5. ASSUME NEW e \in Events, NEW new \in StatusChoices(e), UpdateEvent(w, e, new)
      PROVE  StepIsOf(w)' /\ RefreshHasArguments(w)' /\ DeletesOnce(w)'
  <2>1. CASE new # "invalid"
    <3>1. /\ session'[w].pc = "flush_event" /\ session'[w].op = "update"
          /\ session'[w].batch = {}
      BY <1>0, <1>5, <2>1 DEF UpdateEvent, TypeOK, Closed
    <3> QED
      BY <3>1 DEF StepIsOf, RefreshHasArguments, DeletesOnce, InsertSteps
  <2> QED
    BY <1>2, <1>5, <2>1 DEF UpdateEvent
<1>6. ASSUME NEW e \in Events, NEW new \in Batches(e), BatchCreate(w, e, new)
      PROVE  StepIsOf(w)' /\ RefreshHasArguments(w)' /\ DeletesOnce(w)'
  <2>1. session'[w].pc = "insert" /\ session'[w].op = "batch"
    BY <1>0, <1>6 DEF BatchCreate, TypeOK, Closed
  <2> QED
    BY <2>1 DEF StepIsOf, RefreshHasArguments, DeletesOnce, InsertSteps
<1>7. ASSUME NEW e \in Events, DeleteEvent(w, e)
      PROVE  StepIsOf(w)' /\ RefreshHasArguments(w)' /\ DeletesOnce(w)'
  <2>1. session'[w].pc = "load" /\ session'[w].op = "delete"
    BY <1>0, <1>7 DEF DeleteEvent, TypeOK, Closed
  <2> QED
    BY <2>1 DEF StepIsOf, RefreshHasArguments, DeletesOnce, InsertSteps
<1>8. ASSUME NEW e \in Events, EventMissing(w, e)
      PROVE  StepIsOf(w)' /\ RefreshHasArguments(w)' /\ DeletesOnce(w)'
  BY <1>2, <1>8 DEF EventMissing
<1>9. StepIsOf(w)' /\ RefreshHasArguments(w)' /\ DeletesOnce(w)'
  BY <1>3, <1>4, <1>5, <1>6, <1>7, <1>8 DEF Request
<1> QED
  BY <1>1, <1>9 DEF AnswerOK

\* A step that goes on, takes no lock of a ticket and commits nothing.
LEMMA WaitingAnswer ==
    ASSUME AInv, NEW w \in Workers, NEW step \in Steps \ {"refresh"}, Goto(w, step),
           rowLock' = rowLock, session[w].pc \notin HoldSteps \/ step \in HoldSteps,
           step \in {"flush_event", "commit_event"} =>
               session[w].pc \in {"flush_event", "commit_event"},
           step \in InsertSteps => session[w].pc \in InsertSteps,
           step \in {"load", "delete_tickets", "cascade"} =>
               session[w].pc \in {"load", "delete_tickets", "cascade"},
           step # "delete_tickets"
    PROVE  AnswerOK(w)'
<1>0. AnswerOK(w) /\ TypeOK
  BY DEF AInv, IInv
<1>1. /\ session'[w].pc = step /\ session'[w].op = session[w].op
      /\ session'[w].batch = session[w].batch
  BY <1>0, GotoFacts
<1> QED
  BY <1>0, <1>1 DEF AnswerOK, StepIsOf, RefreshHasArguments, HoldsNothingYet, DeletesOnce, Held

\* A step that goes on to one at which locks of tickets are expected.
LEMMA LockingAnswer ==
    ASSUME AInv, NEW w \in Workers, NEW step \in {"lock_event", "commit"}, Goto(w, step)
    PROVE  AnswerOK(w)'
<1>1. session'[w].pc = step
  BY GotoFacts DEF AInv, IInv, Steps
<1> QED
  BY <1>1 DEF AnswerOK, StepIsOf, RefreshHasArguments, HoldsNothingYet, DeletesOnce, HoldSteps, InsertSteps

\* A commit that the session reads back.
LEMMA CommittedAnswer ==
    ASSUME AInv, RowsGoForward, NEW w \in Workers,
           CommitTicket(w) \/ CommitEvent(w) \/ CommitBatch(w)
    PROVE  AnswerOK(w)'
<1>0. TypeOK /\ SessionOK(w) /\ AnswerOK(w) /\ Goto(w, "refresh") /\ ReleaseAll(w)
  BY DEF AInv, IInv, CommitTicket, CommitEvent, CommitBatch
<1>1. /\ session'[w].pc = "refresh" /\ session'[w].op = session[w].op
      /\ session'[w].ticket = session[w].ticket /\ session'[w].event = session[w].event
      /\ session'[w].batch = session[w].batch
  BY <1>0, GotoFacts DEF Steps
<1>2. HoldsNothingYet(w)'
  <2>1. Held(w)' = {}
    BY <1>0, ProcessAssumption DEF ReleaseAll, Release, Held
  <2> QED
    BY <2>1 DEF HoldsNothingYet
<1>3. StepIsOf(w)' /\ DeletesOnce(w)'
  BY <1>1 DEF StepIsOf, DeletesOnce, InsertSteps
<1>4. CASE CommitTicket(w)
  <2>1. /\ session[w].op \in TicketOps /\ session[w].ticket \in Tickets
        /\ session[w].event = EventOf[session[w].ticket]
        /\ status[session[w].ticket] # "unminted"
    BY <1>0, <1>4 DEF CommitTicket, SessionOK, StepHasArguments, TicketSteps
  <2>2. RefreshHasArguments(w)'
    BY <1>1, <2>1 DEF RefreshHasArguments, RowsGoForward
  <2> QED
    BY <1>2, <1>3, <2>2 DEF AnswerOK
<1>5. CASE CommitEvent(w)
  <2>1. /\ session[w].op = "update" /\ session[w].batch = {}
        /\ session[w].event \in Events /\ eventStatus[session[w].event] # "unminted"
    BY <1>0, <1>5 DEF CommitEvent, SessionOK, StepHasArguments, EventSteps, AnswerOK, StepIsOf
  <2>2. RefreshHasArguments(w)'
    BY <1>1, <2>1 DEF RefreshHasArguments, RowsGoForward, TicketOps
  <2> QED
    BY <1>2, <1>3, <2>2 DEF AnswerOK
<1>6. CASE CommitBatch(w)
  <2>1. /\ session[w].op = "batch"
        /\ session[w].event \in Events /\ eventStatus[session[w].event] # "unminted"
    BY <1>0, <1>6 DEF CommitBatch, SessionOK, StepHasArguments, EventSteps, InsertSteps, AnswerOK, StepIsOf
  <2>2. \A t \in session[w].batch : t \in Tickets /\ EventOf[t] = session[w].event
    BY <1>0, <1>6 DEF CommitBatch, SessionOK, BatchFresh, InsertSteps, TypeOK, Sessions
  <2>3. \A t \in session[w].batch : status'[t] # "unminted"
    BY <1>6, <2>2 DEF CommitBatch
  <2>4. RefreshHasArguments(w)'
    BY <1>1, <2>1, <2>2, <2>3 DEF RefreshHasArguments, RowsGoForward, TicketOps
  <2> QED
    BY <1>2, <1>3, <2>4 DEF AnswerOK
<1> QED
  BY <1>4, <1>5, <1>6

\* The steps of a delete up to its commit.
LEMMA DeletingAnswer ==
    ASSUME AInv, NEW w \in Workers,
           \/ LoadTickets(w)
           \/ DeleteEventRow(w)
           \/ \E t \in Tickets : DeleteTicket(w, t) \/ CascadeTicket(w, t)
    PROVE  AnswerOK(w)'
<1>0. TypeOK /\ AnswerOK(w) /\ session[w] \in Sessions
  BY DEF AInv, IInv, TypeOK
<1>1. session'[w].op = "delete" /\ session'[w].pc \in {"delete_tickets", "cascade"}
  <2>1. session[w].op = "delete"
    BY <1>0 DEF AnswerOK, StepIsOf, LoadTickets, DeleteEventRow, DeleteTicket, NextDelete, CascadeTicket
  <2>2. CASE LoadTickets(w)
    <3>1. session' = [session EXCEPT ![w] =
             [session[w] EXCEPT !.pc = "delete_tickets", !.batch = TicketsOf(session[w].event)]]
      BY <2>2 DEF LoadTickets
    <3> QED
      BY <1>0, <2>1, <3>1 DEF TypeOK, Sessions
  <2>3. CASE DeleteEventRow(w)
    BY <1>0, <2>1, <2>3, GotoFacts DEF DeleteEventRow, Steps
  <2>4. ASSUME NEW t \in Tickets, DeleteTicket(w, t)
        PROVE  session'[w].op = session[w].op /\ session'[w].pc = "delete_tickets"
    <3>1. session' = [session EXCEPT ![w] = [session[w] EXCEPT !.batch = session[w].batch \ {t}]]
      BY <2>4 DEF DeleteTicket
    <3> QED
      BY <1>0, <2>4, <3>1 DEF DeleteTicket, NextDelete, TypeOK, Sessions
  <2>5. ASSUME NEW t \in Tickets, CascadeTicket(w, t)
        PROVE  session'[w].op = session[w].op /\ session'[w].pc = "cascade"
    BY <2>5 DEF CascadeTicket
  <2> QED
    BY <2>1, <2>2, <2>3, <2>4, <2>5
<1>2. DeletesOnce(w)'
  <2>1. CASE LoadTickets(w)
    <3>1. Held(w)' = {}
      BY <1>0, <2>1 DEF LoadTickets, AnswerOK, HoldsNothingYet, HoldSteps, Held, locks
    <3> QED
      BY <3>1 DEF DeletesOnce
  <2>2. CASE DeleteEventRow(w)
    BY <1>0, <2>2, GotoFacts DEF DeleteEventRow, Steps, DeletesOnce
  <2>3. ASSUME NEW t \in Tickets, CascadeTicket(w, t) PROVE DeletesOnce(w)'
    BY <2>3 DEF CascadeTicket, DeletesOnce
  <2>4. ASSUME NEW t \in Tickets, DeleteTicket(w, t) PROVE DeletesOnce(w)'
    <3>1. session' = [session EXCEPT ![w] = [session[w] EXCEPT !.batch = session[w].batch \ {t}]]
      BY <2>4 DEF DeleteTicket
    <3>2. session'[w].batch = session[w].batch \ {t}
      BY <1>0, <3>1 DEF TypeOK, Sessions
    <3>3. \A u \in Tickets \ {t} : rowLock'[u] = rowLock[u]
      BY <1>0, <2>4 DEF DeleteTicket, TypeOK
    <3>4. session[w].batch \cap Held(w) = {}
      BY <1>0, <2>4 DEF DeleteTicket, NextDelete, AnswerOK, DeletesOnce
    <3> QED
      BY <3>2, <3>3, <3>4 DEF DeletesOnce, Held
  <2> QED
    BY <2>1, <2>2, <2>3, <2>4
<1> QED
  BY <1>1, <1>2 DEF AnswerOK, StepIsOf, RefreshHasArguments, HoldsNothingYet, HoldSteps, InsertSteps

\* Whatever the session does next.
LEMMA OwnAnswer ==
    ASSUME AInv, IInv', RowsGoForward, NEW w \in Workers,
           Request(w) \/ Continue(w) \/ DeadlockVictim(w) \/ SessionLost(w)
    PROVE  AnswerOK(w)'
<1>1. ASSUME NEW code, Abandon(w, code) PROVE AnswerOK(w)'
  BY <1>1, EndedAnswer DEF Abandon
<1>2. CASE Request(w)
  BY <1>2, OpenedAnswer
<1>3. CASE DeadlockVictim(w) \/ SessionLost(w) \/ CommitDelete(w) \/ Refresh(w)
  BY <1>1, <1>3, EndedAnswer DEF DeadlockVictim, SessionLost, CommitDelete, Refresh
<1>4. CASE ReserveSelect(w) \/ CheckStatus(w)
  BY <1>1, <1>4, WaitingAnswer DEF ReserveSelect, CheckStatus, Steps, HoldSteps, InsertSteps, locks
<1>5. CASE ReserveLockTicket(w) \/ ReserveLockEvent(w) \/ FlushTicket(w)
  BY <1>1, <1>5, LockingAnswer DEF ReserveLockTicket, ReserveLockEvent, FlushTicket, ThenCommit
<1>6. CASE FlushEvent(w) \/ InsertBatch(w)
  BY <1>1, <1>6, WaitingAnswer DEF FlushEvent, InsertBatch, Steps, HoldSteps, InsertSteps
<1>7. CASE CommitTicket(w) \/ CommitEvent(w) \/ CommitBatch(w)
  BY <1>7, CommittedAnswer
<1>8. CASE LoadTickets(w) \/ DeleteEventRow(w) \/ \E t \in Tickets : DeleteTicket(w, t) \/ CascadeTicket(w, t)
  BY <1>8, DeletingAnswer
<1> QED
  BY <1>2, <1>3, <1>4, <1>5, <1>6, <1>7, <1>8 DEF Continue

-----------------------------------------------------------------------------
(* FreshOK *)

\* What a session has loaded is as fresh as it was if the rows are as they were.
LEMMA FreshKept ==
    ASSUME AInv, NEW w \in Workers, session'[w] = session[w],
           session[w].pc \in TicketSteps =>
               \/ overtaken'[w] # "never"
               \/ /\ overtaken'[w] = overtaken[w]
                  /\ status'[session[w].ticket] \in {status[session[w].ticket], "deleted"},
           session[w].pc \in {"flush_event", "commit_event", "load", "delete_tickets", "cascade"} =>
               \/ overtaken'[w] # "never"
               \/ /\ overtaken'[w] = overtaken[w]
                  /\ eventStatus'[session[w].event] = eventStatus[session[w].event]
    PROVE  FreshOK(w)'
  BY DEF AInv, FreshOK, EventExists, TicketSteps

\* Whoever is at work on an event itself is changing it.
LEMMA WhoChanges ==
    ASSUME AInv, NEW w \in Workers,
           session[w].pc \in {"flush_event", "commit_event", "load", "delete_tickets", "cascade"}
    PROVE  /\ session[w].event \in Events
           /\ eventStatus[session[w].event] # "unminted"
           /\ w \in Changing(session[w].event)
  BY DEF AInv, AnswerOK, StepIsOf, IInv, SessionOK, StepHasArguments, EventSteps, Changing

\* Whoever is at work on a ticket has loaded it.
LEMMA WhoWorks ==
    ASSUME AInv, NEW w \in Workers, session[w].pc \in TicketSteps
    PROVE  /\ session[w].ticket \in Tickets
           /\ status[session[w].ticket] # "unminted"
           /\ w \in WorkingOn(session[w].ticket)
  BY DEF AInv, IInv, SessionOK, StepHasArguments, WorkingOn, TicketSteps

\* What the history says of the sessions that a commit of v does not overtake.
LEMMA OvertakingFacts ==
    ASSUME AInv, NEW V, NEW v \in Workers,
           overtaken' = [Overtaking(V) EXCEPT ![v] = "never"],
           NEW w \in Workers \ {v}
    PROVE  /\ w \in V => overtaken'[w] # "never"
           /\ w \notin V => overtaken'[w] = overtaken[w]
<1>1. overtaken'[w] = Overtaking(V)[w]
  BY DEF Overtaking
<1> QED
  BY <1>1 DEF Overtaking

\* The requests of others that commit nothing leave the history of w alone.
LEMMA QuietHistory ==
    ASSUME TypeOK, NEW v \in Workers,
           Request(v) \/ Continue(v) \/ DeadlockVictim(v) \/ SessionLost(v),
           ~(CommitTicket(v) \/ CommitEvent(v) \/ CommitDelete(v)),
           NEW w \in Workers \ {v}
    PROVE  overtaken'[w] = overtaken[w]
<1>1. ASSUME NEW r, Abandon(v, r) PROVE overtaken'[w] = overtaken[w]
  BY <1>1 DEF TypeOK, Abandon
<1>2. CASE Request(v)
  BY <1>2 DEF Request, GetTicket, CreateEvent, EventMissing, UpdateEvent, BatchCreate, DeleteEvent
<1>3. CASE ReserveSelect(v) \/ ReserveLockTicket(v) \/ ReserveLockEvent(v) \/ CheckStatus(v)
           \/ FlushTicket(v) \/ FlushEvent(v) \/ InsertBatch(v)
  BY <1>1, <1>3 DEF ReserveSelect, ReserveLockTicket, ReserveLockEvent, CheckStatus, FlushTicket,
     FlushEvent, InsertBatch
<1>4. CASE CommitBatch(v) \/ LoadTickets(v) \/ DeleteEventRow(v)
           \/ \E t \in Tickets : DeleteTicket(v, t) \/ CascadeTicket(v, t)
  BY <1>4 DEF CommitBatch, LoadTickets, DeleteEventRow, DeleteTicket, CascadeTicket
<1>5. CASE Refresh(v) \/ DeadlockVictim(v)
  BY <1>1, <1>5 DEF Refresh, DeadlockVictim
<1>6. CASE SessionLost(v)
  BY <1>6 DEF SessionLost, TypeOK
<1> QED
  BY <1>2, <1>3, <1>4, <1>5, <1>6 DEF Continue

\* The steps of other sessions.
LEMMA FreshOthers ==
    ASSUME AInv, NEW v \in Workers,
           Request(v) \/ Continue(v) \/ DeadlockVictim(v) \/ SessionLost(v),
           NEW w \in Workers \ {v}
    PROVE  FreshOK(w)'
<1>0. IInv /\ TypeOK /\ Next
  BY DEF AInv, IInv, Next
<1>1. session'[w] = session[w]
  BY <1>0, OwnSession
<1>2. CASE CommitTicket(v)
  <2>1. /\ \A t \in Tickets \ {session[v].ticket} : status'[t] = status[t]
        /\ eventStatus' = eventStatus
        /\ overtaken' = [Overtaking(WorkingOn(session[v].ticket)) EXCEPT ![v] = "never"]
    BY <1>0, <1>2, CommitTicketFacts DEF CommitTicket
  <2>2. \/ overtaken'[w] # "never"
        \/ overtaken'[w] = overtaken[w] /\ w \notin WorkingOn(session[v].ticket)
    BY <2>1, OvertakingFacts
  <2> QED
    BY <1>1, <2>1, <2>2, WhoWorks, FreshKept
<1>3. CASE CommitEvent(v)
  <2>1. /\ \A e \in Events \ {session[v].event} : eventStatus'[e] = eventStatus[e]
        /\ status' = status
        /\ overtaken' = [Overtaking(Changing(session[v].event)) EXCEPT ![v] = "never"]
    BY <1>3, CommitEventFacts DEF CommitEvent
  <2>2. \/ overtaken'[w] # "never"
        \/ overtaken'[w] = overtaken[w] /\ w \notin Changing(session[v].event)
    BY <2>1, OvertakingFacts
  <2> QED
    BY <1>1, <2>1, <2>2, WhoChanges, FreshKept
<1>4. CASE CommitDelete(v)
  <2>1. /\ \A e \in Events \ {session[v].event} : eventStatus'[e] = eventStatus[e]
        /\ \A t \in Tickets : status'[t] \in {status[t], "deleted"}
        /\ overtaken' = [Overtaking(Changing(session[v].event)) EXCEPT ![v] = "never"]
    BY <1>0, <1>4 DEF CommitDelete, TypeOK
  <2>2. \/ overtaken'[w] # "never"
        \/ overtaken'[w] = overtaken[w] /\ w \notin Changing(session[v].event)
    BY <2>1, OvertakingFacts
  <2> QED
    BY <1>1, <2>1, <2>2, WhoWorks, WhoChanges, FreshKept
<1>5. CASE ~(CommitTicket(v) \/ CommitEvent(v) \/ CommitDelete(v))
  <2>1. overtaken'[w] = overtaken[w]
    BY <1>0, <1>5, QuietHistory
  <2>2. /\ \A t \in Tickets : status[t] # "unminted" => status'[t] = status[t]
        /\ \A e \in Events : eventStatus[e] # "unminted" => eventStatus'[e] = eventStatus[e]
    <3>1. CASE Request(v)
      BY <1>0, <3>1 DEF Request, GetTicket, CreateEvent, EventMissing, UpdateEvent, BatchCreate,
         DeleteEvent, rows, TypeOK
    <3>2. CASE CommitBatch(v)
      BY <1>0, <3>2 DEF CommitBatch, IInv, SessionOK, BatchFresh, InsertSteps
    <3>3. CASE DeadlockVictim(v) \/ SessionLost(v)
      BY <3>3 DEF DeadlockVictim, SessionLost, Abandon, rows
    <3>4. CASE Continue(v) /\ ~CommitBatch(v)
      BY <1>5, <3>4 DEF Continue, ReserveSelect, ReserveLockTicket, ReserveLockEvent, CheckStatus,
         FlushTicket, FlushEvent, InsertBatch, LoadTickets, DeleteTicket, DeleteEventRow,
         CascadeTicket, Refresh, Abandon, rows
    <3> QED
      BY <3>1, <3>2, <3>3, <3>4
  <2> QED
    BY <1>1, <2>1, <2>2, WhoWorks, WhoChanges, FreshKept
<1> QED
  BY <1>2, <1>3, <1>4, <1>5

\* The expiry loops and the clock.
LEMMA FreshBackground ==
    ASSUME AInv, NEW w \in Workers,
           \/ \E s \in Sweepers : Sweep(s) \/ SweepFails(s)
           \/ \E t \in Tickets : TtlElapses(t)
    PROVE  FreshOK(w)'
<1>1. ASSUME NEW s \in Sweepers, SweepCommit(s) PROVE FreshOK(w)'
  <2> DEFINE V == UNION {WorkingOn(t) : t \in Held(s)}
  <2>1. /\ session' = session /\ eventStatus' = eventStatus
        /\ \A t \in Tickets \ Held(s) : status'[t] = status[t]
        /\ overtaken' = Overtaking(V)
    BY <1>1 DEF SweepCommit
  <2>2. \A t \in Held(s) : w \in WorkingOn(t) => w \in V
    OBVIOUS
  <2> HIDE DEF V
  <2>3. IF w \in V THEN overtaken'[w] # "never" ELSE overtaken'[w] = overtaken[w]
    BY <2>1 DEF Overtaking
  <2>4. session[w].pc \in TicketSteps =>
            w \in V \/ status'[session[w].ticket] = status[session[w].ticket]
    BY <2>1, <2>2, WhoWorks
  <2> QED
    BY <2>1, <2>3, <2>4, FreshKept
<1>2. ASSUME NEW s \in Sweepers, SweepSelect(s) \/ SweepFails(s) PROVE FreshOK(w)'
  BY <1>2, FreshKept DEF SweepSelect, SweepFails, rows
<1>3. ASSUME NEW t \in Tickets, TtlElapses(t) PROVE FreshOK(w)'
  BY <1>3, FreshKept DEF TtlElapses
<1> QED
  BY <1>1, <1>2, <1>3 DEF Sweep

\* A session whose next statement depends on no row.
LEMMA FreshAtRest ==
    ASSUME NEW w \in Workers,
           session'[w].pc \in {"idle", "refresh", "insert", "commit_batch"}
    PROVE  FreshOK(w)'
  BY DEF FreshOK, TicketSteps

\* The next statement of a request, which is of the same kind as the last.
LEMMA FreshGoto ==
    ASSUME AInv, NEW w \in Workers, NEW step \in Steps, Goto(w, step),
           UNCHANGED <<rows, overtaken>>,
           \/ session[w].pc \in TicketSteps /\ step \in TicketSteps
           \/ session[w].pc = "flush_event" /\ step = "commit_event"
           \/ session[w].pc = "delete_tickets" /\ step = "cascade"
    PROVE  FreshOK(w)'
<1>1. TypeOK
  BY DEF AInv, IInv
<1> QED
  BY <1>1, GotoFacts DEF AInv, FreshOK, TicketSteps, EventExists, rows

\* The steps of the session itself.
LEMMA FreshOwn ==
    ASSUME AInv, NEW w \in Workers,
           Request(w) \/ Continue(w) \/ DeadlockVictim(w) \/ SessionLost(w)
    PROVE  FreshOK(w)'
<1>0. TypeOK /\ session[w] \in Sessions
  BY DEF AInv, IInv, TypeOK
<1>1. ASSUME NEW code, session' = [session EXCEPT ![w] = Closed(code)] PROVE FreshOK(w)'
  <2>1. session'[w].pc = "idle"
    BY <1>0, <1>1 DEF TypeOK, Closed
  <2> QED
    BY <2>1, FreshAtRest
<1>2. CASE Request(w)
  <2>1. ASSUME NEW t \in Tickets, NEW op \in TicketOps, GetTicket(w, op, t) PROVE FreshOK(w)'
    <3>1. CASE TicketExists(t)
      <4>1. /\ session'[w].pc \in {"select", "check"}
            /\ session'[w].ticket = t /\ session'[w].loaded = status[t]
            /\ status' = status
        BY <1>0, <2>1, <3>1 DEF GetTicket, TypeOK, Closed, rows
      <4> QED
        BY <4>1 DEF FreshOK
    <3>2. CASE ~TicketExists(t)
      BY <1>1, <2>1, <3>2 DEF GetTicket
    <3> QED
      BY <3>1, <3>2
  <2>2. ASSUME NEW e \in Events, NEW new \in StatusChoices(e), UpdateEvent(w, e, new)
        PROVE  FreshOK(w)'
    <3>1. CASE new # "invalid"
      <4>1. /\ session'[w].pc = "flush_event"
            /\ session'[w].event = e /\ session'[w].loaded = eventStatus[e]
            /\ eventStatus' = eventStatus
        BY <1>0, <2>2, <3>1 DEF UpdateEvent, TypeOK, Closed, rows
      <4> QED
        BY <4>1 DEF FreshOK, TicketSteps
    <3>2. CASE new = "invalid"
      BY <1>1, <2>2, <3>2 DEF UpdateEvent
    <3> QED
      BY <3>1, <3>2
  <2>3. ASSUME NEW e \in Events, DeleteEvent(w, e) PROVE FreshOK(w)'
    <3>1. session'[w].pc = "load" /\ session'[w].event = e /\ EventExists(e)'
      BY <1>0, <2>3 DEF DeleteEvent, TypeOK, Closed, rows, EventExists
    <3> QED
      BY <3>1 DEF FreshOK, TicketSteps
  <2>4. ASSUME NEW e \in Events,
               CreateEvent(w, e) \/ \E new \in Batches(e) : BatchCreate(w, e, new)
        PROVE  FreshOK(w)'
    <3>1. ASSUME CreateEvent(w, e) PROVE session'[w].pc = "refresh"
      <4>1. session'[w] = [Closed(0) EXCEPT !.pc = "refresh", !.op = "create", !.event = e]
        BY <1>0, <3>1 DEF CreateEvent, TypeOK
      <4> QED
        BY <4>1 DEF Closed
    <3>2. ASSUME NEW new \in Batches(e), BatchCreate(w, e, new) PROVE session'[w].pc = "insert"
      <4>1. session'[w] = [Closed(0) EXCEPT !.pc = "insert", !.op = "batch", !.event = e, !.batch = new]
        BY <1>0, <3>2 DEF BatchCreate, TypeOK
      <4> QED
        BY <4>1 DEF Closed
    <3> QED
      BY <2>4, <3>1, <3>2, FreshAtRest
  <2>5. ASSUME NEW e \in Events, EventMissing(w, e) PROVE FreshOK(w)'
    BY <1>1, <2>5 DEF EventMissing
  <2> QED
    BY <1>2, <2>1, <2>2, <2>3, <2>4, <2>5 DEF Request
<1>3. CASE DeadlockVictim(w) \/ SessionLost(w) \/ CommitDelete(w) \/ Refresh(w)
  BY <1>1, <1>3 DEF DeadlockVictim, SessionLost, CommitDelete, Refresh, Abandon
<1>4. CASE CommitTicket(w) \/ CommitEvent(w) \/ CommitBatch(w)
  <2>1. Goto(w, "refresh") /\ "refresh" \in Steps
    BY <1>4 DEF CommitTicket, CommitEvent, CommitBatch, Steps
  <2>2. session'[w].pc = "refresh"
    BY <1>0, <2>1, GotoFacts
  <2> QED
    BY <2>2, FreshAtRest
<1>5. CASE ReserveSelect(w) \/ ReserveLockTicket(w) \/ ReserveLockEvent(w)
  BY <1>1, <1>5, FreshGoto DEF ReserveSelect, ReserveLockTicket, ReserveLockEvent, Abandon, Steps,
     TicketSteps
<1>6. CASE CheckStatus(w) \/ FlushTicket(w) \/ FlushEvent(w)
  BY <1>1, <1>6, FreshGoto DEF CheckStatus, FlushTicket, ThenCommit, FlushEvent, Abandon, Steps,
     TicketSteps
<1>7. CASE InsertBatch(w)
  <2>1. CASE Goto(w, "commit_batch")
    <3>1. session'[w].pc = "commit_batch"
      BY <1>0, <2>1, GotoFacts DEF Steps
    <3> QED
      BY <3>1, FreshAtRest
  <2> QED
    BY <1>1, <1>7, <2>1 DEF InsertBatch, Abandon
<1>8. CASE LoadTickets(w) \/ \E t \in Tickets : DeleteTicket(w, t) \/ CascadeTicket(w, t)
  <2>1. /\ session'[w].pc \in {"delete_tickets", "cascade"}
        /\ session[w].pc \in {"load", "delete_tickets", "cascade"}
        /\ session'[w].event = session[w].event
    <3>1. CASE LoadTickets(w)
      <4>1. session'[w] = [session[w] EXCEPT !.pc = "delete_tickets",
                                             !.batch = TicketsOf(session[w].event)]
        BY <1>0, <3>1 DEF LoadTickets, TypeOK
      <4>2. session'[w].pc = "delete_tickets" /\ session'[w].event = session[w].event
        BY <1>0, <4>1 DEF Sessions
      <4> QED
        BY <3>1, <4>2 DEF LoadTickets
    <3>2. ASSUME NEW t \in Tickets, DeleteTicket(w, t)
          PROVE  /\ session'[w].pc = "delete_tickets" /\ session[w].pc = "delete_tickets"
                 /\ session'[w].event = session[w].event
      <4>1. session'[w] = [session[w] EXCEPT !.batch = @ \ {t}]
        BY <1>0, <3>2 DEF DeleteTicket, TypeOK
      <4> QED
        BY <1>0, <3>2, <4>1 DEF DeleteTicket, NextDelete, Sessions
    <3>3. ASSUME NEW t \in Tickets, CascadeTicket(w, t)
          PROVE  session' = session /\ session[w].pc = "cascade"
      BY <3>3 DEF CascadeTicket
    <3> QED
      BY <1>8, <3>1, <3>2, <3>3
  <2>2. UNCHANGED <<rows, overtaken>>
    BY <1>8 DEF LoadTickets, DeleteTicket, CascadeTicket
  <2> QED
    BY <2>1, <2>2 DEF AInv, FreshOK, EventExists, TicketSteps, rows
<1>9. CASE DeleteEventRow(w)
  BY <1>9, FreshGoto DEF DeleteEventRow, Steps
<1> QED
  BY <1>2, <1>3, <1>4, <1>5, <1>6, <1>7, <1>8, <1>9 DEF Continue

-----------------------------------------------------------------------------
(* AInv is an invariant *)

\* Nothing is inserted, and no request is open.
LEMMA InitAInv == Init => AInv
<1> SUFFICES ASSUME Init PROVE AInv
  OBVIOUS
<1>1. ASSUME NEW w \in Workers PROVE AnswerOK(w)
  <2>1. session[w].pc = "idle" /\ Held(w) = {}
    BY ProcessAssumption DEF Init, Closed, Held
  <2> QED
    BY <2>1 DEF AnswerOK, StepIsOf, RefreshHasArguments, HoldsNothingYet, DeletesOnce, InsertSteps
<1>2. GoneTogether
  BY DEF Init, GoneTogether
<1>3. ASSUME NEW w \in Workers PROVE FreshOK(w)
  BY DEF Init, Closed, FreshOK, TicketSteps
<1> QED
  BY <1>1, <1>2, <1>3, InitIInv DEF AInv

\* Every step of the system preserves AInv.
LEMMA NextAInv == AInv /\ [Next]_vars => AInv'
<1> SUFFICES ASSUME AInv, [Next]_vars PROVE AInv'
  OBVIOUS
<1>0. IInv /\ TypeOK /\ IInv' /\ RowsGoForward
  BY NextIInv, RowsForward DEF AInv, IInv
<1>1. GoneTogether'
  BY <1>0, RowsAssumption DEF AInv, GoneTogether, RowsGoForward
<1>2. ASSUME NEW w \in Workers PROVE AnswerOK(w)'
  <2>1. CASE UNCHANGED vars
    BY <1>0, <2>1, OthersAnswer DEF vars, GrabsNothing
  <2>2. ASSUME NEW v \in Workers,
               Request(v) \/ Continue(v) \/ DeadlockVictim(v) \/ SessionLost(v)
        PROVE  AnswerOK(w)'
    <3>1. CASE w = v
      BY <1>0, <2>2, <3>1, OwnAnswer
    <3>2. CASE w # v
      BY <1>0, <2>2, <3>2, OwnSession, OwnLocks, OthersAnswer
    <3> QED
      BY <3>1, <3>2
  <2>3. CASE \/ \E s \in Sweepers : Sweep(s) \/ SweepFails(s)
             \/ \E t \in Tickets : TtlElapses(t)
    BY <1>0, <2>3, BackgroundLocks, OthersAnswer
  <2> QED
    BY <2>1, <2>2, <2>3 DEF Next
<1>3. ASSUME NEW w \in Workers PROVE FreshOK(w)'
  <2>1. CASE UNCHANGED vars
    BY <2>1, FreshKept DEF vars
  <2>2. ASSUME NEW v \in Workers,
               Request(v) \/ Continue(v) \/ DeadlockVictim(v) \/ SessionLost(v)
        PROVE  FreshOK(w)'
    BY <2>2, FreshOwn, FreshOthers
  <2> QED
    BY <2>1, <2>2, FreshBackground DEF Next
<1> QED
  BY <1>0, <1>1, <1>2, <1>3 DEF AInv

\* In every reachable state the rows a request still has to read were in the
\* tables, only requests that are past their first lock hold up others, and
\* tickets are gone only when their event is (ticket_service.py:20-53, 94-131, 186-273,
\* event_service.py:75-117).
THEOREM AnswerInvariance == Spec => []AInv
  BY InitAInv, NextAInv, PTL DEF Spec

-----------------------------------------------------------------------------
(* Server errors *)

\* A step of a handler fails with 500 only because the event is gone.
LEMMA HandlerFails ==
    ASSUME AInv, NEW w \in Workers, Continue(w), session'[w] = Closed(500)
    PROVE  eventStatus[session[w].event] = "deleted"
<1>0. TypeOK /\ IInv /\ SessionOK(w) /\ AnswerOK(w) /\ GoneTogether
  BY DEF AInv, IInv
<1>1. ASSUME NEW code, Abandon(w, code) PROVE code = 500
  BY <1>0, <1>1, AnswerIs DEF Abandon
<1>2. ASSUME NEW step \in Steps \ {"idle"}, Goto(w, step) PROVE FALSE
  BY <1>0, <1>2, GoesOn
<1>3. ~(CommitTicket(w) \/ CommitEvent(w) \/ CommitBatch(w) \/ DeleteEventRow(w))
  BY <1>2 DEF CommitTicket, CommitEvent, CommitBatch, DeleteEventRow, Steps
<1>4. ~(ReserveSelect(w) \/ ReserveLockTicket(w) \/ ReserveLockEvent(w) \/ CheckStatus(w))
  BY <1>1, <1>2 DEF ReserveSelect, ReserveLockTicket, ReserveLockEvent, CheckStatus, Steps
<1>5. ~CommitDelete(w)
  <2> SUFFICES ASSUME CommitDelete(w) PROVE FALSE
    OBVIOUS
  <2>1. session' = [session EXCEPT ![w] = Closed(204)]
    BY DEF CommitDelete
  <2>2. session'[w].reply = 204 /\ session'[w].reply = 500
    BY <1>0, <2>1 DEF TypeOK, Closed
  <2> QED
    BY <2>2
<1>6. session'[w].pc = "idle"
  BY DEF Closed
<1>7. ~LoadTickets(w)
  <2> SUFFICES ASSUME LoadTickets(w) PROVE FALSE
    OBVIOUS
  <2>1. session[w] \in Sessions
    BY <1>0 DEF TypeOK
  <2>2. session'[w] = [session[w] EXCEPT !.pc = "delete_tickets",
                                         !.batch = TicketsOf(session[w].event)]
    BY <1>0 DEF LoadTickets, TypeOK
  <2>3. session'[w].pc = "delete_tickets"
    BY <2>1, <2>2 DEF Sessions
  <2> QED
    BY <1>6, <2>3
<1>8. ASSUME NEW t \in Tickets, DeleteTicket(w, t) \/ CascadeTicket(w, t) PROVE FALSE
  <2>1. session[w] \in Sessions
    BY <1>0 DEF TypeOK
  <2>2. CASE CascadeTicket(w, t)
    BY <1>6, <2>2 DEF CascadeTicket
  <2>3. CASE DeleteTicket(w, t)
    <3>1. session' = [session EXCEPT ![w] = [session[w] EXCEPT !.batch = session[w].batch \ {t}]]
      BY <2>3 DEF DeleteTicket
    <3> QED
      BY <1>0, <1>6, <2>1, <2>3, <3>1 DEF DeleteTicket, NextDelete, TypeOK, Sessions
  <2> QED
    BY <1>8, <2>2, <2>3
<1>9. CASE FlushTicket(w)
  <2>1. ~TicketExists(session[w].ticket)
    BY <1>2, <1>9 DEF FlushTicket, ThenCommit, Steps
  <2>2. /\ session[w].ticket \in Tickets /\ session[w].event = EventOf[session[w].ticket]
        /\ status[session[w].ticket] # "unminted"
    BY <1>0, <1>9 DEF FlushTicket, SessionOK, StepHasArguments, TicketSteps
  <2> QED
    BY <1>0, <2>1, <2>2 DEF GoneTogether, TicketExists, Absent
<1>10. CASE FlushEvent(w) \/ InsertBatch(w)
  <2>1. ~EventExists(session[w].event)
    BY <1>2, <1>10 DEF FlushEvent, InsertBatch, Steps
  <2>2. eventStatus[session[w].event] # "unminted"
    BY <1>0, <1>10 DEF FlushEvent, InsertBatch, SessionOK, StepHasArguments, EventSteps
  <2> QED
    BY <2>1, <2>2 DEF EventExists, Absent
<1>11. CASE Refresh(w)
  <2>1. ~Refreshable(session[w])
    <3> SUFFICES ASSUME Refreshable(session[w]) PROVE FALSE
      OBVIOUS
    <3>1. Abandon(w, 201) \/ Abandon(w, 200)
      BY <1>11 DEF Refresh
    <3> QED
      BY <1>1, <3>1
  <2>2. RefreshHasArguments(w) /\ session[w].pc = "refresh" /\ session[w].batch \subseteq Tickets
    BY <1>0, <1>11 DEF AnswerOK, Refresh, TypeOK, Sessions
  <2>3. CASE session[w].op \in TicketOps
    BY <1>0, <2>1, <2>2, <2>3 DEF Refreshable, RefreshHasArguments, GoneTogether, TicketExists, Absent
  <2>4. CASE session[w].op \notin TicketOps
    BY <1>0, <2>1, <2>2, <2>4 DEF Refreshable, RefreshHasArguments, GoneTogether, TicketExists,
       EventExists, Absent
  <2> QED
    BY <2>3, <2>4
<1> QED
  BY <1>3, <1>4, <1>5, <1>7, <1>8, <1>9, <1>10, <1>11 DEF Continue

\* A request that was accepted is answered with 500 only after a fault, in a
\* deadlock, or because its event was deleted under it
\* (ticket_service.py:20-53, 94-131, 186-273, event_service.py:75-101).
THEOREM ErrorsExplained == Spec => ServerErrorsExplained
<1> DEFINE Explained(w) ==
      session[w].pc # "idle" /\ session'[w] = Closed(500) =>
          \/ faults' # faults
          \/ \E S \in WaitCycles : w \in S
          \/ eventStatus[session[w].event] = "deleted"
<1>1. ASSUME AInv, [Next]_vars, NEW w \in Workers PROVE Explained(w)
  <2> SUFFICES ASSUME session[w].pc # "idle", session'[w] = Closed(500)
               PROVE  \/ faults' # faults
                      \/ \E S \in WaitCycles : w \in S
                      \/ eventStatus[session[w].event] = "deleted"
    OBVIOUS
  <2>1. TypeOK
    BY <1>1 DEF AInv, IInv
  <2>2. session'[w] # session[w]
    BY DEF Closed
  <2>3. Next
    BY <1>1, <2>2 DEF vars
  <2>4. Continue(w) \/ DeadlockVictim(w) \/ SessionLost(w)
    BY <2>1, <2>2, <2>3, WhoEnds
  <2>5. CASE Continue(w)
    BY <1>1, <2>5, HandlerFails
  <2>6. CASE DeadlockVictim(w)
    BY <2>6 DEF DeadlockVictim
  <2>7. CASE SessionLost(w)
    BY <2>1, <2>7, InputAssumption DEF SessionLost, TypeOK
  <2> QED
    BY <2>4, <2>5, <2>6, <2>7
<1>2. AInv /\ [Next]_vars => [\A w \in Workers : Explained(w)]_vars
  BY <1>1
<1> QED
  BY <1>2, AnswerInvariance, PTL DEF Spec, ServerErrorsExplained

-----------------------------------------------------------------------------
(* Updates that overlap *)

\* An update does not put back the status it loaded: what another update
\* committed in between stays, unless the client asked for something else
\* (event_service.py:75-101).
THEOREM NotReverted == Spec => StatusNotReverted
<1> DEFINE Asked(e) ==
      EventExists(e) /\ eventStatus'[e] \notin {eventStatus[e], "deleted"} =>
          \E w \in Workers : /\ session[w].op = "update" /\ session[w].event = e
                             /\ eventStatus'[e] = session[w].want
                             /\ session[w].want # session[w].loaded
<1>1. ASSUME AInv, [Next]_vars, NEW e \in Events PROVE Asked(e)
  <2> SUFFICES ASSUME EventExists(e), eventStatus'[e] \notin {eventStatus[e], "deleted"}
               PROVE  \E w \in Workers : /\ session[w].op = "update" /\ session[w].event = e
                                         /\ eventStatus'[e] = session[w].want
                                         /\ session[w].want # session[w].loaded
    OBVIOUS
  <2>0. IInv /\ TypeOK
    BY <1>1 DEF AInv, IInv
  <2>1. ASSUME NEW w \in Workers, CommitTicket(w) \/ CommitBatch(w) PROVE FALSE
    BY <2>1 DEF CommitTicket, CommitBatch
  <2>2. ASSUME NEW w \in Workers, CommitDelete(w) PROVE FALSE
    BY <2>0, <2>2 DEF CommitDelete, TypeOK
  <2>3. ASSUME NEW w \in Workers, NEW f \in Events, CreateEvent(w, f) PROVE FALSE
    BY <2>0, <2>3 DEF CreateEvent, TypeOK, EventExists, Absent
  <2>4. ASSUME NEW s \in Sweepers, SweepCommit(s) PROVE FALSE
    BY <2>4 DEF SweepCommit
  <2>5. PICK w \in Workers : CommitEvent(w)
    BY <1>1, <2>0, <2>1, <2>2, <2>3, <2>4, WhoWrites
  <2>6. session[w].event = e
    BY <1>1, <2>5, CommitEventFacts
  <2>7. /\ session[w].op = "update"
        /\ eventStatus'[e] = Flushed(session[w].loaded, session[w].want, eventStatus[e])
    BY <1>1, <2>5, <2>6, CommitEventFacts
  <2> QED
    BY <2>6, <2>7 DEF Flushed
<1>2. AInv /\ [Next]_vars => [\A e \in Events : Asked(e)]_vars
  BY <1>1
<1> QED
  BY <1>2, AnswerInvariance, PTL DEF Spec, StatusNotReverted

-----------------------------------------------------------------------------
(* Answers *)

\* The session that commits takes the step, and it commits what it is about.
LEMMA WhoCommits ==
    ASSUME TypeOK, Next, NEW w \in Workers, Commits(w)
    PROVE  \/ session[w].pc = "commit" /\ CommitTicket(w)
           \/ session[w].pc = "commit_event" /\ CommitEvent(w)
           \/ session[w].pc = "commit_batch" /\ CommitBatch(w)
           \/ session[w].pc = "cascade" /\ CommitDelete(w)
<1>1. session[w].pc \in {"commit", "commit_event", "commit_batch", "cascade"}
  BY DEF Commits
<1>2. session'[w].pc \in {"refresh", "idle"}
  BY DEF Commits, Closed
<1>3. Continue(w) \/ DeadlockVictim(w) \/ SessionLost(w)
  <2>1. session'[w] # session[w] /\ session[w].pc # "idle"
    BY <1>1, <1>2
  <2> QED
    BY <2>1, WhoEnds
<1>4. ~(DeadlockVictim(w) \/ SessionLost(w))
  <2> SUFFICES ASSUME session' = [session EXCEPT ![w] = Closed(500)] PROVE FALSE
    BY DEF DeadlockVictim, SessionLost, Abandon
  <2>1. session'[w] = Closed(500)
    BY DEF TypeOK
  <2>2. session'[w].pc = "idle"
    BY <2>1 DEF Closed
  <2>3. session'[w] = Closed(204)
    BY <2>2 DEF Commits
  <2>4. session'[w].reply = 500
    BY <2>1 DEF Closed
  <2>5. session'[w].reply = 204
    BY <2>3 DEF Closed
  <2> QED
    BY <2>4, <2>5
<1>5. ASSUME NEW t \in Tickets, CascadeTicket(w, t) \/ DeleteTicket(w, t) PROVE FALSE
  <2>1. session[w].pc = "cascade" /\ session' = session
    BY <1>1, <1>5 DEF CascadeTicket, DeleteTicket, NextDelete
  <2> QED
    BY <1>2, <2>1
<1> QED
  BY <1>1, <1>3, <1>4, <1>5 DEF Continue, ReserveSelect, ReserveLockTicket, ReserveLockEvent,
     CheckStatus, FlushTicket, CommitTicket, FlushEvent, CommitEvent, InsertBatch, CommitBatch,
     LoadTickets, DeleteEventRow, CommitDelete, Refresh

\* What a request for a ticket finds when it commits, unless it was overtaken:
\* the row as it loaded it.
LEMMA TicketAsLoaded ==
    ASSUME AInv, NEW w \in Workers, CommitTicket(w), overtaken[w] = "never"
    PROVE  LET s == session[w] IN
           /\ s.ticket \in Tickets
           /\ s.op \in TicketOps
           /\ status[s.ticket] = From(s.op)
           /\ status' = [status EXCEPT ![s.ticket] = Target(s.op)]
           /\ ticketKpi' = Recorded(ticketKpi, s.ticket, Target(s.op))
<1> DEFINE t == session[w].ticket
           op == session[w].op
<1>1. t \in Tickets /\ op \in TicketOps /\ TicketExists(t) /\ (op = "reserve" => Reservable(t))
  BY CommitTicketFacts DEF AInv
<1>2. session[w].pc = "commit"
  BY DEF CommitTicket
<1>3. status[t] = session[w].loaded
  BY <1>1, <1>2 DEF AInv, FreshOK, TicketSteps, TicketExists, Absent
<1>4. status[t] = From(op)
  <2>1. CASE op = "reserve"
    BY <1>1, <2>1 DEF From, Reservable
  <2>2. CASE op # "reserve"
    BY <1>2, <1>3, <2>2 DEF From, AInv, IInv, SessionOK, StepHasArguments
  <2> QED
    BY <2>1, <2>2
<1>5. /\ status' = [status EXCEPT ![t] = Flushed(session[w].loaded, Target(op), status[t])]
      /\ ticketKpi' \in Latest(w, ticketKpi, t, Target(op))
  BY DEF CommitTicket
<1>6. Flushed(session[w].loaded, Target(op), status[t]) = Target(op)
  BY <1>3 DEF Flushed
<1> QED
  BY <1>1, <1>4, <1>5, <1>6 DEF Latest

\* What an update finds when it commits, unless it was overtaken: the event as
\* it loaded it.
LEMMA EventAsLoaded ==
    ASSUME AInv, NEW w \in Workers, CommitEvent(w), overtaken[w] = "never"
    PROVE  LET s == session[w] IN
           /\ s.event \in Events
           /\ eventStatus' = [eventStatus EXCEPT ![s.event] = s.want]
           /\ eventKpi' = Recorded(eventKpi, s.event, s.want)
<1> DEFINE e == session[w].event
<1>1. session[w].pc = "commit_event" /\ e \in Events
  BY CommitEventFacts DEF CommitEvent
<1>2. session[w].loaded = eventStatus[e]
  BY <1>1 DEF AInv, FreshOK
<1>3. /\ eventStatus' = [eventStatus EXCEPT ![e] = Flushed(session[w].loaded, session[w].want, eventStatus[e])]
      /\ eventKpi' = Recorded(eventKpi, e, session[w].want)
  BY DEF CommitEvent
<1>4. Flushed(session[w].loaded, session[w].want, eventStatus[e]) = session[w].want
  BY <1>2 DEF Flushed
<1> QED
  BY <1>1, <1>3, <1>4

\* A request that is answered with success did what it says unless another one
\* committed a change after it had loaded the row (ticket_service.py:130, 211,
\* 240, 271; event_service.py:99, 116): the row locks and the foreign key protect
\* everything from the commit on, and the load is the only thing left to chance.
THEOREM CommitsHonest == Spec => CommitsAsRequested
<1> DEFINE Honest(w) ==
        LET s == session[w] IN
          Commits(w) /\ overtaken[w] = "never" =>
              CASE s.pc = "commit" ->
                      /\ status[s.ticket] = From(s.op)
                      /\ status'[s.ticket] = Target(s.op)
                      /\ KpiLogging => ticketKpi'[s.ticket] = Target(s.op)
                [] s.pc = "commit_event" ->
                      /\ eventStatus'[s.event] = s.want
                      /\ KpiLogging => eventKpi'[s.event] = s.want
                [] s.pc = "cascade" ->
                      /\ EventExists(s.event)
                      /\ KpiLogging => eventKpi'[s.event] = "deleted"
                [] OTHER -> TRUE
<1>1. ASSUME AInv, Next, NEW w \in Workers PROVE Honest(w)
  <2> SUFFICES ASSUME Commits(w), overtaken[w] = "never" PROVE Honest(w)
    OBVIOUS
  <2>0. TypeOK
    BY <1>1 DEF AInv, IInv
  <2>1. CASE session[w].pc = "commit" /\ CommitTicket(w)
    BY <1>1, <2>0, <2>1, TicketAsLoaded DEF TypeOK, Recorded
  <2>2. CASE session[w].pc = "commit_event" /\ CommitEvent(w)
    BY <1>1, <2>0, <2>2, EventAsLoaded DEF TypeOK, Recorded
  <2>3. CASE session[w].pc = "cascade" /\ CommitDelete(w)
    <3>1. EventExists(session[w].event) /\ session[w].event \in Events
      BY <1>1, <2>3, WhoChanges DEF AInv, FreshOK
    <3>2. eventKpi' = Recorded(eventKpi, session[w].event, "deleted")
      BY <2>3 DEF CommitDelete, Latest
    <3> QED
      BY <2>0, <2>3, <3>1, <3>2 DEF TypeOK, Recorded
  <2>4. CASE session[w].pc = "commit_batch"
    BY <2>4
  <2> QED
    BY <1>1, <2>0, <2>1, <2>2, <2>3, <2>4, WhoCommits
<1>2. AInv /\ [Next]_vars => [\A w \in Workers : Honest(w)]_vars
  BY <1>1
<1> QED
  BY <1>2, AnswerInvariance, PTL DEF Spec, CommitsAsRequested

\* Once the deletion of an event is committed no row of it or of its tickets is
\* written, and no KPI row about them but that of another delete that was under
\* way (event_service.py:103-117): everybody else has to find the row, under a
\* lock that the deletion excludes.
THEOREM DeletionFinal == Spec => NothingAfterDeletion
<1> DEFINE Final(e) ==
      eventStatus[e] = "deleted" =>
          /\ \A w \in Workers : session[w].event = e /\ Commits(w) => session[w].op = "delete"
          /\ \A t \in Tickets : EventOf[t] = e =>
                ticketKpi'[t] = ticketKpi[t] /\ status'[t] = status[t]
<1>1. ASSUME AInv, Next, NEW e \in Events PROVE Final(e)
  <2> SUFFICES ASSUME eventStatus[e] = "deleted" PROVE Final(e)
    OBVIOUS
  <2>0. IInv /\ TypeOK /\ ~EventExists(e)
    BY <1>1 DEF AInv, IInv, EventExists, Absent
  <2>1. \A t \in Tickets : EventOf[t] = e => ~TicketExists(t)
    BY <2>0 DEF IInv, NoOrphans
  <2>2. ASSUME NEW w \in Workers, session[w].event = e, Commits(w)
        PROVE  session[w].op = "delete"
    <3>0. IInv /\ SessionOK(w) /\ AnswerOK(w)
      BY <1>1 DEF AInv, IInv
    <3>1. ~CommitTicket(w)
      <4> SUFFICES ASSUME CommitTicket(w) PROVE FALSE
        OBVIOUS
      <4>1. session[w].ticket \in Tickets /\ TicketExists(session[w].ticket)
        BY <3>0, CommitTicketFacts
      <4>2. session[w].event = EventOf[session[w].ticket]
        BY <3>0 DEF CommitTicket, SessionOK, StepHasArguments, TicketSteps
      <4> QED
        BY <2>1, <2>2, <4>1, <4>2
    <3>2. ~(CommitEvent(w) \/ CommitBatch(w))
      BY <2>0, <2>2, <3>0 DEF CommitEvent, CommitBatch, SessionOK, EventCommitLocked
    <3>3. session[w].pc = "cascade"
      BY <1>1, <2>0, <2>2, <3>1, <3>2, WhoCommits
    <3> QED
      BY <3>0, <3>3 DEF AnswerOK, StepIsOf
  <2>3. ASSUME NEW t \in Tickets, EventOf[t] = e
        PROVE  ticketKpi'[t] = ticketKpi[t] /\ status'[t] = status[t]
    <3>0. ~TicketExists(t)
      BY <2>1, <2>3
    <3>1. ASSUME NEW w \in Workers, CommitTicket(w)
          PROVE  ticketKpi'[t] = ticketKpi[t] /\ status'[t] = status[t]
      BY <2>0, <3>0, <3>1, CommitTicketFacts
    <3>2. ASSUME NEW w \in Workers, CommitBatch(w)
          PROVE  ticketKpi'[t] = ticketKpi[t] /\ status'[t] = status[t]
      <4>1. EventExists(session[w].event) /\ \A u \in session[w].batch : EventOf[u] = session[w].event
        BY <2>0, <3>2 DEF CommitBatch, IInv, SessionOK, EventCommitLocked, BatchFresh, InsertSteps
      <4>2. t \notin session[w].batch
        BY <2>0, <2>3, <4>1
      <4> QED
        BY <3>2, <4>2 DEF CommitBatch
    <3>3. ASSUME NEW w \in Workers, CommitEvent(w) \/ CommitDelete(w)
          PROVE  ticketKpi'[t] = ticketKpi[t] /\ status'[t] = status[t]
      BY <3>0, <3>3 DEF CommitEvent, CommitDelete, TicketsOf
    <3>4. ASSUME NEW w \in Workers, NEW x \in Events, CreateEvent(w, x)
          PROVE  ticketKpi'[t] = ticketKpi[t] /\ status'[t] = status[t]
      BY <3>4 DEF CreateEvent
    <3>5. ASSUME NEW s \in Sweepers, SweepCommit(s)
          PROVE  ticketKpi'[t] = ticketKpi[t] /\ status'[t] = status[t]
      <4>1. t \notin Held(s)
        BY <2>0, <3>0 DEF IInv, SweepHoldsLapsed, TicketExists, Absent
      <4> QED
        BY <3>5, <4>1 DEF SweepCommit
    <3> QED
      BY <1>1, <2>0, <3>1, <3>2, <3>3, <3>4, <3>5, WhoWrites
  <2> QED
    BY <2>2, <2>3
<1>2. AInv /\ [Next]_vars => [\A e \in Events : Final(e)]_vars
  BY <1>1
<1> QED
  BY <1>2, AnswerInvariance, PTL DEF Spec, NothingAfterDeletion

\* The tests that end in a 409.
LEMMA WhoRefuses ==
    ASSUME TypeOK, Next, NEW w \in Workers, session[w].pc # "idle", session'[w] = Closed(409)
    PROVE  ReserveSelect(w) \/ ReserveLockTicket(w) \/ ReserveLockEvent(w) \/ CheckStatus(w)
<1>0. session'[w].pc = "idle"
  BY DEF Closed
<1>1. ASSUME NEW code \in Replies \ {409}, session' = [session EXCEPT ![w] = Closed(code)]
      PROVE  FALSE
  BY <1>1, AnswerIs
<1>2. ASSUME NEW step \in Steps \ {"idle"}, Goto(w, step)
      PROVE  FALSE
  BY <1>2, GoesOn
<1>3. CASE FlushTicket(w) \/ FlushEvent(w) \/ InsertBatch(w)
  BY <1>1, <1>2, <1>3 DEF FlushTicket, FlushEvent, InsertBatch, ThenCommit, Abandon, Replies, Steps
<1>4. CASE CommitTicket(w) \/ CommitEvent(w) \/ CommitBatch(w) \/ DeleteEventRow(w)
  BY <1>2, <1>4 DEF CommitTicket, CommitEvent, CommitBatch, DeleteEventRow, Steps
<1>5. CASE CommitDelete(w) \/ DeadlockVictim(w) \/ SessionLost(w)
  BY <1>1, <1>5 DEF CommitDelete, DeadlockVictim, SessionLost, Abandon, Replies
<1>6. CASE Refresh(w)
  <2>1. \E code \in Replies \ {409} : Abandon(w, code)
    BY <1>6 DEF Refresh, Gone, Replies
  <2> QED
    BY <1>1, <2>1 DEF Abandon
<1>7. CASE LoadTickets(w)
  <2>1. /\ session[w] \in Sessions
        /\ session'[w] = [session[w] EXCEPT !.pc = "delete_tickets",
                                            !.batch = TicketsOf(session[w].event)]
    BY <1>7 DEF LoadTickets, TypeOK
  <2>2. session'[w].pc = "delete_tickets"
    BY <2>1 DEF Sessions
  <2> QED
    BY <1>0, <2>2
<1>8. ASSUME NEW t \in Tickets, DeleteTicket(w, t) \/ CascadeTicket(w, t)
      PROVE  FALSE
  BY <1>0, <1>8 DEF DeleteTicket, NextDelete, CascadeTicket, TypeOK, Sessions
<1>9. Continue(w) \/ DeadlockVictim(w) \/ SessionLost(w)
  BY <1>0, WhoEnds
<1> QED
  BY <1>3, <1>4, <1>5, <1>6, <1>7, <1>8, <1>9 DEF Continue

\* No reserve is refused wrongly, and no other request is unless it was overtaken:
\* when a 409 is sent the ticket is in no status the operation could start from,
\* or for a reserve not on sale (api/tickets.py:67-71, 103-107, 139-143, 172-176).
THEOREM RefusalsAreTrue == Spec => RefusalsTrue
<1> DEFINE True(w) ==
        session[w].pc # "idle" /\ session'[w] = Closed(409) =>
            LET t == session[w].ticket IN
            IF session[w].op = "reserve" THEN ~Reservable(t)
            ELSE overtaken[w] = "never" => status[t] # Required(session[w].op)
<1>1. ASSUME AInv, Next, NEW w \in Workers PROVE True(w)
  <2> SUFFICES ASSUME session[w].pc # "idle", session'[w] = Closed(409)
               PROVE  True(w)
    OBVIOUS
  <2>0. TypeOK /\ StepHasArguments(w)
    BY <1>1 DEF AInv, IInv, SessionOK
  <2>1. CASE ReserveSelect(w) \/ ReserveLockTicket(w) \/ ReserveLockEvent(w)
    <3>1. session[w].op = "reserve"
      BY <2>0, <2>1 DEF ReserveSelect, ReserveLockTicket, ReserveLockEvent, StepHasArguments
    <3>2. ~Reservable(session[w].ticket)
      <4>1. CASE ReserveSelect(w)
        BY <2>0, <4>1, GoesOn DEF ReserveSelect, Steps
      <4>2. CASE ReserveLockTicket(w)
        BY <2>0, <4>2, GoesOn DEF ReserveLockTicket, Steps, TicketExists, Absent, Reservable
      <4>3. CASE ReserveLockEvent(w)
        BY <2>0, <4>3, GoesOn DEF ReserveLockEvent, Steps
      <4> QED
        BY <2>1, <4>1, <4>2, <4>3
    <3> QED
      BY <3>1, <3>2
  <2>2. CASE CheckStatus(w)
    <3>1. /\ session[w].pc \in TicketSteps
          /\ session[w].op \in TicketOps \ {"reserve"}
      BY <2>0, <2>2 DEF CheckStatus, StepHasArguments, TicketSteps
    <3>2. overtaken[w] = "never" => status[session[w].ticket] \in {session[w].loaded, "deleted"}
      BY <1>1, <3>1 DEF AInv, FreshOK
    <3>3. ~Passes(session[w])
      BY <2>0, <2>2, GoesOn DEF CheckStatus, Steps
    <3>4. Required(session[w].op) \notin Absent
      BY <3>1 DEF TicketOps, Required, Absent
    <3>5. overtaken[w] = "never" => status[session[w].ticket] # Required(session[w].op)
      BY <3>2, <3>3, <3>4 DEF Passes, TicketExists, Absent
    <3> QED
      BY <3>1, <3>5
  <2> QED
    BY <1>1, <2>0, <2>1, <2>2, WhoRefuses
<1>2. AInv /\ [Next]_vars => [\A w \in Workers : True(w)]_vars
  BY <1>1
<1> QED
  BY <1>2, AnswerInvariance, PTL DEF Spec, RefusalsTrue

-----------------------------------------------------------------------------
(* Deadlocks *)

\* In a circle of sessions everybody is waited for.
LEMMA CircleClosed ==
    ASSUME NEW S, IsFiniteSet(S), NEW next \in [S -> S],
           \A v, w \in S : next[v] = next[w] => v = w,
           NEW v \in S
    PROVE  \E w \in S : next[w] = v
<1>1. next \in Injection(S, S)
  BY DEF Injection, IsInjective
<1>2. next \in Surjection(S, S)
  BY <1>1, FS_Injection
<1> QED
  BY <1>2 DEF Surjection

\* A session that waits is at a step that locks something.  The one it waits
\* for has locked a ticket, which nobody waits for at lock_event, or an event.
LEMMA BlockersFacts ==
    ASSUME IInv, NEW w \in Workers, NEW v \in Blockers(w)
    PROVE  /\ v \in Workers
           /\ session[w].pc \in {"lock_ticket", "flush", "lock_event", "flush_event",
                                 "insert", "delete_tickets", "cascade"}
           /\ \/ session[w].pc # "lock_event" /\ Held(v) # {}
              \/ eventLock[v] # "none"
<1>0. v \in Workers /\ eventLock[v] \in LockModes
  BY DEF Blockers, IInv, TypeOK
<1>1. Strength(eventLock[v]) \in 0..3 /\ Strength(WantedMode(w)) \in 0..3
  BY <1>0, StrengthFacts DEF WantedMode, LockModes
<1>2. CASE \E t \in Wanted(w) : rowLock[t] = v
  BY <1>0, <1>2 DEF Wanted, Held, NextDelete
<1>3. CASE Strength(eventLock[v]) + Strength(WantedMode(w)) >= 4
  <2>1. Strength(eventLock[v]) # 0 /\ Strength(WantedMode(w)) # 0
    BY <1>1, <1>3
  <2>2. eventLock[v] # "none" /\ WantedMode(w) # "none"
    BY <2>1, StrengthFacts
  <2> QED
    BY <1>0, <2>2 DEF WantedMode
<1> QED
  BY <1>2, <1>3 DEF Blockers

\* A session that waits and is waited for is past its first lock: it is a
\* reserve that wants the event, or a delete.
LEMMA WaitingBlocker ==
    ASSUME AInv, NEW v \in Workers, Blockers(v) # {},
           NEW w \in Workers, v \in Blockers(w)
    PROVE  \/ session[v].pc = "lock_event" /\ session[v].op = "reserve"
           \/ session[v].op = "delete"
<1>0. IInv /\ SessionOK(v) /\ AnswerOK(v)
  BY DEF AInv, IInv
<1>1. session[v].pc \in {"lock_ticket", "flush", "lock_event", "flush_event",
                         "insert", "delete_tickets", "cascade"}
  BY <1>0, BlockersFacts
<1>2. Held(v) # {} \/ eventLock[v] # "none"
  BY <1>0, BlockersFacts
<1>3. session[v].pc \in {"lock_event", "delete_tickets", "cascade"}
  BY <1>0, <1>1, <1>2 DEF AnswerOK, HoldsNothingYet, HoldSteps, SessionOK, EventLockCompatible, CommitSteps
<1> QED
  BY <1>0, <1>3 DEF AnswerOK, StepIsOf, SessionOK, StepHasArguments

\* Whoever is in a circle of waiting sessions reserves a ticket or deletes an
\* event, and one of them deletes (ticket_service.py:94-131, the FOR UPDATE on
\* both tables; event_service.py:103-117, the cascade): all the other requests
\* lock once, so they can wait but never be waited for while they do.
THEOREM DeadlocksExplained == Spec => []DeadlocksNeedDelete
<1>1. ASSUME AInv, NEW S \in WaitCycles
      PROVE  /\ \A w \in S : session[w].op \in {"reserve", "delete"}
             /\ \E w \in S : session[w].op = "delete"
  <2>0. IInv /\ \A w \in Workers : SessionOK(w)
    BY <1>1 DEF AInv, IInv
  <2>1. S \subseteq Workers /\ S # {} /\ \A w \in S : Blockers(w) # {}
    <3>1. S \in (SUBSET {w \in Workers : Blockers(w) # {}}) \ {{}}
      BY DEF WaitCycles
    <3>2. S \subseteq {w \in Workers : Blockers(w) # {}} /\ S # {}
      BY <3>1
    <3> QED
      BY <3>2
  <2>2. IsFiniteSet(S)
    BY <2>1, ProcessAssumption, FS_Subset
  <2>3. PICK next \in [S -> S] : /\ \A w \in S : next[w] \in Blockers(w)
                                 /\ \A v, w \in S : next[v] = next[w] => v = w
    BY DEF WaitCycles
  <2>4. \A v \in S : \E w \in S : v \in Blockers(w)
    BY <2>2, <2>3, CircleClosed
  <2>5. \A v \in S : \/ session[v].pc = "lock_event" /\ session[v].op = "reserve"
                     \/ session[v].op = "delete"
    BY <1>1, <2>1, <2>4, WaitingBlocker
  <2>6. \E w \in S : session[w].op = "delete"
    <3> SUFFICES ASSUME \A w \in S : session[w].op # "delete" PROVE FALSE
      OBVIOUS
    <3>1. PICK w \in S : TRUE
      BY <2>1
    <3>2. next[w] \in S /\ next[w] \in Blockers(w)
      BY <2>3
    <3>3. session[w].pc = "lock_event" /\ session[next[w]].pc = "lock_event"
      BY <2>5, <3>2
    <3>4. eventLock[next[w]] # "none"
      BY <2>0, <2>1, <3>2, <3>3, BlockersFacts
    <3> QED
      BY <2>0, <2>1, <3>2, <3>3, <3>4 DEF SessionOK, EventLockCompatible, CommitSteps
  <2> QED
    BY <2>5, <2>6
<1>2. AInv => DeadlocksNeedDelete
  BY <1>1 DEF DeadlocksNeedDelete
<1> QED
  BY <1>2, AnswerInvariance, PTL

\* Whoever in a finite set follows one arrow after the other ends in a circle:
\* the smallest part of the set that no arrow leaves is one.
LEMMA CircleExists ==
    ASSUME NEW S, IsFiniteSet(S), S # {}, NEW arrow \in [S -> S]
    PROVE  \E C \in SUBSET S : /\ C # {}
                               /\ \A w \in C : arrow[w] \in C
                               /\ \A v, w \in C : arrow[v] = arrow[w] => v = w
<1> DEFINE NoArrowLeaves(C) == C # {} /\ \A w \in C : arrow[w] \in C
           Parts == {C \in SUBSET S : NoArrowLeaves(C)}
<1>1. Parts \subseteq FiniteSubsetsOf(S) /\ Parts # {}
  <2>1. S \in Parts
    OBVIOUS
  <2> QED
    BY <2>1, FS_Subset DEF FiniteSubsetsOf
<1>2. PICK C \in Parts : \A D \in Parts : ~(<<D, C>> \in StrictSubsetOrdering(S))
  <2> HIDE DEF Parts
  <2> QED
    BY <1>1, WFMin, FS_StrictSubsetOrderingWellFounded
<1> DEFINE image == {arrow[w] : w \in C}
<1>3. image \in Parts /\ image \subseteq C
  OBVIOUS
<1>4. image = C
  BY <1>2, <1>3 DEF StrictSubsetOrdering
<1> DEFINE onC == [w \in C |-> arrow[w]]
<1>5. onC \in Surjection(C, C)
  BY <1>4 DEF Surjection
<1>6. onC \in Injection(C, C)
  BY <1>5, FS_Subset, FS_Surjection
<1>7. \A v, w \in C : arrow[v] = arrow[w] => v = w
  BY <1>6 DEF Injection, IsInjective
<1> QED
  BY <1>7

\* A session that waits does so for another session that is still open, or for
\* an expiry loop.
LEMMA WaitsForSomebody ==
    ASSUME AInv, NEW w \in Workers, Waits(w)
    PROVE  \/ \E v \in Blockers(w) : session[v].pc # "idle"
           \/ \E t \in Wanted(w) : rowLock[t] \in Sweepers
<1>0. TypeOK /\ \A v \in Workers : SessionOK(v) /\ AnswerOK(v)
  BY DEF AInv, IInv
<1>1. ASSUME NEW v \in Workers, Held(v) # {} \/ eventLock[v] # "none"
      PROVE  session[v].pc # "idle"
  BY <1>0, <1>1 DEF AnswerOK, HoldsNothingYet, HoldSteps, SessionOK, EventLockCompatible, CommitSteps
<1>2. CASE Wanted(w) # {} /\ \A t \in Wanted(w) : rowLock[t] # None
  <2>1. PICK t \in Wanted(w) : rowLock[t] # None
    BY <1>2
  <2>2. t \in Tickets /\ rowLock[t] \in Workers \cup Sweepers
    BY <1>0, <2>1 DEF Wanted, TypeOK
  <2>3. rowLock[t] # w
    <3>1. CASE session[w].pc \in {"lock_ticket", "flush"}
      BY <1>0, <2>2, <3>1 DEF AnswerOK, HoldsNothingYet, HoldSteps, Held
    <3>2. CASE NextDelete(w, t)
      BY <1>0, <2>2, <3>2 DEF AnswerOK, DeletesOnce, NextDelete, Held
    <3>3. CASE t \in LeftOver(w)
      BY <3>3 DEF LeftOver
    <3> QED
      BY <3>1, <3>2, <3>3 DEF Wanted
  <2>4. CASE rowLock[t] \in Workers
    <3>1. rowLock[t] \in Blockers(w)
      BY <2>1, <2>3, <2>4 DEF Blockers
    <3>2. Held(rowLock[t]) # {}
      BY <2>2 DEF Held
    <3> QED
      BY <1>1, <2>4, <3>1, <3>2
  <2> QED
    BY <2>2, <2>4
<1>3. CASE ~EventLockFree(w, WantedMode(w))
  <2>1. PICK v \in Workers \ {w} : /\ session[v].event = session[w].event
                                   /\ ~(Strength(eventLock[v]) + Strength(WantedMode(w)) < 4)
    BY <1>3 DEF EventLockFree
  <2>2. Strength(eventLock[v]) \in 0..3 /\ Strength(WantedMode(w)) \in 0..3
    <3>1. eventLock[v] \in LockModes /\ WantedMode(w) \in LockModes
      BY <1>0 DEF TypeOK, WantedMode, LockModes
    <3> QED
      BY <3>1, StrengthFacts
  <2>3. Strength(eventLock[v]) + Strength(WantedMode(w)) >= 4 /\ Strength(eventLock[v]) # 0
    BY <2>1, <2>2
  <2>4. v \in Blockers(w) /\ eventLock[v] # "none"
    BY <2>1, <2>3, StrengthFacts DEF Blockers
  <2> QED
    BY <1>1, <2>4
<1> QED
  BY <1>2, <1>3 DEF Waits

\* Requests never wait for a lock that nobody gives back: a group of them that
\* waits for nobody outside it, or only for sessions that are over, has a circle
\* in it for the deadlock detector, or waits for an expiry loop, and a loop does
\* not wait (ticket_service.py:94-131, event_service.py:103-117,
\* expiry_service.py:24-67).
THEOREM NobodyHangs == Spec => []NoStandstill
<1>1. ASSUME AInv,
             NEW S \in (SUBSET {w \in Workers : session[w].pc # "idle"}) \ {{}},
             \A w \in S : Waits(w) /\ \A v \in Blockers(w) : session[v].pc = "idle" \/ v \in S,
             \A w \in S : \A t \in Wanted(w) : rowLock[t] \notin Sweepers
      PROVE  \E C \in WaitCycles : C \subseteq S
  <2>1. S \subseteq Workers /\ S # {} /\ IsFiniteSet(S)
    <3>1. S \subseteq Workers /\ S # {}
      OBVIOUS
    <3> QED
      BY <3>1, ProcessAssumption, FS_Subset
  <2>2. \A w \in S : \E v \in S : v \in Blockers(w)
    BY <1>1, <2>1, WaitsForSomebody
  <2> DEFINE arrow == [w \in S |-> CHOOSE v \in S : v \in Blockers(w)]
  <2>3. arrow \in [S -> S] /\ \A w \in S : arrow[w] \in Blockers(w)
    BY <2>2
  <2> HIDE DEF arrow
  <2>4. PICK C \in SUBSET S : /\ C # {}
                              /\ \A w \in C : arrow[w] \in C
                              /\ \A v, w \in C : arrow[v] = arrow[w] => v = w
    BY <2>1, <2>3, CircleExists
  <2> DEFINE next == [w \in C |-> arrow[w]]
  <2>5. /\ next \in [C -> C]
        /\ \A w \in C : next[w] \in Blockers(w)
        /\ \A v, w \in C : next[v] = next[w] => v = w
    BY <2>3, <2>4
  <2>6. C \in (SUBSET {w \in Workers : Blockers(w) # {}}) \ {{}}
    BY <2>1, <2>3, <2>4
  <2> HIDE DEF next
  <2>7. C \in WaitCycles
    BY <2>5, <2>6 DEF WaitCycles
  <2> QED
    BY <2>7
<1>2. AInv => NoStandstill
  BY <1>1 DEF NoStandstill
<1> QED
  BY <1>2, AnswerInvariance, PTL

=============================================================================
