--------------------------- MODULE InventoryProofs ---------------------------
(***************************************************************************)
(* The safety properties of Inventory, for every value of the constants.   *)
(***************************************************************************)
EXTENDS InventoryInvariant, TLAPS

-----------------------------------------------------------------------------
(* Frames *)

\* A session that was closed is a session, at rest and with no batch.
LEMMA ClosedFacts ==
    ASSUME NEW r \in Replies
    PROVE  /\ Closed(r) \in Sessions
           /\ Closed(r).pc = "idle"
           /\ Closed(r).batch = {}
  BY DEF Closed, Sessions, Steps

\* The strengths of the lock modes are numbers a sum of which can be compared with 4.
LEMMA StrengthFacts ==
    /\ Strength("none") = 0
    /\ \A m \in LockModes : Strength(m) \in 0..3
  BY DEF LockModes, Strength

\* Goto moves one session to a step and leaves its arguments and the others alone.
LEMMA GotoFacts ==
    ASSUME TypeOK, NEW w \in Workers, NEW step \in Steps, Goto(w, step)
    PROVE  /\ session' \in [Workers -> Sessions]
           /\ \A v \in Workers \ {w} : session'[v] = session[v]
           /\ session'[w].pc = step
           /\ session'[w].op = session[w].op
           /\ session'[w].ticket = session[w].ticket
           /\ session'[w].event = session[w].event
           /\ session'[w].loaded = session[w].loaded
           /\ session'[w].want = session[w].want
           /\ session'[w].batch = session[w].batch
<1>1. session[w] \in Sessions
  BY DEF TypeOK
<1>2. session'[w] = [session[w] EXCEPT !.pc = step]
  BY DEF TypeOK, Goto
<1>3. session'[w] \in Sessions
  BY <1>1, <1>2 DEF Sessions
<1> QED
  BY <1>1, <1>2, <1>3 DEF TypeOK, Goto, Sessions

\* A step of a session changes no other session.
LEMMA OwnSession ==
    ASSUME TypeOK, NEW v \in Workers,
           Request(v) \/ Continue(v) \/ DeadlockVictim(v) \/ SessionLost(v),
           NEW w \in Workers \ {v}
    PROVE  session'[w] = session[w]
<1>1. CASE Request(v)
  BY <1>1 DEF TypeOK, Request, GetTicket, CreateEvent, EventMissing, UpdateEvent, BatchCreate, DeleteEvent
<1>2. ASSUME NEW t \in Tickets, DeleteTicket(v, t) \/ CascadeTicket(v, t)
      PROVE  session'[w] = session[w]
  BY <1>2 DEF TypeOK, DeleteTicket, CascadeTicket
<1>3. CASE ReserveSelect(v) \/ ReserveLockTicket(v) \/ ReserveLockEvent(v) \/ CheckStatus(v)
  BY <1>3 DEF TypeOK, ReserveSelect, ReserveLockTicket, ReserveLockEvent, CheckStatus, Goto, Abandon
<1>4. CASE FlushTicket(v) \/ CommitTicket(v) \/ FlushEvent(v) \/ CommitEvent(v)
  BY <1>4 DEF TypeOK, FlushTicket, CommitTicket, FlushEvent, CommitEvent, Goto, Abandon
<1>5. CASE InsertBatch(v) \/ CommitBatch(v) \/ LoadTickets(v) \/ DeleteEventRow(v)
  BY <1>5 DEF TypeOK, InsertBatch, CommitBatch, LoadTickets, DeleteEventRow, Goto, Abandon
<1>6. CASE CommitDelete(v) \/ Refresh(v) \/ DeadlockVictim(v) \/ SessionLost(v)
  BY <1>6 DEF TypeOK, CommitDelete, Refresh, DeadlockVictim, SessionLost, Abandon
<1> QED
  BY <1>1, <1>2, <1>3, <1>4, <1>5, <1>6 DEF Continue

-----------------------------------------------------------------------------
(* Stamps *)

\* What the history of overtaken sessions has to keep.
StampsOK ==
    /\ overtaken \in [Workers -> {"never", "since_load", "since_flush"}]
    /\ \A w \in Workers : StampedEarly(w)

\* A step of w that commits nothing: only w can be at another step afterwards.
LEMMA StampsKept ==
    ASSUME IInv, NEW w \in Workers,
           \A v \in Workers \ {w} : session'[v] = session[v],
           overtaken' \in {overtaken, [overtaken EXCEPT ![w] = "never"]},
           overtaken'[w] = "since_flush" =>
               \/ session'[w].pc \in {"flush", "load", "delete_tickets", "cascade"}
               \/ session'[w].pc = "commit" /\ session'[w].op # "reserve"
    PROVE  StampsOK'
<1>1. overtaken' \in [Workers -> {"never", "since_load", "since_flush"}]
  BY DEF IInv, TypeOK
<1>2. ASSUME NEW v \in Workers PROVE StampedEarly(v)'
  <2>1. CASE v = w
    BY <2>1 DEF StampedEarly
  <2>2. CASE v # w
    BY <2>2 DEF IInv, TypeOK, StampedEarly
  <2> QED
    BY <2>1, <2>2
<1> QED
  BY <1>1, <1>2 DEF StampsOK

\* A commit: whoever is overtaken after it has stamped its row is at a step
\* that comes after the stamp.
LEMMA StampsOvertaken ==
    ASSUME IInv, NEW V, NEW w \in Workers,
           \A v \in Workers \ {w} : session'[v] = session[v],
           overtaken' = [Overtaking(V) EXCEPT ![w] = "never"]
    PROVE  StampsOK'
<1>1. Overtaking(V) \in [Workers -> {"never", "since_load", "since_flush"}]
  BY DEF IInv, TypeOK, Overtaking
<1>2. ASSUME NEW v \in Workers PROVE StampedEarly(v)'
  <2>1. CASE v = w
    BY <1>1, <2>1 DEF StampedEarly
  <2>2. CASE v # w
    <3>1. overtaken'[v] = Overtaking(V)[v] /\ session'[v] = session[v] /\ StampedEarly(v)
      BY <1>1, <2>2 DEF IInv
    <3> QED
      BY <3>1 DEF StampedEarly, Overtaking, FeedRowSent
  <2> QED
    BY <2>1, <2>2
<1> QED
  BY <1>1, <1>2 DEF StampsOK

\* The expiry loop overtakes sessions and is none.
LEMMA StampsSwept ==
    ASSUME IInv, NEW s \in Sweepers, SweepCommit(s)
    PROVE  StampsOK'
<1> DEFINE V == UNION {WorkingOn(t) : t \in Held(s)}
<1>1. overtaken' = Overtaking(V) /\ session' = session
  BY DEF SweepCommit
<1> HIDE DEF V
<1>2. overtaken' \in [Workers -> {"never", "since_load", "since_flush"}]
  BY <1>1 DEF IInv, TypeOK, Overtaking
<1>3. ASSUME NEW v \in Workers PROVE StampedEarly(v)'
  BY <1>1 DEF IInv, StampedEarly, Overtaking, FeedRowSent
<1> QED
  BY <1>2, <1>3 DEF StampsOK

\* No step makes a session look overtaken where it is not.
LEMMA StampsNext ==
    ASSUME IInv, [Next]_vars
    PROVE  StampsOK'
<1>0. TypeOK
  BY DEF IInv
<1>1. CASE UNCHANGED vars
  BY <1>1 DEF IInv, TypeOK, StampsOK, StampedEarly, vars
<1>2. ASSUME NEW w \in Workers, Request(w) PROVE StampsOK'
  <2>1. session[w].pc = "idle" /\ overtaken' = overtaken
    BY <1>2 DEF Request, GetTicket, CreateEvent, EventMissing, UpdateEvent, BatchCreate, DeleteEvent
  <2>2. overtaken[w] # "since_flush"
    BY <2>1 DEF IInv, StampedEarly
  <2> QED
    BY <1>0, <1>2, <2>1, <2>2, OwnSession, StampsKept
<1>3. ASSUME NEW w \in Workers, Continue(w) \/ DeadlockVictim(w) \/ SessionLost(w) PROVE StampsOK'
  <2>0. \A v \in Workers \ {w} : session'[v] = session[v]
    BY <1>0, <1>3, OwnSession
  <2>1. ASSUME NEW r, Abandon(w, r) PROVE StampsOK'
    BY <1>0, <2>0, <2>1, StampsKept DEF Abandon, TypeOK
  <2>2. CASE DeadlockVictim(w) \/ SessionLost(w) \/ Refresh(w)
    BY <1>0, <2>0, <2>1, <2>2, StampsKept DEF DeadlockVictim, SessionLost, Refresh, TypeOK
  <2>3. ASSUME session[w].pc \in {"select", "lock_ticket", "lock_event", "check", "flush_event",
                                  "insert", "commit_batch"},
               overtaken' = overtaken
        PROVE  StampsOK'
    <3>1. overtaken[w] # "since_flush"
      BY <2>3 DEF IInv, StampedEarly
    <3> QED
      BY <2>0, <2>3, <3>1, StampsKept
  <2>4. CASE ReserveSelect(w) \/ ReserveLockTicket(w) \/ ReserveLockEvent(w) \/ CheckStatus(w)
    BY <2>1, <2>3, <2>4 DEF ReserveSelect, ReserveLockTicket, ReserveLockEvent, CheckStatus
  <2>5. CASE FlushEvent(w) \/ InsertBatch(w) \/ CommitBatch(w)
    BY <2>1, <2>3, <2>5 DEF FlushEvent, InsertBatch, CommitBatch
  <2>6. CASE FlushTicket(w)
    <3>1. CASE TicketExists(session[w].ticket)
      <4>1. Goto(w, "commit") /\ overtaken' = overtaken /\ "commit" \in Steps
        BY <2>6, <3>1 DEF FlushTicket, ThenCommit, Steps
      <4>2. session[w].op # "reserve"
        BY <2>6 DEF FlushTicket, IInv, SessionOK, StepHasArguments
      <4>3. session'[w].pc = "commit" /\ session'[w].op # "reserve"
        BY <1>0, <4>1, <4>2, GotoFacts
      <4> QED
        BY <2>0, <4>1, <4>3, StampsKept
    <3>2. CASE ~TicketExists(session[w].ticket)
      BY <2>1, <2>6, <3>2 DEF FlushTicket
    <3> QED
      BY <3>1, <3>2
  <2>7. CASE LoadTickets(w) \/ DeleteEventRow(w) \/ (\E t \in Tickets : DeleteTicket(w, t))
    <3>1. session[w] \in Sessions
      BY <1>0 DEF TypeOK
    <3>2. ASSUME NEW t \in Tickets, DeleteTicket(w, t) PROVE session'[w].pc = "delete_tickets"
      <4>1. session'[w] = [session[w] EXCEPT !.batch = @ \ {t}]
        BY <1>0, <3>2 DEF DeleteTicket, TypeOK
      <4> QED
        BY <3>1, <3>2, <4>1 DEF DeleteTicket, NextDelete, Sessions
    <3>3. CASE LoadTickets(w)
      <4>1. session'[w] = [session[w] EXCEPT !.pc = "delete_tickets",
                                             !.batch = TicketsOf(session[w].event)]
        BY <1>0, <3>3 DEF LoadTickets, TypeOK
      <4>2. session'[w].pc = "delete_tickets"
        BY <3>1, <4>1 DEF Sessions
      <4> QED
        BY <2>0, <3>3, <4>2, StampsKept DEF LoadTickets
    <3>4. CASE DeleteEventRow(w)
      <4>1. session'[w].pc = "cascade"
        BY <1>0, <3>4, GotoFacts DEF DeleteEventRow, Steps
      <4> QED
        BY <2>0, <3>4, <4>1, StampsKept DEF DeleteEventRow
    <3>5. ASSUME NEW t \in Tickets, DeleteTicket(w, t) PROVE StampsOK'
      BY <2>0, <3>2, <3>5, StampsKept DEF DeleteTicket
    <3> QED
      BY <2>7, <3>3, <3>4, <3>5
  <2>8. CASE \E t \in Tickets : CascadeTicket(w, t)
    <3>1. session' = session /\ overtaken' = overtaken /\ session[w].pc = "cascade"
      BY <2>8 DEF CascadeTicket
    <3> QED
      BY <2>0, <3>1, StampsKept
  <2>9. CASE CommitTicket(w) \/ CommitEvent(w) \/ CommitDelete(w)
    BY <2>0, <2>9, StampsOvertaken DEF CommitTicket, CommitEvent, CommitDelete
  <2> QED
    BY <1>3, <2>2, <2>4, <2>5, <2>6, <2>7, <2>8, <2>9 DEF Continue
<1>4. ASSUME NEW s \in Sweepers, Sweep(s) \/ SweepFails(s) PROVE StampsOK'
  <2>1. CASE SweepCommit(s)
    BY <2>1, StampsSwept
  <2>2. CASE SweepSelect(s) \/ SweepFails(s)
    BY <2>2 DEF SweepSelect, SweepFails, IInv, TypeOK, StampsOK, StampedEarly
  <2> QED
    BY <1>4, <2>1, <2>2 DEF Sweep
<1>5. ASSUME NEW t \in Tickets, TtlElapses(t) PROVE StampsOK'
  BY <1>5 DEF TtlElapses, IInv, TypeOK, StampsOK, StampedEarly
<1> QED
  BY <1>1, <1>2, <1>3, <1>4, <1>5 DEF Next

-----------------------------------------------------------------------------
(* Steps that commit nothing *)

\* A step of one session that commits nothing keeps the invariant if what it
\* says of that session holds afterwards.
LEMMA SessionStep ==
    ASSUME IInv, StampsOK', NEW w \in Workers,
           UNCHANGED rows,
           session' \in [Workers -> Sessions],
           rowLock' \in [Tickets -> Workers \cup Sweepers \cup {None}],
           eventLock' \in [Workers -> LockModes],
           faults' \in 0..MaxFaults,
           \A v \in Workers \ {w} : session'[v] = session[v] /\ eventLock'[v] = eventLock[v],
           \A t \in Tickets : rowLock'[t] # rowLock[t] => {rowLock[t], rowLock'[t]} = {w, None},
           \A v \in Workers \ {w} :
               session[v].pc \in InsertSteps => session[v].batch \cap session'[w].batch = {},
           SessionOK(w)'
    PROVE  IInv'
<1>1. TypeOK'
  BY DEF IInv, TypeOK, StampsOK, rows
<1>2. ASSUME NEW v \in Workers PROVE SessionOK(v)'
  <2>1. CASE v = w
    BY <2>1
  <2>2. CASE v # w
    <3> USE <2>2
    <3>0. SessionOK(v) /\ session'[v] = session[v] /\ eventLock'[v] = eventLock[v]
      BY DEF IInv
    <3>1. StepHasArguments(v)'
      BY <3>0 DEF SessionOK, StepHasArguments, rows
    <3>2. TicketCommitLocked(v)'
      <4>1. ASSUME session[v].pc \in {"lock_event", "commit"}
            PROVE  rowLock'[session[v].ticket] = v
        <5>1. session[v].ticket \in Tickets /\ rowLock[session[v].ticket] = v
          BY <3>0, <4>1 DEF SessionOK, StepHasArguments, TicketCommitLocked, TicketSteps
        <5>2. v \notin {w, None}
          BY ProcessAssumption
        <5> QED
          BY <5>1, <5>2
      <4> QED
        BY <3>0, <4>1 DEF SessionOK, TicketCommitLocked, rows, TicketExists, Reservable
    <3>3. EventCommitLocked(v)'
      BY <3>0 DEF SessionOK, EventCommitLocked, EventExists, rows
    <3>4. EventLockCompatible(v)'
      <4>1. EventLockCompatible(v) /\ EventLockCompatible(w)'
        BY <3>0 DEF SessionOK
      <4>2. \A u \in Workers : Strength(eventLock'[u]) \in 0..3
        BY StrengthFacts
      <4>3. Strength(eventLock'[w]) + Strength(eventLock'[v])
              = Strength(eventLock'[v]) + Strength(eventLock'[w])
        BY <4>2
      <4> QED
        BY <3>0, <4>1, <4>3 DEF EventLockCompatible
    <3>5. BatchFresh(v)'
      BY <3>0 DEF SessionOK, BatchFresh, rows
    <3> QED
      BY <3>1, <3>2, <3>3, <3>4, <3>5 DEF SessionOK
  <2> QED
    BY <2>1, <2>2
<1>3. SweepHoldsLapsed'
  BY ProcessAssumption DEF IInv, SweepHoldsLapsed, Held, rows
<1>4. ReservedHasDeadline' /\ NoOrphans' /\ FeedAtTheEnds' /\ ReservationsInFeed'
  BY DEF IInv, ReservedHasDeadline, NoOrphans, FeedAtTheEnds, ReservationsInFeed, rows, TicketExists, EventExists
<1> QED
  BY <1>1, <1>2, <1>3, <1>4 DEF IInv, StampsOK

\* A session without locks that opens a request, or answers at once.
LEMMA RequestStep ==
    ASSUME IInv, StampsOK', NEW w \in Workers, session[w].pc = "idle",
           NEW r \in Sessions, session' = [session EXCEPT ![w] = r],
           UNCHANGED <<rows, locks, faults>>,
           r.pc \notin CommitSteps \cup {"lock_event"},
           \A v \in Workers \ {w} :
               session[v].pc \in InsertSteps => session[v].batch \cap r.batch = {},
           StepHasArguments(w)',
           BatchFresh(w)'
    PROVE  IInv'
<1>1. /\ session' \in [Workers -> Sessions]
      /\ session'[w] = r
      /\ \A v \in Workers \ {w} : session'[v] = session[v]
  BY DEF IInv, TypeOK
<1>2. /\ UNCHANGED <<rowLock, eventLock, faults>>
      /\ rowLock \in [Tickets -> Workers \cup Sweepers \cup {None}]
      /\ eventLock \in [Workers -> LockModes]
      /\ faults \in 0..MaxFaults
  BY DEF IInv, TypeOK, locks
<1>3. eventLock[w] = "none"
  BY DEF IInv, SessionOK, EventLockCompatible, CommitSteps
<1>4. TicketCommitLocked(w)' /\ EventCommitLocked(w)'
  BY <1>1 DEF TicketCommitLocked, EventCommitLocked, CommitSteps
<1>5. EventLockCompatible(w)'
  <2>1. \A v \in Workers : Strength(eventLock[v]) + Strength(eventLock[w]) < 4
    <3>1. \A v \in Workers : Strength(eventLock[v]) \in 0..3
      BY <1>2, StrengthFacts
    <3> QED
      BY <1>3, <3>1, StrengthFacts
  <2> QED
    BY <1>2, <1>3, <2>1 DEF EventLockCompatible
<1> QED
  BY <1>1, <1>2, <1>4, <1>5, SessionStep DEF SessionOK

\* A step to the next statement.
LEMMA GotoStep ==
    ASSUME IInv, StampsOK', NEW w \in Workers, NEW step \in Steps, Goto(w, step),
           UNCHANGED <<rows, faults>>,
           rowLock' \in [Tickets -> Workers \cup Sweepers \cup {None}],
           eventLock' \in [Workers -> LockModes],
           \A v \in Workers \ {w} : eventLock'[v] = eventLock[v],
           \A t \in Tickets : rowLock'[t] # rowLock[t] => {rowLock[t], rowLock'[t]} = {w, None},
           SessionOK(w)'
    PROVE  IInv'
<1>1. TypeOK
  BY DEF IInv
<1>2. \A v \in Workers \ {w} :
          session[v].pc \in InsertSteps => session[v].batch \cap session'[w].batch = {}
  BY <1>1, GotoFacts DEF IInv, SessionOK, BatchFresh
<1> QED
  BY <1>1, <1>2, GotoFacts, SessionStep DEF TypeOK

\* A session that ends without a commit.
LEMMA SessionEnds ==
    ASSUME IInv, StampsOK', NEW w \in Workers, NEW r \in Replies,
           session' = [session EXCEPT ![w] = Closed(r)],
           ReleaseAll(w),
           UNCHANGED rows,
           faults' \in 0..MaxFaults
    PROVE  IInv'
<1>1. /\ session' \in [Workers -> Sessions]
      /\ session'[w] = Closed(r)
      /\ \A v \in Workers \ {w} : session'[v] = session[v]
  BY ClosedFacts DEF IInv, TypeOK
<1>2. /\ rowLock' \in [Tickets -> Workers \cup Sweepers \cup {None}]
      /\ \A t \in Tickets : rowLock'[t] # rowLock[t] => {rowLock[t], rowLock'[t]} = {w, None}
  BY DEF IInv, TypeOK, ReleaseAll, Release, Held
<1>3. /\ eventLock' \in [Workers -> LockModes]
      /\ \A v \in Workers \ {w} : eventLock'[v] = eventLock[v]
      /\ eventLock'[w] = "none"
  BY DEF IInv, TypeOK, ReleaseAll, LockModes
<1>4. StepHasArguments(w)' /\ TicketCommitLocked(w)' /\ EventCommitLocked(w)' /\ BatchFresh(w)'
  BY <1>1, ClosedFacts DEF StepHasArguments, TicketCommitLocked, EventCommitLocked, BatchFresh,
     TicketSteps, EventSteps, InsertSteps
<1>5. EventLockCompatible(w)'
  <2>1. \A v \in Workers : Strength(eventLock'[v]) + Strength(eventLock'[w]) < 4
    <3>1. \A v \in Workers : Strength(eventLock'[v]) \in 0..3
      BY <1>3, StrengthFacts
    <3> QED
      BY <1>3, <3>1, StrengthFacts
  <2> QED
    BY <1>3, <2>1 DEF EventLockCompatible
<1>6. \A v \in Workers \ {w} : session[v].batch \cap session'[w].batch = {}
  BY <1>1, ClosedFacts
<1> QED
  BY <1>1, <1>2, <1>3, <1>4, <1>5, <1>6, SessionStep DEF SessionOK

\* Abandon keeps the invariant.
LEMMA AbandonStep ==
    ASSUME IInv, StampsOK', NEW w \in Workers, NEW r \in Replies, Abandon(w, r)
    PROVE  IInv'
  BY SessionEnds DEF Abandon, IInv, TypeOK

-----------------------------------------------------------------------------
(* Requests are opened *)

\* A request that is answered at once keeps the invariant.
LEMMA AnswerStep ==
    ASSUME IInv, StampsOK', NEW w \in Workers, session[w].pc = "idle",
           NEW code \in Replies, session' = [session EXCEPT ![w] = Closed(code)],
           UNCHANGED <<rows, locks, faults>>
    PROVE  IInv'
<1>1. Closed(code) \in Sessions /\ Closed(code).pc = "idle" /\ Closed(code).batch = {}
  BY ClosedFacts
<1>2. session'[w] = Closed(code)
  BY DEF IInv, TypeOK
<1>3. StepHasArguments(w)' /\ BatchFresh(w)'
  BY <1>1, <1>2 DEF StepHasArguments, BatchFresh, TicketSteps, EventSteps, InsertSteps
<1>4. Closed(code).pc \notin CommitSteps \cup {"lock_event"}
  BY <1>1 DEF CommitSteps
<1>5. \A v \in Workers \ {w} : session[v].batch \cap Closed(code).batch = {}
  BY <1>1
<1> QED
  BY <1>1, <1>3, <1>4, <1>5, RequestStep

\* GetTicket keeps the invariant.
LEMMA GetTicketStep ==
    ASSUME IInv, StampsOK', NEW w \in Workers, NEW op \in TicketOps, NEW t \in Tickets,
           GetTicket(w, op, t)
    PROVE  IInv'
<1>1. CASE TicketExists(t)
  <2> DEFINE r == [Closed(0) EXCEPT !.pc = IF op = "reserve" THEN "select" ELSE "check",
                                    !.op = op, !.ticket = t, !.event = EventOf[t],
                                    !.loaded = status[t]]
  <2>1. /\ r.pc = IF op = "reserve" THEN "select" ELSE "check"
        /\ r.op = op
        /\ r.ticket = t
        /\ r.event = EventOf[t]
        /\ r.loaded = status[t]
        /\ r.batch = {}
    BY DEF Closed
  <2>2. /\ r.event \in Events
        /\ r.loaded \in TicketStatuses
    BY <1>1, <2>1, RowsAssumption DEF IInv, TypeOK, TicketExists
  <2>3. r \in Sessions
    BY <2>1, <2>2 DEF Closed, Sessions, Steps, Replies
  <2>4. session' = [session EXCEPT ![w] = r] /\ session'[w] = r
    BY <1>1 DEF GetTicket, IInv, TypeOK
  <2> HIDE DEF r
  <2>5. status'[t] # "unminted"
    BY <1>1 DEF GetTicket, TicketExists, Absent, rows
  <2>6. StepHasArguments(w)'
    BY <2>1, <2>4, <2>5 DEF StepHasArguments, EventSteps
  <2>7. BatchFresh(w)'
    BY <2>1, <2>4 DEF BatchFresh, InsertSteps
  <2>8. r.pc \notin CommitSteps \cup {"lock_event"}
    BY <2>1 DEF CommitSteps
  <2> QED
    BY <2>1, <2>3, <2>4, <2>6, <2>7, <2>8, RequestStep DEF GetTicket
<1>2. CASE ~TicketExists(t)
  BY <1>2, AnswerStep DEF GetTicket, Replies
<1> QED
  BY <1>1, <1>2

\* EventMissing keeps the invariant.
LEMMA EventMissingStep ==
    ASSUME IInv, StampsOK', NEW w \in Workers, NEW e \in Events, EventMissing(w, e)
    PROVE  IInv'
<1>1. 404 \in Replies
  BY DEF Replies
<1> QED
  BY <1>1, AnswerStep DEF EventMissing

\* UpdateEvent keeps the invariant.
LEMMA UpdateEventStep ==
    ASSUME IInv, StampsOK', NEW w \in Workers, NEW e \in Events,
           NEW new \in StatusChoices(e), UpdateEvent(w, e, new)
    PROVE  IInv'
<1>1. eventStatus[e] \in EventStatuses
  BY DEF UpdateEvent, EventExists, IInv, TypeOK
<1>2. CASE new = "invalid"
  <2>1. 500 \in Replies
    BY DEF Replies
  <2>2. /\ session[w].pc = "idle"
        /\ session' = [session EXCEPT ![w] = Closed(500)]
        /\ UNCHANGED <<rows, locks, faults>>
    BY <1>2 DEF UpdateEvent
  <2> QED
    BY <2>1, <2>2, AnswerStep
<1>3. CASE new # "invalid"
  <2> DEFINE r == [Closed(0) EXCEPT !.pc = "flush_event", !.op = "update", !.event = e,
                                    !.loaded = eventStatus[e], !.want = new]
  <2>1. r.pc = "flush_event" /\ r.event = e /\ r.want = new /\ r.batch = {}
    BY DEF Closed
  <2>2. new \in EventStatuses
    BY <1>1, <1>3, InputAssumption DEF StatusChoices
  <2>3. r \in Sessions
    BY <1>1, <2>2 DEF Closed, Sessions, Steps, EventOps, Replies
  <2>4. session' = [session EXCEPT ![w] = r] /\ session'[w] = r
    BY <1>3 DEF UpdateEvent, IInv, TypeOK
  <2>5. StepHasArguments(w)' /\ BatchFresh(w)'
    BY <1>1, <2>1, <2>2, <2>4 DEF UpdateEvent, StepHasArguments, BatchFresh, EventStatuses,
       rows, TicketSteps, InsertSteps
  <2> HIDE DEF r
  <2>6. r.pc \notin CommitSteps \cup {"lock_event"}
    BY <2>1 DEF CommitSteps
  <2>7. session[w].pc = "idle" /\ UNCHANGED <<rows, locks, faults>>
    BY DEF UpdateEvent
  <2> QED
    BY <2>1, <2>3, <2>4, <2>5, <2>6, <2>7, RequestStep
<1> QED
  BY <1>2, <1>3

\* BatchCreate keeps the invariant.
LEMMA BatchCreateStep ==
    ASSUME IInv, StampsOK', NEW w \in Workers, NEW e \in Events, NEW new \in Batches(e),
           BatchCreate(w, e, new)
    PROVE  IInv'
<1> DEFINE r == [Closed(0) EXCEPT !.pc = "insert", !.op = "batch", !.event = e, !.batch = new]
<1>1. r.pc = "insert" /\ r.event = e /\ r.batch = new
  BY DEF Closed
<1>2. /\ new \subseteq Tickets
      /\ \A t \in new : status[t] = "unminted" /\ EventOf[t] = e
      /\ \A v \in Workers : new \cap session[v].batch = {}
  BY DEF Batches, FreshTickets
<1>3. r \in Sessions
  BY <1>2 DEF Closed, Sessions, Steps, EventOps, Replies
<1>4. /\ session' = [session EXCEPT ![w] = r]
      /\ session'[w] = r
      /\ \A v \in Workers \ {w} : session'[v] = session[v]
  BY DEF BatchCreate, IInv, TypeOK
<1> HIDE DEF r
<1>5. StepHasArguments(w)'
  BY <1>1, <1>4 DEF BatchCreate, StepHasArguments, EventExists, Absent, rows, TicketSteps
<1>6. BatchFresh(w)'
  BY <1>1, <1>2, <1>4 DEF BatchCreate, BatchFresh, rows
<1>7. r.pc \notin CommitSteps \cup {"lock_event"}
  BY <1>1 DEF CommitSteps
<1>8. \A v \in Workers \ {w} : session[v].batch \cap r.batch = {}
  BY <1>1, <1>2
<1>9. session[w].pc = "idle" /\ UNCHANGED <<rows, locks, faults>>
  BY DEF BatchCreate
<1> QED
  BY <1>3, <1>4, <1>5, <1>6, <1>7, <1>8, <1>9, RequestStep

\* DeleteEvent keeps the invariant.
LEMMA DeleteEventStep ==
    ASSUME IInv, StampsOK', NEW w \in Workers, NEW e \in Events, DeleteEvent(w, e)
    PROVE  IInv'
<1> DEFINE r == [Closed(0) EXCEPT !.pc = "load", !.op = "delete", !.event = e]
<1>1. r.pc = "load" /\ r.event = e /\ r.batch = {}
  BY DEF Closed
<1>2. r \in Sessions
  BY DEF Closed, Sessions, Steps, EventOps, Replies
<1>3. session' = [session EXCEPT ![w] = r] /\ session'[w] = r
  BY DEF DeleteEvent, IInv, TypeOK
<1> HIDE DEF r
<1>4. StepHasArguments(w)' /\ BatchFresh(w)'
  BY <1>1, <1>3 DEF DeleteEvent, StepHasArguments, BatchFresh, EventExists, Absent, rows,
     TicketSteps, InsertSteps
<1> QED
  BY <1>1, <1>2, <1>3, <1>4, RequestStep DEF DeleteEvent, CommitSteps

-----------------------------------------------------------------------------
(* Statements that lock, test or end *)

\* The session takes the lock of a row nobody holds.
LEMMA RowLocked ==
    ASSUME TypeOK, NEW w \in Workers, NEW t \in Tickets, rowLock[t] = None,
           rowLock' = [rowLock EXCEPT ![t] = w]
    PROVE  /\ rowLock' \in [Tickets -> Workers \cup Sweepers \cup {None}]
           /\ rowLock'[t] = w
           /\ \A u \in Tickets : rowLock'[u] # rowLock[u] => {rowLock[u], rowLock'[u]} = {w, None}
  BY DEF TypeOK

\* The session takes a lock on its event that the others admit.
LEMMA EventLocked ==
    ASSUME IInv, NEW w \in Workers, NEW mode \in LockModes, NEW step \in CommitSteps,
           EventLockFree(w, mode), Goto(w, step), step \in Steps,
           eventLock' = [eventLock EXCEPT ![w] = mode]
    PROVE  /\ eventLock' \in [Workers -> LockModes]
           /\ eventLock'[w] = mode
           /\ \A v \in Workers \ {w} : eventLock'[v] = eventLock[v]
           /\ EventLockCompatible(w)'
<1>1. /\ eventLock' \in [Workers -> LockModes]
      /\ eventLock'[w] = mode
      /\ \A v \in Workers \ {w} : eventLock'[v] = eventLock[v]
  BY DEF IInv, TypeOK
<1>2. /\ session'[w].pc = step
      /\ session'[w].event = session[w].event
      /\ \A v \in Workers \ {w} : session'[v] = session[v]
  BY GotoFacts DEF IInv
<1> QED
  BY <1>1, <1>2 DEF EventLockFree, EventLockCompatible

\* ReserveSelect keeps the invariant.
LEMMA ReserveSelectStep ==
    ASSUME IInv, StampsOK', NEW w \in Workers, ReserveSelect(w)
    PROVE  IInv'
<1>0. TypeOK /\ SessionOK(w) /\ session[w].pc = "select"
  BY DEF IInv, ReserveSelect
<1>1. CASE Reservable(session[w].ticket)
  <2>1. Goto(w, "lock_ticket") /\ UNCHANGED <<rows, locks, faults>> /\ "lock_ticket" \in Steps
    BY <1>1 DEF ReserveSelect, Steps
  <2>2. SessionOK(w)'
    <3>1. StepHasArguments(w)'
      BY <1>0, <2>1, GotoFacts DEF SessionOK, StepHasArguments, TicketSteps, EventSteps, rows
    <3>2. TicketCommitLocked(w)' /\ EventCommitLocked(w)' /\ BatchFresh(w)'
      BY <1>0, <2>1, GotoFacts DEF TicketCommitLocked, EventCommitLocked, BatchFresh, InsertSteps
    <3>3. EventLockCompatible(w)'
      BY <1>0, <2>1, GotoFacts DEF SessionOK, EventLockCompatible, CommitSteps, locks
    <3> QED
      BY <3>1, <3>2, <3>3 DEF SessionOK
  <2> QED
    BY <1>0, <2>1, <2>2, GotoStep DEF TypeOK, locks
<1>2. CASE ~Reservable(session[w].ticket)
  <2>1. 409 \in Replies
    BY DEF Replies
  <2> QED
    BY <1>2, <2>1, AbandonStep DEF ReserveSelect
<1> QED
  BY <1>1, <1>2

\* CheckStatus keeps the invariant.
LEMMA CheckStatusStep ==
    ASSUME IInv, StampsOK', NEW w \in Workers, CheckStatus(w)
    PROVE  IInv'
<1>0. TypeOK /\ SessionOK(w) /\ session[w].pc = "check"
  BY DEF IInv, CheckStatus
<1>1. CASE TicketExists(session[w].ticket) /\ session[w].loaded = Required(session[w].op)
  <2>1. Goto(w, "flush") /\ UNCHANGED <<rows, locks, faults>> /\ "flush" \in Steps
    BY <1>1 DEF CheckStatus, Passes, Steps
  <2>2. SessionOK(w)'
    <3>1. StepHasArguments(w)'
      BY <1>0, <1>1, <2>1, GotoFacts DEF SessionOK, StepHasArguments, TicketSteps, EventSteps, rows
    <3>2. TicketCommitLocked(w)' /\ EventCommitLocked(w)' /\ BatchFresh(w)'
      BY <1>0, <2>1, GotoFacts DEF TicketCommitLocked, EventCommitLocked, BatchFresh, InsertSteps
    <3>3. EventLockCompatible(w)'
      BY <1>0, <2>1, GotoFacts DEF SessionOK, EventLockCompatible, CommitSteps, locks
    <3> QED
      BY <3>1, <3>2, <3>3 DEF SessionOK
  <2> QED
    BY <1>0, <2>1, <2>2, GotoStep DEF TypeOK, locks
<1>2. CASE ~(TicketExists(session[w].ticket) /\ session[w].loaded = Required(session[w].op))
  <2>1. 409 \in Replies
    BY DEF Replies
  <2> QED
    BY <1>2, <2>1, AbandonStep DEF CheckStatus, Passes
<1> QED
  BY <1>1, <1>2

\* ReserveLockTicket keeps the invariant.
LEMMA ReserveLockTicketStep ==
    ASSUME IInv, StampsOK', NEW w \in Workers, ReserveLockTicket(w)
    PROVE  IInv'
<1>0. TypeOK /\ SessionOK(w) /\ session[w].pc = "lock_ticket" /\ session[w].ticket \in Tickets
  BY DEF IInv, ReserveLockTicket, SessionOK, StepHasArguments, TicketSteps
<1>1. CASE TicketExists(session[w].ticket)
  <2>1. /\ Goto(w, "lock_event")
        /\ UNCHANGED <<rows, eventLock, faults>>
        /\ rowLock[session[w].ticket] = None
        /\ rowLock' = [rowLock EXCEPT ![session[w].ticket] = w]
        /\ "lock_event" \in Steps
    BY <1>1 DEF ReserveLockTicket, Steps
  <2>2. SessionOK(w)'
    <3>1. StepHasArguments(w)'
      BY <1>0, <2>1, GotoFacts DEF SessionOK, StepHasArguments, TicketSteps, EventSteps, rows
    <3>2. TicketCommitLocked(w)'
      BY <1>0, <1>1, <2>1, GotoFacts, RowLocked DEF TicketCommitLocked, TicketExists, rows
    <3>3. EventCommitLocked(w)' /\ BatchFresh(w)'
      BY <1>0, <2>1, GotoFacts DEF EventCommitLocked, BatchFresh, InsertSteps
    <3>4. EventLockCompatible(w)'
      BY <1>0, <2>1, GotoFacts DEF SessionOK, EventLockCompatible, CommitSteps
    <3> QED
      BY <3>1, <3>2, <3>3, <3>4 DEF SessionOK
  <2>3. /\ rowLock' \in [Tickets -> Workers \cup Sweepers \cup {None}]
        /\ \A u \in Tickets : rowLock'[u] # rowLock[u] => {rowLock[u], rowLock'[u]} = {w, None}
    BY <1>0, <2>1, RowLocked
  <2> QED
    BY <1>0, <2>1, <2>2, <2>3, GotoStep DEF TypeOK
<1>2. CASE ~TicketExists(session[w].ticket)
  <2>1. 409 \in Replies
    BY DEF Replies
  <2> QED
    BY <1>2, <2>1, AbandonStep DEF ReserveLockTicket
<1> QED
  BY <1>1, <1>2

\* FlushTicket keeps the invariant.
LEMMA FlushTicketStep ==
    ASSUME IInv, StampsOK', NEW w \in Workers, FlushTicket(w)
    PROVE  IInv'
<1>0. TypeOK /\ SessionOK(w) /\ session[w].pc = "flush" /\ session[w].ticket \in Tickets
  BY DEF IInv, FlushTicket, SessionOK, StepHasArguments, TicketSteps
<1>1. CASE TicketExists(session[w].ticket)
  <2>1. /\ Goto(w, "commit")
        /\ UNCHANGED <<rows, eventLock, faults>>
        /\ rowLock[session[w].ticket] = None
        /\ rowLock' = [rowLock EXCEPT ![session[w].ticket] = w]
        /\ "commit" \in Steps
    BY <1>1 DEF FlushTicket, ThenCommit, Steps
  <2>2. SessionOK(w)'
    <3>1. StepHasArguments(w)'
      BY <1>0, <2>1, GotoFacts DEF SessionOK, StepHasArguments, TicketSteps, EventSteps, rows
    <3>2. TicketCommitLocked(w)'
      <4>1. session[w].op # "reserve"
        BY <1>0 DEF SessionOK, StepHasArguments
      <4> QED
        BY <1>0, <1>1, <2>1, <4>1, GotoFacts, RowLocked DEF TicketCommitLocked, TicketExists, rows
    <3>3. EventCommitLocked(w)' /\ BatchFresh(w)'
      BY <1>0, <2>1, GotoFacts DEF EventCommitLocked, BatchFresh, InsertSteps
    <3>4. EventLockCompatible(w)'
      BY <1>0, <2>1, GotoFacts DEF SessionOK, EventLockCompatible, CommitSteps
    <3> QED
      BY <3>1, <3>2, <3>3, <3>4 DEF SessionOK
  <2>3. /\ rowLock' \in [Tickets -> Workers \cup Sweepers \cup {None}]
        /\ \A u \in Tickets : rowLock'[u] # rowLock[u] => {rowLock[u], rowLock'[u]} = {w, None}
    BY <1>0, <2>1, RowLocked
  <2> QED
    BY <1>0, <2>1, <2>2, <2>3, GotoStep DEF TypeOK
<1>2. CASE ~TicketExists(session[w].ticket)
  <2>1. 500 \in Replies
    BY DEF Replies
  <2> QED
    BY <1>2, <2>1, AbandonStep DEF FlushTicket
<1> QED
  BY <1>1, <1>2

\* ReserveLockEvent keeps the invariant.
LEMMA ReserveLockEventStep ==
    ASSUME IInv, StampsOK', NEW w \in Workers, ReserveLockEvent(w)
    PROVE  IInv'
<1>0. TypeOK /\ SessionOK(w) /\ session[w].pc = "lock_event"
  BY DEF IInv, ReserveLockEvent
<1>1. CASE Reservable(session[w].ticket)
  <2>1. /\ Goto(w, "commit")
        /\ UNCHANGED <<rows, rowLock, faults>>
        /\ EventLockFree(w, "update")
        /\ eventLock' = [eventLock EXCEPT ![w] = "update"]
        /\ "commit" \in Steps /\ "commit" \in CommitSteps /\ "update" \in LockModes
    BY <1>1 DEF ReserveLockEvent, EventForUpdate, Steps, CommitSteps, LockModes
  <2>2. /\ eventLock' \in [Workers -> LockModes]
        /\ eventLock'[w] = "update"
        /\ \A v \in Workers \ {w} : eventLock'[v] = eventLock[v]
        /\ EventLockCompatible(w)'
    BY <2>1, EventLocked
  <2>3. SessionOK(w)'
    <3>1. StepHasArguments(w)'
      BY <1>0, <2>1, GotoFacts DEF SessionOK, StepHasArguments, TicketSteps, EventSteps, rows
    <3>2. TicketCommitLocked(w)'
      BY <1>0, <1>1, <2>1, <2>2, GotoFacts DEF SessionOK, TicketCommitLocked, TicketExists,
         Reservable, rows
    <3>3. EventCommitLocked(w)' /\ BatchFresh(w)'
      BY <1>0, <2>1, GotoFacts DEF EventCommitLocked, BatchFresh, InsertSteps
    <3> QED
      BY <2>2, <3>1, <3>2, <3>3 DEF SessionOK
  <2> QED
    BY <1>0, <2>1, <2>2, <2>3, GotoStep DEF TypeOK
<1>2. CASE ~Reservable(session[w].ticket)
  <2>1. 409 \in Replies
    BY DEF Replies
  <2> QED
    BY <1>2, <2>1, AbandonStep DEF ReserveLockEvent
<1> QED
  BY <1>1, <1>2

\* FlushEvent keeps the invariant.
LEMMA FlushEventStep ==
    ASSUME IInv, StampsOK', NEW w \in Workers, FlushEvent(w)
    PROVE  IInv'
<1>0. TypeOK /\ SessionOK(w) /\ session[w].pc = "flush_event"
  BY DEF IInv, FlushEvent
<1>1. CASE EventExists(session[w].event)
  <2>1. /\ Goto(w, "commit_event")
        /\ UNCHANGED <<rows, rowLock, faults>>
        /\ EventLockFree(w, "no_key_update")
        /\ eventLock' = [eventLock EXCEPT ![w] = "no_key_update"]
        /\ "commit_event" \in Steps
        /\ "commit_event" \in CommitSteps
        /\ "no_key_update" \in LockModes
    BY <1>1 DEF FlushEvent, Steps, CommitSteps, LockModes
  <2>2. /\ eventLock' \in [Workers -> LockModes]
        /\ eventLock'[w] = "no_key_update"
        /\ \A v \in Workers \ {w} : eventLock'[v] = eventLock[v]
        /\ EventLockCompatible(w)'
    BY <2>1, EventLocked
  <2>3. SessionOK(w)'
    <3>1. StepHasArguments(w)'
      BY <1>0, <2>1, GotoFacts DEF SessionOK, StepHasArguments, TicketSteps, EventSteps, rows
    <3>2. EventCommitLocked(w)'
      BY <1>0, <1>1, <2>1, <2>2, GotoFacts DEF EventCommitLocked, EventExists, rows
    <3>3. TicketCommitLocked(w)' /\ BatchFresh(w)'
      BY <1>0, <2>1, GotoFacts DEF TicketCommitLocked, BatchFresh, InsertSteps
    <3> QED
      BY <2>2, <3>1, <3>2, <3>3 DEF SessionOK
  <2> QED
    BY <1>0, <2>1, <2>2, <2>3, GotoStep DEF TypeOK
<1>2. CASE ~EventExists(session[w].event)
  <2>1. 500 \in Replies
    BY DEF Replies
  <2> QED
    BY <1>2, <2>1, AbandonStep DEF FlushEvent
<1> QED
  BY <1>1, <1>2

\* InsertBatch keeps the invariant.
LEMMA InsertBatchStep ==
    ASSUME IInv, StampsOK', NEW w \in Workers, InsertBatch(w)
    PROVE  IInv'
<1>0. TypeOK /\ SessionOK(w) /\ session[w].pc = "insert"
  BY DEF IInv, InsertBatch
<1>1. CASE EventExists(session[w].event)
  <2>1. /\ Goto(w, "commit_batch")
        /\ UNCHANGED <<rows, rowLock, faults>>
        /\ EventLockFree(w, "key_share")
        /\ eventLock' = [eventLock EXCEPT ![w] = "key_share"]
        /\ "commit_batch" \in Steps
        /\ "commit_batch" \in CommitSteps
        /\ "key_share" \in LockModes
    BY <1>1 DEF InsertBatch, Steps, CommitSteps, LockModes
  <2>2. /\ eventLock' \in [Workers -> LockModes]
        /\ eventLock'[w] = "key_share"
        /\ \A v \in Workers \ {w} : eventLock'[v] = eventLock[v]
        /\ EventLockCompatible(w)'
    BY <2>1, EventLocked
  <2>3. SessionOK(w)'
    <3>1. StepHasArguments(w)'
      BY <1>0, <2>1, GotoFacts DEF SessionOK, StepHasArguments, TicketSteps, EventSteps, rows
    <3>2. EventCommitLocked(w)'
      BY <1>0, <1>1, <2>1, <2>2, GotoFacts DEF EventCommitLocked, EventExists, rows
    <3>3. TicketCommitLocked(w)'
      BY <1>0, <2>1, GotoFacts DEF TicketCommitLocked
    <3>4. BatchFresh(w)'
      BY <1>0, <2>1, GotoFacts DEF SessionOK, BatchFresh, InsertSteps, rows
    <3> QED
      BY <2>2, <3>1, <3>2, <3>3, <3>4 DEF SessionOK
  <2> QED
    BY <1>0, <2>1, <2>2, <2>3, GotoStep DEF TypeOK
<1>2. CASE ~EventExists(session[w].event)
  <2>1. 500 \in Replies
    BY DEF Replies
  <2> QED
    BY <1>2, <2>1, AbandonStep DEF InsertBatch
<1> QED
  BY <1>1, <1>2

\* LoadTickets keeps the invariant.
LEMMA LoadTicketsStep ==
    ASSUME IInv, StampsOK', NEW w \in Workers, LoadTickets(w)
    PROVE  IInv'
<1>0. TypeOK /\ SessionOK(w) /\ session[w].pc = "load"
  BY DEF IInv, LoadTickets
<1> DEFINE B == TicketsOf(session[w].event)
<1>1. session[w] \in Sessions /\ B \in SUBSET Tickets
  BY <1>0 DEF TypeOK, TicketsOf
<1>2. /\ session' = [session EXCEPT ![w] = [session[w] EXCEPT !.pc = "delete_tickets", !.batch = B]]
      /\ session'[w] = [session[w] EXCEPT !.pc = "delete_tickets", !.batch = B]
  BY <1>0 DEF LoadTickets, TypeOK
<1>3. /\ session' \in [Workers -> Sessions]
      /\ \A v \in Workers \ {w} : session'[v] = session[v]
      /\ session'[w].pc = "delete_tickets"
      /\ session'[w].event = session[w].event
      /\ session'[w].batch = B
  <2> HIDE DEF B
  <2>0. "delete_tickets" \in Steps
    BY DEF Steps
  <2> DEFINE moved == [session[w] EXCEPT !.pc = "delete_tickets"]
  <2>1. moved \in Sessions
    BY <1>1, <2>0 DEF Sessions
  <2>2. session'[w] = [moved EXCEPT !.batch = B]
    BY <1>1, <1>2 DEF Sessions
  <2> HIDE DEF moved
  <2>3. session'[w] \in Sessions
    BY <1>1, <2>1, <2>2 DEF Sessions
  <2> QED
    BY <1>0, <1>1, <1>2, <2>3 DEF TypeOK, Sessions
<1>4. UNCHANGED <<rows, rowLock, eventLock, faults>>
  BY DEF LoadTickets, locks
<1>5. SessionOK(w)'
  <2>1. StepHasArguments(w)'
    BY <1>0, <1>3, <1>4 DEF SessionOK, StepHasArguments, TicketSteps, EventSteps, rows
  <2>2. TicketCommitLocked(w)' /\ EventCommitLocked(w)' /\ BatchFresh(w)'
    BY <1>3 DEF TicketCommitLocked, EventCommitLocked, BatchFresh, InsertSteps
  <2>3. EventLockCompatible(w)'
    BY <1>0, <1>3, <1>4 DEF SessionOK, EventLockCompatible, CommitSteps
  <2> QED
    BY <2>1, <2>2, <2>3 DEF SessionOK
<1>6. ASSUME NEW v \in Workers \ {w}, session[v].pc \in InsertSteps
      PROVE  session[v].batch \cap session'[w].batch = {}
  <2>1. \A t \in session[v].batch : status[t] = "unminted"
    BY <1>6 DEF IInv, SessionOK, BatchFresh
  <2>2. \A t \in B : status[t] # "unminted"
    BY DEF TicketsOf, TicketExists, Absent
  <2> QED
    BY <1>3, <2>1, <2>2
<1> QED
  BY <1>0, <1>3, <1>4, <1>5, <1>6, SessionStep DEF TypeOK

\* DeleteTicket keeps the invariant.
LEMMA DeleteTicketStep ==
    ASSUME IInv, StampsOK', NEW w \in Workers, NEW t \in Tickets, DeleteTicket(w, t)
    PROVE  IInv'
<1>0. TypeOK /\ SessionOK(w) /\ session[w].pc = "delete_tickets"
  BY DEF IInv, DeleteTicket, NextDelete
<1> DEFINE B == session[w].batch \ {t}
<1>1. session[w] \in Sessions /\ B \in SUBSET Tickets
  BY <1>0 DEF TypeOK, Sessions
<1>2. session' = [session EXCEPT ![w].batch = B] /\ session'[w] = [session[w] EXCEPT !.batch = B]
  BY <1>0 DEF DeleteTicket, TypeOK
<1>3. /\ session' \in [Workers -> Sessions]
      /\ \A v \in Workers \ {w} : session'[v] = session[v]
      /\ session'[w].pc = "delete_tickets"
      /\ session'[w].event = session[w].event
      /\ session'[w].batch = B
  <2>1. session'[w] \in Sessions
    BY <1>1, <1>2 DEF Sessions
  <2> QED
    BY <1>0, <1>1, <1>2, <2>1 DEF TypeOK, Sessions
<1>4. UNCHANGED <<rows, eventLock, faults>>
  BY DEF DeleteTicket
<1>5. /\ rowLock' \in [Tickets -> Workers \cup Sweepers \cup {None}]
      /\ \A u \in Tickets : rowLock'[u] # rowLock[u] => {rowLock[u], rowLock'[u]} = {w, None}
  BY <1>0, RowLocked DEF DeleteTicket, TypeOK
<1>6. SessionOK(w)'
  <2>1. StepHasArguments(w)'
    BY <1>0, <1>3, <1>4 DEF SessionOK, StepHasArguments, TicketSteps, EventSteps, rows
  <2>2. TicketCommitLocked(w)' /\ EventCommitLocked(w)' /\ BatchFresh(w)'
    BY <1>3 DEF TicketCommitLocked, EventCommitLocked, BatchFresh, InsertSteps
  <2>3. EventLockCompatible(w)'
    BY <1>0, <1>3, <1>4 DEF SessionOK, EventLockCompatible, CommitSteps
  <2> QED
    BY <2>1, <2>2, <2>3 DEF SessionOK
<1>7. ASSUME NEW v \in Workers \ {w}, session[v].pc \in InsertSteps
      PROVE  session[v].batch \cap session'[w].batch = {}
  BY <1>3, <1>7 DEF IInv, SessionOK, BatchFresh
<1> QED
  BY <1>0, <1>3, <1>4, <1>5, <1>6, <1>7, SessionStep DEF TypeOK

\* DeleteEventRow keeps the invariant.
LEMMA DeleteEventRowStep ==
    ASSUME IInv, StampsOK', NEW w \in Workers, DeleteEventRow(w)
    PROVE  IInv'
<1>0. TypeOK /\ SessionOK(w) /\ session[w].pc = "delete_tickets"
  BY DEF IInv, DeleteEventRow
<1>1. /\ Goto(w, "cascade")
      /\ UNCHANGED <<rows, rowLock, faults>>
      /\ EventLockFree(w, "update")
      /\ "cascade" \in Steps /\ "cascade" \in CommitSteps /\ "update" \in LockModes
  BY DEF DeleteEventRow, Steps, CommitSteps, LockModes
<1>2. StepHasArguments(w)'
  BY <1>0, <1>1, GotoFacts DEF SessionOK, StepHasArguments, TicketSteps, EventSteps, rows
<1>3. TicketCommitLocked(w)' /\ BatchFresh(w)'
  BY <1>0, <1>1, GotoFacts DEF TicketCommitLocked, BatchFresh, InsertSteps
<1>4. CASE EventExists(session[w].event)
  <2>1. eventLock' = [eventLock EXCEPT ![w] = "update"]
    BY <1>4 DEF DeleteEventRow
  <2>2. /\ eventLock' \in [Workers -> LockModes]
        /\ eventLock'[w] = "update"
        /\ \A v \in Workers \ {w} : eventLock'[v] = eventLock[v]
        /\ EventLockCompatible(w)'
    BY <1>1, <2>1, EventLocked
  <2>3. EventCommitLocked(w)'
    BY <1>0, <1>1, <2>2, GotoFacts DEF EventCommitLocked
  <2> QED
    BY <1>0, <1>1, <1>2, <1>3, <2>2, <2>3, GotoStep DEF TypeOK, SessionOK
<1>5. CASE ~EventExists(session[w].event)
  <2>1. UNCHANGED eventLock
    BY <1>5 DEF DeleteEventRow
  <2>2. EventCommitLocked(w)'
    BY <1>0, <1>1, <1>5, GotoFacts DEF EventCommitLocked, EventExists, rows
  <2>3. EventLockCompatible(w)'
    BY <1>0, <1>1, <2>1, GotoFacts DEF SessionOK, EventLockCompatible, CommitSteps
  <2> QED
    BY <1>0, <1>1, <1>2, <1>3, <2>1, <2>2, <2>3, GotoStep DEF TypeOK, SessionOK
<1> QED
  BY <1>4, <1>5

\* CascadeTicket keeps the invariant.
LEMMA CascadeTicketStep ==
    ASSUME IInv, StampsOK', NEW w \in Workers, NEW t \in Tickets, CascadeTicket(w, t)
    PROVE  IInv'
<1>0. TypeOK /\ SessionOK(w) /\ session[w].pc = "cascade"
  BY DEF IInv, CascadeTicket
<1>1. UNCHANGED <<rows, session, eventLock, faults>>
  BY DEF CascadeTicket
<1>2. /\ rowLock' \in [Tickets -> Workers \cup Sweepers \cup {None}]
      /\ \A u \in Tickets : rowLock'[u] # rowLock[u] => {rowLock[u], rowLock'[u]} = {w, None}
  BY <1>0, RowLocked DEF CascadeTicket
<1>3. SessionOK(w)'
  <2>1. StepHasArguments(w)' /\ EventCommitLocked(w)' /\ EventLockCompatible(w)' /\ BatchFresh(w)'
    BY <1>0, <1>1 DEF SessionOK, StepHasArguments, EventCommitLocked, EventLockCompatible,
       BatchFresh, EventExists, rows
  <2>2. TicketCommitLocked(w)'
    BY <1>0, <1>1 DEF TicketCommitLocked
  <2> QED
    BY <2>1, <2>2 DEF SessionOK
<1>4. ASSUME NEW v \in Workers \ {w}, session[v].pc \in InsertSteps
      PROVE  session[v].batch \cap session'[w].batch = {}
  BY <1>1, <1>4 DEF IInv, SessionOK, BatchFresh
<1> QED
  BY <1>0, <1>1, <1>2, <1>3, <1>4, SessionStep DEF TypeOK

\* Refresh keeps the invariant.
LEMMA RefreshStep ==
    ASSUME IInv, StampsOK', NEW w \in Workers, Refresh(w)
    PROVE  IInv'
<1>1. PICK r \in {200, 201, 500} : Abandon(w, r)
  BY DEF Refresh, Gone
<1> QED
  BY <1>1, AbandonStep DEF Replies

\* A statement that the deadlock detector fails rolls its transaction back (invariant kept).
LEMMA VictimStep ==
    ASSUME IInv, StampsOK', NEW w \in Workers, DeadlockVictim(w) \/ SessionLost(w)
    PROVE  IInv'
<1>1. 500 \in Replies
  BY DEF Replies
<1>2. CASE DeadlockVictim(w)
  BY <1>1, <1>2, AbandonStep DEF DeadlockVictim
<1>3. CASE SessionLost(w)
  <2>1. faults' \in 0..MaxFaults
    BY <1>3, InputAssumption DEF SessionLost, IInv, TypeOK
  <2> QED
    BY <1>1, <1>3, <2>1, SessionEnds DEF SessionLost
<1> QED
  BY <1>2, <1>3

-----------------------------------------------------------------------------
(* Commits *)

\* What a step has to leave alone for a session that does not take it.
LEMMA OtherSession ==
    ASSUME IInv, NEW v \in Workers,
           session'[v] = session[v],
           eventLock'[v] = eventLock[v],
           \A t \in Tickets :
               rowLock[t] = v /\ TicketExists(t) => rowLock'[t] = v /\ status'[t] = status[t],
           \A t \in Tickets : status[t] # "unminted" => status'[t] # "unminted",
           session[v].pc \in InsertSteps =>
               \A t \in session[v].batch : status'[t] = status[t],
           \A e \in Events : eventStatus[e] # "unminted" => eventStatus'[e] # "unminted",
           \A e \in Events : eventStatus[e] = "deleted" => eventStatus'[e] = "deleted",
           eventLock[v] # "none" /\ EventExists(session[v].event) =>
               eventStatus'[session[v].event] # "deleted",
           eventLock[v] = "update" /\ EventExists(session[v].event) =>
               eventStatus'[session[v].event] = eventStatus[session[v].event],
           \A u \in Workers \ {v} :
               \/ session'[u].event = session[u].event /\ eventLock'[u] = eventLock[u]
               \/ eventLock'[u] = "none",
           session[v].pc \in InsertSteps =>
               \A u \in Workers \ {v} : session[v].batch \cap session'[u].batch = {},
           eventLock' \in [Workers -> LockModes]
    PROVE  SessionOK(v)'
<1>0. TypeOK /\ SessionOK(v)
  BY DEF IInv
<1>1. StepHasArguments(v)'
  BY <1>0 DEF SessionOK, StepHasArguments
<1>2. TicketCommitLocked(v)'
  <2>1. SUFFICES ASSUME session[v].pc \in {"lock_event", "commit"}
                 PROVE  TicketCommitLocked(v)'
    BY DEF TicketCommitLocked
  <2>2. /\ session[v].ticket \in Tickets
        /\ session[v].event = EventOf[session[v].ticket]
        /\ rowLock[session[v].ticket] = v
        /\ TicketExists(session[v].ticket)
    BY <1>0, <2>1 DEF SessionOK, StepHasArguments, TicketCommitLocked, TicketSteps
  <2>3. /\ rowLock'[session[v].ticket] = v
        /\ status'[session[v].ticket] = status[session[v].ticket]
    BY <2>2
  <2>4. ASSUME session[v].pc = "commit", session[v].op = "reserve"
        PROVE  eventLock'[v] = "update" /\ Reservable(session[v].ticket)'
    <3>1. eventLock[v] = "update" /\ Reservable(session[v].ticket)
      BY <1>0, <2>4 DEF SessionOK, TicketCommitLocked
    <3>2. EventExists(session[v].event)
      BY <2>2, <3>1 DEF Reservable, EventExists, Absent
    <3> QED
      BY <2>2, <2>3, <3>1, <3>2 DEF Reservable
  <2> QED
    BY <2>2, <2>3, <2>4 DEF TicketCommitLocked, TicketExists
<1>3. EventCommitLocked(v)'
  <2>1. SUFFICES ASSUME session[v].pc \in {"commit_event", "commit_batch", "cascade"}
                 PROVE  EventCommitLocked(v)'
    BY DEF EventCommitLocked
  <2>2. session[v].event \in Events /\ eventStatus[session[v].event] # "unminted"
    BY <1>0, <2>1 DEF SessionOK, StepHasArguments, EventSteps
  <2> QED
    BY <1>0, <2>1, <2>2 DEF SessionOK, EventCommitLocked, EventExists, Absent
<1>4. EventLockCompatible(v)'
  <2>1. session[v].pc \notin CommitSteps => eventLock[v] = "none"
    BY <1>0 DEF SessionOK, EventLockCompatible
  <2>2. ASSUME NEW u \in Workers \ {v}, session'[u].event = session'[v].event
        PROVE  Strength(eventLock'[u]) + Strength(eventLock'[v]) < 4
    <3>1. CASE session'[u].event = session[u].event /\ eventLock'[u] = eventLock[u]
      BY <1>0, <2>2, <3>1 DEF SessionOK, EventLockCompatible
    <3>2. CASE eventLock'[u] = "none"
      <4>1. Strength(eventLock'[v]) \in 0..3
        BY StrengthFacts
      <4> QED
        BY <3>2, <4>1, StrengthFacts
    <3> QED
      BY <3>1, <3>2
  <2> QED
    BY <2>1, <2>2 DEF EventLockCompatible
<1>5. BatchFresh(v)'
  BY <1>0 DEF SessionOK, BatchFresh
<1> QED
  BY <1>1, <1>2, <1>3, <1>4, <1>5 DEF SessionOK

\* What ReleaseAll leaves behind.
LEMMA ReleaseFacts ==
    ASSUME IInv, NEW w \in Workers, ReleaseAll(w)
    PROVE  /\ rowLock' \in [Tickets -> Workers \cup Sweepers \cup {None}]
           /\ eventLock' \in [Workers -> LockModes]
           /\ \A t \in Tickets : rowLock'[t] = IF rowLock[t] = w THEN None ELSE rowLock[t]
           /\ \A s \in Sweepers : Held(s)' = Held(s)
           /\ eventLock'[w] = "none"
           /\ \A v \in Workers \ {w} : eventLock'[v] = eventLock[v]
<1>1. \A t \in Tickets : rowLock'[t] = IF rowLock[t] = w THEN None ELSE rowLock[t]
  BY DEF ReleaseAll, Release, Held
<1>2. \A s \in Sweepers : s # w /\ s # None
  BY ProcessAssumption
<1>3. \A s \in Sweepers : Held(s)' = Held(s)
  BY <1>1, <1>2 DEF Held
<1> QED
  BY <1>1, <1>3 DEF IInv, TypeOK, ReleaseAll, Release, LockModes

\* A session that has committed and released everything.
LEMMA RefreshingOK ==
    ASSUME IInv, NEW w \in Workers, session'[w].pc \in {"refresh", "idle"},
           ReleaseAll(w)
    PROVE  SessionOK(w)'
<1>1. StepHasArguments(w)' /\ TicketCommitLocked(w)' /\ EventCommitLocked(w)' /\ BatchFresh(w)'
  BY DEF StepHasArguments, TicketCommitLocked, EventCommitLocked, BatchFresh,
     TicketSteps, EventSteps, InsertSteps
<1>2. EventLockCompatible(w)'
  <2>1. \A v \in Workers : Strength(eventLock'[v]) \in 0..3
    BY ReleaseFacts, StrengthFacts
  <2>2. eventLock'[w] = "none"
    BY ReleaseFacts
  <2> QED
    BY <2>1, <2>2, StrengthFacts DEF EventLockCompatible
<1> QED
  BY <1>1, <1>2 DEF SessionOK

\* CreateEvent keeps the invariant.
LEMMA CreateEventStep ==
    ASSUME IInv, StampsOK', NEW w \in Workers, NEW e \in Events, CreateEvent(w, e)
    PROVE  IInv'
<1> DEFINE r == [Closed(0) EXCEPT !.pc = "refresh", !.op = "create", !.event = e]
<1>1. r.pc = "refresh" /\ r.event = e /\ r.batch = {}
  BY DEF Closed
<1>2. r \in Sessions
  BY DEF Closed, Sessions, Steps, EventOps, Replies
<1>3. /\ session' \in [Workers -> Sessions]
      /\ session'[w] = r
      /\ \A v \in Workers \ {w} : session'[v] = session[v]
  BY <1>2 DEF CreateEvent, IInv, TypeOK
<1> HIDE DEF r
<1>4. /\ eventStatus' = [eventStatus EXCEPT ![e] = "draft"]
      /\ eventStatus[e] = "unminted"
      /\ UNCHANGED <<status, reservedAt, ticketKpi, rowLock, eventLock, faults>>
  BY DEF CreateEvent, locks
<1>5. TypeOK'
  BY <1>3, <1>4 DEF CreateEvent, IInv, TypeOK, Recorded, EventStatuses, Absent, StampsOK
<1>6. eventLock[w] = "none"
  BY DEF CreateEvent, IInv, SessionOK, EventLockCompatible, CommitSteps
<1>7. SessionOK(w)'
  <2>1. StepHasArguments(w)' /\ TicketCommitLocked(w)' /\ EventCommitLocked(w)' /\ BatchFresh(w)'
    BY <1>1, <1>3 DEF StepHasArguments, TicketCommitLocked, EventCommitLocked, BatchFresh,
       TicketSteps, EventSteps, InsertSteps
  <2>2. \A v \in Workers : Strength(eventLock'[v]) \in 0..3
    BY <1>5, StrengthFacts DEF TypeOK
  <2>3. EventLockCompatible(w)'
    BY <1>4, <1>6, <2>2, StrengthFacts DEF EventLockCompatible
  <2> QED
    BY <2>1, <2>3 DEF SessionOK
<1>8. ASSUME NEW v \in Workers \ {w} PROVE SessionOK(v)'
  <2>1. /\ \A x \in Events : eventStatus[x] # "unminted" => eventStatus'[x] = eventStatus[x]
        /\ \A x \in Events : eventStatus'[x] = "deleted" => eventStatus[x] = "deleted"
    BY <1>4 DEF IInv, TypeOK
  <2>2. \A x \in Events : EventExists(x) => eventStatus'[x] = eventStatus[x] /\ eventStatus[x] # "deleted"
    BY <2>1 DEF EventExists, Absent
  <2>3. eventLock[v] # "none" => session[v].event \in Events
    <3>1. session[v].pc \notin CommitSteps => eventLock[v] = "none"
      BY DEF IInv, SessionOK, EventLockCompatible
    <3>2. session[v].pc \in CommitSteps => session[v].event \in Events
      BY RowsAssumption DEF IInv, SessionOK, StepHasArguments, CommitSteps, TicketSteps, EventSteps
    <3> QED
      BY <3>1, <3>2
  <2>4. session[v].pc \in InsertSteps =>
            \A u \in Workers \ {v} : session[v].batch \cap session'[u].batch = {}
    BY <1>1, <1>3 DEF IInv, SessionOK, BatchFresh
  <2>5. \A u \in Workers \ {v} :
            \/ session'[u].event = session[u].event /\ eventLock'[u] = eventLock[u]
            \/ eventLock'[u] = "none"
    BY <1>3, <1>4, <1>6
  <2> QED
    BY <1>3, <1>4, <1>5, <2>1, <2>2, <2>3, <2>4, <2>5, OtherSession DEF TypeOK
<1>9. SweepHoldsLapsed' /\ ReservedHasDeadline' /\ ReservationsInFeed'
  BY <1>4 DEF IInv, SweepHoldsLapsed, ReservedHasDeadline, ReservationsInFeed, Held, TicketExists
<1>10. NoOrphans'
  BY <1>4 DEF IInv, TypeOK, NoOrphans, TicketExists, EventExists, Absent
<1>11. FeedAtTheEnds'
  BY <1>4 DEF CreateEvent, IInv, TypeOK, FeedAtTheEnds, Recorded
<1> QED
  BY <1>5, <1>7, <1>8, <1>9, <1>10, <1>11 DEF IInv, StampsOK

\* CommitTicket keeps the invariant.
LEMMA CommitTicketStep ==
    ASSUME IInv, StampsOK', NEW w \in Workers, CommitTicket(w)
    PROVE  IInv'
<1> DEFINE t == session[w].ticket
           op == session[w].op
           new == Flushed(session[w].loaded, Target(op), status[t])
<1>0. TypeOK /\ SessionOK(w) /\ session[w].pc = "commit"
  BY DEF IInv, CommitTicket
<1>1. /\ t \in Tickets
      /\ op \in TicketOps
      /\ rowLock[t] = w
      /\ TicketExists(t)
      /\ op = "reserve" => status[t] = "available"
      /\ op # "reserve" => session[w].loaded = Required(op)
  BY <1>0 DEF SessionOK, StepHasArguments, TicketCommitLocked, TicketSteps, Reservable
<1>2. /\ Goto(w, "refresh")
      /\ "refresh" \in Steps
      /\ ReleaseAll(w)
      /\ UNCHANGED <<eventStatus, eventKpi, faults>>
  BY DEF CommitTicket, Steps
<1>3. /\ status' = [status EXCEPT ![t] = new]
      /\ reservedAt' = [reservedAt EXCEPT ![t] = ReservedAtAfter(op, reservedAt[t])]
      /\ ticketKpi' \in Latest(w, ticketKpi, t, Target(op))
  BY DEF CommitTicket
<1>4. /\ new \in TicketStatuses
      /\ Target(op) \in TicketStatuses
      /\ ReservedAtAfter(op, reservedAt[t]) \in {"none", "fresh", "lapsed"}
  <2>1. Target(op) \in TicketStatuses
    BY <1>1 DEF Target, TicketOps, TicketStatuses
  <2>2. status[t] \in TicketStatuses
    BY <1>0, <1>1 DEF TypeOK, TicketExists
  <2> QED
    BY <1>0, <1>1, <2>1, <2>2 DEF Flushed, ReservedAtAfter, TypeOK
<1>5. \/ new = Target(op)
      \/ op = "reserve" /\ new = "available"
  BY <1>1 DEF Flushed, Target, Required, TicketOps
<1> HIDE DEF new
<1>6. TypeOK'
  BY <1>0, <1>1, <1>2, <1>3, <1>4, GotoFacts, ReleaseFacts DEF TypeOK, Latest, Recorded, StampsOK
<1>7. SessionOK(w)'
  BY <1>0, <1>2, GotoFacts, RefreshingOK
<1>8. /\ status'[t] = new
      /\ reservedAt'[t] = ReservedAtAfter(op, reservedAt[t])
      /\ \A u \in Tickets \ {t} : /\ status'[u] = status[u]
                                  /\ reservedAt'[u] = reservedAt[u]
                                  /\ ticketKpi'[u] = ticketKpi[u]
      /\ KpiLogging /\ overtaken[w] # "since_flush" => ticketKpi'[t] = Target(op)
      /\ status[t] # "unminted"
  BY <1>0, <1>1, <1>3 DEF TypeOK, Latest, Recorded, TicketExists, Absent
<1>9. ASSUME NEW v \in Workers \ {w} PROVE SessionOK(v)'
  <2>1. \A u \in Tickets : rowLock[u] = v => rowLock'[u] = v /\ status'[u] = status[u]
    BY <1>1, <1>2, <1>8, ReleaseFacts
  <2>2. \A u \in Tickets : status[u] # "unminted" => status'[u] # "unminted"
    BY <1>4, <1>8 DEF TicketStatuses
  <2>3. session[v].pc \in InsertSteps => \A u \in session[v].batch : status'[u] = status[u]
    BY <1>0, <1>8 DEF IInv, SessionOK, BatchFresh, TypeOK, Sessions
  <2>4. session[v].pc \in InsertSteps =>
            \A u \in Workers \ {v} : session[v].batch \cap session'[u].batch = {}
    BY <1>0, <1>2, GotoFacts DEF IInv, SessionOK, BatchFresh
  <2>5. \A u \in Workers \ {v} :
            \/ session'[u].event = session[u].event /\ eventLock'[u] = eventLock[u]
            \/ eventLock'[u] = "none"
    BY <1>0, <1>2, GotoFacts, ReleaseFacts
  <2>6. session'[v] = session[v] /\ eventLock'[v] = eventLock[v] /\ eventLock' \in [Workers -> LockModes]
    BY <1>0, <1>2, GotoFacts, ReleaseFacts
  <2> QED
    BY <1>2, <2>1, <2>2, <2>3, <2>4, <2>5, <2>6, OtherSession DEF EventExists, Absent
<1>10. SweepHoldsLapsed'
  <2>1. ASSUME NEW s \in Sweepers, NEW u \in Held(s)
        PROVE  status'[u] = "reserved" /\ reservedAt'[u] = "lapsed"
    <3>1. u \in Tickets /\ rowLock[u] = s /\ s # w
      BY ProcessAssumption DEF Held
    <3>2. u # t
      BY <1>1, <3>1
    <3>3. status[u] = "reserved" /\ reservedAt[u] = "lapsed"
      BY DEF IInv, SweepHoldsLapsed
    <3> QED
      BY <1>8, <3>1, <3>2, <3>3
  <2> QED
    BY <1>2, <2>1, ReleaseFacts DEF SweepHoldsLapsed
<1>11. ReservedHasDeadline'
  <2>1. status'[t] = "reserved" => op = "reserve"
    BY <1>1, <1>5, <1>8 DEF Target, TicketOps
  <2>2. op = "reserve" => reservedAt'[t] # "none"
    BY <1>8 DEF ReservedAtAfter
  <2> QED
    BY <1>8, <2>1, <2>2 DEF IInv, ReservedHasDeadline
<1>12. NoOrphans'
  <2>1. \A u \in Tickets : TicketExists(u)' => TicketExists(u)
    BY <1>1, <1>8 DEF TicketExists
  <2> QED
    BY <1>2, <2>1 DEF IInv, NoOrphans, EventExists
<1>13. FeedAtTheEnds'
  BY <1>2, <1>4, <1>8 DEF IInv, FeedAtTheEnds, TicketStatuses
<1>14. ReservationsInFeed'
  <2>1. status'[t] = "reserved" => op = "reserve"
    BY <1>1, <1>5, <1>8 DEF Target, TicketOps
  <2>2. op = "reserve" => overtaken[w] # "since_flush" /\ Target(op) = "reserved"
    BY <1>0 DEF IInv, StampedEarly, Target
  <2> QED
    BY <1>8, <2>1, <2>2 DEF IInv, ReservationsInFeed
<1> QED
  BY <1>6, <1>7, <1>9, <1>10, <1>11, <1>12, <1>13, <1>14 DEF IInv, StampsOK

\* CommitEvent keeps the invariant.
LEMMA CommitEventStep ==
    ASSUME IInv, StampsOK', NEW w \in Workers, CommitEvent(w)
    PROVE  IInv'
<1> DEFINE e == session[w].event
           new == Flushed(session[w].loaded, session[w].want, eventStatus[e])
<1>0. TypeOK /\ SessionOK(w) /\ session[w].pc = "commit_event"
  BY DEF IInv, CommitEvent
<1>1. /\ e \in Events
      /\ eventLock[w] = "no_key_update"
      /\ EventExists(e)
      /\ session[w].want \in EventStatuses
  BY <1>0 DEF SessionOK, StepHasArguments, EventCommitLocked, EventSteps
<1>2. /\ Goto(w, "refresh")
      /\ "refresh" \in Steps
      /\ ReleaseAll(w)
      /\ UNCHANGED <<status, reservedAt, ticketKpi, faults>>
  BY DEF CommitEvent, Steps
<1>3. /\ eventStatus' = [eventStatus EXCEPT ![e] = new]
      /\ eventKpi' = Recorded(eventKpi, e, session[w].want)
  BY DEF CommitEvent
<1>4. new \in EventStatuses
  BY <1>0, <1>1 DEF Flushed, EventExists, TypeOK
<1> HIDE DEF new
<1>5. TypeOK'
  BY <1>0, <1>1, <1>2, <1>3, <1>4, GotoFacts, ReleaseFacts DEF TypeOK, Latest, Recorded, StampsOK
<1>6. SessionOK(w)'
  BY <1>0, <1>2, GotoFacts, RefreshingOK
<1>7. /\ eventStatus'[e] = new
      /\ new # "unminted" /\ new # "deleted"
      /\ \A x \in Events \ {e} : eventStatus'[x] = eventStatus[x] /\ eventKpi'[x] = eventKpi[x]
      /\ eventStatus[e] # "unminted" /\ eventStatus[e] # "deleted"
  BY <1>0, <1>1, <1>3, <1>4 DEF TypeOK, Recorded, EventExists, Absent, EventStatuses
<1>8. ASSUME NEW v \in Workers \ {w} PROVE SessionOK(v)'
  <2>1. session'[v] = session[v] /\ eventLock'[v] = eventLock[v] /\ eventLock' \in [Workers -> LockModes]
    BY <1>0, <1>2, GotoFacts, ReleaseFacts
  <2>2. \A u \in Tickets : rowLock[u] = v => rowLock'[u] = v
    BY <1>2, ReleaseFacts
  <2>3. session[v].pc \in InsertSteps =>
            \A u \in Workers \ {v} : session[v].batch \cap session'[u].batch = {}
    BY <1>0, <1>2, GotoFacts DEF IInv, SessionOK, BatchFresh
  <2>4. \A u \in Workers \ {v} :
            \/ session'[u].event = session[u].event /\ eventLock'[u] = eventLock[u]
            \/ eventLock'[u] = "none"
    BY <1>0, <1>2, GotoFacts, ReleaseFacts
  <2>5. session[v].event = e => eventLock[v] # "update"
    <3>1. SUFFICES ASSUME session[v].event = e, eventLock[v] = "update" PROVE FALSE
      OBVIOUS
    <3>2. Strength(eventLock[v]) + Strength(eventLock[w]) < 4
      BY <1>0, <3>1 DEF SessionOK, EventLockCompatible
    <3> QED
      BY <1>1, <3>1, <3>2 DEF Strength
  <2>6. eventLock[v] # "none" => session[v].event \in Events
    <3>1. session[v].pc \notin CommitSteps => eventLock[v] = "none"
      BY DEF IInv, SessionOK, EventLockCompatible
    <3>2. session[v].pc \in CommitSteps => session[v].event \in Events
      BY RowsAssumption DEF IInv, SessionOK, StepHasArguments, CommitSteps, TicketSteps, EventSteps
    <3> QED
      BY <3>1, <3>2
  <2>7. \A x \in Events : /\ eventStatus[x] # "unminted" => eventStatus'[x] # "unminted"
                          /\ eventStatus[x] = "deleted" => eventStatus'[x] = "deleted"
    BY <1>7
  <2>8. /\ eventLock[v] # "none" /\ EventExists(session[v].event) =>
               eventStatus'[session[v].event] # "deleted"
        /\ eventLock[v] = "update" /\ EventExists(session[v].event) =>
               eventStatus'[session[v].event] = eventStatus[session[v].event]
    BY <1>7, <2>5, <2>6 DEF EventExists, Absent
  <2> QED
    BY <1>2, <2>1, <2>2, <2>3, <2>4, <2>7, <2>8, OtherSession
<1>9. SweepHoldsLapsed' /\ ReservedHasDeadline' /\ ReservationsInFeed'
  BY <1>2, ReleaseFacts DEF IInv, SweepHoldsLapsed, ReservedHasDeadline, ReservationsInFeed, TicketExists
<1>10. NoOrphans'
  BY <1>2, <1>7, RowsAssumption DEF IInv, NoOrphans, TicketExists, EventExists, Absent
<1>11. FeedAtTheEnds'
  BY <1>2, <1>7 DEF IInv, FeedAtTheEnds
<1> QED
  BY <1>5, <1>6, <1>8, <1>9, <1>10, <1>11 DEF IInv, StampsOK

\* CommitBatch keeps the invariant.
LEMMA CommitBatchStep ==
    ASSUME IInv, StampsOK', NEW w \in Workers, CommitBatch(w)
    PROVE  IInv'
<1> DEFINE B == session[w].batch
<1>0. TypeOK /\ SessionOK(w) /\ session[w].pc = "commit_batch"
  BY DEF IInv, CommitBatch
<1>1. /\ B \subseteq Tickets
      /\ \A t \in B : status[t] = "unminted" /\ EventOf[t] = session[w].event
      /\ EventExists(session[w].event)
      /\ \A v \in Workers \ {w} : B \cap session[v].batch = {}
  BY <1>0 DEF SessionOK, BatchFresh, EventCommitLocked, InsertSteps, TypeOK, Sessions
<1>2. /\ Goto(w, "refresh")
      /\ "refresh" \in Steps
      /\ ReleaseAll(w)
      /\ UNCHANGED <<reservedAt, eventStatus, ticketKpi, eventKpi, faults>>
      /\ status' = [t \in Tickets |-> IF t \in B THEN "available" ELSE status[t]]
  BY DEF CommitBatch, Steps
<1> HIDE DEF B
<1>3. TypeOK'
  BY <1>0, <1>2, GotoFacts, ReleaseFacts DEF TypeOK, TicketStatuses, StampsOK
<1>4. SessionOK(w)'
  BY <1>0, <1>2, GotoFacts, RefreshingOK
<1>5. \A t \in Tickets : status[t] # "unminted" => status'[t] = status[t]
  BY <1>1, <1>2
<1>6. ASSUME NEW v \in Workers \ {w} PROVE SessionOK(v)'
  <2>1. session'[v] = session[v] /\ eventLock'[v] = eventLock[v] /\ eventLock' \in [Workers -> LockModes]
    BY <1>0, <1>2, GotoFacts, ReleaseFacts
  <2>2. session'[w].batch = B /\ \A u \in Workers \ {w} : session'[u] = session[u]
    BY <1>0, <1>2, GotoFacts DEF B
  <2>3. session[v].pc \in InsertSteps =>
            \A u \in Workers \ {v} : session[v].batch \cap session'[u].batch = {}
    BY <1>1, <2>2 DEF IInv, SessionOK, BatchFresh
  <2>4. \A u \in Workers \ {v} :
            \/ session'[u].event = session[u].event /\ eventLock'[u] = eventLock[u]
            \/ eventLock'[u] = "none"
    BY <1>0, <1>2, GotoFacts, ReleaseFacts
  <2>5. session[v].pc \in InsertSteps => \A u \in session[v].batch : status'[u] = status[u]
    BY <1>0, <1>1, <1>2 DEF TypeOK, Sessions
  <2>6. \A u \in Tickets :
            rowLock[u] = v /\ TicketExists(u) => rowLock'[u] = v /\ status'[u] = status[u]
    BY <1>2, <1>5, ReleaseFacts DEF TicketExists, Absent
  <2> QED
    BY <1>2, <1>5, <2>1, <2>3, <2>4, <2>5, <2>6, OtherSession DEF EventExists, Absent
<1>7. SweepHoldsLapsed' /\ ReservedHasDeadline'
  BY <1>1, <1>2, <1>5, ReleaseFacts DEF IInv, SweepHoldsLapsed, ReservedHasDeadline, Held
<1>8. NoOrphans'
  BY <1>1, <1>2 DEF IInv, NoOrphans, TicketExists, EventExists
<1>9. FeedAtTheEnds' /\ ReservationsInFeed'
  BY <1>1, <1>2 DEF IInv, FeedAtTheEnds, ReservationsInFeed, TicketExists
<1> QED
  BY <1>3, <1>4, <1>6, <1>7, <1>8, <1>9 DEF IInv, StampsOK

\* CommitDelete keeps the invariant.
LEMMA CommitDeleteStep ==
    ASSUME IInv, StampsOK', NEW w \in Workers, CommitDelete(w)
    PROVE  IInv'
<1> DEFINE e == session[w].event
           gone == TicketsOf(e) \cap Held(w)
<1>0. TypeOK /\ SessionOK(w) /\ session[w].pc = "cascade" /\ LeftOver(w) = {}
  BY DEF IInv, CommitDelete
<1>1. /\ e \in Events
      /\ eventStatus[e] # "unminted"
      /\ eventLock[w] = "update" \/ ~EventExists(e)
  BY <1>0 DEF SessionOK, StepHasArguments, EventCommitLocked, EventSteps
<1>2. /\ session' = [session EXCEPT ![w] = Closed(204)]
      /\ ReleaseAll(w)
      /\ UNCHANGED <<ticketKpi, faults>>
      /\ status' = [t \in Tickets |-> IF t \in gone THEN "deleted" ELSE status[t]]
      /\ reservedAt' = [t \in Tickets |-> IF t \in gone THEN "none" ELSE reservedAt[t]]
      /\ eventStatus' = [eventStatus EXCEPT ![e] = "deleted"]
      /\ eventKpi' \in Latest(w, eventKpi, e, "deleted")
  BY DEF CommitDelete
<1>3. /\ \A t \in Tickets : t \in gone => rowLock[t] = w /\ TicketExists(t)
      /\ \A t \in Tickets : EventOf[t] = e /\ TicketExists(t) => t \in gone
  BY <1>0 DEF TicketsOf, Held, LeftOver
<1> HIDE DEF gone
<1>4. /\ session' \in [Workers -> Sessions]
      /\ session'[w].pc = "idle"
      /\ session'[w].batch = {}
      /\ \A v \in Workers \ {w} : session'[v] = session[v]
  <2>1. 204 \in Replies
    BY DEF Replies
  <2> QED
    BY <1>0, <1>2, <2>1, ClosedFacts DEF TypeOK
<1>5. TypeOK'
  BY <1>0, <1>1, <1>2, <1>4, ReleaseFacts DEF TypeOK, Latest, Recorded, Absent, StampsOK
<1>6. SessionOK(w)'
  BY <1>2, <1>4, RefreshingOK
<1>7. /\ \A t \in Tickets : status[t] # "unminted" => status'[t] # "unminted"
      /\ \A t \in Tickets : ~TicketExists(t) => status'[t] = status[t]
      /\ \A t \in Tickets : TicketExists(t)' => TicketExists(t) /\ t \notin gone /\ status'[t] = status[t]
  BY <1>2, <1>3 DEF TicketExists, Absent
<1>8. ASSUME NEW v \in Workers \ {w} PROVE SessionOK(v)'
  <2>1. session'[v] = session[v] /\ eventLock'[v] = eventLock[v] /\ eventLock' \in [Workers -> LockModes]
    BY <1>2, <1>4, ReleaseFacts
  <2>2. \A u \in Tickets : rowLock[u] = v => rowLock'[u] = v /\ status'[u] = status[u]
    BY <1>2, <1>3, ReleaseFacts
  <2>3. session[v].pc \in InsertSteps => \A u \in session[v].batch : status'[u] = status[u]
    BY <1>0, <1>7 DEF IInv, SessionOK, BatchFresh, TypeOK, Sessions, TicketExists, Absent
  <2>4. session[v].pc \in InsertSteps =>
            \A u \in Workers \ {v} : session[v].batch \cap session'[u].batch = {}
    BY <1>4 DEF IInv, SessionOK, BatchFresh
  <2>5. \A u \in Workers \ {v} :
            \/ session'[u].event = session[u].event /\ eventLock'[u] = eventLock[u]
            \/ eventLock'[u] = "none"
    BY <1>2, <1>4, ReleaseFacts
  <2>6. \A x \in Events \ {e} : eventStatus'[x] = eventStatus[x]
    BY <1>0, <1>2 DEF TypeOK
  <2>7. eventStatus'[e] = "deleted"
    BY <1>0, <1>1, <1>2 DEF TypeOK
  <2>8. session[v].event = e /\ EventExists(e) => eventLock[v] = "none"
    <3>1. SUFFICES ASSUME session[v].event = e, eventLock[w] = "update", eventLock[v] # "none"
                   PROVE  FALSE
      BY <1>1
    <3>2. Strength(eventLock[v]) + Strength(eventLock[w]) < 4
      BY <1>0, <3>1 DEF SessionOK, EventLockCompatible
    <3>3. eventLock[v] \in {"key_share", "no_key_update", "update"}
      BY <1>0, <3>1 DEF TypeOK, LockModes
    <3> QED
      BY <3>1, <3>2, <3>3 DEF Strength
  <2>9. eventLock[v] # "none" => session[v].event \in Events
    <3>1. session[v].pc \notin CommitSteps => eventLock[v] = "none"
      BY DEF IInv, SessionOK, EventLockCompatible
    <3>2. session[v].pc \in CommitSteps => session[v].event \in Events
      BY RowsAssumption DEF IInv, SessionOK, StepHasArguments, CommitSteps, TicketSteps, EventSteps
    <3> QED
      BY <3>1, <3>2
  <2>10. \A x \in Events : /\ eventStatus[x] # "unminted" => eventStatus'[x] # "unminted"
                           /\ eventStatus[x] = "deleted" => eventStatus'[x] = "deleted"
    BY <2>6, <2>7
  <2>11. eventLock[v] # "none" /\ EventExists(session[v].event) =>
             /\ eventStatus'[session[v].event] # "deleted"
             /\ eventStatus'[session[v].event] = eventStatus[session[v].event]
    BY <2>6, <2>8, <2>9 DEF EventExists, Absent
  <2> QED
    BY <1>7, <2>1, <2>2, <2>3, <2>4, <2>5, <2>10, <2>11, OtherSession
<1>9. SweepHoldsLapsed'
  <2>1. ASSUME NEW s \in Sweepers, NEW u \in Held(s)
        PROVE  status'[u] = "reserved" /\ reservedAt'[u] = "lapsed"
    <3>1. u \in Tickets /\ rowLock[u] = s /\ s # w
      BY ProcessAssumption DEF Held
    <3>2. u \notin gone
      BY <1>3, <3>1
    <3>3. status[u] = "reserved" /\ reservedAt[u] = "lapsed"
      BY DEF IInv, SweepHoldsLapsed
    <3> QED
      BY <1>2, <3>1, <3>2, <3>3
  <2> QED
    BY <1>2, <2>1, ReleaseFacts DEF SweepHoldsLapsed
<1>10. ReservedHasDeadline'
  BY <1>2 DEF IInv, ReservedHasDeadline
<1>11. NoOrphans'
  <2>1. ASSUME NEW t \in Tickets, TicketExists(t)' PROVE EventExists(EventOf[t])'
    <3>1. TicketExists(t) /\ t \notin gone
      BY <1>7, <2>1
    <3>2. EventExists(EventOf[t]) /\ EventOf[t] # e
      BY <1>3, <3>1 DEF IInv, NoOrphans
    <3> QED
      BY <1>0, <1>2, <3>2, RowsAssumption DEF EventExists, TypeOK
  <2> QED
    BY <2>1 DEF NoOrphans
<1>12. FeedAtTheEnds' /\ ReservationsInFeed'
  BY <1>2 DEF IInv, FeedAtTheEnds, ReservationsInFeed
<1> QED
  BY <1>5, <1>6, <1>8, <1>9, <1>10, <1>11, <1>12 DEF IInv, StampsOK

-----------------------------------------------------------------------------
(* The clock and the expiry loops *)

\* A step that leaves sessions, events and the rows sessions hold alone.
LEMMA BackgroundStep ==
    ASSUME IInv,
           UNCHANGED <<session, eventStatus, eventLock>>,
           \A t \in Tickets : rowLock[t] \in Workers => rowLock'[t] = rowLock[t] /\ status'[t] = status[t],
           \A t \in Tickets : status'[t] # status[t] => TicketExists(t) /\ TicketExists(t)'
    PROVE  \A v \in Workers : SessionOK(v)'
<1> SUFFICES ASSUME NEW v \in Workers PROVE SessionOK(v)'
  OBVIOUS
<1>1. session[v].pc \in InsertSteps => \A t \in session[v].batch : status'[t] = status[t]
  BY DEF IInv, TypeOK, Sessions, SessionOK, BatchFresh, TicketExists, Absent
<1>2. session[v].pc \in InsertSteps =>
          \A u \in Workers \ {v} : session[v].batch \cap session[u].batch = {}
  BY DEF IInv, SessionOK, BatchFresh
<1>3. \A t \in Tickets : status[t] # "unminted" => status'[t] # "unminted"
  BY DEF TicketExists, Absent
<1>4. eventLock' \in [Workers -> LockModes]
  BY DEF IInv, TypeOK
<1> QED
  BY <1>1, <1>2, <1>3, <1>4, OtherSession DEF EventExists, Absent

\* TtlElapses keeps the invariant.
LEMMA TtlElapsesStep ==
    ASSUME IInv, StampsOK', NEW t \in Tickets, TtlElapses(t)
    PROVE  IInv'
<1>1. /\ UNCHANGED <<status, eventStatus, ticketKpi, eventKpi, session, rowLock, eventLock, faults>>
      /\ reservedAt' = [reservedAt EXCEPT ![t] = "lapsed"]
  BY DEF TtlElapses, locks
<1>2. TypeOK'
  BY <1>1 DEF IInv, TypeOK, StampsOK
<1>3. \A v \in Workers : SessionOK(v)'
  BY <1>1, BackgroundStep
<1>4. SweepHoldsLapsed' /\ ReservedHasDeadline'
  BY <1>1 DEF IInv, TypeOK, SweepHoldsLapsed, ReservedHasDeadline, Held
<1>5. NoOrphans' /\ FeedAtTheEnds'
  BY <1>1 DEF IInv, NoOrphans, FeedAtTheEnds, TicketExists, EventExists
<1>6. ReservationsInFeed'
  BY <1>1 DEF TtlElapses, IInv, TypeOK, ReservationsInFeed, TicketExists
<1> QED
  BY <1>2, <1>3, <1>4, <1>5, <1>6 DEF IInv, StampsOK

\* SweepSelect keeps the invariant.
LEMMA SweepSelectStep ==
    ASSUME IInv, StampsOK', NEW s \in Sweepers, SweepSelect(s)
    PROVE  IInv'
<1>1. /\ UNCHANGED <<status, reservedAt, eventStatus, ticketKpi, eventKpi, session, eventLock, faults>>
      /\ rowLock' = [t \in Tickets |-> IF t \in Lapsed THEN s ELSE rowLock[t]]
  BY DEF SweepSelect, rows
<1>2. TypeOK'
  BY <1>1 DEF IInv, TypeOK, StampsOK
<1>3. \A v \in Workers : SessionOK(v)'
  BY <1>1, ProcessAssumption, BackgroundStep DEF Lapsed
<1>4. SweepHoldsLapsed'
  BY <1>1 DEF IInv, SweepHoldsLapsed, Held, Lapsed
<1>5. ReservedHasDeadline' /\ NoOrphans' /\ FeedAtTheEnds' /\ ReservationsInFeed'
  BY <1>1 DEF IInv, ReservedHasDeadline, NoOrphans, FeedAtTheEnds, ReservationsInFeed,
     TicketExists, EventExists
<1> QED
  BY <1>2, <1>3, <1>4, <1>5 DEF IInv, StampsOK

\* A loop that ends its transaction gives back its own rows and no others.
LEMMA SweepReleases ==
    ASSUME IInv, NEW s \in Sweepers, Release(s)
    PROVE  /\ rowLock' \in [Tickets -> Workers \cup Sweepers \cup {None}]
           /\ \A t \in Tickets : rowLock[t] \in Workers => rowLock'[t] = rowLock[t]
           /\ \A p \in Sweepers : \A t \in Held(p)' : t \in Held(p) /\ t \notin Held(s)
  BY ProcessAssumption DEF IInv, TypeOK, Release, Held

\* SweepFails keeps the invariant.
LEMMA SweepFailsStep ==
    ASSUME IInv, StampsOK', NEW s \in Sweepers, SweepFails(s)
    PROVE  IInv'
<1>1. UNCHANGED <<status, reservedAt, eventStatus, ticketKpi, eventKpi, session, eventLock>> /\ Release(s)
  BY DEF SweepFails, rows
<1>2. TypeOK'
  BY <1>1, InputAssumption, SweepReleases DEF SweepFails, IInv, TypeOK, StampsOK
<1>3. \A v \in Workers : SessionOK(v)'
  BY <1>1, SweepReleases, BackgroundStep
<1>4. SweepHoldsLapsed'
  BY <1>1, SweepReleases DEF IInv, SweepHoldsLapsed
<1>5. ReservedHasDeadline' /\ NoOrphans' /\ FeedAtTheEnds' /\ ReservationsInFeed'
  BY <1>1 DEF IInv, ReservedHasDeadline, NoOrphans, FeedAtTheEnds, ReservationsInFeed,
     TicketExists, EventExists
<1> QED
  BY <1>2, <1>3, <1>4, <1>5 DEF IInv, StampsOK

\* SweepCommit keeps the invariant.
LEMMA SweepCommitStep ==
    ASSUME IInv, StampsOK', NEW s \in Sweepers, SweepCommit(s)
    PROVE  IInv'
<1>1. /\ UNCHANGED <<eventStatus, eventKpi, session, eventLock, faults>>
      /\ Release(s)
      /\ status' = [t \in Tickets |-> IF t \in Held(s) THEN "available" ELSE status[t]]
      /\ reservedAt' = [t \in Tickets |-> IF t \in Held(s) THEN "none" ELSE reservedAt[t]]
      /\ ticketKpi' = IF KpiLogging
                      THEN [t \in Tickets |-> IF t \in Held(s) THEN "available" ELSE ticketKpi[t]]
                      ELSE ticketKpi
  BY DEF SweepCommit
<1>2. \A t \in Held(s) : t \in Tickets /\ status[t] = "reserved" /\ rowLock[t] \notin Workers
  BY ProcessAssumption DEF IInv, SweepHoldsLapsed, Held
<1>3. TypeOK'
  BY <1>1, SweepReleases DEF IInv, TypeOK, TicketStatuses, StampsOK
<1>4. \A v \in Workers : SessionOK(v)'
  <2>1. \A t \in Tickets : rowLock[t] \in Workers => rowLock'[t] = rowLock[t] /\ status'[t] = status[t]
    BY <1>1, <1>2, SweepReleases
  <2>2. \A t \in Tickets : status'[t] # status[t] => TicketExists(t) /\ TicketExists(t)'
    BY <1>1, <1>2 DEF TicketExists, Absent
  <2> QED
    BY <1>1, <2>1, <2>2, BackgroundStep
<1>5. SweepHoldsLapsed'
  <2>1. ASSUME NEW p \in Sweepers, NEW t \in Held(p)'
        PROVE  status'[t] = "reserved" /\ reservedAt'[t] = "lapsed"
    <3>1. t \in Held(p) /\ t \notin Held(s) /\ t \in Tickets
      BY <1>1, SweepReleases DEF Held
    <3> QED
      BY <1>1, <3>1 DEF IInv, SweepHoldsLapsed
  <2> QED
    BY <2>1 DEF SweepHoldsLapsed
<1>6. ReservedHasDeadline'
  BY <1>1 DEF IInv, ReservedHasDeadline
<1>7. NoOrphans'
  BY <1>1, <1>2 DEF IInv, NoOrphans, TicketExists, EventExists, Absent
<1>8. FeedAtTheEnds'
  BY <1>1, <1>2 DEF IInv, FeedAtTheEnds
<1>9. ReservationsInFeed'
  BY <1>1 DEF IInv, ReservationsInFeed, TicketExists
<1> QED
  BY <1>3, <1>4, <1>5, <1>6, <1>7, <1>8, <1>9 DEF IInv, StampsOK

-----------------------------------------------------------------------------
(* The invariant *)

\* Empty tables, no requests and no locks satisfy the invariant.
LEMMA InitIInv == Init => IInv
<1> SUFFICES ASSUME Init PROVE IInv
  OBVIOUS
<1>1. 0 \in Replies
  BY DEF Replies
<1>2. TypeOK
  BY <1>1, ClosedFacts, InputAssumption DEF Init, TypeOK, Absent, LockModes
<1>3. ASSUME NEW w \in Workers PROVE SessionOK(w)
  <2>1. session[w].pc = "idle"
    BY <1>1, ClosedFacts DEF Init
  <2>2. StepHasArguments(w) /\ TicketCommitLocked(w) /\ EventCommitLocked(w) /\ BatchFresh(w)
    BY <2>1 DEF StepHasArguments, TicketCommitLocked, EventCommitLocked, BatchFresh,
       TicketSteps, EventSteps, InsertSteps
  <2>3. EventLockCompatible(w)
    BY StrengthFacts DEF Init, EventLockCompatible
  <2> QED
    BY <2>2, <2>3 DEF SessionOK
<1>4. SweepHoldsLapsed
  BY ProcessAssumption DEF Init, SweepHoldsLapsed, Held
<1>5. ReservedHasDeadline /\ NoOrphans /\ FeedAtTheEnds /\ ReservationsInFeed
  BY DEF Init, ReservedHasDeadline, NoOrphans, FeedAtTheEnds, ReservationsInFeed, TicketExists, Absent
<1>6. \A w \in Workers : StampedEarly(w)
  BY DEF Init, StampedEarly
<1> QED
  BY <1>2, <1>3, <1>4, <1>5, <1>6 DEF IInv

\* The invariant says nothing about what is not a variable.
LEMMA StutterIInv == IInv /\ UNCHANGED vars => IInv'
<1> SUFFICES ASSUME IInv, UNCHANGED vars PROVE IInv'
  OBVIOUS
<1>1. TypeOK' /\ SweepHoldsLapsed' /\ ReservedHasDeadline' /\ NoOrphans' /\ FeedAtTheEnds' /\ ReservationsInFeed'
  BY DEF IInv, vars, TypeOK, SweepHoldsLapsed, ReservedHasDeadline, NoOrphans, FeedAtTheEnds,
     ReservationsInFeed, Held, TicketExists, EventExists
<1>2. \A v \in Workers : SessionOK(v)'
  BY BackgroundStep DEF vars
<1>3. StampsOK'
  BY StampsNext
<1> QED
  BY <1>1, <1>2, <1>3 DEF IInv, StampsOK

\* Every step of every session, loop and clock keeps the invariant.
LEMMA NextIInv == IInv /\ [Next]_vars => IInv'
<1> SUFFICES ASSUME IInv, Next PROVE IInv'
  BY StutterIInv
<1>0. StampsOK'
  BY StampsNext
<1>1. ASSUME NEW w \in Workers, Request(w) PROVE IInv'
  BY <1>0, <1>1, GetTicketStep, CreateEventStep, EventMissingStep, UpdateEventStep, BatchCreateStep,
     DeleteEventStep DEF Request
<1>2. ASSUME NEW w \in Workers, Continue(w) PROVE IInv'
  BY <1>0, <1>2, ReserveSelectStep, ReserveLockTicketStep, ReserveLockEventStep, CheckStatusStep,
     FlushTicketStep, CommitTicketStep, FlushEventStep, CommitEventStep, InsertBatchStep,
     CommitBatchStep, LoadTicketsStep, DeleteTicketStep, DeleteEventRowStep, CascadeTicketStep,
     CommitDeleteStep, RefreshStep DEF Continue
<1>3. ASSUME NEW w \in Workers, DeadlockVictim(w) \/ SessionLost(w) PROVE IInv'
  BY <1>0, <1>3, VictimStep
<1>4. ASSUME NEW s \in Sweepers, Sweep(s) \/ SweepFails(s) PROVE IInv'
  BY <1>0, <1>4, SweepSelectStep, SweepCommitStep, SweepFailsStep DEF Sweep
<1>5. ASSUME NEW t \in Tickets, TtlElapses(t) PROVE IInv'
  BY <1>0, <1>5, TtlElapsesStep
<1> QED
  BY <1>1, <1>2, <1>3, <1>4, <1>5 DEF Next

\* The invariant holds in every reachable state.
THEOREM Invariance == Spec => []IInv
  BY InitIInv, NextIInv, PTL DEF Spec

\* Every variable keeps to its type: in particular no request ever writes a
\* status the columns do not have, and no session reaches an undefined step.
THEOREM TypeCorrect == Spec => []TypeOK
<1>1. IInv => TypeOK
  BY DEF IInv
<1> QED
  BY <1>1, Invariance, PTL

\* A ticket that is reserved always has a reserved_at, so that the expiry loop
\* can find it (expiry_service.py:37).
THEOREM DeadlineCorrect == Spec => []ReservedHasDeadline
<1>1. IInv => ReservedHasDeadline
  BY DEF IInv
<1> QED
  BY <1>1, Invariance, PTL

\* FOR UPDATE SKIP LOCKED protects what the expiry loop selected until it
\* commits, however many loops and requests run (expiry_service.py:34-65).
THEOREM SweepCorrect == Spec => []SweepHoldsLapsed
<1>1. IInv => SweepHoldsLapsed
  BY DEF IInv
<1> QED
  BY <1>1, Invariance, PTL

\* No interleaving of batch-create and delete leaves a ticket without event.
THEOREM OrphanFree == Spec => []NoOrphans
<1>1. IInv => NoOrphans
  BY DEF IInv
<1> QED
  BY <1>1, Invariance, PTL

\* The KPI row of a reservation is the latest one about its ticket for as long
\* as the ticket is held, although sell, use and cancel stamp theirs before they
\* have the row lock (ticket_service.py:189-199, kpi_service.py:122).
THEOREM FeedCorrect == Spec => []ReservationsInFeed
<1>1. IInv => ReservationsInFeed
  BY DEF IInv
<1> QED
  BY <1>1, Invariance, PTL

-----------------------------------------------------------------------------
(* Who answers *)

\* The session that ends is the one that takes the step.
LEMMA WhoEnds ==
    ASSUME TypeOK, Next, NEW w \in Workers, session'[w] # session[w], session[w].pc # "idle"
    PROVE  Continue(w) \/ DeadlockVictim(w) \/ SessionLost(w)
<1>1. ASSUME NEW s \in Sweepers, Sweep(s) \/ SweepFails(s) PROVE session' = session
  BY <1>1 DEF Sweep, SweepSelect, SweepCommit, SweepFails
<1>2. ASSUME NEW t \in Tickets, TtlElapses(t) PROVE session' = session
  BY <1>2 DEF TtlElapses
<1>3. ~Request(w)
  BY DEF Request, GetTicket, CreateEvent, EventMissing, UpdateEvent, BatchCreate, DeleteEvent
<1> QED
  BY <1>1, <1>2, <1>3, OwnSession DEF Next

\* The code of an answer is the one the handler ended with.
LEMMA AnswerIs ==
    ASSUME TypeOK, NEW w \in Workers, NEW code, NEW other,
           session' = [session EXCEPT ![w] = Closed(code)], session'[w] = Closed(other)
    PROVE  code = other
<1>1. Closed(code) = Closed(other)
  BY DEF TypeOK
<1>2. Closed(code).reply = code /\ Closed(other).reply = other
  BY DEF Closed
<1> QED
  BY <1>1, <1>2

\* A request that goes on is not answered.
LEMMA GoesOn ==
    ASSUME TypeOK, NEW w \in Workers, NEW step \in Steps \ {"idle"}, Goto(w, step), NEW code
    PROVE  session'[w] # Closed(code)
<1>1. session'[w].pc # "idle"
  BY GotoFacts
<1> QED
  BY <1>1 DEF Closed

-----------------------------------------------------------------------------
(* Action properties *)

\* The steps that commit something about tickets or the KPI feed.
LEMMA WhoWrites ==
    ASSUME IInv, [Next]_vars
    PROVE  \/ UNCHANGED <<status, eventStatus, ticketKpi, eventKpi>>
           \/ \E w \in Workers : \/ CommitTicket(w) \/ CommitEvent(w)
                                 \/ CommitBatch(w) \/ CommitDelete(w)
           \/ \E w \in Workers, e \in Events : CreateEvent(w, e)
           \/ \E s \in Sweepers : SweepCommit(s)
<1>1. CASE UNCHANGED vars
  BY <1>1 DEF vars
<1>2. ASSUME NEW w \in Workers, Request(w)
      PROVE  \/ UNCHANGED <<status, eventStatus, ticketKpi, eventKpi>>
             \/ \E e \in Events : CreateEvent(w, e)
  BY <1>2 DEF Request, GetTicket, EventMissing, UpdateEvent, BatchCreate, DeleteEvent, rows
<1>3. ASSUME NEW w \in Workers, Continue(w)
      PROVE  \/ UNCHANGED <<status, eventStatus, ticketKpi, eventKpi>>
             \/ CommitTicket(w) \/ CommitEvent(w) \/ CommitBatch(w) \/ CommitDelete(w)
  BY <1>3 DEF Continue, ReserveSelect, ReserveLockTicket, ReserveLockEvent, CheckStatus, FlushTicket,
     FlushEvent, InsertBatch, LoadTickets, DeleteTicket, DeleteEventRow, CascadeTicket, Refresh,
     Abandon, rows
<1>4. ASSUME NEW w \in Workers, DeadlockVictim(w) \/ SessionLost(w)
      PROVE  UNCHANGED <<status, eventStatus, ticketKpi, eventKpi>>
  BY <1>4 DEF DeadlockVictim, SessionLost, Abandon, rows
<1>5. ASSUME NEW s \in Sweepers, Sweep(s) \/ SweepFails(s)
      PROVE  UNCHANGED <<status, eventStatus, ticketKpi, eventKpi>> \/ SweepCommit(s)
  BY <1>5 DEF Sweep, SweepSelect, SweepFails, rows
<1>6. ASSUME NEW t \in Tickets, TtlElapses(t)
      PROVE  UNCHANGED <<status, eventStatus, ticketKpi, eventKpi>>
  BY <1>6 DEF TtlElapses
<1> QED
  BY <1>1, <1>2, <1>3, <1>4, <1>5, <1>6 DEF Next

\* Facts about the row that a ticket's commit is about.
LEMMA CommitTicketFacts ==
    ASSUME IInv, NEW w \in Workers, CommitTicket(w)
    PROVE  /\ session[w].ticket \in Tickets
           /\ TicketExists(session[w].ticket)
           /\ session[w].op \in TicketOps
           /\ session[w].op = "reserve" => Reservable(session[w].ticket)
           /\ \A t \in Tickets \ {session[w].ticket} :
                 status'[t] = status[t] /\ ticketKpi'[t] = ticketKpi[t]
           /\ eventKpi' = eventKpi
  BY DEF CommitTicket, IInv, TypeOK, SessionOK, StepHasArguments, TicketCommitLocked,
     TicketSteps, Latest, Recorded

\* The rows a loop releases are tickets that exist, and nothing else changes.
LEMMA SweepCommitFacts ==
    ASSUME IInv, NEW s \in Sweepers, SweepCommit(s)
    PROVE  /\ \A t \in Tickets : TicketExists(t) \/ ticketKpi'[t] = ticketKpi[t]
           /\ \A t \in Tickets : status'[t] \in {"available", status[t]}
           /\ eventKpi' = eventKpi
<1>1. \A t \in Held(s) : status[t] = "reserved"
  BY DEF IInv, SweepHoldsLapsed
<1> QED
  BY <1>1 DEF SweepCommit, TicketExists, Absent

\* A reservation is only ever taken from the available stock of an event that
\* is published when the reservation commits (ticket_service.py:94-131): the
\* locks on both rows outlive the test.
THEOREM ReserveCorrect == Spec => ReservedFromPublishedStock
<1> DEFINE Fair(t) == status[t] # "reserved" /\ status'[t] = "reserved" => Reservable(t)
<1>1. ASSUME IInv, [Next]_vars, NEW t \in Tickets PROVE Fair(t)
  <2>1. CASE UNCHANGED <<status, eventStatus, ticketKpi, eventKpi>>
    BY <2>1
  <2>2. ASSUME NEW w \in Workers, CommitTicket(w) PROVE Fair(t)
    <3>1. CASE t # session[w].ticket
      BY <1>1, <2>2, <3>1, CommitTicketFacts
    <3>2. CASE t = session[w].ticket
      <4>1. status'[t] = Flushed(session[w].loaded, Target(session[w].op), status[t])
        BY <1>1, <2>2, <3>2 DEF CommitTicket, IInv, TypeOK
      <4>2. session[w].op # "reserve" => Target(session[w].op) # "reserved"
        BY <1>1, <2>2, CommitTicketFacts DEF Target, TicketOps
      <4> QED
        BY <1>1, <2>2, <3>2, <4>1, <4>2, CommitTicketFacts DEF Flushed
    <3> QED
      BY <3>1, <3>2
  <2>3. ASSUME NEW w \in Workers, CommitEvent(w) \/ CommitBatch(w) \/ CommitDelete(w) PROVE Fair(t)
    BY <2>3 DEF CommitEvent, CommitBatch, CommitDelete
  <2>4. ASSUME NEW w \in Workers, NEW e \in Events, CreateEvent(w, e) PROVE Fair(t)
    BY <2>4 DEF CreateEvent
  <2>5. ASSUME NEW s \in Sweepers, SweepCommit(s) PROVE Fair(t)
    BY <1>1, <2>5, SweepCommitFacts
  <2> QED
    BY <1>1, <2>1, <2>2, <2>3, <2>4, <2>5, WhoWrites
<1>2. IInv /\ [Next]_vars => [\A t \in Tickets : Fair(t)]_vars
  BY <1>1
<1> QED
  BY <1>2, Invariance, PTL DEF Spec, ReservedFromPublishedStock

=============================================================================
