--------------------------- MODULE ContractProofs ---------------------------
(***************************************************************************)
(* Inventory implements RequestContract: its initial states map to initial *)
(* states of the contract, and each of its steps to a step or a stutter.   *)
(***************************************************************************)
EXTENDS InventoryContract, InventoryProofs

\* A request that is being handled has no answer yet.
Unanswered == \A w \in Workers : session[w].pc # "idle" => session[w].reply = 0

\* The session of w becomes s, and no other one changes.
Becomes(w, s) == session' = [session EXCEPT ![w] = s] /\ session'[w] = s

Ends == {"idle", "refresh"}

\* A step of the contract, or a stutter.
ContractStep == [Contract!Next]_<<eventRows, ticketRows, phases, answers>>

\* What a step does to the session of w, one case for each action of the contract.
Opens(w, s) ==
    /\ session[w].pc = "idle" /\ s.pc \notin Ends /\ s.reply = 0
    /\ UNCHANGED rows
Continues(w, s) ==
    /\ session[w].pc \notin Ends /\ s.pc \notin Ends /\ s.reply = session[w].reply
    /\ UNCHANGED rows
Writes(w, s) ==
    /\ session[w].pc # "refresh" /\ s.pc = "refresh" /\ s.reply = 0
Closes(w, s) ==
    /\ \/ s = Closed(500)
       \/ s = Closed(404) /\ session[w].pc = "idle"
       \/ s = Closed(409) /\ session[w].pc \notin Ends
       \/ s \in {Closed(200), Closed(201)} /\ session[w].pc = "refresh"
    /\ UNCHANGED rows
Deletes(w, s) == session[w].pc = "cascade" /\ s = Closed(204)

Case(w, s) == Opens(w, s) \/ Continues(w, s) \/ Writes(w, s) \/ Closes(w, s) \/ Deletes(w, s)

-----------------------------------------------------------------------------
(* The cases are steps of the contract *)

\* A request that is not closed by the step has no answer after it.
LEMMA StillUnanswered ==
    ASSUME TypeOK, Unanswered, NEW w \in Workers, NEW s, Becomes(w, s), Case(w, s)
    PROVE  Unanswered'
<1>1. s.pc = "idle" \/ s.reply = 0
  BY DEF Case, Opens, Continues, Writes, Closes, Deletes, Closed, Ends, Unanswered
<1>2. \A v \in Workers \ {w} : session'[v] = session[v]
  BY DEF Becomes, TypeOK
<1> QED
  BY <1>1, <1>2 DEF Becomes, Unanswered

\* The phases and the answers change for the one request only.
LEMMA PhaseBecomes ==
    ASSUME NEW w \in Workers, NEW s, Becomes(w, s), TypeOK
    PROVE  Contract!Becomes(w, Phase(s), Meaning(s.reply))
<1>1. \A v \in Workers \ {w} : session'[v] = session[v]
  BY DEF Becomes, TypeOK
<1>2. phases' = [phases EXCEPT ![w] = Phase(s)]
  <2>1. \A v \in Workers : Phase(session'[v]) = IF v = w THEN Phase(s) ELSE Phase(session[v])
    BY <1>1 DEF Becomes
  <2>2. phases' = [v \in Workers |-> Phase(session'[v])]
    BY DEF phases
  <2> QED
    BY <2>1, <2>2 DEF phases
<1>3. answers' = [answers EXCEPT ![w] = Meaning(s.reply)]
  <2>1. \A v \in Workers :
           Meaning(session'[v].reply) = IF v = w THEN Meaning(s.reply) ELSE Meaning(session[v].reply)
    BY <1>1 DEF Becomes
  <2>2. answers' = [v \in Workers |-> Meaning(session'[v].reply)]
    BY DEF answers
  <2> QED
    BY <2>1, <2>2 DEF answers
<1> QED
  BY <1>2, <1>3 DEF Contract!Becomes

\* The rows of the contract are those of the tables.
LEMMA RowsKept ==
    ASSUME UNCHANGED rows
    PROVE  UNCHANGED <<eventRows, ticketRows>>
BY DEF rows, eventRows, ticketRows

\* Each case is a step of the contract, or a stutter.
LEMMA CaseIsStep ==
    ASSUME TypeOK, Unanswered, NEW w \in Workers, NEW s, Becomes(w, s), Case(w, s)
    PROVE  ContractStep
<1> USE PhaseBecomes
<1>0. phases[w] = Phase(session[w]) /\ answers[w] = Meaning(session[w].reply)
  BY DEF phases, answers
<1>1. CASE Opens(w, s)
  <2>1. phases[w] = "closed" /\ Phase(s) = "open" /\ Meaning(s.reply) = "none"
    BY <1>0, <1>1 DEF Opens, Phase, Meaning, Ends
  <2> QED
    BY <1>1, <2>1, RowsKept DEF Opens, Contract!Open, Contract!Next, ContractStep
<1>2. CASE Continues(w, s)
  <2>1. Phase(s) = phases[w] /\ Meaning(s.reply) = answers[w]
    BY <1>0, <1>2 DEF Continues, Phase, Ends
  <2>2. UNCHANGED <<phases, answers>>
    BY <2>1 DEF Contract!Becomes, phases, answers
  <2> QED
    BY <1>2, <2>2, RowsKept DEF Continues, ContractStep
<1>3. CASE Writes(w, s)
  <2>1. phases[w] \in {"closed", "open"} /\ Phase(s) = "written" /\ Meaning(s.reply) = "none"
    BY <1>0, <1>3 DEF Writes, Phase, Meaning
  <2> QED
    BY <2>1 DEF Contract!Write, Contract!Next, ContractStep
<1>4. CASE Closes(w, s)
  <2>1. PICK a \in {"done", "refused", "error"} :
           /\ Phase(s) = "closed" /\ Meaning(s.reply) = a
           /\ \/ a = "error"
              \/ a = "refused" /\ phases[w] \in {"closed", "open"}
              \/ a = "done" /\ phases[w] = "written"
    BY <1>0, <1>4 DEF Closes, Closed, Phase, Meaning, Ends
  <2>2. Contract!Answer(w, a)
    BY <1>4, <2>1, RowsKept DEF Closes, Contract!Answer
  <2> QED
    BY <2>2 DEF Contract!Next, ContractStep
<1>5. CASE Deletes(w, s)
  <2>1. phases[w] = "open" /\ Phase(s) = "closed" /\ Meaning(s.reply) = "done"
    BY <1>0, <1>5 DEF Deletes, Closed, Phase, Meaning
  <2> QED
    BY <2>1 DEF Contract!WriteAndAnswer, Contract!Next, ContractStep
<1> QED
  BY <1>1, <1>2, <1>3, <1>4, <1>5 DEF Case

-----------------------------------------------------------------------------
(* The steps of Inventory are among the cases *)

\* An assignment to one session gives it the value assigned.
LEMMA Assigned ==
    ASSUME TypeOK, NEW w \in Workers, NEW s, session' = [session EXCEPT ![w] = s]
    PROVE  Becomes(w, s)
BY DEF Becomes, TypeOK

\* A statement that writes no row yet is a stutter of the contract.
LEMMA GotoCase ==
    ASSUME TypeOK, NEW w \in Workers, NEW step, Goto(w, step), UNCHANGED rows,
           session[w].pc \notin Ends, step \notin Ends
    PROVE  \E s : Becomes(w, s) /\ Case(w, s)
<1> DEFINE s == [session[w] EXCEPT !.pc = step]
<1>1. session[w] \in Sessions
  BY DEF TypeOK
<1>2. s.pc = step /\ s.reply = session[w].reply
  BY <1>1 DEF Sessions
<1>3. Becomes(w, s)
  BY Assigned DEF Goto
<1> HIDE DEF s
<1> QED
  BY <1>2, <1>3 DEF Case, Continues

\* A commit is the one write of its request.
LEMMA CommitCase ==
    ASSUME TypeOK, Unanswered, NEW w \in Workers, Goto(w, "refresh"),
           session[w].pc \notin Ends
    PROVE  \E s : Becomes(w, s) /\ Case(w, s)
<1> DEFINE s == [session[w] EXCEPT !.pc = "refresh"]
<1>1. session[w] \in Sessions
  BY DEF TypeOK
<1>2. s.pc = "refresh" /\ s.reply = 0
  BY <1>1 DEF Sessions, Unanswered, Ends
<1>3. Becomes(w, s)
  BY Assigned DEF Goto
<1> HIDE DEF s
<1> QED
  BY <1>2, <1>3 DEF Case, Writes, Ends

\* A handler that gives up answers with a refusal or an error.
LEMMA AbandonCase ==
    ASSUME TypeOK, NEW w \in Workers, NEW r, Abandon(w, r),
           r = 500 \/ (r = 409 /\ session[w].pc \notin Ends)
    PROVE  \E s : Becomes(w, s) /\ Case(w, s)
<1>1. Becomes(w, Closed(r)) /\ UNCHANGED rows
  BY Assigned DEF Abandon, rows
<1> QED
  BY <1>1 DEF Case, Closes

\* The first step of a request that has more to do.
LEMMA OpenCase ==
    ASSUME TypeOK, NEW w \in Workers, NEW s, session' = [session EXCEPT ![w] = s],
           UNCHANGED rows, session[w].pc = "idle", s.pc \notin Ends, s.reply = 0
    PROVE  \E x : Becomes(w, x) /\ Case(w, x)
<1>1. Becomes(w, s)
  BY Assigned
<1>2. Case(w, s)
  BY DEF Case, Opens
<1> QED
  BY <1>1, <1>2

\* The first step of a request that is answered at once.
LEMMA AnswerCase ==
    ASSUME TypeOK, NEW w \in Workers, NEW r \in {404, 500},
           session' = [session EXCEPT ![w] = Closed(r)],
           UNCHANGED rows, session[w].pc = "idle"
    PROVE  \E x : Becomes(w, x) /\ Case(w, x)
<1>1. Becomes(w, Closed(r))
  BY Assigned
<1>2. Case(w, Closed(r))
  BY DEF Case, Closes
<1> QED
  BY <1>1, <1>2

\* The first step of a request opens it, answers it, or creates an event.
LEMMA RequestCase ==
    ASSUME TypeOK, NEW w \in Workers, Request(w)
    PROVE  \E s : Becomes(w, s) /\ Case(w, s)
<1>2. ASSUME NEW t \in Tickets, NEW op \in TicketOps, GetTicket(w, op, t)
      PROVE  \E s : Becomes(w, s) /\ Case(w, s)
  <2> DEFINE s == [Closed(0) EXCEPT !.pc = IF op = "reserve" THEN "select" ELSE "check",
                                    !.op = op, !.ticket = t, !.event = EventOf[t],
                                    !.loaded = status[t]]
  <2>1. s.pc \notin Ends /\ s.reply = 0
    BY DEF Closed, Ends
  <2>2. session' = [session EXCEPT ![w] = s] \/ session' = [session EXCEPT ![w] = Closed(404)]
    BY <1>2 DEF GetTicket
  <2>3. session[w].pc = "idle" /\ UNCHANGED rows
    BY <1>2 DEF GetTicket
  <2> HIDE DEF s
  <2> QED
    BY <2>1, <2>2, <2>3, OpenCase, AnswerCase
<1>3. ASSUME NEW e \in Events, CreateEvent(w, e)
      PROVE  \E s : Becomes(w, s) /\ Case(w, s)
  <2> DEFINE s == [Closed(0) EXCEPT !.pc = "refresh", !.op = "create", !.event = e]
  <2>1. s.pc = "refresh" /\ s.reply = 0
    BY DEF Closed
  <2>2. session[w].pc = "idle" /\ session' = [session EXCEPT ![w] = s]
    BY <1>3 DEF CreateEvent
  <2> HIDE DEF s
  <2> QED
    BY <2>1, <2>2, Assigned DEF Case, Writes
<1>4. ASSUME NEW e \in Events, EventMissing(w, e)
      PROVE  \E s : Becomes(w, s) /\ Case(w, s)
  BY <1>4, AnswerCase DEF EventMissing
<1>5. ASSUME NEW e \in Events, NEW new, UpdateEvent(w, e, new)
      PROVE  \E s : Becomes(w, s) /\ Case(w, s)
  <2> DEFINE s == [Closed(0) EXCEPT !.pc = "flush_event", !.op = "update", !.event = e,
                                    !.loaded = eventStatus[e], !.want = new]
  <2>1. s.pc \notin Ends /\ s.reply = 0
    BY DEF Closed, Ends
  <2>2. session' = [session EXCEPT ![w] = s] \/ session' = [session EXCEPT ![w] = Closed(500)]
    BY <1>5 DEF UpdateEvent
  <2>3. session[w].pc = "idle" /\ UNCHANGED rows
    BY <1>5 DEF UpdateEvent
  <2> HIDE DEF s
  <2> QED
    BY <2>1, <2>2, <2>3, OpenCase, AnswerCase
<1>6. ASSUME NEW e \in Events, NEW new, BatchCreate(w, e, new)
      PROVE  \E s : Becomes(w, s) /\ Case(w, s)
  <2> DEFINE s == [Closed(0) EXCEPT !.pc = "insert", !.op = "batch", !.event = e, !.batch = new]
  <2>1. s.pc \notin Ends /\ s.reply = 0
    BY DEF Closed, Ends
  <2>2. session[w].pc = "idle" /\ session' = [session EXCEPT ![w] = s] /\ UNCHANGED rows
    BY <1>6 DEF BatchCreate
  <2> HIDE DEF s
  <2> QED
    BY <2>1, <2>2, OpenCase
<1>7. ASSUME NEW e \in Events, DeleteEvent(w, e)
      PROVE  \E s : Becomes(w, s) /\ Case(w, s)
  <2> DEFINE s == [Closed(0) EXCEPT !.pc = "load", !.op = "delete", !.event = e]
  <2>1. s.pc \notin Ends /\ s.reply = 0
    BY DEF Closed, Ends
  <2>2. session[w].pc = "idle" /\ session' = [session EXCEPT ![w] = s] /\ UNCHANGED rows
    BY <1>7 DEF DeleteEvent
  <2> HIDE DEF s
  <2> QED
    BY <2>1, <2>2, OpenCase
<1> QED
  BY <1>2, <1>3, <1>4, <1>5, <1>6, <1>7 DEF Request

\* Every further step of a request is a statement, its commit, or its answer.
LEMMA ContinueCase ==
    ASSUME TypeOK, Unanswered, NEW w \in Workers, Continue(w)
    PROVE  \E s : Becomes(w, s) /\ Case(w, s)
<1>1. CASE ReserveSelect(w)
  BY <1>1, GotoCase, AbandonCase DEF ReserveSelect, Ends
<1>2. CASE ReserveLockTicket(w)
  BY <1>2, GotoCase, AbandonCase DEF ReserveLockTicket, Ends
<1>3. CASE ReserveLockEvent(w)
  BY <1>3, GotoCase, AbandonCase DEF ReserveLockEvent, Ends
<1>4. CASE CheckStatus(w)
  BY <1>4, GotoCase, AbandonCase DEF CheckStatus, Ends
<1>5. CASE FlushTicket(w)
  BY <1>5, GotoCase, AbandonCase DEF FlushTicket, ThenCommit, Ends
<1>6. CASE CommitTicket(w) \/ CommitEvent(w) \/ CommitBatch(w)
  BY <1>6, CommitCase DEF CommitTicket, CommitEvent, CommitBatch, Ends
<1>7. CASE FlushEvent(w)
  BY <1>7, GotoCase, AbandonCase DEF FlushEvent, Ends
<1>8. CASE InsertBatch(w)
  BY <1>8, GotoCase, AbandonCase DEF InsertBatch, Ends
<1>9. CASE DeleteEventRow(w)
  BY <1>9, GotoCase DEF DeleteEventRow, Ends
<1>10. CASE LoadTickets(w)
  <2> DEFINE s == [session[w] EXCEPT !.pc = "delete_tickets", !.batch = TicketsOf(session[w].event)]
  <2>1. session[w] \in Sessions
    BY DEF TypeOK
  <2>2. s.pc = "delete_tickets" /\ s.reply = session[w].reply
    BY <2>1 DEF Sessions
  <2>3. session[w].pc = "load" /\ session' = [session EXCEPT ![w] = s] /\ UNCHANGED rows
    BY <1>10 DEF LoadTickets
  <2> HIDE DEF s
  <2> QED
    BY <2>2, <2>3, Assigned DEF Case, Continues, Ends
<1>11. ASSUME NEW t \in Tickets, DeleteTicket(w, t)
       PROVE  \E s : Becomes(w, s) /\ Case(w, s)
  <2> DEFINE s == [session[w] EXCEPT !.batch = @ \ {t}]
  <2>1. session[w] \in Sessions
    BY DEF TypeOK
  <2>2. s.pc = session[w].pc /\ s.reply = session[w].reply
    BY <2>1 DEF Sessions
  <2>3. session[w].pc = "delete_tickets" /\ session' = [session EXCEPT ![w] = s] /\ UNCHANGED rows
    BY <1>11 DEF DeleteTicket, NextDelete
  <2> HIDE DEF s
  <2> QED
    BY <2>2, <2>3, Assigned DEF Case, Continues, Ends
<1>12. ASSUME NEW t \in Tickets, CascadeTicket(w, t)
       PROVE  \E s : Becomes(w, s) /\ Case(w, s)
  <2>1. Becomes(w, session[w])
    BY <1>12 DEF CascadeTicket, Becomes, TypeOK
  <2> QED
    BY <1>12, <2>1 DEF CascadeTicket, Case, Continues, Ends
<1>13. CASE CommitDelete(w)
  BY <1>13, Assigned DEF CommitDelete, Case, Deletes
<1>14. CASE Refresh(w)
  <2>1. PICK r \in {200, 201, 500} : Abandon(w, r)
    BY <1>14 DEF Refresh, Gone
  <2>2. session' = [session EXCEPT ![w] = Closed(r)] /\ UNCHANGED rows /\ session[w].pc = "refresh"
    BY <1>14, <2>1 DEF Abandon, Refresh, rows
  <2>3. Becomes(w, Closed(r))
    BY <2>2, Assigned
  <2> QED
    BY <2>2, <2>3 DEF Case, Closes
<1> QED
  BY <1>1, <1>2, <1>3, <1>4, <1>5, <1>6, <1>7, <1>8, <1>9, <1>10, <1>11, <1>12, <1>13, <1>14
     DEF Continue

\* A session that fails is answered with an error.
LEMMA FailureCase ==
    ASSUME TypeOK, NEW w \in Workers, DeadlockVictim(w) \/ SessionLost(w)
    PROVE  \E s : Becomes(w, s) /\ Case(w, s)
<1>1. Becomes(w, Closed(500)) /\ UNCHANGED rows
  BY Assigned DEF DeadlockVictim, SessionLost, Abandon
<1> QED
  BY <1>1 DEF Case, Closes

\* The loops and the clock touch no session, and only tickets that are reserved.
LEMMA BackgroundCase ==
    ASSUME UNCHANGED <<session, eventStatus, eventKpi>>,
           \A t \in Tickets :
              \/ status'[t] = status[t] /\ reservedAt'[t] = reservedAt[t] /\ ticketKpi'[t] = ticketKpi[t]
              \/ status[t] = "reserved" /\ status'[t] \in {"reserved", "available"}
    PROVE  ContractStep
<1>1. UNCHANGED <<phases, answers, eventRows>>
  BY DEF phases, answers, eventRows
<1>2. Contract!Background
  BY <1>1 DEF Contract!Background, ticketRows
<1> QED
  BY <1>2 DEF Contract!Next, ContractStep

\* An expiry loop frees tickets that are reserved.
LEMMA LoopStep ==
    ASSUME IInv, NEW s \in Sweepers, Sweep(s) \/ SweepFails(s)
    PROVE  ContractStep /\ session' = session
<1>1. UNCHANGED <<session, eventStatus, eventKpi>>
  BY DEF Sweep, SweepSelect, SweepCommit, SweepFails, rows
<1>2. CASE SweepCommit(s)
  BY <1>1, <1>2, BackgroundCase DEF SweepCommit, IInv, SweepHoldsLapsed
<1>3. CASE SweepSelect(s) \/ SweepFails(s)
  BY <1>1, <1>3, BackgroundCase DEF SweepSelect, SweepFails, rows
<1> QED
  BY <1>1, <1>2, <1>3 DEF Sweep

\* Time passes for tickets that are reserved.
LEMMA ClockStep ==
    ASSUME IInv, NEW t \in Tickets, TtlElapses(t)
    PROVE  ContractStep /\ session' = session
<1>1. UNCHANGED <<session, eventStatus, eventKpi>>
  BY DEF TtlElapses
<1>2. ContractStep
  BY <1>1, BackgroundCase DEF TtlElapses, IInv, TypeOK
<1> QED
  BY <1>1, <1>2

-----------------------------------------------------------------------------
(* The refinement *)

\* Whatever is locked, deleted, expired or lost between the statements of a
\* request, it changes the tables at most once and is answered accordingly
\* (get_db and the handlers: nothing but COMMIT makes a change visible).
THEOREM ContractHonoured == Spec => HonoursContract
<1>1. Init => Contract!Init /\ Unanswered
  BY DEF Init, Contract!Init, phases, answers, Phase, Meaning, Closed, Unanswered
<1>2. ASSUME IInv, Unanswered, [Next]_vars
      PROVE  ContractStep /\ Unanswered'
  <2>1. TypeOK
    BY <1>2 DEF IInv
  <2>2. CASE UNCHANGED vars
    BY <1>2, <2>2 DEF vars, eventRows, ticketRows, phases, answers, Unanswered, ContractStep
  <2>3. ASSUME NEW w \in Workers, Request(w) \/ Continue(w) \/ DeadlockVictim(w) \/ SessionLost(w)
        PROVE  /\ ContractStep
               /\ Unanswered'
    <3>1. PICK s : Becomes(w, s) /\ Case(w, s)
      BY <1>2, <2>1, <2>3, RequestCase, ContinueCase, FailureCase
    <3> QED
      BY <1>2, <2>1, <3>1, CaseIsStep, StillUnanswered
  <2>4. ASSUME NEW s \in Sweepers, Sweep(s) \/ SweepFails(s)
        PROVE  ContractStep /\ Unanswered'
    BY <1>2, <2>4, LoopStep DEF Unanswered
  <2>5. ASSUME NEW t \in Tickets, TtlElapses(t)
        PROVE  ContractStep /\ Unanswered'
    BY <1>2, <2>5, ClockStep DEF Unanswered
  <2> QED
    BY <1>2, <2>2, <2>3, <2>4, <2>5 DEF Next
<1> QED
  BY <1>1, <1>2, Invariance, PTL DEF Spec, HonoursContract, Contract!Spec, ContractStep

=============================================================================
