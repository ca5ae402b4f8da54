-------------------------- MODULE AnswerInvariant --------------------------
(***************************************************************************)
(* The inductive invariant behind what Inventory says of its answers: of   *)
(* requests that succeed, are refused or fail, of requests that wait for   *)
(* each other and of updates that overlap.                                 *)
(***************************************************************************)
EXTENDS InventoryInvariant

\* The steps at which a transaction may have locked rows of tickets.
HoldSteps == {"lock_event", "commit", "delete_tickets", "cascade"}

\* Only an update commits an event, only a batch inserts, only a delete cascades.
StepIsOf(w) ==
    LET s == session[w] IN
    /\ s.pc \in {"flush_event", "commit_event"} => s.op = "update" /\ s.batch = {}
    /\ s.pc \in InsertSteps => s.op = "batch"
    /\ s.pc \in {"load", "delete_tickets", "cascade"} => s.op = "delete"

\* What a session reads again after its commit was in the tables.
RefreshHasArguments(w) ==
    LET s == session[w] IN
    s.pc = "refresh" =>
        IF s.op \in TicketOps
        THEN /\ s.ticket \in Tickets /\ s.event = EventOf[s.ticket]
             /\ status[s.ticket] # "unminted"
        ELSE /\ s.event \in Events /\ eventStatus[s.event] # "unminted"
             /\ \A t \in s.batch : status[t] # "unminted" /\ EventOf[t] = s.event

\* A session that waits for its first lock holds up nobody.
HoldsNothingYet(w) == session[w].pc \notin HoldSteps => Held(w) = {}

\* A delete does not wait for a row it has locked itself.
DeletesOnce(w) ==
    session[w].pc = "delete_tickets" => session[w].batch \cap Held(w) = {}

\* What a session has loaded is still what the row holds, until another one
\* commits a change of it; a ticket may have been deleted with its event.
FreshOK(w) ==
    LET s == session[w] IN
    overtaken[w] = "never" =>
        /\ s.pc \in TicketSteps => status[s.ticket] \in {s.loaded, "deleted"}
        /\ s.pc \in {"flush_event", "commit_event"} => s.loaded = eventStatus[s.event]
        /\ s.pc \in {"load", "delete_tickets", "cascade"} => EventExists(s.event)

AnswerOK(w) ==
    /\ StepIsOf(w)
    /\ RefreshHasArguments(w)
    /\ HoldsNothingYet(w)
    /\ DeletesOnce(w)

\* Tickets are deleted with their event only.
GoneTogether ==
    \A t \in Tickets : status[t] = "deleted" => eventStatus[EventOf[t]] = "deleted"

AInv ==
    /\ IInv
    /\ \A w \in Workers : AnswerOK(w) /\ FreshOK(w)
    /\ GoneTogether

=============================================================================
