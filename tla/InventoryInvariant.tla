------------------------- MODULE InventoryInvariant -------------------------
(***************************************************************************)
(* The inductive invariant behind the safety properties of Inventory: what *)
(* a session knows at each of its steps, and which locks make it true      *)
(* until the session commits.                                              *)
(***************************************************************************)
EXTENDS Inventory

\* The steps of a request about a ticket, of one about an event, and the steps
\* that have nothing left to do but to commit.
TicketSteps == {"select", "lock_ticket", "lock_event", "check", "flush", "commit"}
EventSteps == {"flush_event", "commit_event", "insert", "commit_batch",
               "load", "delete_tickets", "cascade"}
CommitSteps == {"commit", "commit_event", "commit_batch", "cascade"}
InsertSteps == {"insert", "commit_batch"}

\* The arguments a step works with.
StepHasArguments(w) ==
    LET s == session[w] IN
    /\ s.pc \in TicketSteps =>
          /\ s.op \in TicketOps
          /\ s.ticket \in Tickets
          /\ s.event = EventOf[s.ticket]
          /\ status[s.ticket] # "unminted"
    /\ s.pc \in {"select", "lock_ticket", "lock_event"} => s.op = "reserve"
    /\ s.pc \in {"check", "flush"} => s.op # "reserve"
    /\ s.pc \in {"flush", "commit"} /\ s.op # "reserve" => s.loaded = Required(s.op)
    /\ s.pc \in EventSteps => s.event \in Events /\ eventStatus[s.event] # "unminted"
    /\ s.pc \in {"flush_event", "commit_event"} => s.want \in EventStatuses

\* A transaction that is about to commit a ticket has locked its row, the row
\* is there, and for a reserve both rows still satisfy the WHERE clause.
TicketCommitLocked(w) ==
    LET s == session[w] IN
    s.pc \in {"lock_event", "commit"} =>
        /\ rowLock[s.ticket] = w
        /\ TicketExists(s.ticket)
        /\ s.pc = "commit" /\ s.op = "reserve" =>
              eventLock[w] = "update" /\ Reservable(s.ticket)

\* A transaction that is about to commit something about an event holds the
\* lock that keeps the row there and unchanged.
EventCommitLocked(w) ==
    LET s == session[w] IN
    /\ s.pc = "commit_event" => eventLock[w] = "no_key_update" /\ EventExists(s.event)
    /\ s.pc = "commit_batch" => eventLock[w] = "key_share" /\ EventExists(s.event)
    /\ s.pc = "cascade" => eventLock[w] = "update" \/ ~EventExists(s.event)

\* The locks two transactions hold on one event are compatible, and a session
\* that has no commit ahead holds none.
EventLockCompatible(w) ==
    /\ \A v \in Workers \ {w} :
          session[v].event = session[w].event
              => Strength(eventLock[v]) + Strength(eventLock[w]) < 4
    /\ session[w].pc \notin CommitSteps => eventLock[w] = "none"

\* The keys of a batch that is being inserted are its own.
BatchFresh(w) ==
    session[w].pc \in InsertSteps =>
        /\ \A t \in session[w].batch : status[t] = "unminted" /\ EventOf[t] = session[w].event
        /\ \A v \in Workers \ {w} : session[w].batch \cap session[v].batch = {}

\* Only these stamp their row in the feed before they have locked what it is
\* about: a reserve does not.
StampedEarly(w) ==
    overtaken[w] = "since_flush" =>
        \/ session[w].pc \in {"flush", "load", "delete_tickets", "cascade"}
        \/ session[w].pc = "commit" /\ session[w].op # "reserve"

SessionOK(w) ==
    /\ StepHasArguments(w)
    /\ TicketCommitLocked(w)
    /\ EventCommitLocked(w)
    /\ EventLockCompatible(w)
    /\ BatchFresh(w)

\* What was never inserted has no history.
FeedAtTheEnds == \A t \in Tickets : status[t] = "unminted" => ticketKpi[t] = "none"

IInv ==
    /\ TypeOK
    /\ \A w \in Workers : SessionOK(w) /\ StampedEarly(w)
    /\ SweepHoldsLapsed
    /\ ReservedHasDeadline
    /\ NoOrphans
    /\ FeedAtTheEnds
    /\ ReservationsInFeed

=============================================================================
