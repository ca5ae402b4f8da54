-------------------------- MODULE TicketLifecycle --------------------------
(***************************************************************************)
(* What the service promises of its tickets, without sessions, locks or    *)
(* time: available -> reserved -> sold -> used, and a reservation that is  *)
(* cancelled or expires goes back to available.                            *)
(***************************************************************************)
EXTENDS FiniteSets

CONSTANT Tickets
VARIABLE status

TicketStatuses == {"available", "reserved", "sold", "used"}
Lifecycle == {<<"available", "reserved">>, <<"reserved", "sold">>, <<"sold", "used">>,
              <<"reserved", "available">>}

Init == status = [t \in Tickets |-> "unminted"]

Move(T, new) == status' = [t \in Tickets |-> IF t \in T THEN new ELSE status[t]]

\* A batch of tickets goes on sale.
Mint(T) == (\A t \in T : status[t] = "unminted") /\ Move(T, "available")

\* One request moves one ticket.
Advance(t, new) == <<status[t], new>> \in Lifecycle /\ Move({t}, new)

\* One scan of the expiry loop frees any number of reservations.
Expire(T) == (\A t \in T : status[t] = "reserved") /\ Move(T, "available")

\* The tickets of an event go with the event.
Remove(T) == (\A t \in T : status[t] \in TicketStatuses) /\ Move(T, "deleted")

Next ==
    \/ \E T \in SUBSET Tickets : Mint(T) \/ Expire(T) \/ Remove(T)
    \/ \E t \in Tickets, new \in TicketStatuses : Advance(t, new)

Spec == Init /\ [][Next]_status

=============================================================================
