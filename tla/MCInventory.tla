---------------------------- MODULE MCInventory ----------------------------
(* Small instances of Inventory for TLC. *)
EXTENDS SerialInvariant, AnswerInvariant, InventoryContract, KpiSnapshot, TLC

CONSTANT e1

WorkerSymmetry == Permutations(Workers)
ProcessSymmetry == Permutations(Workers) \cup Permutations(Sweepers)

OneTicket == {1}
TwoTickets == {1, 2}
AllOfOneEvent == [t \in Tickets |-> e1]
CategoryOfTicket == [t \in Tickets |-> IF t = 1 THEN "vip" ELSE "general"]

=============================================================================
