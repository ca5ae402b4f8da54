----------------------------- MODULE MCKpiFeed -----------------------------
(* Small instances of KpiFeed for TLC: the first row is about another event *)
(* than the others, and the consumer "one" asks for their event only.       *)
EXTENDS KpiFeedInvariant

CONSTANTS all, one

FourRows == {1, 2, 3, 4}
EventOfRow == [r \in Rows |-> IF r = 1 THEN "e1" ELSE "e2"]
FilterOf == [c \in Consumers |-> IF c = one THEN "e2" ELSE None]

=============================================================================
