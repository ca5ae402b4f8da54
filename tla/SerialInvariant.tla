-------------------------- MODULE SerialInvariant --------------------------
(***************************************************************************)
(* The inductive invariant behind the properties of SerialSpec: no session *)
(* is ever overtaken, because nobody else takes a turn in between, and so  *)
(* by AInv what it loaded is still what the row holds when it commits.     *)
(***************************************************************************)
EXTENDS InventoryLifecycle, AnswerInvariant

SInv ==
    /\ AInv
    /\ OneAtATime
    /\ \A w \in Workers : overtaken[w] = "never"
    /\ FeedExact

=============================================================================
