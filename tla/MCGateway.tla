----------------------------- MODULE MCGateway -----------------------------
(* Small instances of Gateway for TLC: two duplicates, a request for        *)
(* another endpoint that shares their key, and a request without a key.     *)
EXTENDS GatewayInvariant, TLC

CONSTANTS first, retry, other, plain

EndpointOf == [r \in Requests |-> IF r = other THEN "cancel" ELSE "sell"]
HeaderOf == [r \in Requests |-> IF r = plain THEN None ELSE "k"]

\* The two duplicates are interchangeable.
DuplicateSymmetry == Permutations({first, retry})

=============================================================================
