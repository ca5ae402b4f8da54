-------------------------- MODULE GatewayInvariant --------------------------
(***************************************************************************)
(* The inductive invariant behind the safety properties of Gateway: who    *)
(* answers for what Redis holds under a key, and who was counted.          *)
(***************************************************************************)
EXTENDS Gateway

\* What the step a request is at says of the rest of its record.
RequestOK(r) ==
    LET x == http[r] IN
    /\ x.pc \in {"new", "count", "expire", "lookup", "claim"} => x.mode = "none"
    /\ x.pc = "claim" \/ x.mode = "owner" => Header[r] # None
    /\ x.pc \in {"release", "store"} => x.mode = "owner"
    /\ x.pc = "store" => x.reply \in Responses
    /\ x.effect = "committed" => x.pc \in {"store", "answered", "lost"}
    /\ x.replayed => x.pc = "answered"
    /\ x.pc \in {"new", "count", "expire"} => ~x.admitted
    /\ x.pc # "new" => x.minute \in 1..window
    /\ x.pc \in {"new", "count"} => r \notin punctual

\* The request is being processed under the marker it has set.
Active(r) == http[r].mode = "owner" /\ http[r].pc \in {"handler", "release", "store"}

\* It is, or it was and was answered with an effect.
Holder(r) == http[r].mode = "owner" /\ (Active(r) \/ http[r].effect = "committed")

\* One holder per key; as long as there is one the key is not free.
HoldersOK ==
    /\ \A q, r \in Requests : Holder(q) /\ Holder(r) /\ RedisKey(q) = RedisKey(r) => q = r
    /\ \A r \in Requests : Holder(r) => marker[RedisKey(r)] # "none"
    /\ \A r \in Requests : Active(r) => marker[RedisKey(r)] = "processing"
    /\ faults = 0 => \A k \in RedisKeys : marker[k] = "processing" =>
          \E r \in Requests : Active(r) /\ RedisKey(r) = k

\* The request r, which has a key, was given this response by its handler.
Origin(r, k, response) ==
    /\ Header[r] # None /\ RedisKey(r) = k
    /\ http[r].pc = "answered" /\ ~http[r].replayed /\ http[r].reply = response

\* What is stored and what is replayed was given to a request with that key.
ResponsesOK ==
    /\ \A k \in RedisKeys : marker[k] \in Responses =>
          \E q \in Requests : Origin(q, k, marker[k])
    /\ \A r \in Requests : http[r].replayed =>
          /\ Header[r] # None
          /\ \E q \in Requests : Origin(q, RedisKey(r), http[r].reply)

\* Of the requests counted in the minute m, in which they arrived, those that
\* were, or are about to be, let through.
Counted(m) ==
    {r \in punctual : http[r].minute = m /\ (http[r].admitted \/ http[r].pc = "expire")}

\* As long as the minute lasts its counter is there and has counted them; the
\* counter of a minute that is over may be gone, or have started again.
CountersOK ==
    \A m \in 1..MaxWindow :
        /\ Cardinality(Counted(m)) <= Limit
        /\ window <= m => Cardinality(Counted(m)) <= count[m]
        /\ expires[m] # 0 => expires[m] \in m..window

GInv ==
    /\ TypeOK
    /\ \A r \in Requests : RequestOK(r)
    /\ HoldersOK
    /\ ResponsesOK
    /\ CountersOK

=============================================================================
