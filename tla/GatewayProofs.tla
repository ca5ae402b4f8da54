--------------------------- MODULE GatewayProofs ---------------------------
(***************************************************************************)
(* Theorems about Gateway, for any number of requests, keys, minutes and   *)
(* faults.  A step changes the record of one request and what Redis holds  *)
(* under its key.  RecordStep, MarkerStep and CounterStep state what the   *)
(* parts of the invariant need to know of it; below there is a lemma for   *)
(* each action.                                                            *)
(***************************************************************************)
EXTENDS GatewayInvariant, FiniteSetTheorems, TLAPS

-----------------------------------------------------------------------------
(* What a step has to show *)

\* Only the record of r changes, to one of the right type.
Moves(r) ==
    /\ http' = [http EXCEPT ![r] = http'[r]]
    /\ http'[r] \in Exchanges

\* The values that the steps assign are of the right types.
LEMMA Values ==
    /\ "count" \in Steps /\ "expire" \in Steps /\ "lookup" \in Steps /\ "claim" \in Steps
    /\ "handler" \in Steps /\ "release" \in Steps /\ "store" \in Steps
    /\ "answered" \in Steps /\ "lost" \in Steps
    /\ 0 \in Passes /\ 1 \in Passes /\ 2 \in Passes
    /\ "none" \in Modes /\ "owner" \in Modes /\ "through" \in Modes
    /\ "committed" \in Effects /\ "late" \in Effects
    /\ Responses \subseteq Replies \cup {"none"}
    /\ "limited" \in Replies \cup {"none"} /\ "busy" \in Replies \cup {"none"}
    /\ "error" \in Replies \cup {"none"} /\ "none" \in Replies \cup {"none"}
BY DEF Steps, Passes, Modes, Effects, Responses, Replies

\* An assignment to one record gives it the value assigned.
LEMMA Assigned ==
    ASSUME GInv, NEW r \in Requests, NEW x \in Exchanges, http' = [http EXCEPT ![r] = x]
    PROVE  Moves(r) /\ http'[r] = x
BY DEF Moves, GInv, TypeOK

\* A request that is not touched keeps its facts.
LEMMA RecordStep ==
    ASSUME GInv, NEW r \in Requests, \A q \in Requests \ {r} : http'[q] = http[q],
           window' = window, punctual' \subseteq punctual \cup {r},
           RequestOK(r)'
    PROVE  \A q \in Requests : RequestOK(q)'
BY DEF GInv, RequestOK

\* The step is the last one that r takes under the marker, or there is no
\* holder of its key, or it leaves the marker alone.
LEMMA MarkerStep ==
    ASSUME GInv, NEW r \in Requests, \A q \in Requests \ {r} : http'[q] = http[q],
           faults \in Nat, faults' = faults \/ faults' = faults + 1,
           http[r].pc # "answered",
           \A k \in RedisKeys \ {RedisKey(r)} : marker'[k] = marker[k],
           \/ marker' = marker
           \/ RedisKey(r) \in RedisKeys /\ marker[RedisKey(r)] = "none"
           \/ Active(r),
           Holder(r)' => Header[r] # None /\ (Holder(r) \/ marker[RedisKey(r)] = "none"),
           Holder(r)' => marker'[RedisKey(r)] # "none",
           Active(r)' => marker'[RedisKey(r)] = "processing",
           faults' = 0 /\ RedisKey(r) \in RedisKeys /\ marker'[RedisKey(r)] = "processing" =>
               Active(r)' \/ (marker[RedisKey(r)] = "processing" /\ ~Active(r))
    PROVE  HoldersOK'
<1>1. \A q \in Requests \ {r} :
         /\ Holder(q)' = Holder(q) /\ Active(q)' = Active(q)
         /\ RequestOK(q) /\ RequestOK(r)
  BY DEF GInv, Holder, Active
<1>2. \A q \in Requests : Holder(q) => RedisKey(q) \in RedisKeys
  BY DEF GInv, RequestOK, Holder, RedisKeys
<1>3. \A q \in Requests : Active(q) => Holder(q)
  BY DEF Active, Holder
<1>4. ASSUME NEW q \in Requests \ {r}, Holder(q), RedisKey(q) = RedisKey(r)
      PROVE  marker' = marker /\ ~Holder(r) /\ ~Holder(r)'
  BY <1>2, <1>3, <1>4 DEF GInv, HoldersOK
<1>5. ASSUME NEW q \in Requests \ {r}, Holder(q)
      PROVE  marker'[RedisKey(q)] = marker[RedisKey(q)]
  BY <1>2, <1>4, <1>5
<1>6. \A p, q \in Requests : Holder(p)' /\ Holder(q)' /\ RedisKey(p) = RedisKey(q) => p = q
  BY <1>1, <1>4 DEF GInv, HoldersOK
<1>7. \A q \in Requests : Holder(q)' => marker'[RedisKey(q)] # "none"
  BY <1>1, <1>5 DEF GInv, HoldersOK
<1>8. \A q \in Requests : Active(q)' => marker'[RedisKey(q)] = "processing"
  BY <1>1, <1>3, <1>5 DEF GInv, HoldersOK
<1>9. ASSUME faults' = 0, NEW k \in RedisKeys, marker'[k] = "processing"
      PROVE  \E q \in Requests : Active(q)' /\ RedisKey(q) = k
  <2>1. faults = 0
    BY <1>9
  <2>2. CASE k # RedisKey(r)
    <3>1. PICK q \in Requests : Active(q) /\ RedisKey(q) = k
      BY <1>9, <2>1, <2>2 DEF GInv, HoldersOK
    <3> QED
      BY <1>1, <2>2, <3>1
  <2>3. CASE k = RedisKey(r) /\ Active(r)'
    BY <2>3
  <2>4. CASE k = RedisKey(r) /\ ~Active(r)'
    <3>1. marker[k] = "processing" /\ ~Active(r)
      BY <1>9, <2>4
    <3>2. PICK q \in Requests : Active(q) /\ RedisKey(q) = k
      BY <2>1, <3>1 DEF GInv, HoldersOK
    <3> QED
      BY <1>1, <3>1, <3>2
  <2> QED
    BY <2>2, <2>3, <2>4
<1>10. \A q \in Requests : RedisKey(q)' = RedisKey(q)
  BY DEF RedisKey
<1>11. RedisKeys' = RedisKeys
  BY DEF RedisKeys, RedisKey
<1> QED
  BY <1>6, <1>7, <1>8, <1>9, <1>10, <1>11 DEF HoldersOK

\* A response comes into Redis, or out of it, with its origin.
LEMMA ResponseStep ==
    ASSUME GInv, NEW r \in Requests, \A q \in Requests \ {r} : http'[q] = http[q],
           http[r].pc # "answered",
           \A k \in RedisKeys \ {RedisKey(r)} : marker'[k] = marker[k],
           RedisKey(r) \in RedisKeys /\ marker'[RedisKey(r)] \in Responses =>
               \/ marker'[RedisKey(r)] = marker[RedisKey(r)]
               \/ Origin(r, RedisKey(r), marker[RedisKey(r)])',
           http'[r].replayed =>
               /\ Header[r] # None
               /\ http'[r].reply = marker[RedisKey(r)] /\ marker[RedisKey(r)] \in Responses
    PROVE  ResponsesOK'
<1>1. ASSUME NEW CONSTANT q \in Requests, NEW CONSTANT k, NEW CONSTANT v, Origin(q, k, v)
      PROVE  Origin(q, k, v)'
  BY <1>1 DEF Origin, RedisKey
<1>2. ASSUME NEW k \in RedisKeys, marker[k]' \in Responses
      PROVE  \E q \in Requests : Origin(q, k, marker[k])'
  <2>1. CASE marker'[k] = marker[k]
    <3>1. PICK q \in Requests : Origin(q, k, marker[k])
      BY <1>2, <2>1 DEF GInv, ResponsesOK
    <3>2. q # r
      BY <3>1 DEF Origin
    <3> QED
      BY <2>1, <3>1, <3>2 DEF Origin, RedisKey
  <2>2. CASE marker'[k] # marker[k]
    <3>1. k = RedisKey(r) /\ Origin(r, RedisKey(r), marker[RedisKey(r)])'
      BY <1>2, <2>2
    <3> QED
      BY <3>1 DEF Origin, RedisKey
  <2> QED
    BY <2>1, <2>2
<1>3. ASSUME NEW p \in Requests, http[p].replayed'
      PROVE  /\ Header[p] # None
             /\ \E q \in Requests : Origin(q, RedisKey(p), http[p].reply)'
  <2>1. CASE p # r
    <3>1. http[p].replayed /\ http'[p] = http[p]
      BY <1>3, <2>1
    <3>2. PICK q \in Requests : Origin(q, RedisKey(p), http[p].reply)
      BY <3>1 DEF GInv, ResponsesOK
    <3>3. q # r
      BY <3>2 DEF Origin
    <3> QED
      BY <3>1, <3>2, <3>3 DEF Origin, RedisKey, GInv, ResponsesOK
  <2>2. CASE p = r
    <3>1. RedisKey(r) \in RedisKeys
      BY <1>3, <2>2 DEF RedisKeys
    <3>2. PICK q \in Requests : Origin(q, RedisKey(r), marker[RedisKey(r)])
      BY <1>3, <2>2, <3>1 DEF GInv, ResponsesOK
    <3>3. q # r
      BY <3>2 DEF Origin
    <3> QED
      BY <1>3, <2>2, <3>2, <3>3 DEF Origin, RedisKey
  <2> QED
    BY <2>1, <2>2
<1>4. RedisKeys' = RedisKeys
  BY DEF RedisKeys, RedisKey
<1> QED
  BY <1>2, <1>3, <1>4 DEF ResponsesOK

\* As long as its minute lasts a counter only grows, and the time to live it may
\* be given ends later; who is counted was counted before, or has just incremented
\* the counter in its minute and found it within the limit.
LEMMA CounterStep ==
    ASSUME GInv, NEW r \in Requests, \A q \in Requests \ {r} : http'[q] = http[q],
           window' = window, punctual' \subseteq punctual \cup {r},
           count' \in [1..MaxWindow -> Nat],
           \A m \in 1..MaxWindow : window <= m => count[m] <= count'[m],
           \A m \in 1..MaxWindow : expires'[m] \in {0, expires[m]} \cup m..window,
           \A m \in 1..MaxWindow : r \in Counted(m)' =>
               \/ r \in Counted(m)
               \/ window = m /\ count[m] < count'[m] /\ count'[m] <= Limit
    PROVE  CountersOK'
<1> SUFFICES ASSUME NEW m \in 1..MaxWindow
             PROVE  /\ Cardinality(Counted(m))' <= Limit
                    /\ window <= m => Cardinality(Counted(m))' <= count'[m]
                    /\ expires'[m] # 0 => expires'[m] \in m..window
  BY DEF CountersOK
<1>0. expires'[m] # 0 => expires'[m] \in m..window
  BY DEF GInv, CountersOK
<1>1. IsFiniteSet(Counted(m)) /\ IsFiniteSet(Requests)
  BY GatewayAssumption, FS_Subset DEF Counted, GInv, TypeOK
<1>2. /\ Cardinality(Counted(m)) \in Nat
      /\ Cardinality(Counted(m)) <= Limit
      /\ window <= m => Cardinality(Counted(m)) <= count[m]
      /\ count[m] \in Nat /\ count'[m] \in Nat /\ Limit \in Nat /\ window \in Nat
  BY <1>1, FS_CardinalityType, GatewayAssumption DEF GInv, CountersOK, TypeOK
<1>3. Counted(m)' \subseteq Counted(m) \cup {r}
  BY DEF Counted, GInv, TypeOK
<1>4. CASE Counted(m)' \subseteq Counted(m)
  <2>1. Cardinality(Counted(m)') <= Cardinality(Counted(m)) /\ Cardinality(Counted(m)') \in Nat
    BY <1>1, <1>4, FS_Subset, FS_CardinalityType
  <2> QED
    BY <1>0, <1>2, <2>1
<1>5. CASE ~(Counted(m)' \subseteq Counted(m))
  <2>1. r \in Counted(m)' /\ r \notin Counted(m)
    BY <1>3, <1>5
  <2>2. /\ Cardinality(Counted(m) \cup {r}) = Cardinality(Counted(m)) + 1
        /\ IsFiniteSet(Counted(m) \cup {r})
    BY <1>1, <2>1, FS_AddElement
  <2>3. /\ Cardinality(Counted(m)') <= Cardinality(Counted(m) \cup {r})
        /\ Cardinality(Counted(m)') \in Nat
    BY <1>3, <2>2, FS_Subset, FS_CardinalityType
  <2>4. window = m /\ count[m] < count'[m] /\ count'[m] <= Limit
    BY <2>1
  <2> QED
    BY <1>0, <1>2, <2>2, <2>3, <2>4
<1> QED
  BY <1>4, <1>5

\* All of it together.
LEMMA Step ==
    ASSUME GInv, NEW r \in Requests, Moves(r), RequestOK(r)',
           http[r].pc # "answered",
           marker' \in [RedisKeys -> Responses \cup {"none", "processing"}],
           window' = window, punctual' \subseteq punctual \cup {r},
           count' \in [1..MaxWindow -> Nat], expires' \in [1..MaxWindow -> 0..MaxWindow],
           faults' \in 0..MaxFaults, faults' = faults \/ faults' = faults + 1,
           HoldersOK', ResponsesOK', CountersOK'
    PROVE  GInv'
<1>1. RedisKeys' = RedisKeys
  BY DEF RedisKeys, RedisKey
<1>2. TypeOK'
  BY <1>1 DEF GInv, TypeOK, Moves
<1>3. \A q \in Requests : RequestOK(q)'
  BY RecordStep DEF GInv, TypeOK, Moves
<1> QED
  BY <1>2, <1>3 DEF GInv

\* A step of a request without the marker that leaves Redis and the counters
\* alone: nothing but its record has to be looked at.
LEMMA QuietStep ==
    ASSUME GInv, NEW r \in Requests, Moves(r), RequestOK(r)',
           http[r].pc # "answered",
           UNCHANGED <<marker, limiter>>,
           faults' \in 0..MaxFaults, faults' = faults \/ faults' = faults + 1,
           Active(r) => Active(r)' \/ faults' # 0,
           Active(r)' => Active(r), Holder(r)' => Holder(r),
           http'[r].replayed =>
               /\ Header[r] # None
               /\ http'[r].reply = marker[RedisKey(r)] /\ marker[RedisKey(r)] \in Responses,
           \A m \in 1..MaxWindow : r \in Counted(m)' => r \in Counted(m)
    PROVE  GInv'
<1>1. \A q \in Requests \ {r} : http'[q] = http[q]
  BY DEF Moves, GInv, TypeOK
<1>0. UNCHANGED <<window, count, expires, punctual>>
  BY DEF limiter
<1>2. HoldersOK'
  <2>1. Holder(r) => Header[r] # None /\ marker[RedisKey(r)] # "none"
    BY DEF GInv, HoldersOK, RequestOK, Holder
  <2>2. Active(r) => marker[RedisKey(r)] = "processing"
    BY DEF GInv, HoldersOK
  <2> QED
    BY <1>1, <2>1, <2>2, MarkerStep DEF GInv, TypeOK
<1>3. ResponsesOK'
  BY <1>1, ResponseStep
<1>4. CountersOK'
  BY <1>0, <1>1, CounterStep DEF GInv, TypeOK
<1> QED
  BY <1>0, <1>2, <1>3, <1>4, Step DEF GInv, TypeOK

-----------------------------------------------------------------------------
(* The rate limiter *)

\* The minute of a request is the one it arrives in.
LEMMA ArriveStep ==
    ASSUME GInv, NEW r \in Requests, Arrive(r)
    PROVE  GInv'
<1> DEFINE x == [http[r] EXCEPT !.pc = "count", !.minute = window]
<1>0. UNCHANGED <<window, punctual>>
  BY DEF Arrive, limiter
<1>1. http[r] \in Exchanges /\ RequestOK(r) /\ http[r].pc = "new" /\ window \in 1..MaxWindow
  BY DEF GInv, TypeOK, Arrive, At
<1>2. x \in Exchanges
  <2>1. window \in 0..MaxWindow
    BY <1>1
  <2> QED
    BY <1>1, <2>1, Values DEF Exchanges
<1>3. Moves(r) /\ http'[r] = x
  <2>1. http' = [http EXCEPT ![r] = x]
    BY DEF Arrive, GInv, TypeOK
  <2> HIDE DEF x
  <2> QED
    BY <1>2, <2>1, Assigned
<1>4. RequestOK(r)'
  BY <1>0, <1>1, <1>3 DEF RequestOK, Exchanges
<1> QED
  BY <1>0, <1>1, <1>3, <1>4, QuietStep
     DEF Arrive, Active, Holder, Counted, RequestOK, Exchanges, GInv, TypeOK

\* The time to live set now ends after this minute, and no request is counted in
\* a minute before it arrives.
LEMMA ExpirySet ==
    ASSUME GInv, NEW r \in Requests, http[r].pc = "expire", SetExpiry(r)
    PROVE  /\ expires' \in [1..MaxWindow -> 0..MaxWindow]
           /\ \A m \in 1..MaxWindow : expires'[m] \in {0, expires[m]} \cup m..window
<1>1. RequestOK(r) /\ window \in 1..MaxWindow
  BY DEF GInv, TypeOK
<1>2. http[r].minute \in 1..window
  BY <1>1 DEF RequestOK
<1>3. window \in http[r].minute..window /\ window \in 0..MaxWindow
  BY <1>1, <1>2
<1> QED
  BY <1>3 DEF SetExpiry, GInv, TypeOK

\* Who sets the expiry was counted already.
LEMMA ExpireStep ==
    ASSUME GInv, NEW r \in Requests, Expire(r)
    PROVE  GInv'
<1> DEFINE x == [http[r] EXCEPT !.pc = "lookup", !.pass = 1, !.admitted = TRUE]
<1>1. http[r] \in Exchanges /\ RequestOK(r) /\ http[r].pc = "expire"
  BY DEF GInv, TypeOK, Expire, At
<1>2. x \in Exchanges
  BY <1>1, Values DEF Exchanges
<1>3. Moves(r) /\ http'[r] = x
  <2>1. http' = [http EXCEPT ![r] = x]
    BY DEF Expire, Admit, GInv, TypeOK
  <2> HIDE DEF x
  <2> QED
    BY <1>2, <2>1, Assigned
<1>4. UNCHANGED <<marker, window, count, punctual, faults>>
  BY DEF Expire
<1>5. RequestOK(r)'
  BY <1>1, <1>3, <1>4 DEF RequestOK, Exchanges
<1>6. \A q \in Requests \ {r} : http'[q] = http[q]
  BY <1>3 DEF Moves, GInv, TypeOK
<1>7. HoldersOK'
  <2>1. ~Holder(r) /\ ~Holder(r)' /\ ~Active(r) /\ ~Active(r)'
    BY <1>1, <1>3 DEF RequestOK, Holder, Active, Exchanges
  <2> QED
    BY <1>1, <1>4, <1>6, <2>1, MarkerStep DEF GInv, TypeOK
<1>8. ResponsesOK'
  <2>1. ~http'[r].replayed
    BY <1>1, <1>3 DEF RequestOK, Exchanges
  <2> QED
    BY <1>1, <1>4, <1>6, <2>1, ResponseStep
<1>9. CountersOK'
  <2>1. \A m \in 1..MaxWindow : r \in Counted(m)' => r \in Counted(m)
    BY <1>1, <1>3, <1>4 DEF Counted, Exchanges
  <2>2. \A m \in 1..MaxWindow : count[m] <= count'[m]
    BY <1>4 DEF GInv, TypeOK
  <2> QED
    BY <1>1, <1>4, <1>6, <2>1, <2>2, CounterStep, ExpirySet DEF Expire, GInv, TypeOK
<1> QED
  BY <1>1, <1>3, <1>4, <1>5, <1>7, <1>8, <1>9, ExpirySet, Step DEF Expire, GInv, TypeOK

\* In the minute of the counter INCR adds one, since nothing has dropped it.
LEMMA IncrFacts ==
    ASSUME GInv, NEW r \in Requests, http[r].pc = "count", NEW current, Incr(r, current)
    PROVE  /\ http[r].minute \in 1..MaxWindow
           /\ current \in Nat \ {0}
           /\ count' = [count EXCEPT ![http[r].minute] = current]
           /\ count' \in [1..MaxWindow -> Nat] /\ expires' \in [1..MaxWindow -> 0..MaxWindow]
           /\ \A m \in 1..MaxWindow : window <= m => count[m] <= count'[m]
           /\ \A m \in 1..MaxWindow : expires'[m] \in {0, expires[m]} \cup m..window
           /\ window = http[r].minute => count[http[r].minute] < current
<1> DEFINE minute == http[r].minute
<1>1. RequestOK(r) /\ window \in 1..MaxWindow
  BY DEF GInv, TypeOK
<1>2. minute \in 1..window /\ minute \in 1..MaxWindow
  BY <1>1, GatewayAssumption DEF RequestOK
<1>3. /\ count[minute] \in Nat
      /\ expires[minute] # 0 => expires[minute] \in minute..window
  BY <1>2 DEF GInv, TypeOK, CountersOK
<1>4. count' = [count EXCEPT ![minute] = current]
  BY DEF Incr
<1>5. \/ current = count[minute] + 1 /\ UNCHANGED expires
      \/ current = 1 /\ expires' = [expires EXCEPT ![minute] = 0] /\ window > minute
  BY <1>1, <1>2, <1>3 DEF Incr, Expired
<1>6. current \in Nat \ {0}
  BY <1>3, <1>5
<1>7. count' \in [1..MaxWindow -> Nat] /\ expires' \in [1..MaxWindow -> 0..MaxWindow]
  <2>1. 0 \in 0..MaxWindow
    BY GatewayAssumption
  <2> QED
    BY <1>2, <1>4, <1>5, <1>6, <2>1 DEF GInv, TypeOK
<1>8. \A m \in 1..MaxWindow : window <= m => count[m] <= count'[m]
  <2> SUFFICES ASSUME NEW m \in 1..MaxWindow, window <= m
               PROVE  count[m] <= count'[m]
    OBVIOUS
  <2>1. CASE m = minute
    <3>1. current = count[minute] + 1
      BY <1>1, <1>2, <1>5, <2>1
    <3> QED
      BY <1>2, <1>3, <1>4, <2>1, <3>1 DEF GInv, TypeOK
  <2>2. CASE m # minute
    BY <1>4, <2>2 DEF GInv, TypeOK
  <2> QED
    BY <2>1, <2>2
<1>9. \A m \in 1..MaxWindow : expires'[m] \in {0, expires[m]} \cup m..window
  BY <1>5 DEF GInv, TypeOK
<1> QED
  BY <1>1, <1>2, <1>3, <1>4, <1>5, <1>6, <1>7, <1>8, <1>9

\* INCR returns a number no other request of the minute is given.
LEMMA CountStep ==
    ASSUME GInv, NEW r \in Requests, Count(r)
    PROVE  GInv'
<1>0. PICK current \in {1, count[http[r].minute] + 1} :
         /\ Incr(r, current)
         /\ CASE current = 1 -> Goto(r, "expire")
              [] Exceeded(current) -> Answer(r, "limited")
              [] OTHER -> Admit(r)
  BY DEF Count
<1> DEFINE first == [http[r] EXCEPT !.pc = "expire"]
           over == [http[r] EXCEPT !.pc = "answered", !.pass = 0, !.reply = "limited"]
           within == [http[r] EXCEPT !.pc = "lookup", !.pass = 1, !.admitted = TRUE]
<1>1. http[r] \in Exchanges /\ RequestOK(r) /\ http[r].pc = "count"
  BY DEF GInv, TypeOK, Count, At
<1>2. http[r].minute \in 1..MaxWindow /\ current \in Nat \ {0}
  BY <1>0, <1>1, IncrFacts
<1>3. first \in Exchanges /\ over \in Exchanges /\ within \in Exchanges
  BY <1>1, Values DEF Exchanges
<1>4. \/ current = 1 /\ http' = [http EXCEPT ![r] = first]
      \/ current > Limit /\ http' = [http EXCEPT ![r] = over]
      \/ current <= Limit /\ http' = [http EXCEPT ![r] = within]
  <2>1. \/ current = 1 /\ Goto(r, "expire")
        \/ current > Limit /\ Answer(r, "limited")
        \/ current <= Limit /\ Admit(r)
    BY <1>0, <1>2, GatewayAssumption DEF Exceeded
  <2>2. /\ Goto(r, "expire") => http' = [http EXCEPT ![r] = first]
        /\ Answer(r, "limited") => http' = [http EXCEPT ![r] = over]
        /\ Admit(r) => http' = [http EXCEPT ![r] = within]
    BY DEF Goto, Answer, Admit, GInv, TypeOK
  <2> HIDE DEF first, over, within
  <2> QED
    BY <2>1, <2>2
<1>5. /\ Moves(r)
      /\ \/ current = 1 /\ http'[r] = first
         \/ current > Limit /\ http'[r] = over
         \/ current <= Limit /\ http'[r] = within
  <2> HIDE DEF first, over, within
  <2> QED
    BY <1>3, <1>4, Assigned
<1>6. \/ http'[r] = first \/ http'[r] = over \/ http'[r] = within
  BY <1>5
<1>7. RequestOK(r)'
  BY <1>1, <1>6 DEF RequestOK, Exchanges, Count
<1>8. \A q \in Requests \ {r} : http'[q] = http[q]
  BY <1>5 DEF Moves, GInv, TypeOK
<1>9. HoldersOK'
  <2>1. ~Holder(r) /\ ~Holder(r)' /\ ~Active(r) /\ ~Active(r)'
    BY <1>1, <1>6 DEF RequestOK, Holder, Active, Exchanges
  <2> QED
    BY <1>1, <1>8, <2>1, MarkerStep DEF Count, GInv, TypeOK
<1>10. ResponsesOK'
  <2>1. ~http'[r].replayed
    BY <1>1, <1>6 DEF RequestOK, Exchanges
  <2> QED
    BY <1>1, <1>8, <2>1, ResponseStep DEF Count
<1>11. /\ count' = [count EXCEPT ![http[r].minute] = current]
       /\ \A m \in 1..MaxWindow : window <= m => count[m] <= count'[m]
       /\ window = http[r].minute => count[http[r].minute] < current
  BY <1>0, <1>1, IncrFacts
<1>12. /\ count' \in [1..MaxWindow -> Nat] /\ expires' \in [1..MaxWindow -> 0..MaxWindow]
       /\ \A m \in 1..MaxWindow : expires'[m] \in {0, expires[m]} \cup m..window
  BY <1>0, <1>1, IncrFacts
<1>13. UNCHANGED window /\ punctual' \subseteq punctual \cup {r}
  BY DEF Count
<1>14. CountersOK'
  <2>2. current <= Limit \/ http'[r] = over
    BY <1>2, <1>5, GatewayAssumption
  <2>3. \A m \in 1..MaxWindow : r \in Counted(m)' =>
           m = http[r].minute /\ window = m /\ http'[r] # over
    <3>1. http'[r].minute = http[r].minute
      BY <1>1, <1>6 DEF Exchanges
    <3>2. http'[r] = over => ~http'[r].admitted /\ http'[r].pc = "answered"
      BY <1>1 DEF Exchanges, RequestOK
    <3>3. r \in punctual' => window = http[r].minute
      BY <1>1 DEF Count, RequestOK
    <3> QED
      BY <3>1, <3>2, <3>3 DEF Counted
  <2>4. \A m \in 1..MaxWindow : r \in Counted(m)' =>
           window = m /\ count[m] < count'[m] /\ count'[m] <= Limit
    BY <1>2, <1>11, <2>2, <2>3 DEF GInv, TypeOK
  <2> QED
    BY <1>8, <1>11, <1>12, <1>13, <2>4, CounterStep
<1> QED
  BY <1>1, <1>5, <1>7, <1>9, <1>10, <1>12, <1>13, <1>14, Step DEF Count, GInv, TypeOK

\* The counter may have grown; whoever passes uncounted is not admitted.
LEMMA LimiterFailsStep ==
    ASSUME GInv, NEW r \in Requests, LimiterFails(r)
    PROVE  GInv'
<1> DEFINE x == [http[r] EXCEPT !.pc = "lookup", !.pass = 2, !.mode = "none"]
<1>1. http[r] \in Exchanges /\ RequestOK(r) /\ (http[r].pc = "count" \/ http[r].pc = "expire")
  BY DEF GInv, TypeOK, LimiterFails, At
<1>2. x \in Exchanges
  BY <1>1, Values DEF Exchanges
<1>3. Moves(r) /\ http'[r] = x
  <2>1. http' = [http EXCEPT ![r] = x]
    BY DEF LimiterFails, PassAgain, GInv, TypeOK
  <2> HIDE DEF x
  <2> QED
    BY <1>2, <2>1, Assigned
<1>4. RequestOK(r)'
  BY <1>1, <1>3 DEF RequestOK, Exchanges, LimiterFails
<1>5. \A q \in Requests \ {r} : http'[q] = http[q]
  BY <1>3 DEF Moves, GInv, TypeOK
<1>6. faults' = faults + 1 /\ faults' \in 0..MaxFaults /\ faults \in Nat
  BY GatewayAssumption DEF LimiterFails, Fault, GInv, TypeOK
<1>7. HoldersOK'
  <2>1. ~Holder(r) /\ ~Holder(r)' /\ ~Active(r) /\ ~Active(r)'
    BY <1>1, <1>3 DEF RequestOK, Holder, Active, Exchanges
  <2> QED
    BY <1>1, <1>5, <1>6, <2>1, MarkerStep DEF LimiterFails
<1>8. ResponsesOK'
  <2>1. ~http'[r].replayed
    BY <1>1, <1>3 DEF RequestOK, Exchanges
  <2> QED
    BY <1>1, <1>5, <2>1, ResponseStep DEF LimiterFails
<1>9. /\ count' \in [1..MaxWindow -> Nat] /\ expires' \in [1..MaxWindow -> 0..MaxWindow]
      /\ \A m \in 1..MaxWindow : window <= m => count[m] <= count'[m]
      /\ \A m \in 1..MaxWindow : expires'[m] \in {0, expires[m]} \cup m..window
  <2>1. CASE UNCHANGED <<count, expires>>
    BY <2>1 DEF GInv, TypeOK
  <2>2. ASSUME http[r].pc = "count", NEW current, Incr(r, current)
        PROVE  <1>9
    BY <2>2, IncrFacts
  <2>3. CASE http[r].pc = "expire" /\ SetExpiry(r) /\ UNCHANGED count
    BY <2>3, ExpirySet DEF GInv, TypeOK
  <2> QED
    BY <2>1, <2>2, <2>3 DEF LimiterFails, At
<1>11. CountersOK'
  <2>1. \A m \in 1..MaxWindow : r \notin Counted(m)'
    BY <1>1, <1>3 DEF Counted, RequestOK, Exchanges
  <2> QED
    BY <1>5, <1>9, <2>1, CounterStep DEF LimiterFails
<1> QED
  BY <1>1, <1>3, <1>4, <1>6, <1>7, <1>8, <1>9, <1>11, Step DEF LimiterFails, GInv, TypeOK

-----------------------------------------------------------------------------
(* The idempotency cache *)

\* A request that finds a response stored is the only one it is given to.
LEMMA LookupStep ==
    ASSUME GInv, NEW r \in Requests, Lookup(r)
    PROVE  GInv'
<1> DEFINE stored == marker[RedisKey(r)]
           through == [http[r] EXCEPT !.pc = "handler", !.mode = "through"]
           claim == [http[r] EXCEPT !.pc = "claim"]
           replay == [http[r] EXCEPT !.pc = "answered", !.pass = 0, !.replayed = TRUE,
                                    !.reply = stored]
<1>1. http[r] \in Exchanges /\ RequestOK(r) /\ http[r].pc = "lookup"
  BY DEF GInv, TypeOK, Lookup, At
<1>2. Header[r] # None => stored \in Responses \cup {"none", "processing"}
  BY DEF GInv, TypeOK, RedisKeys
<1>3. \/ EnterHandler(r, "through")
      \/ Header[r] # None /\ Goto(r, "claim")
      \/ /\ Header[r] # None /\ stored \in Responses
         /\ http' = [http EXCEPT ![r].pc = "answered", ![r].pass = 0, ![r].replayed = TRUE, ![r].reply = stored]
  BY <1>2 DEF Lookup, InProgress
<1>4. \/ http' = [http EXCEPT ![r] = through]
      \/ Header[r] # None /\ http' = [http EXCEPT ![r] = claim]
      \/ Header[r] # None /\ stored \in Responses /\ http' = [http EXCEPT ![r] = replay]
  <2>1. /\ EnterHandler(r, "through") => http' = [http EXCEPT ![r] = through]
        /\ Goto(r, "claim") => http' = [http EXCEPT ![r] = claim]
    BY DEF EnterHandler, Goto, GInv, TypeOK
  <2>2. [http EXCEPT ![r].pc = "answered", ![r].pass = 0, ![r].replayed = TRUE, ![r].reply = stored]
           = [http EXCEPT ![r] = replay]
    BY DEF GInv, TypeOK
  <2> HIDE DEF stored, through, claim, replay
  <2> QED
    BY <1>3, <2>1, <2>2
<1>5. through \in Exchanges /\ claim \in Exchanges /\ (stored \in Responses => replay \in Exchanges)
  <2>1. stored \in Responses => stored \in Replies \cup {"none"}
    BY Values
  <2> QED
    BY <1>1, <2>1, Values DEF Exchanges
<1>6. /\ Moves(r)
      /\ \/ http'[r] = through
         \/ Header[r] # None /\ http'[r] = claim
         \/ Header[r] # None /\ stored \in Responses /\ http'[r] = replay
  <2> HIDE DEF stored, through, claim, replay
  <2> QED
    BY <1>4, <1>5, Assigned
<1>7. RequestOK(r)'
  BY <1>1, <1>6 DEF RequestOK, Exchanges, Lookup, limiter
<1>8. /\ ~Active(r) /\ ~Active(r)' /\ ~Holder(r)'
      /\ \A m \in 1..MaxWindow : r \in Counted(m)' => r \in Counted(m)
  BY <1>1, <1>6 DEF RequestOK, Exchanges, Active, Holder, Counted, Lookup, limiter
<1>9. http'[r].replayed =>
         Header[r] # None /\ http'[r].reply = stored /\ stored \in Responses
  BY <1>1, <1>6 DEF RequestOK, Exchanges
<1> QED
  BY <1>1, <1>6, <1>7, <1>8, <1>9, QuietStep DEF Lookup, GInv, TypeOK

\* SET NX hands the marker to one request.
LEMMA ClaimStep ==
    ASSUME GInv, NEW r \in Requests, Claim(r)
    PROVE  GInv'
<1> DEFINE owner == [http[r] EXCEPT !.pc = "handler", !.mode = "owner"]
           busy == [http[r] EXCEPT !.pc = "answered", !.pass = 0, !.reply = "busy"]
<1>1. http[r] \in Exchanges /\ RequestOK(r) /\ http[r].pc = "claim"
  BY DEF GInv, TypeOK, Claim, At
<1>2. Header[r] # None /\ RedisKey(r) \in RedisKeys
  BY <1>1 DEF RequestOK, RedisKeys
<1>3. owner \in Exchanges /\ busy \in Exchanges
  BY <1>1, Values DEF Exchanges
<1>4. /\ EnterHandler(r, "owner") => http' = [http EXCEPT ![r] = owner]
      /\ Answer(r, "busy") => http' = [http EXCEPT ![r] = busy]
  BY DEF EnterHandler, Answer, GInv, TypeOK
<1>5. CASE ~Acquired(r)
  <2>1. Moves(r) /\ http'[r] = busy /\ UNCHANGED marker
    <3>1. Answer(r, "busy") /\ UNCHANGED marker
      BY <1>5 DEF Claim
    <3> HIDE DEF owner, busy
    <3> QED
      BY <1>3, <1>4, <3>1, Assigned
  <2>2. RequestOK(r)'
    BY <1>1, <2>1 DEF RequestOK, Exchanges, Claim, limiter
  <2>3. ~Active(r) /\ ~Active(r)' /\ ~Holder(r)' /\ ~http'[r].replayed
    BY <1>1, <2>1 DEF RequestOK, Exchanges, Active, Holder
  <2>4. \A m \in 1..MaxWindow : r \in Counted(m)' => r \in Counted(m)
    BY <1>1, <2>1 DEF Exchanges, Counted, Claim, limiter
  <2> QED
    BY <1>1, <2>1, <2>2, <2>3, <2>4, QuietStep DEF Claim, GInv, TypeOK
<1>6. CASE Acquired(r)
  <2>1. /\ Moves(r) /\ http'[r] = owner
        /\ marker' = [marker EXCEPT ![RedisKey(r)] = "processing"]
    <3>1. EnterHandler(r, "owner") /\ marker' = [marker EXCEPT ![RedisKey(r)] = "processing"]
      BY <1>6 DEF Claim
    <3> HIDE DEF owner, busy
    <3> QED
      BY <1>3, <1>4, <3>1, Assigned
  <2>2. RequestOK(r)'
    BY <1>1, <1>2, <2>1 DEF RequestOK, Exchanges, Claim, limiter
  <2>3. Active(r)' /\ ~http'[r].replayed
    BY <1>1, <2>1 DEF RequestOK, Exchanges, Active
  <2>4. /\ marker \in [RedisKeys -> Responses \cup {"none", "processing"}]
        /\ marker[RedisKey(r)] = "none" /\ marker'[RedisKey(r)] = "processing"
        /\ \A k \in RedisKeys \ {RedisKey(r)} : marker'[k] = marker[k]
        /\ marker' \in [RedisKeys -> Responses \cup {"none", "processing"}]
    BY <1>2, <1>6, <2>1 DEF Acquired, GInv, TypeOK
  <2>5. \A q \in Requests \ {r} : http'[q] = http[q]
    BY <2>1 DEF Moves, GInv, TypeOK
  <2>6. UNCHANGED <<window, count, expires, punctual, faults>>
    BY DEF Claim, limiter
  <2>7. HoldersOK'
    BY <1>1, <1>2, <2>3, <2>4, <2>5, <2>6, MarkerStep DEF GInv, TypeOK
  <2>8. "processing" \notin Responses
    BY DEF Responses
  <2>9. ResponsesOK'
    BY <1>1, <2>3, <2>4, <2>5, <2>8, ResponseStep
  <2>10. \A m \in 1..MaxWindow : r \in Counted(m)' => r \in Counted(m)
    BY <1>1, <2>1 DEF Exchanges, Counted, Claim, limiter
  <2>11. CountersOK'
    BY <2>5, <2>6, <2>10, CounterStep DEF GInv, TypeOK
  <2> QED
    BY <1>1, <2>1, <2>2, <2>4, <2>6, <2>7, <2>9, <2>11, Step DEF GInv, TypeOK
<1> QED
  BY <1>5, <1>6

\* The marker may have been set for a request that does not know it.
LEMMA CacheFailsStep ==
    ASSUME GInv, NEW r \in Requests, CacheFails(r)
    PROVE  GInv'
<1> DEFINE x == [http[r] EXCEPT !.pc = "handler", !.mode = "through"]
<1>1. http[r] \in Exchanges /\ RequestOK(r) /\ (http[r].pc = "lookup" \/ http[r].pc = "claim")
  BY DEF GInv, TypeOK, CacheFails, At
<1>2. x \in Exchanges
  BY <1>1, Values DEF Exchanges
<1>3. Moves(r) /\ http'[r] = x
  <2>1. http' = [http EXCEPT ![r] = x]
    BY DEF CacheFails, EnterHandler, GInv, TypeOK
  <2> HIDE DEF x
  <2> QED
    BY <1>2, <2>1, Assigned
<1>4. RequestOK(r)'
  BY <1>1, <1>3 DEF RequestOK, Exchanges, CacheFails, limiter
<1>5. ~Active(r) /\ ~Active(r)' /\ ~Holder(r)' /\ ~http'[r].replayed
  BY <1>1, <1>3 DEF RequestOK, Exchanges, Active, Holder
<1>6. \A m \in 1..MaxWindow : r \in Counted(m)' => r \in Counted(m)
  BY <1>1, <1>3 DEF Exchanges, Counted, CacheFails, limiter
<1>7. /\ faults' = faults + 1 /\ faults' \in 0..MaxFaults /\ faults \in Nat
      /\ UNCHANGED <<window, count, expires, punctual>>
  BY GatewayAssumption DEF CacheFails, Fault, GInv, TypeOK, limiter
<1>8. CASE marker' = marker
  BY <1>1, <1>3, <1>4, <1>5, <1>6, <1>7, <1>8, QuietStep DEF limiter
<1>9. CASE /\ http[r].pc = "claim" /\ marker[RedisKey(r)] = "none"
           /\ marker' = [marker EXCEPT ![RedisKey(r)] = "processing"]
  <2>1. RedisKey(r) \in RedisKeys
    BY <1>1, <1>9 DEF RequestOK, RedisKeys
  <2>2. /\ marker'[RedisKey(r)] = "processing"
        /\ \A k \in RedisKeys \ {RedisKey(r)} : marker'[k] = marker[k]
        /\ marker' \in [RedisKeys -> Responses \cup {"none", "processing"}]
    BY <1>9, <2>1 DEF GInv, TypeOK
  <2>3. \A q \in Requests \ {r} : http'[q] = http[q]
    BY <1>3 DEF Moves, GInv, TypeOK
  <2>4. HoldersOK'
    BY <1>1, <1>5, <1>7, <1>9, <2>1, <2>2, <2>3, MarkerStep
  <2>5. "processing" \notin Responses
    BY DEF Responses
  <2>6. ResponsesOK'
    BY <1>1, <1>5, <2>2, <2>3, <2>5, ResponseStep
  <2>7. CountersOK'
    BY <1>6, <1>7, <2>3, CounterStep DEF GInv, TypeOK
  <2> QED
    BY <1>1, <1>3, <1>4, <1>7, <2>2, <2>4, <2>6, <2>7, Step DEF GInv, TypeOK
<1> QED
  BY <1>8, <1>9 DEF CacheFails, At

\* The response of an owner waits to be stored.
LEMMA RespondStep ==
    ASSUME GInv, NEW r \in Requests, NEW response \in Responses, Respond(r, response)
    PROVE  GInv'
<1> DEFINE pc == IF http[r].mode = "owner" THEN "store" ELSE "answered"
           effect == IF response = "done" THEN "committed" ELSE http[r].effect
           pass == IF http[r].mode = "owner" THEN http[r].pass ELSE 0
           x == [http[r] EXCEPT !.pc = pc, !.pass = pass, !.effect = effect, !.reply = response]
<1>0. UNCHANGED <<window, punctual>>
  BY DEF Respond, limiter
<1>1. http[r] \in Exchanges /\ RequestOK(r) /\ http[r].pc = "handler"
  BY DEF GInv, TypeOK, Respond, At
<1>2. x \in Exchanges
  <2>1. pc \in Steps /\ response \in Replies \cup {"none"}
    BY Values
  <2>2. effect \in Effects /\ pass \in Passes
    BY <1>1, Values DEF Exchanges
  <2> HIDE DEF pc, pass, effect
  <2> QED
    BY <1>1, <2>1, <2>2 DEF Exchanges
<1>3. Moves(r) /\ http'[r] = x
  <2>1. http' = [http EXCEPT ![r] = x]
    BY DEF Respond, GInv, TypeOK
  <2> HIDE DEF x
  <2> QED
    BY <1>2, <2>1, Assigned
<1>4. RequestOK(r)'
  BY <1>0, <1>1, <1>3 DEF RequestOK, Exchanges
<1>5. /\ Active(r) => Active(r)'
      /\ Active(r)' => Active(r)
      /\ Holder(r)' => Holder(r)
      /\ ~http'[r].replayed
  BY <1>1, <1>3 DEF RequestOK, Exchanges, Active, Holder
<1>6. \A m \in 1..MaxWindow : r \in Counted(m)' => r \in Counted(m)
  BY <1>0, <1>1, <1>3 DEF Exchanges, Counted
<1> QED
  BY <1>1, <1>3, <1>4, <1>5, <1>6, QuietStep DEF Respond, GInv, TypeOK

\* What Rethrow leaves of a request that never was committed.
LEMMA RethrowRecord ==
    ASSUME GInv, NEW r \in Requests, NEW effect \in Effects, effect # "committed",
           http[r].pc = "handler" \/ http[r].pc = "release",
           Rethrow(r, effect), UNCHANGED limiter
    PROVE  /\ Moves(r) /\ RequestOK(r)'
           /\ ~Active(r)' /\ ~Holder(r)' /\ ~http'[r].replayed
           /\ \A m \in 1..MaxWindow : r \in Counted(m)' => r \in Counted(m)
<1> DEFINE pc == IF http[r].pass = 1 THEN "lookup" ELSE "answered"
           reply == IF http[r].pass = 1 THEN "none" ELSE "error"
           pass == IF http[r].pass = 1 THEN 2 ELSE 0
           x == [http[r] EXCEPT !.pc = pc, !.pass = pass, !.mode = "none",
                                !.effect = effect, !.reply = reply]
<1>1. http[r] \in Exchanges /\ RequestOK(r)
  BY DEF GInv, TypeOK
<1>2. x \in Exchanges
  <2>1. pc \in Steps /\ pass \in Passes /\ reply \in Replies \cup {"none"}
    BY Values
  <2> HIDE DEF pc, pass, reply
  <2> QED
    BY <1>1, <2>1, Values DEF Exchanges
<1>3. Moves(r) /\ http'[r] = x
  <2>1. http' = [http EXCEPT ![r] = x]
    BY DEF Rethrow, GInv, TypeOK
  <2> HIDE DEF x
  <2> QED
    BY <1>2, <2>1, Assigned
<1>4. RequestOK(r)'
  BY <1>1, <1>3 DEF RequestOK, Exchanges, limiter
<1>5. ~Active(r)' /\ ~Holder(r)' /\ ~http'[r].replayed
  BY <1>1, <1>3 DEF RequestOK, Exchanges, Active, Holder
<1>6. \A m \in 1..MaxWindow : r \in Counted(m)' => r \in Counted(m)
  BY <1>1, <1>3 DEF Exchanges, Counted, limiter
<1> QED
  BY <1>3, <1>4, <1>5, <1>6

\* A request that raises has not committed a response.
LEMMA RaiseStep ==
    ASSUME GInv, NEW r \in Requests, NEW effect \in Effects, Raise(r, effect)
    PROVE  GInv'
<1>1. http[r] \in Exchanges /\ RequestOK(r) /\ http[r].pc = "handler" /\ effect # "committed"
  BY DEF GInv, TypeOK, Raise, At, RequestOK
<1>2. CASE http[r].mode # "owner"
  <2>1. Rethrow(r, effect)
    BY <1>2 DEF Raise
  <2>2. ~Active(r)
    BY <1>2 DEF Active
  <2> QED
    BY <1>1, <2>1, <2>2, RethrowRecord, QuietStep DEF Raise, GInv, TypeOK
<1>3. CASE http[r].mode = "owner"
  <2> DEFINE x == [http[r] EXCEPT !.pc = "release", !.effect = effect]
  <2>1. x \in Exchanges
    BY <1>1, Values DEF Exchanges
  <2>2. Moves(r) /\ http'[r] = x
    <3>1. http' = [http EXCEPT ![r] = x]
      BY <1>3 DEF Raise, GInv, TypeOK
    <3> HIDE DEF x
    <3> QED
      BY <2>1, <3>1, Assigned
  <2>3. RequestOK(r)'
    BY <1>1, <1>3, <2>2 DEF RequestOK, Exchanges, Raise, limiter
  <2>4. Active(r) /\ Active(r)' /\ Holder(r) /\ ~http'[r].replayed
    BY <1>1, <1>3, <2>2 DEF RequestOK, Exchanges, Active, Holder
  <2>5. \A m \in 1..MaxWindow : r \in Counted(m)' => r \in Counted(m)
    BY <1>1, <2>2 DEF Exchanges, Counted, Raise, limiter
  <2> QED
    BY <1>1, <2>2, <2>3, <2>4, <2>5, QuietStep DEF Raise, GInv, TypeOK
<1> QED
  BY <1>2, <1>3

\* The owner gives the marker up, and holds nothing any more.
LEMMA ReleaseStep ==
    ASSUME GInv, NEW r \in Requests, Release(r)
    PROVE  GInv'
<1>1. http[r] \in Exchanges /\ RequestOK(r) /\ http[r].pc = "release" /\ http[r].mode = "owner"
  BY DEF GInv, TypeOK, Release, At, RequestOK
<1>2. http[r].effect \in Effects /\ http[r].effect # "committed" /\ Active(r)
  BY <1>1 DEF RequestOK, Exchanges, Active
<1>3. /\ Moves(r) /\ RequestOK(r)'
      /\ ~Active(r)' /\ ~Holder(r)' /\ ~http'[r].replayed
      /\ \A m \in 1..MaxWindow : r \in Counted(m)' => r \in Counted(m)
  BY <1>1, <1>2, RethrowRecord DEF Release
<1>4. RedisKey(r) \in RedisKeys
  BY <1>1 DEF RequestOK, RedisKeys
<1>5. /\ marker'[RedisKey(r)] = "none"
      /\ \A k \in RedisKeys \ {RedisKey(r)} : marker'[k] = marker[k]
      /\ marker' \in [RedisKeys -> Responses \cup {"none", "processing"}]
  BY <1>4 DEF Release, Unmarked, GInv, TypeOK
<1>6. \A q \in Requests \ {r} : http'[q] = http[q]
  BY <1>3 DEF Moves, GInv, TypeOK
<1>7. UNCHANGED <<window, count, expires, punctual, faults>>
  BY DEF Release, limiter
<1>8. HoldersOK'
  BY <1>1, <1>2, <1>3, <1>5, <1>6, <1>7, MarkerStep DEF GInv, TypeOK
<1>9. ResponsesOK'
  <2>1. "none" \notin Responses
    BY DEF Responses
  <2> QED
    BY <1>1, <1>3, <1>5, <1>6, <2>1, ResponseStep
<1>10. CountersOK'
  BY <1>3, <1>6, <1>7, CounterStep DEF GInv, TypeOK
<1> QED
  BY <1>1, <1>3, <1>5, <1>7, <1>8, <1>9, <1>10, Step DEF GInv, TypeOK

\* After the fault the marker stays without an owner.
LEMMA ReleaseFailsStep ==
    ASSUME GInv, NEW r \in Requests, ReleaseFails(r)
    PROVE  GInv'
<1>1. http[r] \in Exchanges /\ RequestOK(r) /\ http[r].pc = "release" /\ http[r].mode = "owner"
  BY DEF GInv, TypeOK, ReleaseFails, At, RequestOK
<1>2. http[r].effect \in Effects /\ http[r].effect # "committed"
  BY <1>1 DEF RequestOK, Exchanges
<1>3. /\ Moves(r) /\ RequestOK(r)'
      /\ ~Active(r)' /\ ~Holder(r)' /\ ~http'[r].replayed
      /\ \A m \in 1..MaxWindow : r \in Counted(m)' => r \in Counted(m)
  BY <1>1, <1>2, RethrowRecord DEF ReleaseFails
<1>4. faults' = faults + 1 /\ faults' \in 0..MaxFaults /\ faults \in Nat /\ faults' # 0
  BY GatewayAssumption DEF ReleaseFails, Fault, GInv, TypeOK
<1> QED
  BY <1>1, <1>3, <1>4, QuietStep DEF ReleaseFails

\* The owner leaves its response under the key; its own record is the origin.
LEMMA StoreStep ==
    ASSUME GInv, NEW r \in Requests, Store(r)
    PROVE  GInv'
<1> DEFINE x == [http[r] EXCEPT !.pc = "answered", !.pass = 0, !.reply = http[r].reply]
<1>1. http[r] \in Exchanges /\ RequestOK(r) /\ http[r].pc = "store" /\ http[r].mode = "owner"
  BY DEF GInv, TypeOK, Store, At, RequestOK
<1>2. /\ http[r].reply \in Responses /\ http[r].reply # "none" /\ http[r].reply # "processing"
      /\ Active(r) /\ Header[r] # None
  BY <1>1 DEF RequestOK, Active, Responses
<1>3. x \in Exchanges
  BY <1>1, <1>2, Values DEF Exchanges
<1>4. Moves(r) /\ http'[r] = x
  <2>1. http' = [http EXCEPT ![r] = x]
    BY DEF Store, Answer, GInv, TypeOK
  <2> HIDE DEF x
  <2> QED
    BY <1>3, <2>1, Assigned
<1>5. RequestOK(r)'
  BY <1>1, <1>4 DEF RequestOK, Exchanges, Store, limiter
<1>6. RedisKey(r) \in RedisKeys
  BY <1>2 DEF RedisKeys
<1>7. /\ marker'[RedisKey(r)] = http[r].reply
      /\ \A k \in RedisKeys \ {RedisKey(r)} : marker'[k] = marker[k]
      /\ marker' \in [RedisKeys -> Responses \cup {"none", "processing"}]
  BY <1>2, <1>6 DEF Store, GInv, TypeOK
<1>8. \A q \in Requests \ {r} : http'[q] = http[q]
  BY <1>4 DEF Moves, GInv, TypeOK
<1>9. UNCHANGED <<window, count, expires, punctual, faults>>
  BY DEF Store, limiter
<1>10. ~Active(r)' /\ (Holder(r)' => Holder(r)) /\ ~http'[r].replayed
  BY <1>1, <1>2, <1>4 DEF Active, Holder, Exchanges, RequestOK
<1>11. HoldersOK'
  BY <1>1, <1>2, <1>7, <1>8, <1>9, <1>10, MarkerStep DEF GInv, TypeOK
<1>12. ResponsesOK'
  <2>1. Origin(r, RedisKey(r), marker[RedisKey(r)])'
    BY <1>1, <1>2, <1>4, <1>7, <1>10 DEF Origin, Exchanges, RedisKey
  <2> QED
    BY <1>1, <1>7, <1>8, <1>10, <2>1, ResponseStep
<1>13. \A m \in 1..MaxWindow : r \in Counted(m)' => r \in Counted(m)
  BY <1>1, <1>4 DEF Exchanges, Counted, Store, limiter
<1>14. CountersOK'
  BY <1>8, <1>9, <1>13, CounterStep DEF GInv, TypeOK
<1> QED
  BY <1>1, <1>4, <1>5, <1>7, <1>9, <1>11, <1>12, <1>14, Step DEF GInv, TypeOK

\* The response is sent, and not kept.
LEMMA StoreFailsStep ==
    ASSUME GInv, NEW r \in Requests, StoreFails(r)
    PROVE  GInv'
<1> DEFINE x == [http[r] EXCEPT !.pc = "answered", !.pass = 0, !.reply = http[r].reply]
<1>1. http[r] \in Exchanges /\ RequestOK(r) /\ http[r].pc = "store"
  BY DEF GInv, TypeOK, StoreFails, At
<1>2. x \in Exchanges
  BY <1>1, Values DEF Exchanges
<1>3. Moves(r) /\ http'[r] = x
  <2>1. http' = [http EXCEPT ![r] = x]
    BY DEF StoreFails, Answer, GInv, TypeOK
  <2> HIDE DEF x
  <2> QED
    BY <1>2, <2>1, Assigned
<1>4. RequestOK(r)'
  BY <1>1, <1>3 DEF RequestOK, Exchanges, StoreFails, limiter
<1>5. ~Active(r)' /\ (Holder(r)' => Holder(r)) /\ ~http'[r].replayed
  BY <1>1, <1>3 DEF Active, Holder, Exchanges, RequestOK
<1>6. \A m \in 1..MaxWindow : r \in Counted(m)' => r \in Counted(m)
  BY <1>1, <1>3 DEF Exchanges, Counted, StoreFails, limiter
<1>7. faults' = faults + 1 /\ faults' \in 0..MaxFaults /\ faults \in Nat /\ faults' # 0
  BY GatewayAssumption DEF StoreFails, Fault, GInv, TypeOK
<1> QED
  BY <1>1, <1>3, <1>4, <1>5, <1>6, <1>7, QuietStep DEF StoreFails

-----------------------------------------------------------------------------
(* The system *)

\* A request that dies holds nothing it did not hold before.
LEMMA DiesStep ==
    ASSUME GInv, NEW r \in Requests, NEW effect \in Effects, Dies(r, effect)
    PROVE  GInv'
<1> DEFINE x == [http[r] EXCEPT !.pc = "lost", !.pass = 0, !.effect = effect]
<1>0. UNCHANGED <<window, punctual>>
  BY DEF Dies, limiter
<1>1. http[r] \in Exchanges /\ RequestOK(r) /\ http[r].pc # "answered" /\ http[r].pc # "new"
  BY DEF GInv, TypeOK, Dies, InFlight
<1>2. effect = "committed" => http[r].effect = "committed" /\ http[r].pc = "store"
  BY <1>1 DEF Dies, RequestOK, At, InFlight
<1>3. x \in Exchanges
  BY <1>1, Values DEF Exchanges
<1>4. Moves(r) /\ http'[r] = x
  <2>1. http' = [http EXCEPT ![r] = x]
    BY DEF Dies, GInv, TypeOK
  <2> HIDE DEF x
  <2> QED
    BY <1>3, <2>1, Assigned
<1>5. RequestOK(r)'
  BY <1>0, <1>1, <1>4 DEF RequestOK, Exchanges
<1>6. ~Active(r)' /\ (Holder(r)' => Holder(r)) /\ ~http'[r].replayed
  BY <1>1, <1>2, <1>4 DEF Active, Holder, Exchanges, RequestOK
<1>7. \A m \in 1..MaxWindow : r \in Counted(m)' => r \in Counted(m)
  BY <1>0, <1>1, <1>4 DEF Exchanges, Counted
<1>8. faults' = faults + 1 /\ faults' \in 0..MaxFaults /\ faults \in Nat /\ faults' # 0
  BY GatewayAssumption DEF Dies, Fault, GInv, TypeOK
<1> QED
  BY <1>1, <1>4, <1>5, <1>6, <1>7, <1>8, QuietStep DEF Dies

\* What the clock does concerns no request.
LEMMA OtherStep ==
    ASSUME GInv, UNCHANGED <<marker, http, count, expires, punctual, faults>>,
           window' \in window..MaxWindow
    PROVE  GInv'
<1>1. RedisKeys' = RedisKeys /\ \A r \in Requests : RedisKey(r)' = RedisKey(r)
  BY DEF RedisKeys, RedisKey
<1>2. window \in 1..MaxWindow /\ window' \in 1..MaxWindow /\ window <= window'
  BY GatewayAssumption DEF GInv, TypeOK
<1>3. TypeOK' /\ (\A r \in Requests : RequestOK(r)')
  BY <1>1, <1>2 DEF GInv, TypeOK, RequestOK
<1>4. HoldersOK'
  BY <1>1 DEF GInv, HoldersOK, Holder, Active
<1>5. ResponsesOK'
  BY <1>1 DEF GInv, ResponsesOK, Origin
<1>6. \A m \in 1..MaxWindow : Counted(m)' = Counted(m)
  BY DEF Counted
<1>7. CountersOK'
  BY <1>2, <1>6 DEF GInv, CountersOK
<1> QED
  BY <1>3, <1>4, <1>5, <1>7 DEF GInv

\* Nobody has arrived and Redis is empty.
LEMMA GInvInitially == Init => GInv
<1> SUFFICES ASSUME Init PROVE GInv
  OBVIOUS
<1> DEFINE x == [pc |-> "new", pass |-> 0, minute |-> 0, admitted |-> FALSE, mode |-> "none",
                 effect |-> "none", replayed |-> FALSE, reply |-> "none"]
<1>1. \A r \in Requests : http[r] = x
  BY DEF Init
<1>2. TypeOK
  <2>1. x \in Exchanges
    BY GatewayAssumption DEF Exchanges, Steps, Passes, Modes, Effects
  <2>2. http \in [Requests -> Exchanges]
    BY <2>1 DEF Init
  <2>3. 1 \in 1..MaxWindow /\ 0 \in 0..MaxFaults /\ 0 \in 0..MaxWindow
    BY GatewayAssumption
  <2> QED
    BY <2>2, <2>3 DEF Init, TypeOK
<1>3. \A r \in Requests : RequestOK(r)
  BY <1>1 DEF RequestOK, Init
<1>4. HoldersOK
  <2>1. \A k \in RedisKeys : marker[k] = "none"
    BY DEF Init
  <2> QED
    BY <1>1, <2>1 DEF HoldersOK, Holder, Active
<1>5. ResponsesOK
  BY <1>1 DEF ResponsesOK, Init, Responses
<1>6. CountersOK
  <2>1. \A m \in 1..MaxWindow : Counted(m) = {} /\ count[m] = 0 /\ expires[m] = 0
    BY <1>1 DEF Counted, Init
  <2> QED
    BY <2>1, FS_EmptySet, GatewayAssumption DEF CountersOK
<1> QED
  BY <1>2, <1>3, <1>4, <1>5, <1>6 DEF GInv

\* One lemma above per action.
LEMMA GInvPreserved == GInv /\ [Next]_vars => GInv'
<1> SUFFICES ASSUME GInv, [Next]_vars PROVE GInv'
  OBVIOUS
<1>1. CASE NextWindow
  <2>1. window' \in window..MaxWindow
    BY <1>1, GatewayAssumption DEF NextWindow, GInv, TypeOK
  <2> QED
    BY <1>1, <2>1, OtherStep DEF NextWindow, GInv, TypeOK
<1>2. CASE UNCHANGED vars
  <2>1. window' \in window..MaxWindow
    BY <1>2, GatewayAssumption DEF vars, limiter, GInv, TypeOK
  <2> QED
    BY <1>2, <2>1, OtherStep DEF vars, limiter, GInv, TypeOK
<1>3. ASSUME NEW r \in Requests, Arrive(r) \/ Count(r) \/ Expire(r) \/ LimiterFails(r)
      PROVE  GInv'
  BY <1>3, ArriveStep, CountStep, ExpireStep, LimiterFailsStep
<1>4. ASSUME NEW r \in Requests, Lookup(r) \/ Claim(r) \/ CacheFails(r)
      PROVE  GInv'
  BY <1>4, LookupStep, ClaimStep, CacheFailsStep
<1>5. ASSUME NEW r \in Requests, NEW response \in Responses, Respond(r, response)
      PROVE  GInv'
  BY <1>5, RespondStep
<1>6. ASSUME NEW r \in Requests, NEW effect \in Effects, Raise(r, effect) \/ Dies(r, effect)
      PROVE  GInv'
  BY <1>6, RaiseStep, DiesStep
<1>7. ASSUME NEW r \in Requests, Release(r) \/ ReleaseFails(r) \/ Store(r) \/ StoreFails(r)
      PROVE  GInv'
  BY <1>7, ReleaseStep, ReleaseFailsStep, StoreStep, StoreFailsStep
<1> QED
  BY <1>1, <1>2, <1>3, <1>4, <1>5, <1>6, <1>7 DEF Next

\* In terms of the properties: an active holder is an owner.
LEMMA OwnedMarker == GInv => MarkerMatchesOwner
<1> SUFFICES ASSUME GInv, NEW r \in Requests, Header[r] # None
             PROVE  /\ \A p, q \in Owners(r) : p = q
                    /\ Owners(r) # {} => marker[RedisKey(r)] = "processing"
                    /\ faults = 0 /\ marker[RedisKey(r)] = "processing" => Owners(r) # {}
  BY DEF MarkerMatchesOwner
<1>1. \A q \in Owners(r) :
         q \in Requests /\ Active(q) /\ Holder(q) /\ RedisKey(q) = RedisKey(r)
  BY DEF Owners, Duplicates, Active, Holder, RedisKey
<1>2. RedisKey(r) \in RedisKeys
  BY DEF RedisKeys
<1>3. ASSUME faults = 0, marker[RedisKey(r)] = "processing"
      PROVE  Owners(r) # {}
  <2>1. PICK q \in Requests : Active(q) /\ RedisKey(q) = RedisKey(r)
    BY <1>2, <1>3 DEF GInv, HoldersOK
  <2>2. q \in Owners(r)
    BY <2>1 DEF GInv, RequestOK, Owners, Duplicates, Active, RedisKey
  <2> QED
    BY <2>2
<1> QED
  BY <1>1, <1>3 DEF GInv, HoldersOK

\* All that the other steps do to a request without a fault: it is not let past
\* the cache by them, nor turned away by it.
LEMMA OtherSteps ==
    ASSUME GInv, [Next]_vars, ~Fault, NEW r \in Requests, Header[r] # None,
           ~Lookup(r), ~Claim(r)
    PROVE  /\ ~(http[r].mode # "through" /\ http'[r].mode = "through")
           /\ ~(http[r].reply # "busy" /\ http'[r].reply = "busy")
<1> USE DEF GInv, TypeOK, Exchanges
<1>1. CASE http'[r] = http[r]
  BY <1>1
<1>2. ASSUME NEW q \in Requests, http' = [http EXCEPT ![q] = http'[q]], q # r
      PROVE  http'[r] = http[r]
  BY <1>2
<1>3. ASSUME NEW q \in Requests,
             \/ Arrive(q) \/ Count(q) \/ Expire(q) \/ Lookup(q) \/ Claim(q)
             \/ \E response \in Responses : Respond(q, response)
             \/ \E effect \in Effects : Raise(q, effect)
             \/ Release(q) \/ Store(q)
      PROVE  http' = [http EXCEPT ![q] = http'[q]]
  BY <1>3 DEF Arrive, Count, Expire, Lookup, Claim, Respond, Raise, Release, Store,
              Goto, Answer, Admit, EnterHandler, Rethrow
<1>4. CASE Arrive(r) \/ Count(r) \/ Expire(r)
  BY <1>4 DEF Arrive, Count, Expire, Goto, Answer, Admit
<1>5. ASSUME NEW response \in Responses, Respond(r, response)
      PROVE  http'[r].mode = http[r].mode /\ http'[r].reply # "busy"
  BY <1>5 DEF Respond, Responses
<1>6. ASSUME NEW effect \in Effects, Raise(r, effect)
      PROVE  /\ http'[r].mode \in {http[r].mode, "none"}
             /\ http'[r].reply \in {http[r].reply, "none", "error"}
  BY <1>6 DEF Raise, Rethrow
<1>7. CASE Release(r)
  BY <1>7 DEF Release, Rethrow
<1>8. CASE Store(r)
  BY <1>8 DEF Store, Answer
<1>9. CASE NextWindow
  BY <1>9 DEF NextWindow
<1>10. CASE UNCHANGED vars
  BY <1>10 DEF vars
<1> QED
  BY <1>1, <1>2, <1>3, <1>4, <1>5, <1>6, <1>7, <1>8, <1>9, <1>10
     DEF Next, LimiterFails, CacheFails, ReleaseFails, StoreFails, Dies

-----------------------------------------------------------------------------
(* The theorems *)

\* The invariant of both middlewares holds whatever the requests, the minutes
\* and the faults.
THEOREM GatewayInvariance == Spec => []GInv
  BY GInvInitially, GInvPreserved, PTL DEF Spec

\* Markers, counters and requests are what they are declared to be.
THEOREM GatewayTyped == Spec => []TypeOK
<1>1. GInv => TypeOK
  BY DEF GInv
<1> QED
  BY <1>1, GatewayInvariance, PTL

\* SET NX gives a key one owner at a time, and DELETE and SET are its owner's.
THEOREM MarkersOwned == Spec => []MarkerMatchesOwner
  BY OwnedMarker, GatewayInvariance, PTL

\* The owners of a key answer with one effect between them: the marker and,
\* after it, the response keep the key taken once one of them has committed.
THEOREM OwnedOnce == Spec => []OwnersProcessOnce
<1>1. GInv => OwnersProcessOnce
  BY DEF GInv, HoldersOK, OwnersProcessOnce, Holder, Duplicates, RedisKey
<1> QED
  BY <1>1, GatewayInvariance, PTL

\* Whatever is replayed was a response to a duplicate, under the same key and
\* for the same endpoint.
THEOREM ReplaysHonest == Spec => []ReplaysAreReal
<1>1. GInv => ReplaysAreReal
  <2> SUFFICES ASSUME GInv, NEW r \in Requests, http[r].replayed
               PROVE  \E q \in Requests : /\ Duplicates(q, r)
                                          /\ ~http[q].replayed
                                          /\ http[q].reply = http[r].reply
    BY DEF ReplaysAreReal
  <2>1. PICK q \in Requests : Origin(q, RedisKey(r), http[r].reply)
    BY DEF GInv, ResponsesOK
  <2> QED
    BY <2>1 DEF Origin, Duplicates, RedisKey
<1> QED
  BY <1>1, GatewayInvariance, PTL

\* As long as its minute lasts a counter does not expire, and INCR gives every
\* request a number of its own: however they interleave, no more than Limit of
\* the requests counted in their minute find the counter within the limit.
THEOREM QuotaKept == Spec => []QuotaHeld
<1>1. GInv => QuotaHeld
  <2> SUFFICES ASSUME GInv, NEW m \in 1..MaxWindow
               PROVE  Cardinality({r \in punctual : http[r].minute = m /\ http[r].admitted})
                         <= Limit
    BY DEF QuotaHeld
  <2> DEFINE Passed == {r \in punctual : http[r].minute = m /\ http[r].admitted}
  <2>1. IsFiniteSet(Counted(m)) /\ Passed \subseteq Counted(m)
    BY GatewayAssumption, FS_Subset DEF Counted, GInv, TypeOK
  <2>2. /\ Cardinality(Passed) <= Cardinality(Counted(m))
        /\ Cardinality(Passed) \in Nat /\ Cardinality(Counted(m)) \in Nat
    BY <2>1, FS_Subset, FS_CardinalityType
  <2>3. Cardinality(Counted(m)) <= Limit /\ Limit \in Nat
    BY GatewayAssumption DEF GInv, CountersOK
  <2> QED
    BY <2>2, <2>3
<1> QED
  BY <1>1, GatewayInvariance, PTL

\* Without faults a marker has its owner and a stored response its origin, and
\* only GET and SET NX let a request with a key through or turn it away.
THEOREM BypassExplained == Spec => BypassNeedsDuplicate
<1> DEFINE Bypass(r) == http[r].mode # "through" /\ http'[r].mode = "through"
           TurnedAway(r) == http[r].reply # "busy" /\ http'[r].reply = "busy"
           Given(q, r) == /\ Duplicates(q, r)
                          /\ \/ q \in Owners(r)
                             \/ At(q, "answered") /\ http[q].reply \in Responses
           Explained(r) == /\ Bypass(r) => Owners(r) # {}
                           /\ TurnedAway(r) => \E q \in Requests : Given(q, r)
<1>1. ASSUME GInv, [Next]_vars, NEW r \in Requests, Header[r] # None, faults' = 0
      PROVE  Explained(r)
  <2>1. ASSUME marker[RedisKey(r)] = "processing", faults = 0
        PROVE  Owners(r) # {} /\ \E q \in Requests : Given(q, r)
    <3>1. Owners(r) # {}
      BY <1>1, <2>1, OwnedMarker DEF MarkerMatchesOwner
    <3>2. PICK q \in Owners(r) : TRUE
      BY <3>1
    <3>3. q \in Requests /\ Duplicates(q, r)
      BY <3>2 DEF Owners
    <3> QED
      BY <3>1, <3>2, <3>3
  <2>2. ASSUME marker[RedisKey(r)] \in Responses
        PROVE  \E q \in Requests : Given(q, r)
    <3>1. RedisKey(r) \in RedisKeys
      BY <1>1 DEF RedisKeys
    <3>2. PICK q \in Requests : Origin(q, RedisKey(r), marker[RedisKey(r)])
      BY <1>1, <2>2, <3>1 DEF GInv, ResponsesOK
    <3>3. Given(q, r)
      BY <2>2, <3>2 DEF Origin, Duplicates, RedisKey, At
    <3> QED
      BY <3>3
  <2>3. RedisKey(r) \in RedisKeys /\ TypeOK /\ faults \in Nat
    BY <1>1, GatewayAssumption DEF RedisKeys, GInv, TypeOK
  <2>4. CASE Lookup(r)
    <3>1. /\ Bypass(r) => InProgress(marker[RedisKey(r)])
          /\ ~TurnedAway(r)
      BY <1>1, <2>3, <2>4
         DEF Lookup, Goto, EnterHandler, TypeOK, Exchanges, Replies, Responses, InProgress
    <3>2. faults = 0
      BY <1>1, <2>4 DEF Lookup
    <3> QED
      BY <2>1, <3>1, <3>2 DEF InProgress
  <2>5. CASE Claim(r)
    <3>1. /\ ~Bypass(r)
          /\ TurnedAway(r) => marker[RedisKey(r)] # "none"
      BY <1>1, <2>3, <2>5
         DEF Claim, Acquired, Answer, EnterHandler, TypeOK, Exchanges
    <3>2. faults = 0
      BY <1>1, <2>5 DEF Claim
    <3>3. marker[RedisKey(r)] \in Responses \cup {"none", "processing"}
      BY <2>3 DEF TypeOK
    <3> QED
      BY <2>1, <2>2, <3>1, <3>2, <3>3
  <2>6. ~Fault
    BY <1>1, <2>3 DEF Fault
  <2>7. ASSUME ~Lookup(r), ~Claim(r)
        PROVE  ~Bypass(r) /\ ~TurnedAway(r)
    BY <1>1, <2>3, <2>6, <2>7, OtherSteps
  <2> QED
    BY <2>4, <2>5, <2>7
<1>2. GInv /\ [Next]_vars =>
        [\A r \in Requests : Header[r] # None /\ faults' = 0 => Explained(r)]_vars
  BY <1>1
<1> QED
  BY <1>2, GatewayInvariance, PTL DEF Spec, BypassNeedsDuplicate

=============================================================================
