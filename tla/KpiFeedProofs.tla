--------------------------- MODULE KpiFeedProofs ---------------------------
(***************************************************************************)
(* Theorems about KpiFeed, for any number of rows, transactions, consumers *)
(* and losses, any limit and any skew of the clocks.  HasLast and          *)
(* PageIsPrefix say what ORDER BY and LIMIT return; below there is a lemma *)
(* for each action that can disturb the invariant.                         *)
(***************************************************************************)
EXTENDS KpiFeedInvariant, FiniteSetTheorems, WellFoundedInduction, TLAPS

-----------------------------------------------------------------------------
(* ORDER BY and LIMIT *)

\* The order of the feed is total, because the id decides between equal times.
LEMMA BeforeIsTotal ==
    ASSUME TypeOK
    PROVE  /\ \A q, r \in Rows : q = r \/ Before(q, r) \/ Before(r, q)
           /\ \A q, r \in Rows : ~(Before(q, r) /\ Before(r, q))
           /\ \A p, q, r \in Rows : Before(p, q) /\ Before(q, r) => Before(p, r)
<1>1. \A r \in Rows : r \in Nat /\ occurredAt[r] \in Nat
  BY FeedAssumption DEF TypeOK
<1> QED
  BY <1>1 DEF Before

\* A page that is not empty has a last item.
LEMMA HasLast ==
    ASSUME TypeOK, NEW S \in SUBSET Rows, S # {}
    PROVE  \E r \in S : \A q \in S \ {r} : Before(q, r)
<1> DEFINE Last(T) == \E r \in T : \A q \in T \ {r} : Before(q, r)
           Bad == {T \in SUBSET Rows : T # {} /\ ~Last(T)}
<1>1. SUFFICES ASSUME Bad # {} PROVE FALSE
  BY <1>1
<1>2. Bad \subseteq FiniteSubsetsOf(Rows)
  BY FeedAssumption, FS_Subset DEF FiniteSubsetsOf
<1>3. PICK T \in Bad : \A U \in Bad : ~(<<U, T>> \in StrictSubsetOrdering(Rows))
  <2> HIDE DEF Bad
  <2> QED
    BY <1>1, <1>2, WFMin, FS_StrictSubsetOrderingWellFounded
<1>4. PICK x \in T : TRUE
  OBVIOUS
<1>5. T \ {x} \notin Bad
  BY <1>3, <1>4 DEF StrictSubsetOrdering
<1>6. CASE T \ {x} = {}
  BY <1>4, <1>6
<1>7. CASE T \ {x} # {}
  <2>1. PICK y \in T \ {x} : \A q \in (T \ {x}) \ {y} : Before(q, y)
    BY <1>5, <1>7
  <2>2. x \in Rows /\ y \in Rows /\ \A q \in T : q \in Rows
    BY <1>4, <2>1
  <2>3. CASE Before(x, y)
    BY <2>1, <2>3
  <2>4. CASE Before(y, x)
    <3>1. \A q \in T \ {x} : Before(q, x)
      BY <2>1, <2>2, <2>4, BeforeIsTotal
    <3> QED
      BY <1>4, <3>1
  <2> QED
    BY <2>1, <2>2, <2>3, <2>4, BeforeIsTotal
<1> QED
  BY <1>6, <1>7

\* next_cursor is the time of the last item of the page, or else the cursor.
LEMMA NextCursorIs ==
    ASSUME TypeOK, NEW c \in Consumers, NEW items \in SUBSET Rows
    PROVE  /\ items = {} => NextCursor(c, items) = cursor[c]
           /\ items # {} => \E last \in items :
                 /\ NextCursor(c, items) = occurredAt[last]
                 /\ \A q \in items \ {last} : Before(q, last)
<1>1. CASE items = {}
  BY <1>1 DEF NextCursor
<1>2. CASE items # {}
  <2> DEFINE last == CHOOSE r \in items : \A q \in items \ {r} : Before(q, r)
  <2>1. last \in items /\ \A q \in items \ {last} : Before(q, last)
    <3>1. \E r \in items : \A q \in items \ {r} : Before(q, r)
      BY <1>2, HasLast
    <3> QED
      BY <3>1
  <2>2. NextCursor(c, items) = occurredAt[last]
    BY <1>2 DEF NextCursor
  <2> HIDE DEF last
  <2> QED
    BY <1>2, <2>1, <2>2
<1> QED
  BY <1>1, <1>2

\* What LIMIT cuts off comes after everything on the page.
LEMMA PageIsPrefix ==
    ASSUME TypeOK, NEW S \in SUBSET Rows, NEW r \in S, r \notin FirstOf(S),
           NEW p \in FirstOf(S)
    PROVE  Before(p, r)
<1> SUFFICES ASSUME ~Before(p, r) PROVE FALSE
  OBVIOUS
<1> DEFINE Earlier(q) == {s \in S : Before(s, q)}
<1>1. p \in S /\ Cardinality(Earlier(p)) < Limit /\ ~(Cardinality(Earlier(r)) < Limit)
  BY DEF FirstOf
<1>2. p # r
  BY DEF FirstOf
<1>3. Earlier(r) \subseteq Earlier(p)
  BY <1>1, <1>2, BeforeIsTotal
<1>4. IsFiniteSet(Earlier(p))
  <2>1. IsFiniteSet(S)
    BY FeedAssumption, FS_Subset
  <2> QED
    BY <2>1, FS_Subset
<1>5. /\ Cardinality(Earlier(r)) <= Cardinality(Earlier(p))
      /\ Cardinality(Earlier(r)) \in Nat /\ Cardinality(Earlier(p)) \in Nat
  <2> HIDE DEF Earlier
  <2> QED
    BY <1>3, <1>4, FS_Subset, FS_CardinalityType
<1> QED
  BY <1>1, <1>5, FeedAssumption

-----------------------------------------------------------------------------
(* The transactions that record KPI rows *)

\* An INSERT stamps a row that nobody can see.
LEMMA FlushStep ==
    ASSUME FInv, NEW x \in Transactions, NEW r \in Rows, NEW at, Flush(x, r, at)
    PROVE  FInv'
<1>1. /\ at \in 1..MaxClock /\ at # 0 /\ at \in 0..MaxClock
      /\ r \notin visible
      /\ \A q \in visible : q \in Rows /\ occurredAt'[q] = occurredAt[q]
  BY FeedAssumption DEF FInv, TypeOK, RowsStamped, Flush
<1>2. TypeOK'
  BY <1>1 DEF FInv, TypeOK, Flush, feeds
<1>3. RowsStamped'
  BY <1>1 DEF FInv, TypeOK, RowsStamped, Flush, feeds
<1>4. \A c \in Consumers : delivered[c] \subseteq visible /\ response[c].items \subseteq visible
  BY DEF FInv, RowsStamped
<1>5. PagesOrdered'
  BY <1>1, <1>4 DEF FInv, PagesOrdered, Flush, feeds
<1>6. GapsExcused'
  <2>1. \A c \in Consumers :
           /\ delivered[c] \in SUBSET visible
           /\ delivered[c] \cup response[c].items \in SUBSET visible
    BY <1>4
  <2>2. cursor' = cursor /\ delivered' = delivered /\ response' = response
    BY DEF Flush, feeds
  <2>3. ASSUME NEW c \in Consumers
        PROVE  /\ Excused(c, cursor[c], delivered[c])'
               /\ (~response[c].waiting =>
                     Excused(c, response[c].next_cursor, delivered[c] \cup response[c].items))'
    <3>1. Excused(c, cursor[c], delivered[c])'
      BY <1>1, <2>1, <2>2 DEF FInv, GapsExcused, Excused, Matches, Flush, feeds
    <3>2. (~response[c].waiting =>
              Excused(c, response[c].next_cursor, delivered[c] \cup response[c].items))'
      BY <1>1, <2>1, <2>2 DEF FInv, GapsExcused, Excused, Matches, Flush, feeds
    <3> QED
      BY <3>1, <3>2
  <2> QED
    BY <2>3 DEF GapsExcused
<1> QED
  BY <1>2, <1>3, <1>5, <1>6 DEF FInv

\* What becomes visible behind a consumer's position is overtaken.
LEMMA CommitStep ==
    ASSUME FInv, NEW x \in Transactions, Commit(x)
    PROVE  FInv'
<1>1. /\ pending[x] \subseteq Rows
      /\ visible' = visible \cup pending[x]
      /\ occurredAt' = occurredAt /\ UNCHANGED feeds
      /\ \A c \in Consumers : overtaken'[c] =
            overtaken[c] \cup {r \in pending[x] : occurredAt[r] <= Position(c)}
  BY DEF FInv, TypeOK, Commit
<1>2. cursor' = cursor /\ delivered' = delivered /\ response' = response
  BY <1>1 DEF feeds
<1>3. TypeOK'
  <2>1. \A c \in Consumers : overtaken'[c] \in SUBSET Rows
    BY <1>1 DEF FInv, TypeOK
  <2>2. overtaken' \in [Consumers -> SUBSET Rows]
    BY <2>1 DEF Commit
  <2> QED
    BY <1>1, <1>2, <2>2 DEF FInv, TypeOK, Commit
<1>4. RowsStamped'
  BY <1>1, <1>2 DEF FInv, TypeOK, RowsStamped, Commit
<1>5. PagesOrdered'
  BY <1>1, <1>2 DEF FInv, PagesOrdered
<1>6. ASSUME NEW c \in Consumers
      PROVE  /\ Excused(c, cursor[c], delivered[c])'
             /\ (~response[c].waiting =>
                   Excused(c, response[c].next_cursor, delivered[c] \cup response[c].items))'
  <2>1. cursor[c] <= Position(c) /\ cursor[c] \in Nat /\ Position(c) \in Nat
    BY DEF FInv, TypeOK, PagesOrdered, Position
  <2>2. \A r \in Rows : occurredAt[r] \in Nat
    BY DEF FInv, TypeOK
  <2>3. Excused(c, cursor[c], delivered[c])'
    <3> SUFFICES ASSUME NEW r \in visible \cup pending[x], r \notin delivered[c],
                        Matches(c, r), occurredAt[r] <= cursor[c]
                 PROVE  \/ r \in overtaken'[c]
                        \/ \E d \in delivered[c] : occurredAt[d] = occurredAt[r] /\ d < r
      BY <1>1, <1>2 DEF Excused, Matches
    <3>1. CASE r \in visible
      BY <1>1, <3>1 DEF FInv, GapsExcused, Excused
    <3>2. CASE r \in pending[x]
      <4>1. occurredAt[r] <= Position(c)
        BY <1>1, <2>1, <2>2, <3>2
      <4> QED
        BY <1>1, <3>2, <4>1
    <3> QED
      BY <3>1, <3>2
  <2>4. ASSUME ~response[c].waiting
        PROVE  Excused(c, response[c].next_cursor, delivered[c] \cup response[c].items)'
    <3> SUFFICES ASSUME NEW r \in visible \cup pending[x],
                        r \notin delivered[c] \cup response[c].items,
                        Matches(c, r), occurredAt[r] <= response[c].next_cursor
                 PROVE  \/ r \in overtaken'[c]
                        \/ \E d \in delivered[c] \cup response[c].items :
                              occurredAt[d] = occurredAt[r] /\ d < r
      BY <1>1, <1>2 DEF Excused, Matches
    <3>1. CASE r \in visible
      BY <1>1, <2>4, <3>1 DEF FInv, GapsExcused, Excused
    <3>2. CASE r \in pending[x]
      BY <1>1, <2>4, <3>2 DEF Position
    <3> QED
      BY <3>1, <3>2
  <2> QED
    BY <1>2, <2>3, <2>4
<1> QED
  BY <1>3, <1>4, <1>5, <1>6 DEF FInv, GapsExcused

-----------------------------------------------------------------------------
(* The feed and its consumers *)

\* A page holds matching rows past the cursor, in order, up to the next cursor;
\* a row it leaves out has the time of its last item, or is still to come.
LEMMA RespondStep ==
    ASSUME FInv, NEW c \in Consumers, NEW items, Respond(c, items),
           items = {} \/ items = FirstOf(Newer(c))
    PROVE  FInv'
<1> DEFINE next == NextCursor(c, items)
<1>1. /\ items \subseteq Newer(c) /\ Newer(c) \in SUBSET Rows
      /\ Newer(c) \subseteq visible /\ items \in SUBSET Rows
  BY DEF FirstOf, Newer, FInv, TypeOK
<1>2. /\ items = {} => next = cursor[c]
      /\ items # {} => \E last \in items :
            next = occurredAt[last] /\ \A q \in items \ {last} : Before(q, last)
  BY <1>1, NextCursorIs DEF FInv
<1>3. /\ \A r \in Rows : r \in Nat /\ occurredAt[r] \in Nat
      /\ cursor[c] \in Nat
  BY FeedAssumption DEF FInv, TypeOK
<1>4. \A r \in items : cursor[c] < occurredAt[r]
  BY <1>1, <1>3 DEF Newer
<1>5. /\ next \in 0..MaxClock /\ cursor[c] <= next
      /\ \A r \in items : occurredAt[r] <= next
  <2>1. CASE items = {}
    BY <1>2, <1>3, <2>1 DEF FInv, TypeOK
  <2>2. CASE items # {}
    <3>1. PICK last \in items :
             next = occurredAt[last] /\ \A q \in items \ {last} : Before(q, last)
      BY <1>2, <2>2
    <3>2. \A r \in items : occurredAt[r] <= occurredAt[last]
      BY <1>1, <1>3, <3>1 DEF Before
    <3>3. occurredAt[last] \in 0..MaxClock
      BY <1>1, <3>1 DEF FInv, TypeOK
    <3> QED
      BY <1>1, <1>3, <1>4, <3>1, <3>2, <3>3
  <2> QED
    BY <2>1, <2>2
<1>6. response' = [response EXCEPT ![c] =
                      [items |-> items, next_cursor |-> next, waiting |-> FALSE]]
  BY DEF Respond
<1>7. /\ response'[c].items = items /\ response'[c].next_cursor = next
      /\ ~response'[c].waiting
      /\ \A k \in Consumers \ {c} : response'[k] = response[k]
  BY <1>6 DEF FInv, TypeOK
<1>8. UNCHANGED <<clock, table, cursor, delivered, overtaken, losses>>
  BY DEF Respond
<1> HIDE DEF next
<1>9. TypeOK'
  <2>1. response' \in [Consumers -> [items : SUBSET Rows, next_cursor : 0..MaxClock,
                                     waiting : BOOLEAN]]
    BY <1>1, <1>5, <1>6 DEF FInv, TypeOK
  <2> QED
    BY <1>8, <2>1 DEF FInv, TypeOK, table
<1>10. RowsStamped'
  BY <1>1, <1>7, <1>8 DEF FInv, RowsStamped, table
<1>11. PagesOrdered'
  BY <1>4, <1>5, <1>7, <1>8 DEF FInv, PagesOrdered, table
<1>12. ASSUME NEW r \in visible, r \notin delivered[c] \cup items,
              Matches(c, r), occurredAt[r] <= next
       PROVE  \/ r \in overtaken[c]
              \/ \E d \in delivered[c] \cup items : occurredAt[d] = occurredAt[r] /\ d < r
  <2>1. r \in Rows
    BY DEF FInv, TypeOK
  <2>2. CASE occurredAt[r] <= cursor[c]
    BY <1>12, <2>2 DEF FInv, GapsExcused, Excused
  <2>3. CASE ~(occurredAt[r] <= cursor[c])
    <3>1. r \in Newer(c)
      BY <1>3, <1>12, <2>1, <2>3 DEF Newer
    <3>2. items # {}
      BY <1>2, <1>12, <2>3
    <3>3. PICK last \in items : next = occurredAt[last]
      BY <1>2, <3>2
    <3>4. Before(last, r)
      BY <1>1, <1>12, <3>1, <3>2, <3>3, PageIsPrefix DEF FInv
    <3>5. last \in Rows
      BY <1>1, <3>3
    <3>6. occurredAt[last] = occurredAt[r] /\ last < r
      BY <1>3, <1>12, <2>1, <3>3, <3>4, <3>5 DEF Before
    <3> QED
      BY <3>3, <3>6
  <2> QED
    BY <2>2, <2>3
<1>13. GapsExcused'
  <2>1. ASSUME NEW k \in Consumers
        PROVE  Excused(k, cursor[k], delivered[k])'
    BY <1>8 DEF FInv, GapsExcused, Excused, Matches, table
  <2>2. ASSUME NEW k \in Consumers \ {c}
        PROVE  (~response[k].waiting =>
                   Excused(k, response[k].next_cursor, delivered[k] \cup response[k].items))'
    BY <1>7, <1>8 DEF FInv, GapsExcused, Excused, Matches, table
  <2>3. Excused(c, response[c].next_cursor, delivered[c] \cup response[c].items)'
    BY <1>7, <1>8, <1>12 DEF Excused, Matches, table
  <2> QED
    BY <2>1, <2>2, <2>3 DEF GapsExcused
<1> QED
  BY <1>9, <1>10, <1>11, <1>13 DEF FInv

\* The consumer takes over what the page has promised.
LEMMA ReceiveStep ==
    ASSUME FInv, NEW c \in Consumers, Receive(c)
    PROVE  FInv'
<1>1. /\ ~response[c].waiting
      /\ delivered'[c] = delivered[c] \cup response[c].items
      /\ cursor'[c] = response[c].next_cursor
      /\ response'[c] = NoResponse
      /\ \A k \in Consumers \ {c} :
            delivered'[k] = delivered[k] /\ cursor'[k] = cursor[k] /\ response'[k] = response[k]
  BY DEF Receive, FInv, TypeOK
<1>2. UNCHANGED <<clock, table, overtaken, losses>>
  BY DEF Receive
<1>3. NoResponse.items = {} /\ NoResponse.waiting /\ NoResponse.waiting = TRUE
  BY DEF NoResponse
<1>4. NoResponse \in [items : SUBSET Rows, next_cursor : 0..MaxClock, waiting : BOOLEAN]
  BY FeedAssumption DEF NoResponse
<1>5. TypeOK'
  <2>1. response[c].items \in SUBSET Rows /\ response[c].next_cursor \in 0..MaxClock
    BY DEF FInv, TypeOK
  <2>2. /\ delivered' \in [Consumers -> SUBSET Rows]
        /\ cursor' \in [Consumers -> 0..MaxClock]
    BY <2>1 DEF Receive, FInv, TypeOK
  <2>3. response' \in [Consumers -> [items : SUBSET Rows, next_cursor : 0..MaxClock,
                                     waiting : BOOLEAN]]
    BY <1>4 DEF Receive, FInv, TypeOK
  <2> QED
    BY <1>2, <2>2, <2>3 DEF FInv, TypeOK, table
<1>6. RowsStamped'
  BY <1>1, <1>2, <1>3 DEF FInv, RowsStamped, table
<1>7. PagesOrdered'
  <2>1. \A d \in delivered'[c] : occurredAt[d] <= cursor'[c]
    <3>1. \A d \in delivered[c] : d \in Rows /\ occurredAt[d] \in Nat
      BY DEF FInv, TypeOK
    <3>2. cursor[c] \in Nat /\ response[c].next_cursor \in Nat
      BY DEF FInv, TypeOK
    <3> QED
      BY <1>1, <3>1, <3>2 DEF FInv, PagesOrdered
  <2> QED
    BY <1>1, <1>2, <1>3, <2>1 DEF FInv, PagesOrdered, table
<1>8. GapsExcused'
  <2>1. ASSUME NEW k \in Consumers \ {c}
        PROVE  /\ Excused(k, cursor[k], delivered[k])'
               /\ (~response[k].waiting =>
                     Excused(k, response[k].next_cursor, delivered[k] \cup response[k].items))'
    BY <1>1, <1>2 DEF FInv, GapsExcused, Excused, Matches, table
  <2>2. Excused(c, cursor[c], delivered[c])'
    BY <1>1, <1>2 DEF FInv, GapsExcused, Excused, Matches, table
  <2> QED
    BY <1>1, <1>3, <2>1, <2>2 DEF GapsExcused
<1> QED
  BY <1>5, <1>6, <1>7, <1>8 DEF FInv

\* The consumer has what it had.
LEMMA LoseStep ==
    ASSUME FInv, NEW c \in Consumers, Lose(c)
    PROVE  FInv'
<1>1. /\ response'[c] = NoResponse
      /\ \A k \in Consumers \ {c} : response'[k] = response[k]
  BY DEF Lose, FInv, TypeOK
<1>2. UNCHANGED <<clock, table, cursor, delivered, overtaken>>
  BY DEF Lose
<1>3. NoResponse.items = {} /\ NoResponse.waiting = TRUE
  BY DEF NoResponse
<1>4. TypeOK'
  <2>1. NoResponse \in [items : SUBSET Rows, next_cursor : 0..MaxClock, waiting : BOOLEAN]
    BY FeedAssumption DEF NoResponse
  <2>2. losses' \in 0..MaxLosses
    BY FeedAssumption DEF Lose, FInv, TypeOK
  <2>3. response' \in [Consumers -> [items : SUBSET Rows, next_cursor : 0..MaxClock,
                                     waiting : BOOLEAN]]
    BY <2>1 DEF Lose, FInv, TypeOK
  <2> QED
    BY <1>2, <2>2, <2>3 DEF FInv, TypeOK, table
<1>5. RowsStamped'
  BY <1>1, <1>2, <1>3 DEF FInv, RowsStamped, table
<1>6. PagesOrdered'
  BY <1>1, <1>2, <1>3 DEF FInv, PagesOrdered, table
<1>7. GapsExcused'
  BY <1>1, <1>2, <1>3 DEF FInv, GapsExcused, Excused, Matches, table
<1> QED
  BY <1>4, <1>5, <1>6, <1>7 DEF FInv

-----------------------------------------------------------------------------
(* The system *)

\* Nothing is stamped, visible or delivered.
LEMMA FInvInitially == Init => FInv
<1> SUFFICES ASSUME Init PROVE FInv
  OBVIOUS
<1>1. NoResponse \in [items : SUBSET Rows, next_cursor : 0..MaxClock, waiting : BOOLEAN]
  BY FeedAssumption DEF NoResponse
<1>2. NoResponse.items = {} /\ NoResponse.waiting = TRUE
  BY DEF NoResponse
<1>3. TypeOK
  BY <1>1, FeedAssumption DEF Init, TypeOK
<1>4. RowsStamped
  BY <1>2 DEF Init, RowsStamped
<1>5. PagesOrdered
  BY <1>2 DEF Init, PagesOrdered
<1>6. GapsExcused
  BY <1>2 DEF Init, GapsExcused, Excused
<1> QED
  BY <1>3, <1>4, <1>5, <1>6 DEF FInv

\* Time, a rollback and a stutter concern no row that is visible.
LEMMA OtherStep ==
    ASSUME FInv, UNCHANGED <<occurredAt, visible, feeds, overtaken, losses>>,
           clock' \in 1..MaxClock,
           pending' \in [Transactions -> SUBSET Rows],
           \A x \in Transactions : pending'[x] \subseteq pending[x]
    PROVE  FInv'
<1>1. TypeOK'
  BY DEF FInv, TypeOK, feeds
<1>2. RowsStamped'
  BY DEF FInv, RowsStamped, feeds
<1>3. PagesOrdered'
  BY DEF FInv, PagesOrdered, feeds
<1>4. GapsExcused'
  BY DEF FInv, GapsExcused, Excused, Matches, feeds
<1> QED
  BY <1>1, <1>2, <1>3, <1>4 DEF FInv

\* One lemma above per action.
LEMMA FInvPreserved == FInv /\ [Next]_vars => FInv'
<1> SUFFICES ASSUME FInv, [Next]_vars PROVE FInv'
  OBVIOUS
<1>1. CASE Tick
  <2>1. clock' \in 1..MaxClock
    BY <1>1, FeedAssumption DEF Tick, FInv, TypeOK
  <2>2. pending' \in [Transactions -> SUBSET Rows] /\ pending' = pending
    BY <1>1 DEF Tick, table, FInv, TypeOK
  <2> QED
    BY <1>1, <2>1, <2>2, OtherStep DEF Tick, table
<1>2. ASSUME NEW x \in Transactions, NEW r \in Rows, NEW at \in 1..MaxClock, Flush(x, r, at)
      PROVE  FInv'
  BY <1>2, FlushStep
<1>3. ASSUME NEW x \in Transactions, Commit(x)
      PROVE  FInv'
  BY <1>3, CommitStep
<1>4. ASSUME NEW x \in Transactions, Rollback(x)
      PROVE  FInv'
  <2>1. clock' \in 1..MaxClock
    BY <1>4 DEF Rollback, FInv, TypeOK
  <2>2. /\ pending' \in [Transactions -> SUBSET Rows]
        /\ \A y \in Transactions : pending'[y] \subseteq pending[y]
    BY <1>4 DEF Rollback, FInv, TypeOK
  <2> QED
    BY <1>4, <2>1, <2>2, OtherStep DEF Rollback
<1>5. ASSUME NEW c \in Consumers, RespondEnabled(c) \/ RespondDisabled(c)
      PROVE  FInv'
  BY <1>5, RespondStep DEF RespondEnabled, RespondDisabled
<1>6. ASSUME NEW c \in Consumers, Receive(c) \/ Lose(c)
      PROVE  FInv'
  BY <1>6, ReceiveStep, LoseStep
<1>7. CASE UNCHANGED vars
  <2>1. /\ clock' \in 1..MaxClock /\ pending' = pending
        /\ pending' \in [Transactions -> SUBSET Rows]
    BY <1>7 DEF vars, FInv, TypeOK
  <2> QED
    BY <1>7, <2>1, OtherStep DEF vars, feeds
<1> QED
  BY <1>1, <1>2, <1>3, <1>4, <1>5, <1>6, <1>7 DEF Next

-----------------------------------------------------------------------------
(* The theorems *)

\* The invariant of the feed holds for all rows, transactions and consumers.
THEOREM FeedInvariance == Spec => []FInv
  BY FInvInitially, FInvPreserved, PTL DEF Spec

\* Rows, cursors and pages are what they are declared to be; in particular
\* next_cursor is always a time.
THEOREM FeedTyped == Spec => []TypeOK
<1>1. FInv => TypeOK
  BY DEF FInv
<1> QED
  BY <1>1, FeedInvariance, PTL

\* A strict filter and a cursor taken from the last item never repeat a row,
\* whatever is lost on the way and however the clocks differ.
THEOREM PagesInOrder == Spec => []PagesAdvance
<1>1. FInv => PagesAdvance
  <2> SUFFICES ASSUME FInv, NEW c \in Consumers, NEW r \in response[c].items,
                      NEW d \in delivered[c]
               PROVE  occurredAt[d] < occurredAt[r]
    BY DEF PagesAdvance
  <2>1. occurredAt[d] <= cursor[c] /\ cursor[c] < occurredAt[r]
    BY DEF FInv, PagesOrdered
  <2>2. d \in Rows /\ r \in Rows /\ cursor[c] \in Nat
    BY DEF FInv, TypeOK
  <2>3. occurredAt[d] \in Nat /\ occurredAt[r] \in Nat
    BY <2>2 DEF FInv, TypeOK
  <2> QED
    BY <2>1, <2>2, <2>3
<1> QED
  BY <1>1, FeedInvariance, PTL

\* A consumer misses a row for one of two reasons and for no other: the row was
\* committed behind its position, or the page ended inside a group of equal times.
THEOREM GapsAccounted == Spec => []GapsExplained
<1>1. FInv => GapsExplained
  BY DEF FInv, GapsExcused, Excused, GapsExplained, Passed
<1> QED
  BY <1>1, FeedInvariance, PTL

=============================================================================
