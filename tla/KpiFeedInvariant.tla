-------------------------- MODULE KpiFeedInvariant --------------------------
(***************************************************************************)
(* The inductive invariant behind the safety properties of KpiFeed.        *)
(***************************************************************************)
EXTENDS KpiFeed

\* A row is stamped before it can be seen, and only visible rows are sent.
RowsStamped ==
    /\ \A r \in visible : occurredAt[r] # 0
    /\ \A x \in Transactions : \A r \in pending[x] : occurredAt[r] # 0
    /\ \A c \in Consumers : delivered[c] \subseteq visible /\ response[c].items \subseteq visible

\* The cursor is at or past everything delivered; a page on its way lies
\* between the cursor and the next one.
PagesOrdered ==
    \A c \in Consumers :
        /\ \A d \in delivered[c] : occurredAt[d] <= cursor[c]
        /\ \A r \in response[c].items :
              cursor[c] < occurredAt[r] /\ occurredAt[r] <= response[c].next_cursor
        /\ ~response[c].waiting => cursor[c] <= response[c].next_cursor

\* Were the consumer at this position with these rows, every row it lacks
\* would have one of the two excuses.
Excused(c, position, rows) ==
    \A r \in visible \ rows : Matches(c, r) /\ occurredAt[r] <= position =>
        \/ r \in overtaken[c]
        \/ \E d \in rows : occurredAt[d] = occurredAt[r] /\ d < r

\* Before and after the answer on its way arrives: it may also be lost.
GapsExcused ==
    \A c \in Consumers :
        /\ Excused(c, cursor[c], delivered[c])
        /\ ~response[c].waiting =>
              Excused(c, response[c].next_cursor, delivered[c] \cup response[c].items)

FInv == TypeOK /\ RowsStamped /\ PagesOrdered /\ GapsExcused

=============================================================================
