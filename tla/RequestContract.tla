-------------------------- MODULE RequestContract --------------------------
(***************************************************************************)
(* What a caller may rely on about the handler of its request, without     *)
(* statements, locks or transactions: the tables change at most once per   *)
(* request and all at once, a refused request has changed nothing, one     *)
(* that is answered with success has made its change, and only an error    *)
(* leaves the caller in doubt.                                             *)
(***************************************************************************)

CONSTANTS Callers, Tickets
VARIABLES
    events,     \* what is stored about events
    tickets,    \* what is stored about every ticket, a record with its status
    phase,      \* of each caller's request: "closed", "open" or "written"
    answer      \* what the last request of each caller was answered

Init ==
    /\ phase = [c \in Callers |-> "closed"]
    /\ answer = [c \in Callers |-> "none"]

Becomes(c, p, a) ==
    /\ phase' = [phase EXCEPT ![c] = p]
    /\ answer' = [answer EXCEPT ![c] = a]

Open(c) ==
    /\ phase[c] = "closed"
    /\ Becomes(c, "open", "none")
    /\ UNCHANGED <<events, tickets>>

\* The one change of the request.
Write(c) ==
    /\ phase[c] \in {"closed", "open"}
    /\ Becomes(c, "written", "none")

\* The change and the response in one step.
WriteAndAnswer(c) ==
    /\ phase[c] = "open"
    /\ Becomes(c, "closed", "done")

Answer(c, a) ==
    /\ \/ a = "refused" /\ phase[c] \in {"closed", "open"}
       \/ a = "done" /\ phase[c] = "written"
       \/ a = "error"
    /\ Becomes(c, "closed", a)
    /\ UNCHANGED <<events, tickets>>

\* Reservations age and expire without a request.
Background ==
    /\ \A t \in Tickets : tickets'[t] # tickets[t] =>
          /\ tickets[t].status = "reserved"
          /\ tickets'[t].status \in {"reserved", "available"}
    /\ UNCHANGED <<events, phase, answer>>

Next ==
    \/ \E c \in Callers :
          \/ Open(c) \/ Write(c) \/ WriteAndAnswer(c)
          \/ \E a \in {"done", "refused", "error"} : Answer(c, a)
    \/ Background

Spec == Init /\ [][Next]_<<events, tickets, phase, answer>>

=============================================================================
