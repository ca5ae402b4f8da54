------------------------- MODULE InventoryContract -------------------------
(***************************************************************************)
(* Inventory as an implementation of RequestContract, which is what the    *)
(* layers above the handlers, modelled in Gateway, assume of them.         *)
(***************************************************************************)
EXTENDS Inventory

Phase(s) == CASE s.pc = "idle" -> "closed" [] s.pc = "refresh" -> "written" [] OTHER -> "open"

Meaning(reply) ==
    CASE reply \in {200, 201, 204} -> "done" [] reply \in {404, 409} -> "refused"
      [] reply = 500 -> "error" [] OTHER -> "none"

eventRows == <<eventStatus, eventKpi>>
ticketRows == [t \in Tickets |->
    [status |-> status[t], reservedAt |-> reservedAt[t], kpi |-> ticketKpi[t]]]
phases == [w \in Workers |-> Phase(session[w])]
answers == [w \in Workers |-> Meaning(session[w].reply)]

Contract == INSTANCE RequestContract WITH
    Callers <- Workers, Tickets <- Tickets,
    events <- eventRows, tickets <- ticketRows, phase <- phases, answer <- answers

\* One run of a handler commits at most once, rows and KPI rows together, and its
\* status code says what became of it: 404 and 409 only without a commit, 200,
\* 201 and 204 only after it, whatever was locked, deleted or lost in between.
\* (The client may see the code of a second run, for which see Gateway.)
HonoursContract == Contract!Spec

=============================================================================
