----------------------- MODULE MCFoundationWorkflow -----------------------
(* A small instance of FoundationWorkflow for TLC. *)
EXTENDS FoundationWorkflow

CONSTANTS w, r1, r2, t, go, blank

Text(part) == <<part>>
BlankText == Text(blank)

Req(run, objective) ==
  [workspace_id |-> Text(w), run_id |-> Text(run), task_id |-> Text(t),
   objective |-> objective]

\* A sound request, and one for another run whose objective is empty.
MCRequest == [sound |-> Req(r1, Text(go)), empty |-> Req(r2, Blank)]

MCExecutions == DOMAIN MCRequest
=============================================================================
