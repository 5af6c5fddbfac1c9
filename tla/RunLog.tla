------------------------------- MODULE RunLog -------------------------------
(***************************************************************************)
(* The log of a workflow run and the state it folds to (workflow/event.go, *)
(* workflow/state.go).  A log is represented by its fold: the store hands  *)
(* a log back only to have it folded, and tells a stale writer by the      *)
(* number of the last event, which the fold keeps as seq.                  *)
(*                                                                         *)
(* The workflow of a run, its RunID and the times, prompts, results and    *)
(* error texts of its events are left out.  An exchange ID is a number     *)
(* above zero; zero is the nil UUID.                                       *)
(***************************************************************************)
EXTENDS Naturals

CONSTANTS Steps, Sessions

(* Status.Ended: a status no later event changes. *)
Ended == {"done", "failed", "cancelled"}

StepStatus == {"pending", "running"} \cup Ended
RunStatus == {"none", "running", "paused"} \cup Ended

(* State, without the fields that no step of the runner reads back. *)
State == [seq : Nat,
          status : RunStatus,
          until : Nat,
          opened : SUBSET Sessions,
          steps : [Steps -> [status : StepStatus, ex : Nat]]]

(* The fold of a log that holds no event. *)
Empty == [seq |-> 0, status |-> "none", until |-> 0, opened |-> {},
          steps |-> [s \in Steps |-> [status |-> "pending", ex |-> 0]]]

(***************************************************************************)
(* The events that are logged, one constructor for each Kind.              *)
(***************************************************************************)
RunStarted == [kind |-> "run_started"]
RunResumed == [kind |-> "run_resumed"]
SessionOpened(n) == [kind |-> "session_opened", session |-> n]
StepStarted(s, x) == [kind |-> "step_started", step |-> s, ex |-> x]
StepEnded(s, x, st) ==
    [kind |-> "step_ended", step |-> s, ex |-> x, status |-> st]
RunPaused(t) == [kind |-> "run_paused", until |-> t]
RunEnded(st) == [kind |-> "run_ended", status |-> st]

(* Whether Apply folds e into the state st, or refuses it with ErrLog. *)
Follows(st, e) ==
    IF e.kind = "run_started"
      THEN st.seq = 0
      ELSE /\ st.seq > 0
           /\ st.status \notin Ended
           /\ e.kind \in {"step_ended", "run_ended"} => e.status \in Ended

(* What the event changes, but for its number. *)
Fold(st, e) ==
    CASE e.kind = "run_started"    -> [Empty EXCEPT !.status = "running"]
      [] e.kind = "run_resumed"    -> [st EXCEPT !.status = "running", !.until = 0]
      [] e.kind = "session_opened" -> [st EXCEPT !.opened = @ \cup {e.session}]
      [] e.kind = "step_started"   ->
           [st EXCEPT !.steps[e.step] = [status |-> "running", ex |-> e.ex]]
      [] e.kind = "step_ended"     ->
           [st EXCEPT !.steps[e.step] =
              [status |-> e.status, ex |-> IF e.ex = 0 THEN @.ex ELSE e.ex]]
      [] e.kind = "run_paused"     -> [st EXCEPT !.status = "paused", !.until = e.until]
      [] e.kind = "run_ended"      -> [st EXCEPT !.status = e.status]

(* Apply: the state after e, numbered one above the last event. *)
Apply(st, e) == [Fold(st, e) EXCEPT !.seq = st.seq + 1]

=============================================================================
