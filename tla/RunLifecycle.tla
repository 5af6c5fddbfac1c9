---------------------------- MODULE RunLifecycle ----------------------------
(***************************************************************************)
(* What a run's log promises whoever reads it, event by event, whatever    *)
(* Runner, process or caller wrote the event: the statuses of the run and  *)
(* of its steps (workflow/state.go) and the moves a log may show           *)
(* (workflow/event.go, Runner.Resume).                                     *)
(***************************************************************************)
CONSTANTS Runs, Steps, RunOf, After

VARIABLES status,   \* [Runs -> the run's status]
          step      \* [Steps -> the step's status]

lifecycle == <<status, step>>

Decided == {"done", "failed", "cancelled"}
Live(r) == status[r] \in {"running", "paused"}
Its(r) == {s \in Steps : RunOf[s] = r}

Init ==
    /\ status = [r \in Runs |-> "none"]
    /\ step = [s \in Steps |-> "pending"]

Begin(r) ==
    /\ status[r] = "none"
    /\ status' = [status EXCEPT ![r] = "running"]
    /\ UNCHANGED step

(* A usage limit; the pause's end or a resume. *)
PauseOrResume(r) ==
    /\ Live(r)
    /\ \E to \in {"running", "paused"} : status' = [status EXCEPT ![r] = to]
    /\ UNCHANGED step

(* A step that began may begin again, but not before the steps it comes    *)
(* after are done, nor once it has ended.                                  *)
StepBegins(s) ==
    /\ Live(RunOf[s])
    /\ step[s] \in {"pending", "running"}
    /\ \A t \in After[s] : step[t] = "done"
    /\ step' = [step EXCEPT ![s] = "running"]
    /\ UNCHANGED status

(* Only a step that began is ever done. *)
StepEnds(s) ==
    /\ Live(RunOf[s])
    /\ \/ step[s] \in {"pending", "running"} /\ step' = [step EXCEPT ![s] = "failed"]
       \/ step[s] \in {"pending", "running"} /\ step' = [step EXCEPT ![s] = "cancelled"]
       \/ step[s] = "running" /\ step' = [step EXCEPT ![s] = "done"]
    /\ UNCHANGED status

(* The run ends as its steps did, or cancelled. *)
End(r) ==
    /\ Live(r)
    /\ \/ /\ \A s \in Its(r) : step[s] = "done"
          /\ status' = [status EXCEPT ![r] = "done"]
       \/ /\ \E s \in Its(r) : step[s] = "failed"
          /\ status' = [status EXCEPT ![r] = "failed"]
       \/ status' = [status EXCEPT ![r] = "cancelled"]
    /\ UNCHANGED step

Next ==
    \/ \E r \in Runs : Begin(r) \/ PauseOrResume(r) \/ End(r)
    \/ \E s \in Steps : StepBegins(s) \/ StepEnds(s)

Spec == Init /\ [][Next]_lifecycle

=============================================================================
