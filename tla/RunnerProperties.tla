-------------------------- MODULE RunnerProperties --------------------------
(***************************************************************************)
(* What makes the Runner correct, and what comments of its code say of it  *)
(* that it does not keep.                                                  *)
(***************************************************************************)
EXTENDS Runner

(* Every variable has its type, and the counters keep their bounds. *)
TypeOK ==
    /\ disk \in [Runs -> State] /\ mem \in [Runs -> State]
    /\ recs \subseteq Steps \X Nat /\ sends \in [Steps -> Nat]
    /\ now \in 0 .. MaxNow /\ limits \in 0 .. MaxLimits /\ faults \in 0 .. MaxFaults
    /\ shutdowns \in 0 .. MaxShutdowns /\ crashes \in 0 .. MaxCrashes
    /\ closed \in BOOLEAN /\ slots \in 0 .. Limit
    /\ loop \in [Runs -> LoopPC]
    /\ cause \in [Runs -> Cause] /\ err \in [Runs -> Cause]
    /\ stopped \in [Runs -> BOOLEAN] /\ failure \in [Runs -> BOOLEAN]
    /\ wake \in [Runs -> BOOLEAN] /\ timer \in [Runs -> Nat]
    /\ open \in [Runs -> SUBSET Sessions]
    /\ pc \in [Steps -> StepPC] /\ x \in [Steps -> Outcome]
    /\ id \in [Steps -> Nat] /\ till \in [Steps -> Nat]
    /\ call \in [Callers -> Call]

(* A run's state in memory, and a state a caller read and still holds, is  *)
(* a state its log had: never ahead of the log, and the log's own state    *)
(* when they have the same number of events.  That number is all the store *)
(* checks of an append, so this is what makes the check enough.            *)
Behind(st, log) == st.seq <= log.seq /\ (st.seq = log.seq => st = log)

MemoryIsALog ==
    /\ \A r \in Runs : Registered(r) => Behind(mem[r], disk[r])
    /\ \A c \in Callers :
         call[c].pc \in {"newRun", "cappend"} => Behind(call[c].seen, disk[call[c].run])

(* A session carries one exchange at a time, across the end of one step    *)
(* and the start of the next.                                              *)
Exchanging == {s \in Steps : x[s] \in {"running", "cancelling"}}
OneExchangeEach == \A s, t \in Exchanging : Sess[s] = Sess[t] => s = t

(* The exchanges in flight stay within the limit all runs share, and every *)
(* token in slots is a step's that has yet to free it.                     *)
Holding == {s \in Steps : pc[s] \notin {"none", "idle", "closing", "leave"}}
WithinLimit ==
    Limit # 0 => Cardinality(Exchanging) <= Limit /\ slots = Cardinality(Holding)

(* When a run's loop is over, no goroutine of the run has an exchange or   *)
(* an event to log any more; all that may be left is the release of a      *)
(* step that is done.                                                      *)
Releasing == {"none", "free", "idle", "closing", "leave"}
NoWorkOutlives ==
    \A r \in Runs :
      loop[r] \in {"off", "logEnd", "finish", "closing", "forget"} =>
        \A s \in StepsOf(r) : pc[s] \in Releasing

(* Work is done once: without a crash or a failed append, a step has at    *)
(* most one exchange that ended well, across pauses, Shutdowns, resumes    *)
(* and adoptions.  Each crash or fault may cost one.                       *)
WorkDoneOnce ==
    \A s \in Steps : Cardinality({p \in recs : p[1] = s}) <= 1 + crashes + faults

(* The promise of Validate and of the loop to a step's prompt: a run that  *)
(* began is one whose steps can all come after each other, and a step that *)
(* goes on to its prompt has the result of every step it depends on.       *)
(* Over all ways three steps can come after each other, the search finds a *)
(* cycle when there is one, and one that is there, and Ancestors finds the *)
(* least set that is closed under what its steps come after.               *)
Before(w, d) == {AfterOf(w, d)[i] : i \in DOMAIN AfterOf(w, d)}
InOrder(w) == \A U \in SUBSET Ids(w) : U # {} => \E d \in U : Before(w, d) \cap U = {}
SelfContained(w, U) == \A d \in U : Before(w, d) \subseteq U
DependsOn(w, d) ==
    {t \in Ids(w) : \A U \in SUBSET Ids(w) : Before(w, d) \subseteq U /\ SelfContained(w, U) => t \in U}

Three == <<"x", "y", "z">>
Lists == {l \in UNION {[1 .. n -> {"x", "y", "z"}] : n \in 0 .. 3} : NamedOnce(l)}
Graph(f) == [name |-> "w", sessions |-> <<"s">>,
             steps |-> [i \in 1 .. 3 |-> [id |-> Three[i], session |-> "s", after |-> f[i]]]]
SearchIsRight ==
    \A f \in [1 .. 3 -> Lists] :
      LET w == Graph(f)
          c == Cycle(w) IN
      /\ (c = <<>>) <=> InOrder(w)
      /\ \A i \in 1 .. Len(c) - 1 : c[i + 1] \in Before(w, c[i])
      /\ c # <<>> => c[1] = c[Len(c)]
      /\ \A d \in Ids(w) : Ancestors(w, d) = DependsOn(w, d)

Ordered == {r \in Runs : InOrder(Workflows[r])}
PromptsRender ==
    /\ \A r \in Runs \ Ordered : disk[r].seq = 0
    /\ \A s \in Steps : pc[s] = "send" => HasResults(s)
    /\ SearchIsRight

(* What the log has decided stays: a run that ended gets no further event, *)
(* and a step that ended keeps its end.  Apply checks only the first.      *)
DecidedStays ==
    [][\A r \in Runs :
         /\ disk[r].status \in Ended => disk'[r] = disk[r]
         /\ \A s \in StepsOf(r) :
              disk[r].steps[s].status \in Ended => disk'[r].steps[s] = disk[r].steps[s]]_vars

(* A decided outcome outlives a Shutdown or a crash: once the log has a    *)
(* failed step the run never starts another one.                           *)
FailureStartsNothing ==
    [][\A s \in Steps :
         (\E t \in StepsOf(RunOf[s]) : disk[RunOf[s]].steps[t].status = "failed" /\ pc[t] = "none")
           => ~(pc[s] = "none" /\ pc'[s] = "open")]_vars

(* The end that a run's own loop logs is what the steps came to: failed    *)
(* just when one has failed, whatever Cancels, Shutdowns, failed appends   *)
(* and crashes came after that, and done only when all are (loop, settle). *)
(* The end that Cancel logs of a run no Runner has is always cancelled.    *)
OwnEnd(r) ==
    loop'[r] # loop[r] /\ disk[r].status \notin Ended /\ disk'[r].status \in Ended
EndIsAccounted ==
    [][\A r \in Runs : OwnEnd(r) =>
         /\ disk'[r].status = "failed" <=>
              \E s \in StepsOf(r) : disk[r].steps[s].status = "failed"
         /\ disk'[r].status = "done" =>
              \A s \in StepsOf(r) : disk[r].steps[s].status = "done"]_vars

(* A run the Runner has leaves it: no wake is lost, whatever the slots,    *)
(* pauses, failures, Cancels and Shutdowns of it and the other runs.       *)
RunsStop == \A r \in Runs : Registered(r) ~> ~Registered(r)

(* A run whose log began gets to its end when nothing interrupts it. *)
RunsEnd == \A r \in Runs : disk[r].seq > 0 ~> disk[r].status \in Ended

(* Cancel that returned nil ends the run's log. *)
CancelEnds ==
    \A c \in Callers, r \in Runs :
      (call[c].op = "cancel" /\ call[c].run = r /\ call[c].pc = "ok") ~> disk[r].status \in Ended

(* The logs, as their readers see them, keep what a run's log promises. *)
Lifecycle == INSTANCE RunLifecycle WITH
    status <- [r \in Runs |-> disk[r].status],
    step <- [s \in Steps |-> disk[RunOf[s]].steps[s].status]

LogsKeepTheirPromise == Lifecycle!Spec

-----------------------------------------------------------------------------
(* What comments of the code say and the code does not keep.               *)

(* end: "An interrupted run logs nothing, so a resume takes the step up":  *)
(* only a Cancel ends a run cancelled.                                     *)
CancelledOnRequest ==
    \A r \in Runs : disk[r].status = "cancelled" =>
      \E c \in Callers : call[c].op = "cancel" /\ call[c].run = r

(* release: "the loop finishes only once inflight is empty, so Shutdown    *)
(* and Wait never return ahead of a closing harness".                      *)
NoHarnessOutlives ==
    \A r \in Runs : ~Registered(r) => \A s \in StepsOf(r) : pc[s] # "closing"

(* Resume: "A paused run stays paused until its log's Until". *)
PauseIsKept ==
    [][\A r \in Runs :
         disk[r].status = "paused" /\ disk'[r].status = "running" => disk[r].until <= now]_vars

=============================================================================
