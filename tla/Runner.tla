------------------------------- MODULE Runner -------------------------------
(***************************************************************************)
(* The workflow runner (workflow/runner.go): a loop per run, a goroutine   *)
(* per step in flight, the callers of Start, Resume and Cancel, Shutdown,  *)
(* and a process that may crash and start again over the same store.       *)
(*                                                                         *)
(* Every action is what one goroutine does between two points where        *)
(* another can come in: one hold of a lock, one append, one call that      *)
(* waits.  A harness session is external; what is kept of it is the        *)
(* exchange it runs and the records it lists for exchanges that ended.     *)
(***************************************************************************)
EXTENDS RunLog, Workflow, Integers, FiniteSets

CONSTANTS
    Runs,          \* IDs of runs
    Callers,       \* each makes one call of Start, Resume or Cancel
    RunOf,         \* the run a step belongs to; a run's steps are its workflow
    Sess,          \* the session a step runs in; no two runs share one
    After,         \* the steps a step comes after
    Rank,          \* the declaration order of the steps
    Workflows,     \* what Start is called with for each run
    Limit,         \* the exchanges in flight at once; 0 is no limit
    MaxNow,        \* bound: the clock's last value
    MaxLimits,     \* bound: exchanges that end in a usage limit
    MaxFaults,     \* bound: appends that fail though the number follows
    MaxShutdowns,  \* bound: calls of Shutdown
    MaxCrashes     \* bound: crashes of the process

ASSUME RunsAssumption == Runs # {}
ASSUME RunOfAssumption == RunOf \in [Steps -> Runs]
ASSUME SessAssumption ==
    /\ Sess \in [Steps -> Sessions]
    /\ \A s, t \in Steps : Sess[s] = Sess[t] => RunOf[s] = RunOf[t]
ASSUME AfterAssumption ==
    /\ After \in [Steps -> SUBSET Steps]
    /\ \A s \in Steps : \A t \in After[s] : RunOf[t] = RunOf[s]
ASSUME RankAssumption ==
    /\ Rank \in [Steps -> Nat]
    /\ \A s, t \in Steps : Rank[s] = Rank[t] => s = t
ASSUME WorkflowsAssumption ==  \* a run without steps is one that Start refuses
    \A r \in Runs :
      LET w == Workflows[r]
          own == {s \in Steps : RunOf[s] = r} IN
      /\ Typed(w)
      /\ own # {} =>
        /\ own = Ids(w)
        /\ \A i \in DOMAIN w.steps :
             LET st == w.steps[i] IN
             /\ Sess[st.id] = st.session
             /\ After[st.id] = {st.after[k] : k \in DOMAIN st.after}
             /\ \A j \in 1 .. i - 1 : Rank[w.steps[j].id] < Rank[st.id]
ASSUME FiniteAssumption == IsFiniteSet(Steps)
ASSUME BoundsAssumption ==
    /\ Limit \in Nat /\ MaxNow \in Nat /\ MaxLimits \in Nat
    /\ MaxFaults \in Nat /\ MaxShutdowns \in Nat /\ MaxCrashes \in Nat

VARIABLES
    disk,      \* [Runs -> State]: the store's log of each run, folded
    recs,      \* pairs <<step, exchange>>: session records that adopt accepts
    sends,     \* [Steps -> Nat]: exchanges the harness accepted; the last one's ID
    now,       \* the clock
    limits, faults, shutdowns, crashes,   \* what the bounds count
    closed,    \* Runner.closed, and r.ctx ended
    slots,     \* tokens in Runner.slots
    loop,      \* [Runs -> LoopPC]: "off" is a run that is not in Runner.runs
    mem,       \* [Runs -> State]: run.state
    cause,     \* [Runs -> Cause]: the cause run.ctx ended with, or "none"
    stopped,   \* [Runs -> BOOLEAN]: run.stop called
    failure,   \* [Runs -> BOOLEAN]: run.failure set
    err,       \* [Runs -> Cause]: run.err
    wake,      \* [Runs -> BOOLEAN]: the token in run.wake
    timer,     \* [Runs -> Nat]: when the loop's timer fires; 0 is no timer
    open,      \* [Runs -> SUBSET Sessions]: run.sessions
    pc,        \* [Steps -> StepPC]: "none" is a step without a goroutine
    x,         \* [Steps -> Outcome]: the exchange, then how the step ends
    id,        \* [Steps -> Nat]: the exchange ID end is called with
    till,      \* [Steps -> Nat]: the reset time of a usage limit
    call       \* [Callers -> Call]

logVars  == <<disk, mem, faults>>
envVars  == <<recs, sends, now, limits>>
procVars == <<closed, slots, shutdowns, crashes>>
ctxVars  == <<cause, stopped, failure>>
loopVars == <<loop, err, timer>>
stepVars == <<pc, x, id, till>>
worldVars == <<envVars, procVars>>
runVars  == <<ctxVars, loopVars, wake, open>>
vars == <<logVars, worldVars, runVars, stepVars, call>>

LoopPC == {"off", "new", "eval", "start", "wait", "drain", "logDone", "logResume",
           "logEnd", "finish", "closing", "forget"}
StepPC == {"none", "open", "opened", "adopt", "send", "started", "follow", "end",
           "classify", "log", "fail", "free", "idle", "closing", "leave"}
Outcome == {"none", "running", "cancelling", "ok", "err", "limit", "aborted",
            "done", "failed", "cancelled", "paused"}
Cause == {"none", "cancelled", "shutdown", "log", "nil"}
CallPC == {"idle", "logStart", "fold", "newRun", "settle", "cfold", "cappend",
           "ok", "ended", "active", "closed", "unknown", "invalid", "refused",
           "lost"}
Call == [op : {"none", "start", "resume", "cancel"}, run : Runs,
         pc : CallPC, seen : State]

-----------------------------------------------------------------------------
(* What the code reads of a run.                                           *)

StepsOf(r) == {s \in Steps : RunOf[s] = r}

(* The run is in Runner.runs: registered by newRun, not yet deleted. *)
Registered(r) == loop[r] # "off"

(* run.inflight and run.busy, which are only ever changed together. *)
Inflight(r) == {s \in StepsOf(r) : pc[s] # "none"}
Busy(r) == {Sess[s] : s \in Inflight(r)}

(* context.WithCancelCause keeps the first cause. *)
First(c, d) == IF c = "none" THEN d ELSE c

(* Mutant: a cancelled run counts as interrupted. *)
InterruptedAtAll(c) == c # "none"


Interrupted(c) == c \notin {"none", "cancelled"}

(* run.steps is over: run.ctx is its parent, which ends it too. *)
StepsOver(r) == cause[r] # "none" \/ stopped[r]

(* Mutant: counts the steps that began. *)
AllBegun(r) == \A s \in StepsOf(r) : mem[r].steps[s].status # "pending"


AllDone(r) == \A s \in StepsOf(r) : mem[r].steps[s].status = "done"

(* Mutant: a step starts though its session is busy. *)
StartableShared(s) ==
    LET st == mem[RunOf[s]].steps IN
    /\ st[s].status \in {"pending", "running"}
    /\ s \notin Inflight(RunOf[s])
    /\ \A t \in After[s] : st[t].status = "done"

(* Mutant: a step does not wait for the steps it comes after. *)
StartableUnordered(s) ==
    LET st == mem[RunOf[s]].steps IN
    /\ st[s].status \in {"pending", "running"}
    /\ Sess[s] \notin Busy(RunOf[s])

(* run.ready: the steps that can start, one for each free session.         *)
Startable(s) ==
    LET st == mem[RunOf[s]].steps IN
    /\ st[s].status \in {"pending", "running"}
    /\ s \notin Inflight(RunOf[s])
    /\ Sess[s] \notin Busy(RunOf[s])
    /\ \A t \in After[s] : st[t].status = "done"

Ready(r) == {s \in StepsOf(r) : Startable(s)}

(* The step of Ready the loop starts first, as a set of one. *)
FirstReady(r) == {s \in Ready(r) : \A t \in Ready(r) : Rank[s] <= Rank[t]}

(* Mutants: one too many, no limit. *)
SlotFreeOneMore == Limit = 0 \/ slots <= Limit
SlotFreeAlways == TRUE


SlotFree == Limit = 0 \/ slots < Limit

-----------------------------------------------------------------------------

(* Mutant: the store does not check the event's number. *)
LoggedUnchecked(r, e) ==
    /\ Follows(mem[r], e)
    /\ disk' = [disk EXCEPT ![r] = Apply(@, e)]
    /\ mem' = [mem EXCEPT ![r] = Apply(@, e)]
    /\ UNCHANGED faults

(* run.log: number the event, apply it, append it, keep the new state.     *)
(* The store takes it when the number follows its last event.  An append   *)
(* that fails for another reason may have left the event in the file.      *)

Logged(r, e) ==
    /\ Follows(mem[r], e)
    /\ mem[r].seq = disk[r].seq
    /\ disk' = [disk EXCEPT ![r] = Apply(@, e)]
    /\ mem' = [mem EXCEPT ![r] = Apply(@, e)]
    /\ UNCHANGED faults

Fault(r, e) ==
    /\ faults < MaxFaults
    /\ faults' = faults + 1
    /\ disk' \in {disk, [disk EXCEPT ![r] = Apply(@, e)]}

(* Mutant: the event is applied to the state before it is appended. *)
NotLoggedApplied(r, e) ==
    /\ Follows(mem[r], e) /\ mem[r].seq = disk[r].seq
    /\ Fault(r, e)
    /\ mem' = [mem EXCEPT ![r] = Apply(@, e)]


NotLogged(r, e) ==
    /\ UNCHANGED mem
    /\ IF Follows(mem[r], e) /\ mem[r].seq = disk[r].seq
         THEN Fault(r, e)
         ELSE UNCHANGED <<disk, faults>>

(* A failed append interrupts the run; an event Apply refuses does not. *)
LogFailed(r, e) ==
    cause' = IF Follows(mem[r], e) THEN [cause EXCEPT ![r] = First(@, "log")]
                                   ELSE cause

(* Mutant: a freed slot wakes no run. *)
SignalNone == UNCHANGED wake

(* Runner.release signals every registered run, run.signal one: the channel holds one token. *)
SignalAll == wake' = [r \in Runs |-> wake[r] \/ Registered(r)]
Signal(r) == wake' = [wake EXCEPT ![r] = @ \/ Registered(r)]

-----------------------------------------------------------------------------
(* A step's goroutine (run.step, run.session, run.adopt, run.end,          *)
(* run.release).  To(s, p) is the move of its program counter.             *)

To(s, p) == pc' = [pc EXCEPT ![s] = p]

(* rn.end(ctx, st, i, nil, err) for an error before or beside an exchange. *)
EndErr(s, i) ==
    /\ To(s, "end")
    /\ x' = [x EXCEPT ![s] = "err"]
    /\ id' = [id EXCEPT ![s] = i]

(* run.session up to the log: the session is open, or the Opener opens it, *)
(* under the recorded ID if there is one, or fails.                        *)
OpenSession(s) ==
    LET r == RunOf[s]
        n == Sess[s] IN
    /\ pc[s] = "open"
    /\ \/ n \in open[r] /\ To(s, "adopt") /\ UNCHANGED <<open, x, id>>
       \/ /\ n \notin open[r]
          /\ open' = [open EXCEPT ![r] = @ \cup {n}]
          /\ To(s, IF n \in mem[r].opened THEN "adopt" ELSE "opened")
          /\ UNCHANGED <<x, id>>
       \/ n \notin open[r] /\ EndErr(s, 0) /\ UNCHANGED open
    /\ UNCHANGED <<logVars, worldVars, ctxVars, loopVars, wake, till, call>>

(* run.session from there: a session ID the log does not have is logged. *)
LogOpened(s) ==
    LET r == RunOf[s]
        e == SessionOpened(Sess[s]) IN
    /\ pc[s] = "opened"
    /\ \/ Logged(r, e) /\ To(s, "adopt") /\ UNCHANGED <<x, id, cause>>
       \/ NotLogged(r, e) /\ LogFailed(r, e) /\ EndErr(s, 0)
    /\ UNCHANGED <<worldVars, stopped, failure, loopVars, wake, open, till, call>>

(* Mutant: a step the log has as started is sent again. *)
AdoptNever(s) ==
    /\ pc[s] = "adopt" /\ To(s, "send")
    /\ UNCHANGED <<logVars, worldVars, runVars, x, id, till, call>>

(* The step's state when its goroutine has the session: an exchange the    *)
(* log has as started is adopted when the session's records have it ended  *)
(* well; the records may also fail to list.                                *)
Adopt(s) ==
    LET r == RunOf[s]
        prior == mem[r].steps[s]
        known == prior.status = "running" /\ prior.ex # 0
        ended == <<s, prior.ex>> \in recs
        e == StepEnded(s, prior.ex, "done") IN
    /\ pc[s] = "adopt"
    /\ \/ known /\ EndErr(s, prior.ex) /\ UNCHANGED <<logVars, cause>>
       \/ known /\ ended /\ Logged(r, e) /\ To(s, "free") /\ UNCHANGED <<x, id, cause>>
       \/ known /\ ended /\ NotLogged(r, e) /\ LogFailed(r, e) /\ EndErr(s, prior.ex)
       \/ ~(known /\ ended) /\ To(s, "send") /\ UNCHANGED <<logVars, cause, x, id>>
    /\ UNCHANGED <<worldVars, stopped, failure, loopVars, wake, open, till, call>>

(* Workflow.Prompt reads the result of every step that s depends on. *)
Needed == [s \in Steps |-> Ancestors(Workflows[RunOf[s]], s)]
HasResults(s) == \A t \in Needed[s] : mem[RunOf[s]].steps[t].status = "done"

(* The prompt is rendered, or fails to; sess.Send: the harness accepts it  *)
(* as a new exchange, or refuses.                                          *)
Send(s) ==
    /\ pc[s] = "send"
    /\ \/ /\ HasResults(s)
          /\ sends' = [sends EXCEPT ![s] = @ + 1]
          /\ x' = [x EXCEPT ![s] = "running"]
          /\ id' = [id EXCEPT ![s] = sends[s] + 1]
          /\ To(s, "started")
       \/ EndErr(s, 0) /\ UNCHANGED sends
    /\ UNCHANGED <<logVars, recs, now, limits, procVars, ctxVars, loopVars, wake, open, till, call>>

(* step_started is logged; when it is not, x.Cancel and go on. *)
LogStarted(s) ==
    LET r == RunOf[s]
        e == StepStarted(s, id[s]) IN
    /\ pc[s] = "started"
    /\ To(s, "follow")
    /\ \/ Logged(r, e) /\ UNCHANGED <<x, cause>>
       \/ /\ NotLogged(r, e)
          /\ LogFailed(r, e)
          /\ x' = [x EXCEPT ![s] = IF @ = "running" THEN "cancelling" ELSE @]
    /\ UNCHANGED <<worldVars, stopped, failure, loopVars, wake, open, id, till, call>>

(* External: the session's exchange ends, whatever the step is at.  One    *)
(* that ended well leaves a record; one ends aborted only when cancelled.  *)
ExchangeEnds(s) ==
    /\ x[s] \in {"running", "cancelling"}
    /\ \E o \in {"ok", "err", "limit", "aborted"} :
         /\ o = "aborted" => x[s] = "cancelling" \/ StepsOver(RunOf[s])
         /\ x' = [x EXCEPT ![s] = o]
         /\ recs' = IF o = "ok" THEN recs \cup {<<s, id[s]>>} ELSE recs
         /\ IF o = "limit"
              THEN /\ limits < MaxLimits
                   /\ limits' = limits + 1
                   /\ \E t \in now .. MaxNow : till' = [till EXCEPT ![s] = t]
              ELSE UNCHANGED <<limits, till>>
    /\ UNCHANGED <<logVars, sends, now, procVars, ctxVars, loopVars, wake, open, pc, id, call>>

(* The exchange's events are over and x.Wait returns. *)
Follow(s) ==
    /\ pc[s] = "follow"
    /\ x[s] \notin {"running", "cancelling"}
    /\ To(s, "end")
    /\ UNCHANGED <<logVars, worldVars, runVars, x, id, till, call>>

(* run.end, first case: an interrupted run logs nothing. *)
EndInterrupted(s) ==
    /\ pc[s] = "end"
    /\ To(s, IF Interrupted(cause[RunOf[s]]) THEN "free" ELSE "classify")
    /\ UNCHANGED <<logVars, worldVars, runVars, x, id, till, call>>

(* Mutant: the outcome of the exchange is looked at before the context. *)
EndClassifyResultFirst(s) ==
    /\ pc[s] = "classify"
    /\ x' = [x EXCEPT ![s] = IF @ = "ok" THEN "done"
                             ELSE IF StepsOver(RunOf[s]) THEN "cancelled" ELSE "failed"]
    /\ To(s, "log")
    /\ UNCHANGED <<logVars, worldVars, runVars, id, till, call>>

(* run.end, the other cases: how the step ends is decided here, and logged *)
(* next.  A usage limit that ends no later than the run's pause logs       *)
(* nothing.                                                                *)
EndClassify(s) ==
    LET st == mem[RunOf[s]]
        later == st.status # "paused" \/ till[s] > st.until
        how == IF StepsOver(RunOf[s]) THEN "cancelled"
               ELSE CASE x[s] = "limit" -> "paused"
                      [] x[s] = "ok"    -> "done"
                      [] OTHER          -> "failed" IN
    /\ pc[s] = "classify"
    /\ x' = [x EXCEPT ![s] = how]
    /\ To(s, IF how = "paused" /\ ~later THEN "free" ELSE "log")
    /\ UNCHANGED <<logVars, worldVars, runVars, id, till, call>>

EndEvent(s) == IF x[s] = "paused" THEN RunPaused(till[s]) ELSE StepEnded(s, id[s], x[s])

LogEnded(s) ==
    LET r == RunOf[s]
        e == EndEvent(s) IN
    /\ pc[s] = "log"
    /\ \/ /\ Logged(r, e)
          /\ To(s, IF x[s] = "failed" THEN "fail" ELSE "free")
          /\ UNCHANGED cause
       \/ NotLogged(r, e) /\ LogFailed(r, e) /\ To(s, "free")
    /\ UNCHANGED <<worldVars, stopped, failure, loopVars, wake, open, x, id, till, call>>

(* A failed step fails the run and ends the context of the others. *)
Fail(s) ==
    LET r == RunOf[s] IN
    /\ pc[s] = "fail"
    /\ failure' = [failure EXCEPT ![r] = TRUE]
    /\ stopped' = [stopped EXCEPT ![r] = TRUE]
    /\ To(s, "free")
    /\ UNCHANGED <<logVars, worldVars, cause, loopVars, wake, open, x, id, till, call>>

(* Runner.release, deferred last and so run first. *)
FreeSlot(s) ==
    /\ pc[s] = "free"
    /\ Limit # 0 => slots > 0
    /\ slots' = IF Limit = 0 THEN slots ELSE slots - 1
    /\ IF Limit = 0 THEN UNCHANGED wake ELSE SignalAll
    /\ To(s, "idle")
    /\ UNCHANGED <<logVars, envVars, closed, shutdowns, crashes, ctxVars, loopVars, open, x, id,
                   till, call>>

(* run.release: take the session out when none of its steps is left. *)
TakeIdle(s) ==
    LET r == RunOf[s]
        idle == /\ Sess[s] \in open[r]
                /\ \A t \in StepsOf(r) : Sess[t] = Sess[s] => mem[r].steps[t].status = "done" IN
    /\ pc[s] = "idle"
    /\ open' = IF idle THEN [open EXCEPT ![r] = @ \ {Sess[s]}] ELSE open
    /\ To(s, IF idle THEN "closing" ELSE "leave")
    /\ UNCHANGED <<logVars, worldVars, ctxVars, loopVars, wake, x, id, till, call>>

(* run.release: the idle session has closed. *)
CloseIdle(s) ==
    /\ pc[s] = "closing"
    /\ To(s, "leave")
    /\ UNCHANGED <<logVars, worldVars, runVars, x, id, till, call>>

(* run.release: leave inflight and busy, then wake the loop. *)
Leave(s) ==
    /\ pc[s] = "leave"
    /\ To(s, "none")
    /\ x' = [x EXCEPT ![s] = "none"]
    /\ id' = [id EXCEPT ![s] = 0]
    /\ till' = [till EXCEPT ![s] = 0]
    /\ Signal(RunOf[s])
    /\ UNCHANGED <<logVars, worldVars, ctxVars, loopVars, open, call>>

-----------------------------------------------------------------------------
(* A run's loop (run.loop, run.finish).  Each Loop action is one hold of   *)
(* run.mu at the top of the loop, but that the ready steps are started one *)
(* by one: at "start" the loop still holds the lock, which every step of   *)
(* the run needs to go on.                                                 *)

Stopping(r) == cause[r] # "none" \/ failure[r]

Go(r, p) == loop' = [loop EXCEPT ![r] = p]

(* Mutant: a run that stops does not wait for its steps. *)
LoopStoppingAtOnce(r) ==
    /\ loop[r] = "eval"
    /\ Stopping(r)
    /\ Go(r, "logEnd")
    /\ UNCHANGED <<logVars, worldVars, ctxVars, err, timer, wake, open, stepVars, call>>


LoopStopping(r) ==
    /\ loop[r] = "eval"
    /\ Stopping(r)
    /\ Go(r, IF Inflight(r) = {} THEN "logEnd" ELSE "drain")
    /\ UNCHANGED <<logVars, worldVars, ctxVars, err, timer, wake, open, stepVars, call>>

LoopDone(r) ==
    /\ loop[r] = "eval"
    /\ ~Stopping(r) /\ AllDone(r)
    /\ Go(r, "logDone")
    /\ UNCHANGED <<logVars, worldVars, ctxVars, err, timer, wake, open, stepVars, call>>

LoopPaused(r) ==
    LET left == mem[r].until > now IN
    /\ loop[r] = "eval"
    /\ ~Stopping(r) /\ ~AllDone(r) /\ mem[r].status = "paused"
    /\ Go(r, IF left THEN "wait" ELSE "logResume")
    /\ timer' = IF left THEN [timer EXCEPT ![r] = mem[r].until] ELSE timer
    /\ UNCHANGED <<logVars, worldVars, ctxVars, err, wake, open, stepVars, call>>

LoopReady(r) ==
    \/ loop[r] = "start"
    \/ loop[r] = "eval" /\ ~Stopping(r) /\ ~AllDone(r) /\ mem[r].status # "paused"

(* tryAcquire takes the slot, then the step's goroutine starts. *)
LoopLaunch(r) ==
    /\ LoopReady(r)
    /\ SlotFree
    /\ slots' = IF Limit = 0 THEN slots ELSE slots + 1
    /\ \E s \in FirstReady(r) : To(s, "open")
    /\ Go(r, "start")
    /\ UNCHANGED <<logVars, envVars, closed, shutdowns, crashes, ctxVars, err, timer, wake, open,
                   x, id, till, call>>

(* With nothing ready and nothing in flight no wake would ever come: the   *)
(* code fails the run instead of waiting.                                  *)
LoopWait(r) ==
    /\ LoopReady(r)
    /\ Ready(r) = {} \/ ~SlotFree
    /\ IF Ready(r) = {} /\ Inflight(r) = {}
         THEN failure' = [failure EXCEPT ![r] = TRUE] /\ UNCHANGED loop
         ELSE Go(r, "wait") /\ UNCHANGED failure
    /\ UNCHANGED <<logVars, worldVars, cause, stopped, err, timer, wake, open, stepVars, call>>

(* The select: a wake, the end of run.ctx unless the run stops already, or *)
(* the timer.                                                              *)
Wake(r) ==
    /\ loop[r] \in {"wait", "drain"}
    /\ wake[r]
    /\ wake' = [wake EXCEPT ![r] = FALSE]
    /\ Go(r, "eval")
    /\ timer' = [timer EXCEPT ![r] = 0]
    /\ UNCHANGED <<logVars, worldVars, ctxVars, err, open, stepVars, call>>

(* Mutant: the select without the timer. *)
InterruptNoTimer(r) ==
    /\ loop[r] = "wait" /\ cause[r] # "none"
    /\ Go(r, "eval")
    /\ timer' = [timer EXCEPT ![r] = 0]
    /\ UNCHANGED <<logVars, worldVars, ctxVars, err, wake, open, stepVars, call>>


Interrupt(r) ==
    /\ loop[r] = "wait"
    /\ \/ cause[r] # "none"
       \/ timer[r] # 0 /\ timer[r] <= now
    /\ Go(r, "eval")
    /\ timer' = [timer EXCEPT ![r] = 0]
    /\ UNCHANGED <<logVars, worldVars, ctxVars, err, wake, open, stepVars, call>>

LogResumed(r) ==
    /\ loop[r] = "logResume"
    /\ Go(r, "eval")
    /\ \/ Logged(r, RunResumed) /\ UNCHANGED cause
       \/ NotLogged(r, RunResumed) /\ LogFailed(r, RunResumed)
    /\ UNCHANGED <<worldVars, stopped, failure, err, timer, wake, open, stepVars, call>>

(* Every way out of the loop logs how the run ended, and goes to finish    *)
(* whether or not that could be logged.                                    *)
LogRunEnded(r, st) ==
    /\ Go(r, "finish")
    /\ \/ Logged(r, RunEnded(st)) /\ UNCHANGED cause
       \/ NotLogged(r, RunEnded(st)) /\ LogFailed(r, RunEnded(st))

LogDone(r) ==
    /\ loop[r] = "logDone"
    /\ LogRunEnded(r, "done")
    /\ UNCHANGED <<worldVars, stopped, failure, err, timer, wake, open, stepVars, call>>

(* A failure first; an interrupted run logs no end. *)
LogEnd(r) ==
    /\ loop[r] = "logEnd"
    /\ IF ~failure[r] /\ Interrupted(cause[r])
         THEN Go(r, "finish") /\ UNCHANGED <<logVars, cause>>
         ELSE LogRunEnded(r, IF failure[r] THEN "failed" ELSE "cancelled")
    /\ UNCHANGED <<worldVars, stopped, failure, err, timer, wake, open, stepVars, call>>

Finish(r) ==
    /\ loop[r] = "finish"
    /\ Go(r, "closing")
    /\ stopped' = [stopped EXCEPT ![r] = TRUE]
    /\ err' = [err EXCEPT ![r] = IF Interrupted(cause[r]) THEN cause[r] ELSE "none"]
    /\ open' = [open EXCEPT ![r] = {}]
    /\ UNCHANGED <<logVars, worldVars, cause, failure, timer, wake, stepVars, call>>

(* Every session has closed, then run.cancel(nil). *)
CloseSessions(r) ==
    /\ loop[r] = "closing"
    /\ Go(r, "forget")
    /\ cause' = [cause EXCEPT ![r] = First(@, "nil")]
    /\ UNCHANGED <<logVars, worldVars, stopped, failure, err, timer, wake, open, stepVars, call>>

(* What a run that is not registered keeps: nothing.  Wait, which holds    *)
(* the run, has read its state and err by then.                            *)
Cleared(r, p, st) ==
    /\ Go(r, p)
    /\ mem' = [mem EXCEPT ![r] = st]
    /\ cause' = [cause EXCEPT ![r] = "none"]
    /\ stopped' = [stopped EXCEPT ![r] = FALSE]
    /\ failure' = [failure EXCEPT ![r] = FALSE]
    /\ err' = [err EXCEPT ![r] = "none"]
    /\ timer' = [timer EXCEPT ![r] = 0]
    /\ wake' = [wake EXCEPT ![r] = FALSE]
    /\ open' = [open EXCEPT ![r] = {}]

Forget(r) ==
    /\ loop[r] = "forget"
    /\ Cleared(r, "off", Empty)
    /\ UNCHANGED <<disk, faults, worldVars, stepVars, call>>

-----------------------------------------------------------------------------
(* The calls of Start, Resume and Cancel.  A caller makes one; its pc ends *)
(* as the answer.                                                          *)

Begin(c, o, r, p, st) ==
    /\ call[c].op = "none"
    /\ call' = [call EXCEPT ![c] = [op |-> o, run |-> r, pc |-> p, seen |-> st]]

(* The caller goes on to p, holding nothing it read. *)
Turn(c, p) == call' = [call EXCEPT ![c].pc = p, ![c].seen = Empty]

(* Runner.newRun registers the run with the state st. *)
NewRun(r, st) == ~closed /\ ~Registered(r) /\ Cleared(r, "new", st)

(* The runs Start is called for with a workflow that Validate accepts. *)
Accepted == {r \in Runs : Valid(Workflows[r])}

(* Start: a fresh UUID, so a run is started once. *)
Start(c, r) ==
    /\ \A d \in Callers : ~(call[d].op = "start" /\ call[d].run = r)
    /\ \/ r \in Accepted /\ NewRun(r, Empty) /\ Begin(c, "start", r, "logStart", Empty)
       \/ /\ closed \/ r \notin Accepted
          /\ Begin(c, "start", r, IF r \in Accepted THEN "closed" ELSE "invalid", Empty)
          /\ UNCHANGED <<mem, ctxVars, loopVars, wake, open>>
    /\ UNCHANGED <<disk, faults, worldVars, stepVars>>

(* run_started is logged and the run launched, or dropped. *)
StartLog(c) ==
    LET r == call[c].run IN
    /\ call[c].pc = "logStart"
    /\ \/ /\ Logged(r, RunStarted)
          /\ Go(r, "eval")
          /\ Turn(c, "ok")
          /\ UNCHANGED <<ctxVars, err, timer, wake, open>>
       \/ /\ Fault(r, RunStarted)
          /\ Cleared(r, "off", Empty)
          /\ Turn(c, "refused")
    /\ UNCHANGED <<worldVars, stepVars>>

(* Resume, each of whose reads holds a lock of its own: is the run active? *)
Resume(c, r) ==
    /\ Begin(c, "resume", r, IF Registered(r) THEN "active" ELSE "fold", Empty)
    /\ UNCHANGED <<logVars, worldVars, runVars, stepVars>>

(* Runner.fold, for Resume and for Cancel: read the log, refuse a run that *)
(* is unknown or ended, and remember the state.                            *)
ReadLog(c) ==
    LET st == disk[call[c].run] IN
    /\ call[c].pc \in {"fold", "cfold"}
    /\ \/ st.seq = 0 /\ Turn(c, "unknown")
       \/ st.status \in Ended /\ Turn(c, "ended")
       \/ /\ st.seq > 0 /\ st.status \notin Ended
          /\ call' = [call EXCEPT ![c].seen = st,
                                  ![c].pc = IF @ = "fold" THEN "newRun" ELSE "cappend"]
    /\ UNCHANGED <<logVars, worldVars, runVars, stepVars>>

ResumeNew(c) ==
    LET r == call[c].run IN
    /\ call[c].pc = "newRun"
    /\ \/ NewRun(r, call[c].seen) /\ Turn(c, "settle")
       \/ /\ closed \/ Registered(r)
          /\ Turn(c, IF closed THEN "closed" ELSE "active")
          /\ UNCHANGED <<mem, ctxVars, loopVars, wake, open>>
    /\ UNCHANGED <<disk, faults, worldVars, stepVars>>

(* run.settle takes what the log decided; then run_resumed is logged but   *)
(* for a paused run, and the run launched, or dropped.                     *)
SomeStep(r, st) == \E s \in StepsOf(r) : mem[r].steps[s].status = st

(* Mutant: a resume does not look for a failed step. *)
SettleForgets(r) == FALSE

SettleFails(r) == SomeStep(r, "failed")
SettleCancels(r) == SomeStep(r, "cancelled")

ResumeLaunch(c) ==
    LET r == call[c].run IN
    /\ call[c].pc = "settle"
    /\ \/ /\ IF mem[r].status = "paused" THEN UNCHANGED logVars ELSE Logged(r, RunResumed)
          /\ failure' = [failure EXCEPT ![r] = SettleFails(r)]
          /\ stopped' = [stopped EXCEPT ![r] = SettleFails(r)]
          /\ cause' = [cause EXCEPT ![r] = IF SettleCancels(r) THEN First(@, "cancelled") ELSE @]
          /\ Go(r, "eval")
          /\ Turn(c, "ok")
          /\ UNCHANGED <<err, timer, wake, open>>
       \/ /\ mem[r].status # "paused"
          /\ IF mem[r].seq = disk[r].seq THEN Fault(r, RunResumed) ELSE UNCHANGED <<disk, faults>>
          /\ Cleared(r, "off", Empty)
          /\ Turn(c, "refused")
    /\ UNCHANGED <<worldVars, stepVars>>

(* Cancel: of a run the Runner has, end its context, and tell why it ended *)
(* before when it had; otherwise read the log.                             *)
Cancel(c, r) ==
    /\ IF Registered(r)
         THEN /\ cause' = [cause EXCEPT ![r] = First(@, "cancelled")]
              /\ Begin(c, "cancel", r,
                       IF cause'[r] = "cancelled" THEN "ok" ELSE "refused", Empty)
         ELSE Begin(c, "cancel", r, "cfold", Empty) /\ UNCHANGED cause
    /\ UNCHANGED <<logVars, worldVars, stopped, failure, loopVars, wake, open, stepVars>>

(* Cancel of a run no Runner has: append the end after the state it read. *)
CancelAppend(c) ==
    LET r == call[c].run
        e == RunEnded("cancelled") IN
    /\ call[c].pc = "cappend"
    /\ \/ /\ call[c].seen.seq = disk[r].seq
          /\ disk' = [disk EXCEPT ![r] = Apply(@, e)]
          /\ Turn(c, "ok")
          /\ UNCHANGED faults
       \/ /\ IF call[c].seen.seq = disk[r].seq THEN Fault(r, e) ELSE UNCHANGED <<disk, faults>>
          /\ Turn(c, "refused")
    /\ UNCHANGED <<mem, worldVars, runVars, stepVars>>

-----------------------------------------------------------------------------
(* The process.                                                            *)

(* Shutdown: nothing registers any more, and every run's context ends. *)
Shutdown ==
    /\ ~closed /\ shutdowns < MaxShutdowns
    /\ closed' = TRUE
    /\ shutdowns' = shutdowns + 1
    /\ cause' = [r \in Runs |-> IF Registered(r) THEN First(cause[r], "shutdown") ELSE cause[r]]
    /\ UNCHANGED <<logVars, envVars, slots, crashes, stopped, failure, loopVars, wake, open,
                   stepVars, call>>

(* Callers the process takes with it. *)
Answered == {"idle", "ok", "ended", "active", "closed", "unknown", "invalid", "refused", "lost"}

NewProcess ==
    /\ closed' = FALSE
    /\ slots' = 0
    /\ loop' = [r \in Runs |-> "off"]
    /\ mem' = [r \in Runs |-> Empty]
    /\ cause' = [r \in Runs |-> "none"]
    /\ stopped' = [r \in Runs |-> FALSE]
    /\ failure' = [r \in Runs |-> FALSE]
    /\ err' = [r \in Runs |-> "none"]
    /\ timer' = [r \in Runs |-> 0]
    /\ wake' = [r \in Runs |-> FALSE]
    /\ open' = [r \in Runs |-> {}]
    /\ pc' = [s \in Steps |-> "none"]
    /\ x' = [s \in Steps |-> "none"]
    /\ id' = [s \in Steps |-> 0]
    /\ till' = [s \in Steps |-> 0]
    /\ call' = [c \in Callers |-> IF call[c].pc \in Answered THEN call[c]
                                  ELSE [call[c] EXCEPT !.pc = "lost", !.seen = Empty]]
    /\ UNCHANGED <<disk, faults, envVars, shutdowns>>

(* Shutdown has waited for every run; a new process has a new Runner. *)
Restart ==
    /\ closed
    /\ \A r \in Runs : ~Registered(r)
    /\ NewProcess
    /\ UNCHANGED crashes

(* The process dies at any point: the log and the session records stay. *)
Crash ==
    /\ crashes < MaxCrashes
    /\ crashes' = crashes + 1
    /\ NewProcess

Tick ==
    /\ now < MaxNow
    /\ now' = now + 1
    /\ UNCHANGED <<logVars, recs, sends, limits, procVars, ctxVars, loopVars, wake, open,
                   stepVars, call>>

(* Nothing runs and no call is left to make. *)
Terminated ==
    /\ \A r \in Runs : ~Registered(r)
    /\ \A c \in Callers : call[c].op # "none" /\ call[c].pc \in Answered
    /\ UNCHANGED vars

-----------------------------------------------------------------------------

Init ==
    /\ disk = [r \in Runs |-> Empty] /\ mem = [r \in Runs |-> Empty]
    /\ recs = {} /\ sends = [s \in Steps |-> 0]
    /\ now = 0 /\ limits = 0 /\ faults = 0 /\ shutdowns = 0 /\ crashes = 0
    /\ closed = FALSE /\ slots = 0
    /\ loop = [r \in Runs |-> "off"]
    /\ cause = [r \in Runs |-> "none"] /\ err = [r \in Runs |-> "none"]
    /\ stopped = [r \in Runs |-> FALSE] /\ failure = [r \in Runs |-> FALSE]
    /\ wake = [r \in Runs |-> FALSE] /\ timer = [r \in Runs |-> 0]
    /\ open = [r \in Runs |-> {}]
    /\ pc = [s \in Steps |-> "none"] /\ x = [s \in Steps |-> "none"]
    /\ id = [s \in Steps |-> 0] /\ till = [s \in Steps |-> 0]
    /\ call = [c \in Callers |-> [op |-> "none", run |-> CHOOSE r \in Runs : TRUE,
                                  pc |-> "idle", seen |-> Empty]]

StepNext(s) == loop[RunOf[s]] # "start" /\
   (\/ OpenSession(s) \/ LogOpened(s) \/ Adopt(s) \/ Send(s) \/ LogStarted(s)
    \/ Follow(s) \/ EndInterrupted(s) \/ EndClassify(s) \/ LogEnded(s) \/ Fail(s)
    \/ FreeSlot(s) \/ TakeIdle(s) \/ CloseIdle(s) \/ Leave(s))

LoopNext(r) ==
    \/ LoopStopping(r) \/ LoopDone(r) \/ LoopPaused(r) \/ LoopLaunch(r) \/ LoopWait(r)
    \/ Wake(r) \/ Interrupt(r) \/ LogResumed(r) \/ LogDone(r) \/ LogEnd(r)
    \/ Finish(r) \/ CloseSessions(r) \/ Forget(r)

CallNext(c) ==
    \/ StartLog(c) \/ ReadLog(c) \/ ResumeNew(c) \/ ResumeLaunch(c) \/ CancelAppend(c)

Next ==
    \/ \E s \in Steps : StepNext(s) \/ ExchangeEnds(s)
    \/ \E r \in Runs : LoopNext(r)
    \/ \E c \in Callers : CallNext(c) \/ \E r \in Runs : Start(c, r) \/ Resume(c, r) \/ Cancel(c, r)
    \/ Shutdown \/ Restart \/ Crash \/ Tick \/ Terminated

Spec == Init /\ [][Next]_vars

(* A goroutine that can go on does, an exchange ends, a call that began    *)
(* goes on, and time passes.  Nothing makes anyone call the Runner.        *)
Fairness ==
    /\ \A s \in Steps : WF_vars(StepNext(s)) /\ WF_vars(ExchangeEnds(s))
    /\ \A r \in Runs : WF_vars(LoopNext(r))
    /\ \A c \in Callers : WF_vars(CallNext(c))
    /\ WF_vars(Tick)

FairSpec == Spec /\ Fairness

=============================================================================
