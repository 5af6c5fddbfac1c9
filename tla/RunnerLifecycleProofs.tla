------------------------- MODULE RunnerLifecycleProofs -------------------------
(***************************************************************************)
(* The life of a run's log: what was decided stays, a failed run starts    *)
(* nothing, no work outlives the loop, a run's end is one its steps        *)
(* account for, and the logs implement RunLifecycle, for every workflow,   *)
(* limit and bound.                                                        *)
(***************************************************************************)
EXTENDS RunnerProofs, WorkflowProofs

(* The first inductive invariant.  A step is in the log as one that goes   *)
(* on while its goroutine works; a run whose loop is over, or has yet to   *)
(* begin, has no goroutine at work; a state a caller holds, and the state  *)
(* of a run that goes on, is one of a run that began and has not ended.    *)
Working == {"open", "opened", "adopt", "send", "started", "follow", "end", "classify", "log"}
Over == {"off", "new", "logDone", "logEnd", "finish", "closing", "forget"}
Active == {"eval", "start", "wait", "drain", "logDone", "logResume", "logEnd"}

Live(st) == st.seq > 0 /\ st.status \notin Ended
Going(st, s) ==
    /\ Live(st)
    /\ st.steps[s].status \in {"pending", "running"}
    /\ \A t \in After[s] : st.steps[t].status = "done"

Quiet == \A r \in Runs : loop[r] \in Over => \A s \in StepsOf(r) : pc[s] \in Releasing
AtWork == \A s \in Steps : pc[s] \in Working => Going(mem[RunOf[s]], s)
FailNoted == \A s \in Steps : pc[s] = "fail" => mem[RunOf[s]].steps[s].status = "failed"
ActiveLive == \A r \in Runs : loop[r] \in Active => Live(mem[r])

(* The calls: a run that is registered and not launched is one caller's,   *)
(* and a log begins with the one call of Start.                            *)
Pending == {c \in Callers : call[c].pc \in {"logStart", "settle"}}
OnePending ==
    \A c \in Pending :
      /\ loop[call[c].run] = "new"
      /\ \A d \in Pending : call[c].run = call[d].run => c = d
Starters ==
    \A c \in Callers : call[c].pc = "logStart" =>
      /\ call[c].op = "start" /\ call[c].run \in Accepted
      /\ disk[call[c].run].seq = 0 /\ mem[call[c].run] = Empty
Settlers == \A c \in Callers : call[c].pc = "settle" => Live(mem[call[c].run])
Readers == \A c \in Callers : call[c].pc \in {"newRun", "cappend"} => Live(call[c].seen)
StartOnce ==
    \A c, d \in Callers :
      call[c].op = "start" /\ call[d].op = "start" /\ call[c].run = call[d].run => c = d
Began ==
    \A r \in Runs : disk[r].seq > 0 =>
      r \in Accepted /\ \E c \in Callers : call[c].op = "start" /\ call[c].run = r

WorkInv == Quiet /\ AtWork /\ FailNoted /\ ActiveLive
CallInv == OnePending /\ Starters /\ Settlers /\ Readers /\ StartOnce /\ Began

(* The end of a run: its loop stops for a step that failed or was          *)
(* cancelled, and has failed for a step that has.                          *)
FailedStops ==
    \A r \in Runs : loop[r] \in Active =>
      \A t \in StepsOf(r) : mem[r].steps[t].status = "failed" => failure[r] \/ pc[t] = "fail"
CancelledStops ==
    \A r \in Runs : loop[r] \in Active => \A t \in StepsOf(r) :
      mem[r].steps[t].status = "cancelled" \/ (pc[t] = "log" /\ x[t] = "cancelled") => StepsOver(r)
StoppedFails == \A r \in Runs : loop[r] \in Active /\ stopped[r] => failure[r]
FailureHasStep ==
    \A r \in Runs : failure[r] => \E t \in StepsOf(r) : mem[r].steps[t].status = "failed"
AllDoneAtEnd == \A r \in Runs : loop[r] = "logDone" => AllDone(r)

(* A loop that starts steps has started one; a run to launch is unstopped. *)
Launched ==
    \A r \in Runs :
      /\ loop[r] = "start" => Inflight(r) # {}
      /\ loop[r] = "new" => ~stopped[r]

(* An exchange that ended well is logged as done only after its start was. *)
RanFirst ==
    \A s \in Steps :
      /\ pc[s] = "log" /\ x[s] = "done" => mem[RunOf[s]].steps[s].status = "running"
      /\ pc[s] = "follow" \/ (pc[s] \in {"end", "classify"} /\ x[s] = "ok") =>
           mem[RunOf[s]].steps[s].status = "running" \/ cause[RunOf[s]] # "none"
StopInv == FailedStops /\ CancelledStops /\ StoppedFails /\ FailureHasStep /\ AllDoneAtEnd
           /\ RanFirst /\ Launched

(* A run that is not interrupted knows how the steps of its log stand, but *)
(* for one that was resumed from a pause, which asks the log before it     *)
(* goes on; and while the loop starts steps, none of them has failed.      *)
StepsKnown ==
    \A r \in Runs : loop[r] \in Active /\ cause[r] = "none" /\ mem[r].status # "paused" =>
      mem[r].steps = disk[r].steps
StartClean ==
    \A r \in Runs : loop[r] = "start" =>
      \A t \in StepsOf(r) : disk[r].steps[t].status = "failed" => pc[t] # "none"
KnownInv == StepsKnown /\ StartClean

(* A state some log of the run r had: steps are done after those they come *)
(* after, and the steps account for the end.                               *)
Sound(st, r) ==
    /\ st.seq > 0 => st.status # "none"
    /\ \A s \in StepsOf(r) : st.steps[s].status = "done" =>
         \A t \in After[s] : st.steps[t].status = "done"
    /\ st.status = "done" => \A s \in StepsOf(r) : st.steps[s].status = "done"
    /\ st.status = "failed" => \E s \in StepsOf(r) : st.steps[s].status = "failed"
SoundInv ==
    /\ \A r \in Runs : Sound(disk[r], r) /\ Sound(mem[r], r)
    /\ \A c \in Callers : call[c].pc \in {"newRun", "cappend"} => Sound(call[c].seen, call[c].run)

-----------------------------------------------------------------------------
(* What the events do to a state.                                          *)

LEMMA RunEventIs ==
  ASSUME NEW st \in State
  PROVE  /\ Apply(st, RunStarted).steps = Empty.steps /\ Apply(st, RunStarted).status = "running"
         /\ Apply(st, RunResumed).steps = st.steps /\ Apply(st, RunResumed).status = "running"
         /\ \A n : LET a == Apply(st, SessionOpened(n)) IN a.steps = st.steps /\ a.status = st.status
         /\ \A t : LET a == Apply(st, RunPaused(t)) IN a.steps = st.steps /\ a.status = "paused"
         /\ \A z : LET a == Apply(st, RunEnded(z)) IN a.steps = st.steps /\ a.status = z
BY DEF Apply, Fold, State, Empty, RunStarted, RunResumed, SessionOpened, RunPaused, RunEnded

LEMMA StepStartedIs ==
  ASSUME NEW st \in State, NEW s \in Steps, NEW i
  PROVE  LET a == Apply(st, StepStarted(s, i)) IN
         /\ a.status = st.status /\ a.steps[s].status = "running"
         /\ \A t \in Steps \ {s} : a.steps[t] = st.steps[t]
BY DEF Apply, Fold, State, StepStarted

LEMMA StepEndedIs ==
  ASSUME NEW st \in State, NEW s \in Steps, NEW i, NEW z
  PROVE  LET a == Apply(st, StepEnded(s, i, z)) IN
         /\ a.status = st.status /\ a.steps[s].status = z
         /\ \A t \in Steps \ {s} : a.steps[t] = st.steps[t]
BY DEF Apply, Fold, State, StepEnded

-----------------------------------------------------------------------------
(* The goroutine of a step.                                                *)

(* Its way from "open" to "none" is one way.                               *)
LEMMA StepWays ==
  ASSUME TypeOK, NEW s \in Steps, StepNext(s)
  PROVE  /\ pc'[s] \in Working => pc[s] \in Working
         /\ pc[s] \in Releasing => pc'[s] \in Releasing
         /\ pc'[s] = "fail" => pc[s] = "log"
<1> USE DEF To, EndErr, Working, Releasing
<1>0. pc \in [Steps -> StepPC]
  BY DEF TypeOK
<1>1. CASE OpenSession(s) \/ LogOpened(s) \/ Adopt(s)
  BY <1>0, <1>1 DEF OpenSession, LogOpened, Adopt
<1>2. CASE Send(s) \/ LogStarted(s) \/ Follow(s)
  BY <1>0, <1>2 DEF Send, LogStarted, Follow
<1>3. CASE EndInterrupted(s) \/ EndClassify(s) \/ LogEnded(s) \/ Fail(s)
  BY <1>0, <1>3 DEF EndInterrupted, EndClassify, LogEnded, Fail
<1>4. CASE FreeSlot(s) \/ TakeIdle(s) \/ CloseIdle(s) \/ Leave(s)
  BY <1>0, <1>4 DEF FreeSlot, TakeIdle, CloseIdle, Leave
<1> QED
  BY <1>1, <1>2, <1>3, <1>4 DEF StepNext

(* What it does to the state of its run: the states of the other steps     *)
(* stay, and its own is one to go on from while it goes on.                *)
Keeping(m, n, s) ==
    /\ Live(m) => Live(n)
    /\ \A t \in Steps \ {s} : n.steps[t] = m.steps[t]
StepKeeping(s) ==
    LET r == RunOf[s] IN
    /\ \A q \in Runs \ {r} : mem'[q] = mem[q]
    /\ Keeping(mem[r], mem'[r], s)
    /\ pc'[s] \in Working => mem'[r].steps[s].status \in {"pending", "running"}
    /\ pc'[s] = "fail" => mem'[r].steps[s].status = "failed"

LEMMA MemSame ==
  ASSUME TypeOK, WorkInv, NEW s \in Steps, StepNext(s), mem' = mem, pc'[s] # "fail"
  PROVE  StepKeeping(s)
BY StepWays DEF StepKeeping, Keeping, WorkInv, AtWork, Going

(* The events a step logs, and what an append of one, made or failed, does *)
(* to the state.                                                           *)
OwnEvent(s, e) ==
    \/ e = SessionOpened(Sess[s])
    \/ \E t \in Nat : e = RunPaused(t)
    \/ \E i \in Nat : e = StepStarted(s, i) \/ \E z \in Ended : e = StepEnded(s, i, z)

LEMMA OwnIsEvent ==
  ASSUME NEW s \in Steps, NEW e, OwnEvent(s, e)
  PROVE  e \in Event
BY SessAssumption DEF OwnEvent, Event

LEMMA Keeps1 ==
  ASSUME NEW m \in State, NEW s \in Steps, NEW e, OwnEvent(s, e)
  PROVE  Keeping(m, Apply(m, e), s)
<1>1. Apply(m, e).seq = m.seq + 1 /\ m.seq \in Nat
  BY OwnIsEvent, ApplyType DEF State
<1>2. (Apply(m, e).status = m.status \/ Apply(m, e).status = "paused")
      /\ \A t \in Steps \ {s} : Apply(m, e).steps[t] = m.steps[t]
  <2>1. CASE e = SessionOpened(Sess[s])
    BY <2>1, RunEventIs
  <2>2. ASSUME NEW t \in Nat, e = RunPaused(t)
        PROVE  Apply(m, e).status = "paused" /\ Apply(m, e).steps = m.steps
    BY <2>2, RunEventIs
  <2>3. ASSUME NEW i \in Nat, e = StepStarted(s, i) \/ \E z \in Ended : e = StepEnded(s, i, z)
        PROVE  Apply(m, e).status = m.status
               /\ \A t \in Steps \ {s} : Apply(m, e).steps[t] = m.steps[t]
    BY <2>3, StepStartedIs, StepEndedIs
  <2> QED
    BY <2>1, <2>2, <2>3 DEF OwnEvent
<1> QED
  BY <1>1, <1>2 DEF Keeping, Live, Ended

LEMMA OwnKeeps ==
  ASSUME TypeOK, NEW s \in Steps, NEW e, OwnEvent(s, e),
         Logged(RunOf[s], e) \/ NotLogged(RunOf[s], e)
  PROVE  /\ \A q \in Runs \ {RunOf[s]} : mem'[q] = mem[q]
         /\ Keeping(mem[RunOf[s]], mem'[RunOf[s]], s)
<1>0. RunOf[s] \in Runs /\ mem \in [Runs -> State]
  BY RunOfAssumption DEF TypeOK
<1>1. CASE Logged(RunOf[s], e)
  <2>1. mem' = [mem EXCEPT ![RunOf[s]] = Apply(mem[RunOf[s]], e)]
    BY <1>1 DEF Logged
  <2> QED
    BY <1>0, <2>1, Keeps1
<1>2. CASE NotLogged(RunOf[s], e)
  BY <1>0, <1>2 DEF NotLogged, Keeping
<1> QED
  BY <1>1, <1>2

LEMMA StepKeepsState ==
  ASSUME TypeOK, WorkInv, NEW s \in Steps, StepNext(s)
  PROVE  StepKeeping(s)
<1> DEFINE r == RunOf[s]
<1> USE DEF vars, logVars, worldVars, runVars, envVars, procVars, ctxVars, loopVars, stepVars
<1>0. r \in Runs /\ mem \in [Runs -> State] /\ pc \in [Steps -> StepPC] /\ id \in [Steps -> Nat]
      /\ till \in [Steps -> Nat]
  BY RunOfAssumption DEF TypeOK
<1>w. pc[s] \in Working => Going(mem[r], s)
  BY DEF WorkInv, AtWork
<1>1. CASE LogOpened(s)
  <2> DEFINE e == SessionOpened(Sess[s])
  <2>1. OwnEvent(s, e)
    BY DEF OwnEvent
  <2>2. Logged(r, e) \/ NotLogged(r, e)
    BY <1>1 DEF LogOpened
  <2>3. pc[s] \in Working /\ pc'[s] # "fail"
    BY <1>0, <1>1 DEF LogOpened, To, EndErr, Working
  <2>4. mem'[r].steps = mem[r].steps
    BY <1>0, <2>2, RunEventIs DEF Logged, NotLogged
  <2> QED
    BY <1>w, <2>1, <2>2, <2>3, <2>4, OwnKeeps DEF StepKeeping, Going
<1>2. CASE Adopt(s)
  <2> DEFINE e == StepEnded(s, mem[r].steps[s].ex, "done")
  <2>1. OwnEvent(s, e)
    BY <1>0 DEF OwnEvent, Ended, State
  <2>2. CASE mem' = mem
    BY <1>0, <1>2, <2>2, MemSame DEF Adopt, To, EndErr, StepNext
  <2>3. CASE Logged(r, e) /\ To(s, "free")
    <3>1. pc'[s] = "free"
      BY <1>0, <2>3 DEF To
    <3> QED
      BY <2>1, <2>3, <3>1, OwnKeeps DEF StepKeeping, Working
  <2> QED
    BY <1>2, <2>2, <2>3 DEF Adopt, NotLogged
<1>3. CASE LogStarted(s)
  <2> DEFINE e == StepStarted(s, id[s])
  <2>1. OwnEvent(s, e)
    BY <1>0 DEF OwnEvent
  <2>2. pc'[s] = "follow" /\ (Logged(r, e) \/ NotLogged(r, e))
    BY <1>0, <1>3 DEF LogStarted, To
  <2>3. CASE Logged(r, e)
    <3>1. mem'[r] = Apply(mem[r], e)
      BY <1>0, <2>3 DEF Logged
    <3>2. mem'[r].steps[s].status = "running"
      BY <1>0, <3>1, StepStartedIs
    <3> QED
      BY <2>1, <2>2, <3>2, OwnKeeps DEF StepKeeping
  <2>4. CASE NotLogged(r, e)
    BY <2>2, <2>4, MemSame DEF NotLogged
  <2> QED
    BY <2>2, <2>3, <2>4
<1>4. CASE LogEnded(s)
  <2> DEFINE e == EndEvent(s)
  <2>1. CASE Logged(r, e) /\ To(s, IF x[s] = "failed" THEN "fail" ELSE "free")
    <3>1. OwnEvent(s, e)
      <4>1. CASE x[s] = "paused"
        BY <1>0, <4>1 DEF EndEvent, OwnEvent
      <4>2. CASE x[s] # "paused"
        <5>1. e = StepEnded(s, id[s], x[s]) /\ Follows(mem[r], e)
          BY <2>1, <4>2 DEF EndEvent, Logged
        <5>2. x[s] \in Ended
          BY <5>1 DEF Follows, StepEnded
        <5> QED
          BY <1>0, <5>1, <5>2 DEF OwnEvent
      <4> QED
        BY <4>1, <4>2
    <3>2. pc'[s] = IF x[s] = "failed" THEN "fail" ELSE "free"
      BY <1>0, <2>1 DEF To
    <3>3. ASSUME x[s] = "failed" PROVE mem'[r].steps[s].status = "failed"
      <4>1. mem'[r] = Apply(mem[r], StepEnded(s, id[s], "failed"))
        BY <1>0, <2>1, <3>3 DEF Logged, EndEvent
      <4> QED
        BY <1>0, <4>1, StepEndedIs
    <3> HIDE DEF e
    <3> QED
      BY <2>1, <3>1, <3>2, <3>3, OwnKeeps DEF StepKeeping, Working
  <2>2. CASE NotLogged(r, e) /\ To(s, "free")
    BY <1>0, <2>2, MemSame DEF NotLogged, To
  <2> QED
    BY <1>4, <2>1, <2>2 DEF LogEnded
<1>5. CASE OpenSession(s) \/ Send(s) \/ Follow(s) \/ EndInterrupted(s) \/ EndClassify(s)
           \/ Fail(s) \/ FreeSlot(s) \/ TakeIdle(s) \/ CloseIdle(s) \/ Leave(s)
  <2>1. mem' = mem
    BY <1>5 DEF OpenSession, Send, Follow, EndInterrupted, EndClassify, Fail, FreeSlot,
                TakeIdle, CloseIdle, Leave
  <2>2. pc'[s] # "fail"
    BY <1>0, <1>5 DEF To, EndErr, OpenSession, Send, Follow, EndInterrupted, EndClassify, Fail,
                FreeSlot, TakeIdle, CloseIdle, Leave
  <2> QED
    BY <2>1, <2>2, MemSame
<1> QED
  BY <1>1, <1>2, <1>3, <1>4, <1>5 DEF StepNext

(* A step logs only while it works, and so nothing once it has ended. *)
LEMMA StepLogsAtWork ==
  ASSUME NEW s \in Steps, StepNext(s), pc[s] \notin Working
  PROVE  mem' = mem /\ disk' = disk
BY DEF StepNext, Working, OpenSession, LogOpened, Adopt, Send, LogStarted, Follow,
       EndInterrupted, EndClassify, LogEnded, Fail, FreeSlot, TakeIdle, CloseIdle, Leave,
       vars, logVars, worldVars, runVars, envVars, procVars, ctxVars, loopVars, stepVars

LEMMA StepKeepsEnd ==
  ASSUME WorkInv, NEW s \in Steps, StepNext(s), mem[RunOf[s]].steps[s].status \in Ended
  PROVE  mem' = mem /\ disk' = disk
<1>1. pc[s] \notin Working
  BY DEF WorkInv, AtWork, Going, Ended
<1> QED
  BY <1>1, StepLogsAtWork

LEMMA StepWorks ==
  ASSUME TypeOK, WorkInv, NEW s \in Steps, StepNext(s)
  PROVE  WorkInv'
<1> DEFINE r == RunOf[s]
<1>0. r \in Runs /\ After \in [Steps -> SUBSET Steps] /\ \A t \in Steps : RunOf[t] \in Runs
  BY RunOfAssumption, AfterAssumption
<1>1. \A t \in Steps \ {s} : pc'[t] = pc[t] /\ x'[t] = x[t]
  BY StepOwn
<1>2. loop' = loop /\ call' = call
  BY StepOwn
<1>3. StepKeeping(s)
  BY StepKeepsState
<1>4. \A t \in Steps : mem[r].steps[t].status \in Ended => mem'[r].steps[t] = mem[r].steps[t]
  <2>1. ASSUME mem[r].steps[s].status \in Ended PROVE mem'[r].steps[s] = mem[r].steps[s]
    BY <2>1, StepKeepsEnd
  <2> QED
    BY <1>3, <2>1 DEF StepKeeping, Keeping
<1>5. AtWork'
  <2> SUFFICES ASSUME NEW t \in Steps, pc'[t] \in Working
               PROVE  Going(mem'[RunOf[t]], t)
    BY DEF AtWork
  <2>1. Going(mem[RunOf[t]], t)
    <3>1. pc[t] \in Working
      BY <1>1, StepWays
    <3> QED
      BY <3>1 DEF WorkInv, AtWork
  <2>2. CASE RunOf[t] # r
    <3>1. mem'[RunOf[t]] = mem[RunOf[t]]
      BY <1>0, <1>3, <2>2 DEF StepKeeping
    <3> QED
      BY <2>1, <3>1
  <2>3. CASE RunOf[t] = r
    <3>1. Live(mem'[r])
      BY <1>3, <2>1, <2>3 DEF StepKeeping, Keeping, Going
    <3>2. mem'[r].steps[t].status \in {"pending", "running"}
      BY <1>3, <2>1, <2>3 DEF StepKeeping, Keeping, Going
    <3>3. ASSUME NEW u \in After[t] PROVE mem'[r].steps[u].status = "done"
      <4>1. u \in Steps
        BY <1>0, <3>3
      <4>2. mem[r].steps[u].status = "done"
        BY <2>1, <2>3, <3>3 DEF Going
      <4> QED
        BY <1>4, <4>1, <4>2 DEF Ended
    <3> QED
      BY <2>3, <3>1, <3>2, <3>3 DEF Going
  <2> QED
    BY <2>2, <2>3
<1>6. FailNoted'
  <2> SUFFICES ASSUME NEW t \in Steps, pc'[t] = "fail"
               PROVE  mem'[RunOf[t]].steps[t].status = "failed"
    BY DEF FailNoted
  <2>1. CASE t = s
    BY <1>3, <2>1 DEF StepKeeping
  <2>2. CASE t # s
    <3>1. mem[RunOf[t]].steps[t].status = "failed"
      BY <1>1, <2>2 DEF WorkInv, FailNoted
    <3>2. mem'[RunOf[t]].steps[t] = mem[RunOf[t]].steps[t]
      BY <1>0, <1>3, <2>2 DEF StepKeeping, Keeping
    <3> QED
      BY <3>1, <3>2
  <2> QED
    BY <2>1, <2>2
<1>7. Quiet'
  <2> SUFFICES ASSUME NEW q \in Runs, loop[q] \in Over, NEW t \in StepsOf(q)
               PROVE  pc'[t] \in Releasing
    BY <1>2 DEF Quiet, StepsOf
  <2>1. t \in Steps /\ pc[t] \in Releasing
    BY DEF WorkInv, Quiet, StepsOf
  <2> QED
    BY <1>1, <2>1, StepWays
<1>8. ActiveLive'
  BY <1>0, <1>2, <1>3 DEF WorkInv, ActiveLive, StepKeeping, Keeping
<1> QED
  BY <1>5, <1>6, <1>7, <1>8 DEF WorkInv

-----------------------------------------------------------------------------
(* What is appended to a log: run_started to one without events, and to    *)
(* one of a run that goes on an event that its state allows.               *)
MayFollow(st, r, e) ==
    /\ Live(st)
    /\ \/ e = RunResumed
       \/ \E s \in StepsOf(r) :
            /\ Going(st, s) /\ OwnEvent(s, e)
            /\ \A i : e = StepEnded(s, i, "done") => st.steps[s].status = "running"
       \/ \E z \in Ended :
            /\ e = RunEnded(z)
            /\ z = "done" => \A s \in StepsOf(r) : st.steps[s].status = "done"
            /\ z = "failed" => \E s \in StepsOf(r) : st.steps[s].status = "failed"
Appended(r, e) == disk' = [disk EXCEPT ![r] = Apply(@, e)]
Extends == disk' = disk \/ \E r \in Runs : \E e : MayFollow(disk[r], r, e) /\ Appended(r, e)

LEMMA MayIsEvent ==
  ASSUME NEW st, NEW r \in Runs, NEW e, MayFollow(st, r, e)
  PROVE  e \in Event
BY OwnIsEvent DEF MayFollow, Event, StepsOf

LEMMA AppendExtends ==
  ASSUME TypeOK, LogInv, NEW r \in Runs, NEW e, Follows(mem[r], e) => MayFollow(mem[r], r, e),
         Logged(r, e) \/ NotLogged(r, e)
  PROVE  Extends
<1>1. CASE Follows(mem[r], e) /\ mem[r].seq = disk[r].seq
  <2>1. mem[r] = disk[r]
    BY <1>1 DEF LogInv, MemBehind, Behind
  <2>2. disk' = disk \/ Appended(r, e)
    BY <1>1 DEF Logged, NotLogged, Fault, Appended
  <2> QED
    BY <1>1, <2>1, <2>2 DEF Extends
<1>2. CASE ~(Follows(mem[r], e) /\ mem[r].seq = disk[r].seq)
  BY <1>2 DEF Logged, NotLogged, Extends
<1> QED
  BY <1>1, <1>2

LEMMA StepExtends ==
  ASSUME TypeOK, LogInv, WorkInv, StopInv, NEW s \in Steps, StepNext(s)
  PROVE  Extends
<1> DEFINE r == RunOf[s]
<1> USE DEF vars, logVars, worldVars, runVars, envVars, procVars, ctxVars, loopVars, stepVars
<1>0. r \in Runs /\ s \in StepsOf(r) /\ mem \in [Runs -> State] /\ id \in [Steps -> Nat]
      /\ till \in [Steps -> Nat]
  BY RunOfAssumption DEF TypeOK, StepsOf
<1>w. ASSUME pc[s] \in Working, NEW e, OwnEvent(s, e),
             \A i : e = StepEnded(s, i, "done") => mem[r].steps[s].status = "running"
      PROVE  MayFollow(mem[r], r, e)
  BY <1>0, <1>w DEF WorkInv, AtWork, Going, MayFollow
<1>1. CASE LogOpened(s)
  <2> DEFINE e == SessionOpened(Sess[s])
  <2>1. OwnEvent(s, e) /\ \A i : e # StepEnded(s, i, "done")
    BY DEF OwnEvent, SessionOpened, StepEnded
  <2> QED
    BY <1>0, <1>1, <1>w, <2>1, AppendExtends DEF LogOpened, Working
<1>2. CASE Adopt(s)
  <2> DEFINE e == StepEnded(s, mem[r].steps[s].ex, "done")
  <2>1. OwnEvent(s, e)
    BY <1>0 DEF OwnEvent, Ended, State
  <2>2. CASE disk' = disk
    BY <2>2 DEF Extends
  <2>3. CASE mem[r].steps[s].status = "running" /\ (Logged(r, e) \/ NotLogged(r, e))
    BY <1>0, <1>2, <1>w, <2>1, <2>3, AppendExtends DEF Adopt, Working
  <2> QED
    BY <1>2, <2>2, <2>3 DEF Adopt
<1>3. CASE LogStarted(s)
  <2> DEFINE e == StepStarted(s, id[s])
  <2>1. OwnEvent(s, e) /\ \A i : e # StepEnded(s, i, "done")
    BY <1>0 DEF OwnEvent, StepStarted, StepEnded
  <2> QED
    BY <1>0, <1>3, <1>w, <2>1, AppendExtends DEF LogStarted, Working
<1>4. CASE LogEnded(s)
  <2> DEFINE e == EndEvent(s)
  <2>1. ASSUME Follows(mem[r], e) PROVE MayFollow(mem[r], r, e)
    <3>1. CASE x[s] = "paused"
      <4>1. e = RunPaused(till[s])
        BY <3>1 DEF EndEvent
      <4>2. OwnEvent(s, RunPaused(till[s])) /\ \A i : RunPaused(till[s]) # StepEnded(s, i, "done")
        BY <1>0 DEF OwnEvent, RunPaused, StepEnded
      <4> QED
        BY <1>4, <1>w, <4>1, <4>2 DEF LogEnded, Working
    <3>2. CASE x[s] # "paused"
      <4>1. e = StepEnded(s, id[s], x[s])
        BY <3>2 DEF EndEvent
      <4>2. x[s] \in Ended
        BY <2>1, <4>1 DEF Follows, StepEnded
      <4>3. OwnEvent(s, StepEnded(s, id[s], x[s]))
        BY <1>0, <4>2 DEF OwnEvent
      <4>4. x[s] = "done" => mem[r].steps[s].status = "running"
        BY <1>4 DEF LogEnded, StopInv, RanFirst
      <4>5. \A i : StepEnded(s, id[s], x[s]) = StepEnded(s, i, "done") => x[s] = "done"
        BY DEF StepEnded
      <4> QED
        BY <1>4, <1>w, <4>1, <4>3, <4>4, <4>5 DEF LogEnded, Working
    <3> QED
      BY <3>1, <3>2
  <2>2. Logged(r, e) \/ NotLogged(r, e)
    BY <1>4 DEF LogEnded
  <2> HIDE DEF e
  <2> QED
    BY <1>0, <2>1, <2>2, AppendExtends
<1>5. CASE OpenSession(s) \/ Send(s) \/ Follow(s) \/ EndInterrupted(s) \/ EndClassify(s)
           \/ Fail(s) \/ FreeSlot(s) \/ TakeIdle(s) \/ CloseIdle(s) \/ Leave(s)
  BY <1>5 DEF Extends, OpenSession, Send, Follow, EndInterrupted, EndClassify, Fail, FreeSlot,
              TakeIdle, CloseIdle, Leave
<1> QED
  BY <1>1, <1>2, <1>3, <1>4, <1>5 DEF StepNext

LEMMA LoopExtends ==
  ASSUME TypeOK, LogInv, WorkInv, StopInv, NEW r \in Runs, LoopNext(r)
  PROVE  Extends
<1> USE DEF vars, logVars, worldVars, runVars, envVars, procVars, ctxVars, loopVars, stepVars
<1>1. CASE LogResumed(r)
  <2>1. MayFollow(mem[r], r, RunResumed)
    BY <1>1 DEF LogResumed, WorkInv, ActiveLive, Active, MayFollow
  <2> QED
    BY <1>1, <2>1, AppendExtends DEF LogResumed
<1>2. CASE LogDone(r)
  <2>1. MayFollow(mem[r], r, RunEnded("done"))
    BY <1>2 DEF LogDone, WorkInv, ActiveLive, Active, StopInv, AllDoneAtEnd, AllDone, MayFollow, Ended
  <2> QED
    BY <1>2, <2>1, AppendExtends DEF LogDone, LogRunEnded
<1>3. CASE LogEnd(r)
  <2> DEFINE z == IF failure[r] THEN "failed" ELSE "cancelled"
  <2>1. MayFollow(mem[r], r, RunEnded(z))
    BY <1>3 DEF LogEnd, WorkInv, ActiveLive, Active, StopInv, FailureHasStep, MayFollow, Ended
  <2>2. disk' = disk \/ LogRunEnded(r, z)
    BY <1>3 DEF LogEnd
  <2> QED
    BY <2>1, <2>2, AppendExtends DEF LogRunEnded, Extends
<1>4. CASE LoopStopping(r) \/ LoopDone(r) \/ LoopPaused(r) \/ LoopLaunch(r) \/ LoopWait(r)
           \/ Wake(r) \/ Interrupt(r) \/ Finish(r) \/ CloseSessions(r) \/ Forget(r)
  BY <1>4 DEF Extends, LoopStopping, LoopDone, LoopPaused, LoopLaunch, LoopWait, Wake, Interrupt,
              Finish, CloseSessions, Forget
<1> QED
  BY <1>1, <1>2, <1>3, <1>4 DEF LoopNext

LEMMA CallExtends ==
  ASSUME TypeOK, LogInv, CallInv, NEW c \in Callers, CallNext(c), ~StartLog(c)
  PROVE  Extends
<1> DEFINE r == call[c].run
<1> USE DEF vars, logVars, worldVars, runVars, envVars, procVars, ctxVars, loopVars, stepVars
<1>0. r \in Runs
  BY DEF TypeOK, Call
<1>1. CASE ResumeLaunch(c)
  <2>1. MayFollow(mem[r], r, RunResumed)
    BY <1>1 DEF ResumeLaunch, CallInv, Settlers, MayFollow
  <2>2. disk' = disk \/ (mem[r].seq = disk[r].seq /\ Appended(r, RunResumed))
    BY <1>1 DEF ResumeLaunch, Logged, Fault, Appended
  <2>3. mem[r].seq = disk[r].seq => mem[r] = disk[r]
    BY <1>0 DEF LogInv, MemBehind, Behind
  <2> QED
    BY <1>0, <2>1, <2>2, <2>3 DEF Extends
<1>2. CASE CancelAppend(c)
  <2>1. MayFollow(call[c].seen, r, RunEnded("cancelled"))
    BY <1>2 DEF CancelAppend, CallInv, Readers, MayFollow, Ended
  <2>2. disk' = disk \/ (call[c].seen.seq = disk[r].seq /\ Appended(r, RunEnded("cancelled")))
    BY <1>2 DEF CancelAppend, Fault, Appended
  <2>3. call[c].seen.seq = disk[r].seq => call[c].seen = disk[r]
    BY <1>2 DEF CancelAppend, LogInv, SeenBehind, Behind
  <2> QED
    BY <1>0, <2>1, <2>2, <2>3 DEF Extends
<1>3. CASE ReadLog(c) \/ ResumeNew(c)
  BY <1>3 DEF ReadLog, ResumeNew, Extends
<1> QED
  BY <1>1, <1>2, <1>3 DEF CallNext

LEMMA StartExtends ==
  ASSUME TypeOK, LogInv, CallInv, NEW c \in Callers, StartLog(c)
  PROVE  /\ disk[call[c].run] = Empty
         /\ disk' = disk \/ Appended(call[c].run, RunStarted)
<1>1. call[c].run \in Runs
  BY DEF TypeOK, Call
<1> QED
  BY <1>1 DEF StartLog, Logged, Fault, Appended, CallInv, Starters, LogInv, ZeroIsEmpty, vars, logVars

-----------------------------------------------------------------------------
(* The loop of a run.                                                      *)

LEMMA LoopOwn ==
  ASSUME TypeOK, NEW r \in Runs, LoopNext(r)
  PROVE  /\ loop[r] \notin {"off", "new"} /\ loop'[r] # "new" /\ call' = call
         /\ \A q \in Runs \ {r} : loop'[q] = loop[q] /\ mem'[q] = mem[q]
         /\ x' = x /\ \A s \in Steps : pc'[s] = pc[s] \/ (LoopLaunch(r) /\ pc'[s] = "open" /\ RunOf[s] = r)
<1> USE DEF vars, logVars, worldVars, runVars, envVars, procVars, ctxVars, loopVars, stepVars, Go
<1>0. loop \in [Runs -> LoopPC] /\ mem \in [Runs -> State] /\ pc \in [Steps -> StepPC]
  BY DEF TypeOK
<1>1. CASE LoopStopping(r) \/ LoopDone(r) \/ LoopPaused(r) \/ LoopWait(r)
  BY <1>0, <1>1 DEF LoopStopping, LoopDone, LoopPaused, LoopWait, LoopReady
<1>2. CASE LoopLaunch(r)
  <2>1. PICK s \in FirstReady(r) : To(s, "open")
    BY <1>2 DEF LoopLaunch
  <2>2. s \in Steps /\ RunOf[s] = r
    BY DEF FirstReady, Ready, StepsOf
  <2> QED
    BY <1>0, <1>2, <2>1, <2>2 DEF LoopLaunch, LoopReady, To
<1>3. CASE Wake(r) \/ Interrupt(r) \/ Finish(r) \/ CloseSessions(r)
  BY <1>0, <1>3 DEF Wake, Interrupt, Finish, CloseSessions
<1>4. CASE LogResumed(r) \/ LogDone(r) \/ LogEnd(r)
  BY <1>0, <1>4 DEF LogResumed, LogDone, LogEnd, LogRunEnded, Logged, NotLogged
<1>5. CASE Forget(r)
  BY <1>0, <1>5 DEF Forget, Cleared
<1> QED
  BY <1>1, <1>2, <1>3, <1>4, <1>5 DEF LoopNext

(* A move of the loop that leaves the goroutines of the run where they are *)
(* and what its state says of the steps as it was.                         *)
LoopMoving(r) ==
    /\ loop'[r] \in Over => \A s \in StepsOf(r) : pc[s] \in Releasing
    /\ loop'[r] \in Active => Live(mem'[r])
    /\ (\E s \in StepsOf(r) : pc[s] \notin Releasing) =>
         mem'[r].steps = mem[r].steps /\ (Live(mem[r]) => Live(mem'[r]))

LEMMA MovingWorks ==
  ASSUME TypeOK, WorkInv, NEW r \in Runs, pc' = pc, LoopMoving(r),
         \A q \in Runs \ {r} : loop'[q] = loop[q] /\ mem'[q] = mem[q]
  PROVE  WorkInv'
<1>0. RunOf \in [Steps -> Runs]
  BY RunOfAssumption
<1>1. ASSUME NEW s \in Steps, pc[s] \notin Releasing
      PROVE  /\ mem'[RunOf[s]].steps = mem[RunOf[s]].steps
             /\ Live(mem[RunOf[s]]) => Live(mem'[RunOf[s]])
  BY <1>0, <1>1 DEF LoopMoving, StepsOf
<1>2. Working \cap Releasing = {} /\ "fail" \notin Releasing
  BY DEF Working, Releasing
<1>3. AtWork'
  BY <1>1, <1>2 DEF WorkInv, AtWork, Going
<1>4. FailNoted'
  BY <1>1, <1>2 DEF WorkInv, FailNoted
<1>5. Quiet'
  BY DEF WorkInv, Quiet, LoopMoving, StepsOf
<1>6. ActiveLive'
  BY DEF WorkInv, ActiveLive, LoopMoving
<1> QED
  BY <1>3, <1>4, <1>5, <1>6 DEF WorkInv

LEMMA LiveResumed ==
  ASSUME NEW st \in State, Live(st)
  PROVE  Live(Apply(st, RunResumed)) /\ Apply(st, RunResumed).steps = st.steps
<1>1. RunResumed \in Event /\ st.seq \in Nat
  BY DEF Event, State
<1>2. Apply(st, RunResumed).seq = st.seq + 1
  BY <1>1, ApplyType
<1> QED
  BY <1>1, <1>2, RunEventIs DEF Live, Ended

(* With every step done no goroutine of the run is at work. *)
LEMMA DoneIsQuiet ==
  ASSUME TypeOK, WorkInv, NEW r \in Runs, AllDone(r), NEW s \in StepsOf(r)
  PROVE  pc[s] \in Releasing
<1>1. s \in Steps /\ RunOf[s] = r /\ mem[r].steps[s].status = "done" /\ pc[s] \in StepPC
  BY DEF AllDone, StepsOf, TypeOK
<1>2. pc[s] \notin Working
  BY <1>1 DEF WorkInv, AtWork, Going
<1>3. pc[s] # "fail"
  BY <1>1 DEF WorkInv, FailNoted
<1> QED
  BY <1>1, <1>2, <1>3 DEF StepPC, Working, Releasing

LEMMA LoopWorks ==
  ASSUME TypeOK, WorkInv, NEW r \in Runs, LoopNext(r)
  PROVE  WorkInv'
<1> USE DEF vars, logVars, worldVars, runVars, envVars, procVars, ctxVars, loopVars, stepVars, Go
<1>0. loop \in [Runs -> LoopPC] /\ mem \in [Runs -> State] /\ pc \in [Steps -> StepPC]
  BY DEF TypeOK
<1>q. loop[r] \in Over => \A s \in StepsOf(r) : pc[s] \in Releasing
  BY DEF WorkInv, Quiet
<1>a. loop[r] \in Active => Live(mem[r])
  BY DEF WorkInv, ActiveLive
<1>1. CASE LoopStopping(r)
  <2>1. mem' = mem /\ pc' = pc /\ loop[r] = "eval"
        /\ loop'[r] = IF Inflight(r) = {} THEN "logEnd" ELSE "drain"
    BY <1>0, <1>1 DEF LoopStopping
  <2>2. Inflight(r) = {} => \A s \in StepsOf(r) : pc[s] \in Releasing
    BY DEF Inflight, Releasing
  <2>3. LoopMoving(r)
    BY <1>a, <2>1, <2>2 DEF LoopMoving, Over, Active
  <2> QED
    BY <2>1, <2>3, MovingWorks, LoopOwn
<1>2. CASE LoopDone(r)
  <2>1. mem' = mem /\ pc' = pc /\ loop[r] = "eval" /\ AllDone(r) /\ loop'[r] = "logDone"
    BY <1>0, <1>2 DEF LoopDone
  <2>2. LoopMoving(r)
    BY <1>a, <2>1, DoneIsQuiet DEF LoopMoving, Over, Active
  <2> QED
    BY <2>1, <2>2, MovingWorks, LoopOwn
<1>3. CASE LoopPaused(r) \/ LoopWait(r) \/ Wake(r) \/ Interrupt(r)
  <2>1. mem' = mem /\ pc' = pc /\ loop[r] \in {"eval", "start", "wait", "drain"}
        /\ loop'[r] \in {"eval", "start", "wait", "logResume"}
    BY <1>0, <1>3 DEF LoopPaused, LoopWait, LoopReady, Wake, Interrupt
  <2>2. LoopMoving(r)
    BY <1>a, <2>1 DEF LoopMoving, Over, Active
  <2> QED
    BY <2>1, <2>2, MovingWorks, LoopOwn
<1>4. CASE LoopLaunch(r)
  <2>1. PICK s \in FirstReady(r) : To(s, "open")
    BY <1>4 DEF LoopLaunch
  <2>2. s \in Steps /\ RunOf[s] = r /\ Startable(s)
    BY DEF FirstReady, Ready, StepsOf
  <2>3. mem' = mem /\ pc' = [pc EXCEPT ![s] = "open"] /\ loop' = [loop EXCEPT ![r] = "start"]
    BY <1>4, <2>1 DEF LoopLaunch, To
  <2>4. Live(mem[r])
    BY <1>4, <1>a DEF LoopLaunch, LoopReady, Active
  <2>5. Going(mem[r], s)
    BY <2>2, <2>4 DEF Startable, Going
  <2>6. AtWork'
    BY <1>0, <2>2, <2>3, <2>5 DEF WorkInv, AtWork
  <2>7. FailNoted'
    BY <1>0, <2>3 DEF WorkInv, FailNoted
  <2>8. Quiet'
    BY <1>0, <2>2, <2>3 DEF WorkInv, Quiet, StepsOf, Over
  <2>9. ActiveLive'
    BY <1>0, <2>3, <2>4 DEF WorkInv, ActiveLive
  <2> QED
    BY <2>6, <2>7, <2>8, <2>9 DEF WorkInv
<1>5. CASE LogResumed(r)
  <2>1. mem'[r] = mem[r] \/ mem'[r] = Apply(mem[r], RunResumed)
    BY <1>0, <1>5 DEF LogResumed, Logged, NotLogged
  <2>2. pc' = pc /\ loop[r] = "logResume" /\ loop'[r] = "eval"
    BY <1>0, <1>5 DEF LogResumed
  <2>3. LoopMoving(r)
    BY <1>0, <1>a, <2>1, <2>2, LiveResumed DEF LoopMoving, Over, Active
  <2> QED
    BY <2>2, <2>3, MovingWorks, LoopOwn
<1>6. CASE LogDone(r) \/ LogEnd(r) \/ Finish(r) \/ CloseSessions(r) \/ Forget(r)
  <2>1. pc' = pc /\ loop[r] \in Over
        /\ loop'[r] \in {"off", "finish", "closing", "forget"}
    BY <1>0, <1>6 DEF LogDone, LogEnd, LogRunEnded, Finish, CloseSessions, Forget, Cleared, Over
  <2>2. LoopMoving(r)
    BY <1>q, <2>1 DEF LoopMoving, Over, Active
  <2> QED
    BY <2>1, <2>2, MovingWorks, LoopOwn
<1> QED
  BY <1>1, <1>2, <1>3, <1>4, <1>5, <1>6 DEF LoopNext

-----------------------------------------------------------------------------
(* The calls.                                                              *)

LEMMA ExtendsLive ==
  ASSUME TypeOK, Extends, NEW r \in Runs
  PROVE  disk'[r] = disk[r] \/ Live(disk[r])
<1>1. CASE disk' = disk
  BY <1>1
<1>2. ASSUME NEW q \in Runs, NEW e, MayFollow(disk[q], q, e), Appended(q, e)
      PROVE  disk'[r] = disk[r] \/ Live(disk[r])
  BY <1>2 DEF MayFollow, Appended, TypeOK
<1> QED
  BY <1>1, <1>2 DEF Extends

(* Calls that stay as they are, while their runs wait to be launched. *)
LEMMA CallsStay ==
  ASSUME TypeOK, CallInv, Extends, call' = call,
         \A r \in Runs : loop[r] = "new" => loop'[r] = "new" /\ mem'[r] = mem[r]
  PROVE  CallInv'
<1>0. \A c \in Callers : call[c].run \in Runs
  BY DEF TypeOK, Call
<1>1. \A r \in Runs : disk'[r] = disk[r] \/ disk[r].seq > 0
  BY ExtendsLive DEF Live
<1>2. \A c \in Pending : loop[call[c].run] = "new"
  BY DEF CallInv, OnePending
<1>3. OnePending'
  BY <1>0, <1>2 DEF CallInv, OnePending, Pending
<1>4. Starters'
  <2>1. ASSUME NEW c \in Callers, call[c].pc = "logStart"
        PROVE  /\ disk'[call[c].run].seq = 0 /\ mem'[call[c].run] = Empty
    <3>1. c \in Pending
      BY <2>1 DEF Pending
    <3>2. disk[call[c].run].seq = 0 /\ mem[call[c].run] = Empty
      BY <2>1 DEF CallInv, Starters
    <3> QED
      BY <1>0, <1>1, <1>2, <3>1, <3>2
  <2> QED
    BY <2>1 DEF CallInv, Starters
<1>5. Settlers'
  BY <1>0, <1>2 DEF CallInv, Settlers, Pending
<1>6. Readers' /\ StartOnce'
  BY DEF CallInv, Readers, StartOnce
<1>7. Began'
  BY <1>1 DEF CallInv, Began
<1> QED
  BY <1>3, <1>4, <1>5, <1>6, <1>7 DEF CallInv

LEMMA StepCalls ==
  ASSUME TypeOK, LogInv, WorkInv, CallInv, StopInv, NEW s \in Steps, StepNext(s)
  PROVE  CallInv'
<1>1. ASSUME NEW r \in Runs, loop[r] = "new" PROVE mem'[r] = mem[r]
  <2>1. CASE RunOf[s] = r
    <3>1. pc[s] \in Releasing
      BY <1>1, <2>1 DEF WorkInv, Quiet, Over, StepsOf
    <3> QED
      BY <3>1, StepLogsAtWork DEF Working, Releasing
  <2>2. CASE RunOf[s] # r
    BY <2>2, StepKeepsState DEF StepKeeping
  <2> QED
    BY <2>1, <2>2
<1> QED
  BY <1>1, StepOwn, StepExtends, CallsStay

LEMMA LoopCalls ==
  ASSUME TypeOK, LogInv, WorkInv, CallInv, StopInv, NEW r \in Runs, LoopNext(r)
  PROVE  CallInv'
BY LoopOwn, LoopExtends, CallsStay

(* What a caller's move does to the calls. *)
LEMMA TurnIs ==
  ASSUME TypeOK, NEW c \in Callers, NEW p, Turn(c, p)
  PROVE  /\ call'[c].pc = p /\ call'[c].op = call[c].op /\ call'[c].run = call[c].run
         /\ \A d \in Callers \ {c} : call'[d] = call[d]
BY DEF Turn, TypeOK, Call

LEMMA BeginIs ==
  ASSUME TypeOK, NEW c \in Callers, NEW o, NEW r, NEW p, Begin(c, o, r, p, Empty)
  PROVE  /\ call[c].op = "none" /\ call'[c].pc = p /\ call'[c].op = o /\ call'[c].run = r
         /\ \A d \in Callers \ {c} : call'[d] = call[d]
BY DEF Begin, TypeOK

(* A caller's move that touches one run, the caller's, where no other call *)
(* waits for that run to be launched.                                      *)
CallMoving(c, r) ==
    /\ \A d \in Callers \ {c} : call'[d] = call[d]
    /\ call'[c].run = r
    /\ \A q \in Runs \ {r} : loop'[q] = loop[q] /\ mem'[q] = mem[q] /\ disk'[q] = disk[q]
    /\ \/ loop'[r] = loop[r] /\ mem'[r] = mem[r] /\ (disk[r].seq = 0 => disk'[r].seq = 0)
       \/ \A d \in Pending : d # c => call[d].run # r
    /\ call'[c].pc = "logStart" => /\ call'[c].op = "start" /\ r \in Accepted
                                   /\ disk'[r].seq = 0 /\ mem'[r] = Empty
    /\ call'[c].pc = "settle" => Live(mem'[r])
    /\ call'[c].pc \in {"logStart", "settle"} =>
         loop'[r] = "new" /\ \A d \in Pending : d # c => call[d].run # r
    /\ call'[c].pc \in {"newRun", "cappend"} => Live(call'[c].seen)
    /\ call'[c].op = "start" => \A d \in Callers \ {c} : ~(call[d].op = "start" /\ call[d].run = r)
    /\ call[c].op = "start" => call'[c].op = "start" /\ call[c].run = r
    /\ disk'[r].seq > 0 => disk[r].seq > 0 \/ (call'[c].op = "start" /\ r \in Accepted)

LEMMA CallMoves ==
  ASSUME TypeOK, CallInv, NEW c \in Callers, NEW r \in Runs, CallMoving(c, r)
  PROVE  CallInv'
<1>0. \A d \in Callers : call[d].run \in Runs
  BY DEF TypeOK, Call
<1>1. \A d \in Callers \ {c} : call'[d] = call[d]
  BY DEF CallMoving
<1>2. ASSUME NEW d \in Callers \ {c}, d \in Pending
      PROVE  /\ loop'[call[d].run] = loop[call[d].run] /\ mem'[call[d].run] = mem[call[d].run]
             /\ disk[call[d].run].seq = 0 => disk'[call[d].run].seq = 0
  BY <1>0, <1>2 DEF CallMoving
<1>3. OnePending'
  <2>1. ASSUME NEW d \in Callers, call'[d].pc \in {"logStart", "settle"}
        PROVE  loop'[call'[d].run] = "new"
    <3>1. CASE d = c
      BY <2>1, <3>1 DEF CallMoving
    <3>2. CASE d # c
      BY <1>1, <1>2, <2>1, <3>2 DEF CallInv, OnePending, Pending
    <3> QED
      BY <3>1, <3>2
  <2>2. ASSUME NEW d \in Callers, NEW b \in Callers, call'[d].pc \in {"logStart", "settle"},
               call'[b].pc \in {"logStart", "settle"}, call'[d].run = call'[b].run
        PROVE  d = b
    <3>1. CASE d # c /\ b # c
      BY <1>1, <2>2, <3>1 DEF CallInv, OnePending, Pending
    <3>2. CASE d = c \/ b = c
      BY <1>1, <2>2, <3>2 DEF CallMoving, Pending
    <3> QED
      BY <3>1, <3>2
  <2> QED
    BY <2>1, <2>2 DEF OnePending, Pending
<1>4. Starters'
  <2> SUFFICES ASSUME NEW d \in Callers, call'[d].pc = "logStart"
               PROVE  /\ call'[d].op = "start" /\ call'[d].run \in Accepted
                      /\ disk'[call'[d].run].seq = 0 /\ mem'[call'[d].run] = Empty
    BY DEF Starters, Accepted
  <2>1. CASE d = c
    BY <2>1 DEF CallMoving
  <2>2. CASE d # c
    BY <1>1, <1>2, <2>2 DEF CallInv, Starters, Pending
  <2> QED
    BY <2>1, <2>2
<1>5. Settlers'
  <2> SUFFICES ASSUME NEW d \in Callers, call'[d].pc = "settle" PROVE Live(mem'[call'[d].run])
    BY DEF Settlers
  <2>1. CASE d = c
    BY <2>1 DEF CallMoving
  <2>2. CASE d # c
    BY <1>1, <1>2, <2>2 DEF CallInv, Settlers, Pending
  <2> QED
    BY <2>1, <2>2
<1>6. Readers'
  BY <1>1 DEF CallInv, Readers, CallMoving
<1>7. StartOnce'
  BY <1>1 DEF CallInv, StartOnce, CallMoving
<1>8. Began'
  <2> SUFFICES ASSUME NEW q \in Runs, disk'[q].seq > 0
               PROVE  q \in Accepted /\ \E d \in Callers : call'[d].op = "start" /\ call'[d].run = q
    BY DEF Began, Accepted
  <2>1. CASE disk[q].seq > 0
    <3>1. q \in Accepted
      BY <2>1 DEF CallInv, Began
    <3>2. PICK d \in Callers : call[d].op = "start" /\ call[d].run = q
      BY <2>1 DEF CallInv, Began
    <3>3. call'[d].op = "start" /\ call'[d].run = q
      BY <1>1, <3>2 DEF CallMoving
    <3> QED
      BY <3>1, <3>3
  <2>2. CASE ~(disk[q].seq > 0)
    BY <2>2 DEF CallMoving
  <2> QED
    BY <2>1, <2>2
<1> QED
  BY <1>3, <1>4, <1>5, <1>6, <1>7, <1>8 DEF CallInv

(* A run that is cleared, or registered. *)
LEMMA ClearedIs ==
  ASSUME TypeOK, NEW r \in Runs, NEW p, NEW st, Cleared(r, p, st)
  PROVE  /\ loop'[r] = p /\ mem'[r] = st
         /\ \A q \in Runs \ {r} : loop'[q] = loop[q] /\ mem'[q] = mem[q]
BY DEF Cleared, Go, TypeOK

(* A move that keeps every run and every state. *)
LEMMA SameWorks ==
  ASSUME WorkInv, loop' = loop, mem' = mem, pc' = pc
  PROVE  WorkInv'
BY DEF WorkInv, Quiet, AtWork, FailNoted, ActiveLive

LEMMA OthersWait ==
  ASSUME TypeOK, CallInv, NEW c \in Callers, NEW r \in Runs,
         (c \in Pending /\ call[c].run = r) \/ loop[r] # "new"
  PROVE  \A d \in Pending : d # c => call[d].run # r
BY DEF CallInv, OnePending, Pending

LEMMA LaunchMoves ==
  ASSUME TypeOK, WorkInv, NEW r \in Runs, loop[r] \in {"off", "new"}, pc' = pc,
         loop'[r] \in Active => Live(mem'[r]),
         \A q \in Runs \ {r} : loop'[q] = loop[q] /\ mem'[q] = mem[q]
  PROVE  WorkInv'
<1>1. \A s \in StepsOf(r) : pc[s] \in Releasing
  BY DEF WorkInv, Quiet, Over
<1>2. LoopMoving(r)
  BY <1>1 DEF LoopMoving
<1> QED
  BY <1>2, MovingWorks

LEMMA StartLogWorks ==
  ASSUME TypeOK, LogInv, WorkInv, CallInv, NEW c \in Callers, StartLog(c)
  PROVE  WorkInv' /\ CallInv'
<1> DEFINE r == call[c].run
<1> USE DEF vars, logVars, worldVars, runVars, envVars, procVars, ctxVars, loopVars, stepVars
<1>0. r \in Runs /\ loop \in [Runs -> LoopPC] /\ mem \in [Runs -> State] /\ disk \in [Runs -> State]
  BY DEF TypeOK, Call
<1>1. c \in Pending /\ pc' = pc
  BY DEF StartLog, Pending
<1>2. loop[r] = "new" /\ mem[r] = Empty /\ call[c].op = "start" /\ r \in Accepted
  BY <1>1 DEF CallInv, OnePending, Starters, StartLog
<1>3. PICK p \in {"ok", "refused"} : Turn(c, p)
  BY DEF StartLog
<1>4. /\ loop'[r] \in Active => Live(mem'[r])
      /\ \A q \in Runs \ {r} : loop'[q] = loop[q] /\ mem'[q] = mem[q] /\ disk'[q] = disk[q]
  <2>1. CASE Logged(r, RunStarted) /\ Go(r, "eval")
    <3>1. mem' = [mem EXCEPT ![r] = Apply(Empty, RunStarted)]
      BY <1>2, <2>1 DEF Logged
    <3>2. RunStarted \in Event /\ Empty.seq = 0
      BY DEF Event, Empty
    <3>3. Apply(Empty, RunStarted).seq = 1 /\ Apply(Empty, RunStarted).status = "running"
      BY <3>2, EmptyType, ApplyType, RunEventIs
    <3> QED
      BY <1>0, <2>1, <3>1, <3>3 DEF Go, Live, Ended, Logged
  <2>2. CASE Cleared(r, "off", Empty) /\ Fault(r, RunStarted)
    BY <1>0, <2>2, ClearedIs DEF Active, Fault
  <2> QED
    BY <2>1, <2>2 DEF StartLog
<1>5. WorkInv'
  BY <1>0, <1>1, <1>2, <1>4, LaunchMoves
<1>6. CallMoving(c, r)
  BY <1>0, <1>1, <1>2, <1>3, <1>4, TurnIs, OthersWait DEF CallMoving, CallInv, StartOnce
<1> QED
  BY <1>0, <1>5, <1>6, CallMoves

LEMMA ReadLogWorks ==
  ASSUME TypeOK, LogInv, WorkInv, CallInv, NEW c \in Callers, ReadLog(c)
  PROVE  WorkInv' /\ CallInv'
<1> DEFINE r == call[c].run
<1> USE DEF vars, logVars, worldVars, runVars, envVars, procVars, ctxVars, loopVars, stepVars
<1>0. r \in Runs
  BY DEF TypeOK, Call
<1>1. loop' = loop /\ mem' = mem /\ pc' = pc /\ disk' = disk
  BY DEF ReadLog
<1>2. /\ call'[c].run = r /\ call'[c].op = call[c].op
      /\ \A d \in Callers \ {c} : call'[d] = call[d]
      /\ call'[c].pc \in {"unknown", "ended"}
           \/ (call'[c].pc \in {"newRun", "cappend"} /\ Live(call'[c].seen))
  <2>1. ASSUME NEW p \in {"unknown", "ended"}, Turn(c, p)
        PROVE  /\ call'[c].run = r /\ call'[c].op = call[c].op /\ call'[c].pc \in {"unknown", "ended"}
               /\ \A d \in Callers \ {c} : call'[d] = call[d]
    BY <2>1, TurnIs
  <2>2. CASE /\ disk[r].seq > 0 /\ disk[r].status \notin Ended
             /\ call' = [call EXCEPT ![c].seen = disk[r],
                                     ![c].pc = IF @ = "fold" THEN "newRun" ELSE "cappend"]
    BY <2>2 DEF TypeOK, Call, Live
  <2>3. CASE \E p \in {"unknown", "ended"} : Turn(c, p)
    BY <2>1, <2>3
  <2> QED
    BY <2>2, <2>3 DEF ReadLog
<1>3. CallMoving(c, r)
  BY <1>0, <1>1, <1>2 DEF CallMoving, CallInv, StartOnce
<1> QED
  BY <1>0, <1>1, <1>3, SameWorks, CallMoves

LEMMA ResumeNewWorks ==
  ASSUME TypeOK, LogInv, WorkInv, CallInv, NEW c \in Callers, ResumeNew(c)
  PROVE  WorkInv' /\ CallInv'
<1> DEFINE r == call[c].run
<1> USE DEF vars, logVars, worldVars, runVars, envVars, procVars, ctxVars, loopVars, stepVars
<1>0. r \in Runs /\ disk' = disk /\ pc' = pc
  BY DEF TypeOK, Call, ResumeNew
<1>1. Live(call[c].seen)
  BY DEF ResumeNew, CallInv, Readers
<1>2. CASE NewRun(r, call[c].seen) /\ Turn(c, "settle")
  <2>1. loop[r] = "off"
    BY <1>2 DEF NewRun, Registered
  <2>2. /\ loop'[r] = "new" /\ mem'[r] = call[c].seen
        /\ \A q \in Runs \ {r} : loop'[q] = loop[q] /\ mem'[q] = mem[q]
    BY <1>0, <1>2, ClearedIs DEF NewRun
  <2>3. WorkInv'
    BY <1>0, <2>1, <2>2, LaunchMoves DEF Active
  <2>4. CallMoving(c, r)
    BY <1>0, <1>1, <1>2, <2>1, <2>2, TurnIs, OthersWait DEF CallMoving, CallInv, StartOnce
  <2> QED
    BY <1>0, <2>3, <2>4, CallMoves
<1>3. CASE loop' = loop /\ mem' = mem /\ Turn(c, IF closed THEN "closed" ELSE "active")
  <2>1. CallMoving(c, r)
    BY <1>0, <1>3, TurnIs DEF CallMoving, CallInv, StartOnce
  <2> QED
    BY <1>0, <1>3, <2>1, SameWorks, CallMoves
<1> QED
  BY <1>2, <1>3 DEF ResumeNew

LEMMA ResumeLaunchWorks ==
  ASSUME TypeOK, LogInv, WorkInv, CallInv, NEW c \in Callers, ResumeLaunch(c)
  PROVE  WorkInv' /\ CallInv'
<1> DEFINE r == call[c].run
<1> USE DEF vars, logVars, worldVars, runVars, envVars, procVars, ctxVars, loopVars, stepVars
<1>0. r \in Runs /\ loop \in [Runs -> LoopPC] /\ mem \in [Runs -> State] /\ disk \in [Runs -> State]
  BY DEF TypeOK, Call
<1>1. c \in Pending /\ pc' = pc
  BY DEF ResumeLaunch, Pending
<1>2. loop[r] = "new" /\ Live(mem[r])
  BY <1>1 DEF CallInv, OnePending, Settlers, ResumeLaunch
<1>3. PICK p \in {"ok", "refused"} : Turn(c, p)
  BY DEF ResumeLaunch
<1>4. /\ loop'[r] \in Active => Live(mem'[r])
      /\ \A q \in Runs \ {r} : loop'[q] = loop[q] /\ mem'[q] = mem[q] /\ disk'[q] = disk[q]
  <2>1. CASE UNCHANGED logVars /\ Go(r, "eval")
    BY <1>0, <1>2, <2>1 DEF Go
  <2>2. CASE Logged(r, RunResumed) /\ Go(r, "eval")
    BY <1>0, <1>2, <2>2, LiveResumed DEF Go, Logged
  <2>3. CASE Cleared(r, "off", Empty) /\ (Fault(r, RunResumed) \/ disk' = disk)
    BY <1>0, <2>3, ClearedIs DEF Active, Fault
  <2> QED
    BY <2>1, <2>2, <2>3 DEF ResumeLaunch
<1>5. WorkInv'
  BY <1>0, <1>1, <1>2, <1>4, LaunchMoves
<1>6. disk'[r] = disk[r] \/ Live(disk[r])
  BY <1>0, CallExtends, ExtendsLive DEF CallNext, ResumeLaunch, StartLog
<1>7. CallMoving(c, r)
  BY <1>0, <1>1, <1>2, <1>3, <1>4, <1>6, TurnIs, OthersWait DEF CallMoving, CallInv, StartOnce, Live
<1> QED
  BY <1>0, <1>5, <1>7, CallMoves

LEMMA CancelAppendWorks ==
  ASSUME TypeOK, LogInv, WorkInv, CallInv, NEW c \in Callers, CancelAppend(c)
  PROVE  WorkInv' /\ CallInv'
<1> DEFINE r == call[c].run
<1> USE DEF vars, logVars, worldVars, runVars, envVars, procVars, ctxVars, loopVars, stepVars
<1>0. r \in Runs /\ disk \in [Runs -> State]
  BY DEF TypeOK, Call
<1>1. loop' = loop /\ mem' = mem /\ pc' = pc
  BY DEF CancelAppend
<1>2. PICK p \in {"ok", "refused"} : Turn(c, p)
  BY DEF CancelAppend
<1>3. \A q \in Runs \ {r} : disk'[q] = disk[q]
  BY <1>0 DEF CancelAppend, Fault
<1>4. disk'[r] = disk[r] \/ Live(disk[r])
  BY <1>0, CallExtends, ExtendsLive DEF CallNext, CancelAppend, StartLog
<1>5. CallMoving(c, r)
  BY <1>0, <1>1, <1>2, <1>3, <1>4, TurnIs DEF CallMoving, CallInv, StartOnce, Live
<1> QED
  BY <1>0, <1>1, <1>5, SameWorks, CallMoves

LEMMA CallWorks ==
  ASSUME TypeOK, LogInv, WorkInv, CallInv, NEW c \in Callers, CallNext(c)
  PROVE  WorkInv' /\ CallInv'
BY StartLogWorks, ReadLogWorks, ResumeNewWorks, ResumeLaunchWorks, CancelAppendWorks DEF CallNext

LEMMA BeginWorks ==
  ASSUME TypeOK, WorkInv, CallInv, NEW c \in Callers, NEW r \in Runs,
         Start(c, r) \/ Resume(c, r) \/ Cancel(c, r)
  PROVE  WorkInv' /\ CallInv'
<1> USE DEF vars, logVars, worldVars, runVars, envVars, procVars, ctxVars, loopVars, stepVars
<1>0. disk' = disk /\ pc' = pc
  BY DEF Start, Resume, Cancel
<1>1. CASE Start(c, r) /\ NewRun(r, Empty) /\ r \in Accepted /\ Begin(c, "start", r, "logStart", Empty)
  <2>1. loop[r] = "off"
    BY <1>1 DEF NewRun, Registered
  <2>2. /\ loop'[r] = "new" /\ mem'[r] = Empty
        /\ \A q \in Runs \ {r} : loop'[q] = loop[q] /\ mem'[q] = mem[q]
    BY <1>1, ClearedIs DEF NewRun
  <2>3. \A d \in Callers : ~(call[d].op = "start" /\ call[d].run = r)
    BY <1>1 DEF Start
  <2>4. disk[r].seq = 0
    <3>1. disk[r].seq \in Nat
      BY DEF TypeOK, State
    <3> QED
      BY <2>3, <3>1 DEF CallInv, Began
  <2>5. WorkInv'
    BY <1>0, <2>1, <2>2, LaunchMoves DEF Active
  <2>6. CallMoving(c, r)
    BY <1>0, <1>1, <2>1, <2>2, <2>3, <2>4, BeginIs, OthersWait DEF CallMoving
  <2> QED
    BY <2>5, <2>6, CallMoves
<1>2. ASSUME loop' = loop, mem' = mem, NEW o \in {"start", "resume", "cancel"},
             NEW p \in {"closed", "invalid", "active", "fold", "ok", "refused", "cfold"},
             Begin(c, o, r, p, Empty),
             o = "start" => \A d \in Callers : ~(call[d].op = "start" /\ call[d].run = r)
      PROVE  WorkInv' /\ CallInv'
  <2>1. CallMoving(c, r)
    BY <1>0, <1>2, BeginIs DEF CallMoving
  <2> QED
    BY <1>0, <1>2, <2>1, SameWorks, CallMoves
<1>3. CASE Start(c, r) /\ Begin(c, "start", r, IF r \in Accepted THEN "closed" ELSE "invalid", Empty)
           /\ loop' = loop /\ mem' = mem
  BY <1>2, <1>3 DEF Start
<1>4. CASE Resume(c, r)
  BY <1>2, <1>4 DEF Resume
<1>5. CASE Cancel(c, r)
  BY <1>2, <1>5 DEF Cancel
<1> QED
  BY <1>1, <1>3, <1>4, <1>5 DEF Start

LEMMA NewProcessWorks ==
  ASSUME TypeOK, WorkInv, CallInv, NewProcess
  PROVE  WorkInv' /\ CallInv'
<1>1. WorkInv'
  <2>1. (\A s \in Steps : pc'[s] = "none") /\ (\A r \in Runs : loop'[r] = "off")
    BY DEF NewProcess
  <2>2. AtWork' /\ FailNoted'
    BY <2>1 DEF AtWork, FailNoted, Working
  <2>3. Quiet' /\ ActiveLive'
    BY <2>1 DEF Quiet, ActiveLive, Releasing, Active, StepsOf
  <2> QED
    BY <2>2, <2>3 DEF WorkInv
<1>2. /\ disk' = disk
      /\ \A c \in Callers : /\ call'[c].op = call[c].op /\ call'[c].run = call[c].run
                            /\ call'[c].pc \in Answered
  BY DEF NewProcess, TypeOK, Call, Answered
<1>3. CallInv'
  BY <1>2 DEF CallInv, OnePending, Pending, Starters, Settlers, Readers, StartOnce, Began, Answered
<1> QED
  BY <1>1, <1>3

-----------------------------------------------------------------------------
(* The end of a run.                                                       *)

(* A context that ended stays ended, a failure and a stop are set by Fail. *)
LEMMA StepCauses ==
  ASSUME TypeOK, NEW s \in Steps, StepNext(s)
  PROVE  /\ \A q \in Runs : cause[q] # "none" => cause'[q] # "none"
         /\ \A q \in Runs \ {RunOf[s]} : failure'[q] = failure[q] /\ stopped'[q] = stopped[q]
         /\ IF pc[s] = "fail" THEN failure'[RunOf[s]] /\ stopped'[RunOf[s]]
                              ELSE failure' = failure /\ stopped' = stopped
<1> USE DEF vars, logVars, worldVars, runVars, envVars, procVars, ctxVars, loopVars, stepVars
<1>0. RunOf[s] \in Runs /\ cause \in [Runs -> Cause] /\ failure \in [Runs -> BOOLEAN]
      /\ stopped \in [Runs -> BOOLEAN]
  BY RunOfAssumption DEF TypeOK
<1>1. CASE Fail(s)
  BY <1>0, <1>1 DEF Fail
<1>2. CASE LogOpened(s) \/ Adopt(s) \/ LogStarted(s) \/ LogEnded(s)
  BY <1>0, <1>2 DEF LogOpened, Adopt, LogStarted, LogEnded, LogFailed, First
<1>3. CASE OpenSession(s) \/ Send(s) \/ Follow(s) \/ EndInterrupted(s) \/ EndClassify(s)
           \/ FreeSlot(s) \/ TakeIdle(s) \/ CloseIdle(s) \/ Leave(s)
  BY <1>3 DEF OpenSession, Send, Follow, EndInterrupted, EndClassify, FreeSlot, TakeIdle,
              CloseIdle, Leave
<1> QED
  BY <1>1, <1>2, <1>3 DEF StepNext

(* How a step ends, and what the log has of it by then. *)
StepEnding(s) ==
    LET r == RunOf[s]
        was == mem[r].steps[s].status
        is == mem'[r].steps[s].status IN
    /\ is = "failed" => was = "failed" \/ pc'[s] = "fail"
    /\ is = "cancelled" => was = "cancelled" \/ (pc[s] = "log" /\ x[s] = "cancelled")
    /\ pc'[s] = "log" /\ x'[s] = "cancelled" => StepsOver(r)
    /\ pc'[s] = "log" /\ x'[s] = "done" => is = "running"
    /\ pc'[s] = "follow" \/ (pc'[s] \in {"end", "classify"} /\ x'[s] = "ok") =>
         is = "running" \/ cause'[r] # "none"

LEMMA StepEndsWell ==
  ASSUME TypeOK, WorkInv, StopInv, NEW s \in Steps, StepNext(s)
  PROVE  StepEnding(s)
<1> DEFINE r == RunOf[s]
<1> USE DEF vars, logVars, worldVars, runVars, envVars, procVars, ctxVars, loopVars, stepVars
<1>0. r \in Runs /\ mem \in [Runs -> State] /\ pc \in [Steps -> StepPC] /\ id \in [Steps -> Nat]
      /\ x \in [Steps -> Outcome] /\ cause \in [Runs -> Cause]
  BY RunOfAssumption DEF TypeOK
<1>1. CASE LogOpened(s)
  <2>1. mem'[r].steps = mem[r].steps
    BY <1>0, <1>1, RunEventIs DEF LogOpened, Logged, NotLogged
  <2>2. pc'[s] = "adopt" \/ (pc'[s] = "end" /\ x'[s] = "err")
    BY <1>0, <1>1 DEF LogOpened, To, EndErr
  <2> QED
    BY <2>1, <2>2 DEF StepEnding
<1>2. CASE Adopt(s)
  <2>1. \/ mem'[r] = mem[r]
        \/ mem'[r] = Apply(mem[r], StepEnded(s, mem[r].steps[s].ex, "done"))
    BY <1>0, <1>2 DEF Adopt, Logged, NotLogged
  <2>2. mem'[r] = mem[r] \/ mem'[r].steps[s].status = "done"
    BY <1>0, <2>1, StepEndedIs
  <2>3. pc'[s] \in {"free", "send"} \/ (pc'[s] = "end" /\ x'[s] = "err")
    BY <1>0, <1>2 DEF Adopt, To, EndErr
  <2> QED
    BY <2>2, <2>3 DEF StepEnding
<1>3. CASE LogStarted(s)
  <2> DEFINE e == StepStarted(s, id[s])
  <2>0. pc'[s] = "follow"
    BY <1>0, <1>3 DEF LogStarted, To
  <2>1. CASE Logged(r, e)
    <3>1. mem'[r] = Apply(mem[r], e)
      BY <1>0, <2>1 DEF Logged
    <3>2. mem'[r].steps[s].status = "running"
      BY <1>0, <3>1, StepStartedIs
    <3> QED
      BY <2>0, <3>2 DEF StepEnding
  <2>2. CASE NotLogged(r, e) /\ LogFailed(r, e)
    <3>1. Follows(mem[r], e)
      BY <1>3 DEF LogStarted, Working, WorkInv, AtWork, Going, Live, Follows, StepStarted
    <3>2. cause'[r] # "none" /\ mem' = mem
      BY <1>0, <2>2, <3>1 DEF LogFailed, First, NotLogged
    <3> QED
      BY <2>0, <3>2 DEF StepEnding
  <2> QED
    BY <1>3, <2>1, <2>2 DEF LogStarted
<1>4. CASE LogEnded(s)
  <2> DEFINE e == EndEvent(s)
  <2>0. pc[s] = "log"
    BY <1>4 DEF LogEnded
  <2>1. \/ mem'[r] = mem[r] /\ pc'[s] = "free"
        \/ /\ Logged(r, e) /\ mem'[r] = Apply(mem[r], e)
           /\ pc'[s] = IF x[s] = "failed" THEN "fail" ELSE "free"
    BY <1>0, <1>4 DEF LogEnded, Logged, NotLogged, To
  <2>2. ASSUME Logged(r, e), mem'[r] = Apply(mem[r], e)
        PROVE  mem'[r].steps = mem[r].steps \/ mem'[r].steps[s].status = x[s]
    <3>1. CASE x[s] = "paused"
      BY <1>0, <2>2, <3>1, RunEventIs DEF EndEvent
    <3>2. CASE x[s] # "paused"
      BY <1>0, <2>2, <3>2, StepEndedIs DEF EndEvent
    <3> QED
      BY <3>1, <3>2
  <2> HIDE DEF e
  <2> QED
    BY <2>0, <2>1, <2>2 DEF StepEnding
<1>5. CASE EndClassify(s)
  <2>1. mem' = mem /\ cause' = cause /\ pc[s] = "classify"
    BY <1>5 DEF EndClassify
  <2>2. x'[s] = IF StepsOver(r) THEN "cancelled"
                ELSE CASE x[s] = "limit" -> "paused"
                       [] x[s] = "ok"    -> "done"
                       [] OTHER          -> "failed"
    BY <1>0, <1>5 DEF EndClassify
  <2>3. pc'[s] \in {"log", "free"}
    BY <1>0, <1>5 DEF EndClassify, To
  <2>4. x'[s] = "cancelled" => StepsOver(r)
    BY <2>2
  <2>5. x'[s] = "done" => x[s] = "ok" /\ ~StepsOver(r)
    BY <2>2
  <2>6. x[s] = "ok" => mem[r].steps[s].status = "running" \/ cause[r] # "none"
    BY <2>1 DEF StopInv, RanFirst
  <2> QED
    BY <2>1, <2>3, <2>4, <2>5, <2>6 DEF StepEnding, StepsOver
<1>6. CASE Follow(s) \/ EndInterrupted(s)
  <2>1. /\ mem' = mem /\ cause' = cause /\ x' = x /\ pc[s] \in {"follow", "end"}
        /\ pc'[s] \in {"end", "classify", "free"} /\ (pc'[s] = "end" => pc[s] = "follow")
    BY <1>0, <1>6 DEF Follow, EndInterrupted, To
  <2>2. x[s] = "ok" => mem[r].steps[s].status = "running" \/ cause[r] # "none"
    BY <2>1 DEF StopInv, RanFirst
  <2> QED
    BY <2>1, <2>2 DEF StepEnding
<1>7. CASE OpenSession(s) \/ Send(s) \/ Fail(s)
  <2>1. mem' = mem /\ (pc'[s] \in {"adopt", "opened", "started", "free"} \/ (pc'[s] = "end" /\ x'[s] = "err"))
    BY <1>0, <1>7 DEF OpenSession, Send, Fail, To, EndErr
  <2> QED
    BY <2>1 DEF StepEnding
<1>8. CASE FreeSlot(s) \/ TakeIdle(s) \/ CloseIdle(s) \/ Leave(s)
  <2>1. mem' = mem /\ pc'[s] \in {"idle", "closing", "leave", "none"}
    BY <1>0, <1>8 DEF FreeSlot, TakeIdle, CloseIdle, Leave, To
  <2> QED
    BY <2>1 DEF StepEnding
<1> QED
  BY <1>1, <1>2, <1>3, <1>4, <1>5, <1>6, <1>7, <1>8 DEF StepNext

LEMMA StepStops ==
  ASSUME TypeOK, WorkInv, StopInv, NEW s \in Steps, StepNext(s)
  PROVE  StopInv'
<1> DEFINE r == RunOf[s]
<1>0. r \in Runs /\ \A t \in Steps : RunOf[t] \in Runs
  BY RunOfAssumption
<1>1. loop' = loop /\ loop[r] # "start" /\ \A t \in Steps \ {s} : pc'[t] = pc[t] /\ x'[t] = x[t]
  BY StepOwn
<1>2. \A t \in Steps \ {s} : mem'[RunOf[t]].steps[t] = mem[RunOf[t]].steps[t]
  <2>1. StepKeeping(s)
    BY StepKeepsState
  <2> QED
    BY <1>0, <2>1 DEF StepKeeping, Keeping
<1>3. mem[r].steps[s].status \in Ended => mem'[r].steps[s] = mem[r].steps[s]
  BY StepKeepsEnd
<1>4. StepEnding(s)
  BY StepEndsWell
<1>c. \A q \in Runs : /\ cause[q] # "none" => cause'[q] # "none"
                      /\ failure[q] => failure'[q]
                      /\ stopped[q] => stopped'[q]
  BY <1>0, StepCauses
<1>5. FailedStops'
  <2> SUFFICES ASSUME NEW q \in Runs, loop[q] \in Active, NEW t \in StepsOf(q),
                      mem'[q].steps[t].status = "failed"
               PROVE  failure'[q] \/ pc'[t] = "fail"
    BY <1>1 DEF FailedStops, StepsOf
  <2>0. t \in Steps /\ RunOf[t] = q
    BY DEF StepsOf
  <2>1. CASE t # s
    BY <1>1, <1>2, <1>c, <2>0, <2>1 DEF StopInv, FailedStops
  <2>2. CASE t = s
    <3>1. CASE pc[s] = "fail"
      BY <1>0, <2>0, <2>2, <3>1, StepCauses
    <3>2. CASE pc[s] # "fail"
      BY <1>4, <1>c, <2>0, <2>2, <3>2 DEF StepEnding, StopInv, FailedStops
    <3> QED
      BY <3>1, <3>2
  <2> QED
    BY <2>1, <2>2
<1>6. CancelledStops'
  <2> SUFFICES ASSUME NEW q \in Runs, loop[q] \in Active, NEW t \in StepsOf(q),
                      mem'[q].steps[t].status = "cancelled" \/ (pc'[t] = "log" /\ x'[t] = "cancelled")
               PROVE  cause'[q] # "none" \/ stopped'[q]
    BY <1>1 DEF CancelledStops, StepsOf, StepsOver
  <2>0. t \in Steps /\ RunOf[t] = q
    BY DEF StepsOf
  <2>1. StepsOver(q)
    BY <1>1, <1>2, <1>4, <2>0 DEF StepEnding, StopInv, CancelledStops
  <2> QED
    BY <1>c, <2>1 DEF StepsOver
<1>7. StoppedFails'
  <2>1. ASSUME NEW q \in Runs, loop[q] \in Active, stopped'[q] PROVE failure'[q]
    BY <1>c, <2>1, StepCauses DEF StopInv, StoppedFails
  <2> QED
    BY <1>1, <2>1 DEF StoppedFails
<1>8. FailureHasStep'
  <2> SUFFICES ASSUME NEW q \in Runs, failure'[q]
               PROVE  \E t \in StepsOf(q) : mem'[q].steps[t].status = "failed"
    BY DEF FailureHasStep, StepsOf
  <2>1. PICK t \in StepsOf(q) : mem[q].steps[t].status = "failed"
    <3>1. CASE failure[q]
      BY <3>1 DEF StopInv, FailureHasStep
    <3>2. CASE ~failure[q]
      <4>1. q = r /\ pc[s] = "fail"
        BY <3>2, StepCauses
      <4> QED
        BY <4>1 DEF WorkInv, FailNoted, StepsOf
    <3> QED
      BY <3>1, <3>2
  <2>2. t \in Steps /\ RunOf[t] = q
    BY DEF StepsOf
  <2>3. mem'[q].steps[t].status = "failed"
    BY <1>2, <1>3, <2>1, <2>2 DEF Ended
  <2> QED
    BY <2>3
<1>9. AllDoneAtEnd'
  <2> SUFFICES ASSUME NEW q \in Runs, loop[q] = "logDone", NEW t \in StepsOf(q)
               PROVE  mem'[q].steps[t].status = "done"
    BY <1>1 DEF AllDoneAtEnd, AllDone, StepsOf
  <2>1. t \in Steps /\ RunOf[t] = q /\ mem[q].steps[t].status = "done"
    BY DEF StopInv, AllDoneAtEnd, AllDone, StepsOf
  <2> QED
    BY <1>2, <1>3, <2>1 DEF Ended
<1>10. RanFirst'
  <2> SUFFICES ASSUME NEW t \in Steps
               PROVE  /\ pc'[t] = "log" /\ x'[t] = "done" => mem'[RunOf[t]].steps[t].status = "running"
                      /\ pc'[t] = "follow" \/ (pc'[t] \in {"end", "classify"} /\ x'[t] = "ok") =>
                           mem'[RunOf[t]].steps[t].status = "running" \/ cause'[RunOf[t]] # "none"
    BY DEF RanFirst
  <2>1. CASE t = s
    BY <1>4, <2>1 DEF StepEnding
  <2>2. CASE t # s
    BY <1>0, <1>1, <1>2, <1>c, <2>2 DEF StopInv, RanFirst
  <2> QED
    BY <2>1, <2>2
<1>11. Launched'
  <2> SUFFICES ASSUME NEW q \in Runs
               PROVE  /\ loop[q] = "start" => \E t \in StepsOf(q) : pc'[t] # "none"
                      /\ loop[q] = "new" => ~stopped'[q]
    BY <1>1 DEF Launched, Inflight, StepsOf
  <2>1. ASSUME loop[q] = "start" PROVE \E t \in StepsOf(q) : pc'[t] # "none"
    <3>1. PICK t \in StepsOf(q) : pc[t] # "none"
      BY <2>1 DEF StopInv, Launched, Inflight
    <3>2. t # s /\ t \in Steps
      BY <1>1, <2>1 DEF StepsOf
    <3> QED
      BY <1>1, <3>1, <3>2
  <2>2. ASSUME loop[q] = "new" PROVE ~stopped'[q]
    <3>1. CASE q = r
      <4>1. pc[s] # "fail"
        BY <2>2, <3>1 DEF WorkInv, Quiet, Over, Releasing, StepsOf
      <4> QED
        BY <2>2, <4>1, StepCauses DEF StopInv, Launched
    <3>2. CASE q # r
      BY <2>2, <3>2, StepCauses DEF StopInv, Launched
    <3> QED
      BY <3>1, <3>2
  <2> QED
    BY <2>1, <2>2
<1> QED
  BY <1>5, <1>6, <1>7, <1>8, <1>9, <1>10, <1>11 DEF StopInv

(* Run by run: a move that leaves a run and its goroutines alone, and one  *)
(* of a run whose goroutines are all releasing.                            *)
StopsAt(r) ==
    /\ loop[r] \in Active =>
         /\ \A t \in StepsOf(r) : mem[r].steps[t].status = "failed" => failure[r] \/ pc[t] = "fail"
         /\ \A t \in StepsOf(r) :
              mem[r].steps[t].status = "cancelled" \/ (pc[t] = "log" /\ x[t] = "cancelled") =>
                StepsOver(r)
         /\ stopped[r] => failure[r]
    /\ failure[r] => \E t \in StepsOf(r) : mem[r].steps[t].status = "failed"
    /\ loop[r] = "logDone" => AllDone(r)
    /\ loop[r] = "start" => Inflight(r) # {}
    /\ loop[r] = "new" => ~stopped[r]
    /\ \A s \in StepsOf(r) :
         /\ pc[s] = "log" /\ x[s] = "done" => mem[r].steps[s].status = "running"
         /\ pc[s] = "follow" \/ (pc[s] \in {"end", "classify"} /\ x[s] = "ok") =>
              mem[r].steps[s].status = "running" \/ cause[r] # "none"

LEMMA StopsEach ==
  /\ StopInv => \A r \in Runs : StopsAt(r)
  /\ (\A r \in Runs : StopsAt(r)') => StopInv'
<1>1. StopInv => \A r \in Runs : StopsAt(r)
  BY DEF StopInv, StopsAt, FailedStops, CancelledStops, StoppedFails, FailureHasStep, AllDoneAtEnd,
         RanFirst, Launched, StepsOf
<1>2. ASSUME \A r \in Runs : StopsAt(r)' PROVE StopInv'
  <2>1. \A s \in Steps : RunOf[s] \in Runs
    BY RunOfAssumption
  <2>2. RanFirst'
    BY <1>2, <2>1 DEF StopsAt, RanFirst, StepsOf
  <2>3. FailedStops' /\ CancelledStops' /\ StoppedFails' /\ FailureHasStep'
    BY <1>2 DEF StopsAt, FailedStops, CancelledStops, StoppedFails, FailureHasStep
  <2>4. AllDoneAtEnd' /\ Launched'
    BY <1>2 DEF StopsAt, AllDoneAtEnd, Launched
  <2> QED
    BY <2>2, <2>3, <2>4 DEF StopInv
<1> QED
  BY <1>1, <1>2

Alone(q) ==
    /\ loop'[q] = loop[q] /\ mem'[q].steps = mem[q].steps
    /\ cause[q] # "none" => cause'[q] # "none"
    /\ failure'[q] = failure[q] /\ stopped'[q] = stopped[q]
    /\ \A t \in StepsOf(q) : pc'[t] = pc[t] /\ (x'[t] = x[t] \/ pc[t] \notin {"log", "end", "classify"})

LEMMA AloneStops ==
  ASSUME NEW q \in Runs, StopsAt(q), Alone(q)
  PROVE  StopsAt(q)'
<1>1. StepsOver(q) => StepsOver(q)'
  BY DEF Alone, StepsOver
<1>2. AllDone(q)' = AllDone(q) /\ Inflight(q)' = Inflight(q)
  BY DEF Alone, AllDone, Inflight, StepsOf
<1>3. StepsOf(q)' = StepsOf(q)
  BY DEF StepsOf
<1> QED
  BY <1>1, <1>2, <1>3 DEF Alone, StopsAt

(* A run no goroutine of which is at work, and what it goes to. *)
Settled(r) ==
    /\ \A t \in StepsOf(r) : pc[t] \in Releasing /\ pc'[t] = pc[t]
    /\ loop'[r] \in Active =>
         /\ \A t \in StepsOf(r) :
              /\ mem'[r].steps[t].status = "failed" => failure'[r]
              /\ mem'[r].steps[t].status = "cancelled" => cause'[r] # "none"
         /\ stopped'[r] => failure'[r]
    /\ failure'[r] => \E t \in StepsOf(r) : mem'[r].steps[t].status = "failed"
    /\ loop'[r] \notin {"logDone", "start"}
    /\ loop'[r] = "new" => ~stopped'[r]

LEMMA SettledStops ==
  ASSUME NEW r \in Runs, Settled(r)
  PROVE  StopsAt(r)'
<1>1. \A t \in StepsOf(r) : pc'[t] \notin {"log", "follow", "end", "classify"}
  BY DEF Settled, Releasing
<1>2. StepsOf(r)' = StepsOf(r)
  BY DEF StepsOf
<1> QED
  BY <1>1, <1>2 DEF Settled, StopsAt, StepsOver

(* The steps of a run that Start accepts can all come after each other. *)
LEMMA AcceptedIs ==
  ASSUME NEW r \in Accepted
  PROVE  LET w == Workflows[r] IN
         /\ Refers(w) /\ InOrder(w)
         /\ StepsOf(r) # {} => StepsOf(r) = Ids(w) /\ \A d \in Ids(w) : After[d] = Before(w, d)
<1> DEFINE w == Workflows[r]
<1>1. r \in Runs /\ Valid(w)
  BY DEF Accepted
<1>2. Typed(w)
  BY <1>1, WorkflowsAssumption
<1>3. Refers(w)
  BY <1>1, <1>2 DEF Refers, Valid, WellFormed, Declares
<1>4. InOrder(w)
  BY <1>1, <1>3, CycleOrOrder DEF Valid
<1>5. ASSUME StepsOf(r) # {}
      PROVE  StepsOf(r) = Ids(w) /\ \A d \in Ids(w) : After[d] = Before(w, d)
  <2>1. StepsOf(r) = Ids(w)
        /\ \A i \in DOMAIN w.steps :
             After[w.steps[i].id] = {w.steps[i].after[k] : k \in DOMAIN w.steps[i].after}
    BY <1>1, <1>5, WorkflowsAssumption DEF StepsOf
  <2> HIDE DEF w
  <2>2. ASSUME NEW d \in Ids(w) PROVE After[d] = Before(w, d)
    <3>1. PICK i \in DOMAIN w.steps : w.steps[i].id = d /\ AfterOf(w, d) = w.steps[i].after
      BY <1>2, AfterIs
    <3> DEFINE l == w.steps[i].after
    <3>2. After[d] = {l[k] : k \in DOMAIN l}
      BY <2>1, <3>1
    <3>3. Before(w, d) = {l[k] : k \in DOMAIN l}
      BY <3>1 DEF Before
    <3> QED
      BY <3>2, <3>3
  <2> QED
    BY <2>1, <2>2
<1> QED
  BY <1>3, <1>4, <1>5

LEMMA RunOrder ==
  ASSUME NEW r \in Accepted, NEW U \in SUBSET StepsOf(r), U # {}
  PROVE  \E d \in U : After[d] \cap U = {}
<1> DEFINE w == Workflows[r]
<1>1. StepsOf(r) = Ids(w) /\ InOrder(w) /\ \A d \in Ids(w) : After[d] = Before(w, d)
  BY AcceptedIs
<1> HIDE DEF w
<1>2. PICK d \in U : Before(w, d) \cap U = {}
  BY <1>1 DEF InOrder
<1> QED
  BY <1>1, <1>2

(* A run whose state is live is one that began. *)
LEMMA LiveBegan ==
  ASSUME TypeOK, LogInv, CallInv, NEW r \in Runs, Live(mem[r])
  PROVE  r \in Accepted
<1>1. mem[r].seq \in Nat /\ disk[r].seq \in Nat /\ mem[r].seq <= disk[r].seq
  BY DEF TypeOK, State, LogInv, MemBehind, Behind
<1>2. disk[r].seq > 0
  BY <1>1 DEF Live
<1> QED
  BY <1>2 DEF CallInv, Began

(* The loop that may start steps, and has none in flight, has one to start *)
(* as long as not all are done: the failure "no step can start" does not   *)
(* happen.                                                                 *)
LEMMA NeverStuck ==
  ASSUME TypeOK, LogInv, WorkInv, CallInv, StopInv, NEW r \in Runs, LoopReady(r), Inflight(r) = {}
  PROVE  Ready(r) # {}
<1>1. loop[r] = "eval" /\ cause[r] = "none" /\ ~failure[r] /\ ~AllDone(r)
  BY DEF LoopReady, Stopping, StopInv, Launched
<1>2. mem \in [Runs -> State]
  BY DEF TypeOK
<1>3. Live(mem[r])
  BY <1>1 DEF WorkInv, ActiveLive, Active
<1>4. r \in Accepted
  BY <1>3, LiveBegan
<1>5. \A t \in StepsOf(r) : t \in Steps /\ pc[t] = "none"
  BY DEF Inflight, StepsOf
<1>6. ASSUME NEW t \in StepsOf(r)
      PROVE  mem[r].steps[t].status \in {"pending", "running", "done"}
  <2>1. mem[r].steps[t].status # "failed"
    BY <1>1, <1>5 DEF StopInv, FailedStops, Active
  <2>2. mem[r].steps[t].status # "cancelled"
    BY <1>1 DEF StopInv, CancelledStops, StoppedFails, StepsOver, Active
  <2>3. mem[r].steps[t].status \in StepStatus
    BY <1>2, <1>5 DEF State
  <2> QED
    BY <2>1, <2>2, <2>3 DEF StepStatus, Ended
<1> DEFINE U == {t \in StepsOf(r) : mem[r].steps[t].status # "done"}
<1>7. U # {}
  BY <1>1 DEF AllDone
<1>8. PICK d \in U : After[d] \cap U = {}
  BY <1>4, <1>7, RunOrder
<1>9. After[d] \subseteq StepsOf(r)
  BY <1>5, AfterAssumption DEF StepsOf
<1>10. RunOf[d] = r /\ Busy(r) = {}
  BY DEF StepsOf, Busy
<1>11. Startable(d)
  BY <1>6, <1>8, <1>9, <1>10 DEF Startable
<1> QED
  BY <1>11 DEF Ready

(* The loop. *)
LEMMA LoopCauses ==
  ASSUME TypeOK, NEW r \in Runs, LoopNext(r)
  PROVE  \A q \in Runs \ {r} : cause'[q] = cause[q] /\ failure'[q] = failure[q] /\ stopped'[q] = stopped[q]
<1> USE DEF vars, logVars, worldVars, runVars, envVars, procVars, ctxVars, loopVars, stepVars, Go
<1>0. cause \in [Runs -> Cause] /\ failure \in [Runs -> BOOLEAN] /\ stopped \in [Runs -> BOOLEAN]
  BY DEF TypeOK
<1>1. CASE LoopStopping(r) \/ LoopDone(r) \/ LoopPaused(r) \/ LoopLaunch(r) \/ LoopWait(r)
           \/ Wake(r) \/ Interrupt(r)
  BY <1>0, <1>1 DEF LoopStopping, LoopDone, LoopPaused, LoopLaunch, LoopWait, Wake, Interrupt
<1>2. CASE LogResumed(r) \/ LogDone(r) \/ LogEnd(r)
  BY <1>0, <1>2 DEF LogResumed, LogDone, LogEnd, LogRunEnded, LogFailed
<1>3. CASE Finish(r) \/ CloseSessions(r) \/ Forget(r)
  BY <1>0, <1>3 DEF Finish, CloseSessions, Forget, Cleared
<1> QED
  BY <1>1, <1>2, <1>3 DEF LoopNext

LEMMA OthersStop ==
  ASSUME TypeOK, StopInv, NEW r \in Runs, LoopNext(r), StopsAt(r)'
  PROVE  StopInv'
<1>1. ASSUME NEW q \in Runs \ {r} PROVE StopsAt(q)'
  <2>1. \A t \in StepsOf(q) : t \in Steps /\ RunOf[t] # r
    BY DEF StepsOf
  <2>2. Alone(q)
    BY <2>1, LoopOwn, LoopCauses DEF Alone
  <2> QED
    BY <2>2, AloneStops, StopsEach
<1> QED
  BY <1>1, StopsEach

LEMMA LoopStops ==
  ASSUME TypeOK, LogInv, WorkInv, CallInv, StopInv, NEW r \in Runs, LoopNext(r)
  PROVE  StopInv'
<1> USE DEF vars, logVars, worldVars, runVars, envVars, procVars, ctxVars, loopVars, stepVars, Go
<1>0. loop \in [Runs -> LoopPC] /\ mem \in [Runs -> State] /\ pc \in [Steps -> StepPC]
      /\ cause \in [Runs -> Cause] /\ failure \in [Runs -> BOOLEAN] /\ stopped \in [Runs -> BOOLEAN]
  BY DEF TypeOK
<1>s. StopsAt(r)
  BY StopsEach
<1>q. loop[r] \in Over => \A t \in StepsOf(r) : pc[t] \in Releasing
  BY DEF WorkInv, Quiet
<1> SUFFICES StopsAt(r)'
  BY OthersStop
<1>1. CASE LoopStopping(r) \/ LoopDone(r) \/ LoopPaused(r) \/ Wake(r) \/ Interrupt(r)
  <2>1. mem' = mem /\ pc' = pc /\ x' = x /\ cause' = cause /\ failure' = failure /\ stopped' = stopped
        /\ loop[r] \in Active /\ loop'[r] \in {"logEnd", "drain", "logDone", "wait", "logResume", "eval"}
        /\ (loop'[r] = "logDone" => AllDone(r))
    BY <1>0, <1>1 DEF LoopStopping, LoopDone, LoopPaused, Wake, Interrupt, Active
  <2> QED
    BY <1>s, <2>1 DEF StopsAt, StepsOf, StepsOver, AllDone, Inflight
<1>2. CASE LoopLaunch(r)
  <2>1. PICK s \in FirstReady(r) : To(s, "open")
    BY <1>2 DEF LoopLaunch
  <2>2. s \in StepsOf(r) /\ s \in Steps /\ pc[s] = "none"
    BY DEF FirstReady, Ready, StepsOf, Startable, Inflight
  <2>3. mem' = mem /\ x' = x /\ cause' = cause /\ failure' = failure /\ stopped' = stopped
        /\ loop[r] \in Active /\ loop'[r] = "start"
    BY <1>0, <1>2 DEF LoopLaunch, LoopReady, Active
  <2>4. pc'[s] = "open" /\ \A t \in Steps \ {s} : pc'[t] = pc[t]
    BY <1>0, <2>1, <2>2 DEF To
  <2>5. \A t \in StepsOf(r) : t \in Steps /\ pc'[t] \in {pc[t], "open"} /\ (pc[t] = "fail" => pc'[t] = "fail")
    BY <2>2, <2>4 DEF StepsOf
  <2>6. Inflight(r)' # {}
    BY <2>2, <2>4 DEF Inflight, StepsOf
  <2> QED
    BY <1>s, <2>3, <2>5, <2>6 DEF StopsAt, StepsOf, StepsOver
<1>3. CASE LoopWait(r)
  <2>1. mem' = mem /\ pc' = pc /\ x' = x /\ cause' = cause /\ failure' = failure /\ stopped' = stopped
        /\ loop[r] \in Active /\ loop'[r] = "wait"
    BY <1>0, <1>3, NeverStuck DEF LoopWait, LoopReady, Active
  <2> QED
    BY <1>s, <2>1 DEF StopsAt, StepsOf, StepsOver, AllDone, Inflight
<1>4. CASE LogResumed(r)
  <2>1. mem'[r].steps = mem[r].steps
    BY <1>0, <1>4, RunEventIs DEF LogResumed, Logged, NotLogged
  <2>2. pc' = pc /\ x' = x /\ failure' = failure /\ stopped' = stopped
        /\ loop[r] \in Active /\ loop'[r] = "eval" /\ (cause[r] # "none" => cause'[r] # "none")
    BY <1>0, <1>4 DEF LogResumed, LogFailed, First, Active
  <2> QED
    BY <1>s, <2>1, <2>2 DEF StopsAt, StepsOf, StepsOver, AllDone, Inflight
<1>5. CASE LogDone(r) \/ LogEnd(r)
  <2>1. mem'[r].steps = mem[r].steps
    BY <1>0, <1>5, RunEventIs DEF LogDone, LogEnd, LogRunEnded, Logged, NotLogged
  <2>2. pc' = pc /\ failure' = failure /\ loop[r] \in Over /\ loop'[r] = "finish"
    BY <1>0, <1>5 DEF LogDone, LogEnd, LogRunEnded, Over
  <2>3. Settled(r)
    BY <1>q, <1>s, <2>1, <2>2 DEF Settled, StopsAt, Active
  <2> QED
    BY <2>3, SettledStops
<1>6. CASE Finish(r) \/ CloseSessions(r)
  <2>1. mem' = mem /\ pc' = pc /\ failure' = failure /\ loop[r] \in Over
        /\ loop'[r] \in {"closing", "forget"}
    BY <1>0, <1>6 DEF Finish, CloseSessions, Over
  <2>2. Settled(r)
    BY <1>q, <1>s, <2>1 DEF Settled, StopsAt, Active
  <2> QED
    BY <2>2, SettledStops
<1>7. CASE Forget(r)
  <2>1. pc' = pc /\ ~failure'[r] /\ loop[r] \in Over /\ loop'[r] = "off"
    BY <1>0, <1>7 DEF Forget, Cleared, Over
  <2>2. Settled(r)
    BY <1>q, <2>1 DEF Settled, Active
  <2> QED
    BY <2>2, SettledStops
<1> QED
  BY <1>1, <1>2, <1>3, <1>4, <1>5, <1>6, <1>7 DEF LoopNext

(* The calls, Shutdown and the exchanges. *)
LEMMA AllAlone ==
  ASSUME StopInv, loop' = loop, mem' = mem, failure' = failure, stopped' = stopped, pc' = pc,
         \A q \in Runs : cause[q] # "none" => cause'[q] # "none",
         \A t \in Steps : x'[t] = x[t] \/ pc[t] \notin {"log", "end", "classify"}
  PROVE  StopInv'
<1>1. ASSUME NEW q \in Runs PROVE StopsAt(q)'
  <2>1. Alone(q)
    BY DEF Alone, StepsOf
  <2> QED
    BY <2>1, AloneStops, StopsEach
<1> QED
  BY <1>1, StopsEach

LEMMA OneSettled ==
  ASSUME StopInv, NEW r \in Runs, Settled(r), \A q \in Runs \ {r} : Alone(q)
  PROVE  StopInv'
<1>1. StopsAt(r)'
  BY SettledStops
<1>2. \A q \in Runs \ {r} : StopsAt(q)'
  BY AloneStops, StopsEach
<1> QED
  BY <1>1, <1>2, StopsEach

LEMMA ClearedAll ==
  ASSUME TypeOK, NEW r \in Runs, NEW p, NEW st, Cleared(r, p, st)
  PROVE  /\ ~failure'[r] /\ ~stopped'[r] /\ loop'[r] = p /\ mem'[r] = st
         /\ \A q \in Runs \ {r} :
              /\ loop'[q] = loop[q] /\ mem'[q] = mem[q] /\ cause'[q] = cause[q]
              /\ failure'[q] = failure[q] /\ stopped'[q] = stopped[q]
BY DEF Cleared, Go, TypeOK

LEMMA ClearedStops ==
  ASSUME TypeOK, WorkInv, StopInv, NEW r \in Runs, NEW p \in {"off", "new"}, NEW st, Cleared(r, p, st),
         loop[r] \in {"off", "new"}, pc' = pc, x' = x
  PROVE  StopInv'
<1>1. \A t \in StepsOf(r) : pc[t] \in Releasing
  BY DEF WorkInv, Quiet, Over
<1>2. Settled(r)
  BY <1>1, ClearedAll DEF Settled, Active
<1>3. \A q \in Runs \ {r} : Alone(q)
  BY ClearedAll DEF Alone
<1> QED
  BY <1>2, <1>3, OneSettled

LEMMA StartLogStops ==
  ASSUME TypeOK, WorkInv, CallInv, StopInv, NEW c \in Callers, StartLog(c)
  PROVE  StopInv'
<1> DEFINE r == call[c].run
<1> USE DEF vars, logVars, worldVars, runVars, envVars, procVars, ctxVars, loopVars, stepVars
<1>0. r \in Runs /\ loop \in [Runs -> LoopPC] /\ mem \in [Runs -> State] /\ pc' = pc /\ x' = x
  BY DEF TypeOK, Call, StartLog
<1>1. c \in Pending
  BY DEF StartLog, Pending
<1>2. loop[r] = "new" /\ mem[r] = Empty
  BY <1>1 DEF CallInv, OnePending, Starters, StartLog
<1>3. CASE Cleared(r, "off", Empty)
  BY <1>0, <1>2, <1>3, ClearedStops
<1>4. CASE /\ Logged(r, RunStarted) /\ Go(r, "eval")
           /\ UNCHANGED <<ctxVars, err, timer, wake, open>>
  <2>1. mem'[r].steps = Empty.steps
    BY <1>0, <1>2, <1>4, EmptyType, RunEventIs DEF Logged
  <2>2. \A t \in StepsOf(r) : mem'[r].steps[t].status = "pending" /\ mem[r].steps[t].status = "pending"
    BY <1>2, <2>1 DEF Empty, StepsOf
  <2>3. ~failure[r]
    BY <1>0, <2>2 DEF StopInv, FailureHasStep
  <2>4. ~stopped[r]
    BY <1>0, <1>2 DEF StopInv, Launched
  <2>5. loop'[r] = "eval" /\ failure' = failure /\ stopped' = stopped /\ cause' = cause
        /\ \A q \in Runs \ {r} : loop'[q] = loop[q] /\ mem'[q] = mem[q]
    BY <1>0, <1>4 DEF Go, Logged
  <2>6. \A t \in StepsOf(r) : pc[t] \in Releasing
    BY <1>0, <1>2 DEF WorkInv, Quiet, Over
  <2>7. Settled(r)
    BY <1>0, <2>2, <2>3, <2>4, <2>5, <2>6 DEF Settled
  <2>8. \A q \in Runs \ {r} : Alone(q)
    BY <1>0, <2>5 DEF Alone
  <2> QED
    BY <1>0, <2>7, <2>8, OneSettled
<1> QED
  BY <1>3, <1>4 DEF StartLog

LEMMA ResumeLaunchStops ==
  ASSUME TypeOK, WorkInv, CallInv, StopInv, NEW c \in Callers, ResumeLaunch(c)
  PROVE  StopInv'
<1> DEFINE r == call[c].run
<1> USE DEF vars, logVars, worldVars, runVars, envVars, procVars, ctxVars, loopVars, stepVars
<1>0. r \in Runs /\ loop \in [Runs -> LoopPC] /\ mem \in [Runs -> State] /\ pc' = pc /\ x' = x
      /\ cause \in [Runs -> Cause] /\ failure \in [Runs -> BOOLEAN] /\ stopped \in [Runs -> BOOLEAN]
  BY DEF TypeOK, Call, ResumeLaunch
<1>1. c \in Pending
  BY DEF ResumeLaunch, Pending
<1>2. loop[r] = "new"
  BY <1>1 DEF CallInv, OnePending
<1>3. CASE Cleared(r, "off", Empty)
  BY <1>0, <1>2, <1>3, ClearedStops
<1>4. CASE /\ IF mem[r].status = "paused" THEN UNCHANGED logVars ELSE Logged(r, RunResumed)
           /\ failure' = [failure EXCEPT ![r] = SettleFails(r)]
           /\ stopped' = [stopped EXCEPT ![r] = SettleFails(r)]
           /\ cause' = [cause EXCEPT ![r] = IF SettleCancels(r) THEN First(@, "cancelled") ELSE @]
           /\ Go(r, "eval")
  <2>1. mem'[r].steps = mem[r].steps /\ \A q \in Runs \ {r} : mem'[q] = mem[q]
    BY <1>0, <1>4, RunEventIs DEF Logged
  <2>2. failure'[r] = SettleFails(r) /\ stopped'[r] = SettleFails(r) /\ loop'[r] = "eval"
        /\ (SettleCancels(r) => cause'[r] # "none")
    BY <1>0, <1>4 DEF Go, First
  <2>3. \A q \in Runs \ {r} : loop'[q] = loop[q] /\ cause'[q] = cause[q] /\ failure'[q] = failure[q]
                              /\ stopped'[q] = stopped[q]
    BY <1>0, <1>4 DEF Go
  <2>4. \A t \in StepsOf(r) : pc[t] \in Releasing
    BY <1>0, <1>2 DEF WorkInv, Quiet, Over
  <2>5. /\ SettleFails(r) <=> \E t \in StepsOf(r) : mem'[r].steps[t].status = "failed"
        /\ SettleCancels(r) <=> \E t \in StepsOf(r) : mem'[r].steps[t].status = "cancelled"
    BY <2>1 DEF SettleFails, SettleCancels, SomeStep
  <2>6. Settled(r)
    BY <1>0, <2>2, <2>4, <2>5 DEF Settled
  <2>7. \A q \in Runs \ {r} : Alone(q)
    BY <1>0, <2>1, <2>3 DEF Alone
  <2> QED
    BY <1>0, <2>6, <2>7, OneSettled
<1> QED
  BY <1>3, <1>4 DEF ResumeLaunch

LEMMA CallStops ==
  ASSUME TypeOK, WorkInv, CallInv, StopInv, NEW c \in Callers, CallNext(c)
  PROVE  StopInv'
<1> DEFINE r == call[c].run
<1> USE DEF vars, logVars, worldVars, runVars, envVars, procVars, ctxVars, loopVars, stepVars
<1>1. CASE ReadLog(c) \/ CancelAppend(c)
  BY <1>1, AllAlone DEF ReadLog, CancelAppend
<1>2. CASE ResumeNew(c)
  <2>1. r \in Runs /\ pc' = pc /\ x' = x
    BY <1>2 DEF TypeOK, Call, ResumeNew
  <2>2. CASE NewRun(r, call[c].seen)
    BY <2>1, <2>2, ClearedStops DEF NewRun, Registered
  <2>3. CASE UNCHANGED <<mem, ctxVars, loopVars, wake, open>>
    BY <2>1, <2>3, AllAlone
  <2> QED
    BY <1>2, <2>2, <2>3 DEF ResumeNew
<1> QED
  BY <1>1, <1>2, StartLogStops, ResumeLaunchStops DEF CallNext

LEMMA BeginStops ==
  ASSUME TypeOK, WorkInv, StopInv, NEW c \in Callers, NEW r \in Runs,
         Start(c, r) \/ Resume(c, r) \/ Cancel(c, r)
  PROVE  StopInv'
<1> USE DEF vars, logVars, worldVars, runVars, envVars, procVars, ctxVars, loopVars, stepVars
<1>1. CASE Start(c, r)
  <2>1. pc' = pc /\ x' = x
    BY <1>1 DEF Start
  <2>2. CASE NewRun(r, Empty)
    BY <2>1, <2>2, ClearedStops DEF NewRun, Registered
  <2>3. CASE UNCHANGED <<mem, ctxVars, loopVars, wake, open>>
    BY <2>1, <2>3, AllAlone
  <2> QED
    BY <1>1, <2>2, <2>3 DEF Start
<1>2. CASE Resume(c, r)
  BY <1>2, AllAlone DEF Resume
<1>3. CASE Cancel(c, r)
  <2>1. \A q \in Runs : cause[q] # "none" => cause'[q] # "none"
    BY <1>3 DEF Cancel, First, TypeOK
  <2> QED
    BY <1>3, <2>1, AllAlone DEF Cancel
<1> QED
  BY <1>1, <1>2, <1>3

LEMMA NewProcessStops ==
  ASSUME NewProcess
  PROVE  StopInv'
<1>1. ASSUME NEW r \in Runs PROVE StopsAt(r)'
  <2>1. loop'[r] = "off" /\ ~failure'[r] /\ ~stopped'[r] /\ \A t \in StepsOf(r) : pc'[t] = "none"
    BY DEF NewProcess, StepsOf
  <2> QED
    BY <2>1 DEF StopsAt, Active, StepsOf
<1> QED
  BY <1>1, StopsEach

LEMMA NextStops ==
  ASSUME TypeOK, LogInv, ExclusionInv, WorkInv, CallInv, StopInv, [Next]_vars
  PROVE  WorkInv' /\ CallInv' /\ StopInv'
<1> USE DEF vars, logVars, worldVars, runVars, envVars, procVars, ctxVars, loopVars, stepVars
<1>1. ASSUME NEW s \in Steps, StepNext(s) PROVE WorkInv' /\ CallInv' /\ StopInv'
  BY <1>1, StepWorks, StepCalls, StepStops
<1>2. ASSUME NEW r \in Runs, LoopNext(r) PROVE WorkInv' /\ CallInv' /\ StopInv'
  BY <1>2, LoopWorks, LoopCalls, LoopStops
<1>3. ASSUME NEW c \in Callers, CallNext(c) PROVE WorkInv' /\ CallInv' /\ StopInv'
  BY <1>3, CallWorks, CallStops
<1>4. ASSUME NEW c \in Callers, NEW r \in Runs, Start(c, r) \/ Resume(c, r) \/ Cancel(c, r)
      PROVE  WorkInv' /\ CallInv' /\ StopInv'
  BY <1>4, BeginWorks, BeginStops
<1>5. CASE NewProcess
  BY <1>5, NewProcessWorks, NewProcessStops
<1>6. CASE Shutdown \/ Tick \/ UNCHANGED vars \/ \E s \in Steps : ExchangeEnds(s)
  <2>1. loop' = loop /\ mem' = mem /\ disk' = disk /\ pc' = pc /\ call' = call
        /\ failure' = failure /\ stopped' = stopped
    BY <1>6 DEF Shutdown, Tick, ExchangeEnds
  <2>2. \A q \in Runs : cause[q] # "none" => cause'[q] # "none"
    BY <1>6 DEF Shutdown, Tick, ExchangeEnds, First, TypeOK
  <2>3. \A t \in Steps : x'[t] = x[t] \/ pc[t] \notin {"log", "end", "classify"}
    <3>1. ASSUME NEW s \in Steps, ExchangeEnds(s), NEW t \in Steps
          PROVE  x'[t] = x[t] \/ pc[t] \notin {"log", "end", "classify"}
      BY <3>1 DEF ExchangeEnds, TypeOK, ExclusionInv, SentOnly, Exchanging
    <3> QED
      BY <1>6, <3>1 DEF Shutdown, Tick
  <2>4. Extends
    BY <2>1 DEF Extends
  <2> QED
    BY <2>1, <2>2, <2>3, <2>4, SameWorks, CallsStay, AllAlone
<1> QED
  BY <1>1, <1>2, <1>3, <1>4, <1>5, <1>6 DEF Next, Restart, Crash, Terminated

-----------------------------------------------------------------------------
(* The states a log has.                                                   *)

LEMMA NextExtends ==
  ASSUME TypeOK, LogInv, WorkInv, CallInv, StopInv, [Next]_vars
  PROVE  Extends \/ \E c \in Callers : StartLog(c)
<1> USE DEF vars, logVars, worldVars, runVars, envVars, procVars, ctxVars, loopVars, stepVars
<1>1. CASE disk' = disk
  BY <1>1 DEF Extends
<1>2. CASE NewProcess
  BY <1>1, <1>2 DEF NewProcess
<1>3. ASSUME NEW c \in Callers, NEW r \in Runs, Start(c, r) \/ Resume(c, r) \/ Cancel(c, r)
      PROVE  disk' = disk
  BY <1>3 DEF Start, Resume, Cancel
<1>4. CASE Shutdown \/ Tick \/ UNCHANGED vars \/ \E s \in Steps : ExchangeEnds(s)
  BY <1>1, <1>4 DEF Shutdown, Tick, ExchangeEnds
<1> QED
  BY <1>1, <1>2, <1>3, <1>4, StepExtends, LoopExtends, CallExtends DEF Next, Restart, Crash, Terminated

LEMMA SoundApplied ==
  ASSUME NEW st \in State, NEW r \in Runs, NEW e, Sound(st, r), MayFollow(st, r, e)
  PROVE  Sound(Apply(st, e), r)
<1> DEFINE a == Apply(st, e)
<1>0. Live(st) /\ st.status # "none" /\ st.status \notin Ended /\ \A s \in StepsOf(r) : s \in Steps
  BY DEF MayFollow, Live, Sound, StepsOf
<1>1. CASE e = RunResumed
  <2>1. a.steps = st.steps /\ a.status = "running"
    BY <1>1, RunEventIs
  <2> QED
    BY <2>1 DEF Sound
<1>2. ASSUME NEW s \in StepsOf(r), Going(st, s), OwnEvent(s, e) PROVE Sound(a, r)
  <2>0. s \in Steps
    BY <1>0
  <2>1. CASE e = SessionOpened(Sess[s])
    <3>1. a.steps = st.steps /\ a.status = st.status
      BY <2>1, RunEventIs
    <3> QED
      BY <1>0, <3>1 DEF Sound
  <2>2. ASSUME NEW t \in Nat, e = RunPaused(t) PROVE Sound(a, r)
    <3>1. a.steps = st.steps /\ a.status = "paused"
      BY <2>2, RunEventIs
    <3> QED
      BY <3>1 DEF Sound
  <2>3. ASSUME NEW i \in Nat, e = StepStarted(s, i) \/ \E z \in Ended : e = StepEnded(s, i, z)
        PROVE  Sound(a, r)
    <3>1. a.status = st.status /\ \A t \in Steps \ {s} : a.steps[t] = st.steps[t]
      BY <2>0, <2>3, StepStartedIs, StepEndedIs
    <3>2. st.steps[s].status # "done" /\ \A t \in After[s] : st.steps[t].status = "done"
      BY <1>2 DEF Going
    <3>3. ASSUME NEW t \in StepsOf(r), a.steps[t].status = "done", NEW u \in After[t]
          PROVE  a.steps[u].status = "done"
      <4>1. st.steps[u].status = "done" /\ u \in Steps
        BY <1>0, <3>1, <3>2, <3>3, AfterAssumption DEF Sound
      <4> QED
        BY <3>1, <3>2, <4>1
    <3> QED
      BY <1>0, <3>1, <3>3 DEF Sound, Ended
  <2> QED
    BY <1>2, <2>1, <2>2, <2>3 DEF OwnEvent
<1>3. ASSUME NEW z \in Ended, e = RunEnded(z),
             z = "done" => \A s \in StepsOf(r) : st.steps[s].status = "done",
             z = "failed" => \E s \in StepsOf(r) : st.steps[s].status = "failed"
      PROVE  Sound(a, r)
  <2>1. a.steps = st.steps /\ a.status = z
    BY <1>3, RunEventIs
  <2> QED
    BY <1>3, <2>1 DEF Sound, Ended
<1> QED
  BY <1>1, <1>2, <1>3 DEF MayFollow

LEMMA SoundFirst ==
  ASSUME NEW r \in Runs
  PROVE  Sound(Empty, r) /\ Sound(Apply(Empty, RunStarted), r)
<1>1. \A s \in StepsOf(r) : Empty.steps[s].status = "pending"
  BY DEF Empty, StepsOf
<1>2. Empty.seq = 0 /\ Empty.status = "none"
  BY DEF Empty
<1>3. Apply(Empty, RunStarted).steps = Empty.steps /\ Apply(Empty, RunStarted).status = "running"
  BY EmptyType, RunEventIs
<1> QED
  BY <1>1, <1>2, <1>3 DEF Sound

LEMMA SoundStays ==
  ASSUME TypeOK, TypeOK', LogInv, WorkInv, CallInv, StopInv, SoundInv, [Next]_vars
  PROVE  SoundInv'
<1>1. \A r \in Runs : Sound(disk'[r], r)
  <2>1. ASSUME NEW c \in Callers, StartLog(c), NEW r \in Runs PROVE Sound(disk'[r], r)
    <3> DEFINE b == call[c].run
    <3>1. disk \in [Runs -> State] /\ Sound(disk[r], r)
      BY DEF TypeOK, SoundInv
    <3>2. disk[b] = Empty /\ (disk' = disk \/ disk' = [disk EXCEPT ![b] = Apply(disk[b], RunStarted)])
      BY <2>1, StartExtends DEF Appended
    <3> HIDE DEF b
    <3>3. disk'[r] = disk[r] \/ disk'[r] = Apply(Empty, RunStarted)
      BY <3>1, <3>2
    <3> QED
      BY <3>1, <3>3, SoundFirst
  <2>2. ASSUME NEW q \in Runs, NEW e, MayFollow(disk[q], q, e), Appended(q, e), NEW r \in Runs
        PROVE  Sound(disk'[r], r)
    BY <2>2, SoundApplied DEF Appended, TypeOK, SoundInv
  <2> QED
    BY <2>1, <2>2, NextExtends DEF Extends, SoundInv
<1>2. MemKeeps /\ SeenKeeps
  BY NextKeeps
<1>3. \A r \in Runs : Sound(mem'[r], r)
  BY <1>1, <1>2, SoundFirst DEF MemKeeps, Held, SoundInv
<1>4. ASSUME NEW c \in Callers, call'[c].pc \in {"newRun", "cappend"}
      PROVE  Sound(call'[c].seen, call'[c].run)
  <2>1. CASE call'[c] = call[c]
    BY <1>4, <2>1 DEF SoundInv
  <2>2. CASE call'[c].seen = disk[call'[c].run]
    <3>1. call'[c].run \in Runs
      BY DEF TypeOK, Call
    <3> QED
      BY <2>2, <3>1 DEF SoundInv
  <2> QED
    BY <1>2, <1>4, <2>1, <2>2 DEF SeenKeeps
<1> QED
  BY <1>1, <1>3, <1>4 DEF SoundInv, Sound, StepsOf

-----------------------------------------------------------------------------
(* What a run knows of its log.                                            *)

Knows(r) ==
    cause[r] = "none" /\ mem[r].status # "paused" => mem[r].steps = disk[r].steps
KnownAt(r) ==
    /\ loop[r] \in Active => Knows(r)
    /\ loop[r] = "start" =>
         \A t \in StepsOf(r) : disk[r].steps[t].status = "failed" => pc[t] # "none"

LEMMA KnownEach ==
  /\ KnownInv => \A r \in Runs : KnownAt(r)
  /\ (\A r \in Runs : KnownAt(r)') => KnownInv'
BY DEF KnownInv, KnownAt, Knows, StepsKnown, StartClean

(* After an append, made or failed, a run that is not interrupted has the  *)
(* log's state, or log and state are what they were.                       *)
LEMMA AppendKnows ==
  ASSUME TypeOK, LogInv, NEW r \in Runs, NEW e, Logged(r, e) \/ (NotLogged(r, e) /\ LogFailed(r, e))
  PROVE  /\ cause'[r] = "none" =>
              mem'[r] = disk'[r] \/ (mem'[r] = mem[r] /\ disk'[r] = disk[r])
         /\ \A q \in Runs \ {r} : disk'[q] = disk[q]
<1>0. mem \in [Runs -> State] /\ disk \in [Runs -> State] /\ cause \in [Runs -> Cause]
  BY DEF TypeOK
<1>1. CASE Logged(r, e)
  <2>1. mem[r] = disk[r]
    BY <1>1 DEF Logged, LogInv, MemBehind, Behind
  <2>2. mem' = [mem EXCEPT ![r] = Apply(mem[r], e)] /\ disk' = [disk EXCEPT ![r] = Apply(disk[r], e)]
    BY <1>1 DEF Logged
  <2> QED
    BY <1>0, <2>1, <2>2
<1>2. CASE NotLogged(r, e) /\ LogFailed(r, e) /\ Follows(mem[r], e)
  <2>1. cause'[r] # "none"
    BY <1>0, <1>2 DEF LogFailed, First
  <2>2. \A q \in Runs \ {r} : disk'[q] = disk[q]
    BY <1>0, <1>2 DEF NotLogged, Fault
  <2> QED
    BY <2>1, <2>2
<1>3. CASE NotLogged(r, e) /\ ~Follows(mem[r], e)
  BY <1>3 DEF NotLogged
<1> QED
  BY <1>1, <1>2, <1>3

LEMMA KnownSame ==
  ASSUME NEW q \in Runs, KnownAt(q), loop'[q] = loop[q],
         mem'[q] = mem[q], disk'[q].steps = disk[q].steps,
         cause[q] # "none" => cause'[q] # "none",
         loop[q] = "start" => \A t \in StepsOf(q) : pc[t] # "none" => pc'[t] # "none"
  PROVE  KnownAt(q)'
<1>1. StepsOf(q)' = StepsOf(q)
  BY DEF StepsOf
<1> QED
  BY <1>1 DEF KnownAt, Knows

LEMMA StepKnows ==
  ASSUME TypeOK, LogInv, WorkInv, KnownInv, NEW s \in Steps, StepNext(s)
  PROVE  KnownInv'
<1> DEFINE r == RunOf[s]
<1> USE DEF vars, logVars, worldVars, runVars, envVars, procVars, ctxVars, loopVars, stepVars
<1>0. r \in Runs
  BY RunOfAssumption
<1>1. /\ \A q \in Runs \ {r} : disk'[q] = disk[q]
      /\ cause'[r] = "none" =>
           mem'[r] = disk'[r] \/ (mem'[r] = mem[r] /\ disk'[r] = disk[r])
  <2>1. CASE mem' = mem /\ disk' = disk
    BY <2>1
  <2>2. ASSUME NEW e, Logged(r, e) \/ (NotLogged(r, e) /\ LogFailed(r, e))
        PROVE  /\ \A q \in Runs \ {r} : disk'[q] = disk[q]
               /\ cause'[r] = "none" =>
                    mem'[r] = disk'[r] \/ (mem'[r] = mem[r] /\ disk'[r] = disk[r])
    BY <1>0, <2>2, AppendKnows
  <2>3. \/ mem' = mem /\ disk' = disk
        \/ \E e : Logged(r, e) \/ (NotLogged(r, e) /\ LogFailed(r, e))
    <3>1. CASE LogOpened(s) \/ Adopt(s) \/ LogStarted(s) \/ LogEnded(s)
      BY <3>1 DEF LogOpened, Adopt, LogStarted, LogEnded
    <3>2. CASE OpenSession(s) \/ Send(s) \/ Follow(s) \/ EndInterrupted(s) \/ EndClassify(s)
               \/ Fail(s) \/ FreeSlot(s) \/ TakeIdle(s) \/ CloseIdle(s) \/ Leave(s)
      BY <3>2 DEF OpenSession, Send, Follow, EndInterrupted, EndClassify, Fail, FreeSlot, TakeIdle,
                  CloseIdle, Leave
    <3> QED
      BY <3>1, <3>2 DEF StepNext
  <2> QED
    BY <2>1, <2>2, <2>3
<1>2. loop' = loop /\ loop[r] # "start" /\ \A t \in Steps \ {s} : pc'[t] = pc[t]
  BY StepOwn
<1>3. \A q \in Runs : cause[q] # "none" => cause'[q] # "none"
  BY StepCauses
<1>4. ASSUME NEW q \in Runs \ {r} PROVE KnownAt(q)'
  <2>1. mem'[q] = mem[q]
    BY StepKeepsState DEF StepKeeping
  <2>2. \A t \in StepsOf(q) : pc'[t] = pc[t]
    BY <1>2 DEF StepsOf
  <2> QED
    BY <1>1, <1>2, <1>3, <2>1, <2>2, KnownEach, KnownSame
<1>5. KnownAt(r)'
  BY <1>0, <1>1, <1>2, <1>3, KnownEach DEF KnownAt, Knows
<1> QED
  BY <1>4, <1>5, KnownEach

(* A loop that may start steps starts none of a run whose log has a failed *)
(* step that no goroutine is at.                                           *)
LEMMA LaunchIsClean ==
  ASSUME TypeOK, StopInv, KnownInv, NEW r \in Runs, LoopReady(r), NEW t \in StepsOf(r),
         disk[r].steps[t].status = "failed"
  PROVE  pc[t] # "none"
<1>1. CASE loop[r] = "start"
  BY <1>1 DEF KnownInv, StartClean
<1>2. CASE loop[r] = "eval" /\ ~Stopping(r) /\ mem[r].status # "paused"
  <2>1. mem[r].steps = disk[r].steps
    BY <1>2 DEF KnownInv, StepsKnown, Stopping, Active
  <2> QED
    BY <1>2, <2>1 DEF StopInv, FailedStops, Stopping, Active
<1> QED
  BY <1>1, <1>2 DEF LoopReady

LEMMA LoopKnows ==
  ASSUME TypeOK, LogInv, StopInv, KnownInv, NEW r \in Runs, LoopNext(r)
  PROVE  KnownInv'
<1> USE DEF vars, logVars, worldVars, runVars, envVars, procVars, ctxVars, loopVars, stepVars, Go
<1>0. loop \in [Runs -> LoopPC] /\ cause \in [Runs -> Cause]
  BY DEF TypeOK
<1>k. KnownAt(r)
  BY KnownEach
<1>1. ASSUME NEW q \in Runs \ {r}, disk'[q] = disk[q] PROVE KnownAt(q)'
  <2>1. \A t \in StepsOf(q) : pc'[t] = pc[t]
    BY LoopOwn DEF StepsOf
  <2> QED
    BY <1>1, <2>1, LoopOwn, LoopCauses, KnownEach, KnownSame
<1>2. CASE LoopStopping(r) \/ LoopDone(r) \/ LoopPaused(r) \/ LoopWait(r) \/ Wake(r) \/ Interrupt(r)
  <2>1. mem' = mem /\ disk' = disk /\ cause' = cause /\ pc' = pc /\ loop[r] \in Active
        /\ (loop'[r] = "start" => loop[r] = "start")
    BY <1>0, <1>2 DEF LoopStopping, LoopDone, LoopPaused, LoopWait, LoopReady, Wake, Interrupt, Active
  <2>2. KnownAt(r)'
    BY <1>k, <2>1 DEF KnownAt, Knows, StepsOf
  <2> QED
    BY <1>1, <2>1, <2>2, KnownEach
<1>3. CASE LoopLaunch(r)
  <2>1. mem' = mem /\ disk' = disk /\ cause' = cause /\ loop[r] \in Active /\ LoopReady(r)
    BY <1>3 DEF LoopLaunch, LoopReady, Active
  <2>2. \A t \in StepsOf(r) : pc[t] # "none" => pc'[t] # "none"
    BY LoopOwn DEF StepsOf
  <2>3. \A t \in StepsOf(r) : disk[r].steps[t].status = "failed" => pc[t] # "none"
    BY <2>1, LaunchIsClean
  <2>4. KnownAt(r)'
    BY <1>k, <2>1, <2>2, <2>3 DEF KnownAt, Knows, StepsOf
  <2> QED
    BY <1>1, <2>1, <2>4, KnownEach
<1>4. CASE LogResumed(r)
  <2>1. Logged(r, RunResumed) \/ (NotLogged(r, RunResumed) /\ LogFailed(r, RunResumed))
    BY <1>4 DEF LogResumed
  <2>2. loop[r] \in Active /\ loop'[r] = "eval" /\ (cause[r] # "none" => cause'[r] # "none")
    BY <1>0, <1>4 DEF LogResumed, LogFailed, First, Active
  <2>3. KnownAt(r)'
    BY <1>k, <2>1, <2>2, AppendKnows DEF KnownAt, Knows
  <2> QED
    BY <1>1, <2>1, <2>3, AppendKnows, KnownEach
<1>5. CASE LogDone(r) \/ LogEnd(r)
  <2>1. \A q \in Runs \ {r} : disk'[q] = disk[q]
    <3>1. \/ disk' = disk
          \/ \E e : Logged(r, e) \/ (NotLogged(r, e) /\ LogFailed(r, e))
      BY <1>5 DEF LogDone, LogEnd, LogRunEnded
    <3> QED
      BY <3>1, AppendKnows
  <2>2. loop'[r] = "finish"
    BY <1>0, <1>5 DEF LogDone, LogEnd, LogRunEnded
  <2>3. KnownAt(r)'
    BY <2>2 DEF KnownAt, Active
  <2> QED
    BY <1>1, <2>1, <2>3, KnownEach
<1>6. CASE Finish(r) \/ CloseSessions(r) \/ Forget(r)
  <2>1. disk' = disk /\ loop'[r] \in {"closing", "forget", "off"}
    BY <1>0, <1>6 DEF Finish, CloseSessions, Forget, Cleared
  <2>2. KnownAt(r)'
    BY <2>1 DEF KnownAt, Active
  <2> QED
    BY <1>1, <2>1, <2>2, KnownEach
<1> QED
  BY <1>2, <1>3, <1>4, <1>5, <1>6 DEF LoopNext

LEMMA AllKnown ==
  ASSUME KnownInv, loop' = loop, mem' = mem, pc' = pc,
         \A q \in Runs : disk'[q].steps = disk[q].steps,
         \A q \in Runs : cause[q] # "none" => cause'[q] # "none"
  PROVE  KnownInv'
BY KnownEach, KnownSame

(* A run that is cleared, or launched with the state of its log. *)
LEMMA OneKnown ==
  ASSUME KnownInv, NEW r \in Runs, pc' = pc, loop'[r] # "start", loop'[r] \in Active => Knows(r)',
         \A q \in Runs \ {r} : /\ loop'[q] = loop[q] /\ mem'[q] = mem[q] /\ disk'[q] = disk[q]
                               /\ cause'[q] = cause[q]
  PROVE  KnownInv'
<1>1. KnownAt(r)'
  BY DEF KnownAt
<1>2. \A q \in Runs \ {r} : KnownAt(q)'
  BY KnownEach, KnownSame
<1> QED
  BY <1>1, <1>2, KnownEach

LEMMA ClearedKnows ==
  ASSUME TypeOK, KnownInv, NEW r \in Runs, NEW p \in {"off", "new"}, NEW st, Cleared(r, p, st),
         pc' = pc, \A q \in Runs \ {r} : disk'[q] = disk[q]
  PROVE  KnownInv'
BY ClearedAll, OneKnown DEF Active

LEMMA CallKnows ==
  ASSUME TypeOK, LogInv, KnownInv, NEW c \in Callers, CallNext(c)
  PROVE  KnownInv'
<1>p. PICK r \in Runs : r = call[c].run
  BY DEF TypeOK, Call
<1> USE DEF vars, logVars, worldVars, runVars, envVars, procVars, ctxVars, loopVars, stepVars
<1>0. r \in Runs /\ loop \in [Runs -> LoopPC] /\ mem \in [Runs -> State] /\ disk \in [Runs -> State]
      /\ cause \in [Runs -> Cause] /\ pc' = pc
  BY DEF TypeOK, Call, CallNext, StartLog, ReadLog, ResumeNew, ResumeLaunch, CancelAppend
<1>1. ASSUME NEW e, Logged(r, e), loop' = [loop EXCEPT ![r] = "eval"],
             \A q \in Runs \ {r} : cause'[q] = cause[q]
      PROVE  KnownInv'
  <2>1. mem[r] = disk[r]
    BY <1>0, <1>1 DEF Logged, LogInv, MemBehind, Behind
  <2>2. mem'[r] = disk'[r] /\ \A q \in Runs \ {r} : mem'[q] = mem[q] /\ disk'[q] = disk[q]
    BY <1>0, <1>1, <2>1 DEF Logged
  <2>3. loop'[r] = "eval" /\ \A q \in Runs \ {r} : loop'[q] = loop[q]
    BY <1>0, <1>1
  <2>4. Knows(r)'
    BY <2>2 DEF Knows
  <2> QED
    BY <1>0, <1>1, <2>2, <2>3, <2>4, OneKnown
<1>2. CASE StartLog(c)
  <2>1. CASE Fault(r, RunStarted) /\ Cleared(r, "off", Empty)
    BY <1>0, <2>1, ClearedKnows DEF Fault
  <2>2. CASE Logged(r, RunStarted) /\ Go(r, "eval") /\ UNCHANGED <<ctxVars, err, timer, wake, open>>
    BY <1>1, <2>2 DEF Go
  <2> QED
    BY <1>p, <1>2, <2>1, <2>2 DEF StartLog
<1>3. CASE ReadLog(c)
  BY <1>0, <1>3, AllKnown DEF ReadLog
<1>4. CASE ResumeNew(c)
  BY <1>p, <1>0, <1>4, AllKnown, ClearedKnows DEF ResumeNew, NewRun
<1>5. CASE ResumeLaunch(c)
  <2>1. CASE Cleared(r, "off", Empty) /\ (Fault(r, RunResumed) \/ disk' = disk)
    BY <1>0, <2>1, ClearedKnows DEF Fault
  <2>2. CASE /\ IF mem[r].status = "paused" THEN UNCHANGED logVars ELSE Logged(r, RunResumed)
             /\ cause' = [cause EXCEPT ![r] = IF SettleCancels(r) THEN First(@, "cancelled") ELSE @]
             /\ Go(r, "eval")
    <3>1. \A q \in Runs \ {r} : cause'[q] = cause[q] /\ loop'[q] = loop[q]
      BY <1>0, <2>2 DEF Go
    <3>2. CASE mem[r].status # "paused"
      BY <1>1, <2>2, <3>1, <3>2 DEF Go
    <3>3. CASE mem[r].status = "paused"
      <4>1. mem' = mem /\ disk' = disk /\ loop'[r] = "eval"
        BY <1>0, <2>2, <3>3 DEF Go
      <4>2. Knows(r)'
        BY <3>3, <4>1 DEF Knows
      <4> QED
        BY <1>0, <3>1, <4>1, <4>2, OneKnown
    <3> QED
      BY <3>2, <3>3
  <2> QED
    BY <1>p, <1>5, <2>1, <2>2 DEF ResumeLaunch
<1>6. CASE CancelAppend(c)
  <2>1. Apply(disk[r], RunEnded("cancelled")).steps = disk[r].steps
    BY <1>0, RunEventIs
  <2>2. \A q \in Runs : disk'[q].steps = disk[q].steps
    BY <1>p, <1>0, <1>6, <2>1 DEF CancelAppend, Fault
  <2> QED
    BY <1>0, <1>6, <2>2, AllKnown DEF CancelAppend
<1> QED
  BY <1>2, <1>3, <1>4, <1>5, <1>6 DEF CallNext

LEMMA KnownStays ==
  ASSUME TypeOK, LogInv, WorkInv, StopInv, KnownInv, [Next]_vars
  PROVE  KnownInv'
<1> USE DEF vars, logVars, worldVars, runVars, envVars, procVars, ctxVars, loopVars, stepVars
<1>1. ASSUME NEW c \in Callers, NEW r \in Runs, Start(c, r) \/ Resume(c, r) \/ Cancel(c, r)
      PROVE  KnownInv'
  <2>1. disk' = disk /\ pc' = pc
    BY <1>1 DEF Start, Resume, Cancel
  <2>2. CASE NewRun(r, Empty)
    BY <2>1, <2>2, ClearedKnows DEF NewRun
  <2>3. CASE loop' = loop /\ mem' = mem /\ \A q \in Runs : cause[q] # "none" => cause'[q] # "none"
    BY <2>1, <2>3, AllKnown
  <2> QED
    BY <1>1, <2>2, <2>3 DEF Start, Resume, Cancel, First, TypeOK
<1>2. CASE NewProcess
  <2>1. \A r \in Runs : loop'[r] = "off"
    BY <1>2 DEF NewProcess
  <2> QED
    BY <2>1, KnownEach DEF KnownAt, Active
<1>3. CASE Shutdown \/ Tick \/ UNCHANGED vars \/ \E s \in Steps : ExchangeEnds(s)
  <2>1. loop' = loop /\ mem' = mem /\ disk' = disk /\ pc' = pc
    BY <1>3 DEF Shutdown, Tick, ExchangeEnds
  <2>2. \A q \in Runs : cause[q] # "none" => cause'[q] # "none"
    BY <1>3 DEF Shutdown, Tick, ExchangeEnds, First, TypeOK
  <2> QED
    BY <2>1, <2>2, AllKnown
<1> QED
  BY <1>1, <1>2, <1>3, StepKnows, LoopKnows, CallKnows DEF Next, Restart, Crash, Terminated

-----------------------------------------------------------------------------
LifeInv == WorkInv /\ CallInv /\ StopInv /\ SoundInv /\ KnownInv

LEMMA LifeBegins == Init => LifeInv
<1> SUFFICES ASSUME Init PROVE LifeInv
  OBVIOUS
<1>1. /\ \A r \in Runs : /\ disk[r] = Empty /\ mem[r] = Empty /\ loop[r] = "off"
                         /\ ~failure[r] /\ ~stopped[r] /\ cause[r] = "none"
      /\ \A s \in Steps : pc[s] = "none"
      /\ \A c \in Callers : call[c].op = "none" /\ call[c].pc = "idle"
      /\ Empty.seq = 0
  BY DEF Init, Empty
<1>2. WorkInv
  BY <1>1 DEF WorkInv, Quiet, AtWork, FailNoted, ActiveLive, Working, Active, Releasing, StepsOf
<1>3. CallInv
  BY <1>1 DEF CallInv, OnePending, Pending, Starters, Settlers, Readers, StartOnce, Began
<1>4. StopInv
  BY <1>1 DEF StopInv, FailedStops, CancelledStops, StoppedFails, FailureHasStep, AllDoneAtEnd,
              RanFirst, Launched, Active
<1>5. SoundInv
  BY <1>1, SoundFirst DEF SoundInv
<1>6. KnownInv
  BY <1>1 DEF KnownInv, StepsKnown, StartClean, Active
<1> QED
  BY <1>2, <1>3, <1>4, <1>5, <1>6 DEF LifeInv

(* All that is needed of a state, and of the step from it. *)
AllInv == TypeOK /\ LogInv /\ ExclusionInv /\ LifeInv

LEMMA LifeStays == Spec => []AllInv
<1>1. TypeOK /\ TypeOK' /\ LogInv /\ ExclusionInv /\ LifeInv /\ [Next]_vars => LifeInv'
  <2> SUFFICES ASSUME TypeOK, TypeOK', LogInv, ExclusionInv, LifeInv, [Next]_vars PROVE LifeInv'
    OBVIOUS
  <2>1. WorkInv' /\ CallInv' /\ StopInv'
    BY NextStops DEF LifeInv
  <2>2. SoundInv'
    BY SoundStays DEF LifeInv
  <2>3. KnownInv'
    BY KnownStays DEF LifeInv
  <2> QED
    BY <2>1, <2>2, <2>3 DEF LifeInv
<1>2. TypeOK /\ LogInv /\ ExclusionInv /\ LifeInv => AllInv
  BY DEF AllInv
<1> QED
  BY <1>1, <1>2, LifeBegins, TypeCorrect, LogStays, Excludes, PTL DEF Spec

(* When a run's loop is over no goroutine of the run has an exchange or an *)
(* event to log any more, whatever was cancelled, failed or shut down.     *)
THEOREM WorkCorrect == Spec => []NoWorkOutlives
<1>1. AllInv => NoWorkOutlives
  BY DEF AllInv, LifeInv, WorkInv, Quiet, Over, NoWorkOutlives
<1> QED
  BY <1>1, LifeStays, PTL

(* A run whose log began has steps that can all come after each other, and *)
(* a step that goes on to its prompt has the result of every step that it  *)
(* depends on, in whatever state its run was resumed.                      *)
THEOREM PromptsCorrect == Spec => []PromptsRender
<1>1. ASSUME AllInv PROVE \A r \in Runs \ Ordered : disk[r].seq = 0
  <2>1. \A r \in Runs : disk[r].seq \in Nat /\ (disk[r].seq > 0 => r \in Accepted)
    BY <1>1 DEF AllInv, TypeOK, State, LifeInv, CallInv, Began
  <2>2. \A r \in Accepted : r \in Ordered
    BY AcceptedIs DEF Accepted, Ordered
  <2> QED
    BY <2>1, <2>2
<1>2. ASSUME AllInv, NEW s \in Steps, pc[s] = "send" PROVE HasResults(s)
  <2> DEFINE r == RunOf[s]
             w == Workflows[r]
             D == {t \in StepsOf(r) : mem[r].steps[t].status = "done"}
  <2>0. r \in Runs /\ s \in StepsOf(r)
    BY RunOfAssumption DEF StepsOf
  <2>1. Going(mem[r], s)
    BY <1>2 DEF AllInv, LifeInv, WorkInv, AtWork, Working
  <2>2. r \in Accepted
    BY <1>2, <2>0, <2>1, LiveBegan DEF AllInv, LifeInv, Going
  <2>3. Refers(w) /\ StepsOf(r) = Ids(w) /\ \A d \in Ids(w) : After[d] = Before(w, d)
    BY <2>0, <2>2, AcceptedIs
  <2>4. \A d \in StepsOf(r) : After[d] \subseteq StepsOf(r)
    BY AfterAssumption DEF StepsOf
  <2>5. After[s] \subseteq D
    BY <2>0, <2>1, <2>4 DEF Going
  <2>6. \A d \in D : After[d] \subseteq D
    BY <1>2, <2>0, <2>4 DEF AllInv, LifeInv, SoundInv, Sound
  <2> HIDE DEF w, D
  <2>7. D \subseteq Ids(w)
    BY <2>3 DEF D
  <2>8. Before(w, s) \subseteq D /\ SelfContained(w, D)
    BY <2>0, <2>3, <2>5, <2>6, <2>7 DEF SelfContained
  <2>9. Ancestors(w, s) \subseteq D
    BY <2>0, <2>3, <2>7, <2>8, AncestorsAre
  <2> QED
    BY <2>9 DEF HasResults, Needed, w, D
<1>3. AllInv => PromptsRender
  BY <1>1, <1>2, SearchRight DEF PromptsRender
<1> QED
  BY <1>3, LifeStays, PTL

-----------------------------------------------------------------------------
(* What the log has decided.                                               *)

(* An event that a log may get leaves the steps that have ended alone. *)
LEMMA MayKeeps ==
  ASSUME NEW st \in State, NEW r \in Runs, NEW e, MayFollow(st, r, e), NEW t \in Steps,
         st.steps[t].status \in Ended
  PROVE  Apply(st, e).steps[t] = st.steps[t]
<1>1. CASE e = RunResumed
  BY <1>1, RunEventIs
<1>2. ASSUME NEW s \in StepsOf(r), Going(st, s), OwnEvent(s, e)
      PROVE  Apply(st, e).steps[t] = st.steps[t]
  <2>1. s \in Steps /\ s # t
    BY <1>2 DEF StepsOf, Going, Ended
  <2> QED
    BY <1>2, <2>1, Keeps1 DEF Keeping
<1>3. ASSUME NEW z \in Ended, e = RunEnded(z) PROVE Apply(st, e).steps[t] = st.steps[t]
  BY <1>3, RunEventIs
<1> QED
  BY <1>1, <1>2, <1>3 DEF MayFollow

LEMMA DecidedKept ==
  ASSUME AllInv, [Next]_vars, NEW r \in Runs
  PROVE  /\ disk[r].status \in Ended => disk'[r] = disk[r]
         /\ \A s \in StepsOf(r) :
              disk[r].steps[s].status \in Ended => disk'[r].steps[s] = disk[r].steps[s]
<1>0. disk \in [Runs -> State]
  BY DEF AllInv, TypeOK
<1>1. CASE disk'[r] = disk[r]
  BY <1>1
<1>2. ASSUME NEW c \in Callers, StartLog(c), disk'[r] # disk[r]
      PROVE  disk[r] = Empty
  BY <1>0, <1>2, StartExtends DEF Appended, AllInv, LifeInv
<1>3. disk[r] = Empty => disk[r].status \notin Ended /\ \A s \in StepsOf(r) : disk[r].steps[s].status \notin Ended
  BY DEF Empty, StepsOf, Ended
<1>4. ASSUME NEW q \in Runs, NEW e, MayFollow(disk[q], q, e), Appended(q, e), disk'[r] # disk[r]
      PROVE  /\ disk[r].status \notin Ended
             /\ \A s \in StepsOf(r) :
                  disk[r].steps[s].status \in Ended => disk'[r].steps[s] = disk[r].steps[s]
  <2>1. q = r /\ disk'[r] = Apply(disk[r], e)
    BY <1>0, <1>4 DEF Appended
  <2>2. disk[r].status \notin Ended
    BY <1>4, <2>1 DEF MayFollow, Live
  <2> QED
    BY <1>0, <1>4, <2>1, <2>2, MayKeeps DEF StepsOf
<1> QED
  BY <1>1, <1>2, <1>3, <1>4, NextExtends DEF AllInv, LifeInv, Extends

(* A run that ended gets no further event, and a step that ended keeps its *)
(* end, whoever writes to the log.                                         *)
THEOREM DecidedCorrect == Spec => DecidedStays
<1>1. AllInv /\ [Next]_vars =>
        \A r \in Runs :
          /\ disk[r].status \in Ended => disk'[r] = disk[r]
          /\ \A s \in StepsOf(r) :
               disk[r].steps[s].status \in Ended => disk'[r].steps[s] = disk[r].steps[s]
  BY DecidedKept
<1> QED
  BY <1>1, LifeStays, PTL DEF Spec, DecidedStays

LEMMA NothingStarts ==
  ASSUME AllInv, [Next]_vars, NEW s \in Steps, NEW t \in StepsOf(RunOf[s]),
         disk[RunOf[s]].steps[t].status = "failed", pc[t] = "none", pc[s] = "none"
  PROVE  pc'[s] # "open"
<1> USE DEF vars, logVars, worldVars, runVars, envVars, procVars, ctxVars, loopVars, stepVars
<1>1. CASE pc' = pc
  BY <1>1
<1>2. ASSUME NEW u \in Steps, StepNext(u) PROVE pc'[s] # "open"
  BY <1>2, StepOwn DEF AllInv
<1>3. ASSUME NEW r \in Runs, LoopNext(r) PROVE pc'[s] # "open"
  <2>1. CASE LoopLaunch(r) /\ RunOf[s] = r
    BY <2>1, LaunchIsClean DEF LoopLaunch, AllInv, LifeInv
  <2> QED
    BY <1>3, <2>1, LoopOwn DEF AllInv
<1>4. ASSUME NEW c \in Callers, CallNext(c) PROVE pc' = pc
  BY <1>4 DEF CallNext, StartLog, ReadLog, ResumeNew, ResumeLaunch, CancelAppend
<1>5. ASSUME NEW c \in Callers, NEW r \in Runs, Start(c, r) \/ Resume(c, r) \/ Cancel(c, r)
      PROVE  pc' = pc
  BY <1>5 DEF Start, Resume, Cancel
<1>6. CASE NewProcess
  BY <1>6 DEF NewProcess
<1>7. CASE Shutdown \/ Tick \/ UNCHANGED vars \/ \E u \in Steps : ExchangeEnds(u)
  BY <1>1, <1>7 DEF Shutdown, Tick, ExchangeEnds
<1> QED
  BY <1>1, <1>2, <1>3, <1>4, <1>5, <1>6, <1>7 DEF Next, Restart, Crash, Terminated

(* Once the log has a failed step, and the goroutine of that step is gone, *)
(* the run starts no other, before or after a Shutdown, a crash, a resume. *)
THEOREM FailureCorrect == Spec => FailureStartsNothing
<1>1. AllInv /\ [Next]_vars =>
        \A s \in Steps :
          (\E t \in StepsOf(RunOf[s]) : disk[RunOf[s]].steps[t].status = "failed" /\ pc[t] = "none")
            => ~(pc[s] = "none" /\ pc'[s] = "open")
  BY NothingStarts
<1> QED
  BY <1>1, LifeStays, PTL DEF Spec, FailureStartsNothing

(* The event that a loop logs is one of a state its log has. *)
LEMMA LoopWrites ==
  ASSUME AllInv, NEW r \in Runs, NEW e, Logged(r, e) \/ NotLogged(r, e), disk'[r] # disk[r]
  PROVE  mem[r] = disk[r] /\ disk'[r] = Apply(disk[r], e)
<1>1. mem[r].seq = disk[r].seq /\ disk'[r] = Apply(disk[r], e)
  BY DEF Logged, NotLogged, Fault, AllInv, TypeOK
<1> QED
  BY <1>1 DEF AllInv, LogInv, MemBehind, Behind

LEMMA LoopAccounts ==
  ASSUME AllInv, NEW r \in Runs, LoopNext(r), disk'[r].status \in Ended, disk[r].status \notin Ended
  PROVE  /\ disk'[r].status = "failed" <=> SomeStep(r, "failed")
         /\ disk'[r].status = "done" => AllDone(r)
         /\ mem[r] = disk[r]
<1> USE DEF vars, logVars, worldVars, runVars, envVars, procVars, ctxVars, loopVars, stepVars
<1>0. disk[r] \in State /\ disk'[r] # disk[r]
  BY DEF AllInv, TypeOK
<1>1. CASE LogResumed(r)
  <2>1. disk'[r] = Apply(disk[r], RunResumed)
    BY <1>0, <1>1, LoopWrites DEF LogResumed
  <2> QED
    BY <1>0, <2>1, RunEventIs DEF Ended
<1>2. CASE LogDone(r)
  <2>1. mem[r] = disk[r] /\ disk'[r] = Apply(disk[r], RunEnded("done"))
    BY <1>0, <1>2, LoopWrites DEF LogDone, LogRunEnded
  <2>2. disk'[r].status = "done"
    BY <1>0, <2>1, RunEventIs
  <2>3. AllDone(r)
    BY <1>2 DEF LogDone, AllInv, LifeInv, StopInv, AllDoneAtEnd
  <2> QED
    BY <2>1, <2>2, <2>3 DEF AllDone, SomeStep
<1>3. CASE LogEnd(r)
  <2> DEFINE z == IF failure[r] THEN "failed" ELSE "cancelled"
  <2>1. mem[r] = disk[r] /\ disk'[r] = Apply(disk[r], RunEnded(z))
    BY <1>0, <1>3, LoopWrites DEF LogEnd, LogRunEnded
  <2>2. disk'[r].status = z
    BY <1>0, <2>1, RunEventIs
  <2>3. failure[r] => SomeStep(r, "failed")
    BY DEF AllInv, LifeInv, StopInv, FailureHasStep, SomeStep
  <2>4. \A t \in StepsOf(r) : pc[t] # "fail"
    BY <1>3 DEF LogEnd, AllInv, LifeInv, WorkInv, Quiet, Over, Releasing
  <2>5. SomeStep(r, "failed") => failure[r]
    BY <1>3, <2>4 DEF LogEnd, AllInv, LifeInv, StopInv, FailedStops, Active, SomeStep
  <2> QED
    BY <2>1, <2>2, <2>3, <2>5
<1>4. CASE LoopStopping(r) \/ LoopDone(r) \/ LoopPaused(r) \/ LoopLaunch(r) \/ LoopWait(r)
           \/ Wake(r) \/ Interrupt(r) \/ Finish(r) \/ CloseSessions(r) \/ Forget(r)
  BY <1>0, <1>4 DEF LoopStopping, LoopDone, LoopPaused, LoopLaunch, LoopWait, Wake, Interrupt,
                    Finish, CloseSessions, Forget
<1> QED
  BY <1>1, <1>2, <1>3, <1>4 DEF LoopNext

(* No call moves a loop and ends the log of its run: Start and Resume log  *)
(* events that leave it running, and Cancel moves no loop.                 *)
LEMMA CallEndsNone ==
  ASSUME AllInv, NEW c \in Callers, CallNext(c), NEW r \in Runs, disk'[r].status \in Ended,
         disk[r].status \notin Ended
  PROVE  loop'[r] = loop[r]
<1> USE DEF vars, logVars, worldVars, runVars, envVars, procVars, ctxVars, loopVars, stepVars
<1>0. disk \in [Runs -> State] /\ disk'[r] # disk[r]
  BY DEF AllInv, TypeOK
<1>1. CASE StartLog(c) \/ ResumeLaunch(c)
  <2>1. PICK e \in {RunStarted, RunResumed} : disk' = disk \/ Appended(call[c].run, e)
    BY <1>1 DEF StartLog, ResumeLaunch, Logged, Fault, Appended
  <2>2. disk'[r] = Apply(disk[r], e)
    BY <1>0, <2>1 DEF Appended
  <2> QED
    BY <1>0, <2>1, <2>2, RunEventIs DEF Ended
<1>2. CASE ReadLog(c) \/ ResumeNew(c) \/ CancelAppend(c)
  BY <1>0, <1>2 DEF ReadLog, ResumeNew, CancelAppend
<1> QED
  BY <1>1, <1>2 DEF CallNext

LEMMA EndAccounts ==
  ASSUME AllInv, [Next]_vars, NEW r \in Runs, OwnEnd(r)
  PROVE  /\ disk'[r].status = "failed" <=> \E s \in StepsOf(r) : disk[r].steps[s].status = "failed"
         /\ disk'[r].status = "done" => \A s \in StepsOf(r) : disk[r].steps[s].status = "done"
<1> USE DEF vars, logVars, worldVars, runVars, envVars, procVars, ctxVars, loopVars, stepVars
<1>0. loop'[r] # loop[r] /\ disk'[r].status \in Ended /\ disk[r].status \notin Ended
  BY DEF OwnEnd
<1>1. CASE LoopNext(r)
  BY <1>0, <1>1, LoopAccounts DEF SomeStep, AllDone
<1>2. ASSUME NEW q \in Runs, LoopNext(q) PROVE q = r
  BY <1>0, <1>2, LoopOwn DEF AllInv
<1>3. \A s \in Steps : ~StepNext(s)
  BY <1>0, StepOwn DEF AllInv
<1>4. \A c \in Callers : ~CallNext(c)
  BY <1>0, CallEndsNone
<1>5. ASSUME NEW c \in Callers, NEW q \in Runs, Start(c, q) \/ Resume(c, q) \/ Cancel(c, q)
      PROVE  FALSE
  BY <1>0, <1>5 DEF Start, Resume, Cancel
<1>6. ~(NewProcess \/ Shutdown \/ Tick \/ UNCHANGED vars \/ \E s \in Steps : ExchangeEnds(s))
  BY <1>0 DEF NewProcess, Shutdown, Tick, ExchangeEnds
<1> QED
  BY <1>1, <1>2, <1>3, <1>4, <1>5, <1>6 DEF Next, Restart, Crash, Terminated

(* The end that a run's own loop logs is failed just when a step of the    *)
(* log has failed, and done only when all are, in whatever state the run   *)
(* was resumed and whatever was appended beside it.                        *)
THEOREM EndCorrect == Spec => EndIsAccounted
<1>1. AllInv /\ [Next]_vars =>
        \A r \in Runs : OwnEnd(r) =>
          /\ disk'[r].status = "failed" <=>
               \E s \in StepsOf(r) : disk[r].steps[s].status = "failed"
          /\ disk'[r].status = "done" =>
               \A s \in StepsOf(r) : disk[r].steps[s].status = "done"
  BY EndAccounts
<1> QED
  BY <1>1, LifeStays, PTL DEF Spec, EndIsAccounted

-----------------------------------------------------------------------------
(* The logs implement RunLifecycle.                                        *)

RunStatuses == [r \in Runs |-> disk[r].status]
StepStatuses == [s \in Steps |-> disk[RunOf[s]].steps[s].status]

LEMMA StatusesAppended ==
  ASSUME TypeOK, NEW r \in Runs, NEW e, Appended(r, e)
  PROVE  /\ RunStatuses' = [RunStatuses EXCEPT ![r] = Apply(disk[r], e).status]
         /\ \A s \in Steps : StepStatuses'[s] = IF RunOf[s] = r THEN Apply(disk[r], e).steps[s].status
                                                              ELSE StepStatuses[s]
         /\ \A s \in StepsOf(r) : s \in Steps /\ StepStatuses[s] = disk[r].steps[s].status
         /\ RunStatuses[r] = disk[r].status
         /\ DOMAIN StepStatuses = Steps /\ DOMAIN StepStatuses' = Steps
<1>1. disk' = [disk EXCEPT ![r] = Apply(disk[r], e)] /\ disk \in [Runs -> State]
  BY DEF Appended, TypeOK
<1> QED
  BY <1>1, RunOfAssumption DEF RunStatuses, StepStatuses, StepsOf

LEMMA PromiseOfEvent ==
  ASSUME TypeOK, NEW r \in Runs, Sound(disk[r], r), NEW e, MayFollow(disk[r], r, e), Appended(r, e)
  PROVE  [Lifecycle!Next]_(Lifecycle!lifecycle)
<1> DEFINE a == Apply(disk[r], e)
<1> USE DEF Ended
<1>0. disk[r] \in State
  BY DEF TypeOK
<1>1. /\ RunStatuses' = [RunStatuses EXCEPT ![r] = a.status]
      /\ \A s \in Steps : StepStatuses'[s] = IF RunOf[s] = r THEN a.steps[s].status ELSE StepStatuses[s]
      /\ \A s \in StepsOf(r) : s \in Steps /\ StepStatuses[s] = disk[r].steps[s].status
      /\ RunStatuses[r] = disk[r].status /\ DOMAIN StepStatuses = Steps /\ DOMAIN StepStatuses' = Steps
      /\ StepStatuses = [s \in Steps |-> StepStatuses[s]]
      /\ StepStatuses' = [s \in Steps |-> StepStatuses'[s]]
      /\ RunStatuses = [q \in Runs |-> RunStatuses[q]]
  <2>1. /\ StepStatuses = [s \in Steps |-> StepStatuses[s]]
        /\ StepStatuses' = [s \in Steps |-> StepStatuses'[s]]
        /\ RunStatuses = [q \in Runs |-> RunStatuses[q]]
    BY DEF RunStatuses, StepStatuses
  <2> QED
    BY <2>1, StatusesAppended
<1>2. Lifecycle!Live(r)
  <2>1. disk[r].status \in {"running", "paused"}
    BY <1>0 DEF MayFollow, Live, Sound, State, RunStatus
  <2> QED
    BY <1>1, <2>1 DEF Lifecycle!Live, RunStatuses
<1>3. /\ a.steps = disk[r].steps => StepStatuses' = StepStatuses
      /\ a.status = disk[r].status => RunStatuses' = RunStatuses
  <2>1. ASSUME a.steps = disk[r].steps, NEW s \in Steps PROVE StepStatuses'[s] = StepStatuses[s]
    BY <1>1, <2>1 DEF StepsOf
  <2> QED
    BY <1>1, <2>1
<1> HIDE DEF RunStatuses, StepStatuses
<1>4. ASSUME a.steps = disk[r].steps, a.status \in {"running", "paused"}
      PROVE  Lifecycle!Next
  <2>1. Lifecycle!PauseOrResume(r)
    BY <1>1, <1>2, <1>3, <1>4 DEF Lifecycle!PauseOrResume, RunStatuses, StepStatuses
  <2> QED
    BY <2>1 DEF Lifecycle!Next
<1>5. CASE e = RunResumed
  BY <1>0, <1>4, <1>5, RunEventIs
<1>6. ASSUME NEW s \in StepsOf(r), Going(disk[r], s), OwnEvent(s, e),
             \A i : e = StepEnded(s, i, "done") => disk[r].steps[s].status = "running"
      PROVE  [Lifecycle!Next]_(Lifecycle!lifecycle)
  <2>0. s \in Steps /\ RunOf[s] = r /\ StepStatuses[s] = disk[r].steps[s].status
    BY <1>1 DEF StepsOf
  <2>1. CASE e = SessionOpened(Sess[s])
    <3>1. a.steps = disk[r].steps /\ a.status = disk[r].status
      BY <1>0, <2>1, RunEventIs
    <3> QED
      BY <1>3, <3>1 DEF Lifecycle!lifecycle, RunStatuses, StepStatuses
  <2>2. ASSUME NEW t \in Nat, e = RunPaused(t) PROVE Lifecycle!Next
    BY <1>0, <1>4, <2>2, RunEventIs
  <2>3. ASSUME NEW z, a.status = disk[r].status, a.steps[s].status = z,
               \A t \in Steps \ {s} : a.steps[t] = disk[r].steps[t]
        PROVE  RunStatuses' = RunStatuses /\ StepStatuses' = [StepStatuses EXCEPT ![s] = z]
    <3>1. \A t \in Steps \ {s} : StepStatuses'[t] = StepStatuses[t]
      BY <1>1, <2>3 DEF StepsOf
    <3>2. StepStatuses'[s] = z
      BY <1>1, <2>0, <2>3
    <3> QED
      BY <1>1, <1>3, <2>0, <2>3, <3>1, <3>2
  <2>4. ASSUME NEW i \in Nat, e = StepStarted(s, i) PROVE Lifecycle!Next
    <3>1. RunStatuses' = RunStatuses /\ StepStatuses' = [StepStatuses EXCEPT ![s] = "running"]
      BY <1>0, <2>0, <2>3, <2>4, StepStartedIs
    <3>2. \A t \in After[s] : StepStatuses[t] = "done"
      BY <1>1, <1>6, <2>0, AfterAssumption DEF Going, StepsOf
    <3>3. Lifecycle!StepBegins(s)
      BY <1>2, <1>6, <2>0, <3>1, <3>2 DEF Lifecycle!StepBegins, Going, RunStatuses, StepStatuses
    <3> QED
      BY <2>0, <3>3 DEF Lifecycle!Next
  <2>5. ASSUME NEW i \in Nat, NEW z \in Ended, e = StepEnded(s, i, z) PROVE Lifecycle!Next
    <3>1. RunStatuses' = RunStatuses /\ StepStatuses' = [StepStatuses EXCEPT ![s] = z]
      BY <1>0, <2>0, <2>3, <2>5, StepEndedIs
    <3>2. z = "done" => StepStatuses[s] = "running"
      BY <1>6, <2>0, <2>5
    <3>3. Lifecycle!StepEnds(s)
      BY <1>2, <1>6, <2>0, <3>1, <3>2 DEF Lifecycle!StepEnds, Going, RunStatuses, StepStatuses
    <3> QED
      BY <2>0, <3>3 DEF Lifecycle!Next
  <2> QED
    BY <1>6, <2>1, <2>2, <2>4, <2>5 DEF OwnEvent
<1>7. ASSUME NEW z \in Ended, e = RunEnded(z),
             z = "done" => \A s \in StepsOf(r) : disk[r].steps[s].status = "done",
             z = "failed" => \E s \in StepsOf(r) : disk[r].steps[s].status = "failed"
      PROVE  Lifecycle!Next
  <2>1. a.steps = disk[r].steps /\ a.status = z
    BY <1>0, <1>7, RunEventIs
  <2>2. StepStatuses' = StepStatuses /\ RunStatuses' = [RunStatuses EXCEPT ![r] = z]
    BY <1>1, <1>3, <2>1
  <2>3. Lifecycle!Its(r) = StepsOf(r)
    BY DEF Lifecycle!Its, StepsOf
  <2>4. /\ z = "done" => \A s \in Lifecycle!Its(r) : StepStatuses[s] = "done"
        /\ z = "failed" => \E s \in Lifecycle!Its(r) : StepStatuses[s] = "failed"
    BY <1>1, <1>7, <2>3
  <2>5. Lifecycle!End(r)
    BY <1>2, <2>2, <2>4 DEF Lifecycle!End, RunStatuses, StepStatuses
  <2> QED
    BY <2>5 DEF Lifecycle!Next
<1> QED
  BY <1>5, <1>6, <1>7 DEF MayFollow

LEMMA PromiseOfStart ==
  ASSUME TypeOK, NEW r \in Runs, disk[r] = Empty, Appended(r, RunStarted)
  PROVE  Lifecycle!Next
<1> DEFINE a == Apply(disk[r], RunStarted)
<1>1. a.steps = disk[r].steps /\ a.status = "running" /\ disk[r].status = "none"
  BY EmptyType, RunEventIs DEF Empty
<1>2. RunStatuses' = [RunStatuses EXCEPT ![r] = "running"] /\ RunStatuses[r] = "none"
  BY <1>1, StatusesAppended
<1>3. StepStatuses' = StepStatuses
  <2>1. \A s \in Steps : StepStatuses'[s] = StepStatuses[s]
    BY <1>1, StatusesAppended DEF StepsOf
  <2> QED
    BY <2>1 DEF StepStatuses
<1>4. Lifecycle!Begin(r)
  BY <1>2, <1>3 DEF Lifecycle!Begin, RunStatuses, StepStatuses
<1> QED
  BY <1>4 DEF Lifecycle!Next

(* Whoever reads the logs sees RunLifecycle: a run begins once, a step     *)
(* begins after those it comes after are done and is done only once it     *)
(* began, and the end is one the steps account for.                        *)
THEOREM PromiseCorrect == Spec => LogsKeepTheirPromise
<1>1. Init => Lifecycle!Init
  BY RunOfAssumption DEF Init, Lifecycle!Init, Empty
<1>2. AllInv /\ [Next]_vars => [Lifecycle!Next]_(Lifecycle!lifecycle)
  <2> SUFFICES ASSUME AllInv, [Next]_vars PROVE [Lifecycle!Next]_(Lifecycle!lifecycle)
    OBVIOUS
  <2>1. CASE disk' = disk
    BY <2>1 DEF Lifecycle!lifecycle
  <2>2. ASSUME NEW c \in Callers, StartLog(c) PROVE disk' = disk \/ Lifecycle!Next
    <3>1. PICK r \in Runs : r = call[c].run
      BY DEF AllInv, TypeOK, Call
    <3> QED
      BY <2>2, <3>1, StartExtends, PromiseOfStart DEF AllInv, LifeInv
  <2>3. ASSUME NEW r \in Runs, NEW e, MayFollow(disk[r], r, e), Appended(r, e)
        PROVE  [Lifecycle!Next]_(Lifecycle!lifecycle)
    BY <2>3, PromiseOfEvent DEF AllInv, LifeInv, SoundInv
  <2> QED
    BY <2>1, <2>2, <2>3, NextExtends DEF AllInv, LifeInv, Extends
<1> QED
  BY <1>1, <1>2, LifeStays, PTL DEF Spec, LogsKeepTheirPromise, Lifecycle!Spec

=============================================================================
