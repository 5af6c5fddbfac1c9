---------------------------- MODULE RunnerProofs ----------------------------
(***************************************************************************)
(* The types of the Runner, its sessions, its limit and the states of a    *)
(* run it has in memory, for every workflow, limit and bound.              *)
(***************************************************************************)
EXTENDS RunnerProperties, FiniteSetTheorems, TLAPS

-----------------------------------------------------------------------------
(* Events and states.                                                      *)

(* Every event that follows a log. *)
Event ==
    {RunStarted, RunResumed}
      \cup {SessionOpened(n) : n \in Sessions}
      \cup {StepStarted(s, i) : s \in Steps, i \in Nat}
      \cup {StepEnded(s, i, st) : s \in Steps, i \in Nat, st \in Ended}
      \cup {RunPaused(t) : t \in Nat}
      \cup {RunEnded(st) : st \in Ended}

LEMMA EmptyType == Empty \in State
BY DEF Empty, State, RunStatus, StepStatus, Ended

LEMMA FoldType ==
  ASSUME NEW st \in State, NEW e \in Event
  PROVE  Fold(st, e) \in State
<1> USE DEF State, RunStatus, StepStatus, Fold
<1>1. Fold(st, RunStarted) \in State
  BY EmptyType DEF RunStarted, Ended
<1>2. Fold(st, RunResumed) \in State
  BY DEF RunResumed
<1>3. ASSUME NEW n \in Sessions PROVE Fold(st, SessionOpened(n)) \in State
  BY DEF SessionOpened
<1>4. ASSUME NEW s \in Steps, NEW i \in Nat PROVE Fold(st, StepStarted(s, i)) \in State
  BY DEF StepStarted
<1>5. ASSUME NEW s \in Steps, NEW i \in Nat, NEW z \in Ended
      PROVE  Fold(st, StepEnded(s, i, z)) \in State
  BY DEF StepEnded
<1>6. ASSUME NEW t \in Nat PROVE Fold(st, RunPaused(t)) \in State
  BY DEF RunPaused
<1>7. ASSUME NEW z \in Ended PROVE Fold(st, RunEnded(z)) \in State
  BY DEF RunEnded
<1> HIDE DEF State, RunStatus, StepStatus, Fold
<1> QED
  BY <1>1, <1>2, <1>3, <1>4, <1>5, <1>6, <1>7 DEF Event

(* Applying an event to a state gives a state with one more event. *)
LEMMA ApplyType ==
  ASSUME NEW st \in State, NEW e \in Event
  PROVE  Apply(st, e) \in State /\ Apply(st, e).seq = st.seq + 1
<1>1. Fold(st, e) \in State
  BY FoldType
<1>2. st.seq + 1 \in Nat
  BY DEF State
<1> QED
  BY <1>1, <1>2 DEF Apply, State

-----------------------------------------------------------------------------
(* Types.                                                                  *)

(* What an append, made or failed, does to the logs, the states and the    *)
(* causes.  An event that does not follow may be no event at all.          *)
LEMMA LoggedType ==
  ASSUME TypeOK, NEW r \in Runs, NEW e, e \in Event, Logged(r, e)
  PROVE  disk' \in [Runs -> State] /\ mem' \in [Runs -> State] /\ faults' = faults
<1>1. Apply(disk[r], e) \in State /\ Apply(mem[r], e) \in State
  BY ApplyType DEF TypeOK
<1> QED
  BY <1>1 DEF Logged, TypeOK

LEMMA FaultType ==
  ASSUME TypeOK, NEW r \in Runs, NEW e, e \in Event, Fault(r, e)
  PROVE  disk' \in [Runs -> State] /\ faults' \in 0 .. MaxFaults
<1>1. Apply(disk[r], e) \in State
  BY ApplyType DEF TypeOK
<1> QED
  BY <1>1, BoundsAssumption DEF Fault, TypeOK

LEMMA NotLoggedType ==
  ASSUME TypeOK, NEW r \in Runs, NEW e, Follows(mem[r], e) => e \in Event, NotLogged(r, e)
  PROVE  disk' \in [Runs -> State] /\ mem' = mem /\ faults' \in 0 .. MaxFaults
BY FaultType DEF NotLogged, TypeOK

LEMMA LogFailedType ==
  ASSUME TypeOK, NEW r \in Runs, NEW e, LogFailed(r, e)
  PROVE  cause' \in [Runs -> Cause]
BY DEF LogFailed, First, Cause, TypeOK

(* Each goroutine of a step keeps the types. *)
LEMMA StepType ==
  ASSUME TypeOK, NEW s \in Steps, StepNext(s)
  PROVE  TypeOK'
<1> DEFINE r == RunOf[s]
<1> USE RunOfAssumption, SessAssumption, BoundsAssumption
<1>0. r \in Runs /\ Sess[s] \in Sessions
  OBVIOUS
<1> USE DEF vars, logVars, worldVars, runVars, envVars, procVars, ctxVars, loopVars, stepVars
<1> USE DEF StepPC, Outcome, Cause, To, EndErr
<1>1. CASE OpenSession(s)
  <2>0. /\ open \in [Runs -> SUBSET Sessions] /\ pc \in [Steps -> StepPC]
        /\ x \in [Steps -> Outcome] /\ id \in [Steps -> Nat]
    BY DEF TypeOK
  <2>1. open' \in [Runs -> SUBSET Sessions]
    BY <1>0, <1>1, <2>0 DEF OpenSession
  <2>2. x' \in [Steps -> Outcome] /\ id' \in [Steps -> Nat]
    BY <1>1, <2>0 DEF OpenSession
  <2>3. pc' \in [Steps -> StepPC]
    BY <1>1, <2>0 DEF OpenSession
  <2>4. /\ UNCHANGED <<logVars, envVars, procVars, ctxVars, loopVars>>
        /\ UNCHANGED <<wake, till, call>>
    BY <1>1 DEF OpenSession
  <2> HIDE DEF StepPC, Outcome, Cause, To, EndErr
  <2> QED
    BY <2>1, <2>2, <2>3, <2>4 DEF TypeOK
<1>2. CASE LogOpened(s)
  <2> DEFINE e == SessionOpened(Sess[s])
  <2>1. e \in Event
    BY DEF Event
  <2>2. CASE Logged(r, e) /\ To(s, "adopt") /\ UNCHANGED <<x, id, cause>>
    BY <1>2, <2>1, <2>2, LoggedType DEF LogOpened, TypeOK
  <2>3. CASE NotLogged(r, e) /\ LogFailed(r, e) /\ EndErr(s, 0)
    BY <1>2, <2>1, <2>3, NotLoggedType, LogFailedType DEF LogOpened, TypeOK
  <2> QED
    BY <1>2, <2>2, <2>3 DEF LogOpened
<1>3. CASE Adopt(s)
  <2> DEFINE i == mem[r].steps[s].ex
             e == StepEnded(s, i, "done")
  <2>1. i \in Nat
    BY DEF TypeOK, State
  <2>2. e \in Event
    BY <2>1 DEF Event, Ended
  <2>3. CASE EndErr(s, i) /\ UNCHANGED <<logVars, cause>>
    BY <1>3, <2>1, <2>3 DEF Adopt, TypeOK
  <2>4. CASE Logged(r, e) /\ To(s, "free") /\ UNCHANGED <<x, id, cause>>
    BY <1>3, <2>2, <2>4, LoggedType DEF Adopt, TypeOK
  <2>5. CASE NotLogged(r, e) /\ LogFailed(r, e) /\ EndErr(s, i)
    BY <1>3, <2>1, <2>2, <2>5, NotLoggedType, LogFailedType DEF Adopt, TypeOK
  <2>6. CASE To(s, "send") /\ UNCHANGED <<logVars, cause, x, id>>
    BY <1>3, <2>6 DEF Adopt, TypeOK
  <2> QED
    BY <1>3, <2>3, <2>4, <2>5, <2>6 DEF Adopt
<1>4. CASE Send(s)
  <2>0. /\ sends \in [Steps -> Nat] /\ pc \in [Steps -> StepPC]
        /\ x \in [Steps -> Outcome] /\ id \in [Steps -> Nat]
    BY DEF TypeOK
  <2>1. sends' \in [Steps -> Nat]
    BY <1>4, <2>0 DEF Send
  <2>2. id' \in [Steps -> Nat]
    BY <1>4, <2>0 DEF Send
  <2>3. x' \in [Steps -> Outcome] /\ pc' \in [Steps -> StepPC]
    BY <1>4, <2>0 DEF Send
  <2>4. /\ UNCHANGED <<logVars, recs, now, limits, procVars, ctxVars, loopVars>>
        /\ UNCHANGED <<wake, open, till, call>>
    BY <1>4 DEF Send
  <2> HIDE DEF StepPC, Outcome, Cause, To, EndErr
  <2> QED
    BY <2>1, <2>2, <2>3, <2>4 DEF TypeOK
<1>5. CASE LogStarted(s)
  <2> DEFINE e == StepStarted(s, id[s])
  <2>1. e \in Event
    BY DEF Event, TypeOK
  <2>2. CASE Logged(r, e) /\ UNCHANGED <<x, cause>>
    BY <1>5, <2>1, <2>2, LoggedType DEF LogStarted, TypeOK
  <2>3. CASE NotLogged(r, e) /\ LogFailed(r, e)
             /\ x' = [x EXCEPT ![s] = IF @ = "running" THEN "cancelling" ELSE @]
    BY <1>5, <2>1, <2>3, NotLoggedType, LogFailedType DEF LogStarted, TypeOK
  <2> QED
    BY <1>5, <2>2, <2>3 DEF LogStarted
<1>6. CASE Follow(s)
  BY <1>6 DEF Follow, TypeOK
<1>7. CASE EndInterrupted(s)
  BY <1>7 DEF EndInterrupted, TypeOK
<1>8. CASE EndClassify(s)
  BY <1>8 DEF EndClassify, TypeOK
<1>9. CASE LogEnded(s)
  <2> DEFINE e == EndEvent(s)
  <2>1. Follows(mem[r], e) => e \in Event
    BY DEF EndEvent, Follows, RunPaused, StepEnded, Event, TypeOK
  <2>2. CASE Logged(r, e) /\ To(s, IF x[s] = "failed" THEN "fail" ELSE "free") /\ UNCHANGED cause
    BY <1>9, <2>1, <2>2, LoggedType DEF LogEnded, Logged, TypeOK
  <2>3. CASE NotLogged(r, e) /\ LogFailed(r, e) /\ To(s, "free")
    BY <1>9, <2>1, <2>3, NotLoggedType, LogFailedType DEF LogEnded, TypeOK
  <2> QED
    BY <1>9, <2>2, <2>3 DEF LogEnded
<1>10. CASE Fail(s)
  BY <1>10 DEF Fail, TypeOK
<1>11. CASE FreeSlot(s)
  <2>1. slots' \in 0 .. Limit
    BY <1>11 DEF FreeSlot, TypeOK
  <2>2. wake' \in [Runs -> BOOLEAN]
    BY <1>11 DEF FreeSlot, SignalAll, Registered, TypeOK
  <2> QED
    BY <1>11, <2>1, <2>2 DEF FreeSlot, TypeOK
<1>12. CASE TakeIdle(s)
  BY <1>12 DEF TakeIdle, TypeOK
<1>13. CASE CloseIdle(s)
  BY <1>13 DEF CloseIdle, TypeOK
<1>14. CASE Leave(s)
  BY <1>14 DEF Leave, Signal, Registered, TypeOK
<1> QED
  BY <1>1, <1>2, <1>3, <1>4, <1>5, <1>6, <1>7, <1>8, <1>9, <1>10, <1>11, <1>12, <1>13, <1>14
     DEF StepNext

(* A run that is cleared, or registered anew. *)
LEMMA ClearedType ==
  ASSUME TypeOK, NEW r \in Runs, NEW p \in LoopPC, NEW st \in State, Cleared(r, p, st)
  PROVE  /\ loop' \in [Runs -> LoopPC] /\ mem' \in [Runs -> State]
         /\ cause' \in [Runs -> Cause] /\ err' \in [Runs -> Cause]
         /\ stopped' \in [Runs -> BOOLEAN] /\ failure' \in [Runs -> BOOLEAN]
         /\ timer' \in [Runs -> Nat] /\ wake' \in [Runs -> BOOLEAN]
         /\ open' \in [Runs -> SUBSET Sessions]
BY DEF Cleared, Go, Cause, TypeOK

(* The loop of a run keeps the types. *)
LEMMA LoopType ==
  ASSUME TypeOK, NEW r \in Runs, LoopNext(r)
  PROVE  TypeOK'
<1> USE BoundsAssumption
<1> USE DEF vars, logVars, worldVars, runVars, envVars, procVars, ctxVars, loopVars, stepVars
<1> USE DEF LoopPC, Go
<1>1. CASE LoopStopping(r)
  BY <1>1 DEF LoopStopping, TypeOK
<1>2. CASE LoopDone(r)
  BY <1>2 DEF LoopDone, TypeOK
<1>3. CASE LoopPaused(r)
  <2>1. mem[r].until \in Nat
    BY DEF TypeOK, State
  <2> QED
    BY <1>3, <2>1 DEF LoopPaused, TypeOK
<1>4. CASE LoopLaunch(r)
  <2>1. slots' \in 0 .. Limit
    BY <1>4 DEF LoopLaunch, SlotFree, TypeOK
  <2>2. pc' \in [Steps -> StepPC]
    BY <1>4 DEF LoopLaunch, FirstReady, Ready, StepsOf, To, StepPC, TypeOK
  <2>3. loop' \in [Runs -> LoopPC]
    BY <1>4 DEF LoopLaunch, TypeOK
  <2> QED
    BY <1>4, <2>1, <2>2, <2>3 DEF LoopLaunch, TypeOK
<1>5. CASE LoopWait(r)
  BY <1>5 DEF LoopWait, TypeOK
<1>6. CASE Wake(r)
  BY <1>6 DEF Wake, TypeOK
<1>7. CASE Interrupt(r)
  BY <1>7 DEF Interrupt, TypeOK
<1>8. CASE LogResumed(r)
  <2>1. RunResumed \in Event
    BY DEF Event
  <2>2. CASE Logged(r, RunResumed) /\ UNCHANGED cause
    BY <1>8, <2>1, <2>2, LoggedType DEF LogResumed, TypeOK
  <2>3. CASE NotLogged(r, RunResumed) /\ LogFailed(r, RunResumed)
    BY <1>8, <2>1, <2>3, NotLoggedType, LogFailedType DEF LogResumed, TypeOK
  <2> QED
    BY <1>8, <2>2, <2>3 DEF LogResumed
<1>9. ASSUME NEW z \in Ended, LogRunEnded(r, z)
      PROVE  /\ disk' \in [Runs -> State] /\ mem' \in [Runs -> State]
             /\ faults' \in 0 .. MaxFaults /\ cause' \in [Runs -> Cause]
             /\ loop' \in [Runs -> LoopPC]
  <2>1. RunEnded(z) \in Event
    BY DEF Event
  <2>2. loop' \in [Runs -> LoopPC]
    BY <1>9 DEF LogRunEnded, TypeOK
  <2>3. CASE Logged(r, RunEnded(z)) /\ UNCHANGED cause
    BY <2>1, <2>2, <2>3, LoggedType DEF TypeOK
  <2>4. CASE NotLogged(r, RunEnded(z)) /\ LogFailed(r, RunEnded(z))
    BY <2>1, <2>2, <2>4, NotLoggedType, LogFailedType DEF TypeOK
  <2> QED
    BY <1>9, <2>3, <2>4 DEF LogRunEnded
<1>10. CASE LogDone(r)
  <2>1. LogRunEnded(r, "done") /\ "done" \in Ended
    BY <1>10 DEF LogDone, Ended
  <2> QED
    BY <1>9, <1>10, <2>1 DEF LogDone, TypeOK
<1>11. CASE LogEnd(r)
  <2>1. CASE Go(r, "finish") /\ UNCHANGED <<logVars, cause>>
    BY <1>11, <2>1 DEF LogEnd, TypeOK
  <2>2. CASE LogRunEnded(r, IF failure[r] THEN "failed" ELSE "cancelled")
    <3>1. (IF failure[r] THEN "failed" ELSE "cancelled") \in Ended
      BY DEF Ended
    <3> QED
      BY <1>9, <1>11, <2>2, <3>1 DEF LogEnd, TypeOK
  <2> QED
    BY <1>11, <2>1, <2>2 DEF LogEnd
<1>12. CASE Finish(r)
  BY <1>12 DEF Finish, Cause, TypeOK
<1>13. CASE CloseSessions(r)
  BY <1>13 DEF CloseSessions, First, Cause, TypeOK
<1>14. CASE Forget(r)
  BY <1>14, ClearedType, EmptyType DEF Forget, TypeOK
<1> QED
  BY <1>1, <1>2, <1>3, <1>4, <1>5, <1>6, <1>7, <1>8, <1>10, <1>11, <1>12, <1>13, <1>14
     DEF LoopNext

(* A caller's move keeps the type of the calls. *)
LEMMA TurnType ==
  ASSUME TypeOK, NEW c \in Callers, NEW p \in CallPC, Turn(c, p)
  PROVE  call' \in [Callers -> Call]
<1>1. call \in [Callers -> Call]
  BY DEF TypeOK
<1>2. [call[c] EXCEPT !.pc = p, !.seen = Empty] \in Call
  BY <1>1, EmptyType DEF Call
<1>3. call' = [call EXCEPT ![c] = [@ EXCEPT !.pc = p, !.seen = Empty]]
  BY <1>1 DEF Turn, Call
<1> QED
  BY <1>1, <1>2, <1>3

LEMMA BeginType ==
  ASSUME TypeOK, NEW c \in Callers, NEW r \in Runs, NEW p \in CallPC,
         NEW o \in {"start", "resume", "cancel"}, Begin(c, o, r, p, Empty)
  PROVE  call' \in [Callers -> Call]
BY EmptyType DEF Begin, Call, TypeOK

(* The calls keep the types. *)
LEMMA CallType ==
  ASSUME TypeOK, NEW c \in Callers, CallNext(c)
  PROVE  TypeOK'
<1> DEFINE r == call[c].run
<1> USE BoundsAssumption
<1> USE DEF vars, logVars, worldVars, runVars, envVars, procVars, ctxVars, loopVars, stepVars
<1>0. r \in Runs /\ call[c].seen \in State
  BY DEF TypeOK, Call
<1>1. CASE StartLog(c)
  <2>1. RunStarted \in Event
    BY DEF Event
  <2>2. CASE Logged(r, RunStarted) /\ Go(r, "eval") /\ Turn(c, "ok")
               /\ UNCHANGED <<ctxVars, err, timer, wake, open>>
    <3>1. loop' \in [Runs -> LoopPC]
      BY <2>2 DEF Go, LoopPC, TypeOK
    <3>2. call' \in [Callers -> Call]
      BY <2>2, TurnType DEF CallPC
    <3> QED
      BY <1>0, <1>1, <2>1, <2>2, <3>1, <3>2, LoggedType DEF StartLog, TypeOK
  <2>3. CASE Fault(r, RunStarted) /\ Cleared(r, "off", Empty) /\ Turn(c, "refused")
    <3>1. call' \in [Callers -> Call]
      BY <2>3, TurnType DEF CallPC
    <3>2. disk' \in [Runs -> State] /\ faults' \in 0 .. MaxFaults
      BY <1>0, <2>1, <2>3, FaultType
    <3>3. "off" \in LoopPC
      BY DEF LoopPC
    <3> QED
      BY <1>0, <1>1, <2>3, <3>1, <3>2, <3>3, ClearedType, EmptyType DEF StartLog, TypeOK
  <2> QED
    BY <1>1, <2>2, <2>3 DEF StartLog
<1>2. CASE ReadLog(c)
  <2>1. disk[r] \in State
    BY <1>0 DEF TypeOK
  <2>2. call' \in [Callers -> Call]
    BY <1>2, <2>1, TurnType DEF ReadLog, Call, CallPC, TypeOK
  <2> QED
    BY <1>2, <2>2 DEF ReadLog, TypeOK
<1>3. CASE ResumeNew(c)
  <2>1. call' \in [Callers -> Call]
    BY <1>3, TurnType DEF ResumeNew, CallPC
  <2>2. "new" \in LoopPC
    BY DEF LoopPC
  <2>3. CASE NewRun(r, call[c].seen)
    BY <1>0, <1>3, <2>1, <2>2, <2>3, ClearedType DEF ResumeNew, NewRun, TypeOK
  <2>4. CASE UNCHANGED <<mem, ctxVars, loopVars, wake, open>>
    BY <1>3, <2>1, <2>4 DEF ResumeNew, TypeOK
  <2> QED
    BY <1>3, <2>3, <2>4 DEF ResumeNew
<1>4. CASE ResumeLaunch(c)
  <2>1. call' \in [Callers -> Call]
    BY <1>4, TurnType DEF ResumeLaunch, CallPC
  <2>2. RunResumed \in Event
    BY DEF Event
  <2>3. CASE /\ IF mem[r].status = "paused" THEN UNCHANGED logVars ELSE Logged(r, RunResumed)
             /\ failure' = [failure EXCEPT ![r] = SettleFails(r)]
             /\ stopped' = [stopped EXCEPT ![r] = SettleFails(r)]
             /\ cause' = [cause EXCEPT ![r] = IF SettleCancels(r) THEN First(@, "cancelled") ELSE @]
             /\ Go(r, "eval")
             /\ UNCHANGED <<err, timer, wake, open>>
    <3>1. disk' \in [Runs -> State] /\ mem' \in [Runs -> State] /\ faults' = faults
      BY <1>0, <2>2, <2>3, LoggedType DEF TypeOK
    <3>2. SettleFails(r) \in BOOLEAN
      BY DEF SettleFails, SomeStep
    <3>3. failure' \in [Runs -> BOOLEAN] /\ stopped' \in [Runs -> BOOLEAN]
      BY <2>3, <3>2 DEF TypeOK
    <3>4. cause' \in [Runs -> Cause] /\ loop' \in [Runs -> LoopPC]
      BY <2>3 DEF First, Cause, Go, LoopPC, TypeOK
    <3> QED
      BY <1>4, <2>1, <2>3, <3>1, <3>3, <3>4 DEF ResumeLaunch, TypeOK
  <2>4. CASE /\ IF mem[r].seq = disk[r].seq THEN Fault(r, RunResumed) ELSE UNCHANGED <<disk, faults>>
             /\ Cleared(r, "off", Empty)
    <3>1. disk' \in [Runs -> State] /\ faults' \in 0 .. MaxFaults
      BY <1>0, <2>2, <2>4, FaultType DEF TypeOK
    <3>2. "off" \in LoopPC
      BY DEF LoopPC
    <3> QED
      BY <1>0, <1>4, <2>1, <2>4, <3>1, <3>2, ClearedType, EmptyType DEF ResumeLaunch, TypeOK
  <2> QED
    BY <1>4, <2>3, <2>4 DEF ResumeLaunch
<1>5. CASE CancelAppend(c)
  <2> DEFINE e == RunEnded("cancelled")
  <2>1. call' \in [Callers -> Call]
    BY <1>5, TurnType DEF CancelAppend, CallPC
  <2>2. e \in Event
    BY DEF Event, Ended
  <2>3. Apply(disk[r], e) \in State
    BY <1>0, <2>2, ApplyType DEF TypeOK
  <2>4. disk' \in [Runs -> State] /\ faults' \in 0 .. MaxFaults
    BY <1>0, <1>5, <2>2, <2>3, FaultType DEF CancelAppend, TypeOK
  <2> QED
    BY <1>5, <2>1, <2>4 DEF CancelAppend, TypeOK
<1> QED
  BY <1>1, <1>2, <1>3, <1>4, <1>5 DEF CallNext

(* The actions that begin a call keep the types. *)
LEMMA BeginCallType ==
  ASSUME TypeOK, NEW c \in Callers, NEW r \in Runs, Start(c, r) \/ Resume(c, r) \/ Cancel(c, r)
  PROVE  TypeOK'
<1> USE BoundsAssumption
<1> USE DEF vars, logVars, worldVars, runVars, envVars, procVars, ctxVars, loopVars, stepVars
<1>1. CASE Start(c, r)
  <2>1. call' \in [Callers -> Call]
    BY <1>1, BeginType DEF Start, CallPC
  <2>2. "new" \in LoopPC
    BY DEF LoopPC
  <2> QED
    BY <1>1, <2>1, <2>2, ClearedType, EmptyType DEF Start, NewRun, TypeOK
<1>2. CASE Resume(c, r)
  <2>1. call' \in [Callers -> Call]
    BY <1>2, BeginType DEF Resume, CallPC
  <2> QED
    BY <1>2, <2>1 DEF Resume, TypeOK
<1>3. CASE Cancel(c, r)
  <2>1. call' \in [Callers -> Call]
    BY <1>3, BeginType DEF Cancel, CallPC
  <2>2. cause' \in [Runs -> Cause]
    BY <1>3 DEF Cancel, First, Cause, TypeOK
  <2> QED
    BY <1>3, <2>1, <2>2 DEF Cancel, TypeOK
<1> QED
  BY <1>1, <1>2, <1>3

(* A new process starts typed. *)
LEMMA NewProcessType ==
  ASSUME TypeOK, NewProcess, crashes' \in 0 .. MaxCrashes
  PROVE  TypeOK'
<1>1. call' \in [Callers -> Call]
  <2>1. ASSUME NEW c \in Callers
        PROVE  [call[c] EXCEPT !.pc = "lost", !.seen = Empty] \in Call
    <3>1. call[c] \in Call
      BY DEF TypeOK
    <3>2. "lost" \in CallPC
      BY DEF CallPC
    <3> QED
      BY <3>1, <3>2, EmptyType DEF Call
  <2> QED
    BY <2>1 DEF NewProcess, TypeOK
<1>2. /\ loop' \in [Runs -> LoopPC] /\ cause' \in [Runs -> Cause] /\ err' \in [Runs -> Cause]
      /\ pc' \in [Steps -> StepPC] /\ x' \in [Steps -> Outcome]
  BY DEF NewProcess, LoopPC, Cause, StepPC, Outcome
<1>3. /\ mem' \in [Runs -> State] /\ open' \in [Runs -> SUBSET Sessions]
      /\ stopped' \in [Runs -> BOOLEAN] /\ failure' \in [Runs -> BOOLEAN]
      /\ wake' \in [Runs -> BOOLEAN] /\ timer' \in [Runs -> Nat]
      /\ id' \in [Steps -> Nat] /\ till' \in [Steps -> Nat]
  BY EmptyType DEF NewProcess
<1>4. closed' \in BOOLEAN
  BY Zenon DEF NewProcess
<1>5. slots' \in 0 .. Limit
  <2>1. slots' = 0
    BY DEF NewProcess
  <2> QED
    BY <2>1, BoundsAssumption
<1>6. /\ disk' = disk /\ faults' = faults /\ shutdowns' = shutdowns
      /\ recs' = recs /\ sends' = sends /\ now' = now /\ limits' = limits
  BY DEF NewProcess, envVars
<1> QED
  BY <1>1, <1>2, <1>3, <1>4, <1>5, <1>6 DEF TypeOK

(* Type correctness: every variable has its type in every reachable state, *)
(* for every workflow, limit and bound.                                    *)
THEOREM TypeCorrect == Spec => []TypeOK
<1> USE BoundsAssumption
<1>1. Init => TypeOK
  <2> SUFFICES ASSUME Init PROVE TypeOK
    OBVIOUS
  <2>1. call \in [Callers -> Call]
    <3>1. PICK r \in Runs : r = CHOOSE q \in Runs : TRUE
      BY RunsAssumption
    <3>2. [op |-> "none", run |-> r, pc |-> "idle", seen |-> Empty] \in Call
      BY EmptyType DEF Call, CallPC
    <3> QED
      BY <3>1, <3>2 DEF Init
  <2>2. /\ loop \in [Runs -> LoopPC] /\ cause \in [Runs -> Cause] /\ err \in [Runs -> Cause]
        /\ pc \in [Steps -> StepPC] /\ x \in [Steps -> Outcome]
    BY DEF Init, LoopPC, Cause, StepPC, Outcome
  <2>3. /\ disk \in [Runs -> State] /\ mem \in [Runs -> State]
        /\ open \in [Runs -> SUBSET Sessions] /\ sends \in [Steps -> Nat]
        /\ stopped \in [Runs -> BOOLEAN] /\ failure \in [Runs -> BOOLEAN]
        /\ wake \in [Runs -> BOOLEAN] /\ timer \in [Runs -> Nat]
        /\ id \in [Steps -> Nat] /\ till \in [Steps -> Nat]
    BY EmptyType DEF Init
  <2>4. recs = {} /\ closed = FALSE /\ slots = 0 /\ now = 0 /\ limits = 0 /\ faults = 0
        /\ shutdowns = 0 /\ crashes = 0
    BY Zenon DEF Init
  <2>5. closed \in BOOLEAN
    BY <2>4, Zenon
  <2>6. /\ recs \subseteq Steps \X Nat /\ slots \in 0 .. Limit
        /\ now \in 0 .. MaxNow /\ limits \in 0 .. MaxLimits /\ faults \in 0 .. MaxFaults
        /\ shutdowns \in 0 .. MaxShutdowns /\ crashes \in 0 .. MaxCrashes
    BY <2>4, BoundsAssumption
  <2> QED
    BY <2>1, <2>2, <2>3, <2>5, <2>6 DEF TypeOK
<1>2. TypeOK /\ [Next]_vars => TypeOK'
  <2> SUFFICES ASSUME TypeOK, [Next]_vars PROVE TypeOK'
    OBVIOUS
  <2> USE DEF vars, logVars, worldVars, runVars, envVars, procVars, ctxVars, loopVars, stepVars
  <2>1. ASSUME NEW s \in Steps, ExchangeEnds(s) PROVE TypeOK'
    <3>1. x' \in [Steps -> Outcome] /\ recs' \subseteq Steps \X Nat
      BY <2>1 DEF ExchangeEnds, Outcome, TypeOK
    <3>2. limits' \in 0 .. MaxLimits /\ till' \in [Steps -> Nat]
      BY <2>1 DEF ExchangeEnds, TypeOK
    <3> QED
      BY <2>1, <3>1, <3>2 DEF ExchangeEnds, TypeOK
  <2>2. CASE Shutdown
    BY <2>2 DEF Shutdown, First, Cause, Registered, TypeOK
  <2>3. CASE Restart
    BY <2>3, NewProcessType DEF Restart, TypeOK
  <2>4. CASE Crash
    BY <2>4, NewProcessType DEF Crash, TypeOK
  <2>5. CASE Tick
    BY <2>5 DEF Tick, TypeOK
  <2>6. CASE UNCHANGED vars
    BY <2>6 DEF TypeOK
  <2> QED
    BY <2>1, <2>2, <2>3, <2>4, <2>5, <2>6, StepType, LoopType, CallType, BeginCallType
       DEF Next, Terminated
<1> QED
  BY <1>1, <1>2, PTL DEF Spec

-----------------------------------------------------------------------------
(* No session carries two exchanges at once and no more than the limit are *)
(* in flight.                                                              *)

(* The inductive invariant: a session is one step's from its start until   *)
(* it leaves inflight, and only a step that has sent has an exchange.      *)
OneStepEach ==
    \A s, t \in Steps : pc[s] # "none" /\ pc[t] # "none" /\ Sess[s] = Sess[t] => s = t
SentOnly == \A s \in Exchanging : pc[s] \in {"started", "follow"}
ExclusionInv == OneStepEach /\ SentOnly

(* A step that is ready has its session to itself. *)
LEMMA ReadyAlone ==
  ASSUME NEW r \in Runs, NEW s \in Ready(r), NEW t \in Steps, Sess[s] = Sess[t]
  PROVE  pc[t] = "none"
<1>1. s \in Steps /\ RunOf[s] = r /\ Startable(s)
  BY DEF Ready, StepsOf
<1>2. RunOf[t] = r
  BY <1>1, SessAssumption
<1> QED
  BY <1>1, <1>2 DEF Startable, Busy, Inflight, StepsOf

(* The goroutine of a step moves its own program counter and exchange.     *)
LEMMA StepOwn ==
  ASSUME TypeOK, NEW s \in Steps, StepNext(s)
  PROVE  /\ pc[s] # "none" /\ loop[RunOf[s]] # "start"
         /\ \A t \in Steps \ {s} : pc'[t] = pc[t] /\ x'[t] = x[t]
         /\ loop' = loop /\ call' = call
<1> USE DEF vars, logVars, worldVars, runVars, envVars, procVars, ctxVars, loopVars, stepVars
<1>1. loop' = loop /\ call' = call
  BY DEF StepNext, OpenSession, LogOpened, Adopt, Send, LogStarted, Follow,
         EndInterrupted, EndClassify, LogEnded, Fail, FreeSlot, TakeIdle, CloseIdle, Leave
<1>2. pc[s] # "none" /\ \A t \in Steps \ {s} : pc'[t] = pc[t] /\ x'[t] = x[t]
  BY DEF StepNext, TypeOK, To, EndErr, OpenSession, LogOpened, Adopt, Send, LogStarted, Follow,
         EndInterrupted, EndClassify, LogEnded, Fail, FreeSlot, TakeIdle, CloseIdle, Leave
<1> QED
  BY <1>1, <1>2 DEF StepNext

(* A step has an exchange at "started" and "follow" alone. *)
LEMMA StepExcludes ==
  ASSUME TypeOK, ExclusionInv, NEW s \in Steps, StepNext(s)
  PROVE  ExclusionInv'
<1> USE DEF vars, logVars, worldVars, runVars, envVars, procVars, ctxVars, loopVars, stepVars
<1>1. /\ pc[s] # "none"
      /\ \A t \in Steps : t # s => pc'[t] = pc[t] /\ x'[t] = x[t]
  BY StepOwn
<1>2. x'[s] \in {"running", "cancelling"} => pc'[s] \in {"started", "follow"}
  <2>1. x[s] \in {"running", "cancelling"} => pc[s] \in {"started", "follow"}
    BY DEF ExclusionInv, SentOnly, Exchanging
  <2>2. CASE OpenSession(s) \/ LogOpened(s) \/ Adopt(s)
    BY <2>1, <2>2 DEF TypeOK, To, EndErr, OpenSession, LogOpened, Adopt
  <2>3. CASE Send(s) \/ LogStarted(s) \/ Follow(s)
    BY <2>1, <2>3 DEF TypeOK, To, EndErr, Send, LogStarted, Follow
  <2>4. CASE EndInterrupted(s) \/ EndClassify(s) \/ LogEnded(s) \/ Fail(s)
    BY <2>1, <2>4 DEF TypeOK, To, EndInterrupted, EndClassify, LogEnded, Fail
  <2>5. CASE FreeSlot(s) \/ TakeIdle(s) \/ CloseIdle(s) \/ Leave(s)
    BY <2>1, <2>5 DEF TypeOK, To, FreeSlot, TakeIdle, CloseIdle, Leave
  <2> QED
    BY <2>2, <2>3, <2>4, <2>5 DEF StepNext
<1>3. OneStepEach'
  BY <1>1 DEF ExclusionInv, OneStepEach
<1>4. SentOnly'
  BY <1>1, <1>2 DEF ExclusionInv, SentOnly, Exchanging
<1> QED
  BY <1>3, <1>4 DEF ExclusionInv

(* A loop starts a step only in a session no step is in. *)
LEMMA LaunchExcludes ==
  ASSUME TypeOK, ExclusionInv, NEW r \in Runs, LoopLaunch(r)
  PROVE  ExclusionInv'
<1>1. PICK s \in FirstReady(r) : To(s, "open")
  BY DEF LoopLaunch
<1>2. s \in Ready(r) /\ s \in Steps
  BY DEF FirstReady, Ready, StepsOf
<1>3. x' = x /\ \A t \in Steps : t # s => pc'[t] = pc[t]
  BY <1>1 DEF LoopLaunch, To, TypeOK
<1>4. \A t \in Steps : Sess[s] = Sess[t] => pc[t] = "none"
  BY <1>2, ReadyAlone
<1>5. OneStepEach'
  BY <1>2, <1>3, <1>4 DEF ExclusionInv, OneStepEach
<1>6. SentOnly'
  BY <1>2, <1>3, <1>4 DEF ExclusionInv, SentOnly, Exchanging
<1> QED
  BY <1>5, <1>6 DEF ExclusionInv

(* The exclusion is an invariant. *)
LEMMA Excludes == Spec => []ExclusionInv
<1> USE DEF vars, logVars, worldVars, runVars, envVars, procVars, ctxVars, loopVars, stepVars
<1>1. Init => ExclusionInv
  BY DEF Init, ExclusionInv, OneStepEach, SentOnly, Exchanging
<1>2. TypeOK /\ ExclusionInv /\ [Next]_vars => ExclusionInv'
  <2> SUFFICES ASSUME TypeOK, ExclusionInv, [Next]_vars PROVE ExclusionInv'
    OBVIOUS
  <2>1. CASE pc' = pc /\ x' = x
    BY <2>1 DEF ExclusionInv, OneStepEach, SentOnly, Exchanging
  <2>2. ASSUME NEW s \in Steps, ExchangeEnds(s) PROVE ExclusionInv'
    <3>1. pc' = pc /\ \A t \in Steps : x'[t] = x[t] \/ x'[t] \notin {"running", "cancelling"}
      BY <2>2 DEF ExchangeEnds, TypeOK
    <3> QED
      BY <3>1 DEF ExclusionInv, OneStepEach, SentOnly, Exchanging
  <2>3. ASSUME NEW r \in Runs, LoopNext(r), ~LoopLaunch(r) PROVE pc' = pc /\ x' = x
    BY <2>3 DEF LoopNext, LoopStopping, LoopDone, LoopPaused, LoopWait, Wake, Interrupt,
                LogResumed, LogDone, LogEnd, Finish, CloseSessions, Forget
  <2>4. ASSUME NEW c \in Callers, CallNext(c) PROVE pc' = pc /\ x' = x
    BY <2>4 DEF CallNext, StartLog, ReadLog, ResumeNew, ResumeLaunch, CancelAppend
  <2>5. ASSUME NEW c \in Callers, NEW r \in Runs, Start(c, r) \/ Resume(c, r) \/ Cancel(c, r)
        PROVE  pc' = pc /\ x' = x
    BY <2>5 DEF Start, Resume, Cancel
  <2>6. CASE NewProcess
    BY <2>6 DEF NewProcess, ExclusionInv, OneStepEach, SentOnly, Exchanging
  <2>7. CASE UNCHANGED vars \/ Shutdown \/ Tick
    BY <2>1, <2>7 DEF Shutdown, Tick
  <2> QED
    BY <2>1, <2>2, <2>3, <2>4, <2>5, <2>6, <2>7, StepExcludes, LaunchExcludes
       DEF Next, Restart, Crash, Terminated
<1> QED
  BY <1>1, <1>2, TypeCorrect, PTL DEF Spec

(* A session carries one exchange at a time, whatever runs, slots, callers *)
(* and failures there are.                                                 *)
THEOREM ExclusionCorrect == Spec => []OneExchangeEach
<1>1. ExclusionInv => OneExchangeEach
  BY DEF ExclusionInv, OneStepEach, SentOnly, OneExchangeEach, Exchanging
<1> QED
  BY <1>1, Excludes, PTL

-----------------------------------------------------------------------------
(* The slots.                                                              *)

SlotsHeld == Limit # 0 => slots = Cardinality(Holding)

LEMMA HoldingFinite == IsFiniteSet(Holding) /\ Cardinality(Holding) \in Nat
BY FiniteAssumption, FS_Subset, FS_CardinalityType DEF Holding

(* A launch takes a slot and its step is the one more that holds one. *)
LEMMA LaunchHolds ==
  ASSUME TypeOK, SlotsHeld, NEW r \in Runs, LoopLaunch(r)
  PROVE  SlotsHeld'
<1>1. PICK s \in FirstReady(r) : To(s, "open")
  BY DEF LoopLaunch
<1>2. s \in Steps /\ pc[s] = "none"
  BY DEF FirstReady, Ready, StepsOf, Startable, Inflight
<1>3. Holding' = Holding \union {s} /\ s \notin Holding
  BY <1>1, <1>2 DEF Holding, To, TypeOK
<1>4. Cardinality(Holding') = Cardinality(Holding) + 1
  BY <1>3, HoldingFinite, FS_AddElement
<1> QED
  BY <1>4 DEF LoopLaunch, SlotsHeld

(* A step gives its slot back once, on its one way out. *)
LEMMA StepHolds ==
  ASSUME TypeOK, SlotsHeld, NEW s \in Steps, StepNext(s)
  PROVE  SlotsHeld'
<1> USE DEF vars, logVars, worldVars, runVars, envVars, procVars, ctxVars, loopVars, stepVars
<1>1. CASE FreeSlot(s)
  <2>1. Holding' = Holding \ {s} /\ s \in Holding
    BY <1>1 DEF Holding, FreeSlot, To, TypeOK
  <2>2. Cardinality(Holding') = Cardinality(Holding) - 1
    BY <2>1, HoldingFinite, FS_RemoveElement
  <2> QED
    BY <1>1, <2>2 DEF FreeSlot, SlotsHeld
<1>2. CASE ~FreeSlot(s)
  <2>1. slots' = slots
    BY <1>2 DEF StepNext, OpenSession, LogOpened, Adopt, Send, LogStarted, Follow,
           EndInterrupted, EndClassify, LogEnded, Fail, TakeIdle, CloseIdle, Leave
  <2>2. \A t \in Steps : t # s => pc'[t] = pc[t]
    BY StepOwn
  <2>3. pc'[s] \in {"none", "idle", "closing", "leave"}
          <=> pc[s] \in {"none", "idle", "closing", "leave"}
    BY <1>2 DEF StepNext, TypeOK, To, EndErr, OpenSession, LogOpened, Adopt, Send, LogStarted,
           Follow, EndInterrupted, EndClassify, LogEnded, Fail, TakeIdle, CloseIdle, Leave
  <2>4. Holding' = Holding
    BY <2>2, <2>3 DEF Holding
  <2> QED
    BY <2>1, <2>4 DEF SlotsHeld
<1> QED
  BY <1>1, <1>2

LEMMA Holds == Spec => []SlotsHeld
<1> USE DEF vars, logVars, worldVars, runVars, envVars, procVars, ctxVars, loopVars, stepVars
<1>1. Init => SlotsHeld
  <2> SUFFICES ASSUME Init PROVE SlotsHeld
    OBVIOUS
  <2>1. Holding = {}
    BY DEF Init, Holding
  <2> QED
    BY <2>1, FS_EmptySet DEF Init, SlotsHeld
<1>2. TypeOK /\ SlotsHeld /\ [Next]_vars => SlotsHeld'
  <2> SUFFICES ASSUME TypeOK, SlotsHeld, [Next]_vars PROVE SlotsHeld'
    OBVIOUS
  <2>1. CASE pc' = pc /\ slots' = slots
    BY <2>1 DEF SlotsHeld, Holding
  <2>2. ASSUME NEW s \in Steps, ExchangeEnds(s) PROVE pc' = pc /\ slots' = slots
    BY <2>2 DEF ExchangeEnds
  <2>3. ASSUME NEW r \in Runs, LoopNext(r), ~LoopLaunch(r) PROVE pc' = pc /\ slots' = slots
    BY <2>3 DEF LoopNext, LoopStopping, LoopDone, LoopPaused, LoopWait, Wake, Interrupt,
                LogResumed, LogDone, LogEnd, Finish, CloseSessions, Forget
  <2>4. ASSUME NEW c \in Callers, CallNext(c) PROVE pc' = pc /\ slots' = slots
    BY <2>4 DEF CallNext, StartLog, ReadLog, ResumeNew, ResumeLaunch, CancelAppend
  <2>5. ASSUME NEW c \in Callers, NEW r \in Runs, Start(c, r) \/ Resume(c, r) \/ Cancel(c, r)
        PROVE  pc' = pc /\ slots' = slots
    BY <2>5 DEF Start, Resume, Cancel
  <2>6. CASE NewProcess
    <3>1. Holding' = {} /\ slots' = 0
      BY <2>6 DEF NewProcess, Holding
    <3> QED
      BY <3>1, FS_EmptySet DEF SlotsHeld
  <2>7. CASE UNCHANGED vars \/ Shutdown \/ Tick
    BY <2>1, <2>7 DEF Shutdown, Tick
  <2> QED
    BY <2>1, <2>2, <2>3, <2>4, <2>5, <2>6, <2>7, StepHolds, LaunchHolds
       DEF Next, Restart, Crash, Terminated
<1> QED
  BY <1>1, <1>2, TypeCorrect, PTL DEF Spec

(* The exchanges in flight stay within the limit, and every token in slots *)
(* is one step's that has yet to give it back.                             *)
THEOREM LimitCorrect == Spec => []WithinLimit
<1>1. TypeOK /\ ExclusionInv /\ SlotsHeld => WithinLimit
  <2> SUFFICES ASSUME TypeOK, ExclusionInv, SlotsHeld, Limit # 0
               PROVE  Cardinality(Exchanging) <= Limit /\ slots = Cardinality(Holding)
    BY DEF WithinLimit
  <2>1. Exchanging \subseteq Holding
    BY DEF ExclusionInv, SentOnly, Exchanging, Holding
  <2>2. Cardinality(Exchanging) <= Cardinality(Holding)
    BY <2>1, HoldingFinite, FS_Subset
  <2>3. Cardinality(Exchanging) \in Nat
    BY <2>1, HoldingFinite, FS_Subset, FS_CardinalityType
  <2>4. slots = Cardinality(Holding) /\ slots <= Limit /\ Limit \in Nat
    BY BoundsAssumption DEF SlotsHeld, TypeOK
  <2> QED
    BY <2>2, <2>3, <2>4, HoldingFinite
<1> QED
  BY <1>1, Excludes, Holds, TypeCorrect, PTL

-----------------------------------------------------------------------------
(* The log and the states of it.  A run's state in memory is one its log   *)
(* had: the number of the last event, which is all the store checks of an  *)
(* append, tells whether the state is the log's.                           *)

(* The inductive invariant: MemoryIsALog for the runs the Runner does not  *)
(* have as well, whose state is Empty; Empty is behind every log, since a  *)
(* log without events folds to it.                                         *)
MemBehind == \A r \in Runs : Behind(mem[r], disk[r])
ZeroIsEmpty == \A r \in Runs : disk[r].seq = 0 => disk[r] = Empty
SeenBehind ==
    \A c \in Callers :
      call[c].pc \in {"newRun", "cappend"} => Behind(call[c].seen, disk[call[c].run])
LogInv == MemBehind /\ ZeroIsEmpty /\ SeenBehind

(* What every step does to the logs, the states in memory and the states   *)
(* the callers hold.                                                       *)
Grown(d, e) == e = d \/ e.seq = d.seq + 1
LogsGrow == \A r \in Runs : Grown(disk[r], disk'[r])
Held(st, r) == \E c \in Callers : call[c].pc = "newRun" /\ call[c].run = r /\ st = call[c].seen
MemKeeps ==
    \A r \in Runs :
      mem'[r] = mem[r] \/ mem'[r] = disk'[r] \/ mem'[r] = Empty \/ Held(mem'[r], r)
SeenKeeps ==
    \A c \in Callers : call'[c].pc \in {"newRun", "cappend"} =>
      call'[c] = call[c] \/ call'[c].seen = disk[call'[c].run]

(* A state that is behind a log stays behind it as it grows. *)
LEMMA BehindGrown ==
  ASSUME NEW st \in State, NEW d \in State, NEW e \in State, Behind(st, d), Grown(d, e)
  PROVE  Behind(st, e)
<1>1. st.seq \in Nat /\ d.seq \in Nat /\ e.seq \in Nat
  BY DEF State
<1> QED
  BY <1>1 DEF Behind, Grown

LEMMA EmptyBehind ==
  ASSUME TypeOK, LogInv, NEW r \in Runs
  PROVE  Behind(Empty, disk[r])
<1>1. disk[r].seq \in Nat
  BY DEF TypeOK, State
<1>2. Empty.seq = 0
  BY DEF Empty
<1> QED
  BY <1>1, <1>2 DEF LogInv, ZeroIsEmpty, Behind

LEMMA Keeps ==
  ASSUME TypeOK, TypeOK', LogInv, LogsGrow, MemKeeps, SeenKeeps
  PROVE  LogInv'
<1>1. \A r \in Runs : disk[r] \in State /\ disk'[r] \in State /\ mem[r] \in State /\ mem'[r] \in State
  BY DEF TypeOK
<1>2. MemBehind'
  <2> SUFFICES ASSUME NEW r \in Runs PROVE Behind(mem'[r], disk'[r])
    BY DEF MemBehind
  <2>1. CASE mem'[r] = disk'[r]
    BY <1>1, <2>1 DEF Behind, State
  <2>2. CASE Behind(mem'[r], disk[r])
    BY <1>1, <2>2, BehindGrown DEF LogsGrow
  <2>3. mem'[r] = mem[r] \/ mem'[r] = Empty \/ Held(mem'[r], r) => Behind(mem'[r], disk[r])
    BY EmptyBehind DEF LogInv, MemBehind, SeenBehind, Held
  <2> QED
    BY <2>1, <2>2, <2>3 DEF MemKeeps
<1>3. ZeroIsEmpty'
  <2> SUFFICES ASSUME NEW r \in Runs, disk'[r].seq = 0 PROVE disk'[r] = Empty
    BY DEF ZeroIsEmpty
  <2>1. disk[r].seq \in Nat
    BY <1>1 DEF State
  <2> QED
    BY <2>1 DEF LogsGrow, Grown, LogInv, ZeroIsEmpty
<1>4. SeenBehind'
  <2> SUFFICES ASSUME NEW c \in Callers, call'[c].pc \in {"newRun", "cappend"}
               PROVE  Behind(call'[c].seen, disk'[call'[c].run])
    BY DEF SeenBehind
  <2>1. call'[c].run \in Runs /\ call'[c].seen \in State
    BY DEF TypeOK, Call
  <2>2. Behind(call'[c].seen, disk[call'[c].run])
    <3>1. CASE call'[c] = call[c]
      BY <3>1 DEF LogInv, SeenBehind
    <3>2. CASE call'[c].seen = disk[call'[c].run]
      BY <1>1, <2>1, <3>2 DEF Behind, State
    <3> QED
      BY <3>1, <3>2 DEF SeenKeeps
  <2> QED
    BY <1>1, <2>1, <2>2, BehindGrown DEF LogsGrow
<1> QED
  BY <1>2, <1>3, <1>4 DEF LogInv

(* An append, made or failed. *)
LEMMA LoggedKeeps ==
  ASSUME TypeOK, LogInv, NEW r \in Runs, NEW e, e \in Event, Logged(r, e)
  PROVE  LogsGrow /\ MemKeeps
<1>1. disk[r] \in State /\ Apply(disk[r], e).seq = disk[r].seq + 1
  BY ApplyType DEF TypeOK
<1>2. mem[r] = disk[r]
  BY DEF Logged, LogInv, MemBehind, Behind
<1>3. disk'[r] = Apply(disk[r], e) /\ \A q \in Runs : q # r => disk'[q] = disk[q]
  BY DEF Logged, TypeOK
<1>4. mem'[r] = Apply(mem[r], e) /\ \A q \in Runs : q # r => mem'[q] = mem[q]
  BY DEF Logged, TypeOK
<1>5. LogsGrow
  BY <1>1, <1>3 DEF LogsGrow, Grown
<1>6. MemKeeps
  BY <1>2, <1>3, <1>4 DEF MemKeeps
<1> QED
  BY <1>5, <1>6

LEMMA FaultKeeps ==
  ASSUME TypeOK, NEW r \in Runs, NEW e, e \in Event, Fault(r, e)
  PROVE  LogsGrow
<1>1. Apply(disk[r], e).seq = disk[r].seq + 1
  BY ApplyType DEF TypeOK
<1> QED
  BY <1>1 DEF Fault, LogsGrow, Grown, TypeOK

LEMMA NotLoggedKeeps ==
  ASSUME TypeOK, NEW r \in Runs, NEW e, Follows(mem[r], e) => e \in Event, NotLogged(r, e)
  PROVE  LogsGrow /\ MemKeeps
<1>1. MemKeeps
  BY DEF NotLogged, MemKeeps
<1>2. LogsGrow
  <2>1. CASE Fault(r, e) /\ e \in Event
    BY <2>1, FaultKeeps
  <2>2. CASE disk' = disk
    BY <2>2 DEF LogsGrow, Grown
  <2> QED
    BY <2>1, <2>2 DEF NotLogged
<1> QED
  BY <1>1, <1>2

LEMMA SameKeeps ==
  /\ disk' = disk => LogsGrow
  /\ mem' = mem => MemKeeps
  /\ call' = call => SeenKeeps
BY DEF LogsGrow, Grown, MemKeeps, SeenKeeps

(* The goroutine of a step. *)
LEMMA StepKeeps ==
  ASSUME TypeOK, LogInv, NEW s \in Steps, StepNext(s)
  PROVE  LogsGrow /\ MemKeeps /\ SeenKeeps
<1> DEFINE r == RunOf[s]
<1> USE RunOfAssumption
<1>0. r \in Runs
  OBVIOUS
<1> USE DEF vars, logVars, worldVars, runVars, envVars, procVars, ctxVars, loopVars, stepVars
<1>1. CASE LogOpened(s)
  <2>1. SessionOpened(Sess[s]) \in Event
    BY SessAssumption DEF Event
  <2>2. call' = call
    BY <1>1 DEF LogOpened
  <2>3. LogsGrow /\ MemKeeps
    BY <1>0, <1>1, <2>1, LoggedKeeps, NotLoggedKeeps DEF LogOpened
  <2> QED
    BY <2>2, <2>3, SameKeeps
<1>2. CASE Adopt(s)
  <2> DEFINE e == StepEnded(s, mem[r].steps[s].ex, "done")
  <2>1. e \in Event
    BY DEF Event, Ended, TypeOK, State
  <2>2. call' = call
    BY <1>2 DEF Adopt
  <2>3. (disk' = disk /\ mem' = mem) \/ Logged(r, e) \/ NotLogged(r, e)
    BY <1>2 DEF Adopt
  <2>4. LogsGrow /\ MemKeeps
    BY <1>0, <2>1, <2>3, LoggedKeeps, NotLoggedKeeps, SameKeeps
  <2> QED
    BY <2>2, <2>4, SameKeeps
<1>3. CASE LogStarted(s)
  <2>1. StepStarted(s, id[s]) \in Event
    BY DEF Event, TypeOK
  <2>2. call' = call
    BY <1>3 DEF LogStarted
  <2>3. LogsGrow /\ MemKeeps
    BY <1>0, <1>3, <2>1, LoggedKeeps, NotLoggedKeeps DEF LogStarted
  <2> QED
    BY <2>2, <2>3, SameKeeps
<1>4. CASE LogEnded(s)
  <2> DEFINE e == EndEvent(s)
  <2>1. Follows(mem[r], e) => e \in Event
    BY DEF EndEvent, Follows, RunPaused, StepEnded, Event, TypeOK
  <2>2. call' = call
    BY <1>4 DEF LogEnded
  <2>3. Logged(r, e) \/ NotLogged(r, e)
    BY <1>4 DEF LogEnded
  <2>4. ASSUME Logged(r, e) PROVE LogsGrow /\ MemKeeps
    <3>1. Follows(mem[r], e)
      BY <2>4 DEF Logged
    <3>2. e \in Event
      BY <2>1, <3>1
    <3> HIDE DEF e
    <3> QED
      BY <1>0, <2>4, <3>2, LoggedKeeps
  <2>5. ASSUME NotLogged(r, e) PROVE LogsGrow /\ MemKeeps
    <3> HIDE DEF e
    <3> QED
      BY <1>0, <2>1, <2>5, NotLoggedKeeps
  <2>6. LogsGrow /\ MemKeeps
    BY <2>3, <2>4, <2>5
  <2> QED
    BY <2>2, <2>6, SameKeeps
<1>5. CASE OpenSession(s) \/ Send(s) \/ Follow(s) \/ EndInterrupted(s) \/ EndClassify(s)
           \/ Fail(s) \/ FreeSlot(s) \/ TakeIdle(s) \/ CloseIdle(s) \/ Leave(s)
  <2>1. disk' = disk /\ mem' = mem /\ call' = call
    BY <1>5 DEF OpenSession, Send, Follow, EndInterrupted, EndClassify, Fail, FreeSlot,
                TakeIdle, CloseIdle, Leave
  <2> QED
    BY <2>1, SameKeeps
<1> QED
  BY <1>1, <1>2, <1>3, <1>4, <1>5 DEF StepNext

(* A run that is cleared, or registered with a state its log had. *)
LEMMA ClearedKeeps ==
  ASSUME TypeOK, NEW r \in Runs, NEW p, NEW st, st = Empty \/ Held(st, r), Cleared(r, p, st)
  PROVE  MemKeeps
BY DEF Cleared, MemKeeps, TypeOK

(* The loop of a run. *)
LEMMA LoopKeeps ==
  ASSUME TypeOK, LogInv, NEW r \in Runs, LoopNext(r)
  PROVE  LogsGrow /\ MemKeeps /\ SeenKeeps
<1> USE DEF vars, logVars, worldVars, runVars, envVars, procVars, ctxVars, loopVars, stepVars
<1>1. CASE LogResumed(r)
  <2>1. RunResumed \in Event
    BY DEF Event
  <2>2. call' = call /\ (Logged(r, RunResumed) \/ NotLogged(r, RunResumed))
    BY <1>1 DEF LogResumed
  <2> QED
    BY <2>1, <2>2, LoggedKeeps, NotLoggedKeeps, SameKeeps
<1>2. ASSUME NEW z \in Ended, LogRunEnded(r, z)
      PROVE  LogsGrow /\ MemKeeps
  <2>1. RunEnded(z) \in Event
    BY DEF Event
  <2> QED
    BY <1>2, <2>1, LoggedKeeps, NotLoggedKeeps DEF LogRunEnded
<1>3. CASE LogDone(r)
  <2>1. call' = call /\ LogRunEnded(r, "done") /\ "done" \in Ended
    BY <1>3 DEF LogDone, Ended
  <2> QED
    BY <1>2, <2>1, SameKeeps
<1>4. CASE LogEnd(r)
  <2> DEFINE z == IF failure[r] THEN "failed" ELSE "cancelled"
  <2>1. z \in Ended
    BY DEF Ended
  <2>2. call' = call /\ (LogRunEnded(r, z) \/ (disk' = disk /\ mem' = mem))
    BY <1>4 DEF LogEnd
  <2> QED
    BY <1>2, <2>1, <2>2, SameKeeps
<1>5. CASE Forget(r)
  <2>1. disk' = disk /\ call' = call
    BY <1>5 DEF Forget
  <2>2. MemKeeps
    BY <1>5, ClearedKeeps DEF Forget
  <2> QED
    BY <2>1, <2>2, SameKeeps
<1>6. CASE LoopStopping(r) \/ LoopDone(r) \/ LoopPaused(r) \/ LoopLaunch(r) \/ LoopWait(r)
           \/ Wake(r) \/ Interrupt(r) \/ Finish(r) \/ CloseSessions(r)
  <2>1. disk' = disk /\ mem' = mem /\ call' = call
    BY <1>6 DEF LoopStopping, LoopDone, LoopPaused, LoopLaunch, LoopWait, Wake, Interrupt,
                Finish, CloseSessions
  <2> QED
    BY <2>1, SameKeeps
<1> QED
  BY <1>1, <1>3, <1>4, <1>5, <1>6 DEF LoopNext

(* A caller that turns to p holds no state; the others hold what they did. *)
LEMMA TurnKeeps ==
  ASSUME TypeOK, NEW c \in Callers, NEW p \in CallPC, Turn(c, p), p \notin {"newRun", "cappend"}
  PROVE  SeenKeeps
BY DEF Turn, SeenKeeps, TypeOK, Call

LEMMA BeginKeeps ==
  ASSUME TypeOK, NEW c \in Callers, NEW r, NEW o, NEW p, p \notin {"newRun", "cappend"},
         Begin(c, o, r, p, Empty)
  PROVE  SeenKeeps
BY DEF Begin, SeenKeeps, TypeOK

(* The calls of Start, Resume and Cancel. *)
LEMMA CallKeeps ==
  ASSUME TypeOK, LogInv, NEW c \in Callers, CallNext(c)
  PROVE  LogsGrow /\ MemKeeps /\ SeenKeeps
<1> DEFINE r == call[c].run
<1> USE DEF vars, logVars, worldVars, runVars, envVars, procVars, ctxVars, loopVars, stepVars
<1>0. r \in Runs
  BY DEF TypeOK, Call
<1>1. CASE StartLog(c)
  <2>1. RunStarted \in Event
    BY DEF Event
  <2>2. SeenKeeps
    BY <1>1, TurnKeeps DEF StartLog, CallPC
  <2>3. CASE Logged(r, RunStarted)
    BY <1>0, <2>1, <2>2, <2>3, LoggedKeeps
  <2>4. CASE Fault(r, RunStarted) /\ Cleared(r, "off", Empty)
    BY <1>0, <2>1, <2>2, <2>4, FaultKeeps, ClearedKeeps
  <2> QED
    BY <1>1, <2>3, <2>4 DEF StartLog
<1>2. CASE ReadLog(c)
  <2>1. SeenKeeps
    <3>1. ASSUME NEW d \in Callers, d # c PROVE call'[d] = call[d]
      BY <1>2, <3>1 DEF ReadLog, Turn, TypeOK
    <3>2. call'[c].pc \in {"newRun", "cappend"} => call'[c].seen = disk[call'[c].run]
      BY <1>2 DEF ReadLog, Turn, TypeOK, Call
    <3> QED
      BY <3>1, <3>2 DEF SeenKeeps
  <2> QED
    BY <1>2, <2>1, SameKeeps DEF ReadLog
<1>3. CASE ResumeNew(c)
  <2>1. SeenKeeps
    BY <1>3, TurnKeeps DEF ResumeNew, CallPC
  <2>2. Held(call[c].seen, r)
    BY <1>3 DEF ResumeNew, Held
  <2>3. MemKeeps
    <3>1. CASE NewRun(r, call[c].seen)
      BY <1>0, <2>2, <3>1, ClearedKeeps DEF NewRun
    <3>2. CASE mem' = mem
      BY <3>2, SameKeeps
    <3> QED
      BY <1>3, <3>1, <3>2 DEF ResumeNew
  <2> QED
    BY <1>3, <2>1, <2>3, SameKeeps DEF ResumeNew
<1>4. CASE ResumeLaunch(c)
  <2>1. RunResumed \in Event
    BY DEF Event
  <2>2. SeenKeeps
    BY <1>4, TurnKeeps DEF ResumeLaunch, CallPC
  <2>3. CASE disk' = disk /\ mem' = mem
    BY <2>2, <2>3, SameKeeps
  <2>4. CASE Logged(r, RunResumed)
    BY <1>0, <2>1, <2>2, <2>4, LoggedKeeps
  <2>5. CASE (Fault(r, RunResumed) \/ disk' = disk) /\ Cleared(r, "off", Empty)
    BY <1>0, <2>1, <2>2, <2>5, FaultKeeps, ClearedKeeps, SameKeeps
  <2> QED
    BY <1>4, <2>3, <2>4, <2>5 DEF ResumeLaunch
<1>5. CASE CancelAppend(c)
  <2> DEFINE e == RunEnded("cancelled")
  <2>1. e \in Event
    BY DEF Event, Ended
  <2>2. SeenKeeps
    BY <1>5, TurnKeeps DEF CancelAppend, CallPC
  <2>3. Apply(disk[r], e).seq = disk[r].seq + 1
    BY <1>0, <2>1, ApplyType DEF TypeOK
  <2>4. CASE disk' = [disk EXCEPT ![r] = Apply(@, e)]
    BY <1>0, <1>5, <2>2, <2>3, <2>4, SameKeeps DEF CancelAppend, LogsGrow, Grown, TypeOK
  <2>5. CASE Fault(r, e) \/ disk' = disk
    BY <1>0, <1>5, <2>1, <2>2, <2>5, FaultKeeps, SameKeeps DEF CancelAppend
  <2> QED
    BY <1>5, <2>4, <2>5 DEF CancelAppend
<1> QED
  BY <1>1, <1>2, <1>3, <1>4, <1>5 DEF CallNext

LEMMA BeginCallKeeps ==
  ASSUME TypeOK, LogInv, NEW c \in Callers, NEW r \in Runs,
         Start(c, r) \/ Resume(c, r) \/ Cancel(c, r)
  PROVE  LogsGrow /\ MemKeeps /\ SeenKeeps
<1> USE DEF vars, logVars, worldVars, runVars, envVars, procVars, ctxVars, loopVars, stepVars
<1>1. CASE Start(c, r)
  <2>1. SeenKeeps
    BY <1>1, BeginKeeps DEF Start
  <2>2. MemKeeps
    BY <1>1, ClearedKeeps, SameKeeps DEF Start, NewRun
  <2> QED
    BY <1>1, <2>1, <2>2, SameKeeps DEF Start
<1>2. CASE Resume(c, r)
  <2>1. SeenKeeps
    BY <1>2, BeginKeeps DEF Resume
  <2> QED
    BY <1>2, <2>1, SameKeeps DEF Resume
<1>3. CASE Cancel(c, r)
  <2>1. SeenKeeps
    BY <1>3, BeginKeeps DEF Cancel
  <2> QED
    BY <1>3, <2>1, SameKeeps DEF Cancel
<1> QED
  BY <1>1, <1>2, <1>3

LEMMA NewProcessKeeps ==
  ASSUME TypeOK, LogInv, NewProcess
  PROVE  LogsGrow /\ MemKeeps /\ SeenKeeps
<1>1. MemKeeps
  BY DEF NewProcess, MemKeeps
<1>2. SeenKeeps
  <2> SUFFICES ASSUME NEW c \in Callers, call'[c].pc \in {"newRun", "cappend"}
               PROVE  call'[c] = call[c]
    BY DEF SeenKeeps
  <2>1. CASE call[c].pc \in Answered
    BY <2>1 DEF NewProcess
  <2>2. CASE call[c].pc \notin Answered
    BY <2>2 DEF NewProcess, TypeOK, Call
  <2> QED
    BY <2>1, <2>2
<1> QED
  BY <1>1, <1>2, SameKeeps DEF NewProcess

LEMMA NextKeeps ==
  ASSUME TypeOK, LogInv, [Next]_vars
  PROVE  LogsGrow /\ MemKeeps /\ SeenKeeps
<1>1. CASE \/ UNCHANGED vars
           \/ \E s \in Steps : ExchangeEnds(s)
           \/ Shutdown \/ Tick
  <2>1. disk' = disk /\ mem' = mem /\ call' = call
    BY <1>1 DEF vars, logVars, worldVars, runVars, envVars, procVars, ctxVars, loopVars,
                stepVars, ExchangeEnds, Shutdown, Tick
  <2> QED
    BY <2>1, SameKeeps
<1>2. CASE Restart \/ Crash
  BY <1>2, NewProcessKeeps DEF Restart, Crash
<1> QED
  BY <1>1, <1>2, StepKeeps, LoopKeeps, CallKeeps, BeginCallKeeps DEF Next, Terminated

(* The inductive invariant holds. *)
LEMMA LogStays == Spec => []LogInv
<1>1. Init => LogInv
  <2> SUFFICES ASSUME Init PROVE LogInv
    OBVIOUS
  <2>1. Empty.seq = 0
    BY DEF Empty
  <2> QED
    BY <2>1 DEF Init, LogInv, MemBehind, ZeroIsEmpty, SeenBehind, Behind
<1>2. TypeOK /\ TypeOK' /\ LogInv /\ [Next]_vars => LogInv'
  BY NextKeeps, Keeps
<1> QED
  BY <1>1, <1>2, TypeCorrect, PTL DEF Spec

(* A run's state in memory, and a state a caller read, is never ahead of   *)
(* the log and is the log's own when they have as many events, whatever    *)
(* calls race and whatever appends fail or crashes come in between.        *)
THEOREM MemoryCorrect == Spec => []MemoryIsALog
<1>1. LogInv => MemoryIsALog
  BY DEF LogInv, MemBehind, SeenBehind, MemoryIsALog
<1> QED
  BY <1>1, LogStays, PTL

=============================================================================
