---------------------------- MODULE RunnerOnceProofs ----------------------------
(***************************************************************************)
(* Work is done once: a crash and an append that fails may cost a step one *)
(* more exchange that ends well, and nothing else does, for every          *)
(* workflow, limit and bound.                                              *)
(***************************************************************************)
EXTENDS RunnerLifecycleProofs

(* The result of s is in st, or adopt finds it through st. *)
Has(st, s) ==
    \/ st.steps[s].status \in Ended
    \/ st.steps[s].status = "running" /\ st.steps[s].ex # 0 /\ <<s, st.steps[s].ex>> \in recs

LogOver(r) == disk[r].status \in Ended
InStep(r) == mem[r] = disk[r]

(* The log knows of the exchange that s follows. *)
Told(s) == disk[RunOf[s]].steps[s] = [status |-> "running", ex |-> id[s]]

(* The loop of r may start a step before the run logs anything more. *)
MayLaunch(r) ==
    \/ loop[r] = "start"
    \/ loop[r] \in Active /\ cause[r] = "none" /\ mem[r].status # "paused"

(* The goroutine of s has an exchange that may still end well, or is on    *)
(* its way to one; when it ends well, a resume will know of it.            *)
Will(s) ==
    \/ pc[s] = "send"
    \/ pc[s] \in {"started", "follow"} /\ x[s] \in {"running", "cancelling"}
    \/ pc[s] \in {"open", "opened", "adopt"} /\ ~Has(mem[RunOf[s]], s)
WillKnow(s) == LogOver(RunOf[s]) \/ IF pc[s] = "follow" THEN Told(s) ELSE InStep(RunOf[s])

(* No exchange of s is to come: the log, with the records, has its result, *)
(* or is about to, or has ended and the loop will not start s again.       *)
Spent(s) ==
    \/ Has(disk[RunOf[s]], s)
    \/ pc[s] = "started" /\ x[s] = "ok" /\ (InStep(RunOf[s]) \/ LogOver(RunOf[s]))
    \/ LogOver(RunOf[s]) /\ ~(MayLaunch(RunOf[s]) /\ ~Has(mem[RunOf[s]], s))

(* How many more exchanges of s can end well if nothing fails from now on. *)
ToCome(s) == IF Will(s) THEN IF WillKnow(s) THEN 1 ELSE 2
                        ELSE IF Spent(s) THEN 0 ELSE 1

(* The inductive invariant.  What a run that may start steps knows of them *)
(* is what its log has, unless that has ended.                             *)
TogetherAt(r) ==
    MayLaunch(r) => mem[r].steps = disk[r].steps /\ (InStep(r) \/ LogOver(r))
Together == \A r \in Runs : TogetherAt(r)

(* An exchange's number is one the harness gave. *)
NumberedAt(s) ==
    /\ disk[RunOf[s]].steps[s].ex <= sends[s]
    /\ mem[RunOf[s]].steps[s].ex <= sends[s]
    /\ id[s] <= sends[s]
Numbered ==
    /\ \A s \in Steps : NumberedAt(s)
    /\ \A c \in Callers : call[c].pc \in {"newRun", "cappend"} =>
         \A s \in StepsOf(call[c].run) : call[c].seen.steps[s].ex <= sends[s]

(* A step sends when its result is nowhere, and follows an exchange the    *)
(* log knows of, or in a run that stops.                                   *)
FreshAt(s) ==
    LET r == RunOf[s] IN
    /\ pc[s] \in {"send", "started"} => ~Has(mem[r], s)
    /\ pc[s] = "started" => mem[r].steps[s].ex < id[s] /\ (x[s] = "ok" => <<s, id[s]>> \in recs)
    /\ pc[s] \in {"started", "follow"} => id[s] # 0
    /\ pc[s] = "follow" => Told(s) \/ (cause[r] # "none" /\ loop[r] # "start")
Fresh == \A s \in Steps : FreshAt(s)

Ran(s) == {p \in recs : p[1] = s}
Budget ==
    /\ IsFiniteSet(recs)
    /\ \A s \in Steps : Cardinality(Ran(s)) + ToCome(s) <= 1 + crashes + faults

OnceInv == Together /\ Numbered /\ Fresh /\ Budget

-----------------------------------------------------------------------------
(* Steps that leave s as it is.                                            *)

(* What a step may do around s without its goroutine. *)
CalmAt(s) ==
    LET r == RunOf[s] IN
    /\ pc'[s] = pc[s] /\ x'[s] = x[s] /\ id'[s] = id[s]
    /\ \A i : <<s, i>> \in recs' <=> <<s, i>> \in recs
    /\ disk'[r].steps[s] = disk[r].steps[s]
    /\ pc[s] \notin Releasing =>
         /\ mem'[r].steps[s] = mem[r].steps[s]
         /\ cause[r] # "none" => cause'[r] # "none"
         /\ InStep(r) => InStep(r)' \/ LogOver(r)' \/ faults' = faults + 1
    /\ LogOver(r) /\ MayLaunch(r)' => MayLaunch(r) /\ mem'[r].steps[s] = mem[r].steps[s]
    /\ loop'[r] = "start" => loop[r] = "start" \/ cause[r] = "none"

(* What the step does to the counters, and to the ends of the logs. *)
Counting ==
    /\ faults' \in {faults, faults + 1}
    /\ crashes' = crashes
    /\ \A r \in Runs : LogOver(r) => LogOver(r)'

(* Every exchange more is paid for by a crash or a fault. *)
Affords(s) ==
    \/ ToCome(s)' <= ToCome(s) /\ crashes' + faults' >= crashes + faults
    \/ ToCome(s)' <= ToCome(s) + 1 /\ crashes' + faults' >= crashes + faults + 1

LEMMA ToComeIs ==
  ASSUME NEW s \in Steps
  PROVE  /\ ToCome(s) \in 0 .. 2 /\ (Will(s) => ToCome(s) \in 1 .. 2) /\ (~Will(s) => ToCome(s) \in 0 .. 1)
         /\ ToCome(s)' \in 0 .. 2 /\ (~Will(s)' => ToCome(s)' \in 0 .. 1)
         /\ (Will(s)' => ToCome(s)' \in 1 .. 2)
BY DEF ToCome

LEMMA NoMore ==
  ASSUME NEW s \in Steps,
         Will(s)' => Will(s) /\ (WillKnow(s) => WillKnow(s)'),
         ~Will(s) /\ ~Will(s)' /\ Spent(s) => Spent(s)'
  PROVE  ToCome(s)' <= ToCome(s)
BY DEF ToCome

LEMMA OneMore ==
  ASSUME NEW s \in Steps, Will(s)' => Will(s)
  PROVE  ToCome(s)' <= ToCome(s) + 1
BY DEF ToCome

LEMMA CalmAffords ==
  ASSUME TypeOK, NEW s \in Steps, CalmAt(s), Counting
  PROVE  Affords(s)
<1> DEFINE r == RunOf[s]
<1>0. r \in Runs
  BY RunOfAssumption
<1>1. /\ Has(disk[r], s)' <=> Has(disk[r], s)
      /\ mem'[r].steps[s] = mem[r].steps[s] => (Has(mem[r], s)' <=> Has(mem[r], s))
      /\ Told(s)' <=> Told(s)
  BY DEF CalmAt, Has, Told
<1>2. pc[s] \in Releasing => ~Will(s) /\ ~Will(s)' /\ pc[s] # "started"
  BY DEF CalmAt, Releasing, Will
<1>3. pc[s] \notin Releasing => (Will(s)' <=> Will(s))
  BY <1>1 DEF CalmAt, Will
<1>4. LogOver(r) => LogOver(r)'
  BY <1>0 DEF Counting
<1>5. LogOver(r) /\ ~(MayLaunch(r) /\ ~Has(mem[r], s)) => ~(MayLaunch(r)' /\ ~Has(mem[r], s)')
  BY <1>1 DEF CalmAt
<1>6. CASE faults' = faults
  <2>1. faults \in Nat
    BY BoundsAssumption DEF TypeOK
  <2>2. pc[s] \notin Releasing => (InStep(r) => InStep(r)' \/ LogOver(r)')
    BY <1>6, <2>1 DEF CalmAt
  <2>3. WillKnow(s) /\ pc[s] \notin Releasing => WillKnow(s)'
    BY <1>1, <1>4, <2>2 DEF WillKnow, CalmAt
  <2>4. Spent(s) => Spent(s)'
    BY <1>1, <1>2, <1>4, <1>5, <2>2 DEF Spent, CalmAt
  <2>5. ToCome(s)' <= ToCome(s)
    BY <1>2, <1>3, <2>3, <2>4, NoMore
  <2> QED
    BY <1>6, <2>5, BoundsAssumption DEF Counting, Affords, TypeOK
<1>7. CASE faults' = faults + 1
  <2>1. ToCome(s)' <= ToCome(s) + 1
    BY <1>2, <1>3, OneMore
  <2> QED
    BY <1>7, <2>1, BoundsAssumption DEF Counting, Affords, TypeOK
<1> QED
  BY <1>6, <1>7 DEF Counting

LEMMA CalmFresh ==
  ASSUME NEW s \in Steps, FreshAt(s), CalmAt(s)
  PROVE  FreshAt(s)'
<1> DEFINE r == RunOf[s]
<1>1. CASE pc[s] \in Releasing
  BY <1>1 DEF CalmAt, Releasing, FreshAt
<1>2. CASE pc[s] \notin Releasing
  <2>1. /\ pc'[s] = pc[s] /\ x'[s] = x[s] /\ id'[s] = id[s]
        /\ mem'[r].steps[s] = mem[r].steps[s]
        /\ \A i : <<s, i>> \in recs' <=> <<s, i>> \in recs
    BY <1>2 DEF CalmAt
  <2>2. Has(mem[r], s)' <=> Has(mem[r], s)
    BY <2>1 DEF Has
  <2>3. Told(s)' <=> Told(s)
    BY <2>1 DEF CalmAt, Told
  <2>4. cause[r] # "none" /\ loop[r] # "start" => cause'[r] # "none" /\ loop'[r] # "start"
    BY <1>2 DEF CalmAt
  <2> QED
    BY <2>1, <2>2, <2>3, <2>4 DEF FreshAt
<1> QED
  BY <1>1, <1>2

LEMMA SameCalm ==
  ASSUME NEW s \in Steps, pc'[s] = pc[s], x'[s] = x[s], id'[s] = id[s],
         \A i : <<s, i>> \in recs' <=> <<s, i>> \in recs,
         disk'[RunOf[s]] = disk[RunOf[s]], mem'[RunOf[s]] = mem[RunOf[s]],
         loop'[RunOf[s]] = loop[RunOf[s]],
         cause[RunOf[s]] # "none" => cause'[RunOf[s]] # "none"
  PROVE  CalmAt(s)
BY DEF CalmAt, InStep, LogOver, MayLaunch

(* run.log, with what it does to the context of the run. *)
Tries(r, e) == (Logged(r, e) /\ UNCHANGED cause) \/ (NotLogged(r, e) /\ LogFailed(r, e))

(* An append to the log of r leaves calm the steps it is not about. *)
LEMMA AppendCalm ==
  ASSUME TypeOK, LogInv, NEW r \in Runs, NEW e, Tries(r, e),
         loop'[r] = "start" => loop[r] = "start", loop'[r] \in Active => loop[r] \in Active,
         \A q \in Runs \ {r} : loop'[q] = loop[q],
         NEW s \in Steps, pc'[s] = pc[s], x'[s] = x[s], id'[s] = id[s], recs' = recs,
         \A st \in State : Apply(st, e).steps[s] = st.steps[s]
  PROVE  CalmAt(s)
<1>0. /\ RunOf[s] \in Runs /\ disk[r] \in State /\ mem[r] \in State
      /\ disk \in [Runs -> State] /\ mem \in [Runs -> State] /\ cause \in [Runs -> Cause]
      /\ faults \in Nat
  BY RunOfAssumption, BoundsAssumption DEF TypeOK
<1>1. \A q \in Runs \ {r} : disk'[q] = disk[q] /\ mem'[q] = mem[q] /\ cause'[q] = cause[q]
  <2>1. CASE Logged(r, e) /\ UNCHANGED cause
    BY <1>0, <2>1 DEF Logged
  <2>2. CASE NotLogged(r, e) /\ LogFailed(r, e)
    BY <1>0, <2>2 DEF NotLogged, Fault, LogFailed
  <2> QED
    BY <2>1, <2>2 DEF Tries
<1>2. CASE RunOf[s] # r
  BY <1>0, <1>1, <1>2, SameCalm
<1>3. CASE RunOf[s] = r
  <2>1. cause[r] # "none" => cause'[r] # "none"
    <3>1. CASE NotLogged(r, e) /\ LogFailed(r, e)
      BY <1>0, <3>1 DEF LogFailed, First
    <3> QED
      BY <3>1 DEF Tries
  <2>2. Follows(mem[r], e) /\ mem[r].seq = disk[r].seq => InStep(r) /\ ~LogOver(r)
    <3>1. ASSUME Follows(mem[r], e), mem[r].seq = disk[r].seq PROVE InStep(r) /\ ~LogOver(r)
      <4>1. mem[r] = disk[r]
        BY <3>1 DEF LogInv, MemBehind, Behind
      <4>2. disk[r].seq = 0 => disk[r].status = "none"
        BY DEF LogInv, ZeroIsEmpty, Empty
      <4> QED
        BY <3>1, <4>1, <4>2 DEF Follows, InStep, LogOver, Ended
    <3> QED
      BY <3>1
  <2>3. /\ mem'[r].steps[s] = mem[r].steps[s] /\ disk'[r].steps[s] = disk[r].steps[s]
        /\ InStep(r) => InStep(r)' \/ LogOver(r)' \/ faults' = faults + 1
        /\ LogOver(r) => mem'[r] = mem[r]
    <3>1. CASE Logged(r, e)
      <4>1. mem[r] = disk[r] /\ ~LogOver(r)
        BY <2>2, <3>1 DEF Logged, InStep
      <4>2. disk'[r] = Apply(disk[r], e) /\ mem'[r] = Apply(mem[r], e)
        BY <1>0, <3>1 DEF Logged
      <4> QED
        BY <1>0, <4>1, <4>2 DEF InStep
    <3>2. CASE NotLogged(r, e) /\ Follows(mem[r], e) /\ mem[r].seq = disk[r].seq
      <4>1. mem' = mem /\ faults' = faults + 1 /\ disk'[r] \in {disk[r], Apply(disk[r], e)}
        BY <1>0, <3>2 DEF NotLogged, Fault
      <4> QED
        BY <1>0, <2>2, <3>2, <4>1
    <3>3. CASE NotLogged(r, e) /\ ~(Follows(mem[r], e) /\ mem[r].seq = disk[r].seq)
      <4>1. mem' = mem /\ disk' = disk
        BY <3>3 DEF NotLogged
      <4> QED
        BY <4>1 DEF InStep
    <3> QED
      BY <3>1, <3>2, <3>3 DEF Tries
  <2>4. LogOver(r) /\ MayLaunch(r)' => MayLaunch(r)
    BY <2>1, <2>3 DEF MayLaunch
  <2> QED
    BY <1>3, <2>1, <2>3, <2>4 DEF CalmAt
<1> QED
  BY <1>2, <1>3

(* What a step's goroutine does leaves the other steps calm. *)
LEMMA StepSplit ==
  ASSUME TypeOK, NEW s \in Steps, StepNext(s)
  PROVE  \/ UNCHANGED logVars
         \/ \E e : /\ OwnEvent(s, e) /\ Tries(RunOf[s], e)
                   /\ e.kind \in {"step_started", "step_ended"} =>
                       e.ex \in {id[s], mem[RunOf[s]].steps[s].ex}
<1> DEFINE r == RunOf[s]
<1>0. id[s] \in Nat /\ till[s] \in Nat /\ mem[r].steps[s].ex \in Nat
  BY RunOfAssumption DEF TypeOK, State
<1>1. CASE LogOpened(s)
  <2> DEFINE e == SessionOpened(Sess[s])
  <2>1. OwnEvent(s, e) /\ Tries(r, e) /\ e.kind = "session_opened"
    BY <1>1 DEF LogOpened, OwnEvent, Tries, SessionOpened
  <2> QED
    BY <2>1
<1>2. CASE Adopt(s)
  <2> DEFINE e == StepEnded(s, mem[r].steps[s].ex, "done")
  <2>1. OwnEvent(s, e) /\ e.ex = mem[r].steps[s].ex
    BY <1>0 DEF OwnEvent, StepEnded, Ended
  <2>2. UNCHANGED logVars \/ Tries(r, e)
    BY <1>2 DEF Adopt, Tries
  <2> QED
    BY <2>1, <2>2
<1>3. CASE LogStarted(s)
  <2> DEFINE e == StepStarted(s, id[s])
  <2>1. OwnEvent(s, e) /\ Tries(r, e) /\ e.ex = id[s]
    BY <1>0, <1>3 DEF LogStarted, OwnEvent, Tries, StepStarted
  <2> QED
    BY <2>1
<1>4. CASE LogEnded(s)
  <2>1. Tries(r, EndEvent(s))
    BY <1>4 DEF LogEnded, Tries
  <2>2. CASE x[s] = "paused"
    <3>1. EndEvent(s) = RunPaused(till[s]) /\ EndEvent(s).kind = "run_paused"
      BY <2>2 DEF EndEvent, RunPaused
    <3> QED
      BY <1>0, <2>1, <3>1 DEF OwnEvent
  <2>3. CASE x[s] \in Ended
    <3>1. EndEvent(s) = StepEnded(s, id[s], x[s]) /\ EndEvent(s).ex = id[s]
      BY <2>3 DEF EndEvent, StepEnded, Ended
    <3> QED
      BY <1>0, <2>1, <2>3, <3>1 DEF OwnEvent
  <2>4. CASE x[s] # "paused" /\ x[s] \notin Ended
    <3>1. ~Follows(mem[r], EndEvent(s))
      BY <2>4 DEF EndEvent, StepEnded, Follows
    <3> QED
      BY <2>1, <3>1 DEF Tries, Logged, NotLogged, logVars
  <2> QED
    BY <2>2, <2>3, <2>4
<1>5. CASE /\ ~LogOpened(s) /\ ~Adopt(s) /\ ~LogStarted(s) /\ ~LogEnded(s)
  BY <1>5 DEF StepNext, OpenSession, Send, Follow, EndInterrupted, EndClassify, Fail, FreeSlot,
              TakeIdle, CloseIdle, Leave
<1> QED
  BY <1>1, <1>2, <1>3, <1>4, <1>5

LEMMA StepFrame ==
  ASSUME TypeOK, NEW s \in Steps, StepNext(s)
  PROVE  /\ \A t \in Steps \ {s} : id'[t] = id[t]
         /\ recs' = recs /\ crashes' = crashes /\ call' = call
         /\ sends' = [sends EXCEPT ![s] = sends'[s]]
<1> USE DEF vars, logVars, worldVars, runVars, envVars, procVars, stepVars
<1>1. CASE \/ OpenSession(s) \/ LogOpened(s) \/ Adopt(s) \/ Send(s) \/ LogStarted(s)
  BY <1>1 DEF TypeOK, EndErr, OpenSession, LogOpened, Adopt, Send, LogStarted
<1>2. CASE \/ Follow(s) \/ EndInterrupted(s) \/ EndClassify(s) \/ LogEnded(s) \/ Fail(s)
           \/ FreeSlot(s) \/ TakeIdle(s) \/ CloseIdle(s) \/ Leave(s)
  BY <1>2 DEF TypeOK, Follow, EndInterrupted, EndClassify, LogEnded, Fail, FreeSlot, TakeIdle,
              CloseIdle, Leave
<1> QED
  BY <1>1, <1>2 DEF StepNext

LEMMA StepCalm ==
  ASSUME TypeOK, LogInv, NEW s \in Steps, StepNext(s), NEW t \in Steps \ {s}
  PROVE  CalmAt(t)
<1>1. /\ pc'[t] = pc[t] /\ x'[t] = x[t] /\ loop' = loop /\ loop[RunOf[s]] # "start"
      /\ \A q \in Runs : cause[q] # "none" => cause'[q] # "none"
  BY StepOwn, StepCauses
<1>2. id'[t] = id[t] /\ recs' = recs
  BY StepFrame
<1>3. RunOf[s] \in Runs /\ RunOf[t] \in Runs
  BY RunOfAssumption
<1>4. CASE UNCHANGED logVars
  BY <1>1, <1>2, <1>3, <1>4, SameCalm DEF logVars
<1>5. ASSUME NEW e, OwnEvent(s, e), Tries(RunOf[s], e) PROVE CalmAt(t)
  <2>1. \A st \in State : Apply(st, e).steps[t] = st.steps[t]
    BY <1>5, Keeps1 DEF Keeping
  <2> QED
    BY <1>1, <1>2, <1>3, <1>5, <2>1, AppendCalm
<1>6. UNCHANGED logVars \/ \E e : OwnEvent(s, e) /\ Tries(RunOf[s], e)
  BY StepSplit
<1> QED
  BY <1>4, <1>5, <1>6

-----------------------------------------------------------------------------
(* A goroutine's own moves: what it does to its own step.                  *)

(* A move that logs nothing and makes no work. *)
LEMMA QuietMove ==
  ASSUME TypeOK, NEW s \in Steps, recs' = recs, disk' = disk, mem' = mem, loop' = loop,
         \A q \in Runs : cause[q] # "none" => cause'[q] # "none",
         Will(s)' => Will(s), pc[s] # "follow" \/ ~Will(s)', pc'[s] # "follow",
         pc[s] = "started" /\ x[s] = "ok" => pc'[s] = "started" /\ x'[s] = "ok"
  PROVE  ToCome(s)' <= ToCome(s)
<1> DEFINE r == RunOf[s]
<1>0. r \in Runs
  BY RunOfAssumption
<1>1. /\ Has(disk[r], s)' <=> Has(disk[r], s)
      /\ Has(mem[r], s)' <=> Has(mem[r], s)
      /\ InStep(r)' <=> InStep(r)
      /\ LogOver(r)' <=> LogOver(r)
      /\ MayLaunch(r)' => MayLaunch(r)
  BY <1>0 DEF Has, InStep, LogOver, MayLaunch
<1>2. Will(s)' /\ WillKnow(s) => WillKnow(s)'
  BY <1>1 DEF WillKnow
<1>3. Spent(s) => Spent(s)'
  BY <1>1 DEF Spent
<1> QED
  BY <1>2, <1>3, NoMore

(* An event about s, or one that its goroutine logs on the way. *)
LEMMA TriesOwn ==
  ASSUME TypeOK, LogInv, NEW s \in Steps, NEW e, e \in Event, Tries(RunOf[s], e)
  PROVE  LET r == RunOf[s] IN
         \/ /\ InStep(r) /\ ~LogOver(r) /\ disk'[r] = Apply(disk[r], e) /\ mem'[r] = disk'[r]
            /\ faults' = faults /\ Logged(r, e)
         \/ faults' = faults + 1 /\ mem' = mem /\ cause'[r] # "none"
         \/ /\ faults' = faults /\ mem' = mem /\ disk' = disk
            /\ cause[r] # "none" => cause'[r] # "none"
            /\ Follows(mem[r], e) => cause'[r] # "none" /\ ~InStep(r)
<1> DEFINE r == RunOf[s]
<1>0. /\ r \in Runs /\ disk[r] \in State /\ mem[r] \in State
      /\ disk \in [Runs -> State] /\ mem \in [Runs -> State] /\ cause \in [Runs -> Cause]
  BY RunOfAssumption DEF TypeOK
<1>1. CASE Logged(r, e)
  <2>1. mem[r] = disk[r]
    BY <1>0, <1>1 DEF Logged, LogInv, MemBehind, Behind
  <2>2. ~LogOver(r)
    <3>1. disk[r].seq = 0 => disk[r].status = "none"
      BY <1>0 DEF LogInv, ZeroIsEmpty, Empty
    <3> QED
      BY <1>1, <2>1, <3>1 DEF Logged, Follows, LogOver, Ended
  <2> QED
    BY <1>0, <1>1, <2>1, <2>2 DEF Logged, InStep
<1>2. CASE NotLogged(r, e) /\ LogFailed(r, e) /\ Follows(mem[r], e) /\ mem[r].seq = disk[r].seq
  BY <1>0, <1>2 DEF NotLogged, Fault, LogFailed, First
<1>3. CASE NotLogged(r, e) /\ LogFailed(r, e) /\ ~(Follows(mem[r], e) /\ mem[r].seq = disk[r].seq)
  <2>1. mem' = mem /\ disk' = disk /\ faults' = faults
    BY <1>3 DEF NotLogged
  <2>2. /\ cause[r] # "none" => cause'[r] # "none"
        /\ Follows(mem[r], e) => cause'[r] # "none"
    BY <1>0, <1>3 DEF LogFailed, First
  <2>3. Follows(mem[r], e) => ~InStep(r)
    BY <1>3 DEF InStep
  <2> QED
    BY <2>1, <2>2, <2>3
<1> QED
  BY <1>1, <1>2, <1>3 DEF Tries

(* The goroutine's moves that log nothing. *)
LEMMA MoveAffords ==
  ASSUME TypeOK, ExclusionInv, NEW s \in Steps, StepNext(s),
         ~LogOpened(s), ~Adopt(s), ~LogStarted(s), ~LogEnded(s)
  PROVE  ToCome(s)' <= ToCome(s)
<1> USE DEF logVars, worldVars, runVars, envVars, ctxVars, loopVars, stepVars
<1>0. recs' = recs /\ loop' = loop /\ \A q \in Runs : cause[q] # "none" => cause'[q] # "none"
  BY StepOwn, StepFrame, StepCauses
<1>1. CASE OpenSession(s)
  <2>1. /\ disk' = disk /\ mem' = mem /\ pc[s] = "open"
        /\ pc'[s] \in {"adopt", "opened", "end"}
    BY <1>1 DEF OpenSession, To, EndErr, TypeOK
  <2>2. Has(mem[RunOf[s]], s)' <=> Has(mem[RunOf[s]], s)
    BY <1>0, <2>1 DEF Has
  <2>3. Will(s)' => Will(s)
    BY <2>1, <2>2 DEF Will
  <2> QED
    BY <1>0, <2>1, <2>3, QuietMove
<1>2. CASE Send(s)
  <2>1. /\ disk' = disk /\ mem' = mem /\ pc[s] = "send"
        /\ pc'[s] \in {"started", "end"}
    BY <1>2 DEF Send, To, EndErr, TypeOK
  <2>2. Will(s)
    BY <2>1 DEF Will
  <2> QED
    BY <1>0, <2>1, <2>2, QuietMove
<1>3. CASE Follow(s)
  <2>1. /\ disk' = disk /\ mem' = mem /\ pc[s] = "follow" /\ pc'[s] = "end"
        /\ x[s] \notin {"running", "cancelling"}
    BY <1>3 DEF Follow, To, TypeOK
  <2>2. ~Will(s) /\ ~Will(s)'
    BY <2>1 DEF Will
  <2> QED
    BY <1>0, <2>1, <2>2, QuietMove
<1>4. CASE \/ EndInterrupted(s) \/ EndClassify(s) \/ Fail(s) \/ FreeSlot(s) \/ TakeIdle(s)
           \/ CloseIdle(s) \/ Leave(s)
  <2>1. /\ disk' = disk /\ mem' = mem
        /\ pc[s] \in {"end", "classify", "fail", "free", "idle", "closing", "leave"}
        /\ pc'[s] \in {"classify", "log", "free", "idle", "closing", "leave", "none"}
    BY <1>4 DEF EndInterrupted, EndClassify, Fail, FreeSlot, TakeIdle, CloseIdle, Leave, To, TypeOK
  <2>2. ~Will(s) /\ ~Will(s)'
    BY <2>1 DEF Will
  <2> QED
    BY <1>0, <2>1, <2>2, QuietMove
<1> QED
  BY <1>1, <1>2, <1>3, <1>4 DEF StepNext

(* A step that is at work has an event of its own accepted, if the log has *)
(* no more of them than the run.                                           *)
LEMMA WorkFollows ==
  ASSUME WorkInv, NEW s \in Steps, pc[s] \in Working
  PROVE  /\ \A i : Follows(mem[RunOf[s]], StepStarted(s, i))
         /\ mem[RunOf[s]].steps[s].status \notin Ended
BY DEF WorkInv, AtWork, Going, Live, Follows, StepStarted, Ended

Owns(s) ==
    \/ ToCome(s)' <= ToCome(s) /\ faults' >= faults
    \/ ToCome(s)' <= ToCome(s) + 1 /\ faults' >= faults + 1

(* An append of the goroutine after which its step has no work. *)
LEMMA TriesLate ==
  ASSUME TypeOK, LogInv, NEW s \in Steps, NEW e, e \in Event, Tries(RunOf[s], e),
         recs' = recs, loop' = loop, ~Will(s)', pc[s] # "started",
         Logged(RunOf[s], e) =>
           Has(disk[RunOf[s]], s)' \/ disk'[RunOf[s]].steps[s] = disk[RunOf[s]].steps[s]
  PROVE  Owns(s)
<1> DEFINE r == RunOf[s]
<1>0. r \in Runs /\ faults \in Nat
  BY RunOfAssumption, BoundsAssumption DEF TypeOK
<1>1. CASE InStep(r) /\ ~LogOver(r) /\ Logged(r, e) /\ faults' = faults
  <2>1. Spent(s) => Has(disk[r], s)
    BY <1>1 DEF Spent
  <2>2. Has(disk[r], s) => Has(disk[r], s)'
    BY <1>1 DEF Has
  <2>3. Spent(s) => Spent(s)'
    BY <2>1, <2>2 DEF Spent
  <2> QED
    BY <1>0, <1>1, <2>3, NoMore DEF Owns
<1>2. CASE faults' = faults + 1
  BY <1>0, <1>2, OneMore DEF Owns
<1>3. CASE /\ faults' = faults /\ mem' = mem /\ disk' = disk
           /\ cause[r] # "none" => cause'[r] # "none"
  <2>1. /\ Has(disk[r], s)' <=> Has(disk[r], s)
        /\ Has(mem[r], s)' <=> Has(mem[r], s)
        /\ LogOver(r)' <=> LogOver(r)
        /\ MayLaunch(r)' => MayLaunch(r)
    BY <1>3 DEF Has, LogOver, MayLaunch
  <2>2. Spent(s) => Spent(s)'
    BY <2>1 DEF Spent
  <2> QED
    BY <1>0, <1>3, <2>2, NoMore DEF Owns
<1> QED
  BY <1>1, <1>2, <1>3, TriesOwn

LEMMA OpenedAffords ==
  ASSUME TypeOK, LogInv, NEW s \in Steps, StepNext(s), LogOpened(s)
  PROVE  Owns(s)
<1> DEFINE r == RunOf[s]
<1> DEFINE e == SessionOpened(Sess[s])
<1>0. /\ r \in Runs /\ faults \in Nat /\ e \in Event
      /\ recs' = recs /\ loop' = loop /\ pc[s] = "opened"
  BY RunOfAssumption, SessAssumption, BoundsAssumption, StepFrame, StepOwn
     DEF TypeOK, Event, LogOpened
<1>1. \A st \in State : Apply(st, e).steps = st.steps
  BY RunEventIs
<1>2. CASE Logged(r, e) /\ To(s, "adopt") /\ UNCHANGED cause
  <2>1. /\ InStep(r) /\ ~LogOver(r) /\ disk'[r] = Apply(disk[r], e) /\ mem'[r] = disk'[r]
        /\ faults' = faults
    <3>1. mem[r] = disk[r] /\ disk'[r] = Apply(disk[r], e) /\ mem'[r] = Apply(mem[r], e)
          /\ faults' = faults
      BY <1>0, <1>2 DEF Logged, TypeOK, LogInv, MemBehind, Behind
    <3>2. disk[r].status \notin Ended
      BY <1>2, <3>1 DEF Logged, Follows, SessionOpened
    <3> QED
      BY <3>1, <3>2 DEF InStep, LogOver
  <2>2. disk'[r].steps = disk[r].steps /\ mem'[r].steps = mem[r].steps
    BY <1>0, <1>1, <2>1 DEF TypeOK, InStep
  <2>3. /\ Has(disk[r], s)' <=> Has(disk[r], s)
        /\ Has(mem[r], s)' <=> Has(mem[r], s)
    BY <1>0, <2>2 DEF Has
  <2>4. pc'[s] = "adopt"
    BY <1>2 DEF To, TypeOK
  <2>5. Will(s)' => Will(s)
    BY <1>0, <2>3, <2>4 DEF Will
  <2>6. WillKnow(s)'
    BY <2>1, <2>4 DEF WillKnow, InStep
  <2>7. Spent(s) => Spent(s)'
    BY <1>0, <2>1, <2>3 DEF Spent
  <2> QED
    BY <1>0, <2>1, <2>5, <2>6, <2>7, NoMore DEF Owns
<1>3. CASE NotLogged(r, e) /\ LogFailed(r, e) /\ EndErr(s, 0)
  <2>1. mem' = mem /\ pc'[s] = "end"
    BY <1>3 DEF NotLogged, EndErr, To, TypeOK
  <2>2. ~Will(s)' /\ Tries(r, e)
    BY <1>3, <2>1 DEF Will, Tries
  <2>3. Logged(r, e) => disk'[r].steps[s] = disk[r].steps[s]
    BY <1>0, <1>1 DEF Logged, TypeOK
  <2> HIDE DEF e
  <2> QED
    BY <1>0, <2>2, <2>3, TriesLate
<1> QED
  BY <1>2, <1>3 DEF LogOpened

LEMMA AdoptAffords ==
  ASSUME TypeOK, LogInv, WorkInv, NEW s \in Steps, StepNext(s), Adopt(s)
  PROVE  Owns(s)
<1> DEFINE r == RunOf[s]
<1> DEFINE prior == mem[r].steps[s]
<1> DEFINE known == prior.status = "running" /\ prior.ex # 0
<1> DEFINE e == StepEnded(s, prior.ex, "done")
<1>0. /\ r \in Runs /\ faults \in Nat /\ prior.ex \in Nat
      /\ recs' = recs /\ loop' = loop /\ pc[s] = "adopt"
      /\ \A q \in Runs : cause[q] # "none" => cause'[q] # "none"
  <2>1. r \in Runs /\ faults \in Nat /\ prior.ex \in Nat
    BY RunOfAssumption, BoundsAssumption DEF TypeOK, State
  <2>2. pc[s] = "adopt"
    BY DEF Adopt
  <2> QED
    BY <2>1, <2>2, StepFrame, StepOwn, StepCauses
<1>1. CASE EndErr(s, prior.ex) /\ UNCHANGED <<logVars, cause>>
  <2>1. disk' = disk /\ mem' = mem /\ pc'[s] = "end" /\ faults' = faults
    BY <1>1 DEF logVars, EndErr, To, TypeOK
  <2>2. ~Will(s)'
    BY <2>1 DEF Will
  <2> QED
    BY <1>0, <2>1, <2>2, QuietMove DEF Owns
<1>2. CASE Tries(r, e) /\ pc'[s] \in {"free", "end"}
  <2>1. ~Will(s)' /\ e \in Event
    BY <1>0, <1>2 DEF Will, Event, Ended
  <2>2. Logged(r, e) => Has(disk[r], s)'
    <3>1. SUFFICES ASSUME Logged(r, e) PROVE Has(disk[r], s)'
      OBVIOUS
    <3>2. disk'[r] = Apply(disk[r], e) /\ disk[r] \in State
      BY <1>0, <3>1 DEF Logged, TypeOK
    <3>3. disk'[r].steps[s].status = "done"
      BY <3>2, StepEndedIs
    <3> QED
      BY <3>3 DEF Has, Ended
  <2> HIDE DEF e
  <2> QED
    BY <1>0, <1>2, <2>1, <2>2, TriesLate
<1>3. CASE ~(known /\ <<s, prior.ex>> \in recs) /\ To(s, "send") /\ UNCHANGED <<logVars, cause>>
  <2>1. disk' = disk /\ mem' = mem /\ pc'[s] = "send" /\ faults' = faults
    BY <1>3 DEF logVars, To, TypeOK
  <2>2. ~Has(mem[r], s)
    BY <1>0, <1>3, WorkFollows DEF Has, Working
  <2>3. Will(s)
    BY <1>0, <2>2 DEF Will
  <2> QED
    BY <1>0, <2>1, <2>3, QuietMove DEF Owns
<1>4. \/ EndErr(s, prior.ex) /\ UNCHANGED <<logVars, cause>>
      \/ Logged(r, e) /\ To(s, "free") /\ UNCHANGED cause
      \/ NotLogged(r, e) /\ LogFailed(r, e) /\ EndErr(s, prior.ex)
      \/ ~(known /\ <<s, prior.ex>> \in recs) /\ To(s, "send") /\ UNCHANGED <<logVars, cause>>
  BY DEF Adopt
<1>5. /\ To(s, "free") => pc'[s] = "free"
      /\ EndErr(s, prior.ex) => pc'[s] = "end"
  BY DEF To, EndErr, TypeOK
<1> QED
  BY <1>1, <1>2, <1>3, <1>4, <1>5 DEF Tries

LEMMA EndedAffords ==
  ASSUME TypeOK, LogInv, NEW s \in Steps, StepNext(s), LogEnded(s)
  PROVE  Owns(s)
<1> DEFINE r == RunOf[s]
<1> DEFINE e == EndEvent(s)
<1>0. /\ r \in Runs /\ recs' = recs /\ loop' = loop /\ pc[s] = "log"
      /\ id[s] \in Nat /\ till[s] \in Nat /\ faults \in Nat
  BY RunOfAssumption, BoundsAssumption, StepFrame, StepOwn DEF TypeOK, LogEnded
<1>1. pc'[s] \in {"fail", "free"} /\ Tries(r, e)
  BY DEF LogEnded, To, TypeOK, Tries
<1>2. ~Will(s) /\ ~Will(s)'
  BY <1>0, <1>1 DEF Will
<1>3. CASE x[s] = "paused" \/ x[s] \in Ended
  <2>1. e \in Event
    BY <1>0, <1>3 DEF EndEvent, Event
  <2>2. Logged(r, e) => Has(disk[r], s)' \/ disk'[r].steps[s] = disk[r].steps[s]
    <3> SUFFICES ASSUME Logged(r, e)
                 PROVE  Has(disk[r], s)' \/ disk'[r].steps[s] = disk[r].steps[s]
      OBVIOUS
    <3>1. disk'[r] = Apply(disk[r], e) /\ disk[r] \in State
      BY <1>0 DEF Logged, TypeOK
    <3>2. CASE x[s] = "paused"
      BY <3>1, <3>2, RunEventIs DEF EndEvent
    <3>3. CASE x[s] \in Ended
      <4>1. e = StepEnded(s, id[s], x[s])
        BY <3>3 DEF EndEvent, Ended
      <4>2. disk'[r].steps[s].status = x[s]
        BY <3>1, <4>1, StepEndedIs
      <4> QED
        BY <3>3, <4>2 DEF Has
    <3> QED
      BY <1>3, <3>2, <3>3
  <2> HIDE DEF e
  <2> QED
    BY <1>0, <1>1, <1>2, <2>1, <2>2, TriesLate
<1>4. CASE x[s] # "paused" /\ x[s] \notin Ended
  <2>1. ~Follows(mem[r], e)
    BY <1>4 DEF EndEvent, StepEnded, Follows
  <2>2. mem' = mem /\ disk' = disk /\ faults' = faults
    BY <1>1, <2>1 DEF Tries, Logged, NotLogged
  <2>3. \A q \in Runs : cause[q] # "none" => cause'[q] # "none"
    BY StepCauses
  <2>4. ToCome(s)' <= ToCome(s)
    BY <1>0, <1>1, <1>2, <2>2, <2>3, QuietMove
  <2> QED
    BY <1>0, <2>2, <2>4 DEF Owns
<1> QED
  BY <1>3, <1>4

LEMMA StartedAffords ==
  ASSUME TypeOK, LogInv, WorkInv, NEW s \in Steps, FreshAt(s), StepNext(s), LogStarted(s)
  PROVE  Owns(s)
<1> DEFINE r == RunOf[s]
<1> DEFINE e == StepStarted(s, id[s])
<1>0. /\ r \in Runs /\ recs' = recs /\ loop' = loop /\ pc[s] = "started" /\ id'[s] = id[s]
      /\ id[s] \in Nat /\ faults \in Nat /\ pc'[s] = "follow" /\ e \in Event
      /\ disk[r] \in State
  <2>1. r \in Runs /\ id[s] \in Nat /\ faults \in Nat /\ disk[r] \in State
    BY RunOfAssumption, BoundsAssumption DEF TypeOK
  <2>2. pc[s] = "started" /\ pc'[s] = "follow" /\ id' = id
    BY DEF TypeOK, LogStarted, To
  <2>3. e \in Event
    BY <2>1 DEF Event
  <2> QED
    BY <2>1, <2>2, <2>3, StepFrame, StepOwn
<1>1. Follows(mem[r], e) /\ ~Has(mem[r], s) /\ id[s] # 0
  BY <1>0, WorkFollows DEF FreshAt, Working
<1>2. Tries(r, e)
  BY DEF LogStarted, Tries
<1>3. \/ Logged(r, e) /\ x' = x
      \/ NotLogged(r, e) /\ x'[s] = IF x[s] = "running" THEN "cancelling" ELSE x[s]
  BY DEF LogStarted, TypeOK
<1>4. Will(s)' => Will(s)
  BY <1>0, <1>3 DEF Will
<1>5. CASE InStep(r) /\ ~LogOver(r) /\ disk'[r] = Apply(disk[r], e) /\ faults' = faults
           /\ mem'[r] = disk'[r]
  <2>1. disk'[r].steps[s] = [status |-> "running", ex |-> id[s]]
    BY <1>0, <1>5 DEF Apply, Fold, StepStarted, State
  <2>2. WillKnow(s)'
    BY <1>0, <2>1 DEF WillKnow, Told
  <2>3. x'[s] = x[s]
    <3>1. disk'[r] # disk[r]
      BY <1>0, <1>5, ApplyType DEF State
    <3>2. CASE NotLogged(r, e)
      <4>1. mem' = mem
        BY <3>2 DEF NotLogged
      <4> QED
        BY <1>5, <3>1, <4>1 DEF InStep
    <3> QED
      BY <1>3, <3>2
  <2>4. ASSUME Spent(s), ~Will(s) PROVE Spent(s)'
    <3>1. ~Has(disk[r], s)
      BY <1>1, <1>5 DEF InStep
    <3>2. x[s] = "ok"
      BY <1>5, <2>4, <3>1 DEF Spent
    <3>3. <<s, id[s]>> \in recs'
      BY <1>0, <3>2 DEF FreshAt
    <3>4. Has(disk[r], s)'
      BY <1>1, <2>1, <3>3 DEF Has
    <3> QED
      BY <3>4 DEF Spent
  <2>5. ToCome(s)' <= ToCome(s)
    BY <1>4, <2>2, <2>4, NoMore
  <2> QED
    BY <1>0, <1>5, <2>5 DEF Owns
<1>6. CASE faults' = faults + 1
  BY <1>0, <1>4, <1>6, OneMore DEF Owns
<1>7. CASE faults' = faults /\ mem' = mem /\ disk' = disk /\ cause'[r] # "none" /\ ~InStep(r)
  <2>1. /\ Has(disk[r], s)' <=> Has(disk[r], s)
        /\ LogOver(r)' <=> LogOver(r)
    BY <1>0, <1>7 DEF Has, LogOver
  <2>2. ~MayLaunch(r)'
    <3>1. loop[r] # "start"
      BY StepOwn
    <3> QED
      BY <1>0, <1>7, <3>1 DEF MayLaunch
  <2>3. WillKnow(s) => WillKnow(s)'
    BY <1>0, <1>7, <2>1 DEF WillKnow
  <2>4. Spent(s) => Spent(s)'
    BY <1>7, <2>1, <2>2 DEF Spent
  <2>5. ToCome(s)' <= ToCome(s)
    BY <1>4, <2>3, <2>4, NoMore
  <2> QED
    BY <1>0, <1>7, <2>5 DEF Owns
<1>8. \/ InStep(r) /\ ~LogOver(r) /\ disk'[r] = Apply(disk[r], e) /\ faults' = faults
         /\ mem'[r] = disk'[r]
      \/ faults' = faults + 1
      \/ faults' = faults /\ mem' = mem /\ disk' = disk /\ cause'[r] # "none" /\ ~InStep(r)
  <2> HIDE DEF e
  <2> QED
    BY <1>0, <1>1, <1>2, TriesOwn
<1> QED
  BY <1>5, <1>6, <1>7, <1>8

LEMMA StepAffords ==
  ASSUME TypeOK, LogInv, ExclusionInv, WorkInv, Fresh, NEW s \in Steps, StepNext(s)
  PROVE  Owns(s)
<1>1. CASE ~LogOpened(s) /\ ~Adopt(s) /\ ~LogStarted(s) /\ ~LogEnded(s)
  <2>1. ToCome(s)' <= ToCome(s)
    BY <1>1, MoveAffords
  <2>2. faults' = faults /\ faults \in Nat
    BY <1>1, BoundsAssumption
       DEF StepNext, logVars, OpenSession, Send, Follow, EndInterrupted, EndClassify, Fail,
           FreeSlot, TakeIdle, CloseIdle, Leave, TypeOK
  <2> QED
    BY <2>1, <2>2 DEF Owns
<1> QED
  BY <1>1, OpenedAffords, AdoptAffords, StartedAffords, EndedAffords DEF Fresh

LEMMA StepFresh ==
  ASSUME TypeOK, LogInv, WorkInv, Numbered, NEW s \in Steps, FreshAt(s), StepNext(s)
  PROVE  FreshAt(s)'
<1> DEFINE r == RunOf[s]
<1>0. /\ r \in Runs /\ recs' = recs /\ loop' = loop /\ loop[r] # "start"
      /\ sends[s] \in Nat /\ mem[r].steps[s].ex \in Nat
  BY RunOfAssumption, StepFrame, StepOwn DEF TypeOK, State
<1>1. CASE Adopt(s)
  <2>1. pc[s] = "adopt" /\ pc'[s] \in {"end", "free", "send"}
    BY <1>1 DEF Adopt, To, EndErr, TypeOK
  <2>2. pc'[s] = "send" => mem' = mem /\ ~Has(mem[r], s)
    <3>1. SUFFICES ASSUME pc'[s] = "send" PROVE mem' = mem /\ ~Has(mem[r], s)
      OBVIOUS
    <3>2. mem' = mem /\ ~( /\ mem[r].steps[s].status = "running" /\ mem[r].steps[s].ex # 0
                           /\ <<s, mem[r].steps[s].ex>> \in recs)
      BY <1>1, <3>1 DEF Adopt, To, EndErr, TypeOK, logVars
    <3> QED
      BY <2>1, <3>2, WorkFollows DEF Has, Working
  <2>3. pc'[s] = "send" => ~Has(mem[r], s)'
    BY <1>0, <2>2 DEF Has
  <2> QED
    BY <2>1, <2>3 DEF FreshAt
<1>2. CASE Send(s)
  <2>1. mem' = mem /\ pc[s] = "send" /\ pc'[s] \in {"started", "end"}
    BY <1>2 DEF Send, To, EndErr, TypeOK, logVars
  <2>2. pc'[s] = "started" => id'[s] = sends[s] + 1 /\ x'[s] = "running"
    BY <1>2 DEF Send, To, EndErr, TypeOK
  <2>3. ~Has(mem[r], s)'
    BY <1>0, <2>1 DEF FreshAt, Has
  <2>4. mem[r].steps[s].ex <= sends[s]
    BY DEF Numbered, NumberedAt
  <2> QED
    BY <1>0, <2>1, <2>2, <2>3, <2>4 DEF FreshAt
<1>3. CASE LogStarted(s)
  <2> DEFINE e == StepStarted(s, id[s])
  <2>1. pc[s] = "started" /\ pc'[s] = "follow" /\ id' = id /\ id[s] # 0
    BY <1>3 DEF LogStarted, To, TypeOK, FreshAt
  <2>2. Logged(r, e) => Told(s)'
    <3>1. SUFFICES ASSUME Logged(r, e) PROVE Told(s)'
      OBVIOUS
    <3>2. disk'[r] = Apply(disk[r], e) /\ disk[r] \in State
      BY <1>0, <3>1 DEF Logged, TypeOK
    <3>3. disk'[r].steps[s] = [status |-> "running", ex |-> id[s]]
      BY <3>2 DEF Apply, Fold, StepStarted, State
    <3> QED
      BY <2>1, <3>3 DEF Told
  <2>3. NotLogged(r, e) /\ LogFailed(r, e) => cause'[r] # "none"
    <3>1. Follows(mem[r], e)
      BY <2>1, WorkFollows DEF Working
    <3>2. cause \in [Runs -> Cause]
      BY DEF TypeOK
    <3> QED
      BY <1>0, <3>1, <3>2 DEF LogFailed, First
  <2>4. Logged(r, e) \/ (NotLogged(r, e) /\ LogFailed(r, e))
    BY <1>3 DEF LogStarted
  <2> HIDE DEF e
  <2> QED
    BY <1>0, <2>1, <2>2, <2>3, <2>4 DEF FreshAt
<1>4. CASE ~Adopt(s) /\ ~Send(s) /\ ~LogStarted(s)
  <2>1. pc'[s] \notin {"send", "started", "follow"}
    <3>1. CASE OpenSession(s) \/ LogOpened(s)
      BY <3>1 DEF OpenSession, LogOpened, To, EndErr, TypeOK
    <3>2. CASE \/ Follow(s) \/ EndInterrupted(s) \/ EndClassify(s) \/ LogEnded(s) \/ Fail(s)
               \/ FreeSlot(s) \/ TakeIdle(s) \/ CloseIdle(s) \/ Leave(s)
      BY <3>2 DEF Follow, EndInterrupted, EndClassify, LogEnded, Fail, FreeSlot, TakeIdle,
                  CloseIdle, Leave, To, TypeOK
    <3> QED
      BY <1>4, <3>1, <3>2 DEF StepNext
  <2> QED
    BY <2>1 DEF FreshAt
<1> QED
  BY <1>1, <1>2, <1>3, <1>4

-----------------------------------------------------------------------------
(* An exchange ends.                                                       *)

LEMMA RanFinite ==
  ASSUME IsFiniteSet(recs), NEW s \in Steps
  PROVE  IsFiniteSet(Ran(s)) /\ Cardinality(Ran(s)) \in Nat
<1>1. Ran(s) \in SUBSET recs
  BY DEF Ran
<1> QED
  BY <1>1, FS_Subset, FS_CardinalityType

LEMMA ExchangeFrame ==
  ASSUME TypeOK, NEW s \in Steps, ExchangeEnds(s)
  PROVE  /\ x[s] \in {"running", "cancelling"} /\ x'[s] \in {"ok", "err", "limit", "aborted"}
         /\ \A t \in Steps \ {s} : x'[t] = x[t]
         /\ recs' = IF x'[s] = "ok" THEN recs \cup {<<s, id[s]>>} ELSE recs
         /\ UNCHANGED <<disk, mem, faults, crashes, cause, loop, pc, id, sends, call>>
BY DEF ExchangeEnds, TypeOK, logVars, procVars, ctxVars, loopVars

LEMMA ExchangeSpends ==
  ASSUME TypeOK, ExclusionInv, NEW s \in Steps, FreshAt(s), ExchangeEnds(s), IsFiniteSet(recs)
  PROVE  Cardinality(Ran(s))' + ToCome(s)' <= Cardinality(Ran(s)) + ToCome(s)
<1> DEFINE r == RunOf[s]
<1>0. /\ r \in Runs /\ pc[s] \in {"started", "follow"}
      /\ Will(s) /\ ~Will(s)'
      /\ Cardinality(Ran(s)) \in Nat /\ IsFiniteSet(Ran(s))
  <2>1. pc[s] \in {"started", "follow"}
    BY ExchangeFrame DEF ExclusionInv, SentOnly, Exchanging
  <2> QED
    BY <2>1, RunOfAssumption, ExchangeFrame, RanFinite DEF Will
<1>1. CASE x'[s] # "ok"
  <2>1. Ran(s)' = Ran(s)
    BY <1>1, ExchangeFrame DEF Ran
  <2> QED
    BY <1>0, <2>1, ToComeIs
<1>2. CASE x'[s] = "ok"
  <2>1. Ran(s)' = Ran(s) \cup {<<s, id[s]>>}
    BY <1>2, ExchangeFrame DEF Ran
  <2>2. Cardinality(Ran(s))' \in Nat /\ Cardinality(Ran(s))' <= Cardinality(Ran(s)) + 1
    <3>1. PICK R, p : R = Ran(s) /\ p = <<s, id[s]>>
      OBVIOUS
    <3>2. Cardinality(R \cup {p}) = IF p \in R THEN Cardinality(R) ELSE Cardinality(R) + 1
      BY <1>0, <3>1, FS_AddElement
    <3>3. Cardinality(Ran(s))' = Cardinality(R \cup {p})
      BY <2>1, <3>1
    <3> QED
      BY <1>0, <3>1, <3>2, <3>3
  <2>3. WillKnow(s) => Spent(s)'
    <3>1. pc' = pc /\ disk' = disk /\ mem' = mem /\ id' = id /\ loop' = loop /\ cause' = cause
          /\ recs' = recs \cup {<<s, id[s]>>}
      BY <1>2, ExchangeFrame
    <3>2. LogOver(r)' = LogOver(r) /\ InStep(r)' = InStep(r) /\ MayLaunch(r)' = MayLaunch(r)
      BY <3>1 DEF LogOver, InStep, MayLaunch
    <3>3. CASE pc[s] = "started"
      BY <1>2, <3>1, <3>2, <3>3 DEF WillKnow, Spent
    <3>4. CASE pc[s] = "follow" /\ Told(s)
      <4>1. Has(disk[r], s)'
        BY <3>1, <3>4 DEF Has, Told, FreshAt
      <4> QED
        BY <4>1 DEF Spent
    <3>5. CASE pc[s] = "follow" /\ ~Told(s)
      <4>1. ~MayLaunch(r)
        BY <3>5 DEF FreshAt, MayLaunch
      <4> QED
        BY <3>2, <3>5, <4>1 DEF WillKnow, Spent
    <3> QED
      BY <1>0, <3>3, <3>4, <3>5
  <2>4. ToCome(s)' + 1 <= ToCome(s)
    BY <1>0, <2>3 DEF ToCome
  <2> QED
    BY <1>0, <2>2, <2>4, ToComeIs
<1> QED
  BY <1>1, <1>2

LEMMA ExchangeFresh ==
  ASSUME TypeOK, ExclusionInv, NEW s \in Steps, FreshAt(s), ExchangeEnds(s)
  PROVE  FreshAt(s)'
<1> DEFINE r == RunOf[s]
<1>1. /\ r \in Runs /\ id[s] \in Nat /\ mem[r].steps[s].ex \in Nat
      /\ pc' = pc /\ disk' = disk /\ mem' = mem /\ id' = id /\ loop' = loop /\ cause' = cause
      /\ recs' = IF x'[s] = "ok" THEN recs \cup {<<s, id[s]>>} ELSE recs
      /\ pc[s] \in {"started", "follow"}
  BY RunOfAssumption, ExchangeFrame DEF TypeOK, State, ExclusionInv, SentOnly, Exchanging
<1>2. CASE pc[s] = "started"
  <2>1. ~Has(mem[r], s) /\ mem[r].steps[s].ex < id[s] /\ id[s] # 0
    BY <1>2 DEF FreshAt
  <2>2. ~Has(mem[r], s)'
    BY <1>1, <2>1 DEF Has
  <2> QED
    BY <1>1, <1>2, <2>1, <2>2 DEF FreshAt
<1>3. CASE pc[s] = "follow"
  <2>1. Told(s)' <=> Told(s)
    BY <1>1 DEF Told
  <2> QED
    BY <1>1, <1>3, <2>1 DEF FreshAt
<1> QED
  BY <1>1, <1>2, <1>3

-----------------------------------------------------------------------------
(* The loops.                                                              *)

(* A step that is done with its work is calm whatever its run does. *)
LEMMA RestCalm ==
  ASSUME NEW s \in Steps, pc[s] \in Releasing, pc'[s] = pc[s], x'[s] = x[s], id'[s] = id[s],
         recs' = recs, disk'[RunOf[s]].steps[s] = disk[RunOf[s]].steps[s],
         ~(LogOver(RunOf[s]) /\ MayLaunch(RunOf[s])'), loop'[RunOf[s]] # "start"
  PROVE  CalmAt(s)
BY DEF CalmAt

(* A loop goes on without an append. *)
LEMMA LoopMoveCalm ==
  ASSUME TypeOK, NEW r \in Runs, disk' = disk, mem' = mem, recs' = recs,
         \A q \in Runs : cause[q] # "none" => cause'[q] # "none",
         \A q \in Runs \ {r} : loop'[q] = loop[q],
         MayLaunch(r)' => MayLaunch(r),
         loop'[r] = "start" => loop[r] = "start" \/ cause[r] = "none",
         NEW s \in Steps, pc'[s] = pc[s], x'[s] = x[s], id'[s] = id[s]
  PROVE  CalmAt(s)
<1>0. RunOf[s] \in Runs
  BY RunOfAssumption
<1>1. CASE RunOf[s] # r
  BY <1>0, <1>1, SameCalm
<1>2. CASE RunOf[s] = r
  BY <1>0, <1>2 DEF CalmAt, InStep
<1> QED
  BY <1>1, <1>2

(* A run that is cleared has no step at work. *)
LEMMA ClearedCalm ==
  ASSUME TypeOK, WorkInv, NEW r \in Runs, NEW p \in {"off", "new"}, NEW st, Cleared(r, p, st),
         loop[r] \in {"off", "new", "forget"}, recs' = recs,
         \A q \in Runs \ {r} : disk'[q] = disk[q], \A t \in Steps : disk'[r].steps[t] = disk[r].steps[t],
         NEW s \in Steps, pc'[s] = pc[s], x'[s] = x[s], id'[s] = id[s]
  PROVE  CalmAt(s)
<1>0. /\ RunOf[s] \in Runs /\ loop'[r] = p
      /\ \A q \in Runs \ {r} : loop'[q] = loop[q] /\ mem'[q] = mem[q] /\ cause'[q] = cause[q]
  BY RunOfAssumption, ClearedAll
<1>1. CASE RunOf[s] # r
  BY <1>0, <1>1, SameCalm
<1>2. CASE RunOf[s] = r
  <2>1. pc[s] \in Releasing
    BY <1>2 DEF WorkInv, Quiet, Over, StepsOf
  <2>2. ~MayLaunch(r)' /\ loop'[r] # "start"
    BY <1>0 DEF MayLaunch, Active
  <2> QED
    BY <1>2, <2>1, <2>2, RestCalm
<1> QED
  BY <1>1, <1>2

LEMMA LoopFrame ==
  ASSUME TypeOK, NEW r \in Runs, LoopNext(r)
  PROVE  /\ recs' = recs /\ sends' = sends /\ crashes' = crashes /\ x' = x /\ id' = id
         /\ call' = call /\ (pc' = pc \/ LoopLaunch(r))
         /\ \A q \in Runs \ {r} : loop'[q] = loop[q] /\ mem'[q] = mem[q]
<1> USE DEF vars, logVars, worldVars, runVars, envVars, procVars, stepVars
<1>1. \A q \in Runs \ {r} : loop'[q] = loop[q] /\ mem'[q] = mem[q]
  BY LoopOwn
<1>2. CASE \/ LoopStopping(r) \/ LoopDone(r) \/ LoopPaused(r) \/ LoopLaunch(r) \/ LoopWait(r)
           \/ Wake(r) \/ Interrupt(r)
  BY <1>1, <1>2 DEF LoopStopping, LoopDone, LoopPaused, LoopLaunch, LoopWait, Wake, Interrupt
<1>3. CASE \/ LogResumed(r) \/ LogDone(r) \/ LogEnd(r) \/ Finish(r) \/ CloseSessions(r) \/ Forget(r)
  BY <1>1, <1>3 DEF LogResumed, LogDone, LogEnd, Finish, CloseSessions, Forget
<1> QED
  BY <1>2, <1>3 DEF LoopNext

(* A loop's move keeps the logs, or appends an event of the run, or is its *)
(* last.                                                                   *)
LEMMA LoopSplit ==
  ASSUME TypeOK, NEW r \in Runs, LoopNext(r)
  PROVE  \/ /\ disk' = disk /\ mem' = mem
            /\ \A q \in Runs : cause[q] # "none" => cause'[q] # "none"
            /\ MayLaunch(r)' => MayLaunch(r)
            /\ loop'[r] = "start" => loop[r] = "start" \/ cause[r] = "none"
         \/ /\ \/ Tries(r, RunResumed) \/ Tries(r, RunEnded("done"))
               \/ Tries(r, RunEnded("failed")) \/ Tries(r, RunEnded("cancelled"))
            /\ loop[r] \in Active /\ loop'[r] # "start"
         \/ Cleared(r, "off", Empty) /\ disk' = disk /\ loop[r] = "forget"
<1> USE DEF logVars, ctxVars
<1>0. loop \in [Runs -> LoopPC] /\ cause \in [Runs -> Cause]
  BY DEF TypeOK
<1>1. CASE \/ LoopStopping(r) \/ LoopDone(r) \/ LoopPaused(r) \/ LoopWait(r) \/ Wake(r)
           \/ Interrupt(r)
  <2>1. /\ disk' = disk /\ mem' = mem /\ cause' = cause
        /\ loop'[r] # "start" \/ loop'[r] = loop[r]
        /\ loop[r] \in Active
    BY <1>0, <1>1 DEF LoopStopping, LoopDone, LoopPaused, LoopWait, LoopReady, Wake, Interrupt, Go,
                      Active
  <2>2. MayLaunch(r)' => MayLaunch(r)
    BY <2>1 DEF MayLaunch
  <2> QED
    BY <2>1, <2>2
<1>2. CASE LoopLaunch(r)
  <2>1. /\ disk' = disk /\ mem' = mem /\ cause' = cause
        /\ loop[r] = "start" \/ (loop[r] = "eval" /\ cause[r] = "none" /\ mem[r].status # "paused")
    BY <1>2 DEF LoopLaunch, LoopReady, Stopping
  <2>2. MayLaunch(r)
    BY <2>1 DEF MayLaunch, Active
  <2> QED
    BY <2>1, <2>2
<1>3. CASE LogResumed(r)
  <2>1. Tries(r, RunResumed) /\ loop[r] = "logResume" /\ loop'[r] = "eval"
    BY <1>0, <1>3 DEF LogResumed, Tries, Go
  <2> QED
    BY <2>1 DEF Active
<1>4. CASE LogDone(r)
  <2>1. Tries(r, RunEnded("done")) /\ loop[r] = "logDone" /\ loop'[r] = "finish"
    BY <1>0, <1>4 DEF LogDone, LogRunEnded, Tries, Go
  <2> QED
    BY <2>1 DEF Active
<1>5. CASE LogEnd(r)
  <2>1. loop[r] = "logEnd" /\ loop'[r] = "finish"
    BY <1>0, <1>5 DEF LogEnd, LogRunEnded, Go
  <2>2. \/ disk' = disk /\ mem' = mem /\ cause' = cause
        \/ Tries(r, RunEnded("failed")) \/ Tries(r, RunEnded("cancelled"))
    BY <1>5 DEF LogEnd, LogRunEnded, Tries
  <2>3. ~MayLaunch(r)'
    BY <2>1 DEF MayLaunch, Active
  <2> QED
    BY <2>1, <2>2, <2>3 DEF Active
<1>6. CASE Finish(r) \/ CloseSessions(r)
  <2>1. /\ disk' = disk /\ mem' = mem /\ loop'[r] \in {"closing", "forget"}
        /\ \A q \in Runs : cause[q] # "none" => cause'[q] # "none"
    BY <1>0, <1>6 DEF Finish, CloseSessions, Go, First
  <2>2. ~MayLaunch(r)'
    BY <2>1 DEF MayLaunch, Active
  <2> QED
    BY <2>1, <2>2
<1>7. CASE Forget(r)
  BY <1>7 DEF Forget
<1> QED
  BY <1>1, <1>2, <1>3, <1>4, <1>5, <1>6, <1>7 DEF LoopNext

LEMMA LoopCalm ==
  ASSUME TypeOK, LogInv, WorkInv, NEW r \in Runs, LoopNext(r), NEW s \in Steps, pc'[s] = pc[s]
  PROVE  CalmAt(s)
<1>0. /\ recs' = recs /\ x' = x /\ id' = id
      /\ \A q \in Runs \ {r} : loop'[q] = loop[q]
  BY LoopFrame
<1>1. CASE /\ disk' = disk /\ mem' = mem
           /\ \A q \in Runs : cause[q] # "none" => cause'[q] # "none"
           /\ MayLaunch(r)' => MayLaunch(r)
           /\ loop'[r] = "start" => loop[r] = "start" \/ cause[r] = "none"
  BY <1>0, <1>1, LoopMoveCalm
<1>2. ASSUME NEW e, e \in {RunResumed, RunEnded("done"), RunEnded("failed"), RunEnded("cancelled")},
             Tries(r, e), loop[r] \in Active, loop'[r] # "start"
      PROVE  CalmAt(s)
  <2>1. \A st \in State : Apply(st, e).steps[s] = st.steps[s]
    BY <1>2, RunEventIs
  <2> QED
    BY <1>0, <1>2, <2>1, AppendCalm
<1>3. CASE Cleared(r, "off", Empty) /\ disk' = disk /\ loop[r] = "forget"
  BY <1>0, <1>3, ClearedCalm
<1> QED
  BY <1>1, <1>2, <1>3, LoopSplit

(* The step that a loop starts has not been done, for all the loop knows,  *)
(* which is all there is to know.                                          *)
LEMMA LaunchOwns ==
  ASSUME TypeOK, Together, NEW r \in Runs, LoopLaunch(r), NEW s \in Steps, pc'[s] # pc[s]
  PROVE  ToCome(s)' <= ToCome(s) /\ FreshAt(s)'
<1>1. /\ RunOf[s] = r /\ pc[s] = "none" /\ pc'[s] = "open"
      /\ UNCHANGED <<disk, mem, cause, recs, x, id>>
  BY DEF LoopLaunch, FirstReady, Ready, Startable, Inflight, StepsOf, To, TypeOK, logVars, envVars,
         ctxVars
<1>2. loop'[r] = "start" /\ MayLaunch(r)
  BY DEF LoopLaunch, LoopReady, Stopping, Go, MayLaunch, Active, TypeOK
<1>3. mem[r].steps = disk[r].steps /\ (InStep(r) \/ LogOver(r))
  BY <1>2 DEF Together, TogetherAt
<1>4. /\ Has(mem[r], s) <=> Has(disk[r], s)
      /\ Has(mem[r], s)' <=> Has(mem[r], s)
      /\ Has(disk[r], s)' <=> Has(disk[r], s)
  BY <1>1, <1>3 DEF Has
<1>5. CASE Has(disk[r], s)
  <2>1. ~Will(s)' /\ ~Will(s) /\ Spent(s)'
    BY <1>1, <1>4, <1>5 DEF Will, Spent
  <2> QED
    BY <1>1, <2>1, NoMore DEF FreshAt
<1>6. CASE ~Has(disk[r], s)
  <2>1. ~Will(s) /\ ~Spent(s)
    BY <1>1, <1>2, <1>4, <1>6 DEF Will, Spent
  <2>2. WillKnow(s)'
    BY <1>1, <1>3 DEF WillKnow, InStep, LogOver
  <2>3. ToCome(s) = 1 /\ ToCome(s)' <= 1
    BY <2>1, <2>2 DEF ToCome
  <2> QED
    BY <1>1, <2>3, ToComeIs DEF FreshAt
<1> QED
  BY <1>5, <1>6

-----------------------------------------------------------------------------
(* The calls and the process.                                              *)

(* A run that is registered and not launched has no step at work. *)
LEMMA FromNew ==
  ASSUME TypeOK, WorkInv, NEW r \in Runs, loop[r] = "new", loop'[r] # "start", recs' = recs,
         \A q \in Runs \ {r} : /\ disk'[q] = disk[q] /\ mem'[q] = mem[q] /\ loop'[q] = loop[q]
                               /\ cause'[q] = cause[q],
         disk'[r].steps = disk[r].steps, ~(LogOver(r) /\ MayLaunch(r)'),
         NEW s \in Steps, pc'[s] = pc[s], x'[s] = x[s], id'[s] = id[s]
  PROVE  CalmAt(s)
<1>0. RunOf[s] \in Runs
  BY RunOfAssumption
<1>1. CASE RunOf[s] # r
  BY <1>0, <1>1, SameCalm
<1>2. CASE RunOf[s] = r
  <2>1. pc[s] \in Releasing
    BY <1>2 DEF WorkInv, Quiet, Over, StepsOf
  <2> QED
    BY <1>2, <2>1, RestCalm
<1> QED
  BY <1>1, <1>2

LEMMA CallFrame ==
  ASSUME NEW c \in Callers, NEW r \in Runs,
         CallNext(c) \/ Start(c, r) \/ Resume(c, r) \/ Cancel(c, r)
  PROVE  UNCHANGED <<pc, x, id, recs, sends, crashes>>
<1> USE DEF worldVars, envVars, procVars, stepVars
<1>1. CASE CallNext(c)
  BY <1>1 DEF CallNext, StartLog, ReadLog, ResumeNew, ResumeLaunch, CancelAppend
<1>2. CASE Start(c, r) \/ Resume(c, r) \/ Cancel(c, r)
  BY <1>2 DEF Start, Resume, Cancel
<1> QED
  BY <1>1, <1>2

LEMMA StartLogCalm ==
  ASSUME TypeOK, LogInv, WorkInv, CallInv, NEW c \in Callers, StartLog(c), NEW s \in Steps
  PROVE  CalmAt(s)
<1>0. UNCHANGED <<pc, x, id, recs>>
  BY CallFrame, RunsAssumption DEF CallNext
<1>1. PICK r \in Runs : r = call[c].run
  BY DEF TypeOK, Call
<1>2. /\ disk[r] = Empty /\ (disk' = disk \/ Appended(r, RunStarted))
      /\ loop[r] = "new"
  BY <1>1, StartExtends DEF CallInv, OnePending, Pending, StartLog
<1>3. disk'[r].steps = disk[r].steps /\ \A q \in Runs \ {r} : disk'[q] = disk[q]
  <2>1. CASE disk' = disk
    BY <2>1
  <2>2. CASE Appended(r, RunStarted)
    <3>1. disk \in [Runs -> State] /\ disk' = [disk EXCEPT ![r] = Apply(@, RunStarted)]
      BY <2>2 DEF Appended, TypeOK
    <3>2. disk'[r] = Apply(disk[r], RunStarted) /\ \A q \in Runs \ {r} : disk'[q] = disk[q]
      BY <3>1
    <3> QED
      BY <1>2, <3>1, <3>2, RunEventIs
  <2> QED
    BY <1>2, <2>1, <2>2
<1>4. ~LogOver(r)
  BY <1>2 DEF LogOver, Empty, Ended
<1>5. /\ loop'[r] # "start"
      /\ \A q \in Runs \ {r} : mem'[q] = mem[q] /\ loop'[q] = loop[q] /\ cause'[q] = cause[q]
  <2>1. CASE Logged(r, RunStarted) /\ Go(r, "eval") /\ UNCHANGED cause
    BY <2>1 DEF Logged, Go, TypeOK
  <2>2. CASE Cleared(r, "off", Empty)
    BY <2>2, ClearedAll
  <2> QED
    BY <1>1, <2>1, <2>2 DEF StartLog, ctxVars
<1> QED
  BY <1>0, <1>2, <1>3, <1>4, <1>5, FromNew

LEMMA ResumeLaunchCalm ==
  ASSUME TypeOK, LogInv, WorkInv, CallInv, NEW c \in Callers, ResumeLaunch(c), NEW s \in Steps
  PROVE  CalmAt(s)
<1>0. UNCHANGED <<pc, x, id, recs>>
  BY CallFrame, RunsAssumption DEF CallNext
<1>1. PICK r \in Runs : r = call[c].run
  BY DEF TypeOK, Call
<1>2. loop[r] = "new" /\ Live(mem[r]) /\ disk[r] \in State /\ mem[r] \in State
  BY <1>1 DEF CallInv, OnePending, Pending, Settlers, ResumeLaunch, TypeOK
<1>3. CASE Cleared(r, "off", Empty) /\ (Fault(r, RunResumed) \/ UNCHANGED <<disk, faults>>)
  <2>1. disk'[r].steps = disk[r].steps /\ \A q \in Runs \ {r} : disk'[q] = disk[q]
    BY <1>2, <1>3, RunEventIs DEF Fault, TypeOK
  <2> QED
    BY <1>0, <1>2, <1>3, <2>1, ClearedCalm
<1>4. CASE Go(r, "eval") /\ (UNCHANGED logVars \/ Logged(r, RunResumed))
           /\ (mem[r].status = "paused" \/ Logged(r, RunResumed))
           /\ \A q \in Runs \ {r} : cause'[q] = cause[q]
  <2>1. /\ disk'[r].steps = disk[r].steps /\ loop'[r] = "eval"
        /\ \A q \in Runs \ {r} : disk'[q] = disk[q] /\ mem'[q] = mem[q] /\ loop'[q] = loop[q]
    BY <1>2, <1>4, RunEventIs DEF Logged, Go, TypeOK, logVars
  <2>2. ~(LogOver(r) /\ MayLaunch(r)')
    <3>1. CASE Logged(r, RunResumed)
      <4>1. mem[r] = disk[r]
        BY <3>1 DEF Logged, LogInv, MemBehind, Behind
      <4> QED
        BY <1>2, <4>1 DEF LogOver, Live
    <3>2. CASE UNCHANGED logVars /\ mem[r].status = "paused"
      BY <2>1, <3>2 DEF MayLaunch, logVars
    <3> QED
      BY <1>4, <3>1, <3>2
  <2> QED
    BY <1>0, <1>2, <1>4, <2>1, <2>2, FromNew
<1> QED
  BY <1>1, <1>3, <1>4 DEF ResumeLaunch, TypeOK

LEMMA CancelAppendCalm ==
  ASSUME TypeOK, NEW c \in Callers, CancelAppend(c), NEW s \in Steps
  PROVE  CalmAt(s)
<1>0. UNCHANGED <<pc, x, id, recs>>
  BY CallFrame, RunsAssumption DEF CallNext
<1>1. PICK r \in Runs : r = call[c].run
  BY DEF TypeOK, Call
<1> DEFINE e == RunEnded("cancelled")
<1>2. mem' = mem /\ loop' = loop /\ cause' = cause
  BY DEF CancelAppend, runVars, ctxVars, loopVars
<1>3. disk' = disk \/ disk' = [disk EXCEPT ![r] = Apply(@, e)]
  BY <1>1 DEF CancelAppend, Fault
<1>4. /\ \A q \in Runs \ {r} : disk'[q] = disk[q]
      /\ disk'[r].steps = disk[r].steps /\ (disk'[r] = disk[r] \/ LogOver(r)')
  <2>1. CASE disk' = disk
    BY <2>1
  <2>2. CASE disk' = [disk EXCEPT ![r] = Apply(@, e)]
    <3>1. /\ \A q \in Runs \ {r} : disk'[q] = disk[q]
          /\ disk'[r] = Apply(disk[r], e) /\ disk[r] \in State
      BY <2>2 DEF TypeOK
    <3>2. disk'[r].steps = disk[r].steps /\ disk'[r].status = "cancelled"
      BY <3>1, RunEventIs
    <3> QED
      BY <3>1, <3>2 DEF LogOver, Ended
  <2> QED
    BY <1>3, <2>1, <2>2
<1>5. RunOf[s] \in Runs
  BY RunOfAssumption
<1>6. CASE RunOf[s] # r
  BY <1>0, <1>2, <1>4, <1>5, <1>6, SameCalm
<1>7. CASE RunOf[s] = r
  <2>1. InStep(r) => InStep(r)' \/ LogOver(r)'
    BY <1>2, <1>4 DEF InStep
  <2>2. MayLaunch(r)' <=> MayLaunch(r)
    BY <1>2 DEF MayLaunch
  <2> QED
    BY <1>0, <1>2, <1>4, <1>7, <2>1, <2>2 DEF CalmAt
<1> QED
  BY <1>6, <1>7

LEMMA CallCalm ==
  ASSUME TypeOK, LogInv, WorkInv, CallInv, NEW c \in Callers, CallNext(c), NEW s \in Steps
  PROVE  CalmAt(s)
<1>0. UNCHANGED <<pc, x, id, recs>>
  BY CallFrame, RunsAssumption
<1>1. CASE ReadLog(c)
  <2>1. UNCHANGED <<disk, mem, loop, cause>>
    BY <1>1 DEF ReadLog, logVars, runVars, ctxVars, loopVars
  <2> QED
    BY <1>0, <2>1, SameCalm
<1>2. CASE ResumeNew(c)
  <2>1. PICK r \in Runs : r = call[c].run
    BY DEF TypeOK, Call
  <2>2. disk' = disk
    BY <1>2 DEF ResumeNew
  <2>3. \/ UNCHANGED <<mem, loop, cause>>
        \/ Cleared(r, "new", call[c].seen) /\ loop[r] = "off"
    BY <1>2, <2>1 DEF ResumeNew, NewRun, Registered, ctxVars, loopVars
  <2>4. CASE UNCHANGED <<mem, loop, cause>>
    BY <1>0, <2>2, <2>4, SameCalm
  <2>5. CASE Cleared(r, "new", call[c].seen) /\ loop[r] = "off"
    BY <1>0, <2>2, <2>5, ClearedCalm
  <2> QED
    BY <2>3, <2>4, <2>5
<1> QED
  BY <1>1, <1>2, StartLogCalm, ResumeLaunchCalm, CancelAppendCalm DEF CallNext

LEMMA BeginCalm ==
  ASSUME TypeOK, WorkInv, NEW c \in Callers, NEW r \in Runs,
         Start(c, r) \/ Resume(c, r) \/ Cancel(c, r), NEW s \in Steps
  PROVE  CalmAt(s)
<1>0. UNCHANGED <<pc, x, id, recs>> /\ disk' = disk
  <2>1. disk' = disk
    BY DEF Start, Resume, Cancel, logVars
  <2> QED
    BY <2>1, CallFrame
<1>1. CASE Start(c, r)
  <2>1. \/ UNCHANGED <<mem, loop, cause>>
        \/ Cleared(r, "new", Empty) /\ loop[r] = "off"
    BY <1>1 DEF Start, NewRun, Registered, ctxVars, loopVars
  <2>2. CASE UNCHANGED <<mem, loop, cause>>
    BY <1>0, <2>2, SameCalm
  <2>3. CASE Cleared(r, "new", Empty) /\ loop[r] = "off"
    BY <1>0, <2>3, ClearedCalm
  <2> QED
    BY <2>1, <2>2, <2>3
<1>2. CASE Resume(c, r)
  <2>1. UNCHANGED <<mem, loop, cause>>
    BY <1>2 DEF Resume, logVars, runVars, ctxVars, loopVars
  <2> QED
    BY <1>0, <2>1, SameCalm
<1>3. CASE Cancel(c, r)
  <2>1. /\ UNCHANGED <<mem, loop>>
        /\ \A q \in Runs : cause[q] # "none" => cause'[q] # "none"
    BY <1>3 DEF Cancel, logVars, loopVars, First, TypeOK
  <2> QED
    BY <1>0, <2>1, RunOfAssumption, SameCalm
<1> QED
  BY <1>1, <1>2, <1>3

LEMMA EnvCalm ==
  ASSUME TypeOK, Shutdown \/ Tick \/ UNCHANGED vars, NEW s \in Steps
  PROVE  CalmAt(s)
<1>1. /\ UNCHANGED <<pc, x, id, recs, disk, mem, loop>>
      /\ \A q \in Runs : cause[q] # "none" => cause'[q] # "none"
  <2>1. CASE Shutdown
    BY <2>1 DEF Shutdown, logVars, envVars, loopVars, stepVars, First, TypeOK
  <2>2. CASE Tick \/ UNCHANGED vars
    BY <2>2 DEF Tick, vars, logVars, worldVars, envVars, runVars, ctxVars, loopVars, stepVars
  <2> QED
    BY <2>1, <2>2
<1> QED
  BY <1>1, RunOfAssumption, SameCalm

LEMMA NewProcessSpends ==
  ASSUME NewProcess, NEW s \in Steps
  PROVE  /\ ~Will(s)' /\ FreshAt(s)'
         /\ (~Will(s) /\ pc[s] # "started" => ToCome(s)' <= ToCome(s))
         /\ ToCome(s)' <= ToCome(s) + 1
<1> DEFINE r == RunOf[s]
<1>0. /\ pc'[s] = "none" /\ recs' = recs /\ disk' = disk /\ r \in Runs /\ loop'[r] = "off"
  BY RunOfAssumption DEF NewProcess, envVars
<1>1. ~Will(s)'
  BY <1>0 DEF Will
<1>2. pc[s] # "started" /\ Spent(s) => Spent(s)'
  <2>1. /\ Has(disk[r], s)' <=> Has(disk[r], s)
        /\ LogOver(r)' <=> LogOver(r)
        /\ ~MayLaunch(r)'
    BY <1>0 DEF Has, LogOver, MayLaunch, Active
  <2> QED
    BY <2>1 DEF Spent
<1> QED
  BY <1>0, <1>1, <1>2, NoMore, OneMore DEF FreshAt

-----------------------------------------------------------------------------
(* The inductive invariant stays.                                          *)

LEMMA TogetherSame ==
  ASSUME NEW r \in Runs, TogetherAt(r), disk'[r] = disk[r], mem'[r] = mem[r],
         MayLaunch(r)' => MayLaunch(r)
  PROVE  TogetherAt(r)'
BY DEF TogetherAt, InStep, LogOver

LEMMA TogetherTries ==
  ASSUME TypeOK, LogInv, NEW r \in Runs, TogetherAt(r), NEW e, Tries(r, e),
         loop'[r] # "start", loop'[r] \in Active => loop[r] \in Active
  PROVE  TogetherAt(r)'
<1>1. cause'[r] = "none" => mem'[r] = disk'[r] \/ (mem'[r] = mem[r] /\ disk'[r] = disk[r])
  BY AppendKnows DEF Tries
<1>2. cause'[r] = "none" => cause[r] = "none"
  <2>1. CASE NotLogged(r, e) /\ LogFailed(r, e)
    <3>1. cause \in [Runs -> Cause]
      BY DEF TypeOK
    <3> QED
      BY <2>1, <3>1 DEF LogFailed, First
  <2> QED
    BY <2>1 DEF Tries
<1>3. CASE ~MayLaunch(r)'
  BY <1>3 DEF TogetherAt
<1>4. CASE MayLaunch(r)' /\ mem'[r] = disk'[r]
  BY <1>4 DEF TogetherAt, InStep
<1>5. CASE MayLaunch(r)' /\ mem'[r] = mem[r] /\ disk'[r] = disk[r]
  <2>1. MayLaunch(r)
    BY <1>2, <1>5 DEF MayLaunch
  <2> QED
    BY <1>5, <2>1, TogetherSame
<1> QED
  BY <1>1, <1>3, <1>4, <1>5 DEF MayLaunch

(* One run's step leaves the others as they are. *)
LEMMA TogetherOthers ==
  ASSUME Together, NEW r \in Runs, TogetherAt(r)',
         \A q \in Runs \ {r} : /\ disk'[q] = disk[q] /\ mem'[q] = mem[q] /\ loop'[q] = loop[q]
                               /\ cause[q] # "none" => cause'[q] # "none"
  PROVE  Together'
<1>1. ASSUME NEW q \in Runs \ {r} PROVE TogetherAt(q)'
  <2>1. MayLaunch(q)' => MayLaunch(q)
    BY DEF MayLaunch
  <2> QED
    BY <2>1, TogetherSame DEF Together
<1> QED
  BY <1>1 DEF Together

LEMMA TriesElsewhere ==
  ASSUME TypeOK, NEW r \in Runs, NEW e, Tries(r, e)
  PROVE  \A q \in Runs \ {r} : disk'[q] = disk[q] /\ mem'[q] = mem[q] /\ cause'[q] = cause[q]
<1>1. disk \in [Runs -> State] /\ mem \in [Runs -> State] /\ cause \in [Runs -> Cause]
  BY DEF TypeOK
<1>2. CASE Logged(r, e) /\ UNCHANGED cause
  BY <1>1, <1>2 DEF Logged
<1>3. CASE NotLogged(r, e) /\ LogFailed(r, e)
  BY <1>1, <1>3 DEF NotLogged, Fault, LogFailed
<1> QED
  BY <1>2, <1>3 DEF Tries

LEMMA StepTogether ==
  ASSUME TypeOK, LogInv, Together, NEW s \in Steps, StepNext(s)
  PROVE  Together'
<1> DEFINE r == RunOf[s]
<1>0. /\ r \in Runs /\ loop' = loop /\ loop[r] # "start"
      /\ \A q \in Runs : cause[q] # "none" => cause'[q] # "none"
  BY RunOfAssumption, StepOwn, StepCauses
<1>1. CASE UNCHANGED logVars
  <2>1. TogetherAt(r)'
    BY <1>0, <1>1, TogetherSame DEF logVars, MayLaunch, Together
  <2> QED
    BY <1>0, <1>1, <2>1, TogetherOthers DEF logVars
<1>2. ASSUME NEW e, Tries(r, e) PROVE Together'
  <2>1. TogetherAt(r)'
    BY <1>0, <1>2, TogetherTries DEF Together
  <2> QED
    BY <1>0, <1>2, <2>1, TriesElsewhere, TogetherOthers
<1>3. UNCHANGED logVars \/ \E e : Tries(r, e)
  BY StepSplit
<1> QED
  BY <1>1, <1>2, <1>3

LEMMA LoopTogether ==
  ASSUME TypeOK, LogInv, Together, NEW r \in Runs, LoopNext(r)
  PROVE  Together'
<1>0. \A q \in Runs \ {r} : loop'[q] = loop[q]
  BY LoopFrame
<1>1. CASE /\ disk' = disk /\ mem' = mem /\ (MayLaunch(r)' => MayLaunch(r))
           /\ \A q \in Runs : cause[q] # "none" => cause'[q] # "none"
  <2>1. TogetherAt(r)'
    BY <1>1, TogetherSame DEF Together
  <2> QED
    BY <1>0, <1>1, <2>1, TogetherOthers
<1>2. ASSUME NEW e, Tries(r, e), loop[r] \in Active, loop'[r] # "start" PROVE Together'
  <2>1. TogetherAt(r)'
    BY <1>2, TogetherTries DEF Together
  <2> QED
    BY <1>0, <1>2, <2>1, TriesElsewhere, TogetherOthers
<1>3. CASE Cleared(r, "off", Empty) /\ disk' = disk
  <2>1. loop'[r] = "off" /\ \A q \in Runs \ {r} : mem'[q] = mem[q] /\ cause'[q] = cause[q]
    BY <1>3, ClearedAll
  <2>2. TogetherAt(r)'
    BY <2>1 DEF TogetherAt, MayLaunch, Active
  <2> QED
    BY <1>0, <1>3, <2>1, <2>2, TogetherOthers
<1> QED
  BY <1>1, <1>2, <1>3, LoopSplit

LEMMA CallTogether ==
  ASSUME TypeOK, LogInv, CallInv, Together, NEW c \in Callers, CallNext(c)
  PROVE  Together'
<1>1. PICK r \in Runs : r = call[c].run
  BY DEF TypeOK, Call
<1>2. ASSUME NEW p \in {"off", "new"}, NEW st, Cleared(r, p, st),
             \A q \in Runs \ {r} : disk'[q] = disk[q]
      PROVE  Together'
  <2>1. loop'[r] = p /\ \A q \in Runs \ {r} : /\ mem'[q] = mem[q] /\ cause'[q] = cause[q]
                                              /\ loop'[q] = loop[q]
    BY <1>2, ClearedAll
  <2>2. TogetherAt(r)'
    BY <2>1 DEF TogetherAt, MayLaunch, Active
  <2> QED
    BY <1>2, <2>1, <2>2, TogetherOthers
<1>3. ASSUME NEW e, Logged(r, e), Go(r, "eval"), \A q \in Runs \ {r} : cause'[q] = cause[q]
      PROVE  Together'
  <2>1. /\ \A q \in Runs \ {r} : disk'[q] = disk[q] /\ mem'[q] = mem[q] /\ loop'[q] = loop[q]
        /\ mem'[r] = disk'[r]
    BY <1>3 DEF Logged, Go, TypeOK, LogInv, MemBehind, Behind
  <2>2. TogetherAt(r)'
    BY <2>1 DEF TogetherAt, InStep
  <2> QED
    BY <1>3, <2>1, <2>2, TogetherOthers
<1>4. CASE StartLog(c)
  <2>1. CASE Logged(r, RunStarted) /\ Go(r, "eval") /\ UNCHANGED cause
    BY <1>3, <2>1
  <2>2. CASE Fault(r, RunStarted) /\ Cleared(r, "off", Empty)
    BY <1>2, <2>2 DEF Fault, TypeOK
  <2> QED
    BY <1>1, <1>4, <2>1, <2>2 DEF StartLog, ctxVars
<1>5. CASE ReadLog(c)
  BY <1>5, TogetherSame DEF ReadLog, logVars, runVars, ctxVars, loopVars, MayLaunch, Together
<1>6. CASE ResumeNew(c)
  <2>1. CASE Cleared(r, "new", call[c].seen)
    BY <1>2, <1>6, <2>1 DEF ResumeNew
  <2>2. CASE UNCHANGED <<mem, ctxVars, loopVars>>
    BY <1>6, <2>2, TogetherSame DEF ResumeNew, ctxVars, loopVars, MayLaunch, Together
  <2> QED
    BY <1>1, <1>6, <2>1, <2>2 DEF ResumeNew, NewRun
<1>7. CASE ResumeLaunch(c)
  <2>1. CASE Cleared(r, "off", Empty) /\ (Fault(r, RunResumed) \/ UNCHANGED <<disk, faults>>)
    BY <1>2, <2>1 DEF Fault, TypeOK
  <2>2. CASE Logged(r, RunResumed) /\ Go(r, "eval") /\ \A q \in Runs \ {r} : cause'[q] = cause[q]
    BY <1>3, <2>2
  <2>3. CASE mem[r].status = "paused" /\ UNCHANGED logVars /\ Go(r, "eval")
             /\ \A q \in Runs \ {r} : cause'[q] = cause[q]
    <3>1. /\ disk' = disk /\ mem' = mem /\ loop'[r] = "eval"
          /\ \A q \in Runs \ {r} : loop'[q] = loop[q]
      BY <2>3 DEF logVars, Go, TypeOK
    <3>2. TogetherAt(r)'
      BY <2>3, <3>1 DEF TogetherAt, MayLaunch
    <3> QED
      BY <2>3, <3>1, <3>2, TogetherOthers
  <2> QED
    BY <1>1, <1>7, <2>1, <2>2, <2>3 DEF ResumeLaunch, TypeOK
<1>8. CASE CancelAppend(c)
  <2> DEFINE e == RunEnded("cancelled")
  <2>1. mem' = mem /\ loop' = loop /\ cause' = cause
    BY <1>8 DEF CancelAppend, runVars, ctxVars, loopVars
  <2>2. disk' = disk \/ disk' = [disk EXCEPT ![r] = Apply(@, e)]
    BY <1>1, <1>8 DEF CancelAppend, Fault
  <2>3. \A q \in Runs \ {r} : disk'[q] = disk[q]
    BY <2>2 DEF TypeOK
  <2>4. TogetherAt(r)'
    <3>1. CASE disk' = disk
      BY <2>1, <3>1, TogetherSame DEF Together, MayLaunch
    <3>2. CASE disk' = [disk EXCEPT ![r] = Apply(@, e)]
      <4>1. disk'[r] = Apply(disk[r], e) /\ disk[r] \in State
        BY <3>2 DEF TypeOK
      <4>2. disk'[r].steps = disk[r].steps /\ LogOver(r)'
        BY <4>1, RunEventIs DEF LogOver, Ended
      <4> QED
        BY <2>1, <4>2 DEF Together, TogetherAt, MayLaunch
    <3> QED
      BY <2>2, <3>1, <3>2
  <2> QED
    BY <2>1, <2>3, <2>4, TogetherOthers
<1> QED
  BY <1>4, <1>5, <1>6, <1>7, <1>8 DEF CallNext
LEMMA NewProcessFrame ==
  ASSUME NewProcess
  PROVE  /\ UNCHANGED <<disk, faults, recs, sends>>
         /\ id' = [s \in Steps |-> 0] /\ loop' = [r \in Runs |-> "off"]
BY Zenon DEF NewProcess, envVars

LEMMA QuietTogether ==
  ASSUME Together, disk' = disk, mem' = mem, loop' = loop,
         \A q \in Runs : cause[q] # "none" => cause'[q] # "none"
  PROVE  Together'
BY TogetherSame DEF Together, MayLaunch

LEMMA BeginTogether ==
  ASSUME TypeOK, Together, NEW c \in Callers, NEW r \in Runs,
         Start(c, r) \/ Resume(c, r) \/ Cancel(c, r)
  PROVE  Together'
<1>1. CASE Start(c, r)
  <2>1. CASE Cleared(r, "new", Empty)
    <3>1. loop'[r] = "new" /\ \A q \in Runs \ {r} : /\ mem'[q] = mem[q] /\ cause'[q] = cause[q]
                                                    /\ loop'[q] = loop[q]
      BY <2>1, ClearedAll
    <3>2. TogetherAt(r)'
      BY <3>1 DEF TogetherAt, MayLaunch, Active
    <3> QED
      BY <1>1, <3>1, <3>2, TogetherOthers DEF Start
  <2>2. CASE UNCHANGED <<mem, ctxVars, loopVars, wake, open>>
    BY <1>1, <2>2, QuietTogether DEF Start, ctxVars, loopVars
  <2> QED
    BY <1>1, <2>1, <2>2 DEF Start, NewRun
<1>2. CASE Resume(c, r)
  BY <1>2, QuietTogether DEF Resume, logVars, runVars, ctxVars, loopVars
<1>3. CASE Cancel(c, r)
  <2>1. \A q \in Runs : cause[q] # "none" => cause'[q] # "none"
    BY <1>3 DEF Cancel, First, TypeOK
  <2> QED
    BY <1>3, <2>1, QuietTogether DEF Cancel, logVars, loopVars
<1> QED
  BY <1>1, <1>2, <1>3

LEMMA NextTogether ==
  ASSUME AllInv, Together, [Next]_vars
  PROVE  Together'
<1>0. TypeOK /\ LogInv /\ CallInv
  BY DEF AllInv, LifeInv
<1>1. CASE \E s \in Steps : StepNext(s)
  BY <1>0, <1>1, StepTogether
<1>2. CASE \E s \in Steps : ExchangeEnds(s)
  BY <1>2, QuietTogether DEF ExchangeEnds, logVars, ctxVars, loopVars
<1>3. CASE \E r \in Runs : LoopNext(r)
  BY <1>0, <1>3, LoopTogether
<1>4. CASE \E c \in Callers : CallNext(c)
  BY <1>0, <1>4, CallTogether
<1>5. CASE \E c \in Callers, r \in Runs : Start(c, r) \/ Resume(c, r) \/ Cancel(c, r)
  BY <1>0, <1>5, BeginTogether
<1>6. CASE NewProcess
  <2>1. loop' = [r \in Runs |-> "off"]
    BY <1>6, NewProcessFrame
  <2> QED
    BY <2>1 DEF Together, TogetherAt, MayLaunch, Active
<1>7. CASE Shutdown
  <2>1. \A q \in Runs : cause[q] # "none" => cause'[q] # "none"
    BY <1>7 DEF Shutdown, First
  <2> QED
    BY <1>7, <2>1, QuietTogether DEF Shutdown, logVars, loopVars
<1>8. CASE Tick \/ UNCHANGED vars
  BY <1>8, QuietTogether DEF Tick, vars, logVars, runVars, ctxVars, loopVars
<1> QED
  BY <1>1, <1>2, <1>3, <1>4, <1>5, <1>6, <1>7, <1>8 DEF Next, Restart, Crash, Terminated

-----------------------------------------------------------------------------
(* The numbers of exchanges.                                               *)

(* What is new in the log, and in the goroutine, has a number that was given. *)
GivenAt(s) ==
    /\ sends[s] <= sends'[s]
    /\ disk'[RunOf[s]].steps[s].ex <= sends'[s]
    /\ id'[s] <= sends'[s]

LEMMA GivenNumbers ==
  ASSUME TypeOK, TypeOK', Numbered, MemKeeps, SeenKeeps, \A s \in Steps : GivenAt(s)
  PROVE  Numbered'
<1>1. ASSUME NEW s \in Steps PROVE NumberedAt(s)'
  <2> DEFINE r == RunOf[s]
  <2>0. /\ r \in Runs /\ s \in StepsOf(r) /\ mem[r].steps[s].ex \in Nat /\ sends[s] \in Nat
        /\ sends'[s] \in Nat
    BY RunOfAssumption DEF TypeOK, State, StepsOf
  <2>1. mem'[r].steps[s].ex <= sends'[s]
    <3>1. CASE mem'[r] = mem[r]
      BY <2>0, <3>1 DEF Numbered, NumberedAt, GivenAt
    <3>2. CASE mem'[r] = disk'[r]
      BY <3>2 DEF GivenAt
    <3>3. CASE mem'[r] = Empty
      BY <2>0, <3>3 DEF Empty
    <3>4. CASE Held(mem'[r], r)
      <4>1. PICK c \in Callers : call[c].pc = "newRun" /\ call[c].run = r /\ mem'[r] = call[c].seen
        BY <3>4 DEF Held
      <4>2. call[c].seen.steps[s].ex <= sends[s] /\ call[c].seen.steps[s].ex \in Nat
        BY <2>0, <4>1 DEF Numbered, TypeOK, Call, State
      <4> QED
        BY <2>0, <4>1, <4>2 DEF GivenAt
    <3> QED
      BY <2>0, <3>1, <3>2, <3>3, <3>4 DEF MemKeeps
  <2> QED
    BY <2>1 DEF GivenAt, NumberedAt
<1>2. ASSUME NEW c \in Callers, call'[c].pc \in {"newRun", "cappend"}, NEW s \in StepsOf(call'[c].run)
      PROVE  call'[c].seen.steps[s].ex <= sends'[s]
  <2>0. s \in Steps /\ RunOf[s] = call'[c].run /\ sends[s] \in Nat /\ sends'[s] \in Nat
    BY DEF StepsOf, TypeOK
  <2>1. CASE call'[c] = call[c]
    <3>1. call[c].seen.steps[s].ex <= sends[s]
      BY <1>2, <2>1 DEF Numbered
    <3>2. call[c].seen.steps[s].ex \in Nat
      BY <2>0 DEF TypeOK, Call, State
    <3> QED
      BY <2>0, <2>1, <3>1, <3>2 DEF GivenAt
  <2>2. CASE call'[c].seen = disk[call'[c].run]
    <3>1. disk[RunOf[s]].steps[s].ex <= sends[s] /\ disk[RunOf[s]].steps[s].ex \in Nat
      BY <2>0, RunOfAssumption DEF Numbered, NumberedAt, TypeOK, State
    <3> QED
      BY <2>0, <2>2, <3>1 DEF GivenAt
  <2> QED
    BY <1>2, <2>1, <2>2 DEF SeenKeeps
<1> QED
  BY <1>1, <1>2 DEF Numbered

LEMMA SameGiven ==
  ASSUME TypeOK, NEW s \in Steps, NumberedAt(s), sends'[s] = sends[s], id'[s] = id[s],
         disk'[RunOf[s]].steps[s] = disk[RunOf[s]].steps[s]
  PROVE  GivenAt(s)
BY DEF GivenAt, NumberedAt, TypeOK

LEMMA NumberIs ==
  ASSUME NEW st \in State, NEW s \in Steps, NEW i \in Nat
  PROVE  /\ Apply(st, StepStarted(s, i)).steps[s].ex = i
         /\ \A z : Apply(st, StepEnded(s, i, z)).steps[s].ex \in {i, st.steps[s].ex}
<1>0. /\ st.steps \in [Steps -> [status : StepStatus, ex : Nat]]
      /\ st = [seq |-> st.seq, status |-> st.status, until |-> st.until, opened |-> st.opened,
               steps |-> st.steps]
  BY DEF State
<1>1. Apply(st, StepStarted(s, i)).steps[s].ex = i
  <2>1. Fold(st, StepStarted(s, i)) = [st EXCEPT !.steps[s] = [status |-> "running", ex |-> i]]
    BY DEF Fold, StepStarted
  <2>2. Apply(st, StepStarted(s, i)).steps = [st.steps EXCEPT ![s] = [status |-> "running", ex |-> i]]
    BY <1>0, <2>1 DEF Apply
  <2> QED
    BY <1>0, <2>2
<1>2. ASSUME NEW z PROVE Apply(st, StepEnded(s, i, z)).steps[s].ex \in {i, st.steps[s].ex}
  <2> DEFINE v == [status |-> z, ex |-> IF i = 0 THEN st.steps[s].ex ELSE i]
  <2>1. Fold(st, StepEnded(s, i, z)) = [st EXCEPT !.steps[s] = v]
    BY <1>0 DEF Fold, StepEnded
  <2>2. Apply(st, StepEnded(s, i, z)).steps = [st.steps EXCEPT ![s] = v]
    BY <1>0, <2>1 DEF Apply
  <2> QED
    BY <1>0, <2>2
<1> QED
  BY <1>1, <1>2

LEMMA StepGives ==
  ASSUME TypeOK, LogInv, Numbered, NEW s \in Steps, StepNext(s)
  PROVE  \A t \in Steps : GivenAt(t)
<1> DEFINE r == RunOf[s]
<1>0. /\ r \in Runs /\ disk[r] \in State /\ id[s] \in Nat /\ sends[s] \in Nat
      /\ disk[r].steps[s].ex \in Nat /\ mem[r].steps[s].ex \in Nat
      /\ disk[r].steps[s].ex <= sends[s] /\ mem[r].steps[s].ex <= sends[s] /\ id[s] <= sends[s]
  BY RunOfAssumption DEF TypeOK, State, Numbered, NumberedAt
<1>1. ASSUME NEW t \in Steps \ {s} PROVE GivenAt(t)
  BY <1>1, StepFrame, StepCalm, SameGiven DEF CalmAt, Numbered, TypeOK
<1>2. sends'[s] \in {sends[s], sends[s] + 1} /\ id'[s] <= sends'[s]
  <2>1. CASE Send(s)
    BY <1>0, <2>1 DEF Send, EndErr, TypeOK
  <2>2. CASE ~Send(s)
    <3>1. sends' = sends
      BY <2>2 DEF StepNext, OpenSession, LogOpened, Adopt, LogStarted, Follow, EndInterrupted,
                  EndClassify, LogEnded, Fail, FreeSlot, TakeIdle, CloseIdle, Leave, worldVars, envVars
    <3>2. id'[s] \in {id[s], 0, mem[r].steps[s].ex}
      BY <2>2 DEF StepNext, EndErr, OpenSession, LogOpened, Adopt, LogStarted, Follow, EndInterrupted,
                  EndClassify, LogEnded, Fail, FreeSlot, TakeIdle, CloseIdle, Leave, stepVars, TypeOK
    <3> QED
      BY <1>0, <3>1, <3>2
  <2> QED
    BY <2>1, <2>2
<1>3. disk'[r].steps[s].ex \in {disk[r].steps[s].ex, id[s], mem[r].steps[s].ex}
  <2>1. CASE disk'[r] = disk[r]
    BY <2>1
  <2>2. ASSUME NEW e, OwnEvent(s, e), disk'[r] = Apply(disk[r], e),
               e.kind \in {"step_started", "step_ended"} => e.ex \in {id[s], mem[r].steps[s].ex}
        PROVE  disk'[r].steps[s].ex \in {disk[r].steps[s].ex, id[s], mem[r].steps[s].ex}
    <3>1. CASE e = SessionOpened(Sess[s]) \/ \E i \in Nat : e = RunPaused(i)
      BY <1>0, <2>2, <3>1, RunEventIs
    <3>2. CASE \E i \in Nat : e = StepStarted(s, i)
      <4>1. PICK i \in Nat : e = StepStarted(s, i)
        BY <3>2
      <4>2. i \in {id[s], mem[r].steps[s].ex}
        BY <2>2, <4>1 DEF StepStarted
      <4>3. disk'[r].steps[s].ex = i
        BY <1>0, <2>2, <4>1, NumberIs
      <4> QED
        BY <4>2, <4>3
    <3>3. CASE \E i \in Nat : \E z \in Ended : e = StepEnded(s, i, z)
      <4>1. PICK i \in Nat, z \in Ended : e = StepEnded(s, i, z)
        BY <3>3
      <4>2. i \in {id[s], mem[r].steps[s].ex}
        BY <2>2, <4>1 DEF StepEnded
      <4>3. disk'[r].steps[s].ex \in {i, disk[r].steps[s].ex}
        BY <1>0, <2>2, <4>1, NumberIs
      <4> QED
        BY <4>2, <4>3
    <3> QED
      BY <2>2, <3>1, <3>2, <3>3 DEF OwnEvent
  <2>3. \/ UNCHANGED logVars
        \/ \E e : /\ OwnEvent(s, e) /\ (disk'[r] = disk[r] \/ disk'[r] = Apply(disk[r], e))
                  /\ e.kind \in {"step_started", "step_ended"} => e.ex \in {id[s], mem[r].steps[s].ex}
    <3>1. ASSUME NEW e, Tries(r, e) PROVE disk'[r] = disk[r] \/ disk'[r] = Apply(disk[r], e)
      BY <1>0, <3>1 DEF Tries, Logged, NotLogged, Fault, TypeOK
    <3> QED
      BY <3>1, StepSplit
  <2> QED
    BY <2>1, <2>2, <2>3 DEF logVars
<1>4. GivenAt(s)
  <2>1. sends[s] <= sends'[s] /\ sends'[s] \in Nat
    BY <1>0, <1>2
  <2>2. \A i \in {disk[r].steps[s].ex, id[s], mem[r].steps[s].ex} : i <= sends'[s]
    BY <1>0, <2>1
  <2>3. disk'[r].steps[s].ex <= sends'[s]
    BY <1>3, <2>2
  <2> QED
    BY <1>2, <2>1, <2>3 DEF GivenAt
<1> QED
  BY <1>1, <1>4, Zenon

-----------------------------------------------------------------------------
(* The step as a whole.                                                    *)

LEMMA CountFaults ==
  ASSUME TypeOK, [Next]_vars
  PROVE  faults' \in {faults, faults + 1}
<1>1. ASSUME NEW r \in Runs, NEW e, Tries(r, e) PROVE faults' \in {faults, faults + 1}
  BY <1>1 DEF Tries, Logged, NotLogged, Fault
<1>2. CASE \E s \in Steps : StepNext(s)
  <2>1. PICK s \in Steps : StepNext(s)
    BY <1>2
  <2>2. RunOf[s] \in Runs
    BY RunOfAssumption
  <2> QED
    BY <1>1, <2>1, <2>2, StepSplit DEF logVars
<1>3. CASE \E r \in Runs : LoopNext(r)
  <2>1. PICK r \in Runs : LoopNext(r)
    BY <1>3
  <2>2. CASE \E st : LogResumed(r) \/ LogRunEnded(r, st) \/ LogEnd(r)
    BY <2>2 DEF LogResumed, LogRunEnded, LogEnd, Logged, NotLogged, Fault, logVars
  <2>3. CASE ~\E st : LogResumed(r) \/ LogRunEnded(r, st) \/ LogEnd(r)
    BY <2>1, <2>3 DEF LoopNext, LoopStopping, LoopDone, LoopPaused, LoopLaunch, LoopWait, Wake,
                      Interrupt, LogDone, Finish, CloseSessions, Forget, logVars
  <2> QED
    BY <2>2, <2>3
<1>4. CASE \E c \in Callers : CallNext(c)
  BY <1>4 DEF CallNext, StartLog, ReadLog, ResumeNew, ResumeLaunch, CancelAppend, Logged, Fault, logVars
<1>5. CASE \E c \in Callers, r \in Runs : Start(c, r) \/ Resume(c, r) \/ Cancel(c, r)
  BY <1>5 DEF Start, Resume, Cancel, logVars
<1>6. CASE \/ \E s \in Steps : ExchangeEnds(s)
           \/ Shutdown \/ Tick \/ UNCHANGED vars
  BY <1>6 DEF ExchangeEnds, Shutdown, Tick, vars, logVars
<1>7. CASE NewProcess
  BY <1>7, NewProcessFrame
<1> QED
  BY <1>2, <1>3, <1>4, <1>5, <1>6, <1>7 DEF Next, Restart, Crash, Terminated

LEMMA Counts ==
  ASSUME AllInv, [Next]_vars, crashes' = crashes
  PROVE  Counting
<1>1. \A r \in Runs : LogOver(r) => LogOver(r)'
  BY DecidedKept DEF LogOver
<1> QED
  BY <1>1, CountFaults DEF AllInv, Counting

(* What the exchanges of s cost, those that ended and those to come.       *)
Pays(s) ==
    Cardinality(Ran(s))' + ToCome(s)' + crashes + faults
      <= Cardinality(Ran(s)) + ToCome(s) + crashes' + faults'

(* All there is to show of a step for s. *)
Kept(s) == GivenAt(s) /\ FreshAt(s)' /\ Pays(s)

LEMMA RanSame ==
  ASSUME TypeOK, TypeOK', NEW s \in Steps, \A i : <<s, i>> \in recs' <=> <<s, i>> \in recs
  PROVE  Ran(s)' = Ran(s)
<1>1. \A p \in recs \cup recs' : p = <<p[1], p[2]>>
  BY DEF TypeOK
<1>2. \A p : p \in Ran(s)' <=> p \in Ran(s)
  BY <1>1 DEF Ran
<1> QED
  BY <1>2

(* Counts before and after a step, with the crashes and faults of both.    *)
LEMMA Sums ==
  ASSUME NEW n \in Nat, NEW a \in Nat, NEW b \in Nat,
         NEW c \in Nat, NEW d \in Nat, NEW f \in Nat, NEW g \in Nat,
         \/ b <= a /\ d + g >= c + f
         \/ b <= a + 1 /\ d + g >= c + f + 1
  PROVE  n + b + c + f <= n + a + d + g
<1>1. b + (c + f) <= a + (d + g)
  OBVIOUS
<1> QED
  BY <1>1

LEMMA AffordsPays ==
  ASSUME TypeOK, TypeOK', NEW s \in Steps, Affords(s),
         Cardinality(Ran(s))' = Cardinality(Ran(s)), Cardinality(Ran(s)) \in Nat
  PROVE  Pays(s)
<1>1. ToCome(s) \in Nat /\ ToCome(s)' \in Nat
  BY ToComeIs
<1>2. crashes \in Nat /\ crashes' \in Nat /\ faults \in Nat /\ faults' \in Nat
  BY BoundsAssumption DEF TypeOK
<1> QED
  BY <1>1, <1>2, Sums DEF Affords, Pays

LEMMA SamePays ==
  ASSUME TypeOK, TypeOK', IsFiniteSet(recs), NEW s \in Steps, Affords(s),
         \A i : <<s, i>> \in recs' <=> <<s, i>> \in recs
  PROVE  Pays(s)
<1>1. Ran(s)' = Ran(s) /\ Cardinality(Ran(s)) \in Nat
  BY RanSame, RanFinite
<1>2. Cardinality(Ran(s))' = Cardinality(Ran(s))
  BY <1>1
<1> QED
  BY <1>1, <1>2, AffordsPays

LEMMA CalmKept ==
  ASSUME TypeOK, TypeOK', OnceInv, Counting, NEW s \in Steps, CalmAt(s), sends'[s] = sends[s]
  PROVE  Kept(s)
<1>1. GivenAt(s)
  BY SameGiven DEF CalmAt, OnceInv, Numbered
<1>2. FreshAt(s)'
  BY CalmFresh DEF OnceInv, Fresh
<1>3. Pays(s)
  <2>1. \A i : <<s, i>> \in recs' <=> <<s, i>> \in recs
    BY DEF CalmAt
  <2> QED
    BY <2>1, CalmAffords, SamePays DEF OnceInv, Budget
<1> QED
  BY <1>1, <1>2, <1>3 DEF Kept

LEMMA StepKept ==
  ASSUME TypeOK', AllInv, OnceInv, Counting, NEW s \in Steps, StepNext(s), NEW t \in Steps
  PROVE  Kept(t)
<1>0. TypeOK /\ LogInv /\ ExclusionInv /\ WorkInv /\ Numbered /\ Fresh /\ IsFiniteSet(recs)
  BY DEF AllInv, LifeInv, OnceInv, Budget
<1>1. recs' = recs /\ crashes' = crashes /\ (t # s => sends'[t] = sends[t])
  BY <1>0, StepFrame DEF TypeOK
<1>2. CASE t # s
  BY <1>0, <1>1, <1>2, StepCalm, CalmKept
<1>3. CASE t = s
  <2>1. GivenAt(s) /\ FreshAt(s)'
    BY <1>0, StepGives, StepFresh DEF Fresh
  <2>2. Owns(s)
    BY <1>0, StepAffords
  <2>3. Affords(s)
    <3>1. crashes \in Nat /\ faults \in Nat /\ faults' \in Nat
      BY <1>0, BoundsAssumption DEF TypeOK
    <3> QED
      BY <1>1, <2>2, <3>1 DEF Owns, Affords
  <2> QED
    BY <1>0, <1>1, <1>3, <2>1, <2>3, SamePays DEF Kept
<1> QED
  BY <1>2, <1>3

LEMMA ExchangeKept ==
  ASSUME TypeOK', AllInv, OnceInv, Counting, NEW s \in Steps, ExchangeEnds(s), NEW t \in Steps
  PROVE  Kept(t)
<1>0. /\ TypeOK /\ ExclusionInv /\ Numbered /\ IsFiniteSet(recs)
      /\ FreshAt(s) /\ FreshAt(t) /\ NumberedAt(t)
  BY DEF AllInv, OnceInv, Budget, Fresh, Numbered
<1>1. /\ recs' = IF x'[s] = "ok" THEN recs \cup {<<s, id[s]>>} ELSE recs
      /\ UNCHANGED <<disk, mem, faults, crashes, cause, loop, pc, id, sends, call>>
      /\ t # s => x'[t] = x[t]
  BY <1>0, ExchangeFrame
<1>2. CASE t # s
  <2>1. \A i : <<t, i>> \in recs' <=> <<t, i>> \in recs
    BY <1>1, <1>2
  <2>2. CalmAt(t)
    BY <1>1, <1>2, <2>1, SameCalm
  <2> QED
    BY <1>0, <1>1, <2>2, CalmKept
<1>3. CASE t = s
  <2>1. GivenAt(s)
    BY <1>0, <1>1, <1>3, SameGiven
  <2>2. FreshAt(s)'
    BY <1>0, ExchangeFresh
  <2>3. Cardinality(Ran(s))' + ToCome(s)' <= Cardinality(Ran(s)) + ToCome(s)
    BY <1>0, ExchangeSpends
  <2>4. IsFiniteSet(recs')
    BY <1>0, <1>1, FS_AddElement
  <2>5. Cardinality(Ran(s)) \in Nat /\ Cardinality(Ran(s))' \in Nat /\ ToCome(s) \in Nat /\ ToCome(s)' \in Nat
    <3>1. IsFiniteSet(Ran(s)')
      BY <2>4, FS_Subset DEF Ran
    <3> QED
      BY <1>0, <3>1, RanFinite, ToComeIs, FS_CardinalityType
  <2>6. crashes \in Nat /\ faults \in Nat
    BY <1>0, BoundsAssumption DEF TypeOK
  <2>7. Pays(s)
    BY <1>1, <2>3, <2>5, <2>6 DEF Pays
  <2> QED
    BY <1>3, <2>1, <2>2, <2>7 DEF Kept
<1> QED
  BY <1>2, <1>3

LEMMA LoopKept ==
  ASSUME TypeOK', AllInv, OnceInv, Counting, NEW r \in Runs, LoopNext(r), NEW s \in Steps
  PROVE  Kept(s)
<1>0. /\ TypeOK /\ LogInv /\ WorkInv /\ Together /\ NumberedAt(s) /\ IsFiniteSet(recs)
  BY DEF AllInv, LifeInv, OnceInv, Numbered, Budget
<1>1. recs' = recs /\ sends' = sends /\ crashes' = crashes /\ id' = id /\ (pc' = pc \/ LoopLaunch(r))
  BY <1>0, LoopFrame
<1>2. CASE pc'[s] = pc[s]
  BY <1>0, <1>1, <1>2, LoopCalm, CalmKept
<1>3. CASE pc'[s] # pc[s]
  <2>1. LoopLaunch(r) /\ disk' = disk /\ faults' = faults
    BY <1>1, <1>3 DEF LoopLaunch, logVars
  <2>2. ToCome(s)' <= ToCome(s) /\ FreshAt(s)'
    BY <1>0, <1>3, <2>1, LaunchOwns
  <2>3. GivenAt(s)
    BY <1>0, <1>1, <2>1, SameGiven
  <2>4. Pays(s)
    BY <1>0, <1>1, <2>1, <2>2, SamePays, BoundsAssumption DEF Affords, TypeOK
  <2> QED
    BY <2>2, <2>3, <2>4 DEF Kept
<1> QED
  BY <1>2, <1>3

LEMMA ProcessKept ==
  ASSUME TypeOK', AllInv, OnceInv, Restart \/ Crash, NEW s \in Steps
  PROVE  Kept(s)
<1>0. TypeOK /\ WorkInv /\ NumberedAt(s) /\ IsFiniteSet(recs)
  BY DEF AllInv, LifeInv, OnceInv, Numbered, Budget
<1>1. NewProcess /\ recs' = recs /\ sends' = sends /\ disk' = disk /\ faults' = faults /\ id'[s] = 0
  BY NewProcessFrame DEF Restart, Crash
<1>2. FreshAt(s)' /\ ToCome(s)' <= ToCome(s) + 1
  BY <1>1, NewProcessSpends
<1>3. Affords(s)
  <2>0. crashes \in Nat /\ faults \in Nat
    BY <1>0, BoundsAssumption DEF TypeOK
  <2>1. CASE Restart
    <3>1. loop[RunOf[s]] = "off" /\ RunOf[s] \in Runs /\ crashes' = crashes
      BY <2>1, RunOfAssumption DEF Restart, Registered
    <3>2. pc[s] \in Releasing
      BY <1>0, <3>1 DEF WorkInv, Quiet, Over, StepsOf
    <3>3. ~Will(s) /\ pc[s] # "started"
      BY <3>2 DEF Releasing, Will
    <3> QED
      BY <1>1, <2>0, <3>1, <3>3, NewProcessSpends DEF Affords
  <2>2. CASE Crash
    BY <1>1, <1>2, <2>0, <2>2 DEF Crash, Affords
  <2> QED
    BY <2>1, <2>2
<1>4. GivenAt(s)
  BY <1>0, <1>1 DEF GivenAt, NumberedAt, TypeOK
<1> QED
  BY <1>0, <1>1, <1>2, <1>3, <1>4, SamePays DEF Kept

LEMMA NextKept ==
  ASSUME TypeOK', AllInv, OnceInv, [Next]_vars, NEW s \in Steps
  PROVE  Kept(s)
<1>0. TypeOK /\ LogInv /\ WorkInv /\ CallInv
  BY DEF AllInv, LifeInv
<1>1. CASE \E t \in Steps : StepNext(t)
  BY <1>0, <1>1, StepFrame, Counts, StepKept
<1>2. CASE \E t \in Steps : ExchangeEnds(t)
  BY <1>0, <1>2, ExchangeFrame, Counts, ExchangeKept
<1>3. CASE \E r \in Runs : LoopNext(r)
  BY <1>0, <1>3, LoopFrame, Counts, LoopKept
<1>4. CASE Restart \/ Crash
  BY <1>4, ProcessKept
<1>5. ASSUME CalmAt(s), sends' = sends, crashes' = crashes PROVE Kept(s)
  BY <1>0, <1>5, Counts, CalmKept
<1>6. CASE \E c \in Callers : CallNext(c)
  BY <1>0, <1>5, <1>6, CallFrame, CallCalm, RunsAssumption
<1>7. CASE \E c \in Callers, r \in Runs : Start(c, r) \/ Resume(c, r) \/ Cancel(c, r)
  BY <1>0, <1>5, <1>7, CallFrame, BeginCalm
<1>8. CASE Shutdown \/ Tick \/ UNCHANGED vars
  <2>1. sends' = sends /\ crashes' = crashes
    BY <1>8 DEF Shutdown, Tick, vars, worldVars, envVars, procVars
  <2> QED
    BY <1>0, <1>5, <1>8, <2>1, EnvCalm
<1> QED
  BY <1>1, <1>2, <1>3, <1>4, <1>6, <1>7, <1>8 DEF Next, Terminated

LEMMA FiniteStays ==
  ASSUME TypeOK, IsFiniteSet(recs), [Next]_vars
  PROVE  IsFiniteSet(recs')
<1>1. CASE \E s \in Steps : ExchangeEnds(s)
  <2>1. PICK s \in Steps : recs' = recs \/ recs' = recs \cup {<<s, id[s]>>}
    BY <1>1, ExchangeFrame
  <2> QED
    BY <2>1, FS_AddElement
<1>2. CASE ~\E s \in Steps : ExchangeEnds(s)
  <2>1. CASE \E c \in Callers, r \in Runs : Start(c, r) \/ Resume(c, r) \/ Cancel(c, r)
    BY <2>1, CallFrame
  <2>2. CASE \E c \in Callers : CallNext(c)
    BY <2>2, CallFrame, RunsAssumption
  <2>3. CASE \E s \in Steps : StepNext(s)
    BY <2>3, StepFrame
  <2>4. CASE \E r \in Runs : LoopNext(r)
    BY <2>4, LoopFrame
  <2>5. CASE NewProcess \/ Shutdown \/ Tick \/ UNCHANGED vars
    BY <2>5, NewProcessFrame DEF Shutdown, Tick, vars, worldVars, envVars
  <2> QED
    BY <1>2, <2>1, <2>2, <2>3, <2>4, <2>5 DEF Next, Restart, Crash, Terminated
<1> QED
  BY <1>1, <1>2

LEMMA OnceBegins == Init => OnceInv
<1> SUFFICES ASSUME Init PROVE OnceInv
  OBVIOUS
<1>0. \A s \in Steps : Empty.steps[s].ex = 0
  BY DEF Empty
<1>1. /\ \A r \in Runs : disk[r] = Empty /\ mem[r] = Empty /\ loop[r] = "off"
      /\ \A s \in Steps : pc[s] = "none" /\ id[s] = 0 /\ sends[s] = 0
      /\ \A c \in Callers : call[c].pc = "idle"
      /\ recs = {} /\ crashes = 0 /\ faults = 0
  BY DEF Init
<1>2. Together
  BY <1>1 DEF Together, TogetherAt, MayLaunch, Active
<1>3. Numbered
  BY <1>0, <1>1, RunOfAssumption DEF Numbered, NumberedAt
<1>4. Fresh
  <2>1. ASSUME NEW s \in Steps PROVE FreshAt(s)
    <3>1. pc[s] = "none"
      BY <1>1
    <3> QED
      BY <3>1 DEF FreshAt
  <2> QED
    BY <2>1, Zenon DEF Fresh
<1>5. IsFiniteSet(recs) /\ \A s \in Steps : Ran(s) = {}
  BY <1>1, FS_EmptySet DEF Ran
<1>6. ASSUME NEW s \in Steps PROVE Cardinality(Ran(s)) + ToCome(s) <= 1 + crashes + faults
  <2>1. ~Will(s)
    BY <1>1 DEF Will
  <2> QED
    BY <1>1, <1>5, <2>1, ToComeIs, FS_EmptySet
<1> QED
  BY <1>2, <1>3, <1>4, <1>5, <1>6 DEF OnceInv, Budget

LEMMA OnceStays == Spec => []OnceInv
<1>1. TypeOK' /\ AllInv /\ OnceInv /\ [Next]_vars => OnceInv'
  <2> SUFFICES ASSUME TypeOK', AllInv, OnceInv, [Next]_vars PROVE OnceInv'
    OBVIOUS
  <2>0. TypeOK /\ LogInv /\ Numbered /\ Together /\ IsFiniteSet(recs)
    BY DEF AllInv, OnceInv, Budget
  <2>1. \A s \in Steps : GivenAt(s) /\ FreshAt(s)' /\ Pays(s)
    BY NextKept DEF Kept
  <2>2. Together'
    BY <2>0, NextTogether
  <2>3. Numbered'
    BY <2>0, <2>1, NextKeeps, GivenNumbers
  <2>4. Fresh'
    BY <2>1 DEF Fresh
  <2>5. IsFiniteSet(recs')
    BY <2>0, FiniteStays
  <2>6. ASSUME NEW s \in Steps PROVE Cardinality(Ran(s))' + ToCome(s)' <= 1 + crashes' + faults'
    <3>1. /\ Cardinality(Ran(s)) + ToCome(s) <= 1 + crashes + faults /\ Pays(s)
      BY <2>1 DEF OnceInv, Budget
    <3>2. /\ crashes \in Nat /\ crashes' \in Nat /\ faults \in Nat /\ faults' \in Nat
      BY <2>0, BoundsAssumption DEF TypeOK
    <3>3. Cardinality(Ran(s)) \in Nat /\ Cardinality(Ran(s))' \in Nat /\ ToCome(s) \in Nat /\ ToCome(s)' \in Nat
      <4>1. IsFiniteSet(Ran(s)')
        BY <2>5, FS_Subset DEF Ran
      <4> QED
        BY <2>0, <4>1, RanFinite, ToComeIs, FS_CardinalityType
    <3> QED
      BY <3>1, <3>2, <3>3 DEF Pays
  <2> QED
    BY <2>2, <2>3, <2>4, <2>5, <2>6 DEF OnceInv, Budget
<1>2. AllInv => TypeOK
  BY DEF AllInv
<1> QED
  BY <1>1, <1>2, OnceBegins, LifeStays, PTL DEF Spec

(* A crash, or an append that fails, costs a step at most one exchange     *)
(* more that ends well: whatever a Shutdown, a Cancel, a pause or a resume *)
(* interleaves with run.step, what adopt finds in the log and the records, *)
(* or will find, is never sent again.                                      *)
THEOREM OnceCorrect == Spec => []WorkDoneOnce
<1>1. TypeOK /\ OnceInv => WorkDoneOnce
  <2> SUFFICES ASSUME TypeOK, OnceInv, NEW s \in Steps
               PROVE  Cardinality({p \in recs : p[1] = s}) <= 1 + crashes + faults
    BY Zenon DEF WorkDoneOnce
  <2>1. Cardinality(Ran(s)) + ToCome(s) <= 1 + crashes + faults /\ IsFiniteSet(recs)
    BY DEF OnceInv, Budget
  <2>2. Cardinality(Ran(s)) \in Nat /\ ToCome(s) \in Nat /\ crashes \in Nat /\ faults \in Nat
    BY <2>1, RanFinite, ToComeIs, BoundsAssumption DEF TypeOK
  <2> QED
    BY <2>1, <2>2 DEF Ran
<1> QED
  BY <1>1, TypeCorrect, OnceStays, PTL


=============================================================================
