-------------------------- MODULE AdapterTurnProofs --------------------------
(***************************************************************************)
(* Proofs about the turns an adapter tells its session of: a limit which   *)
(* explains a failure was reported in the run that failed, the events of   *)
(* an exchange are a whole turn, and a structured response is the one its  *)
(* own prompt asked for.                                                   *)
(***************************************************************************)
EXTENDS AdapterProofs

(***************************************************************************)
(* The steps by what they change of a turn.                                *)
(***************************************************************************)
turnVars == <<harness, processVars, callVars, readVars, ex, prompting, closing, step, harnessVars, body>>

(* The opening goes on, and the process starts with one of its steps.      *)
Opened ==
    /\ Opens \/ OpenFails \/ HandshakeGoesOn
    /\ UNCHANGED <<harness, asked, stdin, stdout, codec, hand, seen, over, callVars, ex, prompting, closing,
                   harnessVars, body>>
    /\ \/ UNCHANGED <<alive, reader>>
       \/ step \in Starting /\ alive' /\ reader' = "read"

(* A call of the handshake or a cancellation begins.                       *)
Begun(c) ==
    /\ call[c] = "none" /\ c[1] \in Handshake \union {"clear", "cancel"}
    /\ (step \in Handshake /\ c[1] = step) \/ c[1] \in {"clear", "cancel"}
    /\ Begin(c)
    /\ UNCHANGED <<harness, processVars, ex, prompting, closing, step, harnessVars, body>>

(* The client writes a line that is no prompt and no call.                 *)
Noted ==
    /\ UNCHANGED <<harness, alive, asked, stdout, callVars, readVars, ex, prompting, closing, step, harnessVars, body>>
    /\ \E line : Notify(line) /\ (\/ \E n \in 1 .. ex : line = <<"stop", n>>
                                  \/ \E r \in Requests : ReplyNext(r) /\ line = <<"answer", r>>)

Closed ==
    /\ closing' \in {"client", "bridge", "done"} /\ asked' \in {asked, TRUE}
    /\ step' \in {step, "failed"} /\ (step = "open" => step' = "open")
    /\ UNCHANGED <<harness, alive, stdin, stdout, callVars, readVars, ex, prompting, harnessVars, body>>

(* The goroutine read, and the caller of a call.                           *)
Waiting(c) ==
    /\ WriteCall(c) \/ Return(c) \/ (Forget(c) /\ (c[1] = "prompt" => closing # "no"))
    /\ UNCHANGED <<ex, prompting, closing, step, harnessVars, body>>
Reading == ReaderNext /\ UNCHANGED <<ex, prompting, closing, step, harnessVars, body>>

Prompting ==
    /\ PromptNext
    /\ UNCHANGED <<harness, alive, asked, stdout, closing, step, harnessVars, body>>

LEMMA TurnStep ==
  ASSUME PromptInv, ClientInv, [Next]_vars
  PROVE  \/ UNCHANGED turnVars
         \/ Opened \/ Noted \/ Closed \/ Reading \/ Prompting \/ HarnessNext
         \/ \E c \in Calls : Begun(c) \/ Waiting(c)
<1>1. CASE OpenNext
  <2>1. CASE KeepFiles
    BY <2>1 DEF KeepFiles, clientVars, bridgeVars, turnVars
  <2>2. CASE Opens
    <3>1. step \in Starting /\ UNCHANGED <<harness, callVars, ex, prompting, closing, harnessVars, body>>
      BY <2>2 DEF Opens
    <3>2. StartProcess \/ UNCHANGED <<processVars, readVars>>
      BY <2>2 DEF Opens
    <3>3. /\ UNCHANGED <<asked, stdin, stdout, codec, hand, seen, over>>
          /\ UNCHANGED <<alive, reader>> \/ (alive' /\ reader' = "read")
      BY <3>2 DEF StartProcess, processVars, readVars
    <3> QED
      BY <2>2, <3>1, <3>3 DEF Opened
  <2>3. CASE OpenFails \/ HandshakeGoesOn
    BY <2>3 DEF OpenFails, HandshakeGoesOn, clientVars, processVars, readVars, bridgeVars, Opened
  <2>4. CASE HandshakeCalls
    <3>1. PICK c \in {StepCall, Again} : call[c] = "none" /\ Begin(c) /\ (c = Again => step = "model" \/ c = StepCall)
      BY <2>4 DEF HandshakeCalls, AsksAgain
    <3>2. c \in Calls /\ c[1] = step /\ step \in Handshake
      BY <2>4, <3>1, CallsAre DEF HandshakeCalls, StepCall, Again
    <3>3. UNCHANGED <<harness, processVars, ex, prompting, closing, step, harnessVars, body>>
      BY <2>4 DEF HandshakeCalls, bridgeVars, adapterVars, openVars
    <3> QED
      BY <3>1, <3>2, <3>3 DEF Begun
  <2> QED
    BY <1>1, <2>1, <2>2, <2>3, <2>4 DEF OpenNext
<1>2. CASE CloseNext
  <2>1. CASE Close
    BY <2>1 DEF Close, CloseBegins, AskToExit, Closed
  <2>2. CASE ClientClosed \/ CloseReturns
    BY <2>2 DEF ClientClosed, CloseReturns, clientVars, processVars, bridgeVars, openVars, Closed
  <2> QED
    BY <1>2, <2>1, <2>2 DEF CloseNext
<1>3. CASE PromptNext
  BY <1>3 DEF PromptNext, Prompt, PromptSets, PromptWaits, PromptSends, Prompted, ExchangeOver, clientVars,
     processVars, bridgeVars, openVars, Prompting
<1>4. CASE CancelNext
  <2>0. cancelling # "no" \/ prompting # "idle" => ex \in Prompts /\ ex \in 1 .. ex
    BY WantsAre DEF PromptInv, ExchangeInv
  <2>1. CASE Cancel
    <3>1. /\ UNCHANGED <<harness, alive, asked, stdout, ex, prompting, closing, step, harnessVars, body>>
          /\ prompting = "open" /\ \A w \in {"clear", "cancel"} : call[CancelCall(w)] = "none"
      BY <2>1 DEF Cancel, openVars
    <3>2. CASE ClaudeCancel \/ PiCancel
      <4>1. PICK w \in {"clear", "cancel"} : Begin(CancelCall(w)) /\ UNCHANGED stdin
        BY <3>2 DEF ClaudeCancel, PiCancel
      <4>2. CancelCall(w) \in Calls /\ CancelCall(w)[1] = w
        BY <2>0, <3>1, CallsAre DEF CancelCall
      <4> QED
        BY <3>1, <4>1, <4>2 DEF Begun, processVars
    <3>3. CASE OpenCodeCancel
      BY <2>0, <3>1, <3>3 DEF OpenCodeCancel, Noted
    <3> QED
      BY <2>1, <3>2, <3>3 DEF Cancel
  <2>2. CASE CancelGoesOn
    <3>1. /\ cancelling = "clear" /\ Begin(CancelCall("cancel")) /\ call[CancelCall("cancel")] = "none"
          /\ UNCHANGED <<harness, processVars, ex, prompting, closing, step, harnessVars, body>>
      BY <2>2 DEF CancelGoesOn, openVars, bridgeVars, ClientInv, UnbegunInv
    <3>2. CancelCall("cancel") \in Calls /\ CancelCall("cancel")[1] = "cancel"
      BY <2>0, <3>1, CallsAre DEF CancelCall
    <3> QED
      BY <3>1, <3>2 DEF Begun
  <2>3. CASE CancelOver
    BY <2>3 DEF CancelOver, clientVars, bridgeVars, openVars, turnVars
  <2> QED
    BY <1>4, <2>1, <2>2, <2>3 DEF CancelNext
<1>5. CASE \E c \in Calls : GivesUp(c) \/ CallNext(c)
  BY <1>5 DEF GivesUp, CallNext, bridgeVars, adapterVars, openVars, Waiting
<1>6. CASE ReaderNext
  BY <1>6 DEF ReaderNext, bridgeVars, adapterVars, openVars, Reading
<1>7. ASSUME NEW r \in Requests, HandlerNext(r)
      PROVE  UNCHANGED turnVars
  BY <1>7 DEF HandlerNext, RequestNext, ToolReturns, ListArrives, ListReads, ListAnswers, Respond, RunTool,
     TakeRun, GiveUp, AnswerAtOnce, adapterVars, openVars, bridgeVars, turnVars
<1>8. ASSUME NEW r \in Requests, ReplyNext(r)
      PROVE  Noted
  BY <1>8 DEF ReplyNext, Reply, adapterVars, openVars, bridgeVars, Noted
<1>9. CASE Terminated \/ UNCHANGED vars
  BY <1>9 DEF Terminated, vars, clientVars, adapterVars, openVars, bridgeVars, turnVars
<1> QED
  BY <1>1, <1>2, <1>3, <1>4, <1>5, <1>6, <1>7, <1>8, <1>9 DEF Next
LEMMA HarnessFrame ==
  ASSUME HarnessNext
  PROVE  /\ alive /\ UNCHANGED <<harness, asked, callVars, readVars, ex, prompting, closing, step>>
         /\ UNCHANGED <<result, serverVars, runVars>>
         /\ alive' = alive \/ HarnessExits
BY DEF HarnessNext, HarnessAnswers, HarnessRuns, HarnessStops, HarnessHears, HarnessFetches, HarnessLists,
   HarnessUses, HarnessReports, HarnessEnds, HarnessExits, ProcessEnds, HarnessKeeps, answerVars, bridgeVars,
   adapterVars, openVars

(***************************************************************************)
(* What stands still.                                                      *)
(***************************************************************************)
(* A harness that does not run reads and does nothing; read ends when its  *)
(* output does; the input is closed by Close alone; there is a prompt only *)
(* once the session is open.                                               *)
RestInv ==
    /\ ~alive => stdin = <<>> /\ hrun = 0
    /\ hrun = 0 <=> hpc = "idle"
    /\ reader \in Over => stdout = <<>>
    /\ over <=> reader = "done"
    /\ asked => closing # "no"
    /\ ex > 0 => step = "open"

LEMMA RestKept ==
  ASSUME AdapterInv, RestInv, [Next]_vars
  PROVE  RestInv'
<1>0. HeldInv /\ PromptInv /\ ClientInv /\ BridgeInv /\ LineInv /\ RestInv
  BY DEF AdapterInv
<1>t. /\ alive \in BOOLEAN /\ asked \in BOOLEAN /\ over \in BOOLEAN /\ reader \in ReaderPC /\ ex \in Nat
      /\ reader \in Over => ~alive
  BY <1>0, WantsAre DEF PromptInv, ExchangeInv, ClientInv, CallsInv, ReaderInv
<1>1. CASE UNCHANGED turnVars
  BY <1>1 DEF RestInv, turnVars, processVars, readVars, harnessVars
<1>2. CASE Opened
  <2>1. step # "open"
    <3>1. CASE Opens \/ OpenFails
      BY <3>1 DEF Opens, OpenFails, Starting
    <3>2. CASE HandshakeGoesOn
      BY <3>2 DEF HandshakeGoesOn, Handshake
    <3> QED
      BY <1>2, <3>1, <3>2 DEF Opened
  <2>2. ~(ex' > 0)
    BY <1>2, <2>1 DEF Opened, RestInv
  <2>3. UNCHANGED <<alive, reader>> \/ (step \in Starting /\ alive' /\ reader' = "read")
    BY <1>2 DEF Opened
  <2>4. step \in Starting => reader = "none"
    BY <1>0 DEF ClientInv, ReaderInv
  <2> QED
    BY <1>2, <1>t, <2>2, <2>3, <2>4 DEF Opened, RestInv, Over, harnessVars
<1>3. CASE Noted
  <2>1. UNCHANGED <<alive, asked, stdout, reader, over, hrun, hpc, closing, ex, step>>
    BY <1>3 DEF Noted, readVars, harnessVars
  <2>2. ~alive => stdin' = stdin
    BY <1>3 DEF Noted, Notify, Writable
  <2> QED
    BY <2>1, <2>2 DEF RestInv
<1>4. CASE Closed
  BY <1>4, <1>t DEF Closed, RestInv, readVars, harnessVars
<1>5. CASE Reading
  <2>1. UNCHANGED <<alive, asked, stdin, hrun, hpc, closing, ex, step>>
    BY <1>5 DEF Reading, ReaderNext, Dispatch, Resolve, Shutdown, EventsClose, processVars, harnessVars
  <2>2. reader' \in Over => stdout' = <<>>
    BY <1>5 DEF Reading, ReaderNext, Dispatch, Resolve, Shutdown, LinesOver, EventsClose, processVars, RestInv, Over
  <2>3. over' <=> reader' = "done"
    BY <1>5 DEF Reading, ReaderNext, Dispatch, Resolve, Shutdown, EventsClose, readVars, RestInv
  <2> QED
    BY <2>1, <2>2, <2>3 DEF RestInv
<1>6. CASE Prompting
  <2>1. UNCHANGED <<alive, asked, stdout, hrun, hpc, closing, step>>
    BY <1>6 DEF Prompting, harnessVars
  <2>2. UNCHANGED <<reader, over>>
    BY <1>6 DEF Prompting, PromptNext, Prompt, PromptSets, PromptWaits, PromptSends, ClaudeSends, CallSends, Begin,
       Prompted, ExchangeOver, clientVars, readVars
  <2>3. ~alive => stdin' = stdin
    BY <1>6 DEF Prompting, PromptNext, Prompt, PromptSets, PromptWaits, PromptSends, ClaudeSends, CallSends, Notify,
       Writable, Prompted, ExchangeOver, clientVars, processVars
  <2>4. ex' > 0 => step' = "open"
    <3>1. CASE Prompt
      BY <2>1, <3>1 DEF Prompt
    <3>2. CASE ~Prompt
      <4>1. ex' = ex
        BY <3>2, ExKept
      <4> QED
        BY <2>1, <4>1 DEF RestInv
    <3> QED
      BY <3>1, <3>2
  <2> QED
    BY <2>1, <2>2, <2>3, <2>4 DEF RestInv
<1>7. CASE HarnessNext
  <2>1. alive /\ UNCHANGED <<asked, reader, over, closing, ex, step>>
    BY <1>7, HarnessFrame DEF readVars
  <2>2. hrun' = 0 <=> hpc' = "idle"
    <3>1. CASE UNCHANGED <<hrun, hpc>>
      BY <3>1 DEF RestInv
    <3>2. CASE HarnessRuns
      <4>1. PICK c \in Inputs : c = Head(stdin) /\ Given(c)
        BY <1>0, <3>2 DEF HarnessRuns, StdinTaken, LineInv, InputInv
      <4>2. c[1] \in {"message", "prompt"} => c[2] # 0
        BY <1>0, <4>1, PromptRead
      <4>3. c[1] \in {"message", "prompt"} /\ (UNCHANGED <<hrun, hpc>> \/ (hrun' = c[2] /\ hpc' \in {"asking", "running"}))
        BY <3>2, <4>1 DEF HarnessRuns
      <4> QED
        BY <4>2, <4>3 DEF RestInv
    <3>3. ASSUME NEW r \in Requests, HarnessHears(r) \/ HarnessFetches(r)
          PROVE  hrun' = hrun /\ (hpc' = hpc \/ (hpc # "idle" /\ hpc' # "idle"))
      BY <3>3 DEF HarnessHears, HarnessFetches, Heard
    <3>4. ASSUME NEW tool \in RespondTools \union {Tool, Permission}, HarnessUses(tool)
          PROVE  hrun' = hrun /\ hpc # "idle" /\ hpc' # "idle"
      BY <3>4 DEF HarnessUses
    <3>5. CASE HarnessReports
      BY <3>5 DEF HarnessReports, RestInv
    <3>6. CASE HarnessEnds \/ HarnessExits
      BY <3>6 DEF HarnessEnds, HarnessExits
    <3>7. CASE HarnessAnswers \/ HarnessStops \/ \E r \in Requests : HarnessLists(r)
      BY <3>1, <3>7 DEF HarnessAnswers, HarnessStops, HarnessLists
    <3> QED
      BY <1>7, <3>1, <3>2, <3>3, <3>4, <3>5, <3>6, <3>7 DEF HarnessNext, RestInv
  <2>3. ~alive' => stdin' = <<>> /\ hrun' = 0
    BY <1>7, <2>1, HarnessFrame DEF HarnessExits, ProcessEnds
  <2>4. reader \notin Over
    BY <2>1, <1>t
  <2> QED
    BY <2>1, <2>2, <2>3, <2>4 DEF RestInv
<1>8. ASSUME NEW c \in Calls, Begun(c) \/ Waiting(c)
      PROVE  RestInv'
  <2>1. /\ UNCHANGED <<alive, asked, stdout, reader, over, hrun, hpc, closing, ex, step>>
        /\ ~alive => stdin' = stdin
    BY <1>8 DEF Begun, Begin, Waiting, WriteCall, Writable, Return, Forget, processVars, readVars, harnessVars
  <2> QED
    BY <2>1 DEF RestInv
<1> QED
  BY <1>0, <1>1, <1>2, <1>3, <1>4, <1>5, <1>6, <1>7, <1>8, TurnStep

LEMMA RestBegins == Init => RestInv
BY DEF Init, InitClient, RestInv, Over

(***************************************************************************)
(* The lines the harness writes, step by step.                             *)
(***************************************************************************)
Of(t) == {l \in Lines : l.type = t /\ l.request = <<>>}
Answer(c, how) == {l \in Of("response") : l.call = c /\ l.how = how}
TakesIn(c) == stdin # <<>> /\ c = Head(stdin) /\ stdin' = Tail(stdin)

LEMMA LinesOf ==
  /\ \A t \in LineTypes : Line(t) \in Of(t)
  /\ \A c \in Calls, how \in {"ok", "error", "aborted"} : Responds(c, how) \in Answer(c, how)
  /\ \A r \in {"list", "call"} \X Nat :
       Asks(r) \in Lines /\ Asks(r).type = "request" /\ Asks(r).request = r
<1>1. \A t \in LineTypes : Line(t) \in Of(t)
  BY LinesAre DEF Of
<1>2. ASSUME NEW c \in Calls, NEW how \in {"ok", "error", "aborted"}
      PROVE  Responds(c, how) \in Answer(c, how)
  <2>1. Line("response") \in Lines /\ Line("response").type = "response" /\ Line("response").request = <<>>
    BY LinesAre DEF LineTypes
  <2>2. Responds(c, how) \in Lines
    BY LinesAre DEF Spoken
  <2>3. /\ Responds(c, how).type = "response" /\ Responds(c, how).call = c
        /\ Responds(c, how).request = <<>> /\ Responds(c, how).how = how
    BY <2>1 DEF Responds, Lines
  <2> QED
    BY <2>2, <2>3 DEF Answer, Of
<1> QED
  BY <1>1, <1>2, LinesAre

LEMMA AnswersSay ==
  ASSUME AdapterInv, HarnessAnswers
  PROVE  \E c \in Calls, how \in Hows : \E x \in Answer(c, how) :
           /\ TakesIn(c) /\ told' = told \union {c}
           /\ c[1] \in Handshake \union {"clear", "cancel"}
           /\ \/ c[1] = "load" /\ \E s \in Of("start") : Writes(<<s, x>>)
              \/ c[1] # "load" /\ Writes(<<x>>)
           /\ aborted' = aborted \/ aborted' = <<>> \/ (harness # "pi" /\ aborted' = c)
           /\ UNCHANGED <<hrun, hpc, limited, known, at, body>>
<1>0. PICK c \in Inputs : TakesIn(c) /\ Given(c)
  BY DEF AdapterInv, HarnessAnswers, StdinTaken, LineInv, InputInv, TakesIn
<1>1. c[1] \in Handshake \union {"clear", "cancel"} /\ ~Settles(c) /\ c \in Calls
      /\ told' = told \union {c} /\ UNCHANGED <<hrun, hpc, limited, known, at, body>>
  BY <1>0, PromptRead DEF HarnessAnswers, TakesIn, AdapterInv
<1>2. \A how \in Hows : Responds(c, how) \in Answer(c, how)
  BY <1>1, LinesOf DEF Hows
<1>3. Line("start") \in Of("start")
  BY LinesOf DEF LineTypes
<1>4. \/ c[1] = "load" /\ (\E how \in Hows : Writes(<<Line("start"), Responds(c, how)>>)) /\ UNCHANGED aborted
      \/ c[1] = "cancel" /\ Writes(<<Responds(c, "ok")>>) /\ Stops(c)
      \/ c[1] \notin {"load", "cancel"} /\ (\E how \in Hows : Writes(<<Responds(c, how)>>)) /\ UNCHANGED aborted
  BY <1>0 DEF HarnessAnswers, TakesIn
<1>5. CASE c[1] = "load" /\ (\E how \in Hows : Writes(<<Line("start"), Responds(c, how)>>)) /\ UNCHANGED aborted
  BY <1>0, <1>1, <1>2, <1>3, <1>5
<1>6. CASE c[1] = "cancel" /\ Writes(<<Responds(c, "ok")>>) /\ Stops(c)
  <2>1. aborted' = <<>> \/ (harness # "pi" /\ aborted' = c)
    BY <1>1, <1>6 DEF Stops, Settles
  <2>2. "ok" \in Hows /\ c[1] # "load"
    BY <1>6 DEF Hows
  <2> QED
    BY <1>0, <1>1, <1>2, <1>6, <2>1, <2>2
<1>7. CASE c[1] \notin {"load", "cancel"} /\ (\E how \in Hows : Writes(<<Responds(c, how)>>)) /\ UNCHANGED aborted
  BY <1>0, <1>1, <1>2, <1>7
<1> QED
  BY <1>4, <1>5, <1>6, <1>7

LEMMA RunsSay ==
  ASSUME AdapterInv, HarnessRuns
  PROVE  \E c \in Inputs :
           /\ TakesIn(c) /\ c[2] \in 1 .. ex /\ hrun = 0 /\ aborted' = <<>> /\ limited' = FALSE
           /\ UNCHANGED <<known, at, body>>
           /\ c[1] = "prompt" \/ (c[1] = "message" /\ harness = "claude")
           /\ c[1] = "prompt" => c = PromptCall(c[2]) /\ c \in Calls
           /\ \/ /\ harness = "pi" /\ told' = told \union {c} /\ UNCHANGED <<hrun, hpc>>
                 /\ c[1] = "prompt" /\ \E x \in Answer(c, "error") : Writes(<<x>>)
              \/ /\ harness = "pi" /\ told' = told \union {c} /\ hrun' = c[2] /\ hpc' = "asking"
                 /\ c[1] = "prompt"
                 /\ \E x \in Answer(c, "ok"), y \in Lines :
                      y.type = "request" /\ y.request = <<"list", c[2]>> /\ Writes(<<x, y>>)
              \/ /\ harness # "pi" /\ told' = told /\ hrun' = c[2] /\ hpc' = "running"
                 /\ (\E s \in Of("start") : Writes(<<s>>)) \/ (harness = "opencode" /\ stdout' = stdout)
<1>0. PICK c \in Inputs : TakesIn(c) /\ Given(c)
  BY DEF AdapterInv, HarnessRuns, StdinTaken, LineInv, InputInv, TakesIn
<1>1. /\ c[1] \in {"message", "prompt"} /\ hrun = 0 /\ aborted' = <<>> /\ limited' = FALSE
      /\ UNCHANGED <<known, at, body>>
  BY <1>0 DEF HarnessRuns, TakesIn
<1>2. /\ c[2] \in 1 .. ex /\ ex \in Nat
      /\ c[1] = "prompt" \/ (c[1] = "message" /\ harness = "claude")
      /\ c[1] = "prompt" => c = PromptCall(c[2]) /\ c \in Calls
  BY <1>0, <1>1, PromptRead, WantsAre DEF AdapterInv, PromptInv, ExchangeInv
<1>3. /\ c[1] = "prompt" => \A how \in {"ok", "error"} : Responds(c, how) \in Answer(c, how)
      /\ Line("start") \in Of("start")
  BY <1>2, LinesOf DEF LineTypes
<1>4. /\ Asks(<<"list", c[2]>>) \in Lines /\ Asks(<<"list", c[2]>>).type = "request"
      /\ Asks(<<"list", c[2]>>).request = <<"list", c[2]>>
  BY <1>2, LinesOf
<1>5. \/ /\ harness = "pi" /\ Writes(<<Responds(c, "error")>>)
         /\ told' = told \union {c} /\ UNCHANGED <<hrun, hpc>>
      \/ /\ harness = "pi" /\ Writes(<<Responds(c, "ok"), Asks(<<"list", c[2]>>)>>)
         /\ told' = told \union {c} /\ hrun' = c[2] /\ hpc' = "asking"
      \/ /\ harness # "pi" /\ Writes(<<Line("start")>>)
         /\ hrun' = c[2] /\ hpc' = "running" /\ UNCHANGED told
      \/ /\ harness = "opencode" /\ Writes(<<>>)
         /\ hrun' = c[2] /\ hpc' = "running" /\ UNCHANGED told
  BY <1>0 DEF HarnessRuns, TakesIn
<1>6. Writes(<<>>) => stdout' = stdout
  BY DEF Writes, AdapterInv, LineInv, OutputInv
<1>7. CASE /\ harness = "pi" /\ Writes(<<Responds(c, "error")>>)
           /\ told' = told \union {c} /\ UNCHANGED <<hrun, hpc>>
  BY <1>0, <1>1, <1>2, <1>3, <1>7
<1>8. CASE /\ harness = "pi" /\ Writes(<<Responds(c, "ok"), Asks(<<"list", c[2]>>)>>)
           /\ told' = told \union {c} /\ hrun' = c[2] /\ hpc' = "asking"
  BY <1>0, <1>1, <1>2, <1>3, <1>4, <1>8
<1>9. CASE /\ harness # "pi" /\ (Writes(<<Line("start")>>) \/ (harness = "opencode" /\ Writes(<<>>)))
           /\ hrun' = c[2] /\ hpc' = "running" /\ UNCHANGED told
  BY <1>0, <1>1, <1>2, <1>3, <1>6, <1>9
<1> QED
  BY <1>5, <1>7, <1>8, <1>9

Bears(t, tool) == {l \in Of(t) : l.tool = tool}
Asking(r) == {l \in Lines : l.type = "request" /\ l.request = r}

LEMMA Joins ==
  ASSUME NEW a \in Lines, NEW b \in Lines, NEW c \in Lines
  PROVE  /\ <<>> \o <<a>> = <<a>> /\ <<a>> \o <<>> = <<a>> /\ <<a>> \o <<b>> = <<a, b>>
         /\ <<a, b>> \o <<>> = <<a, b>> /\ <<a, b>> \o <<c>> = <<a, b, c>>
<1>1. <<a>> \in Seq(Lines) /\ <<a, b>> \in Seq(Lines)
  OBVIOUS
<1>2. <<>> \o <<a>> = <<a>> /\ <<a>> \o <<>> = <<a>> /\ <<a, b>> \o <<>> = <<a, b>>
  BY <1>1
<1>3. <<a>> \o <<b>> = <<a, b>>
  <2>1. <<a>> \in Seq(Lines) /\ <<b>> \in Seq(Lines)
    OBVIOUS
  <2>2. <<a>> \o <<b>> \in Seq(Lines) /\ Len(<<a>> \o <<b>>) = 2
        /\ (<<a>> \o <<b>>)[1] = a /\ (<<a>> \o <<b>>)[2] = b
    BY <2>1, ConcatProperties
  <2>3. \A i \in 1 .. 2 : (<<a>> \o <<b>>)[i] = <<a, b>>[i]
    BY <2>2
  <2> QED
    BY <1>1, <2>2, <2>3, SeqEqual
<1>4. <<a, b>> \o <<c>> = <<a, b, c>>
  <2>1. <<c>> \in Seq(Lines) /\ <<a, b, c>> \in Seq(Lines)
    OBVIOUS
  <2>2. <<a, b>> \o <<c>> \in Seq(Lines) /\ Len(<<a, b>> \o <<c>>) = 3
        /\ (<<a, b>> \o <<c>>)[1] = a /\ (<<a, b>> \o <<c>>)[2] = b /\ (<<a, b>> \o <<c>>)[3] = c
    BY <1>1, <2>1, ConcatProperties
  <2>3. \A i \in 1 .. 3 : (<<a, b>> \o <<c>>)[i] = <<a, b, c>>[i]
    BY <2>2
  <2> QED
    BY <2>1, <2>2, <2>3, SeqEqual
<1> QED
  BY <1>2, <1>3, <1>4

LEMMA UsesSay ==
  ASSUME AdapterInv, NEW tool \in RespondTools \union {Tool, Permission}, HarnessUses(tool)
  PROVE  /\ hpc = "running" /\ <<"call", hrun>> \in Requests
         /\ tool \in {Tool, Permission, known} /\ tool # None /\ (harness = "pi" => tool # Permission)
         /\ body' = [body EXCEPT ![<<"call", hrun>>] = tool]
         /\ UNCHANGED <<stdin, hrun, aborted, known, limited, told>>
         /\ \E u \in Bears("use", tool), v \in Bears("use", tool), q \in Asking(<<"call", hrun>>) :
              \/ harness = "pi" /\ IsRespond(tool) /\ hpc' = "used" /\ at' = at /\ Writes(<<u>>)
              \/ tool = Permission /\ hpc' = "using" /\ at' = at /\ Writes(<<q>>)
              \/ /\ harness # "opencode" /\ tool # Permission /\ ~(harness = "pi" /\ IsRespond(tool))
                 /\ hpc' = "using" /\ at' = at /\ Writes(<<u, q>>)
              \/ /\ harness = "opencode" /\ tool # Permission /\ hpc' = "using"
                 /\ At(<<"call", hrun>>, "pushed") /\ (Writes(<<u>>) \/ Writes(<<u, v>>))
<1> DEFINE r == <<"call", hrun>>
           use == [Line("use") EXCEPT !.tool = tool]
           waits == [use EXCEPT !.ok = FALSE]
           q == Asks(r)
<1>1. /\ hpc = "running" /\ r \in Requests
      /\ tool \in {Tool, Permission, known} /\ tool # None /\ (harness = "pi" => tool # Permission)
      /\ body' = [body EXCEPT ![r] = tool]
      /\ UNCHANGED <<stdin, hrun, aborted, known, limited, told>>
  BY DEF HarnessUses
<1>2. use \in Bears("use", tool)
  <2>1. Line("use") \in Of("use") /\ tool \in Tools
    BY LinesOf DEF LineTypes, Tools, Offered
  <2>2. use \in Lines /\ use.type = "use" /\ use.request = <<>> /\ use.tool = tool
    BY <2>1 DEF Of, Lines
  <2> QED
    BY <2>2 DEF Bears, Of
<1>3. waits \in Bears("use", tool)
  <2> HIDE DEF use
  <2>1. waits \in Lines /\ waits.type = "use" /\ waits.request = <<>> /\ waits.tool = tool
    BY <1>2 DEF Bears, Of, Lines
  <2> QED
    BY <2>1 DEF Bears, Of
<1>4. q \in Asking(r)
  <2>1. hrun \in Nat
    BY WantsAre DEF AdapterInv, LineInv, HarnessInv, PromptInv, ExchangeInv
  <2>2. r \in {"list", "call"} \X Nat
    BY <2>1
  <2> QED
    BY <2>2, LinesOf DEF Asking
<1>5. \/ harness = "pi" /\ IsRespond(tool) /\ hpc' = "used" /\ at' = at /\ Writes(<<use>>)
      \/ tool = Permission /\ hpc' = "using" /\ at' = at /\ Writes(<<>> \o <<q>>)
      \/ /\ harness # "opencode" /\ tool # Permission /\ ~(harness = "pi" /\ IsRespond(tool))
         /\ hpc' = "using" /\ at' = at /\ Writes(<<use>> \o <<q>>)
      \/ /\ harness = "opencode" /\ tool # Permission /\ hpc' = "using"
         /\ At(r, "pushed") /\ (Writes(<<waits>> \o <<>>) \/ Writes(<<use, use>> \o <<>>))
  <2>1. CASE harness = "pi" /\ IsRespond(tool)
    BY <2>1 DEF HarnessUses
  <2>2. CASE ~(harness = "pi" /\ IsRespond(tool)) /\ tool = Permission
    BY <2>2 DEF HarnessUses
  <2>3. CASE ~(harness = "pi" /\ IsRespond(tool)) /\ tool # Permission /\ harness # "opencode"
    BY <2>3 DEF HarnessUses
  <2>4. CASE tool # Permission /\ harness = "opencode"
    BY <2>4 DEF HarnessUses
  <2> QED
    BY <2>1, <2>2, <2>3, <2>4
<1> HIDE DEF use, waits, q
<1>6. /\ <<>> \o <<q>> = <<q>> /\ <<use>> \o <<q>> = <<use, q>> /\ <<waits>> \o <<>> = <<waits>>
      /\ <<use, use>> \o <<>> = <<use, use>>
  BY <1>2, <1>3, <1>4, Joins DEF Bears, Of, Asking
<1> QED
  BY <1>1, <1>2, <1>3, <1>4, <1>5, <1>6

LEMMA ReportsSay ==
  ASSUME AdapterInv, HarnessReports
  PROVE  /\ hpc = "used" /\ hpc' = "done" /\ <<"call", hrun>> \in Requests
         /\ UNCHANGED <<stdin, at, body, hrun, aborted, known, limited, told>>
         /\ \/ body[<<"call", hrun>>] = Permission /\ stdout' = stdout
            \/ /\ body[<<"call", hrun>>] # Permission
               /\ \E l \in Bears("result", body[<<"call", hrun>>]) :
                    /\ Writes(<<l>>)
                    /\ harness # "pi" => l.text = result[<<"call", hrun>>]
<1> DEFINE r == <<"call", hrun>>
<1>1. /\ hpc = "used" /\ hpc' = "done" /\ r \in Requests /\ ~IsList(r)
      /\ UNCHANGED <<stdin, at, body, hrun, aborted, known, limited, told>>
  BY DEF HarnessReports, AdapterInv, LineInv, HarnessInv, IsList
<1>6. \E ok \in BOOLEAN, text \in {Accepted, result[r]} :
        /\ harness # "pi" => text = result[r]
        /\ Writes(IF body[r] = Permission THEN <<>>
                   ELSE <<[Line("result") EXCEPT !.tool = body[r], !.ok = ok, !.text = text]>>)
  BY DEF HarnessReports
<1> HIDE DEF r
<1>2. body[r] \in Tools /\ result[r] \in Texts /\ Accepted \in Texts
  BY <1>1 DEF AdapterInv, BridgeInv, RequestInv, Texts
<1>3. Line("result") \in Of("result")
  BY LinesOf DEF LineTypes
<1>4. ASSUME NEW ok \in BOOLEAN, NEW text \in Texts
      PROVE  /\ [Line("result") EXCEPT !.tool = body[r], !.ok = ok, !.text = text] \in Bears("result", body[r])
             /\ [Line("result") EXCEPT !.tool = body[r], !.ok = ok, !.text = text].text = text
  <2> DEFINE l == [Line("result") EXCEPT !.tool = body[r], !.ok = ok, !.text = text]
  <2>1. l \in Lines /\ l.type = "result" /\ l.request = <<>> /\ l.tool = body[r] /\ l.text = text
    BY <1>2, <1>3 DEF Lines, Of
  <2> HIDE DEF l
  <2>2. l \in Bears("result", body[r]) /\ l.text = text
    BY <2>1 DEF Bears, Of
  <2> QED
    BY <2>2 DEF l
<1>5. Writes(<<>>) => stdout' = stdout
  BY DEF Writes, AdapterInv, LineInv, OutputInv
<1>7. CASE body[r] = Permission
  BY <1>1, <1>5, <1>6, <1>7 DEF r
<1>8. CASE body[r] # Permission
  <2>1. PICK ok \in BOOLEAN, text \in Texts :
          /\ harness # "pi" => text = result[r]
          /\ Writes(<<[Line("result") EXCEPT !.tool = body[r], !.ok = ok, !.text = text]>>)
    BY <1>2, <1>6, <1>8
  <2> DEFINE l == [Line("result") EXCEPT !.tool = body[r], !.ok = ok, !.text = text]
  <2>2. l \in Bears("result", body[r]) /\ l.text = text
    BY <1>4
  <2>3. Writes(<<l>>)
    BY <2>1
  <2> HIDE DEF l
  <2> QED
    BY <1>1, <1>8, <2>1, <2>2, <2>3 DEF r
<1> QED
  BY <1>7, <1>8

LEMMA EndsSay ==
  ASSUME AdapterInv, HarnessEnds
  PROVE  /\ hrun \in Prompts /\ hpc # "asking" /\ hrun' = 0 /\ hpc' = "idle" /\ aborted' = <<>>
         /\ UNCHANGED <<stdin, at, body, known>>
         /\ \E e \in Of("end"), m \in Of("limit"), n \in Of("message"), how \in {"ok", "error", "aborted"} :
              \/ /\ harness = "claude" /\ told' = told
                 /\ \/ limited' = limited /\ Writes(<<e>>)
                    \/ limited' = TRUE /\ Writes(<<m, e>>)
              \/ /\ harness = "opencode" /\ told' = told \union {PromptCall(hrun)} /\ PromptCall(hrun) \in Calls
                 /\ limited' = limited /\ \E x \in Answer(PromptCall(hrun), how) : Writes(<<x>>)
              \/ /\ harness = "pi" /\ limited' = limited
                 /\ \/ told' = told /\ Writes(<<n, e>>)
                    \/ /\ aborted # <<>> /\ aborted \in Calls /\ aborted[1] = "cancel" /\ told' = told \union {aborted}
                       /\ \E x \in Answer(aborted, "ok") : Writes(<<n, e, x>>)
<1>1. /\ hrun \in Prompts /\ hpc # "asking" /\ hrun' = 0 /\ hpc' = "idle" /\ aborted' = <<>>
      /\ UNCHANGED <<stdin, at, body, known>> /\ PromptCall(hrun) \in Calls
  BY WantsAre, CallsAre DEF HarnessEnds, AdapterInv, LineInv, HarnessInv, PromptInv, ExchangeInv
<1>2. harness = "pi" /\ aborted # <<>> => aborted \in Calls /\ aborted[1] = "cancel"
  <2> SUFFICES ASSUME harness = "pi", aborted # <<>> PROVE aborted \in Calls /\ aborted[1] = "cancel"
    OBVIOUS
  <2>1. aborted \in Inputs /\ Given(aborted) /\ aborted[1] = "cancel"
    BY DEF AdapterInv, LineInv, HarnessInv, Given
  <2> QED
    BY <2>1, PromptRead DEF AdapterInv
<1> DEFINE last(t, h) == [Line(t) EXCEPT !.how = h]
           how3 == {"ok", "error", "aborted"}
<1>3. \A h \in how3 : last("end", h) \in Of("end") /\ last("message", h) \in Of("message")
  <2> SUFFICES ASSUME NEW h \in how3 PROVE last("end", h) \in Of("end") /\ last("message", h) \in Of("message")
    OBVIOUS
  <2>1. Line("end") \in Of("end") /\ Line("message") \in Of("message")
    BY LinesOf DEF LineTypes
  <2>2. /\ last("end", h) \in Lines /\ last("end", h).type = "end" /\ last("end", h).request = <<>>
        /\ last("message", h) \in Lines /\ last("message", h).type = "message" /\ last("message", h).request = <<>>
    BY <2>1 DEF Of, Lines
  <2> HIDE DEF last
  <2> QED
    BY <2>2 DEF Of
<1>4. Line("limit") \in Of("limit") /\ Line("end") \in Of("end") /\ Line("message") \in Of("message")
  BY LinesOf DEF LineTypes
<1>5. PICK h \in how3, limit \in BOOLEAN :
        /\ limit => harness = "claude"
        /\ limited' = (limited \/ limit)
        /\ Writes(CASE harness = "claude" ->
                              (IF limit THEN <<Line("limit")>> ELSE <<>>) \o <<last("end", h)>>
                         [] harness = "opencode" -> <<Responds(PromptCall(hrun), h)>>
                         [] harness = "pi" -> <<last("message", h), Line("end")>> \o
                              (IF aborted # <<>> THEN <<Responds(aborted, "ok")>> ELSE <<>>))
  <2>1. PICK how \in Hows, limit \in BOOLEAN :
          LET h == IF aborted # <<>> THEN "aborted" ELSE how
          IN  /\ limit => harness = "claude"
              /\ limited' = (limited \/ limit)
              /\ Writes(CASE harness = "claude" ->
                              (IF limit THEN <<Line("limit")>> ELSE <<>>) \o <<last("end", h)>>
                         [] harness = "opencode" -> <<Responds(PromptCall(hrun), h)>>
                         [] harness = "pi" -> <<last("message", h), Line("end")>> \o
                              (IF aborted # <<>> THEN <<Responds(aborted, "ok")>> ELSE <<>>))
    BY DEF HarnessEnds
  <2>2. (IF aborted # <<>> THEN "aborted" ELSE how) \in how3
    BY DEF Hows
  <2> HIDE DEF last
  <2> QED
    BY <2>1, <2>2
<1>6. told' = told \union (CASE harness = "opencode" -> {PromptCall(hrun)}
                              [] harness = "pi" /\ aborted # <<>> -> {aborted}
                              [] OTHER -> {})
  BY DEF HarnessEnds
<1>7. limited \in BOOLEAN /\ harness \in {"claude", "opencode", "pi"}
  BY DEF AdapterInv, LineInv, HarnessInv, HeldInv, StepType, Harnesses
<1> HIDE DEF last
<1>8. CASE harness = "claude"
  <2>1. told' = told
    BY <1>6, <1>8
  <2>2. /\ <<>> \o <<last("end", h)>> = <<last("end", h)>>
        /\ <<Line("limit")>> \o <<last("end", h)>> = <<Line("limit"), last("end", h)>>
    BY <1>3, <1>4, Joins DEF Of
  <2>3. \/ limited' = limited /\ Writes(<<last("end", h)>>)
        \/ limited' = TRUE /\ Writes(<<Line("limit"), last("end", h)>>)
    BY <1>5, <1>7, <1>8, <2>2
  <2> QED
    BY <1>1, <1>3, <1>4, <1>8, <2>1, <2>3
<1>9. CASE harness = "opencode"
  <2>1. told' = told \union {PromptCall(hrun)} /\ limited' = limited /\ Writes(<<Responds(PromptCall(hrun), h)>>)
    BY <1>5, <1>6, <1>7, <1>9
  <2>2. Responds(PromptCall(hrun), h) \in Answer(PromptCall(hrun), h)
    BY <1>1, LinesOf
  <2> QED
    BY <1>1, <1>3, <1>4, <1>9, <2>1, <2>2
<1>10. CASE harness = "pi"
  <2>1. limited' = limited
    BY <1>5, <1>7, <1>10
  <2>2. CASE aborted = <<>>
    <3>1. <<last("message", h), Line("end")>> \o <<>> = <<last("message", h), Line("end")>>
      OBVIOUS
    <3>2. told' = told /\ Writes(<<last("message", h), Line("end")>>)
      BY <1>5, <1>6, <1>10, <2>2, <3>1
    <3> QED
      BY <1>1, <1>3, <1>4, <1>10, <2>1, <3>2
  <2>3. CASE aborted # <<>>
    <3>1. Responds(aborted, "ok") \in Answer(aborted, "ok")
      BY <1>2, <1>10, <2>3, LinesOf
    <3>2. <<last("message", h), Line("end")>> \o <<Responds(aborted, "ok")>>
            = <<last("message", h), Line("end"), Responds(aborted, "ok")>>
      <4>1. last("message", h) \in Lines /\ Line("end") \in Lines /\ Responds(aborted, "ok") \in Lines
        BY <1>3, <1>4, <3>1 DEF Of, Answer
      <4> QED
        BY <4>1, Joins
    <3>3. told' = told \union {aborted}
          /\ Writes(<<last("message", h), Line("end"), Responds(aborted, "ok")>>)
      BY <1>5, <1>6, <1>10, <2>3, <3>2
    <3> QED
      BY <1>1, <1>2, <1>3, <1>4, <1>10, <2>1, <2>3, <3>1, <3>3
  <2> QED
    BY <2>2, <2>3
<1> QED
  BY <1>7, <1>8, <1>9, <1>10

LEMMA HearsSay ==
  ASSUME AdapterInv, NEW r \in Requests, HarnessHears(r) \/ HarnessFetches(r)
  PROVE  /\ \/ TakesIn(<<"answer", r>>) /\ at' = at
            \/ stdin' = stdin /\ harness = "opencode" /\ body[r] # Permission /\ At(r, "gone")
         /\ UNCHANGED <<hrun, aborted, body, limited, told>>
         /\ \/ /\ r = <<"list", hrun>> /\ hpc = "asking" /\ hpc' = "running"
               /\ harness = "opencode" \/ \E s \in Of("start") : Writes(<<s>>)
            \/ /\ stdout' = stdout
               /\ hpc' = hpc \/ (r = <<"call", hrun>> /\ hpc = "using" /\ hpc' = "used")
         /\ known' = known \/ (IsList(r) /\ known' = result[r])
<1>1. /\ \/ TakesIn(<<"answer", r>>) /\ at' = at
         \/ stdin' = stdin /\ harness = "opencode" /\ body[r] # Permission /\ At(r, "gone")
      /\ UNCHANGED <<hrun, aborted, body, limited, told>>
      /\ known' = known \/ (IsList(r) /\ known' = result[r])
  BY DEF HarnessHears, HarnessFetches, StdinTaken, TakesIn, Heard, Learns
<1>2. \/ r = <<"list", hrun>> /\ hpc = "asking" /\ hpc' = "running"
      \/ hpc' = hpc
      \/ r = <<"call", hrun>> /\ hpc = "using" /\ hpc' = "used"
  BY DEF HarnessHears, HarnessFetches, Heard
<1>3. Line("start") \in Of("start")
  BY LinesOf DEF LineTypes
<1>4. Writes(<<>>) => stdout' = stdout
  BY DEF Writes, AdapterInv, LineInv, OutputInv
<1>5. CASE HarnessHears(r)
  <2>1. Writes(IF hpc = "asking" /\ hpc' = "running" THEN <<Line("start")>> ELSE <<>>)
    BY <1>5 DEF HarnessHears
  <2> QED
    BY <1>1, <1>2, <1>3, <1>4, <2>1
<1>6. CASE HarnessFetches(r)
  <2>1. stdout' = stdout /\ harness = "opencode"
    BY <1>6 DEF HarnessFetches
  <2> QED
    BY <1>1, <1>2, <2>1
<1> QED
  BY <1>5, <1>6

LEMMA ListsSay ==
  ASSUME AdapterInv, NEW r \in Requests, HarnessLists(r)
  PROVE  /\ harness # "pi" /\ UNCHANGED <<stdin, body, hrun, hpc, aborted, known, limited, told>>
         /\ IsList(r) /\ Fresh(r)
         /\ \/ harness = "claude" /\ at' = at /\ \E x \in Asking(r) : Writes(<<x>>)
            \/ harness = "opencode" /\ At(r, "pushed") /\ stdout' = stdout
<1>1. r \in {"list", "call"} \X Nat
  BY RequestsAssumption
<1>2. Asks(r) \in Asking(r)
  BY <1>1, LinesOf DEF Asking
<1>3. harness \in {"claude", "opencode", "pi"}
  BY DEF AdapterInv, HeldInv, StepType, Harnesses
<1> QED
  BY <1>2, <1>3 DEF HarnessLists

(* Lines added to the output.                                              *)
LEMMA Adds ==
  ASSUME NEW S, NEW s \in Seq(S), NEW t \in Seq(S)
  PROVE  /\ s \o t \in Seq(S) /\ Len(s \o t) = Len(s) + Len(t)
         /\ \A i \in DOMAIN s : i \in DOMAIN (s \o t) /\ (s \o t)[i] = s[i]
         /\ \A k \in DOMAIN t : Len(s) + k \in DOMAIN (s \o t) /\ (s \o t)[Len(s) + k] = t[k]
         /\ \A i \in DOMAIN (s \o t) : i \in DOMAIN s \/ \E k \in DOMAIN t : i = Len(s) + k
<1>1. /\ s \o t \in Seq(S) /\ Len(s \o t) = Len(s) + Len(t)
      /\ \A i \in 1 .. Len(s) + Len(t) : (s \o t)[i] = IF i <= Len(s) THEN s[i] ELSE t[i - Len(s)]
  BY ConcatProperties
<1>2. DOMAIN s = 1 .. Len(s) /\ DOMAIN t = 1 .. Len(t) /\ Len(s) \in Nat /\ Len(t) \in Nat
  OBVIOUS
<1>3. DOMAIN (s \o t) = 1 .. Len(s) + Len(t)
  BY <1>1
<1>4. \A i \in 1 .. Len(s) : i \in 1 .. Len(s) + Len(t) /\ i <= Len(s)
  BY <1>2
<1>5. \A k \in 1 .. Len(t) : Len(s) + k \in 1 .. Len(s) + Len(t) /\ ~(Len(s) + k <= Len(s)) /\ Len(s) + k - Len(s) = k
  BY <1>2
<1>6. \A i \in 1 .. Len(s) + Len(t) : i \in 1 .. Len(s) \/ (i - Len(s) \in 1 .. Len(t) /\ i = Len(s) + (i - Len(s)))
  BY <1>2
<1>7. ASSUME NEW k \in DOMAIN t
      PROVE  Len(s) + k \in DOMAIN (s \o t) /\ (s \o t)[Len(s) + k] = t[k]
  <2> DEFINE j == Len(s) + k
  <2>1. j \in 1 .. Len(s) + Len(t) /\ ~(j <= Len(s)) /\ j - Len(s) = k
    BY <1>2, <1>5
  <2> HIDE DEF j
  <2>2. (s \o t)[j] = t[j - Len(s)]
    BY <1>1, <2>1
  <2> QED
    BY <1>3, <2>1, <2>2 DEF j
<1> QED
  BY <1>1, <1>2, <1>3, <1>4, <1>6, <1>7

LEMMA Added ==
  ASSUME stdout \in Seq(Lines), NEW t \in Seq(Lines), stdout' = stdout \o t
  PROVE  /\ stdout' \in Seq(Lines) /\ Len(stdout) \in Nat /\ DOMAIN stdout = 1 .. Len(stdout)
         /\ \A i \in DOMAIN stdout : i \in DOMAIN stdout' /\ stdout'[i] = stdout[i]
         /\ \A k \in DOMAIN t : Len(stdout) + k \in DOMAIN stdout' /\ stdout'[Len(stdout) + k] = t[k]
         /\ \A i \in DOMAIN stdout' : i \in DOMAIN stdout \/ \E k \in DOMAIN t : i = Len(stdout) + k
<1> DEFINE u == stdout \o t
<1>1. /\ u \in Seq(Lines)
      /\ \A i \in DOMAIN stdout : i \in DOMAIN u /\ u[i] = stdout[i]
      /\ \A k \in DOMAIN t : Len(stdout) + k \in DOMAIN u /\ u[Len(stdout) + k] = t[k]
      /\ \A i \in DOMAIN u : i \in DOMAIN stdout \/ \E k \in DOMAIN t : i = Len(stdout) + k
  BY Adds
<1>2. Len(stdout) \in Nat /\ DOMAIN stdout = 1 .. Len(stdout)
  OBVIOUS
<1>3. stdout' = u
  OBVIOUS
<1> HIDE DEF u
<1> QED
  BY <1>1, <1>2, <1>3

LEMMA Adds1 ==
  ASSUME stdout \in Seq(Lines), NEW x \in Lines, Writes(<<x>>)
  PROVE  /\ stdout' \in Seq(Lines) /\ Len(stdout) \in Nat /\ DOMAIN stdout = 1 .. Len(stdout)
         /\ \A i \in DOMAIN stdout : i \in DOMAIN stdout' /\ stdout'[i] = stdout[i]
         /\ Len(stdout) + 1 \in DOMAIN stdout' /\ stdout'[Len(stdout) + 1] = x
         /\ \A i \in DOMAIN stdout' : i \in DOMAIN stdout \/ i = Len(stdout) + 1
<1>1. <<x>> \in Seq(Lines) /\ DOMAIN <<x>> = {1} /\ <<x>>[1] = x
  OBVIOUS
<1> DEFINE t == <<x>>
<1>2. t \in Seq(Lines) /\ DOMAIN t = {1} /\ t[1] = x /\ stdout' = stdout \o t
  BY <1>1 DEF Writes
<1> HIDE DEF t
<1>3. /\ stdout' \in Seq(Lines) /\ Len(stdout) \in Nat /\ DOMAIN stdout = 1 .. Len(stdout)
      /\ \A i \in DOMAIN stdout : i \in DOMAIN stdout' /\ stdout'[i] = stdout[i]
      /\ \A k \in DOMAIN t : Len(stdout) + k \in DOMAIN stdout' /\ stdout'[Len(stdout) + k] = t[k]
      /\ \A i \in DOMAIN stdout' : i \in DOMAIN stdout \/ \E k \in DOMAIN t : i = Len(stdout) + k
  BY <1>2, Added
<1> QED
  BY <1>2, <1>3

LEMMA Adds2 ==
  ASSUME stdout \in Seq(Lines), NEW x \in Lines, NEW y \in Lines, Writes(<<x, y>>)
  PROVE  /\ stdout' \in Seq(Lines) /\ Len(stdout) \in Nat /\ DOMAIN stdout = 1 .. Len(stdout)
         /\ \A i \in DOMAIN stdout : i \in DOMAIN stdout' /\ stdout'[i] = stdout[i]
         /\ Len(stdout) + 1 \in DOMAIN stdout' /\ stdout'[Len(stdout) + 1] = x
         /\ Len(stdout) + 2 \in DOMAIN stdout' /\ stdout'[Len(stdout) + 2] = y
         /\ \A i \in DOMAIN stdout' : i \in DOMAIN stdout \/ i = Len(stdout) + 1 \/ i = Len(stdout) + 2
<1>1. <<x, y>> \in Seq(Lines) /\ DOMAIN <<x, y>> = {1, 2} /\ <<x, y>>[1] = x /\ <<x, y>>[2] = y
  OBVIOUS
<1> DEFINE t == <<x, y>>
<1>2. t \in Seq(Lines) /\ DOMAIN t = {1, 2} /\ t[1] = x /\ t[2] = y /\ stdout' = stdout \o t
  BY <1>1 DEF Writes
<1> HIDE DEF t
<1>3. /\ stdout' \in Seq(Lines) /\ Len(stdout) \in Nat /\ DOMAIN stdout = 1 .. Len(stdout)
      /\ \A i \in DOMAIN stdout : i \in DOMAIN stdout' /\ stdout'[i] = stdout[i]
      /\ \A k \in DOMAIN t : Len(stdout) + k \in DOMAIN stdout' /\ stdout'[Len(stdout) + k] = t[k]
      /\ \A i \in DOMAIN stdout' : i \in DOMAIN stdout \/ \E k \in DOMAIN t : i = Len(stdout) + k
  BY <1>2, Added
<1> QED
  BY <1>2, <1>3

LEMMA Adds3 ==
  ASSUME stdout \in Seq(Lines), NEW x \in Lines, NEW y \in Lines, NEW z \in Lines, Writes(<<x, y, z>>)
  PROVE  /\ stdout' \in Seq(Lines) /\ Len(stdout) \in Nat /\ DOMAIN stdout = 1 .. Len(stdout)
         /\ \A i \in DOMAIN stdout : i \in DOMAIN stdout' /\ stdout'[i] = stdout[i]
         /\ Len(stdout) + 1 \in DOMAIN stdout' /\ stdout'[Len(stdout) + 1] = x
         /\ Len(stdout) + 2 \in DOMAIN stdout' /\ stdout'[Len(stdout) + 2] = y
         /\ Len(stdout) + 3 \in DOMAIN stdout' /\ stdout'[Len(stdout) + 3] = z
         /\ \A i \in DOMAIN stdout' :
              i \in DOMAIN stdout \/ i = Len(stdout) + 1 \/ i = Len(stdout) + 2 \/ i = Len(stdout) + 3
<1>1. /\ <<x, y, z>> \in Seq(Lines) /\ DOMAIN <<x, y, z>> = {1, 2, 3}
      /\ <<x, y, z>>[1] = x /\ <<x, y, z>>[2] = y /\ <<x, y, z>>[3] = z
  OBVIOUS
<1> DEFINE t == <<x, y, z>>
<1>2. /\ t \in Seq(Lines) /\ DOMAIN t = {1, 2, 3} /\ t[1] = x /\ t[2] = y /\ t[3] = z
      /\ stdout' = stdout \o t
  BY <1>1 DEF Writes
<1> HIDE DEF t
<1>3. /\ stdout' \in Seq(Lines) /\ Len(stdout) \in Nat /\ DOMAIN stdout = 1 .. Len(stdout)
      /\ \A i \in DOMAIN stdout : i \in DOMAIN stdout' /\ stdout'[i] = stdout[i]
      /\ \A k \in DOMAIN t : Len(stdout) + k \in DOMAIN stdout' /\ stdout'[Len(stdout) + k] = t[k]
      /\ \A i \in DOMAIN stdout' : i \in DOMAIN stdout \/ \E k \in DOMAIN t : i = Len(stdout) + k
  BY <1>2, Added
<1> QED
  BY <1>2, <1>3

(* A line taken from the output, one taken from the input or added to it.  *)
LEMMA Rest ==
  ASSUME NEW S, NEW s \in Seq(S), s # <<>>
  PROVE  /\ Tail(s) \in Seq(S) /\ 1 \in DOMAIN s /\ Head(s) = s[1] /\ s[1] \in S
         /\ \A i \in DOMAIN s : i = 1 \/ (i - 1 \in DOMAIN Tail(s) /\ Tail(s)[i - 1] = s[i])
         /\ \A i \in DOMAIN Tail(s) : i + 1 \in DOMAIN s /\ Tail(s)[i] = s[i + 1] /\ i \in Nat /\ i + 1 # 1
OBVIOUS

LEMMA More ==
  ASSUME NEW S, NEW s \in Seq(S), NEW x \in S
  PROVE  /\ Append(s, x) \in Seq(S) /\ Len(s) \in Nat /\ Len(s) + 1 \in DOMAIN Append(s, x)
         /\ Append(s, x)[Len(s) + 1] = x /\ Len(s) + 1 \notin DOMAIN s
         /\ \A i \in DOMAIN s : i \in DOMAIN Append(s, x) /\ Append(s, x)[i] = s[i]
         /\ \A i \in DOMAIN Append(s, x) : i \in DOMAIN s \/ i = Len(s) + 1
OBVIOUS

(***************************************************************************)
(* What the codec makes of a line, kind by kind.                           *)
(***************************************************************************)
CodecType == [prompts : SUBSET Calls, loads : SUBSET Calls, started : BOOLEAN, called : SUBSET Tools,
              responds : SUBSET RespondTools, limit : BOOLEAN]
(* Only OpenCode's notes prompts, loads and calls.                         *)
CodecInv ==
    /\ codec \in CodecType
    /\ \A c \in codec.prompts : c[1] = "prompt"
    /\ harness # "opencode" => codec.prompts = {} /\ codec.called = {} /\ ~codec.started

LEMMA FrameIs ==
  \A c, e : /\ Frame(c, e).codec = c /\ Frame(c, e).events = e
            /\ Frame(c, e).response = <<>> /\ Frame(c, e).request = <<>>
BY DEF Frame

LEMMA ResponseFrameIs ==
  \A c, l, e : LET f == ResponseFrame(c, l, e)
               IN  f.codec = c /\ f.events = e /\ f.response = <<l.call, l.how # "error">> /\ f.request = <<>>
BY DEF Frame, ResponseFrame

LEMMA RequestFrameIs ==
  \A c, l : LET f == RequestFrame(c, l)
            IN  f.codec = c /\ f.events = <<>> /\ f.response = <<>> /\ f.request = l.request
BY DEF Frame, RequestFrame

Same(f, c) == f.events = <<>> /\ f.codec = c /\ f.response = <<>>
Tells(f, c, events) == f.events = events /\ f.codec = c /\ f.response = <<>>

ClaudeFrame(c, l, f) ==
    /\ l.type = "response" => f.events = <<>> /\ f.codec = c /\ f.response = <<l.call, l.how # "error">>
    /\ l.type = "request" => Same(f, c)
    /\ l.type = "start" => Tells(f, [c EXCEPT !.limit = FALSE], <<Plain("started")>>)
    /\ l.type = "limit" => Tells(f, [c EXCEPT !.limit = TRUE], <<>>)
    /\ l.type = "use" /\ IsRespond(l.tool) => Tells(f, [c EXCEPT !.responds = @ \union {l.tool}], <<>>)
    /\ l.type = "use" /\ ~IsRespond(l.tool) => Tells(f, c, <<Plain("toolCall")>>)
    /\ l.type = "result" /\ l.tool \in c.responds =>
         Tells(f, [c EXCEPT !.responds = @ \ {l.tool}], <<Outcome(l)>>)
    /\ l.type = "result" /\ l.tool \notin c.responds => Tells(f, c, <<Plain("toolResult")>>)
    /\ l.type = "end" => Tells(f, [c EXCEPT !.responds = {}],
                               Why(l.how, IF c.limit THEN "limit" ELSE "error") \o <<Plain("ended")>>)

LEMMA ClaudeSays ==
  ASSUME NEW c \in CodecType, NEW l \in Lines
  PROVE  ClaudeFrame(c, l, ClaudeDecode(c, l))
<1> DEFINE f == ClaudeDecode(c, l)
<1> SUFFICES ClaudeFrame(c, l, f)
  OBVIOUS
<1>0. f = ClaudeDecode(c, l)
  OBVIOUS
<1> HIDE DEF f
<1> USE <1>0 DEF ClaudeFrame
<1>1. CASE l.type \in {"response", "request"}
  BY <1>1, FrameIs, ResponseFrameIs, RequestFrameIs DEF ClaudeDecode, Same, Tells
<1>2. CASE l.type \notin {"response", "request"}
  <2>1. f = ClaudeNormalize(c, l)
    BY <1>2 DEF ClaudeDecode
  <2>2. CASE l.type \in {"start", "limit"}
    <3>1. CASE l.type = "start"
      BY <2>1, <3>1, FrameIs DEF ClaudeNormalize, LimitForgotten, Tells
    <3>2. CASE l.type = "limit"
      BY <2>1, <3>2, FrameIs DEF ClaudeNormalize, Tells
    <3> QED
      BY <2>2, <3>1, <3>2
  <2>3. CASE l.type = "use"
    <3>1. f = ClaudeToolCalls(c, l)
      BY <2>1, <2>3 DEF ClaudeNormalize
    <3> QED
      BY <2>3, <3>1, FrameIs DEF ClaudeToolCalls, Tells
  <2>4. CASE l.type = "result"
    <3>1. f = ClaudeToolResults(c, l)
      BY <2>1, <2>4 DEF ClaudeNormalize
    <3> QED
      BY <2>4, <3>1, FrameIs DEF ClaudeToolResults, Tells
  <2>5. CASE l.type = "end"
    <3> DEFINE d == [c EXCEPT !.responds = {}]
               e == Why(l.how, IF c.limit THEN "limit" ELSE "error") \o <<Plain("ended")>>
    <3>1. f = ClaudeEnd(c, l.how)
      BY <2>1, <2>5 DEF ClaudeNormalize
    <3>2. f = Frame(d, e)
      BY <3>1 DEF ClaudeEnd, ClaudeTurnError
    <3>3. Tells(f, d, e)
      <4> HIDE DEF d, e
      <4> QED
        BY <3>2, FrameIs DEF Tells
    <3> QED
      BY <2>5, <3>3
  <2>6. CASE l.type = "message"
    BY <2>6
  <2> QED
    BY <1>2, <2>2, <2>3, <2>4, <2>5, <2>6 DEF Lines, LineTypes
<1> QED
  BY <1>1, <1>2

PiFrame(c, l, f) ==
    /\ f.codec = c
    /\ l.type = "response" => f.events = <<>> /\ f.response = <<l.call, l.how # "error">>
    /\ l.type # "response" => f.response = <<>>
    /\ l.type = "request" => f.events = <<>>
    /\ l.type = "start" => f.events = <<Plain("started")>>
    /\ l.type = "use" => f.events = When(~IsRespond(l.tool), "toolCall")
    /\ l.type = "result" /\ IsRespond(l.tool) => f.events = <<PiStructured(l)>>
    /\ l.type = "result" /\ ~IsRespond(l.tool) => f.events = <<Plain("toolResult")>>
    /\ l.type = "message" => f.events = Why(l.how, "error")
    /\ l.type = "end" => f.events = <<Plain("ended")>>

LEMMA PiSays ==
  ASSUME NEW c, NEW l \in Lines
  PROVE  PiFrame(c, l, PiDecode(c, l))
<1> DEFINE f == PiDecode(c, l)
<1> SUFFICES PiFrame(c, l, f)
  OBVIOUS
<1>0. f = PiDecode(c, l)
  OBVIOUS
<1> HIDE DEF f
<1> USE <1>0 DEF PiFrame
<1>1. CASE l.type \in {"response", "request"}
  BY <1>1, FrameIs, ResponseFrameIs, RequestFrameIs DEF PiDecode
<1>2. CASE l.type \notin {"response", "request"}
  <2>1. f.codec = c /\ f.events = PiNormalize(l) /\ f.response = <<>>
    BY <1>2, FrameIs DEF PiDecode
  <2> QED
    BY <1>2, <2>1 DEF PiNormalize, PiMessageEnd
<1> QED
  BY <1>1, <1>2

OpenCodeFrame(c, l, f) ==
    /\ l.type = "request" => Same(f, c)
    /\ l.type = "response" => f.response = <<l.call, l.how # "error">>
    /\ l.type = "response" /\ l.call \notin c.prompts =>
         f.events = <<>> /\ f.codec = [c EXCEPT !.loads = @ \ {l.call}]
    /\ l.type = "response" /\ l.call \in c.prompts =>
         /\ f.codec = [c EXCEPT !.prompts = @ \ {l.call}, !.started = FALSE, !.called = {}]
         /\ f.events = When(~c.started, "started") \o Why(l.how, "error") \o <<Plain("ended")>>
    /\ l.type \notin {"request", "response"} =>
         /\ f.response = <<>>
         /\ ~InTurn(c) => Same(f, c)
         /\ InTurn(c) =>
              \E g : /\ f.events = When(~c.started, "started") \o g.events
                     /\ f.codec = [g.codec EXCEPT !.started = TRUE]
                     /\ l.type \notin {"use", "result"} => g = Frame(c, <<>>)
                     /\ l.type \in {"use", "result"} => g = OpenCodeTool(c, l)

LEMMA OpenCodeSays ==
  ASSUME NEW c \in CodecType, NEW l \in Lines
  PROVE  OpenCodeFrame(c, l, OpenCodeDecode(c, l))
<1> DEFINE f == OpenCodeDecode(c, l)
<1> SUFFICES OpenCodeFrame(c, l, f)
  OBVIOUS
<1>0. f = OpenCodeDecode(c, l)
  OBVIOUS
<1> HIDE DEF f
<1> USE <1>0 DEF OpenCodeFrame
<1>1. CASE l.type = "request"
  BY <1>1, RequestFrameIs DEF OpenCodeDecode, Same
<1>2. CASE l.type = "response" /\ l.call \in c.prompts
  <2> DEFINE d == [c EXCEPT !.prompts = @ \ {l.call}, !.started = FALSE, !.called = {}]
             e == When(~c.started, "started") \o Why(l.how, "error") \o <<Plain("ended")>>
  <2>1. f = ResponseFrame(d, l, e)
    BY <1>2 DEF OpenCodeDecode, OpenCodeEnd
  <2>2. f.codec = d /\ f.events = e /\ f.response = <<l.call, l.how # "error">>
    <3> HIDE DEF d, e
    <3> QED
      BY <2>1, ResponseFrameIs
  <2> QED
    BY <1>2, <2>2
<1>3. CASE l.type = "response" /\ l.call \notin c.prompts
  <2>1. f = ResponseFrame([c EXCEPT !.loads = @ \ {l.call}], l, <<>>)
    BY <1>3 DEF OpenCodeDecode
  <2> QED
    BY <1>3, <2>1, ResponseFrameIs
<1>4. CASE l.type \notin {"request", "response"}
  <2>1. f = OpenCodeNotification(c, l)
    BY <1>4 DEF OpenCodeDecode
  <2>2. OpenCodeUpdate(c, l) = IF l.type \in {"use", "result"} THEN OpenCodeTool(c, l) ELSE Frame(c, <<>>)
    BY DEF OpenCodeUpdate
  <2>3. CASE ~InTurn(c)
    <3>1. f = Frame(c, <<>>)
      BY <2>1, <2>3 DEF OpenCodeNotification
    <3>2. Same(f, c)
      BY <3>1, FrameIs DEF Same
    <3>3. f.response = <<>>
      BY <3>2 DEF Same
    <3> QED
      BY <1>4, <2>3, <3>2, <3>3
  <2>4. CASE InTurn(c)
    <3> DEFINE g == OpenCodeUpdate(c, l)
    <3>1. f = Frame([g.codec EXCEPT !.started = TRUE], When(~c.started, "started") \o g.events)
      BY <2>1, <2>4 DEF OpenCodeNotification
    <3>2. /\ l.type \notin {"use", "result"} => g = Frame(c, <<>>)
          /\ l.type \in {"use", "result"} => g = OpenCodeTool(c, l)
      BY <2>2
    <3>3. /\ f.codec = [g.codec EXCEPT !.started = TRUE] /\ f.response = <<>>
          /\ f.events = When(~c.started, "started") \o g.events
      <4> DEFINE d == [g.codec EXCEPT !.started = TRUE]
                 e == When(~c.started, "started") \o g.events
      <4>1. f = Frame(d, e)
        BY <3>1
      <4> HIDE DEF d, e
      <4>2. f.codec = d /\ f.events = e /\ f.response = <<>>
        BY <4>1, FrameIs
      <4> QED
        BY <4>2 DEF d, e
    <3> HIDE DEF g
    <3> QED
      BY <1>4, <2>4, <3>2, <3>3
  <2> QED
    BY <1>4, <2>3, <2>4
<1> QED
  BY <1>1, <1>2, <1>3, <1>4

(***************************************************************************)
(* What is in the output: limits are Claude Code's, messages are Pi's, and *)
(* a response is to a call the harness has told of; what is told of none   *)
(* has no response anywhere.                                               *)
(***************************************************************************)
Said(l) == (l.type = "limit" => harness = "claude") /\ (l.type = "message" => harness = "pi")
SaidInv == \A i \in DOMAIN stdout : Said(stdout[i])
Untold(c) ==
    /\ \A i \in DOMAIN stdout : ~Response(stdout[i], c)
    /\ ~Resolving(c) /\ chan[c] \in {<<>>, <<"exit">>}
ToldInv ==
    /\ \A c \in Calls : c \in told \/ Untold(c)
    /\ \A c \in Calls : call[c] \in {"ok", "refused", "exit"} => chan[c] = <<call[c]>>

LEMMA HarnessAdds ==
  ASSUME AdapterInv, HarnessNext
  PROVE  /\ stdout' \in Seq(Lines) /\ told \subseteq told'
         /\ \A i \in DOMAIN stdout : i \in DOMAIN stdout' /\ stdout'[i] = stdout[i]
         /\ \A i \in DOMAIN stdout' :
              i \in DOMAIN stdout \/ (/\ Said(stdout'[i])
                                      /\ stdout'[i].type = "response" => stdout'[i].call \in told')
<1> DEFINE New(l) == Said(l) /\ (l.type = "response" => l.call \in told')
           Goal == /\ stdout' \in Seq(Lines) /\ told \subseteq told'
                   /\ \A i \in DOMAIN stdout : i \in DOMAIN stdout' /\ stdout'[i] = stdout[i]
                   /\ \A i \in DOMAIN stdout' : i \in DOMAIN stdout \/ New(stdout'[i])
<1>0. stdout \in Seq(Lines)
  BY DEF AdapterInv, LineInv, OutputInv
<1>1. ASSUME stdout' = stdout, told' = told PROVE Goal
  BY <1>0, <1>1
<1>2. ASSUME NEW x \in Lines, Writes(<<x>>), New(x), told \subseteq told' PROVE Goal
  BY <1>0, <1>2, Adds1
<1>3. ASSUME NEW x \in Lines, NEW y \in Lines, Writes(<<x, y>>), New(x), New(y), told \subseteq told' PROVE Goal
  BY <1>0, <1>3, Adds2
<1>4. ASSUME NEW x \in Lines, NEW y \in Lines, NEW z \in Lines, Writes(<<x, y, z>>), New(x), New(y), New(z),
             told \subseteq told'
      PROVE  Goal
  BY <1>0, <1>4, Adds3
<1>5. /\ \A t \in {"start", "use", "result", "end"} : \A l \in Of(t) : l \in Lines /\ New(l)
      /\ \A l \in Lines : l.type = "request" => New(l)
      /\ \A c \in told' : \A how \in {"ok", "error", "aborted"} : \A l \in Answer(c, how) : l \in Lines /\ New(l)
  BY DEF Of, Answer, Said
<1>6. CASE HarnessAnswers
  <2>1. PICK c \in Calls, how \in Hows :
          \E x \in Answer(c, how) :
            /\ told' = told \union {c}
            /\ \/ \E s \in Of("start") : Writes(<<s, x>>)
               \/ Writes(<<x>>)
    BY <1>6, AnswersSay
  <2>2. c \in told' /\ how \in {"ok", "error", "aborted"} /\ told \subseteq told'
    BY <2>1 DEF Hows
  <2> HIDE DEF New, Goal
  <2>3. Goal
    BY <1>2, <1>3, <1>5, <2>1, <2>2
  <2> QED
    BY <2>3 DEF Goal, New
<1>7. CASE HarnessRuns
  <2>1. PICK c \in Inputs :
           \/ told' = told \union {c} /\ \E x \in Answer(c, "error") : Writes(<<x>>)
           \/ told' = told \union {c} /\ \E x \in Answer(c, "ok"), y \in Lines : y.type = "request" /\ Writes(<<x, y>>)
           \/ told' = told /\ ((\E s \in Of("start") : Writes(<<s>>)) \/ stdout' = stdout)
    BY <1>7, RunsSay
  <2>2. told \subseteq told' /\ (told' = told \union {c} => c \in told')
    BY <2>1
  <2> HIDE DEF New, Goal
  <2>3. Goal
    BY <1>1, <1>2, <1>3, <1>5, <2>1, <2>2
  <2> QED
    BY <2>3 DEF Goal, New
<1>8. CASE HarnessStops \/ HarnessExits
  BY <1>1, <1>8 DEF HarnessStops, HarnessExits
<1>9. ASSUME NEW r \in Requests, HarnessHears(r) \/ HarnessFetches(r) PROVE Goal
  <2>1. told' = told /\ (stdout' = stdout \/ \E s \in Of("start") : Writes(<<s>>))
    <3>1. CASE HarnessHears(r)
      <4>1. Line("start") \in Of("start") /\ (Writes(<<>>) => stdout' = stdout)
        BY <1>0, LinesOf DEF LineTypes, Writes
      <4>2. told' = told /\ (Writes(<<Line("start")>>) \/ Writes(<<>>))
        BY <3>1 DEF HarnessHears
      <4> QED
        BY <4>1, <4>2
    <3>2. CASE HarnessFetches(r)
      BY <3>2 DEF HarnessFetches
    <3> QED
      BY <1>9, <3>1, <3>2
  <2> HIDE DEF New, Goal
  <2> QED
    BY <1>1, <1>2, <1>5, <2>1
<1>10. ASSUME NEW r \in Requests, HarnessLists(r) PROVE Goal
  <2>1. told' = told /\ (stdout' = stdout \/ \E x \in Asking(r) : Writes(<<x>>))
    BY <1>10, ListsSay
  <2>2. \A x \in Asking(r) : x \in Lines /\ New(x)
    BY <1>5 DEF Asking
  <2> HIDE DEF New, Goal
  <2> QED
    BY <1>1, <1>2, <2>1, <2>2
<1>11. ASSUME NEW tool \in RespondTools \union {Tool, Permission}, HarnessUses(tool) PROVE Goal
  <2>1. PICK u \in Bears("use", tool), v \in Bears("use", tool), q \in Asking(<<"call", hrun>>) :
           told' = told /\ (Writes(<<u>>) \/ Writes(<<q>>) \/ Writes(<<u, q>>) \/ Writes(<<u, v>>))
    BY <1>11, UsesSay
  <2>2. u \in Lines /\ New(u) /\ v \in Lines /\ New(v) /\ q \in Lines /\ New(q)
    BY <1>5 DEF Bears, Asking, Of, Said
  <2> HIDE DEF New, Goal
  <2> QED
    BY <1>2, <1>3, <2>1, <2>2
<1>12. CASE HarnessReports
  <2>1. told' = told /\ (stdout' = stdout \/ \E l \in Bears("result", body[<<"call", hrun>>]) : Writes(<<l>>))
    BY <1>12, ReportsSay
  <2>2. \A l \in Bears("result", body[<<"call", hrun>>]) : l \in Lines /\ New(l)
    BY <1>5 DEF Bears, Of, Said
  <2> HIDE DEF New, Goal
  <2>3. Goal
    BY <1>1, <1>2, <2>1, <2>2
  <2> QED
    BY <2>3 DEF Goal, New
<1>13. CASE HarnessEnds
  <2>1. PICK e \in Of("end"), m \in Of("limit"), n \in Of("message"), how \in {"ok", "error", "aborted"} :
              \/ /\ harness = "claude" /\ told' = told
                 /\ Writes(<<e>>) \/ Writes(<<m, e>>)
              \/ /\ harness = "opencode" /\ told' = told \union {PromptCall(hrun)}
                 /\ \E x \in Answer(PromptCall(hrun), how) : Writes(<<x>>)
              \/ /\ harness = "pi"
                 /\ \/ told' = told /\ Writes(<<n, e>>)
                    \/ /\ told' = told \union {aborted}
                       /\ \E x \in Answer(aborted, "ok") : Writes(<<n, e, x>>)
    BY <1>13, EndsSay
  <2>2. /\ e \in Lines /\ New(e) /\ m \in Lines /\ n \in Lines
        /\ harness = "claude" => New(m)
        /\ harness = "pi" => New(n)
    BY DEF Of, Said
  <2>3. told \subseteq told'
    BY <2>1
  <2>4. /\ harness = "opencode" => PromptCall(hrun) \in told'
        /\ harness = "pi" /\ told' # told => aborted \in told'
    BY <2>1
  <2> SUFFICES Goal
    OBVIOUS
  <2> HIDE DEF New, Goal
  <2>5. CASE harness = "claude"
    BY <1>2, <1>3, <2>1, <2>2, <2>3, <2>5
  <2>6. CASE harness = "opencode"
    BY <1>2, <1>5, <2>1, <2>3, <2>4, <2>6
  <2>7. CASE harness = "pi" /\ Writes(<<n, e>>)
    BY <1>3, <2>2, <2>3, <2>7
  <2>8. CASE harness = "pi" /\ told' = told \union {aborted} /\ \E x \in Answer(aborted, "ok") : Writes(<<n, e, x>>)
    <3>1. aborted \in told'
      BY <2>8
    <3> QED
      BY <1>4, <1>5, <2>2, <2>3, <2>8, <3>1
  <2> QED
    BY <2>1, <2>5, <2>6, <2>7, <2>8
<1> QED
  BY <1>6, <1>7, <1>8, <1>9, <1>10, <1>11, <1>12, <1>13 DEF HarnessNext

(***************************************************************************)
(* The events of a line.                                                   *)
(***************************************************************************)
Kinds == {"started", "toolCall", "toolResult", "structured", "rejected", "error", "limit", "cancelled", "ended"}
EventType == [kind : Kinds, tool : Tools]

LEMMA EventsAre ==
  /\ \A k \in Kinds : Plain(k) \in EventType /\ Plain(k).kind = k
  /\ \A l \in Lines : /\ Outcome(l) \in EventType
                      /\ \/ Verdict(l) /\ Outcome(l).kind = "structured" /\ Outcome(l).tool = l.tool
                         \/ Outcome(l).kind = "rejected"
  /\ \A l \in Lines : /\ PiStructured(l) \in EventType
                      /\ \/ Verdict(l) /\ PiStructured(l).kind = "structured" /\ PiStructured(l).tool = l.tool
                         \/ PiStructured(l).kind \in {"rejected", "error"}
<1>1. \A k \in Kinds : Plain(k) \in EventType /\ Plain(k).kind = k
  BY DEF Plain, Event, EventType, Tools, Offered
<1>2. ASSUME NEW l \in Lines
      PROVE  /\ Outcome(l) \in EventType
             /\ \/ Verdict(l) /\ Outcome(l).kind = "structured" /\ Outcome(l).tool = l.tool
                \/ Outcome(l).kind = "rejected"
  <2>1. Plain("rejected") \in EventType /\ Plain("rejected").kind = "rejected"
    BY <1>1 DEF Kinds
  <2>2. /\ Event("structured", l.tool) \in EventType
        /\ Event("structured", l.tool).kind = "structured" /\ Event("structured", l.tool).tool = l.tool
    BY DEF Event, EventType, Kinds, Lines
  <2> QED
    BY <2>1, <2>2 DEF Outcome
<1>3. Plain("error") \in EventType /\ Plain("error").kind = "error"
  BY <1>1 DEF Kinds
<1> QED
  BY <1>1, <1>2, <1>3 DEF PiStructured

LEMMA WhyIs ==
  ASSUME NEW how \in {"ok", "error", "aborted"}, NEW k \in {"error", "limit"}
  PROVE  /\ Why(how, k) \in Seq(EventType) /\ Len(Why(how, k)) <= 1
         /\ \A i \in DOMAIN Why(how, k) : Why(how, k)[i].kind \in {"cancelled", k}
<1>1. /\ Plain("cancelled") \in EventType /\ Plain(k) \in EventType
      /\ Plain("cancelled").kind = "cancelled" /\ Plain(k).kind = k
  BY EventsAre DEF Kinds
<1>2. CASE how = "aborted"
  <2>1. Why(how, k) = <<Plain("cancelled")>> \o <<>>
    BY <1>2 DEF Why, When
  <2>2. <<Plain("cancelled")>> \o <<>> = <<Plain("cancelled")>>
    OBVIOUS
  <2> QED
    BY <1>1, <2>1, <2>2
<1>3. CASE how = "error"
  <2>1. Why(how, k) = <<>> \o <<Plain(k)>>
    BY <1>3 DEF Why, When
  <2>2. <<>> \o <<Plain(k)>> = <<Plain(k)>>
    OBVIOUS
  <2> QED
    BY <1>1, <2>1, <2>2
<1>4. CASE how = "ok"
  <2>1. Why(how, k) = <<>> \o <<>>
    BY <1>4 DEF Why, When
  <2>2. <<>> \o <<>> = <<>>
    OBVIOUS
  <2> QED
    BY <2>1, <2>2
<1> QED
  BY <1>2, <1>3, <1>4

LEMMA WhenIs ==
  ASSUME NEW b \in BOOLEAN, NEW k \in Kinds
  PROVE  /\ When(b, k) \in Seq(EventType)
         /\ b => When(b, k) = <<Plain(k)>>
         /\ ~b => When(b, k) = <<>>
<1>1. Plain(k) \in EventType
  BY EventsAre
<1> QED
  BY <1>1 DEF When

ToolFrame(c, l, f) ==
    LET first == l.tool \notin c.called /\ ~IsRespond(l.tool)
    IN  /\ l.type = "use" /\ l.ok => f.codec = [c EXCEPT !.called = @ \union {l.tool}]
                                     /\ f.events = When(first, "toolCall")
        /\ l.type = "use" /\ ~l.ok => f.codec = c /\ f.events = <<>>
        /\ l.type = "result" => f.codec = [c EXCEPT !.called = @ \ {l.tool}]
        /\ l.type = "result" /\ IsRespond(l.tool) => f.events = <<>> \o <<Outcome(l)>>
        /\ l.type = "result" /\ ~IsRespond(l.tool) =>
             f.events = When(first, "toolCall") \o <<Plain("toolResult")>>

LEMMA OpenCodeToolSays ==
  ASSUME NEW c \in CodecType, NEW l \in Lines, l.type \in {"use", "result"}
  PROVE  ToolFrame(c, l, OpenCodeTool(c, l))
<1> DEFINE f == OpenCodeTool(c, l)
           first == l.tool \notin c.called /\ ~IsRespond(l.tool)
<1> SUFFICES ToolFrame(c, l, f)
  OBVIOUS
<1>0. f = OpenCodeTool(c, l)
  OBVIOUS
<1> HIDE DEF f
<1> USE <1>0 DEF ToolFrame
<1>1. CASE l.type = "use" /\ l.ok
  <2>1. f = Frame(CallMarked(c, l), When(first, "toolCall"))
    BY <1>1 DEF OpenCodeTool
  <2> QED
    BY <1>1, <2>1, FrameIs DEF CallMarked
<1>2. CASE l.type = "use" /\ ~l.ok
  <2>1. f = Frame(c, <<>>)
    BY <1>2 DEF OpenCodeTool
  <2> QED
    BY <1>2, <2>1, FrameIs
<1>3. CASE l.type = "result"
  <2> DEFINE d == [c EXCEPT !.called = @ \ {l.tool}]
             e == When(first, "toolCall") \o <<IF IsRespond(l.tool) THEN Outcome(l) ELSE Plain("toolResult")>>
  <2>1. f = Frame(d, e)
    BY <1>3 DEF OpenCodeTool
  <2>2. f.codec = d /\ f.events = e
    <3> HIDE DEF d, e
    <3> QED
      BY <2>1, FrameIs
  <2>3. IsRespond(l.tool) => e = <<>> \o <<Outcome(l)>>
    BY DEF When
  <2>4. ~IsRespond(l.tool) => e = When(first, "toolCall") \o <<Plain("toolResult")>>
    OBVIOUS
  <2> QED
    BY <1>3, <2>2, <2>3, <2>4
<1> QED
  BY <1>1, <1>2, <1>3

LEMMA DecodeTyped ==
  ASSUME HeldInv, CodecInv, NEW l \in Lines, Said(l), NEW f, f = Decode(harness, codec, l)
  PROVE  /\ f.events \in Seq(EventType) /\ f.codec \in CodecType /\ f.codec.prompts \subseteq codec.prompts
         /\ harness # "opencode" => f.codec.prompts = {} /\ f.codec.called = {} /\ ~f.codec.started
         /\ l.type = "response" => f.response = <<l.call, l.how # "error">>
         /\ l.type # "response" => f.response = <<>>
<1>0. codec \in CodecType /\ l.how \in {"ok", "error", "aborted"} /\ l.tool \in Tools /\ l.type \in LineTypes
  BY DEF CodecInv, Lines
<1>1. <<>> \in Seq(EventType) /\ \A e \in EventType : <<e>> \in Seq(EventType)
  OBVIOUS
<1>2. \A k \in Kinds : <<Plain(k)>> \in Seq(EventType)
  BY <1>1, EventsAre
<1>3. <<Outcome(l)>> \in Seq(EventType) /\ <<PiStructured(l)>> \in Seq(EventType)
  BY <1>1, EventsAre
<1>4. \A s, t \in Seq(EventType) : s \o t \in Seq(EventType)
  OBVIOUS
<1>5. \A b \in BOOLEAN, k \in Kinds : When(b, k) \in Seq(EventType)
  BY WhenIs
<1>6. \A k \in {"error", "limit"} : Why(l.how, k) \in Seq(EventType)
  BY <1>0, WhyIs
<1>7. CASE harness = "claude"
  <2>0. l.type # "message"
    BY <1>7 DEF Said
  <2>1. ClaudeFrame(codec, l, f)
    BY <1>0, <1>7, ClaudeSays DEF Decode
  <2>2. codec.prompts = {} /\ codec.called = {} /\ ~codec.started
    BY <1>7 DEF CodecInv
  <2>3. CASE l.type \in {"response", "request"}
    BY <1>0, <1>1, <1>7, <2>1, <2>2, <2>3 DEF ClaudeFrame, Same
  <2>4. CASE l.type \in {"start", "limit"}
    <3>1. \A b \in BOOLEAN : /\ [codec EXCEPT !.limit = b] \in CodecType
                             /\ [codec EXCEPT !.limit = b].prompts = codec.prompts
                             /\ [codec EXCEPT !.limit = b].called = codec.called
                             /\ [codec EXCEPT !.limit = b].started = codec.started
      BY <1>0 DEF CodecType
    <3>2. f.response = <<>> /\ f.events \in Seq(EventType) /\ \E b \in BOOLEAN : f.codec = [codec EXCEPT !.limit = b]
      BY <1>0, <1>1, <1>2, <2>1, <2>4 DEF ClaudeFrame, Tells, Kinds
    <3> QED
      BY <2>2, <2>4, <3>1, <3>2
  <2>5. CASE l.type \in {"use", "result", "end"}
    <3>1. \A R \in SUBSET RespondTools :
            /\ [codec EXCEPT !.responds = R] \in CodecType
            /\ [codec EXCEPT !.responds = R].prompts = codec.prompts
            /\ [codec EXCEPT !.responds = R].called = codec.called
            /\ [codec EXCEPT !.responds = R].started = codec.started
      BY <1>0 DEF CodecType
    <3>2. codec.responds \in SUBSET RespondTools
      BY <1>0 DEF CodecType
    <3>3. CASE l.type = "use"
      <4>1. IsRespond(l.tool) => codec.responds \union {l.tool} \in SUBSET RespondTools
        BY <3>2 DEF IsRespond
      <4>2. f.response = <<>> /\ f.events \in {<<>>, <<Plain("toolCall")>>}
        BY <2>1, <3>3 DEF ClaudeFrame, Tells
      <4>3. \E R \in SUBSET RespondTools : f.codec \in {codec, [codec EXCEPT !.responds = R]}
        BY <2>1, <3>2, <3>3, <4>1 DEF ClaudeFrame, Tells
      <4> QED
        BY <1>0, <1>1, <1>2, <2>2, <3>1, <3>3, <4>2, <4>3 DEF Kinds
    <3>4. CASE l.type = "result"
      <4>1. codec.responds \ {l.tool} \in SUBSET RespondTools
        BY <3>2
      <4>2. f.response = <<>> /\ f.events \in {<<Outcome(l)>>, <<Plain("toolResult")>>}
        BY <2>1, <3>4 DEF ClaudeFrame, Tells
      <4>3. \E R \in SUBSET RespondTools : f.codec \in {codec, [codec EXCEPT !.responds = R]}
        BY <2>1, <3>2, <3>4, <4>1 DEF ClaudeFrame, Tells
      <4> QED
        BY <1>0, <1>1, <1>2, <1>3, <2>2, <3>1, <3>4, <4>2, <4>3 DEF Kinds
    <3>5. CASE l.type = "end"
      <4> DEFINE e == Why(l.how, IF codec.limit THEN "limit" ELSE "error") \o <<Plain("ended")>>
      <4>1. e \in Seq(EventType)
        BY <1>2, <1>4, <1>6 DEF Kinds
      <4>2. f.response = <<>> /\ f.events = e /\ f.codec = [codec EXCEPT !.responds = {}]
        BY <2>1, <3>5 DEF ClaudeFrame, Tells
      <4> HIDE DEF e
      <4>3. {} \in SUBSET RespondTools
        OBVIOUS
      <4>4. f.codec \in CodecType /\ f.codec.prompts = {} /\ f.codec.called = {} /\ ~f.codec.started
        BY <2>2, <3>1, <4>2, <4>3
      <4>5. f.events \in Seq(EventType) /\ f.response = <<>>
        BY <4>1, <4>2
      <4> QED
        BY <3>5, <4>4, <4>5
    <3> QED
      BY <2>5, <3>3, <3>4, <3>5
  <2> QED
    BY <1>0, <2>0, <2>3, <2>4, <2>5 DEF LineTypes
<1>8. CASE harness = "pi"
  <2>0. l.type # "limit"
    BY <1>8 DEF Said
  <2>1. PiFrame(codec, l, f)
    BY <1>8, PiSays DEF Decode
  <2>2. codec.prompts = {} /\ codec.called = {} /\ ~codec.started
    BY <1>8 DEF CodecInv
  <2>3. f.codec = codec /\ (l.type # "response" => f.response = <<>>)
        /\ (l.type = "response" => f.response = <<l.call, l.how # "error">>)
    BY <2>1 DEF PiFrame
  <2>4. f.events \in Seq(EventType)
    <3>1. CASE l.type \in {"response", "request", "start", "end", "result"}
      BY <1>1, <1>2, <1>3, <2>1, <3>1 DEF PiFrame, Kinds
    <3>2. CASE l.type \in {"use", "message"}
      BY <1>5, <1>6, <2>1, <3>2 DEF PiFrame, Kinds, IsRespond
    <3> QED
      BY <1>0, <2>0, <3>1, <3>2 DEF LineTypes
  <2> QED
    BY <1>0, <2>2, <2>3, <2>4
<1>9. CASE harness = "opencode"
  <2>1. OpenCodeFrame(codec, l, f)
    BY <1>0, <1>9, OpenCodeSays DEF Decode
  <2>2. CASE l.type = "request"
    BY <1>0, <1>1, <1>9, <2>1, <2>2 DEF OpenCodeFrame, Same
  <2>3. CASE l.type = "response" /\ l.call \notin codec.prompts
    <3>1. f.codec = [codec EXCEPT !.loads = @ \ {l.call}] /\ f.events = <<>> /\ f.response = <<l.call, l.how # "error">>
      BY <1>0, <2>1, <2>3 DEF OpenCodeFrame
    <3>2. f.codec \in CodecType /\ f.codec.prompts = codec.prompts
      BY <1>0, <3>1 DEF CodecType
    <3> QED
      BY <1>1, <1>9, <2>3, <3>1, <3>2
  <2>4. CASE l.type = "response" /\ l.call \in codec.prompts
    <3>1. /\ f.codec = [codec EXCEPT !.prompts = @ \ {l.call}, !.started = FALSE, !.called = {}]
          /\ f.events = When(~codec.started, "started") \o Why(l.how, "error") \o <<Plain("ended")>>
          /\ f.response = <<l.call, l.how # "error">>
      BY <1>0, <2>1, <2>4 DEF OpenCodeFrame
    <3>2. f.codec \in CodecType /\ f.codec.prompts \subseteq codec.prompts
      <4>1. f.codec = [codec EXCEPT !.prompts = codec.prompts \ {l.call}, !.started = FALSE, !.called = {}]
        BY <3>1
      <4>2. codec.prompts \ {l.call} \in SUBSET Calls /\ {} \in SUBSET Tools
        BY <1>0 DEF CodecType
      <4>3. f.codec.prompts = codec.prompts \ {l.call}
        BY <1>0, <4>1 DEF CodecType
      <4>4. f.codec \in CodecType
        BY <1>0, <4>1, <4>2 DEF CodecType
      <4> QED
        BY <4>3, <4>4
    <3>3. f.events \in Seq(EventType)
      <4>1. When(~codec.started, "started") \o Why(l.how, "error") \in Seq(EventType)
        BY <1>0, <1>4, <1>5, <1>6 DEF CodecType, Kinds
      <4> QED
        BY <1>2, <1>4, <3>1, <4>1 DEF Kinds
    <3> QED
      BY <1>9, <2>4, <3>1, <3>2, <3>3
  <2>5. CASE l.type \notin {"request", "response"} /\ ~InTurn(codec)
    BY <1>0, <1>1, <1>9, <2>1, <2>5 DEF OpenCodeFrame, Same
  <2>6. CASE l.type \notin {"request", "response"} /\ InTurn(codec)
    <3>1. PICK g : /\ f.events = When(~codec.started, "started") \o g.events
                   /\ f.codec = [g.codec EXCEPT !.started = TRUE]
                   /\ l.type \notin {"use", "result"} => g = Frame(codec, <<>>)
                   /\ l.type \in {"use", "result"} => g = OpenCodeTool(codec, l)
      BY <1>0, <2>1, <2>6 DEF OpenCodeFrame
    <3>2. f.response = <<>>
      BY <1>0, <2>1, <2>6 DEF OpenCodeFrame
    <3>3. g.codec \in CodecType /\ g.codec.prompts = codec.prompts /\ g.events \in Seq(EventType)
      <4>1. CASE l.type \notin {"use", "result"}
        <5>1. g.codec = codec /\ g.events = <<>>
          BY <3>1, <4>1, FrameIs
        <5> QED
          BY <1>0, <1>1, <5>1
      <4>2. CASE l.type \in {"use", "result"}
        <5> DEFINE first == l.tool \notin codec.called /\ ~IsRespond(l.tool)
        <5>0. first \in BOOLEAN /\ "toolCall" \in Kinds /\ "toolResult" \in Kinds
          BY DEF Kinds, IsRespond
        <5>1. When(first, "toolCall") \in Seq(EventType) /\ <<Plain("toolResult")>> \in Seq(EventType)
          BY <1>2, <1>5, <5>0
        <5>2. /\ g.events \in {<<>>, When(first, "toolCall"), <<>> \o <<Outcome(l)>>,
                               When(first, "toolCall") \o <<Plain("toolResult")>>}
              /\ \E C \in SUBSET Tools : g.codec = [codec EXCEPT !.called = C]
          <6>1. /\ codec.called \union {l.tool} \in SUBSET Tools /\ codec.called \ {l.tool} \in SUBSET Tools
                /\ codec.called \in SUBSET Tools /\ codec = [codec EXCEPT !.called = codec.called]
            BY <1>0 DEF CodecType
          <6>2. ToolFrame(codec, l, g)
            BY <1>0, <3>1, <4>2, OpenCodeToolSays
          <6> QED
            BY <1>0, <4>2, <6>1, <6>2 DEF ToolFrame, Lines
        <5>3. g.events \in Seq(EventType)
          BY <1>1, <1>3, <1>4, <5>1, <5>2
        <5> QED
          BY <1>0, <5>2, <5>3 DEF CodecType
      <4> QED
        BY <4>1, <4>2
    <3>4. f.events \in Seq(EventType)
      <4>1. When(~codec.started, "started") \in Seq(EventType)
        BY <1>5 DEF Kinds
      <4> QED
        BY <1>4, <3>1, <3>3, <4>1
    <3>5. f.codec \in CodecType /\ f.codec.prompts = codec.prompts
      BY <3>1, <3>3 DEF CodecType
    <3> QED
      BY <1>9, <2>6, <3>2, <3>4, <3>5
  <2> QED
    BY <2>2, <2>3, <2>4, <2>5, <2>6
<1> QED
  BY <1>7, <1>8, <1>9 DEF HeldInv, StepType, Harnesses

(***************************************************************************)
(* What a turn tells: the events pushed, and those read is about to push.  *)
(***************************************************************************)
Told0 == IF reader = "resolve" THEN seen \o hand.events ELSE seen
EventsInv == seen \in Seq(EventType) /\ (reader = "resolve" => hand.events \in Seq(EventType))
FramesInv == SaidInv /\ ToldInv /\ CodecInv /\ EventsInv

LEMMA TellsTyped ==
  ASSUME EventsInv
  PROVE  Told0 \in Seq(EventType)
BY DEF EventsInv, Told0

LEMMA Dispatched ==
  ASSUME AdapterInv, SaidInv, CodecInv, EventsInv, Dispatch
  PROVE  /\ stdout # <<>> /\ 1 \in DOMAIN stdout /\ stdout[1] \in Lines /\ Said(stdout[1]) /\ stdout' \in Seq(Lines)
         /\ \A i \in DOMAIN stdout : i = 1 \/ (i - 1 \in DOMAIN stdout' /\ stdout'[i - 1] = stdout[i])
         /\ \A i \in DOMAIN stdout' : i + 1 \in DOMAIN stdout /\ stdout'[i] = stdout[i + 1] /\ i \in Nat /\ i + 1 # 1
         /\ reader = "read" /\ Told0 = seen /\ UNCHANGED <<harness, alive, asked, stdin, failed, call, chan, over>>
         /\ \E f : /\ f = Decode(harness, codec, stdout[1]) /\ codec' = f.codec /\ codec' \in CodecType
                   /\ codec'.prompts \subseteq codec.prompts
                   /\ f.events \in Seq(EventType) /\ Told0' = Told0 \o f.events
                   /\ harness # "opencode" => codec'.prompts = {} /\ codec'.called = {} /\ ~codec'.started
                   /\ stdout[1].type = "response" => f.response = <<stdout[1].call, stdout[1].how # "error">>
                   /\ stdout[1].type # "response" => f.response = <<>>
                   /\ \/ reader' = "resolve" /\ hand' = f /\ f.response # <<>> /\ seen' = seen
                      \/ reader' = "read" /\ seen' = seen \o f.events
<1>0. stdout \in Seq(Lines) /\ stdout # <<>>
  BY DEF AdapterInv, LineInv, OutputInv, Dispatch
<1>1. /\ 1 \in DOMAIN stdout /\ Head(stdout) = stdout[1] /\ stdout[1] \in Lines
      /\ stdout' = Tail(stdout) /\ reader = "read"
      /\ UNCHANGED <<harness, alive, asked, stdin, failed, call, chan, over>>
  BY <1>0, Rest DEF Dispatch
<1>2. /\ stdout' \in Seq(Lines)
      /\ \A i \in DOMAIN stdout : i = 1 \/ (i - 1 \in DOMAIN stdout' /\ stdout'[i - 1] = stdout[i])
      /\ \A i \in DOMAIN stdout' : i + 1 \in DOMAIN stdout /\ stdout'[i] = stdout[i + 1] /\ i \in Nat /\ i + 1 # 1
  BY <1>0, <1>1, Rest
<1>3. Said(stdout[1])
  BY <1>1 DEF SaidInv
<1> DEFINE f == Decode(harness, codec, stdout[1])
<1>4. /\ codec' = f.codec
      /\ \/ reader' = "resolve" /\ hand' = f /\ f.response # <<>> /\ seen' = seen
         \/ reader' = "read" /\ seen' = seen \o f.events
  BY <1>1 DEF Dispatch
<1> HIDE DEF f
<1>5. /\ f.events \in Seq(EventType) /\ f.codec \in CodecType /\ f.codec.prompts \subseteq codec.prompts
      /\ harness # "opencode" => f.codec.prompts = {} /\ f.codec.called = {} /\ ~f.codec.started
      /\ stdout[1].type = "response" => f.response = <<stdout[1].call, stdout[1].how # "error">>
      /\ stdout[1].type # "response" => f.response = <<>>
  BY <1>1, <1>3, DecodeTyped DEF AdapterInv, f
<1>6. Told0 = seen /\ Told0' = Told0 \o f.events
  BY <1>1, <1>4 DEF Told0
<1> QED
  BY <1>0, <1>1, <1>2, <1>3, <1>4, <1>5, <1>6 DEF f

(* Taking the response to the front is all resolving does.                 *)
LEMMA Resolved ==
  ASSUME AdapterInv, EventsInv, Resolve
  PROVE  /\ reader = "resolve" /\ reader' = "read" /\ Told0' = Told0 /\ seen' = Told0
         /\ hand.response[1] \in Calls /\ chan[hand.response[1]] = <<>>
         /\ \E v \in {"ok", "refused"} : chan' = [chan EXCEPT ![hand.response[1]] = <<v>>]
         /\ \A c \in Calls : c # hand.response[1] => chan'[c] = chan[c]
         /\ chan'[hand.response[1]] = IF hand.response[2] THEN <<"ok">> ELSE <<"refused">>
         /\ UNCHANGED <<harness, alive, asked, stdin, stdout, call, codec, over>>
<1>1. /\ reader = "resolve" /\ hand.response[1] \in Calls /\ chan \in [Calls -> Responses]
      /\ chan[hand.response[1]] = <<>>
  BY DEF Resolve, AdapterInv, ClientInv, CallsInv, CallOnce, Resolving
<1>2. chan' = [chan EXCEPT ![hand.response[1]] = Append(<<>>, IF hand.response[2] THEN "ok" ELSE "refused")]
  BY <1>1 DEF Resolve
<1>3. Append(<<>>, "ok") = <<"ok">> /\ Append(<<>>, "refused") = <<"refused">>
  OBVIOUS
<1>4. /\ \A c \in Calls : c # hand.response[1] => chan'[c] = chan[c]
      /\ chan'[hand.response[1]] = IF hand.response[2] THEN <<"ok">> ELSE <<"refused">>
      /\ \E v \in {"ok", "refused"} : chan' = [chan EXCEPT ![hand.response[1]] = <<v>>]
  BY <1>1, <1>2, <1>3
<1>5. reader' = "read" /\ seen' = seen \o hand.events
      /\ UNCHANGED <<harness, alive, asked, stdin, stdout, call, codec, over>>
  BY DEF Resolve, processVars
<1> QED
  BY <1>1, <1>4, <1>5 DEF Told0

LEMMA OutputMoves ==
  ASSUME AdapterInv, [Next]_vars
  PROVE  \/ HarnessNext
         \/ Dispatch /\ UNCHANGED <<harness, ex, prompting, closing, step, harnessVars, body>>
         \/ stdout' = stdout /\ UNCHANGED <<harness, harnessVars, body>>
<1>1. CASE Opened \/ Noted \/ Closed \/ Prompting \/ \E c \in Calls : Begun(c) \/ Waiting(c)
  BY <1>1 DEF Opened, Noted, Closed, Prompting, Begun, Waiting, WriteCall, Return, Forget, processVars
<1>2. CASE Reading
  <2>1. harness' = harness /\ (Dispatch \/ stdout' = stdout)
    BY <1>2 DEF Reading, ReaderNext, Dispatch, Resolve, Shutdown, EventsClose, processVars
  <2> QED
    BY <1>2, <2>1 DEF Reading
<1> QED
  BY <1>1, <1>2, TurnStep DEF AdapterInv, turnVars, processVars

LEMMA SaidKept ==
  ASSUME AdapterInv, SaidInv, CodecInv, EventsInv, [Next]_vars
  PROVE  SaidInv'
<1>0. harness' = harness
  BY HarnessStays
<1>1. CASE HarnessNext
  BY <1>0, <1>1, HarnessAdds DEF SaidInv, Said
<1>2. CASE Dispatch
  BY <1>0, <1>2, Dispatched DEF SaidInv, Said
<1>3. CASE stdout' = stdout
  BY <1>0, <1>3 DEF SaidInv, Said
<1> QED
  BY <1>1, <1>2, <1>3, OutputMoves

(* The channels and what is in read's hand change with reading alone.      *)
LEMMA ChannelsRest ==
  ASSUME AdapterInv, [Next]_vars, ~Reading
  PROVE  /\ chan' = chan /\ UNCHANGED <<hand, over>>
         /\ \A c : Resolving(c)' <=> Resolving(c)
         /\ reader' = "resolve" <=> reader = "resolve"
<1>1. CASE Opened
  <2>1. step \in Starting => reader = "none"
    BY DEF AdapterInv, ClientInv, ReaderInv
  <2>2. UNCHANGED reader \/ (reader = "none" /\ reader' = "read")
    BY <1>1, <2>1 DEF Opened
  <2> QED
    BY <1>1, <2>2 DEF Opened, Resolving, callVars
<1>2. CASE Noted \/ Closed
  BY <1>2 DEF Noted, Closed, Resolving, callVars, readVars
<1>3. CASE Prompting
  BY <1>3 DEF Prompting, PromptNext, Prompt, PromptSets, PromptWaits, PromptSends, ClaudeSends, CallSends, Begin,
     Prompted, ExchangeOver, clientVars, readVars, callVars, Resolving
<1>4. CASE \E c \in Calls : Begun(c) \/ Waiting(c)
  BY <1>4 DEF Begun, Begin, Waiting, WriteCall, Return, Forget, Resolving, readVars
<1>5. CASE HarnessNext
  BY <1>5, HarnessFrame DEF Resolving, callVars, readVars
<1>6. CASE UNCHANGED turnVars
  BY <1>6 DEF turnVars, callVars, readVars, Resolving
<1> QED
  BY <1>1, <1>2, <1>3, <1>4, <1>5, <1>6, TurnStep DEF AdapterInv

LEMMA OutputRests ==
  ASSUME AdapterInv, [Next]_vars, ~Reading, ~HarnessNext
  PROVE  stdout' = stdout /\ UNCHANGED <<harness, harnessVars, body>> /\ told' = told
<1>1. CASE Opened \/ Noted \/ Closed \/ Prompting \/ \E c \in Calls : Begun(c) \/ Waiting(c)
  BY <1>1 DEF Opened, Noted, Closed, Prompting, Begun, Waiting, WriteCall, Return, Forget, processVars, harnessVars
<1> QED
  BY <1>1, TurnStep DEF AdapterInv, turnVars, processVars, harnessVars

LEMMA ToldKept ==
  ASSUME AdapterInv, FramesInv, [Next]_vars
  PROVE  ToldInv'
<1>0. SaidInv /\ ToldInv /\ CodecInv /\ EventsInv
  BY DEF FramesInv
<1>t. call \in [Calls -> CallPC] /\ chan \in [Calls -> Responses]
  BY DEF AdapterInv, ClientInv, CallsInv
<1>1. ASSUME NEW c \in Calls, c \notin told'
      PROVE  Untold(c)'
  <2>1. CASE HarnessNext
    <3>1. told \subseteq told' /\ \A i \in DOMAIN stdout' : ~Response(stdout'[i], c)
      <4>1. \A i \in DOMAIN stdout : ~Response(stdout[i], c)
        BY <1>0, <1>1, <2>1, HarnessAdds DEF ToldInv, Untold
      <4> QED
        BY <1>1, <2>1, <4>1, HarnessAdds DEF Response
    <3>2. chan' = chan /\ reader' = reader /\ hand' = hand
      BY <2>1, HarnessFrame DEF callVars, readVars
    <3> QED
      BY <1>0, <1>1, <3>1, <3>2 DEF ToldInv, Untold, Resolving
  <2>2. CASE Reading
    <3>0. Untold(c)
      BY <1>0, <1>1, <2>2 DEF ToldInv, Reading, ReaderNext, harnessVars
    <3>1. CASE Dispatch
      <4>1. chan' = chan /\ stdout[1].type = "response" => stdout[1].call # c
        BY <1>0, <3>0, <3>1, Dispatched DEF Untold, Response
      <4>2. \A i \in DOMAIN stdout' : ~Response(stdout'[i], c)
        BY <1>0, <3>0, <3>1, Dispatched DEF Untold, Response
      <4>3. ~Resolving(c)'
        <5>1. PICK f : /\ stdout[1].type = "response" => f.response = <<stdout[1].call, stdout[1].how # "error">>
                       /\ stdout[1].type # "response" => f.response = <<>>
                       /\ (reader' = "resolve" /\ hand' = f /\ f.response # <<>>) \/ reader' = "read"
          BY <1>0, <3>1, Dispatched
        <5>2. <<stdout[1].call, stdout[1].how # "error">>[1] = stdout[1].call
          OBVIOUS
        <5> QED
          BY <4>1, <5>1, <5>2, <1>0, <3>0, <3>1, Dispatched DEF Resolving, Untold, Response
      <4>4. chan' = chan
        BY <1>0, <3>1, Dispatched
      <4> QED
        BY <3>0, <4>2, <4>3, <4>4 DEF Untold
    <3>2. CASE Resolve
      BY <1>0, <3>0, <3>2, Resolved DEF Untold, Resolving
    <3>3. CASE Shutdown
      <4>1. reader' = "wait" /\ stdout' = stdout /\ chan'[c] \in {chan[c], Append(chan[c], "exit")}
            /\ (chan'[c] = chan[c] \/ c \in pending)
        BY <3>3 DEF Shutdown, FailsOpen, processVars
      <4>2. c \in pending => chan[c] = <<>>
        BY DEF AdapterInv, ClientInv, CallsInv, CallOnce
      <4>3. Append(<<>>, "exit") = <<"exit">>
        OBVIOUS
      <4> QED
        BY <3>0, <4>1, <4>2, <4>3 DEF Untold, Resolving
    <3>4. CASE EventsClose
      BY <3>0, <3>4 DEF EventsClose, processVars, callVars, Untold, Resolving
    <3> QED
      BY <2>2, <3>1, <3>2, <3>3, <3>4 DEF Reading, ReaderNext
  <2>3. CASE ~Reading /\ ~HarnessNext
    <3>1. chan' = chan /\ (Resolving(c)' <=> Resolving(c))
      BY <2>3, ChannelsRest
    <3>2. stdout' = stdout /\ told' = told
      BY <2>3, OutputRests
    <3> QED
      BY <1>0, <1>1, <3>1, <3>2 DEF ToldInv, Untold
  <2> QED
    BY <2>1, <2>2, <2>3
<1>2. ASSUME NEW c \in Calls, call'[c] \in {"ok", "refused", "exit"}
      PROVE  chan'[c] = <<call'[c]>>
  <2>1. CASE call'[c] = call[c]
    <3>1. chan[c] = <<call[c]>> /\ chan[c] # <<>>
      BY <1>0, <1>2, <2>1 DEF ToldInv
    <3>2. chan'[c] = chan[c]
      <4>1. CASE ~Reading
        BY <4>1, ChannelsRest
      <4>2. CASE Reading
        <5>1. c \in pending \/ Resolving(c) => chan[c] = <<>>
          BY DEF AdapterInv, ClientInv, CallsInv, CallOnce
        <5>2. CASE Dispatch \/ EventsClose
          BY <5>2 DEF Dispatch, EventsClose, callVars
        <5>3. CASE Resolve
          BY <1>0, <3>1, <5>3, Resolved
        <5>4. CASE Shutdown
          BY <3>1, <5>1, <5>4 DEF Shutdown, FailsOpen
        <5> QED
          BY <4>2, <5>2, <5>3, <5>4 DEF Reading, ReaderNext
      <4> QED
        BY <4>1, <4>2
    <3> QED
      BY <2>1, <3>1, <3>2
  <2>2. CASE call'[c] # call[c]
    <3>1. Return(c) /\ chan' = chan
      <4>1. CASE UNCHANGED callsVars \/ Dispatch \/ Resolve \/ Shutdown \/ EventsClose
        BY <2>2, <4>1 DEF callsVars, callVars, Dispatch, Resolve, Shutdown, EventsClose
      <4>2. ASSUME NEW d \in Calls, Begin(d) \/ WriteCall(d) \/ Forget(d)
            PROVE  FALSE
        BY <1>t, <1>2, <2>2, <4>2 DEF Begin, WriteCall, Forget
      <4>3. ASSUME NEW d \in Calls, Return(d)
            PROVE  d = c /\ chan' = chan
        BY <1>t, <2>2, <4>3 DEF Return
      <4>4. CASE step \in Starting /\ StartProcess /\ UNCHANGED callVars
        BY <2>2, <4>4 DEF callVars
      <4> QED
        BY <4>1, <4>2, <4>3, <4>4, CallsStep DEF AdapterInv, ClientInv
    <3>2. chan[c] \in {<<"ok">>, <<"refused">>, <<"exit">>} /\ call'[c] = Head(chan[c])
      BY <1>t, <3>1 DEF Return, Responses
    <3> QED
      BY <3>1, <3>2
  <2> QED
    BY <2>1, <2>2
<1> QED
  BY <1>1, <1>2 DEF ToldInv

LEMMA CodecMoves ==
  ASSUME AdapterInv, [Next]_vars
  PROVE  \/ codec' = codec \/ Dispatch
         \/ Prompting /\ PromptSends /\ CallSends /\ closing = "no" /\ Begin(PromptCall(ex))
            /\ PromptCall(ex) \in Calls /\ call[PromptCall(ex)] = "none"
         \/ \E c \in Calls : Begun(c)
<1>1. CASE Opened \/ Noted \/ Closed \/ HarnessNext \/ \E c \in Calls : Waiting(c)
  BY <1>1, HarnessFrame DEF Opened, Noted, Closed, Waiting, WriteCall, Return, Forget, readVars
<1>2. CASE Reading
  BY <1>2 DEF Reading, ReaderNext, Resolve, Shutdown, EventsClose
<1>3. CASE Prompting
  <2>1. CASE PromptSends /\ CallSends /\ closing = "no"
    <3>1. prompting = "send" /\ Begin(PromptCall(ex))
      BY <2>1 DEF PromptSends, CallSends
    <3>2. PromptCall(ex) \in Calls /\ call[PromptCall(ex)] = "none"
      BY <3>1, CallsAre, WantsAre DEF AdapterInv, PromptInv, ExchangeInv, ClientInv, UnbegunInv
    <3> QED
      BY <1>3, <2>1, <3>1, <3>2
  <2>2. CASE PromptSends /\ ~(CallSends /\ closing = "no")
    BY <2>2 DEF PromptSends, ClaudeSends, CallSends, readVars
  <2>3. CASE ~PromptSends
    BY <1>3, <2>3 DEF Prompting, PromptNext, Prompt, PromptSets, PromptWaits, Prompted, ExchangeOver, clientVars, readVars
  <2> QED
    BY <2>1, <2>2, <2>3
<1> QED
  BY <1>1, <1>2, <1>3, TurnStep DEF AdapterInv, turnVars, readVars

(* What encoding a call notes.                                             *)
LEMMA Encodes ==
  ASSUME CodecInv, NEW c \in Calls, codec' = Encode(harness, codec, c)
  PROVE  /\ codec' \in CodecType
         /\ codec'.called = codec.called /\ codec'.responds = codec.responds /\ codec'.limit = codec.limit
         /\ harness = "opencode" /\ c[1] = "prompt" =>
              codec'.prompts = codec.prompts \union {c} /\ ~codec'.started
         /\ ~(harness = "opencode" /\ c[1] = "prompt") =>
              codec'.prompts = codec.prompts /\ codec'.started = codec.started
<1>0. codec \in CodecType
  BY DEF CodecInv
<1>1. CASE harness # "opencode"
  BY <1>0, <1>1 DEF Encode
<1>2. CASE harness = "opencode" /\ c[1] = "prompt"
  <2>1. codec' = [codec EXCEPT !.prompts = @ \union {c}, !.started = FALSE]
    BY <1>2 DEF Encode, OpenCodeEncode
  <2>2. codec.prompts \union {c} \in SUBSET Calls /\ FALSE \in BOOLEAN
    BY <1>0 DEF CodecType
  <2>3. codec' = [codec EXCEPT !.prompts = codec.prompts \union {c}, !.started = FALSE]
    BY <2>1
  <2>4. codec' \in CodecType
    BY <1>0, <2>2, <2>3 DEF CodecType
  <2>5. /\ codec'.called = codec.called /\ codec'.responds = codec.responds /\ codec'.limit = codec.limit
        /\ codec'.prompts = codec.prompts \union {c} /\ codec'.started = FALSE
    BY <1>0, <2>3 DEF CodecType
  <2> QED
    BY <1>2, <2>4, <2>5
<1>3. CASE harness = "opencode" /\ c[1] = "load"
  <2>1. codec' = [codec EXCEPT !.loads = @ \union {c}]
    BY <1>3 DEF Encode, OpenCodeEncode
  <2> QED
    BY <1>0, <1>3, <2>1 DEF CodecType
<1>4. CASE harness = "opencode" /\ c[1] # "load" /\ c[1] # "prompt"
  <2>1. codec' = codec
    BY <1>4 DEF Encode, OpenCodeEncode
  <2> QED
    BY <1>0, <1>4, <2>1
<1> QED
  BY <1>1, <1>2, <1>3, <1>4

LEMMA CodecKept ==
  ASSUME AdapterInv, SaidInv, CodecInv, EventsInv, [Next]_vars
  PROVE  CodecInv'
<1>0. harness' = harness
  BY HarnessStays
<1>1. CASE codec' = codec
  BY <1>0, <1>1 DEF CodecInv
<1>2. CASE Dispatch
  BY <1>0, <1>2, Dispatched DEF CodecInv
<1>3. ASSUME NEW c \in Calls, Begin(c)
      PROVE  CodecInv'
  <2>1. codec' = Encode(harness, codec, c)
    BY <1>3 DEF Begin
  <2> QED
    BY <1>0, <2>1, Encodes DEF CodecInv
<1> QED
  BY <1>1, <1>2, <1>3, CodecMoves DEF Begun

LEMMA EventsMove ==
  ASSUME AdapterInv, EventsInv, [Next]_vars
  PROVE  \/ seen' = seen /\ Told0' = Told0 /\ ~Reading
         \/ Prompting /\ ExchangeOver /\ seen' = <<>> /\ Told0' \in {<<>>, hand.events}
            /\ (reader = "resolve" => Told0' = hand.events) /\ (reader # "resolve" => Told0' = <<>>)
         \/ Reading
<1>1. CASE ~Reading
  <2>1. UNCHANGED hand /\ (reader' = "resolve" <=> reader = "resolve")
    BY <1>1, ChannelsRest
  <2>2. CASE seen' = seen
    BY <1>1, <2>1, <2>2 DEF Told0
  <2>3. CASE Prompting /\ ExchangeOver /\ reader = "resolve"
    <3>1. Told0' = <<>> \o hand.events /\ hand.events \in Seq(EventType)
      BY <2>1, <2>3 DEF Told0, ExchangeOver, EventsInv
    <3>2. \A s \in Seq(EventType) : <<>> \o s = s
      OBVIOUS
    <3> QED
      BY <2>1, <2>3, <3>1, <3>2 DEF ExchangeOver
  <2>4. CASE Prompting /\ ExchangeOver /\ reader # "resolve"
    BY <2>1, <2>4 DEF Told0, ExchangeOver
  <2>5. seen' = seen \/ (Prompting /\ ExchangeOver)
    <3>1. CASE Opened \/ Noted \/ Closed \/ HarnessNext \/ \E c \in Calls : Begun(c) \/ Waiting(c)
      BY <3>1, HarnessFrame DEF Opened, Noted, Closed, Begun, Begin, Waiting, WriteCall, Return, Forget, readVars
    <3>2. CASE Prompting
      BY <3>2 DEF Prompting, PromptNext, Prompt, PromptSets, PromptWaits, PromptSends, ClaudeSends, CallSends,
         Begin, Prompted, clientVars, readVars
    <3> QED
      BY <1>1, <3>1, <3>2, TurnStep DEF AdapterInv, turnVars, readVars
  <2> QED
    BY <2>2, <2>3, <2>4, <2>5
<1> QED
  BY <1>1

LEMMA EventsKept ==
  ASSUME AdapterInv, SaidInv, CodecInv, EventsInv, [Next]_vars
  PROVE  EventsInv'
<1>1. CASE ~Reading
  <2>1. UNCHANGED hand /\ (reader' = "resolve" <=> reader = "resolve")
    BY <1>1, ChannelsRest
  <2>2. seen' = seen \/ seen' = <<>>
    BY <1>1, EventsMove
  <2>3. <<>> \in Seq(EventType)
    OBVIOUS
  <2>4. seen' \in Seq(EventType)
    BY <2>2, <2>3 DEF EventsInv
  <2> QED
    BY <2>1, <2>4 DEF EventsInv
<1>2. CASE Dispatch
  <2>1. PICK f : /\ f.events \in Seq(EventType)
                 /\ \/ reader' = "resolve" /\ hand' = f /\ f.response # <<>> /\ seen' = seen
                    \/ reader' = "read" /\ seen' = seen \o f.events
    BY <1>2, Dispatched
  <2>2. seen \o f.events \in Seq(EventType)
    BY <2>1 DEF EventsInv
  <2> QED
    BY <2>1, <2>2 DEF EventsInv
<1>3. CASE Resolve
  BY <1>3, Resolved, TellsTyped DEF EventsInv
<1>4. CASE Shutdown \/ EventsClose
  BY <1>4 DEF Shutdown, EventsClose, EventsInv
<1> QED
  BY <1>1, <1>2, <1>3, <1>4 DEF Reading, ReaderNext

LEMMA FramesBegin == Init => FramesInv
<1> SUFFICES ASSUME Init PROVE FramesInv
  OBVIOUS
<1>1. /\ stdout = <<>> /\ codec = NewCodec /\ reader = "none" /\ seen = <<>> /\ told = {}
      /\ call = [c \in Calls |-> "none"] /\ chan = [c \in Calls |-> <<>>]
  BY DEF Init, InitClient
<1>2. SaidInv /\ EventsInv
  BY <1>1 DEF SaidInv, EventsInv
<1>3. ToldInv
  BY <1>1 DEF ToldInv, Untold, Resolving
<1>4. CodecInv
  BY <1>1 DEF CodecInv, CodecType, NewCodec
<1> QED
  BY <1>2, <1>3, <1>4 DEF FramesInv

LEMMA FramesKept ==
  ASSUME AdapterInv, FramesInv, [Next]_vars
  PROVE  FramesInv'
BY SaidKept, ToldKept, CodecKept, EventsKept DEF FramesInv

(***************************************************************************)
(* The calls of the prompts: one waits while its prompt asks, and a prompt *)
(* that failed with the session open was not sent, was refused, or lost    *)
(* its harness.                                                            *)
(***************************************************************************)
PromptCallInv(n) ==
    /\ call[PromptCall(n)] \in {"open", "waiting"} => n = ex /\ prompting = "asking"
    /\ harness = "claude" => call[PromptCall(n)] = "none"
    /\ harness = "opencode" => call[PromptCall(n)] \in {"none", "open", "sent", "failed"}
    /\ call[PromptCall(n)] = "gaveUp" => closing # "no"
SentInv ==
    /\ \A n \in Prompts : PromptCallInv(n)
    /\ prompting = "asking" => harness # "claude" /\ call[PromptCall(ex)] # "none"
    /\ prompting = "failed" /\ closing = "no" =>
         harness = "claude" \/ call[PromptCall(ex)] \in {"failed", "refused", "exit"}

LEMMA SentKept ==
  ASSUME AdapterInv, SentInv, [Next]_vars
  PROVE  SentInv'
<1>0. harness' = harness /\ call \in [Calls -> CallPC] /\ chan \in [Calls -> Responses]
      /\ harness \in {"claude", "opencode", "pi"}
  BY HarnessStays DEF AdapterInv, ClientInv, CallsInv, HeldInv, StepType, Harnesses
<1>p. \A n \in Prompts : PromptCall(n) \in Calls /\ PromptCall(n)[1] = "prompt"
  <2>1. \A n \in Prompts : PromptCall(n) \in Calls
    BY CallsAre
  <2>2. \A n \in Prompts : PromptCall(n)[1] = "prompt"
    BY DEF PromptCall
  <2> QED
    BY <2>1, <2>2
<1>q. prompting # "idle" => ex \in Prompts
  BY WantsAre DEF AdapterInv, PromptInv, ExchangeInv
<1>1. ASSUME UNCHANGED <<ex, prompting>>, closing' = closing \/ closing' # "no",
             \A n \in Prompts : call'[PromptCall(n)] = call[PromptCall(n)]
      PROVE  SentInv'
  BY <1>0, <1>1, <1>q DEF SentInv, PromptCallInv, PromptCall
<1>2. CASE Opened \/ Noted \/ Closed \/ Reading \/ HarnessNext \/ UNCHANGED turnVars
  <2>1. UNCHANGED <<ex, prompting, call>> /\ (closing' = closing \/ closing' # "no")
    BY <1>2, HarnessFrame DEF Opened, Noted, Closed, Reading, ReaderNext, Dispatch, Resolve, Shutdown, EventsClose,
       callVars, turnVars
  <2> QED
    BY <1>1, <2>1
<1>3. ASSUME NEW c \in Calls, Begun(c)
      PROVE  SentInv'
  <2>1. c[1] # "prompt" /\ Begin(c) /\ UNCHANGED <<ex, prompting, closing>>
    BY <1>3 DEF Begun, Handshake
  <2>2. \A n \in Prompts : call'[PromptCall(n)] = call[PromptCall(n)]
    BY <1>0, <1>p, <2>1 DEF Begin
  <2> QED
    BY <1>1, <2>1, <2>2
<1>4. ASSUME NEW c \in Calls, Waiting(c)
      PROVE  SentInv'
  <2>0. UNCHANGED <<ex, prompting, closing>>
    BY <1>4 DEF Waiting
  <2>1. CASE c[1] # "prompt"
    <3>1. \A n \in Prompts : call'[PromptCall(n)] = call[PromptCall(n)]
      BY <1>0, <1>4, <1>p, <2>1 DEF Waiting, WriteCall, Return, Forget
    <3> QED
      BY <1>1, <2>0, <3>1
  <2>2. CASE c[1] = "prompt"
    <3>1. \E n \in Prompts : c = PromptCall(n)
      BY <2>2, CallsAssumption DEF PromptCall
    <3>2. PICK n \in Prompts : c = PromptCall(n)
      BY <3>1
    <3>3. \A m \in Prompts : m # n => call'[PromptCall(m)] = call[PromptCall(m)]
      BY <1>0, <1>4, <3>2, <1>p DEF Waiting, WriteCall, Return, Forget, PromptCall
    <3>4. call[c] \in {"open", "waiting"}
      BY <1>4 DEF Waiting, WriteCall, Return, Forget
    <3>5. n = ex /\ prompting = "asking" /\ harness # "claude"
      BY <3>2, <3>4 DEF SentInv, PromptCallInv
    <3>6. call'[c] # "none" /\ (harness = "opencode" => call'[c] \in {"sent", "failed"})
          /\ (call'[c] = "gaveUp" => closing # "no")
      <4>1. CASE WriteCall(c)
        BY <1>0, <2>2, <4>1 DEF WriteCall, Waited
      <4>2. CASE Return(c)
        <5>1. harness # "opencode"
          BY <3>2, <4>2 DEF SentInv, PromptCallInv, Return
        <5>2. chan[c] \in {<<"ok">>, <<"refused">>, <<"exit">>} /\ call'[c] = Head(chan[c])
          BY <1>0, <4>2 DEF Return, Responses
        <5> QED
          BY <5>1, <5>2
      <4>3. CASE Forget(c) /\ closing # "no"
        <5>1. harness # "opencode"
          BY <3>2, <4>3 DEF SentInv, PromptCallInv, Forget
        <5> QED
          BY <1>0, <4>3, <5>1 DEF Forget
      <4> QED
        BY <1>4, <2>2, <4>1, <4>2, <4>3 DEF Waiting
    <3>7. ASSUME NEW m \in Prompts
          PROVE  PromptCallInv(m)'
      <4>0. PromptCallInv(m) /\ PromptCall(m)' = PromptCall(m)
        BY DEF SentInv, PromptCall
      <4>1. CASE m = n
        BY <1>0, <2>0, <3>2, <3>5, <3>6, <4>0, <4>1 DEF PromptCallInv
      <4>2. CASE m # n
        BY <1>0, <2>0, <3>3, <4>0, <4>2 DEF PromptCallInv
      <4> QED
        BY <4>1, <4>2
    <3>8. /\ prompting' = "asking" => harness' # "claude" /\ call'[PromptCall(ex')] # "none"
          /\ prompting' # "failed"
      BY <1>0, <2>0, <3>2, <3>5, <3>6
    <3> QED
      BY <3>7, <3>8 DEF SentInv
  <2> QED
    BY <2>1, <2>2
<1>5. CASE Prompting
  <2>0. closing' = closing
    BY <1>5 DEF Prompting
  <2>1. CASE Prompt
    <3>1. prompting = "idle" /\ prompting' \notin {"asking", "failed"} /\ call' = call
      BY <2>1 DEF Prompt, Ready, ClaudePrompt, OpenCodePrompt, PiPrompt, clientVars, callVars
    <3> QED
      BY <1>0, <2>0, <3>1 DEF SentInv, PromptCallInv, PromptCall
  <2>2. CASE PromptSets \/ PromptWaits
    <3>1. /\ prompting \notin {"asking", "idle"} /\ prompting' # "asking" /\ ex' = ex /\ call' = call
          /\ prompting' = "failed" => closing # "no"
      BY <2>2 DEF PromptSets, PromptWaits, clientVars, callVars
    <3> QED
      BY <1>0, <2>0, <3>1 DEF SentInv, PromptCallInv, PromptCall
  <2>3. CASE PromptSends
    <3>0. prompting = "send" /\ ex' = ex /\ ex \in Prompts
      BY <1>q, <2>3 DEF PromptSends
    <3>1. CASE ClaudeSends \/ (CallSends /\ closing # "no")
      <4>1. /\ prompting' # "asking" /\ call' = call
            /\ prompting' = "failed" => closing # "no" \/ harness = "claude"
        BY <3>1 DEF ClaudeSends, CallSends, callVars
      <4> QED
        BY <1>0, <2>0, <3>0, <4>1 DEF SentInv, PromptCallInv, PromptCall
    <3>2. CASE CallSends /\ closing = "no"
      <4>1. /\ prompting' = "asking" /\ harness # "claude" /\ call'[PromptCall(ex)] \in {"open", "failed"}
            /\ \A n \in Prompts : n # ex => call'[PromptCall(n)] = call[PromptCall(n)]
        BY <1>0, <1>p, <3>0, <3>2 DEF CallSends, Begin, PromptCall
      <4> QED
        BY <1>0, <2>0, <3>0, <4>1 DEF SentInv, PromptCallInv, PromptCall
    <3> QED
      BY <2>3, <3>1, <3>2 DEF PromptSends
  <2>4. CASE Prompted
    <3>1. /\ prompting = "asking" /\ ex' = ex /\ call' = call /\ prompting' # "asking"
          /\ call[PromptCall(ex)] \notin {"open", "waiting"}
          /\ prompting' = "failed" => call[PromptCall(ex)] \notin {"sent", "ok"}
      BY <2>4 DEF Prompted, clientVars, callVars
    <3>2. PromptCallInv(ex) /\ harness # "claude" /\ call[PromptCall(ex)] # "none"
          /\ call[PromptCall(ex)] \in CallPC
      BY <1>0, <1>p, <1>q, <3>1 DEF SentInv
    <3>3. prompting' = "failed" /\ closing = "no" => call[PromptCall(ex)] \in {"failed", "refused", "exit"}
      BY <3>1, <3>2 DEF PromptCallInv, CallPC
    <3>4. ASSUME NEW n \in Prompts
          PROVE  PromptCallInv(n)'
      <4>1. PromptCallInv(n) /\ PromptCall(n)' = PromptCall(n)
        BY DEF SentInv, PromptCall
      <4>2. call[PromptCall(n)] \in {"open", "waiting"} => n = ex
        BY <4>1 DEF PromptCallInv
      <4> QED
        BY <1>0, <2>0, <3>1, <4>1, <4>2 DEF PromptCallInv
    <3> QED
      BY <2>0, <3>1, <3>3, <3>4 DEF SentInv, PromptCall
  <2>5. CASE ExchangeOver
    <3>1. prompting # "asking" /\ prompting' = "idle" /\ ex' = ex /\ call' = call
      BY <2>5 DEF ExchangeOver, callVars
    <3> QED
      BY <1>0, <2>0, <3>1 DEF SentInv, PromptCallInv, PromptCall
  <2> QED
    BY <1>5, <2>1, <2>2, <2>3, <2>4, <2>5 DEF Prompting, PromptNext
<1> QED
  BY <1>2, <1>3, <1>4, <1>5, TurnStep DEF AdapterInv

LEMMA SentBegins == Init => SentInv
<1> SUFFICES ASSUME Init PROVE SentInv
  OBVIOUS
<1>1. ex = 0 /\ prompting = "idle" /\ call = [c \in Calls |-> "none"]
  BY DEF Init, InitClient
<1>2. \A n \in Prompts : PromptCall(n) \in Calls
  BY CallsAre
<1> QED
  BY <1>1, <1>2 DEF SentInv, PromptCallInv

(***************************************************************************)
(* The input of the harness, line by line.                                 *)
(***************************************************************************)
(* Lines of a kind in a list, and that there is one of them at most.       *)
Among(s, P) == \E i \in DOMAIN s : s[i] \in P
Sole(s, P) == \A i, j \in DOMAIN s : s[i] \in P /\ s[j] \in P => i = j

LEMMA NoneAmong ==
  ASSUME NEW P
  PROVE  ~Among(<<>>, P) /\ Sole(<<>>, P)
BY DEF Among, Sole

LEMMA FewerAmong ==
  ASSUME NEW S, NEW s \in Seq(S), s # <<>>, NEW P
  PROVE  /\ Among(Tail(s), P) => Among(s, P)
         /\ Sole(s, P) => Sole(Tail(s), P)
         /\ Sole(s, P) /\ Head(s) \in P => ~Among(Tail(s), P)
         /\ Head(s) \notin P => (Among(Tail(s), P) <=> Among(s, P))
         /\ Head(s) \in P => Among(s, P)
<1>1. /\ 1 \in DOMAIN s /\ Head(s) = s[1]
      /\ \A i \in DOMAIN s : i = 1 \/ (i - 1 \in DOMAIN Tail(s) /\ Tail(s)[i - 1] = s[i])
      /\ \A i \in DOMAIN Tail(s) : i + 1 \in DOMAIN s /\ Tail(s)[i] = s[i + 1] /\ i \in Nat /\ i + 1 # 1
  BY Rest
<1>2. ASSUME Sole(s, P), NEW i \in DOMAIN Tail(s), NEW j \in DOMAIN Tail(s), Tail(s)[i] \in P, Tail(s)[j] \in P
      PROVE  i = j
  <2>1. i + 1 = j + 1 /\ i \in Nat /\ j \in Nat
    BY <1>1, <1>2 DEF Sole
  <2> QED
    BY <2>1
<1>3. Sole(s, P) => Sole(Tail(s), P)
  BY <1>2 DEF Sole
<1>4. Sole(s, P) /\ Head(s) \in P => ~Among(Tail(s), P)
  BY <1>1 DEF Sole, Among
<1> QED
  BY <1>1, <1>3, <1>4 DEF Among

LEMMA MoreAmong ==
  ASSUME NEW S, NEW s \in Seq(S), NEW x \in S, NEW P
  PROVE  /\ x \notin P => (Among(Append(s, x), P) <=> Among(s, P)) /\ (Sole(s, P) => Sole(Append(s, x), P))
         /\ ~Among(s, P) => Sole(Append(s, x), P)
         /\ Among(Append(s, x), P) <=> Among(s, P) \/ x \in P
<1>1. /\ Len(s) + 1 \in DOMAIN Append(s, x)
      /\ Append(s, x)[Len(s) + 1] = x /\ Len(s) + 1 \notin DOMAIN s
      /\ \A i \in DOMAIN s : i \in DOMAIN Append(s, x) /\ Append(s, x)[i] = s[i]
      /\ \A i \in DOMAIN Append(s, x) : i \in DOMAIN s \/ i = Len(s) + 1
  BY More
<1> HIDE DEF Among, Sole
<1>2. x \notin P => (Among(Append(s, x), P) <=> Among(s, P))
  BY <1>1 DEF Among
<1>3. x \notin P => (Sole(s, P) => Sole(Append(s, x), P))
  BY <1>1 DEF Sole
<1>4. ~Among(s, P) => Sole(Append(s, x), P)
  BY <1>1 DEF Sole, Among
<1>5. Among(Append(s, x), P) <=> Among(s, P) \/ x \in P
  BY <1>1 DEF Among
<1> QED
  BY <1>2, <1>3, <1>4, <1>5

(* Taking a line, writing a call or a message, or writing another line.    *)
Taking == HarnessNext /\ stdin # <<>> /\ stdin' = Tail(stdin)
CallWritten(c) == Waiting(c) /\ WriteCall(c) /\ call[c] = "open" /\ Writable /\ stdin' = Append(stdin, c)
MessageWritten ==
    /\ Prompting /\ PromptSends /\ ClaudeSends /\ harness = "claude" /\ prompting = "send" /\ prompting' = "open"
    /\ stdin' = Append(stdin, <<"message", ex>>) /\ <<"message", ex>> \in Inputs
OtherWritten ==
    Noted /\ \E line \in Inputs : line[1] \in {"stop", "answer"} /\ line \notin Calls /\ stdin' = Append(stdin, line)

LEMMA InputsMove ==
  ASSUME AdapterInv, RestInv, [Next]_vars
  PROVE  \/ stdin' = stdin \/ (HarnessNext /\ stdin' = <<>>) \/ Taking \/ OtherWritten \/ MessageWritten
         \/ \E c \in Calls : CallWritten(c)
<1>1. CASE Opened \/ Closed \/ Reading \/ UNCHANGED turnVars
  BY <1>1 DEF Opened, Closed, Reading, ReaderNext, Dispatch, Resolve, Shutdown, EventsClose, processVars, turnVars
<1>2. CASE Noted
  <2>1. PICK line : Notify(line) /\ (\/ \E n \in 1 .. ex : line = <<"stop", n>>
                                     \/ \E r \in Requests : ReplyNext(r) /\ line = <<"answer", r>>)
    BY <1>2 DEF Noted
  <2>2. line \in Inputs /\ line[1] \in {"stop", "answer"} /\ line \notin Calls
    <3>1. ex \in Nat
      BY WantsAre DEF AdapterInv, PromptInv, ExchangeInv
    <3>2. CASE \E n \in 1 .. ex : line = <<"stop", n>>
      BY <3>1, <3>2, CallsAssumption DEF Inputs
    <3>3. CASE \E r \in Requests : ReplyNext(r) /\ line = <<"answer", r>>
      BY <3>3, CallsAssumption DEF Inputs
    <3> QED
      BY <2>1, <3>2, <3>3
  <2> QED
    BY <1>2, <2>1, <2>2 DEF Notify, OtherWritten
<1>3. CASE Prompting
  <2>1. CASE PromptSends /\ ClaudeSends
    <3>1. ex \in Nat /\ harness = "claude" /\ prompting = "send"
      BY <2>1, WantsAre DEF AdapterInv, PromptInv, ExchangeInv, ClaudeSends, PromptSends
    <3>2. <<"message", ex>> \in Inputs
      BY <3>1 DEF Inputs
    <3> QED
      BY <1>3, <2>1, <3>1, <3>2 DEF ClaudeSends, Notify, MessageWritten
  <2>2. CASE ~(PromptSends /\ ClaudeSends)
    BY <1>3, <2>2 DEF Prompting, PromptNext, Prompt, PromptSets, PromptWaits, PromptSends, CallSends,
       Prompted, ExchangeOver, clientVars, processVars
  <2> QED
    BY <2>1, <2>2
<1>4. ASSUME NEW c \in Calls, Begun(c) \/ Waiting(c)
      PROVE  stdin' = stdin \/ CallWritten(c)
  BY <1>4 DEF Begun, Waiting, WriteCall, Return, Forget, processVars, CallWritten
<1>5. CASE HarnessNext
  <2>1. stdin' = stdin \/ stdin' = <<>> \/ (stdin # <<>> /\ stdin' = Tail(stdin))
    <3>1. CASE HarnessAnswers \/ HarnessRuns \/ HarnessStops \/ HarnessExits
      BY <3>1 DEF HarnessAnswers, HarnessRuns, HarnessStops, HarnessExits, ProcessEnds, StdinTaken
    <3>2. CASE \E r \in Requests : HarnessHears(r) \/ HarnessFetches(r) \/ HarnessLists(r)
      BY <3>2 DEF HarnessHears, HarnessFetches, HarnessLists, StdinTaken
    <3>3. CASE (\E tool \in RespondTools \union {Tool, Permission} : HarnessUses(tool)) \/ HarnessReports \/ HarnessEnds
      BY <3>3, UsesSay, ReportsSay, EndsSay
    <3> QED
      BY <1>5, <3>1, <3>2, <3>3 DEF HarnessNext
  <2> QED
    BY <1>5, <2>1 DEF Taking
<1> QED
  BY <1>1, <1>2, <1>3, <1>4, <1>5, TurnStep DEF AdapterInv

(***************************************************************************)
(* The calls, one at a time.                                               *)
(***************************************************************************)
Unwritten == {"none", "open", "failed"}
PromptAsks == Prompting /\ PromptSends /\ CallSends /\ closing = "no" /\ Begin(PromptCall(ex))

LEMMA CallMoves ==
  ASSUME AdapterInv, [Next]_vars, NEW c \in Calls
  PROVE  \/ call'[c] = call[c]
         \/ call[c] = "none" /\ call'[c] \in {"open", "failed"} /\ (Begun(c) \/ (PromptAsks /\ c = PromptCall(ex)))
         \/ call[c] = "open" /\ call'[c] = "failed" /\ Waiting(c)
         \/ call[c] = "open" /\ call'[c] = (IF Waited(c) THEN "waiting" ELSE "sent") /\ CallWritten(c)
         \/ call[c] = "waiting" /\ chan[c] # <<>> /\ call'[c] = Head(chan[c]) /\ Waiting(c) /\ Return(c)
         \/ call[c] = "waiting" /\ call'[c] = "gaveUp" /\ Waiting(c) /\ (c[1] = "prompt" => closing # "no")
<1>0. call \in [Calls -> CallPC]
  BY DEF AdapterInv, ClientInv, CallsInv
<1>1. CASE Opened \/ Noted \/ Closed \/ Reading \/ HarnessNext \/ UNCHANGED turnVars
  BY <1>1, HarnessFrame DEF Opened, Noted, Closed, Reading, ReaderNext, Dispatch, Resolve, Shutdown, EventsClose,
     callVars, turnVars
<1>2. ASSUME NEW d \in Calls, Begun(d)
      PROVE  call'[c] = call[c] \/ (call[c] = "none" /\ call'[c] \in {"open", "failed"} /\ Begun(c))
  <2>1. call[d] = "none" /\ \E p \in {"open", "failed"} : call' = [call EXCEPT ![d] = p]
    BY <1>2 DEF Begun, Begin
  <2> QED
    BY <1>0, <1>2, <2>1
<1>3. ASSUME NEW d \in Calls, Waiting(d), d # c
      PROVE  call'[c] = call[c]
  BY <1>0, <1>3 DEF Waiting, WriteCall, Return, Forget
<1>4. ASSUME Waiting(c)
      PROVE  \/ call[c] = "open" /\ call'[c] = "failed" /\ Waiting(c)
             \/ call[c] = "open" /\ call'[c] = (IF Waited(c) THEN "waiting" ELSE "sent") /\ CallWritten(c)
             \/ call[c] = "waiting" /\ chan[c] # <<>> /\ call'[c] = Head(chan[c]) /\ Waiting(c) /\ Return(c)
             \/ call[c] = "waiting" /\ call'[c] = "gaveUp" /\ Waiting(c) /\ (c[1] = "prompt" => closing # "no")
  <2>1. CASE WriteCall(c)
    BY <1>0, <1>4, <2>1 DEF WriteCall, CallWritten
  <2>2. CASE Return(c)
    BY <1>0, <1>4, <2>2 DEF Return
  <2>3. CASE Forget(c) /\ (c[1] = "prompt" => closing # "no")
    BY <1>0, <1>4, <2>3 DEF Forget
  <2> QED
    BY <1>4, <2>1, <2>2, <2>3 DEF Waiting
<1>5. CASE Prompting
  <2>1. CASE PromptSends /\ CallSends /\ closing = "no"
    <3>1. ex \in Prompts /\ prompting = "send" /\ PromptAsks
      BY <1>5, <2>1, WantsAre DEF AdapterInv, PromptInv, ExchangeInv, PromptSends, CallSends, PromptAsks
    <3>2. PromptCall(ex) \in Calls /\ call[PromptCall(ex)] = "none"
      BY <3>1, CallsAre DEF AdapterInv, ClientInv, UnbegunInv
    <3>3. \E p \in {"open", "failed"} : call' = [call EXCEPT ![PromptCall(ex)] = p]
      BY <3>1 DEF PromptAsks, Begin
    <3> QED
      BY <1>0, <3>1, <3>2, <3>3
  <2>2. CASE ~(PromptSends /\ CallSends /\ closing = "no")
    BY <1>5, <2>2 DEF Prompting, PromptNext, Prompt, PromptSets, PromptWaits, PromptSends, CallSends, ClaudeSends,
       Prompted, ExchangeOver, clientVars, callVars
  <2> QED
    BY <2>1, <2>2
<1> QED
  BY <1>1, <1>2, <1>3, <1>4, <1>5, TurnStep DEF AdapterInv

(* What has been written stays so.                                         *)
LEMMA WrittenStays ==
  ASSUME AdapterInv, [Next]_vars, NEW c \in Calls, call[c] \notin Unwritten
  PROVE  call'[c] \notin Unwritten
<1>1. chan[c] \in Responses
  BY DEF AdapterInv, ClientInv, CallsInv
<1>2. chan[c] # <<>> => Head(chan[c]) \notin Unwritten
  BY <1>1 DEF Responses, Unwritten
<1> QED
  BY <1>2, CallMoves DEF Unwritten

(***************************************************************************)
(* The load of OpenCode, which replays before it is answered: it is over   *)
(* before the first prompt.                                                *)
(***************************************************************************)
Load == <<"load", 1>>
LoadCalled ==
    /\ call[Load] # "none" => harness = "opencode"
    /\ harness = "opencode" /\ step \in {"model", "session", "open"} => call[Load] = "ok"

LEMMA LoadIsCall == Load \in Calls /\ Load \in Inputs
BY CallsAssumption DEF Load, Inputs

LEMMA LoadCalledKept ==
  ASSUME AdapterInv, LoadCalled, [Next]_vars
  PROVE  LoadCalled'
<1>0. harness' = harness /\ Load \in Calls /\ StepType
  BY HarnessStays, LoadIsCall DEF AdapterInv, HeldInv
<1>1. call[Load] = "ok" => call'[Load] = "ok"
  BY <1>0, CallMoves
<1>2. call[Load] = "none" /\ call'[Load] # "none" => harness = "opencode"
  <2>1. SUFFICES ASSUME call[Load] = "none", call'[Load] # "none"
                 PROVE  harness = "opencode"
    OBVIOUS
  <2>2. Begun(Load) \/ Load = PromptCall(ex)
    BY <1>0, <2>1, CallMoves
  <2>3. Begun(Load)
    BY <2>2 DEF Load, PromptCall
  <2>4. step = "load"
    BY <2>3 DEF Begun, Load
  <2> QED
    BY <1>0, <2>4, LoadIsOpenCodes
<1>3. step' = step \/ step' \notin {"model", "session", "open"} \/ Opened
  BY TurnStep, HarnessFrame DEF AdapterInv, turnVars, Noted, Closed, Reading, Prompting, Begun, Waiting
<1>4. ASSUME Opened, harness = "opencode", step' \in {"model", "session", "open"}
      PROVE  call[Load] = "ok" \/ step' = step
  <2>1. CASE OpenFails
    BY <1>4, <2>1 DEF OpenFails
  <2>2. CASE Opens
    <3>1. step \in Starting /\ step' = StepAfter(step)
      BY <2>2 DEF Opens
    <3>2. step \in {"load", "model", "session"}
      BY <1>0, <1>4, <3>1, AfterIs DEF Starting
    <3> QED
      BY <3>1, <3>2 DEF Starting
  <2>3. CASE HandshakeGoesOn
    <3>1. /\ step' = StepAfter(step)
          /\ (step \in Handshake /\ call[StepCall] = "ok") \/ step = "session"
      BY <2>3 DEF HandshakeGoesOn
    <3>2. step \in {"load", "model", "session"}
      BY <1>0, <1>4, <3>1, AfterIs DEF Handshake
    <3>3. step = "load" => call[Load] = "ok"
      BY <3>1 DEF StepCall, Load
    <3> QED
      BY <1>4, <3>2, <3>3 DEF LoadCalled
  <2> QED
    BY <1>4, <2>1, <2>2, <2>3 DEF Opened
<1> QED
  BY <1>0, <1>1, <1>2, <1>3, <1>4 DEF LoadCalled, Load

(***************************************************************************)
(* The answers the harness writes.                                         *)
(***************************************************************************)
LEMMA Written ==
  ASSUME stdout \in Seq(Lines), NEW x \in Lines, NEW y \in Lines, NEW z \in Lines
  PROVE  /\ Append(stdout, x) \in Seq(Lines) /\ Append(Append(stdout, x), y) \in Seq(Lines)
         /\ Writes(<<x>>) => stdout' = Append(stdout, x)
         /\ Writes(<<x, y>>) => stdout' = Append(Append(stdout, x), y)
         /\ Writes(<<x, y, z>>) => stdout' = Append(Append(Append(stdout, x), y), z)
<1>1. /\ <<x>> = Append(<<>>, x) /\ <<x, y>> = Append(<<x>>, y) /\ <<x, y, z>> = Append(<<x, y>>, z)
      /\ <<x>> \in Seq(Lines) /\ <<x, y>> \in Seq(Lines) /\ <<>> \in Seq(Lines)
  OBVIOUS
<1>2. \A s \in Seq(Lines), t \in Seq(Lines), l \in Lines : s \o Append(t, l) = Append(s \o t, l)
  OBVIOUS
<1>3. stdout \o <<>> = stdout
  OBVIOUS
<1>4. stdout \o <<x>> = Append(stdout, x)
  BY <1>1, <1>2, <1>3
<1>5. stdout \o <<x, y>> = Append(Append(stdout, x), y)
  BY <1>1, <1>2, <1>4
<1>6. stdout \o <<x, y, z>> = Append(Append(Append(stdout, x), y), z)
  BY <1>1, <1>2, <1>5
<1>7. Append(stdout, x) \in Seq(Lines)
  OBVIOUS
<1>8. Append(Append(stdout, x), y) \in Seq(Lines)
  BY <1>7
<1> QED
  BY <1>4, <1>5, <1>6, <1>7, <1>8 DEF Writes

AnswersTo(c) == {l \in Lines : Response(l, c)}
AnswersCall(c) ==
    \/ TakesIn(c) /\ (HarnessAnswers \/ HarnessRuns)
    \/ HarnessEnds /\ \/ harness = "opencode" /\ c = PromptCall(hrun)
                      \/ harness = "pi" /\ c = aborted /\ c[1] = "cancel"

LEMMA AnswersAmong ==
  ASSUME AdapterInv, HarnessNext, NEW c \in Calls, NEW A \in SUBSET AnswersTo(c)
  PROVE  /\ ~Among(stdout, A) => Sole(stdout', A)
         /\ \/ AnswersCall(c)
            \/ /\ c \in told' <=> c \in told
               /\ Among(stdout', A) <=> Among(stdout, A)
               /\ Sole(stdout, A) => Sole(stdout', A)
<1> DEFINE Same0 == /\ Among(stdout', A) <=> Among(stdout, A)
                    /\ Sole(stdout, A) => Sole(stdout', A)
           One == ~Among(stdout, A) => Sole(stdout', A)
           Goal == One /\ (AnswersCall(c) \/ ((c \in told' <=> c \in told) /\ Same0))
<1>0. stdout \in Seq(Lines)
  BY DEF AdapterInv, LineInv, OutputInv
<1>s. ~Among(stdout, A) => Sole(stdout, A)
  BY DEF Among, Sole
<1> SUFFICES Goal
  OBVIOUS
<1>a. ASSUME stdout' = stdout PROVE One /\ Same0
  BY <1>s, <1>a
<1>b. ASSUME NEW x \in Lines, Writes(<<x>>) PROVE One /\ (x \notin A => Same0)
  <2>1. stdout' = Append(stdout, x)
    BY <1>0, <1>b, Written
  <2>2. /\ x \notin A => (Among(stdout', A) <=> Among(stdout, A))
        /\ x \notin A => (Sole(stdout, A) => Sole(stdout', A))
        /\ ~Among(stdout, A) => Sole(stdout', A)
    BY <1>0, <2>1, MoreAmong
  <2> QED
    BY <2>2
<1>c. ASSUME NEW x \in Lines, NEW y \in Lines, Writes(<<x, y>>)
      PROVE  /\ x \notin A \/ y \notin A => One
             /\ x \notin A /\ y \notin A => Same0
  <2>1. /\ stdout' = Append(Append(stdout, x), y) /\ Append(stdout, x) \in Seq(Lines)
    BY <1>0, <1>c, Written
  <2>2. /\ x \notin A => (Among(Append(stdout, x), A) <=> Among(stdout, A))
        /\ x \notin A => (Sole(stdout, A) => Sole(Append(stdout, x), A))
        /\ ~Among(stdout, A) => Sole(Append(stdout, x), A)
    BY <1>0, MoreAmong
  <2>3. /\ y \notin A => (Among(stdout', A) <=> Among(Append(stdout, x), A))
        /\ y \notin A => (Sole(Append(stdout, x), A) => Sole(stdout', A))
        /\ ~Among(Append(stdout, x), A) => Sole(stdout', A)
    BY <2>1, MoreAmong
  <2> QED
    BY <2>2, <2>3
<1>d. ASSUME NEW x \in Lines, NEW y \in Lines, NEW z \in Lines, Writes(<<x, y, z>>), x \notin A, y \notin A
      PROVE  One /\ (z \notin A => Same0)
  <2>1. /\ stdout' = Append(Append(Append(stdout, x), y), z) /\ Append(stdout, x) \in Seq(Lines)
        /\ Append(Append(stdout, x), y) \in Seq(Lines)
    BY <1>0, <1>d, Written
  <2>2. /\ Among(Append(stdout, x), A) <=> Among(stdout, A)
        /\ Sole(stdout, A) => Sole(Append(stdout, x), A)
    BY <1>0, <1>d, MoreAmong
  <2>3. /\ Among(Append(Append(stdout, x), y), A) <=> Among(Append(stdout, x), A)
        /\ Sole(Append(stdout, x), A) => Sole(Append(Append(stdout, x), y), A)
    BY <1>d, <2>1, MoreAmong
  <2>4. /\ z \notin A => (Among(stdout', A) <=> Among(Append(Append(stdout, x), y), A))
        /\ z \notin A => (Sole(Append(Append(stdout, x), y), A) => Sole(stdout', A))
        /\ ~Among(Append(Append(stdout, x), y), A) => Sole(stdout', A)
    BY <2>1, MoreAmong
  <2> QED
    BY <2>2, <2>3, <2>4
<1>1. /\ \A t \in {"start", "use", "result", "end", "limit", "message"} : \A l \in Of(t) : l \in Lines /\ l \notin A
      /\ \A l \in Lines : l.type = "request" => l \notin A
      /\ \A d : \A how \in {"ok", "error", "aborted"} : \A l \in Answer(d, how) : l \in Lines /\ (l \in A => d = c)
  BY DEF Of, Answer, AnswersTo, Response
<1> HIDE DEF One, Same0
<1>6. CASE HarnessAnswers
  <2>1. PICK d \in Calls, how \in Hows :
          \E x \in Answer(d, how) :
            /\ TakesIn(d) /\ told' = told \union {d}
            /\ \/ \E s \in Of("start") : Writes(<<s, x>>)
               \/ Writes(<<x>>)
    BY <1>6, AnswersSay
  <2>2. PICK x \in Answer(d, how) :
            /\ TakesIn(d) /\ told' = told \union {d}
            /\ \/ \E s \in Of("start") : Writes(<<s, x>>)
               \/ Writes(<<x>>)
    BY <2>1
  <2>3. how \in {"ok", "error", "aborted"} /\ x \in Lines /\ (x \in A => d = c)
    BY <1>1, <2>2 DEF Hows
  <2>4. CASE Writes(<<x>>)
    BY <1>6, <1>b, <2>2, <2>3, <2>4 DEF AnswersCall
  <2>5. ASSUME NEW s \in Of("start"), Writes(<<s, x>>)
        PROVE  Goal
    <3>1. s \in Lines /\ s \notin A
      BY <1>1
    <3> QED
      BY <1>6, <1>c, <2>2, <2>3, <2>5, <3>1 DEF AnswersCall
  <2> QED
    BY <2>2, <2>4, <2>5
<1>7. CASE HarnessRuns
  <2>1. PICK d \in Inputs :
           /\ TakesIn(d)
           /\ \/ told' = told \union {d} /\ \E x \in Answer(d, "error") : Writes(<<x>>)
              \/ told' = told \union {d} /\ \E x \in Answer(d, "ok"), y \in Lines : y.type = "request" /\ Writes(<<x, y>>)
              \/ told' = told /\ ((\E s \in Of("start") : Writes(<<s>>)) \/ stdout' = stdout)
    BY <1>7, RunsSay
  <2>2. ASSUME told' = told \union {d}, NEW x \in Answer(d, "error"), Writes(<<x>>)
        PROVE  Goal
    BY <1>1, <1>7, <1>b, <2>1, <2>2 DEF AnswersCall
  <2>3. ASSUME told' = told \union {d}, NEW x \in Answer(d, "ok"), NEW y \in Lines, y.type = "request", Writes(<<x, y>>)
        PROVE  Goal
    BY <1>1, <1>7, <1>c, <2>1, <2>3 DEF AnswersCall
  <2>4. ASSUME told' = told, (\E s \in Of("start") : Writes(<<s>>)) \/ stdout' = stdout
        PROVE  Goal
    BY <1>1, <1>a, <1>b, <2>4
  <2> QED
    BY <2>1, <2>2, <2>3, <2>4
<1>8. CASE HarnessStops \/ HarnessExits
  BY <1>a, <1>8 DEF HarnessStops, HarnessExits
<1>9. ASSUME NEW r \in Requests, HarnessHears(r) \/ HarnessFetches(r) PROVE Goal
  <2>1. told' = told /\ (stdout' = stdout \/ \E s \in Of("start") : Writes(<<s>>))
    <3>1. CASE HarnessHears(r)
      <4>1. Line("start") \in Of("start") /\ (Writes(<<>>) => stdout' = stdout)
        BY <1>0, LinesOf DEF LineTypes, Writes
      <4>2. told' = told /\ (Writes(<<Line("start")>>) \/ Writes(<<>>))
        BY <3>1 DEF HarnessHears
      <4> QED
        BY <4>1, <4>2
    <3>2. CASE HarnessFetches(r)
      BY <3>2 DEF HarnessFetches
    <3> QED
      BY <1>9, <3>1, <3>2
  <2> QED
    BY <1>1, <1>a, <1>b, <2>1
<1>10. ASSUME NEW r \in Requests, HarnessLists(r) PROVE Goal
  <2>1. told' = told /\ (stdout' = stdout \/ \E x \in Asking(r) : Writes(<<x>>))
    BY <1>10, ListsSay
  <2>2. \A x \in Asking(r) : x \in Lines /\ x \notin A
    BY <1>1 DEF Asking
  <2> QED
    BY <1>a, <1>b, <2>1, <2>2
<1>11. ASSUME NEW tool \in RespondTools \union {Tool, Permission}, HarnessUses(tool) PROVE Goal
  <2>1. PICK u \in Bears("use", tool), v \in Bears("use", tool), q \in Asking(<<"call", hrun>>) :
           told' = told /\ (Writes(<<u>>) \/ Writes(<<q>>) \/ Writes(<<u, q>>) \/ Writes(<<u, v>>))
    BY <1>11, UsesSay
  <2>2. u \in Lines /\ u \notin A /\ v \in Lines /\ v \notin A /\ q \in Lines /\ q \notin A
    BY <1>1 DEF Bears, Asking
  <2> QED
    BY <1>b, <1>c, <2>1, <2>2
<1>12. CASE HarnessReports
  <2>1. told' = told /\ (stdout' = stdout \/ \E l \in Bears("result", body[<<"call", hrun>>]) : Writes(<<l>>))
    BY <1>12, ReportsSay
  <2>2. \A l \in Bears("result", body[<<"call", hrun>>]) : l \in Lines /\ l \notin A
    BY <1>1 DEF Bears
  <2> QED
    BY <1>a, <1>b, <2>1, <2>2
<1>13. CASE HarnessEnds
  <2>1. PICK e \in Of("end"), m \in Of("limit"), n \in Of("message"), how \in {"ok", "error", "aborted"} :
              \/ /\ told' = told
                 /\ Writes(<<e>>) \/ Writes(<<m, e>>) \/ Writes(<<n, e>>)
              \/ /\ harness = "opencode" /\ told' = told \union {PromptCall(hrun)}
                 /\ \E x \in Answer(PromptCall(hrun), how) : Writes(<<x>>)
              \/ /\ harness = "pi" /\ aborted[1] = "cancel" /\ told' = told \union {aborted}
                 /\ \E x \in Answer(aborted, "ok") : Writes(<<n, e, x>>)
    BY <1>13, EndsSay
  <2>2. e \in Lines /\ e \notin A /\ m \in Lines /\ m \notin A /\ n \in Lines /\ n \notin A
    BY <1>1
  <2>3. ASSUME told' = told, Writes(<<e>>) \/ Writes(<<m, e>>) \/ Writes(<<n, e>>)
        PROVE  Goal
    BY <1>b, <1>c, <2>2, <2>3
  <2>4. ASSUME harness = "opencode", told' = told \union {PromptCall(hrun)},
               NEW x \in Answer(PromptCall(hrun), how), Writes(<<x>>)
        PROVE  Goal
    BY <1>1, <1>13, <1>b, <2>4 DEF AnswersCall
  <2>5. ASSUME harness = "pi", aborted[1] = "cancel", told' = told \union {aborted},
               NEW x \in Answer(aborted, "ok"), Writes(<<n, e, x>>)
        PROVE  Goal
    <3>1. x \in Lines /\ (x \in A => aborted = c)
      BY <1>1
    <3> QED
      BY <1>13, <1>d, <2>2, <2>5, <3>1 DEF AnswersCall
  <2> QED
    BY <2>1, <2>3, <2>4, <2>5
<1> QED
  BY <1>6, <1>7, <1>8, <1>9, <1>10, <1>11, <1>12, <1>13 DEF HarnessNext

LEMMA AnswersMove ==
  ASSUME AdapterInv, HarnessNext, NEW c \in Calls
  PROVE  /\ ~Among(stdout, AnswersTo(c)) => Sole(stdout', AnswersTo(c))
         /\ \/ AnswersCall(c)
            \/ /\ c \in told' <=> c \in told
               /\ Among(stdout', AnswersTo(c)) <=> Among(stdout, AnswersTo(c))
               /\ Sole(stdout, AnswersTo(c)) => Sole(stdout', AnswersTo(c))
BY AnswersAmong

(* It is asked once, and answered once.                                    *)
LoadRead ==
    /\ Sole(stdin, {Load})
    /\ Among(stdin, {Load}) => Load \notin told
    /\ Among(stdin, {Load}) \/ Load \in told => call[Load] \notin Unwritten
LoadAnswered ==
    /\ Sole(stdout, AnswersTo(Load))
    /\ Among(stdout, AnswersTo(Load)) => chan[Load] \in {<<>>, <<"exit">>} /\ ~Resolving(Load)

LEMMA LoadIsNot ==
  ASSUME AdapterInv, HarnessNext, AnswersCall(Load)
  PROVE  TakesIn(Load) /\ HarnessAnswers
<1>1. ~HarnessEnds \/ (harness = "pi" /\ aborted[1] # "cancel")
      \/ ~(\/ harness = "opencode" /\ Load = PromptCall(hrun)
           \/ harness = "pi" /\ Load = aborted /\ Load[1] = "cancel")
  BY DEF Load, PromptCall
<1>2. TakesIn(Load)
  BY <1>1 DEF AnswersCall, Load
<1>3. ~HarnessRuns
  <2>1. SUFFICES ASSUME HarnessRuns PROVE FALSE
    OBVIOUS
  <2>2. Head(stdin)[1] \in {"message", "prompt"}
    BY <2>1 DEF HarnessRuns
  <2> QED
    BY <1>2, <2>2 DEF TakesIn, Load
<1> QED
  BY <1>2, <1>3, <1>1 DEF AnswersCall, Load

LEMMA LoadReadKept ==
  ASSUME AdapterInv, RestInv, LoadRead, [Next]_vars
  PROVE  LoadRead'
<1>0. Load \in Calls /\ Load \in Inputs /\ stdin \in Seq(Inputs) /\ Load' = Load
  BY LoadIsCall DEF AdapterInv, LineInv, InputInv, Load
<1>1. call[Load] \notin Unwritten => call'[Load] \notin Unwritten
  BY <1>0, WrittenStays
<1>2. Load \in told' => Load \in told \/ (HarnessNext /\ TakesIn(Load))
  <2>1. CASE HarnessNext
    BY <1>0, <2>1, AnswersMove, LoadIsNot
  <2>2. CASE ~HarnessNext
    BY <2>2, HarnessRests DEF harnessVars
  <2> QED
    BY <2>1, <2>2
<1>3. CASE Taking
  <2>1. /\ Among(stdin', {Load}) => Among(stdin, {Load})
        /\ Sole(stdin', {Load})
        /\ Head(stdin) = Load => ~Among(stdin', {Load}) /\ Among(stdin, {Load})
    BY <1>0, <1>3, FewerAmong DEF Taking, LoadRead
  <2>2. Load \in told' /\ Load \notin told => Head(stdin) = Load
    BY <1>2 DEF TakesIn
  <2> QED
    BY <1>1, <2>1, <2>2 DEF LoadRead, Load
<1>4. CASE ~Taking /\ (stdin' = stdin \/ stdin' = <<>>)
  <2>1. Load \in told' => Load \in told
    BY <1>2, <1>4 DEF Taking, TakesIn
  <2>2. Among(stdin', {Load}) => Among(stdin, {Load})
    BY <1>4, NoneAmong
  <2>3. Sole(stdin', {Load})
    BY <1>4, NoneAmong DEF LoadRead
  <2> QED
    BY <1>1, <2>1, <2>2, <2>3 DEF LoadRead, Load
<1>5. ASSUME NEW x \in Inputs, x # Load, stdin' = Append(stdin, x), ~Taking
      PROVE  LoadRead'
  <2>1. Load \in told' => Load \in told
    BY <1>2, <1>5 DEF Taking, TakesIn
  <2>2. /\ Among(stdin', {Load}) => Among(stdin, {Load})
        /\ Sole(stdin', {Load})
    BY <1>0, <1>5, MoreAmong DEF LoadRead
  <2> QED
    BY <1>1, <2>1, <2>2 DEF LoadRead, Load
<1>6. CASE CallWritten(Load)
  <2>1. ~Among(stdin, {Load}) /\ Load \notin told
    BY <1>6 DEF CallWritten, LoadRead, Unwritten
  <2>2. told' = told
    BY <1>6 DEF CallWritten, Waiting, harnessVars
  <2>3. Sole(stdin', {Load})
    BY <1>0, <1>6, <2>1, MoreAmong DEF CallWritten
  <2>4. call'[Load] \notin Unwritten
    BY <1>0, <1>6 DEF CallWritten, WriteCall, AdapterInv, ClientInv, CallsInv, Unwritten
  <2> QED
    BY <2>1, <2>2, <2>3, <2>4 DEF LoadRead, Load
<1>7. CASE OtherWritten /\ ~Taking
  BY <1>0, <1>5, <1>7 DEF OtherWritten
<1>8. CASE MessageWritten /\ ~Taking
  <2>1. <<"message", ex>> # Load
    BY DEF Load
  <2> QED
    BY <1>5, <1>8, <2>1 DEF MessageWritten
<1>9. ASSUME NEW c \in Calls, CallWritten(c), c # Load, ~Taking
      PROVE  LoadRead'
  <2>1. c \in Inputs
    BY DEF Inputs
  <2> QED
    BY <1>5, <1>9, <2>1 DEF CallWritten
<1> QED
  BY <1>3, <1>4, <1>6, <1>7, <1>8, <1>9, InputsMove

LEMMA LoadAnsweredKept ==
  ASSUME AdapterInv, RestInv, FramesInv, LoadRead, LoadAnswered, [Next]_vars
  PROVE  LoadAnswered'
<1> DEFINE A == AnswersTo(Load)
<1>0. Load \in Calls /\ stdin \in Seq(Inputs) /\ stdout \in Seq(Lines) /\ A' = A
  BY LoadIsCall DEF AdapterInv, LineInv, InputInv, OutputInv, AnswersTo, Load, Response, Lines
<1>1. Resolving(Load) => chan[Load] = <<>>
  BY <1>0 DEF AdapterInv, ClientInv, CallsInv, CallOnce
<1>2. ASSUME stdout' = stdout, chan' = chan, Resolving(Load)' <=> Resolving(Load)
      PROVE  LoadAnswered'
  BY <1>0, <1>2 DEF LoadAnswered, Load
<1>3. CASE HarnessNext
  <2>1. chan' = chan /\ (Resolving(Load)' <=> Resolving(Load))
    BY <1>3, HarnessFrame DEF callVars, readVars, Resolving, Load
  <2>2. CASE AnswersCall(Load)
    <3>1. TakesIn(Load)
      BY <1>3, <2>2, LoadIsNot
    <3>2. Among(stdin, {Load})
      BY <1>0, <3>1, FewerAmong DEF TakesIn
    <3>3. Untold(Load)
      BY <1>0, <3>2 DEF LoadRead, FramesInv, ToldInv
    <3>4. ~Among(stdout, A)
      BY <3>3 DEF Untold, Among, AnswersTo
    <3>5. Sole(stdout', A)
      BY <1>0, <1>3, <3>4, AnswersMove
    <3> QED
      BY <1>0, <2>1, <3>3, <3>5 DEF LoadAnswered, Untold, Load
  <2>3. CASE ~AnswersCall(Load)
    <3>1. (Among(stdout', A) => Among(stdout, A)) /\ Sole(stdout', A)
      BY <1>0, <1>3, <2>3, AnswersMove DEF LoadAnswered
    <3> QED
      BY <1>0, <2>1, <3>1 DEF LoadAnswered, Load
  <2> QED
    BY <2>2, <2>3
<1>4. CASE Dispatch
  <2>1. /\ stdout # <<>> /\ stdout' = Tail(stdout) /\ chan' = chan /\ reader = "read" /\ Head(stdout) = stdout[1]
        /\ stdout[1] \in Lines
    BY <1>0, <1>4, Rest DEF Dispatch
  <2>2. Resolving(Load)' => stdout[1] \in A
    <3>1. PICK f : /\ stdout[1].type = "response" => f.response = <<stdout[1].call, stdout[1].how # "error">>
                   /\ stdout[1].type # "response" => f.response = <<>>
                   /\ \/ reader' = "resolve" /\ hand' = f /\ f.response # <<>>
                      \/ reader' = "read"
      BY <1>4, Dispatched DEF FramesInv
    <3>2. SUFFICES ASSUME Resolving(Load)' PROVE stdout[1] \in A
      OBVIOUS
    <3>3. hand' = f /\ f.response # <<>> /\ hand'.response[1] = Load
      BY <3>1, <3>2 DEF Resolving, Load
    <3>4. stdout[1].type = "response" /\ f.response[1] = stdout[1].call
      BY <3>1, <3>3
    <3> QED
      BY <2>1, <3>3, <3>4 DEF AnswersTo, Response
  <2>3. /\ Among(stdout', A) => Among(stdout, A)
        /\ Sole(stdout', A)
        /\ stdout[1] \in A => ~Among(stdout', A)
    BY <1>0, <2>1, FewerAmong DEF LoadAnswered
  <2>4. Among(stdout', A) => chan'[Load] \in {<<>>, <<"exit">>} /\ ~Resolving(Load)'
    BY <2>1, <2>2, <2>3 DEF LoadAnswered
  <2> HIDE DEF A
  <2>5. Sole(stdout', A') /\ (Among(stdout', A') => chan'[Load] \in {<<>>, <<"exit">>} /\ ~Resolving(Load)')
    BY <1>0, <2>3, <2>4
  <2> QED
    BY <2>5 DEF LoadAnswered, A, Load
<1>5. CASE Resolve
  <2>1. /\ reader = "resolve" /\ stdout' = stdout /\ reader' = "read"
        /\ \A c \in Calls : c # hand.response[1] => chan'[c] = chan[c]
    BY <1>5, Resolved DEF FramesInv
  <2>2. Resolving(Load) => ~Among(stdout, A)
    BY DEF LoadAnswered
  <2>3. ~Resolving(Load) => chan'[Load] = chan[Load]
    BY <1>0, <2>1 DEF Resolving
  <2>4. ~Resolving(Load)'
    BY <2>1 DEF Resolving
  <2> HIDE DEF A
  <2>5. Sole(stdout', A') /\ (Among(stdout', A') => chan'[Load] \in {<<>>, <<"exit">>} /\ ~Resolving(Load)')
    BY <1>0, <2>1, <2>2, <2>3, <2>4 DEF LoadAnswered, A
  <2> QED
    BY <2>5 DEF LoadAnswered, A, Load
<1>6. CASE Shutdown \/ EventsClose
  <2>1. stdout' = stdout /\ reader' # "resolve" /\ (chan' = chan \/ stdout = <<>>)
    BY <1>6 DEF Shutdown, EventsClose, LinesOver, callVars, processVars
  <2>2. stdout = <<>> => ~Among(stdout, A)
    BY NoneAmong
  <2> HIDE DEF A
  <2>3. Sole(stdout', A') /\ (Among(stdout', A') => chan'[Load] \in {<<>>, <<"exit">>} /\ ~Resolving(Load)')
    BY <1>0, <2>1, <2>2 DEF LoadAnswered, A, Resolving
  <2> QED
    BY <2>3 DEF LoadAnswered, A, Load
<1>7. CASE ~Reading /\ ~HarnessNext
  BY <1>2, <1>7, ChannelsRest, OutputRests
<1> QED
  BY <1>3, <1>4, <1>5, <1>6, <1>7 DEF Reading, ReaderNext

(***************************************************************************)
(* A line that tells nothing of a turn: a request, an answer to no prompt  *)
(* of OpenCode, or what OpenCode replays before the first prompt.          *)
(***************************************************************************)
Idle(l) == \/ l.type = "request"
           \/ l.type = "response" /\ l.call \notin codec.prompts
           \/ harness = "opencode" /\ l.type = "start" /\ codec.prompts = {}
CodecRests ==
    /\ codec'.prompts = codec.prompts /\ codec'.called = codec.called /\ codec'.started = codec.started
    /\ codec'.responds = codec.responds /\ codec'.limit = codec.limit

LEMMA QuietRead ==
  ASSUME AdapterInv, FramesInv, Dispatch, Idle(stdout[1])
  PROVE  Told0' = Told0 /\ CodecRests
<1>0. stdout[1] \in Lines /\ Told0 \in Seq(EventType) /\ codec \in CodecType /\ harness \in {"claude", "opencode", "pi"}
  BY Dispatched, TellsTyped DEF FramesInv, CodecInv, AdapterInv, HeldInv, StepType, Harnesses
<1>1. PICK f : f = Decode(harness, codec, stdout[1]) /\ codec' = f.codec /\ Told0' = Told0 \o f.events
  BY Dispatched DEF FramesInv
<1>2. f.events = <<>> /\ f.codec.prompts = codec.prompts /\ f.codec.called = codec.called
      /\ f.codec.started = codec.started /\ f.codec.responds = codec.responds /\ f.codec.limit = codec.limit
  <2>1. CASE harness = "claude"
    <3>1. ClaudeFrame(codec, stdout[1], f)
      BY <1>0, <1>1, <2>1, ClaudeSays DEF Decode
    <3> QED
      BY <2>1, <3>1 DEF ClaudeFrame, Same, Idle
  <2>2. CASE harness = "pi"
    <3>1. PiFrame(codec, stdout[1], f)
      BY <1>0, <1>1, <2>2, PiSays DEF Decode
    <3> QED
      BY <2>2, <3>1 DEF PiFrame, Idle
  <2>3. CASE harness = "opencode"
    <3>1. OpenCodeFrame(codec, stdout[1], f)
      BY <1>0, <1>1, <2>3, OpenCodeSays DEF Decode
    <3>2. CASE stdout[1].type = "response" /\ stdout[1].call \notin codec.prompts
      <4>1. f.events = <<>> /\ f.codec = [codec EXCEPT !.loads = @ \ {stdout[1].call}]
        BY <3>1, <3>2 DEF OpenCodeFrame
      <4> QED
        BY <1>0, <4>1 DEF CodecType
    <3>3. CASE stdout[1].type \in {"request", "start"} /\ (stdout[1].type = "start" => codec.prompts = {})
      BY <3>1, <3>3 DEF OpenCodeFrame, Same, InTurn
    <3> QED
      BY <3>2, <3>3 DEF Idle
  <2> QED
    BY <1>0, <2>1, <2>2, <2>3
<1>3. \A s \in Seq(EventType) : s \o <<>> = s
  OBVIOUS
<1> QED
  BY <1>0, <1>1, <1>2, <1>3 DEF CodecRests

(* Nothing is told before the first prompt, though OpenCode may replay.    *)
Replays(s) ==
    \A i \in DOMAIN s :
      \/ s[i].type \in {"request", "response"}
      \/ s[i].type = "start" /\ harness = "opencode" /\ i + 1 \in DOMAIN s /\ Response(s[i + 1], Load)
Unprompted ==
    ex = 0 => /\ codec.prompts = {} /\ codec.called = {} /\ ~codec.started /\ Told0 = <<>>
              /\ Replays(stdout)
LoadInv == LoadCalled /\ LoadRead /\ LoadAnswered /\ Unprompted

LEMMA ReplayedMore ==
  ASSUME stdout \in Seq(Lines), Replays(stdout), harness' = harness, NEW x \in Lines, x.type \in {"request", "response"},
         \/ Writes(<<x>>)
         \/ \E s \in Of("start") : harness = "opencode" /\ Response(x, Load) /\ Writes(<<s, x>>)
  PROVE  Replays(stdout')
<1>1. CASE Writes(<<x>>)
  BY <1>1, Adds1 DEF Replays
<1>2. ASSUME NEW s \in Of("start"), harness = "opencode", Response(x, Load), Writes(<<s, x>>)
      PROVE  Replays(stdout')
  <2>1. s \in Lines /\ s.type = "start"
    BY DEF Of
  <2>2. /\ Len(stdout) \in Nat
        /\ \A i \in DOMAIN stdout : i \in DOMAIN stdout' /\ stdout'[i] = stdout[i]
        /\ Len(stdout) + 1 \in DOMAIN stdout' /\ stdout'[Len(stdout) + 1] = s
        /\ Len(stdout) + 2 \in DOMAIN stdout' /\ stdout'[Len(stdout) + 2] = x
        /\ \A i \in DOMAIN stdout' : i \in DOMAIN stdout \/ i = Len(stdout) + 1 \/ i = Len(stdout) + 2
    BY <1>2, <2>1, Adds2
  <2>3. Len(stdout) + 1 + 1 = Len(stdout) + 2
    BY <2>2
  <2>4. ASSUME NEW i \in DOMAIN stdout'
        PROVE  \/ stdout'[i].type \in {"request", "response"}
               \/ stdout'[i].type = "start" /\ harness = "opencode" /\ i + 1 \in DOMAIN stdout' /\ Response(stdout'[i + 1], Load)
    <3>1. CASE i \in DOMAIN stdout
      BY <2>2, <3>1 DEF Replays
    <3>2. CASE i = Len(stdout) + 1
      BY <1>2, <2>1, <2>2, <2>3, <3>2
    <3>3. CASE i = Len(stdout) + 2
      BY <2>2, <3>3
    <3> QED
      BY <2>2, <3>1, <3>2, <3>3
  <2> QED
    BY <2>4 DEF Replays
<1> QED
  BY <1>1, <1>2

LEMMA UnpromptedKept ==
  ASSUME AdapterInv, RestInv, FramesInv, LoadCalled, Unprompted, [Next]_vars
  PROVE  Unprompted'
<1>0. /\ harness' = harness /\ stdout \in Seq(Lines) /\ ex \in Nat /\ hrun \in 0 .. ex
      /\ harness \in {"claude", "opencode", "pi"}
  BY HarnessStays, WantsAre DEF AdapterInv, LineInv, OutputInv, HarnessInv, PromptInv, ExchangeInv,
     HeldInv, StepType, Harnesses
<1> SUFFICES ASSUME ex' = 0 PROVE Unprompted'
  BY DEF Unprompted
<1>1. ex = 0 /\ ~Prompt
  BY <1>0, ExKept DEF Prompt
<1>2. /\ codec.prompts = {} /\ codec.called = {} /\ ~codec.started /\ Told0 = <<>> /\ Replays(stdout) /\ hrun = 0
      /\ prompting = "idle"
  BY <1>0, <1>1, WantsAre DEF Unprompted, AdapterInv, PromptInv, ExchangeInv
<1>3. Replays(stdout)' <=> Replays(stdout')
  BY <1>0 DEF Replays, Load, Response
<1>4. ASSUME CodecRests \/ codec' = codec, Told0' = Told0, Replays(stdout')
      PROVE  Unprompted'
  BY <1>2, <1>3, <1>4 DEF Unprompted, CodecRests
<1>5. CASE HarnessNext
  <2>1. codec' = codec /\ Told0' = Told0
    BY <1>5, HarnessFrame DEF readVars, Told0
  <2>2. CASE HarnessAnswers
    <3>1. PICK c \in Calls, how \in Hows : \E x \in Answer(c, how) :
             /\ TakesIn(c)
             /\ \/ c[1] = "load" /\ \E s \in Of("start") : Writes(<<s, x>>)
                \/ c[1] # "load" /\ Writes(<<x>>)
      BY <2>2, AnswersSay
    <3>2. PICK x \in Answer(c, how) :
             /\ TakesIn(c)
             /\ \/ c[1] = "load" /\ \E s \in Of("start") : Writes(<<s, x>>)
                \/ c[1] # "load" /\ Writes(<<x>>)
      BY <3>1
    <3>3. x \in Lines /\ x.type = "response" /\ x.call = c
      BY DEF Answer, Of
    <3>4. c[1] = "load" => c = Load /\ harness = "opencode"
      <4>1. c[1] = "load" => c = Load
        BY CallsAssumption DEF Load
      <4>2. stdin \in Seq(Inputs) /\ stdin # <<>> /\ c = Head(stdin)
        BY <3>2 DEF TakesIn, AdapterInv, LineInv, InputInv
      <4>3. 1 \in DOMAIN stdin /\ stdin[1] = c /\ c \in Inputs
        BY <4>2, Rest
      <4>4. call[c] # "none"
        BY <4>3 DEF AdapterInv, LineInv, InputInv, Given
      <4> QED
        BY <4>1, <4>4 DEF LoadCalled
    <3>5. Replays(stdout')
      BY <1>0, <1>2, <3>2, <3>3, <3>4, ReplayedMore DEF Response
    <3> QED
      BY <1>4, <2>1, <3>5
  <2>3. CASE HarnessRuns
    <3>1. \E c \in Inputs : c[2] \in 1 .. ex
      BY <2>3, RunsSay
    <3> QED
      BY <1>1, <3>1
  <2>4. CASE HarnessStops \/ HarnessExits
    BY <1>2, <1>4, <2>1, <2>4 DEF HarnessStops, HarnessExits
  <2>5. ASSUME NEW r \in Requests, HarnessHears(r) \/ HarnessFetches(r) PROVE Unprompted'
    <3>1. hpc = "idle"
      BY <1>2 DEF RestInv
    <3>2. stdout' = stdout
      BY <2>5, <3>1, HearsSay
    <3> QED
      BY <1>2, <1>4, <2>1, <3>2
  <2>6. ASSUME NEW r \in Requests, HarnessLists(r) PROVE Unprompted'
    <3>1. stdout' = stdout \/ \E x \in Asking(r) : Writes(<<x>>)
      BY <2>6, ListsSay
    <3>2. Replays(stdout')
      BY <1>0, <1>2, <3>1, ReplayedMore DEF Asking
    <3> QED
      BY <1>4, <2>1, <3>2
  <2>7. ASSUME NEW tool \in RespondTools \union {Tool, Permission}, HarnessUses(tool) PROVE Unprompted'
    BY <1>2, <2>7, UsesSay DEF RestInv
  <2>8. CASE HarnessReports
    BY <1>2, <2>8, ReportsSay DEF RestInv
  <2>9. CASE HarnessEnds
    BY <1>2, <2>9, WantsAre, EndsSay
  <2> QED
    BY <1>5, <2>2, <2>3, <2>4, <2>5, <2>6, <2>7, <2>8, <2>9 DEF HarnessNext
<1>6. CASE Dispatch
  <2>1. /\ 1 \in DOMAIN stdout /\ stdout[1] \in Lines
        /\ \A i \in DOMAIN stdout : i = 1 \/ (i - 1 \in DOMAIN stdout' /\ stdout'[i - 1] = stdout[i])
        /\ \A i \in DOMAIN stdout' : i + 1 \in DOMAIN stdout /\ stdout'[i] = stdout[i + 1] /\ i \in Nat /\ i + 1 # 1
    BY <1>6, Dispatched DEF FramesInv
  <2>2. Idle(stdout[1])
    BY <1>2, <2>1 DEF Replays, Idle
  <2>3. ASSUME NEW i \in DOMAIN stdout'
        PROVE  \/ stdout'[i].type \in {"request", "response"}
               \/ stdout'[i].type = "start" /\ harness = "opencode" /\ i + 1 \in DOMAIN stdout' /\ Response(stdout'[i + 1], Load)
    <3>1. i + 1 \in DOMAIN stdout /\ stdout'[i] = stdout[i + 1] /\ i \in Nat
      BY <2>1
    <3>2. CASE stdout[i + 1].type = "start" /\ harness = "opencode" /\ i + 1 + 1 \in DOMAIN stdout /\ Response(stdout[i + 1 + 1], Load)
      <4>1. i + 1 + 1 # 1 /\ i + 1 + 1 - 1 = i + 1
        BY <3>1
      <4> QED
        BY <2>1, <3>1, <3>2, <4>1
    <3> QED
      BY <1>2, <3>1, <3>2 DEF Replays
  <2>4. Replays(stdout')
    BY <2>3 DEF Replays
  <2> QED
    BY <1>4, <1>6, <2>2, <2>4, QuietRead
<1>7. CASE Resolve \/ Shutdown \/ EventsClose
  <2>1. stdout' = stdout /\ codec' = codec
    BY <1>7 DEF Resolve, Shutdown, EventsClose, processVars
  <2>2. Told0' = Told0
    BY <1>7, Resolved DEF FramesInv, Shutdown, EventsClose, Told0
  <2> QED
    BY <1>2, <1>4, <2>1, <2>2
<1>8. CASE ~Reading /\ ~HarnessNext
  <2>1. stdout' = stdout
    BY <1>8, OutputRests
  <2>2. Told0' = Told0
    <3>1. ~ExchangeOver
      BY <1>2 DEF ExchangeOver
    <3> QED
      BY <1>8, <3>1, EventsMove DEF FramesInv
  <2>3. CodecRests \/ codec' = codec
    <3>1. CASE Dispatch
      <4>1. Idle(stdout[1])
        BY <1>2, <3>1, Dispatched DEF Replays, Idle, FramesInv
      <4> QED
        BY <3>1, <4>1, QuietRead
    <3>2. CASE Prompting /\ PromptSends
      BY <1>2, <3>2 DEF PromptSends
    <3>3. ASSUME NEW c \in Calls, Begun(c) PROVE CodecRests
      <4>1. c[1] # "prompt" /\ codec' = Encode(harness, codec, c)
        BY <3>3 DEF Begun, Begin, Handshake
      <4> QED
        BY <4>1, Encodes DEF FramesInv, CodecRests
    <3> QED
      BY <3>1, <3>2, <3>3, CodecMoves
  <2> QED
    BY <1>2, <1>4, <2>1, <2>2, <2>3
<1> QED
  BY <1>5, <1>6, <1>7, <1>8 DEF Reading, ReaderNext

LEMMA LoadKept ==
  ASSUME AdapterInv, RestInv, FramesInv, LoadInv, [Next]_vars
  PROVE  LoadInv'
BY LoadCalledKept, LoadReadKept, LoadAnsweredKept, UnpromptedKept DEF LoadInv

LEMMA LoadBegins == Init => LoadInv
<1> SUFFICES ASSUME Init PROVE LoadInv
  OBVIOUS
<1>1. /\ stdin = <<>> /\ stdout = <<>> /\ codec = NewCodec /\ reader = "none" /\ seen = <<>> /\ told = {}
      /\ call = [c \in Calls |-> "none"] /\ step = "checks"
  BY DEF Init, InitClient
<1>2. LoadCalled
  BY <1>1, LoadIsCall DEF LoadCalled
<1>3. LoadRead /\ LoadAnswered
  BY <1>1, NoneAmong DEF LoadRead, LoadAnswered
<1>4. Unprompted
  BY <1>1 DEF Unprompted, NewCodec, Told0, Replays
<1> QED
  BY <1>2, <1>3, <1>4 DEF LoadInv

(***************************************************************************)
(* The turn: the prompt's line, the harness's run, and what it writes.     *)
(***************************************************************************)
(* The line of the prompt, of which there is one at most.                  *)
PromptLines == {c \in Inputs : c[1] \in {"message", "prompt"}}
AskLine == IF harness = "claude" THEN <<"message", ex>> ELSE PromptCall(ex)
Coming == Among(stdin, PromptLines)
AskInv ==
    /\ Sole(stdin, PromptLines) /\ ~Among(stdin, PromptLines \ {AskLine})
    /\ Coming => /\ ex > 0
                 /\ harness = "claude" => prompting = "open"
                 /\ harness # "claude" => call[PromptCall(ex)] \notin Unwritten
                 /\ harness = "pi" => PromptCall(ex) \notin told
    /\ harness = "pi" /\ ex > 0 /\ PromptCall(ex) \in told => call[PromptCall(ex)] \notin Unwritten

(* Where a line belongs in a turn, 0 for one that belongs to none, and how *)
(* far the harness has come.                                               *)
Rank(l) ==
    CASE l.type = "start" -> 1
      [] l.type = "use" -> 2
      [] l.type = "result" -> 3
      [] l.type \in {"limit", "message"} -> 4
      [] l.type = "end" -> 5
      [] l.type = "response" ->
            IF harness = "opencode" /\ l.call \in Calls /\ l.call[1] = "prompt" THEN 5 ELSE 0
      [] l.type = "request" -> 0
Reached ==
    CASE hpc \in {"idle", "asking"} -> 0
      [] hpc = "running" -> 1
      [] hpc \in {"using", "used"} -> 2
      [] hpc = "done" -> 3
Upto(s, k) == \A i \in DOMAIN s : Rank(s[i]) <= k
(* OpenCode shows the same call twice.                                     *)
Twice(k, l) == harness = "opencode" /\ k.type = "use" /\ l.type = "use"
Ordered(s) ==
    \A i, j \in DOMAIN s : i < j /\ Rank(s[i]) > 0 /\ Rank(s[j]) > 0 => Rank(s[i]) < Rank(s[j]) \/ Twice(s[i], s[j])

(* The prompt has not run: it has not been sent or not been read, or Pi    *)
(* refused it.  Nothing shows of a turn then.                              *)
Spent == hrun = 0 /\ Upto(stdout, 0) /\ codec.called = {} /\ ~codec.started
Unrun == Spent /\ Told0 = <<>>
Refused(c) ==
    \/ Among(stdout, {l \in AnswersTo(c) : l.how = "error"})
    \/ Resolving(c) /\ ~hand.response[2]
    \/ chan[c] = <<"refused">>
NotRun ==
    \/ harness = "claude" /\ (prompting \in {"schema", "listing", "send", "failed"} \/ Coming)
    \/ harness = "opencode" /\ (call[PromptCall(ex)] \in Unwritten \/ Coming)
    \/ harness = "pi" /\ (PromptCall(ex) \notin told \/ Refused(PromptCall(ex)))
NotRunInv == ex > 0 /\ NotRun => Unrun

(* Between exchanges nothing is under way, until the session or its        *)
(* harness ends.                                                           *)
Between == prompting = "idle" /\ closing = "no" /\ ~over
BetweenInv == Between /\ ex > 0 => ~Coming /\ Unrun

(* What the harness writes of a turn comes in order, and the end last.     *)
Has(E, k) == \E i \in DOMAIN E : E[i].kind = k
OrderInv ==
    /\ hrun \in {0, ex} /\ (hpc = "asking" => harness = "pi")
    /\ ex > 0 => Ordered(stdout) /\ (hrun # 0 => Upto(stdout, Reached))
Closes(E) == \A i \in DOMAIN E : E[i].kind = "ended" => i = Len(E)
EndedInv == ex > 0 /\ Has(Told0, "ended") => Spent /\ Closes(Told0)

CourseInv == AskInv /\ NotRunInv /\ BetweenInv /\ OrderInv /\ EndedInv

GroundInv == AdapterInv /\ RestInv /\ FramesInv /\ SentInv /\ LoadInv

LEMMA GroundStays == Spec => []GroundInv
<1>1. Init => RestInv /\ FramesInv /\ SentInv /\ LoadInv
  BY RestBegins, FramesBegin, SentBegins, LoadBegins
<1>2. AdapterInv /\ RestInv /\ FramesInv /\ SentInv /\ LoadInv /\ [Next]_vars
      => (RestInv /\ FramesInv /\ SentInv /\ LoadInv)'
  BY RestKept, FramesKept, SentKept, LoadKept
<1> QED
  BY <1>1, <1>2, AdapterStays, PTL DEF Spec, GroundInv

(* The numbers, and the prompt's own call.                                 *)
LEMMA GroundIs ==
  ASSUME GroundInv
  PROVE  /\ harness \in {"claude", "opencode", "pi"} /\ stdin \in Seq(Inputs) /\ stdout \in Seq(Lines)
         /\ ex \in Nat /\ hrun \in 0 .. ex /\ Told0 \in Seq(EventType) /\ codec \in CodecType
         /\ ex > 0 => PromptCall(ex) \in Calls /\ PromptCall(ex) \in Inputs /\ ex \in Prompts
         /\ call \in [Calls -> CallPC] /\ chan \in [Calls -> Responses] /\ told \subseteq Calls
         /\ prompting # "idle" => ex > 0
<1>1. /\ harness \in {"claude", "opencode", "pi"} /\ stdin \in Seq(Inputs) /\ stdout \in Seq(Lines)
      /\ call \in [Calls -> CallPC] /\ chan \in [Calls -> Responses] /\ told \subseteq Calls
      /\ hrun \in 0 .. ex
  BY DEF GroundInv, AdapterInv, HeldInv, StepType, Harnesses, LineInv, InputInv, OutputInv, HarnessInv, ClientInv, CallsInv
<1>2. ex \in 0 .. Len(Wants) /\ (prompting # "idle" => ex > 0)
  BY DEF GroundInv, AdapterInv, PromptInv, ExchangeInv
<1>3. ex \in Nat /\ (ex > 0 => ex \in Prompts)
  BY <1>2, WantsAre
<1>4. ex > 0 => PromptCall(ex) \in Calls /\ PromptCall(ex) \in Inputs
  BY <1>3, CallsAre DEF Inputs
<1> QED
  BY <1>1, <1>2, <1>3, <1>4, TellsTyped DEF GroundInv, FramesInv, CodecInv

(* The line of the prompt is written once and read once.                   *)
LEMMA OnePrompt ==
  ASSUME GroundInv, AskInv, Coming
  PROVE  /\ \A c \in PromptLines : Among(stdin, {c}) => c = AskLine
         /\ Head(stdin) \in PromptLines => Head(stdin) = AskLine
<1>1. \A i \in DOMAIN stdin : stdin[i] \in PromptLines => stdin[i] = AskLine
  BY DEF AskInv, Among
<1>2. stdin # <<>>
  BY NoneAmong DEF Coming
<1>3. 1 \in DOMAIN stdin /\ Head(stdin) = stdin[1]
  BY <1>2, GroundIs, Rest
<1> QED
  BY <1>1, <1>3 DEF Among

(* The prompts' own calls are answered as they are read.                   *)
LEMMA PromptTold ==
  ASSUME GroundInv, [Next]_vars, ex > 0, PromptCall(ex) \in told', PromptCall(ex) \notin told, harness = "pi"
  PROVE  HarnessRuns /\ TakesIn(PromptCall(ex)) /\ Taking
<1>1. HarnessNext
  BY HarnessRests DEF harnessVars
<1>2. PromptCall(ex) \in Calls
  BY GroundIs
<1>3. AnswersCall(PromptCall(ex))
  BY <1>1, <1>2, AnswersMove DEF GroundInv
<1>4. TakesIn(PromptCall(ex)) /\ (HarnessAnswers \/ HarnessRuns)
  BY <1>3 DEF AnswersCall, PromptCall
<1>5. ~HarnessAnswers
  <2>1. SUFFICES ASSUME HarnessAnswers PROVE FALSE
    OBVIOUS
  <2>2. Head(stdin)[1] \in Handshake \union {"clear", "cancel"}
    BY <2>1 DEF HarnessAnswers
  <2> QED
    BY <1>4, <2>2 DEF TakesIn, PromptCall, Handshake
<1> QED
  BY <1>1, <1>4, <1>5 DEF Taking, TakesIn
(* The session begins a prompt when nothing is under way.                  *)
LEMMA PromptIs ==
  ASSUME GroundInv, Prompt
  PROVE  /\ ex' = ex + 1 /\ ex \in Nat /\ prompting' \in {"schema", "send"} /\ prompting = "idle"
         /\ closing = "no" /\ ~over /\ harness' = harness
         /\ UNCHANGED <<clientVars, harnessVars, body, closing, step>>
         /\ PromptCall(ex') \in Calls /\ call[PromptCall(ex')] = "none" /\ PromptCall(ex') \notin told
<1>1. /\ ex' = ex + 1 /\ ex + 1 \in Prompts /\ prompting' \in {"schema", "send"} /\ prompting = "idle"
      /\ closing = "no" /\ ~over /\ step = "open" /\ UNCHANGED <<clientVars, harnessVars, body, closing, openVars>>
  BY DEF Prompt, Ready, ClaudePrompt, OpenCodePrompt, PiPrompt
<1>2. ex \in Nat
  BY GroundIs
<1>3. PromptCall(ex + 1) \in Calls
  BY <1>1, CallsAre
<1>4. call[PromptCall(ex + 1)] = "none"
  BY <1>1, <1>2, <1>3 DEF GroundInv, AdapterInv, ClientInv, UnbegunInv, PromptCall, Turn
<1>5. PromptCall(ex + 1) \notin told
  BY <1>4 DEF GroundInv, AdapterInv, LineInv, HarnessInv
<1> QED
  BY <1>1, <1>2, <1>3, <1>4, <1>5 DEF clientVars, openVars

LEMMA ComesOf ==
  ASSUME GroundInv, [Next]_vars
  PROVE  /\ PromptLines' = PromptLines /\ (Coming' <=> Among(stdin', PromptLines))
         /\ ~Prompt => AskLine' = AskLine /\ ex' = ex /\ PromptCall(ex)' = PromptCall(ex) /\ harness' = harness
<1>1. PromptLines' = PromptLines
  BY DEF PromptLines, Inputs
<1> QED
  BY <1>1, HarnessStays, ExKept DEF Coming, AskLine, PromptCall

(* The exchange of a message the harness has not read is not over.         *)
LEMMA ComingStays ==
  ASSUME GroundInv, AskInv, NotRunInv, [Next]_vars, Coming, harness = "claude"
  PROVE  prompting' = "open"
<1>1. prompting = "open" /\ ex > 0
  BY DEF AskInv
<1>2. Told0 = <<>>
  BY <1>1 DEF NotRunInv, NotRun, Unrun
<1>3. seen = <<>>
  BY <1>2, EmptySeq, ConcatEmptySeq DEF Told0, GroundInv, FramesInv, EventsInv
<1>4. ~over
  <2>1. stdin # <<>>
    BY NoneAmong DEF Coming
  <2> QED
    BY <2>1 DEF GroundInv, RestInv, AdapterInv, ClientInv, ReaderInv, Over
<1>5. ~ExchangeOver
  BY <1>1, <1>3, <1>4 DEF ExchangeOver, TurnEnded
<1>6. CASE Prompting
  BY <1>1, <1>5, <1>6 DEF Prompting, PromptNext, Prompt, Ready, PromptSets, PromptWaits, PromptSends, Prompted
<1>7. CASE ~Prompting
  <2>1. prompting' = prompting
    BY <1>7, TurnStep, HarnessFrame DEF GroundInv, AdapterInv, turnVars, Opened, Noted, Closed, Reading, Begun, Waiting
  <2> QED
    BY <1>1, <2>1
<1> QED
  BY <1>6, <1>7

LEMMA PromptQuiet ==
  ASSUME GroundInv, AskInv, BetweenInv, Prompt
  PROVE  ~Coming /\ Unrun
<1>1. Between /\ ex \in Nat /\ step = "open"
  BY GroundIs DEF Between, Prompt, Ready
<1>2. CASE ex > 0
  BY <1>1, <1>2 DEF BetweenInv
<1>3. CASE ex = 0
  <2>1. /\ codec.prompts = {} /\ codec.called = {} /\ ~codec.started /\ Told0 = <<>> /\ Replays(stdout)
    BY <1>3 DEF GroundInv, LoadInv, Unprompted
  <2>2. hrun = 0
    BY <1>3, GroundIs
  <2>3. ~Coming
    BY <1>3 DEF AskInv
  <2>4. ASSUME NEW i \in DOMAIN stdout PROVE Rank(stdout[i]) <= 0
    <3>1. stdout[i] \in Lines
      BY GroundIs
    <3>2. CASE stdout[i].type = "request"
      BY <3>2 DEF Rank
    <3>3. CASE stdout[i].type = "response"
      <4>1. SUFFICES ASSUME stdout[i].call \in Calls, stdout[i].call[1] = "prompt" PROVE FALSE
        BY <3>3 DEF Rank
      <4> DEFINE c == stdout[i].call
      <4>2. c \in {"prompt"} \X Prompts
        BY <4>1, CallsAssumption
      <4>3. c[2] > ex
        BY <1>3, <4>2, WantsAre
      <4>4. call[c] = "none"
        BY <4>1, <4>3 DEF GroundInv, AdapterInv, ClientInv, UnbegunInv, Turn
      <4>5. c \notin told
        BY <4>4 DEF GroundInv, AdapterInv, LineInv, HarnessInv
      <4>6. Untold(c)
        BY <4>1, <4>5 DEF GroundInv, FramesInv, ToldInv
      <4> QED
        BY <3>3, <4>6 DEF Untold, Response
    <3>4. CASE harness = "opencode" /\ i + 1 \in DOMAIN stdout /\ Response(stdout[i + 1], Load)
      <4>1. stdout[i + 1] \in AnswersTo(Load)
        BY <3>4, GroundIs DEF AnswersTo
      <4>2. Among(stdout, AnswersTo(Load))
        BY <3>4, <4>1 DEF Among
      <4>3. chan[Load] \in {<<>>, <<"exit">>}
        BY <4>2 DEF GroundInv, LoadInv, LoadAnswered
      <4>4. call[Load] = "ok"
        BY <1>1, <3>4 DEF GroundInv, LoadInv, LoadCalled
      <4>5. chan[Load] = <<"ok">>
        BY <4>4, LoadIsCall DEF GroundInv, FramesInv, ToldInv
      <4> QED
        BY <4>3, <4>5
    <3> QED
      BY <2>1, <3>2, <3>3, <3>4 DEF Replays
  <2> QED
    BY <2>1, <2>2, <2>3, <2>4 DEF Unrun, Spent, Upto
<1> QED
  BY <1>1, <1>2, <1>3

LEMMA AskKept ==
  ASSUME GroundInv, AskInv, NotRunInv, BetweenInv, [Next]_vars
  PROVE  AskInv'
<1>0. stdin \in Seq(Inputs) /\ ex \in Nat
  BY GroundIs
<1>1. CASE Prompt
  <2>1. ~Coming /\ stdin' = stdin /\ told' = told
    BY <1>1, PromptIs, PromptQuiet DEF clientVars, processVars, harnessVars
  <2>2. PromptCall(ex)' \notin told
    BY <1>1, PromptIs DEF PromptCall
  <2>3. ~Coming'
    BY <2>1, ComesOf DEF Coming
  <2>4. \A i \in DOMAIN stdin' : stdin'[i] \notin PromptLines'
    BY <2>3 DEF Coming, Among
  <2> QED
    BY <2>1, <2>2, <2>3, <2>4 DEF AskInv, Sole, Among
<1>2. CASE ~Prompt
  <2> DEFINE P == PromptCall(ex)
             L == AskLine
  <2>0. /\ PromptLines' = PromptLines /\ (Coming' <=> Among(stdin', PromptLines)) /\ L' = L /\ ex' = ex /\ P' = P
        /\ harness' = harness
    BY <1>2, ComesOf
  <2>1. ex > 0 => P \in Calls /\ P \in PromptLines
    BY GroundIs DEF PromptLines, PromptCall
  <2>2. ex > 0 /\ call[P] \notin Unwritten => call'[P] \notin Unwritten
    BY <2>1, WrittenStays DEF GroundInv
  <2>3. ex > 0 /\ harness = "pi" /\ P \in told' => P \in told \/ (Taking /\ Head(stdin) = P)
    BY PromptTold DEF TakesIn
  <2>4. Taking => Among(stdin, {Head(stdin)})
    BY <1>0, FewerAmong DEF Taking
  <2>5. Taking /\ ex > 0 /\ Head(stdin) = P => Coming
    BY <1>0, <2>1, FewerAmong DEF Taking, Coming
  <2>6. ex > 0 /\ harness = "pi" /\ P \in told' => call[P] \notin Unwritten
    BY <2>3, <2>5 DEF AskInv
  <2> DEFINE Told == harness = "pi" /\ ex > 0 /\ P \in told' => call'[P] \notin Unwritten
             Lone == Sole(stdin', PromptLines) /\ ~Among(stdin', PromptLines \ {L})
             Comes == /\ ex > 0
                      /\ harness = "claude" => prompting' = "open"
                      /\ harness # "claude" => call'[P] \notin Unwritten
                      /\ harness = "pi" => P \notin told'
             Goal == Lone /\ (Among(stdin', PromptLines) => Comes)
  <2>7. Told
    BY <2>2, <2>6
  <2>8. SUFFICES Goal
    <3> HIDE DEF P, L
    <3>1. Goal => AskInv'
      BY <2>0, <2>7 DEF AskInv, Coming, P, L
    <3> QED
      BY <3>1
  <2>9. Coming => (harness = "claude" => prompting' = "open")
    BY ComingStays
  <2>a. Coming /\ (harness = "pi" => P \notin told') => Comes
    BY <2>2, <2>9 DEF AskInv
  <2>b. CASE Taking
    <3>1. Lone /\ (Among(stdin', PromptLines) => Coming /\ Head(stdin) \notin PromptLines)
      BY <1>0, <2>b, FewerAmong DEF Taking, AskInv, Coming
    <3>2. SUFFICES ASSUME Among(stdin', PromptLines) PROVE Comes
      BY <3>1
    <3>3. Coming /\ Head(stdin) \notin PromptLines /\ ex > 0
      BY <3>1, <3>2 DEF AskInv
    <3>4. harness = "pi" => P \notin told'
      BY <2>1, <2>3, <3>3 DEF AskInv
    <3> QED
      BY <2>a, <3>3, <3>4
  <2>c. ASSUME ~Taking, Among(stdin', PromptLines) => Coming PROVE Among(stdin', PromptLines) => Comes
    BY <2>3, <2>a, <2>c DEF AskInv
  <2>d. CASE ~Taking /\ (stdin' = stdin \/ stdin' = <<>>)
    <3>1. Lone /\ (Among(stdin', PromptLines) => Coming)
      BY <2>d, NoneAmong DEF AskInv, Coming
    <3> QED
      BY <2>c, <2>d, <3>1
  <2>e. ASSUME NEW x \in Inputs, x \notin PromptLines, stdin' = Append(stdin, x), ~Taking
        PROVE  Goal
    <3>1. Lone /\ (Among(stdin', PromptLines) => Coming)
      BY <1>0, <2>e, MoreAmong DEF AskInv, Coming
    <3> QED
      BY <2>c, <2>e, <3>1
  <2>f. ASSUME ~Coming, L \in Inputs, stdin' = Append(stdin, L), Comes
        PROVE  Goal
    <3>1. Lone
      BY <1>0, <2>f, MoreAmong DEF AskInv, Coming
    <3> QED
      BY <2>f, <3>1
  <2>g. CASE MessageWritten /\ ~Taking
    <3>1. harness = "claude" /\ prompting = "send" /\ prompting' = "open" /\ L = <<"message", ex>> /\ L \in Inputs
          /\ stdin' = Append(stdin, L) /\ ex > 0
      BY <2>g, GroundIs DEF MessageWritten, AskLine
    <3>2. ~Coming
      BY <3>1 DEF AskInv
    <3> QED
      BY <2>f, <3>1, <3>2
  <2>h. CASE OtherWritten /\ ~Taking
    BY <2>e, <2>h DEF OtherWritten, PromptLines
  <2>i. ASSUME NEW c \in Calls, CallWritten(c), ~Taking PROVE Goal
    <3>0. c \in Inputs /\ stdin' = Append(stdin, c) /\ call[c] = "open"
      BY <2>i DEF Inputs, CallWritten
    <3>1. CASE c[1] # "prompt"
      <4>1. c \notin PromptLines
        BY <3>1, CallsAssumption DEF PromptLines
      <4> QED
        BY <2>e, <2>i, <3>0, <4>1
    <3>2. CASE c[1] = "prompt"
      <4>1. c \in {"prompt"} \X Prompts
        BY <3>2, CallsAssumption
      <4>2. c[2] \in Prompts /\ c = PromptCall(c[2])
        BY <4>1 DEF PromptCall
      <4>3. c = P /\ prompting = "asking" /\ harness # "claude"
        BY <3>0, <4>2 DEF GroundInv, SentInv, PromptCallInv
      <4>4. ex > 0 /\ L = P
        BY <4>3, GroundIs DEF AskLine
      <4>5. call[P] \in Unwritten
        BY <3>0, <4>3 DEF Unwritten
      <4>6. ~Coming /\ (harness = "pi" => P \notin told)
        BY <4>3, <4>4, <4>5 DEF AskInv
      <4>7. told' = told
        BY <2>i DEF CallWritten, Waiting, harnessVars
      <4>8. call'[P] \notin Unwritten
        BY <2>i, <4>3 DEF CallWritten, WriteCall, GroundInv, AdapterInv, ClientInv, CallsInv, Unwritten
      <4> QED
        BY <2>f, <3>0, <4>3, <4>4, <4>6, <4>7, <4>8
    <3> QED
      BY <3>1, <3>2
  <2> QED
    BY <2>b, <2>d, <2>g, <2>h, <2>i, InputsMove DEF GroundInv
<1> QED
  BY <1>1, <1>2

(***************************************************************************)
(* Lines in their order.                                                   *)
(***************************************************************************)
LEMMA RanksOf ==
  /\ \A l \in Lines : Rank(l) \in 0 .. 5
  /\ \A l \in Of("start") : l \in Lines /\ Rank(l) = 1
  /\ \A tool : \A l \in Bears("use", tool) : l \in Lines /\ Rank(l) = 2 /\ l.type = "use"
  /\ \A tool : \A l \in Bears("result", tool) : l \in Lines /\ Rank(l) = 3
  /\ \A l \in Of("limit") \union Of("message") : l \in Lines /\ Rank(l) = 4
  /\ \A l \in Of("end") : l \in Lines /\ Rank(l) = 5
  /\ \A l \in Lines : l.type = "request" => Rank(l) = 0
  /\ \A c, how : \A l \in Answer(c, how) :
       l \in Lines /\ (harness # "opencode" \/ c[1] # "prompt" => Rank(l) = 0)
                   /\ (harness = "opencode" /\ c[1] = "prompt" /\ c \in Calls => Rank(l) = 5)
<1>1. ASSUME NEW l \in Lines
      PROVE  /\ l.type \in LineTypes
             /\ l.type = "start" => Rank(l) = 1
             /\ l.type = "use" => Rank(l) = 2
             /\ l.type = "result" => Rank(l) = 3
             /\ l.type \in {"limit", "message"} => Rank(l) = 4
             /\ l.type = "end" => Rank(l) = 5
             /\ l.type = "request" => Rank(l) = 0
             /\ l.type = "response" =>
                  Rank(l) = IF harness = "opencode" /\ l.call \in Calls /\ l.call[1] = "prompt" THEN 5 ELSE 0
  BY DEF Rank, Lines
<1>2. \A l \in Lines : Rank(l) \in 0 .. 5
  BY <1>1 DEF LineTypes
<1>3. \A t, l : l \in Of(t) => l \in Lines /\ l.type = t
  BY DEF Of
<1>4. \A c, how, l : l \in Answer(c, how) => l \in Lines /\ l.type = "response" /\ l.call = c
  BY DEF Answer, Of
<1>5. \A t, tool, l : l \in Bears(t, tool) => l \in Lines /\ l.type = t
  BY DEF Bears, Of
<1> QED
  BY <1>1, <1>2, <1>3, <1>4, <1>5

LEMMA RankStays ==
  ASSUME harness' = harness
  PROVE  /\ \A k \in Nat : Upto(stdout, k)' <=> Upto(stdout', k)
         /\ Ordered(stdout)' <=> Ordered(stdout')
BY DEF Upto, Ordered, Twice, Rank

(* A line of no earlier rank than those there may follow them.             *)
Follows(s, x) == Rank(x) = 0 \/ \A i \in DOMAIN s : Rank(s[i]) < Rank(x) \/ Twice(s[i], x)

LEMMA RankedMore ==
  ASSUME NEW s \in Seq(Lines), NEW x \in Lines
  PROVE  /\ \A k \in Nat : Upto(s, k) /\ Rank(x) <= k => Upto(Append(s, x), k)
         /\ Ordered(s) /\ Follows(s, x) => Ordered(Append(s, x))
         /\ \A k \in Nat : Upto(s, k) /\ k < Rank(x) => Follows(s, x)
<1>0. Append(s, x) \in Seq(Lines)
  OBVIOUS
<1>1. /\ Len(s) \in Nat /\ Append(s, x)[Len(s) + 1] = x
      /\ \A i \in DOMAIN s : i \in DOMAIN Append(s, x) /\ Append(s, x)[i] = s[i] /\ i \in 1 .. Len(s)
      /\ \A i \in DOMAIN Append(s, x) : i \in DOMAIN s \/ i = Len(s) + 1
  BY More
<1>2. \A k \in Nat : Upto(s, k) /\ Rank(x) <= k => Upto(Append(s, x), k)
  BY <1>1 DEF Upto
<1>3. ASSUME Ordered(s), Follows(s, x) PROVE Ordered(Append(s, x))
  <2>1. SUFFICES ASSUME NEW i \in DOMAIN Append(s, x), NEW j \in DOMAIN Append(s, x), i < j,
                        Rank(Append(s, x)[i]) > 0, Rank(Append(s, x)[j]) > 0
                 PROVE  Rank(Append(s, x)[i]) < Rank(Append(s, x)[j]) \/ Twice(Append(s, x)[i], Append(s, x)[j])
    BY DEF Ordered
  <2>2. CASE j \in DOMAIN s
    <3>1. i \in DOMAIN s
      BY <1>1, <2>1, <2>2
    <3> QED
      BY <1>1, <1>3, <2>1, <2>2, <3>1 DEF Ordered
  <2>3. CASE j = Len(s) + 1
    <3>1. i \in DOMAIN s
      BY <1>1, <2>1, <2>3
    <3> QED
      BY <1>1, <1>3, <2>1, <2>3, <3>1 DEF Follows
  <2> QED
    BY <1>1, <2>2, <2>3
<1>4. ASSUME NEW k \in Nat, Upto(s, k), k < Rank(x) PROVE Follows(s, x)
  <2>1. \A i \in DOMAIN s : Rank(s[i]) \in 0 .. 5 /\ Rank(s[i]) <= k
    BY <1>4, RanksOf DEF Upto
  <2>2. Rank(x) \in 0 .. 5
    BY RanksOf
  <2> QED
    BY <1>4, <2>1, <2>2 DEF Follows
<1> QED
  BY <1>2, <1>3, <1>4

(* A line of no turn at all, or of the last rank.                          *)
LEMMA RankedLast ==
  ASSUME NEW s \in Seq(Lines), NEW x \in Lines, Ordered(s)
  PROVE  /\ Rank(x) = 0 => Ordered(Append(s, x)) /\ \A k \in Nat : Upto(s, k) => Upto(Append(s, x), k)
         /\ Rank(x) = 5 /\ Upto(s, 4) => Ordered(Append(s, x))
<1>1. Rank(x) = 0 => Follows(s, x)
  BY DEF Follows
<1> QED
  BY <1>1, RankedMore

LEMMA RankedFewer ==
  ASSUME NEW s \in Seq(Lines), s # <<>>
  PROVE  /\ \A k \in Nat : Upto(s, k) => Upto(Tail(s), k) /\ Rank(s[1]) <= k
         /\ Ordered(s) => Ordered(Tail(s))
         /\ Ordered(s) /\ Rank(s[1]) = 5 => Upto(Tail(s), 0)
<1>1. /\ 1 \in DOMAIN s
      /\ \A i \in DOMAIN Tail(s) : i + 1 \in DOMAIN s /\ Tail(s)[i] = s[i + 1] /\ i \in Nat /\ 1 < i + 1
  BY Rest
<1>2. \A k \in Nat : Upto(s, k) => Upto(Tail(s), k) /\ Rank(s[1]) <= k
  BY <1>1 DEF Upto
<1>3. Ordered(s) => Ordered(Tail(s))
  <2>1. \A i, j \in DOMAIN Tail(s) : i < j => i + 1 < j + 1
    BY <1>1
  <2> QED
    BY <1>1, <2>1 DEF Ordered
<1>4. ASSUME Ordered(s), Rank(s[1]) = 5, NEW i \in DOMAIN Tail(s) PROVE Rank(Tail(s)[i]) <= 0
  <2>1. SUFFICES ASSUME ~(Rank(s[i + 1]) <= 0) PROVE FALSE
    BY <1>1
  <2>2. s[i + 1] \in Lines /\ i + 1 \in DOMAIN s /\ 1 < i + 1
    BY <1>1
  <2>3. Rank(s[i + 1]) \in 0 .. 5
    BY <2>2, RanksOf
  <2>4. Twice(s[1], s[i + 1])
    BY <1>1, <1>4, <2>1, <2>2, <2>3 DEF Ordered
  <2>5. Rank(s[1]) = 2
    BY <2>4 DEF Twice, Rank
  <2> QED
    BY <1>4, <2>5
<1> QED
  BY <1>2, <1>3, <1>4 DEF Upto

(***************************************************************************)
(* Nothing under way stays so until the harness takes the prompt.          *)
(***************************************************************************)
LEMMA RunsIs ==
  ASSUME GroundInv, AskInv, [Next]_vars, HarnessRuns
  PROVE  /\ Coming /\ ~Coming' /\ ex > 0 /\ TakesIn(AskLine) /\ Taking /\ NotRun
         /\ AskLine \in PromptLines
<1>1. PICK c \in Inputs : TakesIn(c) /\ c[1] \in {"message", "prompt"}
  BY RunsSay DEF GroundInv
<1>2. c \in PromptLines /\ stdin \in Seq(Inputs) /\ stdin # <<>> /\ c = Head(stdin)
  BY <1>1, GroundIs DEF PromptLines, TakesIn
<1>3. Coming
  BY <1>2, FewerAmong DEF Coming
<1>4. c = AskLine
  BY <1>2, <1>3, OnePrompt
<1>5. ~Among(stdin', PromptLines)
  BY <1>1, <1>2, FewerAmong DEF TakesIn, AskInv
<1>6. Taking
  BY <1>1 DEF Taking, TakesIn, HarnessNext
<1>7. NotRun
  BY <1>3, GroundIs DEF NotRun, AskInv
<1> QED
  BY <1>1, <1>2, <1>3, <1>4, <1>5, <1>6, <1>7, ComesOf DEF AskInv

LEMMA IdleRank ==
  ASSUME CodecInv, NEW l \in Lines, Rank(l) = 0
  PROVE  Idle(l)
<1>1. l.type \in {"request", "response"}
  BY DEF Rank, Lines, LineTypes
<1>2. CASE l.type = "response" /\ l.call \in codec.prompts
  <2>1. l.call \in Calls /\ l.call[1] = "prompt" /\ harness = "opencode"
    BY <1>2 DEF CodecInv, CodecType
  <2> QED
    BY <1>2, <2>1 DEF Rank
<1> QED
  BY <1>1, <1>2 DEF Idle

LEMMA SpentReads ==
  ASSUME GroundInv, Spent, Dispatch, UNCHANGED harnessVars
  PROVE  Spent' /\ Told0' = Told0
<1>1. /\ stdout \in Seq(Lines) /\ stdout # <<>> /\ stdout' = Tail(stdout) /\ stdout[1] \in Lines
      /\ harness' = harness /\ hrun' = hrun
  <2>1. stdout # <<>> /\ stdout[1] \in Lines /\ harness' = harness
    BY Dispatched DEF GroundInv, FramesInv
  <2>2. hrun' = hrun /\ stdout' = Tail(stdout)
    BY DEF Dispatch, harnessVars
  <2> QED
    BY <2>1, <2>2, GroundIs
<1>2. Rank(stdout[1]) <= 0 /\ Upto(stdout', 0)
  BY <1>1, RankedFewer DEF Spent
<1>3. Rank(stdout[1]) = 0
  BY <1>1, <1>2, RanksOf
<1>4. Idle(stdout[1])
  BY <1>1, <1>3, IdleRank DEF GroundInv, FramesInv
<1>5. Told0' = Told0 /\ CodecRests
  BY <1>4, QuietRead DEF GroundInv
<1>6. Upto(stdout, 0)'
  BY <1>1, <1>2, RankStays
<1> QED
  BY <1>1, <1>5, <1>6 DEF Spent, CodecRests

LEMMA SpentRests ==
  ASSUME GroundInv, Spent, [Next]_vars, stdout' = stdout, UNCHANGED <<harness, harnessVars>>, ~Dispatch
  PROVE  Spent'
<1>1. Upto(stdout, 0)'
  BY RankStays DEF Spent
<1>2. codec'.called = codec.called /\ (~codec.started => ~codec'.started)
  <2>1. CASE codec' = codec
    BY <2>1
  <2>2. CASE Begin(PromptCall(ex)) /\ PromptCall(ex) \in Calls
    <3>1. codec' = Encode(harness, codec, PromptCall(ex))
      BY <2>2 DEF Begin
    <3> QED
      BY <2>2, <3>1, Encodes DEF GroundInv, FramesInv
  <2>3. ASSUME NEW c \in Calls, Begun(c)
        PROVE  codec'.called = codec.called /\ (~codec.started => ~codec'.started)
    <3>1. codec' = Encode(harness, codec, c)
      BY <2>3 DEF Begun, Begin
    <3> QED
      BY <3>1, Encodes DEF GroundInv, FramesInv
  <2> QED
    BY <2>1, <2>2, <2>3, CodecMoves DEF GroundInv
<1> QED
  BY <1>1, <1>2 DEF Spent, harnessVars

(* A harness with no run adds lines of no turn.                            *)
LEMMA SpentMore ==
  ASSUME GroundInv, Spent, HarnessNext, hrun' = 0,
         stdout' = stdout \/ \E x \in Lines : Rank(x) = 0 /\ Writes(<<x>>)
  PROVE  Spent'
<1>1. /\ stdout \in Seq(Lines) /\ harness' = harness /\ codec' = codec
  BY GroundIs, HarnessFrame DEF readVars
<1>2. Upto(stdout', 0)
  <2>1. CASE stdout' = stdout
    BY <2>1 DEF Spent
  <2>2. ASSUME NEW x \in Lines, Rank(x) = 0, Writes(<<x>>) PROVE Upto(stdout', 0)
    <3>1. stdout' = Append(stdout, x)
      BY <1>1, <2>2, Written
    <3> QED
      BY <1>1, <2>2, <3>1, RankedMore DEF Spent
  <2> QED
    BY <2>1, <2>2
<1>3. Upto(stdout, 0)'
  BY <1>1, <1>2, RankStays
<1> QED
  BY <1>1, <1>3 DEF Spent

(* No load is answered any more.                                           *)
LEMMA NoLoad ==
  ASSUME GroundInv, ex > 0, HarnessNext, NEW c \in Calls, TakesIn(c)
  PROVE  c[1] # "load"
<1>1. SUFFICES ASSUME c[1] = "load" PROVE FALSE
  OBVIOUS
<1>2. c = Load
  BY <1>1, CallsAssumption DEF Load
<1>3. stdin \in Seq(Inputs) /\ stdin # <<>> /\ Head(stdin) = Load
  BY <1>2, GroundIs DEF TakesIn
<1>4. Among(stdin, {Load}) /\ 1 \in DOMAIN stdin /\ stdin[1] = Load
  BY <1>3, FewerAmong, Rest
<1>5. Load \notin told /\ call[Load] # "none"
  BY <1>4, LoadIsCall DEF GroundInv, LoadInv, LoadRead, Unwritten
<1>6. step = "open" /\ harness = "opencode"
  BY <1>5 DEF GroundInv, RestInv, LoadInv, LoadCalled
<1>7. chan[Load] = <<"ok">>
  BY <1>6, LoadIsCall DEF GroundInv, LoadInv, LoadCalled, FramesInv, ToldInv
<1>8. chan[Load] \in {<<>>, <<"exit">>}
  BY <1>5, LoadIsCall DEF GroundInv, FramesInv, ToldInv, Untold
<1> QED
  BY <1>7, <1>8

LEMMA SpentHarness ==
  ASSUME GroundInv, OrderInv, ex > 0, Spent, HarnessNext, ~HarnessRuns
  PROVE  Spent'
<1>1. /\ hrun = 0 /\ hpc = "idle" /\ stdout \in Seq(Lines)
  BY GroundIs DEF Spent, GroundInv, RestInv
<1>2. CASE HarnessAnswers
  <2>1. PICK c \in Calls, how \in Hows : \E x \in Answer(c, how) :
            /\ TakesIn(c) /\ c[1] \in Handshake \union {"clear", "cancel"}
            /\ c[1] = "load" \/ Writes(<<x>>)
            /\ hrun' = hrun
    BY <1>2, AnswersSay DEF GroundInv
  <2>2. PICK x \in Answer(c, how) :
            /\ TakesIn(c) /\ c[1] \in Handshake \union {"clear", "cancel"}
            /\ c[1] = "load" \/ Writes(<<x>>)
            /\ hrun' = hrun
    BY <2>1
  <2>3. x \in Lines /\ Rank(x) = 0
    BY <2>2, RanksOf DEF Handshake
  <2> QED
    BY <1>1, <2>2, <2>3, NoLoad, SpentMore
<1>3. CASE HarnessStops \/ HarnessExits
  <2>1. stdout' = stdout /\ hrun' = 0
    BY <1>1, <1>3 DEF HarnessStops, HarnessExits
  <2> QED
    BY <2>1, SpentMore
<1>4. ASSUME NEW r \in Requests, HarnessHears(r) \/ HarnessFetches(r) PROVE Spent'
  <2>1. stdout' = stdout /\ hrun' = 0
    BY <1>1, <1>4, HearsSay DEF GroundInv
  <2> QED
    BY <2>1, SpentMore
<1>5. ASSUME NEW r \in Requests, HarnessLists(r) PROVE Spent'
  <2>1. hrun' = 0 /\ (stdout' = stdout \/ \E x \in Asking(r) : Writes(<<x>>))
    BY <1>1, <1>5, ListsSay DEF GroundInv
  <2>2. \A x \in Asking(r) : x \in Lines /\ Rank(x) = 0
    BY RanksOf DEF Asking
  <2> QED
    BY <2>1, <2>2, SpentMore
<1>6. ASSUME NEW tool \in RespondTools \union {Tool, Permission} PROVE ~HarnessUses(tool)
  BY <1>1, UsesSay DEF GroundInv
<1>7. ~HarnessReports
  BY <1>1, ReportsSay DEF GroundInv
<1>8. ~HarnessEnds
  BY <1>1, EndsSay, WantsAre DEF GroundInv
<1> QED
  BY <1>2, <1>3, <1>4, <1>5, <1>6, <1>7, <1>8 DEF HarnessNext

(* What has not run still has not, unless the harness takes its line.      *)
LEMMA NotRunMoves ==
  ASSUME GroundInv, AskInv, NotRunInv, [Next]_vars, ~Prompt, ex > 0, NotRun'
  PROVE  NotRun
<1> DEFINE P == PromptCall(ex)
<1>0. /\ P \in Calls /\ ex' = ex /\ P' = P /\ harness' = harness /\ stdin \in Seq(Inputs) /\ stdout \in Seq(Lines)
      /\ (Coming' <=> Among(stdin', PromptLines)) /\ P \in PromptLines
  BY GroundIs, ComesOf DEF PromptLines, PromptCall
<1>1. CASE harness = "claude"
  <2>1. SUFFICES ASSUME ~NotRun PROVE FALSE
    OBVIOUS
  <2>2. prompting \notin {"schema", "listing", "send", "failed"} /\ ~Coming /\ prompting # "asking"
    BY <1>1, <2>1 DEF NotRun, GroundInv, SentInv
  <2>3. prompting' \notin {"schema", "listing", "send", "failed"}
    <3>1. CASE Prompting
      BY <2>2, <3>1 DEF Prompting, PromptNext, PromptSets, PromptWaits, PromptSends, Prompted, ExchangeOver
    <3>2. CASE ~Prompting
      <4>1. prompting' = prompting
        BY <3>2, TurnStep, HarnessFrame DEF GroundInv, AdapterInv, turnVars, Opened, Noted, Closed, Reading, Begun,
           Waiting
      <4> QED
        BY <2>2, <4>1
    <3> QED
      BY <3>1, <3>2
  <2>4. Coming'
    BY <1>0, <1>1, <2>3 DEF NotRun
  <2>5. CASE stdin' = stdin \/ stdin' = <<>> \/ Taking
    BY <1>0, <2>2, <2>4, <2>5, NoneAmong, FewerAmong DEF Coming, Taking
  <2>6. CASE OtherWritten
    BY <1>0, <2>2, <2>4, <2>6, MoreAmong DEF Coming, OtherWritten, PromptLines
  <2>7. ASSUME NEW c \in Calls, CallWritten(c) PROVE FALSE
    <3>1. c \in Inputs /\ stdin' = Append(stdin, c) /\ call[c] = "open"
      BY <2>7 DEF Inputs, CallWritten
    <3>2. c \in PromptLines
      BY <1>0, <2>2, <2>4, <3>1, MoreAmong DEF Coming
    <3>3. c \in {"prompt"} \X Prompts
      BY <3>2, CallsAssumption DEF PromptLines
    <3>4. c = PromptCall(c[2]) /\ c[2] \in Prompts
      BY <3>3 DEF PromptCall
    <3> QED
      BY <1>1, <3>1, <3>4 DEF GroundInv, SentInv, PromptCallInv
  <2>8. ~MessageWritten
    BY <2>2 DEF MessageWritten
  <2> QED
    BY <2>5, <2>6, <2>7, <2>8, InputsMove DEF GroundInv
<1>2. CASE harness = "opencode"
  <2>1. SUFFICES ASSUME ~NotRun PROVE FALSE
    OBVIOUS
  <2>2. call[P] \notin Unwritten /\ ~Coming
    BY <1>2, <2>1 DEF NotRun
  <2>3. call'[P] \notin Unwritten
    BY <1>0, <2>2, WrittenStays DEF GroundInv
  <2>4. Coming'
    BY <1>0, <1>2, <2>3 DEF NotRun
  <2>5. CASE stdin' = stdin \/ stdin' = <<>> \/ Taking
    BY <1>0, <2>2, <2>4, <2>5, NoneAmong, FewerAmong DEF Coming, Taking
  <2>6. CASE OtherWritten
    BY <1>0, <2>2, <2>4, <2>6, MoreAmong DEF Coming, OtherWritten, PromptLines
  <2>7. ASSUME NEW c \in Calls, CallWritten(c) PROVE FALSE
    <3>1. c \in Inputs /\ stdin' = Append(stdin, c) /\ call[c] = "open"
      BY <2>7 DEF Inputs, CallWritten
    <3>2. c \in PromptLines
      BY <1>0, <2>2, <2>4, <3>1, MoreAmong DEF Coming
    <3>3. c \in {"prompt"} \X Prompts
      BY <3>2, CallsAssumption DEF PromptLines
    <3>4. c = PromptCall(c[2]) /\ c[2] \in Prompts
      BY <3>3 DEF PromptCall
    <3>5. c = P
      BY <3>1, <3>4 DEF GroundInv, SentInv, PromptCallInv
    <3> QED
      BY <2>2, <3>1, <3>5 DEF Unwritten
  <2>8. ~MessageWritten
    BY <1>2 DEF MessageWritten
  <2> QED
    BY <2>5, <2>6, <2>7, <2>8, InputsMove DEF GroundInv
<1>3. CASE harness = "pi"
  <2> DEFINE E == {l \in AnswersTo(P) : l.how = "error"}
  <2>0. E' = E /\ E \in SUBSET AnswersTo(P)
    BY <1>0 DEF AnswersTo, Lines, Response
  <2>1. SUFFICES ASSUME P \in told, ~Refused(P) PROVE FALSE
    BY <1>3 DEF NotRun
  <2>2. told \subseteq told'
    BY HarnessAdds, HarnessRests DEF GroundInv, harnessVars
  <2>3. Refused(P)'
    BY <1>0, <1>3, <2>1, <2>2 DEF NotRun
  <2>4. ~Among(stdout, E) /\ ~(Resolving(P) /\ ~hand.response[2]) /\ chan[P] # <<"refused">>
    BY <2>1 DEF Refused
  <2>5. \/ Among(stdout', E)
        \/ Resolving(P)' /\ ~hand'.response[2]
        \/ chan'[P] = <<"refused">>
    <3>1. Among(stdout, E)' \/ (Resolving(P)' /\ ~hand'.response[2]) \/ chan'[P] = <<"refused">>
      BY <1>0, <2>3 DEF Refused
    <3> QED
      BY <2>0, <3>1
  <2> HIDE DEF E
  <2>6. CASE HarnessNext
    <3>1. chan' = chan /\ (Resolving(P)' <=> Resolving(P)) /\ hand' = hand
      BY <1>0, <2>6, HarnessFrame DEF callVars, readVars, Resolving
    <3>2. ~AnswersCall(P)
      <4>1. SUFFICES ASSUME AnswersCall(P) PROVE FALSE
        OBVIOUS
      <4>2. TakesIn(P)
        BY <1>3, <4>1 DEF AnswersCall, PromptCall
      <4>3. Coming
        BY <1>0, <4>2, FewerAmong DEF TakesIn, Coming
      <4> QED
        BY <1>3, <2>1, <4>3 DEF AskInv
    <3>3. Among(stdout', E) => Among(stdout, E)
      BY <1>0, <2>0, <2>6, <3>2, AnswersAmong DEF GroundInv
    <3> QED
      BY <2>4, <2>5, <3>1, <3>3
  <2>7. CASE Dispatch
    <3>1. /\ stdout # <<>> /\ stdout' = Tail(stdout) /\ chan' = chan /\ Head(stdout) = stdout[1] /\ stdout[1] \in Lines
      BY <1>0, <2>7, Rest DEF Dispatch
    <3>2. Among(stdout', E) => Among(stdout, E)
      BY <1>0, <3>1, FewerAmong
    <3>3. Resolving(P)' /\ ~hand'.response[2]
      BY <2>4, <2>5, <3>1, <3>2
    <3>4. PICK f : /\ stdout[1].type = "response" => f.response = <<stdout[1].call, stdout[1].how # "error">>
                   /\ stdout[1].type # "response" => f.response = <<>>
                   /\ \/ reader' = "resolve" /\ hand' = f /\ f.response # <<>>
                      \/ reader' = "read"
      BY <2>7, Dispatched DEF GroundInv, FramesInv
    <3>5. hand' = f /\ f.response # <<>> /\ hand'.response[1] = P
      <4>1. reader' = "resolve" /\ hand'.response[1] = P
        BY <1>0, <3>3 DEF Resolving
      <4>2. hand' = f /\ f.response # <<>>
        BY <3>4, <4>1
      <4> QED
        BY <4>1, <4>2
    <3>6. stdout[1].type = "response" /\ stdout[1].call = P /\ stdout[1].how = "error"
      <4>1. stdout[1].type = "response" /\ f.response = <<stdout[1].call, stdout[1].how # "error">>
        BY <3>4, <3>5
      <4>2. f.response[1] = stdout[1].call /\ f.response[2] = (stdout[1].how # "error")
        BY <4>1
      <4> QED
        BY <3>3, <3>5, <4>1, <4>2
    <3>7. stdout[1] \in E
      BY <3>1, <3>6 DEF E, AnswersTo, Response
    <3> QED
      BY <1>0, <2>4, <3>1, <3>7, FewerAmong
  <2>8. CASE Resolve
    <3>1. /\ reader = "resolve" /\ stdout' = stdout /\ reader' = "read"
          /\ \A c \in Calls : c # hand.response[1] => chan'[c] = chan[c]
          /\ chan'[hand.response[1]] = IF hand.response[2] THEN <<"ok">> ELSE <<"refused">>
      BY <2>8, Resolved DEF GroundInv, FramesInv
    <3>2. chan'[P] = <<"refused">>
      BY <2>4, <2>5, <3>1 DEF Resolving
    <3>3. hand.response[1] = P
      BY <1>0, <2>4, <3>1, <3>2
    <3> QED
      BY <2>4, <3>1, <3>2, <3>3 DEF Resolving
  <2>9. CASE Shutdown \/ EventsClose
    <3>1. stdout' = stdout /\ reader' # "resolve"
      BY <2>9 DEF Shutdown, EventsClose, processVars
    <3>2. chan'[P] = <<"refused">>
      BY <2>4, <2>5, <3>1 DEF Resolving
    <3>3. chan'[P] = chan[P] \/ (P \in pending /\ chan'[P] = Append(chan[P], "exit"))
      BY <1>0, <2>9 DEF Shutdown, EventsClose, FailsOpen, callVars
    <3>4. P \in pending => chan[P] = <<>>
      BY <1>0 DEF GroundInv, AdapterInv, ClientInv, CallsInv, CallOnce
    <3>5. Append(<<>>, "exit") # <<"refused">>
      OBVIOUS
    <3> QED
      BY <2>4, <3>2, <3>3, <3>4, <3>5
  <2>10. CASE ~Reading /\ ~HarnessNext
    <3>1. chan' = chan /\ UNCHANGED <<hand>> /\ (Resolving(P)' <=> Resolving(P)) /\ stdout' = stdout
      BY <1>0, <2>10, ChannelsRest, OutputRests DEF GroundInv, Resolving
    <3> QED
      BY <2>4, <2>5, <3>1
  <2> QED
    BY <2>6, <2>7, <2>8, <2>9, <2>10 DEF Reading, ReaderNext
<1> QED
  BY <1>1, <1>2, <1>3, GroundIs

LEMMA ToldRests ==
  ASSUME GroundInv, [Next]_vars, ~Dispatch
  PROVE  Told0' = Told0 \/ (/\ Prompting /\ ExchangeOver
                            /\ (reader = "resolve" => Told0' = hand.events) /\ (reader # "resolve" => Told0' = <<>>))
<1>1. CASE Reading
  <2>1. Resolve \/ Shutdown \/ EventsClose
    BY <1>1 DEF Reading, ReaderNext
  <2> QED
    BY <2>1, Resolved DEF GroundInv, FramesInv, Shutdown, EventsClose, Told0
<1> QED
  BY <1>1, EventsMove DEF GroundInv, FramesInv

LEMMA ToldNothing ==
  ASSUME GroundInv, Told0 = <<>>
  PROVE  seen = <<>> /\ (reader = "resolve" => hand.events = <<>>)
BY EmptySeq, ConcatEmptySeq DEF Told0, GroundInv, FramesInv, EventsInv

LEMMA UnrunRests ==
  ASSUME GroundInv, Unrun, [Next]_vars, ~HarnessNext
  PROVE  Unrun'
<1>1. CASE Dispatch
  <2>1. UNCHANGED harnessVars
    BY HarnessRests
  <2> QED
    BY <1>1, <2>1, SpentReads DEF Unrun
<1>2. CASE ~Dispatch
  <2>1. Spent'
    <3>1. stdout' = stdout /\ UNCHANGED <<harness, harnessVars>>
      BY <1>2, HarnessRests, HarnessStays
    <3> QED
      BY <1>2, <3>1, SpentRests DEF Unrun
  <2>2. Told0' = <<>>
    BY <1>2, ToldRests, ToldNothing DEF Unrun
  <2> QED
    BY <2>1, <2>2 DEF Unrun
<1> QED
  BY <1>1, <1>2

(* A harness that takes the prompt runs it, or refuses it.                 *)
LEMMA RunsOn ==
  ASSUME GroundInv, AskInv, NotRunInv, [Next]_vars, HarnessRuns
  PROVE  Spent' \/ ~NotRun'
<1> DEFINE P == PromptCall(ex)
<1>0. /\ P \in Calls /\ stdout \in Seq(Lines) /\ ex > 0 /\ Coming /\ ~Coming' /\ NotRun /\ HarnessNext
      /\ TakesIn(AskLine)
  BY RunsIs, GroundIs DEF HarnessNext
<1>1. /\ UNCHANGED <<harness, callVars, readVars, ex, prompting>> /\ P' = P
  BY <1>0, HarnessFrame
<1>2. CASE harness = "claude"
  <2>1. prompting = "open"
    BY <1>0, <1>2 DEF AskInv
  <2> QED
    BY <1>0, <1>1, <1>2, <2>1 DEF NotRun
<1>3. CASE harness = "opencode"
  <2>1. call[P] \notin Unwritten
    BY <1>0, <1>3 DEF AskInv
  <2> QED
    BY <1>0, <1>1, <1>3, <2>1 DEF NotRun, callVars
<1>4. CASE harness = "pi"
  <2>1. P \notin told /\ AskLine = P
    BY <1>0, <1>4 DEF AskInv, AskLine
  <2>2. Untold(P)
    BY <1>0, <2>1 DEF GroundInv, FramesInv, ToldInv
  <2>3. PICK c \in Inputs :
          /\ TakesIn(c)
          /\ \/ UNCHANGED hrun /\ hrun = 0 /\ \E x \in Answer(c, "error") : Writes(<<x>>)
             \/ told' = told \union {c}
                /\ \E x \in Answer(c, "ok"), y \in Lines : y.type = "request" /\ Writes(<<x, y>>)
    BY <1>4, RunsSay DEF GroundInv
  <2>4. c = P
    BY <1>0, <2>1, <2>3 DEF TakesIn
  <2>5. ASSUME UNCHANGED hrun, hrun = 0, NEW x \in Answer(c, "error"), Writes(<<x>>) PROVE Spent'
    <3>1. x \in Lines /\ Rank(x) = 0
      BY <1>4, RanksOf
    <3>2. Spent
      BY <1>0 DEF NotRunInv, Unrun
    <3> QED
      BY <1>0, <2>5, <3>1, <3>2, SpentMore
  <2>6. ASSUME told' = told \union {c}, NEW x \in Answer(c, "ok"), NEW y \in Lines, y.type = "request", Writes(<<x, y>>)
        PROVE  ~NotRun'
    <3> DEFINE E == {l \in AnswersTo(P) : l.how = "error"}
    <3>0. E' = E
      BY <1>1 DEF AnswersTo, Lines, Response
    <3>1. x \in Lines /\ x \notin E /\ y \notin E
      BY <2>6 DEF Answer, Of, AnswersTo, Response
    <3>2. ~Among(stdout, E)
      BY <2>2 DEF Untold, Among, AnswersTo
    <3>3. stdout' = Append(Append(stdout, x), y) /\ Append(stdout, x) \in Seq(Lines)
      BY <1>0, <2>6, <3>1, Written
    <3> HIDE DEF E
    <3>4. ~Among(Append(stdout, x), E)
      BY <1>0, <3>1, <3>2, MoreAmong
    <3>5. ~Among(stdout', E)
      BY <2>6, <3>1, <3>3, <3>4, MoreAmong
    <3>6. ~Resolving(P)' /\ chan'[P] # <<"refused">>
      BY <1>1, <2>2 DEF Untold, Resolving, callVars, readVars
    <3>7. ~Among(stdout, E)'
      BY <3>0, <3>5
    <3>8. ~Refused(P)'
      BY <1>1, <3>6, <3>7 DEF Refused, E
    <3>9. P' \in told'
      BY <1>1, <2>4, <2>6
    <3>10. ~Refused(PromptCall(ex))'
      BY <1>1, <3>8
    <3> QED
      BY <1>1, <1>4, <3>9, <3>10 DEF NotRun
  <2> QED
    BY <2>3, <2>5, <2>6
<1> QED
  BY <1>2, <1>3, <1>4, GroundIs

LEMMA NotRunKept ==
  ASSUME GroundInv, AskInv, NotRunInv, BetweenInv, OrderInv, [Next]_vars
  PROVE  NotRunInv'
<1> SUFFICES ASSUME ex' > 0, NotRun' PROVE Unrun'
  BY DEF NotRunInv
<1>1. CASE Prompt
  <2>1. ~HarnessNext
    BY <1>1, PromptIs, HarnessFrame
  <2> QED
    BY <1>1, <2>1, PromptQuiet, UnrunRests
<1>2. CASE ~Prompt
  <2>1. ex' = ex /\ NotRun /\ Unrun
    BY <1>2, ComesOf, NotRunMoves DEF NotRunInv
  <2>2. CASE HarnessNext
    <3>1. Told0' = Told0
      BY <2>2, HarnessFrame DEF readVars, Told0
    <3>2. Spent'
      BY <2>1, <2>2, SpentHarness, RunsOn DEF Unrun
    <3> QED
      BY <2>1, <3>1, <3>2 DEF Unrun
  <2> QED
    BY <2>1, <2>2, UnrunRests
<1> QED
  BY <1>1, <1>2

LEMMA ReadsNot ==
  ASSUME GroundInv, stdout' = stdout
  PROVE  ~Dispatch
<1>1. SUFFICES ASSUME stdout # <<>>, Tail(stdout) = stdout PROVE FALSE
  BY DEF Dispatch
<1>2. stdout \in Seq(Lines) /\ Len(stdout) \in Nat
  BY GroundIs
<1>3. Len(Tail(stdout)) = Len(stdout) - 1
  BY <1>1, <1>2, HeadTailProperties
<1> QED
  BY <1>1, <1>2, <1>3

(* An exchange is over with nothing under way, while the session and its   *)
(* harness go on.                                                          *)
LEMMA OverRests ==
  ASSUME GroundInv, AskInv, NotRunInv, EndedInv, [Next]_vars, ExchangeOver, closing = "no", ~over, ~Prompt
  PROVE  ~Coming /\ Unrun'
<1> DEFINE P == PromptCall(ex)
<1>0. ex > 0 /\ P \in Calls /\ prompting \in {"open", "failed"}
  BY GroundIs DEF ExchangeOver
<1>1. Coming => NotRun
  BY <1>0, GroundIs DEF AskInv, NotRun
<1>2. CASE prompting = "open" /\ TurnEnded
  <2>1. PICK i \in DOMAIN seen : seen[i].kind = "ended"
    BY <1>2 DEF TurnEnded
  <2>2. /\ seen \in Seq(EventType) /\ (reader = "resolve" => hand.events \in Seq(EventType))
    BY DEF GroundInv, FramesInv, EventsInv
  <2>3. i \in DOMAIN Told0 /\ Told0[i].kind = "ended"
    BY <2>1, <2>2, Adds DEF Told0
  <2>4. Spent /\ Closes(Told0)
    BY <1>0, <2>3 DEF EndedInv, Has
  <2>5. reader = "resolve" => hand.events = <<>>
    <3>1. SUFFICES ASSUME reader = "resolve", hand.events # <<>> PROVE FALSE
      OBVIOUS
    <3>2. Told0 = seen \o hand.events /\ Len(Told0) = Len(seen) + Len(hand.events)
      BY <2>2, <3>1, Adds DEF Told0
    <3>3. Len(hand.events) \in Nat /\ Len(hand.events) # 0 /\ Len(seen) \in Nat /\ i <= Len(seen) /\ i \in Nat
      BY <2>1, <2>2, <3>1, EmptySeq
    <3>4. i = Len(Told0)
      BY <2>3, <2>4 DEF Closes
    <3> QED
      BY <3>2, <3>3, <3>4
  <2>6. ~Coming
    BY <1>0, <1>1, <2>3 DEF NotRunInv, Unrun
  <2>7. stdout' = stdout /\ UNCHANGED <<harness, harnessVars>> /\ ~Dispatch
    BY ReadsNot DEF ExchangeOver, processVars
  <2>8. Spent'
    BY <2>4, <2>7, SpentRests
  <2>9. Told0' = <<>>
    <3>1. reader' = reader /\ hand' = hand /\ seen' = <<>>
      BY DEF ExchangeOver
    <3> QED
      BY <2>2, <2>5, <3>1, ConcatEmptySeq DEF Told0
  <2> QED
    BY <2>6, <2>8, <2>9 DEF Unrun
<1>3. CASE prompting = "failed"
  <2>1. harness = "claude" \/ call[P] \in {"failed", "refused", "exit"}
    BY <1>3 DEF ExchangeOver, GroundInv, SentInv
  <2>2. NotRun /\ ~Coming
    <3>1. CASE harness = "claude"
      BY <1>3, <3>1 DEF NotRun, AskInv
    <3>2. CASE harness = "opencode"
      <4>1. call[P] = "failed"
        BY <1>0, <2>1, <3>2, GroundIs DEF GroundInv, SentInv, PromptCallInv
      <4> QED
        BY <3>2, <4>1 DEF NotRun, AskInv, Unwritten
    <3>3. CASE harness = "pi" /\ call[P] = "failed"
      BY <1>0, <3>3 DEF NotRun, AskInv, Unwritten
    <3>4. CASE harness = "pi" /\ call[P] = "refused"
      <4>1. chan[P] = <<"refused">>
        BY <1>0, <3>4 DEF GroundInv, FramesInv, ToldInv
      <4>2. P \in told
        BY <1>0, <4>1 DEF GroundInv, FramesInv, ToldInv, Untold
      <4> QED
        BY <3>4, <4>1, <4>2 DEF NotRun, Refused, AskInv
    <3>5. CASE harness = "pi" /\ call[P] = "exit"
      <4>1. chan[P] = <<"exit">>
        BY <1>0, <3>5 DEF GroundInv, FramesInv, ToldInv
      <4>2. P \notin told /\ reader \in Over
        BY <1>0, <4>1 DEF GroundInv, AdapterInv, ExitUntold, ClientInv, CallsInv, CallOnce
      <4>3. stdin = <<>>
        BY <4>2 DEF GroundInv, RestInv, AdapterInv, ClientInv, ReaderInv
      <4> QED
        BY <3>5, <4>2, <4>3, NoneAmong DEF NotRun, Coming
    <3> QED
      BY <2>1, <3>1, <3>2, <3>3, <3>4, <3>5, GroundIs
  <2>3. Unrun
    BY <1>0, <2>2 DEF NotRunInv
  <2>4. ~HarnessNext
    BY <1>0, HarnessFrame DEF ExchangeOver
  <2> QED
    BY <2>2, <2>3, <2>4, UnrunRests
<1>4. ~TurnEnded => prompting = "failed"
  BY DEF ExchangeOver
<1> QED
  BY <1>0, <1>2, <1>3, <1>4

(* Closing goes forward, and the end of the harness is told once.          *)
LEMMA ClosingStays ==
  ASSUME GroundInv, [Next]_vars
  PROVE  (closing' = "no" => closing = "no") /\ (over => over')
<1>1. closing' = closing \/ closing' \in {"client", "bridge", "done"}
  BY TurnStep, HarnessFrame DEF GroundInv, AdapterInv, turnVars, Opened, Noted, Closed, Reading, Begun, Waiting,
     Prompting
<1>2. over => over'
  <2>1. CASE Reading
    BY <2>1 DEF Reading, ReaderNext, Dispatch, Resolve, Shutdown, EventsClose
  <2> QED
    BY <2>1, ChannelsRest DEF GroundInv
<1> QED
  BY <1>1, <1>2

LEMMA BetweenKept ==
  ASSUME GroundInv, AskInv, NotRunInv, BetweenInv, OrderInv, EndedInv, [Next]_vars
  PROVE  BetweenInv'
<1> SUFFICES ASSUME Between', ex' > 0 PROVE ~Coming' /\ Unrun'
  BY DEF BetweenInv
<1>1. ~Prompt
  BY PromptIs DEF Between
<1>2. /\ ex' = ex /\ stdin \in Seq(Inputs) /\ (Coming' <=> Among(stdin', PromptLines))
  BY <1>1, ComesOf, GroundIs
<1>3. closing = "no" /\ ~over
  BY ClosingStays DEF Between
<1>4. CASE prompting = "idle"
  <2>1. ~Coming /\ Unrun
    BY <1>2, <1>3, <1>4 DEF BetweenInv, Between
  <2>2. ~HarnessRuns
    BY <2>1, RunsIs
  <2>3. Unrun'
    <3>1. CASE HarnessNext
      <4>1. Told0' = Told0
        BY <3>1, HarnessFrame DEF readVars, Told0
      <4> QED
        BY <1>2, <2>1, <2>2, <3>1, <4>1, SpentHarness DEF Unrun
    <3> QED
      BY <2>1, <3>1, UnrunRests
  <2>4. ~Among(stdin', PromptLines)
    <3>1. CASE stdin' = stdin \/ stdin' = <<>> \/ Taking
      BY <1>2, <2>1, <3>1, NoneAmong, FewerAmong DEF Coming, Taking
    <3>2. CASE OtherWritten
      BY <1>2, <2>1, <3>2, MoreAmong DEF Coming, OtherWritten, PromptLines
    <3>3. ASSUME NEW c \in Calls, CallWritten(c) PROVE ~Among(stdin', PromptLines)
      <4>1. c \in Inputs /\ stdin' = Append(stdin, c) /\ call[c] = "open"
        BY <3>3 DEF Inputs, CallWritten
      <4>2. CASE c \in PromptLines
        <5>1. c \in {"prompt"} \X Prompts
          BY <4>2, CallsAssumption DEF PromptLines
        <5>2. c = PromptCall(c[2]) /\ c[2] \in Prompts
          BY <5>1 DEF PromptCall
        <5> QED
          BY <1>4, <4>1, <5>2 DEF GroundInv, SentInv, PromptCallInv
      <4> QED
        BY <1>2, <2>1, <4>1, <4>2, MoreAmong DEF Coming
    <3>4. ~MessageWritten
      BY <1>4 DEF MessageWritten
    <3> QED
      BY <3>1, <3>2, <3>3, <3>4, InputsMove DEF GroundInv
  <2> QED
    BY <1>2, <2>3, <2>4
<1>5. CASE prompting # "idle"
  <2>1. prompting' = "idle"
    BY DEF Between
  <2>2. Prompting
    BY <1>5, <2>1, TurnStep, HarnessFrame DEF GroundInv, AdapterInv, turnVars, Opened, Noted, Closed, Reading, Begun,
       Waiting
  <2>3. ExchangeOver
    BY <1>1, <1>5, <2>1, <2>2 DEF Prompting, PromptNext, PromptSets, PromptWaits, PromptSends, ClaudeSends, CallSends,
       Prompted
  <2>4. stdin' = stdin
    BY <2>3 DEF ExchangeOver, processVars
  <2> QED
    BY <1>1, <1>2, <1>3, <2>3, <2>4, OverRests DEF Coming
<1> QED
  BY <1>4, <1>5

(***************************************************************************)
(* The events of a line, by their kinds.                                   *)
(***************************************************************************)
LEMMA HasJoin ==
  ASSUME NEW s \in Seq(EventType), NEW t \in Seq(EventType), NEW k
  PROVE  Has(s \o t, k) <=> Has(s, k) \/ Has(t, k)
<1>1. /\ \A i \in DOMAIN s : i \in DOMAIN (s \o t) /\ (s \o t)[i] = s[i]
      /\ \A i \in DOMAIN t : Len(s) + i \in DOMAIN (s \o t) /\ (s \o t)[Len(s) + i] = t[i]
      /\ \A i \in DOMAIN (s \o t) : i \in DOMAIN s \/ \E j \in DOMAIN t : i = Len(s) + j
  BY Adds
<1>2. Has(s, k) => Has(s \o t, k)
  BY <1>1 DEF Has
<1>3. Has(t, k) => Has(s \o t, k)
  BY <1>1 DEF Has
<1>4. ASSUME NEW i \in DOMAIN (s \o t), (s \o t)[i].kind = k PROVE Has(s, k) \/ Has(t, k)
  BY <1>1, <1>4 DEF Has
<1> QED
  BY <1>2, <1>3, <1>4 DEF Has

LEMMA HasOne ==
  /\ \A k : ~Has(<<>>, k)
  /\ \A e \in EventType : <<e>> \in Seq(EventType) /\ \A k : Has(<<e>>, k) <=> e.kind = k
BY DEF Has

LEMMA HasMore ==
  ASSUME NEW s \in Seq(EventType), NEW e \in EventType, NEW k
  PROVE  Has(s \o <<e>>, k) <=> Has(s, k) \/ e.kind = k
BY HasOne, HasJoin

LEMMA ClosesLast ==
  ASSUME NEW s \in Seq(EventType), ~Has(s, "ended"), NEW e \in EventType
  PROVE  Closes(s \o <<e>>)
<1>1. /\ <<e>> \in Seq(EventType) /\ Len(<<e>>) = 1 /\ DOMAIN <<e>> = {1}
  OBVIOUS
<1>2. /\ Len(s \o <<e>>) = Len(s) + 1
      /\ \A i \in DOMAIN s : (s \o <<e>>)[i] = s[i]
      /\ \A i \in DOMAIN (s \o <<e>>) : i \in DOMAIN s \/ i = Len(s) + 1
  BY <1>1, Adds
<1> QED
  BY <1>2 DEF Closes, Has

(* The end of a turn comes of the line that ends it, alone, and a limit of *)
(* Claude Code's end with one noted.                                       *)
EndOf(l, f) ==
    /\ Has(f.events, "ended") =>
         Rank(l) = 5 /\ f.codec.called = {} /\ ~f.codec.started /\ Closes(f.events)
    /\ Has(f.events, "limit") => harness = "claude" /\ l.type = "end" /\ codec.limit

LEMMA EndsEvents ==
  ASSUME HeldInv, CodecInv, NEW l \in Lines, Said(l), NEW f, f = Decode(harness, codec, l)
  PROVE  EndOf(l, f)
<1>0. /\ f.events \in Seq(EventType) /\ codec \in CodecType /\ l.type \in LineTypes /\ l.how \in {"ok", "error", "aborted"}
      /\ harness # "opencode" => f.codec.called = {} /\ ~f.codec.started
      /\ harness \in {"claude", "opencode", "pi"}
  BY DecodeTyped DEF CodecInv, Lines, HeldInv, StepType, Harnesses
<1>1. /\ \A k \in Kinds : /\ Plain(k) \in EventType /\ <<Plain(k)>> \in Seq(EventType)
                          /\ \A j : Has(<<Plain(k)>>, j) <=> k = j
      /\ \A j : ~Has(<<>>, j)
      /\ Outcome(l) \in EventType /\ ~Has(<<Outcome(l)>>, "ended") /\ ~Has(<<Outcome(l)>>, "limit")
      /\ PiStructured(l) \in EventType /\ ~Has(<<PiStructured(l)>>, "ended") /\ ~Has(<<PiStructured(l)>>, "limit")
  BY EventsAre, HasOne
<1>2. \A k \in {"error", "limit"} :
        /\ Why(l.how, k) \in Seq(EventType) /\ ~Has(Why(l.how, k), "ended") /\ (Has(Why(l.how, k), "limit") => k = "limit")
  BY <1>0, WhyIs DEF Has
<1>3. \A b \in BOOLEAN, k \in {"started", "toolCall"} :
        When(b, k) \in Seq(EventType) /\ ~Has(When(b, k), "ended") /\ ~Has(When(b, k), "limit")
  BY <1>1, WhenIs DEF Kinds
<1>4. \A s \in Seq(EventType) :
        ~Has(s, "ended") => /\ Closes(s \o <<Plain("ended")>>)
                            /\ Has(s \o <<Plain("ended")>>, "limit") => Has(s, "limit")
  <2>1. Plain("ended") \in EventType /\ Plain("ended").kind = "ended"
    BY EventsAre DEF Kinds
  <2>2. \A s \in Seq(EventType) : ~Has(s, "ended") => Closes(s \o <<Plain("ended")>>)
    BY <2>1, ClosesLast
  <2>3. \A s \in Seq(EventType) : Has(s \o <<Plain("ended")>>, "limit") => Has(s, "limit")
    BY <2>1, HasMore
  <2> QED
    BY <2>2, <2>3
<1>5. CASE harness = "claude"
  <2>1. ClaudeFrame(codec, l, f)
    BY <1>0, <1>5, ClaudeSays DEF Decode
  <2>2. CASE l.type = "end"
    <3> DEFINE w == Why(l.how, IF codec.limit THEN "limit" ELSE "error")
    <3>1. f.events = w \o <<Plain("ended")>>
      BY <2>1, <2>2 DEF ClaudeFrame, Tells
    <3>2. w \in Seq(EventType) /\ ~Has(w, "ended") /\ (Has(w, "limit") => codec.limit)
      BY <1>2
    <3>3. Rank(l) = 5
      BY <2>2 DEF Rank
    <3> HIDE DEF w
    <3>4. Closes(f.events) /\ (Has(f.events, "limit") => codec.limit)
      BY <1>4, <3>1, <3>2
    <3> QED
      BY <1>0, <1>5, <2>2, <3>3, <3>4 DEF EndOf
  <2>3. CASE l.type # "end"
    <3>1. \/ f.events = <<>> \/ f.events = <<Plain("started")>> \/ f.events = <<Plain("toolCall")>>
          \/ f.events = <<Plain("toolResult")>> \/ f.events = <<Outcome(l)>>
      BY <1>0, <1>5, <2>1, <2>3 DEF ClaudeFrame, LineTypes, Said, Same, Tells
    <3>2. ~Has(f.events, "ended") /\ ~Has(f.events, "limit")
      BY <1>1, <3>1 DEF Kinds
    <3> QED
      BY <3>2 DEF EndOf
  <2> QED
    BY <2>2, <2>3
<1>6. CASE harness = "pi"
  <2>1. PiFrame(codec, l, f)
    BY <1>6, PiSays DEF Decode
  <2>2. CASE l.type = "end"
    <3>1. f.events = <<Plain("ended")>> /\ Rank(l) = 5
      BY <2>1, <2>2 DEF PiFrame, Rank
    <3>2. Closes(<<Plain("ended")>>)
      BY DEF Closes
    <3>3. ~Has(f.events, "limit")
      BY <1>1, <3>1 DEF Kinds
    <3> QED
      BY <1>0, <1>6, <3>1, <3>2, <3>3 DEF EndOf
  <2>3. CASE l.type # "end"
    <3>1. \/ f.events = <<>> \/ f.events = <<Plain("started")>> \/ f.events = When(~IsRespond(l.tool), "toolCall")
          \/ f.events = <<Plain("toolResult")>> \/ f.events = <<PiStructured(l)>> \/ f.events = Why(l.how, "error")
      BY <1>0, <1>6, <2>1, <2>3 DEF PiFrame, LineTypes, Said
    <3>2. (~IsRespond(l.tool)) \in BOOLEAN
      BY DEF IsRespond
    <3>3. ~Has(f.events, "ended") /\ ~Has(f.events, "limit")
      BY <1>1, <1>2, <1>3, <3>1, <3>2 DEF Kinds
    <3> QED
      BY <3>3 DEF EndOf
  <2> QED
    BY <2>2, <2>3
<1>7. CASE harness = "opencode"
  <2>1. OpenCodeFrame(codec, l, f)
    BY <1>0, <1>7, OpenCodeSays DEF Decode
  <2>2. codec.started \in BOOLEAN
    BY <1>0 DEF CodecType
  <2>3. CASE l.type = "response" /\ l.call \in codec.prompts
    <3> DEFINE w == When(~codec.started, "started") \o Why(l.how, "error")
    <3>1. /\ f.events = w \o <<Plain("ended")>>
          /\ f.codec = [codec EXCEPT !.prompts = @ \ {l.call}, !.started = FALSE, !.called = {}]
      BY <2>1, <2>3 DEF OpenCodeFrame
    <3>2. w \in Seq(EventType) /\ ~Has(w, "ended") /\ ~Has(w, "limit")
      <4>1. /\ When(~codec.started, "started") \in Seq(EventType) /\ ~Has(When(~codec.started, "started"), "ended")
            /\ ~Has(When(~codec.started, "started"), "limit")
        BY <1>3, <2>2
      <4> QED
        BY <1>2, <4>1, HasJoin
    <3>3. l.call \in Calls /\ l.call[1] = "prompt"
      BY <1>0, <2>3 DEF CodecInv, CodecType
    <3>4. Rank(l) = 5
      BY <1>7, <2>3, <3>3 DEF Rank
    <3>5. f.codec.called = {} /\ ~f.codec.started
      BY <1>0, <3>1 DEF CodecType
    <3> HIDE DEF w
    <3>6. Closes(f.events) /\ ~Has(f.events, "limit")
      BY <1>4, <3>1, <3>2
    <3> QED
      BY <3>4, <3>5, <3>6 DEF EndOf
  <2>4. CASE l.type \notin {"request", "response"} /\ InTurn(codec)
    <3>1. PICK g : /\ f.events = When(~codec.started, "started") \o g.events
                   /\ l.type \notin {"use", "result"} => g = Frame(codec, <<>>)
                   /\ l.type \in {"use", "result"} => g = OpenCodeTool(codec, l)
      BY <2>1, <2>4 DEF OpenCodeFrame
    <3>2. g.events \in Seq(EventType) /\ ~Has(g.events, "ended") /\ ~Has(g.events, "limit")
      <4>1. CASE l.type \notin {"use", "result"}
        <5>1. g.events = <<>>
          BY <3>1, <4>1, FrameIs
        <5> QED
          BY <1>1, <5>1
      <4>2. CASE l.type \in {"use", "result"}
        <5>1. ToolFrame(codec, l, g)
          BY <1>0, <3>1, <4>2, OpenCodeToolSays
        <5> DEFINE b == l.tool \notin codec.called /\ ~IsRespond(l.tool)
        <5>2. \/ g.events = When(b, "toolCall") \/ g.events = <<>> \/ g.events = <<>> \o <<Outcome(l)>>
              \/ g.events = When(b, "toolCall") \o <<Plain("toolResult")>>
          BY <4>2, <5>1 DEF ToolFrame
        <5>3. b \in BOOLEAN
          BY DEF IsRespond
        <5> HIDE DEF b
        <5>4. /\ <<>> \in Seq(EventType) /\ <<Outcome(l)>> \in Seq(EventType) /\ <<Plain("toolResult")>> \in Seq(EventType)
              /\ When(b, "toolCall") \in Seq(EventType)
              /\ ~Has(When(b, "toolCall"), "ended") /\ ~Has(When(b, "toolCall"), "limit")
              /\ ~Has(<<Plain("toolResult")>>, "ended") /\ ~Has(<<Plain("toolResult")>>, "limit")
          BY <1>1, <1>3, <5>3 DEF Kinds
        <5>5. CASE g.events = When(b, "toolCall") \/ g.events = <<>>
          <6>1. CASE g.events = When(b, "toolCall")
            BY <5>4, <6>1
          <6>2. CASE g.events = <<>>
            BY <1>1, <5>4, <6>2
          <6> QED
            BY <5>5, <6>1, <6>2
        <5>6. CASE g.events = <<>> \o <<Outcome(l)>>
          BY <1>1, <5>4, <5>6, ConcatEmptySeq
        <5>7. CASE g.events = When(b, "toolCall") \o <<Plain("toolResult")>>
          <6> DEFINE u == When(b, "toolCall")
                     v == <<Plain("toolResult")>>
          <6>1. u \in Seq(EventType) /\ v \in Seq(EventType) /\ g.events = u \o v
            BY <5>4, <5>7
          <6>2. ~Has(u, "ended") /\ ~Has(v, "ended") /\ ~Has(u, "limit") /\ ~Has(v, "limit")
            BY <5>4
          <6> HIDE DEF u, v
          <6> QED
            BY <6>1, <6>2, HasJoin, Adds
        <5> QED
          BY <5>2, <5>5, <5>6, <5>7
      <4> QED
        BY <4>1, <4>2
    <3>3. ~Has(f.events, "ended") /\ ~Has(f.events, "limit")
      <4>1. /\ When(~codec.started, "started") \in Seq(EventType) /\ ~Has(When(~codec.started, "started"), "ended")
            /\ ~Has(When(~codec.started, "started"), "limit")
        BY <1>3, <2>2
      <4> QED
        BY <3>1, <3>2, <4>1, HasJoin
    <3> QED
      BY <3>3 DEF EndOf
  <2>5. CASE ~(l.type = "response" /\ l.call \in codec.prompts) /\ ~(l.type \notin {"request", "response"} /\ InTurn(codec))
    <3>1. f.events = <<>>
      BY <2>1, <2>5 DEF OpenCodeFrame, Same
    <3> QED
      BY <1>1, <3>1 DEF EndOf
  <2> QED
    BY <2>3, <2>4, <2>5
<1> QED
  BY <1>0, <1>5, <1>6, <1>7

LEMMA ClosesJoin ==
  ASSUME NEW s \in Seq(EventType), NEW t \in Seq(EventType)
  PROVE  /\ ~Has(s, "ended") /\ Closes(t) => Closes(s \o t)
         /\ Closes(s \o t) => Closes(t)
<1>1. /\ Len(s \o t) = Len(s) + Len(t) /\ Len(s) \in Nat /\ Len(t) \in Nat
      /\ \A i \in DOMAIN s : i \in DOMAIN (s \o t) /\ (s \o t)[i] = s[i]
      /\ \A i \in DOMAIN t : Len(s) + i \in DOMAIN (s \o t) /\ (s \o t)[Len(s) + i] = t[i] /\ i \in Nat
      /\ \A i \in DOMAIN (s \o t) : i \in DOMAIN s \/ \E j \in DOMAIN t : i = Len(s) + j
  BY Adds
<1>2. ASSUME ~Has(s, "ended"), Closes(t), NEW i \in DOMAIN (s \o t), (s \o t)[i].kind = "ended"
      PROVE  i = Len(s \o t)
  <2>1. i \notin DOMAIN s
    BY <1>1, <1>2 DEF Has
  <2>2. PICK j \in DOMAIN t : i = Len(s) + j
    BY <1>1, <1>2, <2>1
  <2>3. j = Len(t)
    BY <1>1, <1>2, <2>2 DEF Closes
  <2> QED
    BY <1>1, <2>2, <2>3
<1>3. ASSUME Closes(s \o t), NEW i \in DOMAIN t, t[i].kind = "ended"
      PROVE  i = Len(t)
  <2>1. Len(s) + i = Len(s) + Len(t) /\ i \in Nat
    BY <1>1, <1>3 DEF Closes
  <2> QED
    BY <1>1, <2>1
<1> QED
  BY <1>2, <1>3 DEF Closes

(* A run has not written the line that ends it.                            *)
LEMMA ReachedIs ==
  ASSUME hpc \in HarnessPC
  PROVE  Reached \in 0 .. 3
BY DEF Reached, HarnessPC

(* Read takes the line that ends a turn.                                   *)
LEMMA EndRead ==
  ASSUME GroundInv, OrderInv, ex > 0, Dispatch, UNCHANGED harnessVars, Has(Told0', "ended"), ~Has(Told0, "ended")
  PROVE  Spent' /\ Closes(Told0')
<1>0. /\ stdout \in Seq(Lines) /\ stdout # <<>> /\ stdout' = Tail(stdout) /\ stdout[1] \in Lines /\ Said(stdout[1])
      /\ harness' = harness /\ hrun' = hrun /\ Told0 \in Seq(EventType) /\ hpc \in HarnessPC
  <2>1. stdout # <<>> /\ stdout[1] \in Lines /\ Said(stdout[1]) /\ harness' = harness
    BY Dispatched DEF GroundInv, FramesInv
  <2>2. hrun' = hrun /\ stdout' = Tail(stdout)
    BY DEF Dispatch, harnessVars
  <2> QED
    BY <2>1, <2>2, GroundIs DEF GroundInv, AdapterInv, LineInv, HarnessInv
<1>1. PICK f : f = Decode(harness, codec, stdout[1]) /\ codec' = f.codec /\ f.events \in Seq(EventType)
               /\ Told0' = Told0 \o f.events
  BY Dispatched DEF GroundInv, FramesInv
<1>2. Has(f.events, "ended")
  BY <1>0, <1>1, HasJoin
<1>3. Rank(stdout[1]) = 5 /\ f.codec.called = {} /\ ~f.codec.started /\ Closes(f.events)
  BY <1>0, <1>1, <1>2, EndsEvents DEF EndOf, GroundInv, AdapterInv, FramesInv
<1>4. hrun = 0
  <2>1. SUFFICES ASSUME hrun # 0 PROVE FALSE
    OBVIOUS
  <2>2. Upto(stdout, Reached) /\ Reached \in 0 .. 3
    BY <1>0, <2>1, ReachedIs DEF OrderInv
  <2>3. Rank(stdout[1]) <= Reached
    BY <1>0, <2>2, RankedFewer
  <2> QED
    BY <1>3, <2>2, <2>3
<1>5. Upto(stdout', 0)
  BY <1>0, <1>3, RankedFewer DEF OrderInv
<1>6. Upto(stdout, 0)'
  BY <1>0, <1>5, RankStays
<1>7. Closes(Told0')
  BY <1>0, <1>1, <1>3, ClosesJoin
<1> QED
  BY <1>0, <1>1, <1>3, <1>4, <1>6, <1>7 DEF Spent

LEMMA EndedKept ==
  ASSUME GroundInv, CourseInv, [Next]_vars
  PROVE  EndedInv'
<1> USE DEF CourseInv
<1> SUFFICES ASSUME ex' > 0, Has(Told0', "ended") PROVE Spent' /\ Closes(Told0')
  BY DEF EndedInv
<1>0. Told0 \in Seq(EventType)
  BY GroundIs
<1>1. CASE Prompt
  <2>1. ~HarnessNext
    BY <1>1, PromptIs, HarnessFrame
  <2>2. Told0' = <<>>
    BY <1>1, <2>1, PromptQuiet, UnrunRests DEF Unrun
  <2> QED
    BY <2>2, HasOne
<1>2. CASE ~Prompt /\ HarnessNext
  <2>1. Told0' = Told0 /\ ex' = ex
    BY <1>2, HarnessFrame DEF readVars, Told0
  <2>2. Spent /\ Closes(Told0)
    BY <2>1 DEF EndedInv
  <2>3. ~HarnessRuns
    <3>1. Told0 # <<>>
      BY <2>1, HasOne
    <3> QED
      BY <2>1, <3>1, RunsIs DEF NotRunInv, Unrun
  <2> QED
    BY <1>2, <2>1, <2>2, <2>3, SpentHarness
<1>3. CASE ~Prompt /\ ~HarnessNext /\ Dispatch
  <2>1. UNCHANGED harnessVars /\ ex' = ex
    BY <1>3, HarnessRests, ComesOf
  <2>2. CASE Has(Told0, "ended")
    <3>1. Spent /\ Closes(Told0)
      BY <2>1, <2>2 DEF EndedInv
    <3> QED
      BY <1>3, <2>1, <3>1, SpentReads
  <2> QED
    BY <1>3, <2>1, <2>2, EndRead
<1>4. CASE ~Prompt /\ ~HarnessNext /\ ~Dispatch
  <2>1. stdout' = stdout /\ UNCHANGED <<harness, harnessVars>> /\ ex' = ex
    BY <1>4, HarnessRests, HarnessStays, ComesOf
  <2>2. Has(Told0, "ended") /\ (Closes(Told0) => Closes(Told0'))
    <3>1. CASE Told0' = Told0
      BY <3>1
    <3>2. CASE reader = "resolve" /\ Told0' = hand.events
      <4>1. Told0 = seen \o hand.events /\ seen \in Seq(EventType) /\ hand.events \in Seq(EventType)
        BY <3>2 DEF Told0, GroundInv, FramesInv, EventsInv
      <4> QED
        BY <3>2, <4>1, HasJoin, ClosesJoin
    <3>3. ~(Told0' = <<>>)
      BY HasOne
    <3> QED
      BY <1>4, <3>1, <3>2, <3>3, ToldRests
  <2>3. Spent /\ Closes(Told0)
    BY <2>1, <2>2 DEF EndedInv
  <2> QED
    BY <1>4, <2>1, <2>2, <2>3, SpentRests
<1> QED
  BY <1>1, <1>2, <1>3, <1>4

(* What a run writes.                                                      *)
LEMMA OrderHarness ==
  ASSUME GroundInv, CourseInv, [Next]_vars, HarnessNext
  PROVE  OrderInv'
<1> USE DEF CourseInv
<1>0. /\ stdout \in Seq(Lines) /\ hpc \in HarnessPC /\ ex \in Nat /\ ex' = ex /\ harness' = harness
      /\ hrun \in {0, ex} /\ (hpc = "asking" => harness = "pi") /\ (hrun = 0 <=> hpc = "idle")
      /\ ex > 0 => Ordered(stdout) /\ (hrun # 0 => Upto(stdout, Reached))
  BY GroundIs, HarnessFrame DEF OrderInv, GroundInv, RestInv, AdapterInv, LineInv, HarnessInv
<1> DEFINE To(p) == CASE p \in {"idle", "asking"} -> 0
                      [] p = "running" -> 1
                      [] p \in {"using", "used"} -> 2
                      [] p = "done" -> 3
           Goal == /\ hrun' \in {0, ex} /\ (hpc' = "asking" => harness = "pi")
                   /\ ex > 0 => Ordered(stdout') /\ (hrun' # 0 => Upto(stdout', To(hpc')))
<1>a. SUFFICES Goal
  <2>1. Reached' = To(hpc') /\ (\A p \in HarnessPC : To(p) \in 0 .. 3)
    BY DEF Reached, HarnessPC
  <2>2. hpc' \in HarnessPC
    BY HarnessKeepsFaith DEF GroundInv, AdapterInv, LineInv, HarnessInv
  <2>3. Upto(stdout, Reached)' <=> Upto(stdout', To(hpc'))
    BY <1>0, <2>1 DEF Upto, Rank
  <2> HIDE DEF To
  <2> QED
    BY <1>0, <2>3, RankStays DEF OrderInv
<1>b. /\ To("idle") = 0 /\ To("asking") = 0 /\ To("running") = 1 /\ To("using") = 2 /\ To("used") = 2 /\ To("done") = 3
      /\ Reached = To(hpc) /\ To(hpc) \in 0 .. 3
  BY <1>0 DEF Reached, HarnessPC
<1> HIDE DEF To
(* One line more, with its rank. *)
<1>c. ASSUME ex > 0, NEW x \in Lines, Writes(<<x>>), Rank(x) = 0
      PROVE  Ordered(stdout') /\ \A k \in Nat : Upto(stdout, k) => Upto(stdout', k)
  <2>1. stdout' = Append(stdout, x)
    BY <1>0, <1>c, Written
  <2> QED
    BY <1>0, <1>c, <2>1, RankedMore DEF Follows
<1>d. ASSUME ex > 0, NEW x \in Lines, Writes(<<x>>), NEW k \in Nat, Upto(stdout, k), k < Rank(x)
      PROVE  Ordered(stdout') /\ \A n \in Nat : Rank(x) <= n => Upto(stdout', n)
  <2>1. stdout' = Append(stdout, x)
    BY <1>0, <1>d, Written
  <2>2. Ordered(stdout')
    BY <1>0, <1>d, <2>1, RankedMore
  <2>3. Rank(x) \in 0 .. 5
    BY RanksOf
  <2>4. \A n \in Nat : Rank(x) <= n => Upto(stdout, n)
    BY <1>0, <1>d, <2>3, RanksOf DEF Upto
  <2> QED
    BY <1>0, <2>1, <2>2, <2>4, RankedMore
<1>1. CASE HarnessAnswers
  <2>1. PICK c \in Calls, how \in Hows : \E x \in Answer(c, how) :
            /\ TakesIn(c) /\ c[1] \in Handshake \union {"clear", "cancel"}
            /\ c[1] = "load" \/ Writes(<<x>>)
            /\ hrun' = hrun /\ hpc' = hpc
    BY <1>1, AnswersSay DEF GroundInv
  <2>2. PICK x \in Answer(c, how) :
            /\ TakesIn(c) /\ c[1] \in Handshake \union {"clear", "cancel"}
            /\ c[1] = "load" \/ Writes(<<x>>)
            /\ hrun' = hrun /\ hpc' = hpc
    BY <2>1
  <2>3. x \in Lines /\ Rank(x) = 0
    BY <2>2, RanksOf DEF Handshake
  <2>4. ex > 0 => Writes(<<x>>)
    BY <2>2, NoLoad
  <2> QED
    BY <1>0, <1>b, <1>c, <2>2, <2>3, <2>4
<1>2. CASE HarnessRuns
  <2>1. ex > 0 /\ TakesIn(AskLine) /\ NotRun
    BY <1>2, RunsIs
  <2>2. Upto(stdout, 0)
    BY <2>1 DEF NotRunInv, Unrun, Spent
  <2>3. PICK c \in Inputs :
          /\ TakesIn(c)
          /\ \/ UNCHANGED <<hrun, hpc>> /\ hrun = 0 /\ harness = "pi" /\ \E x \in Answer(c, "error") : Writes(<<x>>)
             \/ hrun' = c[2] /\ hpc' = "asking" /\ harness = "pi"
                /\ \E x \in Answer(c, "ok"), y \in Lines : y.type = "request" /\ Writes(<<x, y>>)
             \/ hrun' = c[2] /\ hpc' = "running" /\ ((\E s \in Of("start") : Writes(<<s>>)) \/ stdout' = stdout)
    BY <1>2, RunsSay DEF GroundInv
  <2>4. c[2] = ex
    BY <2>1, <2>3 DEF TakesIn, AskLine, PromptCall
  <2>5. ASSUME UNCHANGED <<hrun, hpc>>, hrun = 0, harness = "pi", NEW x \in Answer(c, "error"), Writes(<<x>>) PROVE Goal
    <3>1. x \in Lines /\ Rank(x) = 0
      BY <2>5, RanksOf
    <3> QED
      BY <1>0, <1>c, <2>1, <2>5, <3>1
  <2>6. ASSUME hrun' = c[2], hpc' = "asking", harness = "pi",
               NEW x \in Answer(c, "ok"), NEW y \in Lines, y.type = "request", Writes(<<x, y>>)
        PROVE  Goal
    <3>1. x \in Lines /\ Rank(x) = 0 /\ Rank(y) = 0
      BY <2>6, RanksOf
    <3>2. stdout' = Append(Append(stdout, x), y) /\ Append(stdout, x) \in Seq(Lines)
      BY <1>0, <2>6, <3>1, Written
    <3>3. Ordered(Append(stdout, x)) /\ Upto(Append(stdout, x), 0)
      BY <1>0, <2>1, <2>2, <3>1, RankedMore DEF Follows
    <3>4. Ordered(stdout') /\ Upto(stdout', 0)
      BY <3>1, <3>2, <3>3, RankedLast
    <3> QED
      BY <1>b, <2>4, <2>6, <3>4
  <2>7. ASSUME hrun' = c[2], hpc' = "running", NEW s \in Of("start"), Writes(<<s>>) PROVE Goal
    <3>1. s \in Lines /\ Rank(s) = 1
      BY RanksOf
    <3> QED
      BY <1>b, <1>d, <2>1, <2>2, <2>4, <2>7, <3>1
  <2>8. ASSUME hrun' = c[2], hpc' = "running", stdout' = stdout PROVE Goal
    <3>1. Upto(stdout, 1)
      BY <1>0, <2>2, RanksOf DEF Upto
    <3> QED
      BY <1>0, <1>b, <2>4, <2>8, <3>1
  <2> QED
    BY <2>3, <2>5, <2>6, <2>7, <2>8
<1>3. CASE HarnessStops \/ HarnessExits
  <2>1. stdout' = stdout /\ ((hrun' = 0 /\ hpc' = "idle") \/ (hrun' = hrun /\ hpc' = hpc))
    BY <1>3 DEF HarnessStops, HarnessExits
  <2> QED
    BY <1>0, <1>b, <2>1
<1>4. ASSUME NEW r \in Requests, HarnessHears(r) \/ HarnessFetches(r) PROVE Goal
  <2>1. /\ hrun' = hrun
        /\ \/ /\ hpc = "asking" /\ hpc' = "running"
              /\ harness = "opencode" \/ \E s \in Of("start") : Writes(<<s>>)
           \/ /\ stdout' = stdout
              /\ hpc' = hpc \/ (hpc = "using" /\ hpc' = "used")
    BY <1>4, HearsSay DEF GroundInv
  <2>2. ASSUME hpc = "asking", hpc' = "running", NEW s \in Of("start"), Writes(<<s>>) PROVE Goal
    <3>1. s \in Lines /\ Rank(s) = 1
      BY RanksOf
    <3>2. hrun = ex /\ ex # 0 /\ Upto(stdout, 0)
      BY <1>0, <1>b, <2>2
    <3> QED
      BY <1>0, <1>b, <1>d, <2>1, <2>2, <3>1, <3>2
  <2>3. ASSUME stdout' = stdout, hpc' = hpc \/ (hpc = "using" /\ hpc' = "used") PROVE Goal
    BY <1>0, <1>b, <2>1, <2>3
  <2> QED
    BY <1>0, <2>1, <2>2, <2>3
<1>5. ASSUME NEW r \in Requests, HarnessLists(r) PROVE Goal
  <2>1. hrun' = hrun /\ hpc' = hpc /\ (stdout' = stdout \/ \E x \in Asking(r) : Writes(<<x>>))
    BY <1>5, ListsSay DEF GroundInv
  <2>2. \A x \in Asking(r) : x \in Lines /\ Rank(x) = 0
    BY RanksOf DEF Asking
  <2>3. CASE stdout' = stdout
    BY <1>0, <1>b, <2>1, <2>3
  <2>4. ASSUME NEW x \in Asking(r), Writes(<<x>>) PROVE Goal
    <3>1. x \in Lines /\ Rank(x) = 0
      BY <2>2
    <3>2. ex > 0 => Ordered(stdout') /\ \A k \in Nat : Upto(stdout, k) => Upto(stdout', k)
      BY <1>c, <2>4, <3>1
    <3> QED
      BY <1>0, <1>b, <2>1, <3>2
  <2> QED
    BY <2>1, <2>3, <2>4
<1>6. ASSUME NEW tool \in RespondTools \union {Tool, Permission}, HarnessUses(tool) PROVE Goal
  <2>1. hpc = "running" /\ hrun' = hrun
    BY <1>6, UsesSay DEF GroundInv
  <2>2. PICK u \in Bears("use", tool), v \in Bears("use", tool), q \in Asking(<<"call", hrun>>) :
          /\ hpc' \in {"using", "used"}
          /\ \/ Writes(<<u>>) \/ Writes(<<q>>) \/ Writes(<<u, q>>)
             \/ harness = "opencode" /\ Writes(<<u, v>>)
    BY <1>6, UsesSay DEF GroundInv
  <2>3. /\ u \in Lines /\ v \in Lines /\ q \in Lines /\ Rank(u) = 2 /\ Rank(v) = 2 /\ Rank(q) = 0
        /\ u.type = "use" /\ v.type = "use"
    BY RanksOf DEF Asking
  <2>4. ex > 0 /\ Upto(stdout, 1) /\ Ordered(stdout)
    BY <1>0, <1>b, <2>1
  <2>5. SUFFICES Ordered(stdout') /\ Upto(stdout', 2)
    BY <1>0, <1>b, <2>1, <2>2
  <2>6. /\ Append(stdout, u) \in Seq(Lines)
        /\ Ordered(Append(stdout, u)) /\ Upto(Append(stdout, u), 2)
        /\ Upto(stdout, 2)
    <3>1. Upto(stdout, 2)
      BY <1>0, <2>4, RanksOf DEF Upto
    <3> QED
      BY <1>0, <2>3, <2>4, <3>1, RankedMore
  <2>7. CASE Writes(<<u>>)
    BY <1>0, <2>3, <2>6, <2>7, Written
  <2>8. CASE Writes(<<q>>)
    BY <1>c, <2>3, <2>4, <2>6, <2>8
  <2>9. CASE Writes(<<u, q>>)
    <3>1. stdout' = Append(Append(stdout, u), q)
      BY <1>0, <2>3, <2>9, Written
    <3> QED
      BY <2>3, <2>6, <3>1, RankedLast
  <2>10. CASE harness = "opencode" /\ Writes(<<u, v>>)
    <3>1. stdout' = Append(Append(stdout, u), v)
      BY <1>0, <2>3, <2>10, Written
    <3>2. Follows(Append(stdout, u), v)
      <4>1. \A i \in DOMAIN Append(stdout, u) : (i \in DOMAIN stdout /\ Append(stdout, u)[i] = stdout[i]) \/ Append(stdout, u)[i] = u
        BY <1>0, <2>3, More
      <4>2. \A i \in DOMAIN stdout : Rank(stdout[i]) \in 0 .. 5 /\ Rank(stdout[i]) <= 1
        BY <1>0, <2>4, RanksOf DEF Upto
      <4>3. Twice(u, v)
        BY <2>3, <2>10 DEF Twice
      <4>4. \A i \in DOMAIN stdout : Rank(stdout[i]) < Rank(v)
        BY <2>3, <4>2
      <4> QED
        BY <4>1, <4>3, <4>4 DEF Follows
    <3>3. Rank(v) <= 2
      BY <2>3
    <3> DEFINE s == Append(stdout, u)
    <3>4. s \in Seq(Lines) /\ Ordered(s) /\ Upto(s, 2) /\ Follows(s, v) /\ stdout' = Append(s, v)
      BY <2>6, <3>1, <3>2
    <3> HIDE DEF s
    <3> QED
      BY <2>3, <3>3, <3>4, RankedMore
  <2> QED
    BY <2>2, <2>7, <2>8, <2>9, <2>10
<1>7. CASE HarnessReports
  <2>1. /\ hpc = "used" /\ hpc' = "done" /\ hrun' = hrun
        /\ stdout' = stdout \/ \E l \in Bears("result", body[<<"call", hrun>>]) : Writes(<<l>>)
    BY <1>7, ReportsSay DEF GroundInv
  <2>2. ex > 0 /\ Upto(stdout, 2) /\ Ordered(stdout) /\ hrun = ex
    BY <1>0, <1>b, <2>1
  <2>3. CASE stdout' = stdout
    <3>1. Upto(stdout, 3)
      BY <1>0, <2>2, RanksOf DEF Upto
    <3> QED
      BY <1>b, <2>1, <2>2, <2>3, <3>1
  <2>4. ASSUME NEW l \in Bears("result", body[<<"call", hrun>>]), Writes(<<l>>) PROVE Goal
    <3>1. l \in Lines /\ Rank(l) = 3
      BY RanksOf
    <3> QED
      BY <1>b, <1>d, <2>1, <2>2, <2>4, <3>1
  <2> QED
    BY <2>1, <2>3, <2>4
<1>8. CASE HarnessEnds
  <2>1. PICK e \in Of("end"), m \in Of("limit"), n \in Of("message"), how \in {"ok", "error", "aborted"} :
           \/ Writes(<<e>>) \/ Writes(<<m, e>>) \/ Writes(<<n, e>>)
           \/ harness = "opencode" /\ PromptCall(hrun) \in Calls /\ \E x \in Answer(PromptCall(hrun), how) : Writes(<<x>>)
           \/ harness = "pi" /\ \E x \in Answer(aborted, "ok") : Writes(<<n, e, x>>)
    BY <1>8, EndsSay DEF GroundInv
  <2>2. hrun \in Prompts /\ hrun' = 0 /\ hpc' = "idle"
    BY <1>8, EndsSay DEF GroundInv
  <2>3. ex > 0 /\ Upto(stdout, 3) /\ Ordered(stdout)
    <3>1. hrun # 0
      BY <2>2, WantsAre
    <3>2. ex > 0 /\ Upto(stdout, To(hpc)) /\ Ordered(stdout)
      BY <1>0, <1>b, <3>1
    <3> QED
      BY <1>0, <1>b, <3>2, RanksOf DEF Upto
  <2>4. SUFFICES Ordered(stdout')
    BY <1>0, <2>2
  <2>5. e \in Lines /\ Rank(e) = 5 /\ m \in Lines /\ Rank(m) = 4 /\ n \in Lines /\ Rank(n) = 4
    BY RanksOf
  <2>6. ASSUME NEW y \in {m, n}
        PROVE  /\ y \in Lines /\ Append(stdout, y) \in Seq(Lines) /\ Ordered(Append(stdout, y)) /\ Upto(Append(stdout, y), 4)
               /\ Ordered(Append(Append(stdout, y), e)) /\ Append(Append(stdout, y), e) \in Seq(Lines)
    <3>1. y \in Lines /\ Rank(y) = 4 /\ Upto(stdout, 4)
      BY <1>0, <2>3, <2>5, RanksOf DEF Upto
    <3>2. /\ Append(stdout, y) \in Seq(Lines) /\ Ordered(Append(stdout, y)) /\ Upto(Append(stdout, y), 4)
      BY <1>0, <2>3, <3>1, RankedMore
    <3>3. Append(Append(stdout, y), e) \in Seq(Lines)
      BY <2>5, <3>2
    <3> QED
      BY <2>5, <3>1, <3>2, <3>3, RankedLast
  <2>7. CASE Writes(<<e>>)
    BY <1>d, <2>3, <2>5, <2>7
  <2>8. CASE Writes(<<m, e>>) \/ Writes(<<n, e>>)
    BY <1>0, <2>5, <2>6, <2>8, Written
  <2>9. ASSUME harness = "opencode", PromptCall(hrun) \in Calls, NEW x \in Answer(PromptCall(hrun), how), Writes(<<x>>)
        PROVE  Ordered(stdout')
    <3>1. x \in Lines /\ Rank(x) = 5
      BY <2>9, RanksOf DEF PromptCall
    <3> QED
      BY <1>d, <2>3, <2>9, <3>1
  <2>10. ASSUME harness = "pi", NEW x \in Answer(aborted, "ok"), Writes(<<n, e, x>>)
         PROVE  Ordered(stdout')
    <3>1. x \in Lines /\ Rank(x) = 0
      BY <2>10, RanksOf
    <3>2. stdout' = Append(Append(Append(stdout, n), e), x)
      BY <1>0, <2>5, <2>10, <3>1, Written
    <3> QED
      BY <2>6, <3>1, <3>2, RankedLast
  <2> QED
    BY <2>1, <2>7, <2>8, <2>9, <2>10
<1> QED
  BY <1>1, <1>2, <1>3, <1>4, <1>5, <1>6, <1>7, <1>8 DEF HarnessNext

LEMMA OrderKept ==
  ASSUME GroundInv, CourseInv, [Next]_vars
  PROVE  OrderInv'
<1> USE DEF CourseInv
<1>1. CASE HarnessNext
  BY <1>1, OrderHarness
<1>2. CASE ~HarnessNext
  <2>1. UNCHANGED harnessVars /\ harness' = harness /\ stdout \in Seq(Lines) /\ (stdout' = stdout \/ Dispatch)
    BY <1>2, HarnessRests, HarnessStays, GroundIs
  <2>2. CASE Prompt
    <3>1. Spent'
      BY <1>2, <2>2, PromptQuiet, UnrunRests DEF Unrun
    <3>2. Upto(stdout', 0) /\ stdout' \in Seq(Lines)
      <4>1. Upto(stdout', 0)
        BY <2>1, <3>1, RankStays DEF Spent
      <4> QED
        BY <2>1, <2>2, <4>1, PromptIs DEF clientVars, processVars
    <3>3. Ordered(stdout')
      BY <3>2, RanksOf DEF Upto, Ordered
    <3>4. hrun' = 0 /\ hpc' = hpc
      BY <2>1, <3>1 DEF Spent, harnessVars
    <3> QED
      BY <2>1, <3>3, <3>4, RankStays DEF OrderInv
  <2>3. CASE ~Prompt
    <3>1. ex' = ex
      BY <2>3, ComesOf
    <3>2. (Ordered(stdout) => Ordered(stdout')) /\ \A k \in Nat : Upto(stdout, k) => Upto(stdout', k)
      <4>1. CASE stdout' = stdout
        BY <4>1
      <4>2. CASE Dispatch
        <5>1. stdout # <<>> /\ stdout' = Tail(stdout)
          BY <4>2 DEF Dispatch
        <5> QED
          BY <2>1, <5>1, RankedFewer
      <4> QED
        BY <2>1, <4>1, <4>2
    <3>3. Reached' = Reached /\ Reached \in Nat /\ hrun' = hrun /\ hpc' = hpc
      <4>1. hpc' = hpc /\ hrun' = hrun /\ hpc \in HarnessPC
        BY <2>1 DEF harnessVars, GroundInv, AdapterInv, LineInv, HarnessInv
      <4>2. Reached \in 0 .. 3
        BY <4>1, ReachedIs
      <4>3. Reached' = Reached
        BY <4>1 DEF Reached
      <4> QED
        BY <4>1, <4>2, <4>3
    <3>4. Upto(stdout, Reached)' <=> Upto(stdout', Reached)
      BY <2>1, <3>3 DEF Upto, Rank
    <3> QED
      BY <2>1, <3>1, <3>2, <3>3, <3>4, RankStays DEF OrderInv
  <2> QED
    BY <2>2, <2>3
<1> QED
  BY <1>1, <1>2

LEMMA CourseBegins == Init => CourseInv
<1> SUFFICES ASSUME Init PROVE CourseInv
  OBVIOUS
<1>1. /\ stdin = <<>> /\ stdout = <<>> /\ ex = 0 /\ hrun = 0 /\ hpc = "idle"
  BY DEF Init, InitClient
<1>2. AskInv
  BY <1>1, NoneAmong DEF AskInv, Coming
<1> QED
  BY <1>1, <1>2 DEF CourseInv, NotRunInv, BetweenInv, OrderInv, EndedInv

LEMMA CourseStays == Spec => [](GroundInv /\ CourseInv)
<1>1. GroundInv /\ CourseInv /\ [Next]_vars => CourseInv'
  BY AskKept, NotRunKept, BetweenKept, OrderKept, EndedKept DEF CourseInv
<1> QED
  BY <1>1, CourseBegins, GroundStays, PTL DEF Spec
(***************************************************************************)
(* The usage limit of a turn.                                              *)
(***************************************************************************)
Shown(t) == \E i \in DOMAIN stdout : stdout[i].type = t
(* The turn a limit is told of, written of or noted in is the last run, in *)
(* which the harness reported it.  A limit noted in an earlier turn is     *)
(* forgotten with the start of this one.                                   *)
LimitInv ==
    /\ Has(Told0, "limit") \/ Shown("limit") => limited
    /\ harness = "claude" /\ (hrun # 0 \/ Shown("end")) /\ ~Shown("start") /\ codec.limit => limited

LEMMA ShownAdds ==
  ASSUME stdout \in Seq(Lines), NEW x \in Lines, NEW y \in Lines, NEW z \in Lines, NEW t
  PROVE  /\ Writes(<<x>>) => (Shown(t)' <=> Shown(t) \/ x.type = t)
         /\ Writes(<<x, y>>) => (Shown(t)' <=> Shown(t) \/ x.type = t \/ y.type = t)
         /\ Writes(<<x, y, z>>) => (Shown(t)' <=> Shown(t) \/ x.type = t \/ y.type = t \/ z.type = t)
<1>1. Writes(<<x>>) => (Shown(t)' <=> Shown(t) \/ x.type = t)
  BY Adds1 DEF Shown
<1>2. ASSUME Writes(<<x, y>>) PROVE Shown(t)' <=> Shown(t) \/ x.type = t \/ y.type = t
  <2>1. ASSUME Shown(t)' PROVE Shown(t) \/ x.type = t \/ y.type = t
    BY <1>2, <2>1, Adds2 DEF Shown
  <2>2. Shown(t) \/ x.type = t \/ y.type = t => Shown(t)'
    BY <1>2, Adds2 DEF Shown
  <2> QED
    BY <2>1, <2>2
<1>3. ASSUME Writes(<<x, y, z>>) PROVE Shown(t)' <=> Shown(t) \/ x.type = t \/ y.type = t \/ z.type = t
  <2>1. ASSUME Shown(t)' PROVE Shown(t) \/ x.type = t \/ y.type = t \/ z.type = t
    BY <1>3, <2>1, Adds3 DEF Shown
  <2>2. Shown(t) => Shown(t)'
    BY <1>3, Adds3 DEF Shown
  <2>3. x.type = t \/ y.type = t \/ z.type = t => Shown(t)'
    BY <1>3, Adds3 DEF Shown
  <2> QED
    BY <2>1, <2>2, <2>3
<1> QED
  BY <1>1, <1>2, <1>3

LEMMA ShownRests ==
  ASSUME stdout' = stdout, NEW t
  PROVE  Shown(t)' <=> Shown(t)
BY DEF Shown

LEMMA ShownReads ==
  ASSUME stdout \in Seq(Lines), stdout # <<>>, stdout' = Tail(stdout), NEW t
  PROVE  Shown(t) <=> Shown(t)' \/ stdout[1].type = t
<1>1. /\ 1 \in DOMAIN stdout /\ stdout' \in Seq(Lines)
      /\ \A i \in DOMAIN stdout : i = 1 \/ (i - 1 \in DOMAIN stdout' /\ stdout'[i - 1] = stdout[i])
      /\ \A i \in DOMAIN stdout' : i + 1 \in DOMAIN stdout /\ stdout'[i] = stdout[i + 1]
  BY Rest
<1>2. ASSUME NEW i \in DOMAIN stdout, stdout[i].type = t PROVE Shown(t)' \/ stdout[1].type = t
  <2>1. i = 1 \/ (i - 1 \in DOMAIN stdout' /\ stdout'[i - 1].type = t)
    BY <1>1, <1>2
  <2> QED
    BY <1>2, <2>1 DEF Shown
<1>3. ASSUME NEW i \in DOMAIN stdout', stdout'[i].type = t PROVE Shown(t)
  <2>1. i + 1 \in DOMAIN stdout /\ stdout[i + 1].type = t
    BY <1>1, <1>3
  <2> QED
    BY <2>1 DEF Shown
<1>4. stdout[1].type = t => Shown(t)
  BY <1>1 DEF Shown
<1> QED
  BY <1>2, <1>3, <1>4 DEF Shown

(* What it writes besides what begins a run or ends it.                    *)
LEMMA RunGoesOn ==
  ASSUME GroundInv, OrderInv, HarnessNext, ~HarnessRuns, ~HarnessEnds
  PROVE  /\ limited' = limited /\ hrun' \in {0, hrun}
         /\ \A t \in {"limit", "message", "end"} : Shown(t)' <=> Shown(t)
<1>0. stdout \in Seq(Lines)
  BY GroundIs
<1>1. CASE HarnessAnswers
  <2>1. PICK c \in Calls, how \in Hows : \E x \in Answer(c, how) :
            /\ \/ c[1] = "load" /\ \E s \in Of("start") : Writes(<<s, x>>)
               \/ c[1] # "load" /\ Writes(<<x>>)
            /\ hrun' = hrun /\ limited' = limited
    BY <1>1, AnswersSay DEF GroundInv
  <2>2. PICK x \in Answer(c, how) :
            /\ \/ c[1] = "load" /\ \E s \in Of("start") : Writes(<<s, x>>)
               \/ c[1] # "load" /\ Writes(<<x>>)
            /\ hrun' = hrun /\ limited' = limited
    BY <2>1
  <2>3. x \in Lines /\ x.type = "response" /\ \A s \in Of("start") : s \in Lines /\ s.type = "start"
    BY DEF Answer, Of
  <2> QED
    BY <1>0, <2>2, <2>3, ShownAdds
<1>2. CASE HarnessStops \/ HarnessExits
  <2>1. stdout' = stdout /\ limited' = limited /\ hrun' \in {0, hrun}
    BY <1>2 DEF HarnessStops, HarnessExits
  <2> QED
    BY <2>1 DEF Shown
<1>3. ASSUME NEW r \in Requests, HarnessHears(r) \/ HarnessFetches(r)
      PROVE  /\ limited' = limited /\ hrun' \in {0, hrun}
             /\ \A t \in {"limit", "message", "end"} : Shown(t)' <=> Shown(t)
  <2>1. /\ limited' = limited /\ hrun' = hrun
        /\ stdout' = stdout \/ \E s \in Of("start") : Writes(<<s>>)
    BY <1>3, HearsSay DEF GroundInv, OrderInv
  <2>2. \A s \in Of("start") : s \in Lines /\ s.type = "start"
    BY DEF Of
  <2> QED
    BY <1>0, <2>1, <2>2, ShownAdds, ShownRests
<1>4. ASSUME NEW r \in Requests, HarnessLists(r)
      PROVE  /\ limited' = limited /\ hrun' \in {0, hrun}
             /\ \A t \in {"limit", "message", "end"} : Shown(t)' <=> Shown(t)
  <2>1. /\ limited' = limited /\ hrun' = hrun
        /\ stdout' = stdout \/ \E x \in Asking(r) : Writes(<<x>>)
    BY <1>4, ListsSay DEF GroundInv
  <2>2. \A x \in Asking(r) : x \in Lines /\ x.type = "request"
    BY DEF Asking
  <2> QED
    BY <1>0, <2>1, <2>2, ShownAdds, ShownRests
<1>5. ASSUME NEW tool \in RespondTools \union {Tool, Permission}, HarnessUses(tool)
      PROVE  /\ limited' = limited /\ hrun' \in {0, hrun}
             /\ \A t \in {"limit", "message", "end"} : Shown(t)' <=> Shown(t)
  <2>1. PICK u \in Bears("use", tool), v \in Bears("use", tool), q \in Asking(<<"call", hrun>>) :
          /\ limited' = limited /\ hrun' = hrun
          /\ Writes(<<u>>) \/ Writes(<<q>>) \/ Writes(<<u, q>>) \/ Writes(<<u, v>>)
    BY <1>5, UsesSay DEF GroundInv
  <2>2. /\ u \in Lines /\ v \in Lines /\ q \in Lines
        /\ u.type = "use" /\ v.type = "use" /\ q.type = "request"
    BY DEF Bears, Of, Asking
  <2> QED
    BY <1>0, <2>1, <2>2, ShownAdds
<1>6. CASE HarnessReports
  <2>1. /\ limited' = limited /\ hrun' = hrun
        /\ stdout' = stdout \/ \E l \in Bears("result", body[<<"call", hrun>>]) : Writes(<<l>>)
    BY <1>6, ReportsSay DEF GroundInv
  <2>2. \A l \in Bears("result", body[<<"call", hrun>>]) : l \in Lines /\ l.type = "result"
    BY DEF Bears, Of
  <2> QED
    BY <1>0, <2>1, <2>2, ShownAdds, ShownRests
<1> QED
  BY <1>1, <1>2, <1>3, <1>4, <1>5, <1>6 DEF HarnessNext

LEMMA LimitHarness ==
  ASSUME GroundInv, CourseInv, LimitInv, [Next]_vars, HarnessNext
  PROVE  LimitInv'
<1>0. /\ stdout \in Seq(Lines) /\ Told0' = Told0 /\ codec' = codec /\ harness' = harness
      /\ AskInv /\ NotRunInv /\ OrderInv
  BY GroundIs, HarnessFrame DEF readVars, Told0, CourseInv
<1>1. CASE HarnessRuns
  <2>1. Unrun
    BY <1>0, <1>1, RunsIs DEF NotRunInv
  <2>2. ~Shown("limit")
    <3>1. \A l \in Lines : l.type = "limit" => Rank(l) = 4
      BY DEF Rank
    <3> QED
      BY <1>0, <2>1, <3>1 DEF Shown, Unrun, Spent, Upto
  <2>3. PICK c \in Inputs :
          \/ harness = "pi" /\ \E x \in Answer(c, "error") : Writes(<<x>>)
          \/ harness = "pi" /\ \E x \in Answer(c, "ok"), y \in Lines : y.type = "request" /\ Writes(<<x, y>>)
          \/ /\ harness # "pi"
             /\ (\E s \in Of("start") : Writes(<<s>>)) \/ (harness = "opencode" /\ stdout' = stdout)
    BY <1>1, RunsSay DEF GroundInv
  <2>4. /\ \A x \in Answer(c, "ok") \union Answer(c, "error") : x \in Lines /\ x.type = "response"
        /\ \A s \in Of("start") : s \in Lines /\ s.type = "start"
    BY DEF Answer, Of
  <2>5. ~Shown("limit")'
    BY <1>0, <2>2, <2>3, <2>4, ShownAdds, ShownRests
  <2>6. harness = "claude" => Shown("start")'
    BY <1>0, <2>3, <2>4, ShownAdds
  <2>7. ~Has(Told0, "limit")'
    BY <1>0, <2>1, HasOne DEF Unrun, Has
  <2> QED
    BY <1>0, <2>5, <2>6, <2>7 DEF LimitInv
<1>2. CASE HarnessEnds
  <2>1. hrun # 0
    BY <1>2 DEF HarnessEnds
  <2>2. PICK e \in Of("end"), m \in Of("limit"), n \in Of("message"), how \in {"ok", "error", "aborted"} :
           \/ harness = "claude" /\ ((limited' = limited /\ Writes(<<e>>)) \/ limited' = TRUE)
           \/ harness = "opencode" /\ limited' = limited /\ \E x \in Answer(PromptCall(hrun), how) : Writes(<<x>>)
           \/ /\ harness = "pi" /\ limited' = limited
              /\ Writes(<<n, e>>) \/ \E x \in Answer(aborted, "ok") : Writes(<<n, e, x>>)
    BY <1>2, EndsSay DEF GroundInv
  <2>3. /\ e \in Lines /\ e.type = "end" /\ n \in Lines /\ n.type = "message"
        /\ \A c : \A x \in Answer(c, how) \union Answer(c, "ok") : x \in Lines /\ x.type = "response"
    BY DEF Of, Answer
  <2>4. CASE limited'
    BY <2>4 DEF LimitInv
  <2>5. CASE ~limited' /\ limited' = limited
    <3>1. Shown("limit")' => Shown("limit")
      BY <1>0, <2>2, <2>3, <2>5, ShownAdds
    <3>2. harness = "claude" => (Shown("start")' <=> Shown("start"))
      BY <1>0, <2>2, <2>3, <2>5, ShownAdds
    <3>3. Has(Told0, "limit")' <=> Has(Told0, "limit")
      BY <1>0 DEF Has
    <3> QED
      BY <1>0, <2>1, <2>5, <3>1, <3>2, <3>3 DEF LimitInv
  <2> QED
    BY <2>2, <2>4, <2>5
<1>3. CASE ~HarnessRuns /\ ~HarnessEnds
  <2>1. /\ limited' = limited /\ hrun' \in {0, hrun}
        /\ \A t \in {"limit", "message", "end"} : Shown(t)' <=> Shown(t)
    BY <1>0, <1>3, RunGoesOn
  <2>2. Shown("start") => Shown("start")'
    BY HarnessAdds DEF Shown, GroundInv
  <2>3. Has(Told0, "limit")' <=> Has(Told0, "limit")
    BY <1>0 DEF Has
  <2> QED
    BY <1>0, <2>1, <2>2, <2>3 DEF LimitInv
<1> QED
  BY <1>1, <1>2, <1>3

(* Read takes the line of a limit, of a start, or of an end.               *)
LEMMA LimitReads ==
  ASSUME GroundInv, CourseInv, LimitInv, Dispatch, UNCHANGED <<harness, ex, harnessVars>>
  PROVE  LimitInv'
<1>0. /\ stdout \in Seq(Lines) /\ stdout # <<>> /\ stdout' = Tail(stdout) /\ stdout[1] \in Lines /\ Said(stdout[1])
      /\ hrun' = hrun /\ limited' = limited /\ Told0 \in Seq(EventType) /\ hpc \in HarnessPC
  <2>1. stdout # <<>> /\ stdout[1] \in Lines /\ Said(stdout[1])
    BY Dispatched DEF GroundInv, FramesInv
  <2>2. hrun' = hrun /\ limited' = limited /\ stdout' = Tail(stdout)
    BY DEF Dispatch, harnessVars
  <2> QED
    BY <2>1, <2>2, GroundIs DEF GroundInv, AdapterInv, LineInv, HarnessInv
<1>1. PICK f : f = Decode(harness, codec, stdout[1]) /\ codec' = f.codec /\ f.events \in Seq(EventType)
               /\ Told0' = Told0 \o f.events
  BY Dispatched DEF GroundInv, FramesInv
<1>2. EndOf(stdout[1], f)
  BY <1>0, <1>1, EndsEvents DEF GroundInv, AdapterInv, FramesInv
<1>3. \A t : Shown(t) <=> Shown(t)' \/ stdout[1].type = t
  BY <1>0, ShownReads
(* A turn's end is read when nothing else shows of it. *)
<1>4. ASSUME stdout[1].type = "end" PROVE hrun = 0 /\ ~Shown("start")' /\ ~Shown("end")'
  <2>1. Rank(stdout[1]) = 5
    BY <1>4 DEF Rank
  <2>2. ex > 0
    <3>1. SUFFICES ASSUME ex = 0 PROVE FALSE
      BY GroundIs
    <3>2. Replays(stdout) /\ 1 \in DOMAIN stdout
      BY <1>0, <3>1, Rest DEF GroundInv, LoadInv, Unprompted
    <3> QED
      BY <1>4, <3>2 DEF Replays
  <2>3. Ordered(stdout) /\ (hrun # 0 => Upto(stdout, Reached))
    BY <2>2 DEF CourseInv, OrderInv
  <2>4. hrun = 0
    <3>1. Reached \in 0 .. 3 /\ (Upto(stdout, Reached) => Rank(stdout[1]) <= Reached)
      BY <1>0, ReachedIs, RankedFewer
    <3> QED
      BY <2>1, <2>3, <3>1
  <2>5. Upto(stdout', 0)
    BY <1>0, <2>1, <2>3, RankedFewer
  <2>6. \A l \in Lines : l.type \in {"start", "end"} => Rank(l) > 0
    BY DEF Rank
  <2>7. stdout' \in Seq(Lines)
    BY <1>0
  <2>8. \A i \in DOMAIN stdout' : stdout'[i] \in Lines /\ Rank(stdout'[i]) <= 0 /\ Rank(stdout'[i]) \in 0 .. 5
    BY <2>5, <2>7, RanksOf DEF Upto
  <2>9. \A i \in DOMAIN stdout' : stdout'[i].type \notin {"start", "end"}
    BY <2>6, <2>8
  <2> QED
    BY <2>4, <2>9 DEF Shown
<1>5. Has(Told0', "limit") => limited
  <2>1. CASE Has(Told0, "limit")
    BY <2>1 DEF LimitInv
  <2>2. CASE Has(f.events, "limit")
    <3>1. harness = "claude" /\ stdout[1].type = "end" /\ codec.limit
      BY <1>2, <2>2 DEF EndOf
    <3>2. Shown("end") /\ ~Shown("start")
      BY <1>3, <1>4, <3>1
    <3> QED
      BY <3>1, <3>2 DEF LimitInv
  <2> QED
    BY <1>0, <1>1, <2>1, <2>2, HasJoin
<1>6. ASSUME harness = "claude", hrun # 0 \/ Shown("end")', ~Shown("start")', codec'.limit PROVE limited
  <2>1. ClaudeFrame(codec, stdout[1], f) /\ codec \in CodecType
    BY <1>0, <1>1, <1>6, ClaudeSays, GroundIs DEF Decode
  <2>2. CASE stdout[1].type = "limit"
    BY <1>3, <2>2 DEF LimitInv
  <2>3. CASE stdout[1].type = "start"
    <3>1. codec' = [codec EXCEPT !.limit = FALSE]
      BY <1>1, <2>1, <2>3 DEF ClaudeFrame, Tells
    <3> QED
      BY <1>6, <2>1, <3>1 DEF CodecType
  <2>4. CASE stdout[1].type \notin {"limit", "start"}
    <3>1. stdout[1].type # "message" /\ stdout[1].type \in LineTypes
      BY <1>0, <1>6 DEF Said, Lines
    <3>2. codec'.limit = codec.limit
      BY <1>1, <2>1, <2>4, <3>1 DEF ClaudeFrame, Same, Tells, CodecType, LineTypes
    <3>3. stdout[1].type # "end"
      BY <1>4, <1>6
    <3> QED
      BY <1>3, <1>6, <2>4, <3>2 DEF LimitInv
  <2> QED
    BY <2>2, <2>3, <2>4
<1> QED
  BY <1>0, <1>3, <1>5, <1>6 DEF LimitInv, Has, Shown

LEMMA LimitStays ==
  ASSUME GroundInv, CourseInv, LimitInv, [Next]_vars
  PROVE  LimitInv'
<1>1. CASE HarnessNext
  BY <1>1, LimitHarness
<1>2. CASE ~HarnessNext
  <2>1. UNCHANGED harnessVars /\ harness' = harness
    BY <1>2, HarnessRests, HarnessStays
  <2>2. CASE Dispatch
    <3>1. ex' = ex
      BY <2>2, <1>2, OutputMoves, ComesOf, ReadsNot DEF GroundInv
    <3> QED
      BY <2>1, <2>2, <3>1, LimitReads
  <2>3. CASE ~Dispatch
    <3>1. stdout' = stdout
      BY <1>2, <2>3, OutputMoves DEF GroundInv
    <3>2. Has(Told0', "limit") => Has(Told0, "limit")
      <4>1. CASE reader = "resolve" /\ Told0' = hand.events
        <5>1. Told0 = seen \o hand.events /\ seen \in Seq(EventType) /\ hand.events \in Seq(EventType)
          BY <4>1 DEF Told0, GroundInv, FramesInv, EventsInv
        <5> QED
          BY <4>1, <5>1, HasJoin
      <4> QED
        BY <2>3, <4>1, ToldRests, HasOne
    <3>3. codec'.limit = codec.limit
      <4>1. \A c \in Calls : codec' = Encode(harness, codec, c) => codec'.limit = codec.limit
        BY Encodes DEF GroundInv, FramesInv
      <4> QED
        BY <2>3, <4>1, CodecMoves DEF GroundInv, Begun, Begin
    <3> QED
      BY <2>1, <3>1, <3>2, <3>3 DEF LimitInv, Shown, Has, harnessVars
  <2> QED
    BY <2>2, <2>3
<1> QED
  BY <1>1, <1>2

(* A turn fails for a usage limit only if the harness reported that limit  *)
(* in the same run (claude/codec.go, normalize): the codec's note of an    *)
(* earlier turn's is gone, as every run's start is read before its end.    *)
THEOREM LimitCorrect == Spec => []LimitIsTheTurns
<1>1. Init => LimitInv
  <2>1. ASSUME Init PROVE LimitInv
    <3>1. stdout = <<>> /\ seen = <<>> /\ reader # "resolve" /\ hrun = 0
      BY <2>1 DEF Init, InitClient
    <3> QED
      BY <3>1 DEF LimitInv, Has, Shown, Told0
  <2> QED
    BY <2>1
<1>2. GroundInv /\ LimitInv => LimitIsTheTurns
  <2>1. ASSUME GroundInv, LimitInv, NEW i \in DOMAIN seen, seen[i].kind = "limit" PROVE limited
    <3>1. Has(seen, "limit")
      BY <2>1 DEF Has
    <3>2. Has(Told0, "limit")
      <4>1. CASE reader = "resolve"
        BY <2>1, <3>1, <4>1, HasJoin DEF Told0, GroundInv, FramesInv, EventsInv
      <4> QED
        BY <3>1, <4>1 DEF Told0
    <3> QED
      BY <2>1, <3>2 DEF LimitInv
  <2> QED
    BY <2>1 DEF LimitIsTheTurns
<1> QED
  BY <1>1, <1>2, LimitStays, CourseStays, PTL DEF Spec
(***************************************************************************)
(* The events of a turn, from its start to its end.                        *)
(***************************************************************************)
(* What TurnIsWhole says of the events pushed.                             *)
Whole(E) ==
    \A i \in DOMAIN E :
      /\ (E[i].kind = "started") <=> (i = 1)
      /\ E[i].kind = "ended" => i = Len(E)
      /\ E[i].kind = "toolResult" => \E j \in 1 .. i : E[j].kind = "toolCall"
      /\ \A j \in DOMAIN E : E[i].kind = "toolCall" /\ E[j].kind = "toolCall" => i = j

(* The run's one call shows as it is made and as it is reported.           *)
Uses == body[<<"call", ex>>]
ToolsInv ==
    ex > 0 => \A i \in DOMAIN stdout :
                stdout[i].type \in {"use", "result"} => stdout[i].tool = Uses /\ Uses # Permission
Calling == Shown("result") \/ hpc \in {"using", "used"}

(* The turn is told of from its start: the harness showed it, or, with     *)
(* OpenCode, the codec notes that it was told.                             *)
StartInv ==
    /\ Shown("start") \/ hpc = "asking" => Told0 = <<>>
    /\ harness # "opencode" /\ (~Upto(stdout, 1) \/ hpc \notin {"idle", "asking"}) =>
         Told0 # <<>> \/ Shown("start")
    /\ harness = "opencode" => (codec.started <=> Told0 # <<>> /\ ~Has(Told0, "ended"))
(* The call is told of once, before its result: it is still shown, or the  *)
(* codec waits for the result of a respond call, or it has been told; with *)
(* OpenCode, which shows it more than once, the codec notes it meanwhile.  *)
CalledInv ==
    /\ harness # "opencode" =>
         /\ Has(Told0, "toolCall") => ~Shown("use") /\ hpc # "running"
         /\ Calling => \/ Uses = Permission \/ Shown("use")
                       \/ IsRespond(Uses) /\ (harness = "claude" => Uses \in codec.responds)
                       \/ ~IsRespond(Uses) /\ Has(Told0, "toolCall")
    /\ harness = "opencode" =>
         /\ hpc = "running" => codec.called = {} /\ ~Has(Told0, "toolCall")
         /\ (Calling \/ Shown("use")) /\ ~IsRespond(Uses) => (Has(Told0, "toolCall") <=> Uses \in codec.called)

(* While the exchange is on, and between exchanges until the session or    *)
(* its harness ends.                                                       *)
Engaged == prompting = "idle" => closing = "no" /\ ~over
TurnInv == ex > 0 /\ Engaged => Whole(Told0) /\ StartInv /\ CalledInv

Fits(l, tool) == l.type \in {"use", "result"} => l.tool = tool /\ tool # Permission

LEMMA FitsAdds ==
  ASSUME stdout \in Seq(Lines), NEW tool, \A i \in DOMAIN stdout : Fits(stdout[i], tool),
         NEW x \in Lines, NEW y \in Lines, NEW z \in Lines, Fits(x, tool), Fits(y, tool), Fits(z, tool),
         Writes(<<x>>) \/ Writes(<<x, y>>) \/ Writes(<<x, y, z>>)
  PROVE  \A i \in DOMAIN stdout' : Fits(stdout'[i], tool)
<1>1. CASE Writes(<<x>>)
  BY <1>1, Adds1
<1>2. CASE Writes(<<x, y>>)
  <2>1. ASSUME NEW i \in DOMAIN stdout' PROVE stdout'[i] \in {x, y} \/ (i \in DOMAIN stdout /\ stdout'[i] = stdout[i])
    BY <1>2, Adds2
  <2> QED
    BY <2>1
<1>3. CASE Writes(<<x, y, z>>)
  <2>1. ASSUME NEW i \in DOMAIN stdout' PROVE stdout'[i] \in {x, y, z} \/ (i \in DOMAIN stdout /\ stdout'[i] = stdout[i])
    BY <1>3, Adds3
  <2> QED
    BY <2>1
<1> QED
  BY <1>1, <1>2, <1>3

(* A step of a run that goes on, and what then shows of it.                *)
Lasts(t) == Shown(t)' <=> Shown(t)
RunWaits ==
    /\ Lasts("start") /\ Lasts("use") /\ Lasts("result") /\ (Upto(stdout, 1) => Upto(stdout', 1))
    /\ body' = body /\ (hpc' = hpc \/ (hpc = "using" /\ hpc' = "used"))
RunBegins ==
    /\ hpc = "asking" /\ hpc' = "running" /\ body' = body /\ harness # "opencode"
    /\ Shown("start")' /\ Lasts("use") /\ Lasts("result")
RunCalls ==
    /\ hpc = "running" /\ hpc' \in {"using", "used"}
    /\ Lasts("start") /\ Lasts("result")
    /\ Shown("use")' \/ Uses' = Permission \/ harness = "opencode"
    /\ Uses' \in {Tool, Permission, known} /\ (harness = "pi" => Uses' # Permission)
RunReports == hpc = "used" /\ hpc' = "done" /\ body' = body /\ Lasts("start") /\ Lasts("use")
RunStops ==
    /\ hpc' = "idle" /\ body' = body /\ Lasts("start") /\ Lasts("use") /\ Lasts("result")
    /\ hpc \notin {"idle", "asking"} \/ stdout' = stdout

LEMMA RunMoves ==
  ASSUME GroundInv, OrderInv, ToolsInv, ex > 0, HarnessNext, ~HarnessRuns
  PROVE  /\ RunWaits \/ RunBegins \/ RunCalls \/ RunReports \/ RunStops
         /\ ToolsInv'
<1> DEFINE Moves == RunWaits \/ RunBegins \/ RunCalls \/ RunReports \/ RunStops
           T == Uses'
<1>0. /\ stdout \in Seq(Lines) /\ ex' = ex /\ harness' = harness /\ (hrun = 0 <=> hpc = "idle") /\ hrun \in {0, ex}
      /\ hpc = "asking" => harness = "pi"
      /\ hrun # 0 => Upto(stdout, Reached)
      /\ \A i \in DOMAIN stdout : Fits(stdout[i], Uses)
  BY GroundIs, HarnessFrame DEF GroundInv, RestInv, OrderInv, ToolsInv, Fits
<1>1. SUFFICES Moves /\ \A i \in DOMAIN stdout' : Fits(stdout'[i], T)
  BY <1>0 DEF ToolsInv, Fits
<1>2. body' = body => T = Uses
  BY <1>0 DEF Uses
<1> HIDE DEF T
<1>3. \A l \in Lines : l.type \notin {"use", "result"} => Fits(l, T)
  BY DEF Fits
<1>4. CASE HarnessAnswers
  <2>1. PICK c \in Calls, how \in Hows : \E x \in Answer(c, how) :
            /\ TakesIn(c) /\ c[1] \in Handshake \union {"clear", "cancel"}
            /\ c[1] = "load" \/ Writes(<<x>>)
            /\ hpc' = hpc /\ body' = body
    BY <1>4, AnswersSay DEF GroundInv
  <2>2. PICK x \in Answer(c, how) :
            /\ TakesIn(c) /\ c[1] \in Handshake \union {"clear", "cancel"}
            /\ c[1] = "load" \/ Writes(<<x>>)
            /\ hpc' = hpc /\ body' = body
    BY <2>1
  <2>3. x \in Lines /\ x.type = "response" /\ Rank(x) = 0
    BY <2>2, RanksOf DEF Handshake, Answer, Of
  <2>4. Writes(<<x>>) /\ stdout' = Append(stdout, x)
    BY <1>0, <2>2, <2>3, NoLoad, Written
  <2>5. Lasts("start") /\ Lasts("use") /\ Lasts("result") /\ (Upto(stdout, 1) => Upto(stdout', 1))
    <3>1. Lasts("start") /\ Lasts("use") /\ Lasts("result")
      BY <1>0, <2>3, <2>4, ShownAdds DEF Lasts
    <3> QED
      BY <1>0, <2>3, <2>4, <3>1, RankedMore
  <2>6. \A i \in DOMAIN stdout' : Fits(stdout'[i], T)
    BY <1>0, <1>2, <1>3, <2>2, <2>3, <2>4, FitsAdds
  <2> QED
    BY <2>2, <2>5, <2>6 DEF RunWaits
<1>5. CASE HarnessStops
  <2>1. stdout' = stdout /\ hpc' = hpc /\ body' = body
    BY <1>5 DEF HarnessStops
  <2> QED
    BY <1>0, <1>2, <2>1, ShownRests DEF RunWaits, Lasts
<1>6. CASE HarnessExits
  <2>1. stdout' = stdout /\ hpc' = "idle" /\ body' = body
    BY <1>6 DEF HarnessExits, bridgeVars
  <2> QED
    BY <1>0, <1>2, <2>1, ShownRests DEF RunStops, Lasts
<1>7. ASSUME NEW r \in Requests, HarnessHears(r) \/ HarnessFetches(r)
      PROVE  Moves /\ \A i \in DOMAIN stdout' : Fits(stdout'[i], T)
  <2>1. /\ body' = body
        /\ \/ /\ hpc = "asking" /\ hpc' = "running"
              /\ \E s \in Of("start") : Writes(<<s>>)
           \/ /\ stdout' = stdout
              /\ hpc' = hpc \/ (hpc = "using" /\ hpc' = "used")
    BY <1>0, <1>7, HearsSay DEF GroundInv
  <2>2. ASSUME NEW s \in Of("start"), Writes(<<s>>), hpc = "asking", hpc' = "running"
        PROVE  Moves /\ \A i \in DOMAIN stdout' : Fits(stdout'[i], T)
    <3>1. s \in Lines /\ s.type = "start"
      BY DEF Of
    <3>2. Shown("start")' /\ Lasts("use") /\ Lasts("result")
      BY <1>0, <2>2, <3>1, ShownAdds DEF Lasts
    <3>3. \A i \in DOMAIN stdout' : Fits(stdout'[i], T)
      BY <1>0, <1>2, <1>3, <2>1, <2>2, <3>1, FitsAdds
    <3> QED
      BY <1>0, <2>1, <2>2, <3>2, <3>3 DEF RunBegins
  <2>3. CASE stdout' = stdout /\ (hpc' = hpc \/ (hpc = "using" /\ hpc' = "used"))
    BY <1>0, <1>2, <2>1, <2>3, ShownRests DEF RunWaits, Lasts
  <2> QED
    BY <2>1, <2>2, <2>3
<1>8. ASSUME NEW r \in Requests, HarnessLists(r)
      PROVE  Moves /\ \A i \in DOMAIN stdout' : Fits(stdout'[i], T)
  <2>1. hpc' = hpc /\ body' = body /\ (stdout' = stdout \/ \E x \in Asking(r) : Writes(<<x>>))
    BY <1>8, ListsSay DEF GroundInv
  <2>2. ASSUME NEW x \in Asking(r), Writes(<<x>>)
        PROVE  Moves /\ \A i \in DOMAIN stdout' : Fits(stdout'[i], T)
    <3>1. x \in Lines /\ x.type = "request" /\ Rank(x) = 0
      BY RanksOf DEF Asking
    <3>2. stdout' = Append(stdout, x)
      BY <1>0, <2>2, <3>1, Written
    <3>3. Lasts("start") /\ Lasts("use") /\ Lasts("result") /\ (Upto(stdout, 1) => Upto(stdout', 1))
      <4>1. Lasts("start") /\ Lasts("use") /\ Lasts("result")
        BY <1>0, <2>2, <3>1, ShownAdds DEF Lasts
      <4> QED
        BY <1>0, <3>1, <3>2, <4>1, RankedMore
    <3>4. \A i \in DOMAIN stdout' : Fits(stdout'[i], T)
      BY <1>0, <1>2, <1>3, <2>1, <2>2, <3>1, FitsAdds
    <3> QED
      BY <2>1, <3>3, <3>4 DEF RunWaits
  <2>3. CASE stdout' = stdout
    BY <1>0, <1>2, <2>1, <2>3, ShownRests DEF RunWaits, Lasts
  <2> QED
    BY <2>1, <2>2, <2>3
<1>9. ASSUME NEW tool \in RespondTools \union {Tool, Permission}, HarnessUses(tool)
      PROVE  Moves /\ \A i \in DOMAIN stdout' : Fits(stdout'[i], T)
  <2>1. PICK u \in Bears("use", tool), v \in Bears("use", tool), q \in Asking(<<"call", hrun>>) :
          /\ hpc = "running" /\ hpc' \in {"using", "used"} /\ <<"call", hrun>> \in Requests
          /\ body' = [body EXCEPT ![<<"call", hrun>>] = tool]
          /\ tool \in {Tool, Permission, known} /\ (harness = "pi" => tool # Permission)
          /\ \/ harness = "pi" /\ IsRespond(tool) /\ Writes(<<u>>)
             \/ tool = Permission /\ Writes(<<q>>)
             \/ harness # "opencode" /\ tool # Permission /\ Writes(<<u, q>>)
             \/ harness = "opencode" /\ tool # Permission /\ (Writes(<<u>>) \/ Writes(<<u, v>>))
    BY <1>9, UsesSay DEF GroundInv
  <2>2. /\ u \in Lines /\ v \in Lines /\ q \in Lines /\ u.tool = tool /\ v.tool = tool
        /\ u.type = "use" /\ v.type = "use" /\ q.type = "request"
    BY DEF Bears, Of, Asking
  <2>3. T = tool /\ hrun = ex
    <3>1. hrun = ex /\ body \in [Requests -> Tools]
      BY <1>0, <2>1 DEF GroundInv, AdapterInv, BridgeInv
    <3> QED
      BY <1>0, <2>1, <3>1 DEF T, Uses
  <2>4. Upto(stdout, 1)
    <3>1. Reached = 1
      BY <2>1 DEF Reached
    <3> QED
      BY <1>0, <2>1, <3>1
  <2>5. \A i \in DOMAIN stdout : Fits(stdout[i], T)
    <3>1. \A l \in Lines : Rank(l) <= 1 => l.type \notin {"use", "result"}
      BY DEF Rank
    <3>2. \A i \in DOMAIN stdout : stdout[i] \in Lines /\ Rank(stdout[i]) <= 1
      BY <1>0, <2>4 DEF Upto
    <3> QED
      BY <1>3, <3>1, <3>2
  <2>6. Lasts("start") /\ Lasts("result") /\ (Shown("use")' \/ tool = Permission \/ harness = "opencode")
    BY <1>0, <2>1, <2>2, ShownAdds DEF Lasts
  <2>7. tool # Permission => Fits(u, T) /\ Fits(v, T)
    BY <2>2, <2>3 DEF Fits
  <2>8. Fits(q, T)
    BY <1>3, <2>2
  <2>9. \A i \in DOMAIN stdout' : Fits(stdout'[i], T)
    <3>1. CASE Writes(<<q>>)
      BY <1>0, <2>2, <2>5, <2>8, <3>1, FitsAdds
    <3>2. CASE tool # Permission /\ (Writes(<<u>>) \/ Writes(<<u, q>>))
      BY <1>0, <2>2, <2>5, <2>7, <2>8, <3>2, FitsAdds
    <3>3. CASE tool # Permission /\ Writes(<<u, v>>)
      BY <1>0, <2>2, <2>5, <2>7, <3>3, FitsAdds
    <3>4. IsRespond(tool) => tool # Permission
      BY ToolsAssumption DEF IsRespond
    <3> QED
      BY <2>1, <3>1, <3>2, <3>3, <3>4
  <2> QED
    BY <2>1, <2>3, <2>6, <2>9 DEF RunCalls, T
<1>10. CASE HarnessReports
  <2>1. /\ hpc = "used" /\ hpc' = "done" /\ body' = body
        /\ \/ stdout' = stdout
           \/ /\ body[<<"call", hrun>>] # Permission
              /\ \E l \in Bears("result", body[<<"call", hrun>>]) : Writes(<<l>>)
    BY <1>10, ReportsSay DEF GroundInv
  <2>2. hrun = ex /\ body[<<"call", hrun>>] = T
    BY <1>0, <1>2, <2>1 DEF Uses
  <2>3. ASSUME NEW l \in Bears("result", T), Writes(<<l>>), T # Permission
        PROVE  Moves /\ \A i \in DOMAIN stdout' : Fits(stdout'[i], T)
    <3>1. l \in Lines /\ l.type = "result" /\ l.tool = T
      BY DEF Bears, Of
    <3>2. Lasts("start") /\ Lasts("use")
      BY <1>0, <2>3, <3>1, ShownAdds DEF Lasts
    <3>3. Fits(l, T)
      BY <2>3, <3>1 DEF Fits
    <3>4. \A i \in DOMAIN stdout' : Fits(stdout'[i], T)
      BY <1>0, <1>2, <2>1, <2>3, <3>1, <3>3, FitsAdds
    <3> QED
      BY <2>1, <3>2, <3>4 DEF RunReports
  <2>4. CASE stdout' = stdout
    BY <1>0, <1>2, <2>1, <2>4, ShownRests DEF RunReports, Lasts
  <2> QED
    BY <2>1, <2>2, <2>3, <2>4
<1>11. CASE HarnessEnds
  <2>1. hrun # 0 /\ hpc # "asking" /\ hpc' = "idle" /\ body' = body
    BY <1>11, EndsSay DEF GroundInv, HarnessEnds
  <2>2. PICK e \in Of("end"), m \in Of("limit"), n \in Of("message"), how \in {"ok", "error", "aborted"} :
           \/ Writes(<<e>>) \/ Writes(<<m, e>>) \/ Writes(<<n, e>>)
           \/ \E x \in Answer(PromptCall(hrun), how) : Writes(<<x>>)
           \/ \E x \in Answer(aborted, "ok") : Writes(<<n, e, x>>)
    BY <1>11, EndsSay DEF GroundInv
  <2>3. /\ e \in Lines /\ e.type = "end" /\ n \in Lines /\ n.type = "message" /\ m \in Lines /\ m.type = "limit"
        /\ \A c : \A x \in Answer(c, how) \union Answer(c, "ok") : x \in Lines /\ x.type = "response"
    BY DEF Of, Answer
  <2>4. ASSUME NEW t \in {"start", "use", "result"} PROVE Lasts(t)
    <3>1. /\ Writes(<<e>>) => Lasts(t)
          /\ Writes(<<m, e>>) => Lasts(t)
          /\ Writes(<<n, e>>) => Lasts(t)
      BY <1>0, <2>3, <2>4, ShownAdds DEF Lasts
    <3>2. ASSUME NEW x \in Lines, x.type = "response"
          PROVE  (Writes(<<x>>) => Lasts(t)) /\ (Writes(<<n, e, x>>) => Lasts(t))
      BY <1>0, <2>3, <2>4, <3>2, ShownAdds DEF Lasts
    <3> QED
      BY <2>2, <2>3, <3>1, <3>2
  <2>5. \A i \in DOMAIN stdout' : Fits(stdout'[i], T)
    BY <1>0, <1>2, <1>3, <2>1, <2>2, <2>3, FitsAdds
  <2> QED
    BY <1>0, <2>1, <2>4, <2>5 DEF RunStops
<1> QED
  BY <1>4, <1>5, <1>6, <1>7, <1>8, <1>9, <1>10, <1>11 DEF HarnessNext

(***************************************************************************)
(* Events added to a turn.                                                 *)
(***************************************************************************)
LEMMA WholeMore ==
  ASSUME NEW s \in Seq(EventType), NEW e \in EventType, Whole(s), ~Has(s, "ended"),
         (e.kind = "started") <=> (s = <<>>),
         e.kind = "toolCall" => ~Has(s, "toolCall"),
         e.kind = "toolResult" => Has(s, "toolCall")
  PROVE  Whole(s \o <<e>>) /\ s \o <<e>> \in Seq(EventType) /\ s \o <<e>> # <<>>
<1> DEFINE u == s \o <<e>>
<1>1. /\ u = Append(s, e) /\ u \in Seq(EventType) /\ Len(u) = Len(s) + 1 /\ Len(s) \in Nat /\ u # <<>>
      /\ DOMAIN s = 1 .. Len(s) /\ DOMAIN u = 1 .. Len(u) /\ (s = <<>> <=> Len(s) = 0)
      /\ \A i \in DOMAIN s : i \in DOMAIN u /\ u[i] = s[i]
      /\ u[Len(s) + 1] = e
      /\ \A i \in DOMAIN u : i \in DOMAIN s \/ i = Len(s) + 1
  <2>1. u = Append(s, e)
    OBVIOUS
  <2>2. Len(Append(s, e)) = Len(s) + 1 /\ Append(s, e) # <<>> /\ (s = <<>> <=> Len(s) = 0)
    OBVIOUS
  <2> HIDE DEF u
  <2> QED
    BY <2>1, <2>2, More
<1> HIDE DEF u
<1>2. \A i \in DOMAIN s : s[i].kind # "ended"
  BY DEF Has
<1>3. ASSUME NEW i \in DOMAIN u
      PROVE  /\ (u[i].kind = "started") <=> (i = 1)
             /\ u[i].kind = "ended" => i = Len(u)
             /\ u[i].kind = "toolResult" => \E j \in 1 .. i : u[j].kind = "toolCall"
             /\ \A j \in DOMAIN u : u[i].kind = "toolCall" /\ u[j].kind = "toolCall" => i = j
  <2>1. CASE i \in DOMAIN s
    <3>1. (u[i].kind = "started") <=> (i = 1)
      BY <1>1, <2>1 DEF Whole
    <3>2. u[i].kind = "ended" => i = Len(u)
      BY <1>1, <1>2, <2>1
    <3>3. ASSUME u[i].kind = "toolResult" PROVE \E j \in 1 .. i : u[j].kind = "toolCall"
      <4>1. PICK j \in 1 .. i : s[j].kind = "toolCall"
        BY <1>1, <2>1, <3>3 DEF Whole
      <4>2. j \in DOMAIN s
        BY <1>1, <2>1
      <4> QED
        BY <1>1, <4>1, <4>2
    <3>4. ASSUME NEW j \in DOMAIN u, u[i].kind = "toolCall", u[j].kind = "toolCall" PROVE i = j
      <4>1. Has(s, "toolCall")
        BY <1>1, <2>1, <3>4 DEF Has
      <4>2. j \in DOMAIN s
        BY <1>1, <3>4, <4>1
      <4> QED
        BY <1>1, <2>1, <3>4, <4>2 DEF Whole
    <3> QED
      BY <3>1, <3>2, <3>3, <3>4
  <2>2. CASE i = Len(s) + 1
    <3>1. (u[i].kind = "started") <=> (i = 1)
      BY <1>1, <2>2
    <3>2. u[i].kind = "ended" => i = Len(u)
      BY <1>1, <2>2
    <3>3. ASSUME u[i].kind = "toolResult" PROVE \E j \in 1 .. i : u[j].kind = "toolCall"
      <4>1. PICK j \in DOMAIN s : s[j].kind = "toolCall"
        BY <1>1, <2>2, <3>3 DEF Has
      <4>2. j \in 1 .. i /\ u[j].kind = "toolCall"
        BY <1>1, <2>2, <4>1
      <4> QED
        BY <4>2
    <3>4. ASSUME NEW j \in DOMAIN u, u[i].kind = "toolCall", u[j].kind = "toolCall" PROVE i = j
      <4>1. j \notin DOMAIN s
        BY <1>1, <2>2, <3>4 DEF Has
      <4> QED
        BY <1>1, <2>2, <3>4, <4>1
    <3> QED
      BY <3>1, <3>2, <3>3, <3>4
  <2> QED
    BY <1>1, <2>1, <2>2
<1> QED
  BY <1>1, <1>3 DEF Whole, u

LEMMA OneAtMost ==
  ASSUME NEW S, NEW s \in Seq(S), Len(s) <= 1
  PROVE  s = <<>> \/ (1 \in DOMAIN s /\ s[1] \in S /\ s = <<s[1]>>)
<1>1. Len(s) = 0 => s = <<>>
  OBVIOUS
<1>2. Len(s) = 1 => 1 \in DOMAIN s /\ s[1] \in S
  OBVIOUS
<1>3. Len(s) = 1 => s = <<s[1]>>
  OBVIOUS
<1>4. Len(s) = 0 \/ Len(s) = 1
  <2>1. \A n \in Nat : n <= 1 => n = 0 \/ n = 1
    OBVIOUS
  <2>2. Len(s) \in Nat
    OBVIOUS
  <2> QED
    BY <2>1, <2>2, Zenon
<1> QED
  BY <1>1, <1>2, <1>3, <1>4

(* The reason a turn ends for, and its end.                                *)
LEMMA WhyMore ==
  ASSUME NEW s \in Seq(EventType), Whole(s), s # <<>>, ~Has(s, "ended"),
         NEW how \in {"ok", "error", "aborted"}, NEW k \in {"error", "limit"}, NEW w, w = Why(how, k)
  PROVE  /\ w \in Seq(EventType) /\ <<Plain("ended")>> \in Seq(EventType)
         /\ s \o w \in Seq(EventType) /\ s \o w # <<>> /\ Whole(s \o w) /\ ~Has(s \o w, "ended")
         /\ Has(s \o w, "toolCall") <=> Has(s, "toolCall")
         /\ Whole(s \o (w \o <<Plain("ended")>>))
         /\ Has(s \o (w \o <<Plain("ended")>>), "toolCall") <=> Has(s, "toolCall")
         /\ s \o (w \o <<Plain("ended")>>) # <<>> /\ Has(s \o (w \o <<Plain("ended")>>), "ended")
<1> DEFINE u == s \o w
           e == Plain("ended")
<1>1. w \in Seq(EventType) /\ Len(w) <= 1 /\ \A i \in DOMAIN w : w[i].kind \in {"cancelled", "error", "limit"}
  BY WhyIs
<1>2. w = <<>> \/ \E x \in EventType : w = <<x>> /\ x.kind \in {"cancelled", "error", "limit"}
  <2>1. w = <<>> \/ (1 \in DOMAIN w /\ w[1] \in EventType /\ w = <<w[1]>>)
    BY <1>1, OneAtMost
  <2> QED
    BY <1>1, <2>1
<1>3. u \in Seq(EventType) /\ u # <<>> /\ Whole(u) /\ ~Has(u, "ended") /\ (Has(u, "toolCall") <=> Has(s, "toolCall"))
  <2>1. CASE w = <<>>
    <3>1. u = s
      BY <2>1
    <3> QED
      BY <3>1
  <2>2. ASSUME NEW x \in EventType, w = <<x>>, x.kind \in {"cancelled", "error", "limit"}
        PROVE  u \in Seq(EventType) /\ u # <<>> /\ Whole(u) /\ ~Has(u, "ended") /\ (Has(u, "toolCall") <=> Has(s, "toolCall"))
    <3>1. <<x>> \in Seq(EventType) /\ ~Has(<<x>>, "ended") /\ ~Has(<<x>>, "toolCall")
      BY <2>2, HasOne
    <3>2. Whole(s \o <<x>>) /\ s \o <<x>> \in Seq(EventType) /\ s \o <<x>> # <<>>
      BY <2>2, WholeMore
    <3>3. ~Has(s \o <<x>>, "ended") /\ (Has(s \o <<x>>, "toolCall") <=> Has(s, "toolCall"))
      BY <3>1, HasJoin
    <3> QED
      BY <2>2, <3>2, <3>3
  <2> QED
    BY <1>2, <2>1, <2>2
<1>4. e \in EventType /\ e.kind = "ended" /\ <<e>> \in Seq(EventType)
  BY EventsAre, HasOne DEF Kinds
<1>5. s \o (w \o <<e>>) = u \o <<e>>
  BY <1>1, <1>4, ConcatAssociative
<1> HIDE DEF u, e
<1>6. Whole(u \o <<e>>) /\ u \o <<e>> # <<>>
  BY <1>3, <1>4, WholeMore
<1>7. (Has(u \o <<e>>, "toolCall") <=> Has(u, "toolCall")) /\ Has(u \o <<e>>, "ended")
  BY <1>3, <1>4, HasJoin, HasOne
<1> QED
  BY <1>1, <1>3, <1>4, <1>5, <1>6, <1>7 DEF u, e

(***************************************************************************)
(* Read takes a line of the turn.                                          *)
(***************************************************************************)
LEMMA ReadAt ==
  ASSUME GroundInv, CourseInv, ex > 0, Dispatch, UNCHANGED <<harness, ex, harnessVars, body>>
  PROVE  /\ stdout \in Seq(Lines) /\ stdout # <<>> /\ stdout' = Tail(stdout) /\ stdout[1] \in Lines /\ Said(stdout[1])
         /\ 1 \in DOMAIN stdout /\ hpc' = hpc /\ harness' = harness /\ Uses' = Uses
         /\ \A t : Shown(t) <=> Shown(t)' \/ stdout[1].type = t
         /\ Upto(stdout, 1) => Upto(stdout', 1)
         /\ Rank(stdout[1]) > 0 => hpc # "asking" /\ ~Has(Told0, "ended") /\ ~Shown("start")'
         /\ Rank(stdout[1]) > 1 =>
              /\ hpc # "running" /\ ~Upto(stdout, 1)
              /\ Shown("use")' => harness = "opencode" /\ stdout[1].type = "use"
         /\ Rank(stdout[1]) > 2 => hpc \notin {"using", "used"} /\ ~Shown("result")'
<1>0. /\ stdout \in Seq(Lines) /\ stdout # <<>> /\ stdout' = Tail(stdout) /\ stdout[1] \in Lines /\ Said(stdout[1])
      /\ 1 \in DOMAIN stdout /\ hpc' = hpc /\ harness' = harness /\ Uses' = Uses /\ hpc \in HarnessPC
      /\ hrun = 0 <=> hpc = "idle"
  <2>1. stdout # <<>> /\ stdout[1] \in Lines /\ Said(stdout[1]) /\ 1 \in DOMAIN stdout
    BY Dispatched DEF GroundInv, FramesInv
  <2>2. hpc' = hpc /\ stdout' = Tail(stdout) /\ Uses' = Uses
    BY DEF Dispatch, harnessVars, Uses
  <2> QED
    BY <2>1, <2>2, GroundIs DEF GroundInv, AdapterInv, LineInv, HarnessInv, RestInv
<1>1. \A t : Shown(t) <=> Shown(t)' \/ stdout[1].type = t
  BY <1>0, ShownReads
<1>2. Upto(stdout, 1) => Upto(stdout', 1)
  BY <1>0, RankedFewer
<1>3. hrun # 0 => Rank(stdout[1]) <= Reached
  BY <1>0, ReachedIs, RankedFewer DEF CourseInv, OrderInv
<1>4. /\ Rank(stdout[1]) > 0 => hpc # "asking"
      /\ Rank(stdout[1]) > 1 => hpc # "running"
      /\ Rank(stdout[1]) > 2 => hpc \notin {"using", "used"}
  <2>1. /\ hpc = "asking" => Reached = 0
        /\ hpc = "running" => Reached = 1
        /\ hpc \in {"using", "used"} => Reached = 2
    BY DEF Reached
  <2>2. Rank(stdout[1]) \in 0 .. 5
    BY <1>0, RanksOf
  <2> QED
    BY <1>0, <1>3, <2>1, <2>2
<1>5. Rank(stdout[1]) > 0 => ~Has(Told0, "ended")
  <2>1. Upto(stdout, 0) => Rank(stdout[1]) <= 0
    BY <1>0, RankedFewer
  <2>2. Rank(stdout[1]) \in 0 .. 5
    BY <1>0, RanksOf
  <2> QED
    BY <2>1, <2>2 DEF CourseInv, EndedInv, Spent
<1>6. \A i \in DOMAIN stdout' : /\ stdout'[i] \in Lines
                                /\ Rank(stdout[1]) > 0 /\ Rank(stdout'[i]) > 0 =>
                                     Rank(stdout[1]) < Rank(stdout'[i]) \/ Twice(stdout[1], stdout'[i])
  <2>1. \A i \in DOMAIN stdout' : i + 1 \in DOMAIN stdout /\ stdout'[i] = stdout[i + 1] /\ i \in Nat /\ 1 < i + 1
    BY <1>0, Rest
  <2>2. Ordered(stdout)
    BY DEF CourseInv, OrderInv
  <2>3. \A i \in DOMAIN stdout : stdout[i] \in Lines
    BY <1>0
  <2>4. ASSUME NEW i \in DOMAIN stdout', Rank(stdout[1]) > 0, Rank(stdout[i + 1]) > 0
        PROVE  Rank(stdout[1]) < Rank(stdout[i + 1]) \/ Twice(stdout[1], stdout[i + 1])
    BY <1>0, <2>1, <2>2, <2>4 DEF Ordered
  <2> QED
    BY <2>1, <2>3, <2>4
<1>7. \A l \in Lines : /\ Rank(l) \in 0 .. 5
                       /\ l.type = "start" => Rank(l) = 1
                       /\ l.type = "use" => Rank(l) = 2
                       /\ l.type = "result" => Rank(l) = 3
  BY RanksOf DEF Rank
<1>8. /\ Rank(stdout[1]) > 0 => ~Shown("start")'
      /\ Rank(stdout[1]) > 1 => (Shown("use")' => harness = "opencode" /\ stdout[1].type = "use")
      /\ Rank(stdout[1]) > 2 => ~Shown("result")'
  <2>1. ASSUME NEW i \in DOMAIN stdout', stdout'[i].type = "start", Rank(stdout[1]) > 0 PROVE FALSE
    BY <1>0, <1>6, <1>7, <2>1 DEF Twice
  <2>2. ASSUME NEW i \in DOMAIN stdout', stdout'[i].type = "use", Rank(stdout[1]) > 1
        PROVE  harness = "opencode" /\ stdout[1].type = "use"
    BY <1>0, <1>6, <1>7, <2>2 DEF Twice
  <2>3. ASSUME NEW i \in DOMAIN stdout', stdout'[i].type = "result", Rank(stdout[1]) > 2 PROVE FALSE
    BY <1>0, <1>6, <1>7, <2>3 DEF Twice
  <2> QED
    BY <2>1, <2>2, <2>3 DEF Shown
<1>9. Rank(stdout[1]) > 1 => ~Upto(stdout, 1)
  BY <1>0, <1>7, RankedFewer
<1> QED
  BY <1>0, <1>1, <1>2, <1>4, <1>5, <1>8, <1>9

(* The events of a line of Claude Code's or Pi's turn.                     *)
PlainFrame(l, f) ==
    /\ l.type = "start" => f.events = <<Plain("started")>> /\ f.codec.responds = codec.responds
    /\ l.type = "use" /\ IsRespond(l.tool) =>
         f.events = <<>> /\ (harness = "claude" => f.codec.responds = codec.responds \union {l.tool})
    /\ l.type = "use" /\ ~IsRespond(l.tool) =>
         f.events = <<Plain("toolCall")>> /\ f.codec.responds = codec.responds
    /\ l.type = "result" /\ IsRespond(l.tool) /\ (harness = "claude" => l.tool \in codec.responds) =>
         \E e \in EventType : f.events = <<e>> /\ e.kind \notin {"started", "toolCall", "toolResult", "ended"}
    /\ l.type = "result" /\ ~IsRespond(l.tool) => f.events = <<Plain("toolResult")>>
    /\ l.type \in {"limit", "message"} =>
         f.events = <<>> \/ \E k \in {"error", "limit"} : f.events = Why(l.how, k)
    /\ l.type = "end" =>
         \/ f.events = <<Plain("ended")>>
         \/ \E k \in {"error", "limit"} : f.events = Why(l.how, k) \o <<Plain("ended")>>

LEMMA PlainSays ==
  ASSUME CodecInv, harness \in {"claude", "pi"}, NEW l \in Lines, Said(l), NEW f, f = Decode(harness, codec, l)
  PROVE  PlainFrame(l, f)
<1>0. codec \in CodecType /\ l.type \in LineTypes
  BY DEF CodecInv, Lines
<1>1. Outcome(l) \in EventType /\ Outcome(l).kind \in {"structured", "rejected"}
      /\ PiStructured(l) \in EventType /\ PiStructured(l).kind \in {"structured", "rejected", "error"}
  BY EventsAre
<1>2. CASE harness = "claude"
  <2>1. ClaudeFrame(codec, l, f)
    BY <1>0, <1>2, ClaudeSays DEF Decode
  <2>2. l.tool \in codec.responds => IsRespond(l.tool)
    BY <1>0 DEF CodecType, IsRespond
  <2>3. l.type # "message"
    BY <1>2 DEF Said
  <2>4. (IF codec.limit THEN "limit" ELSE "error") \in {"error", "limit"}
    OBVIOUS
  <2>5. CASE l.type \in {"start", "use"}
    BY <1>0, <1>2, <2>1, <2>5 DEF ClaudeFrame, PlainFrame, Tells, CodecType
  <2>6. CASE l.type = "result"
    BY <1>1, <1>2, <2>1, <2>2, <2>6 DEF ClaudeFrame, PlainFrame, Tells
  <2>7. CASE l.type \in {"limit", "end"}
    BY <1>2, <2>1, <2>4, <2>7 DEF ClaudeFrame, PlainFrame, Tells
  <2>8. CASE l.type \in {"request", "response"}
    BY <2>8 DEF PlainFrame
  <2> QED
    BY <1>0, <2>3, <2>5, <2>6, <2>7, <2>8 DEF LineTypes
<1>3. CASE harness = "pi"
  <2>1. PiFrame(codec, l, f)
    BY <1>0, <1>3, PiSays DEF Decode
  <2>2. l.type # "limit"
    BY <1>3 DEF Said
  <2>3. CASE l.type \in {"start", "use"}
    <3>1. ~IsRespond(l.tool) => When(~IsRespond(l.tool), "toolCall") = <<Plain("toolCall")>>
      BY DEF When
    <3>2. IsRespond(l.tool) => When(~IsRespond(l.tool), "toolCall") = <<>>
      BY DEF When
    <3> QED
      BY <1>3, <2>1, <2>3, <3>1, <3>2 DEF PiFrame, PlainFrame
  <2>4. CASE l.type = "result"
    BY <1>1, <1>3, <2>1, <2>4 DEF PiFrame, PlainFrame
  <2>5. CASE l.type \in {"message", "end"}
    BY <2>1, <2>5 DEF PiFrame, PlainFrame
  <2>6. CASE l.type \in {"request", "response"}
    BY <2>6 DEF PlainFrame
  <2> QED
    BY <1>0, <2>2, <2>3, <2>4, <2>5, <2>6 DEF LineTypes
<1> QED
  BY <1>2, <1>3

LEMMA PlainReads ==
  ASSUME GroundInv, CourseInv, ToolsInv, ex > 0, Dispatch, UNCHANGED <<harness, ex, harnessVars, body>>,
         harness # "opencode", Rank(stdout[1]) > 0, Whole(Told0), StartInv, CalledInv
  PROVE  Whole(Told0') /\ StartInv' /\ CalledInv'
<1> DEFINE l == stdout[1]
<1>0. /\ stdout \in Seq(Lines) /\ 1 \in DOMAIN stdout /\ l \in Lines /\ Said(l)
      /\ hpc' = hpc /\ harness' = harness /\ Uses' = Uses /\ hpc # "asking"
      /\ \A t : Shown(t) <=> Shown(t)' \/ l.type = t
      /\ Upto(stdout, 1) => Upto(stdout', 1)
      /\ ~Has(Told0, "ended") /\ ~Shown("start")'
      /\ harness \in {"claude", "pi"} /\ Told0 \in Seq(EventType)
      /\ l.type \in LineTypes /\ l.how \in {"ok", "error", "aborted"}
  BY ReadAt, GroundIs DEF Lines
<1>1. PICK f : f = Decode(harness, codec, l) /\ codec' = f.codec /\ f.events \in Seq(EventType)
               /\ Told0' = Told0 \o f.events
  BY Dispatched DEF GroundInv, FramesInv
<1>2. PlainFrame(l, f)
  BY <1>0, <1>1, PlainSays DEF GroundInv, FramesInv
<1>3. /\ l.type \in {"use", "result"} => l.tool = Uses /\ Uses # Permission
      /\ l.type = "start" => Rank(l) = 1
      /\ l.type = "use" => Rank(l) = 2
      /\ l.type = "result" => Rank(l) = 3
      /\ l.type \in {"limit", "message"} => Rank(l) = 4
      /\ l.type = "end" => Rank(l) = 5
      /\ l.type \notin {"request", "response"}
  BY <1>0 DEF Rank, ToolsInv
<1>4. Rank(l) > 1 => /\ hpc # "running" /\ ~Shown("use")' /\ Told0 # <<>>
  <2>1. Rank(l) > 1 => hpc # "running" /\ ~Shown("use")' /\ ~Upto(stdout, 1)
    BY <1>0, ReadAt
  <2>2. Rank(l) > 1 => ~Shown("start")
    BY <1>0, <1>3
  <2> QED
    BY <2>1, <2>2 DEF StartInv
<1>5. Rank(l) > 2 => ~Calling'
  BY <1>0, ReadAt DEF Calling
<1>6. Calling' => Calling
  BY <1>0 DEF Calling
<1> DEFINE Goal == /\ Whole(Told0') /\ Told0' # <<>>
                   /\ Has(Told0', "toolCall") => ~Shown("use")' /\ hpc # "running"
                   /\ Calling' => \/ Uses = Permission \/ Shown("use")'
                                  \/ IsRespond(Uses) /\ (harness = "claude" => Uses \in codec'.responds)
                                  \/ ~IsRespond(Uses) /\ Has(Told0', "toolCall")
<1>7. SUFFICES Goal
  <2>1. (Told0' # <<>>) => StartInv'
    BY <1>0 DEF StartInv
  <2>2. Has(Told0, "toolCall")' <=> Has(Told0', "toolCall")
    BY DEF Has
  <2> QED
    BY <1>0, <2>1, <2>2 DEF CalledInv
<1>e. /\ \A k \in {"started", "toolCall", "toolResult", "ended"} :
           Plain(k) \in EventType /\ Plain(k).kind = k /\ <<Plain(k)>> \in Seq(EventType)
      /\ \A e \in EventType : <<e>> \in Seq(EventType) /\ \A k : Has(<<e>>, k) <=> e.kind = k
  BY EventsAre, HasOne DEF Kinds
<1> HIDE DEF l
<1>8. CASE l.type = "start"
  <2>1. Told0 = <<>> /\ f.events = <<Plain("started")>> /\ codec'.responds = codec.responds
    BY <1>0, <1>1, <1>2, <1>8 DEF PlainFrame, StartInv
  <2>2. Whole(Told0') /\ Told0' # <<>>
    <3>1. ~Has(Told0, "toolCall") /\ Whole(Told0 \o <<Plain("started")>>) /\ Told0 \o <<Plain("started")>> # <<>>
      BY <1>0, <1>e, <2>1, WholeMore, HasOne
    <3> QED
      BY <1>1, <2>1, <3>1
  <2>3. ~Has(Told0', "toolCall")
    <3>1. ~Has(Told0, "toolCall") /\ ~Has(<<Plain("started")>>, "toolCall")
      BY <1>e, <2>1, HasOne
    <3> QED
      BY <1>0, <1>1, <1>e, <2>1, <3>1, HasJoin
  <2>4. Shown("use")' <=> Shown("use")
    BY <1>0, <1>8
  <2>5. ~Has(Told0, "toolCall")
    BY <2>1, HasOne
  <2> QED
    BY <1>0, <1>6, <2>1, <2>2, <2>3, <2>4, <2>5 DEF CalledInv
<1>9. CASE l.type = "use"
  <2>1. Told0 # <<>> /\ hpc # "running" /\ ~Shown("use")' /\ Shown("use") /\ ~Has(Told0, "toolCall") /\ l.tool = Uses
    BY <1>0, <1>3, <1>4, <1>9 DEF CalledInv
  <2>2. CASE IsRespond(l.tool)
    <3>1. Told0' = Told0 /\ (harness = "claude" => Uses \in codec'.responds)
      <4>1. f.events = <<>> /\ (harness = "claude" => codec'.responds = codec.responds \union {l.tool})
        BY <1>1, <1>2, <1>9, <2>2 DEF PlainFrame
      <4>2. Told0 \o <<>> = Told0
        BY <1>0
      <4> QED
        BY <1>1, <2>1, <4>1, <4>2
    <3> QED
      BY <2>1, <2>2, <3>1
  <2>3. CASE ~IsRespond(l.tool)
    <3>1. f.events = <<Plain("toolCall")>>
      BY <1>1, <1>2, <1>9, <2>3 DEF PlainFrame
    <3>2. Whole(Told0 \o <<Plain("toolCall")>>) /\ Told0 \o <<Plain("toolCall")>> # <<>>
      BY <1>0, <1>e, <2>1, WholeMore
    <3>3. Has(Told0 \o <<Plain("toolCall")>>, "toolCall")
      BY <1>0, <1>e, HasJoin
    <3> QED
      BY <1>1, <2>1, <2>3, <3>1, <3>2, <3>3
  <2> QED
    BY <2>2, <2>3
<1>10. CASE l.type = "result"
  <2>1. Told0 # <<>> /\ hpc # "running" /\ ~Shown("use")' /\ ~Calling' /\ l.tool = Uses /\ Uses # Permission /\ Calling
    BY <1>0, <1>3, <1>4, <1>5, <1>10 DEF Calling
  <2>2. ~Shown("use")
    BY <1>0, <1>10, <2>1
  <2>3. \/ IsRespond(Uses) /\ (harness = "claude" => Uses \in codec.responds)
        \/ ~IsRespond(Uses) /\ Has(Told0, "toolCall")
    BY <1>0, <2>1, <2>2 DEF CalledInv
  <2>4. PICK e \in EventType : /\ f.events = <<e>> /\ e.kind \notin {"started", "toolCall", "ended"}
                               /\ e.kind = "toolResult" => Has(Told0, "toolCall")
    <3>1. CASE IsRespond(Uses) /\ (harness = "claude" => Uses \in codec.responds)
      BY <1>2, <1>10, <2>1, <3>1 DEF PlainFrame
    <3>2. CASE ~IsRespond(Uses) /\ Has(Told0, "toolCall")
      BY <1>2, <1>10, <1>e, <2>1, <3>2 DEF PlainFrame
    <3> QED
      BY <2>3, <3>1, <3>2
  <2>5. Whole(Told0 \o <<e>>) /\ Told0 \o <<e>> # <<>>
    BY <1>0, <2>1, <2>4, WholeMore
  <2> QED
    BY <1>1, <2>1, <2>4, <2>5
<1>11. CASE l.type \in {"limit", "message"}
  <2>1. Told0 # <<>> /\ hpc # "running" /\ ~Shown("use")' /\ ~Calling'
    BY <1>3, <1>4, <1>5, <1>11
  <2>2. CASE f.events = <<>>
    <3>1. Told0' = Told0
      BY <1>0, <1>1, <2>2
    <3> QED
      BY <2>1, <3>1
  <2>3. ASSUME NEW k \in {"error", "limit"}, f.events = Why(l.how, k) PROVE Goal
    <3>1. Whole(Told0 \o f.events) /\ Told0 \o f.events # <<>>
      BY <1>0, <2>1, <2>3, WhyMore
    <3> QED
      BY <1>1, <2>1, <3>1
  <2> QED
    BY <1>2, <1>11, <2>2, <2>3 DEF PlainFrame
<1>12. CASE l.type = "end"
  <2>1. Told0 # <<>> /\ hpc # "running" /\ ~Shown("use")' /\ ~Calling'
    BY <1>3, <1>4, <1>5, <1>12
  <2>2. CASE f.events = <<Plain("ended")>>
    <3>1. Whole(Told0 \o <<Plain("ended")>>) /\ Told0 \o <<Plain("ended")>> # <<>>
      BY <1>0, <1>e, <2>1, WholeMore
    <3> QED
      BY <1>1, <2>1, <2>2, <3>1
  <2>3. ASSUME NEW k \in {"error", "limit"}, f.events = Why(l.how, k) \o <<Plain("ended")>> PROVE Goal
    <3> DEFINE w == Why(l.how, k)
    <3>1. Whole(Told0 \o (w \o <<Plain("ended")>>)) /\ Told0 \o (w \o <<Plain("ended")>>) # <<>>
      BY <1>0, <2>1, <2>3, WhyMore
    <3> QED
      BY <1>1, <2>1, <2>3, <3>1
  <2> QED
    BY <1>2, <1>12, <2>2, <2>3 DEF PlainFrame
<1> QED
  BY <1>0, <1>3, <1>8, <1>9, <1>10, <1>11, <1>12 DEF LineTypes

LEMMA OpenCodeReads ==
  ASSUME GroundInv, CourseInv, ToolsInv, ex > 0, Dispatch, UNCHANGED <<harness, ex, harnessVars, body>>,
         harness = "opencode", Rank(stdout[1]) > 0, Whole(Told0), StartInv, CalledInv
  PROVE  Whole(Told0') /\ StartInv' /\ CalledInv'
<1> DEFINE l == stdout[1]
           b == When(~codec.started, "started")
           E1 == Told0 \o b
<1>0. /\ stdout \in Seq(Lines) /\ 1 \in DOMAIN stdout /\ l \in Lines
      /\ hpc' = hpc /\ harness' = harness /\ Uses' = Uses /\ hpc # "asking"
      /\ \A t : Shown(t) <=> Shown(t)' \/ l.type = t
      /\ ~Has(Told0, "ended") /\ ~Shown("start")'
      /\ Told0 \in Seq(EventType) /\ codec \in CodecType /\ codec.started \in BOOLEAN
      /\ l.type \in LineTypes /\ l.how \in {"ok", "error", "aborted"}
  BY ReadAt, GroundIs DEF Lines, CodecType
<1>1. PICK f : f = Decode(harness, codec, l) /\ codec' = f.codec /\ f.events \in Seq(EventType)
               /\ Told0' = Told0 \o f.events
  BY Dispatched DEF GroundInv, FramesInv
<1>2. OpenCodeFrame(codec, l, f)
  BY <1>0, <1>1, OpenCodeSays DEF Decode
<1>3. /\ l.type \in {"use", "result"} => l.tool = Uses
      /\ l.type = "use" => Rank(l) = 2
      /\ l.type = "result" => Rank(l) = 3
      /\ l.type = "response" => Rank(l) = 5
      /\ l.type # "request"
  BY <1>0, RanksOf DEF Rank, ToolsInv
<1>4. /\ l.type = "use" => hpc # "running"
      /\ l.type \in {"result", "response"} => hpc # "running" /\ ~Calling' /\ ~Shown("use")'
  BY <1>0, <1>3, ReadAt DEF Calling
<1>5. (Calling' => Calling) /\ (Shown("use")' => Shown("use"))
  BY <1>0 DEF Calling
<1>e. /\ \A k \in {"started", "toolCall", "toolResult", "ended"} :
           Plain(k) \in EventType /\ Plain(k).kind = k /\ <<Plain(k)>> \in Seq(EventType)
      /\ \A e \in EventType : <<e>> \in Seq(EventType) /\ \A k : Has(<<e>>, k) <=> e.kind = k
      /\ \A k : ~Has(<<>>, k)
  BY EventsAre, HasOne DEF Kinds
(* The start is told of first, if it was not. *)
<1>6. /\ b \in Seq(EventType) /\ E1 \in Seq(EventType) /\ E1 # <<>> /\ Whole(E1) /\ ~Has(E1, "ended")
      /\ Has(E1, "toolCall") <=> Has(Told0, "toolCall")
  <2>1. codec.started => b = <<>>
    BY DEF When
  <2>2. ~codec.started => b = <<Plain("started")>>
    BY DEF When
  <2>3. CASE codec.started
    <3>1. E1 = Told0 /\ Told0 # <<>>
      BY <1>0, <2>1, <2>3 DEF StartInv
    <3>2. b \in Seq(EventType)
      <4>1. b = <<>> /\ <<>> \in Seq(EventType)
        BY <2>1, <2>3
      <4> HIDE DEF b
      <4> QED
        BY <4>1
    <3> HIDE DEF b, E1
    <3> QED
      BY <1>0, <3>1, <3>2
  <2>4. CASE ~codec.started
    <3>1. Told0 = <<>>
      BY <1>0, <2>4 DEF StartInv
    <3>2. Whole(Told0 \o <<Plain("started")>>) /\ Told0 \o <<Plain("started")>> # <<>>
          /\ Told0 \o <<Plain("started")>> \in Seq(EventType)
      BY <1>0, <1>e, <3>1, WholeMore
    <3>3. ~Has(Told0 \o <<Plain("started")>>, "ended")
          /\ (Has(Told0 \o <<Plain("started")>>, "toolCall") <=> Has(Told0, "toolCall"))
      <4>1. Plain("started") \in EventType /\ Plain("started").kind = "started"
        BY <1>e
      <4>2. \A k : Has(Told0 \o <<Plain("started")>>, k) <=> Has(Told0, k) \/ k = "started"
        BY <1>0, <4>1, HasMore
      <4> QED
        BY <1>0, <4>2
    <3> QED
      BY <1>e, <2>2, <2>4, <3>2, <3>3
  <2> QED
    BY <1>0, <2>3, <2>4
<1>7. \A s \in Seq(EventType) : Told0 \o (b \o s) = E1 \o s
  BY <1>0, <1>6, ConcatAssociative
<1> HIDE DEF b, E1, l
<1> DEFINE Goal ==
             /\ Whole(Told0') /\ (codec'.started <=> Told0' # <<>> /\ ~Has(Told0', "ended"))
             /\ hpc = "running" => codec'.called = {} /\ ~Has(Told0', "toolCall")
             /\ (Calling' \/ Shown("use")') /\ ~IsRespond(Uses) => (Has(Told0', "toolCall") <=> Uses \in codec'.called)
<1>8. SUFFICES Goal
  <2>1. \A k : Has(Told0, k)' <=> Has(Told0', k)
    BY DEF Has
  <2> QED
    BY <1>0, <2>1 DEF StartInv, CalledInv
<1>9. CASE Told0' = Told0 /\ codec'.called = codec.called /\ codec'.started = codec.started
  BY <1>0, <1>5, <1>9 DEF StartInv, CalledInv
<1>10. CASE l.type = "response" /\ l.call \notin codec.prompts
  <2>1. f.events = <<>> /\ f.codec = [codec EXCEPT !.loads = @ \ {l.call}]
    BY <1>2, <1>10 DEF OpenCodeFrame
  <2>2. f.codec.called = codec.called /\ f.codec.started = codec.started
    BY <1>0, <2>1 DEF CodecType
  <2>3. Told0 \o <<>> = Told0
    BY <1>0
  <2> QED
    BY <1>1, <1>9, <2>1, <2>2, <2>3
<1>11. CASE l.type = "response" /\ l.call \in codec.prompts
  <2> DEFINE w == Why(l.how, "error")
             e == <<Plain("ended")>>
  <2>1. /\ f.codec = [codec EXCEPT !.prompts = @ \ {l.call}, !.started = FALSE, !.called = {}]
        /\ f.events = b \o w \o e
    BY <1>2, <1>11 DEF OpenCodeFrame, b
  <2>2. f.codec.called = {} /\ ~f.codec.started
    BY <1>0, <2>1 DEF CodecType
  <2>3. /\ w \in Seq(EventType) /\ e \in Seq(EventType) /\ Whole(E1 \o (w \o e))
        /\ Has(E1 \o (w \o e), "ended")
    BY <1>0, <1>6, WhyMore
  <2> HIDE DEF w, e
  <2>4. Told0' = E1 \o (w \o e)
    <3>1. f.events = b \o (w \o e) /\ w \o e \in Seq(EventType)
      BY <1>6, <2>1, <2>3, ConcatAssociative
    <3> QED
      BY <1>1, <1>7, <3>1
  <2> QED
    BY <1>1, <1>4, <1>11, <2>2, <2>3, <2>4
<1>12. CASE l.type # "response" /\ ~InTurn(codec)
  <2>1. f.events = <<>> /\ f.codec = codec
    BY <1>2, <1>3, <1>12 DEF OpenCodeFrame, Same
  <2>2. Told0 \o <<>> = Told0
    BY <1>0
  <2> QED
    BY <1>1, <1>9, <2>1, <2>2
<1>13. CASE l.type # "response" /\ InTurn(codec)
  <2>1. PICK g : /\ f.events = b \o g.events /\ f.codec = [g.codec EXCEPT !.started = TRUE]
                 /\ l.type \notin {"use", "result"} => g = Frame(codec, <<>>)
                 /\ l.type \in {"use", "result"} => g = OpenCodeTool(codec, l)
    BY <1>2, <1>3, <1>13 DEF OpenCodeFrame, b
  <2>2. CASE l.type \notin {"use", "result"}
    <3>1. g.events = <<>> /\ g.codec = codec
      BY <2>1, <2>2, FrameIs
    <3>2. f.codec.called = codec.called /\ f.codec.started
      BY <1>0, <2>1, <3>1 DEF CodecType
    <3>3. Told0' = E1
      <4>1. <<>> \in Seq(EventType) /\ E1 \o <<>> = E1
        BY <1>6
      <4> QED
        BY <1>1, <1>7, <2>1, <3>1, <4>1
    <3> QED
      BY <1>0, <1>1, <1>5, <1>6, <3>2, <3>3 DEF CalledInv
  <2>3. CASE l.type \in {"use", "result"}
    <3>1. ToolFrame(codec, l, g) /\ l.tool = Uses
      BY <1>0, <1>3, <2>1, <2>3, OpenCodeToolSays
    <3> DEFINE first == Uses \notin codec.called /\ ~IsRespond(Uses)
    <3>2. /\ first => When(first, "toolCall") = <<Plain("toolCall")>>
          /\ ~first => When(first, "toolCall") = <<>>
      BY DEF When
    <3>3. CASE l.type = "use" /\ l.ok
      <4>1. g.codec = [codec EXCEPT !.called = @ \union {Uses}] /\ g.events = When(first, "toolCall")
        BY <3>1, <3>3 DEF ToolFrame
      <4>2. f.codec.called = codec.called \union {Uses} /\ f.codec.started
        BY <1>0, <2>1, <4>1 DEF CodecType
      <4>3. ~IsRespond(Uses) => (Has(E1, "toolCall") <=> Uses \in codec.called)
        BY <1>0, <1>6, <3>3 DEF CalledInv
      <4>4. CASE first
        <5>1. Told0' = E1 \o <<Plain("toolCall")>>
          <6>1. g.events = <<Plain("toolCall")>>
            BY <3>2, <4>1, <4>4
          <6>2. g.events \in Seq(EventType) /\ Told0' = Told0 \o (b \o g.events)
            BY <1>1, <1>e, <2>1, <6>1
          <6> QED
            BY <1>7, <6>1, <6>2
        <5>2. Whole(E1 \o <<Plain("toolCall")>>) /\ E1 \o <<Plain("toolCall")>> # <<>>
          BY <1>6, <1>e, <4>3, <4>4, WholeMore
        <5>3. Has(E1 \o <<Plain("toolCall")>>, "toolCall") /\ ~Has(E1 \o <<Plain("toolCall")>>, "ended")
          <6>1. Plain("toolCall") \in EventType /\ Plain("toolCall").kind = "toolCall"
            BY <1>e
          <6>2. \A k : Has(E1 \o <<Plain("toolCall")>>, k) <=> Has(E1, k) \/ k = "toolCall"
            BY <1>6, <6>1, HasMore
          <6> QED
            BY <1>6, <6>2
        <5> QED
          BY <1>1, <1>4, <3>3, <4>2, <5>1, <5>2, <5>3
      <4>5. CASE ~first
        <5>1. Told0' = E1
          <6>1. <<>> \in Seq(EventType) /\ E1 \o <<>> = E1
            BY <1>6
          <6> QED
            BY <1>1, <1>7, <2>1, <3>2, <4>1, <4>5, <6>1
        <5> QED
          BY <1>1, <1>4, <1>6, <3>3, <4>2, <4>3, <4>5, <5>1
      <4> QED
        BY <4>4, <4>5
    <3>4. CASE l.type = "use" /\ ~l.ok
      <4>1. g.codec = codec /\ g.events = <<>>
        BY <3>1, <3>4 DEF ToolFrame
      <4>2. f.codec.called = codec.called /\ f.codec.started
        BY <1>0, <2>1, <4>1 DEF CodecType
      <4>3. Told0' = E1
        <5>1. <<>> \in Seq(EventType) /\ E1 \o <<>> = E1
          BY <1>6
        <5> QED
          BY <1>1, <1>7, <2>1, <4>1, <5>1
      <4>4. ~IsRespond(Uses) => (Has(E1, "toolCall") <=> Uses \in codec.called)
        BY <1>0, <1>6, <3>4 DEF CalledInv
      <4> QED
        BY <1>1, <1>4, <1>6, <3>4, <4>2, <4>3, <4>4
    <3>5. CASE l.type = "result"
      <4>1. /\ g.codec = [codec EXCEPT !.called = @ \ {Uses}]
            /\ IsRespond(Uses) => g.events = <<>> \o <<Outcome(l)>>
            /\ ~IsRespond(Uses) => g.events = When(first, "toolCall") \o <<Plain("toolResult")>>
        BY <3>1, <3>5 DEF ToolFrame
      <4>2. f.codec.started
        BY <1>0, <2>1, <4>1 DEF CodecType
      <4>3. SUFFICES Whole(Told0') /\ Told0' # <<>> /\ ~Has(Told0', "ended")
        BY <1>1, <1>4, <3>5, <4>2
      <4>4. CASE IsRespond(Uses)
        <5>1. Outcome(l) \in EventType /\ Outcome(l).kind \in {"structured", "rejected"}
          BY <1>0, EventsAre
        <5>2. g.events = <<Outcome(l)>> /\ <<Outcome(l)>> \in Seq(EventType)
          BY <1>e, <4>1, <4>4, <5>1
        <5>3. Told0' = E1 \o <<Outcome(l)>>
          BY <1>1, <1>7, <2>1, <5>2
        <5>4. Whole(E1 \o <<Outcome(l)>>) /\ E1 \o <<Outcome(l)>> # <<>>
          BY <1>6, <5>1, WholeMore
        <5>5. ~Has(E1 \o <<Outcome(l)>>, "ended")
          BY <1>6, <1>e, <5>1, <5>2, HasJoin
        <5> QED
          BY <5>3, <5>4, <5>5
      <4>5. CASE ~IsRespond(Uses)
        <5> DEFINE c == When(first, "toolCall")
                   E2 == E1 \o c
                   r == <<Plain("toolResult")>>
        <5>1. Has(E1, "toolCall") <=> Uses \in codec.called
          <6>1. Calling
            BY <1>0, <3>5 DEF Calling
          <6> QED
            BY <1>0, <1>6, <4>5, <6>1 DEF CalledInv
        <5>2. /\ c \in Seq(EventType) /\ E2 \in Seq(EventType) /\ E2 # <<>> /\ Whole(E2) /\ ~Has(E2, "ended")
              /\ Has(E2, "toolCall")
          <6>1. CASE first
            <7>1. c = <<Plain("toolCall")>>
              BY <3>2, <6>1
            <7>2. /\ Whole(E1 \o <<Plain("toolCall")>>) /\ E1 \o <<Plain("toolCall")>> # <<>>
                  /\ E1 \o <<Plain("toolCall")>> \in Seq(EventType)
              BY <1>6, <1>e, <5>1, <6>1, WholeMore
            <7>3. Has(E1 \o <<Plain("toolCall")>>, "toolCall") /\ ~Has(E1 \o <<Plain("toolCall")>>, "ended")
              <8>1. Plain("toolCall") \in EventType /\ Plain("toolCall").kind = "toolCall"
                BY <1>e
              <8>2. \A k : Has(E1 \o <<Plain("toolCall")>>, k) <=> Has(E1, k) \/ k = "toolCall"
                BY <1>6, <8>1, HasMore
              <8> QED
                BY <1>6, <8>2
            <7> QED
              BY <1>e, <7>1, <7>2, <7>3
          <6>2. CASE ~first
            <7>1. c = <<>>
              BY <3>2, <6>2
            <7>2. <<>> \in Seq(EventType) /\ E1 \o <<>> = E1
              BY <1>6
            <7>3. E2 = E1 /\ c \in Seq(EventType)
              BY <7>1, <7>2
            <7> QED
              BY <1>6, <4>5, <5>1, <6>2, <7>3
          <6> QED
            BY <6>1, <6>2
        <5>3. Told0' = E2 \o r
          <6>1. c \o r \in Seq(EventType)
            BY <1>e, <5>2
          <6>2. E1 \o (c \o r) = E2 \o r
            BY <1>6, <1>e, <5>2, ConcatAssociative
          <6>3. Told0' = E1 \o (c \o r)
            <7>1. g.events = c \o r
              BY <4>1, <4>5
            <7>2. Told0' = Told0 \o (b \o (c \o r))
              BY <1>1, <2>1, <7>1
            <7> QED
              BY <1>7, <6>1, <7>2
          <6> QED
            BY <6>2, <6>3
        <5> HIDE DEF c, E2
        <5>4. Whole(E2 \o r) /\ E2 \o r # <<>>
          BY <1>e, <5>2, WholeMore
        <5>5. ~Has(E2 \o r, "ended")
          BY <1>e, <5>2, HasJoin
        <5> QED
          BY <5>3, <5>4, <5>5
      <4> QED
        BY <4>4, <4>5
    <3> QED
      BY <1>0, <2>3, <3>3, <3>4, <3>5
  <2> QED
    BY <2>2, <2>3
<1> QED
  BY <1>10, <1>11, <1>12, <1>13

(***************************************************************************)
(* The turn goes on, step by step.                                         *)
(***************************************************************************)
(* A step that shows and tells nothing of it.                              *)
LEMMA TurnRests ==
  ASSUME Told0' = Told0, harness' = harness, Uses' = Uses, hpc' = hpc, Upto(stdout, 1) => Upto(stdout', 1),
         codec'.called = codec.called, codec'.started = codec.started, codec'.responds = codec.responds,
         Lasts("start"), Lasts("use"), Lasts("result"), Whole(Told0), StartInv, CalledInv
  PROVE  Whole(Told0') /\ StartInv' /\ CalledInv'
<1>1. \A k : Has(Told0, k)' <=> Has(Told0, k)
  BY DEF Has
<1>2. Upto(stdout, 1)' <=> Upto(stdout', 1)
  BY RankStays
<1>3. Calling' <=> Calling
  BY DEF Calling, Lasts
<1>4. StartInv'
  BY <1>1, <1>2 DEF StartInv, Lasts
<1>5. CalledInv'
  BY <1>1, <1>3 DEF CalledInv, Lasts
<1> QED
  BY <1>4, <1>5

LEMMA UnrunTurn ==
  ASSUME Unrun', hpc' = "idle", stdout' \in Seq(Lines)
  PROVE  Whole(Told0') /\ StartInv' /\ CalledInv' /\ ToolsInv'
<1>1. Told0' = <<>> /\ Upto(stdout, 0)' /\ ~codec'.started
  BY DEF Unrun, Spent
<1>2. \A i \in DOMAIN stdout' : stdout'[i] \in Lines /\ stdout'[i].type \notin {"start", "use", "result"}
                                /\ (Rank(stdout[i]) <= 1)'
  <2>1. ASSUME NEW i \in DOMAIN stdout'
        PROVE  stdout'[i] \in Lines /\ stdout'[i].type \notin {"start", "use", "result"} /\ (Rank(stdout[i]) <= 1)'
    <3>1. stdout'[i] \in Lines /\ (Rank(stdout[i]) <= 0)'
      BY <1>1, <2>1 DEF Upto
    <3>2. stdout'[i].type = "start" => (Rank(stdout[i]) = 1)'
      BY DEF Rank
    <3>3. stdout'[i].type = "use" => (Rank(stdout[i]) = 2)'
      BY DEF Rank
    <3>4. stdout'[i].type = "result" => (Rank(stdout[i]) = 3)'
      BY DEF Rank
    <3>5. stdout'[i].type \in LineTypes
      BY <3>1 DEF Lines
    <3>6. (Rank(stdout[i]) \in 0 .. 5)'
      BY <3>5 DEF Rank, LineTypes
    <3> QED
      BY <3>1, <3>2, <3>3, <3>4, <3>6
  <2> QED
    BY <2>1
<1>3. ~Shown("start")' /\ ~Shown("use")' /\ ~Shown("result")' /\ Upto(stdout, 1)'
  BY <1>2 DEF Shown, Upto
<1>4. ~Calling'
  BY <1>3 DEF Calling
<1>5. (~Has(Told0, "toolCall"))'
  BY <1>1 DEF Has
<1>6. Whole(Told0')
  BY <1>1 DEF Whole
<1>7. StartInv'
  BY <1>1, <1>3 DEF StartInv
<1>8. CalledInv'
  BY <1>3, <1>4, <1>5 DEF CalledInv
<1>9. ToolsInv'
  BY <1>2 DEF ToolsInv
<1> QED
  BY <1>6, <1>7, <1>8, <1>9

(* The harness begins a run.                                               *)
LEMMA TurnRuns ==
  ASSUME GroundInv, CourseInv, ex > 0, [Next]_vars, HarnessRuns
  PROVE  Whole(Told0') /\ StartInv' /\ CalledInv' /\ ToolsInv'
<1>1. HarnessNext
  BY DEF HarnessNext
<1>0. /\ stdout \in Seq(Lines) /\ harness' = harness /\ Told0' = Told0 /\ codec' = codec
      /\ harness \in {"claude", "opencode", "pi"}
  BY <1>1, GroundIs, HarnessFrame DEF readVars, Told0
<1>2. Unrun /\ hrun = 0 /\ hpc = "idle" /\ Upto(stdout, 0) /\ Told0 = <<>> /\ ~codec.started
  <2>1. Unrun
    BY RunsIs DEF CourseInv, NotRunInv
  <2> QED
    BY <2>1 DEF Unrun, Spent, GroundInv, RestInv
<1>3. \A i \in DOMAIN stdout : stdout[i].type \notin {"use", "result"} /\ Rank(stdout[i]) <= 1 /\ stdout[i] \in Lines
  <2>1. \A i \in DOMAIN stdout : stdout[i] \in Lines /\ Rank(stdout[i]) <= 0 /\ Rank(stdout[i]) \in 0 .. 5
    BY <1>0, <1>2, RanksOf DEF Upto
  <2>2. \A l \in Lines : l.type \in {"use", "result"} => Rank(l) > 0
    BY DEF Rank
  <2> QED
    BY <2>1, <2>2
<1>4. Upto(stdout, 1) /\ ~Shown("use") /\ ~Shown("result")
  BY <1>3 DEF Upto, Shown
<1> DEFINE Goal == /\ Upto(stdout', 1) /\ ~Shown("use")' /\ ~Shown("result")'
                   /\ \A i \in DOMAIN stdout' : Fits(stdout'[i], Permission)
                   /\ hpc' \in {"idle", "asking"} \/ (hpc' = "running" /\ (harness = "opencode" \/ Shown("start")'))
<1>5. Goal
  <2>1. PICK c \in Inputs :
          \/ UNCHANGED hpc /\ harness = "pi" /\ \E x \in Answer(c, "error") : Writes(<<x>>)
          \/ hpc' = "asking" /\ harness = "pi"
             /\ \E x \in Answer(c, "ok"), y \in Lines : y.type = "request" /\ Writes(<<x, y>>)
          \/ hpc' = "running" /\ ((\E s \in Of("start") : Writes(<<s>>)) \/ (harness = "opencode" /\ stdout' = stdout))
    BY RunsSay DEF GroundInv
  <2>2. \A i \in DOMAIN stdout : Fits(stdout[i], Permission)
    BY <1>3 DEF Fits
  <2>3. ASSUME UNCHANGED hpc, harness = "pi", NEW x \in Answer(c, "error"), Writes(<<x>>) PROVE Goal
    <3>1. x \in Lines /\ x.type = "response" /\ Rank(x) = 0 /\ Fits(x, Permission)
      BY <2>3, RanksOf DEF Answer, Of, Fits
    <3>2. Upto(stdout', 1)
      <4>1. stdout' = Append(stdout, x)
        BY <1>0, <2>3, <3>1, Written
      <4> QED
        BY <1>0, <1>4, <3>1, <4>1, RankedMore
    <3>3. ~Shown("use")' /\ ~Shown("result")'
      BY <1>0, <1>4, <2>3, <3>1, ShownAdds
    <3>4. \A i \in DOMAIN stdout' : Fits(stdout'[i], Permission)
      BY <1>0, <2>2, <2>3, <3>1, FitsAdds
    <3> QED
      BY <1>2, <2>3, <3>2, <3>3, <3>4
  <2>4. ASSUME hpc' = "asking", harness = "pi", NEW x \in Answer(c, "ok"), NEW y \in Lines, y.type = "request",
               Writes(<<x, y>>)
        PROVE  Goal
    <3>1. x \in Lines /\ x.type = "response" /\ Rank(x) = 0 /\ Rank(y) = 0 /\ Fits(x, Permission) /\ Fits(y, Permission)
      BY <2>4, RanksOf DEF Answer, Of, Fits
    <3>2. Upto(stdout', 1)
      <4>1. Append(stdout, x) \in Seq(Lines) /\ Upto(Append(stdout, x), 1)
        BY <1>0, <1>4, <3>1, RankedMore
      <4>2. stdout' = Append(Append(stdout, x), y)
        BY <1>0, <2>4, <3>1, Written
      <4> DEFINE s == Append(stdout, x)
      <4>3. s \in Seq(Lines) /\ Upto(s, 1) /\ stdout' = Append(s, y)
        BY <4>1, <4>2
      <4> HIDE DEF s
      <4> QED
        BY <3>1, <4>3, RankedMore
    <3>3. ~Shown("use")' /\ ~Shown("result")'
      BY <1>0, <1>4, <2>4, <3>1, ShownAdds
    <3>4. \A i \in DOMAIN stdout' : Fits(stdout'[i], Permission)
      BY <1>0, <2>2, <2>4, <3>1, FitsAdds
    <3> QED
      BY <2>4, <3>2, <3>3, <3>4
  <2>5. ASSUME hpc' = "running", NEW s \in Of("start"), Writes(<<s>>) PROVE Goal
    <3>1. s \in Lines /\ s.type = "start" /\ Rank(s) = 1 /\ Fits(s, Permission)
      BY RanksOf DEF Of, Fits
    <3>2. Upto(stdout', 1)
      <4>1. stdout' = Append(stdout, s)
        BY <1>0, <2>5, <3>1, Written
      <4> QED
        BY <1>0, <1>4, <3>1, <4>1, RankedMore
    <3>3. ~Shown("use")' /\ ~Shown("result")' /\ Shown("start")'
      BY <1>0, <1>4, <2>5, <3>1, ShownAdds
    <3>4. \A i \in DOMAIN stdout' : Fits(stdout'[i], Permission)
      BY <1>0, <2>2, <2>5, <3>1, FitsAdds
    <3> QED
      BY <2>5, <3>2, <3>3, <3>4
  <2>6. ASSUME hpc' = "running", harness = "opencode", stdout' = stdout PROVE Goal
    BY <1>4, <2>2, <2>6, ShownRests
  <2> QED
    BY <2>1, <2>3, <2>4, <2>5, <2>6
<1>6. ~Calling'
  BY <1>5 DEF Calling
<1>7. Upto(stdout, 1)'
  BY <1>0, <1>5, RankStays
<1>8. Told0' = <<>> /\ ~Has(Told0, "toolCall")'
  BY <1>0, <1>2 DEF Has
<1>9. Whole(Told0')
  BY <1>8 DEF Whole
<1>10. StartInv'
  BY <1>0, <1>2, <1>5, <1>7, <1>8 DEF StartInv
<1>11. CalledInv'
  <2>1. codec'.called = {}
    BY <1>0, <1>2 DEF Unrun, Spent
  <2> QED
    BY <1>5, <1>6, <1>8, <2>1 DEF CalledInv
<1>12. ToolsInv'
  <2>1. \A i \in DOMAIN stdout' : stdout'[i].type \notin {"use", "result"}
    BY <1>5 DEF Shown
  <2> QED
    BY <2>1 DEF ToolsInv
<1> QED
  BY <1>9, <1>10, <1>11, <1>12

(* The harness goes on with one.                                           *)
LEMMA TurnGoesOn ==
  ASSUME GroundInv, CourseInv, ToolsInv, ex > 0, HarnessNext, ~HarnessRuns, Whole(Told0), StartInv, CalledInv
  PROVE  Whole(Told0') /\ StartInv' /\ CalledInv'
<1>0. /\ harness' = harness /\ Told0' = Told0 /\ codec' = codec /\ ex' = ex /\ stdout \in Seq(Lines)
      /\ hpc = "asking" => harness = "pi"
      /\ (hrun = 0 <=> hpc = "idle") /\ hrun \in {0, ex} /\ (hrun # 0 => Upto(stdout, Reached))
  BY GroundIs, HarnessFrame DEF readVars, Told0, CourseInv, OrderInv, GroundInv, RestInv
<1>1. RunWaits \/ RunBegins \/ RunCalls \/ RunReports \/ RunStops
  BY RunMoves DEF CourseInv
<1>2. \A k : Has(Told0, k)' <=> Has(Told0, k)
  BY <1>0 DEF Has
<1>3. body' = body => Uses' = Uses
  BY <1>0 DEF Uses
<1>4. Upto(stdout, 1)' <=> Upto(stdout', 1)
  BY <1>0, RankStays
<1>5. hpc \in {"idle", "asking", "running"} => Upto(stdout, 1) \/ hpc = "idle"
  <2>1. hpc \in {"asking", "running"} => Reached <= 1 /\ Reached \in 0 .. 3
    BY DEF Reached
  <2>2. \A i \in DOMAIN stdout : Rank(stdout[i]) \in 0 .. 5
    BY <1>0, RanksOf
  <2>3. hpc \in {"asking", "running"} => Upto(stdout, Reached)
    BY <1>0
  <2>4. hpc \in {"asking", "running"} => Upto(stdout, 1)
    BY <2>1, <2>2, <2>3 DEF Upto
  <2> QED
    BY <2>4
(* Up to a run's call nothing of it shows. *)
<1>6. Upto(stdout, 1) => ~Shown("use") /\ ~Shown("result")
  <2>1. \A l \in Lines : l.type \in {"use", "result"} => Rank(l) > 1 /\ Rank(l) \in 0 .. 5
    BY RanksOf DEF Rank
  <2>2. \A i \in DOMAIN stdout : stdout[i] \in Lines
    BY <1>0
  <2> QED
    BY <2>1, <2>2 DEF Upto, Shown
<1>7. CASE RunWaits
  <2>1. Calling' <=> Calling
    BY <1>7 DEF RunWaits, Calling, Lasts
  <2>2. StartInv'
    BY <1>0, <1>2, <1>4, <1>7 DEF StartInv, RunWaits, Lasts
  <2>3. CalledInv'
    BY <1>0, <1>2, <1>3, <1>7, <2>1 DEF CalledInv, RunWaits, Lasts
  <2> QED
    BY <1>0, <2>2, <2>3
<1>8. CASE RunBegins
  <2>1. Told0 = <<>> /\ ~Has(Told0, "toolCall")
    BY <1>8, HasOne DEF RunBegins, StartInv
  <2>2. ~Calling'
    BY <1>5, <1>6, <1>8 DEF RunBegins, Calling, Lasts
  <2>3. StartInv'
    BY <1>0, <1>8, <2>1 DEF StartInv, RunBegins
  <2>4. CalledInv'
    BY <1>0, <1>2, <1>8, <2>1, <2>2 DEF CalledInv, RunBegins
  <2> QED
    BY <1>0, <2>3, <2>4
<1>9. CASE RunCalls
  <2>1. ~Has(Told0, "toolCall") /\ (harness = "opencode" => codec.called = {})
    BY <1>9 DEF RunCalls, CalledInv
  <2>2. StartInv'
    BY <1>0, <1>2, <1>9 DEF StartInv, RunCalls, Lasts
  <2>3. CalledInv'
    BY <1>0, <1>2, <1>9, <2>1 DEF CalledInv, RunCalls
  <2> QED
    BY <1>0, <2>2, <2>3
<1>10. CASE RunReports
  <2>1. Calling
    BY <1>10 DEF RunReports, Calling
  <2>2. StartInv'
    BY <1>0, <1>2, <1>10 DEF StartInv, RunReports, Lasts
  <2>3. CalledInv'
    BY <1>0, <1>2, <1>3, <1>10, <2>1 DEF CalledInv, RunReports, Lasts
  <2> QED
    BY <1>0, <2>2, <2>3
<1>11. CASE RunStops
  <2>1. Calling' => Calling
    BY <1>11 DEF RunStops, Calling, Lasts
  <2>2. StartInv'
    <3>1. CASE stdout' = stdout
      BY <1>0, <1>2, <1>4, <1>11, <3>1 DEF StartInv, RunStops, Lasts
    <3>2. CASE hpc \notin {"idle", "asking"}
      BY <1>0, <1>2, <1>11, <3>2 DEF StartInv, RunStops, Lasts
    <3> QED
      BY <1>11, <3>1, <3>2 DEF RunStops
  <2>3. CalledInv'
    BY <1>0, <1>2, <1>3, <1>11, <2>1 DEF CalledInv, RunStops, Lasts
  <2> QED
    BY <1>0, <2>2, <2>3
<1> QED
  BY <1>1, <1>7, <1>8, <1>9, <1>10, <1>11

(* An exchange ends with nothing under way, or with the session or its     *)
(* harness.                                                                *)
LEMMA EngagedStays ==
  ASSUME GroundInv, CourseInv, [Next]_vars, Engaged', ex' > 0
  PROVE  Engaged \/ Unrun'
<1>1. CASE Prompt
  BY <1>1, PromptIs DEF Engaged
<1>2. CASE ~Prompt /\ ExchangeOver
  <2>1. closing = "no" /\ ~over
    BY <1>2 DEF ExchangeOver, Engaged
  <2> QED
    BY <1>2, <2>1, OverRests DEF CourseInv
<1>3. CASE ~Prompt /\ ~ExchangeOver
  <2>1. ASSUME prompting = "idle" PROVE prompting' = "idle"
    <3>1. CASE Prompting
      BY <1>3, <2>1, <3>1 DEF Prompting, PromptNext, PromptSets, PromptWaits, PromptSends, Prompted
    <3>2. CASE ~Prompting
      BY <2>1, <3>2, TurnStep, HarnessFrame DEF GroundInv, AdapterInv, turnVars, Opened, Noted, Closed, Reading,
         Begun, Waiting
    <3> QED
      BY <3>1, <3>2
  <2> QED
    BY <2>1, ClosingStays DEF Engaged
<1> QED
  BY <1>1, <1>2, <1>3

(* What codec notes of a turn but for what it reads of it.                 *)
LEMMA NotesRest ==
  ASSUME GroundInv, CourseInv, [Next]_vars, ~Dispatch, ex > 0
  PROVE  \/ Unrun
         \/ codec'.called = codec.called /\ codec'.started = codec.started /\ codec'.responds = codec.responds
<1>1. CASE codec' = codec
  BY <1>1
<1>2. CASE Prompting /\ PromptSends /\ CallSends /\ closing = "no" /\ call[PromptCall(ex)] = "none"
  <2>1. prompting = "send" /\ harness \in {"opencode", "pi"}
    BY <1>2 DEF PromptSends, CallSends
  <2>2. harness = "opencode" => NotRun
    BY <1>2 DEF NotRun, Unwritten
  <2>3. harness = "pi" => NotRun
    BY <1>2, GroundIs DEF NotRun, CourseInv, AskInv, Unwritten
  <2> QED
    BY <2>1, <2>2, <2>3 DEF CourseInv, NotRunInv
<1>3. ASSUME NEW c \in Calls, Begun(c)
      PROVE  codec'.called = codec.called /\ codec'.started = codec.started /\ codec'.responds = codec.responds
  <2>1. codec' = Encode(harness, codec, c) /\ c[1] # "prompt"
    BY <1>3 DEF Begun, Begin, Handshake
  <2> QED
    BY <2>1, Encodes DEF GroundInv, FramesInv
<1> QED
  BY <1>1, <1>2, <1>3, CodecMoves DEF GroundInv

LEMMA TurnKept ==
  ASSUME GroundInv, GroundInv', CourseInv, ToolsInv, TurnInv, [Next]_vars
  PROVE  ToolsInv' /\ TurnInv'
<1> DEFINE Told == Whole(Told0') /\ StartInv' /\ CalledInv'
<1>0. stdout' \in Seq(Lines) /\ stdout \in Seq(Lines) /\ (hrun' = 0 => hpc' = "idle")
  BY GroundIs DEF GroundInv, RestInv, AdapterInv, LineInv, OutputInv
<1>1. Unrun' => Told /\ ToolsInv'
  BY <1>0, UnrunTurn DEF Unrun, Spent
<1>2. SUFFICES ASSUME ex' > 0 PROVE ToolsInv' /\ (Engaged' => Told)
  BY DEF ToolsInv, TurnInv
<1>3. CASE Prompt
  <2>1. ~HarnessNext
    BY <1>3, PromptIs, HarnessFrame
  <2>2. Unrun'
    BY <1>3, <2>1, PromptQuiet, UnrunRests DEF CourseInv
  <2> QED
    BY <1>1, <2>2
<1>4. CASE ~Prompt
  <2>1. ex' = ex /\ harness' = harness
    BY <1>4, ComesOf
  <2>2. Engaged' => Engaged \/ Unrun'
    BY <1>2, EngagedStays
  <2>3. CASE HarnessRuns
    <3>1. Told /\ ToolsInv'
      BY <1>2, <2>1, <2>3, TurnRuns
    <3> QED
      BY <3>1
  <2>4. CASE HarnessNext /\ ~HarnessRuns
    <3>1. ToolsInv'
      BY <1>2, <2>1, <2>4, RunMoves DEF CourseInv
    <3>2. Engaged => Told
      BY <1>2, <2>1, <2>4, TurnGoesOn DEF TurnInv
    <3> QED
      BY <1>1, <2>2, <3>1, <3>2
  <2>5. CASE ~HarnessNext
    <3>1. UNCHANGED harnessVars /\ UNCHANGED body /\ (stdout' = stdout \/ Dispatch)
      BY <2>5, HarnessRests, OutputMoves DEF GroundInv
    <3>2. Uses' = Uses /\ hpc' = hpc
      BY <2>1, <3>1 DEF Uses, harnessVars
    <3>3. ToolsInv'
      <4>1. CASE stdout' = stdout
        BY <1>2, <2>1, <3>2, <4>1 DEF ToolsInv
      <4>2. CASE Dispatch
        <5>1. stdout # <<>> /\ stdout' = Tail(stdout)
          BY <4>2 DEF Dispatch
        <5>2. \A i \in DOMAIN stdout' : i + 1 \in DOMAIN stdout /\ stdout'[i] = stdout[i + 1]
          BY <1>0, <5>1, Rest
        <5> QED
          BY <1>2, <2>1, <3>2, <5>2 DEF ToolsInv
      <4> QED
        BY <3>1, <4>1, <4>2
    <3>4. ASSUME Engaged, Dispatch PROVE Told
      <4>1. /\ stdout[1] \in Lines /\ Rank(stdout[1]) \in 0 .. 5 /\ (Upto(stdout, 1) => Upto(stdout', 1))
            /\ \A t : Shown(t) <=> Shown(t)' \/ stdout[1].type = t
        BY <1>2, <2>1, <3>1, <3>4, ReadAt, RanksOf
      <4>2. Whole(Told0) /\ StartInv /\ CalledInv
        BY <1>2, <2>1, <3>4 DEF TurnInv
      <4>3. CASE Rank(stdout[1]) > 0
        <5>1. CASE harness = "opencode"
          BY <1>2, <2>1, <3>1, <3>4, <4>2, <4>3, <5>1, OpenCodeReads
        <5>2. CASE harness # "opencode"
          BY <1>2, <2>1, <3>1, <3>4, <4>2, <4>3, <5>2, PlainReads
        <5> QED
          BY <5>1, <5>2
      <4>4. CASE Rank(stdout[1]) = 0
        <5>1. Told0' = Told0 /\ CodecRests
          BY <3>4, <4>1, <4>4, IdleRank, QuietRead DEF GroundInv, FramesInv
        <5>2. Lasts("start") /\ Lasts("use") /\ Lasts("result")
          <6>1. stdout[1].type \notin {"start", "use", "result"}
            BY <4>4 DEF Rank
          <6> QED
            BY <4>1, <6>1 DEF Lasts
        <5> QED
          BY <2>1, <3>2, <4>1, <4>2, <5>1, <5>2, TurnRests DEF CodecRests
      <4> QED
        BY <4>1, <4>3, <4>4
    <3>5. ASSUME Engaged, ~Dispatch, Engaged' PROVE Told
      <4>1. CASE ExchangeOver
        <5>1. closing = "no" /\ ~over
          BY <3>5, <4>1 DEF ExchangeOver, Engaged
        <5> QED
          BY <1>1, <1>2, <1>4, <4>1, <5>1, OverRests DEF CourseInv
      <4>2. CASE Unrun
        BY <1>1, <2>5, <4>2, UnrunRests
      <4>3. CASE ~ExchangeOver /\ ~Unrun
        <5>1. Told0' = Told0
          BY <3>5, <4>3, ToldRests
        <5>2. codec'.called = codec.called /\ codec'.started = codec.started /\ codec'.responds = codec.responds
          BY <1>2, <2>1, <3>5, <4>3, NotesRest
        <5>3. stdout' = stdout
          BY <3>1, <3>5
        <5>4. Lasts("start") /\ Lasts("use") /\ Lasts("result")
          BY <5>3, ShownRests DEF Lasts
        <5>5. Whole(Told0) /\ StartInv /\ CalledInv
          BY <1>2, <2>1, <3>5 DEF TurnInv
        <5> QED
          BY <2>1, <3>2, <5>1, <5>2, <5>3, <5>4, <5>5, TurnRests
      <4> QED
        BY <4>1, <4>2, <4>3
    <3> QED
      BY <1>1, <2>2, <3>3, <3>4, <3>5
  <2> QED
    BY <2>3, <2>4, <2>5
<1> QED
  BY <1>3, <1>4

LEMMA TurnStays == Spec => [](GroundInv /\ CourseInv /\ ToolsInv /\ TurnInv)
<1>1. Init => ToolsInv /\ TurnInv
  BY DEF Init, ToolsInv, TurnInv
<1> QED
  BY <1>1, TurnKept, CourseStays, PTL DEF Spec

LEMMA WholeFirst ==
  ASSUME NEW s \in Seq(EventType), NEW t \in Seq(EventType), Whole(s \o t)
  PROVE  Whole(s)
<1>1. /\ Len(s \o t) = Len(s) + Len(t) /\ Len(s) \in Nat /\ Len(t) \in Nat /\ DOMAIN s = 1 .. Len(s)
      /\ \A i \in DOMAIN s : i \in DOMAIN (s \o t) /\ (s \o t)[i] = s[i]
  BY Adds
<1> SUFFICES ASSUME NEW i \in DOMAIN s
             PROVE  /\ (s[i].kind = "started") <=> (i = 1)
                    /\ s[i].kind = "ended" => i = Len(s)
                    /\ s[i].kind = "toolResult" => \E j \in 1 .. i : s[j].kind = "toolCall"
                    /\ \A j \in DOMAIN s : s[i].kind = "toolCall" /\ s[j].kind = "toolCall" => i = j
  BY DEF Whole
<1>2. (s[i].kind = "started") <=> (i = 1)
  BY <1>1 DEF Whole
<1>3. ASSUME s[i].kind = "ended" PROVE i = Len(s)
  <2>1. i = Len(s) + Len(t)
    BY <1>1, <1>3 DEF Whole
  <2>2. i \in Nat /\ i <= Len(s)
    <3>1. i \in 1 .. Len(s)
      BY <1>1
    <3> QED
      BY <1>1, <3>1
  <2>3. \A a, b, k \in Nat : k = a + b /\ k <= a => k = a
    OBVIOUS
  <2> QED
    BY <1>1, <2>1, <2>2, <2>3
<1>4. ASSUME s[i].kind = "toolResult" PROVE \E j \in 1 .. i : s[j].kind = "toolCall"
  <2>1. PICK j \in 1 .. i : (s \o t)[j].kind = "toolCall"
    BY <1>1, <1>4 DEF Whole
  <2>2. j \in DOMAIN s
    BY <1>1, <2>1
  <2> QED
    BY <1>1, <2>1, <2>2
<1>5. \A j \in DOMAIN s : s[i].kind = "toolCall" /\ s[j].kind = "toolCall" => i = j
  BY <1>1 DEF Whole
<1> QED
  BY <1>2, <1>3, <1>4, <1>5

(* The events of an exchange are a whole turn: its start first, one tool   *)
(* call at most and before its result, nothing after the end, and none     *)
(* between exchanges, whatever the harness replays, repeats or refuses     *)
(* (claude/codec.go, opencode/codec.go and pi/codec.go).                   *)
THEOREM TurnCorrect == Spec => []TurnIsWhole
<1>1. GroundInv /\ CourseInv /\ TurnInv => TurnIsWhole
  <2> SUFFICES ASSUME GroundInv, CourseInv, TurnInv PROVE TurnIsWhole
    OBVIOUS
  <2>1. ASSUME Ready, closing = "no" PROVE seen = <<>>
    <3>1. Told0 = <<>>
      <4>1. CASE ex = 0
        BY <4>1 DEF GroundInv, LoadInv, Unprompted
      <4>2. CASE ex > 0
        BY <2>1, <4>2 DEF Ready, CourseInv, BetweenInv, Between, Unrun
      <4> QED
        BY <4>1, <4>2, GroundIs
    <3> QED
      BY <3>1, ToldNothing
  <2>2. ASSUME prompting # "idle" PROVE Whole(seen)
    <3>1. Whole(Told0)
      BY <2>2, GroundIs DEF TurnInv, Engaged
    <3> QED
      BY <3>1, WholeFirst DEF Told0, GroundInv, FramesInv, EventsInv
  <2> QED
    BY <2>1, <2>2 DEF TurnIsWhole, Whole, Kind
<1> QED
  BY <1>1, TurnStays, PTL
(***************************************************************************)
(* The tool a structured response is of.                                   *)
(***************************************************************************)
(* What the prompt sets is set until the next.                             *)
SetInv ==
    /\ harness # "pi" /\ ex > 0 /\ prompting # "schema" => respond = Wants[ex]
    /\ harness = "pi" /\ ex > 0 => schema = Wants[ex]

(* The call of a run that has not come to it was not asked, and the call   *)
(* of this one is accepted for the tool of its prompt alone.  The prompt   *)
(* sets the tool before the run, so a call accepted is one of that tool.   *)
Unasked(r) == at[r] = "none" /\ result[r] = None /\ ~Among(stdout, Asking(r))
Unused == NotRun \/ hpc \in {"asking", "running"}
ComesLater(r) == r[2] > ex \/ (r[2] = ex /\ Unused)
LaterInv == harness # "pi" => \A r \in Requests : r[1] = "call" /\ ComesLater(r) => Unasked(r)
Call == <<"call", ex>>
AcceptInv == harness # "pi" /\ ex > 0 /\ Call \in Requests /\ result[Call] = Accepted => Uses = Wants[ex]

(* Pi's run asks for its schema once, before it goes on, and its answer is *)
(* the tool of its prompt: while an answer is under way the run waits for  *)
(* it, so it learns no tool of another prompt.                             *)
Answering(r) == {<<"answer", r>>}
UnderWay(r) == Among(stdout, Asking(r)) \/ at[r] \in {"begun", "answered"} \/ Among(stdin, Answering(r))
DialogInv(r) ==
    /\ at[r] \in {"none", "begun", "answered", "gone"}
    /\ Sole(stdout, Asking(r)) /\ (Among(stdout, Asking(r)) => at[r] = "none")
    /\ Sole(stdin, Answering(r)) /\ (Among(stdin, Answering(r)) => at[r] = "gone")
    /\ alive /\ UnderWay(r) => hpc = "asking" /\ r = <<"list", ex>>
    /\ r[2] > ex \/ (r[2] = ex /\ PromptCall(ex) \notin told) => Unasked(r)
    /\ r[2] = ex => result[r] \in {None, Wants[ex]}
LearnsInv ==
    /\ hpc = "running" => known \in {None, Wants[ex]}
    /\ hpc \in {"using", "used"} /\ IsRespond(Uses) => Uses = Wants[ex]
PiInv == harness = "pi" => LearnsInv /\ \A r \in Requests : IsList(r) => DialogInv(r)

(* The reports and the responses that say the call was accepted.           *)
Accepting == {l \in Lines : l.type = "result" /\ IsRespond(l.tool) /\ l.text = Accepted}
StructInv ==
    ex > 0 => /\ \A i \in DOMAIN Told0 : Told0[i].kind = "structured" => Told0[i].tool = Wants[ex]
              /\ Among(stdout, Accepting) => Uses = Wants[ex]

LEMMA RequestSaid ==
  ASSUME HeldInv, NEW l \in Lines, Said(l)
  PROVE  LET q == Decode(harness, codec, l).request IN q = <<>> \/ (l.type = "request" /\ q = l.request)
<1>1. \A c, events : Frame(c, events).request = <<>>
  BY FrameIs
<1>2. l.type = "request" => Decode(harness, codec, l).request = l.request
  BY RequestFrameIs DEF Decode, ClaudeDecode, OpenCodeDecode, PiDecode, HeldInv, StepType, Harnesses
<1>3. l.type = "response" => Decode(harness, codec, l).request = <<>>
  <2>1. SUFFICES ASSUME l.type = "response"
                 PROVE \E c, events : Decode(harness, codec, l) = ResponseFrame(c, l, events)
    BY ResponseFrameIs
  <2>2. CASE harness = "claude"
    BY <2>1, <2>2 DEF Decode, ClaudeDecode
  <2>3. CASE harness = "opencode"
    <3>1. CASE l.call \in codec.prompts
      BY <2>1, <2>3, <3>1 DEF Decode, OpenCodeDecode, OpenCodeEnd
    <3>2. CASE l.call \notin codec.prompts
      BY <2>1, <2>3, <3>2 DEF Decode, OpenCodeDecode
    <3> QED
      BY <3>1, <3>2
  <2>4. CASE harness = "pi"
    BY <2>1, <2>4 DEF Decode, PiDecode
  <2> QED
    BY <2>2, <2>3, <2>4 DEF HeldInv, StepType, Harnesses
<1>4. l.type \notin {"request", "response"} => Decode(harness, codec, l).request = <<>>
  <2>1. SUFFICES ASSUME l.type \notin {"request", "response"}
                 PROVE \E c, events : Decode(harness, codec, l) = Frame(c, events)
    BY <1>1
  <2>2. CASE harness = "claude"
    <3>1. l.type \in {"start", "limit", "use", "result", "end"}
      BY <2>1, <2>2 DEF Lines, LineTypes, Said
    <3>2. Decode(harness, codec, l) = ClaudeNormalize(codec, l)
      BY <2>2, <3>1 DEF Decode, ClaudeDecode
    <3> QED
      BY <3>1, <3>2 DEF ClaudeNormalize, ClaudeToolCalls, ClaudeToolResults, ClaudeEnd
  <2>3. CASE harness = "opencode"
    <3>1. Decode(harness, codec, l) = OpenCodeNotification(codec, l)
      BY <2>1, <2>3 DEF Decode, OpenCodeDecode
    <3> QED
      BY <3>1 DEF OpenCodeNotification
  <2>4. CASE harness = "pi"
    BY <2>1, <2>4 DEF Decode, PiDecode
  <2> QED
    BY <2>2, <2>3, <2>4 DEF HeldInv, StepType, Harnesses
<1> QED
  BY <1>2, <1>3, <1>4

LEMMA NoneAdded ==
  ASSUME NEW s, NEW t, NEW P,
         \A i \in DOMAIN s : i \in DOMAIN t /\ t[i] = s[i],
         \A i \in DOMAIN t : i \in DOMAIN s \/ t[i] \notin P
  PROVE  (Among(t, P) <=> Among(s, P)) /\ (Sole(s, P) => Sole(t, P))
<1>1. Among(t, P) <=> Among(s, P)
  BY DEF Among
<1>2. Sole(s, P) => Sole(t, P)
  BY DEF Sole
<1> QED
  BY <1>1, <1>2

(* The requests and the reports the harness adds.                          *)
ShowsIn(l) ==
    /\ l.type = "result" => /\ HarnessReports /\ l.tool = body[<<"call", hrun>>]
                            /\ harness # "pi" => l.text = result[<<"call", hrun>>]
    /\ l.type = "request" =>
         \/ HarnessRuns /\ harness = "pi" /\ hpc' = "asking" /\ l.request = <<"list", hrun'>>
         \/ harness # "pi" /\ IsList(l.request)
         \/ hpc = "running" /\ hpc' # "running" /\ l.request = <<"call", hrun>>

LEMMA HarnessShows ==
  ASSUME AdapterInv, HarnessNext
  PROVE  /\ \A i \in DOMAIN stdout : i \in DOMAIN stdout' /\ stdout'[i] = stdout[i]
         /\ \A i \in DOMAIN stdout' : i \in DOMAIN stdout \/ ShowsIn(stdout'[i])
<1> DEFINE Goal == /\ \A i \in DOMAIN stdout : i \in DOMAIN stdout' /\ stdout'[i] = stdout[i]
                   /\ \A i \in DOMAIN stdout' : i \in DOMAIN stdout \/ ShowsIn(stdout'[i])
<1>0. stdout \in Seq(Lines)
  BY DEF AdapterInv, LineInv, OutputInv
<1>1. ASSUME stdout' = stdout PROVE Goal
  BY <1>0, <1>1
<1>2. ASSUME NEW x \in Lines, Writes(<<x>>), ShowsIn(x) PROVE Goal
  BY <1>0, <1>2, Adds1
<1>3. ASSUME NEW x \in Lines, NEW y \in Lines, Writes(<<x, y>>), ShowsIn(x), ShowsIn(y) PROVE Goal
  BY <1>0, <1>3, Adds2
<1>4. ASSUME NEW x \in Lines, NEW y \in Lines, NEW z \in Lines, Writes(<<x, y, z>>),
             ShowsIn(x), ShowsIn(y), ShowsIn(z)
      PROVE  Goal
  <2>1. \A i \in DOMAIN stdout : i \in DOMAIN stdout' /\ stdout'[i] = stdout[i]
    BY <1>0, <1>4, Adds3
  <2>2. ASSUME NEW i \in DOMAIN stdout' PROVE i \in DOMAIN stdout \/ stdout'[i] \in {x, y, z}
    BY <1>0, <1>4, Adds3
  <2> QED
    BY <1>4, <2>1, <2>2
<1>5. /\ \A t \in {"start", "use", "end", "limit", "message"} : \A l \in Of(t) : l \in Lines /\ ShowsIn(l)
      /\ \A c, how : \A l \in Answer(c, how) : l \in Lines /\ ShowsIn(l)
  BY DEF Of, Answer, ShowsIn
<1> SUFFICES Goal
  OBVIOUS
<1> HIDE DEF Goal
<1>6. CASE HarnessAnswers
  <2>1. PICK c \in Calls, how \in Hows :
          \E x \in Answer(c, how) : (\E s \in Of("start") : Writes(<<s, x>>)) \/ Writes(<<x>>)
    BY <1>6, AnswersSay
  <2> QED
    BY <1>2, <1>3, <1>5, <2>1
<1>7. CASE HarnessRuns
  <2>1. PICK c \in Inputs :
           \/ \E x \in Answer(c, "error") : Writes(<<x>>)
           \/ /\ harness = "pi" /\ hpc' = "asking" /\ hrun' = c[2]
              /\ \E x \in Answer(c, "ok"), y \in Lines :
                   y.type = "request" /\ y.request = <<"list", c[2]>> /\ Writes(<<x, y>>)
           \/ (\E s \in Of("start") : Writes(<<s>>)) \/ stdout' = stdout
    BY <1>7, RunsSay
  <2>2. \A y \in Lines : y.type = "request" /\ y.request = <<"list", c[2]>> /\ harness = "pi" /\ hpc' = "asking"
                         /\ hrun' = c[2] => ShowsIn(y)
    BY <1>7 DEF ShowsIn
  <2> QED
    BY <1>1, <1>2, <1>3, <1>5, <2>1, <2>2
<1>8. CASE HarnessStops \/ HarnessExits
  BY <1>1, <1>8 DEF HarnessStops, HarnessExits
<1>9. ASSUME NEW r \in Requests, HarnessHears(r) \/ HarnessFetches(r) PROVE Goal
  <2>1. stdout' = stdout \/ \E s \in Of("start") : Writes(<<s>>)
    <3>1. CASE HarnessHears(r)
      <4>1. Line("start") \in Of("start") /\ (Writes(<<>>) => stdout' = stdout)
        BY <1>0, LinesOf DEF LineTypes, Writes
      <4>2. Writes(<<Line("start")>>) \/ Writes(<<>>)
        BY <3>1 DEF HarnessHears
      <4> QED
        BY <4>1, <4>2
    <3>2. CASE HarnessFetches(r)
      BY <3>2 DEF HarnessFetches
    <3> QED
      BY <1>9, <3>1, <3>2
  <2> QED
    BY <1>1, <1>2, <1>5, <2>1
<1>10. ASSUME NEW r \in Requests, HarnessLists(r) PROVE Goal
  <2>1. harness # "pi" /\ IsList(r) /\ (stdout' = stdout \/ \E x \in Asking(r) : Writes(<<x>>))
    BY <1>10, ListsSay
  <2>2. \A x \in Asking(r) : x \in Lines /\ ShowsIn(x)
    BY <2>1 DEF Asking, ShowsIn
  <2> QED
    BY <1>1, <1>2, <2>1, <2>2
<1>11. ASSUME NEW tool \in RespondTools \union {Tool, Permission}, HarnessUses(tool) PROVE Goal
  <2>1. PICK u \in Bears("use", tool), v \in Bears("use", tool), q \in Asking(<<"call", hrun>>) :
           /\ hpc = "running" /\ hpc' # "running"
           /\ Writes(<<u>>) \/ Writes(<<q>>) \/ Writes(<<u, q>>) \/ Writes(<<u, v>>)
    BY <1>11, UsesSay
  <2>2. u \in Lines /\ ShowsIn(u) /\ v \in Lines /\ ShowsIn(v) /\ q \in Lines /\ ShowsIn(q)
    BY <1>5, <2>1 DEF Bears, Asking, Of, ShowsIn
  <2> QED
    BY <1>2, <1>3, <2>1, <2>2
<1>12. CASE HarnessReports
  <2>1. \/ stdout' = stdout
        \/ \E l \in Bears("result", body[<<"call", hrun>>]) :
             Writes(<<l>>) /\ (harness # "pi" => l.text = result[<<"call", hrun>>])
    BY <1>12, ReportsSay
  <2>2. \A l \in Bears("result", body[<<"call", hrun>>]) :
          l \in Lines /\ ((harness # "pi" => l.text = result[<<"call", hrun>>]) => ShowsIn(l))
    BY <1>12 DEF Bears, Of, ShowsIn
  <2> QED
    BY <1>1, <1>2, <2>1, <2>2
<1>13. CASE HarnessEnds
  <2>1. PICK e \in Of("end"), m \in Of("limit"), n \in Of("message") :
              \/ Writes(<<e>>) \/ Writes(<<m, e>>)
              \/ \E c, how : \E x \in Answer(c, how) : Writes(<<x>>)
              \/ Writes(<<n, e>>)
              \/ \E c, how : \E x \in Answer(c, how) : Writes(<<n, e, x>>)
    BY <1>13, EndsSay
  <2>2. e \in Lines /\ ShowsIn(e) /\ m \in Lines /\ ShowsIn(m) /\ n \in Lines /\ ShowsIn(n)
    BY <1>5
  <2> QED
    BY <1>2, <1>3, <1>4, <1>5, <2>1, <2>2
<1> QED
  BY <1>6, <1>7, <1>8, <1>9, <1>10, <1>11, <1>12, <1>13 DEF HarnessNext

(***************************************************************************)
(* The requests, one at a time.                                            *)
(***************************************************************************)
LEMMA AnswerMoves ==
  ASSUME AdapterInv, RestInv, [Next]_vars, NEW r \in Requests, ~ReplyNext(r)
  PROVE  /\ Among(stdin', Answering(r)) => Among(stdin, Answering(r))
         /\ Sole(stdin, Answering(r)) => Sole(stdin', Answering(r))
<1>0. stdin \in Seq(Inputs)
  BY DEF AdapterInv, LineInv, InputInv
<1>1. CASE stdin' = stdin
  BY <1>1
<1>2. CASE stdin' = <<>>
  BY <1>2, NoneAmong
<1>3. CASE Taking
  BY <1>0, <1>3, FewerAmong DEF Taking
<1>4. ASSUME NEW line \in Inputs, line # <<"answer", r>>, stdin' = Append(stdin, line)
      PROVE  /\ Among(stdin', Answering(r)) => Among(stdin, Answering(r))
             /\ Sole(stdin, Answering(r)) => Sole(stdin', Answering(r))
  <2>1. line \notin Answering(r)
    BY <1>4 DEF Answering
  <2> QED
    BY <1>0, <1>4, <2>1, MoreAmong
<1>5. CASE OtherWritten
  <2>1. PICK line : Notify(line) /\ (\/ \E n \in 1 .. ex : line = <<"stop", n>>
                                     \/ \E q \in Requests : ReplyNext(q) /\ line = <<"answer", q>>)
    BY <1>5 DEF OtherWritten, Noted
  <2>2. line # <<"answer", r>> /\ line \in Inputs
    <3>1. ex \in Nat
      BY WantsAre DEF AdapterInv, PromptInv, ExchangeInv
    <3> QED
      BY <2>1, <3>1 DEF Inputs
  <2> QED
    BY <1>1, <1>4, <2>1, <2>2 DEF Notify
<1>6. CASE MessageWritten
  BY <1>4, <1>6 DEF MessageWritten
<1>7. ASSUME NEW c \in Calls, CallWritten(c)
      PROVE  /\ Among(stdin', Answering(r)) => Among(stdin, Answering(r))
             /\ Sole(stdin, Answering(r)) => Sole(stdin', Answering(r))
  <2>1. c \in Inputs /\ c # <<"answer", r>>
    BY CallsAssumption DEF Inputs
  <2> QED
    BY <1>4, <1>7, <2>1 DEF CallWritten
<1> QED
  BY <1>1, <1>2, <1>3, <1>5, <1>6, <1>7, InputsMove

(* An answer changes as somebody handles the request it is to.             *)
LEMMA ResultMoves ==
  ASSUME BridgeInv, [Next]_vars, NEW r \in Requests, result'[r] # result[r]
  PROVE  at[r] # "none" /\ HandlerNext(r)
<1>1. result' # result
  OBVIOUS
<1>2. ASSUME NEW q \in Requests, HandlerNext(q)
      PROVE  at[q] # "none" /\ (result' = result \/ \E v : result' = [result EXCEPT ![q] = v])
  <2>1. CASE ListArrives(q) \/ ListReads(q) \/ ListAnswers(q)
    BY <2>1 DEF ListArrives, Arrives, Delivered, Served, ListReads, ListAnswers, HandOver
  <2>2. CASE Respond(q) \/ RunTool(q)
    BY <2>2 DEF Respond, RunTool, HandleTool, AnswerCall, Runs, Arrives, Delivered, Served, Answered
  <2>3. CASE TakeRun(q) \/ GiveUp(q)
    BY <2>3 DEF TakeRun, GiveUp, InHand, Answered
  <2>4. CASE AnswerAtOnce(q) \/ ToolReturns(q)
    BY <2>4 DEF AnswerAtOnce, Permit, AnswerPermission, AnswerExchange, Answered, ToolReturns
  <2> QED
    BY <1>2, <2>1, <2>2, <2>3, <2>4 DEF HandlerNext, RequestNext
<1>3. ~HarnessNext
  BY <1>1, HarnessFrame
<1>4. ~(OpenNext \/ CloseNext)
  BY <1>1 DEF OpenNext, KeepFiles, Opens, OpenFails, HandshakeCalls, HandshakeGoesOn, CloseNext, Close, CloseBegins,
     ClientClosed, CloseReturns, clientVars, answerVars
<1>5. ~(PromptNext \/ CancelNext)
  BY <1>1 DEF PromptNext, Prompt, PromptSets, PromptWaits, PromptSends, Prompted, ExchangeOver,
     CancelNext, Cancel, CancelGoesOn, CancelOver, clientVars, answerVars
<1>6. ~\E c \in Calls : GivesUp(c) \/ CallNext(c)
  BY <1>1 DEF GivesUp, Forget, CallNext, WriteCall, Return, answerVars
<1>7. ~ReaderNext /\ ~\E q \in Requests : ReplyNext(q)
  BY <1>1 DEF ReaderNext, Dispatch, Resolve, Shutdown, EventsClose, answerVars, ReplyNext, Reply
<1>8. ~(Terminated \/ UNCHANGED vars)
  BY <1>1 DEF Terminated, vars, clientVars, answerVars
<1>9. PICK q \in Requests : HandlerNext(q)
  BY <1>3, <1>4, <1>5, <1>6, <1>7, <1>8 DEF Next
<1>10. q = r
  BY <1>2, <1>9 DEF BridgeInv
<1> QED
  BY <1>2, <1>9, <1>10

(* A request is not asked until the harness asks it.                       *)
LEMMA UnaskedStays ==
  ASSUME GroundInv, [Next]_vars, NEW r \in Requests, Unasked(r), harness = "pi" \/ ~IsList(r),
         ~(HarnessNext /\ hpc = "running" /\ hpc' # "running" /\ r = <<"call", hrun>>),
         ~(HarnessRuns /\ harness = "pi" /\ hpc' = "asking" /\ r = <<"list", hrun'>>)
  PROVE  Unasked(r)'
<1>0. at[r] = "none" /\ result[r] = None /\ ~Among(stdout, Asking(r)) /\ stdout \in Seq(Lines) /\ BridgeInv
  BY GroundIs DEF Unasked, GroundInv, AdapterInv
<1>1. result'[r] = None
  BY <1>0, ResultMoves
<1>2. CASE HarnessNext
  <2>1. ~Among(stdout', Asking(r))
    <3>1. /\ \A i \in DOMAIN stdout : i \in DOMAIN stdout' /\ stdout'[i] = stdout[i]
          /\ \A i \in DOMAIN stdout' : i \in DOMAIN stdout \/ ShowsIn(stdout'[i])
      BY <1>2, HarnessShows DEF GroundInv
    <3>2. \A l \in Asking(r) : ~ShowsIn(l)
      BY <1>2 DEF ShowsIn, Asking
    <3>3. \A i \in DOMAIN stdout' : i \in DOMAIN stdout \/ stdout'[i] \notin Asking(r)
      BY <3>1, <3>2
    <3> QED
      BY <1>0, <3>1, <3>3, NoneAdded
  <2>2. at'[r] = "none"
    <3>1. CASE HarnessAnswers \/ HarnessRuns \/ HarnessStops \/ HarnessReports \/ HarnessEnds \/ HarnessExits
      BY <1>0, <3>1 DEF HarnessAnswers, HarnessRuns, HarnessStops, HarnessReports, HarnessEnds, HarnessExits,
         answerVars
    <3>2. ASSUME NEW q \in Requests, HarnessHears(q) \/ HarnessFetches(q) \/ HarnessLists(q) PROVE at'[r] = "none"
      <4>1. CASE HarnessHears(q)
        BY <1>0, <4>1 DEF HarnessHears
      <4>2. CASE HarnessFetches(q)
        BY <1>0, <4>2 DEF HarnessFetches, At, BridgeInv
      <4>3. CASE HarnessLists(q)
        <5>1. harness # "pi" /\ IsList(q) /\ (at' = at \/ At(q, "pushed"))
          BY <4>3, ListsSay DEF GroundInv
        <5> QED
          BY <1>0, <5>1 DEF At, BridgeInv
      <4> QED
        BY <3>2, <4>1, <4>2, <4>3
    <3>3. ASSUME NEW tool \in RespondTools \union {Tool, Permission}, HarnessUses(tool) PROVE at'[r] = "none"
      <4>1. hpc = "running" /\ hpc' # "running" /\ (at' = at \/ At(<<"call", hrun>>, "pushed"))
        BY <3>3, UsesSay DEF GroundInv
      <4>2. r # <<"call", hrun>>
        BY <1>2, <4>1
      <4> QED
        BY <1>0, <4>1, <4>2 DEF At, BridgeInv
    <3> QED
      BY <1>2, <3>1, <3>2, <3>3 DEF HarnessNext
  <2> QED
    BY <1>1, <2>1, <2>2 DEF Unasked
<1>3. CASE Dispatch
  <2>1. /\ stdout # <<>> /\ 1 \in DOMAIN stdout /\ stdout[1] \in Lines /\ Said(stdout[1]) /\ stdout' = Tail(stdout)
        /\ Head(stdout) = stdout[1]
    BY <1>0, <1>3, Dispatched, Rest DEF GroundInv, FramesInv, Dispatch
  <2>2. ~Among(stdout', Asking(r)) /\ stdout[1] \notin Asking(r)
    BY <1>0, <2>1, FewerAmong DEF Among
  <2>3. PICK q : (at' = at \/ at' = [at EXCEPT ![q] = "begun"]) /\ q = Decode(harness, codec, stdout[1]).request
                 /\ (q = <<>> => at' = at)
    BY <1>3, <2>1 DEF Dispatch
  <2>4. q = <<>> \/ stdout[1] \in Asking(q)
    BY <2>1, <2>3, RequestSaid DEF GroundInv, AdapterInv, Asking
  <2>5. at'[r] = "none"
    BY <1>0, <2>2, <2>3, <2>4 DEF BridgeInv
  <2> QED
    BY <1>1, <2>2, <2>5 DEF Unasked
<1>4. CASE ~HarnessNext /\ ~Dispatch
  <2>1. stdout' = stdout
    BY <1>4, HarnessRests
  <2>2. at'[r] = "none"
    BY <1>0, <1>4, NobodyAsks
  <2> QED
    BY <1>0, <1>1, <2>1, <2>2 DEF Unasked
<1> QED
  BY <1>2, <1>3, <1>4

(* What the prompt asks for is set until the next.                         *)
LEMMA SetKept ==
  ASSUME GroundInv, SetInv, [Next]_vars
  PROVE  SetInv'
<1>0. harness' = harness
  BY HarnessStays
<1>1. CASE Prompt
  BY <1>0, <1>1 DEF Prompt, ClaudePrompt, OpenCodePrompt, PiPrompt, SetInv
<1>2. CASE PromptSets
  BY <1>0, <1>2 DEF PromptSets, SetSchema, SetInv, runVars
<1>3. CASE ~Prompt /\ ~PromptSets
  <2>1. ex' = ex
    BY <1>3, ComesOf
  <2>2. respond' = respond
    <3>1. CASE UNCHANGED toolVars \/ OpenFails \/ CloseReturns
      BY <3>1 DEF toolVars, OpenFails, TunnelClose, EndpointClose, Remove, CloseReturns, ClaudeCloses, OpenCodeCloses,
         PiCloses, serverVars
    <3>2. CASE Opens
      BY <3>2 DEF Opens, Tunnel, Listen, NewServer, serverVars
    <3> QED
      BY <1>3, <3>1, <3>2, ServerStep
  <2>3. schema' = schema
    <3>1. CASE OpenNext \/ CloseNext
      BY <3>1 DEF OpenNext, KeepFiles, Opens, OpenFails, HandshakeCalls, HandshakeGoesOn, CloseNext, Close, CloseBegins,
         ClientClosed, CloseReturns, bridgeVars, runVars
    <3>2. CASE PromptNext \/ CancelNext
      BY <1>3, <3>2 DEF PromptNext, PromptSets, PromptWaits, PromptSends, Prompted, ExchangeOver,
         CancelNext, Cancel, CancelGoesOn, CancelOver, bridgeVars, runVars
    <3>3. CASE ReaderNext \/ \E c \in Calls : GivesUp(c) \/ CallNext(c)
      BY <3>3 DEF ReaderNext, GivesUp, CallNext, bridgeVars, runVars
    <3>4. ASSUME NEW r \in Requests, HandlerNext(r) \/ ReplyNext(r) PROVE schema' = schema
      BY <3>4 DEF HandlerNext, RequestNext, ToolReturns, ListArrives, ListReads, ListAnswers, Respond, RunTool,
         TakeRun, GiveUp, AnswerAtOnce, ReplyNext, bridgeVars, runVars
    <3>5. CASE HarnessNext
      BY <3>5, HarnessFrame DEF runVars
    <3>6. CASE Terminated \/ UNCHANGED vars
      BY <3>6 DEF Terminated, vars, bridgeVars, runVars
    <3> QED
      BY <3>1, <3>2, <3>3, <3>4, <3>5, <3>6 DEF Next
  <2>4. prompting = "schema" => prompting' = "schema"
    <3>1. CASE Prompting
      BY <1>3, <3>1 DEF Prompting, PromptNext, PromptWaits, PromptSends, Prompted, ExchangeOver
    <3>2. CASE ~Prompting
      BY <3>2, TurnStep, HarnessFrame DEF GroundInv, AdapterInv, turnVars, Opened, Noted, Closed, Reading, Begun, Waiting
    <3> QED
      BY <3>1, <3>2
  <2> QED
    BY <1>0, <2>1, <2>2, <2>3, <2>4 DEF SetInv
<1> QED
  BY <1>1, <1>2, <1>3

(* A run that goes on makes its call once.                                 *)
LEMMA UnusedStays ==
  ASSUME GroundInv, CourseInv, ToolsInv, [Next]_vars, ~Prompt, ex > 0, Unused'
  PROVE  Unused /\ ~(HarnessNext /\ hpc = "running" /\ hpc' # "running" /\ hpc' # "idle")
<1>1. CASE HarnessRuns
  <2>1. NotRun /\ hrun = 0
    BY <1>1, RunsIs DEF CourseInv, HarnessRuns
  <2> QED
    BY <2>1 DEF Unused, GroundInv, RestInv
<1>2. CASE HarnessNext /\ ~HarnessRuns
  <2>1. RunWaits \/ RunBegins \/ RunCalls \/ RunReports \/ RunStops
    BY <1>2, RunMoves DEF CourseInv
  <2>2. hpc' \in {"asking", "running"} => hpc \in {"asking", "running"} /\ (hpc = "running" => hpc' = "running")
    BY <2>1 DEF RunWaits, RunBegins, RunCalls, RunReports, RunStops
  <2>3. NotRun' => NotRun
    BY NotRunMoves DEF CourseInv
  <2>4. NotRun => hpc = "idle"
    BY DEF CourseInv, NotRunInv, Unrun, Spent, GroundInv, RestInv
  <2> QED
    BY <2>2, <2>3, <2>4 DEF Unused
<1>3. CASE ~HarnessNext
  <2>1. hpc' = hpc
    BY <1>3, HarnessRests DEF harnessVars
  <2>2. NotRun' => NotRun
    BY NotRunMoves DEF CourseInv
  <2> QED
    BY <1>3, <2>1, <2>2 DEF Unused
<1> QED
  BY <1>1, <1>2, <1>3

LEMMA LaterKept ==
  ASSUME GroundInv, CourseInv, ToolsInv, LaterInv, [Next]_vars
  PROVE  LaterInv'
<1> SUFFICES ASSUME harness' # "pi", NEW r \in Requests, r[1] = "call", ComesLater(r)'
             PROVE  Unasked(r)'
  BY DEF LaterInv
<1>1. harness # "pi" /\ ~IsList(r) /\ r[2] \in Nat /\ r[2] > 0 /\ ex \in Nat
  BY HarnessStays, GroundIs, RequestsAssumption DEF IsList
<1>2. CASE Prompt
  <2>1. ex' = ex + 1 /\ UNCHANGED <<clientVars, harnessVars>>
    BY <1>2, PromptIs
  <2>2. r[2] > ex
    BY <1>1, <2>1 DEF ComesLater
  <2>3. Unasked(r)
    BY <1>1, <2>2 DEF LaterInv, ComesLater
  <2> QED
    BY <2>1, <2>3 DEF clientVars, processVars, answerVars, Unasked
<1>3. CASE ~Prompt
  <2>1. ex' = ex
    BY <1>3, ComesOf
  <2>2. r[2] > ex \/ (r[2] = ex /\ Unused')
    BY <2>1 DEF ComesLater
  <2>3. Unasked(r)
    BY <1>1, <1>3, <2>2, UnusedStays DEF LaterInv, ComesLater
  <2>4. ~(HarnessNext /\ hpc = "running" /\ hpc' # "running" /\ r = <<"call", hrun>>)
    <3>1. SUFFICES ASSUME HarnessNext, hpc = "running", hpc' # "running", r = <<"call", hrun>> PROVE FALSE
      OBVIOUS
    <3>2. hrun = ex /\ r[2] = ex
      BY <1>1, <3>1 DEF GroundInv, RestInv, CourseInv, OrderInv
    <3>3. Unused' /\ NotRun'
      <4>1. Unused'
        BY <1>1, <2>2, <3>2
      <4>2. hpc' = "idle"
        BY <1>1, <1>3, <3>1, <3>2, <4>1, UnusedStays
      <4> QED
        BY <4>1, <4>2 DEF Unused
    <3>4. NotRun
      BY <1>1, <1>3, <3>2, <3>3, NotRunMoves DEF CourseInv
    <3> QED
      BY <1>1, <3>1, <3>2, <3>4 DEF CourseInv, NotRunInv, Unrun, Spent, GroundInv, RestInv
  <2> QED
    BY <1>1, <2>3, <2>4, UnaskedStays
<1> QED
  BY <1>2, <1>3

LEMMA AcceptKept ==
  ASSUME GroundInv, CourseInv, ToolsInv, SetInv, LaterInv, AcceptInv, [Next]_vars
  PROVE  AcceptInv'
<1> SUFFICES ASSUME harness' # "pi", ex' > 0, Call' \in Requests, result'[Call'] = Accepted
             PROVE  Uses' = Wants[ex']
  BY DEF AcceptInv
<1>1. harness # "pi" /\ ex \in Nat /\ Call'[1] = "call" /\ Call'[2] = ex' /\ BridgeInv /\ None # Accepted
  BY HarnessStays, GroundIs DEF Call, GroundInv, AdapterInv, None, Accepted
<1>2. CASE Prompt
  <2>1. ex' = ex + 1 /\ UNCHANGED clientVars
    BY <1>2, PromptIs
  <2>2. result[Call'] = None
    BY <1>1, <2>1 DEF LaterInv, ComesLater, Unasked
  <2> QED
    BY <1>1, <2>1, <2>2 DEF clientVars, answerVars
<1>3. CASE ~Prompt
  <2>1. ex' = ex /\ Call' = Call /\ ex > 0 /\ Call \in Requests
    BY <1>3, ComesOf DEF Call
  <2>2. Unused => at[Call] = "none" /\ result[Call] = None
    BY <1>1, <2>1 DEF LaterInv, ComesLater, Unasked
  <2>3. CASE result'[Call] = result[Call]
    <3>1. Uses = Wants[ex]
      BY <1>1, <2>1, <2>3 DEF AcceptInv
    <3>2. hpc # "running" /\ ~HarnessRuns
      <4>1. ~Unused
        BY <1>1, <2>1, <2>2, <2>3
      <4> QED
        BY <4>1, RunsIs DEF Unused, CourseInv
    <3>3. body' = body
      <4>1. CASE HarnessNext
        BY <2>1, <3>2, <4>1, RunMoves DEF CourseInv, RunWaits, RunBegins, RunCalls, RunReports, RunStops
      <4>2. CASE ~HarnessNext
        BY <4>2, OutputMoves DEF GroundInv
      <4> QED
        BY <4>1, <4>2
    <3> QED
      BY <2>1, <3>1, <3>3 DEF Uses
  <2>4. CASE result'[Call] # result[Call]
    <3>1. at[Call] # "none" /\ HandlerNext(Call) /\ ~Unused
      BY <1>1, <2>1, <2>2, <2>4, ResultMoves
    <3>2. prompting # "schema"
      <4>1. SUFFICES ASSUME prompting = "schema" PROVE NotRun
        BY <3>1 DEF Unused
      <4>2. call[PromptCall(ex)] = "none"
        BY <4>1 DEF GroundInv, AdapterInv, ClientInv, UnbegunInv
      <4> QED
        BY <1>1, <4>1, <4>2, GroundIs DEF NotRun, Unwritten
    <3>3. respond = Wants[ex]
      BY <1>1, <2>1, <3>2 DEF SetInv
    <3>4. Respond(Call) /\ Accepts(body[Call])
      <4>1. result[Call] # Accepted /\ ~IsList(Call) /\ at[Call] \notin {"listing", "listed"}
        BY <1>1, <2>1, <2>4 DEF BridgeInv, RequestInv, IsList, Call
      <4>2. \A v : result' = [result EXCEPT ![Call] = v] => v = Accepted
        BY <1>1, <2>1 DEF BridgeInv
      <4>3. ~(ListArrives(Call) \/ ListReads(Call) \/ ListAnswers(Call) \/ RunTool(Call) \/ TakeRun(Call))
        BY <2>4, <4>1 DEF ListArrives, ListReads, ListAnswers, RunTool, TakeRun
      <4>4. ~(GiveUp(Call) \/ AnswerAtOnce(Call) \/ ToolReturns(Call))
        BY <1>1, <4>2 DEF GiveUp, AnswerAtOnce, Permit, AnswerPermission, AnswerExchange, ToolReturns, Answered, Accepted
      <4>5. Respond(Call)
        BY <3>1, <4>3, <4>4 DEF HandlerNext, RequestNext
      <4>6. ~Answered(Call, "rejected")
        BY <4>2 DEF Answered, Accepted
      <4> QED
        BY <4>5, <4>6 DEF Respond
    <3>5. body' = body
      BY <3>4 DEF Respond, bridgeVars
    <3> QED
      BY <2>1, <3>3, <3>4, <3>5 DEF Accepts, Uses, Call
  <2> QED
    BY <2>3, <2>4
<1> QED
  BY <1>2, <1>3

(***************************************************************************)
(* Pi's dialogs for the schema of a run.                                   *)
(***************************************************************************)
LEMMA AtMoves ==
  ASSUME BridgeInv, [Next]_vars, ~HarnessNext, ~Dispatch, NEW r \in Requests, at'[r] # at[r]
  PROVE  HandlerNext(r) \/ ReplyNext(r)
<1>1. at' # at
  OBVIOUS
<1>2. ASSUME NEW q \in Requests, HandlerNext(q) \/ ReplyNext(q)
      PROVE  \E p : at' = [at EXCEPT ![q] = p]
  <2>1. CASE ListArrives(q) \/ ListReads(q) \/ ListAnswers(q)
    BY <2>1 DEF ListArrives, ListReads, ListAnswers, At
  <2>2. CASE Respond(q) \/ RunTool(q) \/ ToolReturns(q)
    BY <2>2 DEF Respond, RunTool, HandleTool, AnswerCall, Runs, ToolReturns, Answered, At
  <2>3. CASE TakeRun(q) \/ GiveUp(q)
    BY <2>3 DEF TakeRun, Relay, CallDialog, Takes, GiveUp, Answered, At
  <2>4. CASE AnswerAtOnce(q)
    BY <2>4 DEF AnswerAtOnce, Permit, AnswerPermission, AnswerExchange, Answered, At
  <2>5. CASE ReplyNext(q)
    BY <2>5 DEF ReplyNext, Reply
  <2> QED
    BY <1>2, <2>1, <2>2, <2>3, <2>4, <2>5 DEF HandlerNext, RequestNext
<1>3. ~(OpenNext \/ CloseNext)
  BY <1>1 DEF OpenNext, KeepFiles, Opens, OpenFails, HandshakeCalls, HandshakeGoesOn, CloseNext, Close, CloseBegins,
     ClientClosed, CloseReturns, clientVars, answerVars
<1>4. ~(PromptNext \/ CancelNext)
  BY <1>1 DEF PromptNext, Prompt, PromptSets, PromptWaits, PromptSends, Prompted, ExchangeOver,
     CancelNext, Cancel, CancelGoesOn, CancelOver, clientVars, answerVars
<1>5. ~\E c \in Calls : GivesUp(c) \/ CallNext(c)
  BY <1>1 DEF GivesUp, Forget, CallNext, WriteCall, Return, answerVars
<1>6. ~ReaderNext
  BY <1>1 DEF ReaderNext, Resolve, Shutdown, EventsClose, answerVars
<1>7. ~(Terminated \/ UNCHANGED vars)
  BY <1>1 DEF Terminated, vars, clientVars, answerVars
<1>8. PICK q \in Requests : HandlerNext(q) \/ ReplyNext(q)
  BY <1>3, <1>4, <1>5, <1>6, <1>7 DEF Next
<1>9. q = r
  BY <1>2, <1>8 DEF BridgeInv
<1> QED
  BY <1>8, <1>9

(* Pi takes no answer to a dialog but from its input.                      *)
LEMMA PiKeepsAt ==
  ASSUME AdapterInv, HarnessNext, harness = "pi", NEW r \in Requests, IsList(r)
  PROVE  at'[r] = at[r]
<1>1. CASE HarnessAnswers \/ HarnessRuns \/ HarnessStops \/ HarnessReports \/ HarnessEnds \/ HarnessExits
  BY <1>1 DEF HarnessAnswers, HarnessRuns, HarnessStops, HarnessReports, HarnessEnds, HarnessExits, answerVars
<1>2. ASSUME NEW q \in Requests, HarnessHears(q) \/ HarnessFetches(q) \/ HarnessLists(q) PROVE at' = at
  BY <1>2 DEF HarnessHears, HarnessFetches, HarnessLists
<1>3. ASSUME NEW tool \in RespondTools \union {Tool, Permission}, HarnessUses(tool) PROVE at'[r] = at[r]
  <2>1. at' = at \/ At(<<"call", hrun>>, "pushed")
    BY <1>3, UsesSay
  <2> QED
    BY <2>1 DEF At, IsList, AdapterInv, BridgeInv
<1> QED
  BY <1>1, <1>2, <1>3 DEF HarnessNext

(* The run Pi begins asks for the schema of its own prompt.                *)
LEMMA PiAsks ==
  ASSUME GroundInv, CourseInv, [Next]_vars, harness = "pi", HarnessRuns, hpc' = "asking"
  PROVE  /\ hrun' = ex /\ ex > 0 /\ PromptCall(ex) \notin told /\ PromptCall(ex) \in told' /\ hrun = 0
         /\ \E x, y \in Lines : x.type = "response" /\ Writes(<<x, y>>)
<1>1. TakesIn(AskLine) /\ ex > 0 /\ Coming /\ AskLine = PromptCall(ex)
  BY RunsIs DEF CourseInv, AskLine
<1>2. PICK c \in Inputs :
        /\ TakesIn(c) /\ hrun = 0
        /\ \/ hpc' = hpc
           \/ /\ told' = told \union {c} /\ hrun' = c[2]
              /\ \E x \in Answer(c, "ok"), y \in Lines : Writes(<<x, y>>)
  BY RunsSay DEF GroundInv
<1>3. c = PromptCall(ex) /\ hpc = "idle"
  BY <1>1, <1>2 DEF TakesIn, GroundInv, RestInv
<1> QED
  BY <1>1, <1>2, <1>3 DEF CourseInv, AskInv, PromptCall, Answer, Of

DialogRests(r) ==
    /\ at'[r] = at[r] /\ result'[r] = result[r]
    /\ Among(stdout', Asking(r)) => Among(stdout, Asking(r))
    /\ Among(stdin', Answering(r)) => Among(stdin, Answering(r))
DialogAsks(r) ==
    /\ HarnessRuns /\ hpc' = "asking" /\ r = <<"list", ex>>
    /\ at'[r] = "none" /\ result'[r] = result[r] /\ ~Among(stdin', Answering(r))
DialogBegins(r) ==
    /\ Among(stdout, Asking(r)) /\ ~Among(stdout', Asking(r)) /\ at'[r] = "begun" /\ result'[r] = result[r]
    /\ stdin' = stdin
DialogAnswers(r) ==
    /\ at[r] = "begun" /\ at'[r] = "answered" /\ result'[r] = schema /\ stdout' = stdout /\ stdin' = stdin
DialogReplies(r) == at[r] = "answered" /\ at'[r] = "gone" /\ result'[r] = result[r] /\ stdout' = stdout

LEMMA DialogMoves ==
  ASSUME GroundInv, CourseInv, PiInv, [Next]_vars, harness = "pi", NEW r \in Requests, IsList(r)
  PROVE  /\ \/ DialogRests(r) \/ DialogAsks(r)
            \/ ~HarnessNext /\ (DialogBegins(r) \/ DialogAnswers(r) \/ DialogReplies(r))
         /\ Sole(stdout', Asking(r)) /\ Sole(stdin', Answering(r))
<1>0. /\ stdout \in Seq(Lines) /\ stdin \in Seq(Inputs) /\ BridgeInv /\ DialogInv(r)
      /\ Sole(stdout, Asking(r)) /\ Sole(stdin, Answering(r))
  BY GroundIs DEF GroundInv, AdapterInv, PiInv, DialogInv
<1>1. CASE ReplyNext(r)
  <2>1. at[r] = "answered" /\ at'[r] = "gone" /\ result' = result /\ stdout' = stdout /\ Notify(<<"answer", r>>)
    BY <1>0, <1>1 DEF ReplyNext, Reply, BridgeInv
  <2>2. ~HarnessNext
    BY <2>1, PiKeepsAt DEF GroundInv
  <2>3. ~Among(stdin, Answering(r))
    BY <1>0, <2>1 DEF DialogInv
  <2>4. <<"answer", r>> \in Inputs
    BY DEF Inputs
  <2>5. Sole(stdin', Answering(r))
    BY <1>0, <2>1, <2>3, <2>4, MoreAmong DEF Notify
  <2> QED
    BY <1>0, <2>1, <2>2, <2>5 DEF DialogReplies
<1>2. CASE ~ReplyNext(r)
  <2>1. (Among(stdin', Answering(r)) => Among(stdin, Answering(r))) /\ Sole(stdin', Answering(r))
    BY <1>0, <1>2, AnswerMoves DEF GroundInv
  <2>2. CASE HarnessNext
    <3>1. at'[r] = at[r] /\ result' = result
      BY <2>2, PiKeepsAt, HarnessFrame DEF GroundInv
    <3>2. CASE HarnessRuns /\ hpc' = "asking" /\ r = <<"list", ex>>
      <4>1. Unasked(r)
        BY <1>0, <3>2, PiAsks DEF DialogInv
      <4>2. ~Among(stdin', Answering(r))
        BY <1>0, <2>1, <4>1 DEF DialogInv, Unasked
      <4>3. Sole(stdout', Asking(r))
        <5>1. PICK x \in Lines, y \in Lines : x.type = "response" /\ Writes(<<x, y>>)
          BY <3>2, PiAsks
        <5>2. stdout' = Append(Append(stdout, x), y) /\ Append(stdout, x) \in Seq(Lines)
          BY <1>0, <5>1, Written
        <5>3. x \notin Asking(r)
          BY <5>1 DEF Asking
        <5>4. ~Among(Append(stdout, x), Asking(r))
          BY <1>0, <4>1, <5>3, MoreAmong DEF Unasked
        <5> QED
          BY <5>2, <5>4, MoreAmong
      <4> QED
        BY <2>1, <3>1, <3>2, <4>1, <4>2, <4>3 DEF DialogAsks, Unasked
    <3>3. CASE ~(HarnessRuns /\ hpc' = "asking" /\ r = <<"list", ex>>)
      <4>1. /\ \A i \in DOMAIN stdout : i \in DOMAIN stdout' /\ stdout'[i] = stdout[i]
            /\ \A i \in DOMAIN stdout' : i \in DOMAIN stdout \/ ShowsIn(stdout'[i])
        BY <2>2, HarnessShows DEF GroundInv
      <4>2. \A l \in Asking(r) : ~ShowsIn(l)
        BY <3>3, PiAsks DEF ShowsIn, Asking, IsList
      <4>3. \A i \in DOMAIN stdout' : i \in DOMAIN stdout \/ stdout'[i] \notin Asking(r)
        BY <4>1, <4>2
      <4>4. (Among(stdout', Asking(r)) <=> Among(stdout, Asking(r))) /\ Sole(stdout', Asking(r))
        BY <1>0, <4>1, <4>3, NoneAdded
      <4> QED
        BY <2>1, <3>1, <4>4 DEF DialogRests
    <3> QED
      BY <3>2, <3>3
  <2>3. CASE Dispatch
    <3>1. /\ stdout # <<>> /\ 1 \in DOMAIN stdout /\ stdout[1] \in Lines /\ Said(stdout[1]) /\ stdout' = Tail(stdout)
          /\ Head(stdout) = stdout[1] /\ stdin' = stdin /\ result' = result
      BY <1>0, <2>3, Dispatched, Rest DEF GroundInv, FramesInv, Dispatch
    <3>2. PICK q : (at' = at \/ at' = [at EXCEPT ![q] = "begun"]) /\ (q = <<>> \/ stdout[1] \in Asking(q))
      <4>1. PICK q : (at' = at \/ at' = [at EXCEPT ![q] = "begun"]) /\ q = Decode(harness, codec, stdout[1]).request
        BY <2>3, <3>1 DEF Dispatch
      <4> QED
        BY <3>1, <4>1, RequestSaid DEF GroundInv, AdapterInv, Asking
    <3>3. /\ Among(stdout', Asking(r)) => Among(stdout, Asking(r))
          /\ Sole(stdout', Asking(r))
          /\ stdout[1] \in Asking(r) => Among(stdout, Asking(r)) /\ ~Among(stdout', Asking(r))
      BY <1>0, <3>1, FewerAmong
    <3>4. CASE at'[r] = at[r]
      BY <2>1, <3>1, <3>3, <3>4 DEF DialogRests
    <3>5. CASE at'[r] # at[r]
      <4>1. q = r /\ at'[r] = "begun"
        BY <1>0, <3>2, <3>5 DEF BridgeInv
      <4>2. r # <<>>
        BY RequestsAssumption
      <4>3. ~HarnessNext
        BY <3>5, PiKeepsAt DEF GroundInv
      <4> QED
        BY <2>1, <3>1, <3>2, <3>3, <4>1, <4>2, <4>3 DEF DialogBegins
    <3> QED
      BY <3>4, <3>5
  <2>4. CASE ~HarnessNext /\ ~Dispatch
    <3>1. stdout' = stdout
      BY <2>4, HarnessRests
    <3>2. CASE HandlerNext(r)
      <4>1. at[r] \in {"none", "begun", "answered", "gone"}
        BY <1>0 DEF DialogInv
      <4>2. ~(ListArrives(r) \/ ListReads(r) \/ ListAnswers(r) \/ Respond(r) \/ RunTool(r) \/ ToolReturns(r))
        BY <4>1 DEF ListArrives, ListReads, ListAnswers, Respond, RunTool, HandleTool, AnswerCall, Arrives, Delivered,
           Served, ToolReturns
      <4>3. ~(TakeRun(r) \/ GiveUp(r))
        BY <4>1 DEF TakeRun, GiveUp, InHand, IsList
      <4>4. AnswerAtOnce(r)
        BY <3>2, <4>2, <4>3 DEF HandlerNext, RequestNext
      <4>5. at[r] = "begun" /\ at'[r] = "answered" /\ result'[r] = schema
        BY <1>0, <4>4 DEF AnswerAtOnce, Permit, AnswerPermission, AnswerExchange, Answered, At, BridgeInv
      <4>6. stdin' = stdin
        BY <4>4 DEF AnswerAtOnce, processVars
      <4> QED
        BY <1>0, <2>1, <2>4, <3>1, <4>5, <4>6 DEF DialogAnswers
    <3>3. CASE ~HandlerNext(r)
      <4>1. at'[r] = at[r] /\ result'[r] = result[r]
        BY <1>0, <1>2, <2>4, <3>3, AtMoves, ResultMoves
      <4> QED
        BY <1>0, <2>1, <3>1, <4>1 DEF DialogRests
    <3> QED
      BY <3>2, <3>3
  <2> QED
    BY <2>2, <2>3, <2>4
<1> QED
  BY <1>1, <1>2

(* A run that waits for its schema goes on with the answer, or with the    *)
(* end of the harness.                                                     *)
LEMMA AskingGoesOn ==
  ASSUME GroundInv, CourseInv, [Next]_vars, harness = "pi", hpc = "asking", alive'
  PROVE  hpc' = "asking" \/ (HarnessNext /\ hpc' = "running" /\ TakesIn(<<"answer", <<"list", ex>>>>))
<1>0. hrun = ex /\ ex > 0
  BY GroundIs DEF GroundInv, RestInv, CourseInv, OrderInv
<1>1. CASE ~HarnessNext
  BY <1>1, HarnessRests DEF harnessVars
<1>2. CASE HarnessAnswers \/ HarnessStops
  BY <1>2 DEF HarnessAnswers, HarnessStops
<1>3. CASE HarnessRuns \/ HarnessReports \/ HarnessEnds
  BY <1>0, <1>3, EndsSay DEF HarnessRuns, HarnessReports, GroundInv
<1>4. ASSUME NEW q \in Requests, HarnessHears(q) \/ HarnessFetches(q)
      PROVE  hpc' = "asking" \/ (hpc' = "running" /\ TakesIn(<<"answer", <<"list", ex>>>>))
  BY <1>0, <1>4, HearsSay DEF GroundInv
<1>5. ASSUME NEW q \in Requests, HarnessLists(q) PROVE hpc' = "asking"
  BY <1>5 DEF HarnessLists
<1>6. ASSUME NEW tool \in RespondTools \union {Tool, Permission}, HarnessUses(tool) PROVE FALSE
  BY <1>6 DEF HarnessUses
<1>7. CASE HarnessExits
  BY <1>7 DEF HarnessExits, ProcessEnds
<1> QED
  BY <1>1, <1>2, <1>3, <1>4, <1>5, <1>6, <1>7 DEF HarnessNext

LEMMA DialogWaits ==
  ASSUME GroundInv, CourseInv, PiInv, [Next]_vars, ~Prompt, harness = "pi", NEW r \in Requests, IsList(r),
         alive', UnderWay(r)'
  PROVE  hpc' = "asking" /\ r = <<"list", ex>>
<1>0. /\ stdin \in Seq(Inputs) /\ DialogInv(r) /\ ex \in Nat /\ r[2] > 0 /\ r[2] \in Nat
      /\ UnderWay(r)' = (Among(stdout', Asking(r)) \/ at'[r] \in {"begun", "answered"} \/ Among(stdin', Answering(r)))
  BY GroundIs, RequestsAssumption DEF PiInv, UnderWay, Asking, Answering
<1>1. CASE DialogAsks(r)
  BY <1>1 DEF DialogAsks
<1>2. CASE ~DialogAsks(r)
  <2>1. UnderWay(r)
    BY <1>0, <1>2, DialogMoves DEF UnderWay, DialogRests, DialogBegins, DialogAnswers, DialogReplies
  <2>2. alive
    <3>1. SUFFICES ASSUME ~alive PROVE FALSE
      OBVIOUS
    <3>2. step \in Starting
      BY <3>1, StartingGoesOn DEF GroundInv, AdapterInv, Opens
    <3>3. ex = 0
      <4>1. step # "open"
        BY <3>2 DEF Starting
      <4>2. ex \in Nat /\ ~(ex > 0)
        BY <1>0, <4>1 DEF GroundInv, RestInv
      <4> QED
        BY <4>2
    <3>4. Unasked(r)
      BY <1>0, <3>3 DEF DialogInv
    <3> QED
      BY <1>0, <2>1, <3>4 DEF DialogInv, Unasked, UnderWay
  <2>3. hpc = "asking" /\ r = <<"list", ex>>
    BY <1>0, <2>1, <2>2 DEF DialogInv
  <2>4. CASE HarnessNext /\ TakesIn(<<"answer", r>>)
    <3>1. DialogRests(r)
      BY <1>2, <2>4, DialogMoves
    <3>2. stdin # <<>> /\ Head(stdin) \in Answering(r) /\ stdin' = Tail(stdin)
      BY <2>4 DEF TakesIn, Answering
    <3>3. Among(stdin, Answering(r)) /\ ~Among(stdin', Answering(r))
      BY <1>0, <3>2, FewerAmong DEF DialogInv
    <3>4. at[r] = "gone" /\ ~Among(stdout, Asking(r))
      BY <1>0, <3>3 DEF DialogInv
    <3> QED
      BY <1>0, <3>1, <3>3, <3>4 DEF DialogRests
  <2> QED
    BY <2>3, <2>4, AskingGoesOn
<1> QED
  BY <1>1, <1>2

LEMMA DialogKept ==
  ASSUME GroundInv, CourseInv, SetInv, PiInv, [Next]_vars, harness = "pi", NEW r \in Requests, IsList(r)
  PROVE  DialogInv(r)'
<1>0. /\ DialogInv(r) /\ ex \in Nat /\ r[2] > 0 /\ r[2] \in Nat /\ r[1] = "list"
      /\ Asking(r)' = Asking(r) /\ Answering(r)' = Answering(r)
      /\ UnderWay(r)' = (Among(stdout', Asking(r)) \/ at'[r] \in {"begun", "answered"} \/ Among(stdin', Answering(r)))
  BY GroundIs, RequestsAssumption DEF PiInv, UnderWay, Asking, Answering, IsList
<1>1. Sole(stdout', Asking(r)) /\ Sole(stdin', Answering(r))
  BY DialogMoves
<1>2. /\ at'[r] \in {"none", "begun", "answered", "gone"}
      /\ Among(stdout', Asking(r)) => at'[r] = "none"
      /\ Among(stdin', Answering(r)) => at'[r] = "gone"
  <2>1. CASE DialogRests(r)
    BY <1>0, <2>1 DEF DialogInv, DialogRests
  <2>2. CASE DialogAsks(r)
    BY <1>0, <2>2 DEF DialogInv, DialogAsks
  <2>3. CASE DialogBegins(r) \/ DialogAnswers(r) \/ DialogReplies(r)
    BY <1>0, <2>3 DEF DialogInv, DialogBegins, DialogAnswers, DialogReplies
  <2> QED
    BY <2>1, <2>2, <2>3, DialogMoves
<1>3. CASE Prompt
  <2>1. ex' = ex + 1 /\ UNCHANGED clientVars /\ hpc' = hpc /\ hpc = "idle"
    BY <1>3, PromptIs, PromptQuiet DEF CourseInv, Unrun, Spent, GroundInv, RestInv, harnessVars
  <2>2. Unasked(r)' <=> Unasked(r)
    BY <1>0, <2>1 DEF Unasked, clientVars, processVars, answerVars
  <2>3. alive' /\ UnderWay(r)' => alive /\ UnderWay(r)
    BY <1>0, <2>1 DEF UnderWay, clientVars, processVars, answerVars
  <2>4. ~(alive' /\ UnderWay(r)')
    BY <1>0, <2>1, <2>3 DEF DialogInv
  <2>5. r[2] >= ex' => Unasked(r)
    BY <1>0, <2>1 DEF DialogInv
  <2>6. r[2] >= ex' => Unasked(r)' /\ result'[r] = None
    BY <2>2, <2>5 DEF Unasked
  <2> QED
    BY <1>0, <1>1, <1>2, <2>1, <2>4, <2>6 DEF DialogInv
<1>4. CASE ~Prompt
  <2>1. ex' = ex /\ PromptCall(ex)' = PromptCall(ex)
    BY <1>4, ComesOf
  <2>2. alive' /\ UnderWay(r)' => hpc' = "asking" /\ r = <<"list", ex>>
    BY <1>4, DialogWaits
  <2>3. r[2] > ex \/ (r[2] = ex /\ PromptCall(ex) \notin told') => Unasked(r)'
    <3>1. SUFFICES ASSUME r[2] > ex \/ (r[2] = ex /\ PromptCall(ex) \notin told') PROVE Unasked(r)'
      OBVIOUS
    <3>2. told \subseteq told'
      BY HarnessAdds, HarnessRests DEF GroundInv, harnessVars
    <3>3. Unasked(r)
      BY <1>0, <3>1, <3>2 DEF DialogInv
    <3>4. ~(HarnessRuns /\ hpc' = "asking" /\ r = <<"list", hrun'>>)
      BY <1>0, <3>1, PiAsks
    <3>5. r # <<"call", hrun>>
      BY <1>0
    <3> QED
      BY <3>3, <3>4, <3>5, UnaskedStays
  <2>4. r[2] = ex => result'[r] \in {None, Wants[ex]}
    <3>1. SUFFICES ASSUME r[2] = ex PROVE result'[r] \in {None, Wants[ex]}
      OBVIOUS
    <3>2. result[r] \in {None, Wants[ex]}
      BY <1>0, <3>1 DEF DialogInv
    <3>3. result'[r] = result[r] \/ result'[r] = schema
      BY DialogMoves DEF DialogRests, DialogAsks, DialogBegins, DialogAnswers, DialogReplies
    <3>4. schema = Wants[ex]
      BY <1>0, <3>1 DEF SetInv
    <3> QED
      BY <3>2, <3>3, <3>4
  <2> QED
    BY <1>0, <1>1, <1>2, <2>1, <2>2, <2>3, <2>4 DEF DialogInv
<1> QED
  BY <1>3, <1>4

(* A run of Pi's learns the tool of its own prompt alone.                  *)
LEMMA PiLearns ==
  ASSUME GroundInv, CourseInv, PiInv, [Next]_vars, harness = "pi", HarnessNext, hpc' = "running"
  PROVE  known' \in {None, Wants[ex]}
<1>0. hpc = "running" => known \in {None, Wants[ex]}
  BY DEF PiInv, LearnsInv
<1>1. CASE HarnessAnswers \/ HarnessStops
  BY <1>0, <1>1 DEF HarnessAnswers, HarnessStops
<1>2. CASE HarnessRuns
  <2>1. hpc = "idle"
    BY <1>2 DEF HarnessRuns, GroundInv, RestInv
  <2> QED
    BY <1>2, <2>1, RunsSay DEF GroundInv
<1>3. CASE HarnessReports \/ HarnessEnds \/ HarnessExits
  BY <1>3 DEF HarnessReports, HarnessEnds, HarnessExits
<1>4. ASSUME NEW tool \in RespondTools \union {Tool, Permission}, HarnessUses(tool) PROVE FALSE
  BY <1>4, UsesSay DEF GroundInv
<1>5. ASSUME NEW q \in Requests, HarnessLists(q) PROVE FALSE
  BY <1>5 DEF HarnessLists
<1>6. ASSUME NEW q \in Requests, HarnessHears(q) \/ HarnessFetches(q) PROVE known' \in {None, Wants[ex]}
  <2>1. /\ TakesIn(<<"answer", q>>) /\ Heard(q) /\ alive
        /\ hpc = "running" \/ (q = <<"list", hrun>> /\ hpc = "asking")
    BY <1>6, HearsSay DEF GroundInv, HarnessHears, HarnessFetches
  <2>2. CASE ~IsList(q)
    BY <1>0, <2>1, <2>2 DEF Heard, IsList
  <2>3. CASE IsList(q)
    <3>1. stdin \in Seq(Inputs) /\ DialogInv(q)
      BY <2>3, GroundIs DEF PiInv
    <3>2. Among(stdin, Answering(q))
      BY <2>1, <3>1, FewerAmong DEF TakesIn, Answering
    <3>3. hpc = "asking" /\ q = <<"list", ex>>
      BY <2>1, <3>1, <3>2 DEF DialogInv, UnderWay
    <3>4. result[q] \in {None, Wants[ex]}
      BY <3>1, <3>3 DEF DialogInv
    <3>5. ex \in Prompts
      BY <3>3, GroundIs DEF GroundInv, RestInv
    <3>6. result[q] # "error"
      BY <3>4, <3>5, WantsAre, ToolsAssumption DEF Offered, None
    <3> QED
      BY <2>1, <2>3, <3>4, <3>6 DEF Heard, Learns
  <2> QED
    BY <2>2, <2>3
<1> QED
  BY <1>1, <1>2, <1>3, <1>4, <1>5, <1>6 DEF HarnessNext

LEMMA PiKept ==
  ASSUME GroundInv, GroundInv', CourseInv, ToolsInv, SetInv, PiInv, [Next]_vars
  PROVE  PiInv'
<1> SUFFICES ASSUME harness = "pi"
             PROVE  LearnsInv' /\ \A r \in Requests : IsList(r) => DialogInv(r)'
  BY HarnessStays DEF PiInv, IsList
<1>1. ASSUME NEW r \in Requests, IsList(r) PROVE DialogInv(r)'
  BY <1>1, DialogKept
<1>2. LearnsInv
  BY DEF PiInv
<1>3. CASE Prompt
  <2>1. hpc' = hpc /\ hpc = "idle"
    BY <1>3, PromptIs, PromptQuiet DEF CourseInv, Unrun, Spent, GroundInv, RestInv, harnessVars
  <2> QED
    BY <1>1, <2>1 DEF LearnsInv
<1>4. CASE ~Prompt /\ ~HarnessNext
  <2>1. ex' = ex /\ Uses' = Uses /\ hpc' = hpc /\ known' = known
    BY <1>4, ComesOf, HarnessRests, OutputMoves DEF GroundInv, harnessVars, Uses
  <2> QED
    BY <1>1, <1>2, <2>1 DEF LearnsInv
<1>5. CASE ~Prompt /\ HarnessNext
  <2>1. ex' = ex /\ ex \in Nat
    BY <1>5, ComesOf, GroundIs
  <2>2. hpc' = "running" => known' \in {None, Wants[ex]}
    BY <1>5, PiLearns
  <2>3. hpc' \in {"using", "used"} /\ IsRespond(Uses') => Uses' = Wants[ex]
    <3>1. SUFFICES ASSUME hpc' \in {"using", "used"}, IsRespond(Uses') PROVE Uses' = Wants[ex]
      OBVIOUS
    <3>2. ex > 0
      BY <2>1, <3>1, GroundIs DEF GroundInv, AdapterInv, LineInv, HarnessInv, RestInv
    <3>3. ~HarnessRuns
      <4>1. SUFFICES ASSUME HarnessRuns PROVE FALSE
        OBVIOUS
      <4>2. hpc = "idle"
        BY <4>1 DEF HarnessRuns, GroundInv, RestInv
      <4> QED
        BY <3>1, <4>1, <4>2, RunsSay DEF GroundInv
    <3>4. RunWaits \/ RunBegins \/ RunCalls \/ RunReports \/ RunStops
      BY <1>5, <3>2, <3>3, RunMoves DEF CourseInv
    <3>5. CASE RunWaits
      BY <1>2, <2>1, <3>1, <3>5 DEF RunWaits, LearnsInv, Uses
    <3>6. CASE RunCalls
      <4>1. known \in {None, Wants[ex]} /\ Uses' \in {Tool, Permission, known}
        BY <1>2, <3>6 DEF RunCalls, LearnsInv
      <4> QED
        BY <3>1, <4>1, ToolsAssumption DEF IsRespond
    <3> QED
      BY <3>1, <3>4, <3>5, <3>6 DEF RunBegins, RunReports, RunStops
  <2> QED
    BY <1>1, <2>1, <2>2, <2>3 DEF LearnsInv
<1> QED
  BY <1>3, <1>4, <1>5

(***************************************************************************)
(* A structured response comes of a report that the call was accepted, and *)
(* is of the tool the report is of.                                        *)
(***************************************************************************)
EventOf(l) == {e \in EventType : e.kind = "structured" => l \in Accepting /\ e.tool = l.tool}

LEMMA PlainOf ==
  ASSUME NEW l \in Lines
  PROVE  /\ \A s, t \in Seq(EventOf(l)) : s \o t \in Seq(EventOf(l))
         /\ <<>> \in Seq(EventOf(l))
         /\ \A k \in Kinds \ {"structured"} : <<Plain(k)>> \in Seq(EventOf(l))
         /\ \A k \in Kinds \ {"structured"} : \A b \in BOOLEAN : When(b, k) \in Seq(EventOf(l))
         /\ \A k \in {"error", "limit"} : Why(l.how, k) \in Seq(EventOf(l))
         /\ l.type = "result" /\ IsRespond(l.tool) =>
              <<Outcome(l)>> \in Seq(EventOf(l)) /\ <<PiStructured(l)>> \in Seq(EventOf(l))
<1>1. \A s, t \in Seq(EventOf(l)) : s \o t \in Seq(EventOf(l))
  OBVIOUS
<1>2. <<>> \in Seq(EventOf(l))
  OBVIOUS
<1>3. \A e \in EventOf(l) : <<e>> \in Seq(EventOf(l))
  OBVIOUS
<1>4. \A k \in Kinds \ {"structured"} : Plain(k) \in EventOf(l)
  BY EventsAre DEF EventOf
<1>5. \A k \in Kinds \ {"structured"} : <<Plain(k)>> \in Seq(EventOf(l))
  BY <1>3, <1>4
<1>6. \A k \in Kinds \ {"structured"} : \A b \in BOOLEAN : When(b, k) \in Seq(EventOf(l))
  BY <1>2, <1>5 DEF When
<1>7. \A k \in {"error", "limit"} : Why(l.how, k) \in Seq(EventOf(l))
  <2> TAKE k \in {"error", "limit"}
  <2>1. When(l.how = "aborted", "cancelled") \in Seq(EventOf(l)) /\ When(l.how = "error", k) \in Seq(EventOf(l))
    BY <1>6 DEF Kinds
  <2> QED
    BY <1>1, <2>1 DEF Why
<1>8. l.type = "result" /\ IsRespond(l.tool) => Outcome(l) \in EventOf(l) /\ PiStructured(l) \in EventOf(l)
  BY EventsAre DEF EventOf, Accepting, Verdict
<1> QED
  BY <1>1, <1>2, <1>3, <1>5, <1>6, <1>7, <1>8

LEMMA StructuredSays ==
  ASSUME HeldInv, CodecInv, NEW l \in Lines, Said(l), NEW f, f = Decode(harness, codec, l)
  PROVE  f.events \in Seq(EventOf(l))
<1>0. /\ codec \in CodecType /\ l.type \in LineTypes
      /\ harness \in {"claude", "opencode", "pi"}
  BY DEF CodecInv, Lines, HeldInv, StepType, Harnesses
<1>1. /\ \A s, t \in Seq(EventOf(l)) : s \o t \in Seq(EventOf(l))
      /\ <<>> \in Seq(EventOf(l))
      /\ \A k \in {"started", "toolCall", "toolResult", "ended"} : <<Plain(k)>> \in Seq(EventOf(l))
      /\ \A b \in BOOLEAN : \A k \in {"started", "toolCall"} : When(b, k) \in Seq(EventOf(l))
      /\ \A k \in {"error", "limit"} : Why(l.how, k) \in Seq(EventOf(l))
      /\ l.type = "result" /\ IsRespond(l.tool) =>
           <<Outcome(l)>> \in Seq(EventOf(l)) /\ <<PiStructured(l)>> \in Seq(EventOf(l))
  BY PlainOf DEF Kinds
<1>2. CASE harness = "claude"
  <2>1. ClaudeFrame(codec, l, f)
    BY <1>0, <1>2, ClaudeSays DEF Decode
  <2>2. CASE l.type = "end"
    <3> DEFINE w == Why(l.how, IF codec.limit THEN "limit" ELSE "error")
    <3>1. f.events = w \o <<Plain("ended")>>
      BY <2>1, <2>2 DEF ClaudeFrame, Tells
    <3>2. w \in Seq(EventOf(l)) /\ <<Plain("ended")>> \in Seq(EventOf(l))
      BY <1>1
    <3> HIDE DEF w
    <3> QED
      BY <1>1, <3>1, <3>2
  <2>3. CASE l.type # "end"
    <3>1. \/ f.events = <<>> \/ f.events = <<Plain("started")>> \/ f.events = <<Plain("toolCall")>>
          \/ f.events = <<Plain("toolResult")>>
          \/ f.events = <<Outcome(l)>> /\ l.type = "result" /\ l.tool \in codec.responds
      BY <1>0, <1>2, <2>1, <2>3 DEF ClaudeFrame, LineTypes, Said, Same, Tells
    <3>2. l.tool \in codec.responds => IsRespond(l.tool)
      BY <1>0 DEF CodecType, IsRespond
    <3> QED
      BY <1>1, <3>1, <3>2
  <2> QED
    BY <2>2, <2>3
<1>3. CASE harness = "pi"
  <2>1. PiFrame(codec, l, f)
    BY <1>3, PiSays DEF Decode
  <2>2. \/ f.events = <<>> \/ f.events = <<Plain("started")>> \/ f.events = When(~IsRespond(l.tool), "toolCall")
        \/ f.events = <<Plain("toolResult")>> \/ f.events = Why(l.how, "error") \/ f.events = <<Plain("ended")>>
        \/ f.events = <<PiStructured(l)>> /\ l.type = "result" /\ IsRespond(l.tool)
    BY <1>0, <1>3, <2>1 DEF PiFrame, LineTypes, Said
  <2>3. (~IsRespond(l.tool)) \in BOOLEAN
    BY DEF IsRespond
  <2> QED
    BY <1>1, <2>2, <2>3
<1>4. CASE harness = "opencode"
  <2>1. OpenCodeFrame(codec, l, f)
    BY <1>0, <1>4, OpenCodeSays DEF Decode
  <2> DEFINE s == When(~codec.started, "started")
  <2>2. s \in Seq(EventOf(l))
    BY <1>0, <1>1 DEF CodecType
  <2>3. CASE l.type = "response" /\ l.call \in codec.prompts
    <3>1. f.events = s \o Why(l.how, "error") \o <<Plain("ended")>>
      BY <2>1, <2>3 DEF OpenCodeFrame
    <3>2. Why(l.how, "error") \in Seq(EventOf(l)) /\ <<Plain("ended")>> \in Seq(EventOf(l))
      BY <1>1
    <3> HIDE DEF s
    <3> QED
      BY <1>1, <2>2, <3>1, <3>2
  <2>4. CASE l.type \notin {"request", "response"} /\ InTurn(codec)
    <3>1. PICK g : /\ f.events = s \o g.events
                   /\ l.type \notin {"use", "result"} => g = Frame(codec, <<>>)
                   /\ l.type \in {"use", "result"} => g = OpenCodeTool(codec, l)
      BY <2>1, <2>4 DEF OpenCodeFrame
    <3>2. CASE l.type \notin {"use", "result"}
      <4>1. g.events = <<>>
        BY <3>1, <3>2, FrameIs
      <4> HIDE DEF s
      <4> QED
        BY <1>1, <2>2, <3>1, <4>1
    <3>3. CASE l.type \in {"use", "result"}
      <4>1. ToolFrame(codec, l, g)
        BY <1>0, <3>1, <3>3, OpenCodeToolSays
      <4> DEFINE b == l.tool \notin codec.called /\ ~IsRespond(l.tool)
      <4>2. \/ g.events = When(b, "toolCall") \/ g.events = <<>>
            \/ g.events = <<>> \o <<Outcome(l)>> /\ l.type = "result" /\ IsRespond(l.tool)
            \/ g.events = When(b, "toolCall") \o <<Plain("toolResult")>>
        BY <3>3, <4>1 DEF ToolFrame
      <4>3. b \in BOOLEAN
        BY DEF IsRespond
      <4> HIDE DEF b, s
      <4>4. g.events \in Seq(EventOf(l))
        BY <1>1, <4>2, <4>3
      <4> QED
        BY <1>1, <2>2, <3>1, <4>4
    <3> QED
      BY <3>2, <3>3
  <2>5. CASE ~(l.type = "response" /\ l.call \in codec.prompts) /\ ~(l.type \notin {"request", "response"} /\ InTurn(codec))
    <3>1. f.events = <<>>
      BY <2>1, <2>5 DEF OpenCodeFrame, Same
    <3> QED
      BY <1>1, <3>1
  <2> QED
    BY <2>3, <2>4, <2>5
<1> QED
  BY <1>0, <1>2, <1>3, <1>4

(* The structured responses told of are of the tool the prompt asks for.   *)
Fair(E) == \A i \in DOMAIN E : E[i].kind = "structured" => E[i].tool = Wants[ex]

LEMMA FairJoin ==
  ASSUME NEW s \in Seq(EventType), NEW t \in Seq(EventType)
  PROVE  Fair(s \o t) <=> Fair(s) /\ Fair(t)
<1>1. /\ \A i \in DOMAIN s : i \in DOMAIN (s \o t) /\ (s \o t)[i] = s[i]
      /\ \A i \in DOMAIN t : Len(s) + i \in DOMAIN (s \o t) /\ (s \o t)[Len(s) + i] = t[i]
      /\ \A i \in DOMAIN (s \o t) : i \in DOMAIN s \/ \E j \in DOMAIN t : i = Len(s) + j
  BY Adds
<1>2. Fair(s \o t) => Fair(s) /\ Fair(t)
  <2>1. Fair(s \o t) => Fair(s)
    BY <1>1 DEF Fair
  <2>2. ASSUME Fair(s \o t), NEW i \in DOMAIN t, t[i].kind = "structured" PROVE t[i].tool = Wants[ex]
    <3>1. Len(s) + i \in DOMAIN (s \o t) /\ (s \o t)[Len(s) + i] = t[i]
      BY <1>1
    <3> QED
      BY <2>2, <3>1 DEF Fair
  <2> QED
    BY <2>1, <2>2 DEF Fair
<1>3. ASSUME Fair(s), Fair(t), NEW i \in DOMAIN (s \o t), (s \o t)[i].kind = "structured"
      PROVE  (s \o t)[i].tool = Wants[ex]
  BY <1>1, <1>3 DEF Fair
<1> QED
  BY <1>2, <1>3 DEF Fair

(* A report that the call was accepted is of the tool its prompt asks for. *)
LEMMA ReportIsAsked ==
  ASSUME GroundInv, CourseInv, AcceptInv, PiInv, HarnessReports, NEW l \in Accepting, ShowsIn(l)
  PROVE  Uses = Wants[ex]
<1>1. /\ hpc = "used" /\ <<"call", hrun>> \in Requests
      /\ l.tool = body[<<"call", hrun>>] /\ (harness # "pi" => l.text = result[<<"call", hrun>>])
      /\ IsRespond(l.tool) /\ l.text = Accepted
  BY ReportsSay DEF GroundInv, ShowsIn, Accepting
<1>2. hrun = ex /\ ex > 0
  BY <1>1, GroundIs DEF GroundInv, RestInv, CourseInv, OrderInv
<1>3. CASE harness = "pi"
  BY <1>1, <1>2, <1>3 DEF PiInv, LearnsInv, Uses
<1>4. CASE harness # "pi"
  BY <1>1, <1>2, <1>4 DEF AcceptInv, Call
<1> QED
  BY <1>3, <1>4

LEMMA StructHarness ==
  ASSUME GroundInv, CourseInv, ToolsInv, AcceptInv, PiInv, HarnessNext, [Next]_vars, ex > 0,
         Among(stdout, Accepting) => Uses = Wants[ex], Among(stdout', Accepting)
  PROVE  Uses' = Wants[ex]
<1>0. ex' = ex
  BY HarnessFrame
<1>1. CASE Among(stdout, Accepting)
  <2>1. Uses = Wants[ex]
    BY <1>1
  <2>2. ~Upto(stdout, 1)
    BY <1>1 DEF Among, Accepting, Upto, Rank
  <2>3. hpc # "running"
    BY <2>2, GroundIs DEF GroundInv, RestInv, CourseInv, OrderInv, Reached
  <2>4. body' = body
    <3>1. CASE HarnessRuns
      BY <3>1 DEF HarnessRuns
    <3>2. CASE ~HarnessRuns
      BY <2>3, <3>2, RunMoves DEF CourseInv, RunWaits, RunBegins, RunCalls, RunReports, RunStops
    <3> QED
      BY <3>1, <3>2
  <2> QED
    BY <1>0, <2>1, <2>4 DEF Uses
<1>2. CASE ~Among(stdout, Accepting)
  <2>1. PICK i \in DOMAIN stdout' : stdout'[i] \in Accepting
    BY DEF Among
  <2>2. ShowsIn(stdout'[i])
    BY <1>2, <2>1, HarnessShows DEF GroundInv, Among
  <2>3. HarnessReports
    BY <2>1, <2>2 DEF ShowsIn, Accepting
  <2>4. body' = body
    BY <2>3 DEF HarnessReports
  <2> QED
    BY <1>0, <2>1, <2>2, <2>3, <2>4, ReportIsAsked DEF Uses
<1> QED
  BY <1>1, <1>2

LEMMA StructReads ==
  ASSUME GroundInv, ToolsInv, Dispatch, ex > 0, Fair(Told0), Among(stdout, Accepting) => Uses = Wants[ex]
  PROVE  /\ \A i \in DOMAIN Told0' : Told0'[i].kind = "structured" => Told0'[i].tool = Wants[ex]
         /\ Among(stdout', Accepting) => Among(stdout, Accepting)
<1>1. /\ stdout # <<>> /\ 1 \in DOMAIN stdout /\ stdout[1] \in Lines /\ Said(stdout[1]) /\ stdout' = Tail(stdout)
      /\ stdout \in Seq(Lines) /\ Told0 \in Seq(EventType)
  BY Dispatched, GroundIs DEF GroundInv, FramesInv, Dispatch
<1>2. PICK f : f = Decode(harness, codec, stdout[1]) /\ f.events \in Seq(EventType) /\ Told0' = Told0 \o f.events
  BY Dispatched DEF GroundInv, FramesInv
<1>3. f.events \in Seq(EventOf(stdout[1]))
  BY <1>1, <1>2, StructuredSays DEF GroundInv, AdapterInv, FramesInv
<1>4. stdout[1] \in Accepting => stdout[1].tool = Wants[ex]
  <2>1. SUFFICES ASSUME stdout[1] \in Accepting PROVE stdout[1].tool = Wants[ex]
    OBVIOUS
  <2>2. Uses = Wants[ex]
    BY <1>1, <2>1 DEF Among
  <2> QED
    BY <1>1, <2>1, <2>2 DEF ToolsInv, Accepting
<1>5. Fair(f.events)
  BY <1>3, <1>4 DEF Fair, EventOf
<1>6. Fair(Told0 \o f.events)
  BY <1>1, <1>2, <1>5, FairJoin
<1>7. Among(stdout', Accepting) => Among(stdout, Accepting)
  BY <1>1, FewerAmong
<1> QED
  BY <1>2, <1>6, <1>7 DEF Fair

LEMMA StructKept ==
  ASSUME GroundInv, CourseInv, ToolsInv, AcceptInv, PiInv, StructInv, [Next]_vars
  PROVE  StructInv'
<1> SUFFICES ASSUME ex' > 0
             PROVE  /\ \A i \in DOMAIN Told0' : Told0'[i].kind = "structured" => Told0'[i].tool = Wants[ex']
                    /\ Among(stdout', Accepting) => Uses' = Wants[ex']
  BY DEF StructInv, Accepting
<1>1. CASE Prompt
  <2>1. Told0 = <<>> /\ Upto(stdout, 0) /\ UNCHANGED clientVars
    BY <1>1, PromptIs, PromptQuiet DEF CourseInv, Unrun, Spent
  <2>2. Told0' = <<>> /\ stdout' = stdout
    BY <2>1 DEF Told0, clientVars, readVars, processVars
  <2>3. ~Among(stdout, Accepting)
    BY <2>1 DEF Upto, Among, Accepting, Rank
  <2> QED
    BY <2>2, <2>3
<1>2. CASE ~Prompt
  <2>1. ex' = ex /\ ex > 0 /\ Told0 \in Seq(EventType)
    BY <1>2, ComesOf, GroundIs
  <2>2. Fair(Told0) /\ (Among(stdout, Accepting) => Uses = Wants[ex])
    BY <2>1 DEF StructInv, Fair
  <2>3. CASE HarnessNext
    <3>1. Told0' = Told0
      BY <2>3, HarnessFrame DEF Told0, readVars
    <3> QED
      BY <2>1, <2>2, <2>3, <3>1, StructHarness DEF Fair
  <2>4. CASE ~HarnessNext
    <3>1. body' = body
      BY <2>4, OutputMoves DEF GroundInv
    <3>2. Uses' = Uses
      BY <2>1, <3>1 DEF Uses
    <3>3. CASE Dispatch
      BY <2>1, <2>2, <3>2, <3>3, StructReads
    <3>4. CASE ~Dispatch
      <4>1. stdout' = stdout
        BY <2>4, <3>4, HarnessRests
      <4>2. Fair(<<>>)
        BY DEF Fair
      <4>3. reader = "resolve" => Fair(hand.events)
        BY <2>2, FairJoin DEF Told0, GroundInv, FramesInv, EventsInv
      <4>4. Told0' = Told0 \/ Told0' = <<>> \/ (reader = "resolve" /\ Told0' = hand.events)
        BY <3>4, ToldRests
      <4>5. \A i \in DOMAIN Told0' : Told0'[i].kind = "structured" => Told0'[i].tool = Wants[ex]
        BY <2>2, <4>2, <4>3, <4>4 DEF Fair
      <4> QED
        BY <2>1, <2>2, <3>2, <4>1, <4>5
    <3> QED
      BY <3>3, <3>4
  <2> QED
    BY <2>3, <2>4
<1> QED
  BY <1>1, <1>2

LEMMA StructBegins == Init => SetInv /\ LaterInv /\ AcceptInv /\ PiInv /\ StructInv
<1> SUFFICES ASSUME Init
             PROVE  SetInv /\ LaterInv /\ AcceptInv /\ PiInv /\ StructInv
  OBVIOUS
<1>1. /\ stdin = <<>> /\ stdout = <<>> /\ alive = FALSE /\ ex = 0 /\ hpc = "idle"
      /\ \A r \in Requests : at[r] = "none" /\ result[r] = None
  BY DEF Init, InitClient, InitBridge
<1>2. \A r \in Requests : Unasked(r) /\ r[2] > 0
  BY <1>1, RequestsAssumption, NoneAmong DEF Unasked
<1>3. ASSUME NEW r \in Requests PROVE DialogInv(r)
  BY <1>1, <1>2, <1>3, NoneAmong DEF DialogInv, UnderWay
<1> QED
  BY <1>1, <1>2, <1>3 DEF SetInv, LaterInv, AcceptInv, PiInv, LearnsInv, StructInv

LEMMA StructStays ==
  Spec => [](GroundInv /\ CourseInv /\ ToolsInv /\ SetInv /\ LaterInv /\ AcceptInv /\ PiInv /\ StructInv)
<1> DEFINE I == SetInv /\ LaterInv /\ AcceptInv /\ PiInv /\ StructInv
           J == GroundInv /\ CourseInv /\ ToolsInv
<1>1. Spec => []J
  BY TurnStays, PTL
<1>2. Init => I
  BY StructBegins
<1>3. J /\ J' /\ I /\ [Next]_vars => I'
  BY SetKept, LaterKept, AcceptKept, PiKept, StructKept
<1> QED
  BY <1>1, <1>2, <1>3, PTL DEF Spec

(* A structured response is the one the open exchange asked for: its tool  *)
(* is that of the prompt's own schema, whatever the harness still lists,   *)
(* calls or reports of an earlier one (handleRespond accepts the current   *)
(* tool only, mcpbridge.Accepted is what the report must quote, and a run  *)
(* of Pi's asks for the schema of its own prompt).                         *)
THEOREM StructuredCorrect == Spec => []ResponseIsAsked
<1>1. ASSUME GroundInv, StructInv PROVE ResponseIsAsked
  <2>1. seen \in Seq(EventType) /\ (reader = "resolve" => hand.events \in Seq(EventType)) /\ ex \in Nat
    BY <1>1, GroundIs DEF GroundInv, FramesInv, EventsInv
  <2>2. CASE ex = 0
    <3>1. seen = <<>>
      BY <1>1, <2>2, ToldNothing DEF GroundInv, LoadInv, Unprompted
    <3> QED
      BY <3>1 DEF ResponseIsAsked
  <2>3. CASE ex > 0
    <3>1. Fair(Told0)
      BY <1>1, <2>3 DEF StructInv, Fair
    <3>2. Fair(seen)
      BY <2>1, <3>1, FairJoin DEF Told0
    <3> QED
      BY <2>3, <3>2 DEF ResponseIsAsked, Fair
  <2> QED
    BY <2>1, <2>2, <2>3
<1>2. GroundInv /\ StructInv => ResponseIsAsked
  BY <1>1
<1> QED
  BY <1>2, StructStays, PTL


=============================================================================
