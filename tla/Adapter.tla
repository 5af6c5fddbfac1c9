-------------------------------- MODULE Adapter --------------------------------
(***************************************************************************)
(* An adapter over its client and bridge, from Driver.Open to the end of   *)
(* Connection.Close (claude, opencode and pi: driver.go, connection.go),   *)
(* used as harness.Session uses it: one prompt at a time, cancelled once   *)
(* at most, and Close at any point.                                        *)
(*                                                                         *)
(* The harness is external.  It answers a call once, carries one run at a  *)
(* time, makes one call of a tool it knows or asks one permission in it,   *)
(* lists the tools when it likes, and may exit at any point.               *)
(***************************************************************************)
EXTENDS Bridge, Cache

CONSTANTS
    Wants,      \* [1 .. n -> RespondTools and "none"]: the schema of each prompt, as its tool
    MaxTroubles \* bound: cancellations, exits of the harness that nobody asked for, calls
                \* whose time passes, and closings before the last turn's end

VARIABLES
    step,       \* where Open is: "open" once it has returned a session, or "failed"
    held,       \* what Open has made: the temporary directory, the bridge, the process
    closing,    \* where Connection.Close is
    ex,         \* the last prompt begun
    prompting,  \* where Prompt is; "open" while the exchange is
    late,       \* the last wait for a listing of the tool as it is ran out of time
    cancelling, \* where Cancel is
    troubles,   \* how much of that there was
    hrun, hpc,  \* the harness: its run, where in it,
    aborted,    \* and the line that stopped it, <<>> when none did
    known,      \* the respond tool it knows
    limited,    \* it reported in the run, or the last one, that a limit refused it
    told        \* the calls it has answered

openVars == <<step, cache>>
adapterVars == <<openVars, held, closing, ex, prompting, late, cancelling, troubles>>
harnessVars == <<hrun, hpc, aborted, known, limited, told>>
vars == <<clientVars, bridgeVars, adapterVars, harnessVars>>

Prompts == DOMAIN Wants

(* The driver's calls: those of a handshake, and each prompt's own.        *)
ASSUME CallsAssumption ==
    Calls = {<<"initialize", 1>>, <<"load", 1>>, <<"model", 1>>, <<"model", 2>>, <<"state", 1>>}
            \union ({"prompt", "clear", "cancel"} \X Prompts)
(* The harness's: Pi asks for each prompt's schema.                        *)
ASSUME RequestsAssumption ==
    Requests \subseteq {"list", "call"} \X (Nat \ {0}) /\ {"list"} \X Prompts \subseteq Requests
ASSUME WantsAssumption == Wants \in Seq(RespondTools \union {None})
(* A respond tool is none of the other things a call or an answer names.  *)
ASSUME ToolsAssumption == {None, Tool, Permission, "error"} \intersect RespondTools = {}
ASSUME TroublesAssumption == MaxTroubles \in Nat

Closing == {"no", "client", "bridge", "done"}
PromptPC == {"idle", "schema", "listing", "send", "asking", "open", "failed"}
CancelPC == {"no", "clear", "abort"}
HarnessPC == {"idle", "asking", "running", "using", "used", "done"}

(* The session begins a prompt when the last one and its cancellation are over. *)
Ready == prompting = "idle" /\ cancelling = "no" /\ ~over

Trouble == troubles < MaxTroubles /\ troubles' = troubles + 1

----------------------------------------------------------------------------
(* Driver.Open: its steps in order, the calls of the handshake among them. *)
(* What a step checks or writes is left out, and so is session/new, a load *)
(* that replays nothing; the options name a model.                         *)

ClaudeOpen == <<"checks", "temp", "plugin", "bridge", "process", "initialize", "session", "open">>

OpenCodeHandshake == <<"initialize", "load", "model">>
OpenCodeOpen ==
    <<"checks", "temp", "config", "bridge", "process">> \o OpenCodeHandshake \o <<"session", "open">>

PiHandshake == <<"model", "state">>
PiOpen == <<"checks", "temp", "bridge files", "process">> \o PiHandshake \o <<"session", "open">>

Steps == CASE harness = "claude" -> ClaudeOpen
           [] harness = "opencode" -> OpenCodeOpen
           [] harness = "pi" -> PiOpen
StepAfter(s) == LET i == CHOOSE i \in DOMAIN Steps : Steps[i] = s IN Steps[i + 1]

Starting == {"checks", "temp", "plugin", "config", "bridge files", "bridge", "process"}
Handshake == {"initialize", "load", "model", "state"}

(* The steps that keep files in the cache, when there are any: a plugin    *)
(* with the skills, the skills, or Pi's extension, which there is always.  *)
(* Others are written to the session's directory.  What the cache holds is *)
(* followed from the beginning of the step to its end.                     *)
Keeps == {"plugin", "config", "bridge files"}
WritePlugin == harness = "claude" /\ cache.mine \in {"idle", "done"}
SkillPaths == harness = "opencode" /\ cache.mine \in {"idle", "done"}
WriteBridge == harness = "pi" /\ cache.mine = "done"
Kept == step \in Keeps => WritePlugin \/ SkillPaths \/ WriteBridge

KeepFiles ==
    /\ step \in Keeps
    /\ \E w \in Writers : FS(w) \/ Dir(w)
    /\ UNCHANGED <<clientVars, bridgeVars, step, held, closing, ex, prompting, late,
                   cancelling, troubles, harnessVars>>

Opens ==
    /\ step \in Starting /\ Kept
    /\ step' = StepAfter(step)
    /\ cache' \in IF step' \in Keeps THEN {Holding(e) : e \in Entry} ELSE {Unfollowed}
    /\ held' = held \union ({step} \intersect {"temp", "bridge", "process"})
    /\ IF step = "process" THEN StartProcess ELSE UNCHANGED <<processVars, readVars>>
    /\ IF step = "bridge" THEN Tunnel \/ Listen ELSE UNCHANGED serverVars
    /\ UNCHANGED <<harness, callVars, answerVars, closed, body, runVars, took, closing, ex,
                   prompting, late, cancelling, troubles, harnessVars>>

(* Mutant: a step that fails leaves the directory behind. *)
UndoneLess == {"bridge"}
(* What the error path of a step undoes.                                   *)
Undone == {"temp", "bridge"}

OpenFails ==
    /\ step \in Starting
    /\ step' = "failed" /\ held' = held \ Undone /\ cache' = Unfollowed
    /\ IF "bridge" \in held THEN TunnelClose \/ EndpointClose ELSE UNCHANGED <<serverVars, closed>>
    /\ UNCHANGED <<clientVars, body, runVars, took, closing, ex, prompting, late, cancelling,
                   troubles, harnessVars>>

Done(c) == call[c] \in {"ok", "refused", "exit", "gaveUp", "failed"}

(* The call of the step of the handshake.                                  *)
Again == <<"model", 2>>
StepCall == IF step = "model" /\ call[Again] # "none" THEN Again ELSE <<step, 1>>

(* Pi's setModel asks again for a model Pi does not list yet.              *)
AsksAgain == harness = "pi" /\ step = "model" /\ call[<<"model", 1>>] = "refused" /\ call[Again] = "none"

HandshakeCalls ==
    /\ step \in Handshake /\ closing = "no"
    /\ \/ call[StepCall] = "none" /\ Begin(StepCall)
       \/ AsksAgain /\ Begin(Again)
    /\ UNCHANGED <<harness, processVars, answerVars, bridgeVars, adapterVars, harnessVars>>

(* NewSession ends the opening.                                            *)
HandshakeGoesOn ==
    /\ closing = "no"
    /\ \/ step \in Handshake /\ call[StepCall] = "ok"
       \/ step = "session"
    /\ step' = StepAfter(step)
    /\ UNCHANGED <<clientVars, bridgeVars, cache, held, closing, ex, prompting, late,
                   cancelling, troubles, harnessVars>>

(* A call of the handshake failed for good, or NewSession did.             *)
HandshakeFailed ==
    step = "session" \/ (step \in Handshake /\ Done(StepCall) /\ call[StepCall] # "ok")

----------------------------------------------------------------------------
(* Connection.Close.                                                       *)

(* A close before the last turn's end is counted.                          *)
CloseBegins ==
    /\ closing = "no" /\ (step = "open" \/ HandshakeFailed)
    /\ closing' = "client" /\ step' = IF step = "open" THEN "open" ELSE "failed"
    /\ IF step # "open" \/ over \/ (ex = Len(Wants) /\ Ready)
       THEN UNCHANGED troubles ELSE Trouble
    /\ AskToExit
    /\ UNCHANGED <<harness, callVars, readVars, answerVars, serverVars, closed, body, schema,
                   run, took, cache, held, ex, prompting, late, cancelling, harnessVars>>

Close == CloseBegins /\ runOver' = IF harness = "opencode" THEN runOver ELSE TRUE

(* The client's Close returns.                                             *)
ClientClosed ==
    /\ closing = "client" /\ Exited
    /\ closing' = "bridge" /\ held' = held \ {"process"}
    /\ UNCHANGED <<clientVars, bridgeVars, openVars, ex, prompting, late, cancelling, troubles,
                   harnessVars>>

(* Then the bridge's, and the directory is removed.                        *)
ClaudeCloses == TunnelClose /\ held' = held \ {"bridge", "temp"}
OpenCodeCloses == EndpointClose /\ held' = held \ {"bridge", "temp"}
PiCloses == harness = "pi" /\ UNCHANGED <<serverVars, closed>> /\ held' = held \ {"temp"}

CloseReturns ==
    /\ closing = "bridge"
    /\ ClaudeCloses \/ OpenCodeCloses \/ PiCloses
    /\ closing' = "done"
    /\ UNCHANGED <<clientVars, body, runVars, took, openVars, ex, prompting, late, cancelling,
                   troubles, harnessVars>>

----------------------------------------------------------------------------
(* Connection.Prompt.                                                      *)

PromptCall(n) == <<"prompt", n>>
BeginsRun(n) == run' = n /\ runOver' = FALSE

ClaudePrompt == harness = "claude" /\ BeginsRun(ex') /\ prompting' = "schema" /\ UNCHANGED schema
OpenCodePrompt == harness = "opencode" /\ prompting' = "schema" /\ UNCHANGED runVars
PiPrompt == harness = "pi" /\ BeginsRun(ex') /\ schema' = Wants[ex'] /\ prompting' = "send"

Prompt ==
    /\ step = "open" /\ closing = "no" /\ Ready /\ ex + 1 \in Prompts
    /\ ex' = ex + 1
    /\ ClaudePrompt \/ OpenCodePrompt \/ PiPrompt
    /\ UNCHANGED <<clientVars, serverVars, closed, body, took, openVars, held, closing, late,
                   cancelling, troubles, harnessVars>>

PromptSets ==
    /\ prompting = "schema"
    /\ SetSchema(Wants[ex])
    /\ IF respond' = respond THEN prompting' = "send" /\ UNCHANGED late
                             ELSE prompting' = "listing" /\ late' = FALSE
    /\ UNCHANGED <<clientVars, closed, body, runVars, took, openVars, held, closing, ex,
                   cancelling, troubles, harnessVars>>

(* WaitListed, for listWait at most; Close ends its context.               *)
PromptWaits ==
    /\ prompting = "listing"
    /\ \/ Listed /\ prompting' = "send" /\ UNCHANGED late
       \/ ~Listed /\ prompting' = "send" /\ late' = TRUE
       \/ ~Listed /\ closing # "no" /\ prompting' = "failed" /\ UNCHANGED late
    /\ UNCHANGED <<clientVars, bridgeVars, openVars, held, closing, ex, cancelling, troubles,
                   harnessVars>>

(* A notification, which returns once it is written.                       *)
ClaudeSends ==
    /\ harness = "claude"
    /\ Notify(<<"message", ex>>)
    /\ prompting' = IF Writable THEN "open" ELSE "failed"
    /\ UNCHANGED <<callVars, readVars>>

(* A call, which no longer begins once Close has ended its context.        *)
CallSends ==
    /\ harness \in {"opencode", "pi"}
    /\ IF closing = "no" THEN Begin(PromptCall(ex)) ELSE UNCHANGED <<callVars, readVars>>
    /\ prompting' = IF closing = "no" THEN "asking" ELSE "failed"
    /\ UNCHANGED stdin

PromptSends ==
    /\ prompting = "send"
    /\ ClaudeSends \/ CallSends
    /\ UNCHANGED <<harness, alive, asked, stdout, answerVars, bridgeVars, openVars, held, closing,
                   ex, late, cancelling, troubles, harnessVars>>

(* OpenCode's returns once it is written, Pi's once it is answered.        *)
Prompted ==
    /\ prompting = "asking"
    /\ call[PromptCall(ex)] \notin {"open", "waiting"}
    /\ prompting' = IF call[PromptCall(ex)] \in {"sent", "ok"} THEN "open" ELSE "failed"
    /\ UNCHANGED <<clientVars, bridgeVars, openVars, held, closing, ex, late, cancelling, troubles,
                   harnessVars>>

TurnEnded == \E i \in DOMAIN seen : seen[i].kind = "ended"

(* The session's exchange is over with its end, the harness's, or the      *)
(* call's failure.                                                         *)
ExchangeOver ==
    /\ \/ prompting = "open" /\ (TurnEnded \/ over)
       \/ prompting = "failed"
    /\ prompting' = "idle" /\ seen' = <<>>
    /\ UNCHANGED <<harness, processVars, callVars, codec, reader, hand, over, answerVars,
                   bridgeVars, openVars, held, closing, ex, late, cancelling, troubles, harnessVars>>

----------------------------------------------------------------------------
(* Connection.Cancel.                                                      *)

CancelCall(w) == <<w, ex>>

(* Claude Code's and Pi's end the run's tool calls first.                  *)
ClaudeCancel ==
    /\ harness = "claude" /\ runOver' = TRUE
    /\ cancelling' = "abort" /\ Begin(CancelCall("cancel")) /\ UNCHANGED stdin

OpenCodeCancel ==
    /\ harness = "opencode"
    /\ Notify(<<"stop", ex>>) /\ UNCHANGED <<callVars, readVars, runOver, cancelling>>

PiCancel ==
    /\ harness = "pi" /\ runOver' = TRUE
    /\ cancelling' = "clear" /\ Begin(CancelCall("clear")) /\ UNCHANGED stdin

Cancel ==
    /\ prompting = "open" /\ ~TurnEnded /\ cancelling = "no" /\ closing = "no"
    /\ \A w \in {"clear", "cancel"} : call[CancelCall(w)] = "none"
    /\ Trouble
    /\ ClaudeCancel \/ OpenCodeCancel \/ PiCancel
    /\ UNCHANGED <<harness, alive, asked, stdout, answerVars, serverVars, closed, body,
                   schema, run, took, openVars, held, closing, ex, prompting, late, harnessVars>>

CancelGoesOn ==
    /\ cancelling = "clear" /\ call[CancelCall("clear")] = "ok"
    /\ cancelling' = "abort"
    /\ Begin(CancelCall("cancel"))
    /\ UNCHANGED <<harness, processVars, answerVars, bridgeVars, openVars, held, closing, ex,
                   prompting, late, troubles, harnessVars>>

CancelOver ==
    /\ \/ cancelling = "clear" /\ Done(CancelCall("clear")) /\ call[CancelCall("clear")] # "ok"
       \/ cancelling = "abort" /\ Done(CancelCall("cancel"))
    /\ cancelling' = "no"
    /\ UNCHANGED <<clientVars, bridgeVars, openVars, held, closing, ex, prompting, late, troubles,
                   harnessVars>>

(* The calls whose context may end before their answer: all but a prompt   *)
(* by a deadline, and each that has the session's context by Close.        *)
GivesUp(c) ==
    /\ c[1] = "prompt" => closing # "no"
    /\ Forget(c)
    /\ IF closing = "no" THEN Trouble ELSE UNCHANGED troubles
    /\ UNCHANGED <<bridgeVars, openVars, held, closing, ex, prompting, late, cancelling, harnessVars>>

CallNext(c) ==
    /\ WriteCall(c) \/ Return(c)
    /\ UNCHANGED <<bridgeVars, adapterVars, harnessVars>>

ReaderNext ==
    /\ Dispatch \/ Resolve \/ Shutdown \/ EventsClose
    /\ UNCHANGED <<bridgeVars, adapterVars, harnessVars>>

HandlerNext(r) ==
    /\ RequestNext(r) \/ (ToolReturns(r))
    /\ UNCHANGED <<adapterVars, harnessVars>>

ReplyNext(r) ==
    /\ harness # "opencode" \/ body[r] = Permission
    /\ Reply(r)
    /\ UNCHANGED <<bridgeVars, adapterVars, harnessVars>>

----------------------------------------------------------------------------
(* The harness.                                                            *)

Blank == [type |-> "start", request |-> <<>>, call |-> <<>>, tool |-> None, ok |-> TRUE,
          text |-> None, how |-> "ok"]
Line(t) == [Blank EXCEPT !.type = t]
Asks(r) == [Line("request") EXCEPT !.request = r]
Responds(c, how) == [Line("response") EXCEPT !.call = c, !.how = how]
Hows == {"ok", "error"}

Writes(lines) == stdout' = stdout \o lines
StdinTaken == stdin # <<>> /\ stdin' = Tail(stdin)
HarnessKeeps == UNCHANGED <<harness, alive, asked, callVars, readVars, result, answers,
                            serverVars, closed, runVars, took, adapterVars>>

Stops(line) == aborted' = IF hrun = 0 THEN <<>> ELSE line

(* Pi settles the run it aborts, and only then answers.                    *)
Settles(line) == harness = "pi" /\ line[1] = "cancel" /\ hrun # 0

(* A command it answers and that starts no run.  A load replays updates    *)
(* first.                                                                  *)
HarnessAnswers ==
    /\ alive /\ StdinTaken
    /\ LET c == Head(stdin) IN
       /\ c[1] \in Handshake \union {"clear", "cancel"} /\ ~Settles(c)
       /\ told' = told \union {c}
       /\ CASE c[1] = "load" ->
                   /\ \E how \in Hows : Writes(<<Line("start"), Responds(c, how)>>)
                   /\ UNCHANGED aborted
            [] c[1] = "cancel" ->
                   /\ Writes(<<Responds(c, "ok")>>)
                   /\ Stops(c)
            [] OTHER ->
                   /\ \E how \in Hows : Writes(<<Responds(c, how)>>)
                   /\ UNCHANGED aborted
    /\ UNCHANGED <<at, body, hrun, hpc, known, limited>> /\ HarnessKeeps

(* A prompt; Pi may refuse it, and asks for its schema before it runs.     *)
HarnessRuns ==
    /\ alive /\ StdinTaken /\ hrun = 0
    /\ LET c == Head(stdin) IN
       /\ c[1] \in {"message", "prompt"}
       /\ \/ /\ harness = "pi" /\ Writes(<<Responds(c, "error")>>)
             /\ told' = told \union {c} /\ UNCHANGED <<hrun, hpc>>
          \/ /\ harness = "pi" /\ Writes(<<Responds(c, "ok"), Asks(<<"list", c[2]>>)>>)
             /\ told' = told \union {c} /\ hrun' = c[2] /\ hpc' = "asking"
          \/ /\ harness # "pi" /\ Writes(<<Line("start")>>)
             /\ hrun' = c[2] /\ hpc' = "running" /\ UNCHANGED told
          \/ /\ harness = "opencode" /\ Writes(<<>>)
             /\ hrun' = c[2] /\ hpc' = "running" /\ UNCHANGED told
    /\ aborted' = <<>> /\ limited' = FALSE
    /\ UNCHANGED <<at, body, known>> /\ HarnessKeeps

HarnessStops ==
    /\ alive /\ StdinTaken /\ (Head(stdin)[1] = "stop" \/ Settles(Head(stdin)))
    /\ Stops(Head(stdin))
    /\ UNCHANGED <<stdout, at, body, hrun, hpc, known, limited, told>> /\ HarnessKeeps

(* What it does with the answer to a request, if its run still waits for   *)
(* it.                                                                     *)
Learns(r) == known' = IF result[r] = "error" THEN known ELSE result[r]
Heard(r) ==
    /\ hpc' = CASE r = <<"call", hrun>> /\ hpc = "using" -> "used"
                [] r = <<"list", hrun>> /\ hpc = "asking" -> "running"
                [] OTHER -> hpc
    /\ IF IsList(r) THEN Learns(r) ELSE UNCHANGED known

HarnessHears(r) ==
    /\ alive /\ StdinTaken /\ Head(stdin) = <<"answer", r>>
    /\ Heard(r)
    /\ Writes(IF hpc = "asking" /\ hpc' = "running" THEN <<Line("start")>> ELSE <<>>)
    /\ UNCHANGED <<at, body, hrun, aborted, limited, told>> /\ HarnessKeeps

(* OpenCode has its answers from the endpoint.                             *)
HarnessFetches(r) ==
    /\ alive /\ harness = "opencode" /\ body[r] # Permission
    /\ at[r] = "answered" /\ At(r, "gone")
    /\ Heard(r)
    /\ UNCHANGED <<stdin, stdout, body, hrun, aborted, limited, told>> /\ HarnessKeeps

Heeded(r) == at[r] = "gone" /\ \A i \in DOMAIN stdin : stdin[i] # <<"answer", r>>
Fresh(r) == at[r] = "none" /\ \A i \in DOMAIN stdout : stdout[i].request # r

(* It lists the tools once by itself and again for each change, one        *)
(* listing after the other.                                                *)
HarnessLists(r) ==
    /\ alive /\ harness # "pi" /\ <<IF harness = "claude" THEN "initialize" ELSE "load", 1>> \in told
    /\ IsList(r) /\ Fresh(r) /\ r[2] <= gen + 1
    /\ \A n \in 1 .. r[2] - 1 : Heeded(<<"list", n>>)
    /\ IF harness = "claude" THEN Writes(<<Asks(r)>>) /\ UNCHANGED at
                             ELSE At(r, "pushed") /\ UNCHANGED stdout
    /\ UNCHANGED <<stdin, body, hrun, hpc, aborted, known, limited, told>> /\ HarnessKeeps

(* The run's call, which OpenCode shows before it runs or twice as it      *)
(* runs.  Pi carries out a respond call by itself.                         *)
HarnessUses(tool) ==
    /\ alive /\ hpc = "running"
    /\ <<"call", hrun>> \in Requests
    /\ tool \in {Tool, Permission, known} \ {None} /\ (harness = "pi" => tool # Permission)
    /\ LET r == <<"call", hrun>>
           use == [Line("use") EXCEPT !.tool = tool]
           waits == [use EXCEPT !.ok = FALSE]
           byClient == harness # "opencode" \/ tool = Permission
       IN  /\ body' = [body EXCEPT ![r] = tool]
           /\ IF harness = "pi" /\ IsRespond(tool)
              THEN Writes(<<use>>) /\ hpc' = "used" /\ UNCHANGED at
              ELSE /\ hpc' = "using"
                   /\ \E uses \in IF tool = Permission THEN {<<>>}
                                   ELSE IF harness = "opencode"
                                   THEN {<<waits>>} \union (IF IsRespond(tool) THEN {} ELSE {<<use, use>>})
                                   ELSE {<<use>>} :
                        Writes(uses \o (IF byClient THEN <<Asks(r)>> ELSE <<>>))
                   /\ IF byClient THEN UNCHANGED at ELSE At(r, "pushed")
    /\ UNCHANGED <<stdin, hrun, aborted, known, limited, told>> /\ HarnessKeeps

(* Its report of the call: the status of a respond call may be anything,   *)
(* and Pi validates the arguments itself.                                  *)
HarnessReports ==
    /\ alive /\ hpc = "used"
    /\ hpc' = "done"
    /\ LET tool == body[<<"call", hrun>>] IN
       \E ok \in BOOLEAN, text \in {Accepted, result[<<"call", hrun>>]} :
         /\ harness # "pi" \/ ~IsRespond(tool) => text = result[<<"call", hrun>>]
         /\ ~IsRespond(tool) => ok
         /\ Writes(IF tool = Permission THEN <<>>
                   ELSE <<[Line("result") EXCEPT !.tool = tool, !.ok = ok, !.text = text]>>)
    /\ UNCHANGED <<stdin, at, body, hrun, aborted, known, limited, told>> /\ HarnessKeeps

(* The run's end, which OpenCode's answer to the prompt is.  Claude Code   *)
(* may report that a limit refuses it.                                     *)
HarnessEnds ==
    /\ alive /\ hrun # 0 /\ (hpc \in {"running", "done"} \/ (aborted # <<>> /\ hpc # "asking"))
    /\ \E how \in Hows, limit \in BOOLEAN :
         LET h == IF aborted # <<>> THEN "aborted" ELSE how
             last(t) == [Line(t) EXCEPT !.how = h]
         IN  /\ limit => harness = "claude" /\ aborted = <<>>
             /\ limited' = (limited \/ limit)
             /\ Writes(CASE harness = "claude" ->
                              (IF limit THEN <<Line("limit")>> ELSE <<>>) \o <<last("end")>>
                         [] harness = "opencode" -> <<Responds(PromptCall(hrun), h)>>
                         [] harness = "pi" -> <<last("message"), Line("end")>> \o
                              (IF aborted # <<>> THEN <<Responds(aborted, "ok")>> ELSE <<>>))
    /\ told' = told \union (CASE harness = "opencode" -> {PromptCall(hrun)}
                              [] harness = "pi" /\ aborted # <<>> -> {aborted}
                              [] OTHER -> {})
    /\ hrun' = 0 /\ hpc' = "idle" /\ aborted' = <<>>
    /\ UNCHANGED <<stdin, at, body, known>> /\ HarnessKeeps

(* It exits at the end of its input, when it is killed, or by itself.      *)
HarnessExits ==
    /\ ProcessEnds
    /\ IF asked THEN UNCHANGED troubles ELSE Trouble
    /\ hrun' = 0 /\ hpc' = "idle" /\ aborted' = <<>> /\ known' = None
    /\ UNCHANGED <<harness, asked, stdout, callVars, readVars, answerVars, bridgeVars,
                   openVars, held, closing, ex, prompting, late, cancelling, limited, told>>

HarnessNext ==
    \/ HarnessAnswers \/ HarnessRuns \/ HarnessStops
    \/ \E r \in Requests : HarnessHears(r) \/ HarnessFetches(r) \/ HarnessLists(r)
    \/ \E tool \in RespondTools \union {Tool, Permission} : HarnessUses(tool)
    \/ HarnessReports \/ HarnessEnds \/ HarnessExits

----------------------------------------------------------------------------

Init ==
    /\ InitClient /\ InitBridge
    /\ step = "checks" /\ cache = Unfollowed /\ held = {} /\ closing = "no"
    /\ ex = 0 /\ prompting = "idle" /\ late = FALSE /\ cancelling = "no" /\ troubles = 0
    /\ hrun = 0 /\ hpc = "idle" /\ aborted = <<>> /\ known = None /\ limited = FALSE
    /\ told = {}

OpenNext == KeepFiles \/ Opens \/ OpenFails \/ HandshakeCalls \/ HandshakeGoesOn
CloseNext == Close \/ ClientClosed \/ CloseReturns
PromptNext == Prompt \/ PromptSets \/ PromptWaits \/ PromptSends \/ Prompted \/ ExchangeOver
CancelNext == Cancel \/ CancelGoesOn \/ CancelOver

(* The session failed to open, or is closed.                               *)
Terminated ==
    /\ closing = "done" \/ (step = "failed" /\ closing = "no")
    /\ UNCHANGED vars

Next ==
    \/ OpenNext \/ CloseNext \/ PromptNext \/ CancelNext
    \/ \E c \in Calls : GivesUp(c) \/ CallNext(c)
    \/ ReaderNext
    \/ \E r \in Requests : HandlerNext(r) \/ ReplyNext(r)
    \/ HarnessNext
    \/ Terminated

Spec == Init /\ [][Next]_vars
=============================================================================
