-------------------------------- MODULE Codecs --------------------------------
(***************************************************************************)
(* What the three adapters make of a line their harness writes             *)
(* (claude/codec.go, opencode/codec.go, pi/codec.go), as functions of the  *)
(* codec's state.  A frame carries a response, a request or events; events *)
(* with no normalized meaning (EventHarness), deltas, notices and usage    *)
(* are left out.  Text is what the harness quotes of the driver's answer   *)
(* to a tool call, and a tool's name is all that is kept of a call.        *)
(***************************************************************************)
EXTENDS Naturals, Sequences

CONSTANT RespondTools   \* the names of respond tools, one for each schema

None == "none"
Accepted == "accepted"
IsRespond(tool) == tool \in RespondTools

(* A codec's state: the prompts and loads in flight, whether the turn has  *)
(* reported EventStarted, the tool calls reported (OpenCode), the respond  *)
(* calls whose result is awaited and whether a limit refused the turn      *)
(* (Claude Code).  Pi's keeps nothing.                                     *)
NewCodec == [prompts |-> {}, loads |-> {}, started |-> FALSE, called |-> {}, responds |-> {},
             limit |-> FALSE]

Event(k, tool) == [kind |-> k, tool |-> tool]
Plain(k) == Event(k, None)
When(condition, k) == IF condition THEN <<Plain(k)>> ELSE <<>>

Frame(c, events) == [codec |-> c, events |-> events, response |-> <<>>, request |-> <<>>]
ResponseFrame(c, l, events) == [Frame(c, events) EXCEPT !.response = <<l.call, l.how # "error">>]
RequestFrame(c, l) == [Frame(c, <<>>) EXCEPT !.request = l.request]

(* Mutant: the harness's report of the call decides, not the bridge's verdict. *)
ByStatus(l) == l.ok
(* The bridge's verdict decides, not the harness's report of it alone.     *)
Verdict(l) == l.ok /\ l.text = Accepted

Outcome(l) == IF Verdict(l) THEN Event("structured", l.tool) ELSE Plain("rejected")

(* How a turn may end besides well.                                        *)
Why(how, error) == When(how = "aborted", "cancelled") \o When(how = "error", error)

----------------------------------------------------------------------------
(* Claude Code: a turn is init .. result.                                  *)

ClaudeToolCalls(c, l) ==
    IF IsRespond(l.tool) THEN Frame([c EXCEPT !.responds = @ \union {l.tool}], <<>>)
                         ELSE Frame(c, <<Plain("toolCall")>>)

ClaudeToolResults(c, l) ==
    IF l.tool \in c.responds THEN Frame([c EXCEPT !.responds = @ \ {l.tool}], <<Outcome(l)>>)
                             ELSE Frame(c, <<Plain("toolResult")>>)

ClaudeTurnError(c) == IF c.limit THEN "limit" ELSE "error"

ClaudeEnd(c, how) ==
    Frame([c EXCEPT !.responds = {}], Why(how, ClaudeTurnError(c)) \o <<Plain("ended")>>)

(* Mutant: a rejected limit of an earlier turn explains this one's failure. *)
LimitKept(c) == c
LimitForgotten(c) == [c EXCEPT !.limit = FALSE]

ClaudeNormalize(c, l) ==
    CASE l.type = "start" -> Frame(LimitForgotten(c), <<Plain("started")>>)
      [] l.type = "limit" -> Frame([c EXCEPT !.limit = TRUE], <<>>)
      [] l.type = "use" -> ClaudeToolCalls(c, l)
      [] l.type = "result" -> ClaudeToolResults(c, l)
      [] l.type = "end" -> ClaudeEnd(c, l.how)

ClaudeDecode(c, l) ==
    CASE l.type = "response" -> ResponseFrame(c, l, <<>>)
      [] l.type = "request" -> RequestFrame(c, l)
      [] OTHER -> ClaudeNormalize(c, l)

----------------------------------------------------------------------------
(* OpenCode: a turn is what comes before the answer of session/prompt.  A  *)
(* call is pending (~l.ok) before it runs.                                 *)

(* Mutant: every update of a call that runs reports it. *)
CallUnmarked(c, l) == c
CallMarked(c, l) == [c EXCEPT !.called = @ \union {l.tool}]

OpenCodeTool(c, l) ==
    LET first == l.tool \notin c.called /\ ~IsRespond(l.tool)
    IN  CASE l.type = "use" /\ l.ok -> Frame(CallMarked(c, l), When(first, "toolCall"))
          [] l.type = "use" /\ ~l.ok -> Frame(c, <<>>)
          [] l.type = "result" ->
                Frame([c EXCEPT !.called = @ \ {l.tool}],
                      When(first, "toolCall")
                      \o <<IF IsRespond(l.tool) THEN Outcome(l) ELSE Plain("toolResult")>>)

(* Any other update shows as the turn's start at most. *)
OpenCodeUpdate(c, l) ==
    IF l.type \in {"use", "result"} THEN OpenCodeTool(c, l) ELSE Frame(c, <<>>)

(* Mutant: a replay is taken for the turn's updates. *)
TurnOpen(c) == TRUE
(* An update while a load is in flight replays the session's history.      *)
InTurn(c) == c.loads = {} /\ c.prompts # {}

OpenCodeNotification(c, l) ==
    LET f == OpenCodeUpdate(c, l)
    IN  IF InTurn(c)
        THEN Frame([f.codec EXCEPT !.started = TRUE], When(~c.started, "started") \o f.events)
        ELSE Frame(c, <<>>)

OpenCodeEnd(c, l) ==
    ResponseFrame([c EXCEPT !.prompts = @ \ {l.call}, !.started = FALSE, !.called = {}], l,
                  When(~c.started, "started") \o Why(l.how, "error") \o <<Plain("ended")>>)

OpenCodeDecode(c, l) ==
    CASE l.type = "request" -> RequestFrame(c, l)
      [] l.type = "response" /\ l.call \in c.prompts -> OpenCodeEnd(c, l)
      [] l.type = "response" /\ l.call \notin c.prompts ->
            ResponseFrame([c EXCEPT !.loads = @ \ {l.call}], l, <<>>)
      [] OTHER -> OpenCodeNotification(c, l)

(* Encode notes a prompt or a load; it starts a turn afresh.               *)
OpenCodeEncode(c, call) ==
    CASE call[1] = "prompt" -> [c EXCEPT !.prompts = @ \union {call}, !.started = FALSE]
      [] call[1] = "load" -> [c EXCEPT !.loads = @ \union {call}]
      [] OTHER -> c

----------------------------------------------------------------------------
(* Pi: a turn is agent_start .. agent_settled.                             *)

(* Pi validates a respond call itself: text is Accepted when the result    *)
(* carries the arguments as its details.                                   *)
PiStructured(l) == IF l.ok /\ l.text # Accepted THEN Plain("error") ELSE Outcome(l)

PiMessageEnd(l) == Why(l.how, "error")

PiNormalize(l) ==
    CASE l.type = "start" -> <<Plain("started")>>
      [] l.type = "use" -> When(~IsRespond(l.tool), "toolCall")
      [] l.type = "result" -> <<IF IsRespond(l.tool) THEN PiStructured(l) ELSE Plain("toolResult")>>
      [] l.type = "message" -> PiMessageEnd(l)
      [] l.type = "end" -> <<Plain("ended")>>

PiDecode(c, l) ==
    CASE l.type = "request" -> RequestFrame(c, l)
      [] l.type = "response" -> ResponseFrame(c, l, <<>>)
      [] OTHER -> Frame(c, PiNormalize(l))

----------------------------------------------------------------------------
(* The codec of the harness h.                                             *)

Encode(h, c, call) == IF h = "opencode" THEN OpenCodeEncode(c, call) ELSE c

Decode(h, c, l) ==
    CASE h = "claude" -> ClaudeDecode(c, l)
      [] h = "opencode" -> OpenCodeDecode(c, l)
      [] h = "pi" -> PiDecode(c, l)
=============================================================================
