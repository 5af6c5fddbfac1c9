-------------------------------- MODULE Bridge --------------------------------
(***************************************************************************)
(* The driver's tools as a harness reaches them: the MCP server with its   *)
(* respond tool and its listings, the tunnel of Claude Code and the        *)
(* endpoint of OpenCode (mcpbridge), and the dialogs of Pi's bridge        *)
(* extension (pi/bridge.go).                                               *)
(*                                                                         *)
(* A request is a listing, <<"list", n>>, or the one call of the run of a  *)
(* prompt, <<"call", n>>: of a respond tool, of the session's tool or for  *)
(* a permission.  Claude Code relays both over the client and Pi asks by   *)
(* dialogs; OpenCode's come to the endpoint by themselves, but for the     *)
(* permission.  The go-sdk server is external: it runs each request on a   *)
(* goroutine and lists the tools installed in it.                          *)
(***************************************************************************)
EXTENDS StdioClient

VARIABLES
    respond,    \* Server.respond, "none" when no schema is set
    gen, listedGen, started,  \* as in Server
    installed,  \* the respond tool the go-sdk server lists
    serving,    \* Server.servers holds the go-sdk server
    gens,       \* [Requests -> Nat]: gen as the listing arrived
    closed,     \* the tunnel or the endpoint is closed
    body,       \* [Requests -> the tool a call names]
    schema,     \* Pi's connection.schema, as the respond tool it asks for
    run,        \* the prompt whose context Connection.run is
    runOver,    \* that context has ended, as those of earlier prompts have
    took        \* [Requests -> the run whose context a tool call runs under]

serverVars == <<respond, gen, listedGen, started, installed, serving, gens>>
runVars    == <<schema, run, runOver>>
bridgeVars == <<serverVars, closed, body, runVars, took>>

Tool == "tool"
Permission == "permission"
IsList(r) == r[1] = "list"

At(r, p) == at' = [at EXCEPT ![r] = p]
Answered(r, v) == At(r, "answered") /\ result' = [result EXCEPT ![r] = v]

----------------------------------------------------------------------------
(* The server's schema and listings.                                       *)

(* SetSchema under the server's lock; the same tool again changes nothing. *)
(* Taking the old tool off and putting the new one on are one step: only a *)
(* listing that arrived before could read between the two.                 *)
SetSchema(tool) ==
    /\ respond' = tool
    /\ gen' = IF tool = respond THEN gen ELSE gen + 1
    /\ installed' = IF serving THEN tool ELSE installed
    /\ UNCHANGED <<listedGen, started, serving, gens>>

(* WaitListed has nothing to wait for.                                     *)
Listed == started = 0 \/ listedGen >= gen

(* newServer installs what is set and registers the server, for the tunnel *)
(* of Claude Code and the endpoint of OpenCode; their Close removes it.    *)
NewServer ==
    /\ serving' = TRUE /\ installed' = respond
    /\ UNCHANGED <<respond, gen, listedGen, started, gens>>
Remove ==
    /\ serving' = FALSE /\ closed' = TRUE
    /\ UNCHANGED <<respond, gen, listedGen, started, installed, gens>>

Tunnel == harness = "claude" /\ NewServer
Listen == harness = "opencode" /\ NewServer
TunnelClose == harness = "claude" /\ Remove
EndpointClose == harness = "opencode" /\ Remove

(* Mutant: the generation as it stands when the answer is out. *)
GenAtAnswer(r) == gen
(* Mutant: an answered listing counts as that of a later change. *)
GenAfter(r) == gens[r] + 1
(* The generation as it stood when the request arrived.                    *)
GenAtArrival(r) == gens[r]

(* A request reaches the go-sdk server: Claude Code's by Tunnel.Deliver,   *)
(* OpenCode's by the endpoint.                                             *)
Delivered(r) == harness = "claude" /\ ~closed /\ at[r] = IF IsList(r) THEN "begun" ELSE "taken"
Served(r) == harness = "opencode" /\ at[r] = "pushed"
Arrives(r) == Delivered(r) \/ Served(r)

(* routeRespond around a tools/list: its arrival, the tools read, and the  *)
(* answer.                                                                 *)
ListArrives(r) ==
    /\ Arrives(r) /\ IsList(r)
    /\ At(r, "listing")
    /\ gens' = [gens EXCEPT ![r] = gen] /\ started' = started + 1
    /\ UNCHANGED <<harness, processVars, callVars, readVars, result, answers, respond,
                   listedGen, gen, installed, serving, closed, body, runVars, took>>

ListReads(r) ==
    /\ at[r] = "listing"
    /\ At(r, "listed") /\ result' = [result EXCEPT ![r] = installed]
    /\ UNCHANGED <<harness, processVars, callVars, readVars, answers, bridgeVars>>

(* The context of the request's handler: a call's ends with its run too.   *)
Ended(r) == ~answers \/ (r[1] = "call" /\ (took[r] < run \/ (took[r] = run /\ runOver)))

(* Nobody waits for the answer any more: the context ended or the tunnel   *)
(* closed; a request to the endpoint ends with its connection.             *)
DeliverEnds(r) == harness = "claude" /\ (Ended(r) \/ closed)
ConnectionEnds == harness = "opencode" /\ (closed \/ ~alive)
Abandoned(r) == DeliverEnds(r) \/ ConnectionEnds \/ (harness = "pi" /\ Ended(r))

(* The connection hands an answer to who waits for it, and drops it when   *)
(* nobody does any more.                                                   *)
HandOver(r) ==
    \/ UNCHANGED result
    \/ Abandoned(r) /\ result' = [result EXCEPT ![r] = "error"]

(* The listing counts once it is answered, whether or not that still       *)
(* reaches whoever asked.                                                  *)
ListAnswers(r) ==
    /\ at[r] = "listed"
    /\ At(r, "answered")
    /\ listedGen' = IF GenAtArrival(r) > listedGen THEN GenAtArrival(r) ELSE listedGen
    /\ HandOver(r)
    /\ UNCHANGED <<harness, processVars, callVars, readVars, answers, respond, gen, started,
                   installed, serving, gens, closed, body, runVars, took>>

----------------------------------------------------------------------------
(* Calls.                                                                  *)

(* Mutant: a respond tool of an earlier schema will do. *)
AcceptsAny(tool) == respond # None
(* handleRespond takes a call to the current respond tool only.            *)
Accepts(tool) == respond # None /\ tool = respond

(* The arguments may not match the schema.                                 *)
Respond(r) ==
    /\ Arrives(r) /\ IsRespond(body[r])
    /\ \/ Accepts(body[r]) /\ Answered(r, Accepted)
       \/ Answered(r, "rejected")
    /\ UNCHANGED <<harness, processVars, callVars, readVars, answers, bridgeVars>>

(* handleTool and answerCall: the tool's handler runs, for how long none   *)
(* can say, and returns a text or fails.                                   *)
Runs(r) == body[r] = Tool /\ At(r, "running")
HandleTool(r) == Arrives(r) /\ Runs(r)
AnswerCall(r) == harness = "pi" /\ at[r] = "taken" /\ Runs(r)

RunTool(r) ==
    /\ HandleTool(r) \/ AnswerCall(r)
    /\ UNCHANGED <<harness, processVars, callVars, readVars, result, answers, bridgeVars>>

ToolReturns(r) ==
    /\ at[r] = "running"
    /\ Answered(r, "text")
    /\ UNCHANGED <<harness, processVars, callVars, readVars, answers, bridgeVars>>

----------------------------------------------------------------------------
(* The adapters' handlers, and Tunnel.Deliver.                             *)

(* A tool call takes the context of the run as it stands.                  *)
Takes(r) == At(r, "taken") /\ took' = [took EXCEPT ![r] = run]
Relay(r) == harness = "claude" /\ Takes(r)
CallDialog(r) == harness = "pi" /\ Takes(r)

TakeRun(r) ==
    /\ at[r] = "begun" /\ r[1] = "call" /\ body[r] # Permission
    /\ Relay(r) \/ CallDialog(r)
    /\ UNCHANGED <<harness, processVars, callVars, readVars, result, answers, serverVars,
                   closed, body, runVars>>

InHand(r) ==
    \/ at[r] \in {"taken", "pushed", "listing", "listed", "running"}
    \/ harness = "claude" /\ IsList(r) /\ at[r] = "begun"

(* The answer is an error then; a handler of Pi's sees the context itself. *)
GiveUp(r) ==
    /\ InHand(r) /\ Abandoned(r)
    /\ Answered(r, "error")
    /\ UNCHANGED <<harness, processVars, callVars, readVars, answers, bridgeVars>>

(* A permission, and Pi's dialog for the schema, are answered at once.     *)
Permit(r) == harness = "claude" /\ body[r] = Permission /\ Answered(r, "allow or deny")
AnswerPermission(r) == harness = "opencode" /\ body[r] = Permission /\ Answered(r, "once")
AnswerExchange(r) == harness = "pi" /\ IsList(r) /\ Answered(r, schema)

AnswerAtOnce(r) ==
    /\ at[r] = "begun"
    /\ Permit(r) \/ AnswerPermission(r) \/ AnswerExchange(r)
    /\ UNCHANGED <<harness, processVars, callVars, readVars, answers, bridgeVars>>

RequestNext(r) ==
    \/ ListArrives(r) \/ ListReads(r) \/ ListAnswers(r) \/ Respond(r) \/ RunTool(r)
    \/ TakeRun(r) \/ GiveUp(r) \/ AnswerAtOnce(r)

InitBridge ==
    /\ respond = None /\ gen = 0 /\ listedGen = 0 /\ started = 0
    /\ installed = None /\ serving = FALSE
    /\ gens = [r \in Requests |-> 0] /\ closed = FALSE
    /\ body = [r \in Requests |-> None]
    /\ schema = None /\ run = 0 /\ runOver = FALSE
    /\ took = [r \in Requests |-> 0]
=============================================================================
