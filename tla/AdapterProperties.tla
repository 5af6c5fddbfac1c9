-------------------------- MODULE AdapterProperties --------------------------
(***************************************************************************)
(* What an adapter owes the session above it and the harness below it,     *)
(* over whole behaviours of the client, the bridge and the harness.        *)
(***************************************************************************)
EXTENDS Adapter

(* Types, and the bounds of the protocol: a run has one call at most, and  *)
(* a closed client has failed its calls.                                   *)
TypeOK ==
    /\ harness \in {"claude", "opencode", "pi"} /\ alive \in BOOLEAN /\ asked \in BOOLEAN
    /\ reader \in ReaderPC /\ pending \subseteq Calls /\ failed \in BOOLEAN
    /\ call \in [Calls -> CallPC] /\ at \in [Requests -> RequestPC]
    /\ answers \in BOOLEAN /\ over \in BOOLEAN
    /\ gen \in 0 .. Len(Wants) /\ listedGen \in 0 .. gen
    /\ started \in Nat /\ gens \in [Requests -> 0 .. gen]
    /\ respond \in RespondTools \union {None} /\ installed \in RespondTools \union {None}
    /\ serving \in BOOLEAN /\ closed \in BOOLEAN
    /\ run \in 0 .. ex /\ runOver \in BOOLEAN /\ took \in [Requests -> 0 .. ex]
    /\ step \in {Steps[i] : i \in DOMAIN Steps} \union {"failed"} /\ held \subseteq {"temp", "bridge", "process"} /\ closing \in Closing
    /\ cache \in [entry : Entry, mine : DirPC, theirs : DirPC, spoilt : BOOLEAN]
    /\ ex \in 0 .. Len(Wants) /\ prompting \in PromptPC /\ late \in BOOLEAN
    /\ cancelling \in CancelPC /\ troubles \in 0 .. MaxTroubles
    /\ hrun \in 0 .. ex /\ hpc \in HarnessPC
    /\ aborted \in {<<>>} \union ({"cancel", "stop"} \X (1 .. ex))
    /\ known \in RespondTools \union {None} /\ limited \in BOOLEAN
    /\ told \subseteq Calls

(* Send's promise (client.go): each call's channel gets exactly one        *)
(* Response.  It is the harness's whenever the harness answered and the    *)
(* caller still waited, even if the harness exited right after.            *)
OneResponse ==
    \A c \in Calls :
      /\ Len(chan[c]) <= 1
      /\ chan[c] = <<"exit">> => c \notin told
      /\ call[c] \in {"waiting", "sent"} /\ reader \in {"wait", "done"} => chan[c] # <<>>

(* WaitListed's promise (server.go): when a prompt is sent, and the wait   *)
(* since the tool last changed did not run out of time, then if a listing  *)
(* began before the change, another has answered with the tool the prompt  *)
(* asks for.                                                               *)
Listing(r) == IsList(r) /\ at[r] \in {"listing", "listed", "answered", "gone"}
NoStaleTool ==
    prompting = "send" /\ ~late /\ alive /\ ~closed =>
      \A r \in Requests : Listing(r) /\ gens[r] < gen =>
        \E q \in Requests : IsList(q) /\ at[q] \in {"answered", "gone"} /\ result[q] = Wants[ex]

(* A structured response is the one the open exchange asked for, whatever  *)
(* the harness still lists, calls or reports (mcpbridge.Accepted,          *)
(* handleRespond).                                                         *)
ResponseIsAsked ==
    \A i \in DOMAIN seen : seen[i].kind = "structured" => ex > 0 /\ seen[i].tool = Wants[ex]

(* A turn's failure is a usage limit's only if the limit was reported in   *)
(* that turn (claude/codec.go, normalize): by a notice, which the codec    *)
(* has to remember until the result; what the result itself says of a      *)
(* limit (turnError) is its own.                                           *)
LimitIsTheTurns == \A i \in DOMAIN seen : seen[i].kind = "limit" => limited

(* The events of an exchange are a whole turn: they begin with its start,  *)
(* there is one, a tool call is told once and before its result, nothing   *)
(* follows the end, and none come between exchanges, such as those of a    *)
(* history replayed (opencode/codec.go, notification and tool).            *)
Kind(i) == seen[i].kind
TurnIsWhole ==
    /\ Ready /\ closing = "no" => seen = <<>>
    /\ prompting # "idle" => \A i \in DOMAIN seen :
         /\ (Kind(i) = "started") <=> (i = 1)
         /\ Kind(i) = "ended" => i = Len(seen)
         /\ Kind(i) = "toolResult" => \E j \in 1 .. i : Kind(j) = "toolCall"
         /\ \A j \in DOMAIN seen : Kind(i) = "toolCall" /\ Kind(j) = "toolCall" => i = j

(* The files Open hands its harness are whole (cache.go): once Dir has     *)
(* returned, the entry has all its content, whatever another process did   *)
(* to it meanwhile, except one that had found it damaged, until that has   *)
(* written it again.  With that exception "no session's files change under *)
(* it" does not hold: that process removes what it found damaged after     *)
(* this one has made it whole.                                             *)
FilesAreWhole ==
    cache.mine = "done" /\ (cache.spoilt => cache.theirs = "done") => cache.entry = "whole"

(* A session that failed to open or was closed leaves nothing behind: no   *)
(* process, no server registered, no temporary directory.                  *)
NothingLeft ==
    closing = "done" \/ (step = "failed" /\ closing = "no") => held = {} /\ ~alive /\ ~serving
=============================================================================
