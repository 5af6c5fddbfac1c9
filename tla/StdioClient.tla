----------------------------- MODULE StdioClient -----------------------------
(***************************************************************************)
(* The client of a line-protocol harness and the process under it          *)
(* (harness/stdio): the calls in flight, the goroutine read with its       *)
(* dispatch and shutdown, the goroutines that answer the harness's         *)
(* requests, and the process from Start to the end of its lines.           *)
(*                                                                         *)
(* A process outside the harness's group that holds its pipes only delays  *)
(* the end of its output, by the wait delay at most, and is left out.      *)
(***************************************************************************)
EXTENDS Codecs

CONSTANTS
    Calls,     \* <<what, n>>: the calls of the driver, each with an id of its own
    Requests   \* <<what, n>>: the requests of the harness, each with an id of its own

VARIABLES
    harness,   \* "claude", "opencode" or "pi": whose adapter this is, for good
    alive,     \* the harness process runs
    asked,     \* Close has cancelled the process's context, which closes its input
    stdin,     \* lines the harness has not read
    stdout,    \* lines the harness has written and read has not taken
    codec,     \* the codec's state
    reader,    \* where Client.read is; "none" before NewClient
    hand,      \* the frame whose response read is about to send, or <<>>
    pending,   \* calls.pending
    failed,    \* calls.err is set
    call,      \* [Calls -> CallPC]: where the caller of each call is
    chan,      \* [Calls -> Seq(Response)]: all that was sent on the call's channel
    at,        \* [Requests -> RequestPC]: where the answer to each request is
    result,    \* [Requests -> the answer, or "none"]
    answers,   \* Client.answers, the context of the handlers, lives
    seen,      \* the events pushed, but those of an exchange that is over
    over       \* Events is closed

processVars == <<alive, asked, stdin, stdout>>
callVars    == <<pending, failed, call, chan>>
readVars    == <<codec, reader, hand, seen, over>>
answerVars  == <<at, result, answers>>
clientVars  == <<harness, processVars, callVars, readVars, answerVars>>

CallPC == {"none", "open", "waiting", "sent", "ok", "refused", "exit", "gaveUp", "failed"}
RequestPC == {"none", "begun", "taken", "pushed", "listing", "listed", "running", "answered", "gone"}
ReaderPC == {"none", "read", "resolve", "fail", "wait", "done"}

----------------------------------------------------------------------------
(* Client.send, Call, Send and Notify.                                     *)

(* WriteLine reaches a harness that runs and whose input is open.          *)
Writable == alive /\ ~asked

(* Encode and calls.register.                                              *)
Begin(c) ==
    /\ codec' = Encode(harness, codec, c)
    /\ IF failed
       THEN call' = [call EXCEPT ![c] = "failed"] /\ UNCHANGED pending
       ELSE call' = [call EXCEPT ![c] = "open"] /\ pending' = pending \union {c}
    /\ UNCHANGED <<failed, chan, reader, hand, seen, over>>

(* Nobody waits for the answer to OpenCode's session/prompt.               *)
Waited(c) == ~(harness = "opencode" /\ c[1] = "prompt")

WriteCall(c) ==
    /\ call[c] = "open"
    /\ IF Writable
       THEN /\ stdin' = Append(stdin, c)
            /\ call' = [call EXCEPT ![c] = IF Waited(c) THEN "waiting" ELSE "sent"]
            /\ UNCHANGED pending
       ELSE /\ pending' = pending \ {c}
            /\ call' = [call EXCEPT ![c] = "failed"]
            /\ UNCHANGED stdin
    /\ UNCHANGED <<harness, alive, asked, stdout, failed, chan, readVars, answerVars>>

Return(c) ==
    /\ call[c] = "waiting" /\ chan[c] # <<>>
    /\ call' = [call EXCEPT ![c] = Head(chan[c])]
    /\ UNCHANGED <<harness, processVars, pending, failed, chan, readVars, answerVars>>

(* The caller's context ends first.                                        *)
Forget(c) ==
    /\ call[c] = "waiting"
    /\ call' = [call EXCEPT ![c] = "gaveUp"]
    /\ pending' = pending \ {c}
    /\ UNCHANGED <<harness, processVars, failed, chan, readVars, answerVars>>

(* Client.Notify; fails, as WriteLine does, with no effect.                *)
Notify(line) == stdin' = IF Writable THEN Append(stdin, line) ELSE stdin

----------------------------------------------------------------------------
(* The goroutine read: dispatch, calls.resolve and answer.                 *)

(* Mutant: a call stays pending while its response is sent. *)
PendingKept(c) == pending
(* resolve removes a call before it sends, outside the lock.               *)
Taken(c) == pending \ {c}

Dispatch ==
    /\ reader = "read" /\ stdout # <<>>
    /\ LET f == Decode(harness, codec, Head(stdout))
           open == f.response # <<>> /\ f.response[1] \in pending
       IN  /\ codec' = f.codec
           /\ IF open
              THEN /\ reader' = "resolve" /\ hand' = f
                   /\ pending' = Taken(f.response[1]) /\ UNCHANGED seen
              ELSE /\ seen' = seen \o f.events
                   /\ UNCHANGED <<reader, hand, pending>>
           /\ at' = IF f.request = <<>> THEN at ELSE [at EXCEPT ![f.request] = "begun"]
    /\ stdout' = Tail(stdout)
    /\ UNCHANGED <<harness, alive, asked, stdin, failed, call, chan, over, result, answers>>

Resolve ==
    /\ reader = "resolve"
    /\ LET c == hand.response[1] IN
       chan' = [chan EXCEPT ![c] = Append(@, IF hand.response[2] THEN "ok" ELSE "refused")]
    /\ seen' = seen \o hand.events
    /\ reader' = "read" /\ hand' = <<>>
    /\ UNCHANGED <<harness, processVars, pending, failed, call, codec, over, answerVars>>

(* The answer to a request is written back, or dropped.                    *)
Reply(r) ==
    /\ at[r] = "answered"
    /\ at' = [at EXCEPT ![r] = "gone"]
    /\ Notify(<<"answer", r>>)
    /\ UNCHANGED <<harness, alive, asked, stdout, callVars, readVars, result, answers>>

----------------------------------------------------------------------------
(* The end of the process, and Client.shutdown.                            *)

(* Mutant: the lines count as over as soon as the harness has exited. *)
LinesEndAtExit == ~alive
(* Lines closes once the harness has exited and its output has been read.  *)
LinesOver == ~alive /\ stdout = <<>>

(* Mutant: the open calls are left to their callers. *)
FailsLater == {}
FailsOpen == pending

Shutdown ==
    /\ reader = "read" /\ LinesOver
    /\ failed' = TRUE
    /\ chan' = [c \in Calls |-> IF c \in FailsOpen THEN Append(chan[c], "exit") ELSE chan[c]]
    /\ pending' = pending \ FailsOpen
    /\ reader' = "wait" /\ answers' = FALSE
    /\ UNCHANGED <<harness, processVars, call, codec, hand, seen, over, at, result>>

(* It waits for the answers in progress, for the wait delay at most: with  *)
(* them in progress or without.                                            *)
EventsClose ==
    /\ reader = "wait"
    /\ reader' = "done" /\ over' = TRUE
    /\ UNCHANGED <<harness, processVars, callVars, codec, hand, seen, answerVars>>

(* Process.Close and Process.wait: the context's end closes the input.     *)
AskToExit ==
    /\ asked' = TRUE
    /\ UNCHANGED <<alive, stdin, stdout>>

(* Process.wait: the process is gone, and with it what it has not read.    *)
ProcessEnds == alive /\ alive' = FALSE /\ stdin' = <<>>

(* Process.Close returns.                                                  *)
Exited == LinesOver

(* Start, with NewClient.                                                  *)
StartProcess ==
    /\ alive' = TRUE /\ reader' = "read"
    /\ UNCHANGED <<asked, stdin, stdout, codec, hand, seen, over>>

InitClient ==
    /\ harness \in {"claude", "opencode", "pi"}
    /\ alive = FALSE /\ asked = FALSE /\ stdin = <<>> /\ stdout = <<>>
    /\ codec = NewCodec /\ reader = "none" /\ hand = <<>> /\ seen = <<>> /\ over = FALSE
    /\ pending = {} /\ failed = FALSE
    /\ call = [c \in Calls |-> "none"] /\ chan = [c \in Calls |-> <<>>]
    /\ at = [r \in Requests |-> "none"] /\ result = [r \in Requests |-> None]
    /\ answers = TRUE
=============================================================================
