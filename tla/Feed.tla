-------------------------------- MODULE Feed --------------------------------
(***************************************************************************)
(* One run as its clients see it: the runner that logs it and publishes    *)
(* what it logs (workflow/runner.go: Start, Resume, Cancel, Shutdown,      *)
(* State, Subscribe, log, live, drop, finish), the file the log is kept in *)
(* (RunFile), the queue of each subscriber (Queues), and the streams of    *)
(* workflow/sse with clients that reconnect by Last-Event-ID.              *)
(*                                                                         *)
(* Runner has the run's scheduling; here the run logs any events a run can *)
(* log, in any order that starts with its start and ends with its end.     *)
(* Locks: a run's mutex is held through log, so what needs it waits while  *)
(* the loop's Append is on its way; the Store's mutex is RunFile's.        *)
(***************************************************************************)
EXTENDS RunFile, Queues

CONSTANTS
  Loop, Canceller,  \* the writers: the run's own, a Cancel of a run not running
  MaxEvents,        \* bound: the number of the last event
  MaxLive,          \* bound: live events
  MaxRuns,          \* bound: times a runner takes the run up
  MaxConnects,      \* bound: requests of each client
  MaxCrashes        \* bound: crashes of the process or the host

ASSUME WritersAssumption == Loop \in Writers /\ Canceller \in Writers /\ Loop # Canceller
ASSUME BoundsAssumption ==
    /\ MaxEvents \in Nat \ {0} /\ MaxFaults \in Nat /\ MaxLive \in Nat /\ MaxRuns \in Nat
    /\ MaxConnects \in Nat /\ MaxCrashes \in Nat

VARIABLES
  shut,     \* Shutdown was called
  reg,      \* the run in Runner.runs: off, new (logs its first event), on,
            \* finished (not forgotten yet)
  gen,      \* which taking up of the run that is
  mem,      \* the last event folded into its state
  intr,     \* it stops without an end: a Shutdown, or its log failed
  subs,     \* its subscribers
  resume,   \* a Resume between its fold and newRun: what it folded
  cancel,   \* the Cancel of a run no runner has: idle, fold, append, over
  cpc,      \* of each client: away, state, look, attach, stream, stopped
  held,     \* the run Subscribe found, 0 for none
  got,      \* the logged events the client received
  lost,     \* a crash of the host took an event it had received
  connects, live,
  crashes, hosts  \* of the process, of the host

runVars == <<shut, reg, gen, mem, intr, subs>>
clientVars == <<cpc, held, got, lost, connects>>
boundVars == <<live, crashes, hosts>>
vars == <<fileVars, queueVars, runVars, resume, cancel, clientVars, boundVars>>

Server == Process[Loop]
NoFold == Event(0, "none")
Live == Event(0, "live")
Logged(l) == Above(l, 0)
Ended(e) == e.kind = "end"

Init ==
    /\ FileInit /\ QueueInit
    /\ shut = FALSE /\ reg = "off" /\ gen = 0 /\ mem = NoFold /\ intr = FALSE /\ subs = {}
    /\ resume = NoFold /\ cancel = "idle"
    /\ cpc = [c \in Clients |-> "away"] /\ held = [c \in Clients |-> 0]
    /\ got = [c \in Clients |-> <<>>] /\ lost = [c \in Clients |-> FALSE]
    /\ connects = [c \in Clients |-> 0] /\ live = 0 /\ crashes = 0 /\ hosts = 0

(***************************************************************************)
(* The run.                                                                *)
(***************************************************************************)
(* newRun, with the state the log folded to. *)
NewRun(e) ==
    /\ reg = "off" /\ ~shut /\ gen < MaxRuns
    /\ gen' = gen + 1 /\ mem' = e /\ intr' = FALSE /\ subs' = {}
    /\ reg' = IF e.kind = "pause" THEN "on" ELSE "new"
    /\ UNCHANGED shut

Start ==
    /\ gen = 0 /\ NewRun(NoFold)
    /\ UNCHANGED <<fileVars, queueVars, resume, cancel, clientVars, boundVars>>

(* fold: an unreadable log, and one that holds no event, is an error. *)
Folds(e) == Unlocked(Server) /\ Readable /\ Decoded # <<>> /\ e = LastOf(Decoded)

(* Resume folds the log of a run the runner does not have. *)
ResumeFolds ==
    /\ reg = "off" /\ resume = NoFold /\ gen \in 1 .. MaxRuns - 1
    /\ Folds(resume') /\ ~Ended(resume') /\ resume'.seq < MaxEvents
    /\ UNCHANGED <<fileVars, queueVars, runVars, cancel, clientVars, boundVars>>

(* A paused run goes on paused; any other logs run_resumed first. *)
Resume ==
    /\ resume # NoFold /\ resume' = NoFold
    /\ IF reg = "off" /\ ~shut THEN NewRun(resume) ELSE UNCHANGED runVars
    /\ UNCHANGED <<fileVars, queueVars, cancel, clientVars, boundVars>>

(* log numbers the event from the state in memory.  Which event it is, the *)
(* run decides; a run that stops may still log the end of its steps.       *)
Log ==
    /\ reg \in {"new", "on"} /\ ~Ended(mem)
    /\ \E k \in IF reg = "new" THEN {IF mem.seq = 0 THEN "start" ELSE "step"}
                ELSE IF mem.seq + 1 < MaxEvents THEN {"step", "pause", "end"} ELSE {"end"} :
         Call(Loop, Event(mem.seq + 1, k))
    /\ UNCHANGED <<queueVars, runVars, resume, cancel, clientVars, boundVars>>

(* It is written: it is folded, and the subscribers get it. *)
LogReturns ==
    /\ wpc[Loop] = "ok" /\ Return(Loop)
    /\ mem' = wev[Loop] /\ Push(subs, wev[Loop]) /\ reg' = "on"
    /\ UNCHANGED <<shut, gen, intr, subs, resume, cancel, clientVars, boundVars>>

(* It is not: the run is interrupted, and one that was not launched is     *)
(* dropped.                                                                *)
LogFails ==
    /\ wpc[Loop] = "failed" /\ Return(Loop) /\ intr' = TRUE
    /\ IF reg = "new"
         THEN reg' = "finished" /\ Close(subs) /\ subs' = {}
         ELSE UNCHANGED <<queueVars, reg, subs>>
    /\ UNCHANGED <<shut, gen, mem, resume, cancel, clientVars, boundVars>>

(* live: an event of an exchange, which is not logged.  Without a          *)
(* subscriber it changes nothing.                                          *)
PublishLive ==
    /\ reg = "on" /\ wpc[Loop] = "idle" /\ ~Ended(mem) /\ subs # {} /\ live < MaxLive
    /\ live' = live + 1 /\ Push(subs, Live)
    /\ UNCHANGED <<fileVars, runVars, resume, cancel, clientVars, crashes, hosts>>

(* finish, and then it forgets the run. *)
Finish ==
    /\ reg = "on" /\ wpc[Loop] = "idle" /\ (Ended(mem) \/ intr)
    /\ reg' = "finished" /\ Close(subs) /\ subs' = {}
    /\ UNCHANGED <<fileVars, shut, gen, mem, intr, resume, cancel, clientVars, boundVars>>

Forget ==
    /\ reg = "finished" /\ reg' = "off" /\ mem' = NoFold /\ intr' = FALSE
    /\ UNCHANGED <<fileVars, queueVars, shut, gen, subs, resume, cancel,
                   clientVars, boundVars>>

Shutdown ==
    /\ ~shut /\ shut' = TRUE /\ intr' = (intr \/ reg \in {"new", "on"})
    /\ UNCHANGED <<fileVars, queueVars, reg, gen, mem, subs, resume, cancel,
                   clientVars, boundVars>>

(***************************************************************************)
(* A Cancel of a run its runner does not have logs the end itself.  It may *)
(* come from another process, whose runner has no run at all.              *)
(***************************************************************************)
Cancel ==
    /\ cancel = "idle" /\ gen > 0 /\ cancel' = "fold"
    /\ Process[Canceller] = Server => reg = "off"
    /\ UNCHANGED <<fileVars, queueVars, runVars, resume, clientVars, boundVars>>

CancelLogs ==
    /\ cancel = "fold" /\ Unlocked(Process[Canceller])
    /\ LET last == LastOf(Decoded) IN
         IF Readable /\ last.seq > 0 /\ ~Ended(last)
           THEN cancel' = "append" /\ Call(Canceller, Event(last.seq + 1, "end"))
           ELSE cancel' = "over" /\ UNCHANGED fileVars
    /\ UNCHANGED <<queueVars, runVars, resume, clientVars, boundVars>>

CancelReturns ==
    /\ Return(Canceller) /\ cancel' = "over"
    /\ UNCHANGED <<queueVars, runVars, resume, clientVars, boundVars>>

(***************************************************************************)
(* The streams.                                                            *)
(***************************************************************************)
At(c, pc) == cpc' = [cpc EXCEPT ![c] = pc]

(* The id of the last logged event a client got is its cursor. *)
Cursor(c) == LastOf(got[c]).seq

Connect(c) ==
    /\ cpc[c] = "away" /\ connects[c] < MaxConnects
    /\ connects' = [connects EXCEPT ![c] = @ + 1] /\ At(c, "state")
    /\ UNCHANGED <<fileVars, queueVars, runVars, resume, cancel, held, got, lost, boundVars>>

(* State: of the run in memory, under its mutex, else folded from the log. *)
Sees(e) ==
    IF reg = "off" THEN Folds(e) ELSE wpc[Loop] = "idle" /\ e = mem

(* Mutant: any client of an ended run. *)
HasEnd(c, e) == Ended(e)

(* Stream answers 204 to a client that has all of an ended run, which      *)
(* stops it from reconnecting.                                             *)
HasAll(c, e) == Ended(e) /\ Cursor(c) >= e.seq

StateAnswers(c) ==
    /\ cpc[c] = "state"
    /\ \E e \in {mem, LastOf(Decoded)} :
         Sees(e) /\ At(c, IF HasAll(c, e) THEN "stopped" ELSE "look")
    /\ UNCHANGED <<fileVars, queueVars, runVars, resume, cancel, held, got, lost,
                   connects, boundVars>>

(* Subscribe finds the run, or none, and asks it under its mutex next. *)
Look(c) ==
    /\ cpc[c] = "look" /\ At(c, "attach")
    /\ held' = [held EXCEPT ![c] = IF reg = "off" THEN 0 ELSE gen]
    /\ UNCHANGED <<fileVars, queueVars, runVars, resume, cancel, got, lost,
                   connects, boundVars>>

(* Mutant: a run that has finished still takes subscribers. *)
FeedingFinished(c) == held[c] = gen /\ reg # "off"

(* The run Subscribe found is the runner's and has not finished. *)
Feeding(c) == held[c] = gen /\ reg \in {"new", "on"}

(* Mutant: the run's mutex is not taken. *)
FreeStore(c) == Unlocked(Server)

(* The mutexes Attach takes. *)
Free(c) == Unlocked(Server) /\ (Feeding(c) => wpc[Loop] = "idle")

(* Events is read, and the subscriber registered, in one hold of the run's *)
(* mutex; a run that has finished is read like one no runner has.          *)
Attach(c) ==
    /\ cpc[c] = "attach" /\ Free(c) /\ Readable /\ At(c, "stream")
    /\ Feeding(c) \/ Decoded # <<>>
    /\ NewQueue(c, Events(Cursor(c)), ~Feeding(c))
    /\ subs' = IF Feeding(c) THEN subs \cup {c} ELSE subs
    /\ held' = [held EXCEPT ![c] = 0]
    /\ UNCHANGED <<fileVars, shut, reg, gen, mem, intr, resume, cancel, got, lost,
                   connects, boundVars>>

(* An HTTP error: an unknown run, or a log that cannot be read. *)
Refuse(c) ==
    /\ Unlocked(Server)
    /\ \/ cpc[c] = "state" /\ reg = "off" /\ ~(Readable /\ Decoded # <<>>)
       \/ cpc[c] = "attach" /\ Free(c) /\ ~(Readable /\ (Feeding(c) \/ Decoded # <<>>))
    /\ At(c, "away") /\ held' = [held EXCEPT ![c] = 0]
    /\ UNCHANGED <<fileVars, queueVars, runVars, resume, cancel, got, lost,
                   connects, boundVars>>

(* The client gets an event.  A live one carries no id. *)
Deliver(c) ==
    /\ cpc[c] = "stream" /\ HandOver(c)
    /\ got' = [got EXCEPT ![c] = @ \o Logged(<<Head(batch[c])>>)]
    /\ UNCHANGED <<fileVars, runVars, resume, cancel, cpc, held, lost, connects, boundVars>>

(* The queue is over, and the response with it. *)
StreamEnds(c) ==
    /\ cpc[c] = "stream" /\ dpc[c] = "done" /\ At(c, "away") /\ Discard({c})
    /\ UNCHANGED <<fileVars, runVars, resume, cancel, held, got, lost,
                   connects, boundVars>>

(* The connection breaks: the request's context ends.  log drops the queue *)
(* of a subscriber that is gone, which takes no events until then.         *)
Disconnect(c) ==
    /\ cpc[c] = "stream" /\ dpc[c] # "done" /\ At(c, "away") /\ Discard({c})
    /\ subs' = subs \ {c}
    /\ UNCHANGED <<fileVars, shut, reg, gen, mem, intr, resume, cancel, held, got, lost,
                   connects, boundVars>>

Hands(c) == \/ Take(c) \/ Wake(c)
QueueStep(c) ==
    /\ Hands(c)
    /\ UNCHANGED <<fileVars, runVars, resume, cancel, clientVars, boundVars>>

(***************************************************************************)
(* Crashes.  What is in the server's memory is gone, and so are its        *)
(* connections; a new process resumes what it finds.                       *)
(***************************************************************************)
ServerGone ==
    /\ reg' = "off" /\ shut' = FALSE /\ intr' = FALSE /\ subs' = {} /\ resume' = NoFold
    /\ mem' = NoFold /\ held' = [c \in Clients |-> 0]
    /\ UNCHANGED <<gen, got, connects, live>>
    /\ Discard(Clients)
    /\ cpc' = [c \in Clients |-> IF cpc[c] = "stopped" THEN "stopped" ELSE "away"]

CancelGone == cancel' = IF cancel = "idle" THEN "idle" ELSE "over"

Crash ==
    /\ crashes + hosts < MaxCrashes /\ crashes' = crashes + 1
    /\ ServerGone /\ FileCrash(Server) /\ UNCHANGED <<lost, hosts>>
    /\ IF Process[Canceller] = Server THEN CancelGone ELSE UNCHANGED cancel

HostCrash ==
    /\ crashes + hosts < MaxCrashes /\ hosts' = hosts + 1
    /\ ServerGone /\ FileHostCrash /\ CancelGone /\ UNCHANGED crashes
    /\ lost' = [c \in Clients |-> lost[c] \/ Cursor(c) > Len(Decoded')]

(* A process that was shut down exits once its runs are over. *)
Exit ==
    /\ shut /\ reg = "off" /\ \A w \in Writers : wpc[w] = "idle"
    /\ ServerGone /\ UNCHANGED <<fileVars, lost, crashes, hosts>>
    /\ IF Process[Canceller] = Server THEN CancelGone ELSE UNCHANGED cancel

(* No run, no Append and no request is on its way: the system may rest. *)
Terminated ==
    /\ reg = "off" /\ \A w \in Writers : wpc[w] = "idle"
    /\ \A c \in Clients : cpc[c] \in {"away", "stopped"}
    /\ UNCHANGED vars

ClientNext(c) ==
    \/ Connect(c) \/ StateAnswers(c) \/ Look(c) \/ Attach(c) \/ Refuse(c)
    \/ Deliver(c) \/ StreamEnds(c) \/ Disconnect(c) \/ QueueStep(c)

FileStep ==
    /\ \E w \in Writers : FileNext(w)
    /\ UNCHANGED <<queueVars, runVars, resume, cancel, clientVars, boundVars>>

RunNext ==
    \/ Start \/ ResumeFolds \/ Resume \/ Log \/ LogReturns \/ LogFails \/ PublishLive
    \/ Finish \/ Forget \/ Shutdown

Next ==
    \/ RunNext \/ Cancel \/ CancelLogs \/ CancelReturns \/ FileStep
    \/ \E c \in Clients : ClientNext(c)
    \/ Crash \/ HostCrash \/ Exit \/ Terminated

Spec == Init /\ [][Next]_vars
=============================================================================
