--------------------------- MODULE FeedProperties ---------------------------
(* What makes a run's log and its streams correct. *)
EXTENDS Feed

LogEvent == [seq : 1 .. MaxEvents + 1, kind : Kinds]
QueueEvent == LogEvent \cup {Live}

(* Every variable has its type, and the counters keep their bounds. *)
TypeOK ==
    /\ lines \in Seq(LogEvent \cup {Garbage})
    /\ rest \in Seq(LogEvent \cup {Garbage}) /\ Len(rest) \in 0 .. 1
    /\ synced \in 0 .. Len(lines) /\ entry \in BOOLEAN /\ home \in BOOLEAN
    /\ wpc \in [Writers -> {"idle", "tail", "write", "sync", "dir", "ok", "failed"}]
    /\ wev \in [Writers -> LogEvent \cup {Garbage}]
    /\ wlast \in [Writers -> 0 .. MaxEvents + 1] /\ reported \in 0 .. MaxEvents + 1
    /\ items \in [Clients -> Seq(QueueEvent)] /\ batch \in [Clients -> Seq(QueueEvent)]
    /\ closed \in [Clients -> BOOLEAN] /\ signal \in [Clients -> BOOLEAN]
    /\ dpc \in [Clients -> {"gone", "take", "send", "wait", "done"}]
    /\ shut \in BOOLEAN /\ reg \in {"off", "new", "on", "finished"} /\ gen \in 0 .. MaxRuns
    /\ mem \in LogEvent \cup {NoFold} /\ intr \in BOOLEAN /\ subs \subseteq Clients
    /\ resume \in LogEvent \cup {NoFold} /\ cancel \in {"idle", "fold", "append", "over"}
    /\ cpc \in [Clients -> {"away", "state", "look", "attach", "stream", "stopped"}]
    /\ held \in [Clients -> 0 .. MaxRuns] /\ got \in [Clients -> Seq(LogEvent)]
    /\ lost \in [Clients -> BOOLEAN] /\ connects \in [Clients -> 0 .. MaxConnects]
    /\ faults \in 0 .. MaxFaults /\ live \in 0 .. MaxLive
    /\ crashes \in 0 .. MaxCrashes /\ hosts \in 0 .. MaxCrashes

(* The file keeps the promise of a Store, through failed and partial       *)
(* writes, the repair of what they leave, and crashes (filestore.Append).  *)
(* What was reported is at stake only while the file has no place on the   *)
(* disk, which the Append of the first event gives it in its directory.    *)
Promise == INSTANCE EventLog WITH
    log <- Decoded, kept <- reported, named <- entry, rooted <- home, life <- hosts
FileKeepsItsPromise == Promise!Spec

(* "a host crash keeps what Append reported written": no step takes back   *)
(* an event that an Append has reported (the comment of filestore.Append). *)
ReportedIsKept ==
    [][\A n \in 1 .. reported : n <= Len(Decoded') /\ Decoded'[n] = Decoded[n]]_vars

(* The log can be read, and numbers its events from 1 (ErrSequence: a      *)
(* second process's append fails instead of corrupting the log).           *)
LogIsNumbered ==
    Readable /\ \A i \in DOMAIN Decoded : Decoded[i].seq = i

IsPrefixOf(s, t) == Len(s) <= Len(t) /\ s = SubSeq(t, 1, Len(s))

(* Whatever a client goes through, it gets the logged events in their      *)
(* order, each once and none left out (Subscribe, log, cursor, write).     *)
StreamIsLog ==
    \A c \in Clients : ~lost[c] => IsPrefixOf(got[c], Decoded)

(* A client is told to stop only when it has all of a run that has ended   *)
(* (Stream's 204).                                                         *)
StopsComplete ==
    \A c \in Clients : cpc[c] = "stopped" /\ ~lost[c] =>
      got[c] = Decoded /\ Ended(LastOf(Decoded))

(* No event falls between the replay and what is published, and none is in *)
(* both: what a subscriber got and has queued is the log, up to the run's  *)
(* state at least (Subscribe).                                             *)
Upcoming(c) == got[c] \o Logged(batch[c] \o items[c])
NoEventBetween ==
    \A c \in subs : ~lost[c] =>
      IsPrefixOf(Upcoming(c), Decoded) /\ Len(Upcoming(c)) >= mem.seq

(* A stream that stays open is fed: its run is running and will close it   *)
(* (Subscribe, finish, drop).                                              *)
StreamIsFed ==
    \A c \in Clients : cpc[c] = "stream" /\ ~closed[c] =>
      c \in subs /\ reg \in {"new", "on"}

(* A queue's goroutine does not sleep over events, or over its close       *)
(* (queue.wake).                                                           *)
NoLostWake ==
    \A c \in Clients : dpc[c] = "wait" /\ ~signal[c] => items[c] = <<>> /\ ~closed[c]
=============================================================================
