------------------------------ MODULE EventLog ------------------------------
(***************************************************************************)
(* What workflow/filestore keeps of one run, as a workflow.Store           *)
(* (workflow/runner.go): the log its readers see only grows, by the event  *)
(* of the next number, and ends at most once.  A crash of the host takes   *)
(* events that no Append reported, from the end of the log.                *)
(*                                                                         *)
(* It takes the reported ones too when the log has no place on the disk,   *)
(* named in a directory that is named itself: then all of it may be gone.  *)
(* That is less than the comment of filestore's Append says.               *)
(***************************************************************************)
EXTENDS Naturals, Sequences

VARIABLES
  log,     \* the events a reader gets
  kept,    \* how many of them an Append has reported
  named,   \* the directory on the disk names the log
  rooted,  \* and is named there itself
  life     \* how often the host has crashed

vars == <<log, kept, named, rooted, life>>

Ends(l) == l # <<>> /\ l[Len(l)].kind = "end"

Init == log = <<>> /\ kept = 0 /\ named = FALSE /\ rooted \in BOOLEAN /\ life = 0

(* The next event: the first starts the run, and none follows its end. *)
Extend ==
    /\ ~Ends(log)
    /\ \E k \in {"start", "step", "pause", "end"} :
         /\ (k = "start") = (log = <<>>)
         /\ log' = Append(log, [seq |-> Len(log) + 1, kind |-> k])
    /\ UNCHANGED <<kept, named, rooted, life>>

(* An Append reports its event written.  That of the first event has had   *)
(* the directory name the log.                                             *)
Report ==
    /\ kept' \in (kept + 1) .. Len(log) /\ named' = (named \/ kept' = 1)
    /\ UNCHANGED <<log, rooted, life>>

(* The host crashes, and what is there afterwards is on the disk. *)
Lose ==
    /\ life' = life + 1
    /\ \E n \in kept .. Len(log) : log' = SubSeq(log, 1, n)
    /\ named' = TRUE /\ rooted' = TRUE /\ UNCHANGED kept

(* The host crashes, and a log without a place is gone; with it the        *)
(* directory, if that named the log.                                       *)
Vanish ==
    /\ ~(named /\ rooted) /\ life' = life + 1
    /\ log' = <<>> /\ kept' = 0 /\ named' = FALSE /\ rooted' \in {rooted, ~named}

Next == Extend \/ Report \/ Lose \/ Vanish
Spec == Init /\ [][Next]_vars
=============================================================================
