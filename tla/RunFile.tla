------------------------------ MODULE RunFile ------------------------------
(***************************************************************************)
(* The file of one run in workflow/filestore: lines that end in a newline, *)
(* and what follows the last of them.  An Append holds its Store's mutex   *)
(* from tail to its end; each process has a Store, so a mutex, of its own. *)
(*                                                                         *)
(* A line is its event's number and kind.  Bytes that decode to no event   *)
(* are Garbage, and so are two lines that run into each other.  Outside    *)
(* the model are the event too large for the reader's buffer, and run IDs  *)
(* that name no file.                                                      *)
(*                                                                         *)
(* Append's MkdirAll may have just made the Store's directory.  syncDir    *)
(* puts on the disk what that directory holds; that the directories above  *)
(* lead to it is nobody's work but the system's.                           *)
(***************************************************************************)
EXTENDS Naturals, Sequences

CONSTANTS
  Writers,     \* the goroutines that append
  Process,     \* the process of each
  MaxFaults,   \* bound: system calls that fail
  Homes        \* what home may be at first

ASSUME HomesAssumption == Homes \subseteq BOOLEAN /\ Homes # {}

VARIABLES
  lines,     \* the file's lines
  rest,      \* what follows them: nothing, or one line without its newline
  synced,    \* how many lines are on the disk
  entry,     \* the Store's directory on the disk names the file
  home,      \* the directories above, on the disk, lead to the Store's
  wpc, wev,  \* of each writer: where its Append is, its event
  wlast,     \* and the last number its tail found
  reported,  \* the highest number an Append to that file has reported
  faults

fileVars == <<lines, rest, synced, entry, home, wpc, wev, wlast, reported, faults>>
dataVars == <<lines, rest, synced, entry, home>>

Kinds == {"start", "step", "pause", "end"}
Event(n, k) == [seq |-> n, kind |-> k]
Garbage == Event(0, "garbage")

FileInit ==
    /\ lines = <<>> /\ rest = <<>> /\ synced = 0
    /\ entry = FALSE /\ home \in Homes
    /\ wpc = [w \in Writers |-> "idle"] /\ wev = [w \in Writers |-> Garbage]
    /\ wlast = [w \in Writers |-> 0]
    /\ reported = 0 /\ faults = 0

(* What of the file decodes: a last line counts without its newline. *)
Decoded == IF rest = <<Garbage>> THEN lines ELSE lines \o rest

(* Events fails on a line that does not decode, unless it is the last one  *)
(* and has no newline.                                                     *)
Readable == \A i \in DOMAIN lines : lines[i] # Garbage

(* The events of l above a cursor, taken one after the other. *)
Above(l, after) ==
    LET above[i \in 0 .. Len(l)] ==
          IF i = 0 THEN <<>>
          ELSE IF l[i].seq > after THEN Append(above[i - 1], l[i]) ELSE above[i - 1]
    IN  above[Len(l)]

(* Mutant: the event at the cursor is read again. *)
EventsFrom(after) == IF after = 0 THEN Decoded ELSE Above(Decoded, after - 1)

Events(after) == Above(Decoded, after)

LastOf(l) == IF l = <<>> THEN Event(0, "none") ELSE l[Len(l)]

Unlocked(p) ==
    \A w \in Writers : Process[w] = p => wpc[w] \notin {"write", "sync", "dir"}

Fault == faults < MaxFaults /\ faults' = faults + 1

Goto(w, pc) == wpc' = [wpc EXCEPT ![w] = pc]

(* A caller gives an event to Append. *)
Call(w, e) ==
    /\ wpc[w] = "idle" /\ Goto(w, "tail") /\ wev' = [wev EXCEPT ![w] = e]
    /\ UNCHANGED <<dataVars, wlast, reported, faults>>

(* Mutant: the cut starts at the line before. *)
RepairedTooFar ==
    IF rest = <<Garbage>> /\ lines # <<>> THEN SubSeq(lines, 1, Len(lines) - 1) ELSE Decoded

(* The last line gets its newline when it decodes, and is cut when it does *)
(* not.                                                                    *)
Repaired == Decoded

(* Mutant: the number is not compared. *)
FollowsAny(e, last) == last # Garbage

Follows(e, last) == last # Garbage /\ e.seq = last.seq + 1

(* tail repairs the file.  The event has to follow the one that is last    *)
(* then.                                                                   *)
ReadTail(w) ==
    /\ wpc[w] = "tail" /\ Unlocked(Process[w])
    /\ lines' = Repaired /\ rest' = <<>>
    /\ LET last == LastOf(lines') IN
         /\ Goto(w, IF Follows(wev[w], last) THEN "write" ELSE "failed")
         /\ wlast' = [wlast EXCEPT ![w] = last.seq]
    /\ UNCHANGED <<synced, entry, home, wev, reported, faults>>

(* The directory, the open, a read or the repair fails. *)
ReadTailFails(w) ==
    /\ wpc[w] = "tail" /\ Unlocked(Process[w]) /\ Fault /\ Goto(w, "failed")
    /\ UNCHANGED <<dataVars, wev, wlast, reported>>

(* f.Write appends the line to whatever the file ends in now. *)
Write(w) ==
    /\ wpc[w] = "write" /\ Goto(w, "sync")
    /\ lines' = Append(lines, IF rest = <<>> THEN wev[w] ELSE Garbage) /\ rest' = <<>>
    /\ UNCHANGED <<synced, entry, home, wev, wlast, reported, faults>>

(* A write that stops before the newline leaves nothing, part of the line  *)
(* or all of it.                                                           *)
Partial(w) ==
    /\ \/ rest' = rest
       \/ rest' = <<Garbage>>
       \/ rest = <<>> /\ rest' = <<wev[w]>>
    /\ UNCHANGED <<lines, synced, entry, home>>

WriteFails(w) ==
    /\ wpc[w] = "write" /\ Fault /\ Partial(w) /\ Goto(w, "failed")
    /\ UNCHANGED <<wev, wlast, reported>>

Reports(w) == reported' = IF wev[w].seq > reported THEN wev[w].seq ELSE reported

(* Mutant: nothing is synced. *)
NotSynced == synced

(* What f.Sync puts on the disk. *)
Synced == Len(lines)

(* f.Sync; syncDir follows when tail found the file empty. *)
Sync(w) ==
    /\ wpc[w] = "sync" /\ synced' = Synced
    /\ IF wlast[w] = 0
         THEN Goto(w, "dir") /\ UNCHANGED reported
         ELSE Goto(w, "ok") /\ Reports(w)
    /\ UNCHANGED <<lines, rest, entry, home, wev, wlast, faults>>

(* The Store's directory is synced, and none above it. *)
SyncDir(w) ==
    /\ wpc[w] = "dir" /\ entry' = TRUE /\ Goto(w, "ok") /\ Reports(w)
    /\ UNCHANGED <<lines, rest, synced, home, wev, wlast, faults>>

SyncFails(w) ==
    /\ wpc[w] \in {"sync", "dir"} /\ Fault /\ Goto(w, "failed")
    /\ UNCHANGED <<dataVars, wev, wlast, reported>>

FileNext(w) ==
    \/ ReadTail(w) \/ ReadTailFails(w) \/ Write(w) \/ WriteFails(w)
    \/ Sync(w) \/ SyncDir(w) \/ SyncFails(w)

(* Append returns to its caller. *)
Return(w) ==
    /\ wpc[w] \in {"ok", "failed"} /\ Goto(w, "idle")
    /\ wev' = [wev EXCEPT ![w] = Garbage] /\ wlast' = [wlast EXCEPT ![w] = 0]
    /\ UNCHANGED <<dataVars, reported, faults>>

Stop(W) ==
    /\ wpc' = [w \in Writers |-> IF w \in W THEN "idle" ELSE wpc[w]]
    /\ wev' = [w \in Writers |-> IF w \in W THEN Garbage ELSE wev[w]]
    /\ wlast' = [w \in Writers |-> IF w \in W THEN 0 ELSE wlast[w]]

(* The process dies.  The file is the system's and stays, with whatever a  *)
(* write in progress has put there.                                        *)
FileCrash(p) ==
    /\ Stop({w \in Writers : Process[w] = p})
    /\ IF \E w \in Writers : Process[w] = p /\ wpc[w] = "write"
         THEN \E w \in Writers : Process[w] = p /\ wpc[w] = "write" /\ Partial(w)
         ELSE UNCHANGED dataVars
    /\ UNCHANGED <<reported, faults>>

(* The host dies: lines that were not synced are there, in part or not at  *)
(* all; a file that the disk has no way to may be gone, and its directory  *)
(* with it.                                                                *)
FileHostCrash ==
    /\ Stop(Writers)
    /\ \/ \E n \in synced .. Len(lines) :
            /\ lines' = SubSeq(lines, 1, n) /\ synced' = n
            /\ rest' \in {<<>>} \cup (IF n = Len(lines) THEN {rest}
                                      ELSE {<<Garbage>>, <<lines[n + 1]>>})
            /\ entry' = TRUE /\ home' = TRUE /\ UNCHANGED reported
       \/ /\ ~(entry /\ home) /\ entry' = FALSE /\ home' \in {home, ~entry}
          /\ lines' = <<>> /\ rest' = <<>> /\ synced' = 0 /\ reported' = 0
    /\ UNCHANGED faults
=============================================================================
