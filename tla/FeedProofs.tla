----------------------------- MODULE FeedProofs -----------------------------
(***************************************************************************)
(* For every set of writers and clients and every bound, when the writers  *)
(* share one Store: the file keeps the promise of a Store, its log can be  *)
(* read and numbers its events from 1, and a client's stream is that log,  *)
(* each event once and none left out, until it is complete.  With more     *)
(* Stores too, no queue's goroutine sleeps over events or over its close.  *)
(***************************************************************************)
EXTENDS FeedProperties, SequenceTheorems, WellFoundedInduction, TLAPS

(***************************************************************************)
(* The file.                                                               *)
(***************************************************************************)
(* What the proof assumes of the writers: they share one Store. *)
OneStore == Loop \in Writers /\ Canceller \in Writers
         /\ \A v, w \in Writers : Process[v] = Process[w]

LineType == [seq : Nat, kind : Kinds \cup {"garbage", "none"}]
WriterPC == {"idle", "tail", "write", "sync", "dir", "ok", "failed"}
Locked(w) == wpc[w] \in {"write", "sync", "dir"}

FileType ==
    /\ lines \in Seq(LineType) /\ rest \in Seq(LineType)
    /\ synced \in Nat
    /\ wpc \in [Writers -> WriterPC] /\ wev \in [Writers -> LineType]

(* The lines are numbered, and so is one that lacks its newline. *)
Numbered ==
    /\ \A i \in 1 .. Len(lines) : lines[i] # Garbage /\ lines[i].seq = i
    /\ \/ rest = <<>>
       \/ rest = <<Garbage>>
       \/ \E e \in LineType : rest = <<e>> /\ e # Garbage /\ e.seq = Len(lines) + 1

(* Between tail and Write the file stays as tail left it. *)
TailHolds ==
    \A w \in Writers : wpc[w] = "write" =>
      rest = <<>> /\ wev[w] # Garbage /\ wev[w].seq = Len(lines) + 1

Alone == \A v, w \in Writers : Locked(v) /\ Locked(w) => v = w

FileInv == FileType /\ Numbered /\ TailHolds /\ Alone /\ synced <= Len(lines)

LEMMA FileNumbered ==
  FileInv => LogIsNumbered
<1> SUFFICES ASSUME FileInv PROVE LogIsNumbered
  OBVIOUS
<1>1. Readable
  BY DEF FileInv, FileType, WriterPC, Numbered, Readable
<1>2. ASSUME NEW i \in DOMAIN Decoded PROVE Decoded[i].seq = i
  <2>1. CASE rest = <<>> \/ rest = <<Garbage>>
    BY <2>1 DEF FileInv, FileType, WriterPC, Numbered, Decoded
  <2>2. CASE \E e \in LineType : rest = <<e>> /\ e # Garbage /\ e.seq = Len(lines) + 1
    BY <2>2 DEF FileInv, FileType, WriterPC, Numbered, Decoded
  <2> QED
    BY <2>1, <2>2 DEF FileInv, Numbered
<1> QED
  BY <1>1, <1>2 DEF LogIsNumbered

LEMMA RepairNumbers ==
  ASSUME FileInv
  PROVE  /\ Repaired \in Seq(LineType) /\ Len(lines) <= Len(Repaired)
         /\ \A i \in 1 .. Len(Repaired) : Repaired[i] # Garbage /\ Repaired[i].seq = i
<1>1. CASE rest = <<>> \/ rest = <<Garbage>>
  BY <1>1 DEF FileInv, FileType, WriterPC, Numbered, Repaired, Decoded
<1>2. CASE \E e \in LineType : rest = <<e>> /\ e # Garbage /\ e.seq = Len(lines) + 1
  BY <1>2 DEF FileInv, FileType, WriterPC, Numbered, Repaired, Decoded
<1> QED
  BY <1>1, <1>2 DEF FileInv, Numbered

LEMMA TailNumbers ==
  ASSUME OneStore, FileInv, NEW w \in Writers, ReadTail(w)
  PROVE  FileInv'
<1>1. \A v \in Writers : ~Locked(v)
  BY DEF ReadTail, Unlocked, OneStore, Locked
<1>2. /\ lines' = Repaired /\ rest' = <<>> /\ synced' = synced /\ wev' = wev
      /\ wpc' = [wpc EXCEPT ![w] = IF Follows(wev[w], LastOf(lines')) THEN "write" ELSE "failed"]
  BY DEF ReadTail, Goto
<1>3. FileType' /\ Numbered' /\ (synced <= Len(lines))'
  <2>1. wpc' \in [Writers -> WriterPC]
    BY <1>2 DEF FileInv, FileType, WriterPC
  <2>2. lines' \in Seq(LineType) /\ rest' \in Seq(LineType) /\ Len(lines) <= Len(lines')
    BY <1>2, RepairNumbers
  <2>3. FileType'
    BY <1>2, <2>1, <2>2 DEF FileInv, FileType, WriterPC
  <2>4. Numbered'
    BY <1>2, RepairNumbers DEF Numbered
  <2> QED
    BY <1>2, <2>2, <2>3, <2>4 DEF FileInv, FileType, WriterPC
<1>4. Follows(wev[w], LastOf(lines')) => wev[w] # Garbage /\ wev[w].seq = Len(lines') + 1
  <2>1. CASE lines' = <<>>
    BY <2>1 DEF Follows, LastOf, Event, Garbage
  <2>2. CASE lines' # <<>>
    <3>1. Len(lines') \in 1 .. Len(lines')
      BY <1>2, <2>2, RepairNumbers
    <3>2. LastOf(lines').seq = Len(lines')
      BY <1>2, <2>2, <3>1, RepairNumbers DEF LastOf
    <3> QED
      BY <3>1, <3>2 DEF Follows, Event, Garbage
  <2> QED
    BY <2>1, <2>2
<1>5. TailHolds'
  BY <1>1, <1>2, <1>4 DEF TailHolds, Locked, FileInv, FileType
<1>6. Alone'
  BY <1>1, <1>2 DEF Alone, Locked, FileInv, FileType
<1> QED
  BY <1>3, <1>5, <1>6 DEF FileInv
LEMMA WriteNumbers ==
  ASSUME FileInv, NEW w \in Writers, Write(w)
  PROVE  FileInv'
<1>1. /\ wpc[w] = "write" /\ wpc' = [wpc EXCEPT ![w] = "sync"]
      /\ rest = <<>> /\ lines' = Append(lines, wev[w]) /\ rest' = <<>>
      /\ synced' = synced /\ wev' = wev
  BY DEF Write, Goto, FileInv, TailHolds
<1>2. wev[w] \in LineType /\ wev[w] # Garbage /\ wev[w].seq = Len(lines) + 1
  BY <1>1 DEF FileInv, FileType, WriterPC, TailHolds
<1>3. lines' \in Seq(LineType) /\ Len(lines') = Len(lines) + 1 /\ FileType'
  BY <1>1, <1>2 DEF FileInv, FileType, WriterPC
<1>4. Numbered'
  BY <1>1, <1>2, <1>3 DEF FileInv, FileType, WriterPC, Numbered
<1>5. \A v \in Writers : wpc'[v] # "write"
  BY <1>1 DEF FileInv, FileType, WriterPC, Alone, Locked
<1>6. TailHolds' /\ Alone'
  BY <1>1, <1>5 DEF FileInv, FileType, WriterPC, TailHolds, Alone, Locked
<1> QED
  BY <1>1, <1>3, <1>4, <1>6 DEF FileInv, FileType, WriterPC

(* A partial write is one that was about to be whole. *)
LEMMA PartialNumbers ==
  ASSUME FileInv, NEW w \in Writers, wpc[w] = "write", Partial(w)
  PROVE  rest' \in Seq(LineType) /\ Numbered'
<1>1. wev[w] \in LineType /\ wev[w] # Garbage /\ wev[w].seq = Len(lines) + 1 /\ rest = <<>>
  BY DEF FileInv, FileType, WriterPC, TailHolds
<1>2. Garbage \in LineType /\ lines' = lines
  BY DEF Garbage, Event, LineType, Kinds, Partial
<1>3. CASE rest' = rest
  BY <1>1, <1>2, <1>3 DEF FileInv, FileType, Numbered
<1>4. CASE rest' = <<Garbage>>
  <2>1. rest' \in Seq(LineType)
    BY <1>2, <1>4
  <2> QED
    BY <1>2, <1>4, <2>1 DEF FileInv, Numbered
<1>5. CASE rest' = <<wev[w]>>
  BY <1>1, <1>2, <1>5 DEF FileInv, FileType, WriterPC, Numbered
<1> QED
  BY <1>3, <1>4, <1>5 DEF Partial

LEMMA WriteFailsNumbers ==
  ASSUME FileInv, NEW w \in Writers, WriteFails(w)
  PROVE  FileInv'
<1>1. /\ wpc[w] = "write" /\ wpc' = [wpc EXCEPT ![w] = "failed"] /\ wev' = wev
      /\ lines' = lines /\ synced' = synced /\ Partial(w)
  BY DEF WriteFails, Goto, Partial
<1>2. FileType' /\ Numbered'
  BY <1>1, PartialNumbers DEF FileInv, FileType, WriterPC
<1>3. \A v \in Writers : wpc'[v] # "write"
  BY <1>1 DEF FileInv, FileType, WriterPC, Alone, Locked
<1>4. TailHolds' /\ Alone'
  BY <1>1, <1>3 DEF FileInv, FileType, WriterPC, TailHolds, Alone, Locked
<1> QED
  BY <1>1, <1>2, <1>4 DEF FileInv

(* The other steps of an Append leave the file as it is. *)
LEMMA OthersNumber ==
  ASSUME FileInv, NEW w \in Writers,
         ReadTailFails(w) \/ Sync(w) \/ SyncDir(w) \/ SyncFails(w)
  PROVE  FileInv'
<1>1. PICK pc \in {"failed", "dir", "ok"} : wpc' = [wpc EXCEPT ![w] = pc]
  BY DEF ReadTailFails, Sync, SyncDir, SyncFails, Goto
<1>2. /\ lines' = lines /\ rest' = rest /\ wev' = wev /\ synced' \in {synced, Len(lines)}
      /\ pc = "dir" => Locked(w)
  BY <1>1 DEF ReadTailFails, Sync, SyncDir, SyncFails, Goto, dataVars, Synced, Locked,
              FileInv, FileType
<1>3. FileType' /\ Numbered' /\ (synced <= Len(lines))'
  BY <1>1, <1>2 DEF FileInv, FileType, WriterPC, Numbered
<1>4. TailHolds' /\ Alone'
  BY <1>1, <1>2 DEF FileInv, FileType, WriterPC, TailHolds, Alone, Locked
<1> QED
  BY <1>3, <1>4 DEF FileInv

LEMMA CallNumbers ==
  ASSUME FileInv, NEW w \in Writers, NEW e \in LineType, Call(w, e)
  PROVE  FileInv'
<1>1. /\ wpc' = [wpc EXCEPT ![w] = "tail"] /\ wev' = [wev EXCEPT ![w] = e]
      /\ lines' = lines /\ rest' = rest /\ synced' = synced
  BY DEF Call, Goto, dataVars
<1> QED
  BY <1>1 DEF FileInv, FileType, WriterPC, Numbered, TailHolds, Alone, Locked

LEMMA ReturnNumbers ==
  ASSUME FileInv, NEW w \in Writers, Return(w)
  PROVE  FileInv'
<1>1. /\ wpc' = [wpc EXCEPT ![w] = "idle"] /\ wev' = [wev EXCEPT ![w] = Garbage]
      /\ lines' = lines /\ rest' = rest /\ synced' = synced
  BY DEF Return, Goto, dataVars
<1>2. Garbage \in LineType
  BY DEF Garbage, Event, LineType, Kinds
<1> QED
  BY <1>1, <1>2 DEF FileInv, FileType, WriterPC, Numbered, TailHolds, Alone, Locked

LEMMA StopNumbers ==
  ASSUME FileInv, NEW W, Stop(W), lines' = lines, synced' = synced,
         rest' \in Seq(LineType), Numbered',
         rest' = rest \/ \A w \in Writers \ W : wpc[w] # "write"
  PROVE  FileInv'
<1>1. Garbage \in LineType
  BY DEF Garbage, Event, LineType, Kinds
<1> QED
  BY <1>1 DEF FileInv, FileType, WriterPC, TailHolds, Alone, Locked, Stop

LEMMA CrashNumbers ==
  ASSUME OneStore, FileInv, NEW p, FileCrash(p)
  PROVE  FileInv'
<1> DEFINE W == {w \in Writers : Process[w] = p}
<1>1. CASE \E w \in W : wpc[w] = "write"
  <2>1. PICK w \in W : wpc[w] = "write" /\ Partial(w)
    BY <1>1 DEF FileCrash
  <2>2. lines' = lines /\ synced' = synced /\ rest' \in Seq(LineType) /\ Numbered'
    BY <2>1, PartialNumbers DEF Partial
  <2>3. \A v \in Writers \ W : wpc[v] # "write"
    BY <2>1 DEF OneStore
  <2> QED
    BY <2>2, <2>3, StopNumbers DEF FileCrash
<1>2. CASE ~\E w \in W : wpc[w] = "write"
  <2>1. lines' = lines /\ synced' = synced /\ rest' = rest
    BY <1>2 DEF FileCrash, dataVars
  <2>2. rest' \in Seq(LineType) /\ Numbered'
    BY <2>1 DEF FileInv, FileType, WriterPC, Numbered
  <2> QED
    BY <2>1, <2>2, StopNumbers DEF FileCrash
<1> QED
  BY <1>1, <1>2

LEMMA HostCrashNumbers ==
  ASSUME FileInv, FileHostCrash
  PROVE  FileInv'
<1>1. Garbage \in LineType
  BY DEF Garbage, Event, LineType, Kinds
<1>2. /\ wpc' = [w \in Writers |-> "idle"] /\ wev' = [w \in Writers |-> Garbage]
  BY DEF FileHostCrash, Stop, FileInv, FileType
<1>3. TailHolds' /\ Alone' /\ wpc' \in [Writers -> WriterPC] /\ wev' \in [Writers -> LineType]
  BY <1>1, <1>2 DEF TailHolds, Alone, Locked, WriterPC
<1>4. ASSUME NEW n \in synced .. Len(lines), lines' = SubSeq(lines, 1, n), synced' = n,
             rest' \in {<<>>} \cup (IF n = Len(lines) THEN {rest}
                                   ELSE {<<Garbage>>, <<lines[n + 1]>>})
      PROVE  FileInv'
  <2>1. /\ n \in Nat /\ n <= Len(lines) /\ lines' \in Seq(LineType) /\ Len(lines') = n
        /\ \A i \in 1 .. n : lines'[i] = lines[i]
    BY <1>4 DEF FileInv, FileType, WriterPC
  <2>2. CASE rest' = <<>> \/ rest' = <<Garbage>>
    <3>1. <<>> \in Seq(LineType) /\ <<Garbage>> \in Seq(LineType)
      BY <1>1
    <3>2. rest' \in Seq(LineType)
      BY <2>2, <3>1
    <3>3. Numbered'
      BY <2>1, <2>2 DEF FileInv, Numbered
    <3> QED
      BY <1>3, <1>4, <2>1, <3>2, <3>3 DEF FileInv, FileType
  <2>3. CASE n = Len(lines) /\ rest' = rest
    BY <1>3, <1>4, <2>1, <2>3 DEF FileInv, FileType, WriterPC, Numbered
  <2>4. CASE n # Len(lines) /\ rest' = <<lines[n + 1]>>
    <3>1. n + 1 \in 1 .. Len(lines) /\ lines[n + 1] \in LineType
      BY <2>1, <2>4 DEF FileInv, FileType, WriterPC
    <3>2. lines[n + 1] # Garbage /\ lines[n + 1].seq = n + 1
      BY <3>1 DEF FileInv, Numbered
    <3>3. Numbered'
      BY <1>4, <2>1, <2>4, <3>1, <3>2 DEF FileInv, FileType, WriterPC, Numbered
    <3> QED
      BY <1>3, <1>4, <2>1, <2>4, <3>1, <3>3 DEF FileInv, FileType, WriterPC
  <2> QED
    BY <1>4, <2>2, <2>3, <2>4
<1>5. CASE lines' = <<>> /\ rest' = <<>> /\ synced' = 0
  BY <1>3, <1>5 DEF FileInv, FileType, WriterPC, Numbered
<1> QED
  BY <1>4, <1>5 DEF FileHostCrash

LEMMA AppendNumbers ==
  ASSUME OneStore, FileInv, NEW w \in Writers, FileNext(w)
  PROVE  FileInv'
<1>1. CASE ReadTail(w)
  BY <1>1, TailNumbers
<1>2. CASE Write(w)
  BY <1>2, WriteNumbers
<1>3. CASE WriteFails(w)
  BY <1>3, WriteFailsNumbers
<1>4. CASE ReadTailFails(w) \/ Sync(w) \/ SyncDir(w) \/ SyncFails(w)
  BY <1>4, OthersNumber
<1> QED
  BY <1>1, <1>2, <1>3, <1>4 DEF FileNext

LEMMA SameFile ==
  ASSUME FileInv, UNCHANGED fileVars
  PROVE  FileInv'
  BY DEF FileInv, FileType, Numbered, TailHolds, Alone, Locked, fileVars

LEMMA LastIsLine ==
  ASSUME FileInv
  PROVE  LastOf(Decoded) \in LineType
<1>1. Decoded \in Seq(LineType)
  BY RepairNumbers DEF Repaired
<1>2. CASE Decoded = <<>>
  BY <1>2 DEF LastOf, Event, LineType
<1>3. CASE Decoded # <<>>
  BY <1>1, <1>3 DEF LastOf
<1> QED
  BY <1>2, <1>3

(* What the runner numbers events from are events. *)
MemoryType == mem \in LineType /\ resume \in LineType

LEMMA NewRunMemory ==
  ASSUME NEW e \in LineType, NewRun(e)
  PROVE  mem' \in LineType
  BY DEF NewRun

LEMMA FileAlways ==
  ASSUME OneStore
  PROVE  Spec => []FileInv
<1> DEFINE Inv == FileInv /\ MemoryType
<1> USE DEF vars, runVars
<1>0. NoFold \in LineType /\ Garbage \in LineType
  BY DEF NoFold, Garbage, Event, LineType
<1>1. Init => Inv
  <2> SUFFICES ASSUME Init PROVE Inv
    OBVIOUS
  <2>1. /\ lines = <<>> /\ rest = <<>> /\ synced = 0
        /\ wpc = [w \in Writers |-> "idle"] /\ wev = [w \in Writers |-> Garbage]
    BY DEF Init, FileInit
  <2>2. FileInv
    BY <1>0, <2>1 DEF FileInv, FileType, WriterPC, Numbered, TailHolds, Alone, Locked
  <2> QED
    BY <1>0, <2>2 DEF Init, MemoryType
<1>2. Inv /\ [Next]_vars => Inv'
  <2> SUFFICES ASSUME Inv, [Next]_vars PROVE Inv'
    OBVIOUS
  <2>1. CASE Start
    BY <1>0, <2>1, SameFile, NewRunMemory DEF Start, MemoryType
  <2>2. CASE ResumeFolds
    BY <2>2, SameFile, LastIsLine DEF ResumeFolds, Folds, MemoryType
  <2>3. CASE Resume
    BY <1>0, <2>3, SameFile, NewRunMemory DEF Resume, MemoryType
  <2>4. CASE Log
    <3>1. PICK k \in Kinds : Call(Loop, Event(mem.seq + 1, k))
      BY <2>4 DEF Log, Kinds
    <3>2. Event(mem.seq + 1, k) \in LineType
      BY DEF Event, LineType, MemoryType
    <3> QED
      BY <2>4, <3>1, <3>2, CallNumbers DEF OneStore, Log, MemoryType
  <2>5. CASE LogReturns
    <3>1. mem' \in LineType
      BY <2>5 DEF LogReturns, FileInv, FileType, OneStore
    <3> QED
      BY <2>5, <3>1, ReturnNumbers DEF LogReturns, OneStore, MemoryType
  <2>6. CASE LogFails
    BY <2>6, ReturnNumbers DEF LogFails, OneStore, MemoryType
  <2>7. CASE PublishLive \/ Finish \/ Shutdown
    BY <2>7, SameFile DEF PublishLive, Finish, Shutdown, MemoryType
  <2>8. CASE Forget
    BY <1>0, <2>8, SameFile DEF Forget, MemoryType
  <2>9. CASE Cancel
    BY <2>9, SameFile DEF Cancel, MemoryType
  <2>10. CASE CancelLogs
    <3>1. Event(LastOf(Decoded).seq + 1, "end") \in LineType
      BY LastIsLine DEF Event, LineType, Kinds
    <3> QED
      BY <2>10, <3>1, CallNumbers, SameFile DEF OneStore, CancelLogs, MemoryType
  <2>11. CASE CancelReturns
    BY <2>11, ReturnNumbers DEF CancelReturns, OneStore, MemoryType
  <2>12. CASE FileStep
    BY <2>12, AppendNumbers DEF FileStep, MemoryType
  <2>13. CASE \E c \in Clients : ClientNext(c)
    <3>1. UNCHANGED <<fileVars, mem, resume>>
      BY <2>13 DEF ClientNext, Connect, StateAnswers, Look, Attach, Refuse, Deliver, StreamEnds,
                   Disconnect, QueueStep
    <3> QED
      BY <3>1, SameFile DEF MemoryType
  <2>14. CASE Crash
    BY <1>0, <2>14, CrashNumbers DEF Crash, ServerGone, MemoryType
  <2>15. CASE HostCrash
    BY <1>0, <2>15, HostCrashNumbers DEF HostCrash, ServerGone, MemoryType
  <2>16. CASE Exit
    BY <1>0, <2>16, SameFile DEF Exit, ServerGone, MemoryType
  <2>17. CASE Terminated \/ UNCHANGED vars
    BY <2>17, SameFile DEF Terminated, MemoryType
  <2> QED
    BY <2>1, <2>2, <2>3, <2>4, <2>5, <2>6, <2>7, <2>8, <2>9, <2>10, <2>11, <2>12, <2>13,
       <2>14, <2>15, <2>16, <2>17 DEF Next, RunNext
<1>3. Inv => FileInv
  OBVIOUS
<1> QED
  BY <1>1, <1>2, <1>3, PTL DEF Spec

(***************************************************************************)
(* In one process the number that Append compares is enough: whatever      *)
(* fails or crashes, the log can be read and numbers its events from 1     *)
(* (filestore.Append).                                                     *)
(***************************************************************************)
THEOREM LogCorrect ==
  ASSUME OneStore
  PROVE  Spec => []LogIsNumbered
<1>1. FileInv => LogIsNumbered
  BY FileNumbered
<1> QED
  BY <1>1, FileAlways, PTL

(***************************************************************************)
(* The queues.                                                             *)
(***************************************************************************)
(* Each queue has its items, flags and goroutine.  With NoLostWake this is *)
(* inductive: only Take goes to sleep, when there is nothing to do, and    *)
(* whatever gives a sleeper something to do leaves a signal.               *)
QueueType ==
    /\ DOMAIN items = Clients /\ DOMAIN dpc = Clients
    /\ closed \in [Clients -> BOOLEAN] /\ signal \in [Clients -> BOOLEAN]
    /\ items = [c \in Clients |-> items[c]] /\ dpc = [c \in Clients |-> dpc[c]]

WakeInv == QueueType /\ NoLostWake

LEMMA SameQueue ==
  ASSUME WakeInv, UNCHANGED queueVars
  PROVE  WakeInv'
  BY DEF WakeInv, QueueType, NoLostWake, queueVars

LEMMA NewQueueWakes ==
  ASSUME WakeInv, NEW c \in Clients, NEW events, NEW isClosed \in BOOLEAN,
         NewQueue(c, events, isClosed)
  PROVE  WakeInv'
  BY DEF WakeInv, QueueType, NoLostWake, NewQueue

LEMMA PushWakes ==
  ASSUME WakeInv, NEW S, NEW e, Push(S, e)
  PROVE  WakeInv'
  BY DEF WakeInv, QueueType, NoLostWake, Push

LEMMA CloseWakes ==
  ASSUME WakeInv, NEW S, Close(S)
  PROVE  WakeInv'
  BY DEF WakeInv, QueueType, NoLostWake, Close

LEMMA DiscardWakes ==
  ASSUME WakeInv, NEW S, Discard(S)
  PROVE  WakeInv'
  BY DEF WakeInv, QueueType, NoLostWake, Discard

LEMMA HandsWake ==
  ASSUME WakeInv, NEW c \in Clients, Take(c) \/ Wake(c) \/ HandOver(c)
  PROVE  WakeInv'
<1>1. CASE Take(c)
  BY <1>1 DEF WakeInv, QueueType, NoLostWake, Take
<1>2. CASE Wake(c)
  BY <1>2 DEF WakeInv, QueueType, NoLostWake, Wake
<1>3. CASE HandOver(c)
  BY <1>3 DEF WakeInv, QueueType, NoLostWake, HandOver
<1> QED
  BY <1>1, <1>2, <1>3

(***************************************************************************)
(* A queue's goroutine never sleeps over events or over its close, whoever *)
(* pushes, closes or leaves while it decides to (queue.deliver).           *)
(***************************************************************************)
THEOREM WakeCorrect == Spec => []NoLostWake
<1>1. Init => WakeInv
  BY DEF Init, QueueInit, WakeInv, QueueType, NoLostWake
<1>2. WakeInv /\ [Next]_vars => WakeInv'
  <2> SUFFICES ASSUME WakeInv, [Next]_vars PROVE WakeInv'
    OBVIOUS
  <2>1. CASE Start \/ ResumeFolds \/ Resume \/ Log \/ Forget \/ Shutdown
    BY <2>1, SameQueue DEF Start, ResumeFolds, Resume, Log, Forget, Shutdown
  <2>2. CASE LogReturns \/ PublishLive
    BY <2>2, PushWakes DEF LogReturns, PublishLive
  <2>3. CASE LogFails \/ Finish
    BY <2>3, CloseWakes, SameQueue DEF LogFails, Finish
  <2>4. CASE Cancel \/ CancelLogs \/ CancelReturns \/ FileStep
    BY <2>4, SameQueue DEF Cancel, CancelLogs, CancelReturns, FileStep
  <2>5. ASSUME NEW c \in Clients, ClientNext(c) PROVE WakeInv'
    <3>1. CASE Connect(c) \/ StateAnswers(c) \/ Look(c) \/ Refuse(c)
      BY <3>1, SameQueue DEF Connect, StateAnswers, Look, Refuse
    <3>2. CASE Attach(c)
      BY <3>2, NewQueueWakes DEF Attach
    <3>3. CASE Deliver(c) \/ QueueStep(c)
      BY <3>3, HandsWake DEF Deliver, QueueStep, Hands
    <3>4. CASE StreamEnds(c) \/ Disconnect(c)
      BY <3>4, DiscardWakes DEF StreamEnds, Disconnect
    <3> QED
      BY <2>5, <3>1, <3>2, <3>3, <3>4 DEF ClientNext
  <2>6. CASE Crash \/ HostCrash \/ Exit
    BY <2>6, DiscardWakes DEF Crash, HostCrash, Exit, ServerGone
  <2>7. CASE Terminated \/ UNCHANGED vars
    BY <2>7, SameQueue DEF Terminated, vars
  <2> QED
    BY <2>1, <2>2, <2>3, <2>4, <2>5, <2>6, <2>7 DEF Next, RunNext
<1>3. WakeInv => NoLostWake
  BY DEF WakeInv
<1> QED
  BY <1>1, <1>2, <1>3, PTL DEF Spec

(***************************************************************************)
(* Above: the loop over the lines of Events, by the first round for which  *)
(* a claim would not hold.                                                 *)
(***************************************************************************)
SiftStep(l, a, i, s) == IF l[i].seq > a THEN Append(s, l[i]) ELSE s
Sifts(l, a, n, f) == f = [i \in 0 .. n |-> IF i = 0 THEN <<>> ELSE SiftStep(l, a, i, f[i - 1])]
Sifted(l, a) == CHOOSE f : Sifts(l, a, Len(l), f)

LEMMA LeastNat ==
  ASSUME NEW T \in SUBSET Nat, T # {}
  PROVE  \E m \in T : \A k \in T : m <= k
<1>1. PICK m \in T : \A k \in T : <<k, m>> \notin OpToRel(<, Nat)
  BY WFMin, NatLessThanWellFounded, Zenon
<1>2. \A k \in T : ~(k < m)
  BY <1>1 DEF OpToRel
<1> QED
  BY <1>2

LEMMA SiftExists ==
  ASSUME NEW l, NEW a, NEW n \in Nat
  PROVE  \E f : Sifts(l, a, n, f)
<1> DEFINE T == {m \in Nat : ~ \E f : Sifts(l, a, m, f)}
<1> SUFFICES ASSUME T # {} PROVE FALSE
  OBVIOUS
<1>1. PICK m \in T : \A k \in T : m <= k
  <2> HIDE DEF T
  <2>1. T \subseteq Nat
    BY DEF T
  <2> QED
    BY <2>1, LeastNat
<1>2. CASE m = 0
  <2>1. Sifts(l, a, 0, [i \in 0 .. 0 |-> <<>>])
    BY DEF Sifts
  <2> QED
    BY <1>2, <2>1
<1>3. CASE m # 0
  <2>1. m - 1 \in Nat /\ m - 1 \notin T
    BY <1>1, <1>3
  <2>2. PICK f : Sifts(l, a, m - 1, f)
    BY <2>1
  <2> DEFINE g == [i \in 0 .. m |-> IF i = m THEN SiftStep(l, a, m, f[m - 1]) ELSE f[i]]
  <2>3. \A i \in 0 .. m - 1 : f[i] = IF i = 0 THEN <<>> ELSE SiftStep(l, a, i, f[i - 1])
    BY <2>1, <2>2 DEF Sifts
  <2>4. ASSUME NEW i \in 0 .. m
        PROVE  g[i] = IF i = 0 THEN <<>> ELSE SiftStep(l, a, i, g[i - 1])
    <3>1. CASE i = m
      BY <1>3, <2>1, <3>1
    <3>2. CASE i # m
      <4>1. i \in 0 .. m - 1 /\ (i # 0 => i - 1 \in 0 .. m /\ i - 1 # m)
        BY <2>1, <3>2
      <4> QED
        BY <2>3, <3>2, <4>1
    <3> QED
      BY <3>1, <3>2
  <2>5. Sifts(l, a, m, g)
    BY <2>4 DEF Sifts
  <2> QED
    BY <2>5
<1> QED
  BY <1>2, <1>3

LEMMA SiftIs ==
  ASSUME NEW l, Len(l) \in Nat, NEW a
  PROVE  /\ Above(l, a) = Sifted(l, a)[Len(l)] /\ Sifted(l, a)[0] = <<>>
         /\ \A i \in 1 .. Len(l) : Sifted(l, a)[i] = SiftStep(l, a, i, Sifted(l, a)[i - 1])
<1>1. Above(l, a) = Sifted(l, a)[Len(l)]
  BY DEF Above, Sifted, Sifts, SiftStep
<1>2. Sifts(l, a, Len(l), Sifted(l, a))
  BY SiftExists DEF Sifted
<1>3. \A i \in 0 .. Len(l) : Sifted(l, a)[i] = IF i = 0 THEN <<>> ELSE SiftStep(l, a, i, Sifted(l, a)[i - 1])
  BY <1>2 DEF Sifts
<1> QED
  BY <1>1, <1>3

(* Whatever takes the same steps comes to the same result. *)
LEMMA SiftIsOnly ==
  ASSUME NEW l, Len(l) \in Nat, NEW a, NEW g, g[0] = <<>>,
         \A i \in 1 .. Len(l) : g[i] = SiftStep(l, a, i, g[i - 1])
  PROVE  Above(l, a) = g[Len(l)]
<1> DEFINE f == Sifted(l, a)
           T == {i \in 0 .. Len(l) : f[i] # g[i]}
<1>0. Above(l, a) = f[Len(l)] /\ f[0] = <<>> /\ \A i \in 1 .. Len(l) : f[i] = SiftStep(l, a, i, f[i - 1])
  BY SiftIs
<1> HIDE DEF f
<1>1. T = {}
  <2> SUFFICES ASSUME T # {} PROVE FALSE
    OBVIOUS
  <2>1. PICK m \in T : \A k \in T : m <= k
    <3>1. T \in SUBSET Nat
      OBVIOUS
    <3> HIDE DEF T
    <3> QED
      BY <3>1, LeastNat
  <2>2. m \in 1 .. Len(l) /\ m - 1 \notin T /\ m - 1 \in 0 .. Len(l)
    BY <1>0, <2>1
  <2>3. f[m - 1] = g[m - 1]
    BY <2>2
  <2> QED
    BY <1>0, <2>1, <2>2, <2>3
<1> QED
  BY <1>0, <1>1

(* The events above a cursor are events of the list. *)
LEMMA AboveType ==
  ASSUME NEW S, NEW l \in Seq(S), NEW a
  PROVE  Above(l, a) \in Seq(S) /\ \A i \in 0 .. Len(l) : Sifted(l, a)[i] \in Seq(S)
<1> DEFINE f == Sifted(l, a)
           T == {i \in 0 .. Len(l) : f[i] \notin Seq(S)}
<1>0. /\ Len(l) \in Nat /\ Above(l, a) = f[Len(l)] /\ f[0] = <<>>
      /\ \A i \in 1 .. Len(l) : f[i] = SiftStep(l, a, i, f[i - 1])
  BY SiftIs
<1> HIDE DEF f
<1>1. T = {}
  <2> SUFFICES ASSUME T # {} PROVE FALSE
    OBVIOUS
  <2>1. PICK m \in T : \A k \in T : m <= k
    <3>1. T \in SUBSET Nat
      BY <1>0
    <3> HIDE DEF T
    <3> QED
      BY <3>1, LeastNat
  <2>2. <<>> \in Seq(S) /\ m \in 0 .. Len(l) /\ f[m] \notin Seq(S)
    BY <2>1
  <2> HIDE DEF T
  <2>3. m # 0
    BY <1>0, <2>2
  <2>4. m \in 1 .. Len(l) /\ m - 1 \in 0 .. Len(l) /\ ~(m <= m - 1)
    BY <1>0, <2>2, <2>3
  <2>5. f[m - 1] \in Seq(S) /\ l[m] \in S
    BY <2>1, <2>4 DEF T
  <2>6. f[m] = IF l[m].seq > a THEN Append(f[m - 1], l[m]) ELSE f[m - 1]
    BY <1>0, <2>4 DEF SiftStep
  <2>7. Append(f[m - 1], l[m]) \in Seq(S)
    BY <2>5
  <2> QED
    BY <2>2, <2>5, <2>6, <2>7
<1>2. \A i \in 0 .. Len(l) : f[i] \in Seq(S)
  BY <1>1
<1> QED
  BY <1>0, <1>2 DEF f
LEMMA AboveNone ==
  ASSUME NEW a
  PROVE  Above(<<>>, a) = <<>>
<1>1. Len(<<>>) = 0
  OBVIOUS
<1> QED
  BY <1>1, SiftIs

LEMMA AboveAppend ==
  ASSUME NEW S, NEW l \in Seq(S), NEW e \in S, NEW a
  PROVE  Above(Append(l, e), a) = IF e.seq > a THEN Append(Above(l, a), e) ELSE Above(l, a)
<1> DEFINE n == Len(l)
           k == Append(l, e)
           f == Sifted(l, a)
           g == [i \in 0 .. n + 1 |-> IF i = n + 1 THEN SiftStep(k, a, i, f[n]) ELSE f[i]]
<1>1. /\ n \in Nat /\ Len(k) = n + 1 /\ k[n + 1] = e /\ \A i \in 1 .. n : k[i] = l[i]
  OBVIOUS
<1>2. /\ Above(l, a) = f[n] /\ f[0] = <<>>
      /\ \A i \in 1 .. n : f[i] = SiftStep(l, a, i, f[i - 1])
  BY <1>1, SiftIs
<1> HIDE DEF n, k, f
<1>3. g[0] = <<>> /\ g[n + 1] = SiftStep(k, a, n + 1, f[n])
  BY <1>1, <1>2
<1>4. ASSUME NEW i \in 1 .. n + 1
      PROVE  g[i] = SiftStep(k, a, i, g[i - 1])
  <2>1. i - 1 \in 0 .. n + 1 /\ i - 1 # n + 1 /\ g[i - 1] = f[i - 1]
    BY <1>1
  <2>2. CASE i = n + 1
    BY <1>1, <1>3, <2>1, <2>2
  <2>3. CASE i # n + 1
    <3>1. i \in 1 .. n /\ g[i] = f[i] /\ k[i] = l[i]
      BY <1>1, <2>3
    <3> QED
      BY <1>2, <2>1, <3>1 DEF SiftStep
  <2> QED
    BY <2>2, <2>3
<1>5. Above(k, a) = g[n + 1]
  <2> HIDE DEF g
  <2> QED
    BY <1>1, <1>3, <1>4, SiftIsOnly
<1> QED
  BY <1>1, <1>2, <1>3, <1>5 DEF SiftStep, k

LEMMA AboveJoin ==
  ASSUME NEW S, NEW l \in Seq(S), NEW m \in Seq(S), NEW a
  PROVE  Above(l \o m, a) = Above(l, a) \o Above(m, a)
<1> DEFINE n == Len(l)
           p == Len(m)
           k == l \o m
           f == Sifted(l, a)
           h == Sifted(m, a)
           g == [i \in 0 .. n + p |-> IF i < n THEN f[i] ELSE f[n] \o h[i - n]]
<1>1. /\ n \in Nat /\ p \in Nat /\ Len(k) = n + p
      /\ \A i \in 1 .. n : k[i] = l[i]
      /\ \A i \in 1 .. p : k[n + i] = m[i] /\ m[i] \in S
  OBVIOUS
<1>2. /\ Above(l, a) = f[n] /\ f[0] = <<>>
      /\ \A i \in 1 .. n : f[i] = SiftStep(l, a, i, f[i - 1])
  BY <1>1, SiftIs
<1>3. /\ Above(m, a) = h[p] /\ h[0] = <<>>
      /\ \A i \in 1 .. p : h[i] = SiftStep(m, a, i, h[i - 1])
  BY <1>1, SiftIs
<1>4. f[n] \in Seq(S) /\ \A i \in 0 .. p : h[i] \in Seq(S)
  BY <1>1, AboveType
<1> HIDE DEF n, p, k, f, h
<1>5. f[n] \o <<>> = f[n]
  BY <1>4
<1>6. \A i \in 0 .. n : g[i] = f[i]
  <2> TAKE i \in 0 .. n
  <2>1. CASE i < n
    BY <1>1, <2>1
  <2>2. CASE i = n
    <3>1. n \in 0 .. n + p /\ ~(n < n) /\ n - n = 0
      BY <1>1
    <3> QED
      BY <1>3, <1>5, <2>2, <3>1
  <2> QED
    BY <1>1, <2>1, <2>2
<1>7. \A j \in 0 .. p : g[n + j] = f[n] \o h[j]
  <2> TAKE j \in 0 .. p
  <2>1. n + j \in 0 .. n + p /\ ~(n + j < n) /\ (n + j) - n = j
    BY <1>1
  <2> QED
    BY <2>1
<1> HIDE DEF g
<1>8. ASSUME NEW i \in 1 .. n + p
      PROVE  g[i] = SiftStep(k, a, i, g[i - 1])
  <2>1. CASE i \in 1 .. n
    <3>1. i \in 0 .. n /\ i - 1 \in 0 .. n /\ k[i] = l[i]
      BY <1>1, <2>1
    <3> QED
      BY <1>2, <1>6, <2>1, <3>1 DEF SiftStep
  <2>2. CASE i \notin 1 .. n
    <3> DEFINE j == i - n
    <3>1. j \in 1 .. p /\ j \in 0 .. p /\ j - 1 \in 0 .. p /\ i = n + j /\ i - 1 = n + (j - 1)
      BY <1>1, <2>2
    <3> HIDE DEF j
    <3>2. /\ g[i] = f[n] \o h[j] /\ g[i - 1] = f[n] \o h[j - 1] /\ k[i] = m[j] /\ m[j] \in S
          /\ h[j] = IF m[j].seq > a THEN Append(h[j - 1], m[j]) ELSE h[j - 1]
          /\ h[j - 1] \in Seq(S)
      BY <1>1, <1>3, <1>4, <1>7, <3>1 DEF SiftStep
    <3>3. f[n] \o Append(h[j - 1], m[j]) = Append(f[n] \o h[j - 1], m[j])
      <4>1. /\ Append(h[j - 1], m[j]) = h[j - 1] \o <<m[j]>> /\ <<m[j]>> \in Seq(S)
            /\ f[n] \o h[j - 1] \in Seq(S)
        BY <1>4, <3>2, AppendIsConcat, ConcatProperties
      <4>2. Append(f[n] \o h[j - 1], m[j]) = (f[n] \o h[j - 1]) \o <<m[j]>>
        BY <3>2, <4>1, AppendIsConcat
      <4>3. \A x, y, z \in Seq(S) : (x \o y) \o z = x \o (y \o z)
        BY ConcatAssociative
      <4>4. (f[n] \o h[j - 1]) \o <<m[j]>> = f[n] \o (h[j - 1] \o <<m[j]>>)
        BY <1>4, <3>2, <4>1, <4>3, Zenon
      <4> QED
        BY <4>1, <4>2, <4>4
    <3> QED
      BY <3>2, <3>3 DEF SiftStep
  <2> QED
    BY <2>1, <2>2
<1>9. g[0] = <<>> /\ n + p = Len(k) /\ n + p \in Nat
  BY <1>1, <1>2, <1>6
<1>10. Above(k, a) = g[n + p]
  <2>1. Len(k) \in Nat /\ \A i \in 1 .. Len(k) : g[i] = SiftStep(k, a, i, g[i - 1])
    BY <1>8, <1>9
  <2> QED
    BY <1>9, <2>1, SiftIsOnly
<1>11. g[n + p] = f[n] \o h[p]
  <2>1. p \in 0 .. p
    BY <1>1
  <2> QED
    BY <1>7, <2>1
<1> QED
  BY <1>2, <1>3, <1>10, <1>11 DEF k

LEMMA SubSeqGrows ==
  ASSUME NEW S, NEW l \in Seq(S), NEW m \in 1 .. Len(l), NEW n \in m .. Len(l)
  PROVE  SubSeq(l, m, n) = Append(SubSeq(l, m, n - 1), l[n])
<1>1. m \in Int /\ n - 1 \in Int /\ \A i \in m .. n - 1 : l[i] \in S
  OBVIOUS
<1>2. SubSeq(l, m, n - 1) \in Seq(S) /\ l[n] \in S
  BY <1>1, SubSeqProperties
<1> QED
  BY <1>2, SubSeqRecursiveSecond, AppendIsConcat

(* A list whose events are all above the cursor is taken whole. *)
LEMMA AboveAll ==
  ASSUME NEW S, NEW l \in Seq(S), NEW a, \A i \in 1 .. Len(l) : l[i].seq > a
  PROVE  Above(l, a) = l
<1> DEFINE n == Len(l)
           g == [i \in 0 .. n |-> SubSeq(l, 1, i)]
<1>1. n \in Nat /\ g[0] = <<>> /\ g[n] = l
  OBVIOUS
<1>2. ASSUME NEW i \in 1 .. n
      PROVE  g[i] = SiftStep(l, a, i, g[i - 1])
  <2>1. /\ i - 1 \in 0 .. n /\ i \in 0 .. n /\ l[i].seq > a
        /\ SubSeq(l, 1, i) = Append(SubSeq(l, 1, i - 1), l[i])
    BY <1>1, SubSeqGrows
  <2> QED
    BY <2>1 DEF SiftStep
<1> HIDE DEF g
<1> QED
  BY <1>1, <1>2, SiftIsOnly

(* Of a list that numbers its events, the ones above a cursor are those    *)
(* that follow it.                                                         *)
LEMMA AboveNumbered ==
  ASSUME NEW S, NEW l \in Seq(S), \A i \in 1 .. Len(l) : l[i].seq = i, NEW a \in 0 .. Len(l)
  PROVE  Above(l, a) = SubSeq(l, a + 1, Len(l))
<1> DEFINE n == Len(l)
           g == [i \in 0 .. n |-> IF i <= a THEN <<>> ELSE SubSeq(l, a + 1, i)]
<1>1. n \in Nat /\ a \in Nat /\ g[0] = <<>> /\ g[n] = SubSeq(l, a + 1, n)
  OBVIOUS
<1>2. ASSUME NEW i \in 1 .. n
      PROVE  g[i] = SiftStep(l, a, i, g[i - 1])
  <2>1. i - 1 \in 0 .. n /\ i \in 0 .. n /\ l[i].seq = i
    BY <1>1
  <2>2. CASE i <= a
    <3>1. i - 1 <= a /\ ~(i > a)
      BY <1>1, <2>1, <2>2
    <3> QED
      BY <2>1, <2>2, <3>1 DEF SiftStep
  <2>3. CASE i = a + 1
    <3>1. i - 1 <= a /\ i > a /\ ~(i <= a)
      BY <1>1, <2>1, <2>3
    <3>2. SubSeq(l, a + 1, i) = Append(SubSeq(l, a + 1, i - 1), l[i]) /\ SubSeq(l, a + 1, i - 1) = <<>>
      BY <1>1, <2>1, <2>3, SubSeqGrows, SubSeqEmpty
    <3> QED
      BY <2>1, <3>1, <3>2 DEF SiftStep
  <2>4. CASE i > a + 1
    <3>1. ~(i - 1 <= a) /\ i > a /\ ~(i <= a)
      BY <1>1, <2>1, <2>4
    <3>2. SubSeq(l, a + 1, i) = Append(SubSeq(l, a + 1, i - 1), l[i])
      BY <1>1, <2>1, <2>4, SubSeqGrows
    <3> QED
      BY <2>1, <3>1, <3>2 DEF SiftStep
  <2> QED
    BY <1>1, <2>1, <2>2, <2>3, <2>4
<1> HIDE DEF g
<1> QED
  BY <1>1, <1>2, SiftIsOnly

(***************************************************************************)
(* The log.                                                                *)
(***************************************************************************)
(* The first event starts the run, and the bound leaves the last number to *)
(* its end.                                                                *)
Within(e) ==
    /\ e \in LogEvent /\ (e.seq = MaxEvents + 1 => Ended(e))
    /\ (e.seq = 1) = (e.kind = "start")

Told(l) == \A i \in 1 .. Len(l) : Within(l[i]) /\ (Ended(l[i]) => i = Len(l))

There(l, e) == e.seq \in 1 .. Len(l) /\ l[e.seq] = e

(* An event to be appended: the one it follows is there, and is no end.    *)
Coming(l, e) ==
    /\ Within(e) /\ e.seq <= Len(l) + 1
    /\ e.seq > 1 => ~Ended(l[e.seq - 1])

(* An Append that wrote its line finds it in the file until it returns, and *)
(* syncs it before it reports it.                                          *)
AppendInv ==
    \A w \in Writers :
      /\ wpc[w] \in {"tail", "write"} => Coming(Decoded, wev[w])
      /\ wpc[w] \in {"sync", "dir", "ok"} => There(Decoded, wev[w]) /\ wev[w].seq <= Len(lines)
      /\ wpc[w] = "dir" => wev[w].seq <= synced

LogInv == FileInv /\ Told(Decoded) /\ AppendInv /\ reported \in Nat /\ reported <= synced

(* What the runner remembers of the log is in it, and its loop logs what   *)
(* follows what it remembers.                                              *)
Recalled(l, e) == e = NoFold \/ There(l, e)
RunInv ==
    /\ Recalled(Decoded, mem) /\ Recalled(Decoded, resume) /\ resume.seq < MaxEvents
    /\ reg = "on" => mem # NoFold
    /\ reg = "new" => mem.seq < MaxEvents
    /\ wpc[Loop] # "idle" => reg \in {"new", "on"} /\ wev[Loop].seq = mem.seq + 1

(* The log grows. *)
Extends(l, k) == Len(l) <= Len(k) /\ \A i \in 1 .. Len(l) : k[i] = l[i]

LEMMA DecodedIs ==
  ASSUME FileInv
  PROVE  /\ Decoded \in Seq(LineType) /\ Len(lines) <= Len(Decoded) /\ lines \in Seq(LineType)
         /\ \A i \in 1 .. Len(Decoded) : Decoded[i] # Garbage /\ Decoded[i].seq = i
         /\ \A i \in 1 .. Len(lines) : Decoded[i] = lines[i]
<1>1. lines \in Seq(LineType) /\ rest \in Seq(LineType)
  BY DEF FileInv, FileType
<1>2. \A i \in 1 .. Len(lines) : Decoded[i] = lines[i]
  BY <1>1 DEF Decoded
<1> QED
  BY <1>1, <1>2, RepairNumbers DEF Repaired

LEMMA Stays ==
  ASSUME FileInv
  PROVE  Extends(Decoded, Decoded)
BY DecodedIs DEF Extends

LEMMA ThereGrows ==
  ASSUME NEW l, NEW k, Len(l) \in Nat, Len(k) \in Nat, Extends(l, k), NEW e, There(l, e)
  PROVE  There(k, e)
BY DEF There, Extends

LEMMA ComingGrows ==
  ASSUME NEW l, NEW k, Len(l) \in Nat, Len(k) \in Nat, Extends(l, k), NEW e, Coming(l, e)
  PROVE  Coming(k, e)
<1>1. e.seq \in 1 .. MaxEvents + 1 /\ MaxEvents \in Nat
  BY BoundsAssumption DEF Coming, Within, LogEvent
<1>2. Within(e) /\ e.seq <= Len(l) + 1 /\ (e.seq > 1 => ~Ended(l[e.seq - 1]))
  BY DEF Coming
<1>3. CASE e.seq > 1
  <2>1. e.seq - 1 \in 1 .. Len(l)
    BY <1>1, <1>2, <1>3
  <2>2. k[e.seq - 1] = l[e.seq - 1]
    BY <2>1 DEF Extends
  <2> QED
    BY <1>1, <1>2, <2>2 DEF Coming, Extends
<1>4. CASE ~(e.seq > 1)
  BY <1>1, <1>2, <1>4 DEF Coming, Extends
<1> QED
  BY <1>3, <1>4

LEMMA AppendTold ==
  ASSUME NEW l \in Seq(LineType), Told(l), NEW e \in LineType, Coming(l, e), e.seq = Len(l) + 1
  PROVE  /\ Told(Append(l, e)) /\ Extends(l, Append(l, e)) /\ There(Append(l, e), e)
         /\ Append(l, e) \in Seq(LineType)
<1> DEFINE k == Append(l, e)
<1>1. /\ Len(l) \in Nat /\ k \in Seq(LineType) /\ Len(k) = Len(l) + 1 /\ k[Len(l) + 1] = e
      /\ \A i \in 1 .. Len(l) : k[i] = l[i]
  OBVIOUS
<1> HIDE DEF k
<1>2. ASSUME NEW i \in 1 .. Len(k)
      PROVE  Within(k[i]) /\ (Ended(k[i]) => i = Len(k))
  <2>1. CASE i = Len(l) + 1
    BY <1>1, <2>1 DEF Coming
  <2>2. CASE i # Len(l) + 1
    <3>1. i \in 1 .. Len(l) /\ k[i] = l[i]
      BY <1>1, <2>2
    <3>2. Within(l[i]) /\ (Ended(l[i]) => i = Len(l))
      BY <3>1 DEF Told
    <3>3. ~Ended(l[Len(l)])
      <4>1. e.seq > 1 /\ e.seq - 1 = Len(l)
        BY <1>1, <3>1
      <4> QED
        BY <4>1 DEF Coming
    <3> QED
      BY <3>1, <3>2, <3>3
  <2> QED
    BY <2>1, <2>2
<1>3. Told(k)
  BY <1>2 DEF Told
<1>4. Extends(l, k) /\ There(k, e)
  BY <1>1 DEF Extends, There
<1> QED
  BY <1>1, <1>3, <1>4 DEF k

(***************************************************************************)
(* What each step of the file does to the log.                             *)
(***************************************************************************)
LEMMA SameLog ==
  ASSUME lines' = lines, rest' = rest
  PROVE  Decoded' = Decoded
BY DEF Decoded

LEMMA TailDecodes ==
  ASSUME FileInv, NEW w \in Writers, ReadTail(w)
  PROVE  Decoded' = Decoded /\ lines' = Decoded
<1>1. lines' = Decoded /\ rest' = <<>> /\ Decoded \in Seq(LineType)
  BY DecodedIs DEF ReadTail, Repaired
<1>2. Decoded' = lines' \o <<>>
  BY <1>1 DEF Decoded
<1> QED
  BY <1>1, <1>2, ConcatEmptySeq

(* At its write an Append finds the file as its tail left it. *)
LEMMA WriterHolds ==
  ASSUME FileInv, NEW w \in Writers, wpc[w] = "write"
  PROVE  /\ rest = <<>> /\ Decoded = lines /\ lines \in Seq(LineType)
         /\ wev[w] \in LineType /\ wev[w].seq = Len(Decoded) + 1
<1>1. /\ rest = <<>> /\ lines \in Seq(LineType) /\ wev[w] \in LineType
      /\ wev[w].seq = Len(lines) + 1
  BY DEF FileInv, FileType, TailHolds
<1>2. Decoded = lines \o <<>>
  BY <1>1 DEF Decoded
<1> QED
  BY <1>1, <1>2, ConcatEmptySeq

LEMMA WriteDecodes ==
  ASSUME FileInv, NEW w \in Writers, Write(w)
  PROVE  Decoded' = Append(Decoded, wev[w]) /\ lines' = Decoded'
<1>1. wpc[w] = "write"
  BY DEF Write
<1>2. lines' = Append(Decoded, wev[w]) /\ rest' = <<>> /\ lines' \in Seq(LineType)
  BY <1>1, WriterHolds DEF Write
<1>3. Decoded' = lines' \o <<>>
  BY <1>2 DEF Decoded
<1> QED
  BY <1>2, <1>3, ConcatEmptySeq

LEMMA PartialDecodes ==
  ASSUME FileInv, NEW w \in Writers, wpc[w] = "write", Partial(w)
  PROVE  Decoded' \in {Decoded, Append(Decoded, wev[w])} /\ lines' = lines
<1>1. /\ rest = <<>> /\ Decoded = lines /\ lines \in Seq(LineType) /\ wev[w] \in LineType
      /\ lines' = lines
  BY WriterHolds DEF Partial
<1>2. CASE rest' = rest
  BY <1>1, <1>2, SameLog
<1>3. CASE rest' = <<Garbage>>
  BY <1>1, <1>3 DEF Decoded
<1>4. CASE rest' = <<wev[w]>> /\ wev[w] # Garbage
  <2>1. Decoded' = lines \o <<wev[w]>>
    BY <1>1, <1>4 DEF Decoded
  <2> QED
    BY <1>1, <2>1, AppendIsConcat
<1> QED
  BY <1>1, <1>2, <1>3, <1>4 DEF Partial

(***************************************************************************)
(* The log's invariant.                                                    *)
(***************************************************************************)
LEMMA Lengths ==
  ASSUME FileInv
  PROVE  /\ Len(lines) \in Nat /\ Len(Decoded) \in Nat /\ synced \in Nat
         /\ synced <= Len(lines) /\ Len(lines) <= Len(Decoded)
BY DecodedIs DEF FileInv, FileType

Bounded ==
    /\ Len(lines) \in Nat /\ Len(Decoded) \in Nat /\ synced \in Nat
    /\ synced <= Len(lines) /\ Len(lines) <= Len(Decoded)

LEMMA LengthsNext ==
  FileInv' => /\ Len(lines') \in Nat /\ Len(Decoded') \in Nat /\ synced' \in Nat
              /\ synced' <= Len(lines') /\ Len(lines') <= Len(Decoded')
<1>1. FileInv => Bounded
  BY Lengths DEF Bounded
<1>2. FileInv' => Bounded'
  BY <1>1, PTL
<1> QED
  BY <1>2 DEF Bounded

LEMMA AppendMoves ==
  ASSUME LogInv, FileInv', Extends(Decoded, Decoded'), Len(lines) <= Len(lines'),
         synced <= synced', NEW w \in Writers, wev' = wev,
         NEW pc, wpc' = [wpc EXCEPT ![w] = pc],
         pc \in {"tail", "write"} => wpc[w] \in {"tail", "write"},
         pc \in {"sync", "dir", "ok"} =>
           There(Decoded', wev[w]) /\ wev[w].seq \in Nat /\ wev[w].seq <= Len(lines'),
         pc = "dir" => wev[w].seq <= synced'
  PROVE  AppendInv'
<1> SUFFICES ASSUME NEW v \in Writers
             PROVE  /\ wpc'[v] \in {"tail", "write"} => Coming(Decoded', wev[v])
                    /\ wpc'[v] \in {"sync", "dir", "ok"} =>
                         There(Decoded', wev[v]) /\ wev[v].seq <= Len(lines')
                    /\ wpc'[v] = "dir" => wev[v].seq <= synced'
  BY DEF AppendInv
<1>1. /\ wpc[v] \in {"tail", "write"} => Coming(Decoded, wev[v])
      /\ wpc[v] \in {"sync", "dir", "ok"} => There(Decoded, wev[v]) /\ wev[v].seq <= Len(lines)
      /\ wpc[v] = "dir" => wev[v].seq <= synced
  BY DEF LogInv, AppendInv
<1>2. /\ Len(lines) \in Nat /\ Len(Decoded) \in Nat /\ synced \in Nat
      /\ Len(lines') \in Nat /\ Len(Decoded') \in Nat /\ synced' \in Nat
      /\ wev[v].seq \in Nat /\ DOMAIN wpc = Writers
  BY Lengths, LengthsNext DEF LogInv, FileInv, FileType, LineType
<1>3. Coming(Decoded, wev[v]) => Coming(Decoded', wev[v])
  BY <1>2, ComingGrows
<1>4. There(Decoded, wev[v]) => There(Decoded', wev[v])
  BY <1>2, ThereGrows
<1>5. CASE v = w
  <2>1. wpc'[v] = pc
    BY <1>2, <1>5
  <2> QED
    BY <1>1, <1>3, <1>5, <2>1
<1>6. CASE v # w
  <2>1. wpc'[v] = wpc[v]
    BY <1>2, <1>6
  <2>2. wpc[v] \in {"sync", "dir", "ok"} => There(Decoded', wev[v]) /\ wev[v].seq <= Len(lines')
    BY <1>1, <1>2, <1>4
  <2>3. wpc[v] = "dir" => wev[v].seq <= synced'
    BY <1>1, <1>2
  <2> QED
    BY <1>1, <1>3, <2>1, <2>2, <2>3
<1> QED
  BY <1>5, <1>6

LEMMA TailLogs ==
  ASSUME LogInv, FileInv', NEW w \in Writers, ReadTail(w)
  PROVE  LogInv' /\ Decoded' = Decoded
<1>1. Decoded' = Decoded /\ lines' = Decoded /\ FileInv
  BY TailDecodes DEF LogInv
<1>2. PICK pc \in {"write", "failed"} : wpc' = [wpc EXCEPT ![w] = pc]
  BY DEF ReadTail, Goto
<1>3. wpc[w] = "tail" /\ wev' = wev /\ synced' = synced /\ reported' = reported
  BY DEF ReadTail
<1>4. Extends(Decoded, Decoded') /\ Len(lines) <= Len(lines') /\ synced <= synced'
  BY <1>1, <1>3, Stays, Lengths
<1>5. AppendInv'
  BY <1>2, <1>3, <1>4, AppendMoves
<1> QED
  BY <1>1, <1>3, <1>5 DEF LogInv

LEMMA WriteLogs ==
  ASSUME LogInv, FileInv', NEW w \in Writers, Write(w)
  PROVE  LogInv' /\ Decoded' = Append(Decoded, wev[w]) /\ Extends(Decoded, Decoded')
<1>1. FileInv /\ Told(Decoded) /\ wpc[w] = "write" /\ Coming(Decoded, wev[w])
  BY DEF LogInv, AppendInv, Write
<1>2. Decoded' = Append(Decoded, wev[w]) /\ lines' = Decoded'
  BY <1>1, WriteDecodes
<1>3. /\ Decoded = lines /\ wev[w] \in LineType /\ wev[w].seq = Len(Decoded) + 1
      /\ Decoded \in Seq(LineType) /\ wev[w].seq \in Nat
  BY <1>1, WriterHolds DEF LineType
<1>4. /\ Told(Decoded') /\ Extends(Decoded, Decoded') /\ There(Decoded', wev[w])
      /\ Len(lines') = Len(lines) + 1
  BY <1>1, <1>2, <1>3, AppendTold
<1>5. wpc' = [wpc EXCEPT ![w] = "sync"] /\ wev' = wev /\ synced' = synced /\ reported' = reported
  BY DEF Write, Goto
<1>6. Len(lines) <= Len(lines') /\ synced <= synced' /\ wev[w].seq <= Len(lines')
  BY <1>1, <1>3, <1>4, <1>5, Lengths
<1>7. AppendInv'
  BY <1>3, <1>4, <1>5, <1>6, AppendMoves
<1> QED
  BY <1>2, <1>4, <1>5, <1>7 DEF LogInv

(* A partial write leaves the log, or has written the whole event. *)
LEMMA PartialLogs ==
  ASSUME LogInv, NEW w \in Writers, wpc[w] = "write", Partial(w)
  PROVE  /\ Told(Decoded') /\ Extends(Decoded, Decoded')
         /\ lines' = lines /\ synced' = synced /\ entry' = entry /\ home' = home
         /\ Decoded' \in {Decoded, Append(Decoded, wev[w])}
<1>1. FileInv /\ Told(Decoded) /\ Coming(Decoded, wev[w])
  BY DEF LogInv, AppendInv
<1>2. Decoded' \in {Decoded, Append(Decoded, wev[w])} /\ lines' = lines
  BY <1>1, PartialDecodes
<1>3. /\ wev[w] \in LineType /\ wev[w].seq = Len(Decoded) + 1 /\ Decoded \in Seq(LineType)
  BY <1>1, WriterHolds
<1>4. Told(Decoded') /\ Extends(Decoded, Decoded')
  BY <1>1, <1>2, <1>3, AppendTold, Stays
<1> QED
  BY <1>2, <1>4 DEF Partial

LEMMA WriteFailsLogs ==
  ASSUME LogInv, FileInv', NEW w \in Writers, WriteFails(w)
  PROVE  /\ LogInv' /\ Extends(Decoded, Decoded')
         /\ Decoded' \in {Decoded, Append(Decoded, wev[w])}
<1>1. /\ wpc[w] = "write" /\ Partial(w) /\ wpc' = [wpc EXCEPT ![w] = "failed"]
      /\ wev' = wev /\ reported' = reported
  BY DEF WriteFails, Goto
<1>2. /\ Told(Decoded') /\ Extends(Decoded, Decoded') /\ lines' = lines /\ synced' = synced
      /\ Decoded' \in {Decoded, Append(Decoded, wev[w])}
  BY <1>1, PartialLogs
<1>3. Len(lines) <= Len(lines') /\ synced <= synced'
  BY <1>2, Lengths DEF LogInv
<1>4. AppendInv'
  BY <1>1, <1>2, <1>3, AppendMoves
<1> QED
  BY <1>1, <1>2, <1>4 DEF LogInv

(* Only what is on the disk is reported. *)
LEMMA SyncLogs ==
  ASSUME LogInv, FileInv', NEW w \in Writers,
         Sync(w) \/ SyncDir(w) \/ SyncFails(w) \/ ReadTailFails(w)
  PROVE  LogInv' /\ Decoded' = Decoded
<1>0. /\ FileInv /\ wev[w].seq \in Nat /\ reported \in Nat /\ reported <= synced
      /\ Len(lines) \in Nat /\ synced \in Nat /\ synced <= Len(lines)
  BY Lengths DEF LogInv, FileInv, FileType, LineType
<1>1. lines' = lines /\ rest' = rest /\ wev' = wev
  BY DEF Sync, SyncDir, SyncFails, ReadTailFails, dataVars
<1>2. Decoded' = Decoded /\ Extends(Decoded, Decoded') /\ Len(lines) <= Len(lines')
  BY <1>0, <1>1, SameLog, Stays
<1>3. PICK pc \in {"failed", "dir", "ok"} : wpc' = [wpc EXCEPT ![w] = pc]
  BY DEF ReadTailFails, Sync, SyncDir, SyncFails, Goto
<1>4. /\ wpc[w] \in {"sync", "dir", "ok"} => There(Decoded, wev[w]) /\ wev[w].seq <= Len(lines)
      /\ wpc[w] = "dir" => wev[w].seq <= synced
  BY DEF LogInv, AppendInv
<1>5. CASE pc = "failed"
  <2>1. synced' = synced /\ reported' = reported
    <3>1. wpc'[w] = "failed"
      BY <1>3, <1>5 DEF LogInv, FileInv, FileType
    <3>2. ~Sync(w) /\ ~SyncDir(w)
      BY <3>1 DEF Sync, SyncDir, Goto, LogInv, FileInv, FileType
    <3> QED
      BY <3>2 DEF SyncFails, ReadTailFails, dataVars
  <2>2. synced <= synced'
    BY <1>0, <2>1
  <2>3. AppendInv'
    BY <1>1, <1>2, <1>3, <1>5, <2>2, AppendMoves
  <2> QED
    BY <1>0, <1>2, <2>1, <2>3 DEF LogInv
<1>6. CASE pc # "failed"
  <2>1. wpc'[w] # "failed" /\ (Sync(w) \/ SyncDir(w))
    <3>1. wpc'[w] # "failed"
      BY <1>3, <1>6 DEF LogInv, FileInv, FileType
    <3> QED
      BY <3>1 DEF SyncFails, ReadTailFails, Goto, LogInv, FileInv, FileType
  <2>2. /\ wpc[w] \in {"sync", "dir"} /\ synced' \in {synced, Len(lines)}
        /\ wev[w].seq <= synced'
        /\ reported' \in {reported, wev[w].seq}
    BY <1>0, <1>4, <2>1 DEF Sync, SyncDir, Synced, Reports
  <2>3. synced <= synced' /\ reported' \in Nat /\ reported' <= synced'
    BY <1>0, <2>2
  <2>4. There(Decoded', wev[w]) /\ wev[w].seq <= Len(lines')
    BY <1>1, <1>2, <1>4, <2>2
  <2>5. AppendInv'
    BY <1>0, <1>1, <1>2, <1>3, <1>6, <2>2, <2>3, <2>4, AppendMoves
  <2> QED
    BY <1>2, <2>3, <2>5 DEF LogInv
<1> QED
  BY <1>5, <1>6

LEMMA CallLogs ==
  ASSUME LogInv, FileInv', NEW w \in Writers, NEW e, Coming(Decoded, e), Call(w, e)
  PROVE  LogInv' /\ Decoded' = Decoded
<1>1. /\ lines' = lines /\ rest' = rest /\ synced' = synced /\ reported' = reported
      /\ wpc' = [wpc EXCEPT ![w] = "tail"] /\ wev' = [wev EXCEPT ![w] = e]
  BY DEF Call, Goto, dataVars
<1>2. Decoded' = Decoded
  BY <1>1, SameLog
<1>3. DOMAIN wpc = Writers /\ DOMAIN wev = Writers
  BY DEF LogInv, FileInv, FileType
<1>4. AppendInv'
  BY <1>1, <1>2, <1>3 DEF LogInv, AppendInv
<1> QED
  BY <1>1, <1>2, <1>4 DEF LogInv

LEMMA ReturnLogs ==
  ASSUME LogInv, FileInv', NEW w \in Writers, Return(w)
  PROVE  LogInv' /\ Decoded' = Decoded
<1>1. /\ lines' = lines /\ rest' = rest /\ synced' = synced /\ reported' = reported
      /\ wpc' = [wpc EXCEPT ![w] = "idle"] /\ wev' = [wev EXCEPT ![w] = Garbage]
  BY DEF Return, Goto, dataVars
<1>2. Decoded' = Decoded
  BY <1>1, SameLog
<1>3. DOMAIN wpc = Writers /\ DOMAIN wev = Writers
  BY DEF LogInv, FileInv, FileType
<1>4. AppendInv'
  BY <1>1, <1>2, <1>3 DEF LogInv, AppendInv
<1> QED
  BY <1>1, <1>2, <1>4 DEF LogInv

LEMMA CrashLogs ==
  ASSUME LogInv, FileInv', NEW p, FileCrash(p)
  PROVE  /\ LogInv' /\ Extends(Decoded, Decoded')
         /\ entry' = entry /\ home' = home /\ reported' = reported
         /\ \/ Decoded' = Decoded
            \/ \E w \in Writers : wpc[w] = "write" /\ Decoded' = Append(Decoded, wev[w])
<1> DEFINE W == {w \in Writers : Process[w] = p}
<1>0. FileInv
  BY DEF LogInv
<1>1. /\ Told(Decoded') /\ Extends(Decoded, Decoded') /\ lines' = lines /\ synced' = synced
      /\ entry' = entry /\ home' = home
      /\ \/ Decoded' = Decoded
         \/ \E w \in Writers : wpc[w] = "write" /\ Decoded' = Append(Decoded, wev[w])
  <2>1. CASE \E w \in W : wpc[w] = "write"
    <3>1. PICK w \in W : wpc[w] = "write" /\ Partial(w)
      BY <2>1 DEF FileCrash
    <3> QED
      BY <3>1, PartialLogs
  <2>2. CASE ~\E w \in W : wpc[w] = "write"
    <3>1. UNCHANGED dataVars
      BY <2>2 DEF FileCrash
    <3>2. Decoded' = Decoded
      BY <3>1, SameLog DEF dataVars
    <3> QED
      BY <1>0, <3>1, <3>2, Stays DEF LogInv, dataVars
  <2> QED
    BY <2>1, <2>2
<1>2. /\ wpc' = [w \in Writers |-> IF w \in W THEN "idle" ELSE wpc[w]]
      /\ wev' = [w \in Writers |-> IF w \in W THEN Garbage ELSE wev[w]]
      /\ reported' = reported
  BY DEF FileCrash, Stop
<1> HIDE DEF W
<1>3. ASSUME NEW v \in Writers
      PROVE  /\ wpc'[v] \in {"tail", "write"} => Coming(Decoded', wev'[v])
             /\ wpc'[v] \in {"sync", "dir", "ok"} =>
                  There(Decoded', wev'[v]) /\ wev'[v].seq <= Len(lines')
             /\ wpc'[v] = "dir" => wev'[v].seq <= synced'
  <2>1. CASE v \in W
    BY <1>2, <2>1
  <2>2. CASE v \notin W
    <3>1. wpc'[v] = wpc[v] /\ wev'[v] = wev[v]
      BY <1>2, <2>2
    <3>2. /\ wpc[v] \in {"tail", "write"} => Coming(Decoded, wev[v])
          /\ wpc[v] \in {"sync", "dir", "ok"} => There(Decoded, wev[v]) /\ wev[v].seq <= Len(lines)
          /\ wpc[v] = "dir" => wev[v].seq <= synced
      BY DEF LogInv, AppendInv
    <3>3. Len(Decoded) \in Nat /\ Len(Decoded') \in Nat
      BY <1>0, Lengths, LengthsNext
    <3>4. /\ Coming(Decoded, wev[v]) => Coming(Decoded', wev[v])
          /\ There(Decoded, wev[v]) => There(Decoded', wev[v])
      BY <1>1, <3>3, ComingGrows, ThereGrows
    <3> QED
      BY <1>1, <3>1, <3>2, <3>4
  <2> QED
    BY <2>1, <2>2
<1>4. AppendInv'
  BY <1>3 DEF AppendInv
<1> QED
  BY <1>1, <1>2, <1>4 DEF LogInv

LEMMA PrefixIs ==
  ASSUME NEW S, NEW k \in Seq(S), NEW l \in Seq(S), Len(k) <= Len(l),
         \A i \in 1 .. Len(k) : k[i] = l[i]
  PROVE  IsPrefixOf(k, l)
<1>1. Len(k) \in Nat /\ Len(l) \in Nat /\ \A i \in 1 .. Len(k) : l[i] \in S
  OBVIOUS
<1>2. /\ SubSeq(l, 1, Len(k)) \in Seq(S) /\ Len(SubSeq(l, 1, Len(k))) = Len(k)
      /\ \A i \in 1 .. Len(k) : SubSeq(l, 1, Len(k))[i] = l[i]
  <2> DEFINE n == Len(k)
  <2>1. n \in Int /\ 1 \in Int /\ n \in Nat /\ \A i \in 1 .. n : l[i] \in S
    BY <1>1
  <2> HIDE DEF n
  <2>2. /\ SubSeq(l, 1, n) \in Seq(S) /\ Len(SubSeq(l, 1, n)) = IF 1 <= n THEN n - 1 + 1 ELSE 0
        /\ \A i \in 1 .. n - 1 + 1 : SubSeq(l, 1, n)[i] = l[1 + i - 1]
    BY <2>1, SubSeqProperties
  <2>3. n - 1 + 1 = n /\ (IF 1 <= n THEN n - 1 + 1 ELSE 0) = n /\ \A i \in 1 .. n : 1 + i - 1 = i
    BY <2>1
  <2> QED
    BY <2>2, <2>3 DEF n
<1>3. k = SubSeq(l, 1, Len(k))
  BY <1>2, SeqEqual
<1> QED
  BY <1>3 DEF IsPrefixOf

LEMMA PrefixHas ==
  ASSUME NEW S, NEW k, NEW l \in Seq(S), Len(k) \in Nat, IsPrefixOf(k, l)
  PROVE  k \in Seq(S) /\ Len(k) <= Len(l) /\ \A i \in 1 .. Len(k) : k[i] = l[i]
<1> DEFINE n == Len(k)
<1>1. n \in Nat /\ n <= Len(l) /\ k = SubSeq(l, 1, n) /\ \A i \in 1 .. n : l[i] \in S
  BY DEF IsPrefixOf
<1> HIDE DEF n
<1>2. /\ SubSeq(l, 1, n) \in Seq(S)
      /\ \A i \in 1 .. n - 1 + 1 : SubSeq(l, 1, n)[i] = l[1 + i - 1]
  BY <1>1, SubSeqProperties
<1>3. n - 1 + 1 = n /\ \A i \in 1 .. n : 1 + i - 1 = i
  BY <1>1
<1> QED
  BY <1>1, <1>2, <1>3 DEF n

LEMMA PrefixTold ==
  ASSUME NEW k \in Seq(LineType), NEW l \in Seq(LineType), IsPrefixOf(k, l), Told(l)
  PROVE  Told(k)
<1>1. Len(k) <= Len(l) /\ (\A i \in 1 .. Len(k) : k[i] = l[i]) /\ Len(k) \in Nat /\ Len(l) \in Nat
  BY PrefixHas
<1> QED
  BY <1>1 DEF Told

LEMMA DecodedNext ==
  FileInv' => Decoded' \in Seq(LineType)
<1> DEFINE D == Decoded \in Seq(LineType)
<1>1. FileInv => D
  BY DecodedIs
<1> HIDE DEF D
<1>2. FileInv' => D'
  BY <1>1, PTL
<1> QED
  BY <1>2 DEF D

(* A crash of the host keeps a prefix of the log with all that was         *)
(* reported, or takes a file that the disk has no way to.                  *)
LEMMA HostCrashLogs ==
  ASSUME LogInv, FileInv', FileHostCrash
  PROVE  /\ LogInv' /\ IsPrefixOf(Decoded', Decoded) /\ reported' <= Len(Decoded')
         /\ \/ entry' = TRUE /\ home' = TRUE /\ reported' = reported
            \/ /\ ~(entry /\ home) /\ entry' = FALSE /\ home' \in {home, ~entry}
               /\ Decoded' = <<>> /\ reported' = 0
<1>1. /\ wpc' = [w \in Writers |-> "idle"]
  BY DEF FileHostCrash, Stop, LogInv, FileInv, FileType
<1>2. AppendInv'
  BY <1>1 DEF AppendInv
<1>3. /\ FileInv /\ Told(Decoded) /\ reported \in Nat /\ reported <= synced
      /\ Len(lines) \in Nat /\ Len(Decoded) \in Nat /\ synced \in Nat
      /\ synced <= Len(lines) /\ Len(lines) <= Len(Decoded)
  BY Lengths DEF LogInv
<1>4. /\ Decoded \in Seq(LineType) /\ lines \in Seq(LineType)
      /\ \A i \in 1 .. Len(Decoded) : Decoded[i] # Garbage
      /\ \A i \in 1 .. Len(lines) : Decoded[i] = lines[i]
  BY <1>3, DecodedIs
<1>5. /\ Decoded' \in Seq(LineType) /\ Len(lines') \in Nat /\ Len(Decoded') \in Nat
      /\ Len(lines') <= Len(Decoded')
  BY DecodedNext, LengthsNext
<1>6. ASSUME NEW n \in synced .. Len(lines), lines' = SubSeq(lines, 1, n),
             rest' \in {<<>>} \cup (IF n = Len(lines) THEN {rest}
                                   ELSE {<<Garbage>>, <<lines[n + 1]>>})
      PROVE  IsPrefixOf(Decoded', Decoded) /\ Len(lines') = n
  <2>1. /\ n \in Nat /\ n <= Len(lines) /\ lines' \in Seq(LineType) /\ Len(lines') = n
        /\ \A i \in 1 .. n : lines'[i] = lines[i]
    BY <1>3, <1>4, <1>6
  <2>2. CASE rest' = <<>> \/ rest' = <<Garbage>>
    <3>1. Decoded' = lines'
      <4>1. lines' \o <<>> = lines'
        BY <2>1, ConcatEmptySeq
      <4> QED
        BY <2>2, <4>1 DEF Decoded
    <3>2. Len(Decoded') <= Len(Decoded) /\ \A i \in 1 .. Len(Decoded') : Decoded'[i] = Decoded[i]
      BY <1>3, <1>4, <2>1, <3>1
    <3> QED
      BY <1>4, <1>5, <2>1, <3>2, PrefixIs
  <2>3. CASE n = Len(lines) /\ rest' = rest
    <3>1. lines' = lines
      BY <1>4, <1>6, <2>3, SubSeqFull
    <3>2. Decoded' = Decoded
      BY <2>3, <3>1, SameLog
    <3>3. Len(Decoded') <= Len(Decoded) /\ \A i \in 1 .. Len(Decoded') : Decoded'[i] = Decoded[i]
      BY <1>3, <3>2
    <3> QED
      BY <1>4, <1>5, <2>1, <3>3, PrefixIs
  <2>4. CASE n # Len(lines) /\ rest' = <<lines[n + 1]>>
    <3>1. n + 1 \in 1 .. Len(lines) /\ n + 1 \in 1 .. Len(Decoded) /\ lines[n + 1] \in LineType
      BY <1>3, <1>4, <2>1, <2>4
    <3>2. lines[n + 1] # Garbage
      BY <1>4, <3>1
    <3>3. Decoded' = lines' \o <<lines[n + 1]>>
      BY <2>4, <3>2 DEF Decoded
    <3>4. Len(Decoded') = n + 1 /\ \A i \in 1 .. n + 1 : Decoded'[i] = lines[i]
      BY <2>1, <3>1, <3>3
    <3>5. Len(Decoded') <= Len(Decoded) /\ \A i \in 1 .. Len(Decoded') : Decoded'[i] = Decoded[i]
      BY <1>3, <1>4, <3>1, <3>4
    <3> QED
      BY <1>4, <1>5, <2>1, <3>5, PrefixIs
  <2> QED
    BY <1>6, <2>2, <2>3, <2>4
<1>7. CASE \E n \in synced .. Len(lines) :
             /\ lines' = SubSeq(lines, 1, n) /\ synced' = n
             /\ rest' \in {<<>>} \cup (IF n = Len(lines) THEN {rest}
                                       ELSE {<<Garbage>>, <<lines[n + 1]>>})
             /\ entry' = TRUE /\ home' = TRUE /\ UNCHANGED reported
  <2>1. PICK n \in synced .. Len(lines) :
             /\ lines' = SubSeq(lines, 1, n) /\ synced' = n
             /\ rest' \in {<<>>} \cup (IF n = Len(lines) THEN {rest}
                                       ELSE {<<Garbage>>, <<lines[n + 1]>>})
             /\ entry' = TRUE /\ home' = TRUE /\ UNCHANGED reported
    BY <1>7
  <2>2. IsPrefixOf(Decoded', Decoded) /\ Len(lines') = n
    BY <1>6, <2>1
  <2>3. Told(Decoded')
    BY <1>3, <1>4, <1>5, <2>2, PrefixTold
  <2>4. reported' \in Nat /\ reported' <= synced' /\ reported' <= Len(Decoded')
    BY <1>3, <1>5, <2>1, <2>2
  <2> QED
    BY <1>2, <2>1, <2>2, <2>3, <2>4 DEF LogInv
<1>8. CASE /\ ~(entry /\ home) /\ entry' = FALSE /\ home' \in {home, ~entry}
           /\ lines' = <<>> /\ rest' = <<>> /\ synced' = 0 /\ reported' = 0
  <2>1. Decoded' = <<>> /\ Len(Decoded') = 0
    <3>1. <<>> \o <<>> = <<>>
      BY ConcatEmptySeq, EmptySeq
    <3> QED
      BY <1>8, <3>1 DEF Decoded
  <2>2. Len(Decoded') <= Len(Decoded) /\ \A i \in 1 .. Len(Decoded') : Decoded'[i] = Decoded[i]
    BY <1>3, <2>1
  <2>3. IsPrefixOf(Decoded', Decoded)
    BY <1>4, <1>5, <2>2, PrefixIs
  <2>4. Told(Decoded')
    BY <1>3, <1>4, <1>5, <2>3, PrefixTold
  <2> QED
    BY <1>2, <1>3, <1>8, <2>1, <2>3, <2>4 DEF LogInv
<1> QED
  BY <1>7, <1>8 DEF FileHostCrash

(***************************************************************************)
(* The runner's invariant.                                                 *)
(***************************************************************************)
LEMMA LastIsThere ==
  ASSUME FileInv, Decoded # <<>>
  PROVE  There(Decoded, LastOf(Decoded)) /\ LastOf(Decoded).seq = Len(Decoded)
<1>1. Len(Decoded) \in 1 .. Len(Decoded)
  BY DecodedIs
<1>2. LastOf(Decoded) = Decoded[Len(Decoded)] /\ Decoded[Len(Decoded)].seq = Len(Decoded)
  BY <1>1, DecodedIs DEF LastOf
<1> QED
  BY <1>1, <1>2 DEF There

LEMMA ThereIs ==
  ASSUME FileInv, Told(Decoded), NEW e, There(Decoded, e)
  PROVE  /\ Within(e) /\ e.seq \in 1 .. MaxEvents + 1 /\ e # NoFold
         /\ ~Ended(e) => e.seq \in 1 .. MaxEvents
         /\ Ended(e) => e.seq = Len(Decoded)
<1>1. Within(e) /\ (Ended(e) => e.seq = Len(Decoded))
  BY DEF There, Told
<1>2. e.seq \in 1 .. MaxEvents + 1 /\ (e.seq = MaxEvents + 1 => Ended(e)) /\ MaxEvents \in Nat
  BY <1>1, BoundsAssumption DEF Within, LogEvent
<1> QED
  BY <1>1, <1>2 DEF NoFold, Event

(* What follows an event that is there, and is no end, may be appended. *)
LEMMA NextIsComing ==
  ASSUME FileInv, Told(Decoded), NEW e, There(Decoded, e), ~Ended(e),
         NEW k \in Kinds \ {"start"}, e.seq = MaxEvents => k = "end"
  PROVE  Coming(Decoded, Event(e.seq + 1, k))
<1>1. e.seq \in 1 .. MaxEvents /\ e.seq \in 1 .. Len(Decoded) /\ Decoded[e.seq] = e
  BY ThereIs DEF There
<1>2. MaxEvents \in Nat /\ Len(Decoded) \in Nat
  BY Lengths, BoundsAssumption
<1> DEFINE f == Event(e.seq + 1, k)
<1>3. f \in LogEvent /\ f.seq = e.seq + 1 /\ f.kind = k
  BY <1>1, <1>2 DEF Event, LogEvent
<1> HIDE DEF f
<1>4. Within(f)
  BY <1>1, <1>2, <1>3 DEF Within, Ended
<1>5. f.seq <= Len(Decoded) + 1 /\ f.seq - 1 = e.seq
  BY <1>1, <1>2, <1>3
<1> QED
  BY <1>1, <1>4, <1>5 DEF Coming, f

LEMMA FirstIsComing ==
  ASSUME FileInv
  PROVE  Coming(Decoded, Event(1, "start"))
<1>1. MaxEvents \in Nat \ {0} /\ Len(Decoded) \in Nat
  BY Lengths, BoundsAssumption
<1>2. Event(1, "start") \in LogEvent
  BY <1>1 DEF Event, LogEvent, Kinds
<1> QED
  BY <1>1, <1>2 DEF Coming, Within, Event, Ended

LEMMA RecalledGrows ==
  ASSUME NEW l, NEW k, Len(l) \in Nat, Len(k) \in Nat, Extends(l, k), NEW e, Recalled(l, e)
  PROVE  Recalled(k, e)
BY ThereGrows DEF Recalled

(* The run leaves its memory, and its loop does not begin to log. *)
LEMMA RunKeeps ==
  ASSUME FileInv, RunInv, FileInv', Extends(Decoded, Decoded'),
         mem' = mem, resume' = resume, reg' = reg,
         wpc'[Loop] # "idle" => wpc[Loop] # "idle" /\ wev'[Loop] = wev[Loop]
  PROVE  RunInv'
<1>1. Len(Decoded) \in Nat /\ Len(Decoded') \in Nat
  BY Lengths, LengthsNext
<1>2. Recalled(Decoded', mem) /\ Recalled(Decoded', resume)
  BY <1>1, RecalledGrows DEF RunInv
<1> QED
  BY <1>2 DEF RunInv

LEMMA NewRunKeeps ==
  ASSUME RunInv, Decoded' = Decoded, NEW e, Recalled(Decoded, e), e.seq < MaxEvents, NewRun(e),
         wpc' = wpc, resume' = resume \/ resume' = NoFold
  PROVE  RunInv'
<1>1. mem' = e /\ reg = "off" /\ reg' = IF e.kind = "pause" THEN "on" ELSE "new"
  BY DEF NewRun
<1>2. e = NoFold => reg' = "new"
  BY <1>1 DEF NoFold, Event
<1>3. NoFold.seq < MaxEvents
  BY BoundsAssumption DEF NoFold, Event
<1>4. wpc'[Loop] = "idle"
  BY <1>1 DEF RunInv
<1> QED
  BY <1>1, <1>2, <1>3, <1>4 DEF RunInv, Recalled

(* An event is added by the Append that is at its write. *)
Added == \E w \in Writers : wpc[w] = "write" /\ Decoded' = Append(Decoded, wev[w])

LEMMA FileNextLogs ==
  ASSUME LogInv, FileInv', NEW w \in Writers, FileNext(w)
  PROVE  /\ LogInv' /\ Extends(Decoded, Decoded') /\ (Decoded' = Decoded \/ Added)
         /\ wev' = wev /\ wpc[w] # "idle"
         /\ \E pc \in WriterPC \ {"idle"} : wpc' = [wpc EXCEPT ![w] = pc]
<1>0. FileInv
  BY DEF LogInv
<1>1. wev' = wev /\ wpc[w] # "idle" /\ \E pc \in WriterPC \ {"idle"} : wpc' = [wpc EXCEPT ![w] = pc]
  BY DEF FileNext, ReadTail, ReadTailFails, Write, WriteFails, Sync, SyncDir, SyncFails, Goto, WriterPC
<1>2. CASE ReadTail(w)
  BY <1>0, <1>1, <1>2, TailLogs, Stays
<1>3. CASE Write(w)
  <2>1. wpc[w] = "write"
    BY <1>3 DEF Write
  <2> QED
    BY <1>1, <1>3, <2>1, WriteLogs DEF Added
<1>4. CASE WriteFails(w)
  <2>1. wpc[w] = "write"
    BY <1>4 DEF WriteFails
  <2> QED
    BY <1>1, <1>4, <2>1, WriteFailsLogs DEF Added
<1>5. CASE ReadTailFails(w) \/ Sync(w) \/ SyncDir(w) \/ SyncFails(w)
  BY <1>0, <1>1, <1>5, SyncLogs, Stays
<1> QED
  BY <1>2, <1>3, <1>4, <1>5 DEF FileNext

LEMMA SameFileLogs ==
  ASSUME LogInv, FileInv', UNCHANGED fileVars
  PROVE  LogInv' /\ Decoded' = Decoded
<1>1. Decoded' = Decoded
  BY SameLog DEF fileVars
<1> QED
  BY <1>1 DEF LogInv, AppendInv, fileVars

LEMMA LogRuns ==
  ASSUME LogInv, RunInv, FileInv', Log, Loop \in Writers
  PROVE  LogInv' /\ RunInv' /\ Decoded' = Decoded
<1>0. FileInv /\ Told(Decoded) /\ MaxEvents \in Nat \ {0}
  BY BoundsAssumption DEF LogInv
<1>1. /\ reg \in {"new", "on"} /\ ~Ended(mem) /\ mem' = mem /\ reg' = reg /\ resume' = resume
  BY DEF Log, runVars
<1>2. PICK k \in IF reg = "new" THEN {IF mem.seq = 0 THEN "start" ELSE "step"}
                 ELSE IF mem.seq + 1 < MaxEvents THEN {"step", "pause", "end"} ELSE {"end"} :
           Call(Loop, Event(mem.seq + 1, k))
  BY DEF Log
<1>3. Coming(Decoded, Event(mem.seq + 1, k))
  <2>1. CASE mem = NoFold
    <3>1. mem.seq = 0 /\ reg = "new"
      BY <1>1, <2>1 DEF NoFold, Event, RunInv
    <3>2. k = "start"
      BY <1>2, <3>1
    <3> QED
      BY <1>0, <3>1, <3>2, FirstIsComing
  <2>2. CASE mem # NoFold
    <3>1. There(Decoded, mem) /\ mem.seq \in 1 .. MaxEvents
      BY <1>0, <1>1, <2>2, ThereIs DEF RunInv, Recalled
    <3>2. k \in Kinds \ {"start"}
      BY <1>2, <3>1 DEF Kinds
    <3>3. mem.seq = MaxEvents => k = "end"
      BY <1>0, <1>1, <1>2, <3>1 DEF RunInv
    <3> QED
      BY <1>0, <1>1, <3>1, <3>2, <3>3, NextIsComing
  <2> QED
    BY <2>1, <2>2
<1>4. LogInv' /\ Decoded' = Decoded
  BY <1>2, <1>3, CallLogs
<1>5. wev'[Loop].seq = mem.seq + 1
  BY <1>2 DEF Call, Event, LogInv, FileInv, FileType
<1> QED
  BY <1>1, <1>4, <1>5 DEF RunInv

LEMMA LogReturnsRuns ==
  ASSUME LogInv, RunInv, FileInv', LogReturns, Loop \in Writers
  PROVE  LogInv' /\ RunInv' /\ Decoded' = Decoded
<1>1. /\ wpc[Loop] = "ok" /\ Return(Loop) /\ mem' = wev[Loop] /\ reg' = "on" /\ resume' = resume
  BY DEF LogReturns
<1>2. LogInv' /\ Decoded' = Decoded
  BY <1>1, ReturnLogs
<1>3. There(Decoded, wev[Loop]) /\ wev[Loop] # NoFold
  BY <1>1, ThereIs DEF LogInv, AppendInv
<1>4. wpc'[Loop] = "idle"
  BY <1>1 DEF Return, Goto, LogInv, FileInv, FileType
<1> QED
  BY <1>1, <1>2, <1>3, <1>4 DEF RunInv, Recalled

LEMMA LogFailsRuns ==
  ASSUME LogInv, RunInv, FileInv', LogFails, Loop \in Writers
  PROVE  LogInv' /\ RunInv' /\ Decoded' = Decoded
<1>1. /\ Return(Loop) /\ mem' = mem /\ (reg' = reg \/ reg' = "finished") /\ resume' = resume
  BY DEF LogFails
<1>2. LogInv' /\ Decoded' = Decoded
  BY <1>1, ReturnLogs
<1>3. wpc'[Loop] = "idle"
  BY <1>1 DEF Return, Goto, LogInv, FileInv, FileType
<1> QED
  BY <1>1, <1>2, <1>3 DEF RunInv

(* A Cancel appends the end of the log it folded. *)
LEMMA CancelLogsRuns ==
  ASSUME LogInv, RunInv, FileInv', CancelLogs, WritersAssumption
  PROVE  LogInv' /\ RunInv' /\ Decoded' = Decoded
<1> DEFINE last == LastOf(Decoded)
<1>0. FileInv /\ Told(Decoded) /\ Loop # Canceller /\ Canceller \in Writers /\ DOMAIN wpc = Writers
      /\ DOMAIN wev = Writers
  BY WritersAssumption DEF LogInv, FileInv, FileType
<1>1. mem' = mem /\ reg' = reg /\ resume' = resume
  BY DEF CancelLogs, runVars
<1>2. CASE UNCHANGED fileVars
  <2>1. LogInv' /\ Decoded' = Decoded
    BY <1>2, SameFileLogs
  <2> QED
    BY <1>0, <1>1, <1>2, <2>1, RunKeeps, Stays DEF fileVars
<1>3. CASE last.seq > 0 /\ ~Ended(last) /\ Call(Canceller, Event(last.seq + 1, "end"))
  <2>1. Decoded # <<>>
    BY <1>3 DEF LastOf, Event
  <2>2. There(Decoded, last)
    BY <1>0, <2>1, LastIsThere
  <2>3. Coming(Decoded, Event(last.seq + 1, "end"))
    BY <1>0, <1>3, <2>2, NextIsComing DEF Kinds
  <2>4. LogInv' /\ Decoded' = Decoded
    BY <1>0, <1>3, <2>3, CallLogs
  <2>5. wpc'[Loop] = wpc[Loop] /\ wev'[Loop] = wev[Loop]
    BY <1>0, <1>3 DEF Call, Goto
  <2> QED
    BY <1>0, <1>1, <2>4, <2>5, RunKeeps, Stays
<1> QED
  BY <1>2, <1>3 DEF CancelLogs

LEMMA CancelReturnsRuns ==
  ASSUME LogInv, RunInv, FileInv', CancelReturns, WritersAssumption
  PROVE  LogInv' /\ RunInv' /\ Decoded' = Decoded
<1>1. Return(Canceller) /\ mem' = mem /\ reg' = reg /\ resume' = resume
  BY DEF CancelReturns, runVars
<1>2. LogInv' /\ Decoded' = Decoded
  BY <1>1, ReturnLogs, WritersAssumption
<1>3. wpc'[Loop] = wpc[Loop] /\ wev'[Loop] = wev[Loop]
  BY <1>1, WritersAssumption DEF Return, Goto, LogInv, FileInv, FileType
<1> QED
  BY <1>1, <1>2, <1>3, RunKeeps, Stays DEF LogInv

LEMMA FileStepRuns ==
  ASSUME LogInv, RunInv, FileInv', FileStep
  PROVE  LogInv' /\ RunInv' /\ Extends(Decoded, Decoded') /\ (Decoded' = Decoded \/ Added)
<1>1. PICK w \in Writers : FileNext(w)
  BY DEF FileStep
<1>2. /\ LogInv' /\ Extends(Decoded, Decoded') /\ (Decoded' = Decoded \/ Added)
      /\ wev' = wev /\ wpc[w] # "idle"
      /\ \E pc \in WriterPC \ {"idle"} : wpc' = [wpc EXCEPT ![w] = pc]
  BY <1>1, FileNextLogs
<1>3. wpc'[Loop] # "idle" => wpc[Loop] # "idle"
  BY <1>2
<1>4. mem' = mem /\ reg' = reg /\ resume' = resume
  BY DEF FileStep, runVars
<1> QED
  BY <1>2, <1>3, <1>4, RunKeeps DEF LogInv

(* What is gone with the server is its memory of the run, and its loop.    *)
LEMMA ServerGoneRuns ==
  ASSUME ServerGone, wpc'[Loop] = "idle"
  PROVE  RunInv'
<1>1. mem' = NoFold /\ resume' = NoFold /\ reg' = "off"
  BY DEF ServerGone
<1>2. NoFold.seq < MaxEvents
  BY BoundsAssumption DEF NoFold, Event
<1> QED
  BY <1>1, <1>2 DEF RunInv, Recalled

LEMMA CrashRuns ==
  ASSUME LogInv, RunInv, FileInv', Crash, Loop \in Writers
  PROVE  LogInv' /\ RunInv' /\ Extends(Decoded, Decoded') /\ (Decoded' = Decoded \/ Added)
<1>1. FileCrash(Server) /\ ServerGone
  BY DEF Crash
<1>2. LogInv' /\ Extends(Decoded, Decoded') /\ (Decoded' = Decoded \/ Added)
  BY <1>1, CrashLogs DEF Added
<1>3. wpc'[Loop] = "idle"
  BY <1>1 DEF FileCrash, Stop, Server
<1> QED
  BY <1>1, <1>2, <1>3, ServerGoneRuns

LEMMA HostCrashRuns ==
  ASSUME LogInv, RunInv, FileInv', HostCrash, Loop \in Writers
  PROVE  LogInv' /\ RunInv' /\ IsPrefixOf(Decoded', Decoded)
<1>1. FileHostCrash /\ ServerGone
  BY DEF HostCrash
<1>2. LogInv' /\ IsPrefixOf(Decoded', Decoded)
  BY <1>1, HostCrashLogs
<1>3. wpc'[Loop] = "idle"
  BY <1>1 DEF FileHostCrash, Stop
<1> QED
  BY <1>1, <1>2, <1>3, ServerGoneRuns

(* The other steps leave the file. *)
LEMMA OthersRun ==
  ASSUME LogInv, RunInv, FileInv', Loop \in Writers,
         \/ Start \/ ResumeFolds \/ Resume \/ PublishLive \/ Finish \/ Forget \/ Shutdown
         \/ Cancel \/ Exit \/ Terminated \/ UNCHANGED vars
         \/ \E c \in Clients : ClientNext(c)
  PROVE  LogInv' /\ RunInv' /\ Decoded' = Decoded /\ UNCHANGED fileVars
<1>1. UNCHANGED fileVars
  BY DEF Start, ResumeFolds, Resume, PublishLive, Finish, Forget, Shutdown, Cancel, Exit, Terminated,
         vars, ClientNext, Connect, StateAnswers, Look, Attach, Refuse, Deliver, StreamEnds,
         Disconnect, QueueStep
<1>2. LogInv' /\ Decoded' = Decoded /\ FileInv /\ wpc' = wpc /\ wev' = wev
  BY <1>1, SameFileLogs DEF LogInv, fileVars
<1>3. NoFold.seq < MaxEvents /\ Recalled(Decoded, NoFold)
  BY BoundsAssumption DEF NoFold, Event, Recalled
<1>4. CASE Start
  BY <1>2, <1>3, <1>4, NewRunKeeps DEF Start
<1>5. CASE ResumeFolds
  <2>1. /\ Decoded # <<>> /\ resume' = LastOf(Decoded) /\ resume'.seq < MaxEvents
        /\ mem' = mem /\ reg' = reg
    BY <1>5 DEF ResumeFolds, Folds, runVars
  <2>2. There(Decoded, LastOf(Decoded))
    BY <1>2, <2>1, LastIsThere
  <2>3. Recalled(Decoded', mem') /\ Recalled(Decoded', resume')
    BY <1>2, <2>1, <2>2 DEF RunInv, Recalled
  <2> QED
    BY <1>1, <1>2, <2>1, <2>3 DEF RunInv
<1>6. CASE Resume
  <2>1. CASE NewRun(resume) /\ resume' = NoFold
    <3>1. Recalled(Decoded, resume) /\ resume.seq < MaxEvents
      BY DEF RunInv
    <3> QED
      BY <1>1, <1>2, <2>1, <3>1, NewRunKeeps
  <2>2. CASE UNCHANGED runVars /\ resume' = NoFold
    <3>1. mem' = mem /\ reg' = reg
      BY <2>2 DEF runVars
    <3>2. Recalled(Decoded', mem') /\ Recalled(Decoded', resume')
      BY <1>2, <1>3, <2>2, <3>1 DEF RunInv
    <3> QED
      BY <1>1, <1>2, <1>3, <2>2, <3>1, <3>2 DEF RunInv
  <2> QED
    BY <1>6, <2>1, <2>2 DEF Resume
<1>7. CASE Finish
  BY <1>2, <1>7 DEF Finish, RunInv
<1>8. CASE Forget
  BY <1>2, <1>3, <1>8 DEF Forget, RunInv
<1>9. CASE Exit
  BY <1>2, <1>9, ServerGoneRuns DEF Exit
<1>10. CASE \/ PublishLive \/ Shutdown \/ Cancel \/ Terminated \/ UNCHANGED vars
            \/ \E c \in Clients : ClientNext(c)
  <2>1. mem' = mem /\ reg' = reg /\ resume' = resume
    BY <1>10 DEF PublishLive, Shutdown, Cancel, Terminated,
         vars, runVars, ClientNext, Connect, StateAnswers, Look, Attach, Refuse, Deliver, StreamEnds,
         Disconnect, QueueStep
  <2>2. Extends(Decoded, Decoded')
    BY <1>2, Stays
  <2> QED
    BY <1>1, <1>2, <2>1, <2>2, RunKeeps
<1> QED
  BY <1>1, <1>2, <1>4, <1>5, <1>6, <1>7, <1>8, <1>9, <1>10

LEMMA LogAlways ==
  ASSUME OneStore
  PROVE  Spec => [](LogInv /\ RunInv)
<1>1. Init => LogInv /\ RunInv
  <2> SUFFICES ASSUME Init PROVE LogInv /\ RunInv
    OBVIOUS
  <2>1. /\ lines = <<>> /\ rest = <<>> /\ synced = 0 /\ reported = 0
        /\ wpc = [w \in Writers |-> "idle"] /\ wev = [w \in Writers |-> Garbage]
        /\ mem = NoFold /\ resume = NoFold /\ reg = "off"
    BY DEF Init, FileInit
  <2>2. Garbage \in LineType
    BY DEF Garbage, Event, LineType
  <2>3. FileInv
    BY <2>1, <2>2 DEF FileInv, FileType, WriterPC, Numbered, TailHolds, Alone, Locked
  <2>4. Decoded = <<>> /\ Len(Decoded) = 0
    <3>1. <<>> \o <<>> = <<>>
      BY ConcatEmptySeq, EmptySeq
    <3> QED
      BY <2>1, <3>1 DEF Decoded
  <2>5. LogInv
    BY <2>1, <2>3, <2>4 DEF LogInv, Told, AppendInv
  <2>6. NoFold.seq < MaxEvents /\ wpc[Loop] = "idle"
    BY <2>1, BoundsAssumption DEF NoFold, Event, OneStore
  <2> QED
    BY <2>1, <2>5, <2>6 DEF RunInv, Recalled
<1>2. LogInv /\ RunInv /\ FileInv' /\ [Next]_vars => LogInv' /\ RunInv'
  <2> SUFFICES ASSUME LogInv, RunInv, FileInv', [Next]_vars PROVE LogInv' /\ RunInv'
    OBVIOUS
  <2>1. Loop \in Writers
    BY DEF OneStore
  <2>2. CASE Log \/ LogReturns \/ LogFails
    BY <2>1, <2>2, LogRuns, LogReturnsRuns, LogFailsRuns
  <2>3. CASE CancelLogs \/ CancelReturns \/ FileStep
    BY <2>3, CancelLogsRuns, CancelReturnsRuns, FileStepRuns, WritersAssumption
  <2>4. CASE Crash \/ HostCrash
    BY <2>1, <2>4, CrashRuns, HostCrashRuns
  <2>5. CASE \/ Start \/ ResumeFolds \/ Resume \/ PublishLive \/ Finish \/ Forget \/ Shutdown
             \/ Cancel \/ Exit \/ Terminated \/ UNCHANGED vars
             \/ \E c \in Clients : ClientNext(c)
    BY <2>1, <2>5, OthersRun
  <2> QED
    BY <2>2, <2>3, <2>4, <2>5 DEF Next, RunNext
<1> QED
  BY <1>1, <1>2, FileAlways, PTL DEF Spec

(***************************************************************************)
(* The promise of a Store.                                                 *)
(***************************************************************************)
(* An Append past tail has the number after the one tail found, and one    *)
(* that found none is the first to report anything.                        *)
First(w) ==
    /\ wlast[w] \in Nat /\ wev[w].seq = wlast[w] + 1
    /\ wlast[w] = 0 => reported = 0
PlaceInv ==
    /\ entry \in BOOLEAN /\ DOMAIN wlast = Writers
    /\ \A w \in Writers : Locked(w) => First(w)
    /\ \A w \in Writers : wpc[w] = "dir" => wlast[w] = 0

(* A step that moves one Append, if it reports, moves the only one that    *)
(* holds the Store's mutex.                                                *)
LEMMA PlaceMoves ==
  ASSUME PlaceInv, LogInv, NEW w \in Writers, NEW pc, entry' = entry \/ entry' = TRUE,
         DOMAIN wlast' = Writers,
         wpc' = [wpc EXCEPT ![w] = pc],
         \A v \in Writers : v # w => wev'[v] = wev[v] /\ wlast'[v] = wlast[v],
         reported' = reported \/ wpc[w] \in {"write", "sync", "dir"},
         pc \in {"write", "sync", "dir"} =>
           /\ wlast'[w] \in Nat /\ wev'[w].seq = wlast'[w] + 1
           /\ wlast'[w] = 0 => reported' = 0,
         pc = "dir" => wlast'[w] = 0
  PROVE  PlaceInv'
<1>1. wpc'[w] = pc /\ \A v \in Writers \ {w} : wpc'[v] = wpc[v]
  BY DEF LogInv, FileInv, FileType
<1>2. ASSUME NEW v \in Writers, Locked(v)' PROVE First(v)'
  <2>1. CASE v = w
    BY <1>1, <1>2, <2>1 DEF Locked, First
  <2>2. CASE v # w
    <3>1. Locked(v) /\ wev'[v] = wev[v] /\ wlast'[v] = wlast[v]
      BY <1>1, <1>2, <2>2 DEF Locked
    <3>2. reported' = reported
      BY <2>2, <3>1 DEF LogInv, FileInv, Alone, Locked
    <3> QED
      BY <3>1, <3>2 DEF PlaceInv, First
  <2> QED
    BY <2>1, <2>2
<1>3. ASSUME NEW v \in Writers, wpc'[v] = "dir" PROVE wlast'[v] = 0
  BY <1>1, <1>3 DEF PlaceInv
<1> QED
  BY <1>2, <1>3 DEF PlaceInv

(* What tail finds last is the file's number of lines. *)
LEMMA TailPlaces ==
  ASSUME PlaceInv, LogInv, LogInv', NEW w \in Writers, ReadTail(w)
  PROVE  PlaceInv'
<1> DEFINE pc == IF Follows(wev[w], LastOf(lines')) THEN "write" ELSE "failed"
<1>1. /\ wpc' = [wpc EXCEPT ![w] = pc] /\ wev' = wev /\ reported' = reported
      /\ wlast' = [wlast EXCEPT ![w] = LastOf(lines').seq] /\ entry' = entry
  BY DEF ReadTail, Goto
<1>2. pc \in {"write", "failed"} /\ (pc = "write" => wev[w].seq = LastOf(lines').seq + 1)
  BY DEF Follows
<1> HIDE DEF pc
<1>3. /\ lines' \in Seq(LineType) /\ Len(lines') \in Nat
      /\ \A i \in 1 .. Len(lines') : lines'[i].seq = i
      /\ reported' \in Nat /\ reported' <= Len(lines')
  BY DEF LogInv, FileInv, FileType, Numbered
<1>4. LastOf(lines').seq = Len(lines')
  <2>1. CASE lines' = <<>>
    BY <2>1 DEF LastOf, Event
  <2>2. CASE lines' # <<>>
    <3>1. Len(lines') \in 1 .. Len(lines')
      BY <1>3, <2>2
    <3> QED
      BY <1>3, <2>2, <3>1 DEF LastOf
  <2> QED
    BY <2>1, <2>2
<1>5. wlast'[w] = Len(lines') /\ DOMAIN wlast' = Writers
  BY <1>1, <1>4 DEF PlaceInv
<1>6. pc = "write" => First(w)'
  BY <1>1, <1>2, <1>3, <1>4, <1>5 DEF First
<1>7. \A v \in Writers : v # w => wev'[v] = wev[v] /\ wlast'[v] = wlast[v]
  BY <1>1 DEF PlaceInv
<1> QED
  BY <1>1, <1>2, <1>5, <1>6, <1>7, PlaceMoves DEF First

LEMMA FilePlaces ==
  ASSUME PlaceInv, LogInv, LogInv', NEW w \in Writers, FileNext(w)
  PROVE  PlaceInv'
<1>1. CASE ReadTail(w)
  BY <1>1, TailPlaces
<1>2. CASE Write(w) \/ WriteFails(w) \/ ReadTailFails(w) \/ SyncFails(w)
  <2>1. PICK pc \in {"sync", "failed"} :
          wpc' = [wpc EXCEPT ![w] = pc] /\ (pc = "sync" => wpc[w] = "write")
    BY <1>2 DEF Write, WriteFails, ReadTailFails, SyncFails, Goto
  <2>2. wev' = wev /\ wlast' = wlast /\ reported' = reported /\ entry' = entry
    BY <1>2 DEF Write, WriteFails, ReadTailFails, SyncFails, Partial, dataVars
  <2>3. pc = "sync" => First(w)'
    BY <2>1, <2>2 DEF PlaceInv, First, Locked
  <2>4. DOMAIN wlast' = Writers
    BY <2>2 DEF PlaceInv
  <2> QED
    BY <2>1, <2>2, <2>3, <2>4, PlaceMoves DEF First, Locked
<1>3. CASE Sync(w) \/ SyncDir(w)
  <2>1. PICK pc \in {"dir", "ok"} :
          wpc' = [wpc EXCEPT ![w] = pc] /\ (pc = "dir" => wlast[w] = 0 /\ reported' = reported)
    BY <1>3 DEF Sync, SyncDir, Goto
  <2>2. wev' = wev /\ wlast' = wlast /\ (entry' = entry \/ entry' = TRUE) /\ Locked(w)
    BY <1>3 DEF Sync, SyncDir, Locked
  <2>3. pc = "dir" => First(w)'
    BY <2>1, <2>2 DEF PlaceInv, First
  <2>4. DOMAIN wlast' = Writers
    BY <2>2 DEF PlaceInv
  <2> QED
    BY <2>1, <2>2, <2>3, <2>4, PlaceMoves DEF First, Locked
<1> QED
  BY <1>1, <1>2, <1>3 DEF FileNext

LEMMA PlaceStep ==
  ASSUME OneStore, PlaceInv, LogInv, LogInv', RunInv, FileInv', [Next]_vars
  PROVE  PlaceInv'
<1>0. Loop \in Writers /\ Canceller \in Writers
  BY DEF OneStore
<1>1. CASE FileStep
  BY <1>1, FilePlaces DEF FileStep
<1>2. CASE Crash \/ HostCrash
  <2>1. PICK W : Stop(W) /\ (reported' = reported \/ Writers \subseteq W)
    BY <1>2 DEF Crash, FileCrash, HostCrash, FileHostCrash
  <2>2. entry' \in BOOLEAN
    BY <1>2 DEF Crash, FileCrash, HostCrash, FileHostCrash, Partial, dataVars, PlaceInv
  <2> QED
    BY <2>1, <2>2 DEF PlaceInv, First, Locked, Stop
<1>3. CASE Log \/ LogReturns \/ LogFails \/ CancelLogs \/ CancelReturns
  <2>1. CASE UNCHANGED fileVars
    BY <2>1 DEF fileVars, PlaceInv, First, Locked
  <2>2. CASE \E w \in Writers : \/ \E e : Call(w, e)
                                \/ Return(w)
    <3>1. PICK w \in Writers : (\E e : Call(w, e)) \/ Return(w)
      BY <2>2
    <3>2. PICK pc \in {"tail", "idle"} : wpc' = [wpc EXCEPT ![w] = pc]
      BY <3>1 DEF Call, Return, Goto
    <3>3. DOMAIN wev = Writers
      BY DEF LogInv, FileInv, FileType
    <3>4. /\ reported' = reported /\ entry' = entry
          /\ \A v \in Writers : v # w => wev'[v] = wev[v] /\ wlast'[v] = wlast[v]
          /\ DOMAIN wlast' = Writers
      BY <3>1, <3>3 DEF Call, Return, dataVars, PlaceInv
    <3> QED
      BY <3>2, <3>4, PlaceMoves
  <2> QED
    BY <1>0, <1>3, <2>1, <2>2 DEF Log, LogReturns, LogFails, CancelLogs, CancelReturns
<1>4. CASE \/ Start \/ ResumeFolds \/ Resume \/ PublishLive \/ Finish \/ Forget \/ Shutdown
           \/ Cancel \/ Exit \/ Terminated \/ UNCHANGED vars
           \/ \E c \in Clients : ClientNext(c)
  <2>1. UNCHANGED fileVars
    BY <1>0, <1>4, OthersRun
  <2> QED
    BY <2>1 DEF fileVars, PlaceInv, First, Locked
<1> QED
  BY <1>1, <1>2, <1>3, <1>4 DEF Next, RunNext

(* A step that leaves the log and the file's place is a report or nothing, *)
(* unless it reports the first event.                                      *)
LEMMA Reporting ==
  ASSUME LogInv, LogInv', PlaceInv, Decoded' = Decoded, hosts' = hosts, home' = home,
         \/ entry' = entry /\ reported' = reported
         \/ /\ reported < reported'
            /\ \/ entry' = entry /\ reported' # 1
               \/ entry' = TRUE /\ reported' = 1
  PROVE  [Promise!Next]_(Promise!vars)
<1>1. /\ reported \in Nat /\ reported' \in Nat /\ reported' <= synced'
      /\ Len(Decoded) \in Nat /\ synced' \in Nat /\ synced' <= Len(Decoded)
  <2>1. /\ FileInv' /\ reported \in Nat /\ reported' \in Nat /\ reported' <= synced'
    BY DEF LogInv
  <2> QED
    BY <2>1, LengthsNext
<1>2. CASE entry' = entry /\ reported' = reported
  BY <1>2 DEF Promise!vars
<1>3. CASE /\ reported < reported'
           /\ \/ entry' = entry /\ reported' # 1
              \/ entry' = TRUE /\ reported' = 1
  <2>1. reported' \in (reported + 1) .. Len(Decoded)
    BY <1>1, <1>3
  <2>2. entry' = (entry \/ reported' = 1)
    <3>1. CASE entry' = entry /\ reported' # 1
      BY <3>1 DEF PlaceInv
    <3>2. CASE entry' = TRUE /\ reported' = 1
      BY <3>2
    <3> QED
      BY <1>3, <3>1, <3>2
  <2> QED
    BY <2>1, <2>2 DEF Promise!Next, Promise!Report
<1> QED
  BY <1>2, <1>3

(* An event added to the log is the next one, and follows no end. *)
LEMMA Extending ==
  ASSUME LogInv, Added, hosts' = hosts, reported' = reported,
         entry' = entry, home' = home
  PROVE  Promise!Extend
<1>1. PICK w \in Writers : wpc[w] = "write" /\ Decoded' = Append(Decoded, wev[w])
  BY DEF Added
<1>2. FileInv /\ Coming(Decoded, wev[w])
  BY <1>1 DEF LogInv, AppendInv
<1>3. wev[w].seq = Len(Decoded) + 1 /\ Len(Decoded) \in Nat /\ Decoded \in Seq(LineType)
  BY <1>1, <1>2, WriterHolds, DecodedIs, Lengths
<1>4. ~Promise!Ends(Decoded)
  <2> SUFFICES ASSUME Decoded # <<>> PROVE Decoded[Len(Decoded)].kind # "end"
    BY DEF Promise!Ends
  <2>1. Len(Decoded) # 0
    BY <1>3, EmptySeq
  <2>2. wev[w].seq > 1 /\ wev[w].seq - 1 = Len(Decoded)
    BY <1>3, <2>1
  <2> QED
    BY <1>2, <2>2 DEF Coming, Ended
<1>5. /\ wev[w] = [seq |-> Len(Decoded) + 1, kind |-> wev[w].kind]
      /\ wev[w].kind \in {"start", "step", "pause", "end"}
  BY <1>2, <1>3 DEF Coming, Within, LogEvent, Kinds
<1>6. (wev[w].kind = "start") = (Decoded = <<>>)
  <2>1. (wev[w].seq = 1) = (wev[w].kind = "start")
    BY <1>2 DEF Coming, Within
  <2>2. (wev[w].seq = 1) = (Decoded = <<>>)
    BY <1>3, EmptySeq
  <2> QED
    BY <2>1, <2>2
<1> DEFINE k == wev[w].kind
<1>7. Decoded' = Append(Decoded, [seq |-> Len(Decoded) + 1, kind |-> k])
  BY <1>1, <1>5
<1>8. k \in {"start", "step", "pause", "end"} /\ (k = "start") = (Decoded = <<>>)
  BY <1>5, <1>6
<1> HIDE DEF k
<1>9. \E x \in {"start", "step", "pause", "end"} :
        /\ (x = "start") = (Decoded = <<>>)
        /\ Decoded' = Append(Decoded, [seq |-> Len(Decoded) + 1, kind |-> x])
  BY <1>7, <1>8
<1> QED
  BY <1>4, <1>9 DEF Promise!Extend

LEMMA Losing ==
  ASSUME LogInv, FileInv', HostCrash
  PROVE  Promise!Lose \/ Promise!Vanish
<1>1. /\ LogInv' /\ IsPrefixOf(Decoded', Decoded) /\ reported' <= Len(Decoded')
      /\ \/ entry' = TRUE /\ home' = TRUE /\ reported' = reported
         \/ /\ ~(entry /\ home) /\ entry' = FALSE /\ home' \in {home, ~entry}
            /\ Decoded' = <<>> /\ reported' = 0
  BY HostCrashLogs DEF HostCrash
<1>2. hosts' = hosts + 1
  BY DEF HostCrash
<1>3. CASE entry' = TRUE /\ home' = TRUE /\ reported' = reported
  <2> DEFINE n == Len(Decoded')
  <2>1. /\ n \in Nat /\ Len(Decoded) \in Nat /\ n <= Len(Decoded)
        /\ Decoded' = SubSeq(Decoded, 1, n) /\ reported \in Nat /\ reported <= n
    BY <1>1, <1>3, Lengths, LengthsNext DEF IsPrefixOf, LogInv
  <2> HIDE DEF n
  <2>2. n \in reported .. Len(Decoded)
    BY <2>1
  <2> QED
    BY <1>2, <1>3, <2>1, <2>2 DEF Promise!Lose
<1>4. CASE /\ ~(entry /\ home) /\ entry' = FALSE /\ home' \in {home, ~entry}
           /\ Decoded' = <<>> /\ reported' = 0
  BY <1>2, <1>4 DEF Promise!Vanish
<1> QED
  BY <1>1, <1>3, <1>4

(* An Append reports past the first event from a file that was there, and  *)
(* the first one from syncDir.                                             *)
LEMMA ReportsGrow ==
  ASSUME LogInv, PlaceInv, NEW w \in Writers, FileNext(w)
  PROVE  /\ home' = home
         /\ \/ entry' = entry /\ reported' = reported
            \/ /\ Decoded' = Decoded /\ reported < reported'
               /\ \/ entry' = entry /\ reported' # 1
                  \/ entry' = TRUE /\ reported' = 1
<1>1. reported \in Nat /\ wev[w].seq \in Nat /\ FileInv
  BY DEF LogInv, FileInv, FileType, LineType
<1>2. CASE Sync(w)
  <2>1. Decoded' = Decoded /\ home' = home /\ entry' = entry
    BY <1>2, SameLog DEF Sync
  <2>2. CASE wlast[w] = 0
    BY <1>2, <2>1, <2>2 DEF Sync
  <2>3. CASE wlast[w] # 0
    <3>1. wev[w].seq # 1
      BY <1>2, <2>3 DEF Sync, PlaceInv, Locked, First
    <3>2. reported' = IF wev[w].seq > reported THEN wev[w].seq ELSE reported
      BY <1>2, <2>3 DEF Sync, Reports
    <3> QED
      BY <1>1, <2>1, <3>1, <3>2
  <2> QED
    BY <2>2, <2>3
<1>3. CASE SyncDir(w)
  <2>1. Decoded' = Decoded /\ home' = home /\ entry' = TRUE
    BY <1>3, SameLog DEF SyncDir
  <2>2. wev[w].seq = 1 /\ reported = 0
    BY <1>3 DEF SyncDir, PlaceInv, Locked, First
  <2>3. reported' = 1
    BY <1>3, <2>2 DEF SyncDir, Reports
  <2> QED
    BY <2>1, <2>2, <2>3
<1>4. CASE ReadTail(w) \/ ReadTailFails(w) \/ Write(w) \/ WriteFails(w) \/ SyncFails(w)
  BY <1>4 DEF ReadTail, ReadTailFails, Write, WriteFails, Partial, SyncFails, dataVars
<1> QED
  BY <1>2, <1>3, <1>4 DEF FileNext

LEMMA PromiseStep ==
  ASSUME OneStore, LogInv, RunInv, PlaceInv, FileInv', LogInv', [Next]_vars
  PROVE  [Promise!Next]_(Promise!vars)
<1>0. reported \in Nat /\ Loop \in Writers
  BY DEF LogInv, OneStore
<1>1. CASE FileStep
  <2>1. PICK w \in Writers : FileNext(w)
    BY <1>1 DEF FileStep
  <2>2. /\ Decoded' = Decoded \/ Added
        /\ hosts' = hosts /\ home' = home
        /\ \/ entry' = entry /\ reported' = reported
           \/ /\ Decoded' = Decoded /\ reported < reported'
              /\ \/ entry' = entry /\ reported' # 1
                 \/ entry' = TRUE /\ reported' = 1
    BY <1>1, <2>1, FileNextLogs, ReportsGrow DEF FileStep, boundVars
  <2>3. CASE Decoded' = Decoded
    BY <2>2, <2>3, Reporting
  <2>4. CASE Decoded' # Decoded
    BY <2>2, <2>4, Extending DEF Promise!Next
  <2> QED
    BY <2>3, <2>4
<1>2. CASE Crash
  <2>1. /\ Decoded' = Decoded \/ Added
        /\ entry' = entry /\ home' = home /\ reported' = reported /\ hosts' = hosts
    BY <1>2, CrashLogs DEF Crash, Added
  <2>2. CASE Decoded' = Decoded
    BY <1>0, <2>1, <2>2, Reporting
  <2>3. CASE Decoded' # Decoded
    BY <2>1, <2>3, Extending DEF Promise!Next
  <2> QED
    BY <2>2, <2>3
<1>3. CASE HostCrash
  BY <1>3, Losing DEF Promise!Next
<1>4. CASE Log \/ LogReturns \/ LogFails \/ CancelLogs \/ CancelReturns
  <2>1. Decoded' = Decoded
    BY <1>0, <1>4, LogRuns, LogReturnsRuns, LogFailsRuns, CancelLogsRuns, CancelReturnsRuns,
       WritersAssumption
  <2>2. entry' = entry /\ home' = home /\ reported' = reported /\ hosts' = hosts
    BY <1>4 DEF Log, LogReturns, LogFails, CancelLogs, CancelReturns, Call, Return, dataVars,
                fileVars, boundVars
  <2> QED
    BY <1>0, <2>1, <2>2, Reporting
<1>5. CASE \/ Start \/ ResumeFolds \/ Resume \/ PublishLive \/ Finish \/ Forget \/ Shutdown
           \/ Cancel \/ Exit \/ Terminated \/ UNCHANGED vars
           \/ \E c \in Clients : ClientNext(c)
  <2>1. Decoded' = Decoded /\ entry' = entry /\ home' = home /\ reported' = reported
    BY <1>0, <1>5, OthersRun DEF fileVars
  <2>2. hosts' = hosts
    BY <1>5 DEF Start, ResumeFolds, Resume, PublishLive, Finish, Forget, Shutdown, Cancel, Exit,
         Terminated, vars, boundVars, ClientNext, Connect, StateAnswers, Look, Attach, Refuse,
         Deliver, StreamEnds, Disconnect, QueueStep
  <2> QED
    BY <1>0, <2>1, <2>2, Reporting
<1> QED
  BY <1>1, <1>2, <1>3, <1>4, <1>5 DEF Next, RunNext

(***************************************************************************)
(* The file implements what a Store promises, through failed and partial   *)
(* writes, the repair of what they leave, and any number of crashes: the   *)
(* log its readers see grows by its next event only, and a crash of the    *)
(* host takes events an Append reported from a file only that the disk has *)
(* no way to (filestore.Append).                                           *)
(***************************************************************************)
THEOREM FileCorrect ==
  ASSUME OneStore
  PROVE  Spec => FileKeepsItsPromise
<1> DEFINE Inv == LogInv /\ RunInv
<1>1. Init => Promise!Init /\ PlaceInv
  <2> SUFFICES ASSUME Init PROVE Promise!Init /\ PlaceInv
    OBVIOUS
  <2>1. /\ lines = <<>> /\ rest = <<>> /\ reported = 0 /\ hosts = 0
        /\ entry = FALSE /\ home \in BOOLEAN
    BY HomesAssumption DEF Init, FileInit
  <2>2. Decoded = <<>>
    <3>1. <<>> \o <<>> = <<>>
      BY ConcatEmptySeq, EmptySeq
    <3> QED
      BY <2>1, <3>1 DEF Decoded
  <2>3. PlaceInv
    BY <2>1 DEF Init, FileInit, PlaceInv, Locked
  <2> QED
    BY <2>1, <2>2, <2>3 DEF Promise!Init
<1>2. Inv /\ Inv' /\ PlaceInv /\ [Next]_vars
        => [Promise!Next]_(Promise!vars) /\ PlaceInv'
  <2> SUFFICES ASSUME Inv, Inv', PlaceInv, [Next]_vars
               PROVE  [Promise!Next]_(Promise!vars) /\ PlaceInv'
    OBVIOUS
  <2>1. FileInv'
    BY DEF LogInv
  <2> QED
    BY <2>1, PromiseStep, PlaceStep
<1>3. Spec => []Inv
  BY LogAlways
<1> QED
  BY <1>1, <1>2, <1>3, PTL DEF Spec, FileKeepsItsPromise, Promise!Spec

(***************************************************************************)
(* The types.                                                              *)
(***************************************************************************)
WriterType ==
    /\ wev \in [Writers -> LogEvent \cup {Garbage}] /\ wlast \in [Writers -> 0 .. MaxEvents + 1]
    /\ entry \in BOOLEAN /\ home \in BOOLEAN /\ faults \in 0 .. MaxFaults

RunType ==
    /\ shut \in BOOLEAN /\ reg \in {"off", "new", "on", "finished"} /\ gen \in 0 .. MaxRuns
    /\ intr \in BOOLEAN /\ subs \subseteq Clients
    /\ cancel \in {"idle", "fold", "append", "over"} /\ live \in 0 .. MaxLive
    /\ crashes \in 0 .. MaxCrashes /\ hosts \in 0 .. MaxCrashes

(* A goroutine that hands over has something to hand over. *)
QueueTypes ==
    /\ items \in [Clients -> Seq(QueueEvent)] /\ batch \in [Clients -> Seq(QueueEvent)]
    /\ closed \in [Clients -> BOOLEAN] /\ signal \in [Clients -> BOOLEAN]
    /\ dpc \in [Clients -> {"gone", "take", "send", "wait", "done"}]
    /\ \A c \in Clients : (dpc[c] = "send") = (batch[c] # <<>>)

ClientType ==
    /\ cpc \in [Clients -> {"away", "state", "look", "attach", "stream", "stopped"}]
    /\ held \in [Clients -> 0 .. MaxRuns] /\ got \in [Clients -> Seq(LogEvent)]
    /\ lost \in [Clients -> BOOLEAN] /\ connects \in [Clients -> 0 .. MaxConnects]

TypeInv == WriterType /\ RunType /\ QueueTypes /\ ClientType

LEMMA SeqOf ==
  ASSUME NEW S, NEW T, NEW l \in Seq(T), \A i \in 1 .. Len(l) : l[i] \in S
  PROVE  l \in Seq(S)
OBVIOUS

LEMMA LogTyped ==
  ASSUME LogInv
  PROVE  Decoded \in Seq(LogEvent) /\ \A i \in 1 .. Len(Decoded) : Decoded[i].seq = i
<1>1. /\ Decoded \in Seq(LineType) /\ \A i \in 1 .. Len(Decoded) : Decoded[i] \in LogEvent
      /\ \A i \in 1 .. Len(Decoded) : Decoded[i].seq = i
  BY DecodedIs DEF LogInv, Told, Within
<1> QED
  BY <1>1, SeqOf

(* The lines, and what the file ends in, are events or garbage. *)
LEMMA FileTyped ==
  ASSUME LogInv, RunInv
  PROVE  /\ lines \in Seq(LogEvent \cup {Garbage})
         /\ rest \in Seq(LogEvent \cup {Garbage}) /\ Len(rest) \in 0 .. 1
         /\ synced \in 0 .. Len(lines) /\ reported \in 0 .. MaxEvents + 1
         /\ mem \in LogEvent \cup {NoFold} /\ resume \in LogEvent \cup {NoFold}
<1>1. FileInv /\ Told(Decoded) /\ reported \in Nat /\ reported <= synced
  BY DEF LogInv
<1>2. /\ Decoded \in Seq(LogEvent) /\ (\A i \in 1 .. Len(Decoded) : Decoded[i].seq = i)
      /\ \A i \in 1 .. Len(lines) : Decoded[i] = lines[i]
      /\ lines \in Seq(LineType)
  BY <1>1, LogTyped, DecodedIs
<1>3. /\ Len(lines) \in Nat /\ Len(Decoded) \in Nat /\ synced \in Nat
      /\ synced <= Len(lines) /\ Len(lines) <= Len(Decoded)
  BY <1>1, Lengths
<1>4. lines \in Seq(LogEvent \cup {Garbage})
  <2>1. \A i \in 1 .. Len(lines) : lines[i] \in LogEvent \cup {Garbage}
    BY <1>2, <1>3
  <2> QED
    BY <1>2, <2>1, SeqOf
<1>5. rest \in Seq(LogEvent \cup {Garbage}) /\ Len(rest) \in 0 .. 1
  <2>1. CASE rest = <<>> \/ rest = <<Garbage>>
    <3>1. /\ <<>> \in Seq(LogEvent \cup {Garbage}) /\ <<Garbage>> \in Seq(LogEvent \cup {Garbage})
          /\ Len(<<>>) = 0 /\ Len(<<Garbage>>) = 1
      OBVIOUS
    <3>2. CASE rest = <<>>
      BY <3>1, <3>2
    <3>3. CASE rest = <<Garbage>>
      BY <3>1, <3>3
    <3> QED
      BY <2>1, <3>2, <3>3
  <2>2. ASSUME NEW e \in LineType, rest = <<e>>, e # Garbage
        PROVE  rest \in Seq(LogEvent \cup {Garbage}) /\ Len(rest) \in 0 .. 1
    <3>1. Decoded = lines \o <<e>>
      BY <2>2 DEF Decoded
    <3>2. Len(Decoded) = Len(lines) + 1 /\ Decoded[Len(lines) + 1] = e
      BY <1>2, <3>1
    <3>3. e \in LogEvent
      BY <1>2, <1>3, <3>2
    <3>4. <<e>> \in Seq(LogEvent \cup {Garbage}) /\ Len(<<e>>) = 1
      BY <3>3
    <3> QED
      BY <2>2, <3>4
  <2> QED
    BY <1>1, <2>1, <2>2 DEF FileInv, Numbered
<1>6. Len(Decoded) <= MaxEvents + 1 /\ MaxEvents \in Nat
  <2>1. CASE Len(Decoded) = 0
    BY <2>1, BoundsAssumption
  <2>2. CASE Len(Decoded) # 0
    <3>1. Len(Decoded) \in 1 .. Len(Decoded)
      BY <1>3, <2>2
    <3>2. Decoded[Len(Decoded)] \in LogEvent /\ Decoded[Len(Decoded)].seq = Len(Decoded)
      BY <1>2, <3>1
    <3> QED
      BY <3>2, BoundsAssumption DEF LogEvent
  <2> QED
    BY <2>1, <2>2
<1>7. reported \in 0 .. MaxEvents + 1 /\ synced \in 0 .. Len(lines)
  BY <1>1, <1>3, <1>6
<1>8. mem \in LogEvent \cup {NoFold} /\ resume \in LogEvent \cup {NoFold}
  BY <1>2 DEF RunInv, Recalled, There
<1> QED
  BY <1>4, <1>5, <1>7, <1>8

LEMMA CallTyped ==
  ASSUME WriterType, LogInv', NEW w \in Writers, NEW e, Call(w, e)
  PROVE  WriterType'
<1>1. /\ wev' = [wev EXCEPT ![w] = e] /\ wpc' = [wpc EXCEPT ![w] = "tail"]
      /\ UNCHANGED <<entry, home, wlast, faults>>
  BY DEF Call, Goto, dataVars
<1>2. wpc'[w] = "tail"
  BY DEF LogInv, FileInv, FileType, Call, Goto
<1>3. Coming(Decoded', wev'[w])
  BY <1>2 DEF LogInv, AppendInv
<1>4. e \in LogEvent
  BY <1>1, <1>3 DEF Coming, Within, WriterType
<1> QED
  BY <1>1, <1>4 DEF WriterType

LEMMA ReturnTyped ==
  ASSUME WriterType, NEW w \in Writers, Return(w)
  PROVE  WriterType'
<1>1. /\ wev' = [wev EXCEPT ![w] = Garbage] /\ wlast' = [wlast EXCEPT ![w] = 0]
      /\ UNCHANGED <<entry, home, faults>> /\ MaxEvents \in Nat
  BY BoundsAssumption DEF Return, dataVars
<1> QED
  BY <1>1 DEF WriterType

LEMMA LastTyped ==
  ASSUME LogInv
  PROVE  LastOf(Decoded).seq \in 0 .. MaxEvents + 1
<1>1. CASE Decoded = <<>>
  BY <1>1, BoundsAssumption DEF LastOf, Event
<1>2. CASE Decoded # <<>>
  <2>1. There(Decoded, LastOf(Decoded))
    BY <1>2, LastIsThere DEF LogInv
  <2>2. LastOf(Decoded).seq \in 1 .. MaxEvents + 1
    BY <2>1, ThereIs DEF LogInv
  <2> QED
    BY <2>2, BoundsAssumption
<1> QED
  BY <1>1, <1>2

LEMMA FileNextTyped ==
  ASSUME WriterType, LogInv, NEW w \in Writers, FileNext(w)
  PROVE  WriterType'
<1>1. wev' = wev
  BY DEF FileNext, ReadTail, ReadTailFails, Write, WriteFails, Sync, SyncDir, SyncFails
<1>2. CASE ReadTail(w)
  <2>1. /\ wlast' = [wlast EXCEPT ![w] = LastOf(lines').seq]
        /\ UNCHANGED <<entry, home, faults>>
    BY <1>2 DEF ReadTail
  <2>2. LastOf(lines').seq \in 0 .. MaxEvents + 1
    BY <1>2, TailDecodes, LastTyped DEF LogInv
  <2> QED
    BY <1>1, <2>1, <2>2 DEF WriterType
<1>3. CASE ReadTailFails(w) \/ WriteFails(w) \/ SyncFails(w)
  <2>1. UNCHANGED <<wlast, entry, home>> /\ faults < MaxFaults /\ faults' = faults + 1
    BY <1>3 DEF ReadTailFails, WriteFails, SyncFails, Partial, Fault, dataVars
  <2> QED
    BY <1>1, <2>1, BoundsAssumption DEF WriterType
<1>4. CASE Write(w) \/ Sync(w) \/ SyncDir(w)
  <2>1. UNCHANGED <<wlast, home, faults>> /\ (entry' = entry \/ entry' = TRUE)
    BY <1>4 DEF Write, Sync, SyncDir
  <2> QED
    BY <1>1, <2>1 DEF WriterType
<1> QED
  BY <1>2, <1>3, <1>4 DEF FileNext

LEMMA StopTyped ==
  ASSUME WriterType, NEW W, Stop(W), entry' \in BOOLEAN,
         home' \in BOOLEAN, faults' = faults
  PROVE  WriterType'
<1>1. MaxEvents \in Nat
  BY BoundsAssumption
<1> QED
  BY <1>1 DEF WriterType, Stop

LEMMA WriterTyped ==
  ASSUME WriterType, LogInv, LogInv', [Next]_vars
  PROVE  WriterType'
<1>1. CASE Log \/ CancelLogs
  <2>1. CASE UNCHANGED fileVars
    BY <2>1 DEF WriterType, fileVars
  <2>2. CASE \E w \in Writers : \E e : Call(w, e)
    BY <2>2, CallTyped
  <2>3. UNCHANGED fileVars \/ \E w \in Writers : \E e : Call(w, e)
    BY <1>1, WritersAssumption DEF Log, CancelLogs
  <2> QED
    BY <2>1, <2>2, <2>3
<1>2. CASE LogReturns \/ LogFails \/ CancelReturns
  BY <1>2, ReturnTyped, WritersAssumption DEF LogReturns, LogFails, CancelReturns
<1>3. CASE FileStep
  BY <1>3, FileNextTyped DEF FileStep
<1>4. CASE Crash
  <2>1. PICK W : Stop(W)
    BY <1>4 DEF Crash, FileCrash
  <2>2. UNCHANGED <<entry, home, faults>>
    BY <1>4 DEF Crash, FileCrash, Partial, dataVars
  <2> QED
    BY <2>1, <2>2, StopTyped DEF WriterType
<1>5. CASE HostCrash
  <2>1. Stop(Writers) /\ (entry' = TRUE \/ entry' = FALSE) /\ faults' = faults
    BY <1>5 DEF HostCrash, FileHostCrash
  <2>2. home' \in BOOLEAN
    BY <1>5 DEF HostCrash, FileHostCrash, WriterType
  <2> QED
    BY <2>1, <2>2, StopTyped
<1>6. CASE \/ Start \/ ResumeFolds \/ Resume \/ PublishLive \/ Finish \/ Forget \/ Shutdown
           \/ Cancel \/ Exit \/ Terminated \/ UNCHANGED vars
           \/ \E c \in Clients : ClientNext(c)
  <2>1. UNCHANGED fileVars
    BY <1>6 DEF Start, ResumeFolds, Resume, PublishLive, Finish, Forget, Shutdown, Cancel, Exit,
         Terminated, vars, ClientNext, Connect, StateAnswers, Look, Attach, Refuse, Deliver,
         StreamEnds, Disconnect, QueueStep
  <2> QED
    BY <2>1 DEF WriterType, fileVars
<1> QED
  BY <1>1, <1>2, <1>3, <1>4, <1>5, <1>6 DEF Next, RunNext

LEMMA RunTyped ==
  ASSUME RunType, [Next]_vars
  PROVE  RunType'
<1> USE BoundsAssumption
<1>0. UNCHANGED <<runVars, cancel, boundVars>> => RunType'
  BY DEF RunType, runVars, boundVars
<1>1. ASSUME NEW e, NewRun(e), UNCHANGED <<cancel, boundVars>>
      PROVE  RunType'
  <2>1. gen' \in 0 .. MaxRuns
    BY <1>1 DEF NewRun, RunType
  <2>2. reg' \in {"on", "new"} /\ intr' = FALSE /\ subs' = {} /\ shut' = shut
    BY <1>1 DEF NewRun
  <2>3. UNCHANGED <<cancel, live, crashes, hosts>>
    BY <1>1 DEF boundVars
  <2> QED
    BY <2>1, <2>2, <2>3 DEF RunType
<1>2. CASE Start \/ Resume
  BY <1>0, <1>1, <1>2 DEF Start, Resume
<1>3. CASE ResumeFolds \/ Log \/ FileStep \/ Terminated \/ UNCHANGED vars
  BY <1>0, <1>3 DEF ResumeFolds, Log, FileStep, Terminated, vars
<1>4. CASE LogReturns
  BY <1>4 DEF LogReturns, RunType, boundVars
<1>5. CASE LogFails
  BY <1>5 DEF LogFails, RunType, boundVars
<1>6. CASE PublishLive
  BY <1>6 DEF PublishLive, RunType, runVars
<1>7. CASE Finish \/ Forget
  BY <1>7 DEF Finish, Forget, RunType, boundVars
<1>8. CASE Shutdown
  <2>1. intr' \in BOOLEAN
    BY <1>8, Zenon DEF Shutdown
  <2> QED
    BY <1>8, <2>1 DEF Shutdown, RunType, boundVars
<1>9. CASE Cancel \/ CancelLogs \/ CancelReturns
  <2>1. UNCHANGED <<runVars, boundVars>> /\ cancel' \in {"fold", "append", "over"}
    BY <1>9 DEF Cancel, CancelLogs, CancelReturns
  <2> QED
    BY <2>1 DEF RunType, runVars, boundVars
<1>10. ASSUME NEW c \in Clients, ClientNext(c)
       PROVE  RunType'
  <2>1. /\ UNCHANGED <<shut, reg, gen, intr, cancel, boundVars>>
        /\ subs' \subseteq subs \cup {c}
    BY <1>10 DEF ClientNext, Connect, StateAnswers, Look, Attach, Refuse, Deliver, StreamEnds,
                 Disconnect, QueueStep, runVars
  <2> QED
    BY <2>1 DEF RunType, boundVars
<1>11. CASE Crash \/ HostCrash \/ Exit
  <2>1. /\ reg' = "off" /\ shut' = FALSE /\ intr' = FALSE /\ subs' = {}
        /\ UNCHANGED <<gen, live>>
        /\ cancel' \in {"idle", "over", cancel}
    BY <1>11 DEF Crash, HostCrash, Exit, ServerGone, CancelGone
  <2>2. crashes' \in 0 .. MaxCrashes /\ hosts' \in 0 .. MaxCrashes
    BY <1>11 DEF Crash, HostCrash, Exit, RunType
  <2> QED
    BY <2>1, <2>2 DEF RunType
<1> QED
  BY <1>2, <1>3, <1>4, <1>5, <1>6, <1>7, <1>8, <1>9, <1>10, <1>11 DEF Next, RunNext

LEMMA NewQueueTyped ==
  ASSUME QueueTypes, NEW c \in Clients, NEW events \in Seq(QueueEvent), NEW b \in BOOLEAN,
         NewQueue(c, events, b)
  PROVE  QueueTypes'
<1>1. <<>> \in Seq(QueueEvent)
  OBVIOUS
<1> QED
  BY <1>1 DEF QueueTypes, NewQueue

LEMMA PushTyped ==
  ASSUME QueueTypes, NEW S, NEW e \in QueueEvent, Push(S, e)
  PROVE  QueueTypes'
<1>1. \A c \in Clients : Append(items[c], e) \in Seq(QueueEvent)
  BY DEF QueueTypes
<1>2. items' \in [Clients -> Seq(QueueEvent)]
  BY <1>1 DEF QueueTypes, Push
<1>3. signal' \in [Clients -> BOOLEAN]
  BY Zenon DEF Push
<1> QED
  BY <1>2, <1>3 DEF QueueTypes, Push

LEMMA CloseTyped ==
  ASSUME QueueTypes, NEW S, Close(S)
  PROVE  QueueTypes'
<1>1. closed' \in [Clients -> BOOLEAN] /\ signal' \in [Clients -> BOOLEAN]
  BY Zenon DEF Close
<1> QED
  BY <1>1 DEF QueueTypes, Close

LEMMA DiscardTyped ==
  ASSUME QueueTypes, NEW S, Discard(S)
  PROVE  QueueTypes'
<1>1. closed' \in [Clients -> BOOLEAN] /\ signal' \in [Clients -> BOOLEAN]
  BY Zenon DEF Discard
<1>2. <<>> \in Seq(QueueEvent)
  OBVIOUS
<1>3. items' \in [Clients -> Seq(QueueEvent)] /\ batch' \in [Clients -> Seq(QueueEvent)]
  BY <1>2 DEF QueueTypes, Discard
<1> QED
  BY <1>1, <1>3 DEF QueueTypes, Discard

LEMMA TakeTyped ==
  ASSUME QueueTypes, NEW c \in Clients, Take(c)
  PROVE  QueueTypes'
<1>1. <<>> \in Seq(QueueEvent)
  OBVIOUS
<1> QED
  BY <1>1 DEF QueueTypes, Take

LEMMA WakeTyped ==
  ASSUME QueueTypes, NEW c \in Clients, Wake(c)
  PROVE  QueueTypes'
BY DEF QueueTypes, Wake

LEMMA HandOverTyped ==
  ASSUME QueueTypes, NEW c \in Clients, HandOver(c)
  PROVE  QueueTypes' /\ Head(batch[c]) \in QueueEvent /\ batch[c] # <<>>
<1>1. batch[c] \in Seq(QueueEvent) /\ batch[c] # <<>>
  BY DEF QueueTypes, HandOver
<1>2. /\ Head(batch[c]) \in QueueEvent /\ Tail(batch[c]) \in Seq(QueueEvent)
      /\ Len(Tail(batch[c])) = Len(batch[c]) - 1
  BY <1>1, HeadTailProperties
<1>3. (Tail(batch[c]) = <<>>) = (Len(batch[c]) = 1)
  <2>1. Len(batch[c]) \in Nat
    BY <1>1
  <2>2. Tail(batch[c]) = <<>> <=> Len(Tail(batch[c])) = 0
    BY <1>2, EmptySeq
  <2> QED
    BY <1>2, <2>1, <2>2
<1>4. batch' = [batch EXCEPT ![c] = Tail(batch[c])]
      /\ dpc' = [dpc EXCEPT ![c] = IF Len(batch[c]) = 1 THEN "take" ELSE "send"]
      /\ UNCHANGED <<items, closed, signal>>
  BY DEF HandOver
<1>5. /\ batch' \in [Clients -> Seq(QueueEvent)]
      /\ dpc' \in [Clients -> {"gone", "take", "send", "wait", "done"}]
  BY <1>2, <1>4 DEF QueueTypes
<1>6. ASSUME NEW d \in Clients
      PROVE  (dpc'[d] = "send") = (batch'[d] # <<>>)
  <2>1. CASE d = c
    <3>1. batch'[d] = Tail(batch[c]) /\ dpc'[d] = IF Len(batch[c]) = 1 THEN "take" ELSE "send"
      BY <1>4, <2>1 DEF QueueTypes
    <3> QED
      BY <1>3, <3>1
  <2>2. CASE d # c
    <3>1. batch'[d] = batch[d] /\ dpc'[d] = dpc[d]
      BY <1>4, <2>2 DEF QueueTypes
    <3> QED
      BY <3>1 DEF QueueTypes
  <2> QED
    BY <2>1, <2>2
<1> QED
  BY <1>1, <1>2, <1>4, <1>5, <1>6 DEF QueueTypes

(* What a client is handed, and what it keeps of it. *)
LEMMA LoggedOne ==
  ASSUME NEW e \in QueueEvent
  PROVE  Logged(<<e>>) = IF e = Live THEN <<>> ELSE <<e>>
<1>1. <<>> \in Seq(QueueEvent) /\ <<e>> = Append(<<>>, e)
  OBVIOUS
<1>2. Above(<<e>>, 0) = IF e.seq > 0 THEN Append(<<>>, e) ELSE <<>>
  <2>1. Above(Append(<<>>, e), 0) = IF e.seq > 0 THEN Append(Above(<<>>, 0), e) ELSE Above(<<>>, 0)
    BY <1>1, AboveAppend
  <2> QED
    BY <1>1, <2>1, AboveNone
<1>3. e.seq > 0 <=> e # Live
  BY DEF QueueEvent, LogEvent, Live, Event
<1> QED
  BY <1>1, <1>2, <1>3 DEF Logged

LEMMA QueuesTyped ==
  ASSUME QueueTypes, LogInv, [Next]_vars, Loop \in Writers
  PROVE  QueueTypes'
<1>0. UNCHANGED queueVars => QueueTypes'
  BY DEF QueueTypes, queueVars
<1>1. CASE LogReturns
  <2>1. wev[Loop] \in QueueEvent
    BY <1>1, ThereIs DEF LogReturns, LogInv, AppendInv, Within, QueueEvent
  <2> QED
    BY <1>1, <2>1, PushTyped DEF LogReturns
<1>2. CASE PublishLive
  BY <1>2, PushTyped DEF PublishLive, QueueEvent
<1>3. CASE LogFails \/ Finish
  BY <1>0, <1>3, CloseTyped DEF LogFails, Finish
<1>4. ASSUME NEW c \in Clients, ClientNext(c)
      PROVE  QueueTypes'
  <2>1. CASE Attach(c)
    <3>1. NewQueue(c, Events(Cursor(c)), ~Feeding(c))
      BY <2>1 DEF Attach
    <3>2. Events(Cursor(c)) \in Seq(QueueEvent)
      <4>1. Decoded \in Seq(QueueEvent)
        BY LogTyped DEF QueueEvent
      <4> QED
        BY <4>1, AboveType DEF Events
    <3>3. (~Feeding(c)) \in BOOLEAN
      OBVIOUS
    <3> QED
      BY <3>1, <3>2, <3>3, NewQueueTyped
  <2>2. CASE Deliver(c) \/ QueueStep(c)
    BY <2>2, HandOverTyped, TakeTyped, WakeTyped DEF Deliver, QueueStep, Hands
  <2>3. CASE StreamEnds(c) \/ Disconnect(c)
    BY <2>3, DiscardTyped DEF StreamEnds, Disconnect
  <2>4. CASE Connect(c) \/ StateAnswers(c) \/ Look(c) \/ Refuse(c)
    BY <1>0, <2>4 DEF Connect, StateAnswers, Look, Refuse
  <2> QED
    BY <1>4, <2>1, <2>2, <2>3, <2>4 DEF ClientNext
<1>5. CASE Crash \/ HostCrash \/ Exit
  BY <1>5, DiscardTyped DEF Crash, HostCrash, Exit, ServerGone
<1>6. CASE \/ Start \/ ResumeFolds \/ Resume \/ Log \/ Forget \/ Shutdown \/ Cancel \/ CancelLogs
           \/ CancelReturns \/ FileStep \/ Terminated \/ UNCHANGED vars
  BY <1>0, <1>6 DEF Start, ResumeFolds, Resume, Log, Forget, Shutdown, Cancel, CancelLogs,
       CancelReturns, FileStep, Terminated, vars
<1> QED
  BY <1>1, <1>2, <1>3, <1>4, <1>5, <1>6 DEF Next, RunNext

LEMMA ClientsTyped ==
  ASSUME RunType, QueueTypes, ClientType, [Next]_vars
  PROVE  ClientType'
<1> USE BoundsAssumption
<1>0. UNCHANGED clientVars => ClientType'
  BY DEF ClientType, clientVars
<1>1. ASSUME NEW c \in Clients, ClientNext(c)
      PROVE  ClientType'
  <2>1. CASE Connect(c)
    <3>1. connects' \in [Clients -> 0 .. MaxConnects]
      BY <2>1 DEF Connect, ClientType
    <3> QED
      BY <2>1, <3>1 DEF Connect, ClientType, At
  <2>2. CASE StateAnswers(c) \/ StreamEnds(c) \/ Disconnect(c)
    <3>1. \E pc \in {"stopped", "look", "away"} : cpc' = [cpc EXCEPT ![c] = pc]
      BY <2>2 DEF StateAnswers, StreamEnds, Disconnect, At
    <3>2. UNCHANGED <<held, got, lost, connects>>
      BY <2>2 DEF StateAnswers, StreamEnds, Disconnect
    <3> QED
      BY <3>1, <3>2 DEF ClientType
  <2>3. CASE Look(c)
    <3>1. held' \in [Clients -> 0 .. MaxRuns]
      BY <2>3 DEF Look, ClientType, RunType
    <3> QED
      BY <2>3, <3>1 DEF Look, ClientType, At
  <2>4. CASE Attach(c) \/ Refuse(c)
    <3>1. held' \in [Clients -> 0 .. MaxRuns]
      <4>1. held' = [held EXCEPT ![c] = 0] /\ 0 \in 0 .. MaxRuns
        BY <2>4 DEF Attach, Refuse
      <4> QED
        BY <4>1 DEF ClientType
    <3>2. \E pc \in {"stream", "away"} : cpc' = [cpc EXCEPT ![c] = pc]
      BY <2>4 DEF Attach, Refuse, At
    <3>3. UNCHANGED <<got, lost, connects>>
      BY <2>4 DEF Attach, Refuse
    <3> QED
      BY <3>1, <3>2, <3>3 DEF ClientType
  <2>5. CASE Deliver(c)
    <3>1. Head(batch[c]) \in QueueEvent
      BY <2>5, HandOverTyped DEF Deliver
    <3> DEFINE l == Logged(<<Head(batch[c])>>)
    <3>2. l \in Seq(LogEvent)
      <4>1. l = IF Head(batch[c]) = Live THEN <<>> ELSE <<Head(batch[c])>>
        BY <3>1, LoggedOne
      <4> HIDE DEF l
      <4> QED
        BY <3>1, <4>1 DEF QueueEvent
    <3>3. got' = [got EXCEPT ![c] = got[c] \o l] /\ UNCHANGED <<cpc, held, lost, connects>>
      BY <2>5 DEF Deliver
    <3> HIDE DEF l
    <3>4. got[c] \o l \in Seq(LogEvent)
      BY <3>2, ConcatProperties DEF ClientType
    <3> QED
      BY <3>3, <3>4 DEF ClientType
  <2>6. CASE QueueStep(c)
    BY <1>0, <2>6 DEF QueueStep
  <2> QED
    BY <1>1, <2>1, <2>2, <2>3, <2>4, <2>5, <2>6 DEF ClientNext
<1>2. CASE Crash \/ HostCrash \/ Exit
  <2>1. /\ held' = [c \in Clients |-> 0] /\ UNCHANGED <<got, connects>>
        /\ cpc' = [c \in Clients |-> IF cpc[c] = "stopped" THEN "stopped" ELSE "away"]
    BY <1>2 DEF Crash, HostCrash, Exit, ServerGone
  <2>2. lost' \in [Clients -> BOOLEAN]
    <3>1. CASE Crash \/ Exit
      BY <3>1 DEF Crash, Exit, ClientType
    <3>2. CASE HostCrash
      BY <3>2, Zenon DEF HostCrash
    <3> QED
      BY <1>2, <3>1, <3>2
  <2> QED
    BY <2>1, <2>2 DEF ClientType
<1>3. CASE \/ RunNext \/ Cancel \/ CancelLogs \/ CancelReturns \/ FileStep \/ Terminated
           \/ UNCHANGED vars
  BY <1>0, <1>3 DEF RunNext, Start, ResumeFolds, Resume, Log, LogReturns, LogFails, PublishLive,
       Finish, Forget, Shutdown, Cancel, CancelLogs, CancelReturns, FileStep, Terminated, vars
<1> QED
  BY <1>1, <1>2, <1>3 DEF Next

LEMMA TypesAlways ==
  ASSUME OneStore
  PROVE  Spec => [](LogInv /\ RunInv /\ TypeInv)
<1> DEFINE Inv == LogInv /\ RunInv
<1>1. Init => TypeInv
  <2> SUFFICES ASSUME Init PROVE TypeInv
    OBVIOUS
  <2>1. MaxEvents \in Nat /\ MaxRuns \in Nat /\ MaxConnects \in Nat /\ MaxFaults \in Nat
        /\ MaxLive \in Nat /\ MaxCrashes \in Nat
    BY BoundsAssumption
  <2>2. WriterType
    <3>1. 0 \in 0 .. MaxEvents + 1 /\ 0 \in 0 .. MaxFaults
      BY <2>1
    <3> QED
      BY <3>1, HomesAssumption DEF Init, FileInit, WriterType
  <2>3. RunType
    <3>1. 0 \in 0 .. MaxRuns /\ 0 \in 0 .. MaxLive /\ 0 \in 0 .. MaxCrashes
      BY <2>1
    <3> QED
      BY <3>1 DEF Init, RunType
  <2>4. <<>> \in Seq(QueueEvent) /\ <<>> \in Seq(LogEvent)
    OBVIOUS
  <2>5. QueueTypes
    BY <2>4 DEF Init, QueueInit, QueueTypes
  <2>6. ClientType
    BY <2>1, <2>4 DEF Init, ClientType
  <2> QED
    BY <2>2, <2>3, <2>5, <2>6 DEF TypeInv
<1>2. TypeInv /\ Inv /\ Inv' /\ [Next]_vars => TypeInv'
  <2> SUFFICES ASSUME TypeInv, Inv, Inv', [Next]_vars PROVE TypeInv'
    OBVIOUS
  <2>1. Loop \in Writers
    BY DEF OneStore
  <2> QED
    BY <2>1, WriterTyped, RunTyped, QueuesTyped, ClientsTyped DEF TypeInv
<1> QED
  BY <1>1, <1>2, LogAlways, PTL DEF Spec

(***************************************************************************)
(* Every variable keeps its type and its bound; the queues hold events of  *)
(* the run, and the lines of the file are events of it or garbage.         *)
(***************************************************************************)
THEOREM FeedTypeCorrect ==
  ASSUME OneStore
  PROVE  Spec => []TypeOK
<1>1. LogInv /\ RunInv /\ TypeInv => TypeOK
  <2> SUFFICES ASSUME LogInv, RunInv, TypeInv PROVE TypeOK
    OBVIOUS
  <2>1. wpc \in [Writers -> {"idle", "tail", "write", "sync", "dir", "ok", "failed"}]
    BY DEF LogInv, FileInv, FileType, WriterPC
  <2>2. WriterType /\ RunType /\ QueueTypes /\ ClientType
    BY DEF TypeInv
  <2> QED
    BY <2>1, <2>2, FileTyped DEF TypeOK, WriterType, RunType, QueueTypes, ClientType
<1> QED
  BY <1>1, TypesAlways, PTL

(***************************************************************************)
(* The streams.                                                            *)
(***************************************************************************)
(* Between an event's write and its publication. *)
Writing == wpc[Loop] \in {"sync", "dir", "ok"}

(* A client's queue is in use while it streams, and open while it          *)
(* subscribes.  What it got and what is queued for it is the log so far;   *)
(* a subscriber has what the run remembers, and nothing else while an      *)
(* event is written and not published: no stream begins then.              *)
ClientOK(c) ==
    /\ dpc[c] = "done" => closed[c]
    /\ cpc[c] # "stream" => closed[c] /\ items[c] = <<>> /\ batch[c] = <<>>
    /\ c \in subs <=> cpc[c] = "stream" /\ ~closed[c]
    /\ ~lost[c] => IsPrefixOf(Upcoming(c), Decoded)
    /\ c \in subs /\ ~lost[c] => Len(Upcoming(c)) >= mem.seq
    /\ c \in subs /\ ~lost[c] /\ Writing => Len(Upcoming(c)) = mem.seq
    /\ cpc[c] = "stopped" /\ ~lost[c] => got[c] = Decoded /\ Ended(LastOf(Decoded))

StreamInv ==
    /\ \A c \in Clients : ClientOK(c)
    /\ subs # {} => reg \in {"new", "on"}

Known == LogInv /\ RunInv /\ TypeInv

LEMMA ConcatAppend ==
  ASSUME NEW S, NEW s \in Seq(S), NEW t \in Seq(S), NEW e \in S
  PROVE  s \o Append(t, e) = Append(s \o t, e)
<1>1. /\ Append(t, e) = t \o <<e>> /\ <<e>> \in Seq(S) /\ s \o t \in Seq(S)
  BY AppendIsConcat, ConcatProperties
<1>2. Append(s \o t, e) = (s \o t) \o <<e>>
  BY <1>1, AppendIsConcat
<1>3. (s \o t) \o <<e>> = s \o (t \o <<e>>)
  BY <1>1, ConcatAssociative
<1> QED
  BY <1>1, <1>2, <1>3

LEMMA PrefixGrows ==
  ASSUME NEW S, NEW k \in Seq(S), NEW l \in Seq(S), NEW m \in Seq(S),
         IsPrefixOf(k, l), Extends(l, m)
  PROVE  IsPrefixOf(k, m)
<1>1. Len(k) \in Nat /\ Len(l) \in Nat /\ Len(m) \in Nat
  OBVIOUS
<1>2. Len(k) <= Len(l) /\ \A i \in 1 .. Len(k) : k[i] = l[i]
  BY <1>1, PrefixHas
<1>3. Len(k) <= Len(m) /\ \A i \in 1 .. Len(k) : k[i] = m[i]
  BY <1>1, <1>2 DEF Extends
<1> QED
  BY <1>3, PrefixIs

(* Two prefixes of one list, the shorter one first. *)
LEMMA PrefixesNest ==
  ASSUME NEW S, NEW k \in Seq(S), NEW m \in Seq(S), NEW l \in Seq(S),
         IsPrefixOf(k, l), IsPrefixOf(m, l), Len(k) <= Len(m)
  PROVE  IsPrefixOf(k, m)
<1>1. Len(k) \in Nat /\ Len(l) \in Nat /\ Len(m) \in Nat
  OBVIOUS
<1>2. \A i \in 1 .. Len(k) : k[i] = l[i]
  BY <1>1, PrefixHas
<1>3. \A i \in 1 .. Len(m) : m[i] = l[i]
  BY <1>1, PrefixHas
<1>4. \A i \in 1 .. Len(k) : k[i] = m[i]
  BY <1>1, <1>2, <1>3
<1> QED
  BY <1>4, PrefixIs

LEMMA PrefixWhole ==
  ASSUME NEW S, NEW k \in Seq(S), NEW l \in Seq(S), IsPrefixOf(k, l), Len(l) <= Len(k)
  PROVE  k = l
<1>1. Len(k) \in Nat /\ Len(l) \in Nat /\ Len(k) <= Len(l) /\ \A i \in 1 .. Len(k) : k[i] = l[i]
  BY PrefixHas
<1> QED
  BY <1>1, SeqEqual

(* What the proofs use of the types. *)
LEMMA StreamTyped ==
  ASSUME Known, NEW c \in Clients
  PROVE  /\ Decoded \in Seq(QueueEvent) /\ got[c] \in Seq(QueueEvent)
         /\ items[c] \in Seq(QueueEvent) /\ batch[c] \in Seq(QueueEvent)
         /\ batch[c] \o items[c] \in Seq(QueueEvent)
         /\ Logged(batch[c] \o items[c]) \in Seq(QueueEvent) /\ Upcoming(c) \in Seq(QueueEvent)
<1>1. Decoded \in Seq(LogEvent) /\ got[c] \in Seq(LogEvent)
  BY LogTyped DEF Known, TypeInv, ClientType
<1>2. Decoded \in Seq(QueueEvent) /\ got[c] \in Seq(QueueEvent)
  BY <1>1 DEF QueueEvent
<1>3. items[c] \in Seq(QueueEvent) /\ batch[c] \in Seq(QueueEvent)
  BY DEF Known, TypeInv, QueueTypes
<1>4. batch[c] \o items[c] \in Seq(QueueEvent)
  BY <1>3, ConcatProperties
<1>5. Logged(batch[c] \o items[c]) \in Seq(QueueEvent)
  BY <1>4, AboveType DEF Logged
<1> QED
  BY <1>2, <1>3, <1>4, <1>5, ConcatProperties DEF Upcoming

(* What a client got is the log so far, and its cursor its length. *)
LEMMA GotIs ==
  ASSUME Known, NEW c \in Clients, ClientOK(c), ~lost[c]
  PROVE  IsPrefixOf(got[c], Decoded) /\ Cursor(c) = Len(got[c])
<1>1. /\ Decoded \in Seq(QueueEvent) /\ got[c] \in Seq(QueueEvent)
      /\ Logged(batch[c] \o items[c]) \in Seq(QueueEvent) /\ Upcoming(c) \in Seq(QueueEvent)
      /\ IsPrefixOf(Upcoming(c), Decoded)
  BY StreamTyped DEF ClientOK
<1>2. Len(Upcoming(c)) <= Len(Decoded) /\ \A i \in 1 .. Len(Upcoming(c)) : Upcoming(c)[i] = Decoded[i]
  BY <1>1, PrefixHas
<1>3. /\ Len(got[c]) \in Nat /\ Len(Upcoming(c)) \in Nat /\ Len(Decoded) \in Nat
      /\ Len(got[c]) <= Len(Upcoming(c))
      /\ \A i \in 1 .. Len(got[c]) : Upcoming(c)[i] = got[c][i]
  <2> DEFINE m == Logged(batch[c] \o items[c])
  <2>1. m \in Seq(QueueEvent) /\ got[c] \in Seq(QueueEvent) /\ Upcoming(c) = got[c] \o m
    BY <1>1 DEF Upcoming
  <2> HIDE DEF m
  <2>2. Len(m) \in Nat /\ Len(got[c]) \in Nat /\ Len(Decoded) \in Nat
    BY <1>1, <2>1
  <2>3. /\ Len(Upcoming(c)) = Len(got[c]) + Len(m)
        /\ \A i \in 1 .. Len(got[c]) + Len(m) :
             Upcoming(c)[i] = IF i <= Len(got[c]) THEN got[c][i] ELSE m[i - Len(got[c])]
    BY <2>1, ConcatProperties
  <2>4. \A i \in 1 .. Len(got[c]) : i \in 1 .. Len(got[c]) + Len(m) /\ i <= Len(got[c])
    BY <2>2
  <2>5. \A i \in 1 .. Len(got[c]) : Upcoming(c)[i] = got[c][i]
    BY <2>3, <2>4
  <2>6. Len(got[c]) <= Len(Upcoming(c)) /\ Len(Upcoming(c)) \in Nat
    BY <2>2, <2>3
  <2> QED
    BY <2>2, <2>5, <2>6
<1>4. Len(got[c]) <= Len(Decoded) /\ \A i \in 1 .. Len(got[c]) : got[c][i] = Decoded[i]
  BY <1>2, <1>3
<1>5. IsPrefixOf(got[c], Decoded)
  BY <1>1, <1>4, PrefixIs
<1>6. CASE got[c] = <<>>
  BY <1>5, <1>6 DEF Cursor, LastOf, Event
<1>7. CASE got[c] # <<>>
  <2>1. Len(got[c]) \in 1 .. Len(got[c])
    BY <1>1, <1>3, <1>7, EmptySeq
  <2>2. Decoded[Len(got[c])].seq = Len(got[c])
    BY <1>3, <1>4, <2>1, LogTyped DEF Known
  <2> QED
    BY <1>4, <1>5, <1>7, <2>1, <2>2 DEF Cursor, LastOf
<1> QED
  BY <1>6, <1>7

(* An event that is added follows no end. *)
LEMMA AddedLast ==
  ASSUME LogInv, Added
  PROVE  ~Ended(LastOf(Decoded))
<1>1. PICK w \in Writers : wpc[w] = "write" /\ Decoded' = Append(Decoded, wev[w])
  BY DEF Added
<1>2. FileInv /\ Coming(Decoded, wev[w])
  BY <1>1 DEF LogInv, AppendInv
<1>3. wev[w].seq = Len(Decoded) + 1 /\ Len(Decoded) \in Nat /\ Decoded \in Seq(LineType)
  BY <1>1, <1>2, WriterHolds, DecodedIs, Lengths
<1>4. CASE Decoded = <<>>
  BY <1>4 DEF LastOf, Ended, Event
<1>5. CASE Decoded # <<>>
  <2>1. wev[w].seq > 1 /\ wev[w].seq - 1 = Len(Decoded)
    BY <1>3, <1>5, EmptySeq
  <2> QED
    BY <1>2, <1>5, <2>1 DEF Coming, LastOf
<1> QED
  BY <1>4, <1>5

LEMMA LogTypedNext ==
  LogInv' => Decoded' \in Seq(QueueEvent)
<1> DEFINE D == Decoded \in Seq(QueueEvent)
<1>1. LogInv => D
  BY LogTyped DEF QueueEvent
<1> HIDE DEF D
<1>2. LogInv' => D'
  BY <1>1, PTL
<1> QED
  BY <1>2 DEF D

(* A step that leaves a client's stream, while the log stays or grows. *)
LEMMA Calm ==
  ASSUME Known, LogInv', NEW c \in Clients, ClientOK(c),
         items'[c] = items[c], batch'[c] = batch[c], closed'[c] = closed[c], dpc'[c] = dpc[c],
         got'[c] = got[c], lost'[c] = lost[c],
         cpc'[c] = "stream" <=> cpc[c] = "stream", cpc'[c] = "stopped" => cpc[c] = "stopped",
         c \in subs' <=> c \in subs,
         Decoded' = Decoded \/ (Extends(Decoded, Decoded') /\ Added),
         c \in subs => mem' = mem,
         c \in subs /\ Writing' => Writing \/ Len(Decoded) = mem.seq
  PROVE  ClientOK(c)'
<1>1. Upcoming(c)' = Upcoming(c)
  BY DEF Upcoming, Logged
<1>2. /\ Upcoming(c) \in Seq(QueueEvent) /\ Decoded \in Seq(QueueEvent)
      /\ Decoded' \in Seq(QueueEvent)
  BY StreamTyped, LogTypedNext DEF Known
<1>3. ~lost[c] => IsPrefixOf(Upcoming(c), Decoded')
  <2> SUFFICES ASSUME ~lost[c] PROVE IsPrefixOf(Upcoming(c), Decoded')
    OBVIOUS
  <2>1. IsPrefixOf(Upcoming(c), Decoded)
    BY DEF ClientOK
  <2>2. CASE Decoded' = Decoded
    BY <2>1, <2>2
  <2>3. CASE Extends(Decoded, Decoded')
    BY <1>2, <2>1, <2>3, PrefixGrows
  <2> QED
    BY <2>2, <2>3
<1>4. c \in subs' /\ ~lost[c] => Len(Upcoming(c)) >= mem'.seq
  BY DEF ClientOK
<1>5. c \in subs' /\ ~lost[c] /\ Writing' => Len(Upcoming(c)) = mem'.seq
  <2> SUFFICES ASSUME c \in subs, ~lost[c], Writing' PROVE Len(Upcoming(c)) = mem.seq
    OBVIOUS
  <2>1. CASE Writing
    BY <2>1 DEF ClientOK
  <2>2. CASE Len(Decoded) = mem.seq
    <3>1. Len(Upcoming(c)) >= mem.seq /\ Len(Upcoming(c)) <= Len(Decoded)
      BY DEF ClientOK, IsPrefixOf
    <3>2. Len(Upcoming(c)) \in Nat /\ Len(Decoded) \in Nat
      BY <1>2
    <3> QED
      BY <2>2, <3>1, <3>2
  <2> QED
    BY <2>1, <2>2
<1>6. cpc'[c] = "stopped" /\ ~lost[c] => got[c] = Decoded' /\ Ended(LastOf(Decoded'))
  BY AddedLast DEF ClientOK, Known
<1>7. dpc'[c] = "done" => closed'[c]
  BY DEF ClientOK
<1>8. cpc'[c] # "stream" => closed'[c] /\ items'[c] = <<>> /\ batch'[c] = <<>>
  BY DEF ClientOK
<1>9. c \in subs' <=> cpc'[c] = "stream" /\ ~closed'[c]
  BY DEF ClientOK
<1> QED
  BY <1>1, <1>3, <1>4, <1>5, <1>6, <1>7, <1>8, <1>9 DEF ClientOK

LEMMA CalmAll ==
  ASSUME Known, LogInv', StreamInv,
         UNCHANGED <<queueVars, subs, got, lost>>,
         \A c \in Clients : cpc'[c] = cpc[c] \/ {cpc[c], cpc'[c]} \cap {"stream", "stopped"} = {},
         Decoded' = Decoded \/ (Extends(Decoded, Decoded') /\ Added),
         subs # {} => mem' = mem /\ reg' = reg,
         Writing' => Writing \/ Len(Decoded) = mem.seq
  PROVE  StreamInv'
<1>1. ASSUME NEW c \in Clients
      PROVE  ClientOK(c)'
  <2>1. /\ items'[c] = items[c] /\ batch'[c] = batch[c] /\ closed'[c] = closed[c]
        /\ dpc'[c] = dpc[c] /\ got'[c] = got[c] /\ lost'[c] = lost[c] /\ subs' = subs
    BY DEF queueVars
  <2>2. /\ cpc'[c] = "stream" <=> cpc[c] = "stream"
        /\ cpc'[c] = "stopped" => cpc[c] = "stopped"
    OBVIOUS
  <2>3. ClientOK(c) /\ (c \in subs => mem' = mem)
    BY DEF StreamInv
  <2> QED
    BY <2>1, <2>2, <2>3, Calm
<1>2. subs' # {} => reg' \in {"new", "on"}
  BY DEF StreamInv
<1> QED
  BY <1>1, <1>2 DEF StreamInv

(* Events that are queued go to the client in their order. *)
LEMMA TakeKeeps ==
  ASSUME Known, NEW c \in Clients, Take(c), got' = got
  PROVE  Upcoming(c)' = Upcoming(c)
<1>1. batch[c] = <<>> /\ items[c] \in Seq(QueueEvent)
  BY StreamTyped DEF Take, Known, TypeInv, QueueTypes
<1>2. batch'[c] = items[c] /\ items'[c] = <<>>
  BY DEF Take, Known, TypeInv, QueueTypes
<1>3. batch'[c] \o items'[c] = batch[c] \o items[c]
  BY <1>1, <1>2, ConcatEmptySeq
<1> QED
  BY <1>3 DEF Upcoming, Logged

LEMMA DeliverKeeps ==
  ASSUME Known, NEW c \in Clients, Deliver(c)
  PROVE  Upcoming(c)' = Upcoming(c)
<1> DEFINE b == batch[c]
           h == Head(batch[c])
           r == Tail(batch[c])
           q == items[c]
           g == got[c]
<1>1. b \in Seq(QueueEvent) /\ q \in Seq(QueueEvent) /\ g \in Seq(QueueEvent)
  BY StreamTyped
<1>2. b # <<>> /\ h \in QueueEvent
  BY HandOverTyped DEF Deliver, Known, TypeInv
<1>3. /\ got'[c] = g \o Logged(<<h>>) /\ batch'[c] = r /\ items'[c] = q
  BY DEF Deliver, HandOver, Known, TypeInv, QueueTypes, ClientType
<1> HIDE DEF q, g
<1>4. r \in Seq(QueueEvent) /\ <<h>> \in Seq(QueueEvent) /\ <<h>> \o r = b
  <2>1. h \in QueueEvent /\ r \in Seq(QueueEvent) /\ Len(r) = Len(b) - 1 /\ h = b[1]
        /\ \A i \in 1 .. Len(r) : r[i] = b[i + 1]
    BY <1>1, <1>2, HeadTailProperties
  <2> HIDE DEF h, r, b
  <2>2. <<h>> \in Seq(QueueEvent) /\ Len(<<h>>) = 1
    BY <2>1
  <2>3. /\ <<h>> \o r \in Seq(QueueEvent) /\ Len(<<h>> \o r) = Len(b)
        /\ \A i \in 1 .. Len(b) : (<<h>> \o r)[i] = b[i]
    BY <1>1, <2>1, <2>2
  <2> QED
    BY <1>1, <2>1, <2>2, <2>3, SeqEqual
<1> HIDE DEF h, r, b
<1>5. /\ r \o q \in Seq(QueueEvent) /\ <<h>> \o (r \o q) = b \o q
  <2>1. \A s, t, u \in Seq(QueueEvent) : (s \o t) \o u = s \o (t \o u)
    BY ConcatAssociative
  <2> DEFINE k == <<h>>
  <2>3. k \in Seq(QueueEvent) /\ r \in Seq(QueueEvent) /\ q \in Seq(QueueEvent)
    BY <1>1, <1>4
  <2> HIDE DEF k
  <2>4. (k \o r) \o q = k \o (r \o q)
    BY <2>1, <2>3, Zenon
  <2>2. (<<h>> \o r) \o q = <<h>> \o (r \o q)
    BY <2>4 DEF k
  <2> QED
    BY <1>1, <1>4, <2>2, ConcatProperties
<1>6. Logged(<<h>> \o (r \o q)) = Logged(<<h>>) \o Logged(r \o q)
  <2>1. \A s, t \in Seq(QueueEvent) : Above(s \o t, 0) = Above(s, 0) \o Above(t, 0)
    BY AboveJoin
  <2> QED
    BY <1>4, <1>5, <2>1, Zenon DEF Logged
<1>7. Logged(<<h>>) \in Seq(QueueEvent) /\ Logged(r \o q) \in Seq(QueueEvent)
  BY <1>4, <1>5, AboveType DEF Logged
<1>8. (g \o Logged(<<h>>)) \o Logged(r \o q) = g \o (Logged(<<h>>) \o Logged(r \o q))
  <2> DEFINE k == Logged(<<h>>)
             m == Logged(r \o q)
  <2>1. g \in Seq(QueueEvent) /\ k \in Seq(QueueEvent) /\ m \in Seq(QueueEvent)
    BY <1>1, <1>7
  <2> HIDE DEF k, m
  <2>2. (g \o k) \o m = g \o (k \o m)
    BY <2>1, ConcatAssociative
  <2> QED
    BY <2>2 DEF k, m
<1>9. Upcoming(c)' = (g \o Logged(<<h>>)) \o Logged(r \o q)
  BY <1>3 DEF Upcoming, Logged
<1> QED
  BY <1>5, <1>6, <1>8, <1>9 DEF Upcoming, g, b, q

LEMMA PushKeeps ==
  ASSUME Known, NEW S, NEW e \in QueueEvent, Push(S, e), got' = got, NEW c \in Clients
  PROVE  Upcoming(c)' = IF c \in S /\ ~closed[c] /\ e.seq > 0 THEN Append(Upcoming(c), e)
                        ELSE Upcoming(c)
<1>1. /\ batch[c] \in Seq(QueueEvent) /\ items[c] \in Seq(QueueEvent) /\ got[c] \in Seq(QueueEvent)
      /\ batch[c] \o items[c] \in Seq(QueueEvent)
      /\ Logged(batch[c] \o items[c]) \in Seq(QueueEvent)
  BY StreamTyped
<1>2. batch' = batch /\ items'[c] = IF c \in S /\ ~closed[c] THEN Append(items[c], e) ELSE items[c]
  BY DEF Push
<1>3. CASE ~(c \in S /\ ~closed[c])
  BY <1>2, <1>3 DEF Upcoming, Logged
<1>4. CASE c \in S /\ ~closed[c]
  <2>0. \A s, t \in Seq(QueueEvent) : s \o Append(t, e) = Append(s \o t, e)
    BY ConcatAppend
  <2>1. batch'[c] \o items'[c] = Append(batch[c] \o items[c], e)
    <3>1. batch'[c] = batch[c] /\ items'[c] = Append(items[c], e)
      BY <1>2, <1>4
    <3>2. batch[c] \o Append(items[c], e) = Append(batch[c] \o items[c], e)
      BY <1>1, <2>0, Zenon
    <3> QED
      BY <3>1, <3>2
  <2> DEFINE l == batch[c] \o items[c]
  <2>2. l \in Seq(QueueEvent) /\ Logged(l) \in Seq(QueueEvent)
    BY <1>1
  <2>3. Upcoming(c)' = got[c] \o Logged(Append(l, e)) /\ Upcoming(c) = got[c] \o Logged(l)
    BY <2>1 DEF Upcoming, Logged
  <2> HIDE DEF l
  <2>4. Logged(Append(l, e)) = IF e.seq > 0 THEN Append(Logged(l), e) ELSE Logged(l)
    BY <2>2, AboveAppend DEF Logged
  <2>5. got[c] \o Append(Logged(l), e) = Append(got[c] \o Logged(l), e)
    BY <1>1, <2>0, <2>2, Zenon
  <2> QED
    BY <1>4, <2>3, <2>4, <2>5
<1> QED
  BY <1>3, <1>4

(***************************************************************************)
(* What each step does to the streams.                                     *)
(***************************************************************************)
(* The loop's Append is written by the loop alone, when the log holds what *)
(* the run remembers.                                                      *)
LEMMA FileStreams ==
  ASSUME Known, LogInv', StreamInv, FileInv', FileStep, Loop \in Writers
  PROVE  StreamInv'
<1>1. PICK w \in Writers : FileNext(w)
  BY DEF FileStep
<1>2. Extends(Decoded, Decoded') /\ (Decoded' = Decoded \/ Added)
  BY FileStepRuns DEF Known
<1>3. Writing' => Writing \/ Len(Decoded) = mem.seq
  <2> SUFFICES ASSUME Writing', ~Writing PROVE Len(Decoded) = mem.seq
    OBVIOUS
  <2>1. wpc \in [Writers -> WriterPC] /\ FileInv
    BY DEF Known, LogInv, FileInv, FileType
  <2>2. w = Loop
    BY <1>1, <2>1 DEF Writing, FileNext, ReadTail, ReadTailFails, Write, WriteFails, Sync,
                      SyncDir, SyncFails, Goto
  <2>3. wpc[Loop] = "write"
    BY <1>1, <2>1, <2>2 DEF Writing, FileNext, ReadTail, ReadTailFails, Write, WriteFails, Sync,
                            SyncDir, SyncFails, Goto
  <2>4. wev[Loop].seq = Len(Decoded) + 1 /\ wev[Loop].seq = mem.seq + 1
    BY <2>1, <2>3, WriterHolds DEF Known, RunInv
  <2>5. Len(Decoded) \in Nat /\ mem.seq \in Nat
    <3>1. mem \in LogEvent \cup {NoFold}
      BY FileTyped DEF Known
    <3> QED
      BY <2>1, <3>1, Lengths, BoundsAssumption DEF LogEvent, NoFold, Event
  <2> QED
    BY <2>4, <2>5
<1>4. UNCHANGED <<queueVars, subs, got, lost>> /\ cpc' = cpc /\ mem' = mem /\ reg' = reg
  BY DEF FileStep, runVars, clientVars
<1> QED
  BY <1>2, <1>3, <1>4, CalmAll

(* Steps of the run, and of a Cancel, that no subscriber sees. *)
LEMMA QuietStreams ==
  ASSUME Known, LogInv', StreamInv, Decoded' = Decoded, WritersAssumption,
         \/ Start \/ ResumeFolds \/ Resume \/ Log \/ Forget \/ Shutdown
         \/ Cancel \/ CancelLogs \/ CancelReturns \/ Terminated \/ UNCHANGED vars
  PROVE  StreamInv'
<1>1. wpc \in [Writers -> WriterPC] /\ Loop \in Writers /\ Loop # Canceller
  BY DEF Known, LogInv, FileInv, FileType, WritersAssumption
<1>2. Writing' => Writing
  <2>1. CASE \/ Start \/ ResumeFolds \/ Resume \/ Forget \/ Shutdown \/ Cancel \/ Terminated
             \/ UNCHANGED vars
    BY <2>1 DEF Start, ResumeFolds, Resume, Forget, Shutdown, Cancel, Terminated, vars, fileVars,
                Writing
  <2>2. CASE Log
    <3>1. wpc'[Loop] = "tail"
      BY <1>1, <2>2 DEF Log, Call, Goto
    <3> QED
      BY <3>1 DEF Writing
  <2>3. CASE CancelLogs \/ CancelReturns
    <3>1. wpc'[Loop] = wpc[Loop]
      BY <1>1, <2>3 DEF CancelLogs, CancelReturns, Call, Return, Goto, fileVars
    <3> QED
      BY <3>1 DEF Writing
  <2> QED
    BY <2>1, <2>2, <2>3
<1>3. UNCHANGED <<queueVars, got, lost>> /\ cpc' = cpc
  BY DEF Start, ResumeFolds, Resume, Log, Forget, Shutdown, Cancel, CancelLogs, CancelReturns,
         Terminated, vars, clientVars
<1>4. subs' = subs /\ (subs # {} => mem' = mem /\ reg' = reg)
  <2>1. reg \in {"off", "finished"} => subs = {}
    BY DEF StreamInv
  <2>2. CASE Start \/ Resume
    BY <2>1, <2>2 DEF Start, Resume, NewRun, runVars
  <2>3. CASE Forget
    BY <2>1, <2>3 DEF Forget
  <2>4. CASE ResumeFolds \/ Log \/ Shutdown \/ Cancel \/ CancelLogs \/ CancelReturns \/ Terminated
             \/ UNCHANGED vars
    BY <2>4 DEF ResumeFolds, Log, Shutdown, Cancel, CancelLogs, CancelReturns, Terminated, vars,
                runVars
  <2> QED
    BY <2>2, <2>3, <2>4
<1> QED
  BY <1>2, <1>3, <1>4, CalmAll

(* A run that goes has no subscribers, and their queues take no more. *)
LEMMA CloseStreams ==
  ASSUME Known, LogInv', StreamInv, Decoded' = Decoded, Close(subs), subs' = {},
         UNCHANGED <<got, lost, cpc>>
  PROVE  StreamInv'
<1>1. ASSUME NEW c \in Clients
      PROVE  ClientOK(c)'
  <2>1. /\ items' = items /\ batch' = batch /\ dpc' = dpc
        /\ closed'[c] = (closed[c] \/ c \in subs)
    BY DEF Close
  <2>2. Upcoming(c)' = Upcoming(c)
    BY <2>1 DEF Upcoming, Logged
  <2>3. ClientOK(c)
    BY DEF StreamInv
  <2>4. /\ dpc'[c] = "done" => closed'[c]
        /\ cpc'[c] # "stream" => closed'[c] /\ items'[c] = <<>> /\ batch'[c] = <<>>
        /\ ~(cpc'[c] = "stream" /\ ~closed'[c])
    BY <2>1, <2>3 DEF ClientOK
  <2> QED
    BY <2>2, <2>3, <2>4 DEF ClientOK
<1> QED
  BY <1>1 DEF StreamInv

(* What is written is published before the run's mutex is free. *)
LEMMA PublishStreams ==
  ASSUME Known, LogInv', StreamInv, Decoded' = Decoded, LogReturns, Loop \in Writers
  PROVE  StreamInv'
<1> DEFINE e == wev[Loop]
<1>1. /\ wpc[Loop] = "ok" /\ Return(Loop) /\ mem' = e /\ Push(subs, e) /\ reg' = "on"
      /\ UNCHANGED <<subs, got, lost, cpc>>
  BY DEF LogReturns, clientVars
<1>2. There(Decoded, e) /\ e.seq = mem.seq + 1 /\ e.seq > 0
  <2>1. There(Decoded, e)
    BY <1>1 DEF Known, LogInv, AppendInv
  <2>2. e.seq \in 1 .. Len(Decoded) /\ Len(Decoded) \in Nat
    BY <2>1, Lengths DEF There, Known, LogInv
  <2> QED
    BY <1>1, <2>1, <2>2 DEF Known, RunInv
<1>3. e \in QueueEvent /\ mem.seq \in Nat
  <2>1. e \in LogEvent
    BY <1>2, LogTyped DEF There, Known
  <2>2. mem \in LogEvent \cup {NoFold}
    BY FileTyped DEF Known
  <2> QED
    BY <2>1, <2>2, BoundsAssumption DEF QueueEvent, LogEvent, NoFold, Event
<1>4. ~Writing'
  <2>1. wpc'[Loop] = "idle"
    BY <1>1 DEF Return, Goto, Known, LogInv, FileInv, FileType
  <2> QED
    BY <2>1 DEF Writing
<1> HIDE DEF e
<1>5. ASSUME NEW c \in Clients
      PROVE  ClientOK(c)'
  <2>0. ClientOK(c)
    BY DEF StreamInv
  <2>1. CASE c \notin subs
    <3>1. /\ items'[c] = items[c] /\ batch'[c] = batch[c] /\ closed'[c] = closed[c]
          /\ dpc'[c] = dpc[c] /\ got'[c] = got[c] /\ lost'[c] = lost[c] /\ cpc'[c] = cpc[c]
          /\ (c \in subs' <=> c \in subs)
      BY <1>1, <2>1 DEF Push
    <3> QED
      BY <2>0, <2>1, <3>1, Calm
  <2>2. CASE c \in subs
    <3>1. ~closed[c] /\ cpc[c] = "stream"
      BY <2>0, <2>2 DEF ClientOK
    <3>2. Upcoming(c)' = Append(Upcoming(c), e)
      BY <1>1, <1>2, <1>3, <2>2, <3>1, PushKeeps
    <3>3. closed'[c] = closed[c] /\ dpc'[c] = dpc[c] /\ cpc'[c] = cpc[c] /\ lost'[c] = lost[c]
          /\ subs' = subs
      BY <1>1 DEF Push
    <3>4. Upcoming(c) \in Seq(QueueEvent) /\ Decoded \in Seq(QueueEvent)
      BY StreamTyped
    <3>5. ASSUME ~lost[c]
          PROVE  IsPrefixOf(Append(Upcoming(c), e), Decoded) /\ Len(Append(Upcoming(c), e)) = e.seq
      <4>1. IsPrefixOf(Upcoming(c), Decoded) /\ Len(Upcoming(c)) = mem.seq
        BY <1>1, <2>0, <2>2, <3>5 DEF ClientOK, Writing
      <4>2. Len(Append(Upcoming(c), e)) = e.seq /\ Append(Upcoming(c), e) \in Seq(QueueEvent)
        BY <1>2, <1>3, <3>4, <4>1
      <4>3. /\ \A i \in 1 .. mem.seq : Upcoming(c)[i] = Decoded[i]
            /\ Decoded[e.seq] = e /\ e.seq <= Len(Decoded)
        BY <1>2, <3>4, <4>1, PrefixHas DEF There
      <4>4. \A i \in 1 .. e.seq : Append(Upcoming(c), e)[i] = Decoded[i]
        <5> SUFFICES ASSUME NEW i \in 1 .. e.seq PROVE Append(Upcoming(c), e)[i] = Decoded[i]
          OBVIOUS
        <5>1. CASE i = e.seq
          BY <1>2, <1>3, <3>4, <4>1, <4>3, <5>1
        <5>2. CASE i # e.seq
          <6>1. i \in 1 .. mem.seq
            BY <1>2, <1>3, <5>2
          <6> QED
            BY <3>4, <4>1, <4>3, <6>1
        <5> QED
          BY <5>1, <5>2
      <4> QED
        BY <3>4, <4>2, <4>3, <4>4, PrefixIs
    <3> QED
      BY <1>1, <1>2, <1>3, <1>4, <2>0, <2>2, <3>1, <3>2, <3>3, <3>5 DEF ClientOK
  <2> QED
    BY <2>1, <2>2
<1>6. subs' # {} => reg' \in {"new", "on"}
  BY <1>1
<1> QED
  BY <1>5, <1>6 DEF StreamInv

(* A live event adds nothing to what a client keeps. *)
LEMMA LiveStreams ==
  ASSUME Known, LogInv', StreamInv, Decoded' = Decoded, PublishLive
  PROVE  StreamInv'
<1>1. /\ Push(subs, Live) /\ got' = got /\ wpc' = wpc
      /\ UNCHANGED <<subs, got, lost, cpc, mem, reg>>
  BY DEF PublishLive, clientVars, runVars, fileVars
<1>2. Live \in QueueEvent /\ ~(Live.seq > 0)
  BY DEF QueueEvent, Live, Event
<1>3. ASSUME NEW c \in Clients
      PROVE  ClientOK(c)'
  <2>1. Upcoming(c)' = Upcoming(c)
    BY <1>1, <1>2, PushKeeps
  <2>2. /\ batch' = batch /\ closed' = closed /\ dpc' = dpc
        /\ (c \notin subs => items'[c] = items[c])
    BY <1>1 DEF Push
  <2>3. ClientOK(c) /\ (Writing' <=> Writing)
    BY <1>1 DEF StreamInv, Writing
  <2> QED
    BY <1>1, <2>1, <2>2, <2>3 DEF ClientOK
<1> QED
  BY <1>1, <1>3 DEF StreamInv

(* A client whose queue is discarded keeps what it got. *)
LEMMA GoneKeeps ==
  ASSUME Known, NEW c \in Clients, items'[c] = <<>>, batch'[c] = <<>>, got'[c] = got[c]
  PROVE  Upcoming(c)' = got[c]
<1>1. <<>> \o <<>> = <<>> /\ got[c] \o <<>> = got[c]
  BY StreamTyped, ConcatEmptySeq, EmptySeq
<1>2. Logged(<<>>) = <<>>
  BY AboveNone DEF Logged
<1>3. Upcoming(c)' = got'[c] \o Logged(batch'[c] \o items'[c])
  BY DEF Upcoming, Logged
<1> QED
  BY <1>1, <1>2, <1>3

LEMMA LeaveStreams ==
  ASSUME Known, LogInv', StreamInv, Decoded' = Decoded, NEW c \in Clients,
         StreamEnds(c) \/ Disconnect(c)
  PROVE  StreamInv'
<1>1. /\ cpc' = [cpc EXCEPT ![c] = "away"] /\ Discard({c})
      /\ UNCHANGED <<got, lost, mem, reg, wpc>>
  BY DEF StreamEnds, Disconnect, At, clientVars, runVars, fileVars
<1>2. cpc'[c] = "away" /\ \A d \in Clients \ {c} : cpc'[d] = cpc[d]
  BY <1>1 DEF Known, TypeInv, ClientType
<1>3. c \notin subs' /\ subs' \subseteq subs /\ subs \ {c} \subseteq subs'
  <2>1. CASE StreamEnds(c)
    <3>1. c \notin subs /\ subs' = subs
      BY <2>1 DEF StreamEnds, StreamInv, ClientOK, runVars
    <3> QED
      BY <3>1
  <2>2. CASE Disconnect(c)
    BY <2>2 DEF Disconnect
  <2> QED
    BY <2>1, <2>2
<1>4. ASSUME NEW d \in Clients
      PROVE  ClientOK(d)'
  <2>0. ClientOK(d)
    BY DEF StreamInv
  <2>1. CASE d = c
    <3>1. items'[c] = <<>> /\ batch'[c] = <<>> /\ closed'[c] /\ dpc'[c] = "gone"
      BY <1>1 DEF Discard
    <3>2. Upcoming(c)' = got[c]
      BY <1>1, <3>1, GoneKeeps
    <3>3. ~lost[c] => IsPrefixOf(got[c], Decoded)
      BY <2>0, <2>1, GotIs
    <3> QED
      BY <1>1, <1>2, <1>3, <2>1, <3>1, <3>2, <3>3 DEF ClientOK
  <2>2. CASE d # c
    <3>1. /\ items'[d] = items[d] /\ batch'[d] = batch[d] /\ closed'[d] = closed[d]
          /\ dpc'[d] = dpc[d] /\ got'[d] = got[d] /\ lost'[d] = lost[d] /\ cpc'[d] = cpc[d]
      BY <1>1, <1>2, <2>2 DEF Discard, Known, TypeInv, QueueTypes
    <3>2. (d \in subs' <=> d \in subs) /\ (Writing' <=> Writing)
      BY <1>1, <1>3, <2>2 DEF Writing
    <3> QED
      BY <1>1, <2>0, <3>1, <3>2, Calm
  <2> QED
    BY <2>1, <2>2
<1> QED
  BY <1>1, <1>3, <1>4 DEF StreamInv

(* A client that takes, waits for or gets an event. *)
LEMMA HandStreams ==
  ASSUME Known, LogInv', StreamInv, Decoded' = Decoded, NEW c \in Clients,
         Deliver(c) \/ QueueStep(c)
  PROVE  StreamInv'
<1>1. closed' = closed /\ UNCHANGED <<lost, cpc, mem, reg, subs, wpc>>
  BY DEF Deliver, QueueStep, Hands, HandOver, Take, Wake, clientVars, runVars, fileVars
<1>2. Upcoming(c)' = Upcoming(c)
  <2>1. CASE Deliver(c)
    BY <2>1, DeliverKeeps
  <2>2. CASE QueueStep(c) /\ Take(c)
    BY <2>2, TakeKeeps DEF QueueStep, clientVars
  <2>3. CASE QueueStep(c) /\ Wake(c)
    BY <2>3 DEF QueueStep, Wake, Upcoming, Logged, clientVars
  <2> QED
    BY <2>1, <2>2, <2>3 DEF QueueStep, Hands
<1>3. /\ cpc[c] # "stream" => items'[c] = <<>> /\ batch'[c] = <<>>
      /\ cpc[c] = "stopped" => got'[c] = got[c]
      /\ dpc'[c] = "done" => closed[c]
  <2>1. CASE Deliver(c)
    <3>1. dpc'[c] \in {"take", "send"}
      BY <2>1 DEF Deliver, HandOver, Known, TypeInv, QueueTypes
    <3> QED
      BY <2>1, <3>1 DEF Deliver
  <2>2. CASE QueueStep(c) /\ Take(c)
    BY <2>2 DEF QueueStep, Take, clientVars, Known, TypeInv, QueueTypes, StreamInv, ClientOK
  <2>3. CASE QueueStep(c) /\ Wake(c)
    BY <2>3 DEF QueueStep, Wake, clientVars, Known, TypeInv, QueueTypes, StreamInv, ClientOK
  <2> QED
    BY <2>1, <2>2, <2>3 DEF QueueStep, Hands
<1>4. ASSUME NEW d \in Clients
      PROVE  ClientOK(d)'
  <2>0. ClientOK(d) /\ (Writing' <=> Writing)
    BY <1>1 DEF StreamInv, Writing
  <2>1. CASE d = c
    BY <1>1, <1>2, <1>3, <2>0, <2>1 DEF ClientOK
  <2>2. CASE d # c
    <3>1. /\ items'[d] = items[d] /\ batch'[d] = batch[d] /\ dpc'[d] = dpc[d]
          /\ got'[d] = got[d]
      BY <2>2 DEF Deliver, QueueStep, Hands, HandOver, Take, Wake, clientVars, Known, TypeInv,
                  QueueTypes, ClientType
    <3> QED
      BY <1>1, <2>0, <3>1, Calm
  <2> QED
    BY <2>1, <2>2
<1> QED
  BY <1>1, <1>4 DEF StreamInv

(* What a client does before its stream begins. *)
LEMMA AskStreams ==
  ASSUME Known, LogInv', StreamInv, Decoded' = Decoded, NEW c \in Clients,
         \/ Connect(c) \/ Look(c) \/ Refuse(c)
         \/ StateAnswers(c) /\ cpc'[c] # "stopped"
  PROVE  StreamInv'
<1>1. UNCHANGED <<queueVars, subs, got, lost, mem, reg, wpc>>
  BY DEF Connect, Look, Refuse, StateAnswers, clientVars, runVars, fileVars
<1>2. /\ cpc[c] \in {"away", "state", "look", "attach"}
      /\ \A d \in Clients \ {c} : cpc'[d] = cpc[d]
      /\ cpc'[c] \in {"away", "state", "look", "attach"}
  BY DEF Connect, Look, Refuse, StateAnswers, At, Known, TypeInv, ClientType
<1>3. Writing' <=> Writing
  BY <1>1 DEF Writing
<1> QED
  BY <1>1, <1>2, <1>3, CalmAll

(* The end of the log is what the state has, in memory or folded. *)
LEMMA SeenEnd ==
  ASSUME Known, NEW e, Sees(e), Ended(e)
  PROVE  e = LastOf(Decoded) /\ e.seq = Len(Decoded) /\ Decoded # <<>>
<1>0. FileInv /\ Told(Decoded) /\ Len(Decoded) \in Nat
  BY Lengths DEF Known, LogInv
<1>1. CASE reg = "off"
  BY <1>0, <1>1, LastIsThere DEF Sees, Folds
<1>2. CASE reg # "off"
  <2>1. e = mem /\ mem # NoFold
    BY <1>2 DEF Sees, NoFold, Event, Ended
  <2>2. There(Decoded, e)
    BY <2>1 DEF Known, RunInv, Recalled
  <2>3. e.seq = Len(Decoded)
    BY <1>0, <2>2, ThereIs
  <2>4. Decoded # <<>>
    BY <1>0, <2>2 DEF There
  <2> QED
    BY <2>2, <2>3, <2>4 DEF There, LastOf
<1> QED
  BY <1>1, <1>2

LEMMA StopStreams ==
  ASSUME Known, LogInv', StreamInv, Decoded' = Decoded, NEW c \in Clients,
         StateAnswers(c), cpc'[c] = "stopped"
  PROVE  StreamInv'
<1>1. UNCHANGED <<queueVars, subs, got, lost, mem, reg, wpc>> /\ cpc[c] = "state"
  BY DEF StateAnswers, runVars, fileVars
<1>2. PICK e : Sees(e) /\ HasAll(c, e)
  BY DEF StateAnswers, At, Known, TypeInv, ClientType
<1>3. \A d \in Clients \ {c} : cpc'[d] = cpc[d]
  BY DEF StateAnswers, At
<1>4. ASSUME ~lost[c]
      PROVE  got[c] = Decoded /\ Ended(LastOf(Decoded))
  <2>1. ClientOK(c)
    BY DEF StreamInv
  <2>2. IsPrefixOf(got[c], Decoded) /\ Cursor(c) = Len(got[c])
    BY <1>4, <2>1, GotIs
  <2>3. e = LastOf(Decoded) /\ e.seq = Len(Decoded) /\ Ended(e)
    BY <1>2, SeenEnd DEF HasAll
  <2>4. Len(Decoded) <= Len(got[c])
    BY <1>2, <2>2, <2>3 DEF HasAll
  <2>5. got[c] \in Seq(QueueEvent) /\ Decoded \in Seq(QueueEvent)
    BY StreamTyped
  <2> QED
    BY <2>2, <2>3, <2>4, <2>5, PrefixWhole
<1>5. ASSUME NEW d \in Clients
      PROVE  ClientOK(d)'
  <2>0. /\ ClientOK(d) /\ (Writing' <=> Writing)
        /\ items'[d] = items[d] /\ batch'[d] = batch[d] /\ closed'[d] = closed[d]
        /\ dpc'[d] = dpc[d] /\ got'[d] = got[d] /\ lost'[d] = lost[d] /\ subs' = subs
    BY <1>1 DEF StreamInv, Writing, queueVars
  <2>1. CASE d = c
    <3>1. Upcoming(d)' = Upcoming(d)
      BY <2>0 DEF Upcoming, Logged
    <3> QED
      BY <1>1, <1>4, <2>0, <2>1, <3>1 DEF ClientOK
  <2>2. CASE d # c
    BY <1>1, <1>3, <2>0, <2>2, Calm
  <2> QED
    BY <2>1, <2>2
<1> QED
  BY <1>1, <1>5 DEF StreamInv

(* The log is what a client has of it and what is above its cursor. *)
LEMMA ReplayIs ==
  ASSUME Known, NEW c \in Clients, ClientOK(c), ~lost[c]
  PROVE  got[c] \o Logged(<<>> \o Events(Cursor(c))) = Decoded
<1> DEFINE D == Decoded
           n == Len(got[c])
<1>1. D \in Seq(QueueEvent) /\ Len(D) \in Nat /\ \A i \in 1 .. Len(D) : D[i].seq = i
  BY StreamTyped, LogTyped DEF Known
<1>2. IsPrefixOf(got[c], D) /\ Cursor(c) = n /\ n \in Nat /\ got[c] \in Seq(QueueEvent)
  BY GotIs, StreamTyped
<1> HIDE DEF D
<1>3. got[c] = SubSeq(D, 1, n) /\ n \in 0 .. Len(D)
  BY <1>1, <1>2 DEF IsPrefixOf
<1> HIDE DEF n
<1>4. Above(D, n) = SubSeq(D, n + 1, Len(D))
  BY <1>1, <1>3, AboveNumbered
<1> DEFINE r == SubSeq(D, n + 1, Len(D))
<1>5. r \in Seq(QueueEvent) /\ \A i \in 1 .. Len(r) : r[i].seq > 0
  <2>1. n + 1 \in Int /\ Len(D) \in Int
    BY <1>1, <1>2
  <2>2. \A i \in n + 1 .. Len(D) : i \in 1 .. Len(D) /\ D[i] \in QueueEvent
    BY <1>1, <1>2
  <2>3. /\ r \in Seq(QueueEvent)
        /\ Len(r) = IF n + 1 <= Len(D) THEN Len(D) - (n + 1) + 1 ELSE 0
        /\ \A i \in 1 .. Len(D) - (n + 1) + 1 : r[i] = D[n + 1 + i - 1]
    BY <2>1, <2>2, SubSeqProperties
  <2> HIDE DEF r
  <2>4. \A i \in 1 .. Len(r) : i \in 1 .. Len(D) - (n + 1) + 1 /\ n + 1 + i - 1 \in 1 .. Len(D)
    BY <1>1, <1>2, <2>3
  <2>5. \A i \in 1 .. Len(r) : r[i].seq > 0
    <3> SUFFICES ASSUME NEW i \in 1 .. Len(r) PROVE r[i].seq > 0
      OBVIOUS
    <3>1. r[i] = D[n + 1 + i - 1] /\ n + 1 + i - 1 \in 1 .. Len(D)
      BY <2>3, <2>4
    <3>2. D[n + 1 + i - 1].seq = n + 1 + i - 1
      BY <1>1, <3>1
    <3> QED
      BY <1>1, <3>1, <3>2
  <2> QED
    BY <2>3, <2>5
<1>6. got[c] \o r = D
  <2>1. /\ 1 \in 1 .. Len(D) + 1 /\ n \in 1 - 1 .. Len(D) /\ Len(D) \in n .. Len(D)
        /\ D \in Seq(QueueEvent)
    BY <1>1, <1>3
  <2>2. SubSeq(D, 1, n) \o SubSeq(D, n + 1, Len(D)) = SubSeq(D, 1, Len(D))
    BY <1>1, <2>1, ConcatAdjacentSubSeq
  <2>3. SubSeq(D, 1, Len(D)) = D
    BY <1>1, SubSeqFull
  <2> QED
    BY <1>3, <2>2, <2>3
<1> HIDE DEF r
<1>7. Above(r, 0) = r /\ <<>> \o r = r
  BY <1>5, AboveAll, ConcatEmptySeq
<1> QED
  BY <1>2, <1>4, <1>6, <1>7 DEF Logged, Events, D, r

(* Replay and registration are one step under the run's mutex. *)
LEMMA AttachStreams ==
  ASSUME Known, LogInv', StreamInv, Decoded' = Decoded, NEW c \in Clients, Attach(c)
  PROVE  StreamInv'
<1>1. /\ cpc[c] = "attach" /\ cpc' = [cpc EXCEPT ![c] = "stream"]
      /\ NewQueue(c, Events(Cursor(c)), ~Feeding(c))
      /\ subs' = IF Feeding(c) THEN subs \cup {c} ELSE subs
      /\ Feeding(c) => wpc[Loop] = "idle"
      /\ UNCHANGED <<got, lost, mem, reg, wpc>>
  BY DEF Attach, Free, At, fileVars
<1>2. cpc'[c] = "stream" /\ \A d \in Clients \ {c} : cpc'[d] = cpc[d]
  BY <1>1 DEF Known, TypeInv, ClientType
<1>3. ClientOK(c) /\ c \notin subs /\ (Writing' <=> Writing)
  BY <1>1 DEF StreamInv, ClientOK, Writing
<1>4. /\ items'[c] = Events(Cursor(c)) /\ batch'[c] = <<>> /\ closed'[c] = ~Feeding(c)
      /\ dpc'[c] = "take"
  BY <1>1 DEF NewQueue, Known, TypeInv, QueueTypes
<1>5. ~lost[c] => Upcoming(c)' = Decoded
  <2>1. Upcoming(c)' = got'[c] \o Logged(batch'[c] \o items'[c])
    BY DEF Upcoming, Logged
  <2> QED
    BY <1>1, <1>3, <1>4, <2>1, ReplayIs
<1>6. IsPrefixOf(Decoded, Decoded) /\ Len(Decoded) >= mem.seq
  <2>1. Decoded \in Seq(QueueEvent) /\ Len(Decoded) \in Nat
    BY StreamTyped
  <2>2. Len(Decoded) >= mem.seq
    BY <2>1, BoundsAssumption DEF Known, RunInv, Recalled, There, NoFold, Event
  <2>3. IsPrefixOf(Decoded, Decoded)
    BY <2>1, PrefixIs
  <2> QED
    BY <2>2, <2>3
<1>7. ASSUME NEW d \in Clients
      PROVE  ClientOK(d)'
  <2>1. CASE d = c
    <3>1. (c \in subs' <=> Feeding(c)) /\ (Feeding(c) => ~Writing')
      BY <1>1, <1>3 DEF Writing
    <3> QED
      BY <1>1, <1>2, <1>4, <1>5, <1>6, <2>1, <3>1 DEF ClientOK
  <2>2. CASE d # c
    <3>1. /\ items'[d] = items[d] /\ batch'[d] = batch[d] /\ closed'[d] = closed[d]
          /\ dpc'[d] = dpc[d] /\ got'[d] = got[d] /\ lost'[d] = lost[d]
          /\ cpc'[d] = cpc[d] /\ (d \in subs' <=> d \in subs)
      BY <1>1, <1>2, <2>2 DEF NewQueue, Known, TypeInv, QueueTypes
    <3>2. ClientOK(d)
      BY DEF StreamInv
    <3> QED
      BY <1>1, <1>3, <3>1, <3>2, Calm
  <2> QED
    BY <2>1, <2>2
<1>8. subs' # {} => reg' \in {"new", "on"}
  BY <1>1 DEF StreamInv, Feeding
<1> QED
  BY <1>7, <1>8 DEF StreamInv

(* With the server its streams are gone. *)
LEMMA GoneStreams ==
  ASSUME Known, LogInv', StreamInv, ServerGone,
         \A c \in Clients : ~lost'[c] => ~lost[c] /\ IsPrefixOf(got[c], Decoded'),
         \A c \in Clients : cpc[c] = "stopped" /\ ~lost'[c] =>
           got[c] = Decoded' /\ Ended(LastOf(Decoded'))
  PROVE  StreamInv'
<1>1. subs' = {} /\ got' = got /\ Discard(Clients)
      /\ cpc' = [c \in Clients |-> IF cpc[c] = "stopped" THEN "stopped" ELSE "away"]
  BY DEF ServerGone
<1>2. ASSUME NEW c \in Clients
      PROVE  ClientOK(c)'
  <2>1. /\ items'[c] = <<>> /\ batch'[c] = <<>> /\ closed'[c] /\ dpc'[c] = "gone"
        /\ got'[c] = got[c] /\ cpc'[c] = IF cpc[c] = "stopped" THEN "stopped" ELSE "away"
    BY <1>1 DEF Discard
  <2>2. Upcoming(c)' = got[c]
    BY <2>1, GoneKeeps
  <2> QED
    BY <1>1, <2>1, <2>2 DEF ClientOK
<1> QED
  BY <1>1, <1>2 DEF StreamInv

LEMMA CrashStreams ==
  ASSUME Known, LogInv', StreamInv, Crash \/ Exit,
         Extends(Decoded, Decoded'), Decoded' = Decoded \/ Added
  PROVE  StreamInv'
<1>1. ServerGone /\ lost' = lost
  BY DEF Crash, Exit
<1>2. ASSUME NEW c \in Clients, ~lost[c]
      PROVE  IsPrefixOf(got[c], Decoded')
  <2>1. IsPrefixOf(got[c], Decoded)
    BY <1>2, GotIs DEF StreamInv
  <2>2. /\ got[c] \in Seq(QueueEvent) /\ Decoded \in Seq(QueueEvent)
        /\ Decoded' \in Seq(QueueEvent)
    BY StreamTyped, LogTypedNext
  <2> QED
    BY <2>1, <2>2, PrefixGrows
<1>3. ASSUME NEW c \in Clients, cpc[c] = "stopped", ~lost[c]
      PROVE  got[c] = Decoded' /\ Ended(LastOf(Decoded'))
  BY <1>3, AddedLast DEF StreamInv, ClientOK, Known
<1> QED
  BY <1>1, <1>2, <1>3, GoneStreams

(* The host's crash takes lines from the end of the log; a client that had *)
(* none of them has a log's beginning still.                               *)
LEMMA HostCrashStreams ==
  ASSUME Known, LogInv', StreamInv, HostCrash, IsPrefixOf(Decoded', Decoded)
  PROVE  StreamInv'
<1>1. ServerGone /\ lost' = [c \in Clients |-> lost[c] \/ Cursor(c) > Len(Decoded')]
  BY DEF HostCrash
<1>2. ASSUME NEW c \in Clients, ~lost'[c]
      PROVE  /\ ~lost[c] /\ IsPrefixOf(got[c], Decoded')
             /\ cpc[c] = "stopped" => got[c] = Decoded' /\ Ended(LastOf(Decoded'))
  <2>1. ~lost[c] /\ ~(Cursor(c) > Len(Decoded')) /\ ClientOK(c)
    BY <1>1, <1>2 DEF StreamInv
  <2>2. IsPrefixOf(got[c], Decoded) /\ Cursor(c) = Len(got[c])
    BY <2>1, GotIs
  <2>3. /\ got[c] \in Seq(QueueEvent) /\ Decoded \in Seq(QueueEvent)
        /\ Decoded' \in Seq(QueueEvent)
    BY StreamTyped, LogTypedNext
  <2>4. Len(got[c]) \in Nat /\ Len(Decoded') \in Nat /\ Len(Decoded) \in Nat
    BY <2>3
  <2>5. Len(got[c]) <= Len(Decoded')
    BY <2>1, <2>2, <2>4
  <2>6. IsPrefixOf(got[c], Decoded')
    BY <2>2, <2>3, <2>5, PrefixesNest
  <2>7. ASSUME cpc[c] = "stopped"
        PROVE  got[c] = Decoded' /\ Ended(LastOf(Decoded'))
    <3>1. got[c] = Decoded /\ Ended(LastOf(Decoded))
      BY <2>1, <2>7 DEF ClientOK
    <3>2. Decoded' = Decoded
      BY <2>3, <2>5, <3>1, PrefixWhole
    <3> QED
      BY <3>1, <3>2
  <2> QED
    BY <2>1, <2>6, <2>7
<1> QED
  BY <1>1, <1>2, GoneStreams

LEMMA StreamStep ==
  ASSUME OneStore, Known, StreamInv, FileInv', [Next]_vars
  PROVE  StreamInv'
<1>0. LogInv /\ RunInv /\ Loop \in Writers /\ WritersAssumption
  BY WritersAssumption DEF Known, OneStore
<1>1. CASE LogReturns
  BY <1>0, <1>1, LogReturnsRuns, PublishStreams
<1>2. CASE LogFails
  <2>1. LogInv' /\ Decoded' = Decoded
    BY <1>0, <1>2, LogFailsRuns
  <2>2. wpc'[Loop] = "idle" /\ ~Writing'
    BY <1>0, <1>2 DEF LogFails, Return, Goto, LogInv, FileInv, FileType, Writing
  <2>3. UNCHANGED <<got, lost, cpc, mem>>
    BY <1>2 DEF LogFails, clientVars
  <2>4. CASE reg = "new"
    BY <1>2, <2>1, <2>3, <2>4, CloseStreams DEF LogFails
  <2>5. CASE reg # "new"
    <3>1. UNCHANGED <<queueVars, subs, reg>>
      BY <1>2, <2>5 DEF LogFails, queueVars
    <3> QED
      BY <2>1, <2>2, <2>3, <3>1, CalmAll
  <2> QED
    BY <2>4, <2>5
<1>3. CASE Log \/ CancelLogs \/ CancelReturns
  BY <1>0, <1>3, LogRuns, CancelLogsRuns, CancelReturnsRuns, QuietStreams
<1>4. CASE FileStep
  BY <1>0, <1>4, FileStepRuns, FileStreams
<1>5. CASE Crash
  BY <1>0, <1>5, CrashRuns, CrashStreams
<1>6. CASE HostCrash
  BY <1>0, <1>6, HostCrashRuns, HostCrashStreams
<1>7. CASE \/ Start \/ ResumeFolds \/ Resume \/ PublishLive \/ Finish \/ Forget \/ Shutdown
           \/ Cancel \/ Exit \/ Terminated \/ UNCHANGED vars
           \/ \E c \in Clients : ClientNext(c)
  <2>1. LogInv' /\ Decoded' = Decoded
    BY <1>0, <1>7, OthersRun
  <2>2. CASE \/ Start \/ ResumeFolds \/ Resume \/ Forget \/ Shutdown \/ Cancel \/ Terminated
             \/ UNCHANGED vars
    BY <1>0, <2>1, <2>2, QuietStreams
  <2>3. CASE PublishLive
    BY <2>1, <2>3, LiveStreams
  <2>4. CASE Finish
    BY <2>1, <2>4, CloseStreams DEF Finish, clientVars
  <2>5. CASE Exit
    <3>1. Extends(Decoded, Decoded)
      BY <1>0, Stays DEF LogInv
    <3> QED
      BY <2>1, <2>5, <3>1, CrashStreams
  <2>6. ASSUME NEW c \in Clients, ClientNext(c)
        PROVE  StreamInv'
    <3>1. CASE StateAnswers(c)
      BY <2>1, <3>1, AskStreams, StopStreams
    <3>2. CASE Connect(c) \/ Look(c) \/ Refuse(c)
      BY <2>1, <3>2, AskStreams
    <3>3. CASE Attach(c)
      BY <2>1, <3>3, AttachStreams
    <3>4. CASE Deliver(c) \/ QueueStep(c)
      BY <2>1, <3>4, HandStreams
    <3>5. CASE StreamEnds(c) \/ Disconnect(c)
      BY <2>1, <3>5, LeaveStreams
    <3> QED
      BY <2>6, <3>1, <3>2, <3>3, <3>4, <3>5 DEF ClientNext
  <2> QED
    BY <1>7, <2>2, <2>3, <2>4, <2>5, <2>6
<1> QED
  BY <1>1, <1>2, <1>3, <1>4, <1>5, <1>6, <1>7 DEF Next, RunNext

LEMMA StreamAlways ==
  ASSUME OneStore
  PROVE  Spec => [](Known /\ StreamInv)
<1> DEFINE Base == LogInv /\ RunInv /\ TypeInv
<1>1. Init /\ Known => StreamInv
  <2> SUFFICES ASSUME Init, Known PROVE StreamInv
    OBVIOUS
  <2>1. /\ items = [c \in Clients |-> <<>>] /\ batch = [c \in Clients |-> <<>>]
        /\ closed = [c \in Clients |-> TRUE] /\ dpc = [c \in Clients |-> "gone"]
        /\ subs = {} /\ cpc = [c \in Clients |-> "away"] /\ got = [c \in Clients |-> <<>>]
    BY DEF Init, QueueInit
  <2>2. ASSUME NEW c \in Clients
        PROVE  ClientOK(c)
    <3>1. Upcoming(c) = <<>>
      <4>1. <<>> \o <<>> = <<>> /\ Above(<<>>, 0) = <<>>
        BY ConcatEmptySeq, EmptySeq, AboveNone
      <4> QED
        BY <2>1, <4>1 DEF Upcoming, Logged
    <3>2. Decoded \in Seq(QueueEvent) /\ <<>> \in Seq(QueueEvent)
      BY StreamTyped
    <3>3. IsPrefixOf(<<>>, Decoded)
      <4>1. Len(<<>>) = 0 /\ Len(Decoded) \in Nat /\ Len(<<>>) <= Len(Decoded)
        BY <3>2
      <4>2. SubSeq(Decoded, 1, 0) = <<>>
        BY <3>2, SubSeqEmpty
      <4> QED
        BY <4>1, <4>2 DEF IsPrefixOf
    <3> QED
      BY <2>1, <3>1, <3>3 DEF ClientOK
  <2> QED
    BY <2>1, <2>2 DEF StreamInv
<1>2. Known /\ StreamInv /\ Known' /\ [Next]_vars => StreamInv'
  <2> SUFFICES ASSUME Known, StreamInv, Known', [Next]_vars PROVE StreamInv'
    OBVIOUS
  <2>1. FileInv'
    BY DEF Known, LogInv
  <2> QED
    BY <2>1, StreamStep
<1>3. Base <=> Known
  BY DEF Known
<1>4. Spec => []Base
  BY TypesAlways
<1> HIDE DEF Base
<1> QED
  BY <1>1, <1>2, <1>3, <1>4, PTL DEF Spec

(***************************************************************************)
(* Whatever a client goes through - replays, broken connections, restarts  *)
(* of the server - what it got is the beginning of the run's log, each     *)
(* event once and in order (Subscribe, log, sse's cursor and write).       *)
(***************************************************************************)
THEOREM StreamCorrect ==
  ASSUME OneStore
  PROVE  Spec => []StreamIsLog
<1>1. Known /\ StreamInv => StreamIsLog
  BY GotIs DEF StreamInv, StreamIsLog
<1> QED
  BY <1>1, StreamAlways, PTL

(***************************************************************************)
(* A client that is told to stop has the whole log of a run that ended     *)
(* (Stream's 204).                                                         *)
(***************************************************************************)
THEOREM StopCorrect ==
  ASSUME OneStore
  PROVE  Spec => []StopsComplete
<1>1. Known /\ StreamInv => StopsComplete
  BY DEF StreamInv, ClientOK, StopsComplete
<1> QED
  BY <1>1, StreamAlways, PTL

(***************************************************************************)
(* No event falls between a subscriber's replay and its queue, and none is *)
(* in both: Events is read and the subscriber registered in one hold of    *)
(* the run's mutex, under which log writes and publishes (Subscribe).      *)
(***************************************************************************)
THEOREM ReplayCorrect ==
  ASSUME OneStore
  PROVE  Spec => []NoEventBetween
<1>1. Known /\ StreamInv => NoEventBetween
  <2> SUFFICES ASSUME Known, StreamInv PROVE NoEventBetween
    OBVIOUS
  <2>1. subs \subseteq Clients
    BY DEF Known, TypeInv, RunType
  <2> QED
    BY <2>1 DEF StreamInv, ClientOK, NoEventBetween
<1> QED
  BY <1>1, StreamAlways, PTL

(***************************************************************************)
(* A stream that stays open belongs to a run that is running and will      *)
(* close it: no client waits on a run that has gone (Subscribe, finish,    *)
(* drop).                                                                  *)
(***************************************************************************)
THEOREM FeedCorrect ==
  ASSUME OneStore
  PROVE  Spec => []StreamIsFed
<1>1. Known /\ StreamInv => StreamIsFed
  BY DEF StreamInv, ClientOK, StreamIsFed
<1> QED
  BY <1>1, StreamAlways, PTL

=============================================================================
