------------------------------- MODULE Session -------------------------------
(***************************************************************************)
(* A harness session (harness/session.go, harness/exchange.go): the calls  *)
(* of Send, the goroutine of a cancellation, the goroutine route, Close,   *)
(* and a process that may end and open the session again.                  *)
(*                                                                         *)
(* The Connection and its Journal are external: a harness that reads the   *)
(* lines written to it in order, carries one run at a time, appends to its *)
(* journal while it runs, and ends each run with one event "ended".  The   *)
(* journal is read as Pi's, the only one (pi/connection.go), and the Store *)
(* is the one kept in files (harness/filestore): a line per record.  An    *)
(* exchange is one call of Send; every action is what one goroutine does   *)
(* between two points where another can come in.                           *)
(***************************************************************************)
EXTENDS Naturals, Sequences

CONSTANTS
    Exchanges,   \* each opened by one call of Send
    Schema,      \* the exchanges whose request carries a schema
    Asks,        \* Prompt waits for the harness's answer (Pi), or returns once it is written
    Trips,       \* round trips of Connection.Cancel, the last of which aborts
    MaxEntries,  \* bound: entries a run appends to the journal
    MaxFaults,   \* bound: calls of the journal and the store that fail, entries lost,
                 \* exits of the harness that Close did not ask for, and crashes
    Partial,     \* bound: whether a Put that fails leaves anything of its line
    MaxOpens     \* bound: calls of NewSession

ASSUME SchemaAssumption == Schema \subseteq Exchanges
ASSUME NoneAssumption == "none" \notin Exchanges
ASSUME AsksAssumption == Asks \in BOOLEAN /\ Partial \in BOOLEAN
ASSUME TripsAssumption == Trips \in Nat \ {0}
ASSUME LimitsAssumption ==
    MaxEntries \in Nat /\ MaxFaults \in Nat /\ MaxOpens \in Nat

VARIABLES
    open,        \* Session.open, or "none"
    runEnded,    \* Session.runEnded
    cursor,      \* Session.cursor
    resync,      \* Session.resync
    exited,      \* Session.exited
    cancelling,  \* the exchange whose cancellation is in flight, or "none"
    closed,      \* Close has been called: Session.ctx and the queue's have ended
    route,       \* where route is; "off" when there is no session
    rx, rev,     \* the exchange and the event route has at hand
    got,         \* the entries route has bound to rx
    send,        \* [Exchanges -> SendPC]
    hook,        \* [Exchanges -> HookPC]: where the cancellation is
    trip,        \* [Exchanges -> 0 .. Trips]: its round trips begun, until it is over
    final, cancelled, answered,  \* sets of exchanges: Exchange.final, .cancelled, a structured result
    err,         \* [Exchanges -> Error]: Exchange.err
    records,     \* the lines of the Store's file
    rest,        \* what follows them: nothing, or one line without its newline
    unstored,    \* exchanges whose Put failed
    alive,       \* the harness process runs
    inbox,       \* lines written to the harness that it has not read
    running,     \* the exchange whose run is under way, or "none"
    reply,       \* [Exchanges -> Reply]: the harness's answer to a prompt, until Prompt returns
    aborted,     \* exchanges whose run the harness stopped on a cancellation
    told,        \* the run under way has sent its one event before "ended"
    outbox,      \* events of the harness that route has not taken
    journal,     \* the harness's entries
    appended,    \* [Exchanges -> 0 .. MaxEntries]: entries a run appended
    faults, opens  \* what the bounds count

sessionVars  == <<open, runEnded, cursor, resync, exited, cancelling>>
routeVars    == <<route, rx, rev, got>>
callVars     == <<send, hook, trip>>
exchangeVars == <<final, cancelled, answered, err>>
storeVars    == <<records, rest, unstored>>
harnessVars  == <<alive, inbox, running, reply, aborted, told, outbox, journal, appended>>
boundVars    == <<faults, opens>>
vars == <<sessionVars, closed, routeVars, callVars, exchangeVars, storeVars,
          harnessVars, boundVars>>

None == "none"
Entry == Exchanges \X (1 .. MaxEntries)
NoEntry == <<>>
Line == [kind : {"prompt", "message", "clear", "abort"}, x : Exchanges]
RunEvent == [kind : {"structured", "error", "cancelled", "ended"}, x : Exchanges]
NoEvent == [kind |-> "none", x |-> None]
Record == [x : Exchanges, entries : Seq(Entry)]
Garbage == [x |-> None, entries |-> <<>>]  \* what decodes to no record
SendPC == {"idle", "resync", "prompt", "asked", "fail", "failing", "failed",
           "sent", "lost"}
HookPC == {"none", "mark", "call", "await", "error", "clear", "over"}
RoutePC == {"off", "next", "unanswered", "bind", "put", "release", "push",
            "exitPut", "exitFail", "done"}
Error == {"none", "unanswered", "other"}
Reply == {"none", "accepted", "refused"}

----------------------------------------------------------------------------
(* The journal and the store.                                              *)

Newest(j) == IF j = <<>> THEN NoEntry ELSE j[Len(j)]

(* Journal.Since of an entry the journal holds. *)
Since(c) ==
    IF c = NoEntry THEN journal
    ELSE SubSeq(journal, 1 + CHOOSE i \in DOMAIN journal : journal[i] = c, Len(journal))

Holds(e) == \E i \in DOMAIN journal : journal[i] = e

(* Store.Records: the last line needs no newline, and one line that does   *)
(* not decode fails the call.                                              *)
Records == records \o rest
Readable == \A i \in DOMAIN Records : Records[i] # Garbage

(* The last entry that a record names. *)
LastRecorded ==
    LET Naming == {i \in DOMAIN Records : Records[i].entries # <<>>}
    IN  IF Naming = {} THEN NoEntry
        ELSE Newest(Records[CHOOSE i \in Naming : \A j \in Naming : j <= i].entries)

(* Exchange.record. *)
RecordOf(y, entries) == [x |-> y, entries |-> entries]

(* Store.Put appends, whatever the file ends in. *)
PutLine(rec) == records' = Append(records, IF rest = <<>> THEN rec ELSE Garbage) /\ rest' = <<>>

(* What a Put leaves that fails, or whose process dies: nothing, part of   *)
(* its line, all but the newline, or the line.                             *)
PutPart(rec) ==
    \/ UNCHANGED <<records, rest>>
    \/ /\ Partial
       /\ \/ /\ rest' \in {<<Garbage>>, IF rest = <<>> THEN <<rec>> ELSE <<Garbage>>}
             /\ UNCHANGED records
          \/ PutLine(rec)

(* One of the things the bound MaxFaults counts. *)
Faulty == faults < MaxFaults /\ faults' = faults + 1

(* A call that waits on the harness can fail: of itself, because Close     *)
(* ends its context, or because the harness has exited.                    *)
CallFails == Faulty \/ ((closed \/ ~alive) /\ UNCHANGED faults)

----------------------------------------------------------------------------
(* Exchange.push, with its events after EventEnded dropped.                *)

FirstErr(y, e) == IF y \notin final /\ err[y] = "none" THEN [err EXCEPT ![y] = e] ELSE err

PushErr(y, e) == err' = FirstErr(y, e) /\ UNCHANGED <<final, cancelled, answered>>

Push(y, k) ==
    IF y \in final THEN UNCHANGED exchangeVars
    ELSE /\ final' = IF k = "ended" THEN final \union {y} ELSE final
         /\ cancelled' = IF k = "cancelled" THEN cancelled \union {y} ELSE cancelled
         /\ answered' = IF k = "structured" THEN answered \union {y} ELSE answered
         /\ err' = IF k = "error" THEN FirstErr(y, "other") ELSE err

(* Exchange.fail. *)
FailExchange(y) ==
    /\ err' = FirstErr(y, "other")
    /\ final' = final \union {y}
    /\ UNCHANGED <<cancelled, answered>>

Unanswered(y) == y \in Schema /\ y \notin answered /\ y \notin cancelled /\ err[y] = "none"

----------------------------------------------------------------------------
(* Send.                                                                   *)

Goto(y, p) == send' = [send EXCEPT ![y] = p]
Write(k, y) == inbox' = Append(inbox, [kind |-> k, x |-> y])

(* Mutant: a Send does not wait for a cancellation in flight. *)
UncontestedAlways == TRUE

(* Send goes on once no cancellation is in flight. *)
Uncontested == cancelling = None

(* The caller's context ends while Send waits. *)
GiveUp(y) ==
    /\ send[y] = "idle" /\ ~Uncontested
    /\ Goto(y, "failed")
    /\ UNCHANGED <<sessionVars, closed, routeVars, hook, trip, exchangeVars, storeVars,
                   harnessVars, boundVars>>

(* The lock is held from the last look at cancelling to the opening. *)
Send(y) ==
    /\ route # "off" /\ send[y] = "idle" /\ Uncontested
    /\ IF closed \/ exited \/ open # None
       THEN Goto(y, "failed") /\ UNCHANGED open
       ELSE /\ open' = y
            /\ Goto(y, IF resync THEN "resync" ELSE "prompt")
    /\ UNCHANGED <<runEnded, cursor, resync, exited, cancelling, closed, routeVars,
                   hook, trip, exchangeVars, storeVars, harnessVars, boundVars>>

ResyncCursor(y) ==
    /\ send[y] = "resync"
    /\ \/ /\ alive /\ ~closed
          /\ cursor' = Newest(journal) /\ resync' = FALSE
          /\ Goto(y, "prompt") /\ UNCHANGED faults
       \/ CallFails /\ Goto(y, "fail") /\ UNCHANGED <<cursor, resync>>
    /\ UNCHANGED <<open, runEnded, exited, cancelling, closed, routeVars, hook, trip,
                   exchangeVars, storeVars, harnessVars, opens>>

(* Connection.Prompt writes the prompt, or fails before.  Pi answers a     *)
(* prompt; the other adapters return as soon as it is written.  Once it is *)
(* sent, the exchange can be cancelled, and is when its context ends.      *)
Prompt(y) ==
    /\ send[y] = "prompt"
    /\ \/ CallFails /\ Goto(y, "fail") /\ UNCHANGED inbox
       \/ /\ alive /\ ~closed
          /\ \/ Asks /\ Goto(y, "asked") /\ Write("prompt", y)
             \/ ~Asks /\ Goto(y, "sent") /\ Write("message", y)
          /\ UNCHANGED faults
    /\ UNCHANGED <<sessionVars, closed, routeVars, hook, trip, exchangeVars, storeVars,
                   alive, running, reply, aborted, told, outbox, journal, appended,
                   opens>>

(* Mutant: the end of the caller's context abandons the prompt. *)
PromptAbandoned(y) == TRUE

(* Prompt runs under the session's context, not the caller's. *)
PromptFails(y) == reply[y] = "refused" \/ closed \/ (reply[y] = "none" /\ ~alive)

Prompted(y) ==
    /\ send[y] = "asked"
    /\ \/ reply[y] = "accepted" /\ Goto(y, "sent")
       \/ PromptFails(y) /\ Goto(y, "fail")
    /\ reply' = [reply EXCEPT ![y] = "none"]
    /\ UNCHANGED <<sessionVars, closed, routeVars, hook, trip, exchangeVars, storeVars, alive,
                   inbox, running, aborted, told, outbox, journal, appended, boundVars>>

SendFails(y) ==
    /\ send[y] = "fail"
    /\ open' = IF open = y THEN None ELSE open
    /\ Goto(y, "failing")
    /\ UNCHANGED <<runEnded, cursor, resync, exited, cancelling, closed, routeVars,
                   hook, trip, exchangeVars, storeVars, harnessVars, boundVars>>

FailSend(y) ==
    /\ send[y] = "failing"
    /\ FailExchange(y)
    /\ Goto(y, "failed")
    /\ UNCHANGED <<sessionVars, closed, routeVars, hook, trip, storeVars, harnessVars,
                   boundVars>>

----------------------------------------------------------------------------
(* Cancellation: Exchange.Cancel runs the hook once, called or because the *)
(* caller's context ended.                                                 *)

Hook(y, p) == hook' = [hook EXCEPT ![y] = p]

Cancel(y) ==
    /\ send[y] = "sent" /\ hook[y] = "none" /\ route # "off"
    /\ IF open # y \/ runEnded
       THEN Hook(y, "over") /\ UNCHANGED cancelling
       ELSE Hook(y, "mark") /\ cancelling' = y
    /\ UNCHANGED <<open, runEnded, cursor, resync, exited, closed, routeVars, send, trip,
                   exchangeVars, storeVars, harnessVars, boundVars>>

(* Mutant: only the harness's own event says that a run was cancelled. *)
MarkedByHarness(y) == UNCHANGED cancelled
Marked(y) == cancelled' = cancelled \union {y}

(* Exchange.markCancelled comes before the harness can hear of it. *)
MarkCancelled(y) ==
    /\ hook[y] = "mark"
    /\ Marked(y)
    /\ Hook(y, "call")
    /\ UNCHANGED <<sessionVars, closed, routeVars, send, trip, final, answered, err,
                   storeVars, harnessVars, boundVars>>

(* A round trip of Connection.Cancel. *)
CallCancel(y) ==
    /\ hook[y] = "call"
    /\ IF closed \/ ~alive
       THEN Hook(y, "error") /\ UNCHANGED <<inbox, trip>>
       ELSE /\ trip' = [trip EXCEPT ![y] = @ + 1]
            /\ Write(IF trip'[y] = Trips THEN "abort" ELSE "clear", y)
            /\ Hook(y, "await")
    /\ UNCHANGED <<sessionVars, closed, routeVars, send, exchangeVars, storeVars, alive,
                   running, reply, aborted, told, outbox, journal, appended, boundVars>>

(* Mutant: one round trip too many. *)
OneMoreTrip(y) == trip[y] > Trips
(* The round trip that is over was the last. *)
LastTrip(y) == trip[y] = Trips

(* The harness answers once it has read the line; or the call fails, by    *)
(* cancelTimeout at any time; or it is a notification and has no answer.   *)
CancelReturns(y) ==
    /\ hook[y] = "await"
    /\ \/ /\ \A i \in DOMAIN inbox : inbox[i].x = y => inbox[i].kind \in {"prompt", "message"}
          /\ Hook(y, IF LastTrip(y) THEN "clear" ELSE "call")
       \/ Hook(y, "error")
       \/ LastTrip(y) /\ Hook(y, "clear")
    /\ UNCHANGED <<sessionVars, closed, routeVars, send, trip, exchangeVars, storeVars,
                   harnessVars, boundVars>>

(* Mutant: only a cancellation that was answered lets the next Send go on. *)
OverUnlessFailed(y) == cancelling' = IF err[y] = "other" THEN cancelling ELSE None
Over(y) == cancelling' = None

(* The failure is the exchange's error, unless Close cut the call short. *)
CancelFails(y) ==
    /\ hook[y] = "error"
    /\ IF closed THEN UNCHANGED exchangeVars ELSE PushErr(y, "other")
    /\ Hook(y, "clear")
    /\ UNCHANGED <<sessionVars, closed, routeVars, send, trip, storeVars, harnessVars,
                   boundVars>>

CancelOver(y) ==
    /\ hook[y] = "clear"
    /\ Over(y)
    /\ Hook(y, "over") /\ trip' = [trip EXCEPT ![y] = 0]
    /\ UNCHANGED <<open, runEnded, cursor, resync, exited, closed, routeVars, send,
                   exchangeVars, storeVars, harnessVars, boundVars>>

----------------------------------------------------------------------------
(* The goroutine route.                                                    *)

(* The open exchange gets the event; an event outside any is dropped. *)
RouteTakes ==
    /\ route = "next" /\ outbox # <<>>
    /\ outbox' = Tail(outbox)
    /\ rx' = open
    /\ rev' = IF open = None THEN NoEvent ELSE Head(outbox)
    /\ IF open # None /\ Head(outbox).kind = "ended"
       THEN runEnded' = TRUE /\ route' = "unanswered"
       ELSE runEnded' = runEnded /\ route' = IF open # None THEN "push" ELSE "next"
    /\ UNCHANGED <<open, cursor, resync, exited, cancelling, closed, got, callVars,
                   exchangeVars, storeVars, alive, inbox, running, reply, aborted, told,
                   journal, appended, boundVars>>

RouteUnanswered ==
    /\ route = "unanswered"
    /\ IF Unanswered(rx) THEN PushErr(rx, "unanswered") ELSE UNCHANGED exchangeVars
    /\ route' = "bind"
    /\ UNCHANGED <<sessionVars, closed, rx, rev, got, callVars, storeVars, harnessVars,
                   boundVars>>

(* Mutant: a binding that fails leaves the cursor as it is. *)
CursorKept == UNCHANGED resync
CursorStale == resync' = TRUE

(* Session.bind; its error becomes the exchange's once it is recorded,     *)
(* and stands in the record for an error the exchange has not.             *)
Bind ==
    /\ route = "bind"
    /\ \/ /\ alive /\ ~closed
          /\ got' = Since(cursor)
          /\ cursor' = IF got' = <<>> THEN cursor ELSE Newest(got')
          /\ UNCHANGED <<resync, err, faults>>
       \/ /\ CallFails
          /\ got' = <<>> /\ CursorStale
          /\ err' = FirstErr(rx, "other")
          /\ UNCHANGED cursor
    /\ route' = "put"
    /\ UNCHANGED <<open, runEnded, exited, cancelling, closed, rx, rev, callVars, final,
                   cancelled, answered, storeVars, harnessVars, opens>>

(* Session.put has a context of its own, which Close does not end. *)
Stored(y, entries) ==
    \/ /\ PutLine(RecordOf(y, entries))
       /\ UNCHANGED <<unstored, faults, exchangeVars>>
    \/ /\ Faulty
       /\ PutPart(RecordOf(y, entries))
       /\ unstored' = unstored \union {y}
       /\ PushErr(y, "other")

Put ==
    /\ route = "put"
    /\ Stored(rx, got)
    /\ got' = <<>>
    /\ route' = "release"
    /\ UNCHANGED <<sessionVars, closed, rx, rev, callVars, harnessVars, opens>>

Release ==
    /\ route = "release"
    /\ open' = IF open = rx THEN None ELSE open
    /\ runEnded' = FALSE
    /\ route' = "push"
    /\ UNCHANGED <<cursor, resync, exited, cancelling, closed, rx, rev, got, callVars,
                   exchangeVars, storeVars, harnessVars, boundVars>>

RoutePushes ==
    /\ route = "push"
    /\ Push(rx, rev.kind)
    /\ route' = "next" /\ rx' = None /\ rev' = NoEvent
    /\ UNCHANGED <<sessionVars, closed, got, callVars, storeVars, harnessVars,
                   boundVars>>

(* Mutant: the end of the harness leaves the open exchange as it is. *)
ExitForgets == None
AtExit == open

(* The Connection's events have closed, with what was left of them when    *)
(* Close ended them, and the harness has exited. *)
RouteExits ==
    /\ route = "next" /\ ~alive
    /\ outbox = <<>> \/ closed
    /\ outbox' = <<>>
    /\ exited' = TRUE
    /\ rx' = AtExit
    /\ open' = None
    /\ route' = IF rx' = None THEN "done" ELSE "exitPut"
    /\ UNCHANGED <<runEnded, cursor, resync, cancelling, closed, rev, got, callVars,
                   exchangeVars, storeVars, alive, inbox, running, reply, aborted, told,
                   journal, appended, boundVars>>

(* Mutant: an exchange the harness leaves open is not recorded. *)
ExitUnrecorded(y) == UNCHANGED <<storeVars, faults, exchangeVars>>
ExitRecorded(y) == Stored(y, <<>>)

ExitPut ==
    /\ route = "exitPut"
    /\ ExitRecorded(rx)
    /\ route' = "exitFail"
    /\ UNCHANGED <<sessionVars, closed, rx, rev, got, callVars, harnessVars, opens>>

ExitFail ==
    /\ route = "exitFail"
    /\ FailExchange(rx)
    /\ route' = "done" /\ rx' = None
    /\ UNCHANGED <<sessionVars, closed, rev, got, callVars, storeVars, harnessVars,
                   boundVars>>

----------------------------------------------------------------------------
(* Close, and the session's beginning and end.                             *)

(* Close ends Session.ctx and has the Connection end the harness; it       *)
(* returns when route is done.                                             *)
Close ==
    /\ route # "off" /\ ~closed
    /\ closed' = TRUE
    /\ UNCHANGED <<sessionVars, routeVars, callVars, exchangeVars, storeVars, harnessVars,
                   boundVars>>

Gone(y) == send[y] \notin {"idle", "failed"}

(* What a process that ends takes with it: all but the store and journal. *)
Ends ==
    /\ route' = "off" /\ rx' = None /\ rev' = NoEvent /\ got' = <<>>
    /\ open' = None /\ runEnded' = FALSE /\ cursor' = NoEntry /\ resync' = FALSE
    /\ exited' = FALSE /\ cancelling' = None /\ closed' = FALSE
    /\ send' = [y \in Exchanges |-> IF Gone(y) THEN "lost" ELSE send[y]]
    /\ hook' = [y \in Exchanges |-> "none"]
    /\ trip' = [y \in Exchanges |-> 0]
    /\ final' = {} /\ cancelled' = {} /\ answered' = {}
    /\ err' = [y \in Exchanges |-> "none"]
    /\ reply' = [y \in Exchanges |-> "none"] /\ aborted' = {} /\ told' = FALSE
    /\ alive' = FALSE /\ inbox' = <<>> /\ running' = None /\ outbox' = <<>>
    /\ UNCHANGED <<unstored, journal, appended, opens>>

Busy(y) ==
    \/ send[y] \notin {"idle", "failed", "sent", "lost"}
    \/ hook[y] \notin {"none", "over"}

(* The session is over and its calls have returned. *)
Leave ==
    /\ route = "done" /\ \A y \in Exchanges : ~Busy(y)
    /\ Ends
    /\ UNCHANGED <<records, rest, faults>>

(* The driver's process dies at any point; the harness sees its input end. *)
Crash ==
    /\ route # "off" /\ Faulty
    /\ IF route \in {"put", "exitPut"} THEN PutPart(RecordOf(rx, got))
                                        ELSE UNCHANGED <<records, rest>>
    /\ Ends

(* Mutant: the first entry recorded is looked for, not the last. *)
VerifiedFirst == Records # <<>> /\ Records[1].entries # <<>> => Holds(Records[1].entries[1])
(* Session.verify. *)
Verified == Readable /\ (LastRecorded # NoEntry => Holds(LastRecorded))

(* NewSession over a harness just started, which is closed again when the  *)
(* journal or the store fails, for good when a line of the file does not   *)
(* decode, or the journal does not hold what was recorded.  The cursor     *)
(* begins at the journal's head, so that no entry before it is claimed.    *)
NewSession ==
    /\ route = "off" /\ opens < MaxOpens
    /\ opens' = opens + 1
    /\ \/ /\ Verified
          /\ route' = "next" /\ alive' = TRUE /\ cursor' = Newest(journal)
          /\ UNCHANGED faults
       \/ /\ IF Verified THEN Faulty ELSE UNCHANGED faults
          /\ UNCHANGED <<route, alive, cursor>>
    /\ UNCHANGED <<open, runEnded, resync, exited, cancelling, closed, rx, rev, got,
                   callVars, exchangeVars, storeVars, inbox, running, reply, aborted, told,
                   outbox, journal, appended>>

----------------------------------------------------------------------------
(* The harness.                                                            *)

(* A line is read: Pi refuses a prompt while a run is under way, and may   *)
(* refuse another; a message waits for the run's end.                      *)
HarnessReads ==
    LET line == Head(inbox) IN
    /\ alive /\ inbox # <<>>
    /\ line.kind = "message" => running = None
    /\ inbox' = Tail(inbox)
    /\ \/ /\ line.kind \in {"prompt", "message"} /\ running = None
          /\ running' = line.x
          /\ reply' = IF Asks THEN [reply EXCEPT ![line.x] = "accepted"] ELSE reply
          /\ UNCHANGED aborted
       \/ /\ line.kind = "prompt"
          /\ reply' = [reply EXCEPT ![line.x] = "refused"]
          /\ UNCHANGED <<running, aborted>>
       \/ /\ line.kind = "clear"
          /\ UNCHANGED <<running, reply, aborted>>
       \/ /\ line.kind = "abort"
          /\ aborted' = IF running = None THEN aborted ELSE aborted \union {running}
          /\ UNCHANGED <<running, reply>>
    /\ UNCHANGED <<sessionVars, closed, routeVars, callVars, exchangeVars, storeVars, alive,
                   told, outbox, journal, appended, boundVars>>

HarnessAppends ==
    /\ running # None /\ appended[running] < MaxEntries
    /\ appended' = [appended EXCEPT ![running] = @ + 1]
    /\ journal' = Append(journal, <<running, appended'[running]>>)
    /\ UNCHANGED <<sessionVars, closed, routeVars, callVars, exchangeVars, storeVars, alive,
                   inbox, running, reply, aborted, told, outbox, boundVars>>

(* The one event of a run that the session tells apart, before it ends. *)
HarnessTells ==
    /\ running # None /\ ~told
    /\ \E k \in {"structured", "error", "cancelled"} :
          /\ k = "structured" => running \in Schema
          /\ k = "cancelled" => running \in aborted
          /\ outbox' = Append(outbox, [kind |-> k, x |-> running])
    /\ told' = TRUE
    /\ UNCHANGED <<sessionVars, closed, routeVars, callVars, exchangeVars, storeVars, alive,
                   inbox, running, reply, aborted, journal, appended, boundVars>>

HarnessEnds ==
    /\ running # None
    /\ outbox' = Append(outbox, [kind |-> "ended", x |-> running])
    /\ running' = None /\ told' = FALSE
    /\ UNCHANGED <<sessionVars, closed, routeVars, callVars, exchangeVars, storeVars, alive,
                   inbox, reply, aborted, journal, appended, boundVars>>

HarnessExits ==
    /\ alive
    /\ \/ closed /\ UNCHANGED faults
       \/ ~closed /\ Faulty
    /\ alive' = FALSE /\ inbox' = <<>> /\ running' = None /\ told' = FALSE
    /\ UNCHANGED <<sessionVars, closed, routeVars, callVars, exchangeVars, storeVars, reply,
                   aborted, outbox, journal, appended, opens>>

(* A harness that is not running loses its last entry. *)
JournalLoses ==
    /\ route = "off" /\ journal # <<>> /\ Faulty
    /\ journal' = SubSeq(journal, 1, Len(journal) - 1)
    /\ UNCHANGED <<sessionVars, closed, routeVars, callVars, exchangeVars, storeVars, alive,
                   inbox, running, reply, aborted, told, outbox, appended, opens>>

(* No session is left to open. *)
Terminated == route = "off" /\ opens = MaxOpens /\ UNCHANGED vars

----------------------------------------------------------------------------
Init ==
    /\ open = None /\ runEnded = FALSE /\ cursor = NoEntry /\ resync = FALSE
    /\ exited = FALSE /\ cancelling = None /\ closed = FALSE
    /\ route = "off" /\ rx = None /\ rev = NoEvent /\ got = <<>>
    /\ send = [y \in Exchanges |-> "idle"]
    /\ hook = [y \in Exchanges |-> "none"]
    /\ trip = [y \in Exchanges |-> 0]
    /\ final = {} /\ cancelled = {} /\ answered = {}
    /\ err = [y \in Exchanges |-> "none"]
    /\ records = <<>> /\ rest = <<>> /\ unstored = {}
    /\ alive = FALSE /\ inbox = <<>> /\ running = None
    /\ reply = [y \in Exchanges |-> "none"]
    /\ aborted = {} /\ told = FALSE /\ outbox = <<>> /\ journal = <<>>
    /\ appended = [y \in Exchanges |-> 0]
    /\ faults = 0 /\ opens = 0

SendNext(y) ==
    \/ ResyncCursor(y) \/ Prompt(y) \/ Prompted(y) \/ SendFails(y) \/ FailSend(y)

CancelNext(y) ==
    \/ MarkCancelled(y) \/ CallCancel(y) \/ CancelReturns(y) \/ CancelFails(y)
    \/ CancelOver(y)

RouteNext ==
    \/ RouteTakes \/ RouteUnanswered \/ Bind \/ Put \/ Release \/ RoutePushes
    \/ RouteExits \/ ExitPut \/ ExitFail

HarnessNext == HarnessReads \/ HarnessAppends \/ HarnessTells \/ HarnessEnds \/ HarnessExits

Next ==
    \/ \E y \in Exchanges : Send(y) \/ GiveUp(y) \/ SendNext(y) \/ Cancel(y) \/ CancelNext(y)
    \/ RouteNext \/ Close \/ Leave \/ Crash \/ NewSession
    \/ HarnessNext \/ JournalLoses
    \/ Terminated

Spec == Init /\ [][Next]_vars

(* Goroutines run on; the harness reads its input, ends every run it has   *)
(* begun, and exits once its input is closed.                              *)
Fairness ==
    /\ \A y \in Exchanges : WF_vars(SendNext(y)) /\ WF_vars(CancelNext(y))
    /\ WF_vars(RouteNext) /\ WF_vars(HarnessReads) /\ WF_vars(HarnessEnds)
    /\ WF_vars(closed /\ HarnessExits)

FairSpec == Spec /\ Fairness
=============================================================================
