------------------------- MODULE SessionProperties -------------------------
(* What makes a session correct. *)
EXTENDS Session

SessionType ==
    /\ open \in Exchanges \union {None} /\ cancelling \in Exchanges \union {None}
    /\ runEnded \in BOOLEAN /\ resync \in BOOLEAN /\ exited \in BOOLEAN /\ closed \in BOOLEAN
    /\ cursor \in Entry \union {NoEntry}
RouteType ==
    /\ route \in RoutePC /\ rx \in Exchanges \union {None}
    /\ rev \in RunEvent \union {NoEvent} /\ got \in Seq(Entry)
CallType ==
    /\ send \in [Exchanges -> SendPC] /\ hook \in [Exchanges -> HookPC]
    /\ trip \in [Exchanges -> 0 .. Trips]
ExchangeType ==
    /\ final \subseteq Exchanges /\ cancelled \subseteq Exchanges /\ answered \subseteq Exchanges
    /\ err \in [Exchanges -> Error]
StoreType ==
    /\ records \in Seq(Record \union {Garbage}) /\ rest \in Seq(Record \union {Garbage})
    /\ unstored \subseteq Exchanges
HarnessType ==
    /\ alive \in BOOLEAN /\ inbox \in Seq(Line) /\ running \in Exchanges \union {None}
    /\ reply \in [Exchanges -> Reply]
    /\ aborted \subseteq Exchanges /\ told \in BOOLEAN
    /\ outbox \in Seq(RunEvent) /\ journal \in Seq(Entry)
    /\ appended \in [Exchanges -> 0 .. MaxEntries]
BoundType == faults \in 0 .. MaxFaults /\ opens \in 0 .. MaxOpens

(* Every variable has its type. *)
TypeOK ==
    /\ SessionType /\ RouteType /\ CallType /\ ExchangeType /\ StoreType /\ HarnessType
    /\ BoundType

(* A cancellation, however many round trips it takes and whether or not    *)
(* they time out, reaches its own exchange's run or an idle harness: none  *)
(* waits behind the prompt or in the run of another (Send, Session.cancel).*)
CancelReachesItsOwn ==
    \A i \in DOMAIN inbox : inbox[i].kind = "abort" =>
      /\ running \in {None, inbox[i].x}
      /\ \A j \in 1 .. i : inbox[j].kind \in {"prompt", "message"} => inbox[j].x = inbox[i].x

(* A record names either no entry or exactly those its exchange's run      *)
(* appended, in their order: no later exchange claims entries whose        *)
(* binding failed, whoever opened the session (Session.bind, resyncCursor, *)
(* NewSession).                                                            *)
EntriesOf(y) == [i \in 1 .. appended[y] |-> <<y, i>>]
EntriesTheirOwn ==
    \A i \in DOMAIN Records :
      Records[i] # Garbage => Records[i].entries \in {<<>>, EntriesOf(Records[i].x)}

(* An exchange has one record at most, and one that Send returned has it   *)
(* by the time its end is seen, unless its Put failed (route), or some     *)
(* line of the file ran into what an earlier Put had left that failed or   *)
(* died part way (filestore.Put), which repairs nothing: which of the      *)
(* records such a line was is not asked.                                   *)
Recorded(y) == \E i \in DOMAIN records : records[i].x = y
RanTogether == \E i \in DOMAIN records : records[i] = Garbage
RecordedBeforeEnd ==
    /\ \A i, j \in DOMAIN records :
         records[i].x = records[j].x /\ records[i] # Garbage => i = j
    /\ \A y \in final : send[y] = "sent" => Recorded(y) \/ y \in unstored \/ RanTogether

(* An exchange gets the events of its own run and no others (route, and    *)
(* Send, which waits for the harness's answer whatever its caller's        *)
(* context does).                                                          *)
EventsTheirOwn == rx # None /\ rev # NoEvent => rev.x = rx

(* An exchange whose run the harness stopped for a cancellation is not     *)
(* blamed for the response it still owed (Session.cancel).                 *)
CancelledOwesNothing == \A y \in aborted : err[y] # "unanswered"

(* A session is over a journal that holds every entry the store has        *)
(* recorded of it, though only the last one is looked for (verify).        *)
JournalHolds ==
    route # "off" => \A i \in DOMAIN Records :
      \A k \in DOMAIN Records[i].entries : Holds(Records[i].entries[k])

(* An exchange that was opened ends, or the process does (Send, route).    *)
ExchangesEnd ==
    \A y \in Exchanges :
      send[y] \notin {"idle", "failed", "lost"} ~> y \in final \/ send[y] \in {"failed", "lost"}

(* A cancellation comes to its end, and with it the wait of the next Send. *)
CancelsEnd == cancelling # None ~> cancelling = None
=============================================================================
