----------------------------- MODULE SessionProofs -----------------------------
(***************************************************************************)
(* The types of a session; that it keeps its exchanges apart; that an      *)
(* exchange is recorded once, and by the time its end is seen; that a      *)
(* record names exactly the entries of its exchange's run, or none; and    *)
(* that a session is over a journal that holds every entry on record.      *)
(* All for every number of exchanges, round trips, entries, failures,      *)
(* crashes, losses and openings.                                           *)
(***************************************************************************)
EXTENDS SessionProperties, SequenceTheorems, WellFoundedInduction, TLAPS

(* What the types rest on: a cancellation has round trips left before it   *)
(* begins one, the cursor names an entry the journal holds, and route      *)
(* carries an exchange between taking its end and pushing it; no call of   *)
(* Send goes on without a session.                                         *)
TripsLeft ==
    \A y \in Exchanges : hook[y] \in {"none", "mark", "call"} => trip[y] < Trips
CursorHeld == cursor # NoEntry => route # "off" /\ Holds(cursor)
Asleep == route = "off" => \A y \in Exchanges : send[y] \in {"idle", "failed", "lost"}
RouteCarries == route \notin {"off", "next", "done"} => rx \in Exchanges
TypeInv == TypeOK /\ TripsLeft /\ CursorHeld /\ RouteCarries /\ Asleep

USE NoneAssumption, AsksAssumption, TripsAssumption, LimitsAssumption
USE DEF vars, sessionVars, routeVars, callVars, exchangeVars, storeVars, harnessVars,
        boundVars, None, NoEntry, NoEvent

(* The journal's newest entry is one of its own, and Since is a sequence   *)
(* of its entries whose last one is the journal's newest.                  *)
LEMMA NewestHeld ==
  ASSUME NEW j \in Seq(Entry)
  PROVE  /\ Newest(j) \in Entry \union {NoEntry}
         /\ j # <<>> => Newest(j) \in Entry /\ \E i \in DOMAIN j : j[i] = Newest(j)
BY DEF Newest

LEMMA NewestHolds ==
  ASSUME journal \in Seq(Entry), Newest(journal) # NoEntry
  PROVE  Holds(Newest(journal))
BY NewestHeld DEF Newest, Holds

LEMMA Suffix ==
  ASSUME NEW q \in Seq(Entry), NEW i \in DOMAIN q
  PROVE  LET s == SubSeq(q, 1 + i, Len(q))
         IN  s \in Seq(Entry) /\ (s # <<>> => s[Len(s)] = q[Len(q)] /\ Len(q) \in DOMAIN q)
<1> DEFINE s == SubSeq(q, 1 + i, Len(q))
<1>1. i \in 1 .. Len(q) /\ Len(q) \in Nat /\ DOMAIN q = 1 .. Len(q)
  BY LenProperties
<1>2. \A k \in 1 + i .. Len(q) : q[k] \in Entry
  BY <1>1, ElementOfSeq
<1>3. s \in Seq(Entry)
  BY <1>1, <1>2, SubSeqProperties
<1>4. CASE i = Len(q)
  BY <1>1, <1>3, <1>4, SubSeqEmpty
<1>5. CASE i < Len(q)
  <2>1. Len(s) = Len(q) - i /\ \A k \in 1 .. Len(q) - i : s[k] = q[i + k]
    BY <1>1, <1>2, <1>5, SubSeqProperties
  <2>2. Len(q) - i \in 1 .. Len(q) - i /\ i + (Len(q) - i) = Len(q)
    BY <1>1, <1>5
  <2>3. s[Len(s)] = q[Len(q)]
    BY <2>1, <2>2
  <2> QED
    BY <1>1, <1>3, <2>3
<1> QED
  BY <1>1, <1>4, <1>5

LEMMA SinceType ==
  ASSUME journal \in Seq(Entry), NEW c \in Entry \union {NoEntry}, c # NoEntry => Holds(c)
  PROVE  /\ Since(c) \in Seq(Entry)
         /\ Since(c) # <<>> => Holds(Newest(Since(c)))
<1>1. CASE c = NoEntry
  BY <1>1, NewestHeld DEF Since, Holds
<1>2. CASE c # NoEntry
  <2> DEFINE i == CHOOSE i \in DOMAIN journal : journal[i] = c
             s == SubSeq(journal, 1 + i, Len(journal))
  <2>1. i \in DOMAIN journal
    BY <1>2 DEF Holds
  <2> HIDE DEF i
  <2>2. /\ s \in Seq(Entry)
        /\ s # <<>> => s[Len(s)] = journal[Len(journal)] /\ Len(journal) \in DOMAIN journal
    BY <2>1, Suffix
  <2>3. Since(c) = s
    BY <1>2 DEF Since, i
  <2> HIDE DEF s
  <2> QED
    BY <2>2, <2>3 DEF Newest, Holds
<1> QED
  BY <1>1, <1>2

-----------------------------------------------------------------------------
(* Types.                                                                  *)

(* A part of the types whose variables do not change. *)
LEMMA KeptTypes ==
  ASSUME TypeInv
  PROVE  /\ UNCHANGED <<sessionVars, closed>> => SessionType'
         /\ UNCHANGED routeVars => RouteType' /\ RouteCarries'
         /\ UNCHANGED callVars => CallType' /\ TripsLeft'
         /\ UNCHANGED exchangeVars => ExchangeType'
         /\ UNCHANGED storeVars => StoreType'
         /\ UNCHANGED harnessVars => HarnessType'
         /\ UNCHANGED boundVars => BoundType'
         /\ UNCHANGED <<cursor, route, journal>> => CursorHeld'
         /\ UNCHANGED <<route, send>> => Asleep'
<1> USE DEF TypeInv, TypeOK
<1>1. UNCHANGED <<sessionVars, closed>> => SessionType'
  BY DEF SessionType
<1>2. UNCHANGED routeVars => RouteType' /\ RouteCarries'
  BY DEF RouteType, RouteCarries
<1>3. UNCHANGED callVars => CallType' /\ TripsLeft'
  BY DEF CallType, TripsLeft
<1>4. UNCHANGED exchangeVars => ExchangeType'
  BY DEF ExchangeType
<1>5. UNCHANGED storeVars => StoreType'
  BY DEF StoreType
<1>6. UNCHANGED harnessVars => HarnessType'
  BY DEF HarnessType
<1>7. UNCHANGED boundVars => BoundType'
  BY DEF BoundType
<1>8. UNCHANGED <<cursor, route, journal>> => CursorHeld'
  BY DEF CursorHeld, Holds
<1>9. UNCHANGED <<route, send>> => Asleep'
  BY DEF Asleep
<1> QED
  BY <1>1, <1>2, <1>3, <1>4, <1>5, <1>6, <1>7, <1>8, <1>9

(* What the lines and the events written are. *)
LEMMA WrittenType ==
  /\ \A k \in {"prompt", "message", "clear", "abort"}, y \in Exchanges : [kind |-> k, x |-> y] \in Line
  /\ \A k \in {"structured", "error", "cancelled", "ended"}, y \in Exchanges :
       [kind |-> k, x |-> y] \in RunEvent
  /\ <<>> \in Seq(Line) /\ <<>> \in Seq(RunEvent) /\ <<>> \in Seq(Entry)
  /\ \A q \in Seq(Line), e \in Line : Append(q, e) \in Seq(Line)
  /\ \A q \in Seq(RunEvent), e \in RunEvent : Append(q, e) \in Seq(RunEvent)
  /\ \A q \in Seq(Entry), e \in Entry : Append(q, e) \in Seq(Entry)
  /\ \A q \in Seq(Line) : q # <<>> => Head(q) \in Line /\ Tail(q) \in Seq(Line)
<1>1. /\ \A k \in {"prompt", "message", "clear", "abort"}, y \in Exchanges : [kind |-> k, x |-> y] \in Line
      /\ \A k \in {"structured", "error", "cancelled", "ended"}, y \in Exchanges :
           [kind |-> k, x |-> y] \in RunEvent
  BY DEF Line, RunEvent
<1>2. <<>> \in Seq(Line) /\ <<>> \in Seq(RunEvent) /\ <<>> \in Seq(Entry)
  BY EmptySeq
<1>3. /\ \A q \in Seq(Line), e \in Line : Append(q, e) \in Seq(Line)
      /\ \A q \in Seq(RunEvent), e \in RunEvent : Append(q, e) \in Seq(RunEvent)
      /\ \A q \in Seq(Entry), e \in Entry : Append(q, e) \in Seq(Entry)
  OBVIOUS
<1>4. \A q \in Seq(Line) : q # <<>> => Head(q) \in Line /\ Tail(q) \in Seq(Line)
  BY HeadTailProperties
<1> QED
  BY <1>1, <1>2, <1>3, <1>4

LEMMA PartType ==
  ASSUME StoreType, NEW y \in Exchanges, NEW entries \in Seq(Entry),
         PutLine(RecordOf(y, entries)) \/ PutPart(RecordOf(y, entries))
  PROVE  records' \in Seq(Record \union {Garbage}) /\ rest' \in Seq(Record \union {Garbage})
<1> DEFINE L == Record \union {Garbage}
           rec == RecordOf(y, entries)
<1>1. rec \in L /\ Garbage \in L
  BY DEF RecordOf, Record
<1> HIDE DEF rec, L
<1>2. records \in Seq(L) /\ rest \in Seq(L)
  BY DEF StoreType, L
<1>3. PutLine(rec) => records' \in Seq(L) /\ rest' \in Seq(L)
  BY <1>1, <1>2 DEF PutLine
<1>4. <<rec>> \in Seq(L) /\ <<Garbage>> \in Seq(L) /\ <<>> \in Seq(L)
  BY <1>1
<1>5. PutPart(rec) => records' \in Seq(L) /\ rest' \in Seq(L)
  BY <1>2, <1>3, <1>4 DEF PutPart
<1> QED
  BY <1>3, <1>5 DEF rec, L

LEMMA StoredType ==
  ASSUME TypeInv, NEW y \in Exchanges, NEW entries \in Seq(Entry), Stored(y, entries)
  PROVE  StoreType' /\ ExchangeType' /\ (faults' \in 0 .. MaxFaults)
<1>1. StoreType'
  BY PartType DEF Stored, TypeInv, TypeOK, StoreType
<1>2. faults' \in 0 .. MaxFaults
  BY DEF Stored, Faulty, TypeInv, TypeOK, BoundType
<1>3. ExchangeType'
  BY DEF Stored, PushErr, FirstErr, Error, TypeInv, TypeOK, ExchangeType
<1> QED
  BY <1>1, <1>2, <1>3

(* The calls of Send. *)
LEMMA SendTypes ==
  ASSUME TypeInv, NEW y \in Exchanges, Send(y) \/ GiveUp(y) \/ SendNext(y)
  PROVE  TypeInv'
<1> USE DEF TypeInv, TypeOK
<1>1. CASE Send(y)
  <2>1. SessionType'
    BY <1>1 DEF Send, SessionType, Entry
  <2>2. CallType' /\ TripsLeft'
    BY <1>1 DEF Send, CallType, TripsLeft, SendPC, HookPC, Goto, Hook
  <2>3. Asleep'
    BY <1>1 DEF Send, Asleep, Goto, CallType
  <2> QED
    BY <1>1, <2>1, <2>2, <2>3, KeptTypes DEF Send
<1>2. CASE GiveUp(y)
  <2>1. CallType' /\ TripsLeft'
    BY <1>2 DEF GiveUp, CallType, TripsLeft, SendPC, HookPC, Goto, Hook
  <2>2. Asleep'
    BY <1>2 DEF GiveUp, Asleep, Goto, CallType
  <2> QED
    BY <1>2, <2>1, <2>2, KeptTypes DEF GiveUp
<1>3. CASE ResyncCursor(y)
  <2>1. SessionType'
    BY <1>3, NewestHeld DEF ResyncCursor, SessionType, Entry, HarnessType
  <2>2. CallType' /\ TripsLeft'
    BY <1>3 DEF ResyncCursor, CallType, TripsLeft, SendPC, HookPC, Goto, Hook
  <2>3. BoundType'
    BY <1>3 DEF ResyncCursor, BoundType, Faulty, CallFails
  <2>4. CursorHeld'
    <3>1. route' = route /\ journal' = journal /\ route # "off"
      BY <1>3 DEF ResyncCursor, Asleep
    <3>2. cursor' = Newest(journal) \/ cursor' = cursor
      BY <1>3 DEF ResyncCursor
    <3>3. cursor' # NoEntry => Holds(cursor')
      BY <3>2, NewestHolds DEF CursorHeld, HarnessType
    <3> QED
      BY <3>1, <3>3 DEF CursorHeld, Holds
  <2>5. Asleep'
    BY <1>3 DEF ResyncCursor, Asleep, Goto, CallType
  <2> QED
    BY <1>3, <2>1, <2>2, <2>3, <2>4, <2>5, KeptTypes DEF ResyncCursor
<1>4. CASE Prompt(y)
  <2>1. CallType' /\ TripsLeft'
    BY <1>4 DEF Prompt, CallType, TripsLeft, SendPC, HookPC, Goto, Hook
  <2>2. HarnessType'
    <3>1. inbox \in Seq(Line)
      BY DEF HarnessType
    <3>2. [kind |-> "prompt", x |-> y] \in Line /\ [kind |-> "message", x |-> y] \in Line
      BY WrittenType
    <3>3. \/ inbox' = inbox
          \/ inbox' = Append(inbox, [kind |-> "prompt", x |-> y])
          \/ inbox' = Append(inbox, [kind |-> "message", x |-> y])
      BY <1>4 DEF Prompt, Write
    <3>4. inbox' \in Seq(Line)
      BY <3>1, <3>2, <3>3
    <3> QED
      BY <1>4, <3>4 DEF Prompt, HarnessType
  <2>3. BoundType'
    BY <1>4 DEF Prompt, BoundType, Faulty, CallFails
  <2>4. Asleep'
    BY <1>4 DEF Prompt, Asleep, Goto, CallType
  <2> QED
    BY <1>4, <2>1, <2>2, <2>3, <2>4, KeptTypes DEF Prompt
<1>5. CASE Prompted(y)
  <2>1. CallType' /\ TripsLeft'
    BY <1>5 DEF Prompted, CallType, TripsLeft, SendPC, HookPC, Goto, Hook
  <2>2. HarnessType'
    BY <1>5, WrittenType DEF Prompted, HarnessType, Reply, Write
  <2>3. Asleep'
    BY <1>5 DEF Prompted, Asleep, Goto, CallType
  <2> QED
    BY <1>5, <2>1, <2>2, <2>3, KeptTypes DEF Prompted
<1>6. CASE SendFails(y)
  <2>1. SessionType'
    BY <1>6 DEF SendFails, SessionType, Entry
  <2>2. CallType' /\ TripsLeft'
    BY <1>6 DEF SendFails, CallType, TripsLeft, SendPC, HookPC, Goto, Hook
  <2>3. Asleep'
    BY <1>6 DEF SendFails, Asleep, Goto, CallType
  <2> QED
    BY <1>6, <2>1, <2>2, <2>3, KeptTypes DEF SendFails
<1>7. CASE FailSend(y)
  <2>1. CallType' /\ TripsLeft'
    BY <1>7 DEF FailSend, CallType, TripsLeft, SendPC, HookPC, Goto, Hook
  <2>2. ExchangeType'
    BY <1>7 DEF FailSend, ExchangeType, Error, FirstErr, FailExchange
  <2>3. Asleep'
    BY <1>7 DEF FailSend, Asleep, Goto, CallType
  <2> QED
    BY <1>7, <2>1, <2>2, <2>3, KeptTypes DEF FailSend
<1> QED
  BY <1>1, <1>2, <1>3, <1>4, <1>5, <1>6, <1>7 DEF SendNext

(* A cancellation. *)
LEMMA CancelTypes ==
  ASSUME TypeInv, NEW y \in Exchanges, Cancel(y) \/ CancelNext(y)
  PROVE  TypeInv'
<1> USE DEF TypeInv, TypeOK
<1>1. CASE Cancel(y)
  <2>1. SessionType'
    BY <1>1 DEF Cancel, SessionType, Entry
  <2>2. CallType' /\ TripsLeft'
    BY <1>1 DEF Cancel, CallType, TripsLeft, SendPC, HookPC, Goto, Hook
  <2> QED
    BY <1>1, <2>1, <2>2, KeptTypes DEF Cancel
<1>2. CASE MarkCancelled(y)
  <2>1. CallType' /\ TripsLeft'
    BY <1>2 DEF MarkCancelled, CallType, TripsLeft, SendPC, HookPC, Goto, Hook
  <2>2. ExchangeType'
    BY <1>2 DEF MarkCancelled, ExchangeType, Error, FirstErr, Marked
  <2> QED
    BY <1>2, <2>1, <2>2, KeptTypes DEF MarkCancelled
<1>3. CASE CallCancel(y)
  <2>1. CallType' /\ TripsLeft'
    BY <1>3 DEF CallCancel, CallType, TripsLeft, SendPC, HookPC, Goto, Hook
  <2> DEFINE k == IF trip'[y] = Trips THEN "abort" ELSE "clear"
  <2>2. HarnessType'
    <3>1. [kind |-> k, x |-> y] \in Line
      BY WrittenType
    <3>2. inbox' \in {inbox, Append(inbox, [kind |-> k, x |-> y])}
      BY <1>3 DEF CallCancel, Write
    <3> HIDE DEF k
    <3>3. inbox \in Seq(Line)
      BY DEF HarnessType
    <3>4. inbox' \in Seq(Line)
      BY <3>1, <3>2, <3>3
    <3> QED
      BY <1>3, <3>4 DEF CallCancel, HarnessType
  <2> QED
    BY <1>3, <2>1, <2>2, KeptTypes DEF CallCancel
<1>4. CASE CancelReturns(y)
  <2>1. CallType' /\ TripsLeft'
    BY <1>4 DEF CancelReturns, CallType, TripsLeft, SendPC, HookPC, Goto, Hook, LastTrip
  <2> QED
    BY <1>4, <2>1, KeptTypes DEF CancelReturns
<1>5. CASE CancelFails(y)
  <2>1. CallType' /\ TripsLeft'
    BY <1>5 DEF CancelFails, CallType, TripsLeft, SendPC, HookPC, Goto, Hook
  <2>2. ExchangeType'
    BY <1>5 DEF CancelFails, ExchangeType, Error, FirstErr, PushErr
  <2> QED
    BY <1>5, <2>1, <2>2, KeptTypes DEF CancelFails
<1>6. CASE CancelOver(y)
  <2>1. SessionType'
    BY <1>6 DEF CancelOver, SessionType, Entry, Over
  <2>2. CallType' /\ TripsLeft'
    BY <1>6 DEF CancelOver, CallType, TripsLeft, SendPC, HookPC, Goto, Hook
  <2> QED
    BY <1>6, <2>1, <2>2, KeptTypes DEF CancelOver
<1> QED
  BY <1>1, <1>2, <1>3, <1>4, <1>5, <1>6 DEF CancelNext

(* The goroutine route. *)
LEMMA RouteTypes ==
  ASSUME TypeInv, RouteNext
  PROVE  TypeInv'
<1> USE DEF TypeInv, TypeOK
<1>1. CASE RouteTakes
  <2>1. SessionType'
    BY <1>1 DEF RouteTakes, SessionType, Entry
  <2>2. RouteType' /\ RouteCarries'
    BY <1>1 DEF RouteTakes, RouteType, RouteCarries, RoutePC, SessionType, HarnessType
  <2>3. HarnessType'
    BY <1>1, WrittenType DEF RouteTakes, HarnessType, Reply, Write
  <2>4. CursorHeld'
    BY <1>1 DEF RouteTakes, CursorHeld, Holds
  <2>5. Asleep'
    BY <1>1 DEF RouteTakes, Asleep
  <2> QED
    BY <1>1, <2>1, <2>2, <2>3, <2>4, <2>5, KeptTypes DEF RouteTakes
<1>2. CASE RouteUnanswered
  <2>1. RouteType' /\ RouteCarries'
    BY <1>2 DEF RouteUnanswered, RouteType, RouteCarries, RoutePC
  <2>2. ExchangeType'
    BY <1>2 DEF RouteUnanswered, ExchangeType, Error, FirstErr, PushErr
  <2>3. CursorHeld'
    BY <1>2 DEF RouteUnanswered, CursorHeld, Holds
  <2>4. Asleep'
    BY <1>2 DEF RouteUnanswered, Asleep
  <2> QED
    BY <1>2, <2>1, <2>2, <2>3, <2>4, KeptTypes DEF RouteUnanswered
<1>3. CASE Bind
  <2>1. SessionType'
    BY <1>3, SinceType, NewestHeld
    DEF Bind, SessionType, Entry, HarnessType, CursorHeld, CursorStale
  <2>2. RouteType' /\ RouteCarries'
    BY <1>3, SinceType, WrittenType
    DEF Bind, RouteType, RouteCarries, RoutePC, HarnessType, SessionType, CursorHeld
  <2>3. ExchangeType'
    BY <1>3 DEF Bind, ExchangeType, Error, FirstErr
  <2>4. BoundType'
    BY <1>3 DEF Bind, BoundType, Faulty, CallFails
  <2>5. CursorHeld'
    BY <1>3, SinceType DEF Bind, CursorHeld, Holds, HarnessType, SessionType, CursorStale
  <2>6. Asleep'
    BY <1>3 DEF Bind, Asleep
  <2> QED
    BY <1>3, <2>1, <2>2, <2>3, <2>4, <2>5, <2>6, KeptTypes DEF Bind
<1>4. CASE Put
  <2>1. RouteType' /\ RouteCarries'
    BY <1>4 DEF Put, RouteType, RouteCarries, RoutePC
  <2>2. ExchangeType'
    BY <1>4, StoredType DEF Put, ExchangeType, Error, FirstErr, RouteType, RouteCarries
  <2>3. StoreType'
    BY <1>4, StoredType DEF Put, StoreType, RouteType, RouteCarries
  <2>4. BoundType'
    BY <1>4, StoredType DEF Put, BoundType, Faulty, CallFails, RouteType, RouteCarries
  <2>5. CursorHeld'
    BY <1>4 DEF Put, CursorHeld, Holds
  <2>6. Asleep'
    BY <1>4 DEF Put, Asleep
  <2> QED
    BY <1>4, <2>1, <2>2, <2>3, <2>4, <2>5, <2>6, KeptTypes DEF Put
<1>5. CASE Release
  <2>1. SessionType'
    BY <1>5 DEF Release, SessionType, Entry
  <2>2. RouteType' /\ RouteCarries'
    BY <1>5 DEF Release, RouteType, RouteCarries, RoutePC
  <2>3. CursorHeld'
    BY <1>5 DEF Release, CursorHeld, Holds
  <2>4. Asleep'
    BY <1>5 DEF Release, Asleep
  <2> QED
    BY <1>5, <2>1, <2>2, <2>3, <2>4, KeptTypes DEF Release
<1>6. CASE RoutePushes
  <2>1. RouteType' /\ RouteCarries'
    BY <1>6 DEF RoutePushes, RouteType, RouteCarries, RoutePC
  <2>2. ExchangeType'
    BY <1>6 DEF RoutePushes, ExchangeType, Error, FirstErr, Push, RouteType, RouteCarries
  <2>3. CursorHeld'
    BY <1>6 DEF RoutePushes, CursorHeld, Holds
  <2>4. Asleep'
    BY <1>6 DEF RoutePushes, Asleep
  <2> QED
    BY <1>6, <2>1, <2>2, <2>3, <2>4, KeptTypes DEF RoutePushes
<1>7. CASE RouteExits
  <2>1. SessionType'
    BY <1>7 DEF RouteExits, SessionType, Entry
  <2>2. RouteType' /\ RouteCarries'
    BY <1>7 DEF RouteExits, RouteType, RouteCarries, RoutePC, AtExit, SessionType
  <2>3. HarnessType'
    BY <1>7, WrittenType DEF RouteExits, HarnessType, Reply, Write
  <2>4. CursorHeld'
    BY <1>7 DEF RouteExits, CursorHeld, Holds
  <2>5. Asleep'
    BY <1>7 DEF RouteExits, Asleep
  <2> QED
    BY <1>7, <2>1, <2>2, <2>3, <2>4, <2>5, KeptTypes DEF RouteExits
<1>8. CASE ExitPut
  <2>1. RouteType' /\ RouteCarries'
    BY <1>8 DEF ExitPut, RouteType, RouteCarries, RoutePC
  <2>2. ExchangeType'
    BY <1>8, StoredType, EmptySeq
    DEF ExitPut, ExchangeType, Error, FirstErr, ExitRecorded, RouteCarries
  <2>3. StoreType'
    BY <1>8, StoredType, EmptySeq DEF ExitPut, StoreType, ExitRecorded, RouteCarries
  <2>4. BoundType'
    BY <1>8, StoredType, EmptySeq
    DEF ExitPut, BoundType, Faulty, CallFails, ExitRecorded, RouteCarries
  <2>5. CursorHeld'
    BY <1>8 DEF ExitPut, CursorHeld, Holds
  <2>6. Asleep'
    BY <1>8 DEF ExitPut, Asleep
  <2> QED
    BY <1>8, <2>1, <2>2, <2>3, <2>4, <2>5, <2>6, KeptTypes DEF ExitPut
<1>9. CASE ExitFail
  <2>1. RouteType' /\ RouteCarries'
    BY <1>9 DEF ExitFail, RouteType, RouteCarries, RoutePC
  <2>2. ExchangeType'
    BY <1>9 DEF ExitFail, ExchangeType, Error, FirstErr, FailExchange, RouteCarries
  <2>3. CursorHeld'
    BY <1>9 DEF ExitFail, CursorHeld, Holds
  <2>4. Asleep'
    BY <1>9 DEF ExitFail, Asleep
  <2> QED
    BY <1>9, <2>1, <2>2, <2>3, <2>4, KeptTypes DEF ExitFail
<1> QED
  BY <1>1, <1>2, <1>3, <1>4, <1>5, <1>6, <1>7, <1>8, <1>9 DEF RouteNext

(* The harness. *)
LEMMA HarnessTypes ==
  ASSUME TypeInv, HarnessNext
  PROVE  TypeInv'
<1> USE DEF TypeInv, TypeOK
<1>1. CASE HarnessReads
  <2>1. HarnessType'
    <3>1. /\ Head(inbox) \in Line /\ Tail(inbox) \in Seq(Line)
          /\ Head(inbox).x \in Exchanges
      BY <1>1, WrittenType DEF HarnessReads, HarnessType, Line
    <3> QED
      BY <1>1, <3>1 DEF HarnessReads, HarnessType, Reply
  <2> QED
    BY <1>1, <2>1, KeptTypes DEF HarnessReads
<1>2. CASE HarnessAppends
  <2>1. HarnessType'
    <3>1. running \in Exchanges /\ appended'[running] \in 1 .. MaxEntries
      BY <1>2 DEF HarnessAppends, HarnessType
    <3>2. <<running, appended'[running]>> \in Entry
      BY <3>1 DEF Entry
    <3>3. journal' \in Seq(Entry)
      BY <1>2, <3>2, WrittenType DEF HarnessAppends, HarnessType
    <3> QED
      BY <1>2, <3>1, <3>3 DEF HarnessAppends, HarnessType
  <2>2. CursorHeld'
    <3>1. \A i \in DOMAIN journal : i \in DOMAIN journal' /\ journal'[i] = journal[i]
      BY <1>2, LenProperties, AppendProperties DEF HarnessAppends, HarnessType
    <3> QED
      BY <1>2, <3>1 DEF HarnessAppends, CursorHeld, Holds
  <2> QED
    BY <1>2, <2>1, <2>2, KeptTypes DEF HarnessAppends
<1>3. CASE HarnessTells
  <2>1. HarnessType'
    BY <1>3, WrittenType DEF HarnessTells, HarnessType, Reply, Write
  <2> QED
    BY <1>3, <2>1, KeptTypes DEF HarnessTells
<1>4. CASE HarnessEnds
  <2>1. HarnessType'
    BY <1>4, WrittenType DEF HarnessEnds, HarnessType, Reply, Write
  <2> QED
    BY <1>4, <2>1, KeptTypes DEF HarnessEnds
<1>5. CASE HarnessExits
  <2>1. HarnessType'
    BY <1>5, WrittenType DEF HarnessExits, HarnessType, Reply, Write
  <2>2. BoundType'
    BY <1>5 DEF HarnessExits, BoundType, Faulty, CallFails
  <2> QED
    BY <1>5, <2>1, <2>2, KeptTypes DEF HarnessExits
<1> QED
  BY <1>1, <1>2, <1>3, <1>4, <1>5 DEF HarnessNext

(* The session's beginning and end, with or without the process's. *)
LEMMA ProcessTypes ==
  ASSUME TypeInv, Close \/ Leave \/ Crash \/ NewSession \/ JournalLoses
  PROVE  TypeInv'
<1> USE DEF TypeInv, TypeOK
<1>1. CASE Close
  <2>1. SessionType'
    BY <1>1 DEF Close, SessionType, Entry
  <2> QED
    BY <1>1, <2>1, KeptTypes DEF Close
<1>2. CASE Leave
  <2>1. SessionType'
    BY <1>2 DEF Leave, SessionType, Entry, Ends
  <2>2. RouteType' /\ RouteCarries'
    BY <1>2 DEF Leave, RouteType, RouteCarries, RoutePC, Ends
  <2>3. CallType' /\ TripsLeft'
    BY <1>2 DEF Leave, CallType, TripsLeft, SendPC, HookPC, Goto, Hook, Ends
  <2>4. ExchangeType'
    BY <1>2 DEF Leave, ExchangeType, Error, FirstErr, Ends
  <2>5. StoreType'
    BY <1>2 DEF Leave, StoreType, Ends
  <2>6. HarnessType'
    BY <1>2, WrittenType DEF Leave, HarnessType, Reply, Write, Ends
  <2>7. BoundType'
    BY <1>2 DEF Leave, BoundType, Faulty, CallFails, Ends
  <2>8. CursorHeld'
    BY <1>2 DEF Leave, CursorHeld, Holds, Ends
  <2>9. Asleep'
    BY <1>2 DEF Leave, Asleep, Ends, Gone
  <2> QED
    BY <1>2, <2>1, <2>2, <2>3, <2>4, <2>5, <2>6, <2>7, <2>8, <2>9, KeptTypes DEF Leave
<1>3. CASE Crash
  <2>1. SessionType'
    BY <1>3 DEF Crash, SessionType, Entry, Ends
  <2>2. RouteType' /\ RouteCarries'
    BY <1>3 DEF Crash, RouteType, RouteCarries, RoutePC, Ends
  <2>3. CallType' /\ TripsLeft'
    BY <1>3 DEF Crash, CallType, TripsLeft, SendPC, HookPC, Goto, Hook, Ends
  <2>4. ExchangeType'
    BY <1>3 DEF Crash, ExchangeType, Error, FirstErr, Ends
  <2>5. StoreType'
    BY <1>3, PartType DEF Crash, StoreType, Ends, RouteType, RouteCarries
  <2>6. HarnessType'
    BY <1>3, WrittenType DEF Crash, HarnessType, Reply, Write, Ends
  <2>7. BoundType'
    BY <1>3 DEF Crash, BoundType, Faulty, CallFails, Ends
  <2>8. CursorHeld'
    BY <1>3 DEF Crash, CursorHeld, Holds, Ends
  <2>9. Asleep'
    BY <1>3 DEF Crash, Asleep, Ends, Gone
  <2> QED
    BY <1>3, <2>1, <2>2, <2>3, <2>4, <2>5, <2>6, <2>7, <2>8, <2>9, KeptTypes DEF Crash
<1>4. CASE NewSession
  <2>1. SessionType'
    BY <1>4, NewestHeld DEF NewSession, SessionType, Entry, HarnessType
  <2>2. RouteType' /\ RouteCarries'
    BY <1>4 DEF NewSession, RouteType, RouteCarries, RoutePC
  <2>3. HarnessType'
    BY <1>4, WrittenType DEF NewSession, HarnessType, Reply, Write
  <2>4. BoundType'
    BY <1>4 DEF NewSession, BoundType, Faulty, CallFails
  <2>5. CursorHeld'
    BY <1>4, NewestHolds DEF NewSession, CursorHeld, Holds, HarnessType
  <2>6. Asleep'
    BY <1>4 DEF NewSession, Asleep
  <2> QED
    BY <1>4, <2>1, <2>2, <2>3, <2>4, <2>5, <2>6, KeptTypes DEF NewSession
<1>5. CASE JournalLoses
  <2>1. HarnessType'
    BY <1>5, WrittenType DEF JournalLoses, HarnessType, Reply, Write
  <2>2. BoundType'
    BY <1>5 DEF JournalLoses, BoundType, Faulty, CallFails
  <2>3. CursorHeld'
    BY <1>5 DEF JournalLoses, CursorHeld, Holds
  <2> QED
    BY <1>5, <2>1, <2>2, <2>3, KeptTypes DEF JournalLoses
<1> QED
  BY <1>1, <1>2, <1>3, <1>4, <1>5

LEMMA SessionTypes == Spec => []TypeInv
<1>1. Init => TypeInv
  <2> SUFFICES ASSUME Init PROVE TypeInv
    OBVIOUS
  <2> USE DEF Init
  <2>1. SessionType /\ BoundType
    <3>1. cursor \in Entry \union {NoEntry}
      OBVIOUS
    <3>2. BoundType
      BY DEF BoundType
    <3> QED
      BY <3>1, <3>2 DEF SessionType
  <2>6. CursorHeld /\ Asleep
    BY DEF CursorHeld, Asleep
  <2>2. RouteType /\ RouteCarries
    BY DEF RouteType, RouteCarries, RoutePC
  <2>3. CallType /\ TripsLeft
    BY DEF CallType, TripsLeft, SendPC, HookPC
  <2>4. ExchangeType /\ StoreType
    BY EmptySeq DEF ExchangeType, StoreType, Error
  <2>5. HarnessType
    <3>1. inbox \in Seq(Line) /\ outbox \in Seq(RunEvent) /\ journal \in Seq(Entry)
      BY WrittenType
    <3>2. reply \in [Exchanges -> Reply] /\ appended \in [Exchanges -> 0 .. MaxEntries]
      BY DEF Reply
    <3> QED
      BY <3>1, <3>2 DEF HarnessType
  <2> QED
    BY <2>1, <2>2, <2>3, <2>4, <2>5, <2>6 DEF TypeInv, TypeOK
<1>2. TypeInv /\ [Next]_vars => TypeInv'
  <2>1. TypeInv /\ UNCHANGED vars => TypeInv'
    BY KeptTypes DEF TypeInv, TypeOK
  <2> QED
    BY <2>1, SendTypes, CancelTypes, RouteTypes, HarnessTypes, ProcessTypes DEF Next, Terminated
<1> QED
  BY <1>1, <1>2, PTL DEF Spec

(* Every variable of a session has its type, whatever fails. *)
THEOREM SessionTypeCorrect == Spec => []TypeOK
<1>1. TypeInv => TypeOK
  BY DEF TypeInv
<1> QED
  BY <1>1, SessionTypes, PTL

-----------------------------------------------------------------------------
(* A session keeps its exchanges apart: an exchange gets the events of its *)
(* own run, a cancellation reaches no other exchange's, and none the       *)
(* harness stopped is blamed for a response it owed.                       *)


(* The inductive invariant.  What the harness has of an exchange, a prompt *)
(* to read, a run, or events, is the open one's, or the session is closed  *)
(* and opens no other.                                                     *)
IsPrompt(line) == line.kind \in {"prompt", "message"}
Quiet == running = None /\ outbox = <<>>
Idle == Quiet /\ \A i \in DOMAIN inbox : ~IsPrompt(inbox[i])
Owner(y) == open = y \/ (open = None /\ closed)

(* Send has not written the prompt of y, or not had its answer. *)
Before(y) == send[y] \in {"idle", "resync", "prompt"}
Early(y) == send[y] \in {"resync", "prompt"} \/ (send[y] = "asked" /\ reply[y] # "accepted")

(* One prompt is to be read at most, by a harness that has nothing else. *)
LinesOwn ==
    \A i \in DOMAIN inbox : IsPrompt(inbox[i]) =>
      /\ Owner(inbox[i].x) /\ Quiet
      /\ ~Before(inbox[i].x)
      /\ send[inbox[i].x] = "asked" => reply[inbox[i].x] = "none"
      /\ \A j \in DOMAIN inbox : IsPrompt(inbox[j]) => i = j

(* An end is the last event of a run. *)
RunOwn ==
    /\ running # None => Owner(running) /\ \A i \in DOMAIN outbox : outbox[i].kind # "ended"
    /\ \A i \in DOMAIN outbox : Owner(outbox[i].x) /\ (outbox[i].kind = "ended" => i = Len(outbox))

(* The harness has nothing of an exchange it has not accepted. *)
SendOwn(y) ==
    /\ Early(y) => (open = y \/ exited) /\ Quiet
    /\ Early(y) /\ ~(send[y] = "asked" /\ reply[y] = "none") => Idle
    /\ send[y] = "fail" => closed \/ exited \/ (open = y /\ Idle)
    /\ send[y] = "asked" => Asks
    /\ reply[y] # "none" => ~Before(y)
    /\ open = y => send[y] # "idle"
SendsOwn == \A y \in Exchanges : SendOwn(y)

(* While route ends an exchange the harness has nothing to do. *)
RouteOwn ==
    /\ EventsTheirOwn
    /\ route \in {"off", "next", "exitPut", "exitFail", "done"} => rev = NoEvent
    /\ route \in {"unanswered", "bind", "put", "release"} =>
         /\ rx \in Exchanges /\ Owner(rx) /\ Idle /\ ~Early(rx)
         /\ send[rx] # "idle" /\ (send[rx] = "fail" => closed)

EndsOwn ==
    /\ ~alive => inbox = <<>> /\ running = None
    /\ exited => ~alive /\ Idle /\ open = None
    /\ route = "off" =>
         /\ ~alive /\ ~exited /\ ~closed /\ outbox = <<>> /\ open = None /\ cancelling = None
         /\ \A y \in Exchanges : hook[y] = "none" /\ send[y] \in {"idle", "failed", "lost"}

(* The cancellation in flight is of the open exchange, or of the last one. *)
CancelsOwn ==
    /\ \A y \in Exchanges :
         hook[y] \in {"mark", "call", "await", "error", "clear"} => cancelling = y
    /\ cancelling # None => open \in {cancelling, None}
    /\ CancelReachesItsOwn

(* A cancellation is marked before the harness hears of it, and an         *)
(* exchange that was found to owe its response will not run again.         *)
MarksOwn ==
    /\ \A y \in Exchanges : hook[y] \in {"call", "await"} => y \in cancelled
    /\ \A i \in DOMAIN inbox : inbox[i].kind = "abort" => inbox[i].x \in cancelled
    /\ aborted \subseteq cancelled
    /\ \A y \in Exchanges : err[y] = "unanswered" =>
         /\ y \notin aborted /\ running # y /\ ~Before(y)
         /\ \A i \in DOMAIN inbox : IsPrompt(inbox[i]) => inbox[i].x # y

Apart == LinesOwn /\ RunOwn /\ SendsOwn /\ RouteOwn /\ EndsOwn /\ CancelsOwn /\ MarksOwn

USE DEF IsPrompt, Quiet, Idle, Owner, Before, Early, EventsTheirOwn, CancelReachesItsOwn

(* The types the proofs below rest on. *)
LEMMA Shapes ==
  ASSUME TypeInv
  PROVE  /\ open \in Exchanges \union {None} /\ cancelling \in Exchanges \union {None}
         /\ rx \in Exchanges \union {None} /\ rev \in RunEvent \union {NoEvent}
         /\ send \in [Exchanges -> SendPC] /\ hook \in [Exchanges -> HookPC]
         /\ err \in [Exchanges -> Error] /\ reply \in [Exchanges -> Reply]
         /\ inbox \in Seq(Line) /\ outbox \in Seq(RunEvent)
         /\ running \in Exchanges \union {None}
         /\ aborted \subseteq Exchanges /\ cancelled \subseteq Exchanges
BY DEF TypeInv, TypeOK, SessionType, RouteType, CallType, ExchangeType, HarnessType

LEMMA Elements ==
  ASSUME TypeInv
  PROVE  /\ \A i \in DOMAIN inbox : inbox[i].x \in Exchanges
         /\ \A i \in DOMAIN outbox : outbox[i].x \in Exchanges
         /\ outbox # <<>> => 1 \in DOMAIN outbox
<1>1. inbox \in Seq(Line) /\ outbox \in Seq(RunEvent)
  BY Shapes
<1>2. /\ \A i \in DOMAIN inbox : inbox[i] \in Line
      /\ \A i \in DOMAIN outbox : outbox[i] \in RunEvent
  BY <1>1
<1>3. outbox # <<>> => 1 \in DOMAIN outbox
  BY <1>1, EmptySeq, LenProperties
<1> QED
  BY <1>2, <1>3 DEF Line, RunEvent

(* A line written comes after the others. *)
WrittenTo(l) ==
    /\ DOMAIN inbox = 1 .. Len(inbox) /\ Len(inbox) \in Nat
    /\ DOMAIN inbox' = 1 .. Len(inbox) + 1 /\ inbox'[Len(inbox) + 1] = l
    /\ \A i \in 1 .. Len(inbox) : inbox'[i] = inbox[i]

LEMMA Written ==
  ASSUME TypeInv, NEW l \in Line, inbox' = Append(inbox, l)
  PROVE  WrittenTo(l)
<1>1. inbox \in Seq(Line)
  BY Shapes
<1>2. DOMAIN inbox = 1 .. Len(inbox) /\ Len(inbox) \in Nat
  BY <1>1, LenProperties
<1> QED
  BY <1>1, <1>2 DEF WrittenTo

(* A session that is not closed and has nothing open has an idle harness. *)
LEMMA NothingOpen ==
  ASSUME TypeInv, Apart, open = None, ~closed
  PROVE  Idle
BY Elements, Shapes DEF Apart, LinesOwn, RunOwn

(* A part of the invariant whose variables do not change. *)
LEMMA KeptApart ==
  ASSUME Apart
  PROVE  /\ UNCHANGED <<inbox, open, closed, running, outbox, send, reply>> => LinesOwn'
         /\ UNCHANGED <<running, open, closed, outbox>> => RunOwn'
         /\ UNCHANGED <<inbox, open, closed, running, outbox, send, reply, exited>> => SendsOwn'
         /\ UNCHANGED <<rx, rev, route, open, closed, running, outbox, inbox, send, reply>>
              => RouteOwn'
         /\ UNCHANGED <<alive, inbox, running, exited, outbox, open, route, closed, cancelling,
                         hook, send>> => EndsOwn'
         /\ UNCHANGED <<hook, cancelling, open, inbox, running>> => CancelsOwn'
         /\ UNCHANGED <<hook, cancelled, inbox, aborted, err, running, send>> => MarksOwn'
<1>1. UNCHANGED <<inbox, open, closed, running, outbox, send, reply>> => LinesOwn'
  BY DEF Apart, LinesOwn
<1>2. UNCHANGED <<running, open, closed, outbox>> => RunOwn'
  BY DEF Apart, RunOwn
<1>3. UNCHANGED <<inbox, open, closed, running, outbox, send, reply, exited>> => SendsOwn'
  BY DEF Apart, SendsOwn, SendOwn
<1>4. UNCHANGED <<rx, rev, route, open, closed, running, outbox, inbox, send, reply>> => RouteOwn'
  BY DEF Apart, RouteOwn, EventsTheirOwn
<1>5. UNCHANGED <<alive, inbox, running, exited, outbox, open, route, closed, cancelling,
                  hook, send>> => EndsOwn'
  BY DEF Apart, EndsOwn
<1>6. UNCHANGED <<hook, cancelling, open, inbox, running>> => CancelsOwn'
  BY DEF Apart, CancelsOwn, CancelReachesItsOwn
<1>7. UNCHANGED <<hook, cancelled, inbox, aborted, err, running, send>> => MarksOwn'
  BY DEF Apart, MarksOwn
<1> QED
  BY <1>1, <1>2, <1>3, <1>4, <1>5, <1>6, <1>7

(* The calls of Send. *)
LEMMA SendApart ==
  ASSUME TypeInv, Apart, NEW y \in Exchanges, Send(y) \/ GiveUp(y) \/ SendNext(y)
  PROVE  Apart'
<1> USE DEF Apart
<1>1. CASE Send(y)
  <2>0. ASSUME open' = y PROVE LinesOwn' /\ RunOwn' /\ SendsOwn'
    <3>0. ~exited /\ ~closed /\ open = None /\ send[y] = "idle"
          /\ send' \in {[send EXCEPT ![y] = "resync"], [send EXCEPT ![y] = "prompt"]}
      BY <1>1, <2>0 DEF Send, Goto, SendsOwn, SendOwn
    <3>1. Idle
      BY <3>0, NothingOpen
    <3>2. LinesOwn'
      BY <1>1, <3>1 DEF Send, LinesOwn
    <3>3. RunOwn'
      BY <1>1, <3>1 DEF Send, RunOwn
    <3>4. SendsOwn'
      <4>1. \A z \in Exchanges : ~Early(z) /\ send[z] # "fail"
        BY <3>0, Shapes DEF SendsOwn, SendOwn
      <4>2. \A z \in Exchanges : z # y => send'[z] = send[z]
        BY <3>0, Shapes
      <4>3. send'[y] \in {"resync", "prompt"} /\ reply[y] = "none"
        BY <3>0, Shapes DEF SendsOwn, SendOwn
      <4>4. UNCHANGED <<running, inbox, outbox, exited, closed, reply>>
        BY <1>1 DEF Send
      <4>5. Idle'
        BY <3>1, <4>4
      <4>6. \A z \in Exchanges : Early(z)' => z = y
        BY <4>1, <4>2, <4>4
      <4>7. \A z \in Exchanges :
             (send'[z] = "fail" => FALSE) /\ (send'[z] = "asked" => Asks) /\ (reply[z] # "none" => ~Before(z)')
        BY <4>1, <4>2, <4>3 DEF SendsOwn, SendOwn
      <4>8. SendOwn(y)'
        BY <2>0, <4>3, <4>4, <4>5 DEF SendOwn
      <4>9. \A z \in Exchanges : z # y => SendOwn(z)'
        BY <2>0, <4>4, <4>6, <4>7 DEF SendOwn
      <4> QED
        BY <4>8, <4>9 DEF SendsOwn
    <3> QED
      BY <3>2, <3>3, <3>4
  <2>w. ASSUME open' # y PROVE LinesOwn' /\ RunOwn' /\ SendsOwn'
    <3>1. open' = open /\ send' = [send EXCEPT ![y] = "failed"]
      BY <1>1, <2>w DEF Send, Goto
    <3>2. LinesOwn'
      BY <1>1, <3>1, Shapes DEF Send, LinesOwn
    <3>3. RunOwn'
      BY <1>1, <3>1 DEF Send, RunOwn
    <3>4. SendsOwn'
      <4>1. UNCHANGED <<running, inbox, outbox, exited, closed, reply>> /\ Before(y)
        BY <1>1 DEF Send
      <4>2. SendOwn(y)'
        BY <3>1, <4>1, Shapes DEF SendsOwn, SendOwn
      <4>3. \A z \in Exchanges : z # y => SendOwn(z)'
        BY <3>1, <4>1, Shapes DEF SendsOwn, SendOwn
      <4> QED
        BY <4>2, <4>3 DEF SendsOwn
    <3> QED
      BY <3>2, <3>3, <3>4
  <2>1. LinesOwn'
    BY <2>0, <2>w
  <2>2. RunOwn'
    BY <2>0, <2>w
  <2>3. SendsOwn'
    BY <2>0, <2>w
  <2>4. RouteOwn'
    BY <1>1, Shapes DEF Send, Goto, Uncontested, RouteOwn
  <2>5. EndsOwn'
    BY <1>1 DEF Send, Goto, Uncontested, EndsOwn
  <2>6. CancelsOwn'
    BY <1>1 DEF Send, Goto, Uncontested, CancelsOwn
  <2>7. MarksOwn'
    BY <1>1, Shapes DEF Send, Goto, Uncontested, MarksOwn
  <2> QED
    BY <1>1, <2>1, <2>2, <2>3, <2>4, <2>5, <2>6, <2>7, KeptApart DEF Send
<1>2. CASE GiveUp(y)
  <2>1. LinesOwn'
    BY <1>2 DEF GiveUp, Goto, LinesOwn
  <2>2. SendsOwn'
    BY <1>2 DEF GiveUp, Goto, SendsOwn, SendOwn
  <2>3. RouteOwn'
    BY <1>2 DEF GiveUp, Goto, RouteOwn
  <2>4. EndsOwn'
    BY <1>2 DEF GiveUp, Goto, EndsOwn
  <2>5. MarksOwn'
    BY <1>2 DEF GiveUp, Goto, MarksOwn
  <2> QED
    BY <1>2, <2>1, <2>2, <2>3, <2>4, <2>5, KeptApart DEF GiveUp
<1>3. CASE ResyncCursor(y)
  <2>1. LinesOwn'
    BY <1>3, Shapes DEF ResyncCursor, Goto, LinesOwn, SendsOwn, SendOwn
  <2>2. SendsOwn'
    BY <1>3, Shapes DEF ResyncCursor, Goto, SendsOwn, SendOwn
  <2>3. RouteOwn'
    BY <1>3, Shapes DEF ResyncCursor, Goto, RouteOwn
  <2>4. EndsOwn'
    BY <1>3 DEF ResyncCursor, Goto, EndsOwn
  <2>5. MarksOwn'
    BY <1>3, Shapes DEF ResyncCursor, Goto, MarksOwn
  <2> QED
    BY <1>3, <2>1, <2>2, <2>3, <2>4, <2>5, KeptApart DEF ResyncCursor
<1>4. CASE Prompt(y)
  <2> DEFINE l == [kind |-> IF Asks THEN "prompt" ELSE "message", x |-> y]
  <2>0. ASSUME inbox' = inbox PROVE LinesOwn' /\ CancelsOwn' /\ MarksOwn'
    <3>1. LinesOwn'
      BY <1>4, <2>0, Shapes DEF Prompt, Goto, LinesOwn, SendsOwn, SendOwn
    <3>2. MarksOwn'
      <4>1. /\ UNCHANGED <<hook, cancelled, aborted, err, running>>
            /\ \E p \in {"fail", "asked", "sent"} : send' = [send EXCEPT ![y] = p]
        BY <1>4 DEF Prompt, Goto
      <4> QED
        BY <2>0, <4>1, Shapes DEF MarksOwn
    <3>3. CancelsOwn'
      BY <1>4, <2>0 DEF Prompt, CancelsOwn
    <3> QED
      BY <3>1, <3>2, <3>3
  <2>w. ASSUME inbox' # inbox PROVE LinesOwn' /\ CancelsOwn' /\ MarksOwn'
    <3>1. inbox' = Append(inbox, l) /\ l \in Line /\ alive /\ ~closed
      BY <1>4, <2>w DEF Prompt, Write, Line
    <3>2. WrittenTo(l)
      BY <3>1, Written
    <3>3. l.x = y /\ l.kind # "abort"
      OBVIOUS
    <3> HIDE DEF l
    <3>4. send[y] = "prompt" /\ send' \in {[send EXCEPT ![y] = "asked"], [send EXCEPT ![y] = "sent"]}
      BY <1>4, <2>w DEF Prompt, Goto
    <3>5. Idle /\ open = y /\ reply[y] = "none"
      BY <3>1, <3>4 DEF SendsOwn, SendOwn, EndsOwn
    <3>6. \A i \in DOMAIN inbox' : IsPrompt(inbox'[i]) => i = Len(inbox) + 1 /\ inbox'[i] = l
      BY <3>2, <3>5 DEF WrittenTo
    <3>7. LinesOwn'
      BY <1>4, <3>3, <3>4, <3>5, <3>6, Shapes DEF Prompt, LinesOwn
    <3>8. err[y] # "unanswered"
      BY <3>4 DEF MarksOwn
    <3>9. MarksOwn'
      <4>1. UNCHANGED <<hook, cancelled, aborted, err, running>>
        BY <1>4 DEF Prompt
      <4>2. \A i \in DOMAIN inbox' : inbox'[i].kind = "abort" => inbox'[i].x \in cancelled
        BY <3>2, <3>3 DEF MarksOwn, WrittenTo
      <4>3. \A z \in Exchanges : err[z] = "unanswered" => z # y /\ ~Before(z)'
        BY <3>4, <3>8, Shapes DEF MarksOwn
      <4> QED
        BY <3>3, <3>6, <4>1, <4>2, <4>3 DEF MarksOwn
    <3>10. CancelsOwn'
      <4>1. UNCHANGED <<hook, cancelling, open, running>>
        BY <1>4 DEF Prompt
      <4>2. \A i \in DOMAIN inbox' : inbox'[i].kind = "abort" =>
              /\ i \in DOMAIN inbox /\ inbox'[i] = inbox[i]
              /\ \A j \in 1 .. i : inbox'[j] = inbox[j]
        BY <3>2, <3>3 DEF WrittenTo
      <4> QED
        BY <4>1, <4>2 DEF CancelsOwn
    <3> QED
      BY <3>7, <3>9, <3>10
  <2>1. LinesOwn'
    BY <2>0, <2>w
  <2>2. SendsOwn'
    BY <1>4, Shapes DEF Prompt, Goto, Write, SendsOwn, SendOwn, EndsOwn
  <2>3. RouteOwn'
    BY <1>4, Shapes DEF Prompt, Goto, Write, SendsOwn, SendOwn, RouteOwn, EndsOwn, MarksOwn
  <2>4. EndsOwn'
    BY <1>4 DEF Prompt, Goto, Write, EndsOwn
  <2>5. CancelsOwn'
    BY <2>0, <2>w
  <2>6. MarksOwn'
    BY <2>0, <2>w
  <2> QED
    BY <1>4, <2>1, <2>2, <2>3, <2>4, <2>5, <2>6, KeptApart DEF Prompt
<1>5. CASE Prompted(y)
  <2>1. LinesOwn'
    <3>1. \A i \in DOMAIN inbox : IsPrompt(inbox[i]) /\ inbox[i].x = y => reply[y] = "none"
      BY <1>5 DEF Prompted, LinesOwn
    <3> QED
      BY <1>5, <3>1, Elements, Shapes DEF Prompted, Goto, LinesOwn
  <2>2. SendsOwn'
    BY <1>5, Shapes DEF Prompted, Goto, PromptFails, SendsOwn, SendOwn, EndsOwn
  <2>3. RouteOwn'
    BY <1>5, Shapes DEF Prompted, Goto, PromptFails, RouteOwn
  <2>4. EndsOwn'
    BY <1>5 DEF Prompted, Goto, PromptFails, EndsOwn
  <2>5. MarksOwn'
    BY <1>5, Shapes DEF Prompted, Goto, PromptFails, MarksOwn
  <2> QED
    BY <1>5, <2>1, <2>2, <2>3, <2>4, <2>5, KeptApart DEF Prompted
<1>6. CASE SendFails(y)
  <2>1. LinesOwn'
    BY <1>6, Shapes DEF SendFails, Goto, LinesOwn, RunOwn, SendsOwn, SendOwn, EndsOwn
  <2>2. RunOwn'
    BY <1>6, Shapes DEF SendFails, Goto, LinesOwn, RunOwn, SendsOwn, SendOwn, EndsOwn
  <2>3. SendsOwn'
    BY <1>6, Shapes DEF SendFails, Goto, SendsOwn, SendOwn
  <2>4. RouteOwn'
    BY <1>6 DEF SendFails, Goto, RouteOwn
  <2>5. EndsOwn'
    BY <1>6 DEF SendFails, Goto, EndsOwn
  <2>6. CancelsOwn'
    BY <1>6 DEF SendFails, Goto, CancelsOwn
  <2>7. MarksOwn'
    BY <1>6 DEF SendFails, Goto, MarksOwn
  <2> QED
    BY <1>6, <2>1, <2>2, <2>3, <2>4, <2>5, <2>6, <2>7, KeptApart DEF SendFails
<1>7. CASE FailSend(y)
  <2>1. LinesOwn'
    BY <1>7 DEF FailSend, Goto, FailExchange, FirstErr, LinesOwn
  <2>2. SendsOwn'
    BY <1>7 DEF FailSend, Goto, FailExchange, FirstErr, SendsOwn, SendOwn
  <2>3. RouteOwn'
    BY <1>7 DEF FailSend, Goto, FailExchange, FirstErr, RouteOwn
  <2>4. EndsOwn'
    BY <1>7 DEF FailSend, Goto, FailExchange, FirstErr, EndsOwn
  <2>5. MarksOwn'
    BY <1>7 DEF FailSend, Goto, FailExchange, FirstErr, MarksOwn
  <2> QED
    BY <1>7, <2>1, <2>2, <2>3, <2>4, <2>5, KeptApart DEF FailSend
<1> QED
  BY <1>1, <1>2, <1>3, <1>4, <1>5, <1>6, <1>7 DEF SendNext

(* A cancellation. *)
LEMMA CancelApart ==
  ASSUME TypeInv, Apart, NEW y \in Exchanges, Cancel(y) \/ CancelNext(y)
  PROVE  Apart'
<1> USE DEF Apart
<1>1. CASE Cancel(y)
  <2>1. EndsOwn'
    BY <1>1 DEF Cancel, Hook, EndsOwn
  <2>2. CancelsOwn'
    BY <1>1, Shapes DEF Cancel, Hook, CancelsOwn
  <2>3. MarksOwn'
    BY <1>1, Shapes DEF Cancel, Hook, MarksOwn
  <2> QED
    BY <1>1, <2>1, <2>2, <2>3, KeptApart DEF Cancel
<1>2. CASE MarkCancelled(y)
  <2>1. EndsOwn'
    BY <1>2 DEF MarkCancelled, Hook, Marked, EndsOwn
  <2>2. CancelsOwn'
    BY <1>2 DEF MarkCancelled, Hook, Marked, CancelsOwn
  <2>3. MarksOwn'
    BY <1>2 DEF MarkCancelled, Hook, Marked, MarksOwn
  <2> QED
    BY <1>2, <2>1, <2>2, <2>3, KeptApart DEF MarkCancelled
<1>3. CASE CallCancel(y)
  <2> DEFINE l == [kind |-> IF trip'[y] = Trips THEN "abort" ELSE "clear", x |-> y]
  <2>k. \A i \in DOMAIN inbox' : IsPrompt(inbox'[i]) => i \in DOMAIN inbox /\ inbox'[i] = inbox[i]
    <3>1. inbox' = inbox \/ (inbox' = Append(inbox, l) /\ l \in Line)
      BY <1>3 DEF CallCancel, Write, Line
    <3>2. ~IsPrompt(l)
      OBVIOUS
    <3> HIDE DEF l
    <3> QED
      BY <3>1, <3>2, Written DEF WrittenTo
  <2>0. ASSUME inbox' = inbox PROVE LinesOwn' /\ SendsOwn' /\ CancelsOwn' /\ MarksOwn'
    <3>1. LinesOwn' /\ SendsOwn'
      BY <1>3, <2>0 DEF CallCancel, LinesOwn, SendsOwn, SendOwn
    <3>2. CancelsOwn' /\ MarksOwn'
      <4>1. /\ hook[y] = "call" /\ UNCHANGED <<cancelling, open, running, cancelled, aborted, err, send>>
            /\ \E p \in {"error", "await"} : hook' = [hook EXCEPT ![y] = p]
        BY <1>3 DEF CallCancel, Hook
      <4>2. CancelsOwn'
        BY <2>0, <4>1, Shapes DEF CancelsOwn
      <4>3. MarksOwn'
        BY <2>0, <4>1, Shapes DEF MarksOwn
      <4> QED
        BY <4>2, <4>3
    <3> QED
      BY <3>1, <3>2
  <2>w. ASSUME inbox' # inbox PROVE LinesOwn' /\ SendsOwn' /\ CancelsOwn' /\ MarksOwn'
    <3>1. inbox' = Append(inbox, l) /\ l \in Line /\ ~closed
      BY <1>3, <2>w DEF CallCancel, Write, Line
    <3>2. WrittenTo(l)
      BY <3>1, Written
    <3>3. l.x = y /\ ~IsPrompt(l)
      OBVIOUS
    <3> HIDE DEF l
    <3>4. \A i \in DOMAIN inbox' : IsPrompt(inbox'[i]) => i \in DOMAIN inbox /\ inbox'[i] = inbox[i]
      BY <3>2, <3>3 DEF WrittenTo
    <3>5. LinesOwn'
      BY <1>3, <3>4 DEF CallCancel, LinesOwn
    <3>6. SendsOwn'
      BY <1>3, <3>4 DEF CallCancel, SendsOwn, SendOwn
    <3>7. cancelling = y /\ open \in {y, None} /\ y \in cancelled
      BY <1>3 DEF CallCancel, CancelsOwn, MarksOwn
    <3>8. running \in {None, y} /\ \A j \in DOMAIN inbox : IsPrompt(inbox[j]) => inbox[j].x = y
      <4>1. running # None => running = y
        BY <3>1, <3>7, Shapes DEF RunOwn
      <4>2. \A j \in DOMAIN inbox : IsPrompt(inbox[j]) => inbox[j].x = y
        BY <3>1, <3>7, Elements DEF LinesOwn
      <4> QED
        BY <4>1, <4>2
    <3>9. CancelsOwn'
      <4>1. /\ UNCHANGED <<cancelling, open, running>>
            /\ \E p \in {"error", "await"} : hook' = [hook EXCEPT ![y] = p]
        BY <1>3 DEF CallCancel, Hook
      <4>2. CancelReachesItsOwn'
        BY <3>2, <3>3, <3>8, <4>1 DEF CancelsOwn, WrittenTo
      <4> QED
        BY <3>7, <4>1, <4>2, Shapes DEF CancelsOwn
    <3>10. MarksOwn'
      <4>1. /\ UNCHANGED <<running, cancelled, aborted, err, send>>
            /\ \E p \in {"error", "await"} : hook' = [hook EXCEPT ![y] = p]
        BY <1>3 DEF CallCancel, Hook
      <4>2. \A i \in DOMAIN inbox' : inbox'[i].kind = "abort" => inbox'[i].x \in cancelled
        BY <3>2, <3>3, <3>7 DEF MarksOwn, WrittenTo
      <4> QED
        BY <3>4, <3>7, <4>1, <4>2, Shapes DEF MarksOwn
    <3> QED
      BY <3>5, <3>6, <3>9, <3>10
  <2>1. LinesOwn'
    BY <2>0, <2>w
  <2>2. SendsOwn'
    BY <2>0, <2>w
  <2>3. RouteOwn'
    <3>1. /\ UNCHANGED <<rx, rev, route, open, closed, running, outbox, send, reply>>
          /\ \A i \in DOMAIN inbox' : IsPrompt(inbox'[i]) => \E j \in DOMAIN inbox : IsPrompt(inbox[j])
      BY <1>3, <2>k DEF CallCancel
    <3> QED
      BY <3>1 DEF RouteOwn
  <2>4. EndsOwn'
    BY <1>3 DEF CallCancel, Hook, Write, EndsOwn
  <2>5. CancelsOwn'
    BY <2>0, <2>w
  <2>6. MarksOwn'
    BY <2>0, <2>w
  <2> QED
    BY <1>3, <2>1, <2>2, <2>3, <2>4, <2>5, <2>6, KeptApart DEF CallCancel
<1>4. CASE CancelReturns(y)
  <2>1. EndsOwn'
    BY <1>4 DEF CancelReturns, Hook, LastTrip, EndsOwn
  <2>2. CancelsOwn'
    BY <1>4, Shapes DEF CancelReturns, Hook, LastTrip, CancelsOwn
  <2>3. MarksOwn'
    BY <1>4, Shapes DEF CancelReturns, Hook, LastTrip, MarksOwn
  <2> QED
    BY <1>4, <2>1, <2>2, <2>3, KeptApart DEF CancelReturns
<1>5. CASE CancelFails(y)
  <2>1. EndsOwn'
    BY <1>5 DEF CancelFails, Hook, PushErr, FirstErr, EndsOwn
  <2>2. CancelsOwn'
    BY <1>5 DEF CancelFails, Hook, PushErr, FirstErr, CancelsOwn
  <2>3. MarksOwn'
    BY <1>5, Shapes DEF CancelFails, Hook, PushErr, FirstErr, MarksOwn
  <2> QED
    BY <1>5, <2>1, <2>2, <2>3, KeptApart DEF CancelFails
<1>6. CASE CancelOver(y)
  <2>1. EndsOwn'
    BY <1>6 DEF CancelOver, Hook, Over, EndsOwn
  <2>2. CancelsOwn'
    BY <1>6, Shapes DEF CancelOver, Hook, Over, CancelsOwn
  <2>3. MarksOwn'
    BY <1>6 DEF CancelOver, Hook, Over, MarksOwn
  <2> QED
    BY <1>6, <2>1, <2>2, <2>3, KeptApart DEF CancelOver
<1> QED
  BY <1>1, <1>2, <1>3, <1>4, <1>5, <1>6 DEF CancelNext

(* The goroutine route. *)
LEMMA RouteApart ==
  ASSUME TypeInv, Apart, RouteNext
  PROVE  Apart'
<1> USE DEF Apart
<1>1. CASE RouteTakes
  <2>1. LinesOwn'
    BY <1>1 DEF RouteTakes, LinesOwn
  <2>2. RunOwn'
    BY <1>1, Shapes DEF RouteTakes, RunOwn
  <2>3. SendsOwn'
    BY <1>1 DEF RouteTakes, SendsOwn, SendOwn
  <2>4. RouteOwn'
    BY <1>1, Shapes DEF RouteTakes, LinesOwn, RunOwn, SendsOwn, SendOwn, RouteOwn, EndsOwn
  <2>5. EndsOwn'
    BY <1>1 DEF RouteTakes, EndsOwn
  <2> QED
    BY <1>1, <2>1, <2>2, <2>3, <2>4, <2>5, KeptApart DEF RouteTakes
<1>2. CASE RouteUnanswered
  <2>1. RouteOwn'
    BY <1>2 DEF RouteUnanswered, Unanswered, PushErr, FirstErr, RouteOwn
  <2>2. EndsOwn'
    BY <1>2 DEF RouteUnanswered, Unanswered, PushErr, FirstErr, EndsOwn
  <2>3. MarksOwn'
    BY <1>2, Shapes DEF RouteUnanswered, Unanswered, PushErr, FirstErr, RouteOwn, MarksOwn
  <2> QED
    BY <1>2, <2>1, <2>2, <2>3, KeptApart DEF RouteUnanswered
<1>3. CASE Bind
  <2>1. RouteOwn'
    BY <1>3 DEF Bind, FirstErr, RouteOwn
  <2>2. EndsOwn'
    BY <1>3 DEF Bind, FirstErr, EndsOwn
  <2>3. MarksOwn'
    BY <1>3, Shapes DEF Bind, FirstErr, MarksOwn
  <2> QED
    BY <1>3, <2>1, <2>2, <2>3, KeptApart DEF Bind
<1>4. CASE Put
  <2>1. RouteOwn'
    BY <1>4 DEF Put, Stored, PushErr, FirstErr, RouteOwn
  <2>2. EndsOwn'
    BY <1>4 DEF Put, Stored, PushErr, FirstErr, EndsOwn
  <2>3. MarksOwn'
    BY <1>4, Shapes DEF Put, Stored, PushErr, FirstErr, MarksOwn
  <2> QED
    BY <1>4, <2>1, <2>2, <2>3, KeptApart DEF Put
<1>5. CASE Release
  <2>1. LinesOwn'
    BY <1>5, Shapes DEF Release, LinesOwn, RouteOwn
  <2>2. RunOwn'
    BY <1>5, Shapes DEF Release, RunOwn, RouteOwn
  <2>3. SendsOwn'
    BY <1>5, Shapes DEF Release, SendsOwn, SendOwn, RouteOwn
  <2>4. RouteOwn'
    BY <1>5 DEF Release, RouteOwn
  <2>5. EndsOwn'
    BY <1>5 DEF Release, EndsOwn
  <2>6. CancelsOwn'
    BY <1>5 DEF Release, CancelsOwn
  <2> QED
    BY <1>5, <2>1, <2>2, <2>3, <2>4, <2>5, <2>6, KeptApart DEF Release
<1>6. CASE RoutePushes
  <2>1. RouteOwn'
    BY <1>6 DEF RoutePushes, Push, FirstErr, RouteOwn
  <2>2. EndsOwn'
    BY <1>6 DEF RoutePushes, Push, FirstErr, EndsOwn
  <2>3. MarksOwn'
    BY <1>6, Shapes DEF RoutePushes, Push, FirstErr, MarksOwn
  <2> QED
    BY <1>6, <2>1, <2>2, <2>3, KeptApart DEF RoutePushes
<1>7. CASE RouteExits
  <2>1. LinesOwn'
    BY <1>7, Shapes DEF RouteExits, AtExit, LinesOwn, EndsOwn
  <2>2. RunOwn'
    BY <1>7, Shapes DEF RouteExits, AtExit, RunOwn, EndsOwn
  <2>3. SendsOwn'
    BY <1>7 DEF RouteExits, AtExit, SendsOwn, SendOwn
  <2>4. RouteOwn'
    BY <1>7 DEF RouteExits, AtExit, RouteOwn
  <2>5. EndsOwn'
    BY <1>7 DEF RouteExits, AtExit, EndsOwn
  <2>6. CancelsOwn'
    BY <1>7 DEF RouteExits, AtExit, CancelsOwn
  <2> QED
    BY <1>7, <2>1, <2>2, <2>3, <2>4, <2>5, <2>6, KeptApart DEF RouteExits
<1>8. CASE ExitPut
  <2>1. RouteOwn'
    BY <1>8 DEF ExitPut, ExitRecorded, Stored, PushErr, FirstErr, RouteOwn
  <2>2. EndsOwn'
    BY <1>8 DEF ExitPut, ExitRecorded, Stored, PushErr, FirstErr, EndsOwn
  <2>3. MarksOwn'
    BY <1>8, Shapes DEF ExitPut, ExitRecorded, Stored, PushErr, FirstErr, MarksOwn
  <2> QED
    BY <1>8, <2>1, <2>2, <2>3, KeptApart DEF ExitPut
<1>9. CASE ExitFail
  <2>1. RouteOwn'
    BY <1>9 DEF ExitFail, FailExchange, FirstErr, RouteOwn
  <2>2. EndsOwn'
    BY <1>9 DEF ExitFail, FailExchange, FirstErr, EndsOwn
  <2>3. MarksOwn'
    BY <1>9 DEF ExitFail, FailExchange, FirstErr, MarksOwn
  <2> QED
    BY <1>9, <2>1, <2>2, <2>3, KeptApart DEF ExitFail
<1> QED
  BY <1>1, <1>2, <1>3, <1>4, <1>5, <1>6, <1>7, <1>8, <1>9 DEF RouteNext

(* The harness. *)
LEMMA HarnessApart ==
  ASSUME TypeInv, Apart, HarnessNext
  PROVE  Apart'
<1> USE DEF Apart
<1>1. CASE HarnessReads
  <2>1. LinesOwn'
    BY <1>1 DEF HarnessReads, LinesOwn
  <2>2. RunOwn'
    BY <1>1, Shapes DEF HarnessReads, LinesOwn, RunOwn
  <2>3. SendsOwn'
    BY <1>1, Shapes DEF HarnessReads, LinesOwn, SendsOwn, SendOwn, EndsOwn
  <2>4. RouteOwn'
    BY <1>1 DEF HarnessReads, RouteOwn
  <2>5. EndsOwn'
    BY <1>1 DEF HarnessReads, EndsOwn
  <2>6. CancelsOwn'
    BY <1>1 DEF HarnessReads, CancelsOwn
  <2>7. MarksOwn'
    BY <1>1, Shapes DEF HarnessReads, CancelsOwn, MarksOwn
  <2> QED
    BY <1>1, <2>1, <2>2, <2>3, <2>4, <2>5, <2>6, <2>7, KeptApart DEF HarnessReads
<1>2. CASE HarnessAppends
  <2> QED
    BY <1>2, KeptApart DEF HarnessAppends
<1>3. CASE HarnessTells
  <2>1. LinesOwn'
    BY <1>3 DEF HarnessTells, LinesOwn
  <2>2. RunOwn'
    BY <1>3 DEF HarnessTells, RunOwn
  <2>3. SendsOwn'
    BY <1>3 DEF HarnessTells, SendsOwn, SendOwn
  <2>4. RouteOwn'
    BY <1>3 DEF HarnessTells, RouteOwn
  <2>5. EndsOwn'
    BY <1>3 DEF HarnessTells, EndsOwn
  <2> QED
    BY <1>3, <2>1, <2>2, <2>3, <2>4, <2>5, KeptApart DEF HarnessTells
<1>4. CASE HarnessEnds
  <2>1. LinesOwn'
    BY <1>4 DEF HarnessEnds, LinesOwn
  <2>2. RunOwn'
    BY <1>4 DEF HarnessEnds, RunOwn
  <2>3. SendsOwn'
    BY <1>4 DEF HarnessEnds, SendsOwn, SendOwn
  <2>4. RouteOwn'
    BY <1>4 DEF HarnessEnds, RouteOwn
  <2>5. EndsOwn'
    BY <1>4 DEF HarnessEnds, EndsOwn
  <2>6. CancelsOwn'
    BY <1>4 DEF HarnessEnds, CancelsOwn
  <2>7. MarksOwn'
    BY <1>4 DEF HarnessEnds, MarksOwn
  <2> QED
    BY <1>4, <2>1, <2>2, <2>3, <2>4, <2>5, <2>6, <2>7, KeptApart DEF HarnessEnds
<1>5. CASE HarnessExits
  <2>1. LinesOwn'
    BY <1>5 DEF HarnessExits, LinesOwn
  <2>2. RunOwn'
    BY <1>5 DEF HarnessExits, RunOwn
  <2>3. SendsOwn'
    BY <1>5 DEF HarnessExits, SendsOwn, SendOwn
  <2>4. RouteOwn'
    BY <1>5 DEF HarnessExits, RouteOwn
  <2>5. EndsOwn'
    BY <1>5 DEF HarnessExits, EndsOwn
  <2>6. CancelsOwn'
    BY <1>5 DEF HarnessExits, CancelsOwn
  <2>7. MarksOwn'
    BY <1>5 DEF HarnessExits, MarksOwn
  <2> QED
    BY <1>5, <2>1, <2>2, <2>3, <2>4, <2>5, <2>6, <2>7, KeptApart DEF HarnessExits
<1> QED
  BY <1>1, <1>2, <1>3, <1>4, <1>5 DEF HarnessNext

(* The session's beginning and end, with or without the process's. *)
LEMMA ProcessApart ==
  ASSUME TypeInv, Apart, Close \/ Leave \/ Crash \/ NewSession \/ JournalLoses
  PROVE  Apart'
<1> USE DEF Apart
<1>1. CASE Close
  <2>1. LinesOwn'
    BY <1>1 DEF Close, LinesOwn
  <2>2. RunOwn'
    BY <1>1 DEF Close, RunOwn
  <2>3. SendsOwn'
    BY <1>1 DEF Close, SendsOwn, SendOwn
  <2>4. RouteOwn'
    BY <1>1 DEF Close, RouteOwn
  <2>5. EndsOwn'
    BY <1>1 DEF Close, EndsOwn
  <2> QED
    BY <1>1, <2>1, <2>2, <2>3, <2>4, <2>5, KeptApart DEF Close
<1>2. CASE Leave
  <2>1. LinesOwn'
    BY <1>2 DEF Leave, Ends, Gone, LinesOwn
  <2>2. RunOwn'
    BY <1>2 DEF Leave, Ends, Gone, RunOwn
  <2>3. SendsOwn'
    BY <1>2 DEF Leave, Ends, Gone, SendsOwn, SendOwn
  <2>4. RouteOwn'
    BY <1>2 DEF Leave, Ends, Gone, RouteOwn
  <2>5. EndsOwn'
    BY <1>2 DEF Leave, Ends, Gone, EndsOwn
  <2>6. CancelsOwn'
    BY <1>2 DEF Leave, Ends, Gone, CancelsOwn
  <2>7. MarksOwn'
    BY <1>2 DEF Leave, Ends, Gone, MarksOwn
  <2> QED
    BY <1>2, <2>1, <2>2, <2>3, <2>4, <2>5, <2>6, <2>7, KeptApart DEF Leave
<1>3. CASE Crash
  <2>1. LinesOwn'
    BY <1>3 DEF Crash, Ends, Gone, LinesOwn
  <2>2. RunOwn'
    BY <1>3 DEF Crash, Ends, Gone, RunOwn
  <2>3. SendsOwn'
    BY <1>3 DEF Crash, Ends, Gone, SendsOwn, SendOwn
  <2>4. RouteOwn'
    BY <1>3 DEF Crash, Ends, Gone, RouteOwn
  <2>5. EndsOwn'
    BY <1>3 DEF Crash, Ends, Gone, EndsOwn
  <2>6. CancelsOwn'
    BY <1>3 DEF Crash, Ends, Gone, CancelsOwn
  <2>7. MarksOwn'
    BY <1>3 DEF Crash, Ends, Gone, MarksOwn
  <2> QED
    BY <1>3, <2>1, <2>2, <2>3, <2>4, <2>5, <2>6, <2>7, KeptApart DEF Crash
<1>4. CASE NewSession
  <2>1. RouteOwn'
    BY <1>4 DEF NewSession, RouteOwn
  <2>2. EndsOwn'
    BY <1>4 DEF NewSession, EndsOwn
  <2> QED
    BY <1>4, <2>1, <2>2, KeptApart DEF NewSession
<1>5. CASE JournalLoses
  <2> QED
    BY <1>5, KeptApart DEF JournalLoses
<1> QED
  BY <1>1, <1>2, <1>3, <1>4, <1>5

LEMMA StaysApart == Spec => []Apart
<1>1. Init => Apart
  BY DEF Init, Apart, LinesOwn, RunOwn, SendsOwn, SendOwn, RouteOwn, EndsOwn, CancelsOwn, MarksOwn
<1>2. TypeInv /\ Apart /\ [Next]_vars => Apart'
  <2>1. Apart /\ UNCHANGED vars => Apart'
    BY KeptApart DEF Apart
  <2> QED
    BY <2>1, SendApart, CancelApart, RouteApart, HarnessApart, ProcessApart DEF Next, Terminated
<1> QED
  BY <1>1, <1>2, SessionTypes, PTL DEF Spec

(* An exchange gets the events of its own run and no others. *)
THEOREM EventsCorrect == Spec => []EventsTheirOwn
<1>1. Apart => EventsTheirOwn
  BY DEF Apart, RouteOwn
<1> QED
  BY <1>1, StaysApart, PTL

(* A cancellation reaches its own exchange's run or an idle harness. *)
THEOREM CancelCorrect == Spec => []CancelReachesItsOwn
<1>1. Apart => CancelReachesItsOwn
  BY DEF Apart, CancelsOwn
<1> QED
  BY <1>1, StaysApart, PTL

(* An exchange the harness stopped is not blamed for a response it owed. *)
THEOREM CancelledCorrect == Spec => []CancelledOwesNothing
<1>1. TypeInv /\ Apart => CancelledOwesNothing
  BY Shapes DEF Apart, MarksOwn, CancelledOwesNothing
<1> QED
  BY <1>1, SessionTypes, StaysApart, PTL

-----------------------------------------------------------------------------
(* The records.                                                            *)

(* An exchange that has a record will have no other: it is not opened      *)
(* again, and route is past its Put.                                       *)
OnceOwn ==
    /\ \A i, j \in DOMAIN records :
         records[i].x = records[j].x /\ records[i] # Garbage => i = j
    /\ \A i \in DOMAIN records : records[i] # Garbage =>
         /\ send[records[i].x] # "idle"
         /\ open = records[i].x => route = "release" /\ rx = open
         /\ rx = records[i].x => route \notin {"unanswered", "bind", "put", "exitPut"}

(* Where route ends the exchange the harness has left open. *)
ExitOwn ==
    /\ route \in {"exitPut", "exitFail", "done"} => exited
    /\ route = "exitPut" => send[rx] # "idle"
    /\ rx # None => route \notin {"off", "next", "done"}

(* The exchange has its record, or has lost it to a failure. *)
Stands(y) == Recorded(y) \/ y \in unstored \/ RanTogether
StandsOwn ==
    /\ \A y \in final : send[y] = "failed" \/ Stands(y)
    /\ route \in {"release", "exitFail"} => Stands(rx)
    /\ route = "push" /\ rev.kind = "ended" => Stands(rx)

RecordInv == OnceOwn /\ ExitOwn /\ StandsOwn

HIDE DEF NoEntry, IsPrompt, Quiet, Idle, Owner, Before, Early, EventsTheirOwn, CancelReachesItsOwn

(* The lines of the file are kept, and one more is written at most. *)
Grows(l) == UNCHANGED records \/ records' = Append(records, l)

LEMMA Lines ==
  ASSUME TypeInv, NEW l, Grows(l)
  PROVE  /\ \A i \in DOMAIN records : i \in DOMAIN records' /\ records'[i] = records[i]
         /\ \A i \in DOMAIN records' :
              i \in DOMAIN records \/ (i = Len(records) + 1 /\ records'[i] = l)
         /\ records' = Append(records, l) =>
              Len(records) + 1 \in DOMAIN records' /\ records'[Len(records) + 1] = l
<1>1. records \in Seq(Record \union {Garbage})
  BY DEF TypeInv, TypeOK, StoreType
<1>2. DOMAIN records = 1 .. Len(records) /\ Len(records) \in Nat
  BY <1>1, LenProperties
<1> QED
  BY <1>1, <1>2 DEF Grows

(* What has been written stands. *)
LEMMA StandsOn ==
  ASSUME TypeInv, NEW l, Grows(l), unstored \subseteq unstored', NEW y, Stands(y)
  PROVE  Stands(y)'
<1>1. \A i \in DOMAIN records : i \in DOMAIN records' /\ records'[i] = records[i]
  BY Lines
<1> QED
  BY <1>1 DEF Stands, Recorded, RanTogether

LEMMA RecordTypes ==
  ASSUME TypeInv
  PROVE  /\ open \in Exchanges \union {None} /\ rx \in Exchanges \union {None}
         /\ send \in [Exchanges -> SendPC] /\ final \subseteq Exchanges
         /\ \A i \in DOMAIN records : records[i] # Garbage => records[i].x \in Exchanges
<1>1. records \in Seq(Record \union {Garbage})
  BY DEF TypeInv, TypeOK, StoreType
<1>2. \A i \in DOMAIN records : records[i] \in Record \union {Garbage}
  BY <1>1
<1> QED
  BY <1>2 DEF TypeInv, TypeOK, SessionType, RouteType, CallType, ExchangeType, Record

(* Steps that write no record and open no exchange. *)
Later == \A y \in Exchanges : send'[y] = "idle" => send[y] = "idle"
LEMMA OnceKept ==
  ASSUME TypeInv, OnceOwn, UNCHANGED <<records, route, rx>>, open' \in {open, None}, Later
  PROVE  OnceOwn'
BY RecordTypes DEF OnceOwn, Later

LEMMA ExitKept ==
  ASSUME TypeInv, ExitOwn, UNCHANGED <<exited, route, rx>>, Later
  PROVE  ExitOwn'
<1>1. route = "exitPut" => rx \in Exchanges
  BY RecordTypes DEF TypeInv, RouteCarries
<1> QED
  BY <1>1 DEF ExitOwn, Later

LEMMA StandsKept ==
  ASSUME TypeInv, StandsOwn, UNCHANGED <<final, route, rx, rev, records, unstored>>,
         \A y \in Exchanges : send[y] = "failed" => send'[y] = "failed"
  PROVE  StandsOwn'
BY RecordTypes DEF StandsOwn, Stands, Recorded, RanTogether

(* The calls of Send. *)
LEMMA SendRecords ==
  ASSUME TypeInv, RecordInv, NEW y \in Exchanges, Send(y) \/ GiveUp(y) \/ SendNext(y)
  PROVE  RecordInv'
<1> USE RecordTypes DEF RecordInv, Goto
<1>1. CASE Send(y)
  <2>1. OnceOwn'
    BY <1>1 DEF Send, OnceOwn
  <2>2. ExitOwn'
    BY <1>1, ExitKept DEF Send, Later
  <2>3. StandsOwn'
    BY <1>1, StandsKept DEF Send
  <2> QED
    BY <2>1, <2>2, <2>3
<1>2. CASE GiveUp(y)
  BY <1>2, OnceKept, ExitKept, StandsKept DEF GiveUp, Later
<1>3. CASE ResyncCursor(y)
  BY <1>3, OnceKept, ExitKept, StandsKept DEF ResyncCursor, Later
<1>4. CASE Prompt(y)
  BY <1>4, OnceKept, ExitKept, StandsKept DEF Prompt, Later
<1>5. CASE Prompted(y)
  BY <1>5, OnceKept, ExitKept, StandsKept DEF Prompted, Later
<1>6. CASE SendFails(y)
  BY <1>6, OnceKept, ExitKept, StandsKept DEF SendFails, Later
<1>7. CASE FailSend(y)
  <2>1. OnceOwn' /\ ExitOwn'
    BY <1>7, OnceKept, ExitKept DEF FailSend, Later
  <2>2. StandsOwn'
    BY <1>7 DEF FailSend, FailExchange, StandsOwn, Stands, Recorded, RanTogether
  <2> QED
    BY <2>1, <2>2
<1> QED
  BY <1>1, <1>2, <1>3, <1>4, <1>5, <1>6, <1>7 DEF SendNext

(* Cancellations, the harness, Close and the loss of an entry leave what   *)
(* the invariant speaks of alone, but for events other than an end.        *)
LEMMA OthersRecord ==
  ASSUME TypeInv, RecordInv,
         \/ \E y \in Exchanges : Cancel(y) \/ CancelNext(y)
         \/ HarnessNext \/ Close \/ JournalLoses
  PROVE  RecordInv'
<1>1. UNCHANGED <<records, route, rx, rev, open, send, final, unstored, exited>>
  BY DEF Cancel, CancelNext, MarkCancelled, CallCancel, CancelReturns, CancelFails, CancelOver,
         PushErr, HarnessNext, HarnessReads, HarnessAppends, HarnessTells, HarnessEnds,
         HarnessExits, Close, JournalLoses
<1> QED
  BY <1>1, OnceKept, ExitKept, StandsKept DEF RecordInv, Later

(* A Put of rx. *)
LEMMA Puts ==
  ASSUME TypeInv, RecordInv, Apart, route \in {"put", "exitPut"},
         NEW l, l = Garbage \/ l.x = rx, Grows(l),
         open' \in {open, None}, Later,
         \/ route' = "off" /\ rx' = None /\ open' = None
         \/ route = "put" /\ route' = "release" /\ rx' = rx
         \/ route = "exitPut" /\ route' = "exitFail" /\ rx' = rx
  PROVE  OnceOwn'
<1>1. /\ rx \in Exchanges /\ send[rx] # "idle"
      /\ open \in {rx, None} /\ (route = "exitPut" => open = None)
  BY Shapes DEF RecordInv, ExitOwn, Apart, RouteOwn, EndsOwn, Owner, TypeInv, RouteCarries
<1>2. \A i \in DOMAIN records : records[i] # Garbage => records[i].x # rx
  BY <1>1 DEF RecordInv, OnceOwn
<1>3. \A i, j \in DOMAIN records' :
        records'[i].x = records'[j].x /\ records'[i] # Garbage => i = j
  BY <1>1, <1>2, Lines, RecordTypes DEF RecordInv, OnceOwn, Garbage
<1>4. ASSUME NEW i \in DOMAIN records', records'[i] # Garbage
      PROVE  /\ send'[records'[i].x] # "idle"
             /\ open' = records'[i].x => route' = "release" /\ rx' = open'
             /\ rx' = records'[i].x => route' \notin {"unanswered", "bind", "put", "exitPut"}
  <2>1. CASE records'[i].x = rx
    BY <1>1, <2>1 DEF Later
  <2>2. CASE i \in DOMAIN records
    BY <1>1, <1>4, <2>2, Lines, RecordTypes DEF RecordInv, OnceOwn, Later
  <2> QED
    BY <1>4, <2>1, <2>2, Lines
<1> QED
  BY <1>3, <1>4 DEF OnceOwn

LEMMA RouteRecords ==
  ASSUME TypeInv, RecordInv, Apart, RouteNext
  PROVE  RecordInv'
<1> USE RecordTypes DEF RecordInv
<1>1. CASE RouteTakes
  <2>1. OnceOwn'
    BY <1>1 DEF RouteTakes, OnceOwn
  <2>2. ExitOwn'
    BY <1>1 DEF RouteTakes, ExitOwn
  <2>3. StandsOwn'
    BY <1>1 DEF RouteTakes, StandsOwn, Stands, Recorded, RanTogether
  <2> QED
    BY <2>1, <2>2, <2>3
<1>2. CASE RouteUnanswered
  BY <1>2 DEF RouteUnanswered, PushErr, OnceOwn, ExitOwn, StandsOwn, Stands, Recorded, RanTogether
<1>3. CASE Bind
  BY <1>3 DEF Bind, OnceOwn, ExitOwn, StandsOwn, Stands, Recorded, RanTogether
<1>4. CASE Release
  BY <1>4 DEF Release, OnceOwn, ExitOwn, StandsOwn, Stands, Recorded, RanTogether
<1>5. CASE RoutePushes
  <2>1. OnceOwn' /\ ExitOwn'
    BY <1>5 DEF RoutePushes, OnceOwn, ExitOwn
  <2>2. \A y \in final' : y \in final \/ (y = rx /\ rev.kind = "ended")
    BY <1>5 DEF RoutePushes, Push
  <2>3. StandsOwn'
    BY <1>5, <2>2 DEF RoutePushes, StandsOwn, Stands, Recorded, RanTogether
  <2> QED
    BY <2>1, <2>3
<1>6. CASE RouteExits
  <2>1. OnceOwn'
    BY <1>6 DEF RouteExits, AtExit, OnceOwn
  <2>2. ExitOwn'
    BY <1>6 DEF RouteExits, AtExit, ExitOwn, Apart, SendsOwn, SendOwn
  <2>3. StandsOwn'
    BY <1>6 DEF RouteExits, StandsOwn, Stands, Recorded, RanTogether
  <2> QED
    BY <2>1, <2>2, <2>3
<1>7. CASE Put \/ ExitPut
  <2>1. /\ route' = (IF route = "put" THEN "release" ELSE "exitFail") /\ route \in {"put", "exitPut"}
        /\ UNCHANGED <<rx, rev, open, send, final, exited>> /\ Later
    BY <1>7 DEF Put, ExitPut, ExitRecorded, Stored, PushErr, Later
  <2>2. PICK entries : Stored(rx, entries)
    BY <1>7 DEF Put, ExitPut, ExitRecorded
  <2>3. PICK l : /\ Grows(l) /\ (l = Garbage \/ l.x = rx)
                 /\ records' = Append(records, l) \/ rx \in unstored'
    BY <2>2 DEF Stored, PutLine, PutPart, RecordOf, Grows
  <2>4. unstored \subseteq unstored' /\ Stands(rx)'
    BY <2>1, <2>2, <2>3, Lines DEF Stored, Stands, Recorded, RanTogether
  <2>5. OnceOwn'
    BY <2>1, <2>3, Puts
  <2>6. ExitOwn'
    BY <2>1 DEF ExitOwn
  <2>7. StandsOwn'
    BY <2>1, <2>3, <2>4, StandsOn DEF StandsOwn
  <2> QED
    BY <2>5, <2>6, <2>7
<1>8. CASE ExitFail
  BY <1>8 DEF ExitFail, FailExchange, OnceOwn, ExitOwn, StandsOwn, Stands, Recorded, RanTogether
<1> QED
  BY <1>1, <1>2, <1>3, <1>4, <1>5, <1>6, <1>7, <1>8 DEF RouteNext

LEMMA ProcessRecords ==
  ASSUME TypeInv, RecordInv, Apart, Leave \/ Crash \/ NewSession
  PROVE  RecordInv'
<1> USE RecordTypes DEF RecordInv
<1>1. ASSUME Ends
      PROVE  Later /\ ExitOwn' /\ StandsOwn' /\ open' = None /\ rx' = None /\ route' = "off"
  BY <1>1 DEF Ends, Gone, Later, ExitOwn, StandsOwn
<1>2. CASE Leave
  <2>1. OnceOwn'
    BY <1>1, <1>2 DEF Leave, Later, OnceOwn
  <2> QED
    BY <1>1, <1>2, <2>1 DEF Leave
<1>3. CASE Crash
  <2>1. CASE route \in {"put", "exitPut"}
    <3>1. PICK l : Grows(l) /\ (l = Garbage \/ l.x = rx)
      BY <1>3, <2>1 DEF Crash, PutLine, PutPart, RecordOf, Grows
    <3>2. OnceOwn'
      BY <1>1, <1>3, <2>1, <3>1, Puts DEF Crash
    <3> QED
      BY <1>1, <1>3, <3>2 DEF Crash
  <2>2. CASE route \notin {"put", "exitPut"}
    <3>1. OnceOwn'
      BY <1>1, <1>3, <2>2 DEF Crash, Later, OnceOwn
    <3> QED
      BY <1>1, <1>3, <3>1 DEF Crash
  <2> QED
    BY <2>1, <2>2
<1>4. CASE NewSession
  BY <1>4 DEF NewSession, OnceOwn, ExitOwn, StandsOwn, Stands, Recorded, RanTogether
<1> QED
  BY <1>2, <1>3, <1>4

LEMMA StaysRecorded == Spec => []RecordInv
<1>1. Init => RecordInv
  BY DEF Init, RecordInv, OnceOwn, ExitOwn, StandsOwn
<1>2. TypeInv /\ Apart /\ RecordInv /\ [Next]_vars => RecordInv'
  <2>1. TypeInv /\ RecordInv /\ UNCHANGED vars => RecordInv'
    BY OnceKept, ExitKept, StandsKept DEF RecordInv, Later
  <2> QED
    BY <2>1, SendRecords, OthersRecord, RouteRecords, ProcessRecords DEF Next, Terminated
<1> QED
  BY <1>1, <1>2, SessionTypes, StaysApart, PTL DEF Spec

(* An exchange has one record at most, and one that Send returned has it   *)
(* by the time its end is seen, unless a failure took it.                  *)
THEOREM RecordCorrect == Spec => []RecordedBeforeEnd
<1>1. RecordInv => RecordedBeforeEnd
  BY DEF RecordInv, OnceOwn, StandsOwn, Stands, RecordedBeforeEnd
<1> QED
  BY <1>1, StaysRecorded, PTL

-----------------------------------------------------------------------------
(* The journal.                                                            *)

USE DEF NoEntry

(* The journal holds an entry once, and those of a run that it has begun. *)
JournalOwn ==
    /\ \A i, j \in DOMAIN journal : journal[i] = journal[j] => i = j
    /\ \A i \in DOMAIN journal : journal[i][2] <= appended[journal[i][1]]

(* An exchange the harness has not accepted has appended nothing. *)
NotRun(y) == appended[y] = 0 /\ running # y
UnrunOwn ==
    \A y \in Exchanges :
      /\ send[y] = "idle" \/ Early(y) => NotRun(y)
      /\ send[y] = "fail" /\ ~closed => NotRun(y)

(* A cursor that is stale is set anew before a prompt is written. *)
ResyncOwn ==
    resync /\ open # None => send[open] \in {"resync", "fail"} \/ route \in {"put", "release"}

(* A cursor that is not stale is followed in the journal by the entries of *)
(* the open exchange and no others, until they are bound.                  *)
Due == IF open = None \/ route \in {"put", "release"} THEN 0 ELSE appended[open]
At(p) == IF cursor = NoEntry THEN p = 0 ELSE p \in DOMAIN journal /\ journal[p] = cursor
DueFrom(p) ==
    At(p) /\ Len(journal) = p + Due /\ \A k \in 1 .. Due : journal[p + k] = <<open, k>>
Following == route # "off" /\ ~closed /\ ~exited /\ ~resync
CursorOwn == Following => \E p \in 0 .. Len(journal) : DueFrom(p)

(* What route has bound are the entries of the run, the journal's last. *)
GotOwn ==
    /\ route # "put" => got = <<>>
    /\ got # <<>> =>
         /\ got = EntriesOf(rx)
         /\ \A k \in DOMAIN got : Holds(got[k])
         /\ journal # <<>> /\ Newest(journal) = Newest(got)

(* An exchange whose entries are on record appends no more. *)
Through(y) ==
    /\ running # y /\ ~Before(y)
    /\ \A i \in DOMAIN inbox : IsPrompt(inbox[i]) => inbox[i].x # y
Bound(rec) == rec.x \in Exchanges /\ rec.entries = EntriesOf(rec.x) /\ Through(rec.x)
RecordsOwn == \A i \in DOMAIN Records : Records[i].entries # <<>> => Bound(Records[i])

(* A journal that holds the last entry of a record holds, up to it, what   *)
(* that record and those before it name: a journal loses what is last.     *)
Covers(i, p) ==
    \A j \in 1 .. i : \A k \in DOMAIN Records[j].entries :
      \E q \in 1 .. p : journal[q] = Records[j].entries[k]
OrderOwn ==
    \A i \in DOMAIN Records, p \in DOMAIN journal :
      Records[i].entries # <<>> /\ journal[p] = Newest(Records[i].entries) => Covers(i, p)

JournalInv ==
    /\ JournalOwn /\ UnrunOwn /\ ResyncOwn /\ CursorOwn /\ GotOwn
    /\ RecordsOwn /\ OrderOwn /\ JournalHolds

-----------------------------------------------------------------------------
(* Numbers, entries and sequences.                                         *)

LEMMA Least ==
  ASSUME NEW T \in SUBSET Nat, T # {}
  PROVE  \E x \in T : \A y \in T : x <= y
<1>1. PICK x \in T : \A y \in T : <<y, x>> \notin OpToRel(<, Nat)
  BY WFMin, NatLessThanWellFounded, Zenon
<1>2. \A y \in T : ~(y < x)
  BY <1>1 DEF OpToRel
<1> QED
  BY <1>2

LEMMA Greatest ==
  ASSUME NEW n \in Nat, NEW T \in SUBSET (1 .. n), T # {}
  PROVE  \E x \in T : \A y \in T : y <= x
<1> DEFINE U == {n - i : i \in T}
<1>1. PICK u \in U : \A v \in U : u <= v
  <2>1. \A i \in T : n - i \in Nat
    OBVIOUS
  <2>2. U \subseteq Nat
    BY <2>1
  <2>3. U # {}
    OBVIOUS
  <2> HIDE DEF U
  <2> QED
    BY <2>2, <2>3, Least
<1>2. PICK x \in T : u = n - x
  OBVIOUS
<1>3. \A y \in T : n - x <= n - y
  BY <1>1, <1>2
<1> HIDE DEF U
<1>4. \A y \in T : y <= x
  BY <1>3
<1> QED
  BY <1>4

LEMMA EntryIsSome ==
  ASSUME NEW e \in Entry
  PROVE  e # NoEntry /\ e[1] \in Exchanges /\ e[2] \in 1 .. MaxEntries /\ e = <<e[1], e[2]>>
<1>1. PICK a \in Exchanges, b \in 1 .. MaxEntries : e = <<a, b>>
  BY DEF Entry
<1>2. Len(e) = 2 /\ Len(<<>>) = 0
  BY <1>1
<1> QED
  BY <1>1, <1>2

(* The types the proofs below rest on. *)
LEMMA JournalTypes ==
  ASSUME TypeInv
  PROVE  /\ journal \in Seq(Entry) /\ DOMAIN journal = 1 .. Len(journal) /\ Len(journal) \in Nat
         /\ appended \in [Exchanges -> 0 .. MaxEntries]
         /\ \A i \in DOMAIN journal : journal[i] \in Entry
         /\ cursor \in Entry \union {NoEntry} /\ got \in Seq(Entry)
<1>1. journal \in Seq(Entry)
  BY DEF TypeInv, TypeOK, HarnessType
<1>2. DOMAIN journal = 1 .. Len(journal) /\ Len(journal) \in Nat
  BY <1>1, LenProperties
<1> QED
  BY <1>1, <1>2 DEF TypeInv, TypeOK, HarnessType, SessionType, RouteType

LEMMA LastEntry ==
  ASSUME TypeInv, NEW y \in Exchanges, EntriesOf(y) # <<>>
  PROVE  appended[y] > 0 /\ Newest(EntriesOf(y)) = <<y, appended[y]>>
<1>1. appended[y] \in Nat
  BY JournalTypes
<1>2. appended[y] > 0
  BY <1>1 DEF EntriesOf
<1>3. Len(EntriesOf(y)) = appended[y]
  BY <1>1 DEF EntriesOf
<1> QED
  BY <1>1, <1>2, <1>3 DEF EntriesOf, Newest

(* What Since gives of a cursor that is followed as it should be. *)
LEMMA SinceIs ==
  ASSUME TypeInv, JournalOwn, NEW p \in 0 .. Len(journal), At(p)
  PROVE  Since(cursor) = SubSeq(journal, p + 1, Len(journal))
<1>1. CASE cursor = NoEntry
  BY <1>1, JournalTypes DEF At, Since
<1>2. CASE cursor # NoEntry
  <2> DEFINE i == CHOOSE i \in DOMAIN journal : journal[i] = cursor
  <2>1. p \in DOMAIN journal /\ journal[p] = cursor
    BY <1>2 DEF At
  <2>2. i \in DOMAIN journal /\ journal[i] = cursor
    BY <2>1
  <2> HIDE DEF i
  <2>3. i = p
    BY <2>1, <2>2 DEF JournalOwn
  <2>4. Since(cursor) = SubSeq(journal, 1 + i, Len(journal))
    BY <1>2 DEF Since, i
  <2> QED
    BY <2>3, <2>4
<1> QED
  BY <1>1, <1>2

LEMMA SinceDue ==
  ASSUME TypeInv, JournalOwn, NEW y \in Exchanges, Due = appended[y], open = y,
         NEW p \in 0 .. Len(journal), DueFrom(p)
  PROVE  Since(cursor) = EntriesOf(y)
<1>1. Since(cursor) = SubSeq(journal, p + 1, Len(journal))
  BY SinceIs DEF DueFrom
<1> DEFINE s == SubSeq(journal, p + 1, Len(journal))
<1>2. appended[y] \in Nat /\ Len(journal) = p + appended[y]
  BY JournalTypes DEF DueFrom
<1>3. s = [k \in 1 .. appended[y] |-> journal[p + k]]
  BY <1>2, JournalTypes
<1> QED
  BY <1>1, <1>2, <1>3 DEF DueFrom, EntriesOf

-----------------------------------------------------------------------------
(* What a step leaves alone.                                               *)

LEMMA KeptJournal ==
  ASSUME JournalInv
  PROVE  /\ UNCHANGED <<journal, appended>> => JournalOwn'
         /\ UNCHANGED <<send, reply, closed, appended, running>> => UnrunOwn'
         /\ UNCHANGED <<resync, open, send, route>> => ResyncOwn'
         /\ UNCHANGED <<route, closed, exited, resync, journal, cursor, open, appended>>
              => CursorOwn'
         /\ UNCHANGED <<route, got, rx, appended, journal>> => GotOwn'
         /\ UNCHANGED <<records, rest, appended, running, send, inbox>> => RecordsOwn'
         /\ UNCHANGED <<records, rest, journal>> => OrderOwn'
         /\ UNCHANGED <<route, records, rest, journal>> => JournalHolds'
<1> USE DEF JournalInv
<1>1. UNCHANGED <<journal, appended>> => JournalOwn'
  BY DEF JournalOwn
<1>2. UNCHANGED <<send, reply, closed, appended, running>> => UnrunOwn'
  BY DEF UnrunOwn, Early, NotRun
<1>3. UNCHANGED <<resync, open, send, route>> => ResyncOwn'
  BY DEF ResyncOwn
<1>4. UNCHANGED <<route, closed, exited, resync, journal, cursor, open, appended>> => CursorOwn'
  BY DEF CursorOwn, Following, DueFrom, Due, At
<1>5. UNCHANGED <<route, got, rx, appended, journal>> => GotOwn'
  BY DEF GotOwn, EntriesOf, Holds
<1>6. UNCHANGED <<records, rest, appended, running, send, inbox>> => RecordsOwn'
  BY DEF RecordsOwn, Records, Bound, EntriesOf, Through, Before
<1>7. UNCHANGED <<records, rest, journal>> => OrderOwn'
  <2>1. UNCHANGED <<records, rest>> => Records' = Records
    BY DEF Records
  <2> QED
    BY <2>1 DEF OrderOwn, Covers
<1>8. UNCHANGED <<route, records, rest, journal>> => JournalHolds'
  BY DEF JournalHolds, Records, Holds
<1> QED
  BY <1>1, <1>2, <1>3, <1>4, <1>5, <1>6, <1>7, <1>8

LEMMA FollowsOn ==
  ASSUME CursorOwn, UNCHANGED <<journal, cursor, appended>>, Following' => Following,
         Due' = Due, Due = 0 \/ open' = open
  PROVE  CursorOwn'
<1> SUFFICES ASSUME Following' PROVE \E p \in 0 .. Len(journal) : DueFrom(p)'
  BY DEF CursorOwn
<1>1. PICK p \in 0 .. Len(journal) : DueFrom(p)
  BY DEF CursorOwn
<1>2. DueFrom(p)'
  BY <1>1 DEF DueFrom, At
<1> QED
  BY <1>2

LEMMA RecordsOn ==
  ASSUME RecordsOwn, UNCHANGED <<records, rest>>,
         \A y \in Exchanges : Through(y) => Through(y)' /\ appended'[y] = appended[y]
  PROVE  RecordsOwn'
<1> SUFFICES ASSUME NEW i \in DOMAIN Records, Records[i].entries # <<>> PROVE Bound(Records[i])'
  BY DEF RecordsOwn, Records
<1>1. Bound(Records[i])
  BY DEF RecordsOwn
<1>2. EntriesOf(Records[i].x)' = EntriesOf(Records[i].x)
  BY <1>1 DEF Bound, EntriesOf, Records
<1> QED
  BY <1>1, <1>2 DEF Bound, Records

(* A Put that writes what route has bound, or part of it. *)
Writes(rec) ==
    \A i \in DOMAIN Records' :
      \/ Records'[i] = Garbage
      \/ i \in DOMAIN Records /\ Records'[i] = Records[i]
      \/ i = Len(Records') /\ Records'[i] = rec

LEMMA PutWrites ==
  ASSUME TypeInv, NEW rec \in Record, PutLine(rec) \/ PutPart(rec)
  PROVE  Writes(rec) /\ DOMAIN Records' = 1 .. Len(Records') /\ Len(Records') \in Nat
<1> DEFINE L == Record \union {Garbage}
<1>1. records \in Seq(L) /\ rest \in Seq(L) /\ Garbage \in L
  BY DEF TypeInv, TypeOK, StoreType
<1>2. Records \in Seq(L) /\ Len(Records) = Len(records) + Len(rest)
      /\ \A i \in 1 .. Len(records) : i \in DOMAIN Records /\ Records[i] = records[i]
  BY <1>1, ConcatProperties, LenProperties DEF Records
<1>3. ASSUME UNCHANGED <<records, rest>>
      PROVE  Writes(rec) /\ Records' = Records
  BY <1>3 DEF Writes, Records
<1>4. ASSUME NEW z \in L, records' \o rest' = Append(records, z), z = rec \/ z = Garbage
      PROVE  Writes(rec) /\ Records' \in Seq(L)
  <2>1. Records' = Append(records, z)
    BY <1>4 DEF Records
  <2>2. /\ Records' \in Seq(L) /\ Len(Records') = Len(records) + 1 /\ Len(records) \in Nat
        /\ DOMAIN Records' = 1 .. Len(records) + 1
        /\ \A i \in 1 .. Len(records) : Records'[i] = records[i]
        /\ Records'[Len(records) + 1] = z
    BY <1>1, <1>4, <2>1, AppendProperties, LenProperties
  <2> QED
    BY <1>2, <1>4, <2>2 DEF Writes
<1>5. \/ UNCHANGED <<records, rest>>
      \/ \E z \in L : records' \o rest' = Append(records, z) /\ (z = rec \/ z = Garbage)
  <2>1. \A z \in L : records \o <<z>> = Append(records, z)
    BY <1>1
  <2>2. \A z \in L : Append(records, z) \o <<>> = Append(records, z)
    <3>1. \A z \in L : Append(records, z) \in Seq(L)
      BY <1>1
    <3> QED
      BY <3>1, ConcatEmptySeq
  <2>3. CASE PutLine(rec)
    BY <1>1, <2>2, <2>3 DEF PutLine
  <2>4. CASE PutPart(rec)
    BY <1>1, <2>1, <2>2, <2>4 DEF PutPart, PutLine
  <2> QED
    BY <2>3, <2>4
<1>6. Writes(rec) /\ Records' \in Seq(L)
  BY <1>2, <1>3, <1>4, <1>5
<1> QED
  BY <1>6, LenProperties

(* What route puts names what it has bound. *)
LEMMA PutsBound ==
  ASSUME TypeInv, Apart, JournalInv, route \in {"put", "exitPut"},
         PutLine(RecordOf(rx, got)) \/ PutPart(RecordOf(rx, got)),
         UNCHANGED <<journal, appended>>,
         \A y \in Exchanges : Through(y) => Through(y)'
  PROVE  RecordsOwn' /\ OrderOwn' /\ JournalHolds'
<1> DEFINE rec == RecordOf(rx, got)
<1> USE DEF JournalInv
<1>1. rx \in Exchanges /\ got \in Seq(Entry) /\ rec \in Record
  BY JournalTypes, Shapes DEF TypeInv, RouteCarries, RecordOf, Record
<1>2. got # <<>> => /\ got = EntriesOf(rx) /\ Through(rx)
                    /\ \A k \in DOMAIN got : Holds(got[k])
                    /\ journal # <<>> /\ Newest(journal) = Newest(got)
  BY <1>1 DEF GotOwn, Apart, RouteOwn, Idle, Quiet, Early, Before, Through
<1>3. /\ Writes(rec) /\ DOMAIN Records' = 1 .. Len(Records') /\ Len(Records') \in Nat
      /\ rec.x = rx /\ rec.entries = got
  BY <1>1, PutWrites DEF RecordOf
<1>4. \A y \in Exchanges : EntriesOf(y)' = EntriesOf(y)
  BY DEF EntriesOf
<1> HIDE DEF rec
<1>5. RecordsOwn'
  <2> SUFFICES ASSUME NEW i \in DOMAIN Records', Records'[i].entries # <<>>
               PROVE  Bound(Records[i])'
    BY DEF RecordsOwn
  <2>1. CASE Records'[i] = Garbage
    BY <2>1 DEF Garbage
  <2>2. CASE i \in DOMAIN Records /\ Records'[i] = Records[i]
    BY <1>4, <2>2 DEF RecordsOwn, Bound
  <2>3. CASE Records'[i] = rec
    BY <1>1, <1>2, <1>3, <1>4, <2>3 DEF Bound
  <2> QED
    BY <1>3, <2>1, <2>2, <2>3 DEF Writes
<1>6. \A i \in DOMAIN Records' : \A k \in DOMAIN Records'[i].entries :
        Holds(Records'[i].entries[k])
  <2> SUFFICES ASSUME NEW i \in DOMAIN Records', NEW k \in DOMAIN Records'[i].entries
               PROVE  Holds(Records'[i].entries[k])
    OBVIOUS
  <2>1. CASE Records'[i] = Garbage
    BY <2>1 DEF Garbage
  <2>2. CASE i \in DOMAIN Records /\ Records'[i] = Records[i]
    BY <2>2 DEF JournalHolds
  <2>3. CASE Records'[i] = rec
    <3>1. k \in DOMAIN got /\ got # <<>>
      BY <1>3, <2>3
    <3> QED
      BY <1>2, <1>3, <2>3, <3>1
  <2> QED
    BY <1>3, <2>1, <2>2, <2>3 DEF Writes
<1>7. OrderOwn'
  <2> SUFFICES ASSUME NEW i \in DOMAIN Records', NEW p \in DOMAIN journal,
                      Records'[i].entries # <<>>, journal[p] = Newest(Records'[i].entries),
                      NEW j \in 1 .. i, NEW k \in DOMAIN Records'[j].entries
               PROVE  \E q \in 1 .. p : journal[q] = Records'[j].entries[k]
    BY DEF OrderOwn, Covers
  <2>1. j \in DOMAIN Records' /\ i \in Nat /\ j <= i /\ i <= Len(Records')
    BY <1>3
  <2>2. Records'[j] # Garbage /\ Records'[i] # Garbage
    BY DEF Garbage
  <2>3. CASE i \in DOMAIN Records /\ Records'[i] = Records[i]
    <3>1. CASE j \in DOMAIN Records /\ Records'[j] = Records[j]
      BY <2>3, <3>1 DEF OrderOwn, Covers
    <3>2. CASE j = Len(Records')
      <4>1. j = i
        BY <1>3, <2>1, <3>2
      <4> QED
        BY <2>3, <4>1 DEF OrderOwn, Covers
    <3> QED
      BY <1>3, <2>1, <2>2, <3>1, <3>2 DEF Writes
  <2>4. CASE Records'[i] = rec
    <3>1. Len(journal) \in DOMAIN journal /\ journal[Len(journal)] = journal[p]
      BY <1>2, <1>3, <2>4, JournalTypes DEF Newest
    <3>2. p = Len(journal)
      BY <3>1 DEF JournalOwn
    <3> QED
      BY <1>6, <2>1, <3>2, JournalTypes DEF Holds
  <2> QED
    BY <1>3, <2>2, <2>3, <2>4 DEF Writes
<1>8. JournalHolds'
  BY <1>6 DEF JournalHolds, Holds
<1> QED
  BY <1>5, <1>7, <1>8

-----------------------------------------------------------------------------
(* The steps.                                                              *)

(* The journal's newest entry is followed by none. *)
LEMMA NoneDue ==
  ASSUME TypeInv, TypeInv',
         Following' => cursor' = Newest(journal) /\ journal' = journal /\ Due' = 0
  PROVE  CursorOwn'
<1> SUFFICES ASSUME Following' PROVE \E p \in 0 .. Len(journal') : DueFrom(p)'
  BY DEF CursorOwn
<1>1. Len(journal) \in DOMAIN journal \/ (journal = <<>> /\ Len(journal) = 0)
  BY JournalTypes, EmptySeq
<1>2. At(Len(journal))'
  BY <1>1, JournalTypes, EntryIsSome DEF At, Newest
<1>3. DueFrom(Len(journal))'
  BY <1>2, JournalTypes DEF DueFrom
<1> QED
  BY <1>3, JournalTypes

LEMMA SendJournal ==
  ASSUME TypeInv, TypeInv', Apart, JournalInv, NEW y \in Exchanges,
         Send(y) \/ GiveUp(y) \/ SendNext(y)
  PROVE  JournalInv'
<1> USE Shapes DEF JournalInv
<1>0. /\ JournalOwn' /\ GotOwn' /\ OrderOwn' /\ JournalHolds'
      /\ \A z \in Exchanges : z # y => send'[z] = send[z] /\ reply'[z] = reply[z]
      /\ UNCHANGED <<appended, running, records, rest, closed, route>>
  <2>1. /\ UNCHANGED <<journal, appended, running, records, rest, closed, route, rx, got>>
        /\ \A z \in Exchanges : z # y => send'[z] = send[z] /\ reply'[z] = reply[z]
    BY DEF Send, GiveUp, SendNext, ResyncCursor, Prompt, Prompted, SendFails, FailSend, Goto
  <2> QED
    BY <2>1, KeptJournal
<1>1. CASE Send(y)
  <2>1. UnrunOwn'
    BY <1>0, <1>1 DEF Send, Goto, UnrunOwn, Early, NotRun
  <2>2. ResyncOwn'
    BY <1>1 DEF Send, Goto, ResyncOwn
  <2>3. Due' = Due
    BY <1>1, JournalTypes DEF Send, UnrunOwn, NotRun, Due
  <2>4. CursorOwn'
    <3>1. Due = 0 \/ open' = open
      BY <1>1 DEF Send, Due
    <3> QED
      BY <1>1, <2>3, <3>1, FollowsOn DEF Send, Following
  <2>5. RecordsOwn'
    BY <1>0, <1>1, RecordsOn DEF Send, Goto, Through, Before
  <2> QED
    BY <1>0, <2>1, <2>2, <2>4, <2>5
<1>2. CASE GiveUp(y)
  <2>1. UnrunOwn'
    BY <1>0, <1>2 DEF GiveUp, Goto, UnrunOwn, Early, NotRun
  <2>2. ResyncOwn'
    BY <1>2, KeptJournal DEF GiveUp, Goto, ResyncOwn, Apart, SendsOwn, SendOwn
  <2>3. RecordsOwn'
    BY <1>0, <1>2, RecordsOn DEF GiveUp, Goto, Through, Before
  <2> QED
    BY <1>0, <1>2, <2>1, <2>2, <2>3, KeptJournal DEF GiveUp
<1>3. CASE ResyncCursor(y)
  <2>1. UnrunOwn'
    BY <1>0, <1>3 DEF ResyncCursor, Goto, UnrunOwn, Early, NotRun
  <2>2. ResyncOwn'
    BY <1>0, <1>3 DEF ResyncCursor, Goto, ResyncOwn
  <2>3. CursorOwn'
    <3>1. CASE resync' = resync /\ cursor' = cursor
      BY <1>3, <3>1, KeptJournal DEF ResyncCursor
    <3>2. CASE cursor' = Newest(journal)
      <4>1. open = y \/ exited
        BY <1>3 DEF ResyncCursor, Apart, SendsOwn, SendOwn, Early
      <4>2. appended[y] = 0
        BY <1>3 DEF ResyncCursor, UnrunOwn, Early, NotRun
      <4> QED
        BY <1>3, <3>2, <4>1, <4>2, NoneDue DEF ResyncCursor, Following, Due
    <3> QED
      BY <1>3, <3>1, <3>2 DEF ResyncCursor
  <2>4. RecordsOwn'
    BY <1>0, <1>3, RecordsOn DEF ResyncCursor, Goto, Through, Before
  <2> QED
    BY <1>0, <2>1, <2>2, <2>3, <2>4
<1>4. CASE Prompt(y)
  <2>1. UnrunOwn'
    BY <1>0, <1>4 DEF Prompt, Goto, UnrunOwn, Early, NotRun
  <2>2. ResyncOwn'
    BY <1>0, <1>4 DEF Prompt, Goto, ResyncOwn
  <2>3. \A z \in Exchanges : Through(z) => Through(z)'
    <3>1. CASE inbox' = inbox
      BY <1>0, <1>4, <3>1 DEF Prompt, Goto, Through, Before
    <3>2. CASE inbox' # inbox
      <4>1. PICK l \in Line : inbox' = Append(inbox, l) /\ l.x = y
        BY <1>4, <3>2 DEF Prompt, Write, Line
      <4>2. WrittenTo(l)
        BY <4>1, Written
      <4>3. \A i \in DOMAIN inbox' :
              inbox'[i].x = y \/ (i \in DOMAIN inbox /\ inbox'[i] = inbox[i])
        BY <4>1, <4>2 DEF WrittenTo
      <4>4. \A z \in Exchanges : Through(z) => z # y
        BY <1>4 DEF Prompt, Through, Before
      <4>5. \A z \in Exchanges : ~Before(z) /\ z # y => ~Before(z)'
        BY <1>0 DEF Before
      <4> QED
        BY <1>0, <4>3, <4>4, <4>5 DEF Through
    <3> QED
      BY <3>1, <3>2
  <2>4. RecordsOwn'
    BY <1>0, <2>3, RecordsOn
  <2> QED
    BY <1>0, <1>4, <2>1, <2>2, <2>4, KeptJournal DEF Prompt
<1>5. CASE Prompted(y)
  <2>1. UnrunOwn'
    BY <1>0, <1>5 DEF Prompted, PromptFails, Goto, UnrunOwn, Early, NotRun
  <2>2. ResyncOwn'
    BY <1>0, <1>5 DEF Prompted, Goto, ResyncOwn
  <2>3. RecordsOwn'
    BY <1>0, <1>5, RecordsOn DEF Prompted, Goto, Through, Before
  <2> QED
    BY <1>0, <1>5, <2>1, <2>2, <2>3, KeptJournal DEF Prompted
<1>6. CASE SendFails(y)
  <2>1. UnrunOwn'
    BY <1>0, <1>6 DEF SendFails, Goto, UnrunOwn, Early, NotRun
  <2>2. ResyncOwn'
    BY <1>0, <1>6 DEF SendFails, Goto, ResyncOwn
  <2>3. CursorOwn'
    <3>1. Following => Due' = Due /\ (Due = 0 \/ open' = open)
      BY <1>6 DEF SendFails, Following, UnrunOwn, NotRun, Due
    <3> QED
      BY <1>6, <3>1, FollowsOn DEF SendFails, Following, CursorOwn
  <2>4. RecordsOwn'
    BY <1>0, <1>6, RecordsOn DEF SendFails, Goto, Through, Before
  <2> QED
    BY <1>0, <2>1, <2>2, <2>3, <2>4
<1>7. CASE FailSend(y)
  <2>1. UnrunOwn'
    BY <1>0, <1>7 DEF FailSend, Goto, UnrunOwn, Early, NotRun
  <2>2. ResyncOwn'
    BY <1>0, <1>7 DEF FailSend, Goto, ResyncOwn
  <2>3. RecordsOwn'
    BY <1>0, <1>7, RecordsOn DEF FailSend, Goto, Through, Before
  <2> QED
    BY <1>0, <1>7, <2>1, <2>2, <2>3, KeptJournal DEF FailSend
<1> QED
  BY <1>1, <1>2, <1>3, <1>4, <1>5, <1>6, <1>7 DEF SendNext

LEMMA CancelJournal ==
  ASSUME TypeInv, Apart, JournalInv, NEW y \in Exchanges, Cancel(y) \/ CancelNext(y)
  PROVE  JournalInv'
<1> USE DEF JournalInv
<1>1. /\ UNCHANGED <<open, resync, cursor, exited, closed, route, rx, got, send, reply, records,
                     rest, running, journal, appended>>
      /\ inbox' = inbox \/ \E l \in Line : inbox' = Append(inbox, l) /\ ~IsPrompt(l)
  BY DEF Cancel, CancelNext, MarkCancelled, CallCancel, CancelReturns, CancelFails, CancelOver,
         Write, Line, IsPrompt
<1>2. \A z \in Exchanges : Through(z) => Through(z)'
  <2>1. CASE inbox' = inbox
    BY <1>1, <2>1 DEF Through, Before
  <2>2. CASE inbox' # inbox
    <3>1. PICK l \in Line : inbox' = Append(inbox, l) /\ ~IsPrompt(l)
      BY <1>1, <2>2
    <3>2. WrittenTo(l)
      BY <3>1, Written
    <3>3. \A i \in DOMAIN inbox' :
            ~IsPrompt(inbox'[i]) \/ (i \in DOMAIN inbox /\ inbox'[i] = inbox[i])
      BY <3>1, <3>2 DEF WrittenTo
    <3> QED
      BY <1>1, <3>3 DEF Through, Before
  <2> QED
    BY <2>1, <2>2
<1>3. RecordsOwn'
  BY <1>1, <1>2, RecordsOn
<1> QED
  BY <1>1, <1>3, KeptJournal

(* The harness. *)
LEMMA ReadsJournal ==
  ASSUME TypeInv, Apart, JournalInv, HarnessReads
  PROVE  JournalInv'
<1> USE Shapes DEF JournalInv
<1>1. /\ inbox # <<>> /\ inbox' = Tail(inbox) /\ alive
      /\ UNCHANGED <<open, resync, cursor, exited, closed, route, rx, got, send, records, rest,
                     journal, appended>>
  BY DEF HarnessReads
<1>2. inbox # <<>> => 1 \in DOMAIN inbox /\ Head(inbox) = inbox[1]
  BY EmptySeq, LenProperties
<1>3. PICK x \in Exchanges : x = Head(inbox).x /\ 1 \in DOMAIN inbox
  BY <1>1, <1>2, Elements
<1>4. CASE running' = running
  <2>1. UnrunOwn'
    BY <1>1, <1>4 DEF HarnessReads, UnrunOwn, Early, NotRun, Before, Apart, LinesOwn, IsPrompt,
                      SendsOwn, SendOwn
  <2>2. \A z \in Exchanges : Through(z) => Through(z)'
    BY <1>1, <1>4 DEF Through, Before
  <2>3. RecordsOwn'
    BY <1>1, <2>2, RecordsOn
  <2> QED
    BY <1>1, <2>1, <2>3, KeptJournal
<1>5. CASE running' # running
  <2>1. running' = x /\ IsPrompt(inbox[1])
        /\ (Asks => reply' = [reply EXCEPT ![x] = "accepted"]) /\ (~Asks => reply' = reply)
    BY <1>1, <1>2, <1>3, <1>5 DEF HarnessReads, IsPrompt
  <2>2. ~Before(x) /\ Owner(x)
    BY <1>2, <1>3, <2>1 DEF Apart, LinesOwn
  <2>3. send[x] = "fail" => closed
    BY <1>1, <1>3, <2>1, EmptySeq DEF Apart, SendsOwn, SendOwn, EndsOwn, Idle
  <2>4. send[x] = "asked" => Asks
    BY <1>3 DEF Apart, SendsOwn, SendOwn
  <2>5. ~Early(x)' /\ send[x] # "idle"
    BY <1>1, <1>3, <2>1, <2>2, <2>4 DEF Early, Before
  <2>6. UnrunOwn'
    BY <1>1, <1>3, <2>1, <2>3, <2>5 DEF UnrunOwn, Early, NotRun
  <2>7. \A z \in Exchanges : Through(z) => Through(z)'
    BY <1>1, <1>2, <1>3, <2>1 DEF Through, Before
  <2>8. RecordsOwn'
    BY <1>1, <2>7, RecordsOn
  <2> QED
    BY <1>1, <2>6, <2>8, KeptJournal
<1> QED
  BY <1>4, <1>5

LEMMA AppendsJournal ==
  ASSUME TypeInv, TypeInv', Apart, JournalInv, HarnessAppends
  PROVE  JournalInv'
<1> USE Shapes DEF JournalInv
<1>0. PICK y \in Exchanges : y = running
  BY DEF HarnessAppends
<1>n. PICK n \in 1 .. MaxEntries : n = appended[y] + 1
  BY <1>0, JournalTypes DEF HarnessAppends
<1> DEFINE e == <<y, n>>
<1>1. /\ y = running /\ n = appended[y] + 1
      /\ appended' = [appended EXCEPT ![y] = n] /\ journal' = Append(journal, e)
      /\ UNCHANGED <<open, resync, cursor, exited, closed, route, rx, got, send, reply, records,
                     rest, running, inbox>>
  <2>1. appended' = [appended EXCEPT ![y] = n]
    BY <1>0, <1>n DEF HarnessAppends
  <2>2. appended'[y] = n
    BY <2>1, JournalTypes
  <2> QED
    BY <1>0, <1>n, <2>1, <2>2 DEF HarnessAppends
<1>2. /\ Len(journal') = Len(journal) + 1 /\ Len(journal) \in Nat
      /\ DOMAIN journal' = 1 .. Len(journal) + 1 /\ DOMAIN journal = 1 .. Len(journal)
      /\ \A i \in DOMAIN journal : journal'[i] = journal[i]
      /\ journal'[Len(journal) + 1] = e
  BY <1>1, JournalTypes, AppendProperties DEF Entry
<1>3. Owner(y) /\ route \notin {"unanswered", "bind", "put", "release"}
  BY <1>1 DEF Apart, RunOwn, RouteOwn, Idle, Quiet
<1>4. JournalOwn'
  <2>1. \A i \in DOMAIN journal : journal[i][2] <= appended[journal[i][1]]
        /\ journal[i][1] \in Exchanges /\ appended[journal[i][1]] \in Nat /\ journal[i][2] \in Nat
    BY JournalTypes, EntryIsSome DEF JournalOwn
  <2>2. \A i \in DOMAIN journal : journal[i] # e
    BY <1>1, <2>1, JournalTypes
  <2>3. \A i, j \in DOMAIN journal' : journal'[i] = journal'[j] => i = j
    BY <1>2, <2>2 DEF JournalOwn
  <2>4. \A i \in DOMAIN journal' : journal'[i][2] <= appended'[journal'[i][1]]
    <3>1. \A z \in Exchanges : appended'[z] \in Nat /\ appended[z] <= appended'[z]
      BY <1>1, JournalTypes
    <3>2. ASSUME NEW i \in DOMAIN journal PROVE journal'[i][2] <= appended'[journal'[i][1]]
      <4>1. /\ journal[i][1] \in Exchanges /\ journal[i][2] \in Nat
            /\ journal[i][2] <= appended[journal[i][1]] /\ appended[journal[i][1]] \in Nat
        BY <2>1
      <4>2. journal'[i] = journal[i]
        BY <1>2
      <4>3. journal[i][2] <= appended'[journal[i][1]]
        BY <3>1, <4>1
      <4> QED
        BY <4>2, <4>3
    <3>3. e[2] <= appended'[e[1]]
      <4>1. appended'[y] = n /\ n \in Nat
        BY <1>1, JournalTypes
      <4> QED
        BY <4>1
    <3> HIDE DEF e
    <3> QED
      BY <1>2, <3>2, <3>3
  <2> QED
    BY <2>3, <2>4 DEF JournalOwn
<1>5. UnrunOwn'
  BY <1>1, JournalTypes DEF UnrunOwn, Early, NotRun
<1>6. CursorOwn'
  <2> SUFFICES ASSUME Following' PROVE \E p \in 0 .. Len(journal') : DueFrom(p)'
    BY DEF CursorOwn
  <2>1. open = y /\ Following /\ Due = appended[y] /\ Due' = n
    BY <1>1, <1>3, JournalTypes DEF Following, Owner, Due
  <2>2. PICK p \in 0 .. Len(journal) : DueFrom(p)
    BY <2>1 DEF CursorOwn
  <2>3. At(p)'
    BY <1>1, <1>2, <2>2 DEF DueFrom, At
  <2>4. Len(journal) = p + (n - 1) /\ \A k \in 1 .. n - 1 : journal[p + k] = <<y, k>>
    BY <1>1, <2>1, <2>2, JournalTypes DEF DueFrom
  <2>5. ASSUME NEW k \in 1 .. n PROVE journal'[p + k] = <<y, k>>
    <3>1. CASE k = n
      BY <1>2, <2>4, <3>1
    <3>2. CASE k \in 1 .. n - 1
      <4>1. p + k \in DOMAIN journal /\ journal[p + k] = <<y, k>>
        BY <1>2, <2>4, <3>2
      <4> QED
        BY <1>2, <4>1
    <3> QED
      BY <3>1, <3>2
  <2>6. Len(journal') = p + n /\ p \in 0 .. Len(journal')
    BY <1>2, <2>4
  <2>7. open' = y
    BY <1>1, <2>1
  <2>8. DueFrom(p)'
    BY <2>1, <2>3, <2>5, <2>6, <2>7 DEF DueFrom
  <2> QED
    BY <2>6, <2>8
<1>7. GotOwn'
  BY <1>1, <1>3 DEF GotOwn
<1>8. RecordsOwn'
  BY <1>1, JournalTypes, RecordsOn DEF Through, Before
<1>9. Records' = Records
  BY <1>1 DEF Records
<1>10. OrderOwn'
  <2> SUFFICES ASSUME NEW i \in DOMAIN Records, NEW p \in DOMAIN journal',
                      Records[i].entries # <<>>, journal'[p] = Newest(Records[i].entries)
               PROVE  Covers(i, p)'
    BY <1>9 DEF OrderOwn
  <2>1. p \in DOMAIN journal
    <3>1. Bound(Records[i])
      BY DEF RecordsOwn
    <3>2. PICK z \in Exchanges : z = Records[i].x /\ Records[i].entries = EntriesOf(z) /\ z # y
      BY <1>1, <3>1 DEF Bound, Through
    <3>3. Newest(Records[i].entries) = <<z, appended[z]>>
      BY <3>2, LastEntry
    <3>4. journal'[p] # e
      BY <3>2, <3>3
    <3> HIDE DEF e
    <3> QED
      BY <1>2, <3>4
  <2>2. Covers(i, p)
    <3>1. journal[p] = Newest(Records[i].entries)
      BY <1>2, <2>1
    <3> QED
      BY <2>1, <3>1 DEF OrderOwn
  <2>3. ASSUME NEW q \in 1 .. p PROVE journal'[q] = journal[q]
    <3>1. q \in DOMAIN journal
      BY <1>2, <2>1
    <3> HIDE DEF e
    <3> QED
      BY <1>2, <3>1
  <2> QED
    BY <1>9, <2>2, <2>3 DEF Covers
<1>11. JournalHolds'
  BY <1>1, <1>2, <1>9 DEF JournalHolds, Holds
<1>12. ResyncOwn'
  BY <1>1, KeptJournal
<1> QED
  BY <1>4, <1>5, <1>6, <1>7, <1>8, <1>10, <1>11, <1>12

LEMMA HarnessJournal ==
  ASSUME TypeInv, TypeInv', Apart, JournalInv, HarnessNext
  PROVE  JournalInv'
<1> USE Shapes DEF JournalInv
<1>1. CASE HarnessTells
  BY <1>1, KeptJournal DEF HarnessTells
<1>2. CASE HarnessEnds \/ HarnessExits
  <2>1. /\ UNCHANGED <<open, resync, cursor, exited, closed, route, rx, got, send, reply, records,
                       rest, journal, appended>>
        /\ running' = None /\ (inbox' = inbox \/ inbox' = <<>>)
    BY <1>2 DEF HarnessEnds, HarnessExits
  <2>2. UnrunOwn'
    BY <2>1 DEF UnrunOwn, Early, NotRun
  <2>3. RecordsOwn'
    BY <2>1, RecordsOn DEF Through, Before
  <2> QED
    BY <2>1, <2>2, <2>3, KeptJournal
<1> QED
  BY <1>1, <1>2, ReadsJournal, AppendsJournal DEF HarnessNext

(* The goroutine route. *)
LEMMA BindsJournal ==
  ASSUME TypeInv, TypeInv', Apart, JournalInv, Bind
  PROVE  JournalInv'
<1> USE Shapes DEF JournalInv
<1>1. /\ route = "bind" /\ route' = "put"
      /\ UNCHANGED <<open, closed, exited, rx, send, reply, records, rest, running, inbox, journal,
                     appended>>
  BY DEF Bind
<1>2. rx \in Exchanges /\ Owner(rx)
  BY <1>1 DEF Apart, RouteOwn
<1>3. UnrunOwn' /\ ResyncOwn' /\ JournalOwn' /\ RecordsOwn' /\ OrderOwn'
  BY <1>1, KeptJournal DEF ResyncOwn
<1>4. JournalHolds'
  BY <1>1 DEF JournalHolds, Records, Holds
<1>5. CASE got' = <<>> /\ resync' = TRUE
  BY <1>1, <1>3, <1>4, <1>5 DEF GotOwn, CursorOwn, Following
<1>6. CASE ~(got' = <<>> /\ resync' = TRUE)
  <2>1. /\ alive /\ ~closed /\ got' = Since(cursor) /\ UNCHANGED resync
        /\ cursor' = IF got' = <<>> THEN cursor ELSE Newest(got')
    BY <1>6 DEF Bind, CursorStale
  <2>2. open = rx /\ Following /\ Due = appended[rx]
    <3>1. open = rx /\ ~exited /\ ~Early(rx) /\ send[rx] # "fail"
      BY <1>1, <1>2, <2>1 DEF Owner, Apart, RouteOwn, EndsOwn
    <3> QED
      BY <1>1, <1>2, <2>1, <3>1 DEF ResyncOwn, Following, Due, Early
  <2>3. PICK p \in 0 .. Len(journal) : DueFrom(p)
    BY <2>2 DEF CursorOwn
  <2>4. got' = EntriesOf(rx)
    BY <1>2, <2>1, <2>2, <2>3, SinceDue
  <2>5. appended[rx] \in Nat /\ Len(journal) = p + appended[rx]
        /\ \A k \in 1 .. appended[rx] : journal[p + k] = <<rx, k>>
    BY <1>2, <2>2, <2>3, JournalTypes DEF DueFrom
  <2>6. \A k \in DOMAIN got' : Holds(got'[k])
    <3>1. \A k \in 1 .. appended[rx] : p + k \in DOMAIN journal
      BY <2>5, JournalTypes
    <3> QED
      BY <2>4, <2>5, <3>1 DEF EntriesOf, Holds
  <2>7. got' # <<>> => journal # <<>> /\ Newest(journal) = Newest(got')
    <3> SUFFICES ASSUME got' # <<>> PROVE journal # <<>> /\ Newest(journal) = Newest(got')
      OBVIOUS
    <3>1. appended[rx] > 0 /\ Newest(got') = <<rx, appended[rx]>>
      BY <1>2, <2>4, LastEntry
    <3>2. journal[Len(journal)] = <<rx, appended[rx]>> /\ Len(journal) > 0
      BY <2>5, <3>1
    <3>3. journal # <<>>
      BY <3>2, JournalTypes, EmptySeq
    <3> QED
      BY <3>1, <3>2, <3>3 DEF Newest
  <2>8. GotOwn'
    <3>1. EntriesOf(rx)' = EntriesOf(rx)
      BY <1>1 DEF EntriesOf
    <3> QED
      BY <1>1, <2>4, <2>6, <2>7, <3>1 DEF GotOwn, Holds
  <2>9. CursorOwn'
    <3>1. Due' = 0
      BY <1>1 DEF Due
    <3>2. CASE got' = <<>>
      <4>1. Due = 0
        <5>1. DOMAIN EntriesOf(rx) = 1 .. appended[rx]
          BY DEF EntriesOf
        <5>2. 1 \notin 1 .. appended[rx]
          BY <2>4, <3>2, <5>1
        <5>3. appended[rx] = 0
          BY <2>5, <5>2
        <5> QED
          BY <2>2, <5>3
      <4>2. UNCHANGED <<journal, appended>> /\ open' = open
        BY <1>1
      <4>3. cursor' = cursor
        BY <2>1, <3>2
      <4> QED
        BY <2>2, <3>1, <4>1, <4>2, <4>3, FollowsOn
    <3>3. CASE got' # <<>>
      BY <1>1, <2>1, <2>7, <3>1, <3>3, NoneDue
    <3> QED
      BY <3>2, <3>3
  <2> QED
    BY <1>3, <1>4, <2>8, <2>9
<1> QED
  BY <1>5, <1>6

LEMMA RouteJournal ==
  ASSUME TypeInv, TypeInv', Apart, JournalInv, RouteNext
  PROVE  JournalInv'
<1> USE Shapes DEF JournalInv
<1>0. /\ JournalOwn' /\ UnrunOwn'
      /\ UNCHANGED <<journal, appended, send, inbox, running, closed>>
      /\ ~Bind => cursor' = cursor /\ resync' = resync
  <2>1. /\ UNCHANGED <<journal, appended, send, reply, inbox, running, closed>>
        /\ ~Bind => cursor' = cursor /\ resync' = resync
    BY DEF RouteNext, RouteTakes, RouteUnanswered, Bind, Put, Release, RoutePushes, RouteExits,
           ExitPut, ExitFail
  <2> QED
    BY <2>1, KeptJournal
<1>1. CASE RouteTakes \/ RouteUnanswered \/ RoutePushes \/ ExitFail
  <2>1. /\ UNCHANGED <<open, resync, cursor, exited, got, records, rest>>
        /\ route \notin {"off", "put", "release"} /\ route' \notin {"off", "put", "release"}
    BY <1>1 DEF RouteTakes, RouteUnanswered, RoutePushes, ExitFail
  <2>2. ResyncOwn' /\ GotOwn'
    BY <1>0, <2>1 DEF ResyncOwn, GotOwn
  <2>3. CursorOwn'
    BY <1>0, <2>1, FollowsOn DEF Due, Following
  <2>4. RecordsOwn' /\ OrderOwn'
    BY <1>0, <2>1, KeptJournal
  <2>5. JournalHolds'
    BY <1>0, <2>1 DEF JournalHolds, Records, Holds
  <2> QED
    BY <1>0, <2>2, <2>3, <2>4, <2>5
<1>2. CASE Put \/ ExitPut
  <2>1. /\ route \in {"put", "exitPut"} /\ route' \in {"release", "exitFail"}
        /\ route = "put" <=> route' = "release"
        /\ UNCHANGED <<open, resync, cursor, exited, rx>>
    BY <1>2 DEF Put, ExitPut
  <2>2. got' = <<>> /\ (route = "exitPut" => got = <<>>)
    BY <1>2, <2>1 DEF Put, ExitPut, GotOwn
  <2>3. Stored(rx, got)
    BY <1>2, <2>1, <2>2 DEF Put, ExitPut, ExitRecorded
  <2>4. RecordsOwn' /\ OrderOwn' /\ JournalHolds'
    BY <1>0, <2>1, <2>3, PutsBound DEF Stored, Through, Before
  <2>5. ResyncOwn' /\ GotOwn'
    BY <1>0, <2>1, <2>2 DEF ResyncOwn, GotOwn
  <2>6. CursorOwn'
    BY <1>0, <2>1, FollowsOn DEF Due, Following
  <2> QED
    BY <1>0, <2>4, <2>5, <2>6
<1>3. CASE Release
  <2>1. /\ UNCHANGED <<resync, cursor, exited, got, records, rest>>
        /\ route = "release" /\ route' = "push" /\ open' = None
    BY <1>3 DEF Release, Apart, RouteOwn, Owner
  <2>2. ResyncOwn' /\ GotOwn'
    BY <2>1 DEF ResyncOwn, GotOwn
  <2>3. CursorOwn'
    BY <1>0, <2>1, FollowsOn DEF Due, Following
  <2>4. RecordsOwn' /\ OrderOwn'
    BY <1>0, <2>1, KeptJournal
  <2>5. JournalHolds'
    BY <1>0, <2>1 DEF JournalHolds, Records, Holds
  <2> QED
    BY <1>0, <2>2, <2>3, <2>4, <2>5
<1>4. CASE RouteExits
  <2>1. /\ UNCHANGED <<resync, cursor, got, records, rest>>
        /\ route = "next" /\ route' \notin {"off", "put"} /\ open' = None /\ exited' = TRUE
    BY <1>4 DEF RouteExits
  <2>2. ResyncOwn' /\ GotOwn' /\ CursorOwn'
    BY <2>1 DEF ResyncOwn, GotOwn, CursorOwn, Following
  <2>3. RecordsOwn' /\ OrderOwn'
    BY <1>0, <2>1, KeptJournal
  <2>4. JournalHolds'
    BY <1>0, <2>1 DEF JournalHolds, Records, Holds
  <2> QED
    BY <1>0, <2>2, <2>3, <2>4
<1> QED
  BY <1>1, <1>2, <1>3, <1>4, BindsJournal DEF RouteNext

(* Close, the end of the process, and a session opened again. *)
LEMMA EndsJournal ==
  ASSUME TypeInv, TypeInv', Apart, JournalInv, Leave \/ Crash
  PROVE  JournalInv'
<1> USE Shapes DEF JournalInv
<1>1. Ends
  BY DEF Leave, Crash
<1>2. /\ route' = "off" /\ got' = <<>> /\ open' = None /\ running' = None /\ inbox' = <<>>
      /\ UNCHANGED <<journal, appended>>
      /\ \A y \in Exchanges : send'[y] = IF Gone(y) THEN "lost" ELSE send[y]
  BY <1>1 DEF Ends
<1>3. ResyncOwn' /\ CursorOwn' /\ GotOwn' /\ JournalHolds' /\ JournalOwn'
  BY <1>2, KeptJournal DEF ResyncOwn, CursorOwn, Following, GotOwn, JournalHolds
<1>4. UnrunOwn'
  BY <1>2 DEF UnrunOwn, Early, NotRun, Gone
<1>5. \A y \in Exchanges : Through(y) => Through(y)'
  BY <1>2 DEF Through, Before, Gone
<1>6. RecordsOwn' /\ OrderOwn'
  <2>1. CASE UNCHANGED <<records, rest>>
    BY <1>2, <1>5, <2>1, RecordsOn, KeptJournal
  <2>2. CASE Crash /\ route \in {"put", "exitPut"}
    BY <1>2, <1>5, <2>2, PutsBound DEF Crash
  <2> QED
    BY <2>1, <2>2 DEF Leave, Crash
<1> QED
  BY <1>3, <1>4, <1>6

(* The last record that names entries is the one that verify looks at. *)
LEMMA LastNamed ==
  ASSUME TypeInv, NEW i \in DOMAIN Records, Records[i].entries # <<>>
  PROVE  \E m \in DOMAIN Records :
           /\ i <= m /\ Records[m].entries # <<>> /\ m \in Nat /\ i \in Nat /\ i >= 1
           /\ LastRecorded = Newest(Records[m].entries)
<1> DEFINE Naming == {j \in DOMAIN Records : Records[j].entries # <<>>}
           m == CHOOSE j \in Naming : \A k \in Naming : k <= j
<1>1. Records \in Seq(Record \union {Garbage})
  BY ConcatProperties DEF TypeInv, TypeOK, StoreType, Records
<1>2. Len(Records) \in Nat /\ DOMAIN Records = 1 .. Len(Records)
  BY <1>1, LenProperties
<1>3. Naming \subseteq 1 .. Len(Records) /\ i \in Naming
  BY <1>2
<1>4. LastRecorded = Newest(Records[m].entries)
  BY <1>3 DEF LastRecorded
<1>5. \E j \in Naming : \A k \in Naming : k <= j
  <2> HIDE DEF Naming
  <2> QED
    BY <1>2, <1>3, Greatest
<1>6. m \in Naming /\ \A k \in Naming : k <= m
  <2> HIDE DEF Naming
  <2> QED
    BY <1>5
<1> HIDE DEF m
<1> QED
  BY <1>2, <1>3, <1>4, <1>6

LEMMA OpensJournal ==
  ASSUME TypeInv, TypeInv', Apart, JournalInv, NewSession
  PROVE  JournalInv'
<1> USE Shapes DEF JournalInv
<1>1. /\ UNCHANGED <<open, resync, exited, closed, rx, got, send, reply, records, rest, running,
                     inbox, journal, appended>>
      /\ route = "off" /\ open = None /\ got = <<>>
  BY DEF NewSession, Apart, EndsOwn, GotOwn
<1>2. JournalOwn' /\ UnrunOwn' /\ RecordsOwn' /\ OrderOwn' /\ ResyncOwn' /\ GotOwn'
  BY <1>1, KeptJournal DEF ResyncOwn, GotOwn
<1>3. CASE route' = "off"
  BY <1>1, <1>2, <1>3 DEF CursorOwn, Following, JournalHolds
<1>4. CASE route' # "off"
  <2>1. Verified /\ cursor' = Newest(journal)
    BY <1>1, <1>4 DEF NewSession
  <2>2. CursorOwn'
    BY <1>1, <2>1, NoneDue DEF Due
  <2>3. \A i \in DOMAIN Records : \A k \in DOMAIN Records[i].entries : Holds(Records[i].entries[k])
    <3> SUFFICES ASSUME NEW i \in DOMAIN Records, NEW k \in DOMAIN Records[i].entries
                 PROVE  Holds(Records[i].entries[k])
      OBVIOUS
    <3>1. Records[i].entries # <<>>
      OBVIOUS
    <3>2. PICK m \in DOMAIN Records :
            /\ i <= m /\ Records[m].entries # <<>> /\ m \in Nat /\ i \in Nat /\ i >= 1
            /\ LastRecorded = Newest(Records[m].entries)
      BY <3>1, LastNamed
    <3>3. PICK y \in Exchanges : Records[m].entries = EntriesOf(y)
      BY <3>2 DEF RecordsOwn, Bound
    <3>4. LastRecorded = <<y, appended[y]>>
      BY <3>2, <3>3, LastEntry
    <3>5. LastRecorded # NoEntry
      BY <3>4
    <3>6. PICK p \in DOMAIN journal : journal[p] = Newest(Records[m].entries)
      BY <2>1, <3>2, <3>5 DEF Verified, Holds
    <3>7. Covers(m, p)
      BY <3>2, <3>6 DEF OrderOwn
    <3>8. PICK q \in 1 .. p : journal[q] = Records[i].entries[k]
      BY <3>2, <3>7 DEF Covers
    <3> QED
      BY <3>6, <3>8, JournalTypes DEF Holds
  <2>4. JournalHolds'
    BY <1>1, <2>3 DEF JournalHolds, Records, Holds
  <2> QED
    BY <1>2, <2>2, <2>4
<1> QED
  BY <1>3, <1>4

LEMMA LosesJournal ==
  ASSUME TypeInv, TypeInv', Apart, JournalInv, JournalLoses
  PROVE  JournalInv'
<1> USE Shapes DEF JournalInv
<1>1. /\ UNCHANGED <<open, resync, exited, closed, route, rx, got, send, reply, records, rest,
                     running, inbox, appended>>
      /\ route = "off" /\ open = None /\ got = <<>>
  BY DEF JournalLoses, Apart, EndsOwn, GotOwn
<1>2. /\ DOMAIN journal' = 1 .. Len(journal) - 1 /\ DOMAIN journal = 1 .. Len(journal)
      /\ Len(journal) \in Nat
      /\ \A i \in DOMAIN journal' : i \in DOMAIN journal /\ journal'[i] = journal[i]
  <2>1. Len(journal) \in Nat \ {0} /\ DOMAIN journal = 1 .. Len(journal)
    BY JournalTypes, EmptySeq DEF JournalLoses
  <2>2. journal' = [i \in 1 .. Len(journal) - 1 |-> journal[i]]
    BY <2>1, JournalTypes DEF JournalLoses
  <2> QED
    BY <2>1, <2>2
<1>3. JournalOwn'
  BY <1>1, <1>2 DEF JournalOwn
<1>4. UnrunOwn' /\ ResyncOwn' /\ RecordsOwn' /\ GotOwn' /\ CursorOwn' /\ JournalHolds'
  BY <1>1, KeptJournal DEF GotOwn, CursorOwn, Following, JournalHolds
<1>5. OrderOwn'
  <2>1. Records' = Records
    BY <1>1 DEF Records
  <2> SUFFICES ASSUME NEW i \in DOMAIN Records, NEW p \in DOMAIN journal',
                      Records[i].entries # <<>>, journal'[p] = Newest(Records[i].entries)
               PROVE  Covers(i, p)'
    BY <2>1 DEF OrderOwn
  <2>2. Covers(i, p)
    BY <1>2 DEF OrderOwn
  <2>3. \A q \in 1 .. p : journal'[q] = journal[q]
    BY <1>2
  <2> QED
    BY <2>1, <2>2, <2>3 DEF Covers
<1> QED
  BY <1>3, <1>4, <1>5

LEMMA ClosesJournal ==
  ASSUME TypeInv, JournalInv, Close
  PROVE  JournalInv'
<1> USE DEF JournalInv
<1>1. UnrunOwn' /\ CursorOwn'
  BY DEF Close, UnrunOwn, Early, NotRun, CursorOwn, Following
<1> QED
  BY <1>1, KeptJournal DEF Close

LEMMA StaysBound == Spec => []JournalInv
<1>1. Init => JournalInv
  BY DEF Init, JournalInv, JournalOwn, UnrunOwn, NotRun, ResyncOwn, CursorOwn, Following, GotOwn,
         RecordsOwn, OrderOwn, JournalHolds, Records
<1>2. TypeInv /\ TypeInv' /\ Apart /\ JournalInv /\ [Next]_vars => JournalInv'
  <2>1. JournalInv /\ UNCHANGED vars => JournalInv'
    BY KeptJournal DEF JournalInv
  <2> QED
    BY <2>1, SendJournal, CancelJournal, RouteJournal, HarnessJournal, EndsJournal, OpensJournal,
       LosesJournal, ClosesJournal DEF Next, Terminated
<1> QED
  BY <1>1, <1>2, SessionTypes, StaysApart, PTL DEF Spec

(* A record names no entry, or exactly those its exchange's run appended,  *)
(* in their order, whoever opened the session and whatever failed.         *)
THEOREM EntriesCorrect == Spec => []EntriesTheirOwn
<1>1. JournalInv => EntriesTheirOwn
  BY DEF JournalInv, RecordsOwn, Bound, EntriesTheirOwn
<1> QED
  BY <1>1, StaysBound, PTL

(* A session is over a journal that holds every entry on record, though    *)
(* only the last one was looked for when it was opened.                    *)
THEOREM JournalCorrect == Spec => []JournalHolds
<1>1. JournalInv => JournalHolds
  BY DEF JournalInv
<1> QED
  BY <1>1, StaysBound, PTL
=============================================================================
