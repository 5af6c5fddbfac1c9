---------------------------- MODULE AdapterProofs ----------------------------
(***************************************************************************)
(* For each harness, every set of requests, every list of prompts and      *)
(* every number of troubles: the files Open hands its harness are whole,   *)
(* a session that failed to open or is closed leaves nothing behind, each  *)
(* call gets one response, the types and bounds, and no prompt is sent     *)
(* over a stale list of tools.                                             *)
(***************************************************************************)
EXTENDS AdapterProperties, SequenceTheorems, TLAPS

(***************************************************************************)
(* The entry of the cache.                                                 *)
(***************************************************************************)
(* Whoever is past its own removal leaves no damaged entry, unless the     *)
(* other has begun to remove it meanwhile; the other process removes only  *)
(* what it found damaged, and writes it again before it is done.           *)
CacheType == cache \in [entry : Entry, mine : DirPC, theirs : DirPC, spoilt : BOOLEAN]
Past == {"write", "rename", "done"}
CacheInv ==
    /\ CacheType
    /\ cache.mine \in Past /\ cache.entry = "damaged" => cache.theirs = "removing"
    /\ cache.theirs \in Past /\ cache.entry = "damaged" => cache.mine = "removing"
    /\ cache.theirs \in {"remove", "removing"} => cache.spoilt
    /\ cache.mine = "done" /\ cache.entry # "whole" => cache.spoilt /\ cache.theirs # "done"

LEMMA WriterKeeps ==
  ASSUME CacheInv, NEW w \in Writers, FS(w) \/ Dir(w)
  PROVE  CacheInv'
<1>1. CASE w = "mine"
  <2>1. CASE FS(w)
    BY <1>1, <2>1 DEF CacheInv, CacheType, FS, Go, Past, DirPC, Entry
  <2>2. CASE Stat(w)
    BY <1>1, <2>2 DEF CacheInv, CacheType, Stat, Go, Past, DirPC, Entry
  <2>3. CASE Digest(w)
    BY <1>1, <2>3 DEF CacheInv, CacheType, Digest, TreeDigest, Past, DirPC, Entry
  <2>4. CASE RemoveAll(w)
    BY <1>1, <2>4 DEF CacheInv, CacheType, RemoveAll, Leave, Past, DirPC, Entry
  <2>5. CASE Write(w) \/ Rename(w)
    BY <1>1, <2>5 DEF CacheInv, CacheType, Write, Staged, Rename, Renamed, Leave, Past, DirPC, Entry
  <2> QED
    BY <2>1, <2>2, <2>3, <2>4, <2>5 DEF Dir
<1>2. CASE w = "theirs"
  <2>1. CASE FS(w)
    BY <1>2, <2>1 DEF CacheInv, CacheType, FS, Go, Past, DirPC, Entry
  <2>2. CASE Stat(w)
    BY <1>2, <2>2 DEF CacheInv, CacheType, Stat, Go, Past, DirPC, Entry
  <2>3. CASE Digest(w)
    BY <1>2, <2>3 DEF CacheInv, CacheType, Digest, TreeDigest, Past, DirPC, Entry
  <2>4. CASE RemoveAll(w)
    BY <1>2, <2>4 DEF CacheInv, CacheType, RemoveAll, Leave, Past, DirPC, Entry
  <2>5. CASE Write(w) \/ Rename(w)
    BY <1>2, <2>5 DEF CacheInv, CacheType, Write, Staged, Rename, Renamed, Leave, Past, DirPC, Entry
  <2> QED
    BY <2>1, <2>2, <2>3, <2>4, <2>5 DEF Dir
<1> QED
  BY <1>1, <1>2 DEF Writers

LEMMA CacheBegins ==
  ASSUME NEW e \in Entry
  PROVE  /\ cache' = Holding(e) => CacheInv'
         /\ cache' = Unfollowed => CacheInv'
         /\ cache = Unfollowed => CacheInv
<1>0. "none" \in Entry /\ "idle" \in DirPC
  BY DEF Entry, DirPC
<1>1. /\ Holding(e).mine = "idle" /\ Holding(e).theirs = "idle"
      /\ Holding(e) \in [entry : Entry, mine : DirPC, theirs : DirPC, spoilt : BOOLEAN]
  <2>1. Unfollowed \in [entry : Entry, mine : DirPC, theirs : DirPC, spoilt : BOOLEAN]
    BY <1>0 DEF Unfollowed
  <2> QED
    BY <2>1 DEF Holding, Unfollowed
<1>2. ASSUME cache' = Holding(e)
      PROVE  CacheInv'
  BY <1>0, <1>1, <1>2 DEF CacheInv, CacheType, Past
<1>3. ASSUME cache' = Unfollowed
      PROVE  CacheInv'
  BY <1>0, <1>3 DEF Unfollowed, CacheInv, CacheType, Past
<1>4. ASSUME cache = Unfollowed
      PROVE  CacheInv
  BY <1>0, <1>4 DEF Unfollowed, CacheInv, CacheType, Past
<1> QED
  BY <1>2, <1>3, <1>4

(* A step of the cache is one of its writers', or a step of Open begins or *)
(* ends that uses it.                                                      *)
LEMMA CacheStep ==
  ASSUME [Next]_vars
  PROVE  \/ cache' = cache \/ cache' = Unfollowed \/ (\E e \in Entry : cache' = Holding(e))
         \/ \E w \in Writers : FS(w) \/ Dir(w)
<1>1. CASE OpenNext
  <2>1. CASE KeepFiles
    BY <2>1 DEF KeepFiles
  <2>2. CASE Opens
    BY <2>2 DEF Opens
  <2>3. CASE OpenFails
    BY <2>3 DEF OpenFails
  <2>4. CASE HandshakeCalls \/ HandshakeGoesOn
    BY <2>4 DEF HandshakeCalls, HandshakeGoesOn, adapterVars, openVars
  <2> QED
    BY <1>1, <2>1, <2>2, <2>3, <2>4 DEF OpenNext
<1>2. CASE CloseNext
  BY <1>2 DEF CloseNext, Close, CloseBegins, ClientClosed, CloseReturns, openVars
<1>3. CASE PromptNext
  BY <1>3 DEF PromptNext, Prompt, PromptSets, PromptWaits, PromptSends, Prompted, ExchangeOver, openVars
<1>4. CASE CancelNext
  BY <1>4 DEF CancelNext, Cancel, CancelGoesOn, CancelOver, openVars
<1>5. CASE \E c \in Calls : GivesUp(c) \/ CallNext(c)
  BY <1>5 DEF GivesUp, CallNext, adapterVars, openVars
<1>6. CASE ReaderNext
  BY <1>6 DEF ReaderNext, adapterVars, openVars
<1>7. CASE \E r \in Requests : HandlerNext(r) \/ ReplyNext(r)
  BY <1>7 DEF HandlerNext, ReplyNext, adapterVars, openVars
<1>8. CASE HarnessNext
  BY <1>8 DEF HarnessNext, HarnessAnswers, HarnessRuns, HarnessStops, HarnessHears, HarnessFetches,
              HarnessLists, HarnessUses, HarnessReports, HarnessEnds, HarnessExits, HarnessKeeps,
              adapterVars, openVars
<1>9. CASE Terminated \/ UNCHANGED vars
  BY <1>9 DEF Terminated, vars, adapterVars, openVars
<1> QED
  BY <1>1, <1>2, <1>3, <1>4, <1>5, <1>6, <1>7, <1>8, <1>9 DEF Next

LEMMA CacheStays == Spec => []CacheInv
<1>1. Init => CacheInv
  BY CacheBegins DEF Init, Entry
<1>2. CacheInv /\ [Next]_vars => CacheInv'
  <2> SUFFICES ASSUME CacheInv, [Next]_vars PROVE CacheInv'
    OBVIOUS
  <2>1. "none" \in Entry
    BY DEF Entry
  <2>2. CASE cache' = cache
    BY <2>2 DEF CacheInv, CacheType
  <2>3. CASE cache' = Unfollowed \/ \E e \in Entry : cache' = Holding(e)
    BY <2>1, <2>3, CacheBegins
  <2>4. CASE \E w \in Writers : FS(w) \/ Dir(w)
    BY <2>4, WriterKeeps
  <2> QED
    BY <2>2, <2>3, <2>4, CacheStep
<1> QED
  BY <1>1, <1>2, PTL DEF Spec

(***************************************************************************)
(* Once Dir has returned, the entry is whole, whatever another process     *)
(* does there at the same time, except one that found it damaged, until it *)
(* has written it again (cache.Dir).                                       *)
(***************************************************************************)
THEOREM CacheCorrect == Spec => []FilesAreWhole
<1>1. CacheInv => FilesAreWhole
  BY DEF CacheInv, CacheType, FilesAreWhole, DirPC
<1> QED
  BY <1>1, CacheStays, PTL

(***************************************************************************)
(* The steps of Open.                                                      *)
(***************************************************************************)
LEMMA Join3 ==
  ASSUME NEW S, NEW a \in Seq(S), NEW b \in Seq(S), NEW c \in Seq(S),
         NEW m \in Nat, NEW n \in Nat, NEW k \in Nat, Len(a) = m, Len(b) = n, Len(c) = k
  PROVE  /\ a \o b \o c \in Seq(S) /\ Len(a \o b \o c) = m + n + k
         /\ \A i \in 1 .. m : (a \o b \o c)[i] = a[i]
         /\ \A i \in 1 .. n : (a \o b \o c)[m + i] = b[i]
         /\ \A i \in 1 .. k : (a \o b \o c)[m + n + i] = c[i]
<1> DEFINE d == a \o b
<1>1. d \in Seq(S) /\ Len(d) = m + n /\ \A i \in 1 .. m + n : d[i] = IF i <= m THEN a[i] ELSE b[i - m]
  BY ConcatProperties
<1> HIDE DEF d
<1>2. /\ d \o c \in Seq(S) /\ Len(d \o c) = Len(d) + Len(c)
      /\ \A i \in 1 .. Len(d) + Len(c) :
           (d \o c)[i] = IF i <= Len(d) THEN d[i] ELSE c[i - Len(d)]
  <2>1. d \in Seq(S)
    BY <1>1
  <2> QED
    BY <2>1, ConcatProperties
<1>3. /\ d \o c \in Seq(S) /\ Len(d \o c) = m + n + k
      /\ \A i \in 1 .. m + n + k : (d \o c)[i] = IF i <= m + n THEN d[i] ELSE c[i - (m + n)]
  BY <1>1, <1>2
<1>4. \A i \in 1 .. m : i \in 1 .. m + n /\ i \in 1 .. m + n + k /\ i <= m /\ i <= m + n
  OBVIOUS
<1>5. \A i \in 1 .. n : /\ m + i \in 1 .. m + n /\ m + i \in 1 .. m + n + k
                        /\ ~(m + i <= m) /\ m + i <= m + n /\ m + i - m = i
  OBVIOUS
<1>6. \A i \in 1 .. k : /\ m + n + i \in 1 .. m + n + k
                        /\ ~(m + n + i <= m + n) /\ m + n + i - (m + n) = i
  OBVIOUS
<1>7. \A i \in 1 .. m : (d \o c)[i] = a[i]
  BY <1>1, <1>3, <1>4
<1>8. \A i \in 1 .. n : (d \o c)[m + i] = b[i]
  BY <1>1, <1>3, <1>5
<1>9. ASSUME NEW i \in 1 .. k
      PROVE  (d \o c)[m + n + i] = c[i]
  <2> DEFINE j == m + n + i
  <2>1. j \in 1 .. m + n + k /\ ~(j <= m + n) /\ j - (m + n) = i
    BY <1>6
  <2> HIDE DEF j
  <2>2. (d \o c)[j] = c[j - (m + n)]
    BY <1>3, <2>1
  <2> QED
    BY <2>1, <2>2 DEF j
<1> QED
  BY <1>3, <1>7, <1>8, <1>9 DEF d

LEMMA Joined ==
  ASSUME NEW S, NEW a \in Seq(S), NEW b \in Seq(S), NEW c \in Seq(S)
  PROVE  /\ a \o b \o c \in Seq(S) /\ Len(a \o b \o c) = Len(a) + Len(b) + Len(c)
         /\ \A i \in 1 .. Len(a) : (a \o b \o c)[i] = a[i]
         /\ \A i \in 1 .. Len(b) : (a \o b \o c)[Len(a) + i] = b[i]
         /\ \A i \in 1 .. Len(c) : (a \o b \o c)[Len(a) + Len(b) + i] = c[i]
<1>1. Len(a) \in Nat /\ Len(b) \in Nat /\ Len(c) \in Nat
  OBVIOUS
<1> QED
  BY <1>1, Join3

(* A list of steps begins with those that start the harness, the process   *)
(* last, and goes on to the session; none comes twice.                     *)
Onward == Handshake \union {"session", "open"}
Opening(L) ==
    /\ Len(L) \in Nat /\ DOMAIN L = 1 .. Len(L)
    /\ \A i, j \in 1 .. Len(L) : L[i] = L[j] => i = j
    /\ \A i \in 1 .. Len(L) : L[i] \in Starting \/ L[i] \in Onward
    /\ \A i \in 1 .. Len(L) : L[i] = "open" <=> i = Len(L)
    /\ \A i \in 1 .. Len(L) - 1 : L[i] = "process" \/ L[i] \in Onward => L[i + 1] \in Onward
(* The process of Claude Code and OpenCode comes after their bridge.       *)
BridgeFirst(L) == \A i \in 1 .. Len(L) - 1 : L[i + 1] = "process" => L[i] = "bridge"
(* OpenCode's loads, and goes on to the session after that.                *)
Loads(L) == \A i \in 1 .. Len(L) - 1 : /\ L[i + 1] = "model" => L[i] = "load"
                                       /\ L[i + 1] = "session" => L[i] = "model"
                                       /\ L[i + 1] = "open" => L[i] = "session"
Loadless(L) == \A i \in 1 .. Len(L) : L[i] # "load"

LEMMA OpenEach ==
  /\ Opening(ClaudeOpen) /\ Opening(OpenCodeOpen) /\ Opening(PiOpen)
  /\ BridgeFirst(ClaudeOpen) /\ BridgeFirst(OpenCodeOpen)
  /\ Loads(OpenCodeOpen) /\ Loadless(ClaudeOpen) /\ Loadless(PiOpen)
<1>1. Opening(ClaudeOpen) /\ BridgeFirst(ClaudeOpen) /\ Loadless(ClaudeOpen)
  <2> DEFINE L == ClaudeOpen
  <2>1. Len(L) = 8 /\ DOMAIN L = 1 .. 8
    BY DEF ClaudeOpen
  <2>2. /\ L[1] = "checks" /\ L[2] = "temp" /\ L[3] = "plugin" /\ L[4] = "bridge"
        /\ L[5] = "process" /\ L[6] = "initialize" /\ L[7] = "session" /\ L[8] = "open"
    BY DEF ClaudeOpen
  <2>3. \A i \in 1 .. 8 : i \in {1, 2, 3, 4, 5, 6, 7, 8}
    OBVIOUS
  <2> HIDE DEF L
  <2>4. \A i, j \in 1 .. 8 : L[i] = L[j] => i = j
    BY <2>2, <2>3
  <2>5. \A i \in 1 .. 8 : L[i] \in Starting \/ L[i] \in Onward
    BY <2>2, <2>3 DEF Starting, Onward, Handshake
  <2>6. \A i \in 1 .. 8 : L[i] = "open" <=> i = 8
    BY <2>2, <2>3
  <2>7. \A i \in 1 .. 7 : L[i] = "process" \/ L[i] \in Onward => L[i + 1] \in Onward
    BY <2>2, <2>3 DEF Onward, Handshake
  <2>8. \A i \in 1 .. 7 : L[i + 1] = "process" => L[i] = "bridge"
    BY <2>2, <2>3
  <2>9. \A i \in 1 .. 8 : L[i] # "load"
    BY <2>2, <2>3
  <2> QED
    BY <2>1, <2>4, <2>5, <2>6, <2>7, <2>8, <2>9 DEF Opening, BridgeFirst, Loadless, L
<1> DEFINE N == Starting \union Onward
           last == <<"session", "open">>
<1>2. last \in Seq(N) /\ Len(last) = 2 /\ last[1] = "session" /\ last[2] = "open"
  BY DEF Starting, Onward, Handshake
<1>3. Opening(OpenCodeOpen) /\ BridgeFirst(OpenCodeOpen) /\ Loads(OpenCodeOpen)
  <2> DEFINE L == OpenCodeOpen
             a == <<"checks", "temp", "config", "bridge", "process">>
             b == OpenCodeHandshake
  <2>1. a \in Seq(N) /\ Len(a) = 5
    BY DEF Starting, Onward, Handshake
  <2>2. /\ a[1] = "checks" /\ a[2] = "temp" /\ a[3] = "config" /\ a[4] = "bridge"
        /\ a[5] = "process"
    OBVIOUS
  <2>3. b \in Seq(N) /\ Len(b) = 3
    BY DEF Starting, Onward, Handshake, OpenCodeHandshake
  <2>4. b[1] = "initialize" /\ b[2] = "load" /\ b[3] = "model"
    BY DEF OpenCodeHandshake
  <2>5. L = a \o b \o last
    BY DEF OpenCodeOpen
  <2> HIDE DEF L, a, b, last, N
  <2>6. /\ L \in Seq(N) /\ Len(L) = 5 + 3 + 2
        /\ \A i \in 1 .. 5 : L[i] = a[i]
        /\ \A i \in 1 .. 3 : L[5 + i] = b[i]
        /\ \A i \in 1 .. 2 : L[5 + 3 + i] = last[i]
    <3>1. a \in Seq(N) /\ b \in Seq(N) /\ last \in Seq(N)
      BY <1>2, <2>1, <2>3
    <3>2. Len(a) = 5 /\ Len(b) = 3 /\ Len(last) = 2
      BY <1>2, <2>1, <2>3
    <3>3. /\ L \in Seq(N) /\ Len(L) = Len(a) + Len(b) + Len(last)
          /\ \A i \in 1 .. Len(a) : L[i] = a[i]
          /\ \A i \in 1 .. Len(b) : L[Len(a) + i] = b[i]
          /\ \A i \in 1 .. Len(last) : L[Len(a) + Len(b) + i] = last[i]
      BY <2>5, <3>1, Joined
    <3> QED
      BY <3>2, <3>3
  <2>7. Len(L) = 10 /\ DOMAIN L = 1 .. 10
    BY <2>6
  <2>8. /\ L[1] = "checks" /\ L[2] = "temp" /\ L[3] = "config" /\ L[4] = "bridge"
        /\ L[5] = "process"
    BY <2>2, <2>6
  <2>9. /\ L[6] = "initialize" /\ L[7] = "load" /\ L[8] = "model"
        /\ L[9] = "session" /\ L[10] = "open"
    <3>1. L[5 + 1] = b[1] /\ L[5 + 2] = b[2] /\ L[5 + 3] = b[3]
      BY <2>6
    <3>2. L[5 + 3 + 1] = last[1] /\ L[5 + 3 + 2] = last[2]
      BY <2>6
    <3> QED
      BY <1>2, <2>4, <3>1, <3>2
  <2>10. \A i \in 1 .. 10 : i \in {1, 2, 3, 4, 5, 6, 7, 8, 9, 10}
    OBVIOUS
  <2>11. \A i, j \in 1 .. 10 : L[i] = L[j] => i = j
    BY <2>8, <2>9, <2>10
  <2>12. \A i \in 1 .. 10 : L[i] \in Starting \/ L[i] \in Onward
    BY <2>8, <2>9, <2>10 DEF Starting, Onward, Handshake
  <2>13. \A i \in 1 .. 10 : L[i] = "open" <=> i = 10
    BY <2>8, <2>9, <2>10
  <2>14. \A i \in 1 .. 9 : L[i] = "process" \/ L[i] \in Onward => L[i + 1] \in Onward
    BY <2>8, <2>9, <2>10 DEF Onward, Handshake
  <2>15. \A i \in 1 .. 9 : L[i + 1] = "process" => L[i] = "bridge"
    BY <2>8, <2>9, <2>10
  <2>16. \A i \in 1 .. 9 : /\ L[i + 1] = "model" => L[i] = "load"
                           /\ L[i + 1] = "session" => L[i] = "model"
                           /\ L[i + 1] = "open" => L[i] = "session"
    BY <2>8, <2>9, <2>10
  <2> QED
    BY <2>7, <2>11, <2>12, <2>13, <2>14, <2>15, <2>16 DEF Opening, BridgeFirst, Loads, L
<1>4. Opening(PiOpen) /\ Loadless(PiOpen)
  <2> DEFINE L == PiOpen
             a == <<"checks", "temp", "bridge files", "process">>
             b == PiHandshake
  <2>1. a \in Seq(N) /\ Len(a) = 4
    BY DEF Starting, Onward, Handshake
  <2>2. a[1] = "checks" /\ a[2] = "temp" /\ a[3] = "bridge files" /\ a[4] = "process"
    OBVIOUS
  <2>3. b \in Seq(N) /\ Len(b) = 2 /\ b[1] = "model" /\ b[2] = "state"
    BY DEF Starting, Onward, Handshake, PiHandshake
  <2>5. L = a \o b \o last
    BY DEF PiOpen
  <2> HIDE DEF L, a, b, last, N
  <2>6. /\ L \in Seq(N) /\ Len(L) = 4 + 2 + 2
        /\ \A i \in 1 .. 4 : L[i] = a[i]
        /\ \A i \in 1 .. 2 : L[4 + i] = b[i]
        /\ \A i \in 1 .. 2 : L[4 + 2 + i] = last[i]
    <3>1. a \in Seq(N) /\ b \in Seq(N) /\ last \in Seq(N)
      BY <1>2, <2>1, <2>3
    <3>2. Len(a) = 4 /\ Len(b) = 2 /\ Len(last) = 2
      BY <1>2, <2>1, <2>3
    <3>3. /\ L \in Seq(N) /\ Len(L) = Len(a) + Len(b) + Len(last)
          /\ \A i \in 1 .. Len(a) : L[i] = a[i]
          /\ \A i \in 1 .. Len(b) : L[Len(a) + i] = b[i]
          /\ \A i \in 1 .. Len(last) : L[Len(a) + Len(b) + i] = last[i]
      BY <2>5, <3>1, Joined
    <3> QED
      BY <3>2, <3>3
  <2>7. Len(L) = 8 /\ DOMAIN L = 1 .. 8
    BY <2>6
  <2>8. L[1] = "checks" /\ L[2] = "temp" /\ L[3] = "bridge files" /\ L[4] = "process"
    <3>1. L[1] = a[1] /\ L[2] = a[2] /\ L[3] = a[3] /\ L[4] = a[4]
      BY <2>6
    <3> QED
      BY <2>2, <3>1
  <2>9. L[5] = "model" /\ L[6] = "state" /\ L[7] = "session" /\ L[8] = "open"
    <3>1. L[4 + 1] = b[1] /\ L[4 + 2] = b[2]
      BY <2>6
    <3>2. L[4 + 2 + 1] = last[1] /\ L[4 + 2 + 2] = last[2]
      BY <2>6
    <3> QED
      BY <1>2, <2>3, <3>1, <3>2
  <2>10. \A i \in 1 .. 8 : i \in {1, 2, 3, 4, 5, 6, 7, 8}
    OBVIOUS
  <2>11. \A i, j \in 1 .. 8 : L[i] = L[j] => i = j
    BY <2>8, <2>9, <2>10
  <2>12. \A i \in 1 .. 8 : L[i] \in Starting \/ L[i] \in Onward
    BY <2>8, <2>9, <2>10 DEF Starting, Onward, Handshake
  <2>13. \A i \in 1 .. 8 : L[i] = "open" <=> i = 8
    BY <2>8, <2>9, <2>10
  <2>14. \A i \in 1 .. 7 : L[i] = "process" \/ L[i] \in Onward => L[i + 1] \in Onward
    <3>1. \A i \in 1 .. 7 : i \in {1, 2, 3} \/ i \in {4, 5, 6, 7}
      OBVIOUS
    <3>2. \A i \in {1, 2, 3} : L[i] # "process" /\ L[i] \notin Onward
      BY <2>8 DEF Onward, Handshake
    <3>3. \A i \in {4, 5, 6, 7} : L[i + 1] \in Onward
      BY <2>9 DEF Onward, Handshake
    <3> QED
      BY <3>1, <3>2, <3>3
  <2>15. \A i \in 1 .. 8 : L[i] # "load"
    BY <2>8, <2>9, <2>10
  <2> QED
    BY <2>7, <2>11, <2>12, <2>13, <2>14, <2>15 DEF Opening, Loadless, L
<1> QED
  BY <1>1, <1>3, <1>4

Harnesses == {"claude", "opencode", "pi"}
StepType == harness \in Harnesses /\ step \in {Steps[i] : i \in DOMAIN Steps} \union {"failed"}

LEMMA AfterIs ==
  ASSUME StepType, step # "failed", step # "open"
  PROVE  /\ StepAfter(step) \in {Steps[i] : i \in DOMAIN Steps} /\ StepAfter(step) # "failed"
         /\ step \notin Starting \/ step = "process" => StepAfter(step) \in Onward
         /\ StepAfter(step) = "process" => harness = "pi" \/ step = "bridge"
         /\ harness = "opencode" /\ StepAfter(step) = "model" => step = "load"
         /\ harness = "opencode" /\ StepAfter(step) = "session" => step = "model"
         /\ harness = "opencode" /\ StepAfter(step) = "open" => step = "session"
<1> DEFINE L == Steps
<1>1. /\ Opening(L) /\ (harness # "pi" => BridgeFirst(L))
      /\ harness = "opencode" => Loads(L)
  BY OpenEach DEF Steps, StepType, Harnesses
<1>2. DOMAIN L = 1 .. Len(L) /\ Len(L) \in Nat
  BY <1>1 DEF Opening
<1>3. PICK k \in 1 .. Len(L) : step = L[k]
  BY <1>2 DEF StepType
<1> HIDE DEF L
<1>4. k \in 1 .. Len(L) - 1 /\ k + 1 \in 1 .. Len(L)
  <2>1. k # Len(L)
    BY <1>1, <1>3 DEF Opening
  <2>2. k \in 1 .. Len(L) /\ Len(L) \in Nat
    BY <1>2
  <2> QED
    BY <2>1, <2>2
<1>5. (CHOOSE i \in DOMAIN L : L[i] = step) = k
  BY <1>1, <1>2, <1>3 DEF Opening
<1>6. StepAfter(step) = L[k + 1]
  BY <1>5 DEF StepAfter, L
<1>7. L[k + 1] \in Starting \union Onward
  BY <1>1, <1>4 DEF Opening
<1>8. step \notin Starting \/ step = "process" => L[k + 1] \in Onward
  BY <1>1, <1>3, <1>4 DEF Opening
<1>9. L[k + 1] = "process" => harness = "pi" \/ step = "bridge"
  BY <1>1, <1>3, <1>4 DEF BridgeFirst
<1>10. /\ harness = "opencode" /\ L[k + 1] = "model" => step = "load"
       /\ harness = "opencode" /\ L[k + 1] = "session" => step = "model"
       /\ harness = "opencode" /\ L[k + 1] = "open" => step = "session"
  BY <1>1, <1>3, <1>4 DEF Loads
<1> QED
  BY <1>2, <1>4, <1>6, <1>7, <1>8, <1>9, <1>10 DEF L, Starting, Onward, Handshake

LEMMA LoadIsOpenCodes ==
  ASSUME StepType, step = "load"
  PROVE  harness = "opencode"
<1>1. harness # "opencode" => Opening(Steps) /\ Loadless(Steps)
  BY OpenEach DEF StepType, Harnesses, Steps
<1> QED
  BY <1>1 DEF StepType, Opening, Loadless

LEMMA FirstStep ==
  ASSUME harness \in Harnesses
  PROVE  \E i \in DOMAIN Steps : Steps[i] = "checks"
<1> DEFINE N == Starting \union Onward
           a == <<"checks", "temp", "config", "bridge", "process">>
           p == <<"checks", "temp", "bridge files", "process">>
           last == <<"session", "open">>
<1>1. CASE harness = "claude"
  BY <1>1 DEF Steps, ClaudeOpen
<1>2. CASE harness = "opencode"
  <2>1. a \in Seq(N) /\ OpenCodeHandshake \in Seq(N) /\ last \in Seq(N) /\ Len(a) = 5 /\ a[1] = "checks"
    BY DEF Starting, Onward, Handshake, OpenCodeHandshake
  <2>2. Steps = a \o OpenCodeHandshake \o last
    BY <1>2 DEF Steps, OpenCodeOpen
  <2> HIDE DEF a, last, N
  <2>3. a \in Seq(N) /\ OpenCodeHandshake \in Seq(N) /\ last \in Seq(N)
    BY <2>1
  <2>4. /\ Steps \in Seq(N) /\ Len(Steps) = Len(a) + Len(OpenCodeHandshake) + Len(last)
        /\ \A i \in 1 .. Len(a) : Steps[i] = a[i]
    BY <2>2, <2>3, Joined
  <2>5. Len(OpenCodeHandshake) \in Nat /\ Len(last) \in Nat
    BY <2>3
  <2>6. 1 \in DOMAIN Steps /\ Steps[1] = "checks"
    BY <2>1, <2>4, <2>5
  <2> QED
    BY <2>6
<1>3. CASE harness = "pi"
  <2>1. p \in Seq(N) /\ PiHandshake \in Seq(N) /\ last \in Seq(N) /\ Len(p) = 4 /\ p[1] = "checks"
    BY DEF Starting, Onward, Handshake, PiHandshake
  <2>2. Steps = p \o PiHandshake \o last
    BY <1>3 DEF Steps, PiOpen
  <2> HIDE DEF p, last, N
  <2>3. p \in Seq(N) /\ PiHandshake \in Seq(N) /\ last \in Seq(N)
    BY <2>1
  <2>4. /\ Steps \in Seq(N) /\ Len(Steps) = Len(p) + Len(PiHandshake) + Len(last)
        /\ \A i \in 1 .. Len(p) : Steps[i] = p[i]
    BY <2>2, <2>3, Joined
  <2>5. Len(PiHandshake) \in Nat /\ Len(last) \in Nat
    BY <2>3
  <2>6. 1 \in DOMAIN Steps /\ Steps[1] = "checks"
    BY <2>1, <2>4, <2>5
  <2> QED
    BY <2>6
<1> QED
  BY <1>1, <1>2, <1>3 DEF Harnesses

LEMMA NoBridgeOfPi ==
  ASSUME StepType, harness = "pi"
  PROVE  step # "bridge"
<1> DEFINE N == Starting \union Onward
           a == <<"checks", "temp", "bridge files", "process">>
           b == PiHandshake
           last == <<"session", "open">>
<1>1. a \in Seq(N \ {"bridge"}) /\ last \in Seq(N \ {"bridge"})
  BY DEF Starting, Onward, Handshake
<1>2. b \in Seq(N \ {"bridge"})
  BY DEF Starting, Onward, Handshake, PiHandshake
<1>3. Steps = a \o b \o last
  BY DEF Steps, PiOpen
<1> HIDE DEF a, b, last, N
<1>4. a \o b \o last \in Seq(N \ {"bridge"})
  BY <1>1, <1>2
<1>5. \A i \in DOMAIN Steps : Steps[i] # "bridge"
  BY <1>3, <1>4
<1> QED
  BY <1>5 DEF StepType

(***************************************************************************)
(* What Open makes is undone.                                              *)
(***************************************************************************)
(* The process begins with the last of the starting steps and has ended    *)
(* when its client's Close returns; a server is registered only while the  *)
(* bridge is held, which Pi's Open never makes.                            *)
HeldInv ==
    /\ StepType /\ held \subseteq {"temp", "bridge", "process"}
    /\ step \in Starting => ~alive /\ "process" \notin held /\ closing = "no"
    /\ serving => "bridge" \in held
    /\ harness = "pi" => "bridge" \notin held
    /\ alive => "process" \in held
    /\ closing \in {"bridge", "done"} => ~alive /\ "process" \notin held
    /\ closing = "done" => held = {}
    /\ step = "failed" /\ closing = "no" => held = {}

heldVars == <<harness, step, held, closing, alive, serving>>

(* The steps that change what HeldInv is about.                            *)
LEMMA HeldStep ==
  ASSUME [Next]_vars
  PROVE  \/ UNCHANGED heldVars
         \/ Opens \/ OpenFails \/ HandshakeGoesOn \/ Close \/ ClientClosed \/ CloseReturns
         \/ HarnessExits
<1>1. CASE OpenNext
  BY <1>1 DEF OpenNext, KeepFiles, HandshakeCalls, adapterVars, openVars, bridgeVars, serverVars,
              clientVars, processVars, heldVars
<1>2. CASE CloseNext
  BY <1>2 DEF CloseNext
<1>3. CASE PromptNext
  <2>1. CASE Prompt
    BY <2>1 DEF Prompt, openVars, clientVars, processVars, serverVars, heldVars
  <2>2. CASE PromptSets
    BY <2>2 DEF PromptSets, SetSchema, openVars, clientVars, processVars, heldVars
  <2>3. CASE PromptWaits \/ Prompted
    BY <2>3 DEF PromptWaits, Prompted, openVars, clientVars, processVars, bridgeVars, serverVars, heldVars
  <2>4. CASE PromptSends
    BY <2>4 DEF PromptSends, openVars, bridgeVars, serverVars, heldVars
  <2>5. CASE ExchangeOver
    BY <2>5 DEF ExchangeOver, openVars, processVars, bridgeVars, serverVars, heldVars
  <2> QED
    BY <1>3, <2>1, <2>2, <2>3, <2>4, <2>5 DEF PromptNext
<1>4. CASE CancelNext
  BY <1>4 DEF CancelNext, Cancel, CancelGoesOn, CancelOver, openVars, clientVars, processVars,
              bridgeVars, serverVars, heldVars
<1>5. CASE \E c \in Calls : GivesUp(c) \/ CallNext(c)
  BY <1>5 DEF GivesUp, Forget, CallNext, WriteCall, Return, adapterVars, openVars, processVars,
              bridgeVars, serverVars, heldVars
<1>6. CASE ReaderNext
  BY <1>6 DEF ReaderNext, Dispatch, Resolve, Shutdown, EventsClose, adapterVars, openVars,
              processVars, bridgeVars, serverVars, heldVars
<1>7. ASSUME NEW r \in Requests, HandlerNext(r) \/ ReplyNext(r)
      PROVE  UNCHANGED heldVars
  <2>1. CASE ReplyNext(r)
    BY <2>1 DEF ReplyNext, Reply, adapterVars, openVars, bridgeVars, serverVars, heldVars
  <2>2. CASE HandlerNext(r)
    <3>1. UNCHANGED <<step, held, closing>>
      BY <2>2 DEF HandlerNext, adapterVars, openVars
    <3>2. UNCHANGED <<harness, processVars, serving>>
      BY <2>2 DEF HandlerNext, RequestNext, ToolReturns, ListArrives, ListReads, ListAnswers, Respond,
                  RunTool, TakeRun, GiveUp, AnswerAtOnce, bridgeVars, serverVars
    <3> QED
      BY <3>1, <3>2 DEF processVars, heldVars
  <2> QED
    BY <1>7, <2>1, <2>2
<1>8. CASE HarnessNext
  BY <1>8 DEF HarnessNext, HarnessAnswers, HarnessRuns, HarnessStops, HarnessHears, HarnessFetches,
              HarnessLists, HarnessUses, HarnessReports, HarnessEnds, HarnessKeeps,
              adapterVars, openVars, serverVars, heldVars
<1>9. CASE Terminated \/ UNCHANGED vars
  BY <1>9 DEF Terminated, vars, adapterVars, openVars, clientVars, processVars, bridgeVars,
              serverVars, heldVars
<1> QED
  BY <1>1, <1>2, <1>3, <1>4, <1>5, <1>6, <1>7, <1>8, <1>9 DEF Next

LEMMA StepTypeKept ==
  ASSUME StepType, harness' = harness,
         step' = step \/ step' = "failed" \/ step' \in {Steps[i] : i \in DOMAIN Steps}
  PROVE  StepType'
<1>1. Steps' = Steps
  BY DEF Steps, ClaudeOpen, OpenCodeOpen, OpenCodeHandshake, PiOpen, PiHandshake
<1> QED
  BY <1>1 DEF StepType

LEMMA HeldKept ==
  ASSUME HeldInv, [Next]_vars
  PROVE  HeldInv'
<1>1. CASE UNCHANGED heldVars
  BY <1>1, StepTypeKept DEF HeldInv, heldVars
<1>2. CASE Opens
  <2>1. step \in Starting /\ step # "failed" /\ step # "open" /\ step' = StepAfter(step)
    BY <1>2 DEF Opens, Starting
  <2>2. /\ step' \in {Steps[i] : i \in DOMAIN Steps} /\ step' # "failed"
        /\ step = "process" => step' \in Onward
    BY <2>1, AfterIs DEF HeldInv
  <2>3. harness' = harness /\ closing' = closing /\ closing = "no"
    BY <1>2, <2>1 DEF Opens, HeldInv
  <2>4. StepType'
    BY <2>2, <2>3, StepTypeKept DEF HeldInv
  <2>5. held' = held \union ({step} \intersect {"temp", "bridge", "process"})
    BY <1>2 DEF Opens
  <2>6. CASE step = "process"
    <3>1. alive' = TRUE /\ serving' = serving /\ step' \notin Starting
      BY <1>2, <2>2, <2>6 DEF Opens, StartProcess, serverVars, Onward, Handshake, Starting
    <3> QED
      BY <2>2, <2>3, <2>4, <2>5, <2>6, <3>1 DEF HeldInv
  <2>7. CASE step = "bridge"
    <3>1. alive' = alive /\ serving' = TRUE
      BY <1>2, <2>7 DEF Opens, Tunnel, Listen, NewServer, processVars
    <3>2. harness # "pi"
      BY <2>7, NoBridgeOfPi DEF HeldInv
    <3> QED
      BY <2>1, <2>2, <2>3, <2>4, <2>5, <2>7, <3>1, <3>2 DEF HeldInv
  <2>8. CASE step \notin {"process", "bridge"}
    <3>1. alive' = alive /\ serving' = serving
      BY <1>2, <2>8 DEF Opens, serverVars, processVars
    <3> QED
      BY <2>1, <2>2, <2>3, <2>4, <2>5, <2>8, <3>1 DEF HeldInv
  <2> QED
    BY <2>6, <2>7, <2>8
<1>3. CASE OpenFails
  <2>1. /\ step \in Starting /\ step' = "failed" /\ held' = held \ {"temp", "bridge"}
        /\ harness' = harness /\ alive' = alive /\ closing' = closing
    BY <1>3 DEF OpenFails, Undone, clientVars, processVars
  <2>2. serving' = FALSE \/ ("bridge" \notin held /\ serving' = serving)
    BY <1>3 DEF OpenFails, TunnelClose, EndpointClose, Remove, serverVars
  <2>3. held' = {} /\ ~alive /\ ~serving'
    BY <2>1, <2>2 DEF HeldInv
  <2> QED
    BY <2>1, <2>3, StepTypeKept DEF HeldInv, Starting
<1>4. CASE HandshakeGoesOn
  <2>1. /\ step \in Handshake \union {"session"} /\ step' = StepAfter(step)
        /\ UNCHANGED <<harness, alive, held, closing, serving>>
    BY <1>4 DEF HandshakeGoesOn, clientVars, processVars, bridgeVars, serverVars
  <2>2. step \notin Starting /\ step # "failed" /\ step # "open"
    BY <2>1 DEF Handshake, Starting
  <2>3. step' \in {Steps[i] : i \in DOMAIN Steps} /\ step' \in Onward
    BY <2>1, <2>2, AfterIs DEF HeldInv
  <2>4. step' \notin Starting /\ step' # "failed"
    BY <2>3 DEF Onward, Handshake, Starting
  <2> QED
    BY <2>1, <2>3, <2>4, StepTypeKept DEF HeldInv
<1>5. CASE Close
  <2>1. /\ closing' = "client" /\ step' \in {"open", "failed"} /\ (step' = step \/ step' = "failed")
        /\ UNCHANGED <<harness, alive, held, serving>>
    BY <1>5 DEF Close, CloseBegins, AskToExit, serverVars
  <2> QED
    BY <2>1, StepTypeKept DEF HeldInv, Starting
<1>6. CASE ClientClosed
  BY <1>6, StepTypeKept DEF HeldInv, ClientClosed, Exited, LinesOver, clientVars, processVars,
                            bridgeVars, serverVars, openVars
<1>7. CASE CloseReturns
  <2>1. /\ closing = "bridge" /\ closing' = "done" /\ UNCHANGED <<harness, alive, step>>
        /\ \/ held' = held \ {"bridge", "temp"} /\ serving' = FALSE
           \/ harness = "pi" /\ held' = held \ {"temp"} /\ serving' = serving
    BY <1>7 DEF CloseReturns, ClaudeCloses, OpenCodeCloses, PiCloses, TunnelClose, EndpointClose,
                Remove, clientVars, processVars, openVars, serverVars
  <2>2. held \subseteq {"temp", "bridge"} /\ ~alive
    BY <2>1 DEF HeldInv
  <2>3. harness = "pi" => "bridge" \notin held /\ ~serving
    BY DEF HeldInv
  <2>4. held' = {} /\ ~serving'
    <3>1. CASE held' = held \ {"bridge", "temp"} /\ serving' = FALSE
      BY <2>2, <3>1
    <3>2. CASE harness = "pi" /\ held' = held \ {"temp"} /\ serving' = serving
      BY <2>2, <2>3, <3>2
    <3> QED
      BY <2>1, <3>1, <3>2
  <2> QED
    BY <2>1, <2>2, <2>4, StepTypeKept DEF HeldInv
<1>8. CASE HarnessExits
  BY <1>8, StepTypeKept DEF HeldInv, HarnessExits, ProcessEnds, bridgeVars, serverVars, openVars
<1> QED
  BY <1>1, <1>2, <1>3, <1>4, <1>5, <1>6, <1>7, <1>8, HeldStep

LEMMA HeldBegins == Init => HeldInv
<1> SUFFICES ASSUME Init PROVE HeldInv
  OBVIOUS
<1>1. /\ harness \in Harnesses /\ step = "checks" /\ held = {} /\ closing = "no"
      /\ ~alive /\ ~serving
  BY DEF Init, InitClient, InitBridge, Harnesses
<1>2. \E i \in DOMAIN Steps : Steps[i] = "checks"
  BY <1>1, FirstStep
<1> QED
  BY <1>1, <1>2 DEF HeldInv, StepType

(***************************************************************************)
(* A session that failed to open, or was closed, leaves no process, no     *)
(* server registered and no directory behind, whichever step of Open       *)
(* failed and whenever the harness exited (Driver.Open's error paths and   *)
(* Connection.Close).                                                      *)
(***************************************************************************)
THEOREM LeftCorrect == Spec => []NothingLeft
<1>1. Init => HeldInv
  BY HeldBegins
<1>2. HeldInv /\ [Next]_vars => HeldInv'
  BY HeldKept
<1>3. HeldInv => NothingLeft
  BY DEF HeldInv, NothingLeft
<1> QED
  BY <1>1, <1>2, <1>3, PTL DEF Spec

(***************************************************************************)
(* The driver's side of an exchange, in numbers.                           *)
(***************************************************************************)
Offered == RespondTools \union {None}

LEMMA WantsAre ==
  Len(Wants) \in Nat /\ Prompts = 1 .. Len(Wants) /\ \A n \in Prompts : Wants[n] \in Offered
BY WantsAssumption DEF Prompts, Offered

(* A change of tool comes with a prompt, one at most; a listing counts for *)
(* a change that was; a run, and a call under it, are of a prompt begun.   *)
ExchangeInv ==
    /\ ex \in 0 .. Len(Wants) /\ prompting \in PromptPC /\ late \in BOOLEAN
    /\ cancelling \in CancelPC /\ troubles \in 0 .. MaxTroubles
    /\ alive \in BOOLEAN /\ asked \in BOOLEAN /\ over \in BOOLEAN /\ answers \in BOOLEAN
    /\ schema \in Offered /\ run \in 0 .. ex /\ runOver \in BOOLEAN
    /\ took \in [Requests -> 0 .. ex]
    /\ prompting # "idle" => ex > 0
    /\ cancelling # "no" => ex > 0
ServerInv ==
    /\ respond \in Offered /\ installed \in Offered
    /\ gen \in 0 .. ex /\ listedGen \in 0 .. gen /\ started \in Nat
    /\ gens \in [Requests -> 0 .. gen]
    /\ serving \in BOOLEAN /\ closed \in BOOLEAN
    /\ prompting = "schema" => gen < ex
PromptInv == ExchangeInv /\ ServerInv

exchangeVars == <<ex, prompting, late, cancelling>>
promptVars == <<exchangeVars, troubles, alive, asked, over, answers, serverVars, runVars, took, closed>>

LEMMA PromptInvKept ==
  ASSUME PromptInv, UNCHANGED promptVars
  PROVE  PromptInv'
BY DEF PromptInv, ExchangeInv, ServerInv, promptVars, exchangeVars, serverVars, runVars

LEMMA TroubleCounts ==
  ASSUME troubles \in 0 .. MaxTroubles, Trouble \/ UNCHANGED troubles
  PROVE  troubles' \in 0 .. MaxTroubles
BY TroublesAssumption DEF Trouble

LEMMA PromptOpens ==
  ASSUME PromptInv, OpenNext
  PROVE  PromptInv'
<1>1. CASE KeepFiles \/ HandshakeCalls \/ HandshakeGoesOn
  <2>1. UNCHANGED promptVars
    BY <1>1 DEF KeepFiles, HandshakeCalls, HandshakeGoesOn, adapterVars, clientVars, processVars,
       readVars, answerVars, bridgeVars, promptVars, exchangeVars, Begin
  <2> QED
    BY <2>1, PromptInvKept
<1>2. CASE Opens
  <2>1. UNCHANGED <<exchangeVars, troubles, asked, over, answers, runVars, took, closed>>
    BY <1>2 DEF Opens, exchangeVars, answerVars, StartProcess, processVars, readVars
  <2>2. alive' \in BOOLEAN
    BY <1>2 DEF Opens, StartProcess, processVars, PromptInv, ExchangeInv, ServerInv
  <2>3. /\ UNCHANGED <<respond, gen, listedGen, started, gens>>
        /\ installed' \in {installed, respond} /\ serving' \in BOOLEAN
    BY <1>2 DEF Opens, serverVars, Tunnel, Listen, NewServer, PromptInv, ExchangeInv, ServerInv
  <2> QED
    BY <2>1, <2>2, <2>3 DEF PromptInv, ExchangeInv, ServerInv, exchangeVars, runVars
<1>3. CASE OpenFails
  <2>1. /\ serving' \in {serving, FALSE} /\ closed' \in {closed, TRUE}
        /\ UNCHANGED <<respond, gen, listedGen, started, installed, gens>>
    BY <1>3 DEF OpenFails, TunnelClose, EndpointClose, Remove, serverVars
  <2>2. UNCHANGED <<exchangeVars, troubles, alive, asked, over, answers, runVars, took>>
    BY <1>3 DEF OpenFails, clientVars, processVars, readVars, answerVars, exchangeVars
  <2>3. ExchangeInv'
    BY <2>2 DEF PromptInv, ExchangeInv, exchangeVars, runVars
  <2>4. ServerInv'
    BY <2>1, <2>2 DEF PromptInv, ServerInv, exchangeVars
  <2> QED
    BY <2>3, <2>4 DEF PromptInv
<1> QED
  BY <1>1, <1>2, <1>3 DEF OpenNext

LEMMA PromptCloses ==
  ASSUME PromptInv, CloseNext
  PROVE  PromptInv'
<1>1. CASE Close
  <2>1. troubles' \in 0 .. MaxTroubles
    BY <1>1, TroubleCounts DEF Close, CloseBegins, PromptInv, ExchangeInv, ServerInv
  <2>2. /\ asked' = TRUE /\ runOver' \in {runOver, TRUE}
        /\ UNCHANGED <<exchangeVars, alive, over, answers, serverVars, schema, run, took, closed>>
    BY <1>1 DEF Close, CloseBegins, AskToExit, readVars, answerVars, exchangeVars
  <2> QED
    BY <2>1, <2>2 DEF PromptInv, ExchangeInv, ServerInv, exchangeVars, serverVars
<1>2. CASE ClientClosed
  BY <1>2, PromptInvKept DEF ClientClosed, clientVars, processVars, readVars, answerVars, bridgeVars,
     promptVars, exchangeVars
<1>3. CASE CloseReturns
  <2>1. /\ serving' \in {serving, FALSE} /\ closed' \in {closed, TRUE}
        /\ UNCHANGED <<respond, gen, listedGen, started, installed, gens>>
    BY <1>3 DEF CloseReturns, ClaudeCloses, OpenCodeCloses, PiCloses, TunnelClose, EndpointClose,
       Remove, serverVars
  <2>2. UNCHANGED <<exchangeVars, troubles, alive, asked, over, answers, runVars, took>>
    BY <1>3 DEF CloseReturns, clientVars, processVars, readVars, answerVars, exchangeVars
  <2>3. ExchangeInv'
    BY <2>2 DEF PromptInv, ExchangeInv, exchangeVars, runVars
  <2>4. ServerInv'
    BY <2>1, <2>2 DEF PromptInv, ServerInv, exchangeVars
  <2> QED
    BY <2>3, <2>4 DEF PromptInv
<1> QED
  BY <1>1, <1>2, <1>3 DEF CloseNext

LEMMA PromptPrompts ==
  ASSUME PromptInv, PromptNext
  PROVE  PromptInv'
<1>1. CASE Prompt
  <2>1. /\ prompting = "idle" /\ cancelling = "no" /\ ex' = ex + 1 /\ ex + 1 \in Prompts
        /\ UNCHANGED <<late, cancelling, troubles, alive, asked, over, answers, serverVars, took, closed>>
    BY <1>1 DEF Prompt, Ready, clientVars, processVars, readVars, answerVars
  <2>2. /\ prompting' \in {"schema", "send"}
        /\ run' = run \/ run' = ex'
        /\ runOver' = runOver \/ runOver' = FALSE
        /\ schema' = schema \/ schema' = Wants[ex']
    BY <1>1 DEF Prompt, ClaudePrompt, OpenCodePrompt, PiPrompt, BeginsRun, runVars
  <2>3. schema' \in Offered
    BY <2>1, <2>2, WantsAre DEF PromptInv, ExchangeInv, ServerInv
  <2>4. ex' \in 0 .. Len(Wants) /\ ex \in Nat /\ ex' > 0
    BY <2>1, WantsAre DEF PromptInv, ExchangeInv, ServerInv
  <2>5. /\ gen \in 0 .. ex' /\ gen < ex' /\ run' \in 0 .. ex' /\ took \in [Requests -> 0 .. ex']
    BY <2>1, <2>2, <2>4 DEF PromptInv, ExchangeInv, ServerInv
  <2> QED
    BY <2>1, <2>2, <2>3, <2>4, <2>5 DEF PromptInv, ExchangeInv, ServerInv, serverVars, PromptPC
<1>2. CASE PromptSets
  <2>1. /\ prompting = "schema" /\ ex \in Prompts /\ respond' = Wants[ex]
        /\ gen' = gen \/ gen' = gen + 1
        /\ installed' = installed \/ installed' = Wants[ex]
        /\ prompting' \in {"send", "listing"} /\ late' \in {late, FALSE}
        /\ UNCHANGED <<ex, cancelling, troubles, alive, asked, over, answers, listedGen, started,
                       serving, gens, runVars, took, closed>>
    <3>1. ex \in Prompts
      BY <1>2, WantsAre DEF PromptSets, PromptInv, ExchangeInv, ServerInv
    <3> QED
      BY <1>2, <3>1 DEF PromptSets, SetSchema, clientVars, processVars, readVars, answerVars
  <2>2. gen \in Nat /\ gen' \in 0 .. ex /\ listedGen \in 0 .. gen' /\ gens \in [Requests -> 0 .. gen']
    BY <2>1 DEF PromptInv, ExchangeInv, ServerInv
  <2>3. respond' \in Offered /\ installed' \in Offered
    BY <2>1, WantsAre DEF PromptInv, ExchangeInv, ServerInv
  <2> QED
    BY <2>1, <2>2, <2>3 DEF PromptInv, ExchangeInv, ServerInv, runVars, PromptPC
<1>3. CASE PromptWaits \/ PromptSends \/ Prompted \/ ExchangeOver
  <2>1. /\ prompting # "idle" /\ prompting' \in {"idle", "send", "failed", "open", "asking"}
        /\ late' \in {late, TRUE}
    BY <1>3 DEF PromptWaits, PromptSends, Prompted, ExchangeOver, ClaudeSends, CallSends
  <2>2. UNCHANGED <<ex, cancelling, troubles, alive, asked, over, answers, serverVars, runVars, took, closed>>
    BY <1>3 DEF PromptWaits, PromptSends, Prompted, ExchangeOver, ClaudeSends, CallSends, Begin,
       clientVars, processVars, readVars, answerVars, bridgeVars
  <2> QED
    <3>1. ExchangeInv'
      BY <2>1, <2>2 DEF PromptInv, ExchangeInv, runVars, PromptPC
    <3>2. ServerInv'
      BY <2>1, <2>2 DEF PromptInv, ServerInv, serverVars
    <3> QED
      BY <3>1, <3>2 DEF PromptInv
<1> QED
  BY <1>1, <1>2, <1>3 DEF PromptNext

LEMMA PromptCancels ==
  ASSUME PromptInv, CancelNext
  PROVE  PromptInv'
<1>1. CASE Cancel
  <2>1. troubles' \in 0 .. MaxTroubles
    BY <1>1, TroubleCounts DEF Cancel, PromptInv, ExchangeInv, ServerInv
  <2>2. /\ prompting = "open" /\ runOver' \in {runOver, TRUE} /\ cancelling' \in {cancelling, "abort", "clear"}
        /\ UNCHANGED <<ex, prompting, late, alive, asked, over, answers, serverVars, schema, run, took, closed>>
    BY <1>1 DEF Cancel, ClaudeCancel, OpenCodeCancel, PiCancel, Begin, readVars, answerVars
  <2> QED
    <3>1. ExchangeInv'
      BY <2>1, <2>2 DEF PromptInv, ExchangeInv, CancelPC
    <3>2. ServerInv'
      BY <2>2 DEF PromptInv, ServerInv, serverVars
    <3> QED
      BY <3>1, <3>2 DEF PromptInv
<1>2. CASE CancelGoesOn \/ CancelOver
  BY <1>2 DEF CancelGoesOn, CancelOver, Begin, clientVars, processVars, answerVars, readVars, bridgeVars,
     serverVars, runVars, PromptInv, ExchangeInv, ServerInv, CancelPC
<1> QED
  BY <1>1, <1>2 DEF CancelNext

LEMMA PromptHandles ==
  ASSUME PromptInv, NEW r \in Requests, HandlerNext(r) \/ ReplyNext(r)
  PROVE  PromptInv'
<1>1. /\ UNCHANGED <<exchangeVars, troubles, alive, asked, over, answers, closed, runVars, respond, gen,
                     installed, serving>>
  BY DEF HandlerNext, ReplyNext, Reply, RequestNext, ToolReturns, ListArrives, ListReads, ListAnswers,
     Respond, RunTool, TakeRun, GiveUp, AnswerAtOnce, adapterVars, exchangeVars, processVars, readVars,
     bridgeVars, serverVars
<1>2. CASE ListArrives(r)
  <2>1. gens' = [gens EXCEPT ![r] = gen] /\ started' = started + 1 /\ UNCHANGED <<listedGen, took>>
    BY <1>2 DEF ListArrives
  <2> QED
    BY <1>1, <2>1 DEF PromptInv, ExchangeInv, ServerInv, exchangeVars, runVars
<1>3. CASE ListAnswers(r)
  <2>1. listedGen' \in {gens[r], listedGen} /\ UNCHANGED <<gens, started, took>>
    BY <1>3 DEF ListAnswers, GenAtArrival
  <2> QED
    BY <1>1, <2>1 DEF PromptInv, ExchangeInv, ServerInv, exchangeVars, runVars
<1>4. CASE TakeRun(r)
  <2>1. took' = [took EXCEPT ![r] = run] /\ UNCHANGED <<listedGen, gens, started>>
    BY <1>4 DEF TakeRun, Relay, CallDialog, Takes, serverVars
  <2> QED
    BY <1>1, <2>1 DEF PromptInv, ExchangeInv, ServerInv, exchangeVars, runVars
<1>5. CASE ~(ListArrives(r) \/ ListAnswers(r) \/ TakeRun(r))
  <2>1. UNCHANGED <<listedGen, gens, started, took>>
    BY <1>5 DEF HandlerNext, ReplyNext, RequestNext, ToolReturns, ListReads,
       Respond, RunTool, GiveUp, AnswerAtOnce, bridgeVars, serverVars
  <2> QED
    BY <1>1, <2>1 DEF PromptInv, ExchangeInv, ServerInv, exchangeVars, runVars
<1> QED
  BY <1>2, <1>3, <1>4, <1>5

LEMMA PromptHarness ==
  ASSUME PromptInv, HarnessNext
  PROVE  PromptInv'
<1>1. CASE HarnessExits
  <2>1. troubles' \in 0 .. MaxTroubles
    BY <1>1, TroubleCounts DEF HarnessExits, PromptInv, ExchangeInv, ServerInv
  <2>2. /\ alive' = FALSE
        /\ UNCHANGED <<exchangeVars, asked, over, answers, serverVars, runVars, took, closed>>
    BY <1>1 DEF HarnessExits, ProcessEnds, readVars, answerVars, bridgeVars, exchangeVars
  <2> QED
    BY <2>1, <2>2 DEF PromptInv, ExchangeInv, ServerInv, exchangeVars, serverVars, runVars
<1>2. CASE ~HarnessExits
  <2>1. HarnessKeeps
    BY <1>2 DEF HarnessNext, HarnessAnswers, HarnessRuns, HarnessStops, HarnessHears, HarnessFetches,
       HarnessLists, HarnessUses, HarnessReports, HarnessEnds
  <2> QED
    BY <2>1, PromptInvKept DEF HarnessKeeps, adapterVars, readVars, promptVars, exchangeVars
<1> QED
  BY <1>1, <1>2

LEMMA PromptKept ==
  ASSUME PromptInv, [Next]_vars
  PROVE  PromptInv'
<1>1. CASE OpenNext \/ CloseNext \/ PromptNext \/ CancelNext \/ HarnessNext
  BY <1>1, PromptOpens, PromptCloses, PromptPrompts, PromptCancels, PromptHarness
<1>2. CASE \E c \in Calls : GivesUp(c) \/ CallNext(c)
  <2>1. Trouble \/ UNCHANGED troubles
    BY <1>2 DEF GivesUp, CallNext, adapterVars
  <2>2. UNCHANGED <<exchangeVars, alive, asked, over, answers, serverVars, runVars, took, closed>>
    BY <1>2 DEF GivesUp, Forget, CallNext, WriteCall, Return, adapterVars, processVars, readVars,
       answerVars, bridgeVars, exchangeVars
  <2>3. troubles' \in 0 .. MaxTroubles
    BY <2>1, TroubleCounts DEF PromptInv, ExchangeInv, ServerInv
  <2> QED
    BY <2>2, <2>3 DEF PromptInv, ExchangeInv, ServerInv, exchangeVars, serverVars, runVars
<1>3. CASE ReaderNext
  <2>1. UNCHANGED <<exchangeVars, troubles, alive, asked, serverVars, runVars, took, closed>>
    BY <1>3 DEF ReaderNext, Dispatch, Resolve, Shutdown, EventsClose, adapterVars, processVars,
       bridgeVars, exchangeVars
  <2>2. over' \in {over, TRUE} /\ answers' \in {answers, FALSE}
    BY <1>3 DEF ReaderNext, Dispatch, Resolve, Shutdown, EventsClose, answerVars
  <2>3. ExchangeInv'
    BY <2>1, <2>2 DEF PromptInv, ExchangeInv, exchangeVars, runVars
  <2>4. ServerInv'
    BY <2>1 DEF PromptInv, ServerInv, exchangeVars, serverVars
  <2> QED
    BY <2>3, <2>4 DEF PromptInv
<1>4. CASE \E r \in Requests : HandlerNext(r) \/ ReplyNext(r)
  BY <1>4, PromptHandles
<1>5. CASE Terminated \/ UNCHANGED vars
  BY <1>5, PromptInvKept DEF Terminated, vars, adapterVars, clientVars, processVars, readVars, answerVars,
     bridgeVars, promptVars, exchangeVars
<1> QED
  BY <1>1, <1>2, <1>3, <1>4, <1>5 DEF Next

LEMMA PromptBegins == Init => PromptInv
<1> SUFFICES ASSUME Init PROVE PromptInv
  OBVIOUS
<1>1. /\ ex = 0 /\ prompting = "idle" /\ late = FALSE /\ cancelling = "no" /\ troubles = 0
      /\ alive = FALSE /\ asked = FALSE /\ over = FALSE /\ answers = TRUE
      /\ respond = None /\ installed = None /\ schema = None
      /\ gen = 0 /\ listedGen = 0 /\ started = 0 /\ gens = [r \in Requests |-> 0]
      /\ run = 0 /\ runOver = FALSE /\ took = [r \in Requests |-> 0]
      /\ serving = FALSE /\ closed = FALSE
  BY DEF Init, InitClient, InitBridge
<1>2. gens \in [Requests -> 0 .. gen] /\ took \in [Requests -> 0 .. ex]
  BY <1>1
<1>3. ex \in 0 .. Len(Wants) /\ troubles \in 0 .. MaxTroubles /\ gen \in 0 .. ex
      /\ listedGen \in 0 .. gen /\ started \in Nat /\ run \in 0 .. ex
  BY <1>1, WantsAre, TroublesAssumption
<1> QED
  BY <1>1, <1>2, <1>3 DEF PromptInv, ExchangeInv, ServerInv, Offered, PromptPC, CancelPC

(***************************************************************************)
(* The calls of the client.                                                *)
(***************************************************************************)
(* A call in flight with no response yet is pending, or its response is in *)
(* read's hand; once read has failed the pending calls, none is.           *)
Responses == {<<>>, <<"ok">>, <<"refused">>, <<"exit">>}
InFlight == {"open", "waiting", "sent"}
Over == {"wait", "done"}
Resolving(c) == reader = "resolve" /\ hand.response[1] = c
CallOnce(c) ==
    /\ chan[c] = <<"exit">> => reader \in Over
    /\ c \in pending => call[c] \in InFlight /\ chan[c] = <<>>
    /\ Resolving(c) => call[c] # "none" /\ chan[c] = <<>> /\ c \notin pending
    /\ call[c] \in InFlight /\ chan[c] = <<>> => c \in pending \/ Resolving(c)
    /\ call[c] = "none" => chan[c] = <<>>
CallsInv ==
    /\ reader \in ReaderPC /\ failed \in BOOLEAN /\ pending \subseteq Calls
    /\ call \in [Calls -> CallPC] /\ chan \in [Calls -> Responses]
    /\ reader \in Over => failed /\ pending = {}
    /\ reader = "resolve" => hand.response[1] \in Calls
    /\ \A c \in Calls : CallOnce(c)

(* Read ends with the process, which begins with it.                       *)
ReaderInv ==
    /\ step \in Starting => reader = "none"
    /\ reader \in Over => ~alive
    /\ ~answers <=> reader \in Over

(* The calls of the prompts to come, and of the steps of this one to come, *)
(* have not begun.                                                         *)
Turn == {"prompt", "clear", "cancel"}
UnbegunInv ==
    /\ \A c \in Calls : c[1] \in Turn /\ c[2] > ex => call[c] = "none"
    /\ prompting \in {"schema", "listing", "send"} => call[PromptCall(ex)] = "none"
    /\ cancelling = "clear" => call[CancelCall("cancel")] = "none"
ClientInv == CallsInv /\ ReaderInv /\ UnbegunInv

callsVars == <<callVars, reader, hand>>

LEMMA CallsAre ==
  /\ \A n \in Prompts : PromptCall(n) \in Calls
  /\ \A w \in {"clear", "cancel"} : ex \in Prompts => CancelCall(w) \in Calls
  /\ step \in Handshake => StepCall \in Calls
  /\ Again \in Calls
<1>1. \A n \in Prompts, w \in Turn : <<w, n>> \in Calls
  BY CallsAssumption DEF Turn
<1>2. <<"initialize", 1>> \in Calls /\ <<"load", 1>> \in Calls /\ <<"model", 1>> \in Calls
      /\ <<"model", 2>> \in Calls /\ <<"state", 1>> \in Calls
  BY CallsAssumption
<1> QED
  BY <1>1, <1>2 DEF PromptCall, CancelCall, Turn, Handshake, StepCall, Again

LEMMA CallsBegin ==
  ASSUME CallsInv, NEW c \in Calls, call[c] = "none", Begin(c)
  PROVE  CallsInv'
<1>1. /\ UNCHANGED <<failed, chan, reader, hand>> /\ c \notin pending /\ chan[c] = <<>> /\ ~Resolving(c)
  BY DEF Begin, CallsInv, CallOnce, InFlight
<1>2. /\ \A d \in Calls : d # c => call'[d] = call[d]
      /\ call' \in [Calls -> CallPC]
  BY DEF Begin, CallsInv, CallPC
<1>3. CASE failed
  <2>1. call'[c] = "failed" /\ pending' = pending
    BY <1>3 DEF Begin, CallsInv
  <2>2. \A d \in Calls : CallOnce(d)'
    BY <1>1, <1>2, <2>1 DEF CallsInv, CallOnce, Resolving, InFlight
  <2> QED
    BY <1>1, <1>2, <2>1, <2>2 DEF CallsInv
<1>4. CASE ~failed
  <2>1. call'[c] = "open" /\ pending' = pending \union {c}
    BY <1>4 DEF Begin, CallsInv
  <2>2. \A d \in Calls : CallOnce(d)'
    BY <1>1, <1>2, <2>1 DEF CallsInv, CallOnce, Resolving, InFlight
  <2> QED
    BY <1>1, <1>2, <1>4, <2>1, <2>2 DEF CallsInv
<1> QED
  BY <1>3, <1>4

(* A step of a caller.                                                     *)
LEMMA CallsGoOn ==
  ASSUME CallsInv, NEW c \in Calls, WriteCall(c) \/ Return(c) \/ Forget(c)
  PROVE  CallsInv'
<1>1. UNCHANGED <<failed, chan, reader, hand>>
  BY DEF WriteCall, Return, Forget, readVars
<1>2. /\ call[c] \in {"open", "waiting"} /\ call'[c] # "none" /\ call'[c] \in CallPC
      /\ \A d \in Calls : d # c => call'[d] = call[d]
      /\ call' = [call EXCEPT ![c] = call'[c]]
  <2>1. CASE WriteCall(c) \/ Forget(c)
    BY <2>1 DEF WriteCall, Forget, CallsInv, CallPC
  <2>2. CASE Return(c)
    <3>1. chan[c] \in {<<"ok">>, <<"refused">>, <<"exit">>}
      BY <2>2 DEF Return, CallsInv, Responses
    <3>2. Head(chan[c]) \in {"ok", "refused", "exit"}
      BY <3>1
    <3> QED
      BY <2>2, <3>2 DEF Return, CallsInv, CallPC
  <2> QED
    BY <2>1, <2>2
<1>3. /\ pending' \in {pending, pending \ {c}}
      /\ call'[c] \in InFlight => call[c] \in InFlight /\ pending' = pending
      /\ call'[c] \notin InFlight => chan[c] # <<>> \/ pending' = pending \ {c}
  <2>1. CASE WriteCall(c) \/ Forget(c)
    BY <2>1 DEF WriteCall, Forget, CallsInv, InFlight
  <2>2. CASE Return(c)
    <3>1. chan[c] \in {<<"ok">>, <<"refused">>, <<"exit">>}
      BY <2>2 DEF Return, CallsInv, Responses
    <3>2. Head(chan[c]) \notin InFlight
      BY <3>1 DEF InFlight
    <3> QED
      BY <2>2, <3>1, <3>2 DEF Return, CallsInv
  <2> QED
    BY <2>1, <2>2
<1>4. \A d \in Calls : d # c => CallOnce(d)'
  BY <1>1, <1>2, <1>3 DEF CallsInv, CallOnce, Resolving
<1>5. CallOnce(c)'
  BY <1>1, <1>2, <1>3 DEF CallsInv, CallOnce, Resolving
<1>6. call' \in [Calls -> CallPC] /\ pending' \subseteq pending
  BY <1>2, <1>3 DEF CallsInv
<1> QED
  BY <1>1, <1>4, <1>5, <1>6 DEF CallsInv

(* A step of the goroutine read.                                           *)
LEMMA CallsRead ==
  ASSUME CallsInv, Dispatch \/ Resolve \/ Shutdown \/ EventsClose
  PROVE  CallsInv'
<1>1. call' = call
  BY DEF Dispatch, Resolve, Shutdown, EventsClose, callVars
<1>2. CASE Dispatch
  <2>1. UNCHANGED <<failed, chan>> /\ reader = "read"
    BY <1>2 DEF Dispatch
  <2>2. CASE UNCHANGED <<reader, hand, pending>>
    BY <1>1, <2>1, <2>2 DEF CallsInv, CallOnce, Resolving
  <2>3. CASE ~UNCHANGED <<reader, hand, pending>>
    <3>1. /\ reader' = "resolve" /\ hand'.response[1] \in pending
          /\ pending' = pending \ {hand'.response[1]}
      BY <1>2, <2>3 DEF Dispatch, Taken
    <3>2. \A d \in Calls : CallOnce(d)'
      BY <1>1, <2>1, <3>1 DEF CallsInv, CallOnce, Resolving, InFlight, Over
    <3> QED
      BY <1>1, <2>1, <3>1, <3>2 DEF CallsInv, ReaderPC, Over
  <2> QED
    BY <2>2, <2>3
<1>3. CASE Resolve
  <2>0. PICK c \in Calls : c = hand.response[1]
    BY <1>3 DEF Resolve, CallsInv
  <2>1. /\ reader = "resolve" /\ reader' = "read" /\ UNCHANGED <<failed, pending>>
        /\ Resolving(c) /\ chan[c] = <<>> /\ call[c] # "none" /\ c \notin pending
    BY <1>3, <2>0 DEF Resolve, CallsInv, CallOnce, Resolving
  <2>2. /\ chan'[c] \in {<<"ok">>, <<"refused">>}
        /\ chan' = [chan EXCEPT ![c] = chan'[c]]
    <3>1. Append(<<>>, "ok") = <<"ok">> /\ Append(<<>>, "refused") = <<"refused">>
      OBVIOUS
    <3>2. \E v \in {"ok", "refused"} : chan' = [chan EXCEPT ![c] = Append(chan[c], v)]
      BY <1>3, <2>0 DEF Resolve
    <3>3. chan' = [chan EXCEPT ![c] = <<"ok">>] \/ chan' = [chan EXCEPT ![c] = <<"refused">>]
      BY <2>1, <3>1, <3>2
    <3>4. c \in DOMAIN chan
      BY <2>1 DEF CallsInv
    <3> QED
      BY <3>3, <3>4
  <2>3. \A d \in Calls : d # c => chan'[d] = chan[d] /\ ~Resolving(d)
    BY <2>0, <2>2 DEF CallsInv, Resolving
  <2>4. chan' \in [Calls -> Responses]
    BY <2>1, <2>2 DEF CallsInv, Responses
  <2>5. reader' = "read" /\ reader = "resolve" /\ pending' = pending /\ call' = call
    BY <1>1, <2>1
  <2>6. \A d \in Calls : CallOnce(d)
    BY DEF CallsInv
  <2>7. \A d \in Calls : d # c => CallOnce(d)'
    <3> SUFFICES ASSUME NEW d \in Calls, d # c
                 PROVE  CallOnce(d)'
      OBVIOUS
    <3>1. CallOnce(d) /\ ~Resolving(d) /\ chan'[d] = chan[d]
      BY <2>3, <2>6
    <3>2. chan[d] # <<"exit">>
      BY <2>5, <3>1 DEF CallOnce, Over
    <3>3. ~Resolving(d)'
      BY <2>5 DEF Resolving
    <3> QED
      BY <2>5, <3>1, <3>2, <3>3 DEF CallOnce
  <2>8. CallOnce(c)'
    <3>1. chan'[c] # <<>> /\ chan'[c] # <<"exit">>
      BY <2>2
    <3>2. ~Resolving(c)' /\ c \notin pending' /\ call'[c] # "none"
      BY <2>1, <2>5 DEF Resolving
    <3> QED
      BY <3>1, <3>2 DEF CallOnce
  <2> QED
    BY <1>1, <2>1, <2>4, <2>7, <2>8 DEF CallsInv, ReaderPC, Over
<1>4. CASE Shutdown
  <2>1. /\ reader = "read" /\ reader' = "wait" /\ failed' = TRUE /\ pending' = {}
        /\ chan' = [c \in Calls |-> IF c \in pending THEN Append(chan[c], "exit") ELSE chan[c]]
    BY <1>4 DEF Shutdown, FailsOpen
  <2>2. \A c \in Calls : c \in pending => chan'[c] = <<"exit">>
    <3>1. Append(<<>>, "exit") = <<"exit">>
      OBVIOUS
    <3>2. \A c \in Calls : c \in pending => chan[c] = <<>>
      BY DEF CallsInv, CallOnce
    <3> QED
      BY <2>1, <3>1, <3>2
  <2>3. \A c \in Calls : c \notin pending => chan'[c] = chan[c]
    BY <2>1
  <2>4. chan' \in [Calls -> Responses]
    BY <2>1, <2>2, <2>3 DEF CallsInv, Responses
  <2>5. \A c \in Calls : CallOnce(c)'
    BY <1>1, <2>1, <2>2, <2>3 DEF CallsInv, CallOnce, Resolving, InFlight, Over
  <2> QED
    BY <1>1, <2>1, <2>4, <2>5 DEF CallsInv, ReaderPC, Over
<1>5. CASE EventsClose
  BY <1>5 DEF EventsClose, CallsInv, CallOnce, Resolving, callVars, ReaderPC, Over
<1> QED
  BY <1>2, <1>3, <1>4, <1>5

LEMMA CallsStart ==
  ASSUME CallsInv, reader = "none", StartProcess, UNCHANGED callVars
  PROVE  CallsInv'
BY DEF CallsInv, CallOnce, Resolving, callVars, StartProcess, ReaderPC, Over

(* The steps that touch the calls.  A call begins once.                    *)
LEMMA CallsStep ==
  ASSUME PromptInv, UnbegunInv, [Next]_vars
  PROVE  \/ UNCHANGED callsVars
         \/ \E c \in Calls : call[c] = "none" /\ Begin(c)
         \/ \E c \in Calls : WriteCall(c) \/ Return(c) \/ Forget(c)
         \/ Dispatch \/ Resolve \/ Shutdown \/ EventsClose
         \/ step \in Starting /\ StartProcess /\ UNCHANGED callVars
<1>1. CASE OpenNext
  <2>1. CASE KeepFiles \/ OpenFails \/ HandshakeGoesOn
    BY <2>1 DEF KeepFiles, OpenFails, HandshakeGoesOn, clientVars, readVars, callsVars
  <2>2. CASE Opens
    <3>1. UNCHANGED callVars /\ step \in Starting
      BY <2>2 DEF Opens
    <3>2. StartProcess \/ UNCHANGED readVars
      BY <2>2 DEF Opens
    <3> QED
      BY <3>1, <3>2 DEF readVars, callsVars
  <2>3. CASE HandshakeCalls
    BY <2>3, CallsAre DEF HandshakeCalls, AsksAgain
  <2> QED
    BY <1>1, <2>1, <2>2, <2>3 DEF OpenNext
<1>2. CASE CloseNext
  BY <1>2 DEF CloseNext, Close, CloseBegins, ClientClosed, CloseReturns, clientVars, readVars, callsVars
<1>3. CASE PromptNext
  <2>1. CASE Prompt \/ PromptSets \/ PromptWaits \/ Prompted
    BY <2>1 DEF Prompt, PromptSets, PromptWaits, Prompted, clientVars, readVars, callsVars
  <2>2. CASE PromptSends
    <3>1. ex \in Prompts /\ call[PromptCall(ex)] = "none"
      BY <2>2, WantsAre DEF PromptSends, PromptInv, ExchangeInv, UnbegunInv
    <3>2. Begin(PromptCall(ex)) \/ UNCHANGED <<callVars, readVars>>
      BY <2>2 DEF PromptSends, ClaudeSends, CallSends
    <3> QED
      BY <3>1, <3>2, CallsAre DEF readVars, callsVars
  <2>3. CASE ExchangeOver
    BY <2>3 DEF ExchangeOver, callsVars
  <2> QED
    BY <1>3, <2>1, <2>2, <2>3 DEF PromptNext
<1>4. CASE CancelNext
  <2>1. CASE Cancel
    <3>1. ex \in Prompts /\ \A w \in {"clear", "cancel"} : call[CancelCall(w)] = "none"
      BY <2>1, WantsAre DEF Cancel, PromptInv, ExchangeInv
    <3>2. (\E w \in {"clear", "cancel"} : Begin(CancelCall(w))) \/ UNCHANGED <<callVars, readVars>>
      BY <2>1 DEF Cancel, ClaudeCancel, OpenCodeCancel, PiCancel
    <3> QED
      BY <3>1, <3>2, CallsAre DEF readVars, callsVars
  <2>2. CASE CancelGoesOn
    <3>1. ex \in Prompts /\ call[CancelCall("cancel")] = "none" /\ Begin(CancelCall("cancel"))
      BY <2>2, WantsAre DEF CancelGoesOn, PromptInv, ExchangeInv, UnbegunInv
    <3> QED
      BY <3>1, CallsAre
  <2>3. CASE CancelOver
    BY <2>3 DEF CancelOver, clientVars, readVars, callsVars
  <2> QED
    BY <1>4, <2>1, <2>2, <2>3 DEF CancelNext
<1>5. CASE \E c \in Calls : GivesUp(c) \/ CallNext(c)
  BY <1>5 DEF GivesUp, CallNext
<1>6. CASE ReaderNext
  BY <1>6 DEF ReaderNext
<1>7. CASE \E r \in Requests : HandlerNext(r) \/ ReplyNext(r)
  BY <1>7 DEF HandlerNext, ReplyNext, RequestNext, ToolReturns, ListArrives, ListReads, ListAnswers,
     Respond, RunTool, TakeRun, GiveUp, AnswerAtOnce, Reply, readVars, callsVars
<1>8. CASE HarnessNext
  BY <1>8 DEF HarnessNext, HarnessAnswers, HarnessRuns, HarnessStops, HarnessHears, HarnessFetches,
     HarnessLists, HarnessUses, HarnessReports, HarnessEnds, HarnessExits, HarnessKeeps, readVars, callsVars
<1>9. CASE Terminated \/ UNCHANGED vars
  BY <1>9 DEF Terminated, vars, clientVars, readVars, callsVars
<1> QED
  BY <1>1, <1>2, <1>3, <1>4, <1>5, <1>6, <1>7, <1>8, <1>9 DEF Next

LEMMA CallsKept ==
  ASSUME PromptInv, ClientInv, [Next]_vars
  PROVE  CallsInv'
<1>1. CASE UNCHANGED callsVars
  BY <1>1 DEF ClientInv, CallsInv, CallOnce, Resolving, callsVars, callVars
<1>2. CASE \E c \in Calls : call[c] = "none" /\ Begin(c)
  BY <1>2, CallsBegin DEF ClientInv
<1>3. CASE \E c \in Calls : WriteCall(c) \/ Return(c) \/ Forget(c)
  BY <1>3, CallsGoOn DEF ClientInv
<1>4. CASE Dispatch \/ Resolve \/ Shutdown \/ EventsClose
  BY <1>4, CallsRead DEF ClientInv
<1>5. CASE step \in Starting /\ StartProcess /\ UNCHANGED callVars
  BY <1>5, CallsStart DEF ClientInv, ReaderInv
<1> QED
  BY <1>1, <1>2, <1>3, <1>4, <1>5, CallsStep DEF ClientInv

LEMMA ReaderKept ==
  ASSUME HeldInv, ReaderInv, [Next]_vars
  PROVE  ReaderInv'
<1>1. CASE Opens
  <2>1. /\ step \in Starting /\ step' = StepAfter(step) /\ step # "failed" /\ step # "open"
        /\ answers' = answers
    BY <1>1 DEF Opens, Starting, answerVars
  <2>2. CASE step = "process"
    <3>1. step' \notin Starting
      BY <2>1, <2>2, AfterIs DEF HeldInv, Onward, Handshake, Starting
    <3> QED
      BY <1>1, <2>1, <2>2, <3>1 DEF Opens, StartProcess, ReaderInv, Over
  <2>3. CASE step # "process"
    BY <1>1, <2>1, <2>3 DEF Opens, processVars, readVars, ReaderInv, Over
  <2> QED
    BY <2>2, <2>3
<1>2. CASE HandshakeGoesOn
  <2>1. step \notin Starting /\ step # "failed" /\ step # "open" /\ step' = StepAfter(step)
    BY <1>2 DEF HandshakeGoesOn, Handshake, Starting
  <2>2. step' \notin Starting
    BY <2>1, AfterIs DEF HeldInv, Onward, Handshake, Starting
  <2> QED
    BY <1>2, <2>2 DEF HandshakeGoesOn, clientVars, processVars, readVars, answerVars, ReaderInv
<1>3. CASE OpenFails
  BY <1>3 DEF OpenFails, clientVars, processVars, readVars, answerVars, ReaderInv, Starting
<1>4. CASE Close
  <2>1. step' \in {"open", "failed"} /\ UNCHANGED <<alive, reader, answers>>
    BY <1>4 DEF Close, CloseBegins, AskToExit, readVars, answerVars
  <2> QED
    BY <2>1 DEF ReaderInv, Starting
<1>5. CASE HarnessExits
  BY <1>5 DEF HarnessExits, ProcessEnds, readVars, answerVars, openVars, ReaderInv
<1>6. CASE ReaderNext
  <2>1. step' = step /\ alive' = alive
    BY <1>6 DEF ReaderNext, Dispatch, Resolve, Shutdown, EventsClose, adapterVars, openVars, processVars
  <2>2. CASE Dispatch \/ Resolve
    <3>1. reader' \in {"read", "resolve"} /\ reader \in {"read", "resolve"} /\ answers' = answers
      BY <2>2 DEF Dispatch, Resolve, answerVars
    <3> QED
      BY <2>1, <3>1 DEF ReaderInv, Over
  <2>3. CASE Shutdown
    BY <2>1, <2>3 DEF Shutdown, LinesOver, ReaderInv, Over
  <2>4. CASE EventsClose
    BY <2>1, <2>4 DEF EventsClose, answerVars, ReaderInv, Over
  <2> QED
    BY <1>6, <2>2, <2>3, <2>4 DEF ReaderNext
<1>7. CASE UNCHANGED <<step, reader, alive, answers>>
  BY <1>7 DEF ReaderInv
<1>8. ASSUME ~(Opens \/ HandshakeGoesOn \/ OpenFails \/ Close \/ HarnessExits \/ ReaderNext)
      PROVE  UNCHANGED <<step, reader, alive, answers>>
  <2>1. CASE KeepFiles \/ HandshakeCalls \/ ClientClosed \/ CloseReturns
    BY <2>1 DEF KeepFiles, HandshakeCalls, ClientClosed, CloseReturns, Begin, adapterVars, openVars,
       clientVars, processVars, readVars, answerVars
  <2>2. CASE PromptNext
    BY <2>2 DEF PromptNext, Prompt, PromptSets, PromptWaits, PromptSends, ClaudeSends, CallSends, Begin,
       Prompted, ExchangeOver, openVars, clientVars, processVars, readVars, answerVars
  <2>3. CASE CancelNext
    BY <2>3 DEF CancelNext, Cancel, ClaudeCancel, OpenCodeCancel, PiCancel, CancelGoesOn, CancelOver,
       Begin, openVars, clientVars, processVars, readVars, answerVars
  <2>4. CASE \E c \in Calls : GivesUp(c) \/ CallNext(c)
    BY <2>4 DEF GivesUp, Forget, CallNext, WriteCall, Return, adapterVars, openVars, processVars,
       readVars, answerVars
  <2>5. CASE \E r \in Requests : HandlerNext(r) \/ ReplyNext(r)
    BY <2>5 DEF HandlerNext, ReplyNext, RequestNext, ToolReturns, ListArrives, ListReads, ListAnswers,
       Respond, RunTool, TakeRun, GiveUp, AnswerAtOnce, Reply, adapterVars, openVars, processVars, readVars
  <2>6. CASE HarnessNext
    BY <1>8, <2>6 DEF HarnessNext, HarnessAnswers, HarnessRuns, HarnessStops, HarnessHears, HarnessFetches,
       HarnessLists, HarnessUses, HarnessReports, HarnessEnds, HarnessKeeps, adapterVars, openVars, readVars
  <2>7. CASE Terminated \/ UNCHANGED vars
    BY <2>7 DEF Terminated, vars, adapterVars, openVars, clientVars, processVars, readVars, answerVars
  <2> QED
    BY <1>8, <2>1, <2>2, <2>3, <2>4, <2>5, <2>6, <2>7 DEF Next, OpenNext, CloseNext
<1> QED
  BY <1>1, <1>2, <1>3, <1>4, <1>5, <1>6, <1>7, <1>8

(* What has not begun stays so unless its own step comes.                  *)
LEMMA BeginsOne ==
  ASSUME CallsInv, NEW c \in Calls, Begin(c)
  PROVE  \A d \in Calls : d # c => call'[d] = call[d]
BY DEF Begin, CallsInv

LEMMA NoneStays ==
  ASSUME CallsInv, UNCHANGED callVars \/ UNCHANGED call \/ \E c \in Calls : WriteCall(c) \/ Return(c) \/ Forget(c)
  PROVE  \A d \in Calls : call[d] = "none" => call'[d] = "none"
BY DEF CallsInv, WriteCall, Return, Forget, callVars

LEMMA UnbegunKept ==
  ASSUME PromptInv, ClientInv, [Next]_vars
  PROVE  UnbegunInv'
<1>0. CallsInv /\ UnbegunInv
  BY DEF ClientInv
<1>1. ASSUME \A d \in Calls : call[d] = "none" => call'[d] = "none", ex' = ex,
             prompting' \notin {"schema", "listing", "send"} \/ prompting \in {"schema", "listing", "send"},
             cancelling' = "clear" => cancelling = "clear"
      PROVE  UnbegunInv'
  <2>1. cancelling = "clear" => CancelCall("cancel") \in Calls
    BY WantsAre, CallsAre DEF PromptInv, ExchangeInv
  <2>2. prompting # "idle" => PromptCall(ex) \in Calls
    BY WantsAre, CallsAre DEF PromptInv, ExchangeInv
  <2> QED
    BY <1>0, <1>1, <2>1, <2>2 DEF UnbegunInv, PromptCall, CancelCall
<1>2. CASE HandshakeCalls
  <2>1. /\ step \in Handshake /\ UNCHANGED exchangeVars
        /\ Begin(StepCall) \/ (step = "model" /\ Begin(Again))
    BY <1>2 DEF HandshakeCalls, AsksAgain, adapterVars, exchangeVars
  <2>2. StepCall \in Calls /\ Again \in Calls /\ StepCall[1] \notin Turn /\ Again[1] \notin Turn
    BY <2>1, CallsAre DEF StepCall, Again, Turn, Handshake
  <2>3. \A d \in Calls : d[1] \in Turn => call'[d] = call[d]
    BY <1>0, <2>1, <2>2, BeginsOne
  <2>4. ex \in Prompts => PromptCall(ex) \in Calls /\ PromptCall(ex)[1] \in Turn
                          /\ CancelCall("cancel") \in Calls /\ CancelCall("cancel")[1] \in Turn
    BY CallsAre DEF PromptCall, CancelCall, Turn
  <2>5. /\ prompting \in {"schema", "listing", "send"} => ex \in Prompts
        /\ cancelling = "clear" => ex \in Prompts
    BY WantsAre DEF PromptInv, ExchangeInv
  <2> QED
    BY <1>0, <2>1, <2>3, <2>4, <2>5 DEF UnbegunInv, exchangeVars, PromptCall, CancelCall
<1>3. CASE Prompt
  <2>1. /\ ex' = ex + 1 /\ ex' \in Prompts /\ cancelling' = "no" /\ call' = call
    BY <1>3 DEF Prompt, Ready, clientVars, callVars
  <2>2. PromptCall(ex') \in Calls /\ PromptCall(ex')[1] \in Turn /\ PromptCall(ex')[2] > ex
    BY <2>1, CallsAre DEF PromptCall, Turn, PromptInv, ExchangeInv
  <2>3. \A c \in Calls : c[1] \in Turn /\ c[2] > ex' => c[2] > ex
    BY <2>1, CallsAssumption, WantsAre DEF PromptInv, ExchangeInv, Turn
  <2>4. call[PromptCall(ex')] = "none"
    BY <1>0, <2>2 DEF UnbegunInv
  <2> QED
    BY <1>0, <2>1, <2>3, <2>4 DEF UnbegunInv, PromptCall
<1>4. CASE PromptSends
  <2>1. /\ prompting = "send" /\ prompting' \notin {"schema", "listing", "send"} /\ UNCHANGED <<ex, cancelling>>
        /\ Begin(PromptCall(ex)) \/ UNCHANGED call
    BY <1>4 DEF PromptSends, ClaudeSends, CallSends, callVars
  <2>2. ex \in Prompts /\ ex \in Nat /\ PromptCall(ex) \in Calls /\ CancelCall("cancel") \in Calls
    BY <2>1, WantsAre, CallsAre DEF PromptInv, ExchangeInv
  <2>3. CancelCall("cancel") # PromptCall(ex) /\ \A c \in Calls : c[2] > ex => c # PromptCall(ex)
    BY <2>2 DEF PromptCall, CancelCall
  <2>4. \A d \in Calls : d # PromptCall(ex) => call'[d] = call[d]
    BY <1>0, <2>1, <2>2, BeginsOne
  <2> QED
    BY <1>0, <2>1, <2>2, <2>3, <2>4 DEF UnbegunInv, CancelCall
<1>5. CASE Cancel \/ CancelGoesOn
  <2>1. /\ UNCHANGED <<ex, prompting>>
        /\ \/ cancelling' = "abort" /\ Begin(CancelCall("cancel"))
           \/ prompting = "open" /\ UNCHANGED <<call, cancelling>>
           \/ /\ prompting = "open" /\ cancelling' = "clear" /\ Begin(CancelCall("clear"))
              /\ call[CancelCall("cancel")] = "none"
    BY <1>5 DEF Cancel, CancelGoesOn, ClaudeCancel, OpenCodeCancel, PiCancel, callVars
  <2>2. CASE UNCHANGED <<call, cancelling>>
    BY <1>0, <2>1, <2>2 DEF UnbegunInv, PromptCall, CancelCall
  <2>3. ASSUME NEW w \in {"clear", "cancel"}, Begin(CancelCall(w)),
               cancelling' = "clear" => w = "clear" /\ call[CancelCall("cancel")] = "none"
        PROVE  UnbegunInv'
    <3>1. ex \in Prompts /\ ex \in Nat
      BY <1>5, WantsAre DEF PromptInv, ExchangeInv, Cancel, CancelGoesOn
    <3>2. CancelCall(w) \in Calls /\ CancelCall("cancel") \in Calls /\ PromptCall(ex) \in Calls
      BY <3>1, CallsAre
    <3>3. /\ CancelCall(w) # PromptCall(ex) /\ (w = "clear" => CancelCall(w) # CancelCall("cancel"))
          /\ \A c \in Calls : c[2] > ex => c # CancelCall(w)
      BY <3>1 DEF CancelCall, PromptCall
    <3>4. \A d \in Calls : d # CancelCall(w) => call'[d] = call[d]
      BY <1>0, <2>3, <3>2, BeginsOne
    <3> QED
      BY <1>0, <2>1, <2>3, <3>2, <3>3, <3>4 DEF UnbegunInv, CancelCall, PromptCall
  <2> QED
    BY <2>1, <2>2, <2>3
<1>6. CASE PromptSets \/ PromptWaits \/ Prompted \/ ExchangeOver \/ CancelOver
  <2>1. /\ call' = call /\ ex' = ex /\ cancelling' \in {cancelling, "no"}
        /\ prompting' \notin {"schema", "listing", "send"} \/ prompting \in {"schema", "listing", "send"}
    BY <1>6 DEF PromptSets, PromptWaits, Prompted, ExchangeOver, CancelOver, clientVars, callVars
  <2> QED
    BY <1>1, <2>1
<1>7. ASSUME ~(HandshakeCalls \/ PromptNext \/ CancelNext)
      PROVE  UNCHANGED exchangeVars /\ \A d \in Calls : call[d] = "none" => call'[d] = "none"
  <2>1. CASE KeepFiles \/ Opens \/ OpenFails \/ HandshakeGoesOn \/ CloseNext
    BY <2>1 DEF KeepFiles, Opens, OpenFails, HandshakeGoesOn, CloseNext, Close, CloseBegins, ClientClosed,
       CloseReturns, clientVars, callVars, exchangeVars
  <2>2. CASE \E c \in Calls : GivesUp(c) \/ CallNext(c)
    BY <1>0, <2>2, NoneStays DEF GivesUp, CallNext, adapterVars, exchangeVars
  <2>3. CASE ReaderNext
    BY <2>3 DEF ReaderNext, Dispatch, Resolve, Shutdown, EventsClose, callVars, adapterVars, exchangeVars
  <2>4. CASE \E r \in Requests : HandlerNext(r) \/ ReplyNext(r)
    BY <2>4 DEF HandlerNext, ReplyNext, RequestNext, ToolReturns, ListArrives, ListReads, ListAnswers,
       Respond, RunTool, TakeRun, GiveUp, AnswerAtOnce, Reply, adapterVars, callVars, exchangeVars
  <2>5. CASE HarnessNext
    BY <2>5 DEF HarnessNext, HarnessAnswers, HarnessRuns, HarnessStops, HarnessHears, HarnessFetches,
       HarnessLists, HarnessUses, HarnessReports, HarnessEnds, HarnessExits, HarnessKeeps, adapterVars,
       callVars, exchangeVars
  <2>6. CASE Terminated \/ UNCHANGED vars
    BY <2>6 DEF Terminated, vars, adapterVars, clientVars, callVars, exchangeVars
  <2> QED
    BY <1>7, <2>1, <2>2, <2>3, <2>4, <2>5, <2>6 DEF Next, OpenNext
<1>8. CASE ~(HandshakeCalls \/ PromptNext \/ CancelNext)
  BY <1>1, <1>7, <1>8 DEF exchangeVars
<1> QED
  BY <1>2, <1>3, <1>4, <1>5, <1>6, <1>8 DEF PromptNext, CancelNext

LEMMA ClientKept ==
  ASSUME HeldInv, PromptInv, ClientInv, [Next]_vars
  PROVE  ClientInv'
BY CallsKept, ReaderKept, UnbegunKept DEF ClientInv

LEMMA ClientBegins == Init => ClientInv
<1> SUFFICES ASSUME Init PROVE ClientInv
  OBVIOUS
<1>1. /\ reader = "none" /\ failed = FALSE /\ pending = {} /\ answers = TRUE /\ alive = FALSE
      /\ call = [c \in Calls |-> "none"] /\ chan = [c \in Calls |-> <<>>]
      /\ prompting = "idle" /\ cancelling = "no"
  BY DEF Init, InitClient
<1>2. CallsInv
  BY <1>1 DEF CallsInv, CallOnce, Resolving, ReaderPC, CallPC, Responses, InFlight, Over
<1>3. ReaderInv
  BY <1>1 DEF ReaderInv, Over
<1>4. UnbegunInv
  BY <1>1 DEF UnbegunInv
<1> QED
  BY <1>2, <1>3, <1>4 DEF ClientInv

LEMMA DriverCorrect == Spec => [](HeldInv /\ PromptInv /\ ClientInv)
<1>1. HeldInv /\ PromptInv /\ ClientInv /\ [Next]_vars => (HeldInv /\ PromptInv /\ ClientInv)'
  BY HeldKept, PromptKept, ClientKept
<1> QED
  BY <1>1, HeldBegins, PromptBegins, ClientBegins, PTL DEF Spec

(***************************************************************************)
(* The requests of the harness and their answers.                          *)
(***************************************************************************)
(* A listing is answered with the tool there is, a call with a text.       *)
Texts == {None, Accepted, "text", "error", "rejected", "allow or deny", "once"}
Tools == Offered \union {Tool, Permission}
RequestInv(r) ==
    /\ IsList(r) => body[r] = None /\ result[r] \in Offered \union {"error"}
    /\ ~IsList(r) => result[r] \in Texts
    /\ at[r] \in {"listing", "listed"} => IsList(r)
    /\ at[r] = "running" => ~IsList(r)
BridgeInv ==
    /\ at \in [Requests -> RequestPC] /\ body \in [Requests -> Tools] /\ known \in Offered
    /\ result \in [Requests -> Texts \union Offered]
    /\ \A r \in Requests : RequestInv(r)

requestVars == <<at, result, body, known>>

(* A step of one request.                                                  *)
LEMMA RequestKept ==
  ASSUME BridgeInv, NEW r \in Requests, NEW p \in RequestPC,
         NEW v \in Texts \union Offered,
         at' = [at EXCEPT ![r] = p], result' = [result EXCEPT ![r] = v], UNCHANGED <<body, known>>,
         IsList(r) => v \in Offered \union {"error"} /\ p # "running",
         ~IsList(r) => v \in Texts /\ p \notin {"listing", "listed"}
  PROVE  BridgeInv'
<1>1. at' \in [Requests -> RequestPC] /\ result' \in [Requests -> Texts \union Offered]
  BY DEF BridgeInv
<1>2. at'[r] = p /\ result'[r] = v /\ \A q \in Requests : q # r => at'[q] = at[q] /\ result'[q] = result[q]
  BY DEF BridgeInv
<1>3. \A q \in Requests : RequestInv(q)'
  BY <1>2 DEF BridgeInv, RequestInv
<1> QED
  BY <1>1, <1>3 DEF BridgeInv

LEMMA MovedKept ==
  ASSUME BridgeInv, NEW r, NEW p \in RequestPC, at' = [at EXCEPT ![r] = p],
         p \notin {"listing", "listed", "running"}, UNCHANGED <<result, body, known>>
  PROVE  BridgeInv'
<1>1. at' \in [Requests -> RequestPC]
  BY DEF BridgeInv
<1>2. \A q \in Requests : at'[q] = at[q] \/ at'[q] = p
  BY DEF BridgeInv
<1>3. \A q \in Requests : RequestInv(q)'
  BY <1>2 DEF BridgeInv, RequestInv
<1> QED
  BY <1>1, <1>3 DEF BridgeInv

LEMMA BridgeHandles ==
  ASSUME BridgeInv, PromptInv, NEW r \in Requests, RequestNext(r) \/ ToolReturns(r), UNCHANGED known
  PROVE  BridgeInv'
<1>0. /\ result[r] \in Texts \union Offered /\ RequestInv(r) /\ result = [result EXCEPT ![r] = result[r]]
      /\ r[1] = "list" \/ ~IsList(r)
      /\ IsList(r) => body[r] = None
  BY DEF BridgeInv, RequestInv, IsList
<1>1. CASE ListArrives(r)
  <2>1. UNCHANGED <<body, result>> /\ IsList(r) /\ at' = [at EXCEPT ![r] = "listing"]
    BY <1>1 DEF ListArrives, At
  <2> QED
    BY <1>0, <2>1, RequestKept DEF RequestInv, RequestPC
<1>2. CASE ListReads(r)
  <2>1. /\ UNCHANGED body /\ at[r] = "listing" /\ at' = [at EXCEPT ![r] = "listed"]
        /\ result' = [result EXCEPT ![r] = installed]
    BY <1>2 DEF ListReads, At, bridgeVars
  <2>2. IsList(r) /\ installed \in Offered
    BY <1>0, <2>1 DEF RequestInv, PromptInv, ServerInv
  <2> QED
    BY <2>1, <2>2, RequestKept DEF RequestPC
<1>3. CASE ListAnswers(r)
  <2>1. /\ UNCHANGED body /\ at[r] = "listed" /\ at' = [at EXCEPT ![r] = "answered"]
        /\ result' = result \/ result' = [result EXCEPT ![r] = "error"]
    BY <1>3 DEF ListAnswers, At, HandOver
  <2>2. IsList(r) /\ "error" \in Texts
    BY <1>0, <2>1 DEF RequestInv, Texts
  <2> QED
    BY <1>0, <2>1, <2>2, RequestKept DEF RequestInv, RequestPC
<1>4. CASE Respond(r)
  <2>1. /\ UNCHANGED body /\ at' = [at EXCEPT ![r] = "answered"] /\ body[r] \in RespondTools
        /\ \E v \in {Accepted, "rejected"} : result' = [result EXCEPT ![r] = v]
    BY <1>4 DEF Respond, IsRespond, Answered, At, bridgeVars
  <2>2. ~IsList(r)
    BY <1>0, <2>1, ToolsAssumption
  <2>3. \A v \in {Accepted, "rejected"} : v \in Texts
    BY DEF Texts
  <2> QED
    BY <2>1, <2>2, <2>3, RequestKept DEF RequestPC
<1>5. CASE RunTool(r)
  <2>1. UNCHANGED <<body, result>> /\ body[r] = Tool /\ at' = [at EXCEPT ![r] = "running"]
    BY <1>5 DEF RunTool, HandleTool, AnswerCall, Runs, At, bridgeVars
  <2>2. ~IsList(r)
    BY <1>0, <2>1 DEF Tool, None
  <2> QED
    BY <1>0, <2>1, <2>2, RequestKept DEF RequestInv, RequestPC
<1>6. CASE TakeRun(r)
  <2>1. UNCHANGED <<body, result>> /\ at' = [at EXCEPT ![r] = "taken"]
    BY <1>6 DEF TakeRun, Relay, CallDialog, Takes, At
  <2> QED
    BY <1>0, <2>1, MovedKept DEF RequestPC
<1>7. CASE GiveUp(r)
  <2>1. UNCHANGED body /\ at' = [at EXCEPT ![r] = "answered"] /\ result' = [result EXCEPT ![r] = "error"]
    BY <1>7 DEF GiveUp, Answered, At, bridgeVars
  <2> QED
    BY <2>1, RequestKept DEF RequestPC, Texts
<1>8. CASE AnswerAtOnce(r)
  <2>1. /\ UNCHANGED body /\ at' = [at EXCEPT ![r] = "answered"]
        /\ \/ body[r] = Permission /\ \E v \in {"allow or deny", "once"} : result' = [result EXCEPT ![r] = v]
           \/ IsList(r) /\ result' = [result EXCEPT ![r] = schema]
    BY <1>8 DEF AnswerAtOnce, Permit, AnswerPermission, AnswerExchange, Answered, At, bridgeVars
  <2>2. schema \in Offered /\ (body[r] = Permission => ~IsList(r))
    BY <1>0 DEF PromptInv, ExchangeInv, Permission, None
  <2>3. \A v \in {"allow or deny", "once"} : v \in Texts
    BY DEF Texts
  <2> QED
    BY <2>1, <2>2, <2>3, RequestKept DEF RequestPC
<1>9. CASE ToolReturns(r)
  <2>1. /\ UNCHANGED body /\ at[r] = "running" /\ at' = [at EXCEPT ![r] = "answered"]
        /\ result' = [result EXCEPT ![r] = "text"]
    BY <1>9 DEF ToolReturns, Answered, At, bridgeVars
  <2>2. ~IsList(r)
    BY <1>0, <2>1 DEF RequestInv
  <2> QED
    BY <2>1, <2>2, RequestKept DEF RequestPC, Texts
<1> QED
  BY <1>1, <1>2, <1>3, <1>4, <1>5, <1>6, <1>7, <1>8, <1>9 DEF RequestNext

LEMMA BridgeHarness ==
  ASSUME BridgeInv, HarnessNext
  PROVE  BridgeInv'
<1>1. CASE HarnessAnswers \/ HarnessRuns \/ HarnessStops \/ HarnessReports \/ HarnessEnds
  BY <1>1 DEF HarnessAnswers, HarnessRuns, HarnessStops, HarnessReports, HarnessEnds, HarnessKeeps,
     BridgeInv, RequestInv
<1>2. ASSUME NEW r \in Requests, Heard(r), UNCHANGED <<result, body>>
      PROVE  known' \in Offered
  <2>1. IsList(r) => result[r] \in Offered \union {"error"}
    BY DEF BridgeInv, RequestInv
  <2>2. known' = known \/ (IsList(r) /\ result[r] # "error" /\ known' = result[r])
    BY <1>2 DEF Heard, Learns
  <2> QED
    BY <2>1, <2>2 DEF BridgeInv
<1>3. ASSUME NEW r \in Requests, HarnessHears(r)
      PROVE  BridgeInv'
  <2>1. Heard(r) /\ UNCHANGED <<at, result, body>>
    BY <1>3 DEF HarnessHears, HarnessKeeps
  <2>2. known' \in Offered
    BY <1>2, <2>1
  <2> QED
    BY <2>1, <2>2 DEF BridgeInv, RequestInv
<1>4. ASSUME NEW r \in Requests, HarnessFetches(r)
      PROVE  BridgeInv'
  <2>1. Heard(r) /\ UNCHANGED <<result, body>> /\ at' = [at EXCEPT ![r] = "gone"]
    BY <1>4 DEF HarnessFetches, HarnessKeeps, At
  <2>2. known' \in Offered
    BY <1>2, <2>1
  <2>3. /\ at' \in [Requests -> RequestPC]
        /\ \A q \in Requests : at'[q] = at[q] \/ at'[q] = "gone"
    BY <2>1 DEF BridgeInv, RequestPC
  <2> QED
    BY <2>1, <2>2, <2>3 DEF BridgeInv, RequestInv
<1>5. ASSUME NEW r \in Requests, HarnessLists(r)
      PROVE  BridgeInv'
  <2>1. UNCHANGED <<result, body, known>> /\ (at' = at \/ at' = [at EXCEPT ![r] = "pushed"])
    BY <1>5 DEF HarnessLists, HarnessKeeps, At
  <2> QED
    BY <2>1, MovedKept DEF BridgeInv, RequestInv, RequestPC
<1>6. ASSUME NEW tool \in RespondTools \union {Tool, Permission}, HarnessUses(tool)
      PROVE  BridgeInv'
  <2> DEFINE r == <<"call", hrun>>
  <2>1. /\ UNCHANGED <<result, known>> /\ r \in Requests /\ body' = [body EXCEPT ![r] = tool]
        /\ (at' = at \/ at' = [at EXCEPT ![r] = "pushed"])
    BY <1>6 DEF HarnessUses, HarnessKeeps, At
  <2>2. ~IsList(r) /\ tool \in Tools
    BY DEF IsList, Tools, Offered
  <2> HIDE DEF r
  <2>3. body' \in [Requests -> Tools] /\ \A q \in Requests : IsList(q) => body'[q] = body[q]
    BY <2>1, <2>2 DEF BridgeInv
  <2>4. /\ at' \in [Requests -> RequestPC]
        /\ \A q \in Requests : at'[q] = at[q] \/ at'[q] = "pushed"
    BY <2>1 DEF BridgeInv, RequestPC
  <2> QED
    BY <2>1, <2>3, <2>4 DEF BridgeInv, RequestInv
<1>7. CASE HarnessExits
  <2>1. UNCHANGED <<at, result, body>> /\ known' = None
    BY <1>7 DEF HarnessExits, answerVars, bridgeVars
  <2> QED
    BY <2>1 DEF BridgeInv, RequestInv, Offered
<1> QED
  BY <1>1, <1>3, <1>4, <1>5, <1>6, <1>7 DEF HarnessNext

LEMMA BridgeKept ==
  ASSUME BridgeInv, PromptInv, [Next]_vars
  PROVE  BridgeInv'
<1>1. CASE UNCHANGED requestVars
  BY <1>1 DEF requestVars, BridgeInv, RequestInv
<1>2. CASE HarnessNext
  BY <1>2, BridgeHarness
<1>3. ASSUME NEW r \in Requests, HandlerNext(r)
      PROVE  BridgeInv'
  BY <1>3, BridgeHandles DEF HandlerNext, harnessVars
<1>4. ASSUME NEW r \in Requests, ReplyNext(r)
      PROVE  BridgeInv'
  BY <1>4, MovedKept DEF ReplyNext, Reply, bridgeVars, harnessVars, RequestPC
<1>5. CASE Dispatch /\ UNCHANGED <<bridgeVars, adapterVars, harnessVars>>
  <2>1. UNCHANGED <<result, body, known>> /\ (at' = at \/ \E r : at' = [at EXCEPT ![r] = "begun"])
    BY <1>5 DEF Dispatch, bridgeVars, harnessVars
  <2> QED
    BY <1>1, <2>1, MovedKept DEF requestVars, RequestPC
<1>6. CASE OpenNext \/ CloseNext
  BY <1>1, <1>6 DEF OpenNext, KeepFiles, Opens, OpenFails, HandshakeCalls, HandshakeGoesOn, CloseNext, Close,
     CloseBegins, ClientClosed, CloseReturns, clientVars, answerVars, bridgeVars, harnessVars, requestVars
<1>7. CASE PromptNext \/ CancelNext
  BY <1>1, <1>7 DEF PromptNext, Prompt, PromptSets, PromptWaits, PromptSends, Prompted, ExchangeOver,
     CancelNext, Cancel, CancelGoesOn, CancelOver, clientVars, answerVars, bridgeVars, harnessVars, requestVars
<1>8. CASE \E c \in Calls : GivesUp(c) \/ CallNext(c)
  BY <1>1, <1>8 DEF GivesUp, Forget, CallNext, WriteCall, Return, answerVars, bridgeVars, harnessVars, requestVars
<1>9. CASE (Resolve \/ Shutdown \/ EventsClose) /\ UNCHANGED <<bridgeVars, adapterVars, harnessVars>>
  BY <1>1, <1>9 DEF Resolve, Shutdown, EventsClose, answerVars, bridgeVars, harnessVars, requestVars
<1>10. CASE Terminated \/ UNCHANGED vars
  BY <1>1, <1>10 DEF Terminated, vars, clientVars, answerVars, bridgeVars, harnessVars, requestVars
<1> QED
  BY <1>2, <1>3, <1>4, <1>5, <1>6, <1>7, <1>8, <1>9, <1>10 DEF Next, ReaderNext

LEMMA BridgeBegins == Init => BridgeInv
<1> SUFFICES ASSUME Init PROVE BridgeInv
  OBVIOUS
<1>1. /\ at = [r \in Requests |-> "none"] /\ result = [r \in Requests |-> None]
      /\ body = [r \in Requests |-> None] /\ known = None
  BY DEF Init, InitClient, InitBridge
<1> QED
  BY <1>1 DEF BridgeInv, RequestInv, RequestPC, Tools, Texts, Offered

LEMMA HarnessStays ==
  ASSUME [Next]_vars
  PROVE  harness' = harness
<1>1. CASE UNCHANGED heldVars
  BY <1>1 DEF heldVars
<1>2. CASE Opens \/ OpenFails \/ HandshakeGoesOn \/ Close \/ ClientClosed \/ CloseReturns \/ HarnessExits
  BY <1>2 DEF Opens, OpenFails, HandshakeGoesOn, Close, CloseBegins, ClientClosed, CloseReturns,
     HarnessExits, clientVars
<1> QED
  BY <1>1, <1>2, HeldStep

LEMMA ExKept ==
  ASSUME [Next]_vars, ~Prompt
  PROVE  ex' = ex
<1>1. CASE OpenNext \/ CloseNext
  BY <1>1 DEF OpenNext, KeepFiles, Opens, OpenFails, HandshakeCalls, HandshakeGoesOn, CloseNext, Close,
     CloseBegins, ClientClosed, CloseReturns, adapterVars
<1>2. CASE PromptNext \/ CancelNext
  BY <1>2 DEF PromptNext, PromptSets, PromptWaits, PromptSends, Prompted, ExchangeOver, CancelNext, Cancel,
     CancelGoesOn, CancelOver
<1>3. CASE (\E c \in Calls : GivesUp(c) \/ CallNext(c)) \/ ReaderNext
  BY <1>3 DEF GivesUp, CallNext, ReaderNext, adapterVars
<1>4. CASE \E r \in Requests : HandlerNext(r) \/ ReplyNext(r)
  BY <1>4 DEF HandlerNext, ReplyNext, adapterVars
<1>5. CASE HarnessNext
  BY <1>5 DEF HarnessNext, HarnessAnswers, HarnessRuns, HarnessStops, HarnessHears, HarnessFetches,
     HarnessLists, HarnessUses, HarnessReports, HarnessEnds, HarnessExits, HarnessKeeps, adapterVars
<1>6. CASE Terminated \/ UNCHANGED vars
  BY <1>6 DEF Terminated, vars, adapterVars
<1> QED
  BY <1>1, <1>2, <1>3, <1>4, <1>5, <1>6 DEF Next

(***************************************************************************)
(* The lines between the client and the harness.                           *)
(***************************************************************************)
LineTypes == {"start", "response", "request", "limit", "use", "result", "message", "end"}
Lines == [type : LineTypes, request : {<<>>} \union ({"list", "call"} \X Nat),
          call : {<<>>} \union Calls, tool : Tools, ok : BOOLEAN, text : Texts,
          how : {"ok", "error", "aborted"}]
(* The messages and dialogs that list are Pi's, but for a listing asked.    *)
Spoken == {l \in Lines : harness # "pi" => l.type # "message" /\ l.request \notin {"list"} \X Nat}
Inputs == Calls \union ({"message", "stop"} \X Nat) \union ({"answer"} \X Requests)

(* A line the client has written: a call that began, a message of Claude   *)
(* Code or a cancellation of OpenCode for a prompt that did, or an answer. *)
Given(c) ==
    /\ c \in Calls => call[c] # "none"
    /\ c[1] = "message" => harness = "claude" /\ c[2] \in 1 .. ex
    /\ c[1] = "stop" => harness = "opencode" /\ c[2] \in 1 .. ex
InputInv ==
    /\ stdin \in Seq(Inputs)
    /\ \A c \in Inputs : (\E i \in DOMAIN stdin : stdin[i] = c) => Given(c)

(* What the harness does, it was asked for.                                *)
HarnessInv ==
    /\ hrun \in 0 .. ex /\ hpc \in HarnessPC /\ limited \in BOOLEAN
    /\ harness = "opencode" /\ hrun # 0 => call[PromptCall(hrun)] # "none"
    /\ hpc \in {"using", "used", "done"} => <<"call", hrun>> \in Requests
    /\ aborted # <<>> => aborted \in Inputs /\ Given(aborted) /\ aborted[1] \in {"cancel", "stop"}
    /\ told \subseteq Calls /\ \A c \in told : call[c] # "none"

(* An answer to a pending call is on its way.                              *)
Response(l, c) == l.type = "response" /\ l.call = c
OutputInv ==
    /\ stdout \in Seq(Lines)
    /\ \A c \in told \intersect pending : \E i \in DOMAIN stdout : Response(stdout[i], c)
LineInv == InputInv /\ HarnessInv /\ OutputInv

LEMMA LinesAre ==
  /\ \A t \in LineTypes : Line(t) \in Lines /\ Line(t).type = t /\ Line(t).request = <<>>
  /\ \A t \in LineTypes : t # "message" \/ harness = "pi" => Line(t) \in Spoken
  /\ \A r \in {"list", "call"} \X Nat : Asks(r) \in Lines /\ Asks(r).type = "request" /\ Asks(r).request = r
  /\ \A c \in Calls, how \in {"ok", "error", "aborted"} :
       Responds(c, how) \in Spoken /\ Response(Responds(c, how), c)
  /\ <<>> \notin {"list"} \X Nat
<1>0. <<>> \notin {"list"} \X Nat
  OBVIOUS
<1>1. Blank \in Lines /\ Blank.request = <<>>
  BY DEF Blank, Lines, LineTypes, Tools, Offered, Texts
<1>2. \A t \in LineTypes : Line(t) \in Lines /\ Line(t).type = t /\ Line(t).request = <<>>
  BY <1>1 DEF Line, Lines
<1>3. ASSUME NEW r \in {"list", "call"} \X Nat
      PROVE  Asks(r) \in Lines /\ Asks(r).type = "request" /\ Asks(r).request = r
  <2>1. Line("request") \in Lines /\ Line("request").type = "request"
    BY <1>2 DEF LineTypes
  <2> QED
    BY <2>1 DEF Asks, Lines
<1>4. ASSUME NEW c \in Calls, NEW how \in {"ok", "error", "aborted"}
      PROVE  Responds(c, how) \in Spoken /\ Response(Responds(c, how), c)
  <2>1. Line("response") \in Lines /\ Line("response").type = "response" /\ Line("response").request = <<>>
    BY <1>2 DEF LineTypes
  <2>2. Responds(c, how) \in Lines
    BY <2>1 DEF Responds, Lines
  <2>3. /\ Responds(c, how).type = "response" /\ Responds(c, how).call = c
        /\ Responds(c, how).request = <<>>
    BY <2>1 DEF Responds, Lines
  <2> QED
    BY <1>0, <2>2, <2>3 DEF Response, Spoken
<1>5. \A t \in LineTypes : t # "message" \/ harness = "pi" => Line(t) \in Spoken
  BY <1>0, <1>2 DEF Spoken
<1> QED
  BY <1>0, <1>2, <1>3, <1>4, <1>5

(* What has begun has begun, and the prompts go on.                        *)
LEMMA BegunStays ==
  ASSUME HeldInv, PromptInv, ClientInv, [Next]_vars
  PROVE  /\ \A c \in Calls : call[c] # "none" => call'[c] # "none"
         /\ ex' >= ex /\ harness' = harness
<1>1. \A c \in Calls : call[c] # "none" => call'[c] # "none"
  <2>1. CASE UNCHANGED callVars
    BY <2>1 DEF callVars
  <2>2. ASSUME NEW c \in Calls, call[c] = "none", Begin(c)
        PROVE  \A d \in Calls : call[d] # "none" => call'[d] # "none"
    BY <2>2 DEF Begin, ClientInv, CallsInv
  <2>3. ASSUME NEW c \in Calls, WriteCall(c) \/ Return(c) \/ Forget(c)
        PROVE  \A d \in Calls : call[d] # "none" => call'[d] # "none"
    <3>1. CASE WriteCall(c) \/ Forget(c)
      BY <3>1 DEF WriteCall, Forget, ClientInv, CallsInv
    <3>2. CASE Return(c)
      <4>1. chan[c] \in {<<"ok">>, <<"refused">>, <<"exit">>}
        BY <3>2 DEF Return, ClientInv, CallsInv, Responses
      <4>2. Head(chan[c]) # "none"
        BY <4>1
      <4> QED
        BY <3>2, <4>2 DEF Return, ClientInv, CallsInv
    <3> QED
      BY <2>3, <3>1, <3>2
  <2>4. CASE Dispatch \/ Resolve \/ Shutdown \/ EventsClose
    BY <2>4 DEF Dispatch, Resolve, Shutdown, EventsClose, callVars
  <2> QED
    BY <2>1, <2>2, <2>3, <2>4, CallsStep DEF ClientInv, callsVars
<1>2. ex' >= ex
  <2>1. ex \in Nat
    BY WantsAre DEF PromptInv, ExchangeInv
  <2>2. ex' = ex \/ ex' = ex + 1
    <3>1. CASE Prompt
      BY <3>1 DEF Prompt
    <3>2. CASE ~Prompt
      BY <3>2, ExKept
    <3> QED
      BY <3>1, <3>2
  <2> QED
    BY <2>1, <2>2
<1>3. harness' = harness
  BY HarnessStays
<1> QED
  BY <1>1, <1>2, <1>3

LEMMA GivenStays ==
  ASSUME HeldInv, PromptInv, ClientInv, [Next]_vars, NEW c, Given(c)
  PROVE  Given(c)'
<1>1. /\ \A d \in Calls : call[d] # "none" => call'[d] # "none"
      /\ ex' >= ex /\ harness' = harness /\ ex \in Nat /\ ex' \in Nat
  BY BegunStays, PromptKept, WantsAre DEF PromptInv, ExchangeInv
<1>2. \A n \in 1 .. ex : n \in 1 .. ex'
  BY <1>1
<1> QED
  BY <1>1, <1>2 DEF Given

(* A prompt the harness reads, a command it answers.                       *)
LEMMA PromptRead ==
  ASSUME PromptInv, ClientInv, NEW c \in Inputs, Given(c)
  PROVE  /\ c[1] \in {"message", "prompt"} => c[2] \in 1 .. ex
         /\ c[1] = "prompt" => c = PromptCall(c[2]) /\ c \in Calls
         /\ c[1] = "message" => harness = "claude"
         /\ c[1] \in Handshake \union {"clear", "cancel"} => c \in Calls
         /\ c[1] = "cancel" => c \in {"cancel"} \X (1 .. ex)
         /\ c[1] = "stop" => harness = "opencode" /\ c \in {"stop"} \X (1 .. ex)
<1>1. c \notin Calls => c[1] \in {"message", "stop", "answer"}
  BY DEF Inputs
<1>2. ASSUME c \in Calls, c[1] \in Turn
      PROVE  c = <<c[1], c[2]>> /\ c[2] \in 1 .. ex
  <2>1. c \in Turn \X Prompts
    BY <1>2, CallsAssumption DEF Turn
  <2>2. ~(c[2] > ex)
    BY <1>2 DEF Given, ClientInv, UnbegunInv
  <2>3. c[2] \in 1 .. Len(Wants) /\ ex \in Nat
    BY <2>1, WantsAre DEF PromptInv, ExchangeInv
  <2> QED
    BY <2>1, <2>2, <2>3
<1>3. c[1] \in {"message", "stop"} => c[2] \in 1 .. ex
  BY DEF Given
<1>4. c[1] = "stop" => c = <<"stop", c[2]>>
  <2>1. c \in Calls => c[1] # "stop"
    BY CallsAssumption
  <2> QED
    BY <2>1 DEF Inputs
<1>5. c[1] \in Turn \union Handshake => c \in Calls
  BY <1>1 DEF Turn, Handshake
<1> QED
  BY <1>2, <1>3, <1>4, <1>5 DEF Given, Turn, PromptCall

(***************************************************************************)
(* A step of the harness: what it writes, and whom it answers.             *)
(***************************************************************************)
Wrote ==
    \E lines \in Seq(Spoken) :
      /\ stdout' = stdout \o lines
      /\ \A c \in told' \ told :
           c \in Calls /\ call[c] # "none" /\ \E i \in DOMAIN lines : Response(lines[i], c)

LEMMA WroteThis ==
  ASSUME NEW lines \in Seq(Spoken), Writes(lines), told' = told
  PROVE  Wrote
BY DEF Writes, Wrote

LEMMA WroteAnswer ==
  ASSUME NEW lines \in Seq(Spoken), Writes(lines), NEW c \in Calls, call[c] # "none",
         told' = told \union {c}, NEW i \in DOMAIN lines, Response(lines[i], c)
  PROVE  Wrote
BY DEF Writes, Wrote

LEMMA AnswersWell ==
  ASSUME PromptInv, ClientInv, LineInv, HarnessAnswers
  PROVE  Wrote
<1> DEFINE c == Head(stdin)
<1>1. c \in Inputs /\ Given(c)
  BY DEF HarnessAnswers, StdinTaken, LineInv, InputInv
<1>2. c \in Calls /\ call[c] # "none"
  BY <1>1, PromptRead DEF HarnessAnswers, Given
<1>3. told' = told \union {c}
  BY DEF HarnessAnswers
<1>4. \/ \E how \in Hows : Writes(<<Line("start"), Responds(c, how)>>)
      \/ Writes(<<Responds(c, "ok")>>)
      \/ \E how \in Hows : Writes(<<Responds(c, how)>>)
  BY DEF HarnessAnswers
<1> HIDE DEF c
<1>5. ASSUME NEW how \in Hows
      PROVE  /\ <<Line("start"), Responds(c, how)>> \in Seq(Spoken)
             /\ <<Responds(c, how)>> \in Seq(Spoken)
             /\ Response(Responds(c, how), c)
  BY <1>2, LinesAre DEF Hows, LineTypes
<1>6. ASSUME NEW how \in Hows, Writes(<<Line("start"), Responds(c, how)>>)
      PROVE  Wrote
  <2> DEFINE l == <<Line("start"), Responds(c, how)>>
  <2>1. l \in Seq(Spoken) /\ 2 \in DOMAIN l /\ Response(l[2], c)
    BY <1>5
  <2> HIDE DEF l
  <2> QED
    BY <1>2, <1>3, <1>6, <2>1, WroteAnswer DEF l
<1>7. ASSUME NEW how \in Hows, Writes(<<Responds(c, how)>>)
      PROVE  Wrote
  <2> DEFINE l == <<Responds(c, how)>>
  <2>1. l \in Seq(Spoken) /\ 1 \in DOMAIN l /\ Response(l[1], c)
    BY <1>5
  <2> HIDE DEF l
  <2> QED
    BY <1>2, <1>3, <1>7, <2>1, WroteAnswer DEF l
<1> QED
  BY <1>4, <1>6, <1>7 DEF Hows

LEMMA RunsWell ==
  ASSUME PromptInv, ClientInv, LineInv, HarnessRuns
  PROVE  Wrote
<1>0. PICK c \in Inputs : c = Head(stdin) /\ Given(c)
  BY DEF HarnessRuns, StdinTaken, LineInv, InputInv
<1>1. c[1] \in {"message", "prompt"} /\ c[2] \in Nat
  BY <1>0, PromptRead, WantsAre DEF HarnessRuns, PromptInv, ExchangeInv
<1>2. \/ /\ harness = "pi" /\ told' = told \union {c}
         /\ Writes(<<Responds(c, "error")>>) \/ Writes(<<Responds(c, "ok"), Asks(<<"list", c[2]>>)>>)
      \/ told' = told /\ (Writes(<<Line("start")>>) \/ Writes(<<>>))
  BY <1>0 DEF HarnessRuns
<1>3. CASE harness = "pi" /\ told' = told \union {c}
           /\ (Writes(<<Responds(c, "error")>>) \/ Writes(<<Responds(c, "ok"), Asks(<<"list", c[2]>>)>>))
  <2>1. c \in Calls /\ call[c] # "none"
    BY <1>0, <1>1, <1>3, PromptRead DEF Given
  <2>2. Asks(<<"list", c[2]>>) \in Spoken
    BY <1>1, <1>3, LinesAre DEF Spoken
  <2>3. \A how \in {"ok", "error"} : Responds(c, how) \in Spoken /\ Response(Responds(c, how), c)
    BY <2>1, LinesAre
  <2>4. CASE Writes(<<Responds(c, "error")>>)
    <3> DEFINE l == <<Responds(c, "error")>>
    <3>1. l \in Seq(Spoken) /\ 1 \in DOMAIN l /\ Response(l[1], c)
      BY <2>3
    <3> HIDE DEF l
    <3> QED
      BY <1>3, <2>1, <2>4, <3>1, WroteAnswer DEF l
  <2>5. CASE Writes(<<Responds(c, "ok"), Asks(<<"list", c[2]>>)>>)
    <3> DEFINE l == <<Responds(c, "ok"), Asks(<<"list", c[2]>>)>>
    <3>1. l \in Seq(Spoken) /\ 1 \in DOMAIN l /\ Response(l[1], c)
      BY <2>2, <2>3
    <3> HIDE DEF l
    <3> QED
      BY <1>3, <2>1, <2>5, <3>1, WroteAnswer DEF l
  <2> QED
    BY <1>3, <2>4, <2>5
<1>4. CASE told' = told /\ (Writes(<<Line("start")>>) \/ Writes(<<>>))
  <2>1. <<Line("start")>> \in Seq(Spoken) /\ <<>> \in Seq(Spoken)
    BY LinesAre DEF LineTypes
  <2> QED
    BY <1>4, <2>1, WroteThis
<1> QED
  BY <1>2, <1>3, <1>4

LEMMA UsesWell ==
  ASSUME PromptInv, LineInv, NEW tool \in RespondTools \union {Tool, Permission}, HarnessUses(tool)
  PROVE  Wrote
<1> DEFINE r == <<"call", hrun>>
           use == [Line("use") EXCEPT !.tool = tool]
           waits == [use EXCEPT !.ok = FALSE]
<1>1. hrun \in Nat
  BY WantsAre DEF LineInv, HarnessInv, PromptInv, ExchangeInv
<1>2. use \in Lines /\ use.type = "use" /\ use.request = <<>>
  <2>1. Line("use") \in Lines /\ Line("use").type = "use" /\ Line("use").request = <<>> /\ tool \in Tools
    BY LinesAre DEF LineTypes, Tools, Offered
  <2> QED
    BY <2>1 DEF Lines
<1> HIDE DEF use
<1>3. use \in Spoken /\ waits \in Spoken
  <2>1. waits \in Lines /\ waits.type = "use" /\ waits.request = <<>>
    BY <1>2 DEF Lines
  <2> HIDE DEF waits
  <2> QED
    BY <1>2, <2>1, LinesAre DEF Spoken
<1>4. Asks(r) \in Spoken
  <2>1. Asks(r) \in Lines /\ Asks(r).type = "request" /\ Asks(r).request = r
    BY <1>1, LinesAre
  <2>2. r \notin {"list"} \X Nat
    OBVIOUS
  <2> QED
    BY <2>1, <2>2 DEF Spoken
<1>5. told' = told
  BY DEF HarnessUses
<1> HIDE DEF waits
<1>6. \E uses \in {<<>>, <<waits>>, <<use, use>>, <<use>>}, asks \in {<<>>, <<Asks(r)>>} : Writes(uses \o asks)
  <2>1. Writes(<<use>>) \/ \E uses \in {<<>>, <<waits>>, <<use, use>>, <<use>>}, asks \in {<<>>, <<Asks(r)>>} : Writes(uses \o asks)
    BY DEF HarnessUses, use, waits
  <2>2. <<use>> = <<use>> \o <<>>
    BY <1>2
  <2> QED
    BY <2>1, <2>2
<1>7. \A uses \in {<<>>, <<waits>>, <<use, use>>, <<use>>}, asks \in {<<>>, <<Asks(r)>>} :
        uses \o asks \in Seq(Spoken)
  <2>1. \A uses \in {<<>>, <<waits>>, <<use, use>>, <<use>>} : uses \in Seq(Spoken)
    <3>1. <<>> \in Seq(Spoken) /\ <<waits>> \in Seq(Spoken) /\ <<use, use>> \in Seq(Spoken)
          /\ <<use>> \in Seq(Spoken)
      BY <1>2, <1>3
    <3> QED
      BY <3>1
  <2>2. \A asks \in {<<>>, <<Asks(r)>>} : asks \in Seq(Spoken)
    <3> HIDE DEF r
    <3>1. <<>> \in Seq(Spoken) /\ <<Asks(r)>> \in Seq(Spoken)
      BY <1>4
    <3> QED
      BY <3>1
  <2>3. \A a, b \in Seq(Spoken) : a \o b \in Seq(Spoken)
    OBVIOUS
  <2> QED
    BY ONLY <2>1, <2>2, <2>3
<1> QED
  BY <1>5, <1>6, <1>7, WroteThis

LEMMA ReportsWell ==
  ASSUME BridgeInv, LineInv, HarnessReports
  PROVE  Wrote
<1> DEFINE r == <<"call", hrun>>
<1>1. r \in Requests /\ ~IsList(r)
  BY DEF HarnessReports, LineInv, HarnessInv, IsList
<1> HIDE DEF r
<1>2. body[r] \in Tools /\ result[r] \in Texts /\ Accepted \in Texts
  BY <1>1 DEF BridgeInv, RequestInv, Texts
<1>3. Line("result") \in Lines /\ Line("result").type = "result" /\ Line("result").request = <<>>
  BY LinesAre DEF LineTypes
<1>4. ASSUME NEW ok \in BOOLEAN, NEW text \in Texts
      PROVE  [Line("result") EXCEPT !.tool = body[r], !.ok = ok, !.text = text] \in Spoken
  <2> DEFINE l == [Line("result") EXCEPT !.tool = body[r], !.ok = ok, !.text = text]
  <2>1. l \in Lines /\ l.type = "result" /\ l.request = <<>>
    BY <1>2, <1>3 DEF Lines
  <2> HIDE DEF l
  <2>2. l \in Spoken
    BY <2>1, LinesAre DEF Spoken
  <2> QED
    BY <2>2 DEF l
<1>5. told' = told
  BY DEF HarnessReports
<1>6. \/ Writes(<<>>)
      \/ \E ok \in BOOLEAN, text \in Texts :
           Writes(<<[Line("result") EXCEPT !.tool = body[r], !.ok = ok, !.text = text]>>)
  BY <1>2 DEF HarnessReports, r
<1>7. <<>> \in Seq(Spoken) /\ \A l \in Spoken : <<l>> \in Seq(Spoken)
  OBVIOUS
<1> QED
  BY <1>4, <1>5, <1>6, <1>7, WroteThis

LEMMA EndsWell ==
  ASSUME HeldInv, PromptInv, ClientInv, LineInv, HarnessEnds
  PROVE  Wrote
<1> DEFINE c == IF harness = "opencode" THEN PromptCall(hrun) ELSE aborted
<1>1. hrun \in Prompts
  BY WantsAre DEF HarnessEnds, LineInv, HarnessInv, PromptInv, ExchangeInv
<1>2. c # <<>> => c \in Calls /\ call[c] # "none"
  <2>1. CASE harness = "opencode"
    BY <1>1, <2>1, CallsAre DEF HarnessEnds, LineInv, HarnessInv
  <2>2. CASE harness # "opencode" /\ aborted # <<>>
    <3>1. aborted \in Inputs /\ Given(aborted) /\ aborted[1] = "cancel"
      BY <2>2 DEF LineInv, HarnessInv, Given
    <3> QED
      BY <2>2, <3>1, PromptRead DEF Given
  <2> QED
    BY <2>1, <2>2
<1> DEFINE end(h) == [Line("end") EXCEPT !.how = h]
           message(h) == [Line("message") EXCEPT !.how = h]
           answer(h) == Responds(c, h)
           how3 == {"ok", "error", "aborted"}
<1>3. \E h \in how3 :
        \/ told' = told /\ harness = "claude" /\ \E l \in {<<>>, <<Line("limit")>>} : Writes(l \o <<end(h)>>)
        \/ told' = told \union {c} /\ c # <<>> /\ Writes(<<answer(h)>>)
        \/ told' = told /\ harness = "pi" /\ Writes(<<message(h), Line("end")>> \o <<>>)
        \/ /\ told' = told \union {c} /\ c # <<>> /\ harness = "pi"
           /\ Writes(<<message(h), Line("end")>> \o <<answer("ok")>>)
  <2>1. PICK how \in Hows, limit \in BOOLEAN :
          LET h == IF aborted # <<>> THEN "aborted" ELSE how
              last(t) == [Line(t) EXCEPT !.how = h]
          IN  Writes(CASE harness = "claude" ->
                              (IF limit THEN <<Line("limit")>> ELSE <<>>) \o <<last("end")>>
                         [] harness = "opencode" -> <<Responds(PromptCall(hrun), h)>>
                         [] harness = "pi" -> <<last("message"), Line("end")>> \o
                              (IF aborted # <<>> THEN <<Responds(aborted, "ok")>> ELSE <<>>))
    BY DEF HarnessEnds
  <2>2. told' = told \union (CASE harness = "opencode" -> {PromptCall(hrun)}
                              [] harness = "pi" /\ aborted # <<>> -> {aborted}
                              [] OTHER -> {})
    BY DEF HarnessEnds
  <2> DEFINE h == IF aborted # <<>> THEN "aborted" ELSE how
  <2>3. h \in how3 /\ PromptCall(hrun) # <<>>
    BY DEF Hows, PromptCall
  <2>4. CASE harness = "claude"
    <3>1. told' = told
      BY <2>2, <2>4
    <3>2. Writes((IF limit THEN <<Line("limit")>> ELSE <<>>) \o <<end(h)>>)
      BY <2>1, <2>4
    <3> QED
      BY <2>3, <2>4, <3>1, <3>2
  <2>5. CASE harness = "opencode"
    <3>1. told' = told \union {c} /\ c # <<>>
      BY <2>2, <2>3, <2>5
    <3>2. Writes(<<answer(h)>>)
      BY <2>1, <2>5
    <3> QED
      BY <2>3, <3>1, <3>2
  <2>6. CASE harness = "pi" /\ aborted = <<>>
    <3>1. told' = told
      BY <2>2, <2>6
    <3>2. Writes(<<message(h), Line("end")>> \o <<>>)
      BY <2>1, <2>6
    <3> QED
      BY <2>3, <2>6, <3>1, <3>2
  <2>7. CASE harness = "pi" /\ aborted # <<>>
    <3>1. told' = told \union {c} /\ c # <<>>
      BY <2>2, <2>7
    <3>2. Writes(<<message(h), Line("end")>> \o <<answer("ok")>>)
      BY <2>1, <2>7
    <3> QED
      BY <2>3, <2>7, <3>1, <3>2
  <2>8. harness \in {"claude", "opencode", "pi"}
    BY DEF HeldInv, StepType, Harnesses
  <2> QED
    BY <2>4, <2>5, <2>6, <2>7, <2>8
<1>4. ASSUME NEW h \in how3
      PROVE  end(h) \in Spoken /\ (harness = "pi" => message(h) \in Spoken)
  <2>1. /\ Line("end") \in Lines /\ Line("end").type = "end" /\ Line("end").request = <<>>
        /\ Line("message") \in Lines
    BY LinesAre DEF LineTypes
  <2>2. end(h) \in Lines /\ end(h).type = "end" /\ end(h).request = <<>> /\ message(h) \in Lines
    BY <2>1 DEF Lines
  <2> HIDE DEF end, message
  <2> QED
    BY <2>2, LinesAre DEF Spoken
<1>5. c # <<>> => \A h \in how3 : answer(h) \in Spoken /\ Response(answer(h), c)
  BY <1>2, LinesAre
<1>6. Line("limit") \in Spoken /\ Line("end") \in Spoken
  BY LinesAre DEF LineTypes
<1> HIDE DEF c, end, message, answer
<1>7. PICK h \in how3 :
        \/ told' = told /\ harness = "claude" /\ \E l \in {<<>>, <<Line("limit")>>} : Writes(l \o <<end(h)>>)
        \/ told' = told \union {c} /\ c # <<>> /\ Writes(<<answer(h)>>)
        \/ told' = told /\ harness = "pi" /\ Writes(<<message(h), Line("end")>> \o <<>>)
        \/ /\ told' = told \union {c} /\ c # <<>> /\ harness = "pi"
           /\ Writes(<<message(h), Line("end")>> \o <<answer("ok")>>)
  BY <1>3
<1>8. ASSUME told' = told, NEW l \in {<<>>, <<Line("limit")>>}, Writes(l \o <<end(h)>>)
      PROVE  Wrote
  <2>1. <<Line("limit")>> \in Seq(Spoken) /\ <<>> \in Seq(Spoken)
    BY <1>6
  <2>2. <<end(h)>> \in Seq(Spoken)
    BY <1>4
  <2>3. \A a, b \in Seq(Spoken) : a \o b \in Seq(Spoken)
    OBVIOUS
  <2>4. l \o <<end(h)>> \in Seq(Spoken)
    BY ONLY <2>1, <2>2, <2>3, l \in {<<>>, <<Line("limit")>>}
  <2> QED
    BY <1>8, <2>4, WroteThis
<1>9. ASSUME told' = told \union {c}, c # <<>>, Writes(<<answer(h)>>)
      PROVE  Wrote
  <2> DEFINE l == <<answer(h)>>
  <2>1. l \in Seq(Spoken) /\ 1 \in DOMAIN l /\ Response(l[1], c)
    BY <1>5, <1>9
  <2> HIDE DEF l
  <2> QED
    BY <1>2, <1>9, <2>1, WroteAnswer DEF l
<1>10. ASSUME told' = told, harness = "pi", Writes(<<message(h), Line("end")>> \o <<>>)
       PROVE  Wrote
  <2>1. <<message(h), Line("end")>> \in Seq(Spoken) /\ <<>> \in Seq(Spoken)
    BY <1>4, <1>6, <1>10
  <2>2. <<message(h), Line("end")>> \o <<>> \in Seq(Spoken)
    BY <2>1
  <2> QED
    BY <1>10, <2>2, WroteThis
<1>11. ASSUME told' = told \union {c}, c # <<>>, harness = "pi",
              Writes(<<message(h), Line("end")>> \o <<answer("ok")>>)
       PROVE  Wrote
  <2> DEFINE a == <<message(h), Line("end")>>
             b == <<answer("ok")>>
             l == a \o b
  <2>1. a \in Seq(Spoken) /\ b \in Seq(Spoken) /\ Len(a) = 2 /\ Len(b) = 1 /\ Response(b[1], c)
    BY <1>4, <1>5, <1>6, <1>11
  <2> HIDE DEF a, b
  <2>2. l \in Seq(Spoken) /\ Len(l) = 3 /\ l[3] = b[1]
    <3>1. \A x, y \in Seq(Spoken) : /\ x \o y \in Seq(Spoken) /\ Len(x \o y) = Len(x) + Len(y)
                                  /\ \A i \in 1 .. Len(y) : (x \o y)[Len(x) + i] = y[i]
      OBVIOUS
    <3>2. a \in Seq(Spoken) /\ b \in Seq(Spoken)
      BY ONLY <2>1
    <3>3. /\ l \in Seq(Spoken) /\ Len(l) = Len(a) + Len(b)
          /\ \A i \in 1 .. Len(b) : l[Len(a) + i] = b[i]
      BY ONLY <3>1, <3>2
    <3>4. Len(a) = 2 /\ Len(b) = 1
      BY ONLY <2>1
    <3> HIDE DEF l
    <3> QED
      BY ONLY <3>3, <3>4
  <2>3. 3 \in DOMAIN l /\ Response(l[3], c) /\ Writes(l)
    BY <1>11, <2>1, <2>2 DEF a, b
  <2> HIDE DEF l
  <2> QED
    BY <1>2, <1>11, <2>2, <2>3, WroteAnswer
<1> QED
  BY <1>7, <1>8, <1>9, <1>10, <1>11
LEMMA WroteNothing ==
  ASSUME LineInv, UNCHANGED <<stdout, told>>
  PROVE  Wrote
<1>1. <<>> \in Seq(Spoken) /\ stdout \in Seq(Lines)
  BY DEF LineInv, OutputInv
<1>2. stdout = stdout \o <<>>
  BY <1>1
<1> QED
  BY <1>1, <1>2 DEF Wrote

(* Or it asks for a listing.                                               *)
AskedToList(r) == told' = told /\ Asks(r) \in Lines /\ Writes(<<Asks(r)>>)

LEMMA HarnessWrites ==
  ASSUME HeldInv, PromptInv, ClientInv, BridgeInv, LineInv, HarnessNext
  PROVE  /\ Wrote \/ \E r \in Requests : HarnessLists(r) /\ AskedToList(r)
         /\ alive /\ UNCHANGED <<harness, callVars, readVars, ex, step>>
<1>1. alive /\ UNCHANGED <<harness, callVars, readVars, ex, step>>
  BY DEF HarnessNext, HarnessAnswers, HarnessRuns, HarnessStops, HarnessHears, HarnessFetches,
     HarnessLists, HarnessUses, HarnessReports, HarnessEnds, HarnessExits, ProcessEnds, HarnessKeeps,
     adapterVars, openVars
<1>2. ASSUME HarnessStops \/ HarnessExits
      PROVE  Wrote
  <2>1. UNCHANGED <<stdout, told>>
    BY <1>2 DEF HarnessStops, HarnessExits
  <2> QED
    BY <2>1, WroteNothing
<1>3. ASSUME NEW r \in Requests, HarnessHears(r)
      PROVE  Wrote
  <2>1. <<Line("start")>> \in Seq(Spoken) /\ <<>> \in Seq(Spoken)
    BY LinesAre DEF LineTypes
  <2>2. told' = told /\ (Writes(<<Line("start")>>) \/ Writes(<<>>))
    BY <1>3 DEF HarnessHears
  <2> QED
    BY <2>1, <2>2, WroteThis
<1>4. ASSUME NEW r \in Requests, HarnessFetches(r)
      PROVE  Wrote
  BY <1>4, WroteNothing DEF HarnessFetches
<1>5. ASSUME NEW r \in Requests, HarnessLists(r)
      PROVE  Wrote \/ AskedToList(r)
  <2>1. r \in {"list", "call"} \X Nat
    BY RequestsAssumption
  <2>2. Asks(r) \in Lines
    BY <2>1, LinesAre
  <2>3. told' = told /\ (Writes(<<Asks(r)>>) \/ stdout' = stdout)
    BY <1>5 DEF HarnessLists
  <2> QED
    BY <2>2, <2>3, WroteNothing DEF AskedToList
<1> QED
  BY <1>1, <1>2, <1>3, <1>4, <1>5, AnswersWell, RunsWell, UsesWell, ReportsWell, EndsWell DEF HarnessNext

(* Either way it appends lines.                                            *)
LEMMA HarnessAppends ==
  ASSUME HeldInv, PromptInv, ClientInv, BridgeInv, LineInv, HarnessNext
  PROVE  \E lines \in Seq(Lines) :
           /\ stdout' = stdout \o lines
           /\ \A c \in told' \ told :
                c \in Calls /\ call[c] # "none" /\ \E i \in DOMAIN lines : Response(lines[i], c)
<1>1. CASE Wrote
  <2>1. Seq(Spoken) \subseteq Seq(Lines)
    BY DEF Spoken
  <2> QED
    BY <1>1, <2>1 DEF Wrote
<1>2. ASSUME NEW r, AskedToList(r)
      PROVE  \E lines \in Seq(Lines) : stdout' = stdout \o lines /\ told' = told
  <2>1. <<Asks(r)>> \in Seq(Lines)
    BY <1>2 DEF AskedToList
  <2> QED
    BY <1>2, <2>1 DEF AskedToList, Writes
<1> QED
  BY <1>1, <1>2, HarnessWrites

(* The harness's input goes on by a line the client had to write.          *)
InputMoves ==
    \/ stdin' = stdin \/ stdin' = <<>>
    \/ stdin # <<>> /\ stdin' = Tail(stdin)
    \/ \E line \in Inputs : stdin' = Append(stdin, line) /\ Given(line)'

LEMMA InputMoved ==
  ASSUME PromptInv, ClientInv, [Next]_vars
  PROVE  InputMoves
<1>1. CASE OpenNext \/ CloseNext
  BY <1>1 DEF OpenNext, KeepFiles, Opens, OpenFails, HandshakeCalls, HandshakeGoesOn, CloseNext, Close,
     CloseBegins, ClientClosed, CloseReturns, clientVars, processVars, StartProcess, AskToExit, InputMoves
<1>2. CASE PromptSends
  <2>1. CASE CallSends
    BY <2>1 DEF CallSends, InputMoves
  <2>2. CASE ClaudeSends
    <3>0. PICK c : c = <<"message", ex>>
      OBVIOUS
    <3>1. stdin' = Append(stdin, c) \/ stdin' = stdin
      BY <2>2, <3>0 DEF ClaudeSends, Notify
    <3>2. ex \in 1 .. ex /\ ex' = ex /\ harness' = harness /\ harness = "claude"
      BY <1>2, <2>2, WantsAre DEF PromptSends, ClaudeSends, PromptInv, ExchangeInv
    <3>3. c \in Inputs /\ c \notin Calls
      BY <3>0, <3>2, CallsAssumption DEF Inputs
    <3>4. Given(c)'
      BY <3>0, <3>2, <3>3 DEF Given
    <3> QED
      BY <3>1, <3>3, <3>4 DEF InputMoves
  <2> QED
    BY <1>2, <2>1, <2>2 DEF PromptSends
<1>3. CASE Prompt \/ PromptSets \/ PromptWaits \/ Prompted \/ ExchangeOver \/ CancelGoesOn \/ CancelOver
  BY <1>3 DEF Prompt, PromptSets, PromptWaits, Prompted, ExchangeOver, CancelGoesOn, CancelOver, clientVars,
     processVars, InputMoves
<1>4. CASE Cancel
  <2>1. CASE ClaudeCancel \/ PiCancel
    BY <2>1 DEF ClaudeCancel, PiCancel, InputMoves
  <2>2. CASE OpenCodeCancel
    <3>0. PICK c : c = <<"stop", ex>>
      OBVIOUS
    <3>1. stdin' = Append(stdin, c) \/ stdin' = stdin
      BY <2>2, <3>0 DEF OpenCodeCancel, Notify
    <3>2. ex \in 1 .. ex /\ ex' = ex /\ harness' = harness /\ harness = "opencode"
      BY <1>4, <2>2, WantsAre DEF Cancel, OpenCodeCancel, PromptInv, ExchangeInv
    <3>3. c \in Inputs /\ c \notin Calls
      BY <3>0, <3>2, CallsAssumption DEF Inputs
    <3>4. Given(c)'
      BY <3>0, <3>2, <3>3 DEF Given
    <3> QED
      BY <3>1, <3>3, <3>4 DEF InputMoves
  <2> QED
    BY <1>4, <2>1, <2>2 DEF Cancel
<1>5. ASSUME NEW c \in Calls, GivesUp(c) \/ CallNext(c)
      PROVE  InputMoves
  <2>1. CASE WriteCall(c)
    <3>1. \/ stdin' = stdin
          \/ stdin' = Append(stdin, c) /\ \E p \in {"waiting", "sent"} : call' = [call EXCEPT ![c] = p]
      BY <2>1 DEF WriteCall
    <3>2. c \in Inputs /\ c[1] \notin {"message", "stop"}
      BY CallsAssumption DEF Inputs
    <3>3. (\E p \in {"waiting", "sent"} : call' = [call EXCEPT ![c] = p]) => call'[c] # "none"
      BY DEF ClientInv, CallsInv
    <3> QED
      BY <3>1, <3>2, <3>3 DEF Given, InputMoves
  <2>2. CASE GivesUp(c) \/ Return(c)
    BY <2>2 DEF GivesUp, Forget, Return, processVars, InputMoves
  <2> QED
    BY <1>5, <2>1, <2>2 DEF CallNext
<1>6. CASE ReaderNext
  BY <1>6 DEF ReaderNext, Dispatch, Resolve, Shutdown, EventsClose, processVars, InputMoves
<1>7. ASSUME NEW r \in Requests, HandlerNext(r)
      PROVE  InputMoves
  BY <1>7 DEF HandlerNext, RequestNext, ToolReturns, ListArrives, ListReads, ListAnswers, Respond, RunTool,
     TakeRun, GiveUp, AnswerAtOnce, processVars, InputMoves
<1>8. ASSUME NEW r \in Requests, ReplyNext(r)
      PROVE  InputMoves
  <2> DEFINE c == <<"answer", r>>
  <2>1. stdin' = Append(stdin, c) \/ stdin' = stdin
    BY <1>8 DEF ReplyNext, Reply, Notify
  <2>2. c \in Inputs /\ c \notin Calls
    BY CallsAssumption DEF Inputs
  <2>3. Given(c)'
    BY <2>2 DEF Given
  <2> QED
    BY <2>1, <2>2, <2>3 DEF InputMoves
<1>9. CASE HarnessNext
  BY <1>9 DEF HarnessNext, HarnessAnswers, HarnessRuns, HarnessStops, HarnessHears, HarnessFetches, HarnessLists,
     HarnessUses, HarnessReports, HarnessEnds, HarnessExits, ProcessEnds, StdinTaken, HarnessKeeps, InputMoves
<1>10. CASE Terminated \/ UNCHANGED vars
  BY <1>10 DEF Terminated, vars, clientVars, processVars, InputMoves
<1> QED
  BY <1>1, <1>2, <1>3, <1>4, <1>5, <1>6, <1>7, <1>8, <1>9, <1>10 DEF Next, PromptNext, CancelNext

LEMMA InputKept ==
  ASSUME HeldInv, PromptInv, ClientInv, InputInv, [Next]_vars
  PROVE  InputInv'
<1>1. \A c : Given(c) => Given(c)'
  BY GivenStays
<1>2. CASE stdin' = stdin \/ stdin' = <<>>
  <2>1. CASE stdin' = stdin
    BY <1>1, <2>1 DEF InputInv
  <2>2. CASE stdin' = <<>>
    <3>1. <<>> \in Seq(Inputs)' /\ DOMAIN stdin' = {}
      BY <2>2
    <3> QED
      BY <2>2, <3>1 DEF InputInv
  <2> QED
    BY <1>2, <2>1, <2>2
<1>3. CASE stdin # <<>> /\ stdin' = Tail(stdin)
  <2>1. /\ stdin' \in Seq(Inputs)
        /\ \A i \in DOMAIN stdin' : i + 1 \in DOMAIN stdin /\ stdin'[i] = stdin[i + 1]
    BY <1>3 DEF InputInv
  <2> QED
    BY <1>1, <2>1 DEF InputInv
<1>4. ASSUME NEW line \in Inputs, stdin' = Append(stdin, line), Given(line)'
      PROVE  InputInv'
  <2>1. /\ stdin' \in Seq(Inputs)
        /\ \A i \in DOMAIN stdin' : stdin'[i] = line \/ (i \in DOMAIN stdin /\ stdin'[i] = stdin[i])
    BY <1>4 DEF InputInv
  <2> QED
    BY <1>1, <1>4, <2>1 DEF InputInv
<1> QED
  BY <1>2, <1>3, <1>4, InputMoved DEF InputMoves
LEMMA HarnessKeepsFaith ==
  ASSUME HeldInv, PromptInv, ClientInv, BridgeInv, LineInv, HarnessNext
  PROVE  HarnessInv'
<1>0. /\ UNCHANGED <<harness, ex, call>> /\ ex \in Nat
      /\ \A c \in told' \ told : c \in Calls /\ call[c] # "none"
  BY HarnessWrites, HarnessAppends, WantsAre DEF callVars, PromptInv, ExchangeInv
<1>1. told' \subseteq Calls /\ \A c \in told' : call'[c] # "none"
  BY <1>0 DEF LineInv, HarnessInv
<1>2. /\ hrun' \in 0 .. ex /\ hpc' \in HarnessPC /\ limited' \in BOOLEAN
      /\ harness = "opencode" /\ hrun' # 0 => call[PromptCall(hrun')] # "none"
      /\ hpc' \in {"using", "used", "done"} => <<"call", hrun'>> \in Requests
  <2>1. CASE UNCHANGED <<hrun, limited>> /\ (hpc' = hpc \/ hpc' = "running")
    BY <2>1 DEF LineInv, HarnessInv, HarnessPC
  <2>2. CASE HarnessRuns
    <3>1. PICK c \in Inputs : c = Head(stdin) /\ Given(c)
      BY <2>2 DEF HarnessRuns, StdinTaken, LineInv, InputInv
    <3>2. c[1] \in {"message", "prompt"} /\ limited' = FALSE
          /\ (UNCHANGED <<hrun, hpc>> \/ (hrun' = c[2] /\ hpc' \in {"asking", "running"}))
      BY <2>2, <3>1 DEF HarnessRuns
    <3>3. /\ c[2] \in 1 .. ex
          /\ harness = "opencode" => PromptCall(c[2]) = c /\ call[c] # "none"
      BY <3>1, <3>2, PromptRead DEF Given
    <3>4. CASE UNCHANGED <<hrun, hpc>>
      BY <3>2, <3>4 DEF LineInv, HarnessInv, HarnessPC
    <3>5. CASE hrun' = c[2] /\ hpc' \in {"asking", "running"}
      <4>1. hrun' \in 0 .. ex
        BY <1>0, <3>3, <3>5
      <4>2. hpc' \in HarnessPC \ {"using", "used", "done"} /\ limited' \in BOOLEAN
        BY <3>2, <3>5 DEF HarnessPC
      <4>3. harness = "opencode" => call[PromptCall(hrun')] # "none"
        BY <3>3, <3>5
      <4> QED
        BY <4>1, <4>2, <4>3
    <3> QED
      BY <3>2, <3>4, <3>5
  <2>3. ASSUME NEW r \in Requests, HarnessHears(r) \/ HarnessFetches(r)
        PROVE  UNCHANGED <<hrun, limited>> /\ hpc' \in {hpc, "running", "used"}
               /\ (hpc' = "used" => hpc \in {"using", "used"})
    BY <2>3 DEF HarnessHears, HarnessFetches, Heard
  <2>4. ASSUME NEW tool \in RespondTools \union {Tool, Permission}, HarnessUses(tool)
        PROVE  UNCHANGED <<hrun, limited>> /\ hpc' \in {"using", "used"} /\ <<"call", hrun>> \in Requests
    BY <2>4 DEF HarnessUses
  <2>5. CASE HarnessReports
    BY <2>5 DEF HarnessReports, LineInv, HarnessInv, HarnessPC
  <2>6. CASE HarnessEnds \/ HarnessExits
    <3>1. hrun' = 0 /\ hpc' = "idle"
      BY <2>6 DEF HarnessEnds, HarnessExits
    <3>2. limited' \in BOOLEAN
      BY <2>6 DEF HarnessEnds, HarnessExits, LineInv, HarnessInv
    <3> QED
      BY <1>0, <3>1, <3>2 DEF HarnessPC
  <2>7. CASE HarnessAnswers \/ HarnessStops \/ \E r \in Requests : HarnessLists(r)
    BY <2>1, <2>7 DEF HarnessAnswers, HarnessStops, HarnessLists
  <2>8. CASE \E r \in Requests : HarnessHears(r) \/ HarnessFetches(r)
    BY <2>3, <2>8 DEF LineInv, HarnessInv, HarnessPC
  <2>9. CASE \E tool \in RespondTools \union {Tool, Permission} : HarnessUses(tool)
    BY <2>4, <2>9 DEF LineInv, HarnessInv, HarnessPC
  <2> QED
    BY <2>2, <2>5, <2>6, <2>7, <2>8, <2>9 DEF HarnessNext
<1>3. aborted' # <<>> => aborted' \in Inputs /\ Given(aborted') /\ aborted'[1] \in {"cancel", "stop"}
  <2>1. CASE aborted' = aborted \/ aborted' = <<>>
    BY <2>1 DEF LineInv, HarnessInv
  <2>2. CASE HarnessAnswers \/ HarnessStops
    <3>1. Head(stdin) \in Inputs /\ Given(Head(stdin))
      BY <2>2 DEF HarnessAnswers, HarnessStops, StdinTaken, LineInv, InputInv
    <3>2. aborted' = aborted \/ aborted' = <<>>
          \/ (aborted' = Head(stdin) /\ Head(stdin)[1] \in {"cancel", "stop"})
      BY <2>2 DEF HarnessAnswers, HarnessStops, Stops, Settles
    <3> QED
      BY <2>1, <3>1, <3>2
  <2>3. CASE ~(HarnessAnswers \/ HarnessStops)
    BY <2>1, <2>3 DEF HarnessNext, HarnessRuns, HarnessHears, HarnessFetches, HarnessLists, HarnessUses,
       HarnessReports, HarnessEnds, HarnessExits
  <2> QED
    BY <2>2, <2>3
<1> QED
  BY <1>0, <1>1, <1>2, <1>3 DEF HarnessInv, Given, PromptCall

(* The other steps leave the harness as it is.                             *)
LEMMA HarnessRests ==
  ASSUME [Next]_vars, ~HarnessNext
  PROVE  UNCHANGED harnessVars /\ (stdout' = stdout \/ Dispatch)
<1>1. CASE OpenNext \/ CloseNext
  BY <1>1 DEF OpenNext, KeepFiles, Opens, OpenFails, HandshakeCalls, HandshakeGoesOn, CloseNext, Close,
     CloseBegins, ClientClosed, CloseReturns, clientVars, processVars, StartProcess, AskToExit
<1>2. CASE PromptNext \/ CancelNext
  BY <1>2 DEF PromptNext, Prompt, PromptSets, PromptWaits, PromptSends, Prompted, ExchangeOver, CancelNext,
     Cancel, CancelGoesOn, CancelOver, clientVars, processVars
<1>3. CASE \E c \in Calls : GivesUp(c) \/ CallNext(c)
  BY <1>3 DEF GivesUp, Forget, CallNext, WriteCall, Return, processVars
<1>4. CASE ReaderNext
  BY <1>4 DEF ReaderNext, Resolve, Shutdown, EventsClose, processVars
<1>5. CASE \E r \in Requests : HandlerNext(r) \/ ReplyNext(r)
  BY <1>5 DEF HandlerNext, RequestNext, ToolReturns, ListArrives, ListReads, ListAnswers, Respond, RunTool,
     TakeRun, GiveUp, AnswerAtOnce, ReplyNext, Reply, processVars
<1>6. CASE Terminated \/ UNCHANGED vars
  BY <1>6 DEF Terminated, vars, clientVars, processVars
<1> QED
  BY <1>1, <1>2, <1>3, <1>4, <1>5, <1>6 DEF Next

LEMMA HarnessKept ==
  ASSUME HeldInv, PromptInv, ClientInv, BridgeInv, LineInv, [Next]_vars
  PROVE  HarnessInv'
<1>1. CASE HarnessNext
  BY <1>1, HarnessKeepsFaith
<1>2. CASE ~HarnessNext
  <2>1. UNCHANGED <<hrun, hpc, aborted, limited, told>>
    BY <1>2, HarnessRests DEF harnessVars
  <2>2. /\ \A c \in Calls : call[c] # "none" => call'[c] # "none"
        /\ ex' >= ex /\ harness' = harness /\ ex \in Nat /\ ex' \in Nat
    BY BegunStays, PromptKept, WantsAre DEF PromptInv, ExchangeInv
  <2>3. hrun' \in 0 .. ex'
    BY <2>1, <2>2 DEF LineInv, HarnessInv
  <2>4. harness = "opencode" /\ hrun # 0 => PromptCall(hrun) \in Calls
    BY <2>2, CallsAre, WantsAre DEF LineInv, HarnessInv, PromptInv, ExchangeInv
  <2>5. aborted # <<>> => \A c : c = aborted => Given(c)'
    BY GivenStays DEF LineInv, HarnessInv
  <2>6. aborted' # <<>> => Given(aborted)'
    BY <2>1, <2>5 DEF Given
  <2> QED
    BY <2>1, <2>2, <2>3, <2>4, <2>6 DEF LineInv, HarnessInv, PromptCall
<1> QED
  BY <1>1, <1>2

(* What read takes is the answer to a call only if it says so.             *)
LEMMA Answers ==
  ASSUME HeldInv, NEW l \in Lines, l.type = "response"
  PROVE  Decode(harness, codec, l).response = <<l.call, l.how # "error">>
<1>1. \A c, events : ResponseFrame(c, l, events).response = <<l.call, l.how # "error">>
  BY DEF ResponseFrame, Frame
<1>2. CASE harness = "claude"
  BY <1>1, <1>2 DEF Decode, ClaudeDecode
<1>3. CASE harness = "opencode"
  <2>1. Decode(harness, codec, l) = OpenCodeDecode(codec, l)
    BY <1>3 DEF Decode
  <2>2. CASE l.call \in codec.prompts
    <3>1. OpenCodeDecode(codec, l) = OpenCodeEnd(codec, l)
      BY <2>2 DEF OpenCodeDecode
    <3> QED
      BY <1>1, <2>1, <3>1 DEF OpenCodeEnd
  <2>3. CASE l.call \notin codec.prompts
    <3>1. \E c : OpenCodeDecode(codec, l) = ResponseFrame(c, l, <<>>)
      BY <2>3 DEF OpenCodeDecode
    <3> QED
      BY <1>1, <2>1, <3>1
  <2> QED
    BY <2>2, <2>3
<1>4. CASE harness = "pi"
  BY <1>1, <1>4 DEF Decode, PiDecode
<1>5. harness \in {"claude", "opencode", "pi"}
  BY DEF HeldInv, StepType, Harnesses
<1> QED
  BY <1>2, <1>3, <1>4, <1>5

LEMMA OutputKept ==
  ASSUME HeldInv, PromptInv, ClientInv, BridgeInv, LineInv, [Next]_vars
  PROVE  OutputInv'
<1>0. /\ stdout \in Seq(Lines) /\ told \subseteq Calls
      /\ \A c \in told : call[c] # "none"
      /\ \A c \in told \intersect pending : \E i \in DOMAIN stdout : Response(stdout[i], c)
  BY DEF LineInv, OutputInv, HarnessInv
<1>1. CASE HarnessNext
  <2>1. pending' = pending
    BY <1>1, HarnessWrites DEF callVars
  <2>2. PICK lines \in Seq(Lines) :
          /\ stdout' = stdout \o lines
          /\ \A c \in told' \ told : \E i \in DOMAIN lines : Response(lines[i], c)
    BY <1>1, HarnessAppends
  <2>3. /\ stdout' \in Seq(Lines)
        /\ \A i \in DOMAIN stdout : i \in DOMAIN stdout' /\ stdout'[i] = stdout[i]
        /\ \A i \in DOMAIN lines : Len(stdout) + i \in DOMAIN stdout' /\ stdout'[Len(stdout) + i] = lines[i]
    BY <1>0, <2>2
  <2>4. \A c \in told' \intersect pending' : \E i \in DOMAIN stdout' : Response(stdout'[i], c)
    BY <1>0, <2>1, <2>2, <2>3
  <2> QED
    BY <2>3, <2>4 DEF OutputInv, Response
<1>2. CASE Dispatch /\ UNCHANGED harnessVars
  <2>1. stdout # <<>> /\ stdout' = Tail(stdout) /\ told' = told
    BY <1>2 DEF Dispatch, harnessVars
  <2>2. /\ stdout' \in Seq(Lines) /\ Head(stdout) = stdout[1] /\ Head(stdout) \in Lines
        /\ \A i \in DOMAIN stdout : i # 1 => i - 1 \in DOMAIN stdout' /\ stdout'[i - 1] = stdout[i]
    BY <1>0, <2>1
  <2>3. pending' \subseteq pending
    BY <1>2 DEF Dispatch, Taken
  <2>4. ASSUME NEW c \in pending, Response(Head(stdout), c)
        PROVE  c \notin pending'
    <3>1. Decode(harness, codec, Head(stdout)).response = <<c, Head(stdout).how # "error">>
      BY <2>2, <2>4, Answers DEF Response
    <3>2. <<c, Head(stdout).how # "error">>[1] = c /\ <<c, Head(stdout).how # "error">> # <<>>
      OBVIOUS
    <3> QED
      BY <1>2, <3>1, <3>2 DEF Dispatch, Taken
  <2>5. \A c \in told' \intersect pending' : \E i \in DOMAIN stdout' : Response(stdout'[i], c)
    BY <1>0, <2>1, <2>2, <2>3, <2>4
  <2> QED
    BY <2>2, <2>5 DEF OutputInv, Response
<1>3. CASE UNCHANGED <<stdout, told>> /\ ~Dispatch
  <2>1. \A c \in pending' : c \notin pending => call[c] = "none"
    <3>1. CASE UNCHANGED callsVars
      BY <3>1 DEF callsVars, callVars
    <3>2. CASE \E c \in Calls : call[c] = "none" /\ Begin(c)
      BY <3>2 DEF Begin
    <3>3. CASE \E c \in Calls : WriteCall(c) \/ Return(c) \/ Forget(c)
      BY <3>3 DEF WriteCall, Return, Forget
    <3>4. CASE Resolve \/ Shutdown \/ EventsClose
      BY <3>4 DEF Resolve, Shutdown, EventsClose, callVars
    <3>5. CASE UNCHANGED callVars
      BY <3>5 DEF callVars
    <3> QED
      BY <1>3, <3>1, <3>2, <3>3, <3>4, <3>5, CallsStep DEF ClientInv
  <2> QED
    BY <1>0, <1>3, <2>1 DEF OutputInv, Response
<1> QED
  BY <1>1, <1>2, <1>3, HarnessRests DEF harnessVars

LEMMA LineKept ==
  ASSUME HeldInv, PromptInv, ClientInv, BridgeInv, LineInv, [Next]_vars
  PROVE  LineInv'
BY InputKept, HarnessKept, OutputKept DEF LineInv

LEMMA LineBegins == Init => LineInv
<1> SUFFICES ASSUME Init PROVE LineInv
  OBVIOUS
<1>1. /\ stdin = <<>> /\ stdout = <<>> /\ hrun = 0 /\ hpc = "idle" /\ limited = FALSE /\ aborted = <<>>
      /\ told = {} /\ ex = 0
  BY DEF Init, InitClient
<1>2. <<>> \in Seq(Inputs) /\ <<>> \in Seq(Lines)
  OBVIOUS
<1>3. InputInv
  BY <1>1, <1>2 DEF InputInv
<1>4. HarnessInv
  <2>1. hrun \in 0 .. ex
    BY <1>1
  <2> QED
    BY <1>1, <2>1 DEF HarnessInv, HarnessPC
<1>5. OutputInv
  BY <1>1, <1>2 DEF OutputInv
<1> QED
  BY <1>3, <1>4, <1>5 DEF LineInv

(***************************************************************************)
(* Once read has ended, every answer of the harness has been handed over:  *)
(* a call that learns of the exit was not answered.                        *)
(***************************************************************************)
ExitUntold == \A c \in Calls : chan[c] = <<"exit">> => c \notin told

LEMMA ExitKept ==
  ASSUME HeldInv, PromptInv, ClientInv, BridgeInv, LineInv, ExitUntold, [Next]_vars
  PROVE  ExitUntold'
<1>1. CASE HarnessNext
  <2>1. chan' = chan /\ alive
    BY <1>1, HarnessWrites DEF callVars
  <2>2. \A c \in Calls : chan[c] # <<"exit">>
    BY <2>1 DEF ClientInv, ReaderInv, CallsInv, CallOnce
  <2> QED
    BY <2>1, <2>2 DEF ExitUntold
<1>2. CASE Shutdown /\ told' = told
  <2>1. stdout = <<>> /\ \A c \in Calls : chan'[c] # chan[c] => c \in pending
    BY <1>2 DEF Shutdown, LinesOver, FailsOpen, ClientInv, CallsInv
  <2>2. told \intersect pending = {}
    BY <2>1 DEF LineInv, OutputInv
  <2> QED
    BY <1>2, <2>1, <2>2 DEF ExitUntold
<1>3. CASE Resolve /\ told' = told
  <2>0. PICK c \in Calls : c = hand.response[1]
    BY <1>3 DEF Resolve, ClientInv, CallsInv
  <2>1. chan[c] = <<>> /\ \E v \in {"ok", "refused"} : chan' = [chan EXCEPT ![c] = Append(chan[c], v)]
    BY <1>3, <2>0 DEF Resolve, ClientInv, CallsInv, CallOnce, Resolving
  <2>2. Append(<<>>, "ok") # <<"exit">> /\ Append(<<>>, "refused") # <<"exit">>
    OBVIOUS
  <2>3. \A d \in Calls : chan'[d] = <<"exit">> => chan[d] = <<"exit">>
    BY <2>1, <2>2 DEF ClientInv, CallsInv
  <2> QED
    BY <1>3, <2>3 DEF ExitUntold
<1>4. CASE chan' = chan /\ told' = told
  BY <1>4 DEF ExitUntold
<1>5. ~(HarnessNext \/ Shutdown \/ Resolve) => chan' = chan
  <2>1. CASE UNCHANGED callVars
    BY <2>1 DEF callVars
  <2>2. CASE (\E c \in Calls : Begin(c)) \/ (\E c \in Calls : WriteCall(c) \/ Return(c) \/ Forget(c))
    BY <2>2 DEF Begin, WriteCall, Return, Forget
  <2>3. CASE Dispatch \/ EventsClose
    BY <2>3 DEF Dispatch, EventsClose, callVars
  <2> QED
    BY <2>1, <2>2, <2>3, CallsStep DEF ClientInv, callsVars
<1> QED
  BY <1>1, <1>2, <1>3, <1>4, <1>5, HarnessRests DEF harnessVars

LEMMA ClosingTyped ==
  ASSUME closing \in Closing, [Next]_vars
  PROVE  closing' \in Closing
<1>1. CASE UNCHANGED heldVars
  BY <1>1 DEF heldVars
<1>2. CASE Opens \/ OpenFails \/ HandshakeGoesOn \/ HarnessExits
  BY <1>2 DEF Opens, OpenFails, HandshakeGoesOn, HarnessExits
<1>3. CASE Close \/ ClientClosed \/ CloseReturns
  BY <1>3 DEF Close, CloseBegins, ClientClosed, CloseReturns, Closing
<1> QED
  BY <1>1, <1>2, <1>3, HeldStep

AdapterInv ==
    /\ HeldInv /\ closing \in Closing /\ PromptInv /\ ClientInv
    /\ BridgeInv /\ LineInv /\ ExitUntold

LEMMA AdapterStays == Spec => []AdapterInv
<1>1. Init => AdapterInv
  <2> SUFFICES ASSUME Init PROVE AdapterInv
    OBVIOUS
  <2>1. closing \in Closing
    BY DEF Init, Closing
  <2>2. ExitUntold
    BY DEF Init, InitClient, ExitUntold
  <2> QED
    BY <2>1, <2>2, HeldBegins, PromptBegins, ClientBegins, BridgeBegins, LineBegins DEF AdapterInv
<1>2. AdapterInv /\ [Next]_vars => AdapterInv'
  BY HeldKept, ClosingTyped, PromptKept, ClientKept, BridgeKept, LineKept, ExitKept DEF AdapterInv
<1> QED
  BY <1>1, <1>2, PTL DEF Spec

(***************************************************************************)
(* Each call gets one response at most, the harness's own whenever it      *)
(* answered and the caller still waited, and one it gets before the client *)
(* is closed (Client.Send, calls.resolve, Client.shutdown).                *)
(***************************************************************************)
THEOREM ResponseCorrect == Spec => []OneResponse
<1>1. AdapterInv => OneResponse
  <2> SUFFICES ASSUME AdapterInv, NEW c \in Calls
               PROVE  /\ Len(chan[c]) <= 1
                      /\ chan[c] = <<"exit">> => c \notin told
                      /\ call[c] \in {"waiting", "sent"} /\ reader \in {"wait", "done"} => chan[c] # <<>>
    BY DEF OneResponse
  <2>1. CallOnce(c) /\ chan[c] \in Responses /\ (reader \in Over => pending = {})
    BY DEF AdapterInv, ClientInv, CallsInv
  <2>2. Len(chan[c]) <= 1
    <3>1. Len(<<>>) <= 1 /\ Len(<<"ok">>) <= 1 /\ Len(<<"refused">>) <= 1 /\ Len(<<"exit">>) <= 1
      OBVIOUS
    <3>2. chan[c] = <<>> \/ chan[c] = <<"ok">> \/ chan[c] = <<"refused">> \/ chan[c] = <<"exit">>
      BY <2>1 DEF Responses
    <3> QED
      BY ONLY <3>1, <3>2
  <2>3. chan[c] = <<"exit">> => c \notin told
    BY DEF AdapterInv, ExitUntold
  <2>4. call[c] \in {"waiting", "sent"} /\ reader \in {"wait", "done"} => chan[c] # <<>>
    BY <2>1 DEF CallOnce, InFlight, Over, Resolving
  <2> QED
    BY <2>2, <2>3, <2>4
<1> QED
  BY <1>1, AdapterStays, PTL

(***************************************************************************)
(* The types, and the bounds of the protocol: a change of tool comes with  *)
(* a prompt, a listing counts for a change that was, a run is of a prompt  *)
(* begun and is stopped by a cancellation of one.                          *)
(***************************************************************************)
THEOREM AdapterTypeCorrect == Spec => []TypeOK
<1>1. AdapterInv /\ CacheInv => TypeOK
  <2> SUFFICES ASSUME AdapterInv, CacheInv PROVE TypeOK
    OBVIOUS
  <2>1. /\ harness \in {"claude", "opencode", "pi"}
        /\ step \in {Steps[i] : i \in DOMAIN Steps} \union {"failed"}
        /\ held \subseteq {"temp", "bridge", "process"} /\ closing \in Closing
    BY DEF AdapterInv, HeldInv, StepType, Harnesses
  <2>2. /\ ex \in 0 .. Len(Wants) /\ prompting \in PromptPC /\ late \in BOOLEAN
        /\ cancelling \in CancelPC /\ troubles \in 0 .. MaxTroubles
        /\ alive \in BOOLEAN /\ asked \in BOOLEAN /\ over \in BOOLEAN /\ answers \in BOOLEAN
        /\ run \in 0 .. ex /\ runOver \in BOOLEAN /\ took \in [Requests -> 0 .. ex]
    BY DEF AdapterInv, PromptInv, ExchangeInv
  <2>3. /\ respond \in RespondTools \union {None} /\ installed \in RespondTools \union {None}
        /\ gen \in 0 .. ex /\ listedGen \in 0 .. gen /\ started \in Nat
        /\ gens \in [Requests -> 0 .. gen] /\ serving \in BOOLEAN /\ closed \in BOOLEAN
    BY DEF AdapterInv, PromptInv, ServerInv, Offered
  <2>4. gen \in 0 .. Len(Wants)
    BY <2>2, <2>3, WantsAre
  <2>5. /\ reader \in ReaderPC /\ pending \subseteq Calls /\ failed \in BOOLEAN
        /\ call \in [Calls -> CallPC]
    BY DEF AdapterInv, ClientInv, CallsInv
  <2>6. at \in [Requests -> RequestPC] /\ known \in RespondTools \union {None}
    BY DEF AdapterInv, BridgeInv, Offered
  <2>7. hrun \in 0 .. ex /\ hpc \in HarnessPC /\ limited \in BOOLEAN /\ told \subseteq Calls
    BY DEF AdapterInv, LineInv, HarnessInv
  <2>8. aborted \in {<<>>} \union ({"cancel", "stop"} \X (1 .. ex))
    <3>1. aborted # <<>> => aborted \in Inputs /\ Given(aborted) /\ aborted[1] \in {"cancel", "stop"}
      BY DEF AdapterInv, LineInv, HarnessInv
    <3>2. aborted # <<>> => aborted \in {"cancel", "stop"} \X (1 .. ex)
      BY <3>1, PromptRead DEF AdapterInv
    <3> QED
      BY <3>2
  <2>9. cache \in [entry : Entry, mine : DirPC, theirs : DirPC, spoilt : BOOLEAN]
    BY DEF CacheInv, CacheType
  <2> QED
    BY <2>1, <2>2, <2>3, <2>4, <2>5, <2>6, <2>7, <2>8, <2>9 DEF TypeOK
<1> QED
  BY <1>1, AdapterStays, CacheStays, PTL

(***************************************************************************)
(* The server's tool and its listings.                                     *)
(***************************************************************************)
(* Before the process runs nothing is asked; while it does, the server is  *)
(* registered, or closed, and lists the tool that is set, which is that of *)
(* the prompt once the prompt has set it.  Pi has no server.               *)
Quiet ==
    /\ stdout = <<>> /\ started = 0 /\ gen = 0 /\ prompting = "idle"
    /\ \A r \in Requests : at[r] = "none"
ServesInv ==
    /\ step \in Starting => Quiet /\ ~closed
    /\ harness # "pi" /\ (step = "process" \/ alive) => serving \/ closed
    /\ serving => ~closed /\ installed = respond
    /\ harness # "pi" /\ prompting \in {"listing", "send"} => respond = Wants[ex]
    /\ harness = "pi" => gen = 0 /\ prompting # "schema"

toolVars == <<respond, gen, installed, serving, closed>>

LEMMA ServerStep ==
  ASSUME [Next]_vars
  PROVE  UNCHANGED toolVars \/ Opens \/ OpenFails \/ CloseReturns \/ PromptSets
<1>1. CASE OpenNext \/ CloseNext
  BY <1>1 DEF OpenNext, KeepFiles, HandshakeCalls, HandshakeGoesOn, CloseNext, Close, CloseBegins, ClientClosed,
     bridgeVars, serverVars, toolVars
<1>2. CASE PromptNext \/ CancelNext
  BY <1>2 DEF PromptNext, Prompt, PromptWaits, PromptSends, Prompted, ExchangeOver, CancelNext, Cancel,
     CancelGoesOn, CancelOver, bridgeVars, serverVars, toolVars
<1>3. CASE (\E c \in Calls : GivesUp(c) \/ CallNext(c)) \/ ReaderNext
  BY <1>3 DEF GivesUp, CallNext, ReaderNext, bridgeVars, serverVars, toolVars
<1>4. CASE \E r \in Requests : HandlerNext(r) \/ ReplyNext(r)
  BY <1>4 DEF HandlerNext, RequestNext, ToolReturns, ListArrives, ListReads, ListAnswers, Respond, RunTool,
     TakeRun, GiveUp, AnswerAtOnce, ReplyNext, bridgeVars, serverVars, toolVars
<1>5. CASE HarnessNext
  BY <1>5 DEF HarnessNext, HarnessAnswers, HarnessRuns, HarnessStops, HarnessHears, HarnessFetches,
     HarnessLists, HarnessUses, HarnessReports, HarnessEnds, HarnessExits, HarnessKeeps, bridgeVars,
     serverVars, toolVars
<1>6. CASE Terminated \/ UNCHANGED vars
  BY <1>6 DEF Terminated, vars, bridgeVars, serverVars, toolVars
<1> QED
  BY <1>1, <1>2, <1>3, <1>4, <1>5, <1>6 DEF Next

(* A request comes from the harness: nobody else begins one.               *)
LEMMA NobodyAsks ==
  ASSUME BridgeInv, [Next]_vars, ~HarnessNext, ~Dispatch
  PROVE  /\ \A q \in Requests : at[q] = "none" => at'[q] = "none"
         /\ started' = started \/ \E q \in Requests : at[q] # "none"
<1>1. CASE at' = at /\ started' = started
  BY <1>1
<1>2. ASSUME NEW r \in Requests, at[r] # "none", NEW p, at' = [at EXCEPT ![r] = p]
      PROVE  /\ \A q \in Requests : at[q] = "none" => at'[q] = "none"
             /\ \E q \in Requests : at[q] # "none"
  BY <1>2 DEF BridgeInv
<1>3. ASSUME NEW r \in Requests, HandlerNext(r) \/ ReplyNext(r)
      PROVE  at[r] # "none" /\ \E p : at' = [at EXCEPT ![r] = p]
  <2>1. CASE ListArrives(r)
    BY <2>1 DEF ListArrives, Arrives, Delivered, Served, At
  <2>2. CASE ListReads(r) \/ ListAnswers(r)
    BY <2>2 DEF ListReads, ListAnswers, At
  <2>3. CASE Respond(r) \/ RunTool(r)
    BY <2>3 DEF Respond, RunTool, HandleTool, AnswerCall, Runs, Arrives, Delivered, Served, Answered, At
  <2>4. CASE TakeRun(r)
    BY <2>4 DEF TakeRun, Relay, CallDialog, Takes, At
  <2>5. CASE GiveUp(r)
    BY <2>5 DEF GiveUp, InHand, Answered, At
  <2>6. CASE AnswerAtOnce(r)
    BY <2>6 DEF AnswerAtOnce, Permit, AnswerPermission, AnswerExchange, Answered, At
  <2>7. CASE ToolReturns(r)
    BY <2>7 DEF ToolReturns, Answered, At
  <2>8. CASE ReplyNext(r)
    BY <2>8 DEF ReplyNext, Reply
  <2> QED
    BY <1>3, <2>1, <2>2, <2>3, <2>4, <2>5, <2>6, <2>7, <2>8 DEF HandlerNext, RequestNext
<1>4. CASE OpenNext \/ CloseNext
  BY <1>1, <1>4 DEF OpenNext, KeepFiles, Opens, OpenFails, Tunnel, Listen, TunnelClose, EndpointClose, NewServer,
     Remove, HandshakeCalls, HandshakeGoesOn, CloseNext, Close, CloseBegins, ClientClosed, CloseReturns,
     ClaudeCloses, OpenCodeCloses, PiCloses, clientVars, answerVars, bridgeVars, serverVars
<1>5. CASE PromptNext \/ CancelNext
  BY <1>1, <1>5 DEF PromptNext, Prompt, PromptSets, SetSchema, PromptWaits, PromptSends, Prompted, ExchangeOver,
     CancelNext, Cancel, CancelGoesOn, CancelOver, clientVars, answerVars, bridgeVars, serverVars
<1>6. CASE \E c \in Calls : GivesUp(c) \/ CallNext(c)
  BY <1>1, <1>6 DEF GivesUp, Forget, CallNext, WriteCall, Return, answerVars, bridgeVars, serverVars
<1>7. CASE ReaderNext
  BY <1>1, <1>7 DEF ReaderNext, Resolve, Shutdown, EventsClose, answerVars, bridgeVars, serverVars
<1>8. CASE Terminated \/ UNCHANGED vars
  BY <1>1, <1>8 DEF Terminated, vars, clientVars, answerVars, bridgeVars, serverVars
<1> QED
  BY <1>2, <1>3, <1>4, <1>5, <1>6, <1>7, <1>8 DEF Next

(* Open goes from one starting step to the next.                           *)
LEMMA StartingGoesOn ==
  ASSUME HeldInv, [Next]_vars
  PROVE  /\ step' \in Starting => step \in Starting /\ (step' = step \/ Opens)
         /\ alive' => alive \/ (Opens /\ step = "process")
         /\ closed' # closed => OpenFails \/ CloseReturns
<1>1. CASE UNCHANGED heldVars
  BY <1>1, ServerStep DEF heldVars, Opens, PromptSets, toolVars
<1>2. CASE Opens
  BY <1>2 DEF Opens, StartProcess, processVars
<1>3. CASE OpenFails
  BY <1>3 DEF OpenFails, clientVars, processVars, Starting
<1>4. CASE HandshakeGoesOn
  <2>1. /\ step \in Handshake \union {"session"} /\ step' = StepAfter(step)
        /\ UNCHANGED <<alive, closed>>
    BY <1>4 DEF HandshakeGoesOn, clientVars, processVars, bridgeVars
  <2>2. step \notin Starting /\ step # "failed" /\ step # "open"
    BY <2>1 DEF Handshake, Starting
  <2>3. step' \in Onward
    BY <2>1, <2>2, AfterIs DEF HeldInv
  <2> QED
    BY <2>1, <2>3 DEF Onward, Handshake, Starting
<1>5. CASE Close
  BY <1>5 DEF Close, CloseBegins, AskToExit, Starting
<1>6. CASE ClientClosed \/ CloseReturns \/ HarnessExits
  BY <1>6 DEF ClientClosed, CloseReturns, HarnessExits, ProcessEnds, openVars, clientVars, processVars,
     bridgeVars
<1> QED
  BY <1>1, <1>2, <1>3, <1>4, <1>5, <1>6, HeldStep

LEMMA PromptMoves ==
  ASSUME ServesInv, [Next]_vars, ~PromptSets
  PROVE  /\ prompting' \in {"listing", "send"} => harness = "pi" \/ (prompting \in {"listing", "send"} /\ ex' = ex)
         /\ prompting' = "schema" => harness # "pi"
         /\ prompting = "idle" => prompting' = "idle" \/ Prompt
<1>1. CASE Prompt
  BY <1>1 DEF Prompt, ClaudePrompt, OpenCodePrompt, PiPrompt, Ready
<1>2. CASE PromptWaits \/ PromptSends \/ Prompted \/ ExchangeOver
  BY <1>2 DEF PromptWaits, PromptSends, ClaudeSends, CallSends, Prompted, ExchangeOver
<1>3. CASE UNCHANGED <<prompting, ex>>
  BY <1>3 DEF ServesInv
<1>4. CASE OpenNext \/ CloseNext
  BY <1>3, <1>4 DEF OpenNext, KeepFiles, Opens, OpenFails, HandshakeCalls, HandshakeGoesOn, CloseNext, Close,
     CloseBegins, ClientClosed, CloseReturns, adapterVars
<1>5. CASE CancelNext
  BY <1>3, <1>5 DEF CancelNext, Cancel, CancelGoesOn, CancelOver
<1>6. CASE (\E c \in Calls : GivesUp(c) \/ CallNext(c)) \/ ReaderNext
  BY <1>3, <1>6 DEF GivesUp, CallNext, ReaderNext, adapterVars
<1>7. CASE \E r \in Requests : HandlerNext(r) \/ ReplyNext(r)
  BY <1>3, <1>7 DEF HandlerNext, ReplyNext, adapterVars
<1>8. CASE HarnessNext
  BY <1>3, <1>8 DEF HarnessNext, HarnessAnswers, HarnessRuns, HarnessStops, HarnessHears, HarnessFetches,
     HarnessLists, HarnessUses, HarnessReports, HarnessEnds, HarnessExits, HarnessKeeps, adapterVars
<1>9. CASE Terminated \/ UNCHANGED vars
  BY <1>3, <1>9 DEF Terminated, vars, adapterVars
<1> QED
  BY <1>1, <1>2, <1>4, <1>5, <1>6, <1>7, <1>8, <1>9 DEF Next, PromptNext

LEMMA QuietKept ==
  ASSUME HeldInv, PromptInv, BridgeInv, ServesInv, LineInv, step \in Starting, step' \in Starting, [Next]_vars
  PROVE  Quiet'
<1>1. Quiet /\ ~alive
  BY DEF ServesInv, HeldInv
<1>2. ~HarnessNext
  BY <1>1 DEF HarnessNext, HarnessAnswers, HarnessRuns, HarnessStops, HarnessHears, HarnessFetches, HarnessLists,
     HarnessUses, HarnessReports, HarnessEnds, HarnessExits, ProcessEnds
<1>3. ~Dispatch /\ ~PromptSets /\ ~Prompt /\ ~CloseReturns
  BY <1>1 DEF Dispatch, PromptSets, Prompt, Quiet, Starting, CloseReturns, HeldInv
<1>4. stdout' = <<>>
  BY <1>1, <1>2, <1>3, HarnessRests DEF Quiet
<1>5. prompting' = "idle"
  BY <1>1, <1>3, PromptMoves DEF Quiet
<1>6. gen' = 0
  <2>1. CASE Opens \/ OpenFails
    BY <1>1, <2>1 DEF Opens, OpenFails, Tunnel, Listen, NewServer, TunnelClose, EndpointClose, Remove, serverVars,
       Quiet
  <2>2. CASE UNCHANGED toolVars
    BY <1>1, <2>2 DEF toolVars, Quiet
  <2> QED
    BY <1>3, <2>1, <2>2, ServerStep
<1>7. \A r \in Requests : at'[r] = "none"
  BY <1>1, <1>2, <1>3, NobodyAsks DEF Quiet
<1>8. started' = 0
  BY <1>1, <1>2, <1>3, NobodyAsks DEF Quiet
<1> QED
  BY <1>4, <1>5, <1>6, <1>7, <1>8 DEF Quiet

LEMMA ServesKept ==
  ASSUME HeldInv, PromptInv, ClientInv, BridgeInv, LineInv, ServesInv, [Next]_vars
  PROVE  ServesInv'
<1>0. /\ harness' = harness /\ serving \in BOOLEAN /\ closed \in BOOLEAN /\ alive \in BOOLEAN
      /\ ex' = ex \/ Prompt
  BY HarnessStays, ExKept DEF PromptInv, ServerInv, ExchangeInv
<1>1. step' \in Starting => Quiet' /\ ~closed'
  <2> SUFFICES ASSUME step' \in Starting
               PROVE  Quiet' /\ ~closed'
    OBVIOUS
  <2>1. step \in Starting
    BY StartingGoesOn
  <2>2. ~OpenFails /\ ~CloseReturns
    BY <2>1 DEF OpenFails, CloseReturns, HeldInv, Starting
  <2>3. ~closed'
    BY <2>1, <2>2, StartingGoesOn DEF ServesInv
  <2> QED
    BY <2>1, <2>3, QuietKept
<1>2. /\ harness # "pi" /\ (step' = "process" \/ alive') => serving' \/ closed'
      /\ serving' => ~closed' /\ installed' = respond'
  <2>1. CASE Opens /\ step = "bridge"
    <3>1. serving' = TRUE /\ installed' = respond' /\ closed' = closed /\ step \in Starting
      BY <2>1 DEF Opens, Tunnel, Listen, NewServer
    <3> QED
      BY <3>1 DEF ServesInv
  <2>2. CASE Opens /\ step # "bridge"
    <3>1. UNCHANGED toolVars /\ step \in Starting /\ step' = StepAfter(step) /\ step # "failed" /\ step # "open"
      BY <2>2 DEF Opens, serverVars, toolVars, Starting
    <3>2. step' = "process" => harness = "pi"
      BY <2>2, <3>1, AfterIs DEF HeldInv
    <3>3. alive' => step = "process"
      BY <3>1, StartingGoesOn DEF HeldInv
    <3> QED
      BY <3>1, <3>2, <3>3 DEF ServesInv, toolVars
  <2>3. CASE OpenFails
    <3>1. step' = "failed" /\ ~alive'
      BY <2>3, StartingGoesOn DEF OpenFails, HeldInv, Opens, Starting
    <3>2. serving' = FALSE \/ UNCHANGED toolVars
      BY <2>3 DEF OpenFails, TunnelClose, EndpointClose, Remove, serverVars, toolVars
    <3> QED
      BY <3>1, <3>2 DEF ServesInv, toolVars
  <2>4. CASE CloseReturns
    <3>1. step' = step /\ ~alive /\ alive' = alive /\ step \notin Starting
      BY <2>4 DEF CloseReturns, HeldInv, openVars, clientVars, processVars
    <3>2. serving' = FALSE \/ UNCHANGED toolVars
      BY <2>4 DEF CloseReturns, ClaudeCloses, OpenCodeCloses, PiCloses, TunnelClose, EndpointClose, Remove,
         serverVars, bridgeVars, toolVars
    <3>3. step' # "process" /\ ~alive'
      BY <3>1 DEF Starting
    <3>4. serving' => ~closed' /\ installed' = respond'
      BY <3>2 DEF ServesInv, toolVars
    <3> QED
      BY <3>3, <3>4
  <2>5. CASE PromptSets
    <3>1. UNCHANGED <<step, alive, serving, closed>> /\ (serving => installed' = respond')
      BY <2>5 DEF PromptSets, SetSchema, openVars, clientVars, processVars
    <3> QED
      BY <3>1 DEF ServesInv
  <2>6. CASE UNCHANGED toolVars /\ ~Opens
    <3>1. (step' = "process" => step = "process") /\ (alive' => alive)
      BY <2>6, StartingGoesOn DEF Starting
    <3> QED
      BY <2>6, <3>1 DEF ServesInv, toolVars
  <2> QED
    BY <2>1, <2>2, <2>3, <2>4, <2>5, <2>6, ServerStep
<1>3. /\ harness # "pi" /\ prompting' \in {"listing", "send"} => respond' = Wants[ex']
      /\ harness = "pi" => gen' = 0 /\ prompting' # "schema"
  <2>1. CASE PromptSets
    BY <2>1 DEF PromptSets, SetSchema, ServesInv
  <2>2. CASE ~PromptSets
    <3>1. gen' = gen /\ respond' = respond
      <4>1. CASE Opens \/ OpenFails \/ CloseReturns
        BY <4>1 DEF Opens, OpenFails, CloseReturns, ClaudeCloses, OpenCodeCloses, PiCloses, Tunnel, Listen,
           NewServer, TunnelClose, EndpointClose, Remove, serverVars
      <4>2. CASE UNCHANGED toolVars
        BY <4>2 DEF toolVars
      <4> QED
        BY <2>2, <4>1, <4>2, ServerStep
    <3> QED
      BY <2>2, <3>1, PromptMoves DEF ServesInv
  <2> QED
    BY <2>1, <2>2
<1> QED
  BY <1>0, <1>1, <1>2, <1>3 DEF ServesInv

LEMMA ServesBegins == Init => ServesInv
BY DEF Init, InitClient, InitBridge, ServesInv, Quiet, Starting

(* The server is up, and somebody to list its tools.                       *)
Live == alive /\ ~closed /\ harness # "pi"

LEMMA LiveStep ==
  ASSUME HeldInv, ServesInv, [Next]_vars, Live'
  PROVE  Live \/ (Opens /\ step = "process")
<1>1. harness' = harness
  BY HarnessStays
<1>2. closed' # closed => ~alive
  BY StartingGoesOn DEF OpenFails, CloseReturns, HeldInv
<1> QED
  BY <1>1, <1>2, StartingGoesOn DEF Live, ServesInv, Starting

LEMMA LiveBegins ==
  ASSUME ServesInv, Opens, step = "process"
  PROVE  /\ Quiet /\ UNCHANGED <<stdout, started, gen, listedGen, gens, prompting, at, result, respond>>
BY DEF ServesInv, Opens, StartProcess, serverVars, answerVars, Starting

(* The listings asked for on the output are asked for once.                *)
AskedInv ==
    Live =>
      /\ \A r \in Requests, i, j \in DOMAIN stdout :
           IsList(r) /\ stdout[i].request = r => at[r] = "none" /\ (stdout[j].request = r => i = j)
      /\ harness = "claude" => \A i \in DOMAIN stdout : stdout[i].type # "message"

LEMMA Requested ==
  ASSUME HeldInv, harness # "pi", NEW l \in Lines, harness = "claude" => l.type # "message"
  PROVE  Decode(harness, codec, l).request \in {<<>>, l.request}
<1>1. \A c, events : Frame(c, events).request = <<>>
  BY DEF Frame
<1>2. \A c, events : ResponseFrame(c, l, events).request = <<>>
  BY DEF ResponseFrame, Frame
<1>3. \A c : RequestFrame(c, l).request = l.request
  BY DEF RequestFrame, Frame
<1>4. CASE harness = "claude"
  <2>1. Decode(harness, codec, l) = ClaudeDecode(codec, l)
    BY <1>4 DEF Decode
  <2>2. CASE l.type \in {"response", "request"}
    BY <1>2, <1>3, <2>1, <2>2 DEF ClaudeDecode
  <2>3. CASE l.type \in {"start", "limit", "use", "result", "end"}
    <3>1. ClaudeDecode(codec, l) = ClaudeNormalize(codec, l)
      BY <2>3 DEF ClaudeDecode
    <3>2. \E c, events : ClaudeNormalize(codec, l) = Frame(c, events)
      BY <2>3 DEF ClaudeNormalize, ClaudeToolCalls, ClaudeToolResults, ClaudeEnd
    <3> QED
      BY <1>1, <2>1, <3>1, <3>2
  <2> QED
    BY <1>4, <2>2, <2>3 DEF Lines, LineTypes
<1>5. CASE harness = "opencode"
  <2>1. Decode(harness, codec, l) = OpenCodeDecode(codec, l)
    BY <1>5 DEF Decode
  <2>2. CASE l.type = "request"
    BY <1>3, <2>1, <2>2 DEF OpenCodeDecode
  <2>3. CASE l.type = "response"
    <3>1. \E c, events : OpenCodeDecode(codec, l) = ResponseFrame(c, l, events)
      <4>1. CASE l.call \in codec.prompts
        BY <2>3, <4>1 DEF OpenCodeDecode, OpenCodeEnd
      <4>2. CASE l.call \notin codec.prompts
        BY <2>3, <4>2 DEF OpenCodeDecode
      <4> QED
        BY <4>1, <4>2
    <3> QED
      BY <1>2, <2>1, <3>1
  <2>4. CASE l.type \notin {"request", "response"}
    <3>1. OpenCodeDecode(codec, l) = OpenCodeNotification(codec, l)
      BY <2>4 DEF OpenCodeDecode
    <3>2. \E c, events : OpenCodeNotification(codec, l) = Frame(c, events)
      BY DEF OpenCodeNotification
    <3> QED
      BY <1>1, <2>1, <3>1, <3>2
  <2> QED
    BY <2>2, <2>3, <2>4
<1> QED
  BY <1>4, <1>5 DEF HeldInv, StepType, Harnesses

(* Read takes a request of the harness, which begins its answer.           *)
LEMMA ReadBegins ==
  ASSUME HeldInv, LineInv, AskedInv, Live, Dispatch
  PROVE  /\ stdout # <<>> /\ stdout' = Tail(stdout) /\ Head(stdout) = stdout[1]
         /\ at' = at \/ at' = [at EXCEPT ![Head(stdout).request] = "begun"]
         /\ UNCHANGED <<result>>
<1>1. stdout # <<>> /\ stdout \in Seq(Lines)
  BY DEF Dispatch, LineInv, OutputInv
<1>2. Head(stdout) = stdout[1] /\ Head(stdout) \in Lines /\ 1 \in DOMAIN stdout
  BY <1>1
<1>3. Decode(harness, codec, Head(stdout)).request \in {<<>>, Head(stdout).request}
  BY <1>2, Requested DEF Live, AskedInv
<1> QED
  BY <1>1, <1>2, <1>3 DEF Dispatch

(* What the harness does to the requests: it lists, or takes an answer, or *)
(* makes a call.                                                           *)
LEMMA HarnessAsks ==
  ASSUME BridgeInv, HarnessNext
  PROVE  /\ \/ \E r \in Requests : HarnessLists(r)
            \/ \A q \in Requests : IsList(q) => at'[q] = at[q] \/ (at[q] = "answered" /\ at'[q] = "gone")
         /\ UNCHANGED <<result, closed, serverVars>>
<1>1. UNCHANGED <<result, closed, serverVars>>
  BY DEF HarnessNext, HarnessAnswers, HarnessRuns, HarnessStops, HarnessHears, HarnessFetches, HarnessLists,
     HarnessUses, HarnessReports, HarnessEnds, HarnessExits, HarnessKeeps, answerVars, bridgeVars, serverVars
<1>2. CASE at' = at
  BY <1>1, <1>2
<1>3. CASE HarnessAnswers \/ HarnessRuns \/ HarnessStops \/ HarnessReports \/ HarnessEnds \/ HarnessExits
  BY <1>2, <1>3 DEF HarnessAnswers, HarnessRuns, HarnessStops, HarnessReports, HarnessEnds, HarnessExits,
     answerVars
<1>4. ASSUME NEW r \in Requests, HarnessHears(r) \/ HarnessFetches(r)
      PROVE  \A q \in Requests : at'[q] = at[q] \/ (at[q] = "answered" /\ at'[q] = "gone")
  BY <1>4 DEF HarnessHears, HarnessFetches, At, BridgeInv
<1>5. ASSUME NEW tool \in RespondTools \union {Tool, Permission}, HarnessUses(tool)
      PROVE  \A q \in Requests : IsList(q) => at'[q] = at[q]
  <2>1. at' = at \/ at' = [at EXCEPT ![<<"call", hrun>>] = "pushed"]
    BY <1>5 DEF HarnessUses, At
  <2> QED
    BY <2>1 DEF BridgeInv, IsList
<1> QED
  BY <1>1, <1>3, <1>4, <1>5 DEF HarnessNext

LEMMA AskedKept ==
  ASSUME HeldInv, PromptInv, ClientInv, BridgeInv, LineInv, ServesInv, AskedInv, [Next]_vars
  PROVE  AskedInv'
<1> SUFFICES ASSUME Live'
             PROVE  /\ \A r \in Requests, i, j \in DOMAIN stdout' :
                         IsList(r) /\ stdout'[i].request = r => at'[r] = "none" /\ (stdout'[j].request = r => i = j)
                    /\ harness' = "claude" => \A i \in DOMAIN stdout' : stdout'[i].type # "message"
  BY DEF AskedInv, IsList
<1>0. stdout \in Seq(Lines) /\ harness' = harness
  BY HarnessStays DEF LineInv, OutputInv
<1>1. CASE Opens /\ step = "process"
  <2>1. DOMAIN stdout' = {}
    BY <1>1, LiveBegins DEF Quiet
  <2> QED
    BY <2>1
<1>2. CASE Live
  <2>0. /\ \A r \in Requests, i, j \in DOMAIN stdout :
             IsList(r) /\ stdout[i].request = r => at[r] = "none" /\ (stdout[j].request = r => i = j)
        /\ harness = "claude" => \A i \in DOMAIN stdout : stdout[i].type # "message"
    BY <1>2 DEF AskedInv
  <2>1. CASE stdout' = stdout /\ \A q \in Requests : IsList(q) /\ at[q] = "none" => at'[q] = "none"
    BY <1>0, <2>0, <2>1
  <2>2. CASE Dispatch
    <3>1. /\ stdout # <<>> /\ stdout' = Tail(stdout) /\ Head(stdout) = stdout[1]
          /\ at' = at \/ at' = [at EXCEPT ![stdout[1].request] = "begun"]
      BY <1>2, <2>2, ReadBegins
    <3>2. \A i \in DOMAIN stdout' : i \in Nat /\ i + 1 # 1 /\ i + 1 \in DOMAIN stdout /\ stdout'[i] = stdout[i + 1]
      BY <1>0, <3>1
    <3>3. 1 \in DOMAIN stdout
      BY <1>0, <3>1
    <3>4. \A q \in Requests : at'[q] = at[q] \/ q = stdout[1].request
      BY <3>1 DEF BridgeInv
    <3>5. ASSUME NEW r \in Requests, NEW i \in DOMAIN stdout', NEW j \in DOMAIN stdout',
                 IsList(r), stdout'[i].request = r
          PROVE  at'[r] = "none" /\ (stdout'[j].request = r => i = j)
      <4>1. r # stdout[1].request /\ at[r] = "none"
        BY <2>0, <3>2, <3>3, <3>5
      <4>2. stdout'[j].request = r => i + 1 = j + 1
        BY <2>0, <3>2, <3>5
      <4> QED
        BY <3>2, <3>4, <4>1, <4>2
    <3>6. harness' = "claude" => \A i \in DOMAIN stdout' : stdout'[i].type # "message"
      BY <1>0, <2>0, <3>2
    <3> QED
      BY <3>5, <3>6
  <2>3. ASSUME NEW r \in Requests, HarnessLists(r)
        PROVE  /\ \A q \in Requests, i, j \in DOMAIN stdout' :
                    IsList(q) /\ stdout'[i].request = q => at'[q] = "none" /\ (stdout'[j].request = q => i = j)
               /\ harness' = "claude" => \A i \in DOMAIN stdout' : stdout'[i].type # "message"
    <3>1. /\ Fresh(r)
          /\ \/ at' = at /\ stdout' = stdout \o <<Asks(r)>>
             \/ stdout' = stdout /\ at' = [at EXCEPT ![r] = "pushed"]
      BY <2>3 DEF HarnessLists, Writes, At
    <3>2. at[r] = "none" /\ \A i \in DOMAIN stdout : stdout[i].request # r
      BY <3>1 DEF Fresh
    <3>3. CASE stdout' = stdout /\ at' = [at EXCEPT ![r] = "pushed"]
      BY <1>0, <2>0, <3>2, <3>3 DEF BridgeInv
    <3>4. CASE at' = at /\ stdout' = stdout \o <<Asks(r)>>
      <4>1. Asks(r) \in Lines /\ Asks(r).type = "request" /\ Asks(r).request = r
        BY RequestsAssumption, LinesAre
      <4>2. <<Asks(r)>> \in Seq(Lines) /\ Len(<<Asks(r)>>) = 1 /\ <<Asks(r)>>[1] = Asks(r)
        BY <4>1
      <4>3. \A i \in DOMAIN stdout' :
              (i \in DOMAIN stdout /\ stdout'[i] = stdout[i]) \/ (i = Len(stdout) + 1 /\ stdout'[i] = Asks(r))
        BY <1>0, <3>4, <4>2
      <4> QED
        BY <1>0, <2>0, <3>2, <3>4, <4>1, <4>3
    <3> QED
      BY <3>1, <3>3, <3>4
  <2>4. CASE HarnessNext /\ ~\E r \in Requests : HarnessLists(r)
    <3>1. PICK lines \in Seq(Spoken) : stdout' = stdout \o lines
      BY <2>4, HarnessWrites DEF Wrote
    <3>2. \A q \in Requests : IsList(q) /\ at[q] = "none" => at'[q] = "none"
      BY <2>4, HarnessAsks
    <3>3. \A i \in DOMAIN lines : lines[i].type # "message" /\ \A q \in Requests : IsList(q) => lines[i].request # q
      <4>1. \A q \in Requests : IsList(q) => q \in {"list"} \X Nat
        BY RequestsAssumption DEF IsList
      <4>2. \A i \in DOMAIN lines : lines[i] \in Spoken
        OBVIOUS
      <4> QED
        BY <1>2, <4>1, <4>2 DEF Spoken, Live
    <3>4. \A i \in DOMAIN stdout' :
            \/ i \in DOMAIN stdout /\ stdout'[i] = stdout[i]
            \/ \E k \in DOMAIN lines : stdout'[i] = lines[k]
      <4>1. lines \in Seq(Lines)
        BY DEF Spoken
      <4>2. \A i \in 1 .. Len(stdout) + Len(lines) :
              \/ i \in 1 .. Len(stdout) /\ stdout'[i] = stdout[i]
              \/ i - Len(stdout) \in 1 .. Len(lines) /\ stdout'[i] = lines[i - Len(stdout)]
        BY <1>0, <3>1, <4>1
      <4>3. DOMAIN stdout' = 1 .. Len(stdout) + Len(lines) /\ DOMAIN stdout = 1 .. Len(stdout)
            /\ DOMAIN lines = 1 .. Len(lines)
        BY <1>0, <3>1, <4>1
      <4> QED
        BY <4>2, <4>3
    <3> QED
      BY <1>0, <2>0, <3>2, <3>3, <3>4
  <2>5. CASE ~HarnessNext /\ ~Dispatch
    BY <2>1, <2>5, HarnessRests, NobodyAsks
  <2> QED
    BY <2>2, <2>3, <2>4, <2>5
<1> QED
  BY <1>1, <1>2, LiveStep

(***************************************************************************)
(* The listings: one of the tool as it is shows that tool, one that counts *)
(* for the tool as it is has been answered, and once the wait for a change *)
(* is over either such a one counts or none is of an earlier tool.         *)
(***************************************************************************)
(* The prompt has not to wait, or no longer, and did not run out of time.  *)
Due == ~late /\ prompting # "listing" /\ (prompting \in {"schema", "send"} \/ closing = "no")

Shows(r) == at[r] \in {"listed", "answered", "gone"} /\ gens[r] = gen => result[r] = respond
Counts(q) == IsList(q) /\ at[q] \in {"answered", "gone"} /\ gens[q] = gen
ListingsInv ==
    /\ \A r \in Requests : IsList(r) => Shows(r) /\ (Listing(r) => started > 0)
    /\ listedGen = gen /\ gen > 0 => \E q \in Requests : Counts(q)
    /\ Due => listedGen = gen \/ \A r \in Requests : Listing(r) => gens[r] = gen
ListInv == Live => ListingsInv

(* A step that leaves the listings as they are, but to begin one or to     *)
(* take an answer.                                                         *)
Still ==
    /\ UNCHANGED <<gens, started, listedGen, gen, respond>>
    /\ \A r \in Requests : IsList(r) =>
         /\ result'[r] = result[r]
         /\ \/ at'[r] = at[r]
            \/ at[r] = "none" /\ at'[r] \in {"begun", "pushed"}
            \/ at[r] = "answered" /\ at'[r] = "gone"

LEMMA LiveIs ==
  ASSUME HeldInv, ClientInv, ServesInv, Live
  PROVE  /\ step \notin Starting /\ answers /\ serving /\ installed = respond /\ harness # "pi"
         /\ \A r \in Requests : IsList(r) => ~Abandoned(r)
<1>1. step \notin Starting /\ answers /\ serving /\ installed = respond /\ harness # "pi"
  BY DEF Live, HeldInv, ClientInv, ReaderInv, ServesInv
<1> QED
  BY <1>1 DEF Abandoned, DeliverEnds, ConnectionEnds, Ended, IsList, Live

LEMMA HandlerSteps ==
  ASSUME BridgeInv, HeldInv, ClientInv, ServesInv, Live, NEW r \in Requests, HandlerNext(r)
  PROVE  Still \/ (IsList(r) /\ (ListArrives(r) \/ ListReads(r) \/ ListAnswers(r)))
<1>0. at \in [Requests -> RequestPC] /\ result \in [Requests -> Texts \union Offered]
  BY DEF BridgeInv
<1>1. ASSUME ~IsList(r), UNCHANGED <<gens, started, listedGen, gen, respond>>,
             NEW p, at' = [at EXCEPT ![r] = p], NEW v, result' = result \/ result' = [result EXCEPT ![r] = v]
      PROVE  Still
  BY <1>0, <1>1 DEF Still
<1>2. CASE ListArrives(r) \/ ListReads(r) \/ ListAnswers(r)
  <2>1. CASE ListArrives(r)
    BY <2>1 DEF ListArrives
  <2>2. CASE ListReads(r)
    BY <2>2 DEF ListReads, BridgeInv, RequestInv
  <2>3. CASE ListAnswers(r)
    BY <2>3 DEF ListAnswers, BridgeInv, RequestInv
  <2> QED
    BY <1>2, <2>1, <2>2, <2>3
<1>3. CASE Respond(r)
  <2>1. ~IsList(r)
    BY <1>3, ToolsAssumption DEF Respond, IsRespond, BridgeInv, RequestInv
  <2> QED
    BY <1>1, <1>3, <2>1 DEF Respond, Answered, At, bridgeVars, serverVars
<1>4. CASE RunTool(r)
  <2>1. ~IsList(r)
    BY <1>4 DEF RunTool, HandleTool, AnswerCall, Runs, BridgeInv, RequestInv, Tool, None
  <2> QED
    BY <1>1, <1>4, <2>1 DEF RunTool, HandleTool, AnswerCall, Runs, At, bridgeVars, serverVars
<1>5. CASE TakeRun(r)
  <2>1. ~IsList(r)
    BY <1>5 DEF TakeRun, IsList
  <2> QED
    BY <1>1, <1>5, <2>1 DEF TakeRun, Relay, CallDialog, Takes, At, serverVars
<1>6. CASE GiveUp(r)
  <2>1. ~IsList(r)
    BY <1>6, LiveIs DEF GiveUp
  <2> QED
    BY <1>1, <1>6, <2>1 DEF GiveUp, Answered, At, bridgeVars, serverVars
<1>7. CASE AnswerAtOnce(r)
  <2>1. ~IsList(r)
    BY <1>7 DEF AnswerAtOnce, Permit, AnswerPermission, AnswerExchange, BridgeInv, RequestInv, Permission,
       None, Live
  <2>2. UNCHANGED <<gens, started, listedGen, gen, respond>>
    BY <1>7 DEF AnswerAtOnce, bridgeVars, serverVars
  <2>3. \E v : Answered(r, v)
    BY <1>7 DEF AnswerAtOnce, Permit, AnswerPermission, AnswerExchange
  <2> QED
    BY <1>1, <2>1, <2>2, <2>3 DEF Answered, At
<1>8. CASE ToolReturns(r)
  <2>1. ~IsList(r)
    BY <1>8 DEF ToolReturns, BridgeInv, RequestInv
  <2> QED
    BY <1>1, <1>8, <2>1 DEF ToolReturns, Answered, At, bridgeVars, serverVars
<1> QED
  BY <1>2, <1>3, <1>4, <1>5, <1>6, <1>7, <1>8 DEF HandlerNext, RequestNext

LEMMA ListSteps ==
  ASSUME HeldInv, PromptInv, ClientInv, BridgeInv, LineInv, ServesInv, AskedInv, Live, [Next]_vars
  PROVE  \/ Still \/ PromptSets
         \/ \E r \in Requests : IsList(r) /\ (ListArrives(r) \/ ListReads(r) \/ ListAnswers(r))
<1>0. at \in [Requests -> RequestPC] /\ result \in [Requests -> Texts \union Offered]
  BY DEF BridgeInv
<1>1. CASE UNCHANGED <<gens, started, listedGen, gen, respond>> /\ at' = at /\ result' = result
  BY <1>1 DEF Still
<1>2. CASE OpenNext \/ CloseNext
  <2>1. ~Opens /\ ~OpenFails
    BY LiveIs DEF Opens, OpenFails
  <2> QED
    BY <1>1, <1>2, <2>1 DEF OpenNext, KeepFiles, HandshakeCalls, HandshakeGoesOn, CloseNext, Close, CloseBegins,
       ClientClosed, CloseReturns, ClaudeCloses, OpenCodeCloses, PiCloses, TunnelClose, EndpointClose, Remove,
       clientVars, answerVars, bridgeVars, serverVars
<1>3. CASE PromptNext \/ CancelNext
  BY <1>1, <1>3 DEF PromptNext, Prompt, PromptWaits, PromptSends, Prompted, ExchangeOver, CancelNext, Cancel,
     CancelGoesOn, CancelOver, clientVars, answerVars, bridgeVars, serverVars
<1>4. CASE \E c \in Calls : GivesUp(c) \/ CallNext(c)
  BY <1>1, <1>4 DEF GivesUp, Forget, CallNext, WriteCall, Return, answerVars, bridgeVars, serverVars
<1>5. CASE Dispatch /\ UNCHANGED bridgeVars
  <2>1. /\ stdout # <<>> /\ Head(stdout) = stdout[1] /\ result' = result
        /\ at' = at \/ at' = [at EXCEPT ![Head(stdout).request] = "begun"]
    BY <1>5, ReadBegins
  <2>2. 1 \in DOMAIN stdout
    BY <2>1 DEF LineInv, OutputInv
  <2>3. \A r \in Requests : IsList(r) /\ stdout[1].request = r => at[r] = "none"
    BY <2>2 DEF AskedInv
  <2>4. \A r \in Requests : IsList(r) => at'[r] = at[r] \/ (at[r] = "none" /\ at'[r] = "begun")
    BY <1>0, <2>1, <2>3
  <2> QED
    BY <1>5, <2>1, <2>4 DEF Still, bridgeVars, serverVars
<1>6. CASE ReaderNext
  BY <1>1, <1>5, <1>6 DEF ReaderNext, Resolve, Shutdown, EventsClose, answerVars, bridgeVars, serverVars
<1>7. ASSUME NEW r \in Requests, ReplyNext(r)
      PROVE  Still
  BY <1>0, <1>7 DEF ReplyNext, Reply, Still, bridgeVars, serverVars
<1>8. CASE HarnessNext
  <2>1. UNCHANGED <<result, gens, started, listedGen, gen, respond>>
    BY <1>8, HarnessAsks DEF serverVars
  <2>2. ASSUME NEW r \in Requests, HarnessLists(r)
        PROVE  \A q \in Requests : at'[q] = at[q] \/ (at[q] = "none" /\ at'[q] \in {"begun", "pushed"})
    BY <1>0, <2>2 DEF HarnessLists, Fresh, At
  <2> QED
    BY <1>8, <2>1, <2>2, HarnessAsks DEF Still
<1>9. CASE Terminated \/ UNCHANGED vars
  BY <1>1, <1>9 DEF Terminated, vars, clientVars, answerVars, bridgeVars, serverVars
<1> QED
  BY <1>2, <1>3, <1>4, <1>6, <1>7, <1>8, <1>9, HandlerSteps DEF Next

LEMMA DueStays ==
  ASSUME HeldInv, [Next]_vars, Due'
  PROVE  Due \/ (PromptWaits /\ Listed)
<1>1. CASE UNCHANGED <<prompting, late, closing>>
  BY <1>1 DEF Due
<1>2. CASE OpenNext \/ CloseNext
  BY <1>1, <1>2 DEF OpenNext, KeepFiles, Opens, OpenFails, HandshakeCalls, HandshakeGoesOn, CloseNext, Close,
     CloseBegins, ClientClosed, CloseReturns, adapterVars, Due
<1>3. CASE Prompt
  BY <1>3 DEF Prompt, Ready, Due
<1>4. CASE PromptSets
  BY <1>4 DEF PromptSets, Due
<1>5. CASE PromptWaits
  BY <1>5 DEF PromptWaits, Due
<1>6. CASE PromptSends \/ Prompted \/ ExchangeOver
  BY <1>6 DEF PromptSends, ClaudeSends, CallSends, Prompted, ExchangeOver, Due
<1>7. CASE CancelNext
  BY <1>1, <1>7 DEF CancelNext, Cancel, CancelGoesOn, CancelOver
<1>8. CASE (\E c \in Calls : GivesUp(c) \/ CallNext(c)) \/ ReaderNext
  BY <1>1, <1>8 DEF GivesUp, CallNext, ReaderNext, adapterVars
<1>9. CASE \E r \in Requests : HandlerNext(r) \/ ReplyNext(r)
  BY <1>1, <1>9 DEF HandlerNext, ReplyNext, adapterVars
<1>10. CASE HarnessNext
  BY <1>1, <1>10 DEF HarnessNext, HarnessAnswers, HarnessRuns, HarnessStops, HarnessHears, HarnessFetches,
     HarnessLists, HarnessUses, HarnessReports, HarnessEnds, HarnessExits, HarnessKeeps, adapterVars
<1>11. CASE Terminated \/ UNCHANGED vars
  BY <1>1, <1>11 DEF Terminated, vars, adapterVars
<1> QED
  BY <1>2, <1>3, <1>4, <1>5, <1>6, <1>7, <1>8, <1>9, <1>10, <1>11 DEF Next, PromptNext

LEMMA ListKept ==
  ASSUME HeldInv, PromptInv, ClientInv, BridgeInv, LineInv, ServesInv, AskedInv, ListInv, [Next]_vars
  PROVE  ListInv'
<1> SUFFICES ASSUME Live' PROVE ListingsInv'
  BY DEF ListInv
<1>0. /\ at \in [Requests -> RequestPC] /\ result \in [Requests -> Texts \union Offered]
      /\ gen \in Nat /\ listedGen \in 0 .. gen /\ gens \in [Requests -> 0 .. gen] /\ started \in Nat
  BY DEF BridgeInv, PromptInv, ServerInv, ExchangeInv
<1>1. CASE Opens /\ step = "process"
  <2>1. /\ gen' = 0 /\ listedGen' = listedGen /\ listedGen = 0
        /\ \A r \in Requests : at'[r] = "none"
    BY <1>0, <1>1, LiveBegins DEF Quiet
  <2> QED
    BY <2>1 DEF ListingsInv, Shows, Listing
<1>2. CASE Live
  <2>0. ListingsInv
    BY <1>2 DEF ListInv
  <2>1. \/ Still \/ PromptSets
        \/ \E r \in Requests : IsList(r) /\ (ListArrives(r) \/ ListReads(r) \/ ListAnswers(r))
    BY <1>2, ListSteps
  <2>2. CASE Still
    <3>1. \A r \in Requests : Listing(r)' => Listing(r)
      BY <2>2 DEF Still, Listing, IsList
    <3>2. \A r \in Requests : IsList(r) => Shows(r)'
      BY <2>0, <2>2 DEF Still, ListingsInv, Shows
    <3>3. listedGen' = gen' /\ gen' > 0 => \E q \in Requests : Counts(q)'
      BY <2>0, <2>2 DEF Still, ListingsInv, Counts, IsList
    <3>4. Due' => listedGen' = gen' \/ \A r \in Requests : Listing(r)' => gens'[r] = gen'
      <4>1. CASE Due
        BY <2>0, <2>2, <3>1, <4>1 DEF Still, ListingsInv
      <4>2. CASE Listed
        <5>1. started = 0 \/ listedGen = gen
          BY <1>0, <4>2 DEF Listed
        <5>2. started = 0 => \A r \in Requests : ~Listing(r)
          BY <2>0 DEF ListingsInv, Listing
        <5> QED
          BY <2>2, <3>1, <5>1, <5>2 DEF Still
      <4> QED
        BY <4>1, <4>2, DueStays
    <3>5. \A r \in Requests : IsList(r) => (Listing(r)' => started' > 0)
      BY <2>0, <2>2, <3>1 DEF Still, ListingsInv
    <3> QED
      BY <3>2, <3>3, <3>4, <3>5 DEF ListingsInv
  <2>3. CASE PromptSets
    <3>1. /\ UNCHANGED <<at, result, listedGen, gens, started>>
          /\ gen' = IF Wants[ex] = respond THEN gen ELSE gen + 1
          /\ respond' = Wants[ex]
      BY <2>3 DEF PromptSets, SetSchema, clientVars, answerVars
    <3>2. \A r \in Requests : Listing(r)' <=> Listing(r)
      BY <3>1 DEF Listing
    <3>3. CASE Wants[ex] = respond
      <4>1. respond' = respond /\ gen' = gen
        BY <3>1, <3>3
      <4>2. Due' => Due
        BY <2>3, DueStays DEF PromptSets, PromptWaits
      <4> QED
        BY <2>0, <3>1, <4>1, <4>2 DEF ListingsInv, Shows, Counts, Listing
    <3>4. CASE Wants[ex] # respond
      <4>1. gen' = gen + 1 /\ listedGen' # gen' /\ \A r \in Requests : gens'[r] # gen'
        BY <1>0, <3>1, <3>4
      <4>2. ~Due'
        BY <2>3, <3>1, <3>4 DEF PromptSets, Due
      <4> QED
        BY <2>0, <3>1, <3>2, <4>1, <4>2 DEF ListingsInv, Shows
    <3> QED
      BY <3>3, <3>4
  <2>4. ASSUME NEW r \in Requests, IsList(r), ListArrives(r)
        PROVE  ListingsInv'
    <3>1. /\ at' = [at EXCEPT ![r] = "listing"] /\ gens' = [gens EXCEPT ![r] = gen] /\ started' = started + 1
          /\ UNCHANGED <<result, listedGen, gen, respond>>
          /\ at[r] \notin {"answered", "gone"}
      BY <2>4 DEF ListArrives, Arrives, Delivered, Served, At
    <3>2. \A q \in Requests : q # r => at'[q] = at[q] /\ gens'[q] = gens[q]
      BY <1>0, <3>1
    <3>3. at'[r] = "listing" /\ gens'[r] = gen' /\ started' > 0
      BY <1>0, <3>1
    <3>4. Due' => Due
      <4>1. ~PromptWaits
        BY <1>0, <3>1 DEF PromptWaits, bridgeVars, serverVars
      <4> QED
        BY <4>1, DueStays
    <3>5. \A q \in Requests : IsList(q) => Shows(q)'
      BY <2>0, <3>1, <3>2, <3>3 DEF ListingsInv, Shows
    <3>6. listedGen' = gen' /\ gen' > 0 => \E q \in Requests : Counts(q)'
      BY <2>0, <3>1, <3>2 DEF ListingsInv, Counts
    <3>7. Due' => listedGen' = gen' \/ \A q \in Requests : Listing(q)' => gens'[q] = gen'
      BY <2>0, <3>1, <3>2, <3>3, <3>4 DEF ListingsInv, Listing
    <3> QED
      BY <3>3, <3>5, <3>6, <3>7 DEF ListingsInv
  <2>5. ASSUME NEW r \in Requests, IsList(r), ListReads(r)
        PROVE  ListingsInv'
    <3>1. /\ at' = [at EXCEPT ![r] = "listed"] /\ result' = [result EXCEPT ![r] = respond]
          /\ UNCHANGED <<listedGen, gen, respond, gens, started>>
          /\ at[r] = "listing"
      BY <1>2, <2>5, LiveIs DEF ListReads, At, bridgeVars, serverVars
    <3>2. \A q \in Requests : q # r => at'[q] = at[q] /\ result'[q] = result[q]
      BY <1>0, <3>1
    <3>3. at'[r] = "listed" /\ result'[r] = respond'
      BY <1>0, <3>1
    <3>4. \A q \in Requests : Listing(q)' <=> Listing(q)
      BY <3>1, <3>2, <3>3 DEF Listing
    <3>5. Due' => Due
      <4>1. ~PromptWaits
        BY <3>1, <3>3 DEF PromptWaits, clientVars, answerVars
      <4> QED
        BY <4>1, DueStays
    <3>6. \A q \in Requests : IsList(q) => Shows(q)'
      BY <2>0, <3>1, <3>2, <3>3 DEF ListingsInv, Shows
    <3>7. listedGen' = gen' /\ gen' > 0 => \E q \in Requests : Counts(q)'
      BY <2>0, <3>1, <3>2 DEF ListingsInv, Counts
    <3> QED
      BY <2>0, <3>1, <3>4, <3>5, <3>6, <3>7 DEF ListingsInv
  <2>6. ASSUME NEW r \in Requests, IsList(r), ListAnswers(r)
        PROVE  ListingsInv'
    <3>1. /\ at' = [at EXCEPT ![r] = "answered"] /\ result' = result
          /\ listedGen' = IF gens[r] > listedGen THEN gens[r] ELSE listedGen
          /\ UNCHANGED <<gen, respond, gens, started>>
          /\ at[r] = "listed"
      BY <1>2, <2>6, LiveIs DEF ListAnswers, At, GenAtArrival, HandOver
    <3>2. \A q \in Requests : q # r => at'[q] = at[q]
      BY <1>0, <3>1
    <3>3. at'[r] = "answered"
      BY <1>0, <3>1
    <3>4. \A q \in Requests : Listing(q)' <=> Listing(q)
      BY <3>1, <3>2, <3>3 DEF Listing
    <3>5. Due' => Due
      <4>1. ~PromptWaits
        BY <3>1, <3>3 DEF PromptWaits, clientVars, answerVars
      <4> QED
        BY <4>1, DueStays
    <3>6. \A q \in Requests : IsList(q) => Shows(q)'
      BY <2>0, <2>6, <3>1, <3>2, <3>3 DEF ListingsInv, Shows
    <3>7. listedGen' = gen' /\ gen' > 0 => \E q \in Requests : Counts(q)'
      <4>1. CASE gens[r] = gen
        BY <2>6, <3>1, <3>3, <4>1 DEF Counts
      <4>2. CASE gens[r] # gen
        <5>1. listedGen' = gen' => listedGen = gen
          BY <3>1, <4>2
        <5> QED
          BY <2>0, <3>1, <3>2, <5>1 DEF ListingsInv, Counts
      <4> QED
        BY <4>1, <4>2
    <3>8. listedGen = gen => listedGen' = gen'
      BY <1>0, <3>1
    <3> QED
      BY <2>0, <3>1, <3>4, <3>5, <3>6, <3>7, <3>8 DEF ListingsInv
  <2> QED
    BY <2>1, <2>2, <2>3, <2>4, <2>5, <2>6
<1> QED
  BY <1>1, <1>2, LiveStep

LEMMA ListBegins == Init => AskedInv /\ ListInv
BY DEF Init, InitClient, AskedInv, ListInv, Live

(***************************************************************************)
(* A prompt is sent to a harness that has listed the tool it asks for, if  *)
(* it listed an earlier one: whatever the schemas of the prompts, in       *)
(* whatever order its listings arrive, read and answer, and whatever wait  *)
(* ran out of time before the tool last changed.                           *)
(***************************************************************************)
THEOREM ToolCorrect == Spec => []NoStaleTool
<1>1. Init => HeldInv /\ PromptInv /\ ClientInv /\ BridgeInv /\ LineInv /\ ServesInv /\ AskedInv /\ ListInv
  BY HeldBegins, PromptBegins, ClientBegins, BridgeBegins, LineBegins, ServesBegins, ListBegins
<1>2. AdapterInv /\ AdapterInv' /\ ServesInv /\ AskedInv /\ ListInv /\ [Next]_vars
      => ServesInv' /\ AskedInv' /\ ListInv'
  BY ServesKept, AskedKept, ListKept DEF AdapterInv
<1>3. AdapterInv /\ ServesInv /\ ListInv => NoStaleTool
  <2> SUFFICES ASSUME AdapterInv, ServesInv, ListInv, prompting = "send", ~late, alive, ~closed,
                      NEW r \in Requests, Listing(r), gens[r] < gen
               PROVE  \E q \in Requests : IsList(q) /\ at[q] \in {"answered", "gone"} /\ result[q] = Wants[ex]
    BY DEF NoStaleTool
  <2>1. gen \in Nat /\ gens[r] \in Nat
    BY DEF AdapterInv, PromptInv, ServerInv, ExchangeInv
  <2>2. gen > 0 /\ gens[r] # gen
    BY <2>1
  <2>3. Live /\ Due
    BY <2>2 DEF Live, Due, ServesInv
  <2>4. listedGen = gen
    BY <2>2, <2>3 DEF ListInv, ListingsInv
  <2>5. PICK q \in Requests : Counts(q)
    BY <2>2, <2>3, <2>4 DEF ListInv, ListingsInv
  <2>6. result[q] = respond
    BY <2>3, <2>5 DEF ListInv, ListingsInv, Shows, Counts
  <2>7. respond = Wants[ex]
    BY <2>3 DEF ServesInv, Live
  <2> QED
    BY <2>5, <2>6, <2>7 DEF Counts
<1> QED
  BY <1>1, <1>2, <1>3, AdapterStays, PTL DEF Spec

=============================================================================
