---------------------------- MODULE WorkflowProofs ----------------------------
(***************************************************************************)
(* What the search of Validate and what Ancestors find, for every          *)
(* workflow whose steps come after steps of it.  Both are loops that run a *)
(* bounded number of times; what holds of their states is shown by taking  *)
(* the first state it would not hold of.                                   *)
(***************************************************************************)
EXTENDS RunnerProperties, FiniteSetTheorems, WellFoundedInduction, TLAPS

(* A workflow whose steps come after steps of it.                          *)
Refers(w) ==
    /\ Typed(w)
    /\ \A i \in DOMAIN w.steps : \A k \in DOMAIN w.steps[i].after : w.steps[i].after[k] \in Ids(w)

LEMMA LeastOf ==
  ASSUME NEW T \in SUBSET Nat, T # {}
  PROVE  \E m \in T : \A k \in T : m <= k
<1>1. PICK m \in T : \A k \in T : <<k, m>> \notin OpToRel(<, Nat)
  BY WFMin, NatLessThanWellFounded, Zenon
<1>2. \A k \in T : ~(k < m)
  BY <1>1 DEF OpToRel
<1> QED
  BY <1>2

LEMMA FirstIs ==
  ASSUME NEW I \in SUBSET Nat, I # {}
  PROVE  FirstOf(I) \in I /\ \A j \in I : FirstOf(I) <= j
BY LeastOf DEF FirstOf

LEMMA ListIs ==
  ASSUME NEW s, IsList(s)
  PROVE  Len(s) \in Nat /\ DOMAIN s = 1 .. Len(s) /\ s \in Seq({s[i] : i \in DOMAIN s})
BY DEF IsList

LEMMA AfterIs ==
  ASSUME NEW w, Typed(w), NEW d \in Ids(w)
  PROVE  /\ IsList(AfterOf(w, d))
         /\ \E i \in DOMAIN w.steps : w.steps[i].id = d /\ AfterOf(w, d) = w.steps[i].after
<1> DEFINE I == {i \in DOMAIN w.steps : w.steps[i].id = d}
<1>1. DOMAIN w.steps \subseteq Nat
  BY ListIs DEF Typed
<1>2. I # {} /\ I \subseteq Nat
  BY <1>1 DEF Ids
<1>3. FirstOf(I) \in I
  BY <1>2, FirstIs
<1> QED
  BY <1>3 DEF AfterOf, StepNamed, Typed

LEMMA BeforeIs ==
  ASSUME NEW w, Refers(w), NEW d \in Ids(w)
  PROVE  /\ Before(w, d) \subseteq Ids(w) /\ IsList(AfterOf(w, d))
         /\ \A k \in DOMAIN AfterOf(w, d) : AfterOf(w, d)[k] \in Before(w, d)
<1>1. PICK i \in DOMAIN w.steps : AfterOf(w, d) = w.steps[i].after
  BY AfterIs DEF Refers
<1>2. IsList(AfterOf(w, d))
  BY AfterIs DEF Refers
<1> QED
  BY <1>1, <1>2 DEF Before, Refers

LEMMA IdsFinite ==
  ASSUME NEW w, Typed(w)
  PROVE  /\ IsFiniteSet(Ids(w)) /\ Cardinality(Ids(w)) \in Nat
         /\ Cardinality(Ids(w)) <= Len(w.steps) /\ Len(w.steps) \in Nat
<1> DEFINE n == Len(w.steps)
           f == [i \in 1 .. n |-> w.steps[i].id]
<1>1. n \in Nat /\ DOMAIN w.steps = 1 .. n
  BY ListIs DEF Typed
<1>2. f \in Surjection(1 .. n, Ids(w))
  BY <1>1 DEF Ids, Surjection
<1>3. IsFiniteSet(1 .. n) /\ Cardinality(1 .. n) = n
  BY <1>1, FS_Interval
<1>4. IsFiniteSet(Ids(w)) /\ Cardinality(Ids(w)) <= n
  BY <1>2, <1>3, FS_Surjection
<1> QED
  BY <1>1, <1>4, FS_CardinalityType

-----------------------------------------------------------------------------
(* The states of the search for a cycle.                                   *)

SearchStep(w, s) == IF s.cycle # <<>> THEN s ELSE Visit(w, s)
Searches(w, n, f) == f = [k \in 0 .. n |-> IF k = 0 THEN Unvisited(w) ELSE SearchStep(w, f[k - 1])]
Search(w) == CHOOSE f : Searches(w, 2 * Len(w.steps), f)

LEMMA CycleIs ==
  ASSUME NEW w
  PROVE  Cycle(w) = Search(w)[2 * Len(w.steps)].cycle
BY DEF Cycle, Search, Searches, SearchStep

LEMMA SearchExists ==
  ASSUME NEW w, NEW n \in Nat
  PROVE  \E f : Searches(w, n, f)
<1> DEFINE T == {m \in Nat : ~ \E f : Searches(w, m, f)}
<1> SUFFICES ASSUME T # {} PROVE FALSE
  OBVIOUS
<1>1. PICK m \in T : \A k \in T : m <= k
  <2> HIDE DEF T
  <2>1. T \subseteq Nat
    BY DEF T
  <2> QED
    BY <2>1, LeastOf
<1>2. CASE m = 0
  <2>1. Searches(w, 0, [k \in 0 .. 0 |-> Unvisited(w)])
    BY DEF Searches
  <2> QED
    BY <1>2, <2>1
<1>3. CASE m # 0
  <2>1. m - 1 \in Nat /\ m - 1 \notin T
    BY <1>1, <1>3
  <2>2. PICK f : Searches(w, m - 1, f)
    BY <2>1
  <2> DEFINE g == [k \in 0 .. m |-> IF k = m THEN SearchStep(w, f[m - 1]) ELSE f[k]]
  <2>3. \A k \in 0 .. m - 1 : f[k] = IF k = 0 THEN Unvisited(w) ELSE SearchStep(w, f[k - 1])
    BY <2>1, <2>2 DEF Searches
  <2>4. ASSUME NEW k \in 0 .. m
        PROVE  g[k] = IF k = 0 THEN Unvisited(w) ELSE SearchStep(w, g[k - 1])
    <3>1. CASE k = m
      BY <1>3, <2>1, <3>1
    <3>2. CASE k # m
      <4>1. k \in 0 .. m - 1 /\ (k # 0 => k - 1 \in 0 .. m /\ k - 1 # m)
        BY <2>1, <3>2
      <4> QED
        BY <2>3, <3>2, <4>1
    <3> QED
      BY <3>1, <3>2
  <2>5. Searches(w, m, g)
    BY <2>4 DEF Searches
  <2> QED
    BY <2>5
<1> QED
  BY <1>2, <1>3

LEMMA SearchIs ==
  ASSUME NEW w, Typed(w)
  PROVE  /\ Search(w)[0] = Unvisited(w)
         /\ \A k \in 1 .. 2 * Len(w.steps) : Search(w)[k] = SearchStep(w, Search(w)[k - 1])
<1> DEFINE n == 2 * Len(w.steps)
<1>1. n \in Nat
  BY ListIs DEF Typed
<1>2. Searches(w, n, Search(w))
  BY <1>1, SearchExists DEF Search
<1>3. \A k \in 0 .. n : Search(w)[k] = IF k = 0 THEN Unvisited(w) ELSE SearchStep(w, Search(w)[k - 1])
  BY <1>2 DEF Searches
<1> QED
  BY <1>1, <1>3

(* The invariant of the search: the path is the steps it is visiting, each *)
(* coming after the next one; the steps it is done with come after steps   *)
(* it is done with, in some order.                                         *)
Marked(w, s, m) == {d \in Ids(w) : s.mark[d] = m}
SearchState(w) ==
    [mark : [Ids(w) -> {"unseen", "visiting", "done"}], path : Seq(Ids(w)), cycle : Seq(Ids(w))]
Chained(w, c) == \A i \in 1 .. Len(c) - 1 : c[i + 1] \in Before(w, c[i])
OnPath(w, s) ==
    /\ \A i \in DOMAIN s.path : s.mark[s.path[i]] = "visiting"
    /\ \A i, j \in DOMAIN s.path : s.path[i] = s.path[j] => i = j
    /\ \A d \in Ids(w) : s.mark[d] = "visiting" => \E i \in DOMAIN s.path : s.path[i] = d
    /\ Chained(w, s.path)
Ordered1(w, D) ==
    /\ \A d \in D : Before(w, d) \subseteq D
    /\ \A U \in SUBSET D : U # {} => \E d \in U : Before(w, d) \cap U = {}
IsCycle(w, c) == Len(c) > 1 /\ Chained(w, c) /\ c[1] = c[Len(c)]
SearchInv(w, s) ==
    /\ s \in SearchState(w) /\ OnPath(w, s) /\ Ordered1(w, Marked(w, s, "done"))
    /\ s.cycle # <<>> => IsCycle(w, s.cycle)

(* Each step of the search that finds no cycle makes this number one more. *)
Count(w, s) == 2 * Cardinality(Marked(w, s, "done")) + Cardinality(Marked(w, s, "visiting"))

LEMMA MarkedFinite ==
  ASSUME NEW w, Typed(w), NEW s, NEW m
  PROVE  IsFiniteSet(Marked(w, s, m)) /\ Cardinality(Marked(w, s, m)) \in Nat
<1>1. Marked(w, s, m) \in SUBSET Ids(w)
  BY DEF Marked
<1>2. IsFiniteSet(Marked(w, s, m))
  BY <1>1, IdsFinite, FS_Subset
<1> QED
  BY <1>2, FS_CardinalityType

LEMMA EnterKeeps ==
  ASSUME NEW w, Refers(w), NEW s, SearchInv(w, s), s.cycle = <<>>,
         NEW d \in Ids(w), s.mark[d] = "unseen", s.path # <<>> => d \in Before(w, Top(s.path))
  PROVE  /\ SearchInv(w, Enter(s, d)) /\ Enter(s, d).cycle = <<>>
         /\ Count(w, Enter(s, d)) = Count(w, s) + 1
<1> DEFINE z == Enter(s, d)
           n == Len(s.path)
<1>1. /\ s \in SearchState(w) /\ s.mark \in [Ids(w) -> {"unseen", "visiting", "done"}]
      /\ s.path \in Seq(Ids(w)) /\ n \in Nat
  BY DEF SearchInv, SearchState
<1>2. /\ z.mark = [s.mark EXCEPT ![d] = "visiting"] /\ z.path = Append(s.path, d)
      /\ z.cycle = <<>>
  BY <1>1 DEF Enter, SearchState
<1>0. z \in SearchState(w)
  <2>1. [s.mark EXCEPT ![d] = "visiting"] \in [Ids(w) -> {"unseen", "visiting", "done"}]
    BY <1>1
  <2>2. Append(s.path, d) \in Seq(Ids(w))
    BY <1>1
  <2> QED
    BY <1>1, <2>1, <2>2 DEF Enter, SearchState
<1>3. /\ Len(z.path) = n + 1 /\ z.path[n + 1] = d /\ \A i \in 1 .. n : z.path[i] = s.path[i]
      /\ DOMAIN z.path = 1 .. n + 1 /\ DOMAIN s.path = 1 .. n
      /\ \A i \in 1 .. n : s.path[i] \in Ids(w)
  BY <1>1, <1>2
<1>4. OnPath(w, s)
  BY DEF SearchInv
<1>5. \A i \in 1 .. n : s.path[i] # d
  BY <1>3, <1>4 DEF OnPath
<1>6. \A e \in Ids(w) : z.mark[e] = IF e = d THEN "visiting" ELSE s.mark[e]
  BY <1>1, <1>2
<1> HIDE DEF z, n
<1>7. OnPath(w, z)
  <2>1. \A i \in DOMAIN z.path : z.mark[z.path[i]] = "visiting"
    <3> SUFFICES ASSUME NEW i \in 1 .. n + 1 PROVE z.mark[z.path[i]] = "visiting"
      BY <1>3
    <3>1. CASE i = n + 1
      BY <1>3, <1>6, <3>1
    <3>2. CASE i # n + 1
      <4>1. i \in 1 .. n
        BY <1>1, <3>2
      <4> QED
        BY <1>3, <1>4, <1>6, <4>1 DEF OnPath
    <3> QED
      BY <3>1, <3>2
  <2>2. \A i, j \in DOMAIN z.path : z.path[i] = z.path[j] => i = j
    <3> SUFFICES ASSUME NEW i \in 1 .. n + 1, NEW j \in 1 .. n + 1, z.path[i] = z.path[j] PROVE i = j
      BY <1>3
    <3>1. i = n + 1 \/ i \in 1 .. n
      BY <1>1
    <3>2. j = n + 1 \/ j \in 1 .. n
      BY <1>1
    <3> QED
      BY <1>3, <1>4, <1>5, <3>1, <3>2 DEF OnPath
  <2>3. ASSUME NEW e \in Ids(w), z.mark[e] = "visiting" PROVE \E i \in DOMAIN z.path : z.path[i] = e
    <3>1. CASE e = d
      <4>1. n + 1 \in 1 .. n + 1
        BY <1>1
      <4> QED
        BY <1>3, <3>1, <4>1
    <3>2. CASE e # d
      <4>1. PICK i \in 1 .. n : s.path[i] = e
        BY <1>3, <1>4, <1>6, <2>3, <3>2 DEF OnPath
      <4>2. i \in 1 .. n + 1
        BY <1>1
      <4> QED
        BY <1>3, <4>1, <4>2
    <3> QED
      BY <3>1, <3>2
  <2>4. Chained(w, z.path)
    <3> SUFFICES ASSUME NEW i \in 1 .. n PROVE z.path[i + 1] \in Before(w, z.path[i])
      BY <1>1, <1>3 DEF Chained
    <3>1. CASE i = n
      <4>1. s.path # <<>>
        BY <1>1, <1>3, <3>1
      <4> QED
        BY <1>3, <3>1, <4>1 DEF Top, n
    <3>2. CASE i # n
      <4>1. i \in 1 .. n - 1 /\ i + 1 \in 1 .. n
        BY <1>1, <3>2
      <4> QED
        BY <1>3, <1>4, <4>1 DEF OnPath, Chained, n
    <3> QED
      BY <3>1, <3>2
  <2> QED
    BY <2>1, <2>2, <2>3, <2>4 DEF OnPath
<1>8. Marked(w, z, "done") = Marked(w, s, "done")
  BY <1>6 DEF Marked
<1>9. Marked(w, z, "visiting") = Marked(w, s, "visiting") \cup {d} /\ d \notin Marked(w, s, "visiting")
  BY <1>6 DEF Marked
<1>10. Cardinality(Marked(w, z, "visiting")) = Cardinality(Marked(w, s, "visiting")) + 1
  BY <1>9, MarkedFinite, FS_AddElement DEF Refers
<1>11. Count(w, z) = Count(w, s) + 1
  <2>1. Cardinality(Marked(w, s, "done")) \in Nat /\ Cardinality(Marked(w, s, "visiting")) \in Nat
    BY MarkedFinite DEF Refers
  <2> QED
    BY <1>8, <1>10, <2>1 DEF Count
<1>12. SearchInv(w, z)
  BY <1>0, <1>2, <1>7, <1>8 DEF SearchInv
<1> QED
  BY <1>2, <1>11, <1>12 DEF z

LEMMA LeavesKeeps ==
  ASSUME NEW w, Refers(w), NEW s, SearchInv(w, s), s.cycle = <<>>, s.path # <<>>,
         Before(w, Top(s.path)) \subseteq Marked(w, s, "done")
  PROVE  /\ SearchInv(w, Leaves(s)) /\ Leaves(s).cycle = <<>>
         /\ Count(w, Leaves(s)) = Count(w, s) + 1
<1> DEFINE z == Leaves(s)
           n == Len(s.path)
           d == Top(s.path)
           D == Marked(w, s, "done")
<1>1. /\ s \in SearchState(w) /\ s.mark \in [Ids(w) -> {"unseen", "visiting", "done"}]
      /\ s.path \in Seq(Ids(w)) /\ n \in Nat /\ n # 0
  BY DEF SearchInv, SearchState
<1>2. /\ z.mark = [s.mark EXCEPT ![d] = "done"] /\ z.path = SubSeq(s.path, 1, n - 1)
      /\ z.cycle = <<>>
  BY <1>1 DEF Leaves, SearchState, Popped
<1>3. /\ Len(z.path) = n - 1 /\ \A i \in 1 .. n - 1 : z.path[i] = s.path[i]
      /\ DOMAIN z.path = 1 .. n - 1 /\ DOMAIN s.path = 1 .. n
      /\ d = s.path[n] /\ \A i \in 1 .. n : s.path[i] \in Ids(w)
      /\ z.path \in Seq(Ids(w))
  BY <1>1, <1>2 DEF Top
<1>0. z \in SearchState(w)
  BY <1>1, <1>2, <1>3 DEF Leaves, SearchState
<1>4. OnPath(w, s)
  BY DEF SearchInv
<1>5. d \in Ids(w) /\ s.mark[d] = "visiting" /\ \A i \in 1 .. n - 1 : s.path[i] # d
  <2>1. n \in 1 .. n /\ \A i \in 1 .. n - 1 : i \in 1 .. n /\ i # n
    BY <1>1
  <2>2. d = s.path[n] /\ DOMAIN s.path = 1 .. n /\ d \in Ids(w)
    BY <1>3, <2>1
  <2> HIDE DEF d, n
  <2>3. s.mark[d] = "visiting"
    BY <1>4, <2>1, <2>2 DEF OnPath
  <2>4. ASSUME NEW i \in 1 .. n - 1 PROVE s.path[i] # d
    BY <1>4, <2>1, <2>2 DEF OnPath
  <2> QED
    BY <2>2, <2>3, <2>4
<1>6. \A e \in Ids(w) : z.mark[e] = IF e = d THEN "done" ELSE s.mark[e]
  BY <1>1, <1>2
<1> HIDE DEF z, n, d
<1>7. OnPath(w, z)
  <2>0. \A i \in 1 .. n - 1 : i \in 1 .. n
    BY <1>1
  <2>1. \A i \in DOMAIN z.path : z.mark[z.path[i]] = "visiting"
    BY <1>3, <1>4, <1>5, <1>6, <2>0 DEF OnPath
  <2>2. \A i, j \in DOMAIN z.path : z.path[i] = z.path[j] => i = j
    BY <1>3, <1>4, <2>0 DEF OnPath
  <2>3. ASSUME NEW e \in Ids(w), z.mark[e] = "visiting" PROVE \E i \in DOMAIN z.path : z.path[i] = e
    <3>1. e # d /\ s.mark[e] = "visiting"
      BY <1>6, <2>3
    <3>2. PICK i \in 1 .. n : s.path[i] = e
      BY <1>3, <1>4, <3>1 DEF OnPath
    <3>3. i \in 1 .. n - 1
      BY <1>1, <1>3, <3>1, <3>2
    <3> QED
      BY <1>3, <3>2, <3>3
  <2>4. Chained(w, z.path)
    <3> SUFFICES ASSUME NEW i \in 1 .. n - 2 PROVE z.path[i + 1] \in Before(w, z.path[i])
      BY <1>1, <1>3 DEF Chained
    <3>1. i \in 1 .. n - 1 /\ i + 1 \in 1 .. n - 1
      BY <1>1
    <3> QED
      BY <1>3, <1>4, <3>1 DEF OnPath, Chained, n
  <2> QED
    BY <2>1, <2>2, <2>3, <2>4 DEF OnPath
<1>8. Marked(w, z, "done") = D \cup {d} /\ d \notin D
  BY <1>5, <1>6 DEF Marked
<1>9. Marked(w, z, "visiting") = Marked(w, s, "visiting") \ {d} /\ d \in Marked(w, s, "visiting")
  BY <1>5, <1>6 DEF Marked
<1>10. Count(w, z) = Count(w, s) + 1
  <2>1. /\ IsFiniteSet(D) /\ Cardinality(D) \in Nat
        /\ IsFiniteSet(Marked(w, s, "visiting")) /\ Cardinality(Marked(w, s, "visiting")) \in Nat
    BY MarkedFinite DEF Refers
  <2>2. Cardinality(D \cup {d}) = Cardinality(D) + 1
    BY <1>8, <2>1, FS_AddElement
  <2>3. Cardinality(Marked(w, s, "visiting") \ {d}) = Cardinality(Marked(w, s, "visiting")) - 1
    BY <1>9, <2>1, FS_RemoveElement
  <2>4. Count(w, z) = 2 * (Cardinality(D) + 1) + (Cardinality(Marked(w, s, "visiting")) - 1)
    BY <1>8, <1>9, <2>2, <2>3 DEF Count
  <2> QED
    BY <2>1, <2>4 DEF Count
<1>11. Ordered1(w, D \cup {d})
  <2>0. Ordered1(w, D) /\ Before(w, d) \subseteq D
    BY DEF SearchInv, d
  <2>1. \A e \in D \cup {d} : Before(w, e) \subseteq D \cup {d}
    BY <2>0 DEF Ordered1
  <2>2. ASSUME NEW U \in SUBSET (D \cup {d}), U # {} PROVE \E e \in U : Before(w, e) \cap U = {}
    <3>1. CASE U \cap D = {}
      BY <1>8, <2>0, <2>2, <3>1
    <3>2. CASE U \cap D # {}
      <4>1. PICK e \in U \cap D : Before(w, e) \cap (U \cap D) = {}
        BY <2>0, <3>2 DEF Ordered1
      <4> QED
        BY <2>0, <4>1 DEF Ordered1
    <3> QED
      BY <3>1, <3>2
  <2> QED
    BY <2>1, <2>2 DEF Ordered1
<1>12. SearchInv(w, z)
  BY <1>0, <1>2, <1>7, <1>8, <1>11 DEF SearchInv
<1> QED
  BY <1>2, <1>10, <1>12 DEF z

LEMMA ClosesKeeps ==
  ASSUME NEW w, Refers(w), NEW s, SearchInv(w, s), s.cycle = <<>>, s.path # <<>>,
         NEW d \in Before(w, Top(s.path)), s.mark[d] = "visiting", d \in Ids(w)
  PROVE  SearchInv(w, Closes(s, d)) /\ Closes(s, d).cycle # <<>>
<1> DEFINE n == Len(s.path)
           i == CHOOSE i \in DOMAIN s.path : s.path[i] = d
           c == Append(SubSeq(s.path, i, n), d)
           z == Closes(s, d)
<1>1. /\ s \in SearchState(w) /\ s.path \in Seq(Ids(w)) /\ n \in Nat /\ n # 0 /\ DOMAIN s.path = 1 .. n
  BY DEF SearchInv, SearchState
<1>2. OnPath(w, s)
  BY DEF SearchInv
<1>3. i \in 1 .. n /\ s.path[i] = d
  BY <1>1, <1>2 DEF OnPath
<1>4. z = [s EXCEPT !.cycle = c]
  BY DEF Closes
<1> HIDE DEF i, z, n
<1>5. /\ SubSeq(s.path, i, n) \in Seq(Ids(w)) /\ Len(SubSeq(s.path, i, n)) = n - i + 1
      /\ \A k \in 1 .. n - i + 1 : SubSeq(s.path, i, n)[k] = s.path[i + k - 1]
  BY <1>1, <1>3 DEF n
<1> DEFINE p == SubSeq(s.path, i, n)
<1>6. /\ c \in Seq(Ids(w)) /\ Len(c) = n - i + 2 /\ c[n - i + 2] = d
      /\ \A k \in 1 .. n - i + 1 : c[k] = s.path[i + k - 1]
  <2> HIDE DEF p
  <2>1. p \in Seq(Ids(w)) /\ Len(p) = n - i + 1 /\ n - i + 1 \in Nat
    BY <1>1, <1>3, <1>5 DEF p
  <2>2. /\ Append(p, d) \in Seq(Ids(w)) /\ Len(Append(p, d)) = n - i + 2 /\ Append(p, d)[n - i + 2] = d
        /\ \A k \in 1 .. n - i + 1 : Append(p, d)[k] = p[k]
    BY <1>1, <1>3, <2>1
  <2> QED
    BY <1>5, <2>2 DEF p
<1> HIDE DEF p, c
<1>7. IsCycle(w, c)
  <2>1. Len(c) > 1 /\ c[1] = d /\ c[Len(c)] = d
    <3>1. 1 \in 1 .. n - i + 1 /\ i + 1 - 1 = i
      BY <1>1, <1>3
    <3> QED
      BY <1>1, <1>3, <1>6, <3>1
  <2>2. ASSUME NEW k \in 1 .. Len(c) - 1 PROVE c[k + 1] \in Before(w, c[k])
    <3>1. CASE k = n - i + 1
      <4>1. c[k] = s.path[n] /\ c[k + 1] = d
        BY <1>1, <1>3, <1>6, <3>1
      <4> QED
        BY <4>1 DEF Top, n
    <3>2. CASE k # n - i + 1
      <4>0. k \in Nat /\ k >= 1 /\ k <= n - i /\ i \in Nat /\ i >= 1
        BY <1>1, <1>3, <1>6, <3>2
      <4>1. k \in 1 .. n - i + 1 /\ k + 1 \in 1 .. n - i + 1 /\ i + k - 1 \in 1 .. n - 1
            /\ i + (k + 1) - 1 = (i + k - 1) + 1
        BY <1>1, <4>0
      <4>2. c[k] = s.path[i + k - 1] /\ c[k + 1] = s.path[(i + k - 1) + 1]
        BY <1>6, <4>1
      <4> QED
        BY <1>2, <4>1, <4>2 DEF OnPath, Chained, n
    <3> QED
      BY <3>1, <3>2
  <2> QED
    BY <2>1, <2>2 DEF IsCycle, Chained
<1>8. /\ z.mark = s.mark /\ z.path = s.path /\ z.cycle = c /\ z \in SearchState(w)
  BY <1>1, <1>4, <1>6 DEF SearchState
<1>9. c # <<>>
  BY <1>1, <1>3, <1>6
<1>10. OnPath(w, z) /\ Marked(w, z, "done") = Marked(w, s, "done")
  BY <1>2, <1>8 DEF OnPath, Marked
<1> QED
  BY <1>7, <1>8, <1>9, <1>10 DEF SearchInv, z

(* What a step of the search does.                                         *)
LEMMA VisitKeeps ==
  ASSUME NEW w, Refers(w), NEW s, SearchInv(w, s), s.cycle = <<>>
  PROVE  /\ SearchInv(w, Visit(w, s))
         /\ \/ Visit(w, s).cycle # <<>>
            \/ Visit(w, s).cycle = <<>> /\ Count(w, Visit(w, s)) = Count(w, s) + 1
            \/ Visit(w, s) = s /\ Marked(w, s, "done") = Ids(w)
<1>1. /\ s.mark \in [Ids(w) -> {"unseen", "visiting", "done"}] /\ s.path \in Seq(Ids(w))
      /\ OnPath(w, s)
  BY DEF SearchInv, SearchState
<1>2. CASE s.path = <<>> /\ Roots(w, s) = {}
  <2>1. Visit(w, s) = s
    BY <1>2 DEF Visit
  <2>2. \A d \in Ids(w) : s.mark[d] # "visiting"
    BY <1>1, <1>2 DEF OnPath
  <2>3. \A d \in Ids(w) : s.mark[d] # "unseen"
    BY <1>2 DEF Roots, Ids
  <2>4. Marked(w, s, "done") = Ids(w)
    BY <1>1, <2>2, <2>3 DEF Marked
  <2> QED
    BY <2>1, <2>4
<1>3. CASE s.path = <<>> /\ Roots(w, s) # {}
  <2> DEFINE i == FirstOf(Roots(w, s))
  <2>0. IsList(w.steps)
    BY DEF Refers, Typed
  <2>1. Roots(w, s) \in SUBSET Nat
    <3>1. Len(w.steps) \in Nat /\ DOMAIN w.steps = 1 .. Len(w.steps)
      BY <2>0, ListIs
    <3> QED
      BY <3>1 DEF Roots
  <2>2. i \in Roots(w, s)
    BY <1>3, <2>1, FirstIs
  <2>3. w.steps[i].id \in Ids(w) /\ s.mark[w.steps[i].id] = "unseen"
    BY <2>2 DEF Roots, Ids
  <2>4. Visit(w, s) = Enter(s, w.steps[i].id)
    BY <1>3 DEF Visit
  <2> HIDE DEF i
  <2> QED
    BY <1>3, <2>3, <2>4, EnterKeeps
<1>4. CASE s.path # <<>>
  <2> DEFINE t == Top(s.path)
             after == AfterOf(w, t)
             left == Left(s, after)
             d == after[FirstOf(left)]
  <2>1. t \in Ids(w)
    BY <1>1, <1>4 DEF Top
  <2>2. /\ Before(w, t) \subseteq Ids(w) /\ IsList(after)
        /\ \A k \in DOMAIN after : after[k] \in Before(w, t)
    BY <2>1, BeforeIs
  <2>3. CASE left = {}
    <3>1. Visit(w, s) = Leaves(s)
      BY <1>4, <2>3 DEF Visit
    <3>2. Before(w, t) \subseteq Marked(w, s, "done")
      BY <2>2, <2>3 DEF Left, Before, Marked
    <3> QED
      BY <1>4, <3>1, <3>2, LeavesKeeps
  <2>4. CASE left # {}
    <3>1. left \in SUBSET Nat
      BY <2>2, ListIs DEF Left
    <3>2. FirstOf(left) \in left
      BY <2>4, <3>1, FirstIs
    <3>3. d \in Before(w, t) /\ d \in Ids(w) /\ s.mark[d] # "done"
      BY <2>2, <3>2 DEF Left
    <3>4. Visit(w, s) = IF s.mark[d] = "visiting" THEN Closes(s, d) ELSE Enter(s, d)
      BY <1>4, <2>4 DEF Visit
    <3> HIDE DEF d, left, after
    <3>5. CASE s.mark[d] = "visiting"
      BY <1>4, <3>3, <3>4, <3>5, ClosesKeeps
    <3>6. CASE s.mark[d] = "unseen"
      BY <1>4, <3>3, <3>4, <3>6, EnterKeeps
    <3> QED
      BY <1>1, <3>3, <3>5, <3>6
  <2> QED
    BY <2>3, <2>4
<1> QED
  BY <1>2, <1>3, <1>4

(* Every state of the search has the invariant, and one without a cycle is *)
(* as far as the number of its step, or done with every step.              *)
Searched(w, k) ==
    LET s == Search(w)[k] IN
    /\ SearchInv(w, s)
    /\ s.cycle = <<>> => Count(w, s) = k \/ Marked(w, s, "done") = Ids(w)

LEMMA SearchStarts ==
  ASSUME NEW w, Refers(w)
  PROVE  Searched(w, 0)
<1> DEFINE s == Unvisited(w)
<1>1. s.mark = [d \in Ids(w) |-> "unseen"] /\ s.path = <<>> /\ s.cycle = <<>>
  BY DEF Unvisited
<1>2. s \in SearchState(w)
  BY DEF Unvisited, SearchState
<1>3. \A m \in {"visiting", "done"} : Marked(w, s, m) = {}
  BY <1>1 DEF Marked
<1> HIDE DEF s
<1>4. OnPath(w, s)
  BY <1>1 DEF OnPath, Chained
<1>5. Ordered1(w, {})
  BY DEF Ordered1
<1>6. SearchInv(w, s)
  BY <1>1, <1>2, <1>3, <1>4, <1>5 DEF SearchInv
<1>7. Count(w, s) = 0
  BY <1>3, FS_EmptySet DEF Count
<1> QED
  BY <1>6, <1>7, SearchIs DEF Searched, Refers, s

LEMMA SearchGoes ==
  ASSUME NEW w, Refers(w), NEW k \in 1 .. 2 * Len(w.steps), Searched(w, k - 1)
  PROVE  Searched(w, k)
<1> DEFINE s == Search(w)[k - 1]
<1>1. Search(w)[k] = SearchStep(w, s) /\ Len(w.steps) \in Nat
  BY SearchIs, ListIs DEF Refers, Typed
<1>2. SearchInv(w, s) /\ (s.cycle = <<>> => Count(w, s) = k - 1 \/ Marked(w, s, "done") = Ids(w))
  BY DEF Searched
<1> HIDE DEF s
<1>3. CASE s.cycle # <<>>
  BY <1>1, <1>2, <1>3 DEF SearchStep, Searched
<1>4. CASE s.cycle = <<>>
  <2>1. Search(w)[k] = Visit(w, s)
    BY <1>1, <1>4 DEF SearchStep
  <2>2. SearchInv(w, Visit(w, s))
    BY <1>2, <1>4, VisitKeeps
  <2>3. CASE Marked(w, s, "done") = Ids(w)
    <3>1. \A d \in Ids(w) : s.mark[d] = "done"
      BY <2>3 DEF Marked
    <3>2. s.path = <<>>
      <4>1. s.path \in Seq(Ids(w)) /\ \A i \in DOMAIN s.path : s.mark[s.path[i]] = "visiting"
        BY <1>2 DEF SearchInv, SearchState, OnPath
      <4> QED
        BY <3>1, <4>1
    <3>3. Visit(w, s) = s
      BY <3>1, <3>2 DEF Visit, Roots, Ids
    <3> QED
      BY <2>1, <2>2, <2>3, <3>3 DEF Searched
  <2>4. CASE Count(w, s) = k - 1
    BY <1>1, <1>2, <1>4, <2>1, <2>4, VisitKeeps DEF Searched
  <2> QED
    BY <1>2, <1>4, <2>3, <2>4
<1> QED
  BY <1>3, <1>4

LEMMA SearchHolds ==
  ASSUME NEW w, Refers(w)
  PROVE  Searched(w, 2 * Len(w.steps))
<1> DEFINE n == 2 * Len(w.steps)
           T == {k \in 0 .. n : ~Searched(w, k)}
<1>1. n \in Nat
  BY ListIs DEF Refers, Typed
<1>2. SUFFICES ASSUME T # {} PROVE FALSE
  BY <1>1
<1>3. PICK k \in T : \A j \in T : k <= j
  <2> HIDE DEF T
  <2>1. T \subseteq Nat
    BY DEF T
  <2> QED
    BY <1>2, <2>1, LeastOf
<1>4. k # 0
  BY <1>3, SearchStarts
<1>5. k - 1 \in 0 .. n /\ k \in 1 .. n
  BY <1>1, <1>3, <1>4
<1>6. Searched(w, k - 1)
  BY <1>3, <1>5
<1> QED
  BY <1>3, <1>5, <1>6, SearchGoes

LEMMA CycleOrOrder ==
  ASSUME NEW w, Refers(w)
  PROVE  IF Cycle(w) = <<>> THEN InOrder(w) ELSE Cycle(w) \in Seq(Ids(w)) /\ IsCycle(w, Cycle(w))
<1> DEFINE n == 2 * Len(w.steps)
           s == Search(w)[n]
           D == Marked(w, s, "done")
           V == Marked(w, s, "visiting")
<1>1. Searched(w, n) /\ Cycle(w) = s.cycle
  BY SearchHolds, CycleIs
<1>2. SearchInv(w, s)
  BY <1>1 DEF Searched
<1>3. CASE s.cycle # <<>>
  BY <1>1, <1>2, <1>3 DEF SearchInv, SearchState
<1>4. CASE s.cycle = <<>>
  <2>1. Count(w, s) = n \/ D = Ids(w)
    BY <1>1, <1>4 DEF Searched
  <2>2. ASSUME Count(w, s) = n PROVE D = Ids(w)
    <3>1. /\ IsFiniteSet(Ids(w)) /\ Cardinality(Ids(w)) \in Nat /\ Len(w.steps) \in Nat
          /\ Cardinality(Ids(w)) <= Len(w.steps)
      BY IdsFinite DEF Refers
    <3>2. /\ IsFiniteSet(D) /\ Cardinality(D) \in Nat /\ IsFiniteSet(V) /\ Cardinality(V) \in Nat
      BY MarkedFinite DEF Refers
    <3>3. D \cup V \in SUBSET Ids(w) /\ D \in SUBSET Ids(w) /\ D \cap V = {}
      BY DEF Marked
    <3>4. 2 * Cardinality(D) + Cardinality(V) = n
      BY <2>2 DEF Count
    <3> HIDE DEF D, V
    <3>5. Cardinality(D \cup V) = Cardinality(D) + Cardinality(V)
      <4>1. Cardinality(D \cap V) = 0
        BY <3>3, FS_EmptySet
      <4>2. Cardinality(D \cup V) = Cardinality(D) + Cardinality(V) - Cardinality(D \cap V)
        BY <3>2, FS_Union
      <4> QED
        BY <3>2, <4>1, <4>2
    <3>6. Cardinality(D \cup V) <= Cardinality(Ids(w)) /\ Cardinality(D) <= Cardinality(Ids(w))
      BY <3>1, <3>3, FS_Subset
    <3>7. Cardinality(D) = Cardinality(Ids(w))
      BY <3>1, <3>2, <3>4, <3>5, <3>6
    <3> QED
      BY <3>1, <3>3, <3>7, FS_Subset
  <2>3. Ordered1(w, Ids(w))
    BY <1>2, <2>1, <2>2 DEF SearchInv
  <2> QED
    BY <1>1, <1>4, <2>3 DEF Ordered1, InOrder
<1> QED
  BY <1>3, <1>4

(* The steps of a cycle come after each other. *)
LEMMA CycleIsNoOrder ==
  ASSUME NEW w, NEW c \in Seq(Ids(w)), IsCycle(w, c)
  PROVE  ~InOrder(w)
<1> DEFINE n == Len(c)
           U == {c[i] : i \in 1 .. n - 1}
<1>1. n \in Nat /\ n > 1 /\ DOMAIN c = 1 .. n /\ \A i \in 1 .. n : c[i] \in Ids(w)
  BY DEF IsCycle
<1>2. 1 \in 1 .. n - 1 /\ \A i \in 1 .. n - 1 : i \in 1 .. n /\ i + 1 \in 1 .. n
  BY <1>1
<1>3. U \in SUBSET Ids(w) /\ c[1] \in U
  BY <1>1, <1>2
<1>4. ASSUME NEW d \in U PROVE Before(w, d) \cap U # {}
  <2>1. PICK i \in 1 .. n - 1 : d = c[i]
    OBVIOUS
  <2>2. c[i + 1] \in Before(w, d)
    BY <2>1 DEF IsCycle, Chained
  <2>3. c[i + 1] \in U
    <3>1. CASE i + 1 = n
      BY <1>3, <3>1 DEF IsCycle
    <3>2. CASE i + 1 # n
      <4>1. \A m \in Nat : i \in 1 .. m - 1 /\ i + 1 # m => i + 1 \in 1 .. m - 1
        OBVIOUS
      <4>2. i + 1 \in 1 .. n - 1
        BY <1>1, <3>2, <4>1
      <4> QED
        BY <4>2
    <3> QED
      BY <3>1, <3>2
  <2> QED
    BY <2>2, <2>3
<1> HIDE DEF U
<1> QED
  BY <1>3, <1>4 DEF InOrder

-----------------------------------------------------------------------------
(* The states of the loop of Ancestors.                                    *)

GatherStep(w, s) == IF s.path = <<>> THEN s ELSE Gather(w, s)
Gathers(w, d, n, f) ==
    f = [k \in 0 .. n |-> IF k = 0 THEN [seen |-> {}, path |-> <<d>>] ELSE GatherStep(w, f[k - 1])]
Gathered(w, d) == CHOOSE f : Gathers(w, d, 2 * Len(w.steps) + 1, f)

LEMMA AncestorsIs ==
  ASSUME NEW w, NEW d
  PROVE  Ancestors(w, d) = Ids(w) \cap Gathered(w, d)[2 * Len(w.steps) + 1].seen
BY DEF Ancestors, Gathered, Gathers, GatherStep

LEMMA GatheredExists ==
  ASSUME NEW w, NEW d, NEW n \in Nat
  PROVE  \E f : Gathers(w, d, n, f)
<1> DEFINE T == {m \in Nat : ~ \E f : Gathers(w, d, m, f)}
           s0 == [seen |-> {}, path |-> <<d>>]
<1> SUFFICES ASSUME T # {} PROVE FALSE
  OBVIOUS
<1>1. PICK m \in T : \A k \in T : m <= k
  <2> HIDE DEF T
  <2>1. T \subseteq Nat
    BY DEF T
  <2> QED
    BY <2>1, LeastOf
<1>2. CASE m = 0
  <2>1. Gathers(w, d, 0, [k \in 0 .. 0 |-> s0])
    BY DEF Gathers
  <2> QED
    BY <1>2, <2>1
<1>3. CASE m # 0
  <2>1. m - 1 \in Nat /\ m - 1 \notin T
    BY <1>1, <1>3
  <2>2. PICK f : Gathers(w, d, m - 1, f)
    BY <2>1
  <2> DEFINE g == [k \in 0 .. m |-> IF k = m THEN GatherStep(w, f[m - 1]) ELSE f[k]]
  <2>3. \A k \in 0 .. m - 1 : f[k] = IF k = 0 THEN s0 ELSE GatherStep(w, f[k - 1])
    BY <2>1, <2>2 DEF Gathers
  <2>4. ASSUME NEW k \in 0 .. m
        PROVE  g[k] = IF k = 0 THEN s0 ELSE GatherStep(w, g[k - 1])
    <3> HIDE DEF s0
    <3>1. CASE k = m
      BY <1>3, <2>1, <3>1
    <3>2. CASE k # m
      <4>1. k \in 0 .. m - 1 /\ (k # 0 => k - 1 \in 0 .. m /\ k - 1 # m)
        BY <2>1, <3>2
      <4> QED
        BY <2>3, <3>2, <4>1
    <3> QED
      BY <3>1, <3>2
  <2>5. Gathers(w, d, m, g)
    BY <2>4 DEF Gathers
  <2> QED
    BY <2>5
<1> QED
  BY <1>2, <1>3

LEMMA GatheredIs ==
  ASSUME NEW w, Typed(w), NEW d
  PROVE  /\ Gathered(w, d)[0] = [seen |-> {}, path |-> <<d>>]
         /\ \A k \in 1 .. 2 * Len(w.steps) + 1 :
              Gathered(w, d)[k] = GatherStep(w, Gathered(w, d)[k - 1])
<1> DEFINE n == 2 * Len(w.steps) + 1
           s0 == [seen |-> {}, path |-> <<d>>]
<1>1. n \in Nat
  BY ListIs DEF Typed
<1>2. Gathers(w, d, n, Gathered(w, d))
  BY <1>1, GatheredExists DEF Gathered
<1>3. \A k \in 0 .. n : Gathered(w, d)[k] = IF k = 0 THEN s0 ELSE GatherStep(w, Gathered(w, d)[k - 1])
  BY <1>2 DEF Gathers
<1> HIDE DEF s0
<1>4. Gathered(w, d)[0] = s0 /\ \A k \in 1 .. n : Gathered(w, d)[k] = GatherStep(w, Gathered(w, d)[k - 1])
  BY <1>1, <1>3
<1> QED
  BY <1>4 DEF s0

(* The invariant of the loop: what is seen is in every set that d needs,   *)
(* and what a step comes after is seen but for those on the path.          *)
GatherInv(w, d, s) ==
    /\ s \in [seen : SUBSET Ids(w), path : Seq(Ids(w))]
    /\ \A e \in s.seen \cup {d} : Before(w, e) \subseteq s.seen \/ \E i \in DOMAIN s.path : s.path[i] = e
    /\ \A i \in DOMAIN s.path : s.path[i] \in s.seen \cup {d}
    /\ \A U \in SUBSET Ids(w) : Before(w, d) \subseteq U /\ SelfContained(w, U) => s.seen \subseteq U
GatherCount(s, k) == s.path # <<>> => k + Len(s.path) = 2 * Cardinality(s.seen) + 1

LEMMA GatherKeeps ==
  ASSUME NEW w, Refers(w), NEW d \in Ids(w), NEW s, GatherInv(w, d, s), s.path # <<>>,
         NEW k \in Nat, GatherCount(s, k)
  PROVE  GatherInv(w, d, Gather(w, s)) /\ GatherCount(Gather(w, s), k + 1)
<1> DEFINE n == Len(s.path)
           t == Top(s.path)
           after == AfterOf(w, t)
           new == {i \in DOMAIN after : after[i] \notin s.seen}
           e == after[FirstOf(new)]
<1>1. /\ s \in [seen : SUBSET Ids(w), path : Seq(Ids(w))] /\ s.seen \in SUBSET Ids(w)
      /\ s.path \in Seq(Ids(w)) /\ n \in Nat /\ n > 0 /\ DOMAIN s.path = 1 .. n
  BY DEF GatherInv
<1>2. n \in 1 .. n /\ t = s.path[n] /\ t \in Ids(w) /\ t \in s.seen \cup {d}
  BY <1>1 DEF Top, GatherInv
<1>3. /\ Before(w, t) \subseteq Ids(w) /\ IsList(after)
      /\ \A i \in DOMAIN after : after[i] \in Before(w, t)
  BY <1>2, BeforeIs
<1>4. Before(w, t) = {after[i] : i \in DOMAIN after}
  BY DEF Before
<1>5. IsFiniteSet(s.seen) /\ Cardinality(s.seen) \in Nat
  BY <1>1, IdsFinite, FS_Subset, FS_CardinalityType DEF Refers
<1>6. k + n = 2 * Cardinality(s.seen) + 1
  BY DEF GatherCount
<1>7. CASE new = {}
  <2> DEFINE z == [s EXCEPT !.path = Popped(s.path)]
  <2>1. Gather(w, s) = z
    BY <1>7 DEF Gather
  <2>2. /\ Popped(s.path) \in Seq(Ids(w)) /\ Len(Popped(s.path)) = n - 1
        /\ DOMAIN Popped(s.path) = 1 .. n - 1
        /\ \A i \in 1 .. n - 1 : Popped(s.path)[i] = s.path[i]
    <3>1. \A m \in Nat : m > 0 => \A i \in 1 .. m - 1 : i \in 1 .. m
      OBVIOUS
    <3>2. Popped(s.path) = SubSeq(s.path, 1, n - 1) /\ n - 1 \in Nat
      BY <1>1 DEF Popped
    <3>3. \A i \in 1 .. n - 1 : s.path[i] \in Ids(w)
      BY <1>1, <3>1
    <3>4. \A m \in Nat : m < n => Len(SubSeq(s.path, 1, m)) = m /\ DOMAIN SubSeq(s.path, 1, m) = 1 .. m
      BY <1>1
    <3>5. \A m \in Nat : m < n => \A i \in 1 .. m : SubSeq(s.path, 1, m)[i] = s.path[i]
      BY <1>1
    <3>6. \A m \in Nat : m < n => SubSeq(s.path, 1, m) \in Seq(Ids(w))
      BY <1>1
    <3>7. n - 1 < n
      BY <1>1
    <3> HIDE DEF n
    <3> QED
      BY <3>2, <3>4, <3>5, <3>6, <3>7
  <2>3. z.seen = s.seen /\ z.path = Popped(s.path) /\ z \in [seen : SUBSET Ids(w), path : Seq(Ids(w))]
    BY <1>1, <2>2
  <2>4. Before(w, t) \subseteq s.seen
    BY <1>4, <1>7
  <2> HIDE DEF z, n, t
  <2>5. ASSUME NEW f \in s.seen \cup {d}
        PROVE  Before(w, f) \subseteq s.seen \/ \E i \in 1 .. n - 1 : s.path[i] = f
    <3>1. CASE f = t
      BY <2>4, <3>1
    <3>2. CASE f # t /\ \E i \in 1 .. n : s.path[i] = f
      BY <1>1, <1>2, <3>2
    <3> QED
      BY <1>1, <3>1, <3>2 DEF GatherInv
  <2>6. \A i \in 1 .. n - 1 : i \in 1 .. n
    BY <1>1
  <2>7. GatherInv(w, d, z)
    BY <1>1, <2>2, <2>3, <2>5, <2>6 DEF GatherInv
  <2>8. GatherCount(z, k + 1)
    <3>1. Len(z.path) = n - 1 /\ z.seen = s.seen
      BY <2>2, <2>3
    <3>2. (k + 1) + (n - 1) = 2 * Cardinality(s.seen) + 1
      BY <1>1, <1>6
    <3> QED
      BY <3>1, <3>2 DEF GatherCount
  <2> QED
    BY <2>1, <2>7, <2>8
<1>8. CASE new # {}
  <2> DEFINE z == [seen |-> s.seen \cup {e}, path |-> Append(s.path, e)]
  <2>1. Gather(w, s) = z
    BY <1>8 DEF Gather
  <2>2. e \in Before(w, t) /\ e \in Ids(w) /\ e \notin s.seen
    <3>1. DOMAIN after \subseteq Nat
      <4>1. IsList(after)
        BY <1>3
      <4> HIDE DEF after
      <4> QED
        BY <4>1, ListIs
    <3>2. new \in SUBSET Nat
      <4> HIDE DEF after
      <4> QED
        BY <3>1
    <3>3. FirstOf(new) \in new
      <4> HIDE DEF new
      <4> QED
        BY <1>8, <3>2, FirstIs
    <3>4. FirstOf(new) \in DOMAIN after /\ e \notin s.seen
      BY <3>3
    <3> QED
      BY <1>3, <3>4
  <2> HIDE DEF e, n, t, new, after
  <2>3. /\ Append(s.path, e) \in Seq(Ids(w)) /\ Len(Append(s.path, e)) = n + 1
        /\ DOMAIN Append(s.path, e) = 1 .. n + 1 /\ Append(s.path, e)[n + 1] = e
        /\ \A i \in 1 .. n : Append(s.path, e)[i] = s.path[i]
    BY <1>1, <2>2 DEF n
  <2>4. /\ z.seen = s.seen \cup {e} /\ z.path = Append(s.path, e)
        /\ z \in [seen : SUBSET Ids(w), path : Seq(Ids(w))]
    BY <1>1, <2>2, <2>3
  <2> HIDE DEF z
  <2>5. \A i \in 1 .. n : i \in 1 .. n + 1
    BY <1>1
  <2>6. n + 1 \in 1 .. n + 1
    BY <1>1
  <2>7. ASSUME NEW f \in z.seen \cup {d}
        PROVE  Before(w, f) \subseteq z.seen \/ \E i \in DOMAIN z.path : z.path[i] = f
    <3>1. CASE f = e
      BY <2>3, <2>4, <2>6, <3>1
    <3>2. CASE f # e
      <4>1. f \in s.seen \cup {d}
        BY <2>4, <3>2
      <4>2. Before(w, f) \subseteq s.seen \/ \E i \in 1 .. n : s.path[i] = f
        BY <1>1, <4>1 DEF GatherInv
      <4> QED
        BY <2>3, <2>4, <2>5, <4>2
    <3> QED
      BY <3>1, <3>2
  <2>8. ASSUME NEW i \in DOMAIN z.path PROVE z.path[i] \in z.seen \cup {d}
    <3>1. i = n + 1 \/ i \in 1 .. n
      BY <1>1, <2>3, <2>4
    <3>2. ASSUME i \in 1 .. n PROVE s.path[i] \in s.seen \cup {d}
      BY <1>1, <3>2 DEF GatherInv
    <3> QED
      BY <2>3, <2>4, <3>1, <3>2
  <2>9. ASSUME NEW U \in SUBSET Ids(w), Before(w, d) \subseteq U, SelfContained(w, U)
        PROVE  z.seen \subseteq U
    <3>1. s.seen \subseteq U
      BY <2>9 DEF GatherInv
    <3>2. Before(w, t) \subseteq U
      BY <1>2, <2>9, <3>1 DEF SelfContained
    <3> QED
      BY <2>2, <2>4, <3>1, <3>2
  <2>10. GatherInv(w, d, z)
    BY <2>4, <2>7, <2>8, <2>9 DEF GatherInv
  <2>11. GatherCount(z, k + 1)
    <3>1. Cardinality(s.seen \cup {e}) = Cardinality(s.seen) + 1
      BY <1>5, <2>2, FS_AddElement
    <3>2. Len(z.path) = n + 1 /\ Cardinality(z.seen) = Cardinality(s.seen) + 1
      BY <2>3, <2>4, <3>1
    <3>3. (k + 1) + (n + 1) = 2 * (Cardinality(s.seen) + 1) + 1
      BY <1>1, <1>5, <1>6
    <3> QED
      BY <3>2, <3>3 DEF GatherCount
  <2> QED
    BY <2>1, <2>10, <2>11
<1> QED
  BY <1>7, <1>8

LEMMA GatherHolds ==
  ASSUME NEW w, Refers(w), NEW d \in Ids(w)
  PROVE  LET n == 2 * Len(w.steps) + 1
             s == Gathered(w, d)[n]
         IN  GatherInv(w, d, s) /\ GatherCount(s, n)
<1> DEFINE n == 2 * Len(w.steps) + 1
           Holds(k) == GatherInv(w, d, Gathered(w, d)[k]) /\ GatherCount(Gathered(w, d)[k], k)
           T == {k \in 0 .. n : ~Holds(k)}
<1>1. n \in Nat
  BY ListIs DEF Refers, Typed
<1>2. Holds(0)
  <2> DEFINE s == [seen |-> {}, path |-> <<d>>]
  <2>1. Gathered(w, d)[0] = s
    BY GatheredIs DEF Refers
  <2>2. /\ s.seen = {} /\ s.path = <<d>> /\ Len(s.path) = 1 /\ DOMAIN s.path = {1} /\ s.path[1] = d
        /\ s \in [seen : SUBSET Ids(w), path : Seq(Ids(w))]
    OBVIOUS
  <2> HIDE DEF s
  <2>3. GatherInv(w, d, s)
    BY <2>2 DEF GatherInv
  <2>4. GatherCount(s, 0)
    BY <2>2, FS_EmptySet DEF GatherCount
  <2> QED
    BY <2>1, <2>3, <2>4
<1>3. ASSUME NEW k \in 1 .. n, Holds(k - 1) PROVE Holds(k)
  <2> DEFINE s == Gathered(w, d)[k - 1]
  <2>1. Gathered(w, d)[k] = GatherStep(w, s)
    BY GatheredIs DEF Refers
  <2>2. GatherInv(w, d, s) /\ GatherCount(s, k - 1) /\ k - 1 \in Nat /\ (k - 1) + 1 = k
    BY <1>1, <1>3
  <2> HIDE DEF s
  <2>3. CASE s.path = <<>>
    BY <2>1, <2>2, <2>3 DEF GatherStep, GatherCount
  <2>4. CASE s.path # <<>>
    <3>1. GatherInv(w, d, Gather(w, s)) /\ GatherCount(Gather(w, s), (k - 1) + 1)
      BY <2>2, <2>4, GatherKeeps
    <3> QED
      BY <2>1, <2>2, <2>4, <3>1 DEF GatherStep
  <2> QED
    BY <2>3, <2>4
<1> HIDE DEF Holds
<1>4. T = {}
  <2> SUFFICES ASSUME T # {} PROVE FALSE
    OBVIOUS
  <2>1. PICK k \in T : \A j \in T : k <= j
    <3> HIDE DEF T
    <3>1. T \subseteq Nat
      BY <1>1 DEF T
    <3> QED
      BY <3>1, LeastOf
  <2>2. k # 0
    BY <1>2, <2>1
  <2>3. k - 1 \in 0 .. n /\ k \in 1 .. n /\ k - 1 < k
    BY <1>1, <2>1, <2>2
  <2>4. Holds(k - 1)
    BY <1>1, <2>1, <2>3
  <2> QED
    BY <1>3, <2>1, <2>3, <2>4
<1>5. Holds(n)
  BY <1>1, <1>4
<1> QED
  BY <1>5 DEF Holds

(* What Prompt offers a step are the results of the steps it depends on.   *)
LEMMA AncestorsAre ==
  ASSUME NEW w, Refers(w), NEW d \in Ids(w)
  PROVE  /\ Ancestors(w, d) = DependsOn(w, d)
         /\ \A U \in SUBSET Ids(w) :
              Before(w, d) \subseteq U /\ SelfContained(w, U) => Ancestors(w, d) \subseteq U
<1> DEFINE n == 2 * Len(w.steps) + 1
           s == Gathered(w, d)[n]
<1>1. GatherInv(w, d, s) /\ GatherCount(s, n)
  BY GatherHolds
<1>2. s.seen \in SUBSET Ids(w) /\ s.path \in Seq(Ids(w))
  BY <1>1 DEF GatherInv
<1>3. Ancestors(w, d) = s.seen
  BY <1>2, AncestorsIs
<1> HIDE DEF s
<1>4. s.path = <<>>
  <2> SUFFICES ASSUME s.path # <<>> PROVE FALSE
    OBVIOUS
  <2>1. n + Len(s.path) = 2 * Cardinality(s.seen) + 1
    BY <1>1 DEF GatherCount
  <2>2. Cardinality(s.seen) \in Nat /\ Cardinality(s.seen) <= Len(w.steps) /\ Len(w.steps) \in Nat
    BY <1>2, IdsFinite, FS_Subset, FS_CardinalityType DEF Refers
  <2>3. Len(s.path) \in Nat /\ Len(s.path) > 0
    BY <1>2
  <2>4. \A l, m, p \in Nat : m <= l /\ p > 0 => 2 * l + 1 + p # 2 * m + 1
    OBVIOUS
  <2> QED
    BY <2>1, <2>2, <2>3, <2>4
<1>5. \A e \in s.seen \cup {d} : Before(w, e) \subseteq s.seen
  BY <1>1, <1>4 DEF GatherInv
<1>6. \A U \in SUBSET Ids(w) : Before(w, d) \subseteq U /\ SelfContained(w, U) => s.seen \subseteq U
  BY <1>1 DEF GatherInv
<1>7. s.seen = DependsOn(w, d)
  <2>1. s.seen \subseteq DependsOn(w, d)
    BY <1>2, <1>6 DEF DependsOn
  <2>2. DependsOn(w, d) \subseteq s.seen
    BY <1>2, <1>5 DEF DependsOn, SelfContained
  <2> QED
    BY <2>1, <2>2
<1> QED
  BY <1>3, <1>6, <1>7

(* The search finds no cycle just when the steps can all come after each   *)
(* other, and a cycle it finds is one; whatever Validate accepts is in     *)
(* order, and what a prompt may read is what its step depends on.          *)
THEOREM SearchCorrect ==
  ASSUME NEW w, Refers(w)
  PROVE  /\ Cycle(w) = <<>> <=> InOrder(w)
         /\ \A i \in 1 .. Len(Cycle(w)) - 1 : Cycle(w)[i + 1] \in Before(w, Cycle(w)[i])
         /\ Cycle(w) # <<>> => Cycle(w)[1] = Cycle(w)[Len(Cycle(w))]
         /\ \A d \in Ids(w) : Ancestors(w, d) = DependsOn(w, d)
<1> DEFINE c == Cycle(w)
<1>1. IF c = <<>> THEN InOrder(w) ELSE c \in Seq(Ids(w)) /\ IsCycle(w, c)
  BY CycleOrOrder
<1>2. \A d \in Ids(w) : Ancestors(w, d) = DependsOn(w, d)
  BY AncestorsAre
<1> HIDE DEF c
<1>3. CASE c = <<>>
  BY <1>1, <1>2, <1>3 DEF c
<1>4. CASE c # <<>>
  <2>1. ~InOrder(w)
    BY <1>1, <1>4, CycleIsNoOrder
  <2> QED
    BY <1>1, <1>2, <1>4, <2>1 DEF c, IsCycle, Chained
<1> QED
  BY <1>3, <1>4

(* TLC evaluates SearchIsRight over three steps; it is an instance.        *)
LEMMA SearchRight == SearchIsRight
<1> SUFFICES ASSUME NEW f \in [1 .. 3 -> Lists] PROVE Refers(Graph(f))
  BY SearchCorrect DEF SearchIsRight
<1> DEFINE w == Graph(f)
<1>1. Three[1] = "x" /\ Three[2] = "y" /\ Three[3] = "z"
  BY DEF Three
<1>2. /\ DOMAIN w.steps = 1 .. 3 /\ \A i \in 1 .. 3 : w.steps[i].id = Three[i] /\ w.steps[i].after = f[i]
      /\ w.steps = [i \in 1 .. 3 |-> w.steps[i]]
  BY DEF Graph
<1> HIDE DEF w
<1>3. Ids(w) = {"x", "y", "z"}
  <2>1. Ids(w) = {Three[i] : i \in 1 .. 3}
    BY <1>2 DEF Ids
  <2>2. 1 \in 1 .. 3 /\ 2 \in 1 .. 3 /\ 3 \in 1 .. 3 /\ \A i \in 1 .. 3 : i = 1 \/ i = 2 \/ i = 3
    OBVIOUS
  <2> QED
    BY <1>1, <2>1, <2>2
<1>4. IsList(w.steps)
  BY <1>2 DEF IsList
<1>5. ASSUME NEW i \in 1 .. 3
      PROVE  IsList(f[i]) /\ \A k \in DOMAIN f[i] : f[i][k] \in {"x", "y", "z"}
  <2>1. PICK n \in 0 .. 3 : f[i] \in [1 .. n -> {"x", "y", "z"}]
    BY DEF Lists
  <2>2. n \in Nat /\ f[i] = [k \in 1 .. n |-> f[i][k]] /\ DOMAIN f[i] = 1 .. n
    BY <2>1
  <2> QED
    BY <2>1, <2>2 DEF IsList
<1>6. Refers(w)
  BY <1>2, <1>3, <1>4, <1>5 DEF Refers, Typed
<1> QED
  BY <1>6 DEF w

=============================================================================
