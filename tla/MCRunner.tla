------------------------------ MODULE MCRunner ------------------------------
(* Small instances of Runner: the workflows, as functions of the steps. *)
EXTENDS RunnerProperties, TLC
CONSTANTS r1, r2, s1, s2, s3, a, b, c1, c2, c3

OneRun == [s \in Steps |-> r1]
NoAfter == [s \in Steps |-> {}]
Declared == [s \in Steps |-> CASE s = s1 -> 1 [] s = s2 -> 2 [] OTHER -> 3]

(* s1 and s3 share a session, s2 has its own. *)
Shared == [s \in Steps |-> IF s = s2 THEN b ELSE a]

(* s1 and s2 side by side, then s3 after s2. *)
Join == [s \in Steps |-> IF s = s3 THEN {s2} ELSE {}]

(* s2 is the one step of a run, the others are those of a second run. *)
TwoRuns == [s \in Steps |-> IF s = s2 THEN r2 ELSE r1]

(* The workflow of each run, its steps as they are declared; a run without *)
(* steps is one of two steps that come after each other.                   *)
StepOf(s) == [id |-> s, session |-> Sess[s],
              after |-> SelectSeq(<<s1, s2, s3>>, LAMBDA t : t \in After[s])]
Defined(l) == [name |-> "w", sessions |-> <<a, b>>, steps |-> l]
Circular == <<[id |-> s1, session |-> a, after |-> <<s2>>], [id |-> s2, session |-> b, after |-> <<s1>>]>>
MCWorkflows ==
    [r \in Runs |->
       LET own == SelectSeq(<<s1, s2, s3>>, LAMBDA s : s \in Steps /\ RunOf[s] = r)
       IN  Defined(IF own = <<>> THEN Circular ELSE [i \in DOMAIN own |-> StepOf(own[i])])]

CallerSymmetry == Permutations(Callers)
=============================================================================
