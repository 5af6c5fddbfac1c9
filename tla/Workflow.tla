------------------------------- MODULE Workflow -------------------------------
(***************************************************************************)
(* A workflow, what Validate accepts, and whose results a step's prompt    *)
(* reads (workflow/workflow.go).  A workflow has a name, the names of its  *)
(* sessions, and its steps as they are declared, each with an id, the name *)
(* of its session and the ids it comes after.  Prompts are taken to be     *)
(* templates that parse, schemas to be object schemas.                     *)
(***************************************************************************)
EXTENDS Naturals, Sequences

NoName == "no name"

(* A workflow is a record of lists.                                        *)
IsList(s) == s \in Seq({s[i] : i \in DOMAIN s})
Typed(w) == IsList(w.steps) /\ \A i \in DOMAIN w.steps : IsList(w.steps[i].after)

Ids(w) == {w.steps[i].id : i \in DOMAIN w.steps}
SessionNames(w) == {w.sessions[i] : i \in DOMAIN w.sessions}

(* Of the indices I of a list, the one a loop over the list gets to first. *)
FirstOf(I) == CHOOSE i \in I : \A j \in I : i <= j

(* Workflow.Step: the first step of that id.                               *)
StepNamed(w, d) == w.steps[FirstOf({i \in DOMAIN w.steps : w.steps[i].id = d})]
AfterOf(w, d) == StepNamed(w, d).after

NamedOnce(s) ==
    /\ \A i \in DOMAIN s : s[i] # NoName
    /\ \A i, j \in DOMAIN s : s[i] = s[j] => i = j

(* A step's references: a session, and other steps.                        *)
Declares(w, st) ==
    /\ st.session \in SessionNames(w)
    /\ \A i \in DOMAIN st.after : st.after[i] \in Ids(w) \ {st.id}

WellFormed(w) ==
    /\ w.name # NoName /\ w.steps # <<>>
    /\ NamedOnce(w.sessions)
    /\ NamedOnce([i \in DOMAIN w.steps |-> w.steps[i].id])
    /\ \A i \in DOMAIN w.steps : Declares(w, w.steps[i])

----------------------------------------------------------------------------
(* The search for a cycle.  A state of it has the marks, the path of the   *)
(* calls of visit under way and the cycle, once there is one.              *)

Unvisited(w) == [mark |-> [d \in Ids(w) |-> "unseen"], path |-> <<>>, cycle |-> <<>>]

Top(path) == path[Len(path)]
Popped(path) == SubSeq(path, 1, Len(path) - 1)

Enter(s, d) == [s EXCEPT !.mark[d] = "visiting", !.path = Append(@, d)]
Leaves(s) == [s EXCEPT !.mark[Top(s.path)] = "done", !.path = Popped(@)]

(* The path from d, back to d.                                             *)
Closes(s, d) ==
    LET i == CHOOSE i \in DOMAIN s.path : s.path[i] = d
    IN  [s EXCEPT !.cycle = Append(SubSeq(s.path, i, Len(s.path)), d)]

(* A step of the search: the loop enters a step, or visit goes on with the *)
(* next of the steps the one it is at comes after.                         *)
Roots(w, s) == {i \in DOMAIN w.steps : s.mark[w.steps[i].id] = "unseen"}
Left(s, after) == {i \in DOMAIN after : s.mark[after[i]] # "done"}

Visit(w, s) ==
    IF s.path = <<>>
    THEN IF Roots(w, s) = {} THEN s ELSE Enter(s, w.steps[FirstOf(Roots(w, s))].id)
    ELSE LET after == AfterOf(w, Top(s.path))
             d == after[FirstOf(Left(s, after))] IN
         IF Left(s, after) = {} THEN Leaves(s)
         ELSE IF s.mark[d] = "visiting" THEN Closes(s, d)
         ELSE Enter(s, d)

(* Each step is entered and left once.                                     *)
Cycle(w) ==
    LET n == 2 * Len(w.steps)
        search[k \in 0 .. n] ==
            IF k = 0 THEN Unvisited(w)
            ELSE LET s == search[k - 1] IN IF s.cycle # <<>> THEN s ELSE Visit(w, s)
    IN  search[n].cycle

(* Mutant: a workflow is not searched for a cycle. *)
ValidUnsearched(w) == WellFormed(w)
(* Validate looks for a cycle among steps that are all declared.           *)
Valid(w) == WellFormed(w) /\ Cycle(w) = <<>>

----------------------------------------------------------------------------
(* The steps a step depends on, directly or through others.                *)

Gather(w, s) ==
    LET after == AfterOf(w, Top(s.path))
        new == {i \in DOMAIN after : after[i] \notin s.seen}
        d == after[FirstOf(new)]
    IN  IF new = {} THEN [s EXCEPT !.path = Popped(@)]
        ELSE [seen |-> s.seen \cup {d}, path |-> Append(s.path, d)]

Ancestors(w, d) ==
    LET n == 2 * Len(w.steps) + 1
        gathered[k \in 0 .. n] ==
            IF k = 0 THEN [seen |-> {}, path |-> <<d>>]
            ELSE LET s == gathered[k - 1] IN IF s.path = <<>> THEN s ELSE Gather(w, s)
    IN  Ids(w) \cap gathered[n].seen

=============================================================================
