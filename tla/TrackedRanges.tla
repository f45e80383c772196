---------------------------- MODULE TrackedRanges ----------------------------
(***************************************************************************)
(* What the tracking code of a VR marker promises (markers.py, iprogram.py *)
(* refine_markers_with_runtime_information): every process of a run        *)
(* remembers the values the instrumented expression took in it, a process  *)
(* that exits prints their span, one that is killed prints nothing, and    *)
(* when the run is over the marker guards the span of what was printed.    *)
(* Of a program whose threads do not take turns it promises only that what *)
(* is printed are values of the expression's type.                         *)
(***************************************************************************)
EXTENDS Integers

CONSTANTS
    Processes,  \* the processes a run can consist of
    First,      \* the one the run starts with
    Values      \* the values of the instrumented expression

VARIABLES
    takes_turns,  \* whether the program lets one thread in at a time
    status,       \* "unborn", "running", "exited" or "killed"
    seen,         \* the values each process has seen
    output,       \* the lines printed
    raised,       \* whether the run has failed
    refined       \* the sets of ranges the refinement has made, at most one

vars == <<takes_turns, status, seen, output, raised, refined>>

(* r is the least range with all the members of S.                         *)
IsSpan(r, S) ==
    /\ r.lb \in S
    /\ r.ub \in S
    /\ \A x \in S : r.lb <= x /\ x <= r.ub

Range == [lb : Values, ub : Values]

Init ==
    /\ takes_turns \in BOOLEAN
    /\ status = [p \in Processes |-> IF p = First THEN "running" ELSE "unborn"]
    /\ seen = [p \in Processes |-> {}]
    /\ output = {}
    /\ raised = FALSE
    /\ refined = {}

Observe(p) ==
    /\ status[p] = "running"
    /\ \E x \in Values : seen' = [seen EXCEPT ![p] = @ \cup {x}]
    /\ UNCHANGED <<takes_turns, status, output, raised, refined>>

Fork(p, q) ==
    /\ status[p] = "running" /\ status[q] = "unborn"
    /\ status' = [status EXCEPT ![q] = "running"]
    /\ seen' = [seen EXCEPT ![q] = seen[p]]
    /\ UNCHANGED <<takes_turns, output, raised, refined>>

(* What process p may print.                                               *)
Prints(p, r) == takes_turns => IsSpan(r, seen[p])

MayBeSilent(p) == takes_turns => seen[p] = {}

Exit(p) ==
    /\ status[p] = "running"
    /\ status' = [status EXCEPT ![p] = "exited"]
    /\ \/ MayBeSilent(p) /\ output' = output
       \/ \E r \in Range : Prints(p, r) /\ output' = output \cup {r}
    /\ UNCHANGED <<takes_turns, seen, raised, refined>>

Kill(p) ==
    /\ status[p] = "running"
    /\ status' = [status EXCEPT ![p] = "killed"]
    /\ UNCHANGED <<takes_turns, seen, output, raised, refined>>

(* A run that fails ends the process it was started with, if it is still   *)
(* there, and refines nothing.                                             *)
Raise ==
    /\ ~raised /\ refined = {}
    /\ raised' = TRUE
    /\ status' = [status EXCEPT ![First] = IF @ = "running" THEN "killed" ELSE @]
    /\ UNCHANGED <<takes_turns, seen, output, refined>>

(* The run is over when no process is left; lines of all of them count.    *)
Refine ==
    /\ \A p \in Processes : status[p] # "running"
    /\ ~raised /\ refined = {}
    /\ \E r \in Range :
          /\ \E low, high \in output : r.lb = low.lb /\ r.ub = high.ub
          /\ \A l \in output : r.lb <= l.lb /\ l.ub <= r.ub
          /\ refined' = {r}
    /\ UNCHANGED <<takes_turns, status, seen, output, raised>>

Next ==
    \/ \E p \in Processes : Observe(p) \/ Exit(p) \/ Kill(p)
    \/ \E p, q \in Processes : Fork(p, q)
    \/ Raise \/ Refine

Spec == Init /\ [][Next]_vars
=============================================================================
