---------------------------- MODULE TrackingCode ----------------------------
(***************************************************************************)
(* The C code TrackingForRefinementEmitter emits for a VR marker           *)
(* (python_src/program_markers/markers.py), statement by statement, in a   *)
(* program that forks, starts threads, exits, or is killed; and the range  *)
(* process_tracked_output_for_refinement makes of its output (iprogram.py).*)
(*                                                                         *)
(* The macro of the marker's site calls track_<name> with the value of the *)
(* instrumented expression.  The variables the function keeps are globals: *)
(* the threads of a process share them and fork copies them.  A destructor *)
(* prints them, so a process that is killed, aborts, or ends in _exit or   *)
(* exec prints nothing.                                                    *)
(***************************************************************************)
EXTENDS Integers

CONSTANTS
    Processes,  \* the processes a run can consist of
    First,      \* the one the run starts with
    Threads,    \* the threads of a process that reach the site
    Values      \* the values of the instrumented expression

ASSUME ProcessesAssumption == First \in Processes

(* The globals start as 0.                                                 *)
ASSUME ValuesAssumption == Values \subseteq Int /\ 0 \in Values

VARIABLES
    takes_turns,  \* whether the program lets one thread in at a time
    ENCOUNTERED, LB, UB,  \* the globals, in each process
    pc,        \* the statement each thread of a process is at
    v,         \* the argument of its call of track_<name>
    status,    \* "unborn", "running", "exiting", "exited" or "killed"
    seen,      \* the arguments of the calls that have returned
    output,    \* the lines in the pipe to the Python process
    raised,    \* whether output.run has raised in the Python process
    refined    \* the ranges of refined markers, at most one

memory == <<ENCOUNTERED, LB, UB>>
elsewhere == <<takes_turns, output, raised, refined>>
vars == <<memory, pc, v, status, seen, elsewhere>>

Everywhere(x) == [p \in Processes |-> x]

Init ==
    /\ takes_turns \in BOOLEAN
    /\ ENCOUNTERED = Everywhere(0)
    /\ LB = Everywhere(0)
    /\ UB = Everywhere(0)
    /\ pc = [p \in Processes |-> [t \in Threads |-> "idle"]]
    /\ v = [p \in Processes |-> [t \in Threads |-> 0]]
    /\ status = [p \in Processes |-> IF p = First THEN "running" ELSE "unborn"]
    /\ seen = Everywhere({})
    /\ output = {}
    /\ raised = FALSE
    /\ refined = {}

-----------------------------------------------------------------------------
(* track_<name>.  A statement reads or writes one global.                  *)

At(p, t, statement) == status[p] = "running" /\ pc[p][t] = statement

(* No thread of the process is in a call of track_<name>.                  *)
Quiet(p) == \A t \in Threads : pc[p][t] \in {"idle", "gone"}

(* The emitted code has no lock.  A program whose threads take turns, as   *)
(* those of a program with one thread do, calls track_<name>, forks and    *)
(* exits only while no other thread of the process is in a call.           *)
InTurn(p) == takes_turns => Quiet(p)

Goto(p, t, statement) == pc' = [pc EXCEPT ![p][t] = statement]

Return(p, t) ==
    /\ Goto(p, t, "idle")
    /\ seen' = [seen EXCEPT ![p] = @ \cup {v[p][t]}]

(* Seeded fault: the flag is set before the bounds.                        *)
Call_FlagFirst(p, t) ==
    /\ At(p, t, "idle") /\ InTurn(p)
    /\ \E x \in Values : v' = [v EXCEPT ![p][t] = x]
    /\ Goto(p, t, IF ENCOUNTERED[p] = 0 THEN "first_lb" ELSE "test_lb")
    /\ ENCOUNTERED' = [ENCOUNTERED EXCEPT ![p] = 1]
    /\ UNCHANGED <<LB, UB, status, seen, elsewhere>>

call(p, t) ==
    /\ At(p, t, "idle") /\ InTurn(p)
    /\ \E x \in Values : v' = [v EXCEPT ![p][t] = x]
    /\ Goto(p, t, IF ENCOUNTERED[p] = 0 THEN "first_lb" ELSE "test_lb")
    /\ UNCHANGED <<memory, status, seen, elsewhere>>

first_lb(p, t) ==
    /\ At(p, t, "first_lb")
    /\ LB' = [LB EXCEPT ![p] = v[p][t]]
    /\ Goto(p, t, "first_ub")
    /\ UNCHANGED <<ENCOUNTERED, UB, v, status, seen, elsewhere>>

first_ub(p, t) ==
    /\ At(p, t, "first_ub")
    /\ UB' = [UB EXCEPT ![p] = v[p][t]]
    /\ Goto(p, t, "first_encountered")
    /\ UNCHANGED <<ENCOUNTERED, LB, v, status, seen, elsewhere>>

(* Seeded fault: the flag is not set.                                      *)
FirstEncountered_Missing(p, t) ==
    /\ At(p, t, "first_encountered")
    /\ Return(p, t)
    /\ UNCHANGED <<ENCOUNTERED, LB, UB, v, status, elsewhere>>

first_encountered(p, t) ==
    /\ At(p, t, "first_encountered")
    /\ ENCOUNTERED' = [ENCOUNTERED EXCEPT ![p] = 1]
    /\ Return(p, t)
    /\ UNCHANGED <<LB, UB, v, status, elsewhere>>

test_lb(p, t) ==
    /\ At(p, t, "test_lb")
    /\ Goto(p, t, IF v[p][t] < LB[p] THEN "set_lb" ELSE "test_ub")
    /\ UNCHANGED <<memory, v, status, seen, elsewhere>>

set_lb(p, t) ==
    /\ At(p, t, "set_lb")
    /\ LB' = [LB EXCEPT ![p] = v[p][t]]
    /\ Goto(p, t, "test_ub")
    /\ UNCHANGED <<ENCOUNTERED, UB, v, status, seen, elsewhere>>

(* Seeded fault: a second value is only compared with the lower bound.     *)
TestUB_Missing(p, t) ==
    /\ At(p, t, "test_ub")
    /\ Return(p, t)
    /\ UNCHANGED <<memory, v, status, elsewhere>>

test_ub(p, t) ==
    /\ At(p, t, "test_ub")
    /\ IF v[p][t] > UB[p] THEN Goto(p, t, "set_ub") /\ UNCHANGED seen
       ELSE Return(p, t)
    /\ UNCHANGED <<memory, v, status, elsewhere>>

set_ub(p, t) ==
    /\ At(p, t, "set_ub")
    /\ UB' = [UB EXCEPT ![p] = v[p][t]]
    /\ Return(p, t)
    /\ UNCHANGED <<ENCOUNTERED, LB, v, status, elsewhere>>

(* A step of a call that has begun.                                        *)
track(p, t) ==
    \/ first_lb(p, t) \/ first_ub(p, t) \/ first_encountered(p, t)
    \/ test_lb(p, t) \/ set_lb(p, t) \/ test_ub(p, t) \/ set_ub(p, t)

-----------------------------------------------------------------------------
(* Processes.  A thread that is idle may fork; the child has a copy of the *)
(* memory and this thread only.                                            *)
fork(p, t, q) ==
    /\ At(p, t, "idle") /\ InTurn(p)
    /\ status[q] = "unborn"
    /\ status' = [status EXCEPT ![q] = "running"]
    /\ ENCOUNTERED' = [ENCOUNTERED EXCEPT ![q] = ENCOUNTERED[p]]
    /\ LB' = [LB EXCEPT ![q] = LB[p]]
    /\ UB' = [UB EXCEPT ![q] = UB[p]]
    /\ pc' = [pc EXCEPT ![q] = [u \in Threads |-> IF u = t THEN "idle" ELSE "gone"]]
    /\ seen' = [seen EXCEPT ![q] = seen[p]]
    /\ UNCHANGED <<v, elsewhere>>

(* A thread returns from main or calls exit.  What the others still do     *)
(* before the destructor runs, they may as well have done before.          *)
exit(p) ==
    /\ \E t \in Threads : At(p, t, "idle")
    /\ InTurn(p)
    /\ status' = [status EXCEPT ![p] = "exiting"]
    /\ UNCHANGED <<memory, pc, v, seen, elsewhere>>

(* A signal, abort, _exit or exec.                                         *)
kill(p) ==
    /\ status[p] \in {"running", "exiting"}
    /\ status' = [status EXCEPT ![p] = "killed"]
    /\ UNCHANGED <<memory, pc, v, seen, elsewhere>>

(* The destructor <name>_print.                                            *)
print(p) ==
    /\ status[p] = "exiting"
    /\ status' = [status EXCEPT ![p] = "exited"]
    /\ output' = IF ENCOUNTERED[p] = 1
                 THEN output \cup {[lb |-> LB[p], ub |-> UB[p]]} ELSE output
    /\ UNCHANGED <<takes_turns, memory, pc, v, seen, raised, refined>>

-----------------------------------------------------------------------------
(* The Python process                                                      *)

(* output.run raises, and nothing is refined: the caller has set a timeout *)
(* and it has passed, which kills the process the run was started with, or *)
(* that process has ended in a way that is taken for a failure.            *)
run_raises ==
    /\ ~raised /\ refined = {}
    /\ raised' = TRUE
    /\ status' = [status EXCEPT ![First] =
                      IF @ \in {"running", "exiting"} THEN "killed" ELSE @]
    /\ UNCHANGED <<takes_turns, memory, pc, v, seen, output, refined>>

Over == \A p \in Processes : status[p] \notin {"running", "exiting"}

(* Seeded fault: the upper bound is taken from the first line found.       *)
Refine_OneUpperBound ==
    /\ Over /\ ~raised /\ refined = {} /\ output # {}
    /\ \E low, high \in output :
          /\ \A l \in output : low.lb <= l.lb
          /\ refined' = {[lb |-> low.lb, ub |-> high.ub]}
    /\ UNCHANGED <<takes_turns, memory, pc, v, status, seen, output, raised>>

(* Seeded fault: the upper bound is one past the greatest value.           *)
Refine_HalfOpen ==
    /\ Over /\ ~raised /\ refined = {} /\ output # {}
    /\ \E low, high \in output :
          /\ \A l \in output : low.lb <= l.lb /\ l.ub <= high.ub
          /\ refined' = {[lb |-> low.lb, ub |-> high.ub + 1]}
    /\ UNCHANGED <<takes_turns, memory, pc, v, status, seen, output, raised>>

(* output.run returns at the end of the pipe, which every process of the   *)
(* run holds open.  min(lbs) and max(ubs); a marker without a line keeps   *)
(* its range.  Bounds that threads have left in the wrong order fail the   *)
(* assertion of VRMarker.__post_init__: no marker is made of them.         *)
refine ==
    /\ Over /\ ~raised /\ refined = {} /\ output # {}
    /\ \E low, high \in output :
          /\ \A l \in output : low.lb <= l.lb /\ l.ub <= high.ub
          /\ low.lb <= high.ub
          /\ refined' = {[lb |-> low.lb, ub |-> high.ub]}
    /\ UNCHANGED <<takes_turns, memory, pc, v, status, seen, output, raised>>

Next ==
    \/ \E p \in Processes, t \in Threads : call(p, t) \/ track(p, t)
    \/ \E p, q \in Processes, t \in Threads : fork(p, t, q)
    \/ \E p \in Processes : exit(p) \/ kill(p) \/ print(p)
    \/ run_raises \/ refine

Spec == Init /\ [][Next]_vars

(* exit runs the destructors, and Python goes on when output.run has       *)
(* returned.  Nothing makes a process leave the program's own code.        *)
Fairness == WF_vars(refine) /\ \A p \in Processes : WF_vars(print(p))

FairSpec == Spec /\ Fairness

-----------------------------------------------------------------------------
(* Properties                                                              *)

Statements ==
    {"idle", "gone", "first_lb", "first_ub", "first_encountered",
     "test_lb", "set_lb", "test_ub", "set_ub"}

Range == [lb : Values, ub : Values]

(* The variables hold values of their types.                               *)
TypeOK ==
    /\ takes_turns \in BOOLEAN /\ raised \in BOOLEAN
    /\ ENCOUNTERED \in [Processes -> {0, 1}]
    /\ LB \in [Processes -> Values]
    /\ UB \in [Processes -> Values]
    /\ pc \in [Processes -> [Threads -> Statements]]
    /\ v \in [Processes -> [Threads -> Values]]
    /\ status \in [Processes -> {"unborn", "running", "exiting", "exited", "killed"}]
    /\ seen \in [Processes -> SUBSET Values]
    /\ output \subseteq Range
    /\ refined \subseteq Range

(* No process that exits has met a value outside the new range, and both   *)
(* bounds are values such a process has met.                               *)
SpanOfExited ==
    \A r \in refined :
        LET met == UNION {seen[p] : p \in {q \in Processes : status[q] = "exited"}}
        IN  /\ r.lb \in met /\ r.ub \in met
            /\ \A x \in met : r.lb <= x /\ x <= r.ub

(* "update the bounds of VRMarkers based on the values encountered during  *)
(* execution" (refine_markers_with_runtime_information), wherever          *)
(* processes fork and are killed, if threads take turns.                   *)
RefinedFromEncountered == takes_turns => SpanOfExited

(* The arguments of the calls of a process, returned or not.               *)
Arguments(p) ==
    seen[p] \cup {v[p][t] : t \in {u \in Threads : pc[p][u] \notin {"idle", "gone"}}}

Encountered == UNION {Arguments(p) : p \in Processes}

(* Also if threads are in the function at the same time, and wherever      *)
(* another one forks or exits meanwhile: a new bound is a value the run    *)
(* has encountered, never what a global happened to hold before.           *)
BoundsEncountered ==
    \A r \in refined : r.lb \in Encountered /\ r.ub \in Encountered

(* A process that has not printed yet is running for TrackedRanges.        *)
promised_status ==
    [p \in Processes |-> IF status[p] = "exiting" THEN "running" ELSE status[p]]

Promise == INSTANCE TrackedRanges WITH status <- promised_status

(* The C functions and the parsing of what they print do what              *)
(* TrackedRanges says: a call of track_<name> takes effect when it         *)
(* returns, and the destructor when it prints.                             *)
TrackedRangesSpec == Promise!Spec

(* Once every process has left the program's own code, a value that one of *)
(* them has met is in the refined range in the end, unless the process was *)
(* killed before it had printed, or the call of the library raises.        *)
EncounteredIsRefined ==
    \A p \in Processes, x \in Values :
        /\ takes_turns /\ x \in seen[p]
        /\ \A q \in Processes : status[q] # "running"
        ~> \/ status[p] = "killed" \/ raised
           \/ \E r \in refined : r.lb <= x /\ x <= r.ub
=============================================================================
