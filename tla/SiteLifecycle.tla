---------------------------- MODULE SiteLifecycle ----------------------------
(***************************************************************************)
(* What InstrumentedProgram promises about the marker sites of a program,  *)
(* whatever sequence of operations its callers apply (iprogram.py): a site *)
(* starts live, leaves that state at most once and for good, and from the  *)
(* moment a preprocessing run has expanded its directive into the code,    *)
(* neither what it does nor the range it guards changes any more.          *)
(***************************************************************************)
EXTENDS Integers

CONSTANTS
    Ids,       \* the sites, by the id of their marker
    Retired,   \* the ways in which a site can stop being live
    Ranges,    \* the ranges a site can guard
    NoRange    \* the range every site starts with

VARIABLES
    status,     \* status[i] is "Enable" or a member of Retired
    range,      \* range[i] is the range site i guards
    committed   \* the sites whose expansion is part of the code

vars == <<status, range, committed>>

Live == {i \in Ids : status[i] = "Enable"}

Init ==
    /\ status = [i \in Ids |-> "Enable"]
    /\ range = [i \in Ids |-> NoRange]
    /\ committed = {}

(* Some live sites are retired, all in the same way.                       *)
Retire(S, how) ==
    /\ S \subseteq Live
    /\ status' = [i \in Ids |-> IF i \in S THEN how ELSE status[i]]
    /\ UNCHANGED <<range, committed>>

(* Sites that are not yet part of the code can be given other ranges.      *)
Rebound ==
    /\ range' \in [Ids -> Ranges]
    /\ \A i \in committed : range'[i] = range[i]
    /\ UNCHANGED <<status, committed>>

(* Everything retired so far becomes part of the code, and no live site    *)
(* does.                                                                   *)
Commit ==
    /\ committed' = Ids \ Live
    /\ UNCHANGED <<status, range>>

Next ==
    \/ \E S \in SUBSET Ids, how \in Retired : Retire(S, how)
    \/ Rebound
    \/ Commit

Spec == Init /\ [][Next]_vars
=============================================================================
