------------------------------- MODULE Markers -------------------------------
(***************************************************************************)
(* The values of python_src/program_markers/markers.py: markers, the       *)
(* directive emitters a program assigns to them, and what the expansion of *)
(* a marker's macro does when control reaches it.                          *)
(*                                                                         *)
(* Names and macros are determined by the kind and the id of a marker      *)
(* ("DCEMarker7_", "VRMARKERMACRO7_"), so a marker is its id and, for a VR *)
(* marker, the bounds of the range it guards.  A DCE marker has no bounds; *)
(* 0 and 0 stand in for them.  Markers are frozen dataclasses: two markers *)
(* are equal exactly when all their fields are.                            *)
(***************************************************************************)
EXTENDS Integers, FiniteSetsExt

CONSTANTS
    DCEIds,       \* ids of the DCE markers of the instrumented program
    VRIds,        \* ids of its VR markers
    Values,       \* values of the instrumented expressions, and bounds
    Strategies,   \* families of detection strategies with disjoint patterns
    FunctionCall  \* the strategy instrument_program starts with

(* Ids are natural numbers; one id names one marker, whatever its kind.    *)
ASSUME IdsAssumption ==
    /\ DCEIds \subseteq Nat
    /\ VRIds \subseteq Nat
    /\ DCEIds \cap VRIds = {}

(* A C integer type is finite: a non-empty set of its values has a least   *)
(* and a greatest element.                                                 *)
ASSUME ValuesAssumption ==
    /\ Values \subseteq Int
    /\ 0 \in Values
    /\ \A S \in SUBSET Values : S # {} =>
          \E lo, hi \in S : \A v \in S : lo <= v /\ v <= hi

ASSUME StrategiesAssumption == FunctionCall \in Strategies

Ids == DCEIds \cup VRIds

-----------------------------------------------------------------------------
(* Markers                                                                 *)

DCEMarker(i) == [id |-> i, lower_bound |-> 0, upper_bound |-> 0]

VRMarker(i, lb, ub) == [id |-> i, lower_bound |-> lb, upper_bound |-> ub]

DCEMarkers == {DCEMarker(i) : i \in DCEIds}

VRMarkers ==
    {m \in [id : VRIds, lower_bound : Values, upper_bound : Values] :
        m.lower_bound <= m.upper_bound}

Marker == DCEMarkers \cup VRMarkers

(* The guard marker_statement_prefix puts before a marker's statement: a   *)
(* DCE marker has none, a VR marker fires on values outside its range.     *)
Fires(m, v) ==
    m.id \in VRIds => ~(v >= m.lower_bound /\ v <= m.upper_bound)

-----------------------------------------------------------------------------
(* Directive emitters                                                      *)

EnableEmitter(s) == [kind |-> "Enable", strategy |-> s]
DisableEmitter == [kind |-> "Disable"]
UnreachableEmitter == [kind |-> "Unreachable"]
AbortEmitter == [kind |-> "Abort"]
TrackingEmitter == [kind |-> "Tracking"]
TrackingForRefinementEmitter == [kind |-> "TrackingForRefinement"]

RetiredKinds ==
    {"Disable", "Unreachable", "Abort", "Tracking", "TrackingForRefinement"}

Emitter == {EnableEmitter(s) : s \in Strategies} \cup {[kind |-> k] : k \in RetiredKinds}

(* Control does not continue past a value on which one of these fires.     *)
Stops(emitter, m, v) == emitter.kind \in {"Unreachable", "Abort"} /\ Fires(m, v)

(* The line <MarkerTracking>name:lb/ub</MarkerTracking> a process prints   *)
(* when it exits, for a VR marker tracked for refinement whose expression  *)
(* took the values vs in that process.                                     *)
TrackedLine(vs) == [lb |-> Min(vs), ub |-> Max(vs)]

(* Seeded faults: the bounds swapped; only one of the lines looked at.     *)
ParseTrackedOutput_Swapped(m, lines) ==
    VRMarker(m.id, Max({l.ub : l \in lines}), Min({l.lb : l \in lines}))

ParseTrackedOutput_OneLine(m, lines) ==
    LET line == CHOOSE l \in lines : TRUE IN VRMarker(m.id, line.lb, line.ub)

(* VRMarker.parse_tracked_output_for_refinement: the new range covers the  *)
(* lines of this run; the range the marker had is dropped.                 *)
ParseTrackedOutput(m, lines) ==
    VRMarker(m.id, Min({l.lb : l \in lines}), Max({l.ub : l \in lines}))
=============================================================================
