--------------------------- MODULE RenamingHistory ---------------------------
(***************************************************************************)
(* rename_markers called with programs that have a history: each of them   *)
(* comes from instrument_program, then markers of it are disabled or made  *)
(* unreachable, preprocessed away, and replaced by refined ones, in any    *)
(* order (python_src/program_markers/instrumenter.py and iprogram.py).     *)
(*                                                                         *)
(* The operations on one program leave the others alone, so a program gets *)
(* its whole history before the next one is instrumented.                  *)
(***************************************************************************)
EXTENDS MarkerRenaming, FiniteSets, Functions

CONSTANTS
    Modes,        \* a subset of {"DCE", "VR", "DCE_AND_VR"}
    MaxMarkers,   \* greatest number of markers instrument_program adds
    MaxPrograms,  \* greatest number of programs to rename
    MaxRemoved    \* greatest number of markers preprocessed away at once

ASSUME HistoryAssumption ==
    MaxMarkers \in Nat /\ MaxPrograms \in Nat /\ MaxRemoved \in Nat

VARIABLES
    enabled,    \* the enabled markers of the last program
    vr_first,   \* per program: how many VR markers are numbered before its
                \* DCE markers
    removed,    \* per program: how many markers have been preprocessed away
    reordered   \* the programs replace_markers has been applied to

history == <<enabled, vr_first, removed, reordered>>
historyVars == <<vars, history>>

-----------------------------------------------------------------------------
(* A program with marker ms[i] at site i.                                  *)
Instrumented(ms) ==
    [markers |-> ms, code |-> [s \in Sites |-> IF s \in DOMAIN ms THEN ms[s] ELSE NoMacro]]

(* dce_markers + vr_markers; in mode DCE_AND_VR the DCE markers have the   *)
(* ids after those of the VR markers.                                      *)
MarkersOf(dces, vrs) ==
    [i \in 1..(dces + vrs) |->
        IF i <= dces THEN [kind |-> "DCE", id |-> vrs + i - 1]
                     ELSE [kind |-> "VR", id |-> i - dces - 1]]

HistoryInit ==
    /\ programs = <<>>
    /\ new_programs = <<>>
    /\ current_marker_id = 0
    /\ replacements = [m \in {} |-> m]
    /\ pending = {}
    /\ code = [s \in Sites |-> NoMacro]
    /\ pc = "build"
    /\ enabled = {}
    /\ vr_first = <<>>
    /\ removed = <<>>
    /\ reordered = {}

instrument_program ==
    /\ pc = "build" /\ Len(programs) < MaxPrograms
    /\ \E dces, vrs \in 0..MaxMarkers :
          /\ dces + vrs \in 1..MaxMarkers
          /\ \/ "DCE" \in Modes /\ vrs = 0
             \/ "VR" \in Modes /\ dces = 0
             \/ "DCE_AND_VR" \in Modes /\ dces > 0 /\ vrs > 0
          /\ programs' = Append(programs, Instrumented(MarkersOf(dces, vrs)))
          /\ enabled' = NamesOf(Instrumented(MarkersOf(dces, vrs)))
          /\ vr_first' = Append(vr_first, IF dces = 0 THEN 0 ELSE vrs)
    /\ removed' = Append(removed, 0)
    /\ UNCHANGED <<new_programs, current_marker_id, replacements, pending, code, pc, reordered>>

Newest == Len(programs)

Building == pc = "build" /\ programs # <<>>

(* disable_markers, make_markers_unreachable, make_markers_aborted.        *)
retire_markers ==
    /\ Building
    /\ \E S \in SUBSET enabled : enabled' = enabled \ S
    /\ UNCHANGED <<vars, vr_first, removed, reordered>>

(* The sequences that list the members of a finite set once each.          *)
Listings(S) == Bijection(1..Cardinality(S), S)

WithMarkers(ms, text) ==
    /\ programs' = [programs EXCEPT ![Newest] = [markers |-> ms, code |-> text]]
    /\ UNCHANGED <<new_programs, current_marker_id, replacements, pending, code, pc,
                   enabled, vr_first>>

(* The text with the directives of the markers in S expanded.              *)
Expanded(text, S) == [s \in Sites |-> IF text[s] \in S THEN NoMacro ELSE text[s]]

(* Seeded fault: the markers that stay are collected in a set.             *)
Preprocess_Unordered ==
    LET p == programs[Newest]
        gone == NamesOf(p) \ enabled
    IN  /\ Building
        /\ Cardinality(gone) <= MaxRemoved
        /\ \E ms \in Listings(NamesOf(p) \cap enabled) : WithMarkers(ms, Expanded(p.code, gone))
        /\ removed' = [removed EXCEPT ![Newest] = @ + Cardinality(gone)]
        /\ UNCHANGED reordered

(* The directives of the markers that are not enabled become code, and     *)
(* enabled_markers lists the others in the order they had.                 *)
preprocess_disabled_and_unreachable_markers ==
    LET p == programs[Newest]
        gone == NamesOf(p) \ enabled
    IN  /\ Building
        /\ Cardinality(gone) <= MaxRemoved
        /\ \E ms \in Listings(NamesOf(p) \cap enabled) :
              /\ \A i, j \in DOMAIN ms : i < j => IndexOf(p, ms[i]) < IndexOf(p, ms[j])
              /\ WithMarkers(ms, Expanded(p.code, gone))
        /\ removed' = [removed EXCEPT ![Newest] = @ + Cardinality(gone)]
        /\ UNCHANGED reordered

(* unchanged_markers + new_markers.  The first come out of a set of ids,   *)
(* which Python iterates in ascending order while ids are smaller than the *)
(* set's table; the others are VR markers in the order of the caller, or   *)
(* of the program's output.                                                *)
replace_markers ==
    LET p == programs[Newest]
    IN  /\ Building
        /\ \E R \in SUBSET {m \in NamesOf(p) : m.kind = "VR"} :
              \E unchanged \in Listings(NamesOf(p) \ R), new \in Listings(R) :
                  /\ \A i, j \in DOMAIN unchanged : i < j => unchanged[i].id < unchanged[j].id
                  /\ WithMarkers(unchanged \o new, p.code)
        /\ reordered' = reordered \cup {Newest}
        /\ UNCHANGED removed

(* Seeded fault: the counter starts at the last id of the first program.   *)
RenameMarkers_LastId ==
    /\ Building
    /\ programs[1].markers # <<>>
    /\ new_programs' = <<programs[1]>>
    /\ current_marker_id' = Len(programs[1].markers) - 1
    /\ pc' = "collect"
    /\ UNCHANGED <<programs, replacements, pending, code, history>>

(* The call of rename_markers, up to its loop over programs[1:].           *)
rename_markers ==
    /\ Building
    /\ new_programs' = <<programs[1]>>
    /\ current_marker_id' = Len(programs[1].markers)
    /\ pc' = "collect"
    /\ UNCHANGED <<programs, replacements, pending, code, history>>

HistoryNext ==
    \/ instrument_program
    \/ retire_markers
    \/ preprocess_disabled_and_unreachable_markers
    \/ replace_markers
    \/ rename_markers
    \/ Next /\ UNCHANGED history

HistorySpec == HistoryInit /\ [][HistoryNext]_historyVars

-----------------------------------------------------------------------------
(* Properties                                                              *)

(* "Rename all the markers in `programs` to be unique": so they are if the *)
(* first program still has all the markers it was instrumented with,       *)
(* whatever has been done to the others.                                   *)
UniqueIfFirstComplete ==
    pc # "build" /\ removed[1] = 0 => MarkersUnique

(* "the programs with renamed markers": the sites of a program follow its  *)
(* markers if the tuple has the order of the instrumentation and no more   *)
(* markers have been removed or numbered out of order than there are       *)
(* markers in the programs before.                                         *)
FollowIfFewRemoved ==
    \A n \in Renamed \ reordered :
        (programs[n].markers # <<>>
            /\ vr_first[n] + removed[n] <= new_programs[n].markers[1].id)
            => SitesFollow(n)
=============================================================================
