---------------------------- MODULE Instrumenter ----------------------------
(***************************************************************************)
(* instrument_program (python_src/program_markers/instrumenter.py) and the *)
(* part of the clang tool it relies on: which macros a run of the tool     *)
(* leaves in the source, and which names it prints.                        *)
(*                                                                         *)
(* The tool numbers the markers of a run from 0.  Mode DCE_AND_VR makes    *)
(* two runs, so the ids overlap and the DCE markers are renumbered, in the *)
(* marker list and, by one str.replace of the first occurrence each, in    *)
(* the source.                                                             *)
(***************************************************************************)
EXTENDS Integers, Sequences, FiniteSetsExt, Functions

CONSTANT Length   \* number of places in the source where a macro can go

ASSUME LengthAssumption == Length \in Nat

Places == 1..Length

Modes == {"DCE", "VR", "DCE_AND_VR"}

VARIABLES
    mode,          \* the argument
    code,          \* what stands at each place of the source
    directives,    \* macros the temporary directives in front of it define
    dce_markers,   \* the local variable of the same name
    vr_markers,    \* the local variable of the same name
    replacements,  \* the pairs <<old macro, new macro>> still to be replaced
    pc,            \* where instrument_program stands
    result         \* the markers of the program returned, or what is raised

vars == <<mode, code, directives, dce_markers, vr_markers, replacements, pc, result>>

-----------------------------------------------------------------------------
Macro(kind, i) == [kind |-> kind, id |-> i]

NoMacro == Macro("none", 0)

Free == {s \in Places : code[s] = NoMacro}

(* Inserts the macros of markers 0..k-1 at the given places.               *)
Inserted(kind, k, place) ==
    [s \in Places |->
        IF \E i \in 0..k-1 : place[i] = s
        THEN Macro(kind, CHOOSE i \in 0..k-1 : place[i] = s)
        ELSE code[s]]

(* The tool prints nothing when it has not found a place for a marker.     *)
Output(kind, k) ==
    IF k = 0 THEN <<>>
    ELSE [n \in 1..k+2 |-> IF n \in {1, k + 2} THEN Macro("comment", 0)
                           ELSE Macro(kind, n - 2)]

(* Drops the first line and the last.                                      *)
parse_marker_names(output) == SubSeq(output, 2, Len(output) - 1)

-----------------------------------------------------------------------------
Init ==
    /\ mode \in Modes
    /\ code = [s \in Places |-> NoMacro]
    /\ directives = {}
    /\ dce_markers = <<>>
    /\ vr_markers = <<>>
    /\ replacements = <<>>
    /\ pc = IF mode = "VR" THEN "vr" ELSE "dce"
    /\ result = <<>>

Raise(error) ==
    /\ pc' = "raised"
    /\ result' = error
    /\ UNCHANGED <<mode, code, directives, dce_markers, vr_markers, replacements>>

Return(markers) ==
    /\ pc' = "returned"
    /\ result' = markers

Elements(seq) == {seq[i] : i \in DOMAIN seq}

(* One run in mode dce.  In mode DCE_AND_VR the names are then defined as  *)
(* empty macros, or the second run could not parse the source.             *)
run_dce ==
    /\ pc = "dce"
    /\ \E k \in 0..Length : \E place \in Injection(0..k-1, Free) :
         LET output == Output("DCE", k) IN
         IF output = <<>> THEN Raise("NoInstrumentationAddedError")
         ELSE /\ code' = Inserted("DCE", k, place)
              /\ dce_markers' = parse_marker_names(output)
              /\ \/ /\ mode = "DCE"
                    /\ Return(parse_marker_names(output))
                    /\ UNCHANGED directives
                 \/ /\ mode = "DCE_AND_VR"
                    /\ directives' = Elements(parse_marker_names(output))
                    /\ pc' = "vr"
                    /\ UNCHANGED result
              /\ UNCHANGED <<mode, vr_markers, replacements>>

(* One run in mode vr; the macros of the first run stay where they are.    *)
run_vr ==
    /\ pc = "vr"
    /\ \E k \in 0..Length : \E place \in Injection(0..k-1, Free) :
         LET output == Output("VR", k) IN
         IF output = <<>> THEN Raise("NoInstrumentationAddedError")
         ELSE /\ code' = Inserted("VR", k, place)
              /\ vr_markers' = parse_marker_names(output)
              /\ \/ /\ mode = "VR"
                    /\ Return(parse_marker_names(output))
                 \/ /\ mode = "DCE_AND_VR"
                    /\ pc' = "renumber"
                    /\ UNCHANGED result
              /\ UNCHANGED <<mode, directives, dce_markers, replacements>>

-----------------------------------------------------------------------------
(* Renumbering the DCE markers of mode DCE_AND_VR                          *)

max_vr_id == Max({m.id : m \in Elements(vr_markers)})

(* Seeded fault: the ids used so far are counted, not the VR ids.          *)
NewId_Sparse(old_id) == old_id + Len(dce_markers) + Len(vr_markers)

NewId(old_id) == old_id + max_vr_id + 1

(* Seeded fault: the temporary directives are removed at the end only.     *)
Renumber_KeepingDirectives ==
    /\ pc = "renumber"
    /\ dce_markers' = [n \in DOMAIN dce_markers |->
                           Macro("DCE", NewId(dce_markers[n].id))]
    /\ replacements' = [n \in DOMAIN dce_markers |->
           <<dce_markers[n], Macro("DCE", NewId(dce_markers[n].id))>>]
    /\ pc' = "replace"
    /\ UNCHANGED <<mode, code, directives, vr_markers, result>>

(* The temporary directives are removed first, so that the first           *)
(* occurrence of a macro is the one in the source.  Neither list is empty  *)
(* here: a run without markers has raised.                                 *)
renumber ==
    /\ pc = "renumber"
    /\ directives' = {}
    /\ dce_markers' = [n \in DOMAIN dce_markers |->
                           Macro("DCE", NewId(dce_markers[n].id))]
    /\ replacements' = [n \in DOMAIN dce_markers |->
           <<dce_markers[n], Macro("DCE", NewId(dce_markers[n].id))>>]
    /\ pc' = "replace"
    /\ UNCHANGED <<mode, code, vr_markers, result>>

(* The places at which macro m stands first.                               *)
FirstPlaces(m) ==
    {s \in Places : code[s] = m /\ \A t \in Places : code[t] = m => s <= t}

(* str.replace(old, new, 1)                                                *)
ReplaceFirst(old, new) ==
    IF old \in directives
    THEN /\ directives' = (directives \ {old}) \cup {new}
         /\ UNCHANGED code
    ELSE /\ code' = [s \in Places |-> IF s \in FirstPlaces(old) THEN new ELSE code[s]]
         /\ UNCHANGED directives

replace_next ==
    /\ pc = "replace"
    /\ replacements # <<>>
    /\ ReplaceFirst(replacements[1][1], replacements[1][2])
    /\ replacements' = Tail(replacements)
    /\ UNCHANGED <<mode, dce_markers, vr_markers, pc, result>>

return_combined ==
    /\ pc = "replace"
    /\ replacements = <<>>
    /\ Return(dce_markers \o vr_markers)
    /\ UNCHANGED <<mode, code, directives, dce_markers, vr_markers, replacements>>

Next == run_dce \/ run_vr \/ renumber \/ replace_next \/ return_combined

Spec == Init /\ [][Next]_vars

-----------------------------------------------------------------------------
(* Properties                                                              *)

(* The program that is returned compiles and each of its markers guards    *)
(* one place: every marker's macro stands at exactly one place, every      *)
(* macro in the source belongs to a marker, and no temporary directive is  *)
(* left.                                                                   *)
OnePlacePerMarker ==
    pc = "returned" =>
        /\ \A n \in DOMAIN result :
              \E s \in Places : \A t \in Places : code[t] = result[n] <=> t = s
        /\ \A s \in Places : code[s] # NoMacro => code[s] \in Elements(result)
        /\ directives = {}

(* The ids of the markers that are returned are 0 to their number minus 1, *)
(* each once, whatever the kinds: __post_init__ asserts that they are      *)
(* unique, and rename_markers needs a first program without gaps.          *)
IdsContiguous ==
    pc = "returned" =>
        /\ \A n, m \in DOMAIN result : result[n].id = result[m].id => n = m
        /\ \A n \in DOMAIN result : result[n].id \in 0..Len(result)-1
=============================================================================
