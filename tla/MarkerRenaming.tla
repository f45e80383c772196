--------------------------- MODULE MarkerRenaming ---------------------------
(***************************************************************************)
(* rename_markers (python_src/program_markers/iprogram.py): gives the      *)
(* markers of several programs ids that are unique across them.            *)
(*                                                                         *)
(* The first program is kept.  For every other one the function collects   *)
(* the new names of its markers, in the order of its markers tuple, and    *)
(* then rewrites the code by one str.replace per marker, the greatest old  *)
(* id first.  A replacement rewrites every occurrence of the old macro,    *)
(* those an earlier replacement has produced included.                     *)
(***************************************************************************)
EXTENDS Integers, Sequences

CONSTANTS
    Sites,    \* the places of a program where a macro can stand
    Inputs    \* the lists of programs the function is called with

Name == [kind : {"DCE", "VR"}, id : Nat]

(* What stands at a site that holds no macro.                              *)
NoMacro == [kind |-> "none", id |-> 0]

Code == [Sites -> Name \cup {NoMacro}]

Program == [markers : Seq(Name), code : Code]

NamesOf(p) == {p.markers[i] : i \in DOMAIN p.markers}

(* __post_init__ guarantees that ids are unique, and every macro in the    *)
(* code is that of a marker, at one site or at several.                    *)
ValidProgram(p) ==
    /\ p \in Program
    /\ \A i, j \in DOMAIN p.markers : p.markers[i].id = p.markers[j].id => i = j
    /\ \A s \in Sites : p.code[s] \in NamesOf(p) \cup {NoMacro}

ValidInput(input) ==
    /\ input \in Seq(Program)
    /\ input # <<>>
    /\ \A n \in 1..Len(input) : ValidProgram(input[n])

ASSUME InputsAssumption == \A input \in Inputs : ValidInput(input)

VARIABLES
    programs,           \* the argument
    new_programs,       \* the programs done so far
    current_marker_id,  \* the next id to hand out
    replacements,       \* old name -> new name, for the program being renamed
    pending,            \* the old names still to be replaced in its code
    code,               \* its code
    pc                  \* "collect" or "replace"

vars == <<programs, new_programs, current_marker_id, replacements, pending, code, pc>>

-----------------------------------------------------------------------------
Current == programs[Len(new_programs) + 1]

IndexOf(p, m) == CHOOSE i \in DOMAIN p.markers : p.markers[i] = m

(* Marker.update_id                                                        *)
UpdateId(m, new_id) == [kind |-> m.kind, id |-> new_id]

(* str.replace                                                             *)
ReplaceMacro(text, old, new) ==
    [s \in Sites |-> IF text[s] = old THEN new ELSE text[s]]

Init ==
    /\ programs \in Inputs
    /\ new_programs = <<programs[1]>>
    /\ current_marker_id = Len(programs[1].markers)
    /\ replacements = [m \in {} |-> m]
    /\ pending = {}
    /\ code = [s \in Sites |-> NoMacro]
    /\ pc = "collect"

collect_markers ==
    /\ pc = "collect"
    /\ Len(new_programs) < Len(programs)
    /\ replacements' = [m \in NamesOf(Current) |->
            UpdateId(m, current_marker_id + IndexOf(Current, m) - 1)]
    /\ current_marker_id' = current_marker_id + Len(Current.markers)
    /\ pending' = NamesOf(Current)
    /\ code' = Current.code
    /\ pc' = "replace"
    /\ UNCHANGED <<programs, new_programs>>

(* Seeded fault: the replacements are applied in ascending order.          *)
ReplaceLowest ==
    /\ pc = "replace"
    /\ \E old \in pending :
          /\ \A m \in pending : old.id <= m.id
          /\ code' = ReplaceMacro(code, old, replacements[old])
          /\ pending' = pending \ {old}
    /\ UNCHANGED <<programs, new_programs, current_marker_id, replacements, pc>>

replace_next ==
    /\ pc = "replace"
    /\ \E old \in pending :
          /\ \A m \in pending : m.id <= old.id
          /\ code' = ReplaceMacro(code, old, replacements[old])
          /\ pending' = pending \ {old}
    /\ UNCHANGED <<programs, new_programs, current_marker_id, replacements, pc>>

new_program ==
    LET names == Current.markers
    IN  [markers |-> [i \in 1..Len(names) |-> replacements[names[i]]], code |-> code]

(* Seeded fault: the counter starts again for every program.               *)
FinishResetting ==
    /\ pc = "replace" /\ pending = {}
    /\ new_programs' = Append(new_programs, new_program)
    /\ current_marker_id' = Len(programs[1].markers)
    /\ pc' = "collect"
    /\ UNCHANGED <<programs, replacements, pending, code>>

finish_program ==
    /\ pc = "replace" /\ pending = {}
    /\ new_programs' = Append(new_programs, new_program)
    /\ pc' = "collect"
    /\ UNCHANGED <<programs, current_marker_id, replacements, pending, code>>

Next == collect_markers \/ replace_next \/ finish_program

Spec == Init /\ [][Next]_vars

-----------------------------------------------------------------------------
(* Properties                                                              *)

Renamed == (1..Len(new_programs)) \ {1}

(* The ids handed out so far are those from the number of markers of the   *)
(* first program up to the counter.                                        *)
HandedOut == Len(programs[1].markers)..(current_marker_id - 1)

(* No name that is put into the code is the old name of a marker that is   *)
(* replaced later.                                                         *)
OrderSafe(n) ==
    LET old == programs[n].markers
        new == new_programs[n].markers
    IN  \A i, j \in DOMAIN old :
            (new[i] = old[j] /\ \E s \in Sites : programs[n].code[s] = old[i])
                => old[i].id <= old[j].id

(* "Rename all the markers in `programs` to be unique"                     *)
MarkersUnique ==
    \A n, m \in 1..Len(new_programs) :
        \A i \in DOMAIN new_programs[n].markers, j \in DOMAIN new_programs[m].markers :
            new_programs[n].markers[i].id = new_programs[m].markers[j].id
                => n = m /\ i = j

(* "the programs with renamed markers": where the code had a marker, it    *)
(* has that marker under its new name.                                     *)
SitesFollow(n) ==
    \A s \in Sites :
        new_programs[n].code[s] =
            IF programs[n].code[s] = NoMacro THEN NoMacro
            ELSE new_programs[n].markers[IndexOf(programs[n], programs[n].code[s])]

SitesFollowMarkers == \A n \in Renamed : SitesFollow(n)

(* The ids are unique across the programs exactly if the first program,    *)
(* which keeps its ids, has none of those handed out.                      *)
UniqueIffNotTaken ==
    pc = "collect" =>
        (MarkersUnique <=> \A i \in DOMAIN programs[1].markers :
                               programs[1].markers[i].id \notin HandedOut)

(* A program's sites follow its markers exactly if its replacements are    *)
(* order safe.                                                             *)
FollowIffOrderSafe == \A n \in Renamed : OrderSafe(n) <=> SitesFollow(n)
=============================================================================
