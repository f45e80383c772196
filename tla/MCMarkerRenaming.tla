-------------------------- MODULE MCMarkerRenaming --------------------------
(* Lists of three programs: the first and the last with up to two markers, *)
(* the second with any collection of up to MaxLength markers.              *)
EXTENDS MarkerRenaming, SequencesExt

CONSTANTS
    MaxId,      \* greatest id of a marker of the second program
    MaxLength   \* greatest number of its markers

MCSites == 1..6

(* One site per marker, and a last one for the first marker.               *)
Prog(ms) ==
    [markers |-> ms,
     code |-> [s \in MCSites |->
                 CASE s <= Len(ms) -> ms[s]
                   [] s = 6 /\ ms # <<>> -> ms[1]
                   [] OTHER -> NoMacro]]

N(kind, id) == [kind |-> kind, id |-> id]

Fresh(kind, n) == Prog([i \in 1..n |-> N(kind, i - 1)])

(* The program with the macros of its second marker gone from the code.    *)
Without2nd(p) ==
    [p EXCEPT !.code = [s \in MCSites |->
        IF Len(p.markers) > 1 /\ @[s] = p.markers[2] THEN NoMacro ELSE @[s]]]

(* Any order, any kinds and any gaps.                                      *)
AnyProgram ==
    LET Complete ==
            {Prog(ms) : ms \in
                {s \in SeqOf({N(k, i) : k \in {"DCE", "VR"}, i \in 0..MaxId}, MaxLength) :
                    \A i, j \in DOMAIN s : s[i].id = s[j].id => i = j}}
    IN  Complete \cup {Without2nd(p) : p \in Complete}

AllInputs ==
    {<<p, q, r>> : p \in {Fresh("DCE", n) : n \in 0..2} \cup {Prog(<<N("DCE", 1)>>)},
                   q \in AnyProgram,
                   r \in {Fresh("VR", 2)}}

-----------------------------------------------------------------------------
(* What instrument_program returns in mode DCE_AND_VR for a program with   *)
(* three VR and two DCE markers, renamed after a program with two markers. *)
CombinedInput ==
    {<<Fresh("DCE", 2),
       Prog(<<N("DCE", 3), N("DCE", 4), N("VR", 0), N("VR", 1), N("VR", 2)>>)>>}

(* A program whose marker 0 was disabled and preprocessed away, and a      *)
(* fresh one.                                                              *)
SparseInput == {<<Prog(<<N("DCE", 1)>>), Fresh("DCE", 1)>>}
=============================================================================
