----------------------------- MODULE Detection -----------------------------
(***************************************************************************)
(* Finding markers in assembly: the strategies of                          *)
(* python_src/program_markers/markers.py, and the search that              *)
(* find_non_eliminated_markers_impl (iprogram.py) makes with them.         *)
(*                                                                         *)
(* The macro of an enabled marker becomes a statement the strategy can     *)
(* recognise: a call of the marker's function, a comment with its name, or *)
(* a store of the magic integer 1234123<id>.  The compiler keeps some of   *)
(* these statements; the search reads the assembly line by line.           *)
(***************************************************************************)
EXTENDS Integers

CONSTANTS
    Ids,         \* the ids of the program's markers
    Strategies,  \* the detection strategies
    Pattern,     \* strategy -> "call", "comment" or "movl"
    FunctionCall,\* the strategy instrument_program starts with
    Magic,       \* the digits every magic integer begins with, as a number
    Base,        \* integers are written in this base
    IntMax,      \* greatest value of an int
    OtherLines   \* lines of assembly that do not come from markers

ASSUME IdsAssumption == Ids \subseteq Nat

ASSUME StrategiesAssumption ==
    /\ Pattern \in [Strategies -> {"call", "comment", "movl"}]
    /\ FunctionCall \in Strategies /\ Pattern[FunctionCall] = "call"

ASSUME NumbersAssumption ==
    Magic \in Nat \ {0} /\ Base \in Nat \ {0, 1} /\ IntMax \in Nat

VARIABLES
    enabled,    \* the enabled markers of the program
    strategy,   \* its marker_strategy, with which its markers are emitted
    surviving,  \* the markers whose statement the last compilation kept
    lines,      \* the lines of assembly still to be searched
    found,      \* non_eliminated_markers
    pc          \* "compiled", "idle", or "raised"

vars == <<enabled, strategy, surviving, lines, found, pc>>

-----------------------------------------------------------------------------
(* Magic integers                                                          *)

power[w \in Nat] == IF w = 0 THEN 1 ELSE Base * power[w - 1]

(* The number of digits of n.                                              *)
Width(n) == CHOOSE w \in 1..(n + 1) : n < power[w] /\ (w = 1 \/ n >= power[w - 1])

(* The text of the id behind the text of the magic number.                 *)
MagicInt(i) == Magic * power[Width(i)] + i

(* The initializer of an int variable: the conversion keeps the low bits,  *)
(* and the assembler is given a signed number.                             *)
Stored(n) ==
    LET modulus == 2 * (IntMax + 1)
    IN  ((n + IntMax + 1) % modulus) - (IntMax + 1)

(* What the expansion of marker i leaves in the assembly.  A call or       *)
(* comment line holds the marker's name, which ends in _ and has its id.   *)
LineOf(s, i) ==
    [op |-> Pattern[s],
     value |-> IF Pattern[s] = "movl" THEN Stored(MagicInt(i)) ELSE i]

(* detect_marker_id: the ids whose text the pattern finds in a line, at    *)
(* most one.                                                               *)
Detected(s, line) ==
    IF line.op # Pattern[s] THEN {}
    ELSE IF line.op = "movl" THEN {i \in 0..line.value : MagicInt(i) = line.value}
    ELSE {line.value}

-----------------------------------------------------------------------------
Init ==
    /\ enabled = Ids
    /\ strategy = FunctionCall
    /\ surviving = {} /\ lines = {} /\ found = {}
    /\ pc = "idle"

(* The operations that retire markers: their sites hold no statement that  *)
(* a pattern finds.                                                        *)
disable_markers ==
    /\ pc # "compiled"
    /\ \E S \in SUBSET enabled : enabled' = enabled \ S
    /\ UNCHANGED <<strategy, surviving, lines, found, pc>>

with_marker_strategy ==
    /\ pc # "compiled"
    /\ strategy' \in Strategies
    /\ UNCHANGED <<enabled, surviving, lines, found, pc>>

(* compile_program: any marker may be kept or eliminated.                  *)
compile ==
    /\ pc # "compiled"
    /\ surviving' \in SUBSET enabled
    /\ lines' = {LineOf(strategy, i) : i \in surviving'} \cup OtherLines
    /\ found' = {}
    /\ pc' = "compiled"
    /\ UNCHANGED <<enabled, strategy>>

(* Seeded fault: the search ends at a line without a marker.               *)
SearchLine_Return ==
    /\ pc = "compiled"
    /\ \E line \in lines :
          LET ids == Detected(strategy, line)
          IN  /\ found' = found \cup (ids \cap enabled)
              /\ lines' = IF ids = {} THEN {} ELSE lines \ {line}
              /\ pc' = IF ids \subseteq enabled THEN pc ELSE "raised"
    /\ UNCHANGED <<enabled, strategy, surviving>>

(* The body of the loop over asm.split("\n"); an id that is not in         *)
(* marker_id_map raises a KeyError.                                        *)
search_line ==
    /\ pc = "compiled"
    /\ \E line \in lines :
          LET ids == Detected(strategy, line)
          IN  /\ found' = found \cup (ids \cap enabled)
              /\ lines' = lines \ {line}
              /\ pc' = IF ids \subseteq enabled THEN pc ELSE "raised"
    /\ UNCHANGED <<enabled, strategy, surviving>>

return ==
    /\ pc = "compiled" /\ lines = {}
    /\ pc' = "idle"
    /\ UNCHANGED <<enabled, strategy, surviving, lines, found>>

Next ==
    \/ disable_markers \/ with_marker_strategy
    \/ compile \/ search_line \/ return

Spec == Init /\ [][Next]_vars

-----------------------------------------------------------------------------
(* Properties                                                              *)

(* "Finds non-eliminated markers using the `marker_strategy` in `asm`":    *)
(* the markers found are those whose statement the compiler has kept, no   *)
(* more and no fewer, with every strategy; the search never raises.        *)
FindsNonEliminated ==
    /\ pc # "raised"
    /\ pc = "idle" => found = surviving
=============================================================================
