----------------------------- MODULE ValueRanges -----------------------------
(***************************************************************************)
(* The numbers of a VR marker on their way through C and Python            *)
(* (python_src/program_markers/markers.py, instrumenter.py): the type of   *)
(* the instrumented variable becomes the type of the tracking code's       *)
(* globals and a format specifier; what is printed becomes Python integers;*)
(* and these become decimal literals of the guard, which C compares with   *)
(* the variable after its usual arithmetic conversions.                    *)
(*                                                                         *)
(* TrackingCode is about the order of the statements, and has one type.    *)
(***************************************************************************)
EXTENDS Integers

CONSTANTS
    Declared,    \* types a variable may have, as clang spells them
    CharMax, ShortMax, IntMax, LongMax, LongLongMax,  \* limits of signed types
    CharSigned,  \* whether plain char is signed
    BigLiteral   \* the type given to a decimal literal no long long holds

Maxima == {0, CharMax, ShortMax, IntMax, LongMax, LongLongMax}

(* A wider type has a bit more at the least.                               *)
ASSUME MaximaAssumption ==
    /\ Maxima \subseteq Nat
    /\ CharMax <= ShortMax /\ CharMax < IntMax /\ ShortMax <= IntMax
    /\ IntMax <= LongMax /\ LongMax <= LongLongMax
    /\ \A m, n \in Maxima : m < n => 2 * m + 1 <= n

VARIABLES
    declared,  \* the type of the instrumented variable
    range,     \* the bounds of the marker
    tracked,   \* the globals <name>_LB and <name>_UB, once encountered
    met,       \* the least and the greatest value of the run
    verdicts,  \* the evaluation of the marker's guard just made, if any
    phase      \* "made", "tracking", "refined" or "raised"

vars == <<declared, range, tracked, met, verdicts, phase>>

-----------------------------------------------------------------------------
(* Integer types of C                                                      *)

MaxOf(name) ==
    CASE name \in {"_Bool", "bool"} -> 0
      [] name \in {"char", "signed char", "unsigned char"} -> CharMax
      [] name \in {"short", "unsigned short"} -> ShortMax
      [] name \in {"int", "unsigned int"} -> IntMax
      [] name \in {"long", "unsigned long"} -> LongMax
      [] name \in {"long long", "unsigned long long"} -> LongLongMax

SignedNames ==
    {"signed char", "short", "int", "long", "long long"}
        \cup (IF CharSigned THEN {"char"} ELSE {})

UnsignedNames ==
    {"_Bool", "bool", "unsigned char", "unsigned short", "unsigned int",
     "unsigned long", "unsigned long long"}
        \cup (IF CharSigned THEN {} ELSE {"char"})

(* max is the greatest value of the signed type of the same width.         *)
TypeOf(name) == [max |-> MaxOf(name), signed |-> name \in SignedNames]

IntType == TypeOf("int")
LongType == TypeOf("long")
LongLongType == TypeOf("long long")

ValuesOf(t) == IF t.signed THEN -(t.max + 1)..t.max ELSE 0..(2 * t.max + 1)

ASSUME TypesAssumption ==
    /\ Declared \subseteq SignedNames \cup UnsignedNames
    /\ CharSigned \in BOOLEAN
    /\ BigLiteral \in [max : Nat, signed : BOOLEAN]
    /\ BigLiteral.max >= LongLongMax
    /\ ValuesOf(TypeOf("unsigned long long")) \subseteq ValuesOf(BigLiteral)

(* The member of ValuesOf(t) that is equal to n modulo their number.       *)
Convert(n, t) ==
    LET count == 2 * (t.max + 1)
        r == n % count
    IN  IF r \in ValuesOf(t) THEN r ELSE r - count

Promoted(t) == IF t.max < IntMax THEN IntType ELSE t

(* The usual arithmetic conversions: the wider type, or the unsigned one.  *)
Common(t, u) ==
    LET p == Promoted(t)
        q == Promoted(u)
    IN  IF p.max > q.max \/ (p.max = q.max /\ q.signed) THEN p ELSE q

LiteralType(n) ==
    IF n \in ValuesOf(IntType) THEN IntType
    ELSE IF n \in ValuesOf(LongType) THEN LongType
    ELSE IF n \in ValuesOf(LongLongType) THEN LongLongType ELSE BigLiteral

-----------------------------------------------------------------------------
(* The Python side                                                         *)

convert_variable_type(name) ==
    IF name = "_Bool" THEN "bool" ELSE IF name = "signed char" THEN "char" ELSE name

variable_type == convert_variable_type(declared)

(* The type of the globals and of the parameter of track_<name>.           *)
TrackedType == TypeOf(IF variable_type = "bool" THEN "int" ELSE variable_type)

(* Seeded fault: unsigned short is printed with "%hd".                     *)
FormatSpecifier_SignedShort(name) ==
    IF name \in {"bool", "char", "int"} THEN IntType
    ELSE IF name \in {"unsigned char", "unsigned int"} THEN TypeOf("unsigned int")
    ELSE IF name = "unsigned short" THEN TypeOf("short")
    ELSE TypeOf(name)

(* The type its argument is converted to when it is printed.               *)
format_specifier(name) ==
    IF name \in {"bool", "char", "int"} THEN IntType
    ELSE IF name \in {"unsigned char", "unsigned int"} THEN TypeOf("unsigned int")
    ELSE TypeOf(name)

Printed(n) == Convert(n, format_specifier(variable_type))

(* A negative bound is the negation of a literal.                          *)
Bound(n) ==
    LET t == LiteralType(IF n < 0 THEN -n ELSE n)
    IN  [type |-> t, value |-> Convert(n, t)]

AtLeast(x, b) ==
    LET t == Common(TypeOf(declared), b.type) IN Convert(x, t) >= Convert(b.value, t)

AtMost(x, b) ==
    LET t == Common(TypeOf(declared), b.type) IN Convert(x, t) <= Convert(b.value, t)

(* Seeded fault: the upper bound is exclusive.                             *)
StatementPrefix_Exclusive(x) ==
    ~(AtLeast(x, Bound(range.lb)) /\ ~AtLeast(x, Bound(range.ub)))

(* Whether "if (!(((VAR) >= lb) && ((VAR) <= ub)))" is taken.              *)
marker_statement_prefix(x) ==
    ~(AtLeast(x, Bound(range.lb)) /\ AtMost(x, Bound(range.ub)))

-----------------------------------------------------------------------------
None == [lb |-> 1, ub |-> 0]

Init ==
    /\ declared \in Declared
    /\ range = [lb |-> 0, ub |-> 0]
    /\ tracked = None /\ met = None
    /\ verdicts = {}
    /\ phase = "made"

(* Control reaches the site of the enabled marker.                         *)
evaluate ==
    /\ phase \in {"made", "refined"}
    /\ \E x \in ValuesOf(TypeOf(declared)) :
          verdicts' = {[value |-> x, fired |-> marker_statement_prefix(x)]}
    /\ UNCHANGED <<declared, range, tracked, met, phase>>

(* r with x as one of the values it spans.                                 *)
Spanning(r, x) ==
    IF r = None THEN [lb |-> x, ub |-> x]
    ELSE [lb |-> IF x < r.lb THEN x ELSE r.lb, ub |-> IF x > r.ub THEN x ELSE r.ub]

(* Control reaches the site in a program that tracks for refinement.       *)
track ==
    /\ phase # "raised"
    /\ \E x \in ValuesOf(TypeOf(declared)) :
          /\ tracked' = Spanning(tracked, Convert(x, TrackedType))
          /\ met' = Spanning(IF phase = "tracking" THEN met ELSE None, x)
    /\ verdicts' = {}
    /\ phase' = "tracking"
    /\ UNCHANGED <<declared, range>>

(* The destructor prints, parse_tracked_output_for_refinement builds a new *)
(* VRMarker, and __post_init__ asserts that its bounds are in order.       *)
refine ==
    /\ phase = "tracking"
    /\ LET new == [lb |-> Printed(tracked.lb), ub |-> Printed(tracked.ub)]
       IN  IF new.lb <= new.ub THEN range' = new /\ phase' = "refined"
           ELSE range' = range /\ phase' = "raised"
    /\ tracked' = None
    /\ UNCHANGED <<declared, met, verdicts>>

Next == evaluate \/ track \/ refine

Spec == Init /\ [][Next]_vars

-----------------------------------------------------------------------------
(* Properties                                                              *)

(* "The marker is dead if `var` in [LowerBound, UpperBound]" (VRMarker):   *)
(* the guard, as C evaluates it, fires for exactly the values outside of   *)
(* the bounds, whatever the types of the variable and of the literals.     *)
DeadInRange ==
    \A w \in verdicts : w.fired <=> w.value \notin range.lb..range.ub

(* No value is changed on its way from the variable through the tracking   *)
(* code and printf into the bounds: a refinement gives the least and the   *)
(* greatest value of the run, and does not raise.                          *)
RefinedToSpan ==
    /\ phase # "raised"
    /\ phase = "refined" => range = met
=============================================================================
