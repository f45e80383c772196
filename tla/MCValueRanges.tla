---------------------------- MODULE MCValueRanges ----------------------------
(* Two bits for a char and a short, three for an int, four for a long and  *)
(* a long long: the order of the widths that Linux has.                    *)
EXTENDS ValueRanges

AllTypes == SignedNames \cup UnsignedNames

(* A type that holds every unsigned long long, as gcc has it.              *)
Int128 == [max |-> 127, signed |-> TRUE]

(* clang takes such a literal for an unsigned long long.                   *)
UnsignedLongLong == [max |-> 7, signed |-> FALSE]
=============================================================================
