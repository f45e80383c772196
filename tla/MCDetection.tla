---------------------------- MODULE MCDetection ----------------------------
(* Nine-bit integers for the 32 bits of an int, base 4 and one magic       *)
(* digit: ids of up to three digits fit, as they do in C.                  *)
EXTENDS Detection, TLC

MCIntMax == 255

MCPattern ==
    ("FunctionCall" :> "call") @@ ("AsmComment" :> "comment") @@ ("GlobalInt" :> "movl")

(* Instructions, and stores of integers that only look like magic ones.    *)
MCOtherLines ==
    {[op |-> "other", value |-> 0]} \cup {[op |-> "movl", value |-> n] : n \in {3, 16, 100}}

MCIds == {0, 1, 4, 63}

MCLargeIds == {0, 63, 64}
=============================================================================
