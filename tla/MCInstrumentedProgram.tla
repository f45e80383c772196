----------------------- MODULE MCInstrumentedProgram -----------------------
(* A program with one DCE and one VR marker, and three inputs.             *)
EXTENDS InstrumentedProgram, TLC

MCValues == 0..2

(* Up to two markers in any state that can be constructed: stale ones, two *)
(* states of the same VR marker, lists of which only a part is acceptable. *)
MCArguments == {{}} \cup {{m, n} : m, n \in Marker}

(* One process per input, or two of which one was forked.                  *)
MCRuns ==
    LET P(dce, vr) == (0 :> dce) @@ (1 :> vr)
    IN  {{P({0}, {1})},
         {P({}, {0, 2})},
         {P({0}, {1, 2}), P({}, {0}), P({}, {})}}
=============================================================================
