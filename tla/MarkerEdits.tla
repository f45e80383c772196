---------------------------- MODULE MarkerEdits ----------------------------
(***************************************************************************)
(* The clang tool at work on one file: RuleActionEditCollector             *)
(* (src/ASTEdits.cpp) and the instrumenters that give it their rules and   *)
(* apply what it has collected (src/DCEInstrumenter.cpp,                   *)
(* src/ValueRangeInstrumenter.cpp).                                        *)
(*                                                                         *)
(* Clang reports the matches of the rules one after the other, a statement *)
(* before those inside it.  Each match yields edits; an edit that places a *)
(* marker takes the next number.  All of them insert text at an offset of  *)
(* the original file.  Offsets count tokens, as if there were no white     *)
(* space, so that texts meet at one offset as often as they can.           *)
(***************************************************************************)
EXTENDS Integers, Sequences

CONSTANT Sources   \* the files, each with the matches clang reports in it

(* A body of an if or a loop; NoBody is the else branch an if lacks.       *)
Body == [compound : BOOLEAN, begin : Nat, end : Nat]
NoBody == [compound |-> FALSE, begin |-> 0, end |-> 0]

(* One match of a rule: the statement it was found in spans begin to end.  *)
(* The offset at is that of the keyword while of a do, of what follows the *)
(* colon of a case, or of a statement that uses a variable.                *)
Match == [rule : {"If", "Loop", "Do", "Case", "Range"}, begin : Nat, end : Nat,
          then : Body, else : Body, at : Nat]

Encloses(m, n) == m.begin < n.begin /\ n.end <= m.end

(* Where the parts of a statement are; a block has two braces.             *)
WellPlaced(m) ==
    /\ m.begin < m.end
    /\ \A b \in {m.then, m.else} : b.compound => b.begin + 1 < b.end
    /\ m.rule \in {"If", "Loop", "Do"} =>
           m.begin < m.then.begin /\ m.then.begin < m.then.end /\ m.then.end <= m.end
    /\ m.rule = "If" /\ m.else # NoBody =>
           m.then.end < m.else.begin /\ m.else.begin < m.else.end /\ m.else.end <= m.end
    /\ m.rule = "Do" => m.then.end <= m.at /\ m.at < m.end
    /\ m.rule \in {"Case", "Range"} => m.begin <= m.at /\ m.at < m.end

ASSUME SourcesAssumption ==
    \A s \in Sources :
        /\ s.length \in Nat
        /\ s.matches \in Seq(Match)
        /\ \A i \in DOMAIN s.matches :
              WellPlaced(s.matches[i]) /\ s.matches[i].end <= s.length
        /\ \A i, j \in DOMAIN s.matches :
              i < j => ~Encloses(s.matches[j], s.matches[i])

VARIABLES
    source,             \* the file
    match,              \* the match whose edits are being run, by its number
    edit,               \* how many of its edits have been run
    Replacements,       \* the vector of the same name
    NumberMarkerDecls,  \* FileToNumberMarkerDecls of the file
    declared,           \* the numbers of the markers the tool prints
    unapplied,          \* replacements not yet applied: the first ones
    inserted,           \* FileToReplacements of the file: offset -> the
                        \* replacements merged there, in the order of the text
    pc                  \* "collect" or "apply"

vars == <<source, match, edit, Replacements, NumberMarkerDecls, declared,
          unapplied, inserted, pc>>

-----------------------------------------------------------------------------
(* The edits of a rule.  The text is one of                                *)
(*   call    a marker                  {call   an opening brace, a marker  *)
(*   else    an else branch with a marker                                  *)
(*   {       an opening brace          }       a closing brace             *)

Edit(offset, text) == [offset |-> offset, text |-> text]

HasMarker(e) == e.text \in {"call", "{call", "else"}

InstrumentCStmt(b) == <<Edit(b.begin + 1, "call")>>

InstrumentNonCStmt(b) == <<Edit(b.begin, "{call"), Edit(b.end, "}")>>

InstrumentStmt(b) == IF b.compound THEN InstrumentCStmt(b) ELSE InstrumentNonCStmt(b)

(* Seeded fault: the branches in the order of the source.                  *)
HandleIf_ThenFirst(m) ==
    InstrumentStmt(m.then) \o
    (IF m.else = NoBody THEN <<Edit(m.end, "else")>> ELSE InstrumentStmt(m.else))

handleIfStmt(m) ==
    (IF m.else = NoBody THEN <<Edit(m.end, "else")>> ELSE InstrumentStmt(m.else))
    \o InstrumentStmt(m.then)

handleDoWhile(m) ==
    IF m.then.compound THEN InstrumentCStmt(m.then)
    ELSE <<Edit(m.then.begin, "call"), Edit(m.then.begin, "{"), Edit(m.at, "}")>>

Edits(m) ==
    CASE m.rule = "If" -> handleIfStmt(m)
      [] m.rule = "Loop" -> InstrumentStmt(m.then)
      [] m.rule = "Do" -> handleDoWhile(m)
      [] m.rule \in {"Case", "Range"} -> <<Edit(m.at, "call")>>

NoMarker == -1

-----------------------------------------------------------------------------
Init ==
    /\ source \in Sources
    /\ match = 1
    /\ edit = 0
    /\ Replacements = <<>>
    /\ NumberMarkerDecls = 0
    /\ declared = {}
    /\ unapplied = 0
    /\ inserted = [o \in 0..source.length |-> <<>>]
    /\ pc = "collect"

(* Seeded fault: a marker in a new else branch does not take its number.   *)
RunEdit_ElseUncounted ==
    /\ pc = "collect"
    /\ match <= Len(source.matches)
    /\ edit < Len(Edits(source.matches[match]))
    /\ LET e == Edits(source.matches[match])[edit + 1] IN
         /\ Replacements' = Append(Replacements,
                [offset |-> e.offset, text |-> e.text,
                 marker |-> IF HasMarker(e) THEN NumberMarkerDecls ELSE NoMarker,
                 match |-> match, edit |-> edit + 1])
         /\ NumberMarkerDecls' =
                NumberMarkerDecls + (IF e.text \in {"call", "{call"} THEN 1 ELSE 0)
    /\ edit' = edit + 1
    /\ UNCHANGED <<source, match, declared, unapplied, inserted, pc>>

(* One turn of the loop over the edits of a match.  match and edit are     *)
(* recorded for the properties; a clang Replacement has neither.           *)
run_edit ==
    /\ pc = "collect"
    /\ match <= Len(source.matches)
    /\ edit < Len(Edits(source.matches[match]))
    /\ LET e == Edits(source.matches[match])[edit + 1] IN
         /\ Replacements' = Append(Replacements,
                [offset |-> e.offset, text |-> e.text,
                 marker |-> IF HasMarker(e) THEN NumberMarkerDecls ELSE NoMarker,
                 match |-> match, edit |-> edit + 1])
         /\ NumberMarkerDecls' = NumberMarkerDecls + (IF HasMarker(e) THEN 1 ELSE 0)
    /\ edit' = edit + 1
    /\ UNCHANGED <<source, match, declared, unapplied, inserted, pc>>

next_match ==
    /\ pc = "collect"
    /\ match <= Len(source.matches)
    /\ edit = Len(Edits(source.matches[match]))
    /\ match' = match + 1
    /\ edit' = 0
    /\ UNCHANGED <<source, Replacements, NumberMarkerDecls, declared, unapplied,
                   inserted, pc>>

(* applyReplacements prints the names of the markers ...                   *)
print_markers ==
    /\ pc = "collect"
    /\ match > Len(source.matches)
    /\ declared' = 0..NumberMarkerDecls-1
    /\ unapplied' = Len(Replacements)
    /\ pc' = "apply"
    /\ UNCHANGED <<source, match, edit, Replacements, NumberMarkerDecls, inserted>>

(* Seeded fault: a conflicting replacement is merged at the unshifted      *)
(* offset, in front of what is there.                                      *)
AddReplacement_Unshifted ==
    /\ pc = "apply"
    /\ unapplied > 0
    /\ inserted' = [inserted EXCEPT ![Replacements[unapplied].offset] =
                        <<unapplied>> \o @]
    /\ unapplied' = unapplied - 1
    /\ UNCHANGED <<source, match, edit, Replacements, NumberMarkerDecls, declared, pc>>

(* ... and applies the replacements from the last to the first.  If add    *)
(* finds other text at the offset it either merges two texts whose order   *)
(* makes no difference or refuses; the offset shifted by all that has been *)
(* inserted up to it is then behind that text.                             *)
add_replacement ==
    /\ pc = "apply"
    /\ unapplied > 0
    /\ inserted' = [inserted EXCEPT ![Replacements[unapplied].offset] =
                        Append(@, unapplied)]
    /\ unapplied' = unapplied - 1
    /\ UNCHANGED <<source, match, edit, Replacements, NumberMarkerDecls, declared, pc>>

Next == run_edit \/ next_match \/ print_markers \/ add_replacement

Spec == Init /\ [][Next]_vars

-----------------------------------------------------------------------------
(* Properties                                                              *)

Offsets == 0..source.length

Done == pc = "apply" /\ unapplied = 0

(* At every offset the text of an inner statement stands before that of    *)
(* the statements around it, so that what they open and close nests; texts *)
(* of one statement meet only where a body ends before a new else branch,  *)
(* or where a do opens its body before the marker.                         *)
InnerFirst ==
    \A o \in Offsets : \A p, q \in DOMAIN inserted[o] : p < q =>
        LET r == Replacements[inserted[o][p]]
            t == Replacements[inserted[o][q]]
        IN  /\ ~Encloses(source.matches[r.match], source.matches[t.match])
            /\ r.match = t.match =>
                   <<r.text, t.text>> \in {<<"}", "else">>, <<"{", "call">>}

(* The places of the replacements in the text.                             *)
Spots == UNION {{<<o, p>> : p \in DOMAIN inserted[o]} : o \in Offsets}

MarkerAt(spot) == Replacements[inserted[spot[1]][spot[2]]].marker

(* When the tool is done, the markers in the file are those it prints,     *)
(* each in one place: what instrument_program takes for granted.           *)
MarkersDeclared ==
    Done =>
        /\ \A spot \in Spots : MarkerAt(spot) \in declared \cup {NoMarker}
        /\ \A n \in declared : \E spot \in Spots :
              \A other \in Spots : MarkerAt(other) = n <=> other = spot
=============================================================================
