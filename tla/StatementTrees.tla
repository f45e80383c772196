--------------------------- MODULE StatementTrees ---------------------------
(***************************************************************************)
(* Statements as trees: the text of one, the matches clang reports in it   *)
(* for the rules of the two instrumenters, and what it should look like    *)
(* when it is instrumented, defined from the inside out.                   *)
(***************************************************************************)
EXTENDS MarkerEdits, SequencesExt

(* kind: "x" and "y" are expression statements that use the variable of    *)
(* that name; a block, an if (one part: no else), a while or for, a do, a  *)
(* switch (one statement per case).                                        *)
Tree(kind, parts) == [kind |-> kind, parts |-> parts]

ConcatAll(seqs) == FlattenSeq(seqs)

-----------------------------------------------------------------------------
(* Text                                                                    *)

RECURSIVE Text(_)
Text(t) ==
    LET Part(n) == Text(t.parts[n]) IN
    CASE t.kind \in {"x", "y"} -> <<t.kind>>
      [] t.kind = "block" ->
           <<"{">> \o ConcatAll([n \in DOMAIN t.parts |-> Part(n)]) \o <<"}">>
      [] t.kind = "if" ->
           <<"if()">> \o Part(1) \o
               (IF Len(t.parts) = 2 THEN <<"else">> \o Part(2) ELSE <<>>)
      [] t.kind = "while" -> <<"while()">> \o Part(1)
      [] t.kind = "do" -> <<"do">> \o Part(1) \o <<"while();">>
      [] t.kind = "switch" ->
           <<"switch(){">> \o ConcatAll([n \in DOMAIN t.parts |-> <<"case:">> \o Part(n)])
               \o <<"}">>

Width(t) == Len(Text(t))

(* An else after such a statement would be taken for its own.              *)
RECURSIVE OpenIf(_)
OpenIf(t) ==
    \/ t.kind = "if" /\ (Len(t.parts) = 1 \/ OpenIf(t.parts[2]))
    \/ t.kind = "while" /\ OpenIf(t.parts[1])

RECURSIVE Variables(_)
Variables(t) ==
    IF t.parts = <<>> THEN {t.kind} \cap {"x", "y"}
    ELSE UNION {Variables(t.parts[n]) : n \in DOMAIN t.parts}

-----------------------------------------------------------------------------
(* Matches.  A statement that begins at offset at.                         *)

Placed(t, at) == [tree |-> t, at |-> at]

(* Tokens in front of the n-th part of t.                                  *)
RECURSIVE Before(_, _)
Before(t, n) ==
    IF n = 1 THEN (IF t.kind = "switch" THEN 2 ELSE 1)
    ELSE Before(t, n - 1) + Width(t.parts[n - 1])
             + (IF t.kind \in {"if", "switch"} THEN 1 ELSE 0)

Child(s, n) == Placed(s.tree.parts[n], s.at + Before(s.tree, n))

BodyOf(s) == [compound |-> s.tree.kind = "block", begin |-> s.at,
              end |-> s.at + Width(s.tree)]

MatchOf(s, rule, at) ==
    LET parts == Len(s.tree.parts) IN
    [rule |-> rule, begin |-> s.at, end |-> s.at + Width(s.tree), at |-> at,
     then |-> IF rule \in {"If", "Loop", "Do"} THEN BodyOf(Child(s, 1)) ELSE NoBody,
     else |-> IF rule = "If" /\ parts = 2 THEN BodyOf(Child(s, 2)) ELSE NoBody]

(* The rules of DCEInstrumenter at one statement.  clang lists the cases   *)
(* of a switch from the last to the first; the first one has a rule of its *)
(* own, which comes before.                                                *)
DCEMatches(s) ==
    LET cases == Len(s.tree.parts) IN
    CASE s.tree.kind = "if" -> <<MatchOf(s, "If", 0)>>
      [] s.tree.kind = "while" -> <<MatchOf(s, "Loop", 0)>>
      [] s.tree.kind = "do" -> <<MatchOf(s, "Do", s.at + Width(s.tree) - 1)>>
      [] s.tree.kind = "switch" ->
           <<MatchOf(s, "Case", Child(s, 1).at)>> \o
               [n \in 1..cases-1 |-> MatchOf(s, "Case", Child(s, cases + 1 - n).at)]
      [] OTHER -> <<>>

(* The rule of ValueRangeInstrumenter: one match for every variable used   *)
(* in a statement of a block or a case that is not a block itself.         *)
VRMatches(s, parent) ==
    IF parent \in {"block", "switch"} /\ s.tree.kind # "block"
    THEN [n \in 1..Cardinality(Variables(s.tree)) |-> MatchOf(s, "Range", s.at)]
    ELSE <<>>

MatchesAt(mode, s, parent) ==
    IF mode = "dce" THEN DCEMatches(s) ELSE VRMatches(s, parent)

(* clang looks at all the children of a statement before it looks at the   *)
(* children of the first of them.                                          *)
RECURSIVE MatchesIn(_, _)
MatchesIn(mode, s) ==
    LET parts == s.tree.parts IN
    ConcatAll([n \in DOMAIN parts |-> MatchesAt(mode, Child(s, n), s.tree.kind)]) \o
    ConcatAll([n \in DOMAIN parts |-> MatchesIn(mode, Child(s, n))])

(* The file is the body of one function.                                   *)
SourceOf(mode, t) ==
    [mode |-> mode, tree |-> t, length |-> Width(t), matches |-> MatchesIn(mode, Placed(t, 0))]

-----------------------------------------------------------------------------
(* Reference: the instrumented text of a statement.                        *)

RECURSIVE WithDCE(_)
WithDCE(t) ==
    LET Inside(s) ==
            IF s.kind = "block" THEN ConcatAll([n \in DOMAIN s.parts |-> WithDCE(s.parts[n])])
            ELSE WithDCE(s)
        Guarded(s) == <<"{", "marker">> \o Inside(s) \o <<"}">>
        Part(n) == t.parts[n]
    IN
    CASE t.kind \in {"x", "y"} -> <<t.kind>>
      [] t.kind = "block" -> <<"{">> \o Inside(t) \o <<"}">>
      [] t.kind = "if" ->
           <<"if()">> \o Guarded(Part(1)) \o <<"else">> \o
               (IF Len(t.parts) = 2 THEN Guarded(Part(2)) ELSE <<"{", "marker", "}">>)
      [] t.kind = "while" -> <<"while()">> \o Guarded(Part(1))
      [] t.kind = "do" -> <<"do">> \o Guarded(Part(1)) \o <<"while();">>
      [] t.kind = "switch" ->
           <<"switch(){">> \o
               ConcatAll([n \in DOMAIN t.parts |-> <<"case:", "marker">> \o WithDCE(Part(n))])
               \o <<"}">>

RECURSIVE WithVR(_)
WithVR(t) ==
    LET Checked(s) ==
            (IF s.kind = "block" THEN <<>>
             ELSE [n \in 1..Cardinality(Variables(s)) |-> "marker"]) \o WithVR(s)
        Part(n) == t.parts[n]
    IN
    CASE t.kind = "block" ->
           <<"{">> \o ConcatAll([n \in DOMAIN t.parts |-> Checked(Part(n))]) \o <<"}">>
      [] t.kind = "switch" ->
           <<"switch(){">> \o ConcatAll([n \in DOMAIN t.parts |-> <<"case:">> \o Checked(Part(n))])
               \o <<"}">>
      [] t.kind = "if" ->
           <<"if()">> \o WithVR(Part(1)) \o
               (IF Len(t.parts) = 2 THEN <<"else">> \o WithVR(Part(2)) ELSE <<>>)
      [] t.kind = "while" -> <<"while()">> \o WithVR(Part(1))
      [] t.kind = "do" -> <<"do">> \o WithVR(Part(1)) \o <<"while();">>
      [] OTHER -> Text(t)

Reference(s) == IF s.mode = "dce" THEN WithDCE(s.tree) ELSE WithVR(s.tree)

-----------------------------------------------------------------------------
(* What the tool leaves in the file.                                       *)

Spelling(text) ==
    CASE text = "call" -> <<"marker">>
      [] text = "{call" -> <<"{", "marker">>
      [] text = "else" -> <<"else", "{", "marker", "}">>
      [] OTHER -> <<text>>

InsertedText(o) ==
    ConcatAll([p \in DOMAIN inserted[o] |-> Spelling(Replacements[inserted[o][p]].text)])

ModifiedCode ==
    LET tokens == Text(source.tree) IN
    ConcatAll([n \in 1..source.length |-> InsertedText(n - 1) \o <<tokens[n]>>])
        \o InsertedText(source.length)

(* However statements nest, with or without braces, the edits of all of    *)
(* them, applied backwards one by one, give the text in which every body   *)
(* is a block of its own that begins with its marker and every if has an   *)
(* else (dce), or every statement follows its range checks (vr).           *)
InstrumentedAsNested == Done => ModifiedCode = Reference(source)
=============================================================================
