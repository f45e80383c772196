-------------------------- MODULE MarkerEditsProofs --------------------------
(***************************************************************************)
(* Proofs about MarkerEdits, for files of any length with any matches, in  *)
(* every order in which a statement comes before those inside it.          *)
(***************************************************************************)
EXTENDS MarkerEdits, SequenceTheorems, TLAPS

Texts == {"call", "{call", "else", "{", "}"}

Edited == [offset : Nat, text : Texts]

-----------------------------------------------------------------------------
(* The edits of one match                                                  *)

(* Of two edits of one match at one offset, the second is a closing brace  *)
(* and the first an else, or they open the body of a do.                   *)
Meet(a, b) ==
    a.offset = b.offset =>
        <<b.text, a.text>> \in {<<"}", "else">>, <<"{", "call">>}

EditList(es, end) ==
    /\ Len(es) \in Nat
    /\ DOMAIN es = 1..Len(es)
    /\ \A k \in DOMAIN es : es[k] \in Edited /\ es[k].offset <= end
    /\ \A k, l \in DOMAIN es : k < l => Meet(es[k], es[l])

(* A list of one edit.                                                     *)
LEMMA ListOfOne ==
    ASSUME NEW end \in Nat, NEW a \in Edited, a.offset <= end
    PROVE  EditList(<<a>>, end)
BY DEF EditList

(* Two edits that do not meet, or meet as they may, make a list.           *)
LEMMA ListOfTwo ==
    ASSUME NEW end \in Nat, NEW a \in Edited, NEW b \in Edited,
           a.offset <= end, b.offset <= end, Meet(a, b)
    PROVE  EditList(<<a, b>>, end)
<1> DEFINE es == <<a, b>>
<1>1. Len(es) = 2 /\ DOMAIN es = {1, 2} /\ es[1] = a /\ es[2] = b
  OBVIOUS
<1> HIDE DEF es
<1>2. EditList(es, end)
  BY <1>1 DEF EditList
<1> QED BY <1>2 DEF es

(* So do three ...                                                         *)
LEMMA ListOfThree ==
    ASSUME NEW end \in Nat, NEW a \in Edited, NEW b \in Edited, NEW c \in Edited,
           a.offset <= end, b.offset <= end, c.offset <= end,
           Meet(a, b), Meet(a, c), Meet(b, c)
    PROVE  EditList(<<a, b, c>>, end)
<1> DEFINE es == <<a, b, c>>
<1>1. Len(es) = 3 /\ DOMAIN es = {1, 2, 3} /\ es[1] = a /\ es[2] = b /\ es[3] = c
  OBVIOUS
<1> HIDE DEF es
<1>2. EditList(es, end)
  BY <1>1 DEF EditList
<1> QED BY <1>2 DEF es

(* ... and four.                                                           *)
LEMMA ListOfFour ==
    ASSUME NEW end \in Nat,
           NEW a \in Edited, NEW b \in Edited, NEW c \in Edited, NEW d \in Edited,
           a.offset <= end, b.offset <= end, c.offset <= end, d.offset <= end,
           Meet(a, b), Meet(a, c), Meet(a, d), Meet(b, c), Meet(b, d), Meet(c, d)
    PROVE  EditList(<<a, b, c, d>>, end)
<1> DEFINE es == <<a, b, c, d>>
<1>1. /\ Len(es) = 4 /\ DOMAIN es = {1, 2, 3, 4}
      /\ es[1] = a /\ es[2] = b /\ es[3] = c /\ es[4] = d
  OBVIOUS
<1> HIDE DEF es
<1>2. EditList(es, end)
  BY <1>1 DEF EditList
<1> QED BY <1>2 DEF es

(* Two lists of one edit put together.                                     *)
LEMMA JoinTwo ==
    ASSUME NEW a \in Edited, NEW b \in Edited
    PROVE  <<a>> \o <<b>> = <<a, b>>
<1> DEFINE s == <<a>> \o <<b>>
           t == <<a, b>>
<1>0. <<a>> \in Seq(Edited) /\ <<b>> \in Seq(Edited)
  OBVIOUS
<1>1. s \in Seq(Edited) /\ Len(s) = 2 /\ s[1] = a /\ s[2] = b
  BY <1>0, ConcatProperties
<1>2. t \in Seq(Edited) /\ Len(t) = 2 /\ t[1] = a /\ t[2] = b
  OBVIOUS
<1> HIDE DEF s, t
<1>3. \A i \in 1..Len(s) : s[i] = t[i]
  BY <1>1, <1>2
<1>4. s = t
  BY <1>1, <1>2, <1>3, SeqEqual
<1> QED BY <1>4 DEF s, t

(* A list of one and a list of two, either way round.                      *)
LEMMA JoinThree ==
    ASSUME NEW a \in Edited, NEW b \in Edited, NEW c \in Edited
    PROVE  /\ <<a>> \o <<b, c>> = <<a, b, c>>
           /\ <<a, b>> \o <<c>> = <<a, b, c>>
<1>0. /\ <<a>> \in Seq(Edited) /\ <<b>> \in Seq(Edited) /\ <<c>> \in Seq(Edited)
      /\ <<a, b>> \in Seq(Edited) /\ <<a, b, c>> \in Seq(Edited)
  OBVIOUS
<1>1. <<a, b>> \o <<c>> = <<a, b, c>>
  <2> DEFINE s == <<a, b>> \o <<c>>
             t == <<a, b, c>>
  <2>1. /\ s \in Seq(Edited) /\ Len(s) = 3
        /\ s[1] = a /\ s[2] = b /\ s[3] = c
    BY <1>0, ConcatProperties
  <2>2. t \in Seq(Edited) /\ Len(t) = 3 /\ t[1] = a /\ t[2] = b /\ t[3] = c
    BY <1>0
  <2> HIDE DEF s, t
  <2>3. \A i \in 1..Len(s) : s[i] = t[i]
    BY <2>1, <2>2
  <2>4. s = t
    BY <2>1, <2>2, <2>3, SeqEqual
  <2> QED BY <2>4 DEF s, t
<1>2. (<<a>> \o <<b>>) \o <<c>> = <<a>> \o (<<b>> \o <<c>>)
  BY <1>0, ConcatAssociative
<1>3. <<a>> \o <<b>> = <<a, b>> /\ <<b>> \o <<c>> = <<b, c>>
  BY JoinTwo
<1> QED BY <1>1, <1>2, <1>3

(* Two lists of two.                                                       *)
LEMMA JoinFour ==
    ASSUME NEW a \in Edited, NEW b \in Edited, NEW c \in Edited, NEW d \in Edited
    PROVE  <<a, b>> \o <<c, d>> = <<a, b, c, d>>
<1> DEFINE s == <<a, b>> \o <<c, d>>
           t == <<a, b, c, d>>
<1>0. <<a, b>> \in Seq(Edited) /\ <<c, d>> \in Seq(Edited)
  OBVIOUS
<1>1. /\ s \in Seq(Edited) /\ Len(s) = 4
      /\ s[1] = a /\ s[2] = b /\ s[3] = c /\ s[4] = d
  BY <1>0, ConcatProperties
<1>2. t \in Seq(Edited) /\ Len(t) = 4 /\ t[1] = a /\ t[2] = b /\ t[3] = c /\ t[4] = d
  OBVIOUS
<1> HIDE DEF s, t
<1>3. \A i \in 1..Len(s) : s[i] = t[i]
  BY <1>1, <1>2
<1>4. s = t
  BY <1>1, <1>2, <1>3, SeqEqual
<1> QED BY <1>4 DEF s, t

(* Every edit lies within the statement its match was found in, and two    *)
(* edits of one match meet only in the two ways InnerFirst names.          *)
LEMMA MatchEdits ==
    ASSUME NEW m \in Match, WellPlaced(m)
    PROVE  EditList(Edits(m), m.end)
<1>0. /\ m.begin \in Nat /\ m.end \in Nat /\ m.at \in Nat
      /\ m.then.begin \in Nat /\ m.then.end \in Nat
      /\ m.else.begin \in Nat /\ m.else.end \in Nat
      /\ m.rule \in {"If", "Loop", "Do", "Case", "Range"}
  BY DEF Match, Body
<1>1. CASE m.rule \in {"Case", "Range"}
  <2>1. Edits(m) = <<Edit(m.at, "call")>>
    BY <1>1 DEF Edits
  <2>2. Edit(m.at, "call") \in Edited /\ Edit(m.at, "call").offset <= m.end
    BY <1>0, <1>1 DEF WellPlaced, Edit, Edited, Texts
  <2> QED BY <1>0, <2>1, <2>2, ListOfOne
<1>2. CASE m.rule = "Loop"
  <2>0. Edits(m) = InstrumentStmt(m.then)
    BY <1>2 DEF Edits
  <2>1. m.then.begin < m.then.end /\ m.then.end <= m.end
    BY <1>2 DEF WellPlaced
  <2>2. CASE m.then.compound
    <3>1. Edits(m) = <<Edit(m.then.begin + 1, "call")>>
      BY <2>0, <2>2 DEF InstrumentStmt, InstrumentCStmt
    <3>2. Edit(m.then.begin + 1, "call") \in Edited
          /\ Edit(m.then.begin + 1, "call").offset <= m.end
      BY <1>0, <2>1 DEF Edit, Edited, Texts
    <3> QED BY <1>0, <3>1, <3>2, ListOfOne
  <2>3. CASE ~m.then.compound
    <3> DEFINE a == Edit(m.then.begin, "{call")
               b == Edit(m.then.end, "}")
    <3>1. Edits(m) = <<a, b>>
      BY <2>0, <2>3 DEF InstrumentStmt, InstrumentNonCStmt
    <3>2. /\ a \in Edited /\ b \in Edited
          /\ a.offset <= m.end /\ b.offset <= m.end /\ Meet(a, b)
      BY <1>0, <2>1 DEF Edit, Edited, Texts, Meet
    <3> QED BY <1>0, <3>1, <3>2, ListOfTwo
  <2> QED BY <2>2, <2>3
<1>3. CASE m.rule = "Do"
  <2>0. Edits(m) = handleDoWhile(m)
    BY <1>3 DEF Edits
  <2>1. /\ m.then.begin < m.then.end /\ m.then.end <= m.at /\ m.at < m.end
    BY <1>3 DEF WellPlaced
  <2>2. CASE m.then.compound
    <3>1. Edits(m) = <<Edit(m.then.begin + 1, "call")>>
      BY <2>0, <2>2 DEF handleDoWhile, InstrumentCStmt
    <3>2. Edit(m.then.begin + 1, "call") \in Edited
          /\ Edit(m.then.begin + 1, "call").offset <= m.end
      BY <1>0, <2>1 DEF Edit, Edited, Texts
    <3> QED BY <1>0, <3>1, <3>2, ListOfOne
  <2>3. CASE ~m.then.compound
    <3> DEFINE a == Edit(m.then.begin, "call")
               b == Edit(m.then.begin, "{")
               c == Edit(m.at, "}")
    <3>1. Edits(m) = <<a, b, c>>
      BY <2>0, <2>3 DEF handleDoWhile
    <3>2. a \in Edited /\ b \in Edited /\ c \in Edited
      BY <1>0 DEF Edit, Edited, Texts
    <3>3. a.offset <= m.end /\ b.offset <= m.end /\ c.offset <= m.end
      BY <1>0, <2>1 DEF Edit
    <3>4. Meet(a, b) /\ Meet(a, c) /\ Meet(b, c)
      BY <1>0, <2>1 DEF Edit, Meet
    <3> QED BY <1>0, <3>1, <3>2, <3>3, <3>4, ListOfThree
  <2> QED BY <2>2, <2>3
<1>4. CASE m.rule = "If" /\ m.else = NoBody
  <2> DEFINE e == Edit(m.end, "else")
  <2>0. Edits(m) = <<e>> \o InstrumentStmt(m.then)
    BY <1>4 DEF Edits, handleIfStmt
  <2>1. /\ m.then.begin < m.then.end /\ m.then.end <= m.end
        /\ m.then.compound => m.then.begin + 1 < m.then.end
    BY <1>4 DEF WellPlaced
  <2>2. CASE m.then.compound
    <3> DEFINE a == Edit(m.then.begin + 1, "call")
    <3>1. Edits(m) = <<e>> \o <<a>>
      BY <2>0, <2>2 DEF InstrumentStmt, InstrumentCStmt
    <3>2. /\ e \in Edited /\ a \in Edited
          /\ e.offset <= m.end /\ a.offset <= m.end /\ Meet(e, a)
      BY <1>0, <2>1, <2>2 DEF Edit, Edited, Texts, Meet
    <3> HIDE DEF a, e
    <3>3. Edits(m) = <<e, a>>
      BY <3>1, <3>2, JoinTwo
    <3> QED BY <1>0, <3>2, <3>3, ListOfTwo
  <2>3. CASE ~m.then.compound
    <3> DEFINE a == Edit(m.then.begin, "{call")
               b == Edit(m.then.end, "}")
    <3>1. Edits(m) = <<e>> \o <<a, b>>
      BY <2>0, <2>3 DEF InstrumentStmt, InstrumentNonCStmt
    <3>2. e \in Edited /\ a \in Edited /\ b \in Edited
      BY <1>0 DEF Edit, Edited, Texts
    <3>3. e.offset <= m.end /\ a.offset <= m.end /\ b.offset <= m.end
      BY <1>0, <2>1 DEF Edit
    <3>4. Meet(e, a) /\ Meet(e, b) /\ Meet(a, b)
      BY <1>0, <2>1 DEF Edit, Meet
    <3> HIDE DEF a, b, e
    <3>5. Edits(m) = <<e, a, b>>
      BY <3>1, <3>2, JoinThree
    <3> QED BY <1>0, <3>2, <3>3, <3>4, <3>5, ListOfThree
  <2> QED BY <2>2, <2>3
<1>5. CASE m.rule = "If" /\ m.else # NoBody
  <2>0. Edits(m) = InstrumentStmt(m.else) \o InstrumentStmt(m.then)
    BY <1>5 DEF Edits, handleIfStmt
  <2>1. /\ m.then.begin < m.then.end /\ m.then.end < m.else.begin
        /\ m.else.begin < m.else.end /\ m.else.end <= m.end
        /\ m.then.compound => m.then.begin + 1 < m.then.end
        /\ m.else.compound => m.else.begin + 1 < m.else.end
    BY <1>5 DEF WellPlaced
  <2> DEFINE a == Edit(m.else.begin + 1, "call")
             b == Edit(m.else.begin, "{call")
             c == Edit(m.else.end, "}")
             f == Edit(m.then.begin + 1, "call")
             g == Edit(m.then.begin, "{call")
             h == Edit(m.then.end, "}")
  <2>2. /\ a \in Edited /\ b \in Edited /\ c \in Edited
        /\ f \in Edited /\ g \in Edited /\ h \in Edited
    BY <1>0 DEF Edit, Edited, Texts
  <2>3. /\ a.offset <= m.end /\ b.offset <= m.end /\ c.offset <= m.end
        /\ f.offset <= m.end /\ g.offset <= m.end /\ h.offset <= m.end
    BY <1>0, <2>1 DEF Edit
  <2>4. /\ Meet(b, c) /\ Meet(g, h)
        /\ Meet(a, f) /\ Meet(a, g) /\ Meet(a, h)
        /\ Meet(b, f) /\ Meet(b, g) /\ Meet(b, h)
        /\ Meet(c, f) /\ Meet(c, g) /\ Meet(c, h)
    BY <1>0, <2>1 DEF Edit, Meet
  <2>5. /\ m.else.compound => InstrumentStmt(m.else) = <<a>>
        /\ ~m.else.compound => InstrumentStmt(m.else) = <<b, c>>
        /\ m.then.compound => InstrumentStmt(m.then) = <<f>>
        /\ ~m.then.compound => InstrumentStmt(m.then) = <<g, h>>
    BY DEF InstrumentStmt, InstrumentCStmt, InstrumentNonCStmt
  <2> HIDE DEF a, b, c, f, g, h
  <2>6. CASE m.else.compound /\ m.then.compound
    <3>1. Edits(m) = <<a, f>>
      BY <2>0, <2>2, <2>5, <2>6, JoinTwo
    <3> QED BY <1>0, <2>2, <2>3, <2>4, <3>1, ListOfTwo
  <2>7. CASE m.else.compound /\ ~m.then.compound
    <3>0. <<a>> \o <<g, h>> = <<a, g, h>>
      BY <2>2, JoinThree
    <3>1. Edits(m) = <<a, g, h>>
      BY <2>0, <2>5, <2>7, <3>0
    <3> QED BY <1>0, <2>2, <2>3, <2>4, <3>1, ListOfThree
  <2>8. CASE ~m.else.compound /\ m.then.compound
    <3>0. <<b, c>> \o <<f>> = <<b, c, f>>
      BY <2>2, JoinThree
    <3>1. Edits(m) = <<b, c, f>>
      BY <2>0, <2>5, <2>8, <3>0
    <3> QED BY <1>0, <2>2, <2>3, <2>4, <3>1, ListOfThree
  <2>9. CASE ~m.else.compound /\ ~m.then.compound
    <3>0. <<b, c>> \o <<g, h>> = <<b, c, g, h>>
      BY <2>2, JoinFour
    <3>1. Edits(m) = <<b, c, g, h>>
      BY <2>0, <2>5, <2>9, <3>0
    <3> QED BY <1>0, <2>2, <2>3, <2>4, <3>1, ListOfFour
  <2> QED BY <2>6, <2>7, <2>8, <2>9
<1> QED BY <1>0, <1>1, <1>2, <1>3, <1>4, <1>5

-----------------------------------------------------------------------------
(* The inductive invariant                                                 *)

Replacement == [offset : Offsets, text : Texts, marker : Int, match : Nat, edit : Nat]

Types ==
    /\ source \in Sources
    /\ match \in 1..Len(source.matches)+1
    /\ edit \in Nat
    /\ Replacements \in Seq(Replacement)
    /\ NumberMarkerDecls \in Nat
    /\ unapplied \in 0..Len(Replacements)
    /\ inserted \in [Offsets -> Seq(Nat)]
    /\ pc \in {"collect", "apply"}

(* r is what the loop over edits makes of an edit.                         *)
Recorded(r) ==
    LET m == source.matches[r.match] IN
    /\ r.match \in DOMAIN source.matches
    /\ r.edit \in DOMAIN Edits(m)
    /\ r.offset = Edits(m)[r.edit].offset
    /\ r.text = Edits(m)[r.edit].text

Earlier(r, t) == r.match < t.match \/ (r.match = t.match /\ r.edit < t.edit)

(* The vector is in the order in which the edits have been run.            *)
Collected ==
    /\ \A i \in DOMAIN Replacements :
          LET r == Replacements[i] IN
          Recorded(r) /\ (r.match < match \/ (r.match = match /\ r.edit <= edit))
    /\ \A i, j \in DOMAIN Replacements :
          i < j => Earlier(Replacements[i], Replacements[j])

(* Every number below NumberMarkerDecls has been given once.               *)
Numbered ==
    /\ \A i \in DOMAIN Replacements :
          Replacements[i].marker \in 0..NumberMarkerDecls-1 \cup {NoMarker}
    /\ \A n \in 0..NumberMarkerDecls-1 : \E i \in DOMAIN Replacements :
          \A j \in DOMAIN Replacements : Replacements[j].marker = n <=> j = i

(* At every offset, the replacements applied there, the last one first.    *)
Applied ==
    /\ \A o \in Offsets : \A p \in DOMAIN inserted[o] :
          /\ inserted[o][p] \in unapplied+1..Len(Replacements)
          /\ Replacements[inserted[o][p]].offset = o
    /\ \A o \in Offsets : \A p, q \in DOMAIN inserted[o] :
          p < q => inserted[o][p] > inserted[o][q]
    /\ \A i \in unapplied+1..Len(Replacements) :
          \E p \in DOMAIN inserted[Replacements[i].offset] :
              inserted[Replacements[i].offset][p] = i

Inv ==
    /\ Types
    /\ Collected
    /\ Numbered
    /\ pc = "collect" => unapplied = 0 /\ \A o \in Offsets : inserted[o] = <<>>
    /\ pc = "apply" => Applied /\ declared = 0..NumberMarkerDecls-1

-----------------------------------------------------------------------------
(* What the assumption says of one file.                                   *)
LEMMA SourceFacts ==
    ASSUME source \in Sources
    PROVE  /\ source.length \in Nat
           /\ Len(source.matches) \in Nat
           /\ DOMAIN source.matches = 1..Len(source.matches)
           /\ \A i \in DOMAIN source.matches :
                 /\ source.matches[i] \in Match
                 /\ WellPlaced(source.matches[i])
                 /\ source.matches[i].end <= source.length
                 /\ source.matches[i].begin \in Nat
                 /\ source.matches[i].end \in Nat
           /\ \A i, j \in DOMAIN source.matches :
                 i < j => ~Encloses(source.matches[j], source.matches[i])
<1>1. /\ source.length \in Nat
      /\ source.matches \in Seq(Match)
      /\ \A i \in DOMAIN source.matches :
            WellPlaced(source.matches[i]) /\ source.matches[i].end <= source.length
      /\ \A i, j \in DOMAIN source.matches :
            i < j => ~Encloses(source.matches[j], source.matches[i])
  BY SourcesAssumption
<1>2. /\ Len(source.matches) \in Nat
      /\ DOMAIN source.matches = 1..Len(source.matches)
      /\ \A i \in DOMAIN source.matches : source.matches[i] \in Match
  BY <1>1
<1>3. \A m \in Match : m.begin \in Nat /\ m.end \in Nat
  BY DEF Match
<1> QED BY <1>1, <1>2, <1>3

(* The edits of a match in the file.                                       *)
LEMMA EditFacts ==
    ASSUME source \in Sources, NEW i \in DOMAIN source.matches
    PROVE  LET es == Edits(source.matches[i]) IN
           /\ Len(es) \in Nat
           /\ DOMAIN es = 1..Len(es)
           /\ \A k \in DOMAIN es : es[k].offset \in Offsets /\ es[k].text \in Texts
           /\ \A k, l \in DOMAIN es : k < l => Meet(es[k], es[l])
<1> DEFINE es == Edits(source.matches[i])
<1>1. EditList(es, source.matches[i].end)
  BY SourceFacts, MatchEdits
<1>2. source.matches[i].end <= source.length /\ source.length \in Nat
      /\ source.matches[i].end \in Nat
  BY SourceFacts
<1> HIDE DEF es
<1>3. \A k \in DOMAIN es : es[k].offset \in Nat /\ es[k].text \in Texts
  BY <1>1 DEF EditList, Edited
<1>4. \A k \in DOMAIN es : es[k].offset \in Offsets
  BY <1>1, <1>2, <1>3 DEF EditList, Offsets
<1>5. /\ Len(es) \in Nat
      /\ DOMAIN es = 1..Len(es)
      /\ \A k \in DOMAIN es : es[k].offset \in Offsets /\ es[k].text \in Texts
      /\ \A k, l \in DOMAIN es : k < l => Meet(es[k], es[l])
  BY <1>1, <1>3, <1>4 DEF EditList
<1> QED BY <1>5 DEF es

(* A later replacement at the offset of an earlier one belongs in front.   *)
LEMMA LaterInFront ==
    ASSUME source \in Sources, NEW r, NEW t, Recorded(r), Recorded(t),
           Earlier(t, r), r.offset = t.offset
    PROVE  /\ ~Encloses(source.matches[r.match], source.matches[t.match])
           /\ r.match = t.match =>
                  <<r.text, t.text>> \in {<<"}", "else">>, <<"{", "call">>}
<1>1. /\ r.match \in DOMAIN source.matches
      /\ t.match \in DOMAIN source.matches
  BY DEF Recorded
<1>2. CASE t.match < r.match
  <2>1. t.match # r.match
    BY <1>1, <1>2, SourceFacts
  <2> QED BY <1>1, <1>2, <2>1, SourceFacts
<1>3. CASE r.match = t.match /\ t.edit < r.edit
  <2>1. ~Encloses(source.matches[r.match], source.matches[r.match])
    BY <1>1, SourceFacts DEF Encloses
  <2> DEFINE es == Edits(source.matches[r.match])
  <2>2. /\ r.edit \in DOMAIN es /\ r.offset = es[r.edit].offset
        /\ r.text = es[r.edit].text
        /\ t.edit \in DOMAIN es /\ t.offset = es[t.edit].offset
        /\ t.text = es[t.edit].text
    BY <1>3 DEF Recorded
  <2>3. \A k, l \in DOMAIN es : k < l => Meet(es[k], es[l])
    BY <1>1, EditFacts
  <2> HIDE DEF es
  <2>4. Meet(es[t.edit], es[r.edit])
    BY <1>3, <2>2, <2>3
  <2>5. <<r.text, t.text>> \in {<<"}", "else">>, <<"{", "call">>}
    BY <2>2, <2>4 DEF Meet
  <2> QED BY <1>3, <2>1, <2>5
<1> QED BY <1>2, <1>3 DEF Earlier

(* The order in which replacements stand at an offset.                     *)
LEMMA Ordered == Inv => InnerFirst
<1> SUFFICES ASSUME Inv, NEW o \in Offsets,
                    NEW p \in DOMAIN inserted[o], NEW q \in DOMAIN inserted[o], p < q
             PROVE  LET r == Replacements[inserted[o][p]]
                        t == Replacements[inserted[o][q]]
                    IN  /\ ~Encloses(source.matches[r.match], source.matches[t.match])
                        /\ r.match = t.match =>
                               <<r.text, t.text>> \in {<<"}", "else">>, <<"{", "call">>}
  BY DEF InnerFirst
<1>0. Types
  BY DEF Inv
<1>1. pc = "apply"
  <2>1. SUFFICES ASSUME pc = "collect" PROVE FALSE
    BY <1>0 DEF Types
  <2>2. inserted[o] = <<>>
    BY <2>1 DEF Inv
  <2> QED BY <2>2
<1>2. Applied /\ Collected
  BY <1>1 DEF Inv
<1> DEFINE i == inserted[o][p]
           j == inserted[o][q]
<1>3. /\ i \in unapplied+1..Len(Replacements) /\ j \in unapplied+1..Len(Replacements)
      /\ i > j
      /\ Replacements[i].offset = o /\ Replacements[j].offset = o
  BY <1>2 DEF Applied
<1>4. unapplied \in Nat /\ Len(Replacements) \in Nat
      /\ DOMAIN Replacements = 1..Len(Replacements)
  BY <1>0 DEF Types
<1> HIDE DEF i, j
<1>5. i \in DOMAIN Replacements /\ j \in DOMAIN Replacements /\ j < i
  BY <1>3, <1>4
<1>6. /\ Recorded(Replacements[i]) /\ Recorded(Replacements[j])
      /\ Earlier(Replacements[j], Replacements[i])
  BY <1>2, <1>5 DEF Collected
<1>7. source \in Sources
  BY <1>0 DEF Types
<1>8. /\ ~Encloses(source.matches[Replacements[i].match], source.matches[Replacements[j].match])
      /\ Replacements[i].match = Replacements[j].match =>
             <<Replacements[i].text, Replacements[j].text>>
                 \in {<<"}", "else">>, <<"{", "call">>}
  BY <1>3, <1>6, <1>7, LaterInFront
<1> QED BY <1>8 DEF i, j

(* The markers in the file when everything has been applied.               *)
LEMMA Complete == Inv => MarkersDeclared
<1> SUFFICES ASSUME Inv, Done PROVE
        /\ \A spot \in Spots : MarkerAt(spot) \in declared \cup {NoMarker}
        /\ \A n \in declared : \E spot \in Spots :
              \A other \in Spots : MarkerAt(other) = n <=> other = spot
  BY DEF MarkersDeclared
<1>0. /\ Types /\ Applied /\ Numbered /\ declared = 0..NumberMarkerDecls-1
      /\ unapplied = 0
  BY DEF Inv, Done
<1>1. /\ Len(Replacements) \in Nat
      /\ DOMAIN Replacements = 1..Len(Replacements)
      /\ Replacements \in Seq(Replacement)
  BY <1>0 DEF Types
<1>2. ASSUME NEW spot \in Spots
      PROVE  \E o \in Offsets : \E p \in DOMAIN inserted[o] :
                /\ spot = <<o, p>>
                /\ inserted[o][p] \in DOMAIN Replacements
                /\ Replacements[inserted[o][p]].offset = o
                /\ MarkerAt(spot) = Replacements[inserted[o][p]].marker
  <2>1. PICK o \in Offsets : \E p \in DOMAIN inserted[o] : spot = <<o, p>>
    BY DEF Spots
  <2>2. PICK p \in DOMAIN inserted[o] : spot = <<o, p>>
    BY <2>1
  <2>3. MarkerAt(spot) = Replacements[inserted[o][p]].marker
    BY <2>2 DEF MarkerAt
  <2>4. /\ inserted[o][p] \in DOMAIN Replacements
        /\ Replacements[inserted[o][p]].offset = o
    BY <1>0, <1>1 DEF Applied
  <2> QED BY <2>2, <2>3, <2>4
<1>3. ASSUME NEW spot \in Spots
      PROVE  MarkerAt(spot) \in declared \cup {NoMarker}
  BY <1>0, <1>2 DEF Numbered
<1>4. ASSUME NEW n \in declared
      PROVE  \E spot \in Spots : \A other \in Spots : MarkerAt(other) = n <=> other = spot
  <2>1. PICK i \in DOMAIN Replacements :
            \A j \in DOMAIN Replacements : Replacements[j].marker = n <=> j = i
    BY <1>0 DEF Numbered
  <2> DEFINE off == Replacements[i].offset
  <2>2. off \in Offsets
    <3>1. Replacements[i] \in Replacement
      BY <1>1, ElementOfSeq
    <3> QED BY <3>1 DEF Replacement
  <2>3. PICK p \in DOMAIN inserted[off] : inserted[off][p] = i
    BY <1>0, <1>1 DEF Applied
  <2>4. <<off, p>> \in Spots
    BY <2>2 DEF Spots
  <2>5. MarkerAt(<<off, p>>) = n
    BY <2>1, <2>3 DEF MarkerAt
  <2>6. ASSUME NEW other \in Spots, MarkerAt(other) = n
        PROVE  other = <<off, p>>
    <3>1. PICK o \in Offsets : \E q \in DOMAIN inserted[o] :
                /\ other = <<o, q>>
                /\ inserted[o][q] \in DOMAIN Replacements
                /\ Replacements[inserted[o][q]].offset = o
                /\ MarkerAt(other) = Replacements[inserted[o][q]].marker
      BY <1>2
    <3>2. PICK q \in DOMAIN inserted[o] :
                /\ other = <<o, q>>
                /\ inserted[o][q] \in DOMAIN Replacements
                /\ Replacements[inserted[o][q]].offset = o
                /\ MarkerAt(other) = Replacements[inserted[o][q]].marker
      BY <3>1
    <3>3. inserted[o][q] = i
      BY <2>1, <2>6, <3>2
    <3>4. o = off
      BY <3>2, <3>3
    <3>5. inserted[off] \in Seq(Nat)
      BY <1>0, <2>2 DEF Types
    <3>6. p \in Nat /\ q \in Nat /\ i \in Nat
      BY <1>1, <3>4, <3>5
    <3>7. p = q
      <4>1. ~(p < q)
        BY <1>0, <2>2, <2>3, <3>3, <3>4, <3>6 DEF Applied
      <4>2. ~(q < p)
        BY <1>0, <2>2, <2>3, <3>3, <3>4, <3>6 DEF Applied
      <4> QED BY <3>6, <4>1, <4>2
    <3> QED BY <3>2, <3>4, <3>7
  <2> QED BY <2>4, <2>5, <2>6
<1> QED BY <1>3, <1>4

-----------------------------------------------------------------------------
(* Every step keeps the invariant                                          *)

(* Nothing has been collected or applied at the start.                     *)
LEMMA Start == Init => Inv
<1> SUFFICES ASSUME Init PROVE Inv
  OBVIOUS
<1>1. Types
  BY SourceFacts DEF Init, Types, Offsets
<1>2. Collected /\ Numbered
  BY DEF Init, Collected, Numbered
<1>3. pc = "collect" /\ unapplied = 0 /\ \A o \in Offsets : inserted[o] = <<>>
  BY DEF Init, Offsets
<1> QED BY <1>1, <1>2, <1>3 DEF Inv

(* The vector with one more replacement.                                   *)
LEMMA Appended ==
    ASSUME NEW S, NEW s \in Seq(S), NEW x \in S
    PROVE  /\ Append(s, x) \in Seq(S)
           /\ Len(s) \in Nat
           /\ DOMAIN s = 1..Len(s)
           /\ Len(Append(s, x)) = Len(s) + 1
           /\ DOMAIN Append(s, x) = 1..Len(s)+1
           /\ \A i \in 1..Len(s) : Append(s, x)[i] = s[i]
           /\ Append(s, x)[Len(s) + 1] = x
  BY AppendProperties

(* Running an edit keeps the order of the vector and gives a new number.   *)
LEMMA RunEdit == Inv /\ run_edit => Inv'
<1> SUFFICES ASSUME Inv, run_edit PROVE Inv'
  OBVIOUS
<1> DEFINE e == Edits(source.matches[match])[edit + 1]
           r == [offset |-> e.offset, text |-> e.text,
                 marker |-> IF HasMarker(e) THEN NumberMarkerDecls ELSE NoMarker,
                 match |-> match, edit |-> edit + 1]
           N == Len(Replacements)
<1>1. Types /\ Collected /\ Numbered /\ pc = "collect" /\ unapplied = 0
      /\ \A o \in Offsets : inserted[o] = <<>>
  BY DEF Inv, run_edit
<1>0. /\ DOMAIN Replacements = 1..N
      /\ \A i \in 1..N : Replacements[i].edit \in Nat
  <2>1. \A i \in 1..N : Replacements[i] \in Replacement
    BY <1>1, ElementOfSeq DEF Types
  <2>2. DOMAIN Replacements = 1..N
    BY <1>1 DEF Types
  <2> HIDE DEF N
  <2>3. \A t \in Replacement : t.edit \in Nat
    BY DEF Replacement
  <2> QED BY <2>1, <2>2, <2>3
<1>2. /\ match \in DOMAIN source.matches /\ match \in Nat /\ edit \in Nat
      /\ NumberMarkerDecls \in Nat
  BY <1>1, SourceFacts DEF Types, run_edit
<1>3. /\ edit + 1 \in DOMAIN Edits(source.matches[match])
      /\ e.offset \in Offsets /\ e.text \in Texts
  <2>1. edit + 1 \in DOMAIN Edits(source.matches[match])
    BY <1>1, <1>2, EditFacts DEF run_edit, Types
  <2> QED BY <1>1, <1>2, <2>1, EditFacts DEF Types
<1>4. r \in Replacement
  BY <1>2, <1>3 DEF Replacement, NoMarker
<1>5. Recorded(r)
  BY <1>2, <1>3 DEF Recorded
<1>6. /\ Replacements' = Append(Replacements, r)
      /\ NumberMarkerDecls' = NumberMarkerDecls + (IF HasMarker(e) THEN 1 ELSE 0)
      /\ edit' = edit + 1
      /\ UNCHANGED <<source, match, declared, unapplied, inserted, pc>>
  BY DEF run_edit
<1>7. r.match = match /\ r.edit = edit + 1
      /\ r.marker = IF HasMarker(e) THEN NumberMarkerDecls ELSE NoMarker
  OBVIOUS
<1>8. /\ Replacements' \in Seq(Replacement)
      /\ N \in Nat /\ DOMAIN Replacements = 1..N
      /\ Len(Replacements') = N + 1
      /\ DOMAIN Replacements' = 1..N+1
      /\ \A i \in 1..N : Replacements'[i] = Replacements[i]
      /\ Replacements'[N + 1] = r
  BY <1>1, <1>4, <1>6, Appended DEF Types
<1> HIDE DEF r, e, N
<1>9. Offsets' = Offsets
  BY <1>6 DEF Offsets
<1>10. Types'
  BY <1>1, <1>2, <1>6, <1>8, <1>9 DEF Types, Replacement
<1>11. Collected'
  <2>1. ASSUME NEW i \in 1..N
        PROVE  /\ Recorded(Replacements[i]) /\ Replacements[i].edit \in Nat
               /\ \/ Replacements[i].match < match
                  \/ Replacements[i].match = match /\ Replacements[i].edit <= edit
    BY <1>0, <1>1 DEF Collected
  <2>2. ASSUME NEW i \in DOMAIN Replacements'
        PROVE  Recorded(Replacements[i])'
    <3>1. CASE i = N + 1
      BY <1>5, <1>6, <1>8, <3>1 DEF Recorded
    <3>2. CASE i \in 1..N
      BY <1>6, <1>8, <2>1, <3>2 DEF Recorded
    <3> QED BY <1>8, <2>2, <3>1, <3>2
  <2>3. ASSUME NEW i \in DOMAIN Replacements'
        PROVE  \/ Replacements'[i].match < match'
               \/ Replacements'[i].match = match' /\ Replacements'[i].edit <= edit'
    <3>1. CASE i = N + 1
      BY <1>2, <1>6, <1>7, <1>8, <3>1
    <3>2. CASE i \in 1..N
      <4>1. Replacements'[i] = Replacements[i]
        BY <1>8, <3>2
      <4> QED BY <1>2, <1>6, <2>1, <3>2, <4>1
    <3> QED BY <1>8, <2>3, <3>1, <3>2
  <2>4. ASSUME NEW i \in DOMAIN Replacements', NEW j \in DOMAIN Replacements', i < j
        PROVE  Earlier(Replacements'[i], Replacements'[j])
    <3>1. i \in 1..N
      BY <1>8, <2>4
    <3>2. CASE j \in 1..N
      BY <1>1, <1>8, <2>4, <3>1, <3>2 DEF Collected
    <3>3. CASE j = N + 1
      <4>1. Replacements'[i] = Replacements[i] /\ Replacements'[j] = r
        BY <1>8, <3>1, <3>3
      <4> QED BY <1>2, <1>7, <2>1, <3>1, <4>1 DEF Earlier
    <3> QED BY <1>8, <2>4, <3>2, <3>3
  <2> QED BY <2>2, <2>3, <2>4 DEF Collected, Earlier
<1>12. DOMAIN Replacements' = 1..N+1
  BY <1>8
<1>13. Numbered'
  <2>1. ASSUME NEW i \in 1..N
        PROVE  Replacements[i].marker \in 0..NumberMarkerDecls-1 \cup {NoMarker}
    BY <1>1, <1>8 DEF Numbered
  <2>2. ASSUME NEW i \in DOMAIN Replacements'
        PROVE  Replacements'[i].marker \in 0..NumberMarkerDecls'-1 \cup {NoMarker}
    <3>1. CASE i = N + 1
      BY <1>2, <1>6, <1>7, <1>8, <3>1
    <3>2. CASE i \in 1..N
      <4>1. Replacements'[i].marker \in 0..NumberMarkerDecls-1 \cup {NoMarker}
        BY <1>8, <2>1, <3>2
      <4>2. NumberMarkerDecls' \in Nat /\ NumberMarkerDecls <= NumberMarkerDecls'
        BY <1>2, <1>6
      <4> QED BY <1>2, <4>1, <4>2
    <3> QED BY <1>8, <3>1, <3>2
  <2>3. ASSUME NEW n \in 0..NumberMarkerDecls'-1
        PROVE  \E i \in DOMAIN Replacements' : \A j \in DOMAIN Replacements' :
                  Replacements'[j].marker = n <=> j = i
    <3>1. CASE n \in 0..NumberMarkerDecls-1
      <4>0. \E i \in DOMAIN Replacements :
               \A j \in DOMAIN Replacements : Replacements[j].marker = n <=> j = i
        BY <1>1, <3>1 DEF Numbered
      <4>1. PICK i \in 1..N : \A j \in 1..N : Replacements[j].marker = n <=> j = i
        BY <1>0, <4>0
      <4>2. r.marker # n
        BY <1>2, <1>7, <3>1 DEF NoMarker
      <4>3. \A j \in 1..N+1 : Replacements'[j].marker = n <=> j = i
        BY <1>8, <4>1, <4>2
      <4>4. i \in 1..N+1
        BY <1>8
      <4> QED BY <1>12, <4>3, <4>4
    <3>2. CASE n = NumberMarkerDecls /\ HasMarker(e)
      <4>1. r.marker = n
        BY <1>7, <3>2
      <4>2. \A j \in 1..N : Replacements[j].marker # n
        BY <1>2, <2>1, <3>2 DEF NoMarker
      <4>3. \A j \in 1..N+1 : Replacements'[j].marker = n <=> j = N + 1
        BY <1>8, <4>1, <4>2
      <4>4. N + 1 \in 1..N+1
        BY <1>8
      <4> QED BY <1>12, <4>3, <4>4
    <3>3. n \in 0..NumberMarkerDecls-1 \/ (n = NumberMarkerDecls /\ HasMarker(e))
      BY <1>2, <1>6, <2>3
    <3> QED BY <3>1, <3>2, <3>3
  <2> QED BY <2>2, <2>3 DEF Numbered
<1> QED BY <1>1, <1>6, <1>9, <1>10, <1>11, <1>13 DEF Inv

(* Moving to the next match changes nothing that has been recorded.        *)
LEMMA NextMatch == Inv /\ next_match => Inv'
<1> SUFFICES ASSUME Inv, next_match PROVE Inv'
  OBVIOUS
<1>1. Types /\ Collected /\ Numbered /\ pc = "collect" /\ unapplied = 0
      /\ \A o \in Offsets : inserted[o] = <<>>
  BY DEF Inv, next_match
<1>2. /\ match' = match + 1 /\ edit' = 0 /\ match <= Len(source.matches)
      /\ UNCHANGED <<source, Replacements, NumberMarkerDecls, declared, unapplied,
                     inserted, pc>>
  BY DEF next_match
<1>3. Types'
  BY <1>1, <1>2, SourceFacts DEF Types, Replacement, Offsets
<1>4. Collected'
  <2>1. ASSUME NEW i \in DOMAIN Replacements
        PROVE  Recorded(Replacements[i])' /\ Replacements[i].match < match'
    <3>1. /\ Recorded(Replacements[i])
          /\ Replacements[i].match < match \/ Replacements[i].match = match
      BY <1>1, <2>1 DEF Collected
    <3>2. match \in Nat
      BY <1>1, SourceFacts DEF Types
    <3>3. Recorded(Replacements[i])'
      BY <1>2, <3>1 DEF Recorded
    <3>4. Replacements[i].match \in Nat
      BY <1>1, <3>1, SourceFacts DEF Recorded, Types
    <3> QED BY <1>2, <3>1, <3>2, <3>3, <3>4
  <2> QED BY <1>1, <1>2, <2>1 DEF Collected
<1>5. Numbered'
  BY <1>1, <1>2 DEF Numbered
<1> QED BY <1>1, <1>2, <1>3, <1>4, <1>5 DEF Inv, Offsets

(* Printing declares the numbers given so far; nothing is applied yet.     *)
LEMMA PrintMarkers == Inv /\ print_markers => Inv'
<1> SUFFICES ASSUME Inv, print_markers PROVE Inv'
  OBVIOUS
<1>1. Types /\ Collected /\ Numbered /\ pc = "collect"
      /\ \A o \in Offsets : inserted[o] = <<>>
  BY DEF Inv, print_markers
<1>2. /\ declared' = 0..NumberMarkerDecls-1 /\ unapplied' = Len(Replacements)
      /\ pc' = "apply"
      /\ UNCHANGED <<source, match, edit, Replacements, NumberMarkerDecls, inserted>>
  BY DEF print_markers
<1>3. Len(Replacements) \in Nat
  BY <1>1 DEF Types
<1>4. Types'
  BY <1>1, <1>2, <1>3 DEF Types, Replacement, Offsets
<1>5. Collected' /\ Numbered'
  BY <1>1, <1>2 DEF Collected, Numbered, Recorded
<1>6. Applied'
  BY <1>1, <1>2, <1>3 DEF Applied, Offsets
<1> QED BY <1>2, <1>4, <1>5, <1>6 DEF Inv

(* The replacement applied next goes behind all that stand at its offset.  *)
LEMMA AddReplacement == Inv /\ add_replacement => Inv'
<1> SUFFICES ASSUME Inv, add_replacement PROVE Inv'
  OBVIOUS
<1> DEFINE u == unapplied
           off == Replacements[u].offset
<1>1. Types /\ Collected /\ Numbered /\ Applied /\ pc = "apply"
      /\ declared = 0..NumberMarkerDecls-1
  BY DEF Inv, add_replacement
<1>2. /\ u > 0
      /\ inserted' = [inserted EXCEPT ![off] = Append(@, u)]
      /\ unapplied' = u - 1
      /\ UNCHANGED <<source, match, edit, Replacements, NumberMarkerDecls, declared, pc>>
  BY DEF add_replacement
<1>3. /\ Len(Replacements) \in Nat /\ DOMAIN Replacements = 1..Len(Replacements)
      /\ u \in 1..Len(Replacements)
  BY <1>1, <1>2 DEF Types
<1>4. \A i \in 1..Len(Replacements) : Replacements[i].offset \in Offsets
  <2>1. \A i \in 1..Len(Replacements) : Replacements[i] \in Replacement
    BY <1>1, ElementOfSeq DEF Types
  <2> QED BY <2>1 DEF Replacement
<1> DEFINE before == inserted[off]
           after == Append(before, u)
<1>5. off \in Offsets /\ inserted \in [Offsets -> Seq(Nat)] /\ before \in Seq(Nat) /\ u \in Nat
  BY <1>1, <1>3, <1>4 DEF Types
<1>6. /\ inserted' \in [Offsets -> Seq(Nat)]
      /\ inserted'[off] = after
      /\ \A o \in Offsets : o # off => inserted'[o] = inserted[o]
  <2>1. after \in Seq(Nat)
    BY <1>5, Appended
  <2> HIDE DEF off
  <2> QED BY <1>2, <1>5, <2>1
<1>7. /\ Len(before) \in Nat /\ DOMAIN before = 1..Len(before)
      /\ DOMAIN after = 1..Len(before)+1
      /\ \A p \in 1..Len(before) : after[p] = before[p]
      /\ after[Len(before) + 1] = u
  BY <1>5, Appended
<1>8. Types'
  <2>1. Offsets' = Offsets
    BY <1>2 DEF Offsets
  <2>2. Replacement' = Replacement
    BY <2>1 DEF Replacement
  <2>3. unapplied' \in 0..Len(Replacements)
    BY <1>2, <1>3
  <2>4. inserted' \in [Offsets' -> Seq(Nat)]
    BY <1>6, <2>1
  <2> QED BY <1>1, <1>2, <2>2, <2>3, <2>4 DEF Types
<1>9. Collected' /\ Numbered'
  BY <1>1, <1>2 DEF Collected, Numbered, Recorded
<1>10. /\ \A o \in Offsets : \A p \in DOMAIN inserted[o] :
             /\ inserted[o][p] \in u+1..Len(Replacements)
             /\ Replacements[inserted[o][p]].offset = o
       /\ \A o \in Offsets : \A p, q \in DOMAIN inserted[o] :
             p < q => inserted[o][p] > inserted[o][q]
       /\ \A i \in u+1..Len(Replacements) :
             \E p \in DOMAIN inserted[Replacements[i].offset] :
                 inserted[Replacements[i].offset][p] = i
  BY <1>1 DEF Applied
<1>11. Replacements[u].offset = off
  OBVIOUS
<1>12. \A p \in DOMAIN before :
           before[p] \in u+1..Len(Replacements) /\ Replacements[before[p]].offset = off
  BY <1>5, <1>10
<1>13. \A p, q \in DOMAIN before : p < q => before[p] > before[q]
  BY <1>5, <1>10
<1>14. \A i \in u+1..Len(Replacements) :
           Replacements[i].offset = off => \E p \in DOMAIN before : before[p] = i
  BY <1>10
<1> HIDE DEF u, off, before, after
<1>15. ASSUME NEW o \in Offsets, NEW p \in DOMAIN inserted'[o]
       PROVE  inserted'[o][p] \in u..Len(Replacements)
              /\ Replacements[inserted'[o][p]].offset = o
  <2>1. CASE o # off
    <3>1. inserted'[o] = inserted[o]
      BY <1>6, <2>1
    <3>2. inserted[o][p] \in u+1..Len(Replacements) /\ Replacements[inserted[o][p]].offset = o
      BY <1>10, <1>15, <3>1
    <3> QED BY <1>3, <3>1, <3>2
  <2>2. CASE o = off /\ p = Len(before) + 1
    BY <1>3, <1>6, <1>7, <1>11, <2>2
  <2>3. CASE o = off /\ p # Len(before) + 1
    <3>1. p \in DOMAIN before /\ inserted'[o][p] = before[p]
      BY <1>6, <1>7, <1>15, <2>3
    <3>2. before[p] \in u+1..Len(Replacements) /\ Replacements[before[p]].offset = off
      BY <1>12, <3>1
    <3> QED BY <1>3, <2>3, <3>1, <3>2
  <2> QED BY <2>1, <2>2, <2>3
<1>16. ASSUME NEW o \in Offsets, NEW p \in DOMAIN inserted'[o], NEW q \in DOMAIN inserted'[o],
              p < q
       PROVE  inserted'[o][p] > inserted'[o][q]
  <2>1. CASE o # off
    <3>1. inserted'[o] = inserted[o]
      BY <1>6, <2>1
    <3> QED BY <1>10, <1>16, <3>1
  <2>2. CASE o = off /\ q = Len(before) + 1
    <3>1. p \in DOMAIN before /\ inserted'[o][p] = before[p] /\ inserted'[o][q] = u
      BY <1>6, <1>7, <1>16, <2>2
    <3>2. before[p] \in u+1..Len(Replacements)
      BY <1>12, <3>1
    <3> QED BY <1>3, <3>1, <3>2
  <2>3. CASE o = off /\ q # Len(before) + 1
    <3>1. /\ p \in DOMAIN before /\ inserted'[o][p] = before[p]
          /\ q \in DOMAIN before /\ inserted'[o][q] = before[q]
      BY <1>6, <1>7, <1>16, <2>3
    <3> QED BY <1>13, <1>16, <3>1
  <2> QED BY <2>1, <2>2, <2>3
<1>17. ASSUME NEW i \in u..Len(Replacements)
       PROVE  \E p \in DOMAIN inserted'[Replacements[i].offset] :
                  inserted'[Replacements[i].offset][p] = i
  <2>1. CASE i = u
    <3>1. Len(before) + 1 \in DOMAIN after /\ after[Len(before) + 1] = i
      BY <1>7, <2>1
    <3>2. inserted'[Replacements[i].offset] = after
      BY <1>6, <1>11, <2>1
    <3> QED BY <3>1, <3>2
  <2>2. CASE i # u /\ Replacements[i].offset # off
    <3>1. i \in u+1..Len(Replacements) /\ i \in 1..Len(Replacements)
      BY <1>3, <1>17, <2>2
    <3>2. inserted'[Replacements[i].offset] = inserted[Replacements[i].offset]
      BY <1>4, <1>6, <2>2, <3>1
    <3> QED BY <1>10, <3>1, <3>2
  <2>3. CASE i # u /\ Replacements[i].offset = off
    <3>1. i \in u+1..Len(Replacements)
      BY <1>3, <1>17, <2>3
    <3>2. PICK p \in DOMAIN before : before[p] = i
      BY <1>14, <2>3, <3>1
    <3>3. p \in DOMAIN after /\ after[p] = i
      BY <1>7, <3>2
    <3> QED BY <1>6, <2>3, <3>3
  <2> QED BY <2>1, <2>2, <2>3
<1>18. Offsets' = Offsets /\ unapplied' + 1 = u
  BY <1>2, <1>3 DEF Offsets
<1>19. Applied'
  <2>1. \A o \in Offsets' : \A p \in DOMAIN inserted'[o] :
            /\ inserted'[o][p] \in unapplied'+1..Len(Replacements')
            /\ Replacements'[inserted'[o][p]].offset = o
    BY <1>2, <1>15, <1>18
  <2>2. \A o \in Offsets' : \A p, q \in DOMAIN inserted'[o] :
            p < q => inserted'[o][p] > inserted'[o][q]
    BY <1>16, <1>18
  <2>3. \A i \in unapplied'+1..Len(Replacements') :
            \E p \in DOMAIN inserted'[Replacements'[i].offset] :
                inserted'[Replacements'[i].offset][p] = i
    BY <1>2, <1>17, <1>18
  <2> QED BY <2>1, <2>2, <2>3 DEF Applied
<1> QED BY <1>1, <1>2, <1>8, <1>9, <1>19 DEF Inv

-----------------------------------------------------------------------------
(* The invariant holds of every state of the tool, for every file.         *)
THEOREM Invariance == Spec => []Inv
<1>1. Inv /\ [Next]_vars => Inv'
  <2> SUFFICES ASSUME Inv, [Next]_vars PROVE Inv'
    OBVIOUS
  <2>1. CASE run_edit
    BY <2>1, RunEdit
  <2>2. CASE next_match
    BY <2>2, NextMatch
  <2>3. CASE print_markers
    BY <2>3, PrintMarkers
  <2>4. CASE add_replacement
    BY <2>4, AddReplacement
  <2>5. CASE UNCHANGED vars
    BY <2>5 DEF vars, Inv, Types, Collected, Numbered, Applied, Recorded, Replacement,
                Offsets
  <2> QED BY <2>1, <2>2, <2>3, <2>4, <2>5 DEF Next
<1> QED BY <1>1, Start, PTL DEF Spec

(* Whatever the tool inserts nests as the statements do: at an offset, the *)
(* text of an inner statement stands before that of the ones around it.    *)
THEOREM NestingOrder == Spec => []InnerFirst
BY Invariance, Ordered, PTL

(* The markers of the finished file are exactly the declared ones, each of *)
(* them in one place, whatever the rules have matched.                     *)
THEOREM DeclaredOnce == Spec => []MarkersDeclared
BY Invariance, Complete, PTL

(* Applied one by one from the last to the first, with every offset taken  *)
(* from the original file, the replacements give what inserting them all   *)
(* at once would: each stands at its own offset, at one place only, and    *)
(* those that share an offset stand in the reverse of their order.         *)
AppliedBackwards ==
    Done =>
        /\ \A o \in Offsets :
              {inserted[o][p] : p \in DOMAIN inserted[o]}
                  = {i \in DOMAIN Replacements : Replacements[i].offset = o}
        /\ \A o \in Offsets : \A p, q \in DOMAIN inserted[o] :
              p < q => Earlier(Replacements[inserted[o][q]], Replacements[inserted[o][p]])
        /\ \A o \in Offsets : \A p, q \in DOMAIN inserted[o] :
              inserted[o][p] = inserted[o][q] => p = q

(* What Applied says once nothing is left to apply.                        *)
LEMMA Backwards == Inv => AppliedBackwards
<1> SUFFICES ASSUME Inv, Done PROVE AppliedBackwards
  BY DEF AppliedBackwards
<1>1. Types /\ Collected /\ Applied /\ unapplied = 0
  BY DEF Inv, Done
<1>2. /\ Len(Replacements) \in Nat
      /\ DOMAIN Replacements = 1..Len(Replacements)
      /\ unapplied + 1 .. Len(Replacements) = DOMAIN Replacements
  BY <1>1 DEF Types
<1>3. \A o \in Offsets : \A p \in DOMAIN inserted[o] :
          /\ p \in Int
          /\ inserted[o][p] \in DOMAIN Replacements
          /\ inserted[o][p] \in Int
          /\ Replacements[inserted[o][p]].offset = o
  BY <1>1, <1>2 DEF Applied, Types
<1>4. \A o \in Offsets : \A p, q \in DOMAIN inserted[o] :
          p < q => inserted[o][p] > inserted[o][q]
  BY <1>1 DEF Applied
<1>5. ASSUME NEW o \in Offsets
      PROVE  {inserted[o][p] : p \in DOMAIN inserted[o]}
                 = {i \in DOMAIN Replacements : Replacements[i].offset = o}
  <2>1. ASSUME NEW i \in DOMAIN Replacements, Replacements[i].offset = o
        PROVE  \E p \in DOMAIN inserted[o] : inserted[o][p] = i
    BY <1>1, <1>2, <2>1 DEF Applied
  <2> QED BY <1>3, <2>1
<1>6. ASSUME NEW o \in Offsets, NEW p \in DOMAIN inserted[o], NEW q \in DOMAIN inserted[o],
             p < q
      PROVE  Earlier(Replacements[inserted[o][q]], Replacements[inserted[o][p]])
  <2>1. inserted[o][q] < inserted[o][p]
    BY <1>3, <1>4, <1>6
  <2> QED BY <1>1, <1>3, <2>1 DEF Collected
<1>7. ASSUME NEW o \in Offsets, NEW p \in DOMAIN inserted[o], NEW q \in DOMAIN inserted[o],
             inserted[o][p] = inserted[o][q]
      PROVE  p = q
  BY <1>3, <1>4, <1>7
<1> QED BY <1>5, <1>6, <1>7 DEF AppliedBackwards

(* So the vector of collected replacements alone determines the text the   *)
(* tool leaves at every offset of the file.                                *)
THEOREM OrderOfApplication == Spec => []AppliedBackwards
BY Invariance, Backwards, PTL
=============================================================================
