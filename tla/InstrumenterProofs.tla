------------------------- MODULE InstrumenterProofs -------------------------
(***************************************************************************)
(* instrument_program returns programs in which every marker guards one    *)
(* place and ids leave no gap, for sources of every length, any numbers of *)
(* markers and any order in which the tool numbers them.                   *)
(*                                                                         *)
(* The renumbering of mode DCE_AND_VR goes through codes in which a macro  *)
(* stands at two places, and which of the two is rewritten is decided by   *)
(* their order.  The invariant therefore does not say which places have    *)
(* been rewritten, only that some set R of places carries the new ids      *)
(* handed out so far, each once, and the others the old ids left.          *)
(***************************************************************************)
EXTENDS Instrumenter, SequenceTheorems, TLAPS

Macros == [kind : {"none", "DCE", "VR"}, id : Int]

SitesIn(text, kind) == {s \in Places : text[s].kind = kind}

(* The places of R carry the ids lo..hi-1, each once.                      *)
Numbering(text, R, lo, hi) ==
    /\ \A s \in R : text[s].id \in lo..hi-1
    /\ \A i \in lo..hi-1 : \E s \in R : \A t \in R : text[t].id = i <=> t = s

(* k markers of a kind with the ids from lo on.                            *)
List(kind, lo, k) == [n \in 1..k |-> Macro(kind, lo + n - 1)]

(* k DCE markers numbered after l VR markers.                              *)
Listing(k, l) ==
    [n \in 1..k+l |-> IF n <= k THEN Macro("DCE", l + n - 1) ELSE Macro("VR", n - k - 1)]

Blank == \A s \in Places : code[s] = NoMacro

Text == code \in [Places -> Macros]
        /\ \A s \in Places : code[s].kind = "none" => code[s] = NoMacro

AtDce == Blank /\ directives = {}

AtVr ==
    \/ mode = "VR" /\ Blank /\ directives = {}
    \/ /\ mode = "DCE_AND_VR"
       /\ SitesIn(code, "VR") = {}
       /\ \E k \in Nat \ {0} : /\ dce_markers = List("DCE", 0, k)
                               /\ Numbering(code, SitesIn(code, "DCE"), 0, k)

AtRenumber ==
    /\ mode = "DCE_AND_VR"
    /\ \E k, l \in Nat \ {0} :
          /\ dce_markers = List("DCE", 0, k)
          /\ vr_markers = List("VR", 0, l)
          /\ Numbering(code, SitesIn(code, "DCE"), 0, k)
          /\ Numbering(code, SitesIn(code, "VR"), 0, l)

(* i of the k DCE markers have been renumbered.                            *)
Halfway(k, l, i, R) ==
    /\ dce_markers = List("DCE", l, k)
    /\ vr_markers = List("VR", 0, l)
    /\ replacements = [n \in 1..k-i |->
           <<Macro("DCE", i + n - 1), Macro("DCE", i + n - 1 + l)>>]
    /\ Numbering(code, SitesIn(code, "VR"), 0, l)
    /\ Numbering(code, R, l, l + i)
    /\ Numbering(code, SitesIn(code, "DCE") \ R, i, k)

AtReplace ==
    /\ mode = "DCE_AND_VR"
    /\ directives = {}
    /\ \E k, l \in Nat \ {0}, i \in Nat, R \in SUBSET SitesIn(code, "DCE") :
          i <= k /\ Halfway(k, l, i, R)

(* A mode of both kinds returns markers of both kinds.                     *)
OfMode(k, l) ==
    /\ k > 0 <=> mode \in {"DCE", "DCE_AND_VR"}
    /\ l > 0 <=> mode \in {"VR", "DCE_AND_VR"}

AtReturn ==
    /\ directives = {}
    /\ \E k, l \in Nat :
          /\ OfMode(k, l)
          /\ result = Listing(k, l)
          /\ Numbering(code, SitesIn(code, "DCE"), l, l + k)
          /\ Numbering(code, SitesIn(code, "VR"), 0, l)

Inv ==
    /\ mode \in Modes
    /\ Text
    /\ pc = "dce" => AtDce /\ mode # "VR"
    /\ pc = "vr" => AtVr
    /\ pc = "renumber" => AtRenumber
    /\ pc = "replace" => AtReplace
    /\ pc = "returned" => AtReturn

-----------------------------------------------------------------------------
(* A run of the tool on a source without macros of its kind numbers the    *)
(* places it chooses and leaves the others alone.                          *)
LEMMA Insertion ==
    ASSUME Text, NEW kind \in {"DCE", "VR"}, NEW k \in Nat,
           NEW place \in Injection(0..k-1, Free), SitesIn(code, kind) = {},
           code' = Inserted(kind, k, place)
    PROVE  /\ code' \in [Places -> Macros]
           /\ \A s \in Places : code'[s].kind = "none" => code'[s] = NoMacro
           /\ Numbering(code', SitesIn(code', kind), 0, k)
           /\ \A other \in {"DCE", "VR"} \ {kind} :
                 /\ SitesIn(code', other) = SitesIn(code, other)
                 /\ \A s \in SitesIn(code, other) : code'[s] = code[s]
<1> DEFINE Put(s) == \E i \in 0..k-1 : place[i] = s
           Id(s) == CHOOSE i \in 0..k-1 : place[i] = s
<1>1. /\ place \in [0..k-1 -> Free]
      /\ \A a, b \in 0..k-1 : place[a] = place[b] => a = b
  BY DEF Injection, IsInjective
<1>2. \A s \in Places : Put(s) => Id(s) \in 0..k-1 /\ place[Id(s)] = s
  OBVIOUS
<1>3. \A s \in Places : Put(s) => code[s] = NoMacro
  BY <1>1 DEF Free
<1>4. \A s \in Places : code'[s] = IF Put(s) THEN Macro(kind, Id(s)) ELSE code[s]
  BY DEF Inserted
<1>a. \A s \in Places : code[s] \in Macros /\ code[s].kind # kind
  BY DEF Text, SitesIn
<1> HIDE DEF Put, Id
<1>b. ASSUME NEW s \in Places, Put(s)
      PROVE  code'[s].kind = kind /\ code'[s].id = Id(s)
  <2>1. code'[s] = Macro(kind, Id(s))
    BY <1>4, <1>b
  <2>2. \A i : Macro(kind, i).kind = kind /\ Macro(kind, i).id = i
    BY DEF Macro
  <2> QED
    BY <2>1, <2>2
<1>c. \A s \in Places : ~Put(s) => code'[s] = code[s]
  BY <1>4
<1>5. code' \in [Places -> Macros]
  <2>1. ASSUME NEW s \in Places PROVE code'[s] \in Macros
    <3>1. CASE Put(s)
      <4>1. Id(s) \in Int
        BY <1>2, <3>1
      <4>2. code'[s] = Macro(kind, Id(s))
        BY <1>4, <3>1
      <4> QED
        BY <4>1, <4>2 DEF Macros, Macro
    <3>2. CASE ~Put(s)
      BY <1>a, <1>c, <3>2
    <3> QED
      BY <3>1, <3>2
  <2> QED
    BY <2>1 DEF Inserted
<1>6. \A s \in Places : code'[s].kind = "none" => code'[s] = NoMacro
  BY <1>b, <1>c DEF Text
<1>7. \A s \in Places : code'[s].kind = kind <=> Put(s)
  BY <1>a, <1>b, <1>c
<1>8. Numbering(code', SitesIn(code', kind), 0, k)
  <2>1. \A s \in SitesIn(code', kind) : Put(s) /\ code'[s].id = Id(s)
    BY <1>b, <1>7 DEF SitesIn
  <2>2. \A s \in SitesIn(code', kind) : code'[s].id \in 0..k-1
    BY <1>2, <2>1 DEF SitesIn
  <2>3. ASSUME NEW i \in 0..k-1
        PROVE  \E s \in SitesIn(code', kind) :
                   \A t \in SitesIn(code', kind) : code'[t].id = i <=> t = s
    <3>1. place[i] \in Places
      BY <1>1 DEF Free
    <3>2. Put(place[i])
      BY DEF Put
    <3>3. place[i] \in SitesIn(code', kind)
      BY <3>1, <3>2, <1>7 DEF SitesIn
    <3>4. Id(place[i]) = i
      BY <3>1, <3>2, <1>1, <1>2
    <3>5. \A t \in SitesIn(code', kind) : code'[t].id = i <=> t = place[i]
      BY <3>3, <3>4, <2>1, <1>2 DEF SitesIn
    <3> QED
      BY <3>3, <3>5
  <2> QED
    BY <2>2, <2>3 DEF Numbering
<1>9. ASSUME NEW other \in {"DCE", "VR"} \ {kind}
      PROVE  /\ SitesIn(code', other) = SitesIn(code, other)
             /\ \A s \in SitesIn(code, other) : code'[s] = code[s]
  <2>1. \A s \in Places : code'[s].kind = other <=> code[s].kind = other
    BY <1>3, <1>b, <1>c DEF Macro, NoMacro
  <2>2. \A s \in Places : code[s].kind = other => code'[s] = code[s]
    BY <1>3, <1>c DEF Macro, NoMacro
  <2> QED
    BY <2>1, <2>2 DEF SitesIn
<1> QED
  BY <1>5, <1>6, <1>8, <1>9

(* A numbering says nothing about the source elsewhere.                    *)
LEMMA SameNumbering ==
    ASSUME NEW text, NEW other, NEW R, NEW lo \in Int, NEW hi \in Int,
           \A s \in R : other[s] = text[s],
           Numbering(text, R, lo, hi)
    PROVE  Numbering(other, R, lo, hi)
  BY DEF Numbering

(* The names the tool prints are those of the markers it has inserted.     *)
LEMMA ParsedNames ==
    ASSUME NEW kind, NEW k \in Nat, k # 0
    PROVE  /\ Output(kind, k) # <<>>
           /\ parse_marker_names(Output(kind, k)) = List(kind, 0, k)
<1>1. Output(kind, k) = [n \in 1..k+2 |-> IF n \in {1, k + 2} THEN Macro("comment", 0)
                                          ELSE Macro(kind, n - 2)]
  BY DEF Output
<1>2. Output(kind, k) \in Seq({Macro("comment", 0)} \cup {Macro(kind, n) : n \in Int})
  BY <1>1
<1>3. Len(Output(kind, k)) = k + 2
  BY <1>1
<1>4. SubSeq(Output(kind, k), 2, k + 1) = [n \in 1..k |-> Output(kind, k)[n + 1]]
  BY <1>2, <1>3
<1>5. \A n \in 1..k : Output(kind, k)[n + 1] = Macro(kind, 0 + n - 1)
  BY <1>1
<1>6. [n \in 1..k |-> Output(kind, k)[n + 1]] = List(kind, 0, k)
  BY <1>5 DEF List
<1> QED
  BY <1>1, <1>3, <1>4, <1>6 DEF parse_marker_names

-----------------------------------------------------------------------------
(* A function on 1..m is a sequence of length m.                           *)
LEMMA FunctionIsSeq ==
    ASSUME NEW S, NEW m \in Nat, NEW f \in [1..m -> S]
    PROVE  f \in Seq(S) /\ Len(f) = m
  OBVIOUS

(* Replacing the first macro with id i by id l + i moves the numbering of  *)
(* new ids on by one, whichever place was rewritten: the place that had    *)
(* the old marker i joins R, and if a place of R stood before it, the two  *)
(* change roles.                                                           *)
LEMMA Renumbering ==
    ASSUME Text, NEW k \in Nat, NEW l \in Nat, l # 0, NEW i \in 0..k-1,
           NEW R \in SUBSET SitesIn(code, "DCE"),
           Numbering(code, R, l, l + i),
           Numbering(code, SitesIn(code, "DCE") \ R, i, k),
           code' = [s \in Places |-> IF s \in FirstPlaces(Macro("DCE", i))
                                    THEN Macro("DCE", i + l) ELSE code[s]]
    PROVE  /\ code' \in [Places -> Macros]
           /\ \A s \in Places : code'[s].kind = "none" => code'[s] = NoMacro
           /\ SitesIn(code', "DCE") = SitesIn(code, "DCE")
           /\ SitesIn(code', "VR") = SitesIn(code, "VR")
           /\ \A s \in SitesIn(code, "VR") : code'[s] = code[s]
           /\ \E S \in SUBSET SitesIn(code, "DCE") :
                 /\ Numbering(code', S, l, l + i + 1)
                 /\ Numbering(code', SitesIn(code, "DCE") \ S, i + 1, k)
<1> DEFINE D == SitesIn(code, "DCE")
           First(s) == s \in FirstPlaces(Macro("DCE", i))
<1>1. \A s \in Places : code[s] = Macro("DCE", i) <=> s \in D /\ code[s].id = i
  <2>1. ASSUME NEW s \in Places PROVE code[s] = [kind |-> code[s].kind, id |-> code[s].id]
    BY DEF Text, Macros
  <2> QED
    BY <2>1 DEF SitesIn, Macro
<1>2. \A s \in Places : First(s) =>
          /\ s \in D /\ code[s].id = i
          /\ code'[s].kind = "DCE" /\ code'[s].id = i + l /\ code'[s] = Macro("DCE", i + l)
  BY <1>1 DEF FirstPlaces, Macro
<1>3. \A s \in Places : ~First(s) => code'[s] = code[s]
  OBVIOUS
<1>4. code' \in [Places -> Macros]
  <2>1. Macro("DCE", i + l) \in Macros
    BY DEF Macro, Macros
  <2> QED
    BY <2>1 DEF Text
<1>5. /\ \A s \in Places : code'[s].kind = code[s].kind
      /\ \A s \in Places : code'[s].kind = "none" => code'[s] = NoMacro
      /\ \A s \in SitesIn(code, "VR") : code'[s] = code[s]
  BY <1>2, <1>3 DEF SitesIn, Text
<1>6. PICK t0 \in D \ R : \A t \in D \ R : code[t].id = i <=> t = t0
  BY DEF Numbering
<1>7. D \subseteq Places /\ R \subseteq D /\ t0 \in Places /\ Places \subseteq Int
  BY <1>6 DEF SitesIn, Places
<1>8. \A s \in D : code[s].id \in Int
  BY <1>7 DEF Text, Macros
<1>9. \A s \in R : code[s].id \in l..l+i-1
  BY DEF Numbering
<1>10. \A j \in l..l+i-1 : \E s \in R : \A t \in R : code[t].id = j <=> t = s
  BY DEF Numbering
<1>11. \A s \in D \ R : code[s].id \in i..k-1
  BY DEF Numbering
<1>12. \A j \in i..k-1 : \E s \in D \ R : \A t \in D \ R : code[t].id = j <=> t = s
  BY DEF Numbering
<1> DEFINE S == R \cup {t0}
<1>13. S \in SUBSET D
  BY <1>6
<1>14. \A s \in Places : First(s) <=>
           /\ s \in D /\ code[s].id = i
           /\ \A t \in D : code[t].id = i => s <= t
  BY <1>1, <1>7 DEF FirstPlaces
<1> HIDE DEF D, First
<1>15. CASE \A t \in R : code[t].id = i => t0 <= t
  <2>1. First(t0)
    BY <1>6, <1>7, <1>14, <1>15
  <2>2. \A s \in Places : First(s) => s = t0
    BY <2>1, <1>6, <1>7, <1>14
  <2>3. \A s \in S : code'[s].id \in l..l+i+1-1
    BY <2>1, <2>2, <1>2, <1>3, <1>7, <1>9
  <2>4. ASSUME NEW j \in l..l+i+1-1
        PROVE  \E s \in S : \A t \in S : code'[t].id = j <=> t = s
    <3>1. CASE j = l + i
      BY <3>1, <2>1, <2>2, <1>2, <1>3, <1>7, <1>9
    <3>2. CASE j # l + i
      <4>1. PICK s \in R : \A t \in R : code[t].id = j <=> t = s
        BY <3>2, <1>10
      <4>2. \A t \in R : code'[t] = code[t]
        BY <2>2, <1>3, <1>6, <1>7
      <4>3. code'[t0].id # j
        BY <3>2, <2>1, <1>2, <1>7
      <4> QED
        BY <4>1, <4>2, <4>3, <1>6
    <3> QED
      BY <3>1, <3>2
  <2>5. \A s \in D \ S : code'[s] = code[s]
    BY <2>2, <1>3, <1>7
  <2>6. Numbering(code', D \ S, i + 1, k)
    <3>1. \A s \in D \ S : code'[s].id \in i+1..k-1
      BY <2>5, <1>6, <1>8, <1>11
    <3>2. ASSUME NEW j \in i+1..k-1
          PROVE  \E s \in D \ S : \A t \in D \ S : code'[t].id = j <=> t = s
      <4>1. PICK s \in D \ R : \A t \in D \ R : code[t].id = j <=> t = s
        BY <1>12
      <4>2. s # t0
        BY <4>1, <1>6
      <4> QED
        BY <4>1, <4>2, <2>5
    <3> QED
      BY <3>1, <3>2 DEF Numbering
  <2>7. Numbering(code', S, l, l + i + 1)
    <3> HIDE DEF S
    <3> QED
      BY <2>3, <2>4 DEF Numbering
  <2> QED
    BY <2>6, <2>7, <1>4, <1>5, <1>13 DEF D, SitesIn
<1>16. CASE \E t \in R : code[t].id = i /\ ~(t0 <= t)
  <2>1. PICK s0 \in R : code[s0].id = i /\ ~(t0 <= s0)
    BY <1>16
  <2>2. i \in l..l+i-1
    BY <2>1, <1>9
  <2>3. \A t \in R : code[t].id = i <=> t = s0
    BY <2>1, <2>2, <1>10
  <2>a. s0 \in D /\ s0 \in Places /\ s0 \in Int /\ t0 \in Int /\ s0 < t0
    <3>1. s0 \in D /\ s0 \in Places /\ s0 \in Int /\ t0 \in Int
      BY <1>7
    <3> QED
      BY <3>1, <2>1
  <2>b. \A t \in D : code[t].id = i => t = s0 \/ t = t0
    BY <2>3, <1>6
  <2>4. First(s0)
    BY <2>1, <2>a, <2>b, <1>14
  <2>5. ASSUME NEW s \in Places, First(s) PROVE s = s0
    <3>1. s \in D /\ code[s].id = i /\ s <= s0
      BY <2>5, <2>1, <2>a, <1>14
    <3> QED
      BY <3>1, <2>a, <2>b
  <2>6. /\ code'[s0].id = l + i
        /\ \A s \in Places : s # s0 => code'[s] = code[s]
    BY <2>4, <2>5, <1>2, <1>3, <1>7
  <2>7. s0 # t0 /\ code'[t0].id = i
    BY <2>1, <2>6, <1>6, <1>7
  <2>8. \A s \in S : code'[s].id \in l..l+i+1-1
    BY <2>2, <2>6, <2>7, <1>7, <1>9
  <2>9. ASSUME NEW j \in l..l+i+1-1
        PROVE  \E s \in S : \A t \in S : code'[t].id = j <=> t = s
    <3>1. CASE j = l + i
      <4>1. \A t \in R : t # s0 => code'[t].id # l + i
        BY <2>6, <1>7, <1>9
      <4>2. code'[t0].id # l + i
        BY <2>2, <2>7
      <4>3. \A t \in S : code'[t].id = j <=> t = s0
        BY <3>1, <4>1, <4>2, <2>6
      <4> QED
        BY <4>3
    <3>2. CASE j = i
      <4>1. \A t \in R : t # s0 => code'[t].id # i
        BY <2>3, <2>6, <1>7
      <4>2. code'[s0].id # i
        BY <2>6
      <4>3. \A t \in S : code'[t].id = j <=> t = t0
        BY <3>2, <4>1, <4>2, <2>7
      <4> QED
        BY <4>3
    <3>3. CASE j # l + i /\ j # i
      <4>1. PICK s \in R : \A t \in R : code[t].id = j <=> t = s
        BY <3>3, <1>10
      <4>2. s # s0
        BY <4>1, <3>3, <2>1
      <4>3. \A t \in R : t # s0 => code'[t] = code[t]
        BY <2>6, <1>7
      <4>4. \A t \in S : code'[t].id = j <=> t = s
        BY <4>1, <4>2, <4>3, <3>3, <2>6, <2>7
      <4> QED
        BY <4>1, <4>4
    <3> QED
      BY <3>1, <3>2, <3>3
  <2>10. \A s \in D \ S : code'[s] = code[s]
    BY <2>6, <1>7
  <2>11. Numbering(code', D \ S, i + 1, k)
    <3>1. \A s \in D \ S : code'[s].id \in i+1..k-1
      BY <2>10, <1>6, <1>8, <1>11
    <3>2. ASSUME NEW j \in i+1..k-1
          PROVE  \E s \in D \ S : \A t \in D \ S : code'[t].id = j <=> t = s
      <4>1. PICK s \in D \ R : \A t \in D \ R : code[t].id = j <=> t = s
        BY <1>12
      <4>2. s # t0
        BY <4>1, <1>6
      <4> QED
        BY <4>1, <4>2, <2>10
    <3> QED
      BY <3>1, <3>2 DEF Numbering
  <2>12. Numbering(code', S, l, l + i + 1)
    <3> HIDE DEF S
    <3> QED
      BY <2>8, <2>9 DEF Numbering
  <2> QED
    BY <2>11, <2>12, <1>4, <1>5, <1>13 DEF D, SitesIn
<1> QED
  BY <1>15, <1>16

-----------------------------------------------------------------------------
(* The greatest id of l VR markers is l - 1.                               *)
LEMMA GreatestVRId ==
    ASSUME NEW l \in Nat, l # 0, vr_markers = List("VR", 0, l)
    PROVE  max_vr_id = l - 1
<1> DEFINE ids == {m.id : m \in Elements(vr_markers)}
<1>1. ids = 0..l-1
  <2>1. DOMAIN vr_markers = 1..l /\ \A n \in 1..l : vr_markers[n].id = n - 1
    BY DEF List, Macro
  <2>2. \A i \in 0..l-1 : i + 1 \in 1..l /\ vr_markers[i + 1].id = i
    BY <2>1
  <2>3. \A n \in 1..l : vr_markers[n].id \in 0..l-1
    BY <2>1
  <2> QED
    BY <2>1, <2>2, <2>3 DEF Elements
<1>2. l - 1 \in ids /\ \A i \in ids : i <= l - 1
  BY <1>1
<1>3. \A m \in ids : (\A i \in ids : i <= m) => m = l - 1
  BY <1>1
<1> QED
  BY <1>2, <1>3 DEF max_vr_id, Max

-----------------------------------------------------------------------------
(* A run starts with a source without markers.                             *)
LEMMA InitInv == Init => Inv
<1> SUFFICES ASSUME Init PROVE Inv
  OBVIOUS
<1>1. Text /\ Blank
  BY DEF Init, Text, Blank, Macros, NoMacro, Macro
<1> QED
  BY <1>1 DEF Init, Inv, AtDce, AtVr, Modes

(* A blank source holds no macros of either kind.                          *)
LEMMA BlankSites ==
    ASSUME Blank
    PROVE  SitesIn(code, "DCE") = {} /\ SitesIn(code, "VR") = {}
  BY DEF Blank, SitesIn, NoMacro, Macro

(* The run in mode dce leaves markers 0 to k-1, or ends in an exception.   *)
LEMMA RunDceInv == Inv /\ run_dce => Inv'
<1> SUFFICES ASSUME Inv, run_dce PROVE Inv'
  OBVIOUS
<1>1. PICK k \in 0..Length : \E place \in Injection(0..k-1, Free) :
         LET output == Output("DCE", k) IN
         IF output = <<>> THEN Raise("NoInstrumentationAddedError")
         ELSE /\ code' = Inserted("DCE", k, place)
              /\ dce_markers' = parse_marker_names(output)
              /\ \/ /\ mode = "DCE"
                    /\ Return(parse_marker_names(output))
                    /\ UNCHANGED directives
                 \/ /\ mode = "DCE_AND_VR"
                    /\ directives' = Elements(parse_marker_names(output))
                    /\ pc' = "vr"
                    /\ UNCHANGED result
              /\ UNCHANGED <<mode, vr_markers, replacements>>
  BY DEF run_dce
<1>2. k \in Nat
  BY LengthAssumption
<1>3. Text /\ Blank /\ directives = {} /\ mode \in Modes
  BY DEF run_dce, Inv, AtDce
<1>4. CASE k = 0
  <2>1. Raise("NoInstrumentationAddedError")
    BY <1>1, <1>4 DEF Output
  <2> QED
    BY <2>1, <1>3 DEF Raise, Inv, Text
<1>5. CASE k # 0
  <2>1. Output("DCE", k) # <<>> /\ parse_marker_names(Output("DCE", k)) = List("DCE", 0, k)
    BY <1>2, <1>5, ParsedNames
  <2>2. PICK place \in Injection(0..k-1, Free) :
            /\ code' = Inserted("DCE", k, place)
            /\ dce_markers' = List("DCE", 0, k)
            /\ \/ /\ mode = "DCE"
                  /\ Return(List("DCE", 0, k))
                  /\ UNCHANGED directives
               \/ /\ mode = "DCE_AND_VR"
                  /\ pc' = "vr"
            /\ UNCHANGED mode
    BY <1>1, <2>1
  <2>3. SitesIn(code, "DCE") = {} /\ SitesIn(code, "VR") = {}
    BY <1>3, BlankSites
  <2>4. /\ code' \in [Places -> Macros]
        /\ \A s \in Places : code'[s].kind = "none" => code'[s] = NoMacro
        /\ Numbering(code', SitesIn(code', "DCE"), 0, k)
        /\ SitesIn(code', "VR") = {}
    <3>1. code' = Inserted("DCE", k, place)
      BY <2>2
    <3>2. /\ code' \in [Places -> Macros]
          /\ \A s \in Places : code'[s].kind = "none" => code'[s] = NoMacro
          /\ Numbering(code', SitesIn(code', "DCE"), 0, k)
          /\ \A other \in {"DCE", "VR"} \ {"DCE"} :
                /\ SitesIn(code', other) = SitesIn(code, other)
                /\ \A s \in SitesIn(code, other) : code'[s] = code[s]
      BY <3>1, <2>3, <1>2, <1>3, Insertion
    <3> QED
      BY <3>2, <2>3
  <2>5. Text'
    BY <2>4 DEF Text
  <2>6. CASE mode = "DCE" /\ Return(List("DCE", 0, k)) /\ UNCHANGED directives
    <3>1. List("DCE", 0, k) = Listing(k, 0)
      BY <1>2 DEF List, Listing
    <3>2. Numbering(code', SitesIn(code', "VR"), 0, 0)
      BY <2>4 DEF Numbering
    <3>3. Numbering(code', SitesIn(code', "DCE"), 0, 0 + k)
      BY <2>4, <1>2
    <3>4. OfMode(k, 0)'
      BY <2>2, <2>6, <1>2, <1>5 DEF OfMode
    <3>5. AtReturn'
      BY <3>1, <3>2, <3>3, <3>4, <2>6, <1>2, <1>3 DEF Return, AtReturn
    <3> QED
      BY <3>5, <2>5, <2>2, <2>6, <1>3 DEF Inv, Return
  <2>7. CASE mode = "DCE_AND_VR" /\ pc' = "vr"
    <3>1. AtVr'
      BY <2>2, <2>4, <2>7, <1>2, <1>5 DEF AtVr
    <3> QED
      BY <3>1, <2>5, <2>2, <2>7, <1>3 DEF Inv
  <2> QED
    BY <2>2, <2>6, <2>7
<1> QED
  BY <1>4, <1>5

(* The run in mode vr adds markers 0 to k-1 and leaves the DCE macros.     *)
LEMMA RunVrInv == Inv /\ run_vr => Inv'
<1> SUFFICES ASSUME Inv, run_vr PROVE Inv'
  OBVIOUS
<1>1. PICK k \in 0..Length : \E place \in Injection(0..k-1, Free) :
         LET output == Output("VR", k) IN
         IF output = <<>> THEN Raise("NoInstrumentationAddedError")
         ELSE /\ code' = Inserted("VR", k, place)
              /\ vr_markers' = parse_marker_names(output)
              /\ \/ /\ mode = "VR"
                    /\ Return(parse_marker_names(output))
                 \/ /\ mode = "DCE_AND_VR"
                    /\ pc' = "renumber"
                    /\ UNCHANGED result
              /\ UNCHANGED <<mode, directives, dce_markers, replacements>>
  BY DEF run_vr
<1>2. k \in Nat
  BY LengthAssumption
<1>3. Text /\ AtVr /\ mode \in Modes
  BY DEF run_vr, Inv
<1>4. CASE k = 0
  <2>1. Raise("NoInstrumentationAddedError")
    BY <1>1, <1>4 DEF Output
  <2> QED
    BY <2>1, <1>3 DEF Raise, Inv, Text
<1>5. CASE k # 0
  <2>1. Output("VR", k) # <<>> /\ parse_marker_names(Output("VR", k)) = List("VR", 0, k)
    BY <1>2, <1>5, ParsedNames
  <2>2. PICK place \in Injection(0..k-1, Free) :
            /\ code' = Inserted("VR", k, place)
            /\ vr_markers' = List("VR", 0, k)
            /\ \/ mode = "VR" /\ Return(List("VR", 0, k))
               \/ mode = "DCE_AND_VR" /\ pc' = "renumber"
            /\ UNCHANGED <<mode, directives, dce_markers>>
    BY <1>1, <2>1
  <2>3. SitesIn(code, "VR") = {}
    BY <1>3, BlankSites DEF AtVr
  <2>4. /\ code' \in [Places -> Macros]
        /\ \A s \in Places : code'[s].kind = "none" => code'[s] = NoMacro
        /\ Numbering(code', SitesIn(code', "VR"), 0, k)
        /\ SitesIn(code', "DCE") = SitesIn(code, "DCE")
        /\ \A s \in SitesIn(code, "DCE") : code'[s] = code[s]
    <3>1. code' = Inserted("VR", k, place)
      BY <2>2
    <3>2. /\ code' \in [Places -> Macros]
          /\ \A s \in Places : code'[s].kind = "none" => code'[s] = NoMacro
          /\ Numbering(code', SitesIn(code', "VR"), 0, k)
          /\ \A other \in {"DCE", "VR"} \ {"VR"} :
                /\ SitesIn(code', other) = SitesIn(code, other)
                /\ \A s \in SitesIn(code, other) : code'[s] = code[s]
      BY <3>1, <2>3, <1>2, <1>3, Insertion
    <3> QED
      BY <3>2
  <2>5. Text'
    BY <2>4 DEF Text
  <2>6. CASE mode = "VR" /\ Return(List("VR", 0, k))
    <3>1. Blank /\ directives = {}
      BY <1>3, <2>6 DEF AtVr
    <3>2. SitesIn(code', "DCE") = {}
      BY <3>1, <2>4, BlankSites
    <3>3. List("VR", 0, k) = Listing(0, k)
      BY <1>2 DEF List, Listing
    <3>4. Numbering(code', SitesIn(code', "DCE"), k, k + 0)
      BY <3>2, <1>2 DEF Numbering
    <3>5. OfMode(0, k)'
      BY <2>2, <2>6, <1>2, <1>5 DEF OfMode
    <3>6. AtReturn'
      BY <3>1, <3>3, <3>4, <3>5, <2>2, <2>4, <2>6, <1>2 DEF Return, AtReturn
    <3> QED
      BY <3>6, <2>5, <2>2, <2>6, <1>3 DEF Inv, Return
  <2>7. CASE mode = "DCE_AND_VR" /\ pc' = "renumber"
    <3>1. PICK d \in Nat \ {0} : /\ dce_markers = List("DCE", 0, d)
                                 /\ Numbering(code, SitesIn(code, "DCE"), 0, d)
      BY <1>3, <2>7 DEF AtVr
    <3>2. Numbering(code', SitesIn(code', "DCE"), 0, d)
      BY <3>1, <2>4, SameNumbering
    <3>3. AtRenumber'
      BY <3>1, <3>2, <2>2, <2>4, <2>7, <1>2, <1>5 DEF AtRenumber
    <3> QED
      BY <3>3, <2>5, <2>2, <2>7, <1>3 DEF Inv
  <2> QED
    BY <2>2, <2>6, <2>7
<1> QED
  BY <1>4, <1>5

(* Renumbering starts with all DCE markers carrying their old ids.         *)
LEMMA RenumberInv == Inv /\ renumber => Inv'
<1> SUFFICES ASSUME Inv, renumber PROVE Inv'
  OBVIOUS
<1>1. PICK k, l \in Nat \ {0} :
        /\ dce_markers = List("DCE", 0, k)
        /\ vr_markers = List("VR", 0, l)
        /\ Numbering(code, SitesIn(code, "DCE"), 0, k)
        /\ Numbering(code, SitesIn(code, "VR"), 0, l)
  BY DEF renumber, Inv, AtRenumber
<1>2. max_vr_id = l - 1
  BY <1>1, GreatestVRId
<1>3. DOMAIN dce_markers = 1..k /\ \A n \in 1..k : dce_markers[n] = Macro("DCE", n - 1)
  BY <1>1 DEF List
<1>4. \A n \in 1..k : NewId(dce_markers[n].id) = n - 1 + l
  BY <1>2, <1>3 DEF NewId, Macro
<1>5. dce_markers' = List("DCE", l, k)
  <2>1. \A n \in 1..k : Macro("DCE", NewId(dce_markers[n].id)) = Macro("DCE", l + n - 1)
    BY <1>4
  <2>2. dce_markers' = [n \in 1..k |-> Macro("DCE", NewId(dce_markers[n].id))]
    BY <1>3 DEF renumber
  <2> HIDE DEF Macro, NewId
  <2> QED
    BY <2>1, <2>2 DEF List
<1>6. replacements' = [n \in 1..k-0 |-> <<Macro("DCE", 0 + n - 1), Macro("DCE", 0 + n - 1 + l)>>]
  <2>1. \A n \in 1..k : /\ dce_markers[n] = Macro("DCE", 0 + n - 1)
                        /\ Macro("DCE", NewId(dce_markers[n].id)) = Macro("DCE", 0 + n - 1 + l)
    BY <1>3, <1>4
  <2>2. replacements' = [n \in 1..k |->
            <<dce_markers[n], Macro("DCE", NewId(dce_markers[n].id))>>]
    BY <1>3 DEF renumber
  <2> QED
    BY <2>1, <2>2
<1>7. Numbering(code, {}, l, l + 0) /\ SitesIn(code, "DCE") \ {} = SitesIn(code, "DCE")
  BY DEF Numbering
<1>8. UNCHANGED <<mode, code, vr_markers>> /\ directives' = {} /\ pc' = "replace"
      /\ mode = "DCE_AND_VR"
  BY DEF renumber, Inv, AtRenumber
<1>9. Halfway(k, l, 0, {})'
  BY <1>1, <1>5, <1>6, <1>7, <1>8 DEF Halfway, SitesIn
<1>10. AtReplace'
  BY <1>8, <1>9 DEF AtReplace
<1> QED
  BY <1>8, <1>10 DEF Inv, Text

(* Every replacement renumbers one more marker.                            *)
LEMMA ReplaceInv == Inv /\ replace_next => Inv'
<1> SUFFICES ASSUME Inv, replace_next PROVE Inv'
  OBVIOUS
<1>1. Text /\ directives = {} /\ mode \in Modes /\ mode = "DCE_AND_VR"
  BY DEF replace_next, Inv, AtReplace
<1>2. PICK k, l \in Nat \ {0}, i \in Nat, R \in SUBSET SitesIn(code, "DCE") :
        i <= k /\ Halfway(k, l, i, R)
  BY DEF replace_next, Inv, AtReplace
<1>3. replacements = [n \in 1..k-i |->
          <<Macro("DCE", i + n - 1), Macro("DCE", i + n - 1 + l)>>]
  BY <1>2 DEF Halfway
<1>4. i \in 0..k-1 /\ i + 1 <= k
  <2>1. i # k
    BY <1>3 DEF replace_next
  <2> QED
    BY <2>1, <1>2
<1>5. replacements[1] = <<Macro("DCE", i), Macro("DCE", i + l)>>
  BY <1>3, <1>4
<1>6. code' = [s \in Places |-> IF s \in FirstPlaces(Macro("DCE", i))
                               THEN Macro("DCE", i + l) ELSE code[s]]
      /\ directives' = {}
  BY <1>1, <1>5 DEF replace_next, ReplaceFirst
<1>7. replacements' = [n \in 1..k-(i+1) |->
          <<Macro("DCE", (i + 1) + n - 1), Macro("DCE", (i + 1) + n - 1 + l)>>]
  <2> DEFINE Pairs == {replacements[n] : n \in 1..k-i}
  <2>1. replacements \in Seq(Pairs) /\ Len(replacements) = k - i
    <3>1. k - i \in Nat
      BY <1>2
    <3>2. replacements = [n \in 1..k-i |-> replacements[n]]
      BY <1>3
    <3>3. replacements \in [1..k-i -> Pairs]
      BY <3>2
    <3> HIDE DEF Pairs
    <3> QED
      BY <3>1, <3>3, FunctionIsSeq
  <2>2. Tail(replacements) = [n \in 1..k-(i+1) |-> replacements[n + 1]]
    <3>1. /\ Tail(replacements) \in Seq(Pairs)
          /\ Len(Tail(replacements)) = k - (i + 1)
          /\ \A n \in 1..Len(Tail(replacements)) : Tail(replacements)[n] = replacements[n + 1]
      <4> HIDE DEF Pairs
      <4>1. /\ Tail(replacements) \in Seq(Pairs)
            /\ Len(Tail(replacements)) = Len(replacements) - 1
            /\ \A n \in 1..Len(Tail(replacements)) :
                  Tail(replacements)[n] = replacements[n + 1]
        BY <2>1, HeadTailProperties DEF replace_next
      <4> QED
        BY <4>1, <2>1, <1>4
    <3> HIDE DEF Pairs
    <3>2. Tail(replacements) \in [1..k-(i+1) -> Pairs]
      BY <3>1, LenProperties
    <3> QED
      BY <3>1, <3>2
  <2>3. \A n \in 1..k-(i+1) : replacements[n + 1] =
            <<Macro("DCE", (i + 1) + n - 1), Macro("DCE", (i + 1) + n - 1 + l)>>
    <3>1. ASSUME NEW n \in 1..k-(i+1)
          PROVE  n + 1 \in 1..k-i /\ i + (n + 1) - 1 = (i + 1) + n - 1
      BY <1>2, <1>4
    <3> QED
      BY <3>1, <1>3
  <2> QED
    BY <2>2, <2>3 DEF replace_next
<1>8. /\ code' \in [Places -> Macros]
      /\ \A s \in Places : code'[s].kind = "none" => code'[s] = NoMacro
      /\ SitesIn(code', "DCE") = SitesIn(code, "DCE")
      /\ SitesIn(code', "VR") = SitesIn(code, "VR")
      /\ \A s \in SitesIn(code, "VR") : code'[s] = code[s]
      /\ \E S \in SUBSET SitesIn(code, "DCE") :
            /\ Numbering(code', S, l, l + i + 1)
            /\ Numbering(code', SitesIn(code, "DCE") \ S, i + 1, k)
  <2>1. /\ Numbering(code, R, l, l + i)
        /\ Numbering(code, SitesIn(code, "DCE") \ R, i, k)
    BY <1>2 DEF Halfway
  <2>2. l \in Nat /\ l # 0 /\ R \in SUBSET SitesIn(code, "DCE")
    BY <1>2
  <2>3. code' = [s \in Places |-> IF s \in FirstPlaces(Macro("DCE", i))
                                 THEN Macro("DCE", i + l) ELSE code[s]]
    BY <1>6
  <2>4. Text /\ k \in Nat /\ i \in 0..k-1
    BY <1>1, <1>2, <1>4
  <2> QED
    BY <2>1, <2>2, <2>3, <2>4, Renumbering
<1>9. PICK S \in SUBSET SitesIn(code, "DCE") :
        /\ Numbering(code', S, l, l + i + 1)
        /\ Numbering(code', SitesIn(code, "DCE") \ S, i + 1, k)
  BY <1>8
<1>10. Numbering(code', SitesIn(code', "VR"), 0, l)
  <2>1. Numbering(code, SitesIn(code, "VR"), 0, l)
    BY <1>2 DEF Halfway
  <2>2. Numbering(code', SitesIn(code, "VR"), 0, l)
    BY <2>1, <1>8, SameNumbering
  <2> QED
    BY <2>2, <1>8
<1>11. Halfway(k, l, i + 1, S)'
  <2>1. l + (i + 1) = l + i + 1
    BY <1>2
  <2>2. UNCHANGED <<dce_markers, vr_markers>>
    BY DEF replace_next
  <2> QED
    BY <2>1, <2>2, <1>2, <1>7, <1>8, <1>9, <1>10 DEF Halfway
<1>12. AtReplace'
  <2>1. mode' = "DCE_AND_VR"
    BY <1>1 DEF replace_next
  <2>2. directives' = {} /\ S \in SUBSET SitesIn(code', "DCE")
    BY <1>6, <1>8
  <2> QED
    BY <2>1, <2>2, <1>2, <1>4, <1>11 DEF AtReplace
<1> QED
  BY <1>1, <1>8, <1>12 DEF Inv, Text, replace_next

(* When no replacement is left, all DCE macros carry their new ids.        *)
LEMMA ReturnInv == Inv /\ return_combined => Inv'
<1> SUFFICES ASSUME Inv, return_combined PROVE Inv'
  OBVIOUS
<1>1. Text /\ directives = {} /\ mode \in Modes /\ mode = "DCE_AND_VR"
  BY DEF return_combined, Inv, AtReplace
<1>2. PICK k, l \in Nat \ {0}, i \in Nat, R \in SUBSET SitesIn(code, "DCE") :
        i <= k /\ Halfway(k, l, i, R)
  BY DEF return_combined, Inv, AtReplace
<1>3. i = k
  <2>1. replacements = [n \in 1..k-i |->
            <<Macro("DCE", i + n - 1), Macro("DCE", i + n - 1 + l)>>]
    BY <1>2 DEF Halfway
  <2>2. 1..k-i = {}
    BY <2>1 DEF return_combined
  <2> QED
    BY <2>2, <1>2
<1>4. SitesIn(code, "DCE") \ R = {}
  <2>1. \A s \in SitesIn(code, "DCE") \ R : code[s].id \in k..k-1
    BY <1>2, <1>3 DEF Halfway, Numbering
  <2>2. k..k-1 = {}
    BY <1>2
  <2> QED
    BY <2>1, <2>2
<1>5. R = SitesIn(code, "DCE")
  BY <1>2, <1>4
<1>6. dce_markers \o vr_markers = Listing(k, l)
  <2>1. dce_markers = List("DCE", l, k) /\ vr_markers = List("VR", 0, l)
    BY <1>2 DEF Halfway
  <2>2. \A kind \in {"DCE", "VR"}, n \in Int : Macro(kind, n) \in Macros
    BY DEF Macro, Macros
  <2>3. /\ dce_markers \in Seq(Macros) /\ Len(dce_markers) = k
        /\ vr_markers \in Seq(Macros) /\ Len(vr_markers) = l
    BY <2>1, <2>2, <1>2 DEF List
  <2>4. dce_markers \o vr_markers =
            [n \in 1..k+l |-> IF n <= k THEN dce_markers[n] ELSE vr_markers[n - k]]
    <3>1. /\ dce_markers \o vr_markers \in Seq(Macros)
          /\ Len(dce_markers \o vr_markers) = k + l
          /\ \A n \in 1..k+l : (dce_markers \o vr_markers)[n] =
                IF n <= k THEN dce_markers[n] ELSE vr_markers[n - k]
      BY <2>3, ConcatProperties
    <3>2. dce_markers \o vr_markers \in [1..k+l -> Macros]
      BY <3>1, LenProperties
    <3> QED
      BY <3>1, <3>2
  <2>5. \A n \in 1..k : dce_markers[n] = Macro("DCE", l + n - 1)
    BY <2>1 DEF List
  <2>6. \A n \in 1..l : vr_markers[n] = Macro("VR", n - 1)
    BY <2>1, <1>2 DEF List
  <2>7. ASSUME NEW n \in 1..k+l
        PROVE  (IF n <= k THEN dce_markers[n] ELSE vr_markers[n - k]) =
               (IF n <= k THEN Macro("DCE", l + n - 1) ELSE Macro("VR", n - k - 1))
    BY <2>5, <2>6, <1>2
  <2> QED
    BY <2>4, <2>7 DEF Listing
<1>7. OfMode(k, l)'
  BY <1>1, <1>2 DEF return_combined, Return, OfMode
<1>8. AtReturn'
  BY <1>1, <1>2, <1>3, <1>5, <1>6, <1>7 DEF return_combined, Return, AtReturn, Halfway, SitesIn
<1> QED
  BY <1>1, <1>8 DEF Inv, Text, return_combined, Return

(* Where the macros stand and what the function has collected so far, at   *)
(* every point of instrument_program.                                      *)
THEOREM Invariance == Spec => []Inv
<1>1. Inv /\ UNCHANGED vars => Inv'
  <2> SUFFICES ASSUME Inv, UNCHANGED vars PROVE Inv'
    OBVIOUS
  <2>1. Text' = Text /\ AtDce' = AtDce /\ AtVr' = AtVr
    BY DEF vars, Text, AtDce, AtVr, Blank, SitesIn
  <2>2. AtRenumber' = AtRenumber /\ AtReturn' = AtReturn
    BY DEF vars, AtRenumber, AtReturn, OfMode, SitesIn
  <2>3. AtReplace' = AtReplace
    BY DEF vars, AtReplace, Halfway, SitesIn
  <2> QED
    BY <2>1, <2>2, <2>3 DEF vars, Inv
<1>2. Inv /\ [Next]_vars => Inv'
  BY <1>1, RunDceInv, RunVrInv, RenumberInv, ReplaceInv, ReturnInv DEF Next
<1> QED
  BY <1>2, InitInv, PTL DEF Spec

-----------------------------------------------------------------------------
(* Every marker of a program that instrument_program returns guards one    *)
(* place of its source, and no other macro is left in it.                  *)
THEOREM OnePlace == Spec => []OnePlacePerMarker
<1>1. Inv => OnePlacePerMarker
  <2> SUFFICES ASSUME Inv, pc = "returned"
               PROVE  /\ \A n \in DOMAIN result :
                            \E s \in Places : \A t \in Places : code[t] = result[n] <=> t = s
                      /\ \A s \in Places : code[s] # NoMacro => code[s] \in Elements(result)
                      /\ directives = {}
    BY DEF OnePlacePerMarker
  <2>1. Text /\ directives = {}
    BY DEF Inv, AtReturn
  <2>2. PICK k, l \in Nat : /\ result = Listing(k, l)
                            /\ Numbering(code, SitesIn(code, "DCE"), l, l + k)
                            /\ Numbering(code, SitesIn(code, "VR"), 0, l)
    BY DEF Inv, AtReturn
  <2>3. \A s \in Places, kind \in {"DCE", "VR"}, i \in Int :
            code[s] = Macro(kind, i) <=> s \in SitesIn(code, kind) /\ code[s].id = i
    <3>1. ASSUME NEW s \in Places PROVE code[s] = [kind |-> code[s].kind, id |-> code[s].id]
      BY <2>1 DEF Text, Macros
    <3> QED
      BY <3>1 DEF SitesIn, Macro
  <2>4. /\ DOMAIN result = 1..k+l
        /\ \A n \in 1..k : result[n] = Macro("DCE", l + n - 1)
        /\ \A n \in k+1..k+l : result[n] = Macro("VR", n - k - 1)
    BY <2>2 DEF Listing
  <2>5. ASSUME NEW kind \in {"DCE", "VR"}, NEW lo \in Int, NEW hi \in Int,
               Numbering(code, SitesIn(code, kind), lo, hi), NEW i \in lo..hi-1
        PROVE  \E s \in Places : \A t \in Places : code[t] = Macro(kind, i) <=> t = s
    <3>1. PICK s \in SitesIn(code, kind) :
              \A t \in SitesIn(code, kind) : code[t].id = i <=> t = s
      BY <2>5 DEF Numbering
    <3>2. s \in Places
      BY DEF SitesIn
    <3>3. \A t \in Places : code[t] = Macro(kind, i) <=> t = s
      BY <3>1, <2>3
    <3> QED
      BY <3>2, <3>3
  <2>6. ASSUME NEW n \in DOMAIN result
        PROVE  \E s \in Places : \A t \in Places : code[t] = result[n] <=> t = s
    <3>1. CASE n \in 1..k
      BY <3>1, <2>2, <2>4, <2>5
    <3>2. CASE n \in k+1..k+l
      <4>1. n - k - 1 \in 0..l-1
        BY <3>2, <2>2
      <4> QED
        BY <4>1, <3>2, <2>2, <2>4, <2>5
    <3> QED
      BY <3>1, <3>2, <2>2, <2>4
  <2>7. ASSUME NEW s \in Places, code[s] # NoMacro PROVE code[s] \in Elements(result)
    <3>1. s \in SitesIn(code, "DCE") \/ s \in SitesIn(code, "VR")
      BY <2>1, <2>7 DEF Text, Macros, SitesIn
    <3>2. CASE s \in SitesIn(code, "DCE")
      <4>1. code[s].id \in l..l+k-1
        BY <3>2, <2>2 DEF Numbering
      <4>2. code[s].id - l + 1 \in 1..k /\ code[s] = Macro("DCE", code[s].id)
        BY <4>1, <3>2, <2>2, <2>3
      <4>3. result[code[s].id - l + 1] = code[s]
        <5>1. l + (code[s].id - l + 1) - 1 = code[s].id
          BY <4>1, <2>2
        <5> QED
          BY <5>1, <4>2, <2>4
      <4> QED
        BY <4>2, <4>3, <2>2, <2>4 DEF Elements
    <3>3. CASE s \in SitesIn(code, "VR")
      <4>1. code[s].id \in 0..l-1
        BY <3>3, <2>2 DEF Numbering
      <4>2. code[s].id + k + 1 \in k+1..k+l /\ code[s] = Macro("VR", code[s].id)
        BY <4>1, <3>3, <2>2, <2>3
      <4>3. result[code[s].id + k + 1] = code[s]
        <5>1. (code[s].id + k + 1) - k - 1 = code[s].id
          BY <4>1, <2>2
        <5> QED
          BY <5>1, <4>2, <2>4
      <4> QED
        BY <4>2, <4>3, <2>2, <2>4 DEF Elements
    <3> QED
      BY <3>1, <3>2, <3>3
  <2> QED
    BY <2>1, <2>6, <2>7
<1> QED
  BY <1>1, Invariance, PTL

(* The ids of the markers that are returned are unique and leave no gap.   *)
THEOREM Contiguous == Spec => []IdsContiguous
<1>1. Inv => IdsContiguous
  <2> SUFFICES ASSUME Inv, pc = "returned"
               PROVE  /\ \A n, m \in DOMAIN result : result[n].id = result[m].id => n = m
                      /\ \A n \in DOMAIN result : result[n].id \in 0..Len(result)-1
    BY DEF IdsContiguous
  <2>1. PICK k, l \in Nat : result = Listing(k, l)
    BY DEF Inv, AtReturn
  <2>2. DOMAIN result = 1..k+l /\ Len(result) = k + l
    BY <2>1 DEF Listing
  <2>3. \A n \in 1..k+l : result[n].id = IF n <= k THEN l + n - 1 ELSE n - k - 1
    BY <2>1 DEF Listing, Macro
  <2> QED
    BY <2>1, <2>2, <2>3
<1> QED
  BY <1>1, Invariance, PTL

(* The tuple of markers that is returned lists DCE markers first, then VR  *)
(* markers, in the order of their ids within each kind, and all the VR ids *)
(* come before the DCE ids; a mode that asks for a kind of marker returns  *)
(* some of that kind, and of no other.  This is the order from which       *)
(* RenamingHistory starts the histories of programs.                       *)
THEOREM ReturnedOrder ==
    Spec => [](pc = "returned" =>
                   \E k, l \in Nat : result = Listing(k, l) /\ OfMode(k, l))
<1>1. Inv => (pc = "returned" =>
                  \E k, l \in Nat : result = Listing(k, l) /\ OfMode(k, l))
  BY DEF Inv, AtReturn
<1> QED
  BY <1>1, Invariance, PTL
=============================================================================
