-------------------------- MODULE RenamingProofs --------------------------
(***************************************************************************)
(* Proofs about MarkerRenaming, for every list of programs, and about      *)
(* RenamingHistory, for any number of programs with any number of markers  *)
(* and any history.                                                        *)
(***************************************************************************)
EXTENDS RenamingHistory, SequenceTheorems, FiniteSetTheorems, TLAPS

-----------------------------------------------------------------------------
(* MarkerRenaming: the inductive invariant                                 *)

(* The id the first marker of the current program is renamed to.           *)
Base == current_marker_id - Len(Current.markers)

(* All ids handed out to finished programs are below this one.             *)
Bound == IF pc = "collect" THEN current_marker_id ELSE Base

TypeInv ==
    /\ ValidInput(programs)
    /\ new_programs \in Seq(Program)
    /\ Len(new_programs) \in 1..Len(programs)
    /\ current_marker_id \in Nat
    /\ code \in Code
    /\ pc \in {"collect", "replace"}

(* The state of the loop over the replacements.                            *)
LoopInv ==
    pc = "replace" =>
        /\ Len(new_programs) < Len(programs)
        /\ Base \in Nat
        /\ pending \subseteq NamesOf(Current)
        /\ DOMAIN replacements = NamesOf(Current)
        /\ \A i \in DOMAIN Current.markers :
              replacements[Current.markers[i]] = UpdateId(Current.markers[i], Base + i - 1)
        /\ \A a \in NamesOf(Current) \ pending, b \in pending : b.id < a.id

(* The names of the current program that have been replaced.               *)
Done == NamesOf(Current) \ pending

(* Where a name done so far stood, its new name still stands exactly if it *)
(* was not the old name of a marker done after it.  Everything else is     *)
(* where it was.                                                           *)
CodeInv ==
    pc = "replace" =>
        \A s \in Sites :
            LET m == Current.code[s]
            IN  /\ m \notin Done => code[s] = m
                /\ m \in Done =>
                      (code[s] = replacements[m]
                          <=> \A b \in Done : replacements[m] = b => m.id <= b.id)

(* Finished programs have as many markers as before, of the same kinds.    *)
SameKinds ==
    \A n \in 1..Len(new_programs) :
        /\ DOMAIN new_programs[n].markers = DOMAIN programs[n].markers
        /\ \A i \in DOMAIN programs[n].markers :
              new_programs[n].markers[i].kind = programs[n].markers[i].kind

(* The ids of a renamed program are consecutive, in the order of its tuple.*)
Consecutive ==
    \A n \in Renamed : \E b \in Nat : \A i \in DOMAIN new_programs[n].markers :
        new_programs[n].markers[i].id = b + i - 1

(* A renamed program has ids above those a dense first program has, and    *)
(* below those not yet handed out to it.                                   *)
IdsBetween ==
    /\ Len(programs[1].markers) <= Bound
    /\ \A n \in Renamed : \A i \in DOMAIN new_programs[n].markers :
          /\ Len(programs[1].markers) <= new_programs[n].markers[i].id
          /\ new_programs[n].markers[i].id < Bound

(* No two renamed programs share an id.                                    *)
RenamedUnique ==
    \A n, m \in Renamed :
        \A i \in DOMAIN new_programs[n].markers, j \in DOMAIN new_programs[m].markers :
            new_programs[n].markers[i].id = new_programs[m].markers[j].id
                => n = m /\ i = j

(* No id is handed out for nothing.                                        *)
AllInUse ==
    \A x \in Len(programs[1].markers)..(Bound - 1) :
        \E n \in Renamed : \E i \in DOMAIN new_programs[n].markers :
            new_programs[n].markers[i].id = x

Inv ==
    /\ TypeInv /\ LoopInv /\ CodeInv
    /\ new_programs[1] = programs[1]
    /\ SameKinds /\ Consecutive
    /\ IdsBetween /\ RenamedUnique /\ AllInUse
    /\ FollowIffOrderSafe

-----------------------------------------------------------------------------
(* A marker is found at its place in the markers tuple.                    *)
LEMMA IndexOfMarker ==
    ASSUME NEW p, ValidProgram(p), NEW i \in DOMAIN p.markers
    PROVE  IndexOf(p, p.markers[i]) = i
BY DEF IndexOf, ValidProgram

(* The current program is one of the input's.                              *)
LEMMA CurrentIsValid ==
    ASSUME TypeInv, Len(new_programs) < Len(programs)
    PROVE  /\ Len(new_programs) + 1 \in 1..Len(programs)
           /\ ValidProgram(Current)
           /\ Current.markers \in Seq(Name) /\ Len(Current.markers) \in Nat
           /\ DOMAIN Current.markers = 1..Len(Current.markers)
           /\ Current.code \in Code
<1>1. programs \in Seq(Program) /\ Len(programs) \in Nat
  BY DEF TypeInv, ValidInput
<1>2. Len(new_programs) + 1 \in 1..Len(programs)
  BY <1>1 DEF TypeInv
<1>3. ValidProgram(Current)
  BY <1>2 DEF TypeInv, Current, ValidInput
<1> QED BY <1>2, <1>3 DEF ValidProgram, Program

(* Before the first program is renamed there is nothing to relate.         *)
LEMMA InitInv == Init => Inv
<1> SUFFICES ASSUME Init PROVE Inv
  OBVIOUS
<1>1. /\ programs \in Seq(Program) /\ Len(programs) \in Nat /\ 1 \in 1..Len(programs)
      /\ ValidProgram(programs[1])
  BY InputsAssumption DEF Init, ValidInput
<1>2. /\ programs[1] \in Program /\ programs[1].markers \in Seq(Name)
      /\ Len(programs[1].markers) \in Nat
  BY <1>1 DEF ValidProgram, Program
<1>3. new_programs = <<programs[1]>> /\ Len(new_programs) = 1
      /\ new_programs[1] = programs[1] /\ new_programs \in Seq(Program)
  BY <1>2 DEF Init
<1>4. code \in Code
  BY DEF Init, Code
<1>5. TypeInv
  BY InputsAssumption, <1>1, <1>2, <1>3, <1>4 DEF TypeInv, Init
<1>6. LoopInv /\ CodeInv
  BY DEF Init, LoopInv, CodeInv
<1>7. SameKinds /\ Consecutive
  BY <1>3 DEF SameKinds, Consecutive, Renamed
<1>8. IdsBetween /\ RenamedUnique /\ AllInUse
  BY <1>2, <1>3 DEF IdsBetween, RenamedUnique, AllInUse, Init, Bound, Renamed
<1>9. FollowIffOrderSafe
  BY <1>3 DEF FollowIffOrderSafe, Renamed
<1> QED BY <1>3, <1>5, <1>6, <1>7, <1>8, <1>9 DEF Inv

(* Collecting hands out the ids after those already in use.                *)
LEMMA CollectInv == ASSUME Inv, collect_markers PROVE Inv'
<1> DEFINE p == Current
<1>1. /\ Len(new_programs) < Len(programs) /\ pc = "collect" /\ pc' = "replace"
      /\ current_marker_id' = current_marker_id + Len(p.markers)
      /\ pending' = NamesOf(p) /\ code' = p.code
      /\ replacements' = [m \in NamesOf(p) |->
            UpdateId(m, current_marker_id + IndexOf(p, m) - 1)]
      /\ UNCHANGED <<programs, new_programs>> /\ p' = p
  BY DEF collect_markers, Current
<1>2. /\ ValidProgram(p) /\ Len(p.markers) \in Nat /\ p.code \in Code
      /\ DOMAIN p.markers = 1..Len(p.markers)
  BY <1>1, CurrentIsValid DEF Inv
<1> HIDE DEF p
<1>3. TypeInv'
  BY <1>1, <1>2 DEF Inv, TypeInv
<1>4. Base' = current_marker_id
  BY <1>1, <1>2 DEF Base, p, Inv, TypeInv
<1>5. \A i \in DOMAIN p.markers :
        replacements'[p.markers[i]] = UpdateId(p.markers[i], Base' + i - 1)
  <2> SUFFICES ASSUME NEW i \in DOMAIN p.markers
               PROVE  replacements'[p.markers[i]] = UpdateId(p.markers[i], Base' + i - 1)
    OBVIOUS
  <2>1. p.markers[i] \in NamesOf(p) /\ IndexOf(p, p.markers[i]) = i
    BY <1>2, IndexOfMarker DEF NamesOf
  <2> QED BY <1>1, <1>4, <2>1
<1>6. LoopInv'
  BY <1>1, <1>4, <1>5 DEF LoopInv, p, Inv, TypeInv
<1>7. CodeInv'
  BY <1>1 DEF CodeInv, Done, p
<1>8. SameKinds' /\ Consecutive' /\ RenamedUnique' /\ FollowIffOrderSafe'
  BY <1>1 DEF Inv, SameKinds, Consecutive, RenamedUnique, FollowIffOrderSafe, Renamed,
              OrderSafe, SitesFollow
<1>9. IdsBetween' /\ AllInUse'
  <2>1. Bound' = Bound
    BY <1>1, <1>4 DEF Bound
  <2> QED BY <1>1, <2>1 DEF Inv, IdsBetween, AllInUse, Renamed
<1> QED BY <1>1, <1>3, <1>6, <1>7, <1>8, <1>9 DEF Inv

(* Names of a valid program differ in their ids.                           *)
LEMMA NamesHaveIds ==
    ASSUME NEW p, ValidProgram(p)
    PROVE  /\ \A a \in NamesOf(p) : a \in Name /\ a.id \in Nat /\ a # NoMacro
           /\ \A a, b \in NamesOf(p) : a.id = b.id => a = b
<1>1. \A i \in DOMAIN p.markers : p.markers[i] \in Name
  BY DEF ValidProgram, Program
<1>2. \A a \in Name : a.id \in Nat /\ a # NoMacro
  BY DEF Name, NoMacro
<1>3. \A a \in NamesOf(p) : \E i \in DOMAIN p.markers : a = p.markers[i]
  BY DEF NamesOf
<1>4. \A i, j \in DOMAIN p.markers : p.markers[i].id = p.markers[j].id => i = j
  BY DEF ValidProgram
<1>5. \A a, b \in NamesOf(p) : a.id = b.id => a = b
  BY <1>3, <1>4
<1> QED BY <1>1, <1>2, <1>3, <1>5

(* No two names of the current program get one new name.                   *)
LEMMA ReplacementsInjective ==
    ASSUME TypeInv, LoopInv, pc = "replace",
           NEW a \in NamesOf(Current), NEW b \in NamesOf(Current),
           replacements[a] = replacements[b]
    PROVE  a = b
<1>1. Len(new_programs) < Len(programs) /\ Base \in Nat
  BY DEF LoopInv
<1>2. DOMAIN Current.markers = 1..Len(Current.markers) /\ Len(Current.markers) \in Nat
  BY <1>1, CurrentIsValid
<1>3. PICK i, j \in DOMAIN Current.markers : a = Current.markers[i] /\ b = Current.markers[j]
  BY DEF NamesOf
<1>4. ASSUME NEW m, NEW x, replacements[m] = UpdateId(m, x)
      PROVE  replacements[m].id = x
  BY <1>4 DEF UpdateId
<1>5. Base + i - 1 = Base + j - 1
  BY <1>3, <1>4 DEF LoopInv
<1> QED BY <1>1, <1>2, <1>3, <1>5

(* One str.replace moves the sites of one marker to its new name.          *)
LEMMA ReplaceInv == ASSUME Inv, replace_next PROVE Inv'
<1> DEFINE p == Current
<1>1. PICK old \in pending :
        /\ \A m \in pending : m.id <= old.id
        /\ code' = ReplaceMacro(code, old, replacements[old])
        /\ pending' = pending \ {old}
  BY DEF replace_next
<1>2. /\ pc = "replace" /\ pc' = "replace" /\ p' = p
      /\ UNCHANGED <<programs, new_programs, current_marker_id, replacements>>
  BY DEF replace_next, Current
<1>3. /\ ValidProgram(p) /\ Len(p.markers) \in Nat /\ p.code \in Code
      /\ DOMAIN p.markers = 1..Len(p.markers)
  BY <1>2, CurrentIsValid DEF Inv, LoopInv
<1>4. /\ pending \subseteq NamesOf(p) /\ old \in NamesOf(p)
      /\ \A a \in NamesOf(p) \ pending, b \in pending : b.id < a.id
      /\ \A a, b \in NamesOf(p) : a.id = b.id => a = b
      /\ \A a \in NamesOf(p) : a.id \in Nat
  BY <1>1, <1>2, <1>3, NamesHaveIds DEF Inv, LoopInv
<1>5. replacements[old] \in Name
  <2>1. PICK i \in DOMAIN p.markers : old = p.markers[i]
    BY <1>4 DEF NamesOf
  <2>2. replacements[old] = UpdateId(old, Base + i - 1) /\ Base \in Nat /\ i \in Nat \ {0}
    BY <1>2, <1>3, <2>1 DEF Inv, LoopInv
  <2>3. Base + i - 1 \in Nat /\ old \in Name
    BY <1>3, <1>4, <2>2, NamesHaveIds
  <2> QED BY <2>2, <2>3 DEF UpdateId, Name
<1>6. TypeInv'
  BY <1>1, <1>2, <1>5 DEF Inv, TypeInv, ReplaceMacro, Code
<1>7. \A a \in NamesOf(p) \ pending', b \in pending' : b.id < a.id
  BY <1>1, <1>4
<1>8. LoopInv'
  <2>1. Base' = Base /\ pending' \subseteq pending
    BY <1>1, <1>2 DEF Base, p
  <2> QED BY <1>2, <1>7, <2>1 DEF Inv, LoopInv, p
<1>9. CodeInv'
  <2>1. Done' = Done \cup {old}
    BY <1>1, <1>2, <1>4 DEF Done, p
  <2>2. \A a \in NamesOf(p) : replacements[a] = replacements[old] => a = old
    BY <1>2, <1>4, ReplacementsInjective DEF Inv, p
  <2>3. /\ Done \subseteq NamesOf(p) /\ old \notin Done
        /\ \A a \in Done : old.id < a.id
    BY <1>1, <1>4 DEF Done, p
  <2> SUFFICES ASSUME NEW s \in Sites
               PROVE  LET m == p.code[s]
                      IN  /\ m \notin Done \cup {old} => code'[s] = m
                          /\ m \in Done \cup {old} =>
                                (code'[s] = replacements[m] <=>
                                    \A b \in Done \cup {old} :
                                        replacements[m] = b => m.id <= b.id)
    BY <1>2, <2>1 DEF CodeInv, p
  <2> DEFINE m == p.code[s]
  <2>4. /\ m \notin Done => code[s] = m
        /\ m \in Done =>
              (code[s] = replacements[m]
                  <=> \A b \in Done : replacements[m] = b => m.id <= b.id)
    BY <1>2 DEF Inv, CodeInv, p
  <2>5. code'[s] = IF code[s] = old THEN replacements[old] ELSE code[s]
    BY <1>1 DEF ReplaceMacro
  <2> HIDE DEF m
  <2>6. CASE m \in Done
    <3>1. m # old /\ old.id < m.id /\ m.id \in Nat /\ old.id \in Nat
          /\ replacements[m] # replacements[old]
      BY <1>4, <2>2, <2>3, <2>6
    <3>2. CASE code[s] = old
      <4>1. code'[s] # replacements[m]
        BY <2>5, <3>1, <3>2
      <4>2. ~ \A b \in Done \cup {old} : replacements[m] = b => m.id <= b.id
        BY <2>4, <2>6, <3>1, <3>2
      <4> QED BY <2>6, <4>1, <4>2 DEF m
    <3>3. CASE code[s] # old
      <4>1. code'[s] = code[s]
        BY <2>5, <3>3
      <4>2. code[s] = replacements[m] => replacements[m] # old
        BY <3>3
      <4> QED BY <2>4, <2>6, <3>1, <4>1, <4>2 DEF m
    <3> QED BY <3>2, <3>3
  <2>7. CASE m = old
    <3>1. code'[s] = replacements[m]
      BY <2>3, <2>4, <2>5, <2>7
    <3>2. \A b \in Done \cup {old} : m.id <= b.id
      BY <1>4, <2>3, <2>7
    <3> QED BY <2>7, <3>1, <3>2 DEF m
  <2>8. CASE m # old /\ m \notin Done
    BY <2>4, <2>5, <2>8 DEF m
  <2> QED BY <2>6, <2>7, <2>8
<1>10. SameKinds' /\ Consecutive' /\ RenamedUnique' /\ FollowIffOrderSafe'
  <2>1. SameKinds' /\ Consecutive' /\ RenamedUnique'
    BY <1>2 DEF Inv, SameKinds, Consecutive, RenamedUnique, Renamed
  <2>2. FollowIffOrderSafe'
    BY <1>2 DEF Inv, FollowIffOrderSafe, Renamed, OrderSafe, SitesFollow
  <2> QED BY <2>1, <2>2
<1>11. IdsBetween' /\ AllInUse'
  <2>1. Bound' = Bound
    BY <1>2 DEF Bound, Base, p
  <2> QED BY <1>2, <2>1 DEF Inv, IdsBetween, AllInUse, Renamed
<1> QED BY <1>2, <1>6, <1>8, <1>9, <1>10, <1>11 DEF Inv

(* A program is added to the result when nothing is left to replace.       *)
LEMMA FinishInv == ASSUME Inv, finish_program PROVE Inv'
<1> DEFINE p == Current
           n == Len(new_programs)
           q == new_program
<1>1. /\ pc = "replace" /\ pc' = "collect" /\ pending = {}
      /\ new_programs' = Append(new_programs, q)
      /\ UNCHANGED <<programs, current_marker_id, replacements, pending, code>>
  BY DEF finish_program
<1>2. /\ ValidProgram(p) /\ Len(p.markers) \in Nat
      /\ p.markers \in Seq(Name) /\ DOMAIN p.markers = 1..Len(p.markers)
      /\ n + 1 \in 1..Len(programs) /\ n \in Nat
      /\ p = programs[n + 1]
  BY <1>1, CurrentIsValid DEF Inv, LoopInv, Current, TypeInv
<1>3. /\ Base \in Nat /\ current_marker_id = Base + Len(p.markers)
      /\ \A i \in DOMAIN p.markers :
            replacements[p.markers[i]] = UpdateId(p.markers[i], Base + i - 1)
  BY <1>1, <1>2 DEF Inv, LoopInv, Base, TypeInv
<1>4. /\ q.markers = [i \in 1..Len(p.markers) |-> replacements[p.markers[i]]]
      /\ q.code = code
      /\ q = [markers |-> q.markers, code |-> q.code]
  BY DEF new_program, p
<1>5. /\ DOMAIN q.markers = DOMAIN p.markers
      /\ \A i \in DOMAIN p.markers : /\ q.markers[i] = replacements[p.markers[i]]
                                     /\ q.markers[i].id = Base + i - 1
                                     /\ q.markers[i].kind = p.markers[i].kind
                                     /\ q.markers[i] \in Name
  <2>1. ASSUME NEW i \in DOMAIN p.markers
        PROVE  /\ q.markers[i] = replacements[p.markers[i]]
               /\ q.markers[i].id = Base + i - 1
               /\ q.markers[i].kind = p.markers[i].kind
               /\ q.markers[i] \in Name
    <3>1. q.markers[i] = UpdateId(p.markers[i], Base + i - 1)
      BY <1>2, <1>3, <1>4
    <3>2. Base + i - 1 \in Nat /\ p.markers[i] \in Name
      BY <1>2, <1>3
    <3> QED BY <1>2, <1>4, <3>1, <3>2 DEF UpdateId, Name
  <2> QED BY <1>2, <1>4, <2>1
<1>6. q \in Program
  <2>1. q.markers \in Seq(Name)
    <3>1. q.markers \in [1..Len(p.markers) -> Name]
      <4> HIDE DEF q
      <4> QED BY <1>2, <1>4, <1>5
    <3> QED BY <1>2, <3>1, SeqDef
  <2> HIDE DEF q
  <2> QED BY <1>4, <2>1 DEF Program, Inv, TypeInv
<1> HIDE DEF p, q
<1>7. /\ new_programs' \in Seq(Program) /\ Len(new_programs') = n + 1
      /\ \A k \in 1..n : new_programs'[k] = new_programs[k]
      /\ new_programs'[n + 1] = q
  BY <1>1, <1>6 DEF Inv, TypeInv
<1>8. TypeInv'
  BY <1>1, <1>2, <1>7 DEF Inv, TypeInv
<1>9. LoopInv' /\ CodeInv'
  BY <1>1 DEF LoopInv, CodeInv
<1>11. \A k \in 1..(n + 1) : k \in 1..n \/ k = n + 1
  BY <1>2
<1>10. SameKinds'
  <2> SUFFICES ASSUME NEW k \in 1..(n + 1)
               PROVE  /\ DOMAIN new_programs'[k].markers = DOMAIN programs[k].markers
                      /\ \A i \in DOMAIN programs[k].markers :
                            new_programs'[k].markers[i].kind = programs[k].markers[i].kind
    BY <1>1, <1>7 DEF SameKinds
  <2>1. CASE k \in 1..n
    BY <1>7, <2>1 DEF Inv, SameKinds
  <2>2. CASE k = n + 1
    BY <1>2, <1>5, <1>7, <2>2
  <2> QED
    BY <1>11, <2>1, <2>2
<1>12. Consecutive'
  <2> SUFFICES ASSUME NEW k \in 1..(n + 1), k # 1
               PROVE  \E b \in Nat : \A i \in DOMAIN new_programs'[k].markers :
                          new_programs'[k].markers[i].id = b + i - 1
    BY <1>7 DEF Consecutive, Renamed
  <2>1. CASE k \in 1..n
    BY <1>7, <2>1 DEF Inv, Consecutive, Renamed
  <2>2. CASE k = n + 1
    BY <1>3, <1>5, <1>7, <2>2
  <2> QED BY <1>11, <2>1, <2>2
<1>13. FollowIffOrderSafe'
  <2> SUFFICES ASSUME NEW k \in Renamed' PROVE OrderSafe(k)' <=> SitesFollow(k)'
    BY DEF FollowIffOrderSafe
  <2>1. CASE k \in 1..n
    BY <1>1, <1>7, <2>1
       DEF Inv, FollowIffOrderSafe, Renamed, OrderSafe, SitesFollow
  <2>2. CASE k = n + 1
    <3> DEFINE Safe(m) == \A b \in NamesOf(p) : replacements[m] = b => m.id <= b.id
    <3>1. \A s \in Sites :
            /\ p.code[s] \notin NamesOf(p) => code[s] = p.code[s]
            /\ p.code[s] \in NamesOf(p) =>
                  (code[s] = replacements[p.code[s]] <=> Safe(p.code[s]))
      BY <1>1 DEF Inv, CodeInv, Done, p
    <3>2. ASSUME NEW i \in DOMAIN p.markers
          PROVE  Safe(p.markers[i]) <=>
                     \A j \in DOMAIN p.markers :
                         q.markers[i] = p.markers[j] => p.markers[i].id <= p.markers[j].id
      BY <1>5 DEF NamesOf
    <3> HIDE DEF Safe
    <3>0. programs'[k] = p /\ new_programs'[k] = q
      BY <1>1, <1>2, <1>7, <2>2
    <3>3. OrderSafe(k)' <=>
              \A i \in DOMAIN p.markers :
                  (\E s \in Sites : p.code[s] = p.markers[i]) => Safe(p.markers[i])
      <4>1. OrderSafe(k)' <=>
                \A i, j \in DOMAIN p.markers :
                    (q.markers[i] = p.markers[j] /\ \E s \in Sites : p.code[s] = p.markers[i])
                        => p.markers[i].id <= p.markers[j].id
        BY <3>0 DEF OrderSafe
      <4> QED BY <3>2, <4>1
    <3>4. ASSUME NEW s \in Sites
          PROVE  (q.code[s] = IF p.code[s] = NoMacro THEN NoMacro
                              ELSE q.markers[IndexOf(p, p.code[s])])
                 <=> (p.code[s] \in NamesOf(p) => Safe(p.code[s]))
      <4>1. CASE p.code[s] = NoMacro
        BY <1>2, <1>4, <3>1, <4>1, NamesHaveIds
      <4>2. CASE p.code[s] # NoMacro
        <5>1. PICK i \in DOMAIN p.markers : p.code[s] = p.markers[i]
          BY <1>2, <4>2 DEF ValidProgram, NamesOf
        <5>2. IndexOf(p, p.code[s]) = i /\ p.code[s] \in NamesOf(p)
          BY <1>2, <5>1, IndexOfMarker DEF NamesOf
        <5>3. q.markers[i] = replacements[p.code[s]]
          BY <1>5, <5>1
        <5> QED BY <1>4, <3>1, <4>2, <5>2, <5>3
      <4> QED BY <4>1, <4>2
    <3>5. SitesFollow(k)' <=> \A s \in Sites : p.code[s] \in NamesOf(p) => Safe(p.code[s])
      <4>1. SitesFollow(k)' <=>
                \A s \in Sites :
                    q.code[s] = IF p.code[s] = NoMacro THEN NoMacro
                                ELSE q.markers[IndexOf(p, p.code[s])]
        BY <3>0 DEF SitesFollow
      <4> QED BY <3>4, <4>1
    <3> QED BY <3>3, <3>5 DEF NamesOf
  <2> QED BY <1>7, <1>11, <2>1, <2>2 DEF Renamed
<1>14. /\ Bound = Base /\ Bound' = Base + Len(p.markers)
       /\ Base \in Nat /\ Len(p.markers) \in Nat
       /\ Len(programs[1].markers) \in Nat /\ Len(programs[1].markers) <= Base
  <2>1. programs[1] \in Program
    BY <1>2 DEF Inv, TypeInv, ValidInput, ValidProgram
  <2>2. Len(programs[1].markers) \in Nat
    BY <2>1 DEF Program
  <2> QED BY <1>1, <1>2, <1>3, <2>2 DEF Bound, Inv, IdsBetween
<1>15. ASSUME NEW k \in Renamed', NEW i \in DOMAIN new_programs'[k].markers
       PROVE  \/ /\ k \in Renamed /\ k \in 1..n /\ new_programs'[k] = new_programs[k]
                 /\ new_programs'[k].markers[i].id \in Nat
                 /\ Len(programs[1].markers) <= new_programs'[k].markers[i].id
                 /\ new_programs'[k].markers[i].id < Base
              \/ /\ k = n + 1 /\ i \in 1..Len(p.markers)
                 /\ new_programs'[k].markers[i].id = Base + i - 1
  <2>1. CASE k \in 1..n
    <3>1. k \in Renamed /\ new_programs'[k] = new_programs[k]
      BY <1>7, <2>1 DEF Renamed
    <3>2. new_programs[k] \in Program
      BY <2>1 DEF Inv, TypeInv
    <3>3. new_programs[k].markers[i] \in Name
      BY <1>15, <3>1, <3>2 DEF Program
    <3>4. new_programs[k].markers[i].id \in Nat
      BY <3>3 DEF Name
    <3> QED BY <1>14, <1>15, <2>1, <3>1, <3>4 DEF Inv, IdsBetween
  <2>2. CASE k = n + 1
    BY <1>2, <1>5, <1>7, <1>15, <2>2
  <2> QED BY <1>7, <1>11, <2>1, <2>2 DEF Renamed
<1>16. IdsBetween'
  <2> SUFFICES ASSUME NEW k \in Renamed', NEW i \in DOMAIN new_programs'[k].markers
               PROVE  /\ Len(programs[1].markers) <= new_programs'[k].markers[i].id
                      /\ new_programs'[k].markers[i].id < Bound'
    <3>1. programs' = programs /\ Len(programs[1].markers) <= Bound'
      BY <1>1, <1>14
    <3> QED BY <3>1 DEF IdsBetween
  <2> QED BY <1>14, <1>15
<1>17. RenamedUnique'
  <2> SUFFICES ASSUME NEW k \in Renamed', NEW m \in Renamed',
                      NEW i \in DOMAIN new_programs'[k].markers,
                      NEW j \in DOMAIN new_programs'[m].markers,
                      new_programs'[k].markers[i].id = new_programs'[m].markers[j].id
               PROVE  k = m /\ i = j
    BY DEF RenamedUnique
  <2>1. CASE k \in 1..n /\ m \in 1..n
    <3>1. k \in Renamed /\ m \in Renamed
      BY <2>1 DEF Renamed
    <3> QED BY <1>7, <2>1, <3>1 DEF Inv, RenamedUnique
  <2> DEFINE a == new_programs'[k].markers[i].id
             b == new_programs'[m].markers[j].id
  <2>2. \/ k \in 1..n /\ a < Base /\ a \in Nat
        \/ k = n + 1 /\ i \in 1..Len(p.markers) /\ a = Base + i - 1
    BY <1>15
  <2>3. \/ m \in 1..n /\ b < Base /\ b \in Nat
        \/ m = n + 1 /\ j \in 1..Len(p.markers) /\ b = Base + j - 1
    BY <1>15
  <2>4. a = b
    OBVIOUS
  <2> HIDE DEF a, b
  <2> QED BY <1>14, <2>1, <2>2, <2>3, <2>4
<1>18. AllInUse'
  <2> SUFFICES ASSUME NEW x \in Len(programs[1].markers)..(Bound' - 1)
               PROVE  \E k \in Renamed' : \E i \in DOMAIN new_programs'[k].markers :
                          new_programs'[k].markers[i].id = x
    BY <1>1 DEF AllInUse
  <2>1. CASE x < Base
    <3>1. x \in Len(programs[1].markers)..(Bound - 1)
      BY <1>14, <2>1
    <3>2. PICK k \in Renamed : \E i \in DOMAIN new_programs[k].markers :
             new_programs[k].markers[i].id = x
      BY <3>1 DEF Inv, AllInUse
    <3>3. k \in 1..n /\ k \in Renamed'
      BY <1>2, <1>7 DEF Renamed
    <3> QED BY <1>7, <3>2, <3>3
  <2>2. CASE x >= Base
    <3>1. x - Base + 1 \in 1..Len(p.markers) /\ Base + (x - Base + 1) - 1 = x
      BY <1>14, <2>2
    <3>2. n + 1 \in Renamed'
      BY <1>2, <1>7 DEF Renamed, Inv, TypeInv
    <3>3. /\ x - Base + 1 \in DOMAIN q.markers
          /\ q.markers[x - Base + 1].id = Base + (x - Base + 1) - 1
      BY <1>2, <1>5, <3>1
    <3> QED BY <1>7, <3>1, <3>2, <3>3
  <2> QED BY <1>14, <2>1, <2>2
<1>19. new_programs'[1] = programs'[1]
  BY <1>1, <1>7 DEF Inv, TypeInv
<1> QED BY <1>8, <1>9, <1>10, <1>12, <1>13, <1>16, <1>17, <1>18, <1>19 DEF Inv

(* Every step of rename_markers keeps the invariant.                       *)
LEMMA StepInv == Inv /\ [Next]_vars => Inv'
<1> SUFFICES ASSUME Inv, [Next]_vars PROVE Inv'
  OBVIOUS
<1>1. CASE UNCHANGED vars
  BY <1>1 DEF vars, Inv, TypeInv, LoopInv, CodeInv, Done, SameKinds, Consecutive,
              IdsBetween, RenamedUnique, AllInUse, FollowIffOrderSafe, Renamed,
              OrderSafe, SitesFollow, Bound, Base, Current
<1> QED BY <1>1, CollectInv, ReplaceInv, FinishInv DEF Next

(* What rename_markers knows at every point of its loops.                  *)
LEMMA Invariance == Spec => []Inv
BY InitInv, StepInv, PTL DEF Spec

-----------------------------------------------------------------------------
(* A collision of ids is one of a first program's id with one handed out.  *)
LEMMA UniqueIffFree ==
    ASSUME Inv
    PROVE  MarkersUnique <=>
               \A i \in DOMAIN programs[1].markers :
                   programs[1].markers[i].id \notin Len(programs[1].markers)..(Bound - 1)
<1> DEFINE first == programs[1].markers
<1>1. /\ 1 \in 1..Len(new_programs) /\ new_programs[1] = programs[1]
      /\ ValidProgram(programs[1])
  BY DEF Inv, TypeInv, ValidInput
<1>2. first \in Seq(Name) /\ Len(first) \in Nat
  BY <1>1 DEF ValidProgram, Program
<1>3. \A i \in DOMAIN first : first[i].id \in Nat
  <2>1. \A i \in DOMAIN first : first[i] \in Name
    BY <1>2
  <2> QED BY <2>1 DEF Name
<1>4. Bound \in Int
  BY <1>1, CurrentIsValid DEF Inv, TypeInv, LoopInv, Bound, Base
<1>5. \A n \in 1..Len(new_programs) : n = 1 \/ n \in Renamed
  BY DEF Renamed
<1>6. ASSUME MarkersUnique, NEW i \in DOMAIN first, first[i].id \in Len(first)..(Bound - 1)
      PROVE  FALSE
  <2>1. PICK n \in Renamed : \E j \in DOMAIN new_programs[n].markers :
           new_programs[n].markers[j].id = first[i].id
    BY <1>6 DEF Inv, AllInUse
  <2>2. n \in 1..Len(new_programs) /\ n # 1
    BY DEF Renamed
  <2> QED BY <1>1, <1>6, <2>1, <2>2 DEF MarkersUnique
<1>7. ASSUME \A i \in DOMAIN first : first[i].id \notin Len(first)..(Bound - 1),
             NEW n \in Renamed, NEW i \in DOMAIN first, NEW j \in DOMAIN new_programs[n].markers
      PROVE  first[i].id # new_programs[n].markers[j].id
  <2>1. /\ Len(first) <= new_programs[n].markers[j].id
        /\ new_programs[n].markers[j].id < Bound
    BY DEF Inv, IdsBetween
  <2> QED BY <1>2, <1>3, <1>4, <1>7, <2>1
<1>8. ASSUME \A i \in DOMAIN first : first[i].id \notin Len(first)..(Bound - 1)
      PROVE  MarkersUnique
  <2> SUFFICES ASSUME NEW n \in 1..Len(new_programs), NEW m \in 1..Len(new_programs),
                      NEW i \in DOMAIN new_programs[n].markers,
                      NEW j \in DOMAIN new_programs[m].markers,
                      new_programs[n].markers[i].id = new_programs[m].markers[j].id
               PROVE  n = m /\ i = j
    BY DEF MarkersUnique
  <2>1. CASE n = 1 /\ m = 1
    BY <1>1, <2>1 DEF ValidProgram
  <2>2. CASE n = 1 /\ m \in Renamed
    BY <1>1, <1>7, <1>8, <2>2
  <2>3. CASE n \in Renamed /\ m = 1
    BY <1>1, <1>7, <1>8, <2>3
  <2>4. CASE n \in Renamed /\ m \in Renamed
    BY <2>4 DEF Inv, RenamedUnique
  <2> QED BY <1>5, <2>1, <2>2, <2>3, <2>4
<1> QED BY <1>6, <1>8

(* However many programs there are and whatever their markers: two markers *)
(* share an id exactly if the first program has one that is handed out.    *)
THEOREM UniqueRenaming == Spec => []UniqueIffNotTaken
<1>1. Inv => UniqueIffNotTaken
  BY UniqueIffFree DEF UniqueIffNotTaken, HandedOut, Bound
<1> QED BY <1>1, Invariance, PTL

(* The sequential replacements have the effect of a simultaneous one       *)
(* exactly if no new name in the code is the old name of a smaller id.     *)
THEOREM FollowingSites == Spec => []FollowIffOrderSafe
<1>1. Inv => FollowIffOrderSafe
  BY DEF Inv
<1> QED BY <1>1, Invariance, PTL

(* A program whose markers are numbered from 0 in the order of its tuple,  *)
(* as instrument_program returns them in the modes DCE and VR.             *)
Numbered(p) == \A i \in DOMAIN p.markers : p.markers[i].id = i - 1

(* Programs fresh from one instrumentation mode are renamed correctly.     *)
THEOREM NumberedProgramsFollow ==
    Spec => [](\A n \in Renamed : Numbered(programs[n]) => SitesFollow(n))
<1>1. ASSUME Inv, NEW n \in Renamed, Numbered(programs[n])
      PROVE  SitesFollow(n)
  <2>1. PICK b \in Nat : \A i \in DOMAIN new_programs[n].markers :
                            new_programs[n].markers[i].id = b + i - 1
    BY <1>1 DEF Inv, Consecutive
  <2>2. DOMAIN new_programs[n].markers = DOMAIN programs[n].markers
    BY <1>1 DEF Inv, SameKinds, Renamed
  <2>3. DOMAIN programs[n].markers \subseteq Int
    <3>1. programs \in Seq(Program) /\ Len(programs) \in Nat
      BY <1>1 DEF Inv, TypeInv, ValidInput
    <3>2. n \in 1..Len(programs)
      BY <1>1, <3>1 DEF Inv, TypeInv, Renamed
    <3>3. programs[n] \in Program
      BY <3>1, <3>2
    <3>4. programs[n].markers \in Seq(Name)
      BY <3>3 DEF Program
    <3> QED BY <3>4
  <2>4. ASSUME NEW i \in DOMAIN programs[n].markers, NEW j \in DOMAIN programs[n].markers,
               new_programs[n].markers[i] = programs[n].markers[j]
        PROVE  programs[n].markers[i].id <= programs[n].markers[j].id
    <3>1. /\ programs[n].markers[i].id = i - 1 /\ programs[n].markers[j].id = j - 1
          /\ new_programs[n].markers[i].id = b + i - 1
      BY <1>1, <2>1, <2>2 DEF Numbered
    <3>2. j - 1 = b + i - 1 /\ i \in Int /\ j \in Int
      BY <2>3, <2>4, <3>1
    <3> QED BY <2>1, <3>1, <3>2
  <2>5. OrderSafe(n)
    BY <2>4 DEF OrderSafe
  <2> QED BY <1>1, <2>5 DEF Inv, FollowIffOrderSafe
<1>2. Inv => \A n \in Renamed : Numbered(programs[n]) => SitesFollow(n)
  BY <1>1
<1> QED BY <1>2, Invariance, PTL

-----------------------------------------------------------------------------
(* RenamingHistory: the inductive invariant                                *)

(* Markers of one kind have ascending ids.                                 *)
Ordered(p) ==
    \A i, j \in DOMAIN p.markers :
        p.markers[i].kind = p.markers[j].kind /\ i < j => p.markers[i].id < p.markers[j].id

(* No id exceeds its place by more than d.                                 *)
Displaced(p, d) == \A i \in DOMAIN p.markers : p.markers[i].id <= i - 1 + d

Dense(p) == \A i \in DOMAIN p.markers : p.markers[i].id < Len(p.markers)

HistoryOf(n) ==
    /\ ValidProgram(programs[n])
    /\ vr_first[n] \in Nat /\ removed[n] \in Nat
    /\ removed[n] = 0 => Dense(programs[n])
    /\ n \notin reordered =>
          Ordered(programs[n]) /\ Displaced(programs[n], vr_first[n] + removed[n])

HistoryInv ==
    /\ programs \in Seq(Program)
    /\ vr_first \in Seq(Nat) /\ Len(vr_first) = Len(programs)
    /\ removed \in Seq(Nat) /\ Len(removed) = Len(programs)
    /\ reordered \subseteq 1..Len(programs)
    /\ \A n \in 1..Len(programs) : HistoryOf(n)
    /\ pc # "build" => Inv
    /\ pc = "build" => code \in Code /\ new_programs = <<>>

-----------------------------------------------------------------------------
(* Listings of finite sets                                                 *)

(* A marker has one place, so there are as many names as places.           *)
LEMMA NamesCount ==
    ASSUME NEW p, ValidProgram(p)
    PROVE  IsFiniteSet(NamesOf(p)) /\ Cardinality(NamesOf(p)) = Len(p.markers)
<1> DEFINE f == [i \in 1..Len(p.markers) |-> p.markers[i]]
<1>1. p.markers \in Seq(Name) /\ Len(p.markers) \in Nat
      /\ DOMAIN p.markers = 1..Len(p.markers)
  BY DEF ValidProgram, Program
<1>2. f \in Bijection(1..Len(p.markers), NamesOf(p))
  <2>1. f \in [1..Len(p.markers) -> NamesOf(p)]
    BY <1>1 DEF NamesOf
  <2>2. \A a, b \in 1..Len(p.markers) : f[a] = f[b] => a = b
    BY <1>1 DEF ValidProgram
  <2>3. \A m \in NamesOf(p) : \E a \in 1..Len(p.markers) : f[a] = m
    BY <1>1 DEF NamesOf
  <2> HIDE DEF f
  <2> QED
    BY <2>1, <2>2, <2>3 DEF Bijection, Injection, IsInjective, Surjection
<1>3. IsFiniteSet(1..Len(p.markers)) /\ Cardinality(1..Len(p.markers)) = Len(p.markers)
  BY <1>1, FS_Interval
<1> QED
  BY <1>2, <1>3, FS_Bijection DEF ExistsBijection

(* A listing of a set has all its members.                                 *)
LEMMA ListingCovers ==
    ASSUME NEW S, IsFiniteSet(S), NEW f \in Listings(S)
    PROVE  /\ Cardinality(S) \in Nat
           /\ DOMAIN f = 1..Cardinality(S)
           /\ f \in Seq(S) /\ Len(f) = Cardinality(S)
           /\ \A i \in DOMAIN f : f[i] \in S
           /\ \A i, j \in DOMAIN f : f[i] = f[j] => i = j
           /\ \A x \in S : \E i \in DOMAIN f : f[i] = x
<1>1. Cardinality(S) \in Nat
  BY FS_CardinalityType
<1>2. /\ f \in [1..Cardinality(S) -> S] /\ DOMAIN f = 1..Cardinality(S)
      /\ \A i, j \in DOMAIN f : f[i] = f[j] => i = j
      /\ \A x \in S : \E i \in DOMAIN f : f[i] = x
  BY DEF Listings, Bijection, Injection, IsInjective, Surjection
<1>3. f \in Seq(S) /\ Len(f) = Cardinality(S)
  BY <1>1, <1>2, SeqDef
<1> QED
  BY <1>1, <1>2, <1>3

(* An ascending list of m of the numbers 1 to n has no more gaps in front  *)
(* of a place than numbers are missing.                                    *)
LEMMA AscendingBound ==
    ASSUME NEW n \in Nat, NEW m \in Nat, NEW f \in [1..m -> 1..n],
           \A i, j \in 1..m : i < j => f[i] < f[j],
           NEW i \in 1..m
    PROVE  f[i] <= i + (n - m)
<1> DEFINE A == (i + 1)..m
           B == (f[i] + 1)..n
           g == [j \in A |-> f[j]]
<1>1. f[i] \in Int /\ f[i] <= n /\ i <= m
  OBVIOUS
<1>2. /\ IsFiniteSet(A) /\ Cardinality(A) = IF i + 1 > m THEN 0 ELSE m - (i + 1) + 1
      /\ IsFiniteSet(B) /\ Cardinality(B) = IF f[i] + 1 > n THEN 0 ELSE n - (f[i] + 1) + 1
  <2>1. i + 1 \in Int /\ f[i] + 1 \in Int /\ m \in Int /\ n \in Int
    BY <1>1
  <2> QED
    BY <2>1, FS_Interval
<1>3. g \in [A -> B]
  OBVIOUS
<1>4. \A a, b \in A : g[a] = g[b] => a = b
  <2> SUFFICES ASSUME NEW a \in A, NEW b \in A, a < b PROVE g[a] # g[b]
    OBVIOUS
  <2>1. f[a] < f[b] /\ f[a] \in Int /\ f[b] \in Int
    OBVIOUS
  <2> QED
    BY <2>1
<1> HIDE DEF A, B, g
<1>5. g \in Injection(A, B)
  BY <1>3, <1>4 DEF Injection, IsInjective
<1>6. Cardinality(A) <= Cardinality(B)
  BY <1>2, <1>5, FS_Injection
<1> QED
  BY <1>1, <1>2, <1>6

-----------------------------------------------------------------------------
(* The steps of a history                                                  *)

LEMMA InitHistory == HistoryInit => HistoryInv
<1> SUFFICES ASSUME HistoryInit PROVE HistoryInv
  OBVIOUS
<1>1. code \in Code
  BY DEF HistoryInit, Code
<1> QED
  BY <1>1 DEF HistoryInit, HistoryInv

(* The names of an instrumented program, and where they stand.             *)
LEMMA MarkersOfMode ==
    ASSUME NEW d \in Nat, NEW r \in Nat
    PROVE  LET ms == MarkersOf(d, r)
           IN  /\ ms \in Seq(Name) /\ Len(ms) = d + r /\ DOMAIN ms = 1..(d + r)
               /\ \A i \in 1..d : ms[i] = [kind |-> "DCE", id |-> r + i - 1]
               /\ \A i \in (d + 1)..(d + r) : ms[i] = [kind |-> "VR", id |-> i - d - 1]
<1> DEFINE ms == MarkersOf(d, r)
<1>1. /\ DOMAIN ms = 1..(d + r)
      /\ \A i \in 1..d : ms[i] = [kind |-> "DCE", id |-> r + i - 1]
      /\ \A i \in (d + 1)..(d + r) : ms[i] = [kind |-> "VR", id |-> i - d - 1]
  BY DEF MarkersOf
<1> HIDE DEF ms
<1>2. ASSUME NEW i \in 1..(d + r) PROVE ms[i] \in Name
  <2>1. CASE i \in 1..d
    <3>1. r + i - 1 \in Nat
      BY <2>1
    <3>2. ms[i] = [kind |-> "DCE", id |-> r + i - 1]
      BY <1>1, <2>1
    <3> QED
      BY <3>1, <3>2 DEF Name
  <2>2. CASE i \in (d + 1)..(d + r)
    <3>1. i - d - 1 \in Nat
      BY <2>2
    <3>2. ms[i] = [kind |-> "VR", id |-> i - d - 1]
      BY <1>1, <2>2
    <3> QED
      BY <3>1, <3>2 DEF Name
  <2> QED
    BY <2>1, <2>2
<1>3. ms \in [1..(d + r) -> Name]
  <2>1. ms = [i \in 1..(d + r) |-> ms[i]]
    BY <1>1 DEF MarkersOf, ms
  <2> QED
    BY <1>2, <2>1
<1>4. ms \in Seq(Name) /\ Len(ms) = d + r
  BY <1>3, SeqDef
<1> QED
  BY <1>1, <1>4 DEF ms

LEMMA InstrumentedHistory ==
    ASSUME NEW d \in Nat, NEW r \in Nat
    PROVE  LET q == Instrumented(MarkersOf(d, r))
           IN  /\ ValidProgram(q) /\ Dense(q) /\ Ordered(q)
               /\ Displaced(q, IF d = 0 THEN 0 ELSE r)
<1> DEFINE ms == MarkersOf(d, r)
           q == Instrumented(ms)
<1>0. /\ ms \in Seq(Name) /\ Len(ms) = d + r /\ DOMAIN ms = 1..(d + r)
      /\ \A i \in 1..d : ms[i] = [kind |-> "DCE", id |-> r + i - 1]
      /\ \A i \in (d + 1)..(d + r) : ms[i] = [kind |-> "VR", id |-> i - d - 1]
  BY MarkersOfMode
<1> HIDE DEF ms
<1>1. /\ ms \in Seq(Name) /\ Len(ms) = d + r /\ DOMAIN ms = 1..(d + r)
      /\ \A i \in 1..d : ms[i].kind = "DCE" /\ ms[i].id = r + i - 1
      /\ \A i \in (d + 1)..(d + r) : ms[i].kind = "VR" /\ ms[i].id = i - d - 1
  <2>1. ASSUME NEW i \in 1..d PROVE ms[i].kind = "DCE" /\ ms[i].id = r + i - 1
    <3>1. ms[i] = [kind |-> "DCE", id |-> r + i - 1]
      BY <1>0
    <3> QED
      BY ONLY <3>1
  <2>2. ASSUME NEW i \in (d + 1)..(d + r) PROVE ms[i].kind = "VR" /\ ms[i].id = i - d - 1
    <3>1. ms[i] = [kind |-> "VR", id |-> i - d - 1]
      BY <1>0
    <3> QED
      BY ONLY <3>1
  <2> QED
    BY <1>0, <2>1, <2>2
<1>1a. \A i \in DOMAIN ms : i \in 1..d \/ i \in (d + 1)..(d + r)
  BY <1>1
<1>2. q.markers = ms /\ q = [markers |-> ms, code |-> q.code]
      /\ q.code = [s \in Sites |-> IF s \in DOMAIN ms THEN ms[s] ELSE NoMacro]
  BY DEF Instrumented
<1>3. \A i \in DOMAIN ms : ms[i] \in Name
  BY <1>1
<1>4. q.code \in Code
  BY <1>2, <1>3 DEF Code
<1>5. \A s \in Sites : q.code[s] \in NamesOf(q) \cup {NoMacro}
  BY <1>2 DEF NamesOf
<1> HIDE DEF q
<1>6. q \in Program
  BY <1>1, <1>2, <1>4 DEF Program
<1>7. \A i, j \in DOMAIN ms : ms[i].id = ms[j].id => i = j
  <2> SUFFICES ASSUME NEW i \in DOMAIN ms, NEW j \in DOMAIN ms, ms[i].id = ms[j].id PROVE i = j
    OBVIOUS
  <2>1. i \in Int /\ j \in Int
    BY <1>1
  <2>2. CASE i \in 1..d /\ j \in 1..d
    BY <1>1, <2>1, <2>2
  <2>3. CASE i \in (d + 1)..(d + r) /\ j \in (d + 1)..(d + r)
    BY <1>1, <2>1, <2>3
  <2>4. CASE i \in 1..d /\ j \in (d + 1)..(d + r)
    BY <1>1, <2>1, <2>4
  <2>5. CASE i \in (d + 1)..(d + r) /\ j \in 1..d
    BY <1>1, <2>1, <2>5
  <2> QED
    BY <1>1a, <2>2, <2>3, <2>4, <2>5
<1>8. ValidProgram(q)
  BY <1>2, <1>5, <1>6, <1>7 DEF ValidProgram
<1>9. \A i \in DOMAIN ms : ms[i].id < Len(ms)
  BY <1>1, <1>1a
<1>10. \A i, j \in DOMAIN ms : ms[i].kind = ms[j].kind /\ i < j => ms[i].id < ms[j].id
  BY <1>1, <1>1a
<1>11. \A i \in DOMAIN ms : ms[i].id <= i - 1 + (IF d = 0 THEN 0 ELSE r)
  BY <1>1, <1>1a
<1> QED
  BY <1>2, <1>8, <1>9, <1>10, <1>11 DEF Dense, Ordered, Displaced, q, ms

LEMMA InstrumentHistory == ASSUME HistoryInv, instrument_program PROVE HistoryInv'
<1>1. PICK d \in 0..MaxMarkers, r \in 0..MaxMarkers :
         /\ programs' = Append(programs, Instrumented(MarkersOf(d, r)))
         /\ vr_first' = Append(vr_first, IF d = 0 THEN 0 ELSE r)
  BY DEF instrument_program
<1>2. /\ removed' = Append(removed, 0) /\ pc = "build"
      /\ UNCHANGED <<new_programs, code, pc, reordered>>
  BY DEF instrument_program
<1> DEFINE q == Instrumented(MarkersOf(d, r))
           n == Len(programs)
           x == IF d = 0 THEN 0 ELSE r
<1>3. d \in Nat /\ r \in Nat /\ x \in Nat
  BY HistoryAssumption
<1>4. ValidProgram(q) /\ Dense(q) /\ Ordered(q) /\ Displaced(q, x)
  BY <1>3, InstrumentedHistory
<1> HIDE DEF q, x
<1>5. /\ programs' \in Seq(Program) /\ Len(programs') = n + 1 /\ n \in Nat
      /\ programs'[n + 1] = q /\ \A k \in 1..n : programs'[k] = programs[k]
  BY <1>1, <1>4 DEF HistoryInv, ValidProgram, q
<1>6. /\ vr_first' \in Seq(Nat) /\ Len(vr_first') = n + 1
      /\ vr_first'[n + 1] = x /\ \A k \in 1..n : vr_first'[k] = vr_first[k]
  BY <1>1, <1>3 DEF HistoryInv, x
<1>7. /\ removed' \in Seq(Nat) /\ Len(removed') = n + 1
      /\ removed'[n + 1] = 0 /\ \A k \in 1..n : removed'[k] = removed[k]
  BY <1>2 DEF HistoryInv
<1>8. ASSUME NEW k \in 1..(n + 1) PROVE HistoryOf(k)'
  <2>1. CASE k \in 1..n
    BY <1>2, <1>5, <1>6, <1>7, <2>1 DEF HistoryInv, HistoryOf
  <2>2. CASE k = n + 1
    <3>1. Displaced(q, x + 0)
      BY <1>3, <1>4
    <3> QED
      BY <1>3, <1>4, <1>5, <1>6, <1>7, <2>2, <3>1 DEF HistoryOf
  <2> QED
    BY <1>5, <2>1, <2>2
<1> QED
  BY <1>2, <1>5, <1>6, <1>7, <1>8 DEF HistoryInv

(* An operation on the newest program.                                     *)
LEMMA NewestHistory ==
    ASSUME HistoryInv, Building, NEW q,
           ValidProgram(q), programs' = [programs EXCEPT ![Newest] = q],
           UNCHANGED <<new_programs, code, pc, vr_first>>,
           removed' \in Seq(Nat), Len(removed') = Len(removed),
           \A k \in 1..Len(programs) : k # Newest => removed'[k] = removed[k],
           reordered' \in {reordered, reordered \cup {Newest}},
           removed'[Newest] = 0 => Dense(q),
           Newest \notin reordered' =>
               Ordered(q) /\ Displaced(q, vr_first[Newest] + removed'[Newest])
    PROVE  HistoryInv'
<1>1. Newest \in 1..Len(programs) /\ q \in Program /\ pc' = "build"
  BY DEF Newest, Building, HistoryInv, ValidProgram
<1>2. /\ programs' \in Seq(Program) /\ Len(programs') = Len(programs)
      /\ programs'[Newest] = q
      /\ \A k \in 1..Len(programs) : k # Newest => programs'[k] = programs[k]
  BY <1>1 DEF HistoryInv
<1>3. ASSUME NEW k \in 1..Len(programs) PROVE HistoryOf(k)'
  <2>1. CASE k = Newest
    <3>1. vr_first'[k] \in Nat /\ removed'[k] \in Nat
      BY <1>1, <2>1 DEF HistoryInv
    <3> QED
      BY <1>2, <2>1, <3>1 DEF HistoryOf
  <2>2. CASE k # Newest
    BY <1>2, <2>2 DEF HistoryInv, HistoryOf
  <2> QED
    BY <2>1, <2>2
<1> QED
  BY <1>1, <1>2, <1>3 DEF HistoryInv

(* A part of a program's markers in another order.                         *)
LEMMA PartIsValid ==
    ASSUME NEW p, ValidProgram(p), NEW ms, NEW text \in Code,
           ms \in Seq(Name),
           \A i \in DOMAIN ms : ms[i] \in NamesOf(p),
           \A i, j \in DOMAIN ms : ms[i] = ms[j] => i = j,
           \A s \in Sites : text[s] = NoMacro \/ \E i \in DOMAIN ms : ms[i] = text[s]
    PROVE  ValidProgram([markers |-> ms, code |-> text])
<1> DEFINE q == [markers |-> ms, code |-> text]
<1>1. q \in Program /\ q.markers = ms /\ q.code = text
  BY DEF Program
<1>2. \A i, j \in DOMAIN ms : ms[i].id = ms[j].id => i = j
  BY NamesHaveIds
<1>3. \A s \in Sites : text[s] \in NamesOf(q) \cup {NoMacro}
  BY <1>1 DEF NamesOf
<1> HIDE DEF q
<1> QED
  BY <1>1, <1>2, <1>3 DEF ValidProgram, q

LEMMA PreprocessHistory ==
    ASSUME HistoryInv, preprocess_disabled_and_unreachable_markers
    PROVE  HistoryInv'
<1> DEFINE p == programs[Newest]
           kept == NamesOf(p) \cap enabled
           gone == NamesOf(p) \ enabled
<1>1. PICK ms \in Listings(kept) :
         /\ \A i, j \in DOMAIN ms : i < j => IndexOf(p, ms[i]) < IndexOf(p, ms[j])
         /\ WithMarkers(ms, Expanded(p.code, gone))
  BY DEF preprocess_disabled_and_unreachable_markers
<1>2. /\ Building /\ removed' = [removed EXCEPT ![Newest] = @ + Cardinality(gone)]
      /\ UNCHANGED reordered
  BY DEF preprocess_disabled_and_unreachable_markers
<1> DEFINE text == Expanded(p.code, gone)
           q == [markers |-> ms, code |-> text]
<1>3. /\ programs' = [programs EXCEPT ![Newest] = q]
      /\ UNCHANGED <<new_programs, code, pc, vr_first>>
  BY <1>1 DEF WithMarkers
<1>4. Newest \in 1..Len(programs)
  BY <1>2 DEF Newest, Building, HistoryInv
<1>5. HistoryOf(Newest) /\ ValidProgram(p)
  BY <1>4 DEF HistoryInv, HistoryOf
<1> DEFINE n == Len(p.markers)
<1>6. /\ p.markers \in Seq(Name) /\ n \in Nat /\ DOMAIN p.markers = 1..n /\ p.code \in Code
      /\ \A s \in Sites : p.code[s] \in NamesOf(p) \cup {NoMacro}
  BY <1>5 DEF ValidProgram, Program
<1>7. IsFiniteSet(NamesOf(p)) /\ Cardinality(NamesOf(p)) = n
  BY <1>5, NamesCount
<1>8. /\ IsFiniteSet(kept) /\ IsFiniteSet(gone)
      /\ Cardinality(kept) \in Nat /\ Cardinality(gone) \in Nat
      /\ n = Cardinality(kept) + Cardinality(gone)
  <2>1. IsFiniteSet(gone) /\ Cardinality(gone) = n - Cardinality(NamesOf(p) \cap enabled)
    BY <1>7, FS_Difference
  <2>2. IsFiniteSet(kept)
    BY <1>7, FS_Subset
  <2> QED
    BY <1>6, <2>1, <2>2, FS_CardinalityType
<1> DEFINE c == Cardinality(kept)
           g == Cardinality(gone)
<1>9. /\ DOMAIN ms = 1..c /\ ms \in Seq(kept) /\ Len(ms) = c
      /\ \A i \in DOMAIN ms : ms[i] \in kept
      /\ \A i, j \in DOMAIN ms : ms[i] = ms[j] => i = j
      /\ \A x \in kept : \E i \in DOMAIN ms : ms[i] = x
  BY <1>8, ListingCovers
<1>10. \A i \in DOMAIN ms : ms[i] \in NamesOf(p) /\ ms[i] \in Name
  <2>1. \A x \in NamesOf(p) : x \in Name
    BY <1>5, NamesHaveIds
  <2> QED
    BY <1>9, <2>1
<1>11. ms \in Seq(Name)
  <2>1. ms \in [1..c -> Name]
    <3> HIDE DEF kept, c
    <3> QED
      BY <1>9, <1>10, SeqDef
  <2>2. c \in Nat /\ c = Len(ms)
    BY <1>8, <1>9
  <2> HIDE DEF c, kept, gone, p
  <2> QED
    BY <2>1, <2>2, SeqDef
<1>12. text \in Code
  BY <1>6 DEF Expanded, Code
<1>13. \A s \in Sites : text[s] = NoMacro \/ \E i \in DOMAIN ms : ms[i] = text[s]
  <2> SUFFICES ASSUME NEW s \in Sites, text[s] # NoMacro PROVE text[s] \in kept
    BY <1>9
  <2> QED
    BY <1>6 DEF Expanded
<1> HIDE DEF text, q, c, g, n
<1>14. ValidProgram(q)
  <2> HIDE DEF p, kept, gone
  <2> QED
    BY <1>5, <1>9, <1>10, <1>11, <1>12, <1>13, PartIsValid DEF q
<1>15. q.markers = ms
  BY DEF q
<1>16. /\ removed' \in Seq(Nat) /\ Len(removed') = Len(removed)
       /\ \A k \in 1..Len(programs) : k # Newest => removed'[k] = removed[k]
       /\ removed'[Newest] = removed[Newest] + g
       /\ removed[Newest] \in Nat /\ vr_first[Newest] \in Nat
  <2>1. g \in Nat /\ Newest \in 1..Len(removed) /\ removed \in Seq(Nat)
    BY <1>4, <1>8 DEF HistoryInv, g
  <2>2. removed[Newest] \in Nat /\ vr_first[Newest] \in Nat
    BY <1>5 DEF HistoryOf
  <2> QED
    BY <1>2, <2>1, <2>2 DEF HistoryInv, g
<1>17. removed'[Newest] = 0 => Dense(q)
  <2> SUFFICES ASSUME removed'[Newest] = 0, NEW i \in DOMAIN ms PROVE ms[i].id < Len(ms)
    BY <1>15 DEF Dense
  <2>1. g = 0 /\ removed[Newest] = 0 /\ c = n
    BY <1>8, <1>16 DEF g, c, n
  <2>2. Dense(p) /\ Len(ms) = n
    BY <1>5, <1>9, <2>1 DEF HistoryOf, c
  <2>3. \E j \in DOMAIN p.markers : ms[i] = p.markers[j]
    BY <1>10 DEF NamesOf
  <2> QED
    BY <2>2, <2>3 DEF Dense, n
<1> DEFINE at == [i \in 1..c |-> IndexOf(p, ms[i])]
<1>18. at \in [1..c -> 1..n] /\ \A i \in 1..c : p.markers[at[i]] = ms[i]
  <2> SUFFICES ASSUME NEW i \in 1..c
               PROVE  IndexOf(p, ms[i]) \in 1..n /\ p.markers[IndexOf(p, ms[i])] = ms[i]
    OBVIOUS
  <2>1. PICK j \in DOMAIN p.markers : ms[i] = p.markers[j]
    BY <1>9, <1>10 DEF NamesOf, c
  <2> QED
    BY <1>5, <1>6, <2>1, IndexOfMarker DEF n
<1>19. \A i, j \in 1..c : i < j => at[i] < at[j]
  BY <1>1, <1>9 DEF c
<1> HIDE DEF at
<1>20. c \in Nat /\ n \in Nat /\ g = n - c
  BY <1>6, <1>8 DEF c, n, g
<1>21. \A i \in 1..c : at[i] <= i + g
  BY <1>18, <1>19, <1>20, AscendingBound
<1>22. Newest \notin reordered' =>
          Ordered(q) /\ Displaced(q, vr_first[Newest] + removed'[Newest])
  <2> SUFFICES ASSUME Newest \notin reordered
               PROVE  Ordered(q) /\ Displaced(q, vr_first[Newest] + removed'[Newest])
    BY <1>2
  <2> DEFINE d == vr_first[Newest] + removed[Newest]
  <2>1. Ordered(p) /\ Displaced(p, d)
    BY <1>5 DEF HistoryOf
  <2>2. d \in Nat /\ vr_first[Newest] + removed'[Newest] = d + g /\ g \in Nat
    BY <1>8, <1>16 DEF g
  <2> HIDE DEF d, p
  <2>3. DOMAIN ms = 1..c /\ DOMAIN p.markers = 1..n
    BY <1>6, <1>9 DEF c, n
  <2>4. Ordered(q)
    <3> SUFFICES ASSUME NEW i \in 1..c, NEW j \in 1..c, ms[i].kind = ms[j].kind, i < j
                 PROVE  ms[i].id < ms[j].id
      BY <1>15, <2>3 DEF Ordered
    <3>1. at[i] \in 1..n /\ at[j] \in 1..n /\ at[i] < at[j]
      BY <1>18, <1>19
    <3> QED
      BY <1>18, <2>1, <2>3, <3>1 DEF Ordered
  <2>5. Displaced(q, d + g)
    <3> SUFFICES ASSUME NEW i \in 1..c PROVE ms[i].id <= i - 1 + (d + g)
      BY <1>15, <2>3 DEF Displaced
    <3>1. at[i] \in 1..n /\ at[i] <= i + g /\ p.markers[at[i]] = ms[i]
      BY <1>18, <1>21
    <3>2. ms[i].id <= at[i] - 1 + d
      BY <2>1, <2>3, <3>1 DEF Displaced
    <3>3. ms[i].id \in Nat
      BY <1>10, <2>3 DEF Name
    <3> QED
      BY <2>2, <3>1, <3>2, <3>3
  <2> QED
    BY <2>2, <2>4, <2>5
<1> HIDE DEF p, kept, gone
<1> QED
  BY <1>2, <1>3, <1>14, <1>16, <1>17, <1>22, NewestHistory

(* A part of a finite set and the rest of it.                              *)
LEMMA PartAndRest ==
    ASSUME NEW S, IsFiniteSet(S), NEW T \in SUBSET S
    PROVE  /\ IsFiniteSet(T) /\ IsFiniteSet(S \ T)
           /\ Cardinality(S \ T) \in Nat /\ Cardinality(T) \in Nat
           /\ Cardinality(S) = Cardinality(S \ T) + Cardinality(T)
<1>1. IsFiniteSet(T)
  BY FS_Subset
<1>2. S \cap T = T
  OBVIOUS
<1>3. IsFiniteSet(S \ T) /\ Cardinality(S \ T) = Cardinality(S) - Cardinality(T)
  BY <1>2, FS_Difference
<1>4. Cardinality(S) \in Nat /\ Cardinality(T) \in Nat /\ Cardinality(S \ T) \in Nat
  BY <1>1, <1>3, FS_CardinalityType
<1> QED BY <1>1, <1>3, <1>4

LEMMA ReplaceHistory == ASSUME HistoryInv, replace_markers PROVE HistoryInv'
<1> DEFINE p == programs[Newest]
<1>1. PICK R \in SUBSET {m \in NamesOf(p) : m.kind = "VR"} :
         \E unchanged \in Listings(NamesOf(p) \ R), new \in Listings(R) :
             WithMarkers(unchanged \o new, p.code)
  BY DEF replace_markers
<1>2. PICK unchanged \in Listings(NamesOf(p) \ R), new \in Listings(R) :
         WithMarkers(unchanged \o new, p.code)
  BY <1>1
<1>3. Building /\ reordered' = reordered \cup {Newest} /\ UNCHANGED removed
  BY DEF replace_markers
<1> DEFINE ms == unchanged \o new
           q == [markers |-> ms, code |-> p.code]
           n == Len(p.markers)
<1>4. /\ programs' = [programs EXCEPT ![Newest] = q]
      /\ UNCHANGED <<new_programs, code, pc, vr_first>>
  BY <1>2 DEF WithMarkers
<1>5. Newest \in 1..Len(programs)
  BY <1>3 DEF Newest, Building, HistoryInv
<1>6. HistoryOf(Newest) /\ ValidProgram(p)
  BY <1>5 DEF HistoryInv, HistoryOf
<1>7. p.code \in Code /\ \A s \in Sites : p.code[s] \in NamesOf(p) \cup {NoMacro}
  BY <1>6 DEF ValidProgram, Program
<1>8. IsFiniteSet(NamesOf(p)) /\ Cardinality(NamesOf(p)) = n /\ R \subseteq NamesOf(p)
  BY <1>6, NamesCount
<1> DEFINE u == Cardinality(NamesOf(p) \ R)
           r == Cardinality(R)
<1>9. /\ IsFiniteSet(R) /\ IsFiniteSet(NamesOf(p) \ R)
      /\ u \in Nat /\ r \in Nat /\ n = u + r
  BY <1>8, PartAndRest
<1>10. /\ DOMAIN unchanged = 1..u /\ unchanged \in Seq(NamesOf(p) \ R) /\ Len(unchanged) = u
       /\ \A i \in DOMAIN unchanged : unchanged[i] \in NamesOf(p) \ R
       /\ \A i, j \in DOMAIN unchanged : unchanged[i] = unchanged[j] => i = j
       /\ \A x \in NamesOf(p) \ R : \E i \in DOMAIN unchanged : unchanged[i] = x
  BY <1>9, ListingCovers
<1>11. /\ DOMAIN new = 1..r /\ new \in Seq(R) /\ Len(new) = r
       /\ \A i \in DOMAIN new : new[i] \in R
       /\ \A i, j \in DOMAIN new : new[i] = new[j] => i = j
       /\ \A x \in R : \E i \in DOMAIN new : new[i] = x
  BY <1>9, ListingCovers
<1>12. \A x \in NamesOf(p) : x \in Name
  BY <1>6, NamesHaveIds
<1> HIDE DEF p, u, r, n
<1>13. unchanged \in Seq(Name) /\ new \in Seq(Name)
  <2>1. unchanged \in [1..u -> Name] /\ new \in [1..r -> Name]
    BY <1>8, <1>10, <1>11, <1>12, SeqDef
  <2> QED
    BY <1>9, <2>1, SeqDef
<1>14. /\ ms \in Seq(Name) /\ Len(ms) = n /\ DOMAIN ms = 1..n
       /\ \A i \in 1..n : ms[i] = IF i <= u THEN unchanged[i] ELSE new[i - u]
  <2>1. /\ ms \in Seq(Name) /\ Len(ms) = Len(unchanged) + Len(new)
        /\ \A i \in 1..(Len(unchanged) + Len(new)) :
              ms[i] = IF i <= Len(unchanged) THEN unchanged[i] ELSE new[i - Len(unchanged)]
    BY <1>13, ConcatProperties
  <2> HIDE DEF ms
  <2>2. Len(unchanged) = u /\ Len(new) = r /\ Len(unchanged) + Len(new) = n /\ Len(ms) = n
    BY <1>9, <1>10, <1>11, <2>1
  <2>3. DOMAIN ms = 1..n
    BY <2>1, <2>2
  <2> QED
    BY <2>1, <2>2, <2>3
<1> HIDE DEF ms
<1>15. \A i \in 1..n : (i <= u => i \in 1..u) /\ (i > u => i - u \in 1..r)
  BY <1>9
<1>16. \A i \in DOMAIN ms : ms[i] \in NamesOf(p)
  BY <1>8, <1>9, <1>10, <1>11, <1>14, <1>15
<1>17. \A i, j \in DOMAIN ms : ms[i] = ms[j] => i = j
  <2> SUFFICES ASSUME NEW i \in 1..n, NEW j \in 1..n, ms[i] = ms[j] PROVE i = j
    BY <1>14
  <2>1. CASE i <= u /\ j <= u
    BY <1>10, <1>14, <1>15, <2>1
  <2>2. CASE i > u /\ j > u
    <3>1. i - u \in DOMAIN new /\ j - u \in DOMAIN new
      BY <1>11, <1>15, <2>2
    <3>2. ms[i] = new[i - u] /\ ms[j] = new[j - u]
      BY <1>9, <1>14, <2>2
    <3>3. i - u = j - u
      BY <1>11, <3>1, <3>2
    <3> QED
      BY <1>9, <3>3
  <2>3. CASE i <= u /\ j > u
    BY <1>9, <1>10, <1>11, <1>14, <1>15, <2>3
  <2>4. CASE i > u /\ j <= u
    BY <1>9, <1>10, <1>11, <1>14, <1>15, <2>4
  <2>5. i \in Int /\ j \in Int /\ u \in Int
    BY <1>9
  <2>6. (i <= u \/ i > u) /\ (j <= u \/ j > u)
    BY <2>5
  <2> QED
    BY <2>1, <2>2, <2>3, <2>4, <2>6
<1>18. \A x \in NamesOf(p) : \E i \in DOMAIN ms : ms[i] = x
  <2> SUFFICES ASSUME NEW x \in NamesOf(p) PROVE \E i \in DOMAIN ms : ms[i] = x
    OBVIOUS
  <2>1. CASE x \in R
    <3>1. PICK i \in 1..r : new[i] = x
      BY <1>11, <2>1
    <3>2. u + i \in 1..n /\ ~(u + i <= u) /\ (u + i) - u = i
      BY <1>9
    <3> QED
      BY <1>14, <3>1, <3>2
  <2>2. CASE x \notin R
    <3>1. PICK i \in 1..u : unchanged[i] = x
      BY <1>10, <2>2
    <3>2. i \in 1..n /\ i <= u
      BY <1>9
    <3> QED
      BY <1>14, <3>1, <3>2
  <2> QED
    BY <2>1, <2>2
<1>19. ValidProgram(q) /\ q.markers = ms
  <2> HIDE DEF q
  <2>1. ValidProgram(q)
    BY <1>6, <1>7, <1>14, <1>16, <1>17, <1>18, PartIsValid DEF q
  <2> QED
    BY <2>1 DEF q
<1>20. removed'[Newest] = 0 => Dense(q)
  <2> SUFFICES ASSUME removed[Newest] = 0, NEW i \in DOMAIN ms PROVE ms[i].id < n
    BY <1>3, <1>14, <1>19 DEF Dense
  <2>1. Dense(p)
    BY <1>6 DEF HistoryOf, p
  <2>2. \E j \in DOMAIN p.markers : ms[i] = p.markers[j]
    BY <1>16 DEF NamesOf
  <2> QED
    BY <2>1, <2>2 DEF Dense, n
<1> HIDE DEF q
<1>21. removed' \in Seq(Nat) /\ Len(removed') = Len(removed) /\ Newest \in reordered'
  BY <1>3 DEF HistoryInv
<1> QED
  BY <1>3, <1>4, <1>19, <1>20, <1>21, NewestHistory

LEMMA RetireHistory == ASSUME HistoryInv, retire_markers PROVE HistoryInv'
<1>1. UNCHANGED <<vars, vr_first, removed, reordered>> /\ pc = "build"
  BY DEF retire_markers, Building
<1> QED
  BY <1>1 DEF vars, HistoryInv, HistoryOf

(* The call establishes the invariant of the loops.                        *)
LEMMA StartHistory == ASSUME HistoryInv, rename_markers PROVE HistoryInv'
<1>1. /\ pc = "build" /\ programs # <<>> /\ pc' = "collect"
      /\ new_programs' = <<programs[1]>>
      /\ current_marker_id' = Len(programs[1].markers)
      /\ UNCHANGED <<programs, replacements, pending, code, vr_first, removed, reordered>>
  BY DEF rename_markers, Building, history
<1>2. /\ programs \in Seq(Program) /\ Len(programs) \in Nat /\ 1 \in 1..Len(programs)
      /\ \A n \in 1..Len(programs) : ValidProgram(programs[n])
  BY <1>1 DEF HistoryInv, HistoryOf
<1>3. ValidInput(programs)
  BY <1>1, <1>2 DEF ValidInput
<1>4. /\ programs[1] \in Program /\ programs[1].markers \in Seq(Name)
      /\ Len(programs[1].markers) \in Nat
  <2>1. programs[1] \in Program
    BY <1>2
  <2> QED
    BY <2>1 DEF Program
<1>5. TypeInv'
  BY <1>1, <1>2, <1>3, <1>4 DEF TypeInv, HistoryInv
<1>6. /\ Len(new_programs') = 1 /\ new_programs'[1] = programs[1]
      /\ 1..Len(new_programs') = {1}
  BY <1>1
<1>7. LoopInv' /\ CodeInv'
  BY <1>1 DEF LoopInv, CodeInv
<1>8. /\ SameKinds' /\ Consecutive' /\ FollowIffOrderSafe' /\ RenamedUnique'
      /\ new_programs'[1] = programs'[1]
  BY <1>1, <1>6 DEF SameKinds, Consecutive, FollowIffOrderSafe, RenamedUnique, Renamed
<1>9. IdsBetween' /\ AllInUse'
  BY <1>1, <1>4, <1>6 DEF IdsBetween, AllInUse, Bound, Renamed
<1>10. Inv'
  BY <1>5, <1>7, <1>8, <1>9 DEF Inv
<1> QED
  BY <1>1, <1>10 DEF HistoryInv, HistoryOf

LEMMA RenameHistory == ASSUME HistoryInv, Next, UNCHANGED history PROVE HistoryInv'
<1>1. pc # "build" /\ pc' # "build" /\ UNCHANGED programs
  BY DEF Next, collect_markers, replace_next, finish_program
<1>2. Inv'
  BY <1>1, StepInv DEF HistoryInv
<1> QED
  BY <1>1, <1>2 DEF HistoryInv, HistoryOf, history

LEMMA StepHistory == HistoryInv /\ [HistoryNext]_historyVars => HistoryInv'
<1> SUFFICES ASSUME HistoryInv, [HistoryNext]_historyVars PROVE HistoryInv'
  OBVIOUS
<1>1. CASE UNCHANGED historyVars
  <2>1. UNCHANGED vars /\ UNCHANGED history
    BY <1>1 DEF historyVars
  <2>2. pc # "build" => Inv'
    BY <2>1, StepInv DEF HistoryInv
  <2> QED
    BY <2>1, <2>2 DEF HistoryInv, HistoryOf, vars, history
<1> QED
  BY <1>1, InstrumentHistory, RetireHistory, PreprocessHistory, ReplaceHistory,
     StartHistory, RenameHistory DEF HistoryNext

LEMMA HistoryInvariance == HistorySpec => []HistoryInv
BY InitHistory, StepHistory, PTL DEF HistorySpec

-----------------------------------------------------------------------------
(* Whatever has been done to the programs: if the first one still has all  *)
(* its markers, rename_markers gives no id to two markers.                 *)
THEOREM UniqueAfterHistory == HistorySpec => []UniqueIfFirstComplete
<1>1. ASSUME HistoryInv, pc # "build", removed[1] = 0 PROVE MarkersUnique
  <2>1. Inv
    BY <1>1 DEF HistoryInv
  <2>2. 1 \in 1..Len(programs)
    BY <2>1 DEF Inv, TypeInv, ValidInput
  <2>3. Dense(programs[1]) /\ programs[1] \in Program
    BY <1>1, <2>2 DEF HistoryInv, HistoryOf
  <2>4. /\ \A i \in DOMAIN programs[1].markers : programs[1].markers[i] \in Name
        /\ Len(programs[1].markers) \in Nat
    BY <2>3 DEF Program
  <2>5. \A i \in DOMAIN programs[1].markers :
           /\ programs[1].markers[i].id \in Nat
           /\ programs[1].markers[i].id < Len(programs[1].markers)
    BY <2>3, <2>4 DEF Dense, Name
  <2>6. Bound \in Int
    BY <2>1, CurrentIsValid DEF Inv, TypeInv, LoopInv, Bound, Base
  <2> QED
    BY <2>1, <2>4, <2>5, <2>6, UniqueIffFree
<1>2. HistoryInv => UniqueIfFirstComplete
  BY <1>1 DEF UniqueIfFirstComplete
<1> QED
  BY <1>2, HistoryInvariance, PTL

(* A program in instrumentation order keeps its markers at their sites     *)
(* through the renaming, as long as its new ids start late enough.         *)
THEOREM FollowAfterHistory == HistorySpec => []FollowIfFewRemoved
<1>1. ASSUME HistoryInv, NEW n \in Renamed \ reordered, programs[n].markers # <<>>,
             vr_first[n] + removed[n] <= new_programs[n].markers[1].id
      PROVE  SitesFollow(n)
  <2> DEFINE old == programs[n].markers
             new == new_programs[n].markers
             d == vr_first[n] + removed[n]
  <2>1. Inv
    <3>1. new_programs # <<>>
      BY DEF Renamed
    <3> QED
      BY <1>1, <3>1 DEF HistoryInv
  <2>2. /\ n \in 1..Len(programs) /\ n \in 1..Len(new_programs)
        /\ programs \in Seq(Program)
    BY <2>1 DEF Inv, TypeInv, ValidInput, Renamed
  <2>3. HistoryOf(n)
    BY <1>1, <2>2 DEF HistoryInv
  <2>4. Ordered(programs[n]) /\ Displaced(programs[n], d) /\ d \in Nat
    BY <2>3 DEF HistoryOf
  <2>5. /\ old \in Seq(Name) /\ Len(old) \in Nat /\ DOMAIN old = 1..Len(old)
        /\ 1 \in DOMAIN old
    <3>0. programs[n] \in Program
      BY <2>2
    <3>1. old \in Seq(Name)
      BY <3>0 DEF Program
    <3> QED
      BY <1>1, <3>1
  <2>6. DOMAIN new = DOMAIN old /\ \A i \in DOMAIN old : new[i].kind = old[i].kind
    BY <2>1, <2>2 DEF Inv, SameKinds
  <2>7. PICK b \in Nat : \A i \in DOMAIN new : new[i].id = b + i - 1
    BY <2>1 DEF Inv, Consecutive
  <2>8. d <= b
    <3>1. new[1].id = b + 1 - 1
      BY <2>5, <2>6, <2>7
    <3> QED
      BY <1>1, <3>1
  <2>9. ASSUME NEW i \in DOMAIN old, NEW j \in DOMAIN old, new[i] = old[j]
        PROVE  old[i].id <= old[j].id
    <3> HIDE DEF old, new, d
    <3>1. new[i].id = b + i - 1 /\ i \in Nat /\ j \in Nat
      BY <2>5, <2>6, <2>7
    <3>2. old[j].id <= j - 1 + d /\ old[j].id = b + i - 1
      BY <2>4, <2>9, <3>1 DEF Displaced, old
    <3>3. i <= j
      BY <2>4, <2>8, <3>1, <3>2
    <3>4. old[i].kind = old[j].kind
      BY <2>6, <2>9
    <3>5. old[i].id \in Nat /\ old[j].id \in Nat
      <4>1. old[i] \in Name /\ old[j] \in Name
        BY <2>5
      <4> QED
        BY <4>1 DEF Name
    <3>6. CASE i < j
      BY <2>4, <3>4, <3>5, <3>6 DEF Ordered, old
    <3>7. CASE i = j
      BY <3>5, <3>7
    <3> QED
      BY <3>1, <3>3, <3>6, <3>7
  <2>10. OrderSafe(n)
    BY <2>9 DEF OrderSafe
  <2> QED
    BY <2>1, <2>10 DEF Inv, FollowIffOrderSafe
<1>2. HistoryInv => FollowIfFewRemoved
  BY <1>1 DEF FollowIfFewRemoved
<1> QED
  BY <1>2, HistoryInvariance, PTL
=============================================================================
