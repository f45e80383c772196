------------------------- MODULE ProgramFilesProofs -------------------------
(***************************************************************************)
(* What ProgramFiles shows of two markers, for every value of the          *)
(* constants.  The properties speak of what a process reads in two steps;  *)
(* the invariant says of every set of markers that lies in a file or in    *)
(* some process's hands that it covers all code that may still be written  *)
(* or read.                                                                *)
(***************************************************************************)
EXTENDS ProgramFiles, TLAPS

Reading == [data : Data, flags : SUBSET Flags, kept : Program \cup {None}]

TypeInv ==
    /\ program \in [Processes -> Program \cup {None}]
    /\ writing \in {"none", "code", "directives next", "directives", "json next", "json"}
    /\ code \in (SUBSET Ids) \cup {Absent}
    /\ directives \in (SUBSET Ids) \cup {Absent}
    /\ whole \in BOOLEAN
    /\ json \in Data \cup {Absent, Cut}
    /\ source \in (SUBSET Flags) \cup {None}
    /\ reading \in [Processes -> Reading \cup {None}]
    /\ defined \in [macros : SUBSET Ids, whole : BOOLEAN] \cup {None}
    /\ kept \in Program \cup {None}

(* All the code that is in the file or that the owner may write there.     *)
Covering(S) ==
    /\ code # Absent => code \subseteq S
    /\ program[Owner] # None => program[Owner].macros \subseteq S

OwnerInv ==
    /\ writing = "directives" => ~whole
    /\ writing # "none" => program[Owner] # None /\ code \subseteq program[Owner].macros
    /\ reading[Owner] # None => program[Owner] = None

CoverInv ==
    /\ whole => Covering(directives)
    /\ json \notin {Absent, Cut} => Covering(json.markers)
    /\ defined # None /\ defined.whole => Covering(defined.macros)
    /\ \A x \in Processes : reading[x] # None => Covering(reading[x].data.markers)

Inv ==
    /\ TypeInv
    /\ OwnerInv
    /\ CoverInv
    /\ LoadedMarkersCover

-----------------------------------------------------------------------------

LEMMA OwnerIsProcess == Owner \in Processes
BY DEF Processes

LEMMA InitInv == Init => Inv
<1> SUFFICES ASSUME Init PROVE Inv
  OBVIOUS
<1>1. [markers |-> Ids, enabled |-> Ids, macros |-> Ids, flags |-> UserFlags] \in Program
  BY DEF Program, Flags
<1>2. /\ program \in [Processes -> Program \cup {None}]
      /\ \A x \in Processes : program[x] # None => program[x].macros \subseteq program[x].markers
  BY <1>1 DEF Init
<1>3. reading \in [Processes -> Reading \cup {None}]
  BY DEF Init
<1>files. /\ code \in (SUBSET Ids) \cup {Absent}
          /\ directives \in (SUBSET Ids) \cup {Absent} /\ whole \in BOOLEAN
          /\ json \in Data \cup {Absent, Cut}
          /\ source \in (SUBSET Flags) \cup {None}
          /\ defined \in [macros : SUBSET Ids, whole : BOOLEAN] \cup {None}
          /\ kept \in Program \cup {None}
          /\ writing \in {"none", "code", "directives next", "directives", "json next", "json"}
  BY DEF Init
<1>4. TypeInv
  BY <1>2, <1>3, <1>files DEF TypeInv
<1>5. OwnerInv /\ CoverInv
  BY OwnerIsProcess DEF Init, OwnerInv, CoverInv
<1> QED
  BY <1>2, <1>4, <1>5 DEF Inv, Init, LoadedMarkersCover

(* The owner's program, when it has one.                                   *)
LEMMA OwnerProgram ==
    ASSUME TypeInv, program[Owner] # None
    PROVE  /\ program[Owner] \in Program
           /\ program[Owner].markers \in SUBSET Ids
           /\ program[Owner].enabled \in SUBSET Ids
           /\ program[Owner].macros \in SUBSET Ids
           /\ program[Owner].flags \in SUBSET Flags
<1>1. program[Owner] \in Program
  BY OwnerIsProcess DEF TypeInv
<1> QED
  BY <1>1 DEF Program

(* What an operation on the program has to keep.                           *)
LEMMA BecomesKeepsInv ==
    ASSUME Inv, Working, NEW p \in Program, Becomes(p),
           p.macros \subseteq p.markers, p.macros \subseteq program[Owner].macros
    PROVE  Inv'
<1> USE OwnerIsProcess
<1>1. /\ program' \in [Processes -> Program \cup {None}]
      /\ program'[Owner] = p
      /\ \A x \in Processes : x # Owner => program'[x] = program[x]
  BY DEF Inv, TypeInv, Becomes
<1>2. TypeInv'
  BY <1>1 DEF Inv, TypeInv, Becomes, files
<1>3. \A S : Covering(S) => Covering(S)'
  BY <1>1 DEF Working, Covering, Becomes, files
<1>4. CoverInv'
  BY <1>3 DEF Inv, CoverInv, Becomes, files, Covering
<1>5. OwnerInv'
  BY <1>1 DEF Inv, OwnerInv, Working, Becomes, files
<1>6. LoadedMarkersCover'
  BY <1>1 DEF Inv, LoadedMarkersCover, Becomes
<1> QED
  BY <1>2, <1>4, <1>5, <1>6 DEF Inv

LEMMA StepInv == Inv /\ [Next]_vars => Inv'
<1> SUFFICES ASSUME Inv, [Next]_vars PROVE Inv'
  OBVIOUS
<1> USE OwnerIsProcess
<1>type. TypeInv
  BY DEF Inv
<1>1. CASE disable_markers
  <2>1. PICK S \in SUBSET program[Owner].enabled :
          Becomes([program[Owner] EXCEPT !.enabled = @ \ S])
    BY <1>1 DEF disable_markers
  <2> DEFINE p == [program[Owner] EXCEPT !.enabled = @ \ S]
  <2>2. Working /\ program[Owner] # None
    BY <1>1 DEF disable_markers, Working
  <2>3. /\ p \in Program
        /\ p.macros = program[Owner].macros /\ p.markers = program[Owner].markers
    BY <1>type, <2>2, OwnerProgram DEF Program
  <2>4. p.macros \subseteq p.markers
    BY <2>2, <2>3 DEF Inv, LoadedMarkersCover
  <2> HIDE DEF p
  <2> QED
    BY <2>1, <2>2, <2>3, <2>4, BecomesKeepsInv DEF p
<1>2. CASE preprocess_disabled_and_unreachable_markers
  <2> DEFINE p == [program[Owner] EXCEPT !.markers = program[Owner].enabled,
                                         !.macros = @ \cap program[Owner].enabled]
  <2>1. Working /\ program[Owner] # None /\ Becomes(p)
    BY <1>2 DEF preprocess_disabled_and_unreachable_markers, Working
  <2>2. /\ p \in Program
        /\ p.macros = program[Owner].macros \cap program[Owner].enabled
        /\ p.markers = program[Owner].enabled
    BY <1>type, <2>1, OwnerProgram DEF Program
  <2> HIDE DEF p
  <2> QED
    BY <2>1, <2>2, BecomesKeepsInv
<1>3. CASE open_code
  <2>1. TypeInv'
    BY <1>3, <1>type DEF open_code, Saving, TypeInv
  <2>2. OwnerInv'
    BY <1>3 DEF open_code, Saving, Working, Inv, OwnerInv
  <2>3. CoverInv'
    BY <1>3 DEF open_code, Saving, Inv, CoverInv, Covering
  <2> QED
    BY <1>3, <2>1, <2>2, <2>3 DEF open_code, Saving, Inv, LoadedMarkersCover
<1>4. CASE write_code
  <2>1. program[Owner] # None
    BY <1>4 DEF write_code, Inv, OwnerInv
  <2>2. TypeInv'
    BY <1>4, <2>1, <1>type, OwnerProgram DEF write_code, Saving, TypeInv
  <2>3. OwnerInv'
    BY <1>4, <2>1 DEF write_code, Saving, Inv, OwnerInv
  <2>4. CoverInv'
    BY <1>4, <2>1 DEF write_code, Saving, Inv, CoverInv, Covering
  <2> QED
    BY <1>4, <2>2, <2>3, <2>4 DEF write_code, Saving, Inv, LoadedMarkersCover
<1>5. CASE open_directives
  <2>1. TypeInv'
    BY <1>5, <1>type DEF open_directives, Saving, TypeInv
  <2>2. OwnerInv' /\ CoverInv'
    BY <1>5 DEF open_directives, Saving, Inv, OwnerInv, CoverInv, Covering
  <2> QED
    BY <1>5, <2>1, <2>2 DEF open_directives, Saving, Inv, LoadedMarkersCover
<1>6. CASE write_directives
  <2>1. program[Owner] # None /\ program[Owner].macros \subseteq program[Owner].markers
        /\ code \subseteq program[Owner].macros
    BY <1>6 DEF write_directives, Inv, OwnerInv, LoadedMarkersCover
  <2>d. directives' \in SUBSET Ids /\ whole' \in BOOLEAN
    BY <1>6, <2>1, <1>type, OwnerProgram DEF write_directives
  <2>2. TypeInv'
    BY <1>6, <2>d, <1>type DEF write_directives, Saving, TypeInv
  <2>3. OwnerInv' /\ CoverInv'
    BY <1>6, <2>1 DEF write_directives, Saving, Inv, OwnerInv, CoverInv, Covering
  <2> QED
    BY <1>6, <2>2, <2>3 DEF write_directives, Saving, Inv, LoadedMarkersCover
<1>7. CASE open_json
  <2>1. TypeInv'
    BY <1>7, <1>type DEF open_json, Saving, TypeInv
  <2>2. OwnerInv' /\ CoverInv'
    BY <1>7 DEF open_json, Saving, Inv, OwnerInv, CoverInv, Covering
  <2> QED
    BY <1>7, <2>1, <2>2 DEF open_json, Saving, Inv, LoadedMarkersCover
<1>8. CASE write_json
  <2>1. program[Owner] # None /\ program[Owner].macros \subseteq program[Owner].markers
        /\ code \subseteq program[Owner].macros
    BY <1>8 DEF write_json, Inv, OwnerInv, LoadedMarkersCover
  <2>2. json' = DataOf(program[Owner])
    BY <1>8 DEF write_json
  <2>3. json' \in Data /\ json'.markers = program[Owner].markers
    BY <2>1, <2>2, <1>type, OwnerProgram DEF DataOf, Data
  <2>4. source' \in SUBSET Flags
    BY <1>8, <2>1, <1>type, OwnerProgram DEF write_json, Flags
  <2>5. kept' \in Program \cup {None}
    BY <1>8, <2>1, <1>type, OwnerProgram DEF write_json
  <2>6. TypeInv'
    BY <1>8, <2>3, <2>4, <2>5, <1>type DEF write_json, Saving, TypeInv
  <2>7. OwnerInv'
    BY <1>8 DEF write_json, Saving, Inv, OwnerInv
  <2>8. CoverInv'
    BY <1>8, <2>1, <2>3 DEF write_json, Saving, Inv, CoverInv, Covering
  <2> QED
    BY <1>8, <2>6, <2>7, <2>8 DEF write_json, Saving, Inv, LoadedMarkersCover
<1>9. CASE fail \/ crash
  <2>1. Interrupted
    BY <1>9 DEF fail, crash
  <2>2. /\ program' \in [Processes -> Program \cup {None}]
        /\ program'[Owner] \in {program[Owner], None}
        /\ \A x \in Processes : x # Owner => program'[x] = program[x]
    BY <1>9, <1>type DEF fail, crash, TypeInv
  <2>3. /\ reading' \in [Processes -> Reading \cup {None}]
        /\ reading'[Owner] \in {reading[Owner], None}
        /\ \A x \in Processes : x # Owner => reading'[x] = reading[x]
    BY <1>9, <1>type DEF fail, crash, TypeInv
  <2>4. TypeInv'
    BY <2>1, <2>2, <2>3, <1>type DEF Interrupted, files, TypeInv
  <2>5. \A S : Covering(S) => Covering(S)'
    BY <2>1, <2>2 DEF Interrupted, files, Covering
  <2>6. CoverInv'
    BY <2>1, <2>3, <2>5 DEF Interrupted, files, Inv, CoverInv
  <2>7. OwnerInv'
    BY <1>9, <2>1, <2>2, <2>3 DEF fail, crash, Interrupted, Inv, OwnerInv
  <2>8. LoadedMarkersCover'
    BY <2>1, <2>2 DEF Interrupted, Inv, LoadedMarkersCover
  <2> QED
    BY <2>4, <2>6, <2>7, <2>8 DEF Inv
<1>10. CASE flush_code \/ flush_directives
  <2>1. /\ program[Owner] # None
        /\ UNCHANGED <<program, writing, whole, json, source, reading, defined, kept>>
    BY <1>10 DEF flush_code, flush_directives, Saving, Inv, OwnerInv
  <2>2. CASE flush_code
    <3>1. code' \subseteq program[Owner].macros /\ directives' = directives
      BY <2>2 DEF flush_code
    <3>2. TypeInv'
      BY <2>1, <3>1, <1>type, OwnerProgram DEF TypeInv
    <3>3. OwnerInv' /\ CoverInv'
      BY <2>1, <3>1 DEF Inv, OwnerInv, CoverInv, Covering
    <3> QED
      BY <2>1, <3>2, <3>3 DEF Inv, LoadedMarkersCover
  <2>3. CASE flush_directives
    <3>1. /\ directives' \in SUBSET Ids /\ ~whole /\ code' = code
      BY <2>1, <2>3, <1>type, OwnerProgram DEF flush_directives, Inv, OwnerInv
    <3>2. TypeInv'
      BY <2>1, <3>1, <1>type DEF TypeInv
    <3>3. OwnerInv' /\ CoverInv'
      BY <2>1, <3>1 DEF Inv, OwnerInv, CoverInv, Covering
    <3> QED
      BY <2>1, <3>2, <3>3 DEF Inv, LoadedMarkersCover
  <2> QED
    BY <1>10, <2>2, <2>3
<1>11. ASSUME NEW x \in Processes, load_json(x) PROVE Inv'
  <2> DEFINE r == [data |-> json, flags |-> source, kept |-> kept]
  <2>j. json \notin {Absent, Cut} /\ source # None
    BY <1>11 DEF load_json
  <2>s. json \in Data \cup {Absent, Cut} /\ source \in (SUBSET Flags) \cup {None}
    BY <1>type DEF TypeInv
  <2>1. json \in Data /\ json \notin {Absent, Cut} /\ source \in SUBSET Flags
    BY <2>j, <2>s
  <2>2. r \in Reading /\ r.data.markers = json.markers
    BY <2>1, <1>type DEF TypeInv, Reading
  <2>3. reading' = [reading EXCEPT ![x] = r]
    BY <1>11 DEF load_json
  <2> HIDE DEF r
  <2>4. /\ reading' \in [Processes -> Reading \cup {None}]
        /\ reading'[x] = r
        /\ \A y \in Processes : y # x => reading'[y] = reading[y]
    BY <2>2, <2>3, <1>type DEF TypeInv
  <2>5. TypeInv'
    BY <1>11, <2>4, <1>type DEF load_json, TypeInv, files
  <2>6. OwnerInv'
    BY <1>11, <2>4 DEF load_json, Inv, OwnerInv, files
  <2>7. CoverInv'
    BY <1>11, <2>1, <2>2, <2>4 DEF load_json, Inv, CoverInv, Covering, files
  <2> QED
    BY <1>11, <2>5, <2>6, <2>7 DEF load_json, Inv, LoadedMarkersCover
<1>12. ASSUME NEW x \in Processes, load_code(x) PROVE Inv'
  <2> DEFINE p == [markers |-> reading[x].data.markers, enabled |-> reading[x].data.enabled,
                   macros |-> code, flags |-> reading[x].flags \ Mentioning]
  <2>r. reading[x] # None /\ code # Absent
    BY <1>12 DEF load_code
  <2>s. reading[x] \in Reading \cup {None} /\ code \in (SUBSET Ids) \cup {Absent}
    BY <1>type DEF TypeInv
  <2>1. reading[x] \in Reading /\ reading[x] # None /\ code # Absent /\ code \in SUBSET Ids
    BY <2>r, <2>s
  <2>2. reading[x].data \in Data /\ reading[x].flags \in SUBSET Flags
    BY <2>1 DEF Reading
  <2>3. reading[x].data.markers \in SUBSET Ids /\ reading[x].data.enabled \in SUBSET Ids
    BY <2>2 DEF Data
  <2>4. p \in Program
    BY <2>1, <2>2, <2>3 DEF Program
  <2>5. p.macros = code /\ p.macros \subseteq p.markers
    BY <2>1 DEF Inv, CoverInv, Covering
  <2>6. program' = [program EXCEPT ![x] = p] /\ reading' = [reading EXCEPT ![x] = None]
        /\ UNCHANGED <<writing, files, source, defined, kept>>
    BY <1>12 DEF load_code
  <2> HIDE DEF p
  <2>7. /\ program' \in [Processes -> Program \cup {None}]
        /\ program'[x] = p
        /\ \A y \in Processes : y # x => program'[y] = program[y]
    BY <2>4, <2>6, <1>type DEF TypeInv
  <2>8. /\ reading' \in [Processes -> Reading \cup {None}]
        /\ reading'[x] = None
        /\ \A y \in Processes : y # x => reading'[y] = reading[y]
    BY <2>6, <1>type DEF TypeInv
  <2>9. TypeInv'
    BY <2>6, <2>7, <2>8, <1>type DEF TypeInv, files
  <2>10. OwnerInv'
    BY <2>1, <2>6, <2>7, <2>8 DEF Inv, OwnerInv, files
  <2>11. \A S : Covering(S) => Covering(S)'
    BY <2>1, <2>5, <2>6, <2>7 DEF Covering, files
  <2>12. CoverInv'
    BY <2>6, <2>8, <2>11 DEF Inv, CoverInv, Covering, files
  <2>13. LoadedMarkersCover'
    BY <2>5, <2>6, <2>7 DEF Inv, LoadedMarkersCover
  <2> QED
    BY <2>9, <2>10, <2>12, <2>13 DEF Inv
<1>13. CASE reduce
  <2>1. code' \subseteq code /\ code # Absent
    BY <1>13 DEF reduce
  <2>2. TypeInv'
    BY <1>13, <2>1, <1>type DEF reduce, TypeInv
  <2>3. OwnerInv' /\ CoverInv'
    BY <1>13, <2>1 DEF reduce, Inv, OwnerInv, CoverInv, Covering
  <2> QED
    BY <1>13, <2>2, <2>3 DEF reduce, Inv, LoadedMarkersCover
<1>14. CASE compile_directives
  <2>1. TypeInv'
    BY <1>14, <1>type DEF compile_directives, TypeInv, files
  <2>2. OwnerInv' /\ CoverInv'
    BY <1>14 DEF compile_directives, Inv, OwnerInv, CoverInv, Covering, files
  <2> QED
    BY <1>14, <2>1, <2>2 DEF compile_directives, Inv, LoadedMarkersCover
<1>15. CASE compile_code
  <2>1. TypeInv'
    BY <1>15, <1>type DEF compile_code, TypeInv, files
  <2>2. OwnerInv' /\ CoverInv'
    BY <1>15 DEF compile_code, Inv, OwnerInv, CoverInv, Covering, files
  <2> QED
    BY <1>15, <2>1, <2>2 DEF compile_code, Inv, LoadedMarkersCover
<1>16. CASE UNCHANGED vars
  <2>1. TypeInv'
    BY <1>16, <1>type DEF vars, files, TypeInv
  <2>2. OwnerInv' /\ CoverInv'
    BY <1>16 DEF vars, files, Inv, OwnerInv, CoverInv, Covering
  <2> QED
    BY <1>16, <2>1, <2>2 DEF vars, Inv, LoadedMarkersCover
<1> QED
  BY <1>1, <1>2, <1>3, <1>4, <1>5, <1>6, <1>7, <1>8, <1>9, <1>10, <1>11, <1>12, <1>13,
     <1>14, <1>15, <1>16 DEF Next

LEMMA Invariance == Spec => []Inv
<1> QED
  BY InitInv, StepInv, PTL DEF Spec

(* from_source_file never returns code with a macro whose marker the       *)
(* program does not have, whatever happens between its two reads and       *)
(* wherever to_file has been stopped.                                      *)
THEOREM LoadedCover == Spec => []LoadedMarkersCover
<1>1. Inv => LoadedMarkersCover
  BY DEF Inv
<1> QED
  BY <1>1, Invariance, PTL

(* A compiler that reads the directives when they are whole has one for    *)
(* every macro that is in the code when it reads that.                     *)
THEOREM DefinedMacros == Spec => MacrosDefined
<1>1. Inv /\ [Next]_vars =>
        [compile_code /\ defined.whole => code \subseteq defined.macros]_vars
  BY DEF compile_code, Inv, CoverInv, Covering
<1> QED
  BY <1>1, Invariance, PTL DEF Spec, MacrosDefined

-----------------------------------------------------------------------------
(* The round trip.  A program never has the flag that includes the         *)
(* directives, for from_source_file removes it; and as long as kept names  *)
(* a program, the files hold it.                                           *)

FlagsInv == \A x \in Processes : program[x] # None => program[x].flags \subseteq UserFlags

SavedAs(p, data, flags) == data = DataOf(p) /\ flags = p.flags \cup {IncludeFlag}

KeptInv ==
    /\ kept # None => /\ writing = "none"
                      /\ code = kept.macros
                      /\ SavedAs(kept, json, source)
                      /\ kept.flags \subseteq UserFlags
    /\ \A x \in Processes : reading[x] # None /\ reading[x].kept # None =>
          /\ SavedAs(reading[x].kept, reading[x].data, reading[x].flags)
          /\ reading[x].kept.flags \subseteq UserFlags

RoundTripInv == Inv /\ FlagsInv /\ KeptInv

(* The step of from_source_file that the round trip is about.              *)
LEMMA LoadsKept ==
    ASSUME IncludeFlag \in Mentioning, Mentioning \cap UserFlags = {},
           RoundTripInv, NEW x \in Processes, load_code(x),
           kept # None, reading[x].kept = kept
    PROVE  program'[x] = kept
<1>1. reading[x] # None
  BY DEF load_code
<1>2. /\ reading[x].data = DataOf(kept) /\ reading[x].flags = kept.flags \cup {IncludeFlag}
      /\ kept.flags \subseteq UserFlags
      /\ code = kept.macros
  BY <1>1 DEF RoundTripInv, KeptInv, SavedAs
<1>3. reading[x].flags \ Mentioning = kept.flags
  BY <1>2
<1>4. reading[x].data.markers = kept.markers /\ reading[x].data.enabled = kept.enabled
  BY <1>2 DEF DataOf
<1>5. kept \in Program
  BY DEF RoundTripInv, Inv, TypeInv
<1>6. kept = [markers |-> kept.markers, enabled |-> kept.enabled,
              macros |-> kept.macros, flags |-> kept.flags]
  BY <1>5 DEF Program
<1>7. program'[x] = [markers |-> reading[x].data.markers, enabled |-> reading[x].data.enabled,
                     macros |-> code, flags |-> reading[x].flags \ Mentioning]
  BY DEF load_code, RoundTripInv, Inv, TypeInv
<1> QED
  BY <1>2, <1>3, <1>4, <1>6, <1>7

LEMMA InitRoundTrip == Init => RoundTripInv
<1> SUFFICES ASSUME Init PROVE RoundTripInv
  OBVIOUS
<1>1. FlagsInv
  BY DEF Init, FlagsInv
<1>2. KeptInv
  BY DEF Init, KeptInv
<1> QED
  BY <1>1, <1>2, InitInv DEF RoundTripInv

LEMMA StepRoundTrip ==
    ASSUME IncludeFlag \in Mentioning, Mentioning \cap UserFlags = {}
    PROVE  RoundTripInv /\ [Next]_vars => RoundTripInv'
<1> SUFFICES ASSUME RoundTripInv, [Next]_vars PROVE RoundTripInv'
  OBVIOUS
<1> USE OwnerIsProcess
<1>inv. Inv /\ Inv' /\ TypeInv /\ FlagsInv /\ KeptInv
  BY StepInv DEF RoundTripInv, Inv
<1> SUFFICES FlagsInv' /\ KeptInv'
  BY <1>inv DEF RoundTripInv
<1>1. CASE disable_markers
  <2>1. PICK S \in SUBSET program[Owner].enabled :
          Becomes([program[Owner] EXCEPT !.enabled = @ \ S])
    BY <1>1 DEF disable_markers
  <2> DEFINE p == [program[Owner] EXCEPT !.enabled = @ \ S]
  <2>2. program[Owner] # None
    BY <1>1 DEF disable_markers, Working
  <2>3. p.flags = program[Owner].flags
    BY <1>inv, <2>2, OwnerProgram DEF Program
  <2> HIDE DEF p
  <2>4. FlagsInv'
    BY <1>inv, <2>1, <2>2, <2>3 DEF FlagsInv, Becomes, TypeInv, p
  <2> QED
    BY <1>inv, <2>1, <2>4 DEF KeptInv, Becomes, files
<1>2. CASE preprocess_disabled_and_unreachable_markers
  <2> DEFINE p == [program[Owner] EXCEPT !.markers = program[Owner].enabled,
                                         !.macros = @ \cap program[Owner].enabled]
  <2>1. program[Owner] # None /\ Becomes(p)
    BY <1>2 DEF preprocess_disabled_and_unreachable_markers, Working
  <2>2. p.flags = program[Owner].flags
    BY <1>inv, <2>1, OwnerProgram DEF Program
  <2> HIDE DEF p
  <2>3. FlagsInv'
    BY <1>inv, <2>1, <2>2 DEF FlagsInv, Becomes, TypeInv
  <2> QED
    BY <1>inv, <2>1, <2>3 DEF KeptInv, Becomes, files
<1>3. CASE open_code
  BY <1>inv, <1>3 DEF open_code, Saving, FlagsInv, KeptInv
<1>4. CASE write_code
  BY <1>inv, <1>4 DEF write_code, Saving, FlagsInv, KeptInv
<1>5. CASE open_directives
  BY <1>inv, <1>5 DEF open_directives, Saving, FlagsInv, KeptInv
<1>6. CASE write_directives
  BY <1>inv, <1>6 DEF write_directives, Saving, FlagsInv, KeptInv
<1>7. CASE open_json
  BY <1>inv, <1>7 DEF open_json, Saving, FlagsInv, KeptInv
<1>8. CASE write_json
  <2>1. program[Owner] # None /\ program[Owner].flags \subseteq UserFlags
    BY <1>inv, <1>8 DEF write_json, Inv, OwnerInv, FlagsInv
  <2>2. kept' # None => /\ kept' = program[Owner] /\ code' = kept'.macros /\ writing' = "none"
                        /\ SavedAs(kept', json', source')
    BY <1>8 DEF write_json, SavedAs
  <2> QED
    BY <1>inv, <1>8, <2>1, <2>2 DEF write_json, Saving, FlagsInv, KeptInv, SavedAs
<1>9. CASE fail \/ crash
  <2>1. /\ program'[Owner] \in {program[Owner], None}
        /\ \A x \in Processes : x # Owner => program'[x] = program[x]
        /\ reading'[Owner] \in {reading[Owner], None}
        /\ \A x \in Processes : x # Owner => reading'[x] = reading[x]
    BY <1>inv, <1>9 DEF fail, crash, TypeInv
  <2>2. FlagsInv'
    BY <1>inv, <2>1 DEF FlagsInv
  <2>3. UNCHANGED <<kept, code, json, source>> /\ writing' = "none"
    BY <1>9 DEF fail, crash, Interrupted, files
  <2> QED
    BY <1>inv, <2>1, <2>2, <2>3 DEF KeptInv, SavedAs
<1>10. CASE flush_code \/ flush_directives
  BY <1>inv, <1>10 DEF flush_code, flush_directives, Saving, FlagsInv, KeptInv
<1>11. ASSUME NEW x \in Processes, load_json(x) PROVE FlagsInv' /\ KeptInv'
  <2> DEFINE r == [data |-> json, flags |-> source, kept |-> kept]
  <2>1. /\ reading'[x] = r
        /\ \A y \in Processes : y # x => reading'[y] = reading[y]
    BY <1>inv, <1>11 DEF load_json, TypeInv
  <2>2. r.data = json /\ r.flags = source /\ r.kept = kept
    OBVIOUS
  <2>3. UNCHANGED <<program, writing, files, source, kept>>
    BY <1>11 DEF load_json
  <2> HIDE DEF r
  <2>4. FlagsInv'
    BY <1>inv, <2>3 DEF FlagsInv
  <2> QED
    BY <1>inv, <2>1, <2>2, <2>3, <2>4 DEF KeptInv, SavedAs, files
<1>12. ASSUME NEW x \in Processes, load_code(x) PROVE FlagsInv' /\ KeptInv'
  <2>1. reading[x] \in Reading /\ reading[x] # None
    <3>1. reading[x] # None /\ reading[x] \in Reading \cup {None}
      BY <1>inv, <1>12 DEF load_code, TypeInv
    <3> QED
      BY <3>1
  <2>2. reading[x].flags \in SUBSET Flags
    BY <2>1 DEF Reading
  <2>3. reading[x].flags \ Mentioning \subseteq UserFlags
    BY <2>2 DEF Flags
  <2>4. /\ program'[x].flags = reading[x].flags \ Mentioning
        /\ \A y \in Processes : y # x => program'[y] = program[y]
    BY <1>inv, <1>12 DEF load_code, TypeInv
  <2>5. /\ reading'[x] = None
        /\ \A y \in Processes : y # x => reading'[y] = reading[y]
    BY <1>inv, <1>12 DEF load_code, TypeInv
  <2>6. UNCHANGED <<writing, files, source, kept>>
    BY <1>12 DEF load_code
  <2>7. FlagsInv'
    BY <1>inv, <2>3, <2>4 DEF FlagsInv
  <2> QED
    BY <1>inv, <2>5, <2>6, <2>7 DEF KeptInv, SavedAs, files
<1>13. CASE reduce
  BY <1>inv, <1>13 DEF reduce, FlagsInv, KeptInv
<1>14. CASE compile_directives
  BY <1>inv, <1>14 DEF compile_directives, FlagsInv, KeptInv, files
<1>15. CASE compile_code
  BY <1>inv, <1>15 DEF compile_code, FlagsInv, KeptInv, files
<1>16. CASE UNCHANGED vars
  BY <1>inv, <1>16 DEF vars, files, FlagsInv, KeptInv, SavedAs
<1> QED
  BY <1>1, <1>2, <1>3, <1>4, <1>5, <1>6, <1>7, <1>8, <1>9, <1>10, <1>11, <1>12, <1>13,
     <1>14, <1>15, <1>16 DEF Next

(* "Can be reparsed via from source_file", whenever to_file has returned   *)
(* and no one has written since: if the flag that includes the directives  *)
(* has the path that from_source_file is given in its text, and no other   *)
(* flag has.                                                               *)
THEOREM ReparsedPrograms ==
    ASSUME IncludeFlag \in Mentioning, Mentioning \cap UserFlags = {}
    PROVE  Spec => Reparsed
<1>1. RoundTripInv /\ [Next]_vars =>
        [\A x \in Processes :
           load_code(x) /\ kept # None /\ reading[x].kept = kept => program'[x] = kept]_vars
  BY LoadsKept
<1>2. Spec => []RoundTripInv
  BY InitRoundTrip, StepRoundTrip, PTL DEF Spec
<1> QED
  BY <1>1, <1>2, PTL DEF Spec, Reparsed
=============================================================================
