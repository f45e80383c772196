---------------------------- MODULE ProgramFiles ----------------------------
(***************************************************************************)
(* The three files of an instrumented program                              *)
(* (python_src/program_markers/iprogram.py): to_file writes the code, the  *)
(* directives and the JSON data, one after the other and each over what it *)
(* held; from_source_file reads the JSON data and then the code; and a     *)
(* compiler given the SourceFile that to_file returns reads the directives *)
(* and then the code.                                                      *)
(*                                                                         *)
(* One process, the owner, works on the program and saves it.  It may fail *)
(* or be killed at any moment and read the program back.  Other processes  *)
(* read and compile the files at any moment, and a reducer removes parts   *)
(* of the code.                                                            *)
(***************************************************************************)

CONSTANTS
    Ids,          \* the ids of the program's markers when it is first saved
    Readers,      \* the processes that read the files
    Owner,        \* the process that writes them
    UserFlags,    \* the flags of the program
    IncludeFlag,  \* "-include" and the resolved path of the directives
    Mentioning,   \* the flags with the path of the directives in their text
    Absent,       \* no such file
    Cut,          \* JSON data that break off
    None          \* no program, no SourceFile, no data

Processes == Readers \cup {Owner}

Flags == UserFlags \cup {IncludeFlag}

(* Code is abstracted to the markers whose macros are in it, directives to *)
(* the markers that have one.                                              *)
Program ==
    [markers : SUBSET Ids, enabled : SUBSET Ids, macros : SUBSET Ids, flags : SUBSET Flags]

(* marker_stuff_to_json_dict                                               *)
Data == [markers : SUBSET Ids, enabled : SUBSET Ids]

VARIABLES
    program,     \* the program each process holds
    writing,     \* the file the owner has open, or opens next, in to_file
    code, directives, json,  \* the files
    whole,       \* whether the directives are all that to_file wrote last
    source,      \* the flags of the SourceFile to_file has returned
    reading,     \* what from_source_file has read so far, in each process
    defined,     \* the directives a compiler has read
    kept         \* the program that the files are sure to hold

files == <<code, directives, json, whole>>
vars == <<program, writing, files, source, reading, defined, kept>>

Init ==
    /\ program = [x \in Processes |->
            IF x = Owner THEN [markers |-> Ids, enabled |-> Ids, macros |-> Ids,
                               flags |-> UserFlags]
            ELSE None]
    /\ writing = "none"
    /\ code = Absent /\ directives = Absent /\ json = Absent /\ whole = FALSE
    /\ source = None
    /\ reading = [x \in Processes |-> None]
    /\ defined = None
    /\ kept = None

-----------------------------------------------------------------------------
(* Operations on the program                                               *)

Working == writing = "none" /\ program[Owner] # None

Becomes(p) ==
    /\ program' = [program EXCEPT ![Owner] = p]
    /\ UNCHANGED <<writing, files, source, reading, defined, kept>>

disable_markers ==
    /\ Working
    /\ \E S \in SUBSET program[Owner].enabled :
          Becomes([program[Owner] EXCEPT !.enabled = @ \ S])

preprocess_disabled_and_unreachable_markers ==
    /\ Working
    /\ Becomes([program[Owner] EXCEPT !.markers = program[Owner].enabled,
                                      !.macros = @ \cap program[Owner].enabled])

-----------------------------------------------------------------------------
(* to_file.  Opening a file for writing empties it, and until it is closed *)
(* any part of what is written may be in it.  Part of the code is code,    *)
(* and part of the directives are directives; JSON data are either there   *)
(* or break off.                                                           *)

Saving == UNCHANGED <<program, reading, defined>>

DataOf(p) == [markers |-> p.markers, enabled |-> p.enabled]

(* Seeded faults: the JSON data are written first, the code last; the      *)
(* directives are written before the code.                                 *)
OpenCode_JsonFirst ==
    /\ Working
    /\ writing' = "code" /\ kept' = None
    /\ json' = DataOf(program[Owner])
    /\ Saving /\ UNCHANGED <<code, directives, whole, source>>

OpenCode_DirectivesFirst ==
    /\ Working
    /\ writing' = "code" /\ kept' = None
    /\ directives' = program[Owner].markers /\ whole' = TRUE
    /\ Saving /\ UNCHANGED <<code, json, source>>

open_code ==
    /\ Working
    /\ writing' = "code" /\ code' = {} /\ kept' = None
    /\ Saving /\ UNCHANGED <<directives, whole, json, source>>

flush_code ==
    /\ writing = "code"
    /\ code' \in SUBSET program[Owner].macros
    /\ Saving /\ UNCHANGED <<writing, directives, whole, json, source, kept>>

write_code ==
    /\ writing = "code"
    /\ writing' = "directives next" /\ code' = program[Owner].macros
    /\ Saving /\ UNCHANGED <<directives, whole, json, source, kept>>

open_directives ==
    /\ writing = "directives next"
    /\ writing' = "directives" /\ directives' = {} /\ whole' = FALSE
    /\ Saving /\ UNCHANGED <<code, json, source, kept>>

flush_directives ==
    /\ writing = "directives"
    /\ directives' \in SUBSET program[Owner].markers
    /\ Saving /\ UNCHANGED <<writing, code, whole, json, source, kept>>

write_directives ==
    /\ writing = "directives"
    /\ writing' = "json next" /\ directives' = program[Owner].markers /\ whole' = TRUE
    /\ Saving /\ UNCHANGED <<code, json, source, kept>>

open_json ==
    /\ writing = "json next"
    /\ writing' = "json" /\ json' = Cut
    /\ Saving /\ UNCHANGED <<code, directives, whole, source, kept>>

(* The last write, and the return of the SourceFile.                       *)
write_json ==
    /\ writing = "json"
    /\ writing' = "none" /\ json' = DataOf(program[Owner])
    /\ source' = program[Owner].flags \cup {IncludeFlag}
    /\ kept' = IF code = program[Owner].macros THEN program[Owner] ELSE None
    /\ Saving /\ UNCHANGED <<code, directives, whole>>

(* The writer stops; an open file stays as far as it has been written.     *)
Interrupted ==
    /\ writing' = "none"
    /\ UNCHANGED <<files, source, defined, kept>>

(* An open or a write raises; the caller still has the program.            *)
fail ==
    /\ writing # "none"
    /\ Interrupted
    /\ UNCHANGED <<program, reading>>

(* The process of the owner dies.                                          *)
crash ==
    /\ program[Owner] # None \/ reading[Owner] # None
    /\ Interrupted
    /\ program' = [program EXCEPT ![Owner] = None]
    /\ reading' = [reading EXCEPT ![Owner] = None]

-----------------------------------------------------------------------------
(* from_source_file.  Data that break off are a JSONDecodeError, a missing *)
(* file is a FileNotFoundError: the caller has no program then.            *)

load_json(x) ==
    /\ x = Owner => program[Owner] = None
    /\ reading[x] = None
    /\ source # None /\ json \notin {Absent, Cut}
    /\ reading' = [reading EXCEPT ![x] = [data |-> json, flags |-> source, kept |-> kept]]
    /\ UNCHANGED <<program, writing, files, source, defined, kept>>

(* Seeded fault: the flags are taken over from the source file as they are.*)
LoadCode_Unfiltered(x) ==
    /\ reading[x] # None /\ code # Absent
    /\ program' = [program EXCEPT ![x] =
            [markers |-> reading[x].data.markers, enabled |-> reading[x].data.enabled,
             macros |-> code, flags |-> reading[x].flags]]
    /\ reading' = [reading EXCEPT ![x] = None]
    /\ UNCHANGED <<writing, files, source, defined, kept>>

load_code(x) ==
    /\ reading[x] # None /\ code # Absent
    /\ program' = [program EXCEPT ![x] =
            [markers |-> reading[x].data.markers, enabled |-> reading[x].data.enabled,
             macros |-> code, flags |-> reading[x].flags \ Mentioning]]
    /\ reading' = [reading EXCEPT ![x] = None]
    /\ UNCHANGED <<writing, files, source, defined, kept>>

-----------------------------------------------------------------------------
(* Others who use the files                                                *)

(* A reducer looks for a smaller program and writes the code.              *)
reduce ==
    /\ code # Absent
    /\ \E S \in SUBSET code : S # {} /\ code' = code \ S
    /\ kept' = None
    /\ UNCHANGED <<program, writing, directives, whole, json, source, reading, defined>>

(* A compiler includes what it finds in the directives, be it all or not.  *)
compile_directives ==
    /\ source # None /\ defined = None
    /\ directives # Absent
    /\ defined' = [macros |-> directives, whole |-> whole]
    /\ UNCHANGED <<program, writing, files, source, reading, kept>>

compile_code ==
    /\ defined # None /\ code # Absent
    /\ defined' = None
    /\ UNCHANGED <<program, writing, files, source, reading, kept>>

Next ==
    \/ disable_markers \/ preprocess_disabled_and_unreachable_markers
    \/ open_code \/ flush_code \/ write_code
    \/ open_directives \/ flush_directives \/ write_directives
    \/ open_json \/ write_json
    \/ fail \/ crash
    \/ \E x \in Processes : load_json(x) \/ load_code(x)
    \/ reduce
    \/ compile_directives \/ compile_code

Spec == Init /\ [][Next]_vars

-----------------------------------------------------------------------------
(* Properties                                                              *)

(* Whenever the owner has been stopped in to_file, and whatever it does    *)
(* while another process reads: a program that from_source_file returns    *)
(* has all the markers whose macros are in its code.                       *)
LoadedMarkersCover ==
    \A x \in Processes : program[x] # None => program[x].macros \subseteq program[x].markers

(* A compiler that reads the directives when they are whole, not while they*)
(* are written or where a write of them has stopped, has one for every     *)
(* macro in the code it then reads, whatever has been saved, reduced, read *)
(* or interrupted since.                                                   *)
MacrosDefined == [][compile_code /\ defined.whole => code \subseteq defined.macros]_vars

(* "Can be reparsed via from source_file": if to_file has returned and the *)
(* files are as it left them, from_source_file returns the same program.   *)
Reparsed ==
    [][\A x \in Processes :
         load_code(x) /\ kept # None /\ reading[x].kept = kept => program'[x] = kept]_vars
=============================================================================
