------------------------ MODULE InstrumentedProgram ------------------------
(***************************************************************************)
(* One instrumented program in the hands of a caller                       *)
(* (python_src/program_markers/iprogram.py, class InstrumentedProgram).    *)
(*                                                                         *)
(* InstrumentedProgram is a frozen dataclass: an operation returns a new   *)
(* program and the caller goes on with that one, or raises, and the caller *)
(* still has the old one.  The variables are the fields of the program the *)
(* caller goes on with, and the answer to the last operation.              *)
(*                                                                         *)
(* The code is abstracted to its marker sites, one per id: a site either   *)
(* still holds the marker's macro, or the expansion a preprocessing run    *)
(* has put there.                                                          *)
(***************************************************************************)
EXTENDS Markers

CONSTANTS
    Runs,      \* what the instrumented expressions do, for every input
    Arguments  \* the collections of markers callers pass to an operation

(* One process: the values each site sees.  A DCE site sees 0 when control *)
(* reaches it.                                                             *)
Process == [Ids -> SUBSET Values]

(* A run is the set of processes it consists of (a program may fork).      *)
ASSUME RunsAssumption == Runs \subseteq (SUBSET Process) \ {{}}

(* Callers may pass any markers that can be constructed for the ids of the *)
(* program, among them markers whose bounds have since been refined.       *)
ASSUME ArgumentsAssumption == Arguments \subseteq SUBSET Marker

VARIABLES
    markers,             \* the field of the same name (a tuple in the code)
    directive_emitters,  \* the field of the same name (a dict in the code)
    marker_strategy,     \* the field of the same name
    code,                \* sites whose macro has been expanded -> expansion
    answer               \* what the last operation answered

vars == <<markers, directive_emitters, marker_strategy, code, answer>>

Expansion == [emitter : Emitter, marker : Marker]

-----------------------------------------------------------------------------
(* Queries                                                                 *)

Emitting(kind) ==
    {m \in DOMAIN directive_emitters : directive_emitters[m].kind = kind}

enabled_markers == Emitting("Enable")
disabled_markers == Emitting("Disable")
unreachable_markers == Emitting("Unreachable")
aborted_markers == Emitting("Abort")

IdsOf(S) == {m.id : m \in S}

MarkerOf(i) == CHOOSE m \in markers : m.id = i

(* What the macro of site i expands to when the program is compiled.       *)
InForce(i) ==
    IF i \in DOMAIN code THEN code[i]
    ELSE [emitter |-> directive_emitters[MarkerOf(i)], marker |-> MarkerOf(i)]

-----------------------------------------------------------------------------
(* Answers                                                                 *)

Program == [kind |-> "program"]

Raised(error) == [kind |-> "raised", error |-> error]

Raise(error) ==
    /\ answer' = Raised(error)
    /\ UNCHANGED <<markers, directive_emitters, marker_strategy, code>>

(* __post_init__ asserts that ids are unique and that every marker has an  *)
(* emitter.                                                                *)
PostInit(ms, emitters) ==
    /\ \A m, n \in ms : m.id = n.id => m = n
    /\ ms \subseteq DOMAIN emitters

(* dataclasses.replace: builds the new program, __post_init__ included.    *)
Replace(ms, emitters, strategy, text, reply) ==
    IF PostInit(ms, emitters)
    THEN /\ markers' = ms
         /\ directive_emitters' = emitters
         /\ marker_strategy' = strategy
         /\ code' = text
         /\ answer' = reply
    ELSE Raise("AssertionError")

(* A copy of directive_emitters in which the markers of S use emitter.     *)
Assigning(S, emitter) ==
    [m \in DOMAIN directive_emitters \cup S |->
        IF m \in S THEN emitter ELSE directive_emitters[m]]

WithEmitters(emitters) ==
    Replace(markers, emitters, marker_strategy, code, Program)

-----------------------------------------------------------------------------
(* instrument_program hands out programs in which every site is enabled.   *)

Init ==
    /\ markers = DCEMarkers \cup {VRMarker(i, 0, 0) : i \in VRIds}
    /\ directive_emitters = [m \in markers |-> EnableEmitter(FunctionCall)]
    /\ marker_strategy = FunctionCall
    /\ code = [i \in {} |-> Program]
    /\ answer = Program

-----------------------------------------------------------------------------
(* Operations that retire markers                                          *)

(* Seeded fault: the assertion is missing.                                 *)
Retire_Unchecked(requested, emitter) ==
    WithEmitters(Assigning(requested \cap markers, emitter))

(* Markers in the target state already are ignored, all others have to be  *)
(* enabled.                                                                *)
Retire(requested, emitter) ==
    IF requested \subseteq enabled_markers
    THEN WithEmitters(Assigning(requested, emitter))
    ELSE Raise("AssertionError")

disable_markers(dmarkers) ==
    Retire(dmarkers \ disabled_markers, DisableEmitter)

make_markers_unreachable(umarkers) ==
    Retire(umarkers \ unreachable_markers, UnreachableEmitter)

make_markers_aborted(amarkers) ==
    Retire(amarkers \ aborted_markers, AbortEmitter)

disable_remaining_markers(do_not_disable) ==
    LET new_disabled_markers ==
            (enabled_markers \ do_not_disable) \ disabled_markers
    IN  WithEmitters(Assigning(new_disabled_markers, DisableEmitter))

generate_tracking_program ==
    WithEmitters(Assigning(enabled_markers, TrackingEmitter))

generate_tracking_program_for_refinement ==
    WithEmitters(Assigning(enabled_markers, TrackingForRefinementEmitter))

(* Seeded faults: the emitters of the new program use the default          *)
(* strategy; the enabled markers keep their emitters during the run.       *)
Preprocess_DefaultStrategy ==
    LET gone == IdsOf(DOMAIN directive_emitters \ enabled_markers)
    IN  Replace(enabled_markers,
                [m \in enabled_markers |-> EnableEmitter(FunctionCall)],
                marker_strategy,
                [i \in DOMAIN code \cup gone |-> InForce(i)],
                Program)

Preprocess_ExpandsAll ==
    Replace(enabled_markers,
            [m \in enabled_markers |-> EnableEmitter(marker_strategy)],
            marker_strategy,
            [i \in Ids |-> InForce(i)],
            Program)

(* The enabled markers get NoEmitter for the preprocessing run, so their   *)
(* macros stay; the directives of all others are expanded into the code.   *)
preprocess_disabled_and_unreachable_markers ==
    LET gone == IdsOf(DOMAIN directive_emitters \ enabled_markers)
    IN  Replace(enabled_markers,
                [m \in enabled_markers |-> EnableEmitter(marker_strategy)],
                marker_strategy,
                [i \in DOMAIN code \cup gone |-> InForce(i)],
                Program)

-----------------------------------------------------------------------------
(* Operations that keep every site's state                                 *)

(* Seeded fault: the emitters keep the strategy they had.                  *)
WithMarkerStrategy_ProgramOnly(strategy) ==
    Replace(markers, directive_emitters, strategy, code, Program)

(* Every EnableEmitter carries a copy of the strategy.                     *)
with_marker_strategy(strategy) ==
    Replace(markers,
            [m \in DOMAIN directive_emitters |->
                IF m \in enabled_markers THEN EnableEmitter(strategy)
                ELSE directive_emitters[m]],
            strategy, code, Program)

(* Markers are matched by id, and a new marker inherits the emitter of the *)
(* one it replaces.  An id the program does not have is a KeyError, raised *)
(* before __post_init__ sees two markers with the same id.                 *)
Replacing(new_markers, reply) ==
    LET unchanged_markers == {m \in markers : m.id \notin IdsOf(new_markers)}
        all_markers == unchanged_markers \cup new_markers
    IN  IF IdsOf(new_markers) \subseteq IdsOf(markers)
        THEN Replace(all_markers,
                     [m \in all_markers |-> directive_emitters[MarkerOf(m.id)]],
                     marker_strategy, code, reply)
        ELSE Raise("KeyError")

replace_markers(new_markers) == Replacing(new_markers, Program)

-----------------------------------------------------------------------------
(* Running the program.  Runs that reach a site that aborts, or one that   *)
(* has been declared unreachable, have no defined outcome.                 *)

SeenBy(run, i) == UNION {p[i] : p \in run}

Completes(run) ==
    \A i \in Ids : \A v \in SeenBy(run, i) :
        ~Stops(InForce(i).emitter, InForce(i).marker, v)

Reaches(run, m) == \E v \in SeenBy(run, m.id) : Fires(m, v)

(* Seeded fault: every tracked marker is looked up in the output.          *)
TrackReachable_AllTracked(run) ==
    /\ Completes(run)
    /\ answer' = [kind |-> "reached", run |-> run,
                  markers |-> {m \in enabled_markers \cup Emitting("Tracking") :
                                  Reaches(run, m)}]
    /\ UNCHANGED <<markers, directive_emitters, marker_strategy, code>>

(* A site prints its marker's name or its line under the emitter the       *)
(* tracking program gives it; sites that had that emitter before print     *)
(* too.  The answer is about the markers that are enabled in self.         *)
track_reachable_markers(run) ==
    LET tracked == {m \in DOMAIN directive_emitters :
                        Assigning(enabled_markers, TrackingEmitter)[m] = TrackingEmitter}
        output == {m.id : m \in {t \in tracked : Reaches(run, t)}}
    IN  /\ Completes(run)
        /\ answer' = [kind |-> "reached", run |-> run,
                      markers |-> {m \in enabled_markers : m.id \in output}]
        /\ UNCHANGED <<markers, directive_emitters, marker_strategy, code>>

(* The lines the processes of run print about VR marker m.                 *)
TrackedOutput(run, m) ==
    {TrackedLine(p[m.id]) : p \in {q \in run : q[m.id] # {}}}

refine_markers_with_runtime_information(run) ==
    LET printing == {m \in enabled_markers :
                        m.id \in VRIds /\ TrackedOutput(run, m) # {}}
        refined == {ParseTrackedOutput(m, TrackedOutput(run, m)) : m \in printing}
    IN  /\ Completes(run)
        /\ Replacing(refined, [kind |-> "refined", run |-> run, markers |-> refined])

-----------------------------------------------------------------------------
(* Asking a compiler which markers it eliminates                           *)

(* A correct compiler keeps the call of every site that some defined run   *)
(* fires; it may or may not keep the others.                               *)
MayEliminate(m) == \A run \in Runs : Completes(run) => ~Reaches(run, m)

(* The tracking code for refinement of a VR site calls track_VRMarkerN_,   *)
(* which the pattern of the function-call strategy matches.                *)
TrackingCalls ==
    {i \in VRIds : InForce(i).emitter = TrackingForRefinementEmitter}

(* surviving: the enabled markers whose statement is in the assembly;      *)
(* calls: the sites whose call of a tracking function is.                  *)
DetectedIds(surviving, calls) ==
    {m.id : m \in {s \in surviving : directive_emitters[s].strategy = marker_strategy}}
        \cup (IF marker_strategy = FunctionCall THEN calls ELSE {})

find_eliminated_markers(surviving, calls, include_all_markers) ==
    LET detected == DetectedIds(surviving, calls)
        alive == {m \in enabled_markers : m.id \in detected}
        eliminated == markers \ alive
    IN  CASE ~(detected \subseteq IdsOf(enabled_markers)) -> Raise("KeyError")
          [] ~(alive \subseteq markers) -> Raise("AssertionError")
          [] OTHER ->
               /\ answer' = [kind |-> "found", alive |-> alive,
                             eliminated |-> IF include_all_markers THEN eliminated
                                            ELSE eliminated \cap enabled_markers]
               /\ UNCHANGED <<markers, directive_emitters, marker_strategy, code>>

Compile ==
    \E surviving \in SUBSET enabled_markers, calls \in SUBSET TrackingCalls,
       include_all_markers \in BOOLEAN :
        /\ \A m \in enabled_markers \ surviving : MayEliminate(m)
        /\ find_eliminated_markers(surviving, calls, include_all_markers)

-----------------------------------------------------------------------------
Next ==
    \/ \E ms \in Arguments :
          \/ disable_markers(ms)
          \/ make_markers_unreachable(ms)
          \/ make_markers_aborted(ms)
          \/ disable_remaining_markers(ms)
          \/ replace_markers(ms)
    \/ generate_tracking_program
    \/ generate_tracking_program_for_refinement
    \/ preprocess_disabled_and_unreachable_markers
    \/ \E s \in Strategies : with_marker_strategy(s)
    \/ \E run \in Runs :
          \/ track_reachable_markers(run)
          \/ refine_markers_with_runtime_information(run)
    \/ Compile

Spec == Init /\ [][Next]_vars

-----------------------------------------------------------------------------
(* Properties                                                              *)

Answer ==
    {Program}
        \cup {Raised(e) : e \in {"AssertionError", "KeyError"}}
        \cup [kind : {"reached", "refined"}, run : Runs, markers : SUBSET Marker]
        \cup [kind : {"found"}, alive : SUBSET Marker, eliminated : SUBSET Marker]

(* Every variable holds values of the fields' declared types.              *)
TypeOK ==
    /\ markers \subseteq Marker
    /\ DOMAIN directive_emitters \subseteq Marker
    /\ directive_emitters \in [DOMAIN directive_emitters -> Emitter]
    /\ marker_strategy \in Strategies
    /\ DOMAIN code \subseteq Ids
    /\ code \in [DOMAIN code -> Expansion]
    /\ answer \in Answer

(* Whatever operations a program went through, its copies of the same      *)
(* facts agree: markers and directive_emitters list the same markers (the  *)
(* queries iterate over one, the ids are asserted on the other), ids are   *)
(* unique, the macros left in the code are exactly those of the markers,   *)
(* so that it compiles, and every enabled marker is emitted for the        *)
(* strategy find_non_eliminated_markers searches with.                     *)
Consistent ==
    /\ DOMAIN directive_emitters = markers
    /\ \A m, n \in markers : m.id = n.id => m = n
    /\ IdsOf(markers) = Ids \ DOMAIN code
    /\ \A m \in enabled_markers : directive_emitters[m].strategy = marker_strategy

(* What was disabled, made unreachable, aborted or tracked stays so, with  *)
(* or without preprocessing, and what preprocessing has put into the code  *)
(* is never changed again.                                                 *)
Irrevocable ==
    [][\A i \in Ids :
         /\ InForce(i).emitter.kind # "Enable" => InForce(i)'.emitter = InForce(i).emitter
         /\ i \in DOMAIN code => i \in DOMAIN code' /\ code'[i] = code[i]]_vars

(* find_eliminated_markers never calls a marker dead that some input of    *)
(* the program reaches, and it judges every enabled marker one way.        *)
VerdictsSound ==
    answer.kind = "found" =>
        /\ answer.alive \cap answer.eliminated = {}
        /\ enabled_markers \subseteq answer.alive \cup answer.eliminated
        /\ \A m \in answer.eliminated \cap enabled_markers : MayEliminate(m)

(* After a refinement no enabled VR marker is reached by the run it was    *)
(* made from, in any of its processes, and no bound is looser than needed. *)
RefinementCoversRun ==
    answer.kind = "refined" =>
        \A m \in enabled_markers :
            LET seen == SeenBy(answer.run, m.id)
            IN  m.id \in VRIds /\ seen # {} =>
                    /\ ~Reaches(answer.run, m)
                    /\ {m.lower_bound, m.upper_bound} \subseteq seen

(* Answers are about markers the caller can go on working with: whatever   *)
(* is reported alive, reached or refined is enabled in the program the     *)
(* caller holds, with its present bounds, and was really reached.          *)
AnswersAreUsable ==
    /\ answer.kind \in {"reached", "refined"} => answer.markers \subseteq enabled_markers
    /\ answer.kind = "found" => answer.alive \subseteq enabled_markers
    /\ answer.kind = "reached" =>
           answer.markers = {m \in enabled_markers : Reaches(answer.run, m)}

(* Finding markers answers for every program: the pattern looks for "calls *)
(* or jumps to functions with names starting with a known marker prefix".  *)
FindingMarkersAnswers == [][Compile => answer'.kind = "found"]_vars

(* The life of a site as SiteLifecycle promises it.                        *)
RangeOf(i) == <<InForce(i).marker.lower_bound, InForce(i).marker.upper_bound>>

Lifecycle ==
    INSTANCE SiteLifecycle WITH
        Retired <- RetiredKinds,
        Ranges <- Values \X Values,
        NoRange <- <<0, 0>>,
        status <- [i \in Ids |-> InForce(i).emitter.kind],
        range <- [i \in Ids |-> RangeOf(i)],
        committed <- DOMAIN code

(* No sequence of operations takes a site through anything but the life    *)
(* SiteLifecycle describes.                                                *)
LifecycleSpec == Lifecycle!Spec
=============================================================================
