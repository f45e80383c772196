--------------------- MODULE InstrumentedProgramProofs ---------------------
(***************************************************************************)
(* Proofs about InstrumentedProgram for every set of ids, values, runs,    *)
(* strategies and argument lists.                                          *)
(***************************************************************************)
EXTENDS InstrumentedProgram, TLAPS

(* TypeOK is not inductive alone: MarkerOf(i) is only known to be a marker *)
(* of the program because of the third conjunct of Consistent.             *)
Inductive == TypeOK /\ Consistent

-----------------------------------------------------------------------------
(* Markers and emitters                                                    *)

(* A marker is the only one of its id in a collection with unique ids.     *)
LEMMA UniqueMarker ==
    ASSUME NEW M, \A a, b \in M : a.id = b.id => a = b, NEW m \in M
    PROVE  (CHOOSE x \in M : x.id = m.id) = m
OBVIOUS

(* An id that occurs in a collection is that of the marker chosen for it.  *)
LEMMA ChosenMarker ==
    ASSUME NEW M, NEW i \in IdsOf(M)
    PROVE  /\ (CHOOSE x \in M : x.id = i) \in M
           /\ (CHOOSE x \in M : x.id = i).id = i
BY DEF IdsOf

(* The emitters the operations assign are emitters.                        *)
LEMMA EmittersAreEmitters ==
    /\ \A s \in Strategies : EnableEmitter(s) \in Emitter
    /\ \A s \in Strategies :
          EnableEmitter(s).kind = "Enable" /\ EnableEmitter(s).strategy = s
    /\ \A e \in {DisableEmitter, UnreachableEmitter, AbortEmitter, TrackingEmitter,
                 TrackingForRefinementEmitter} :
          e \in Emitter /\ e.kind \in RetiredKinds /\ e.kind # "Enable"
BY DEF Emitter, RetiredKinds, EnableEmitter, DisableEmitter, UnreachableEmitter,
       AbortEmitter, TrackingEmitter, TrackingForRefinementEmitter

(* A constructible marker's id is an id, and its bounds are values.        *)
LEMMA MarkerFields ==
    \A m \in Marker : /\ m.id \in Ids
                      /\ m.lower_bound \in Values /\ m.upper_bound \in Values
                      /\ m.lower_bound <= m.upper_bound
BY IdsAssumption, ValuesAssumption
   DEF Marker, DCEMarkers, VRMarkers, DCEMarker, Ids

(* Min and Max find the extreme values of a set of values.                 *)
LEMMA Extremes ==
    ASSUME NEW S, S \subseteq Values, S # {}
    PROVE  /\ Min(S) \in S /\ Max(S) \in S
           /\ \A v \in S : Min(S) <= v /\ v <= Max(S)
<1>1. PICK lo \in S, hi \in S : \A v \in S : lo <= v /\ v <= hi
  BY ValuesAssumption
<1>2. Min(S) \in S /\ \A v \in S : Min(S) <= v
  BY <1>1 DEF Min
<1>3. Max(S) \in S /\ \A v \in S : v <= Max(S)
  BY <1>1, ValuesAssumption DEF Max
<1> QED BY <1>2, <1>3

-----------------------------------------------------------------------------
(* The two ways an operation ends                                          *)

(* An operation that raises leaves a good program behind.                  *)
LEMMA RaiseKeeps ==
    ASSUME Inductive, NEW error \in {"AssertionError", "KeyError"}, Raise(error)
    PROVE  Inductive'
<1>1. Raised(error) \in Answer
  BY DEF Answer
<1> QED BY <1>1 DEF Inductive, TypeOK, Consistent, Raise, enabled_markers, Emitting

(* An operation that returns leaves a good program behind if the emitters, *)
(* the strategy and the sites it passes on agree with the markers.         *)
LEMMA ReplaceKeeps ==
    ASSUME Inductive,
           NEW ms \in SUBSET Marker, NEW emitters \in [ms -> Emitter],
           NEW strategy \in Strategies, NEW text, NEW reply \in Answer,
           DOMAIN text \subseteq Ids, text \in [DOMAIN text -> Expansion],
           IdsOf(ms) = Ids \ DOMAIN text,
           \A m \in ms : emitters[m].kind = "Enable" => emitters[m].strategy = strategy,
           Replace(ms, emitters, strategy, text, reply)
    PROVE  Inductive'
<1>1. CASE PostInit(ms, emitters)
  BY <1>1 DEF Replace, PostInit, Inductive, TypeOK, Consistent, IdsOf,
              enabled_markers, Emitting
<1>2. CASE ~PostInit(ms, emitters)
  BY <1>2, RaiseKeeps DEF Replace
<1> QED BY <1>1, <1>2

(* An operation that retires markers of the program keeps it good.         *)
LEMMA RetiringKeeps ==
    ASSUME Inductive, NEW S \in SUBSET markers,
           NEW e \in Emitter, e.kind # "Enable",
           WithEmitters(Assigning(S, e))
    PROVE  Inductive'
<1> DEFINE em == Assigning(S, e)
<1>1. em \in [markers -> Emitter]
  BY DEF Assigning, Inductive, TypeOK, Consistent
<1>2. \A m \in markers : em[m].kind = "Enable" => em[m].strategy = marker_strategy
  BY DEF Assigning, Inductive, TypeOK, Consistent, enabled_markers, Emitting
<1>3. Program \in Answer
  BY DEF Answer
<1>4. Replace(markers, em, marker_strategy, code, Program)
  BY DEF WithEmitters
<1>5. /\ markers \in SUBSET Marker
      /\ marker_strategy \in Strategies
      /\ DOMAIN code \subseteq Ids
      /\ code \in [DOMAIN code -> Expansion]
      /\ IdsOf(markers) = Ids \ DOMAIN code
  BY DEF Inductive, TypeOK, Consistent
<1> HIDE DEF em
<1> QED BY <1>1, <1>2, <1>3, <1>4, <1>5, ReplaceKeeps

(* A request to retire markers is carried out or refused.                  *)
LEMMA RetireKeeps ==
    ASSUME Inductive, NEW requested, NEW e \in Emitter, e.kind # "Enable",
           Retire(requested, e)
    PROVE  Inductive'
<1>1. CASE requested \subseteq enabled_markers
  <2>1. requested \in SUBSET markers
    BY <1>1 DEF enabled_markers, Emitting, Inductive, Consistent
  <2> QED BY <1>1, <2>1, RetiringKeeps DEF Retire
<1>2. CASE ~(requested \subseteq enabled_markers)
  BY <1>2, RaiseKeeps DEF Retire
<1> QED BY <1>1, <1>2

(* What is in force at a site is an expansion.                             *)
LEMMA InForceType ==
    ASSUME Inductive, NEW i \in Ids
    PROVE  /\ InForce(i) \in Expansion
           /\ i \notin DOMAIN code => /\ MarkerOf(i) \in markers
                                     /\ MarkerOf(i).id = i
<1>1. CASE i \in DOMAIN code
  BY <1>1 DEF InForce, Inductive, TypeOK
<1>2. CASE i \notin DOMAIN code
  <2>1. MarkerOf(i) \in markers /\ MarkerOf(i).id = i
    BY <1>2, ChosenMarker DEF Inductive, Consistent, MarkerOf
  <2> QED BY <1>2, <2>1 DEF InForce, Inductive, TypeOK, Consistent, Expansion
<1> QED BY <1>1, <1>2

(* Preprocessing keeps the program good.                                   *)
LEMMA PreprocessKeeps ==
    ASSUME Inductive, preprocess_disabled_and_unreachable_markers
    PROVE  Inductive'
<1> DEFINE em == [m \in enabled_markers |-> EnableEmitter(marker_strategy)]
           gone == IdsOf(DOMAIN directive_emitters \ enabled_markers)
           text == [i \in DOMAIN code \cup gone |-> InForce(i)]
<1>1. enabled_markers \subseteq markers /\ DOMAIN directive_emitters = markers
  BY DEF enabled_markers, Emitting, Inductive, Consistent
<1>2. gone \subseteq Ids /\ DOMAIN code \subseteq Ids
  BY MarkerFields DEF Inductive, TypeOK, IdsOf
<1>3. DOMAIN text \subseteq Ids /\ text \in [DOMAIN text -> Expansion]
  BY <1>2, InForceType
<1>4. IdsOf(enabled_markers) = Ids \ DOMAIN text
  <2>1. IdsOf(markers) = IdsOf(enabled_markers) \cup gone
    BY <1>1 DEF IdsOf
  <2>2. IdsOf(enabled_markers) \cap gone = {}
    BY <1>1 DEF IdsOf, Inductive, Consistent
  <2>3. IdsOf(markers) = Ids \ DOMAIN code
    BY DEF Inductive, Consistent
  <2> QED BY <2>1, <2>2, <2>3, <1>2
<1>5. marker_strategy \in Strategies /\ markers \subseteq Marker
  BY DEF Inductive, TypeOK
<1>6. em \in [enabled_markers -> Emitter]
  BY <1>5, EmittersAreEmitters
<1>7. \A m \in enabled_markers : em[m].strategy = marker_strategy
  BY <1>5, EmittersAreEmitters
<1>8. Program \in Answer
  BY DEF Answer
<1>9. Replace(enabled_markers, em, marker_strategy, text, Program)
  BY DEF preprocess_disabled_and_unreachable_markers
<1> HIDE DEF em, gone, text
<1> QED BY <1>1, <1>3, <1>4, <1>5, <1>6, <1>7, <1>8, <1>9, ReplaceKeeps

(* Changing the strategy keeps the program good.                           *)
LEMMA StrategyKeeps ==
    ASSUME Inductive, NEW s \in Strategies, with_marker_strategy(s)
    PROVE  Inductive'
<1> DEFINE em == [m \in DOMAIN directive_emitters |->
                    IF m \in enabled_markers THEN EnableEmitter(s)
                    ELSE directive_emitters[m]]
<1>1. em \in [markers -> Emitter]
  BY EmittersAreEmitters DEF Inductive, TypeOK, Consistent
<1>2. \A m \in markers : em[m].kind = "Enable" => em[m].strategy = s
  BY EmittersAreEmitters DEF Inductive, Consistent, enabled_markers, Emitting
<1>3. Program \in Answer
  BY DEF Answer
<1>4. Replace(markers, em, s, code, Program)
  BY DEF with_marker_strategy
<1>5. /\ markers \in SUBSET Marker
      /\ DOMAIN code \subseteq Ids
      /\ code \in [DOMAIN code -> Expansion]
      /\ IdsOf(markers) = Ids \ DOMAIN code
  BY DEF Inductive, TypeOK, Consistent
<1> HIDE DEF em
<1> QED BY <1>1, <1>2, <1>3, <1>4, <1>5, ReplaceKeeps

(* Replacing markers keeps the program good, whatever the new markers are. *)
LEMMA ReplacingKeeps ==
    ASSUME Inductive, NEW N \in SUBSET Marker, NEW reply \in Answer,
           Replacing(N, reply)
    PROVE  Inductive'
<1> DEFINE kept == {m \in markers : m.id \notin IdsOf(N)}
           all == kept \cup N
           em == [m \in all |-> directive_emitters[MarkerOf(m.id)]]
<1>1. CASE IdsOf(N) \subseteq IdsOf(markers)
  <2>1. IdsOf(all) = IdsOf(markers)
    BY <1>1 DEF IdsOf
  <2>2. \A m \in all : MarkerOf(m.id) \in markers
    BY <1>1, <2>1, ChosenMarker DEF MarkerOf, IdsOf
  <2>3. em \in [all -> Emitter]
    BY <2>2 DEF Inductive, TypeOK, Consistent
  <2>4. \A m \in all : em[m].kind = "Enable" => em[m].strategy = marker_strategy
    BY <2>2 DEF Inductive, Consistent, enabled_markers, Emitting
  <2>5. /\ all \in SUBSET Marker
        /\ marker_strategy \in Strategies
        /\ DOMAIN code \subseteq Ids
        /\ code \in [DOMAIN code -> Expansion]
        /\ IdsOf(all) = Ids \ DOMAIN code
    BY <2>1 DEF Inductive, TypeOK, Consistent
  <2>6. Replace(all, em, marker_strategy, code, reply)
    BY <1>1 DEF Replacing
  <2> HIDE DEF all, em
  <2> QED BY <2>3, <2>4, <2>5, <2>6, ReplaceKeeps
<1>2. CASE ~(IdsOf(N) \subseteq IdsOf(markers))
  BY <1>2, RaiseKeeps DEF Replacing
<1> QED BY <1>1, <1>2

(* A refined marker is a marker of the same id whose range covers exactly  *)
(* what the run showed at its site, over all processes of the run.         *)
LEMMA RefinedMarker ==
    ASSUME NEW run \in Runs, NEW m \in Marker, m.id \in VRIds,
           TrackedOutput(run, m) # {}
    PROVE  LET r == ParseTrackedOutput(m, TrackedOutput(run, m))
           IN  /\ r \in Marker /\ r.id = m.id
               /\ \A v \in SeenBy(run, m.id) : ~Fires(r, v)
               /\ {r.lower_bound, r.upper_bound} \subseteq SeenBy(run, m.id)
<1> DEFINE seen == SeenBy(run, m.id)
           procs == {q \in run : q[m.id] # {}}
           lines == TrackedOutput(run, m)
           lbs == {l.lb : l \in lines}
           ubs == {l.ub : l \in lines}
           r == ParseTrackedOutput(m, lines)
<1>1. /\ \A p \in run : p[m.id] \subseteq Values
      /\ seen \subseteq Values
  BY RunsAssumption, MarkerFields DEF Process, SeenBy
<1>2. \A p \in procs : /\ Min(p[m.id]) \in p[m.id] /\ Max(p[m.id]) \in p[m.id]
                       /\ \A v \in p[m.id] : Min(p[m.id]) <= v /\ v <= Max(p[m.id])
  BY <1>1, Extremes
<1>3. lbs = {Min(p[m.id]) : p \in procs} /\ ubs = {Max(p[m.id]) : p \in procs}
  <2>1. \A p \in procs : /\ TrackedLine(p[m.id]).lb = Min(p[m.id])
                         /\ TrackedLine(p[m.id]).ub = Max(p[m.id])
    BY DEF TrackedLine
  <2>2. lines = {TrackedLine(p[m.id]) : p \in procs}
    BY DEF TrackedOutput
  <2> HIDE DEF procs, lines
  <2> QED BY <2>1, <2>2
<1>4. lbs \subseteq seen /\ ubs \subseteq seen
  BY <1>2, <1>3 DEF SeenBy
<1>5. lbs # {} /\ ubs # {}
  BY <1>3 DEF TrackedOutput
<1>6. /\ Min(lbs) \in lbs /\ \A x \in lbs : Min(lbs) <= x
      /\ Max(ubs) \in ubs /\ \A x \in ubs : x <= Max(ubs)
  BY <1>1, <1>4, <1>5, Extremes
<1>7. \A v \in seen : Min(lbs) <= v /\ v <= Max(ubs)
  <2> SUFFICES ASSUME NEW v \in seen PROVE Min(lbs) <= v /\ v <= Max(ubs)
    OBVIOUS
  <2>1. PICK p \in procs : v \in p[m.id]
    BY DEF SeenBy
  <2>2. /\ Min(p[m.id]) <= v /\ v <= Max(p[m.id])
        /\ Min(p[m.id]) \in lbs /\ Max(p[m.id]) \in ubs
    BY <1>2, <1>3, <2>1
  <2>3. /\ Min(lbs) <= Min(p[m.id]) /\ Max(p[m.id]) <= Max(ubs)
        /\ Min(lbs) \in Int /\ Max(ubs) \in Int /\ v \in Int
        /\ Min(p[m.id]) \in Int /\ Max(p[m.id]) \in Int
    BY <2>2, <1>1, <1>4, <1>6, ValuesAssumption
  <2> QED BY <2>2, <2>3
<1>8. /\ r.id = m.id /\ r.lower_bound = Min(lbs) /\ r.upper_bound = Max(ubs)
      /\ r = [id |-> m.id, lower_bound |-> Min(lbs), upper_bound |-> Max(ubs)]
  BY DEF ParseTrackedOutput, VRMarker
<1>9. Min(lbs) \in seen /\ Max(ubs) \in seen
  BY <1>4, <1>6
<1>10. r \in Marker
  <2>1. Min(lbs) \in Values /\ Max(ubs) \in Values /\ Min(lbs) <= Max(ubs)
    BY <1>1, <1>7, <1>9
  <2>2. r \in [id : VRIds, lower_bound : Values, upper_bound : Values]
    BY <2>1, <1>8
  <2> HIDE DEF r
  <2> QED BY <2>1, <2>2, <1>8 DEF Marker, VRMarkers
<1>11. \A v \in seen : ~Fires(r, v)
  <2> HIDE DEF r, lbs, ubs, seen
  <2> QED BY <1>1, <1>4, <1>6, <1>7, <1>8, <1>9, ValuesAssumption DEF Fires
<1> HIDE DEF r
<1> QED BY <1>8, <1>9, <1>10, <1>11 DEF r

(* A refinement keeps the program good.                                    *)
LEMMA RefineKeeps ==
    ASSUME Inductive, NEW run \in Runs,
           refine_markers_with_runtime_information(run)
    PROVE  Inductive'
<1> DEFINE printing == {m \in enabled_markers :
                          m.id \in VRIds /\ TrackedOutput(run, m) # {}}
           refined == {ParseTrackedOutput(m, TrackedOutput(run, m)) : m \in printing}
           reply == [kind |-> "refined", run |-> run, markers |-> refined]
<1>1. enabled_markers \subseteq Marker
  BY DEF enabled_markers, Emitting, Inductive, TypeOK
<1>2. refined \in SUBSET Marker
  BY <1>1, RefinedMarker
<1>3. reply \in Answer
  BY <1>2 DEF Answer
<1>4. Replacing(refined, reply)
  BY DEF refine_markers_with_runtime_information
<1> HIDE DEF refined, reply
<1> QED BY <1>2, <1>3, <1>4, ReplacingKeeps

(* An operation that only answers keeps the program good.                  *)
LEMMA AnsweringKeeps ==
    ASSUME Inductive, answer' \in Answer,
           UNCHANGED <<markers, directive_emitters, marker_strategy, code>>
    PROVE  Inductive'
BY DEF Inductive, TypeOK, Consistent, enabled_markers, Emitting

(* Asking which markers are reached keeps the program good.                *)
LEMMA TrackKeeps ==
    ASSUME Inductive, NEW run \in Runs, track_reachable_markers(run)
    PROVE  Inductive'
<1> DEFINE reached == answer'.markers
<1>1. /\ answer' = [kind |-> "reached", run |-> run, markers |-> reached]
      /\ reached \subseteq enabled_markers
      /\ UNCHANGED <<markers, directive_emitters, marker_strategy, code>>
  BY DEF track_reachable_markers
<1>2. reached \in SUBSET Marker
  BY <1>1 DEF enabled_markers, Emitting, Inductive, TypeOK
<1>3. answer' \in Answer
  <2> HIDE DEF reached
  <2> QED BY <1>1, <1>2 DEF Answer
<1> QED BY <1>1, <1>3, AnsweringKeeps

(* Asking which markers are eliminated keeps the program good.             *)
LEMMA FindKeeps ==
    ASSUME Inductive, NEW surviving, NEW calls, NEW all \in BOOLEAN,
           find_eliminated_markers(surviving, calls, all)
    PROVE  Inductive'
<1> DEFINE detected == DetectedIds(surviving, calls)
           alive == {m \in enabled_markers : m.id \in detected}
           gone == markers \ alive
           eliminated == IF all THEN gone ELSE gone \cap enabled_markers
<1>1. CASE ~(detected \subseteq IdsOf(enabled_markers))
  BY <1>1, RaiseKeeps DEF find_eliminated_markers
<1>2. CASE /\ detected \subseteq IdsOf(enabled_markers)
           /\ ~(alive \subseteq markers)
  BY <1>2, RaiseKeeps DEF find_eliminated_markers
<1>3. CASE /\ detected \subseteq IdsOf(enabled_markers)
           /\ alive \subseteq markers
  <2>1. /\ answer' = [kind |-> "found", alive |-> alive, eliminated |-> eliminated]
        /\ UNCHANGED <<markers, directive_emitters, marker_strategy, code>>
    BY <1>3 DEF find_eliminated_markers
  <2>2. alive \in SUBSET Marker /\ eliminated \in SUBSET Marker
    BY DEF enabled_markers, Emitting, Inductive, TypeOK
  <2>3. answer' \in Answer
    <3> HIDE DEF alive, eliminated
    <3> QED BY <2>1, <2>2 DEF Answer
  <2> QED BY <2>1, <2>3, AnsweringKeeps
<1> QED BY <1>1, <1>2, <1>3

-----------------------------------------------------------------------------
(* The invariant                                                           *)

(* instrument_program hands out a good program.                            *)
LEMMA InitGood == Init => Inductive
<1> SUFFICES ASSUME Init PROVE Inductive
  OBVIOUS
<1>1. markers \subseteq Marker
  BY ValuesAssumption DEF Init, Marker, DCEMarkers, VRMarkers, VRMarker
<1>2. \A m, n \in markers : m.id = n.id => m = n
  BY IdsAssumption DEF Init, DCEMarkers, DCEMarker, VRMarker
<1>3. IdsOf(markers) = Ids
  <2>1. Ids \subseteq IdsOf(markers)
    <3>1. \A i \in DCEIds : DCEMarker(i) \in markers /\ DCEMarker(i).id = i
      BY DEF Init, DCEMarkers, DCEMarker
    <3>2. \A i \in VRIds : VRMarker(i, 0, 0) \in markers /\ VRMarker(i, 0, 0).id = i
      BY DEF Init, VRMarker
    <3> QED BY <3>1, <3>2 DEF IdsOf, Ids
  <2>2. IdsOf(markers) \subseteq Ids
    BY <1>1, MarkerFields DEF IdsOf
  <2> QED BY <2>1, <2>2
<1>4. directive_emitters \in [markers -> Emitter]
  BY EmittersAreEmitters, StrategiesAssumption DEF Init
<1>5. /\ marker_strategy \in Strategies
      /\ \A m \in markers : directive_emitters[m].strategy = marker_strategy
  BY EmittersAreEmitters, StrategiesAssumption DEF Init
<1>6. DOMAIN code = {} /\ code \in [DOMAIN code -> Expansion]
  BY DEF Init
<1>7. answer \in Answer
  BY DEF Init, Answer
<1> QED BY <1>1, <1>2, <1>3, <1>4, <1>5, <1>6, <1>7
        DEF Inductive, TypeOK, Consistent, enabled_markers, Emitting

(* Every step keeps the program good.                                      *)
LEMMA StepGood == Inductive /\ [Next]_vars => Inductive'
<1> SUFFICES ASSUME Inductive, [Next]_vars PROVE Inductive'
  OBVIOUS
<1>1. ASSUME NEW ms \in Arguments, disable_markers(ms) PROVE Inductive'
  BY <1>1, RetireKeeps, EmittersAreEmitters DEF disable_markers
<1>2. ASSUME NEW ms \in Arguments, make_markers_unreachable(ms) PROVE Inductive'
  BY <1>2, RetireKeeps, EmittersAreEmitters DEF make_markers_unreachable
<1>3. ASSUME NEW ms \in Arguments, make_markers_aborted(ms) PROVE Inductive'
  BY <1>3, RetireKeeps, EmittersAreEmitters DEF make_markers_aborted
<1>4. enabled_markers \subseteq markers
  BY DEF enabled_markers, Emitting, Inductive, Consistent
<1>5. ASSUME NEW ms \in Arguments, disable_remaining_markers(ms) PROVE Inductive'
  <2> DEFINE S == (enabled_markers \ ms) \ disabled_markers
  <2>1. S \in SUBSET markers /\ WithEmitters(Assigning(S, DisableEmitter))
    BY <1>4, <1>5 DEF disable_remaining_markers
  <2> HIDE DEF S
  <2> QED BY <2>1, RetiringKeeps, EmittersAreEmitters
<1>6. ASSUME NEW ms \in Arguments, replace_markers(ms) PROVE Inductive'
  BY <1>6, ReplacingKeeps, ArgumentsAssumption DEF replace_markers, Answer
<1>7. CASE generate_tracking_program
  BY <1>4, <1>7, RetiringKeeps, EmittersAreEmitters DEF generate_tracking_program
<1>8. CASE generate_tracking_program_for_refinement
  BY <1>4, <1>8, RetiringKeeps, EmittersAreEmitters
     DEF generate_tracking_program_for_refinement
<1>9. CASE preprocess_disabled_and_unreachable_markers
  BY <1>9, PreprocessKeeps
<1>10. ASSUME NEW s \in Strategies, with_marker_strategy(s) PROVE Inductive'
  BY <1>10, StrategyKeeps
<1>11. ASSUME NEW run \in Runs, track_reachable_markers(run) PROVE Inductive'
  BY <1>11, TrackKeeps
<1>12. ASSUME NEW run \in Runs, refine_markers_with_runtime_information(run)
       PROVE  Inductive'
  BY <1>12, RefineKeeps
<1>13. CASE Compile
  BY <1>13, FindKeeps DEF Compile
<1>14. CASE UNCHANGED vars
  BY <1>14 DEF vars, Inductive, TypeOK, Consistent, enabled_markers, Emitting
<1> QED BY <1>1, <1>2, <1>3, <1>5, <1>6, <1>7, <1>8, <1>9, <1>10, <1>11, <1>12,
           <1>13, <1>14 DEF Next

(* The inductive invariant of InstrumentedProgram.                         *)
THEOREM Invariance == Spec => []Inductive
BY InitGood, StepGood, PTL DEF Spec

(* Every field holds values of its type, after any operations.             *)
THEOREM TypeCorrect == Spec => []TypeOK
<1>1. Inductive => TypeOK
  BY DEF Inductive
<1> QED BY <1>1, Invariance, PTL

(* After any operations, refused ones included, markers, emitters, code    *)
(* and strategy of the program agree.                                      *)
THEOREM StaysConsistent == Spec => []Consistent
<1>1. Inductive => Consistent
  BY DEF Inductive
<1> QED BY <1>1, Invariance, PTL

-----------------------------------------------------------------------------
(* Answers                                                                 *)

(* All operations but three answer with a program or an error.             *)
LEMMA OtherAnswers ==
    ASSUME Next,
           ~Compile,
           \A run \in Runs : /\ ~track_reachable_markers(run)
                             /\ ~refine_markers_with_runtime_information(run)
    PROVE  answer'.kind \in {"program", "raised"}
<1>1. \A ms, em, st, tx : Replace(ms, em, st, tx, Program) =>
            answer'.kind \in {"program", "raised"}
  BY DEF Replace, Raise, Raised, Program
<1>2. \A error : Raise(error) => answer'.kind \in {"program", "raised"}
  BY DEF Raise, Raised
<1> QED BY <1>1, <1>2
        DEF Next, disable_markers, make_markers_unreachable, make_markers_aborted,
            disable_remaining_markers, replace_markers, Retire, Replacing, WithEmitters,
            generate_tracking_program, generate_tracking_program_for_refinement,
            preprocess_disabled_and_unreachable_markers, with_marker_strategy

(* Which markers a program reaches depends on its fields alone.            *)
LEMMA SameProgramSameRuns ==
    ASSUME UNCHANGED <<markers, directive_emitters, marker_strategy, code>>
    PROVE  /\ enabled_markers' = enabled_markers
           /\ \A m : MayEliminate(m)' <=> MayEliminate(m)
BY DEF enabled_markers, Emitting, MayEliminate, Completes, InForce, MarkerOf

(* The answer of a successful find is sound: an enabled marker that the    *)
(* compiler kept is detected, because its emitter uses the strategy that   *)
(* the program searches with.                                              *)
LEMMA FindSound ==
    ASSUME Inductive, Compile
    PROVE  VerdictsSound'
<1>1. PICK surviving \in SUBSET enabled_markers, calls \in SUBSET TrackingCalls,
           all \in BOOLEAN :
        /\ \A m \in enabled_markers \ surviving : MayEliminate(m)
        /\ find_eliminated_markers(surviving, calls, all)
  BY DEF Compile
<1> DEFINE detected == DetectedIds(surviving, calls)
           alive == {m \in enabled_markers : m.id \in detected}
           gone == markers \ alive
<1>2. CASE ~(detected \subseteq IdsOf(enabled_markers))
  BY <1>1, <1>2 DEF find_eliminated_markers, Raise, Raised, VerdictsSound
<1>3. alive \subseteq markers
  BY DEF enabled_markers, Emitting, Inductive, Consistent
<1>4. CASE detected \subseteq IdsOf(enabled_markers)
  <2>1. /\ answer'.kind = "found" /\ answer'.alive = alive
        /\ answer'.eliminated = IF all THEN gone ELSE gone \cap enabled_markers
        /\ UNCHANGED <<markers, directive_emitters, marker_strategy, code>>
    BY <1>1, <1>3, <1>4 DEF find_eliminated_markers
  <2>2. enabled_markers \subseteq markers
    BY DEF enabled_markers, Emitting, Inductive, Consistent
  <2>3. surviving \subseteq alive
    BY DEF DetectedIds, Inductive, Consistent
  <2>4. answer'.eliminated \cap enabled_markers = enabled_markers \ alive
    BY <2>1, <2>2
  <2>5. \A m \in answer'.eliminated \cap enabled_markers : MayEliminate(m)
    BY <1>1, <2>3, <2>4
  <2> HIDE DEF alive
  <2> QED BY <2>1, <2>2, <2>4, <2>5, SameProgramSameRuns DEF VerdictsSound
<1> QED BY <1>2, <1>4

(* No answer of find_eliminated_markers calls a reachable marker dead.     *)
THEOREM SoundVerdicts == Spec => []VerdictsSound
<1>1. Init => VerdictsSound
  BY DEF Init, Program, VerdictsSound
<1>2. Inductive /\ VerdictsSound /\ [Next]_vars => VerdictsSound'
  <2> SUFFICES ASSUME Inductive, VerdictsSound, [Next]_vars PROVE VerdictsSound'
    OBVIOUS
  <2>1. CASE UNCHANGED vars
    BY <2>1, SameProgramSameRuns DEF vars, VerdictsSound
  <2>2. CASE Compile
    BY <2>2, FindSound
  <2>3. ASSUME NEW run \in Runs, track_reachable_markers(run) PROVE VerdictsSound'
    BY <2>3 DEF track_reachable_markers, VerdictsSound
  <2>4. ASSUME NEW run \in Runs, refine_markers_with_runtime_information(run)
        PROVE  VerdictsSound'
    BY <2>4 DEF refine_markers_with_runtime_information, Replacing, Replace, Raise,
                Raised, VerdictsSound
  <2>5. CASE /\ Next /\ ~Compile
             /\ \A run \in Runs : /\ ~track_reachable_markers(run)
                                  /\ ~refine_markers_with_runtime_information(run)
    BY <2>5, OtherAnswers DEF VerdictsSound
  <2> QED BY <2>1, <2>2, <2>3, <2>4, <2>5
<1> QED BY <1>1, <1>2, Invariance, PTL DEF Spec

(* What a refinement that returns leaves behind: the refined markers are   *)
(* enabled, and every enabled VR marker whose site the run reached has     *)
(* been refined.                                                           *)
LEMMA RefineOutcome ==
    ASSUME Inductive, NEW run \in Runs,
           refine_markers_with_runtime_information(run)
    PROVE  \/ answer'.kind = "raised"
           \/ /\ answer'.kind = "refined" /\ answer'.run = run
              /\ answer'.markers \subseteq enabled_markers'
              /\ \A r \in enabled_markers' :
                    r.id \in VRIds /\ SeenBy(run, r.id) # {} =>
                      /\ ~Reaches(run, r)
                      /\ {r.lower_bound, r.upper_bound} \subseteq SeenBy(run, r.id)
<1> DEFINE printing == {m \in enabled_markers :
                          m.id \in VRIds /\ TrackedOutput(run, m) # {}}
           parsed(m) == ParseTrackedOutput(m, TrackedOutput(run, m))
           refined == {parsed(m) : m \in printing}
           reply == [kind |-> "refined", run |-> run, markers |-> refined]
           kept == {m \in markers : m.id \notin IdsOf(refined)}
           all == kept \cup refined
           em == [m \in all |-> directive_emitters[MarkerOf(m.id)]]
<1>1. enabled_markers \subseteq markers /\ markers \subseteq Marker
  BY DEF enabled_markers, Emitting, Inductive, Consistent, TypeOK
<1>2. \A m \in printing : /\ parsed(m).id = m.id
                          /\ \A v \in SeenBy(run, m.id) : ~Fires(parsed(m), v)
                          /\ {parsed(m).lower_bound, parsed(m).upper_bound}
                                \subseteq SeenBy(run, m.id)
  BY <1>1, RefinedMarker
<1>3. Replacing(refined, reply)
  BY DEF refine_markers_with_runtime_information
<1>4. CASE \E e : Raise(e)
  BY <1>4 DEF Raise, Raised
<1>5. CASE ~\E e : Raise(e)
  <2>1. markers' = all /\ directive_emitters' = em /\ answer' = reply
    <3> HIDE DEF reply
    <3> QED BY <1>3, <1>5 DEF Replacing, Replace
  <2>2. \A m \in markers : MarkerOf(m.id) = m
    BY UniqueMarker DEF MarkerOf, Inductive, Consistent
  <2>3. \A m \in printing : parsed(m) \in enabled_markers'
    <3> SUFFICES ASSUME NEW m \in printing PROVE parsed(m) \in enabled_markers'
      OBVIOUS
    <3>1. parsed(m) \in all /\ em[parsed(m)] = directive_emitters[MarkerOf(parsed(m).id)]
      OBVIOUS
    <3>2. MarkerOf(parsed(m).id) = m
      BY <1>1, <1>2, <2>2
    <3> HIDE DEF parsed, all, em
    <3>3. em[parsed(m)].kind = "Enable"
      BY <3>1, <3>2 DEF enabled_markers, Emitting
    <3> QED BY <2>1, <3>1, <3>3 DEF enabled_markers, Emitting, em
  <2>4. ASSUME NEW r \in enabled_markers', r.id \in VRIds, SeenBy(run, r.id) # {}
        PROVE  r \in refined
    <3>1. r \in all /\ em[r].kind = "Enable"
      BY <2>1 DEF enabled_markers, Emitting
    <3>2. CASE r \in kept
      <4>1. r \in enabled_markers
        BY <2>2, <3>1, <3>2 DEF enabled_markers, Emitting, Inductive, Consistent
      <4>2. TrackedOutput(run, r) # {}
        BY <2>4 DEF SeenBy, TrackedOutput
      <4>3. r \in printing
        BY <2>4, <4>1, <4>2
      <4> HIDE DEF parsed, printing
      <4>4. r.id \in IdsOf(refined)
        BY <1>2, <4>3 DEF IdsOf
      <4> QED BY <3>2, <4>4
    <3> QED BY <3>1, <3>2
  <2>5. \A r \in refined : \E m \in printing : r = parsed(m)
    OBVIOUS
  <2>6. reply.kind = "refined" /\ reply.run = run /\ reply.markers = refined
    OBVIOUS
  <2> HIDE DEF refined, printing, parsed, reply
  <2> QED BY <1>2, <2>1, <2>3, <2>4, <2>5, <2>6 DEF Reaches
<1> QED BY <1>4, <1>5

(* The range of a refined marker covers the run it was refined with.       *)
THEOREM RefinementCovers == Spec => []RefinementCoversRun
<1>1. Init => RefinementCoversRun
  BY DEF Init, Program, RefinementCoversRun
<1>2. Inductive /\ RefinementCoversRun /\ [Next]_vars => RefinementCoversRun'
  <2> SUFFICES ASSUME Inductive, RefinementCoversRun, [Next]_vars
               PROVE  RefinementCoversRun'
    OBVIOUS
  <2>1. CASE UNCHANGED vars
    BY <2>1 DEF vars, RefinementCoversRun, enabled_markers, Emitting
  <2>2. CASE Compile
    BY <2>2 DEF Compile, find_eliminated_markers, Raise, Raised, RefinementCoversRun
  <2>3. ASSUME NEW run \in Runs, track_reachable_markers(run)
        PROVE  RefinementCoversRun'
    BY <2>3 DEF track_reachable_markers, RefinementCoversRun
  <2>4. ASSUME NEW run \in Runs, refine_markers_with_runtime_information(run)
        PROVE  RefinementCoversRun'
    BY <2>4, RefineOutcome DEF RefinementCoversRun
  <2>5. CASE /\ Next /\ ~Compile
             /\ \A run \in Runs : /\ ~track_reachable_markers(run)
                                  /\ ~refine_markers_with_runtime_information(run)
    BY <2>5, OtherAnswers DEF RefinementCoversRun
  <2> QED BY <2>1, <2>2, <2>3, <2>4, <2>5
<1> QED BY <1>1, <1>2, Invariance, PTL DEF Spec
(* Answers name enabled markers in their present state.                    *)
THEOREM UsableAnswers == Spec => []AnswersAreUsable
<1>1. Init => AnswersAreUsable
  BY DEF Init, Program, AnswersAreUsable
<1>2. Inductive /\ AnswersAreUsable /\ [Next]_vars => AnswersAreUsable'
  <2> SUFFICES ASSUME Inductive, AnswersAreUsable, [Next]_vars
               PROVE  AnswersAreUsable'
    OBVIOUS
  <2>1. CASE UNCHANGED vars
    BY <2>1 DEF vars, AnswersAreUsable, enabled_markers, Emitting, Reaches
  <2>2. CASE Compile
    BY <2>2 DEF Compile, find_eliminated_markers, Raise, Raised, AnswersAreUsable,
                enabled_markers, Emitting
  <2>3. ASSUME NEW run \in Runs, track_reachable_markers(run)
        PROVE  AnswersAreUsable'
    <3> DEFINE tracked == {m \in DOMAIN directive_emitters :
                 Assigning(enabled_markers, TrackingEmitter)[m] = TrackingEmitter}
               output == {m.id : m \in {t \in tracked : Reaches(run, t)}}
    <3>1. /\ answer' = [kind |-> "reached", run |-> run,
                        markers |-> {m \in enabled_markers : m.id \in output}]
          /\ enabled_markers' = enabled_markers
      BY <2>3, SameProgramSameRuns DEF track_reachable_markers
    <3>2. enabled_markers \subseteq tracked /\ tracked \subseteq markers
      BY DEF enabled_markers, Emitting, Assigning, Inductive, Consistent
    <3>3. \A m \in enabled_markers : m.id \in output <=> Reaches(run, m)
      BY <3>2 DEF Inductive, Consistent
    <3> HIDE DEF output
    <3> QED BY <3>1, <3>3 DEF AnswersAreUsable, Reaches
  <2>4. ASSUME NEW run \in Runs, refine_markers_with_runtime_information(run)
        PROVE  AnswersAreUsable'
    BY <2>4, RefineOutcome DEF AnswersAreUsable
  <2>5. CASE /\ Next /\ ~Compile
             /\ \A run \in Runs : /\ ~track_reachable_markers(run)
                                  /\ ~refine_markers_with_runtime_information(run)
    BY <2>5, OtherAnswers DEF AnswersAreUsable
  <2> QED BY <2>1, <2>2, <2>3, <2>4, <2>5
<1> QED BY <1>1, <1>2, Invariance, PTL DEF Spec

-----------------------------------------------------------------------------
(* The life of a site                                                      *)

LiveSites == {i \in Ids : InForce(i).emitter.kind = "Enable"}

(* The ways in which a step can affect the sites.                          *)
SitesRetire(S, e) ==
    /\ S \subseteq LiveSites
    /\ e \in Emitter /\ e.kind \in RetiredKinds
    /\ DOMAIN code' = DOMAIN code
    /\ \A i \in Ids : /\ InForce(i)'.emitter = IF i \in S THEN e ELSE InForce(i).emitter
                      /\ InForce(i)'.marker = InForce(i).marker

SitesRebound ==
    /\ code' = code
    /\ \A i \in Ids : InForce(i)'.emitter.kind = InForce(i).emitter.kind
    /\ \A i \in Ids \ LiveSites : InForce(i)'.emitter = InForce(i).emitter

SitesCommit ==
    /\ DOMAIN code' = Ids \ LiveSites
    /\ \A i \in Ids : InForce(i)' = InForce(i)

SiteStep ==
    \/ \E S \in SUBSET Ids, e \in Emitter : SitesRetire(S, e)
    \/ SitesRebound
    \/ SitesCommit

(* The sites of the enabled markers are the live ones, and live sites are  *)
(* not part of the code.                                                   *)
LEMMA LiveAreEnabled ==
    ASSUME Inductive, \A i \in DOMAIN code : code[i].emitter.kind # "Enable"
    PROVE  /\ LiveSites = IdsOf(enabled_markers)
           /\ LiveSites \cap DOMAIN code = {}
<1>1. \A m \in markers : MarkerOf(m.id) = m /\ m.id \in Ids \ DOMAIN code
  BY UniqueMarker DEF MarkerOf, Inductive, Consistent, IdsOf
<1>2. LiveSites \subseteq IdsOf(enabled_markers)
  <2> SUFFICES ASSUME NEW i \in LiveSites PROVE i \in IdsOf(enabled_markers)
    OBVIOUS
  <2>1. i \in Ids /\ i \notin DOMAIN code /\ InForce(i).emitter.kind = "Enable"
    BY DEF LiveSites, InForce
  <2>2. MarkerOf(i) \in markers /\ MarkerOf(i).id = i
    BY <2>1, InForceType
  <2>3. MarkerOf(i) \in enabled_markers
    BY <2>1, <2>2 DEF InForce, enabled_markers, Emitting, Inductive, Consistent
  <2> QED BY <2>2, <2>3 DEF IdsOf
<1>3. IdsOf(enabled_markers) \subseteq LiveSites
  BY <1>1 DEF IdsOf, LiveSites, InForce, enabled_markers, Emitting, Inductive, Consistent
<1>4. LiveSites \cap DOMAIN code = {}
  BY DEF LiveSites, InForce
<1> QED BY <1>2, <1>3, <1>4
(* Expansions in the code belong to retired sites.                         *)
CommittedRetired == \A i \in DOMAIN code : code[i].emitter.kind # "Enable"

(* A step that leaves the program alone leaves the sites alone.            *)
LEMMA SameProgramSameSites ==
    ASSUME UNCHANGED <<markers, directive_emitters, code>>
    PROVE  SitesRebound
BY DEF SitesRebound, LiveSites, InForce, MarkerOf

(* An operation that raises leaves every site as it was.                   *)
LEMMA RaiseSites ==
    ASSUME NEW error, Raise(error) PROVE SitesRebound
BY SameProgramSameSites DEF Raise

(* Assigning an emitter to enabled markers retires their sites.            *)
LEMMA RetiringSites ==
    ASSUME Inductive, CommittedRetired, NEW S \in SUBSET enabled_markers,
           NEW e \in Emitter, e.kind \in RetiredKinds,
           WithEmitters(Assigning(S, e))
    PROVE  SiteStep
<1> DEFINE em == Assigning(S, e)
<1>1. CASE ~PostInit(markers, em)
  BY <1>1, RaiseSites DEF WithEmitters, Replace, SiteStep
<1>2. CASE PostInit(markers, em)
  <2>1. markers' = markers /\ directive_emitters' = em /\ code' = code
    BY <1>2 DEF WithEmitters, Replace
  <2>2. /\ LiveSites = IdsOf(enabled_markers)
        /\ LiveSites \cap DOMAIN code = {}
    BY LiveAreEnabled DEF CommittedRetired
  <2>3. IdsOf(S) \subseteq LiveSites /\ IdsOf(S) \in SUBSET Ids
    BY <2>2 DEF IdsOf, LiveSites
  <2>4. \A i \in Ids \ DOMAIN code :
            MarkerOf(i)' = MarkerOf(i) /\ (i \in IdsOf(S) <=> MarkerOf(i) \in S)
    <3> SUFFICES ASSUME NEW i \in Ids \ DOMAIN code
                 PROVE  MarkerOf(i)' = MarkerOf(i) /\ (i \in IdsOf(S) <=> MarkerOf(i) \in S)
      OBVIOUS
    <3>1. MarkerOf(i) \in markers /\ MarkerOf(i).id = i
      BY InForceType
    <3>2. S \subseteq markers
      BY DEF enabled_markers, Emitting, Inductive, Consistent
    <3> QED BY <2>1, <3>1, <3>2 DEF MarkerOf, IdsOf, Inductive, Consistent
  <2>5. ASSUME NEW i \in Ids
        PROVE  /\ InForce(i)'.emitter = IF i \in IdsOf(S) THEN e ELSE InForce(i).emitter
               /\ InForce(i)'.marker = InForce(i).marker
    <3>1. CASE i \in DOMAIN code
      BY <2>1, <2>2, <2>3, <3>1 DEF InForce
    <3>2. CASE i \notin DOMAIN code
      <4>1. /\ MarkerOf(i)' = MarkerOf(i) /\ MarkerOf(i) \in markers
            /\ i \in IdsOf(S) <=> MarkerOf(i) \in S
        BY <2>4, <3>2, InForceType
      <4>2. em[MarkerOf(i)] = IF i \in IdsOf(S) THEN e
                              ELSE directive_emitters[MarkerOf(i)]
        BY <4>1 DEF Assigning, Inductive, Consistent
      <4>3. InForce(i)' = [emitter |-> em[MarkerOf(i)], marker |-> MarkerOf(i)]
        BY <2>1, <3>2, <4>1 DEF InForce
      <4>4. InForce(i) = [emitter |-> directive_emitters[MarkerOf(i)],
                          marker |-> MarkerOf(i)]
        BY <3>2 DEF InForce
      <4> HIDE DEF em
      <4> QED BY <4>2, <4>3, <4>4
    <3> QED BY <3>1, <3>2
  <2>6. SitesRetire(IdsOf(S), e)
    BY <2>1, <2>3, <2>5 DEF SitesRetire
  <2> QED BY <2>3, <2>6 DEF SiteStep
<1> QED BY <1>1, <1>2

(* Retiring markers changes only the sites of enabled markers, and keeps   *)
(* their bounds.                                                           *)
LEMMA RetireSites ==
    ASSUME Inductive, CommittedRetired, NEW requested,
           NEW e \in Emitter, e.kind \in RetiredKinds, Retire(requested, e)
    PROVE  SiteStep
BY RetiringSites, RaiseSites DEF Retire, SiteStep

(* A new strategy changes the emitters of live sites, but not their kind.  *)
LEMMA StrategySites ==
    ASSUME Inductive, CommittedRetired, NEW s \in Strategies, with_marker_strategy(s)
    PROVE  SitesRebound
<1> DEFINE em == [m \in DOMAIN directive_emitters |->
                    IF m \in enabled_markers THEN EnableEmitter(s)
                    ELSE directive_emitters[m]]
<1>1. CASE ~PostInit(markers, em)
  BY <1>1, RaiseSites DEF with_marker_strategy, Replace
<1>2. CASE PostInit(markers, em)
  <2>1. markers' = markers /\ directive_emitters' = em /\ code' = code
    BY <1>2 DEF with_marker_strategy, Replace
  <2>2. \A m \in markers : /\ em[m].kind = directive_emitters[m].kind
                           /\ m \notin enabled_markers => em[m] = directive_emitters[m]
    BY EmittersAreEmitters DEF enabled_markers, Emitting, Inductive, Consistent
  <2>3. ASSUME NEW i \in Ids
        PROVE  /\ InForce(i)'.emitter.kind = InForce(i).emitter.kind
               /\ i \notin LiveSites => InForce(i)'.emitter = InForce(i).emitter
    <3>1. CASE i \in DOMAIN code
      BY <2>1, <3>1 DEF InForce
    <3>2. CASE i \notin DOMAIN code
      <4>1. MarkerOf(i)' = MarkerOf(i) /\ MarkerOf(i) \in markers
        BY <2>1, <3>2, InForceType DEF MarkerOf
      <4>2. InForce(i)'.emitter = em[MarkerOf(i)]
        BY <2>1, <3>2, <4>1 DEF InForce
      <4>3. InForce(i).emitter = directive_emitters[MarkerOf(i)]
        BY <3>2 DEF InForce
      <4>4. MarkerOf(i) \in enabled_markers => i \in LiveSites
        BY <4>3 DEF enabled_markers, Emitting, LiveSites
      <4> HIDE DEF em
      <4> QED BY <2>2, <4>1, <4>2, <4>3, <4>4
    <3> QED BY <3>1, <3>2
  <2> QED BY <2>1, <2>3 DEF SitesRebound
<1> QED BY <1>1, <1>2

(* Replacing markers may change bounds, but nobody's emitter.              *)
LEMMA ReplacingSites ==
    ASSUME Inductive, CommittedRetired, NEW N \in SUBSET Marker, NEW reply,
           Replacing(N, reply)
    PROVE  SitesRebound
<1> DEFINE kept == {m \in markers : m.id \notin IdsOf(N)}
           all == kept \cup N
           em == [m \in all |-> directive_emitters[MarkerOf(m.id)]]
<1>1. CASE ~(IdsOf(N) \subseteq IdsOf(markers))
  BY <1>1, RaiseSites DEF Replacing
<1>2. CASE IdsOf(N) \subseteq IdsOf(markers) /\ ~PostInit(all, em)
  BY <1>2, RaiseSites DEF Replacing, Replace
<1>3. CASE IdsOf(N) \subseteq IdsOf(markers) /\ PostInit(all, em)
  <2>1. markers' = all /\ directive_emitters' = em /\ code' = code
    BY <1>3 DEF Replacing, Replace
  <2>2. IdsOf(all) = IdsOf(markers)
    BY <1>3 DEF IdsOf
  <2>3. ASSUME NEW i \in Ids PROVE InForce(i)'.emitter = InForce(i).emitter
    <3>1. CASE i \in DOMAIN code
      BY <2>1, <3>1 DEF InForce
    <3>2. CASE i \notin DOMAIN code
      <4>1. i \in IdsOf(all)
        BY <2>2, <3>2 DEF Inductive, Consistent
      <4>2. MarkerOf(i)' \in all /\ MarkerOf(i)'.id = i
        BY <2>1, <4>1, ChosenMarker DEF MarkerOf
      <4>3. InForce(i)'.emitter = em[MarkerOf(i)']
        BY <2>1, <3>2 DEF InForce
      <4>4. em[MarkerOf(i)'] = directive_emitters[MarkerOf(i)]
        BY <4>2
      <4>5. InForce(i).emitter = directive_emitters[MarkerOf(i)]
        BY <3>2 DEF InForce
      <4> HIDE DEF em
      <4> QED BY <4>3, <4>4, <4>5
    <3> QED BY <3>1, <3>2
  <2> QED BY <2>1, <2>3 DEF SitesRebound
<1> QED BY <1>1, <1>2, <1>3

(* Preprocessing puts the retired sites into the code as they are.         *)
LEMMA PreprocessSites ==
    ASSUME Inductive, CommittedRetired, preprocess_disabled_and_unreachable_markers
    PROVE  SiteStep
<1> DEFINE em == [m \in enabled_markers |-> EnableEmitter(marker_strategy)]
           gone == IdsOf(DOMAIN directive_emitters \ enabled_markers)
           text == [i \in DOMAIN code \cup gone |-> InForce(i)]
<1>1. CASE ~PostInit(enabled_markers, em)
  BY <1>1, RaiseSites DEF preprocess_disabled_and_unreachable_markers, Replace, SiteStep
<1>2. CASE PostInit(enabled_markers, em)
  <2>1. markers' = enabled_markers /\ directive_emitters' = em /\ code' = text
    BY <1>2 DEF preprocess_disabled_and_unreachable_markers, Replace
  <2>2. /\ LiveSites = IdsOf(enabled_markers)
        /\ LiveSites \cap DOMAIN code = {}
    BY LiveAreEnabled DEF CommittedRetired
  <2>3. /\ DOMAIN directive_emitters = markers /\ enabled_markers \subseteq markers
        /\ IdsOf(markers) = Ids \ DOMAIN code /\ DOMAIN code \subseteq Ids
    BY DEF enabled_markers, Emitting, Inductive, TypeOK, Consistent
  <2>4. gone = IdsOf(markers) \ IdsOf(enabled_markers)
    BY <2>3 DEF IdsOf, Inductive, Consistent
  <2>5. DOMAIN code' = Ids \ LiveSites
    BY <2>1, <2>2, <2>3, <2>4
  <2>6. ASSUME NEW i \in Ids PROVE InForce(i)' = InForce(i)
    <3>1. CASE i \notin LiveSites
      <4>1. i \in DOMAIN text /\ text[i] = InForce(i)
        BY <2>1, <2>5, <3>1
      <4> QED BY <2>1, <4>1 DEF InForce
    <3>2. CASE i \in LiveSites
      <4>1. i \notin DOMAIN code /\ i \notin DOMAIN code'
        BY <2>2, <2>5, <3>2
      <4>2. PICK m \in enabled_markers : m.id = i
        BY <2>2, <3>2 DEF IdsOf
      <4>3. MarkerOf(i) = m /\ MarkerOf(i)' = m
        BY <2>1, <2>3, <4>2, UniqueMarker DEF MarkerOf, Inductive, Consistent
      <4>4. directive_emitters[m] = EnableEmitter(marker_strategy)
        BY <2>3 DEF enabled_markers, Emitting, Inductive, TypeOK, Consistent, Emitter,
                    EnableEmitter, RetiredKinds
      <4>5. em[m] = EnableEmitter(marker_strategy)
        OBVIOUS
      <4> HIDE DEF em, text
      <4> QED BY <2>1, <4>1, <4>3, <4>4, <4>5 DEF InForce
    <3> QED BY <3>1, <3>2
  <2> QED BY <2>5, <2>6 DEF SitesCommit, SiteStep
<1> QED BY <1>1, <1>2
(* Every operation retires live sites, rebounds sites or commits.          *)
LEMMA StepSites ==
    ASSUME Inductive, CommittedRetired, [Next]_vars
    PROVE  SiteStep
<1> USE EmittersAreEmitters
<1>1. ASSUME NEW ms \in Arguments, disable_markers(ms) PROVE SiteStep
  BY <1>1, RetireSites DEF disable_markers
<1>2. ASSUME NEW ms \in Arguments, make_markers_unreachable(ms) PROVE SiteStep
  BY <1>2, RetireSites DEF make_markers_unreachable
<1>3. ASSUME NEW ms \in Arguments, make_markers_aborted(ms) PROVE SiteStep
  BY <1>3, RetireSites DEF make_markers_aborted
<1>4. ASSUME NEW ms \in Arguments, disable_remaining_markers(ms) PROVE SiteStep
  <2> DEFINE S == (enabled_markers \ ms) \ disabled_markers
  <2>1. S \in SUBSET enabled_markers /\ WithEmitters(Assigning(S, DisableEmitter))
    BY <1>4 DEF disable_remaining_markers
  <2> HIDE DEF S
  <2> QED BY <2>1, RetiringSites
<1>5. ASSUME NEW ms \in Arguments, replace_markers(ms) PROVE SiteStep
  BY <1>5, ReplacingSites, ArgumentsAssumption DEF replace_markers, SiteStep
<1>6. CASE generate_tracking_program
  BY <1>6, RetiringSites DEF generate_tracking_program
<1>7. CASE generate_tracking_program_for_refinement
  BY <1>7, RetiringSites DEF generate_tracking_program_for_refinement
<1>8. CASE preprocess_disabled_and_unreachable_markers
  BY <1>8, PreprocessSites
<1>9. ASSUME NEW s \in Strategies, with_marker_strategy(s) PROVE SiteStep
  BY <1>9, StrategySites DEF SiteStep
<1>10. ASSUME NEW run \in Runs, track_reachable_markers(run) PROVE SiteStep
  BY <1>10, SameProgramSameSites DEF track_reachable_markers, SiteStep
<1>11. ASSUME NEW run \in Runs, refine_markers_with_runtime_information(run)
       PROVE  SiteStep
  <2> DEFINE printing == {m \in enabled_markers :
                            m.id \in VRIds /\ TrackedOutput(run, m) # {}}
             refined == {ParseTrackedOutput(m, TrackedOutput(run, m)) : m \in printing}
             reply == [kind |-> "refined", run |-> run, markers |-> refined]
  <2>1. enabled_markers \subseteq Marker
    BY DEF enabled_markers, Emitting, Inductive, TypeOK
  <2>2. refined \in SUBSET Marker /\ Replacing(refined, reply)
    BY <1>11, <2>1, RefinedMarker DEF refine_markers_with_runtime_information
  <2> HIDE DEF refined, reply
  <2> QED BY <2>2, ReplacingSites DEF SiteStep
<1>12. CASE Compile
  BY <1>12, SameProgramSameSites
     DEF Compile, find_eliminated_markers, Raise, SiteStep
<1>13. CASE UNCHANGED vars
  BY <1>13, SameProgramSameSites DEF vars, SiteStep
<1> QED BY <1>1, <1>2, <1>3, <1>4, <1>5, <1>6, <1>7, <1>8, <1>9, <1>10, <1>11,
           <1>12, <1>13 DEF Next

(* What site steps do to the code and to sites that are not live.          *)
LEMMA SiteStepKeepsCode ==
    ASSUME Inductive, Inductive', CommittedRetired, SiteStep
    PROVE  /\ DOMAIN code \subseteq DOMAIN code'
           /\ \A i \in DOMAIN code : code'[i] = code[i]
           /\ CommittedRetired'
           /\ \A i \in Ids \ LiveSites : InForce(i)'.emitter = InForce(i).emitter
<1>1. /\ DOMAIN code \subseteq Ids /\ DOMAIN code' \subseteq Ids
      /\ LiveSites \cap DOMAIN code = {}
  BY LiveAreEnabled DEF CommittedRetired, Inductive, TypeOK
<1>2. /\ \A i \in DOMAIN code : InForce(i) = code[i]
      /\ \A i \in DOMAIN code' : InForce(i)' = code'[i]
  BY DEF InForce
<1>3. /\ \A i \in DOMAIN code : code[i] \in Expansion
      /\ \A i \in DOMAIN code' : code'[i] \in Expansion
      /\ \A x, y \in Expansion : x.emitter = y.emitter /\ x.marker = y.marker => x = y
  BY DEF Inductive, TypeOK, Expansion
<1>4. ASSUME NEW S \in SUBSET Ids, NEW e \in Emitter, SitesRetire(S, e)
      PROVE  /\ DOMAIN code' = DOMAIN code
             /\ \A i \in DOMAIN code : code'[i] = code[i]
             /\ \A i \in Ids \ LiveSites : InForce(i)'.emitter = InForce(i).emitter
  <2>1. /\ DOMAIN code' = DOMAIN code
        /\ \A i \in Ids \ LiveSites : /\ InForce(i)'.emitter = InForce(i).emitter
                                      /\ InForce(i)'.marker = InForce(i).marker
    BY <1>4 DEF SitesRetire
  <2>2. \A i \in DOMAIN code : code'[i] = code[i]
    BY <1>1, <1>2, <1>3, <2>1
  <2> QED BY <2>1, <2>2
<1>5. CASE \E S \in SUBSET Ids, e \in Emitter : SitesRetire(S, e)
  BY <1>4, <1>5 DEF CommittedRetired
<1>6. CASE SitesRebound
  BY <1>6 DEF SitesRebound, CommittedRetired
<1>7. CASE SitesCommit
  <2>1. /\ DOMAIN code' = Ids \ LiveSites
        /\ \A i \in Ids : InForce(i)' = InForce(i)
    BY <1>7 DEF SitesCommit
  <2>2. \A i \in DOMAIN code' : code'[i] = InForce(i)
    BY <1>1, <1>2, <2>1
  <2>3. \A i \in Ids \ LiveSites : InForce(i).emitter.kind # "Enable"
    BY DEF LiveSites
  <2> QED BY <1>1, <1>2, <2>1, <2>2, <2>3 DEF CommittedRetired
<1> QED BY <1>5, <1>6, <1>7 DEF SiteStep

(* A site whose expansion is part of the code is never enabled again.      *)
LEMMA CommittedStayRetired == Spec => []CommittedRetired
<1>1. Init => CommittedRetired
  BY DEF Init, CommittedRetired
<1>2. Inductive /\ Inductive' /\ CommittedRetired /\ [Next]_vars => CommittedRetired'
  BY StepSites, SiteStepKeepsCode
<1> QED BY <1>1, <1>2, Invariance, PTL DEF Spec

(* Once retired, a site stays as it is, and the code keeps what            *)
(* preprocessing put there.                                                *)
THEOREM IrrevocableSteps == Spec => Irrevocable
<1> DEFINE Kept ==
      \A i \in Ids :
         /\ InForce(i).emitter.kind # "Enable" => InForce(i)'.emitter = InForce(i).emitter
         /\ i \in DOMAIN code => i \in DOMAIN code' /\ code'[i] = code[i]
<1>1. Inductive /\ Inductive' /\ CommittedRetired /\ [Next]_vars => Kept
  BY StepSites, SiteStepKeepsCode DEF LiveSites
<1>2. Inductive /\ Inductive' /\ CommittedRetired /\ [Next]_vars => [Kept]_vars
  BY <1>1
<1> HIDE DEF Kept
<1>3. Spec => [][Kept]_vars
  BY <1>2, Invariance, CommittedStayRetired, PTL DEF Spec
<1> QED BY <1>3 DEF Irrevocable, Kept
(* The sites of an initial program are live and guard the range 0..0.      *)
LEMMA LifecycleInit ==
    ASSUME Inductive, Init
    PROVE  Lifecycle!Init
<1>1. \A m \in markers : m.lower_bound = 0 /\ m.upper_bound = 0
  BY DEF Init, DCEMarkers, DCEMarker, VRMarker
<1>2. DOMAIN code = {}
  BY DEF Init
<1>3. \A i \in Ids : /\ MarkerOf(i) \in markers
                    /\ InForce(i) = [emitter |-> directive_emitters[MarkerOf(i)],
                                     marker |-> MarkerOf(i)]
  BY <1>2, InForceType DEF InForce
<1>4. \A i \in Ids : InForce(i).emitter.kind = "Enable" /\ RangeOf(i) = <<0, 0>>
  <2> SUFFICES ASSUME NEW i \in Ids
               PROVE  InForce(i).emitter.kind = "Enable" /\ RangeOf(i) = <<0, 0>>
    OBVIOUS
  <2>1. /\ MarkerOf(i) \in markers
        /\ InForce(i).emitter = directive_emitters[MarkerOf(i)]
        /\ InForce(i).marker = MarkerOf(i)
    BY <1>3
  <2>2. \A m \in markers : directive_emitters[m].kind = "Enable"
    BY EmittersAreEmitters, StrategiesAssumption DEF Init
  <2> QED BY <1>1, <2>1, <2>2 DEF RangeOf
<1> QED BY <1>2, <1>4 DEF Lifecycle!Init

(* Every step is one the abstract specification allows.                    *)
LEMMA LifecycleNext ==
    ASSUME Inductive, Inductive', CommittedRetired, SiteStep
    PROVE  Lifecycle!Next
<1> DEFINE kind(i) == InForce(i).emitter.kind
<1>1. LiveSites = Lifecycle!Live
  BY DEF LiveSites, Lifecycle!Live
<1>2. \A i \in Ids : InForce(i)' \in Expansion
  <2>1. ASSUME NEW i \in Ids PROVE InForce(i)' \in Expansion
    <3>1. CASE i \in DOMAIN code'
      BY <3>1 DEF InForce, Inductive, TypeOK
    <3>2. CASE i \notin DOMAIN code'
      <4>1. MarkerOf(i)' \in markers'
        BY <3>2, ChosenMarker DEF Inductive, Consistent, MarkerOf
      <4> QED BY <3>2, <4>1 DEF InForce, Inductive, TypeOK, Consistent, Expansion
    <3> QED BY <3>1, <3>2
  <2> QED BY <2>1
<1>3. \A i \in Ids : RangeOf(i)' \in Values \X Values
  BY <1>2, MarkerFields DEF RangeOf, Expansion
<1>4. ASSUME NEW S \in SUBSET Ids, NEW e \in Emitter, SitesRetire(S, e)
      PROVE  Lifecycle!Retire(S, e.kind) /\ e.kind \in RetiredKinds
  <2>1. /\ S \subseteq LiveSites /\ DOMAIN code' = DOMAIN code /\ e.kind \in RetiredKinds
        /\ \A i \in Ids : /\ kind(i)' = IF i \in S THEN e.kind ELSE kind(i)
                          /\ RangeOf(i)' = RangeOf(i)
    BY <1>4 DEF SitesRetire, RangeOf
  <2> HIDE DEF kind
  <2>2. [i \in Ids |-> kind(i)'] = [i \in Ids |-> IF i \in S THEN e.kind ELSE kind(i)]
    BY <2>1
  <2>3. \A i \in Ids : [j \in Ids |-> kind(j)][i] = kind(i)
    OBVIOUS
  <2> USE DEF kind
  <2> QED BY <1>1, <2>1, <2>2, <2>3 DEF Lifecycle!Retire
<1>5. CASE SitesRebound
  <2>1. /\ code' = code
        /\ \A i \in Ids : kind(i)' = kind(i)
    BY <1>5 DEF SitesRebound
  <2>2. \A i \in DOMAIN code : RangeOf(i)' = RangeOf(i)
    BY <2>1 DEF RangeOf, InForce
  <2>3. DOMAIN code \subseteq Ids
    BY DEF Inductive, TypeOK
  <2> QED BY <1>3, <2>1, <2>2, <2>3 DEF Lifecycle!Rebound, Lifecycle!Next
<1>6. CASE SitesCommit
  <2>1. /\ DOMAIN code' = Ids \ LiveSites
        /\ \A i \in Ids : kind(i)' = kind(i) /\ RangeOf(i)' = RangeOf(i)
    BY <1>6 DEF SitesCommit, RangeOf
  <2> QED BY <1>1, <2>1 DEF Lifecycle!Commit, Lifecycle!Next
<1>7. CASE \E S \in SUBSET Ids, e \in Emitter : SitesRetire(S, e)
  BY <1>4, <1>7 DEF Lifecycle!Next
<1> QED BY <1>5, <1>6, <1>7 DEF SiteStep

(* InstrumentedProgram implements SiteLifecycle.                           *)
THEOREM ImplementsLifecycle == Spec => LifecycleSpec
<1>1. Inductive /\ Init => Lifecycle!Init
  BY LifecycleInit
<1>2. Inductive /\ Inductive' /\ CommittedRetired /\ [Next]_vars
        => [Lifecycle!Next]_(Lifecycle!vars)
  BY StepSites, LifecycleNext
<1> QED BY <1>1, <1>2, InitGood, Invariance, CommittedStayRetired, PTL
        DEF Spec, LifecycleSpec, Lifecycle!Spec
=============================================================================
