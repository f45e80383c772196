------------------------- MODULE TrackingCodeProofs -------------------------
(***************************************************************************)
(* Proofs about TrackingCode, for any number of processes, threads and     *)
(* values: its types, what it keeps when calls overlap, its refined range  *)
(* when they do not, and that it implements TrackedRanges.                 *)
(***************************************************************************)
EXTENDS TrackingCode, TLAPS

-----------------------------------------------------------------------------
(* Type correctness                                                        *)

LEMMA InitTypeOK == Init => TypeOK
<1> SUFFICES ASSUME Init PROVE TypeOK
  OBVIOUS
<1>1. takes_turns \in BOOLEAN /\ raised \in BOOLEAN
  BY DEF Init
<1>2. /\ ENCOUNTERED \in [Processes -> {0, 1}]
      /\ LB \in [Processes -> Values]
      /\ UB \in [Processes -> Values]
      /\ v \in [Processes -> [Threads -> Values]]
  BY ValuesAssumption DEF Init, Everywhere
<1>3. /\ pc \in [Processes -> [Threads -> Statements]]
      /\ status \in [Processes -> {"unborn", "running", "exiting", "exited", "killed"}]
      /\ seen \in [Processes -> SUBSET Values]
  BY DEF Init, Everywhere, Statements
<1> QED
  BY <1>1, <1>2, <1>3 DEF Init, TypeOK

LEMMA CallTypeOK ==
    ASSUME TypeOK, NEW p \in Processes, NEW t \in Threads, call(p, t) \/ track(p, t)
    PROVE  TypeOK'
<1> USE DEF TypeOK, Statements, At, Goto, Return, memory, elsewhere
<1>1. CASE call(p, t)
  BY <1>1 DEF call
<1>2. CASE first_lb(p, t)
  BY <1>2 DEF first_lb
<1>3. CASE first_ub(p, t)
  BY <1>3 DEF first_ub
<1>4. CASE first_encountered(p, t)
  BY <1>4 DEF first_encountered
<1>5. CASE test_lb(p, t)
  BY <1>5 DEF test_lb
<1>6. CASE set_lb(p, t)
  BY <1>6 DEF set_lb
<1>7. CASE test_ub(p, t)
  <2>1. UNCHANGED <<ENCOUNTERED, LB, UB, v, status, takes_turns, output, raised, refined>>
    BY <1>7 DEF test_ub
  <2>2. pc' \in [Processes -> [Threads -> Statements]]
    <3>1. CASE Goto(p, t, "set_ub")
      BY <3>1
    <3>2. CASE Goto(p, t, "idle")
      BY <3>2
    <3> QED
      BY <1>7, <3>1, <3>2 DEF test_ub
  <2>3. seen' \in [Processes -> SUBSET Values]
    <3>1. UNCHANGED seen \/ Return(p, t)
      BY <1>7 DEF test_ub
    <3>2. CASE UNCHANGED seen
      BY <3>2
    <3>3. CASE Return(p, t)
      BY <3>3
    <3> QED
      BY <3>1, <3>2, <3>3
  <2> QED
    BY <2>1, <2>2, <2>3
<1>8. CASE set_ub(p, t)
  BY <1>8 DEF set_ub
<1> QED
  BY <1>1, <1>2, <1>3, <1>4, <1>5, <1>6, <1>7, <1>8 DEF track

LEMMA NextTypeOK == TypeOK /\ [Next]_vars => TypeOK'
<1> SUFFICES ASSUME TypeOK, [Next]_vars PROVE TypeOK'
  OBVIOUS
<1>1. ASSUME NEW p \in Processes, NEW t \in Threads, call(p, t) \/ track(p, t)
      PROVE  TypeOK'
  BY <1>1, CallTypeOK
<1>2. ASSUME NEW p \in Processes, NEW q \in Processes, NEW t \in Threads, fork(p, t, q)
      PROVE  TypeOK'
  BY <1>2 DEF fork, TypeOK, Statements, At, elsewhere
<1>3. ASSUME NEW p \in Processes, exit(p) PROVE TypeOK'
  BY <1>3 DEF exit, TypeOK, memory, elsewhere
<1>4. ASSUME NEW p \in Processes, kill(p) PROVE TypeOK'
  BY <1>4 DEF kill, TypeOK, memory, elsewhere
<1>5. ASSUME NEW p \in Processes, print(p) PROVE TypeOK'
  BY <1>5 DEF print, TypeOK, memory, Range
<1>6. CASE run_raises
  BY <1>6, ProcessesAssumption DEF run_raises, TypeOK, memory
<1>7. CASE refine
  BY <1>7 DEF refine, TypeOK, memory, Range
<1>8. CASE UNCHANGED vars
  BY <1>8 DEF vars, memory, elsewhere, TypeOK
<1> QED
  BY <1>1, <1>2, <1>3, <1>4, <1>5, <1>6, <1>7, <1>8 DEF Next

(* The globals and the printed bounds are always values of the variable's  *)
(* type, for any number of threads.                                        *)
THEOREM TypeCorrect == Spec => []TypeOK
BY InitTypeOK, NextTypeOK, PTL DEF Spec

-----------------------------------------------------------------------------
(* A statement of track_<name> touches the process it runs in only, and a  *)
(* running process has neither printed nor been counted.                   *)

Local(p, t) ==
    /\ status[p] = "running"
    /\ UNCHANGED <<status, elsewhere>>
    /\ \A q \in Processes \ {p} :
          /\ ENCOUNTERED'[q] = ENCOUNTERED[q] /\ LB'[q] = LB[q] /\ UB'[q] = UB[q]
          /\ pc'[q] = pc[q] /\ v'[q] = v[q] /\ seen'[q] = seen[q]

LEMMA CallIsLocal ==
    ASSUME TypeOK, NEW p \in Processes, NEW t \in Threads, call(p, t) \/ track(p, t)
    PROVE  Local(p, t)
<1> USE DEF TypeOK, At, Goto, Return, memory, elsewhere, Local
<1>1. CASE call(p, t)
  BY <1>1 DEF call
<1>2. CASE first_lb(p, t)
  BY <1>2 DEF first_lb
<1>3. CASE first_ub(p, t)
  BY <1>3 DEF first_ub
<1>4. CASE first_encountered(p, t)
  BY <1>4 DEF first_encountered
<1>5. CASE test_lb(p, t)
  BY <1>5 DEF test_lb
<1>6. CASE set_lb(p, t)
  BY <1>6 DEF set_lb
<1>7. CASE test_ub(p, t)
  BY <1>7 DEF test_ub
<1>8. CASE set_ub(p, t)
  BY <1>8 DEF set_ub
<1> QED
  BY <1>1, <1>2, <1>3, <1>4, <1>5, <1>6, <1>7, <1>8 DEF track

-----------------------------------------------------------------------------
(* Any number of threads                                                   *)

UnbornOK ==
    \A p \in Processes : status[p] = "unborn" =>
        seen[p] = {} /\ \A t \in Threads : pc[p][t] = "idle"

(* A global that may be printed or widened holds an argument of a call.    *)
GlobalsOK ==
    \A p \in Processes :
        /\ ENCOUNTERED[p] = 1 => LB[p] \in Encountered /\ UB[p] \in Encountered
        /\ \A t \in Threads :
              /\ pc[p][t] \in {"first_ub", "first_encountered"} => LB[p] \in Encountered
              /\ pc[p][t] = "first_encountered" => UB[p] \in Encountered

PrintedOK == \A l \in output : l.lb \in Encountered /\ l.ub \in Encountered

ThreadsInv == TypeOK /\ UnbornOK /\ GlobalsOK /\ PrintedOK /\ BoundsEncountered

LEMMA EncounteredMember ==
    \A x : x \in Encountered <=>
        \E p \in Processes :
            \/ x \in seen[p]
            \/ \E t \in Threads : pc[p][t] \notin {"idle", "gone"} /\ x = v[p][t]
<1>1. \A x, p : x \in Arguments(p) <=>
         \/ x \in seen[p]
         \/ \E t \in Threads : pc[p][t] \notin {"idle", "gone"} /\ x = v[p][t]
  BY DEF Arguments
<1>2. \A x : x \in Encountered <=> \E p \in Processes : x \in Arguments(p)
  BY DEF Encountered
<1> QED
  BY <1>1, <1>2

LEMMA EncounteredMemberNext ==
    \A x : x \in Encountered' <=>
        \E p \in Processes :
            \/ x \in seen'[p]
            \/ \E t \in Threads : pc'[p][t] \notin {"idle", "gone"} /\ x = v'[p][t]
<1>1. \A x : \A p \in Processes : x \in Arguments(p)' <=>
         \/ x \in seen'[p]
         \/ \E t \in Threads : pc'[p][t] \notin {"idle", "gone"} /\ x = v'[p][t]
  BY DEF Arguments
<1>2. \A x : x \in Encountered' <=> \E p \in Processes : x \in Arguments(p)'
  BY DEF Encountered
<1> QED
  BY <1>1, <1>2

(* A statement ends or continues its call, whose argument it keeps.        *)
LEMMA ArgumentsKept ==
    ASSUME TypeOK, NEW p \in Processes, NEW t \in Threads, call(p, t) \/ track(p, t)
    PROVE  /\ \A q \in Processes, u \in Threads :
                 <<q, u>> # <<p, t>> => pc'[q][u] = pc[q][u] /\ v'[q][u] = v[q][u]
           /\ \A q \in Processes : seen[q] \subseteq seen'[q]
           /\ call(p, t) => pc[p][t] = "idle"
           /\ track(p, t) => /\ v'[p][t] = v[p][t]
                             /\ pc'[p][t] = "idle" => v[p][t] \in seen'[p]
                             /\ pc'[p][t] # "gone"
<1> USE DEF TypeOK, At, Goto, Return
<1>1. CASE call(p, t)
  <2>1. ~track(p, t)
    BY <1>1 DEF call, track, first_lb, first_ub, first_encountered, test_lb, set_lb,
       test_ub, set_ub
  <2> QED
    BY <1>1, <2>1 DEF call
<1>2. CASE track(p, t)
  <2>1. ~call(p, t)
    BY <1>2 DEF call, track, first_lb, first_ub, first_encountered, test_lb, set_lb,
       test_ub, set_ub
  <2>2. CASE first_lb(p, t)
    BY <2>1, <2>2 DEF first_lb
  <2>3. CASE first_ub(p, t)
    BY <2>1, <2>3 DEF first_ub
  <2>4. CASE first_encountered(p, t)
    BY <2>1, <2>4 DEF first_encountered
  <2>5. CASE test_lb(p, t)
    BY <2>1, <2>5 DEF test_lb
  <2>6. CASE set_lb(p, t)
    BY <2>1, <2>6 DEF set_lb
  <2>7. CASE test_ub(p, t)
    <3>1. v' = v /\ pc[p][t] = "test_ub"
      BY <2>7 DEF test_ub
    <3>2. CASE Goto(p, t, "set_ub") /\ UNCHANGED seen
      BY <2>1, <3>1, <3>2
    <3>3. CASE Return(p, t)
      BY <2>1, <3>1, <3>3
    <3> QED
      BY <2>7, <3>2, <3>3 DEF test_ub
  <2>8. CASE set_ub(p, t)
    BY <2>1, <2>8 DEF set_ub
  <2> QED
    BY <1>2, <2>2, <2>3, <2>4, <2>5, <2>6, <2>7, <2>8 DEF track
<1> QED
  BY <1>1, <1>2

(* What has been encountered stays so.                                     *)
LEMMA EncounteredGrows ==
    ASSUME TypeOK, UnbornOK, [Next]_vars
    PROVE  Encountered \subseteq Encountered'
<1> SUFFICES ASSUME NEW x \in Encountered PROVE x \in Encountered'
  OBVIOUS
<1>1. PICK q \in Processes :
         \/ x \in seen[q]
         \/ \E u \in Threads : pc[q][u] \notin {"idle", "gone"} /\ x = v[q][u]
  BY EncounteredMember
<1>2. ASSUME UNCHANGED <<pc, v, seen>> PROVE x \in Encountered'
  BY <1>2 DEF Encountered, Arguments
<1>3. ASSUME NEW p \in Processes, NEW t \in Threads, call(p, t) \/ track(p, t)
      PROVE  x \in Encountered'
  <2>1. CASE x \in seen[q]
    BY <1>3, <2>1, ArgumentsKept, EncounteredMemberNext
  <2>2. CASE x \notin seen[q]
    <3>1. PICK u \in Threads : pc[q][u] \notin {"idle", "gone"} /\ x = v[q][u]
      BY <1>1, <2>2
    <3>2. CASE <<q, u>> # <<p, t>>
      BY <1>3, <3>1, <3>2, ArgumentsKept, EncounteredMemberNext
    <3>3. CASE <<q, u>> = <<p, t>>
      <4>1. /\ v'[p][t] = x
            /\ pc'[p][t] = "idle" => x \in seen'[p]
            /\ pc'[p][t] # "gone"
        BY <1>3, <3>1, <3>3, ArgumentsKept
      <4> QED
        BY <4>1, EncounteredMemberNext
    <3> QED
      BY <3>2, <3>3
  <2> QED
    BY <2>1, <2>2
<1>4. ASSUME NEW p \in Processes, NEW o \in Processes, NEW t \in Threads, fork(p, t, o)
      PROVE  x \in Encountered'
  <2>1. o # q
    BY <1>1, <1>4 DEF fork, UnbornOK
  <2>2. pc'[q] = pc[q] /\ v'[q] = v[q] /\ seen'[q] = seen[q]
    BY <1>4, <2>1 DEF fork, TypeOK
  <2> QED
    BY <1>1, <2>2, EncounteredMemberNext
<1>5. ASSUME NEW p \in Processes, exit(p) \/ kill(p) \/ print(p) PROVE x \in Encountered'
  BY <1>2, <1>5 DEF exit, kill, print
<1>6. CASE run_raises \/ refine \/ UNCHANGED vars
  BY <1>2, <1>6 DEF run_raises, refine, vars
<1> QED
  BY <1>3, <1>4, <1>5, <1>6 DEF Next

LEMMA CallThreads ==
    ASSUME ThreadsInv, NEW p \in Processes, NEW t \in Threads, call(p, t) \/ track(p, t),
           TypeOK', Encountered \subseteq Encountered'
    PROVE  UnbornOK' /\ GlobalsOK'
<1>1. TypeOK /\ UnbornOK /\ GlobalsOK
  BY DEF ThreadsInv
<1>2. Local(p, t)
  BY <1>1, CallIsLocal
<1>3. UnbornOK'
  BY <1>1, <1>2 DEF Local, UnbornOK
<1>4. \A u \in Threads \ {t} : pc'[p][u] = pc[p][u]
  BY <1>1, ArgumentsKept
<1>5. pc[p][t] \notin {"idle", "gone"} => v[p][t] \in Encountered'
  BY EncounteredMember
<1>6. LB'[p] \in {LB[p], v[p][t]} /\ UB'[p] \in {UB[p], v[p][t]}
      /\ (LB'[p] # LB[p] \/ UB'[p] # UB[p] => pc[p][t] \notin {"idle", "gone"})
  <2> USE <1>1 DEF TypeOK, At, memory
  <2>1. CASE call(p, t)
    BY <2>1 DEF call
  <2>2. CASE first_lb(p, t)
    BY <2>2 DEF first_lb
  <2>3. CASE first_ub(p, t)
    BY <2>3 DEF first_ub
  <2>4. CASE first_encountered(p, t)
    BY <2>4 DEF first_encountered
  <2>5. CASE test_lb(p, t)
    BY <2>5 DEF test_lb
  <2>6. CASE set_lb(p, t)
    BY <2>6 DEF set_lb
  <2>7. CASE test_ub(p, t)
    BY <2>7 DEF test_ub
  <2>8. CASE set_ub(p, t)
    BY <2>8 DEF set_ub
  <2> QED
    BY <2>1, <2>2, <2>3, <2>4, <2>5, <2>6, <2>7, <2>8 DEF track
<1>7. /\ LB[p] \in Encountered => LB'[p] \in Encountered'
      /\ UB[p] \in Encountered => UB'[p] \in Encountered'
  BY <1>5, <1>6
<1>8. /\ pc'[p][t] = "first_ub" => LB'[p] \in Encountered'
      /\ pc'[p][t] = "first_encountered" => LB'[p] \in Encountered' /\ UB'[p] \in Encountered'
      /\ ENCOUNTERED'[p] = 1 => LB'[p] \in Encountered' /\ UB'[p] \in Encountered'
  <2> USE <1>1 DEF TypeOK, At, Goto, Return, memory
  <2>1. CASE call(p, t)
    <3>1. /\ pc'[p][t] \in {"first_lb", "test_lb"} /\ ENCOUNTERED'[p] = ENCOUNTERED[p]
      BY <2>1 DEF call
    <3> QED
      BY <1>7, <3>1 DEF GlobalsOK
  <2>2. CASE first_lb(p, t)
    <3>1. /\ pc[p][t] = "first_lb" /\ pc'[p][t] = "first_ub" /\ LB'[p] = v[p][t]
          /\ ENCOUNTERED'[p] = ENCOUNTERED[p]
      BY <2>2 DEF first_lb
    <3> QED
      BY <1>5, <1>7, <3>1 DEF GlobalsOK
  <2>3. CASE first_ub(p, t)
    <3>1. /\ pc[p][t] = "first_ub" /\ pc'[p][t] = "first_encountered" /\ UB'[p] = v[p][t]
          /\ ENCOUNTERED'[p] = ENCOUNTERED[p]
      BY <2>3 DEF first_ub
    <3> QED
      BY <1>5, <1>7, <3>1 DEF GlobalsOK
  <2>4. CASE first_encountered(p, t)
    <3>1. pc[p][t] = "first_encountered" /\ pc'[p][t] = "idle"
      BY <2>4 DEF first_encountered
    <3> QED
      BY <1>7, <3>1 DEF GlobalsOK
  <2>5. CASE test_lb(p, t) \/ set_lb(p, t)
    <3>1. pc'[p][t] \in {"set_lb", "test_ub"} /\ ENCOUNTERED'[p] = ENCOUNTERED[p]
      BY <2>5 DEF test_lb, set_lb
    <3> QED
      BY <1>7, <3>1 DEF GlobalsOK
  <2>6. CASE test_ub(p, t) \/ set_ub(p, t)
    <3>1. pc'[p][t] \in {"idle", "set_ub"} /\ ENCOUNTERED'[p] = ENCOUNTERED[p]
      BY <2>6 DEF test_ub, set_ub
    <3> QED
      BY <1>7, <3>1 DEF GlobalsOK
  <2> QED
    BY <2>1, <2>2, <2>3, <2>4, <2>5, <2>6 DEF track
<1>9. GlobalsOK'
  <2> SUFFICES ASSUME NEW q \in Processes, NEW u \in Threads
               PROVE  /\ ENCOUNTERED'[q] = 1 => LB'[q] \in Encountered' /\ UB'[q] \in Encountered'
                      /\ pc'[q][u] \in {"first_ub", "first_encountered"} =>
                            LB'[q] \in Encountered'
                      /\ pc'[q][u] = "first_encountered" => UB'[q] \in Encountered'
    BY DEF GlobalsOK
  <2>1. CASE q # p
    BY <1>1, <1>2, <2>1 DEF Local, GlobalsOK
  <2>2. CASE q = p /\ u = t
    BY <1>8, <2>2
  <2>3. CASE q = p /\ u # t
    BY <1>1, <1>4, <1>7, <1>8, <2>3 DEF GlobalsOK
  <2> QED
    BY <2>1, <2>2, <2>3
<1> QED
  BY <1>3, <1>9

LEMMA ForkThreads ==
    ASSUME ThreadsInv, NEW p \in Processes, NEW q \in Processes, NEW t \in Threads,
           fork(p, t, q), Encountered \subseteq Encountered'
    PROVE  UnbornOK' /\ GlobalsOK'
<1>1. TypeOK /\ UnbornOK /\ GlobalsOK /\ status'[q] = "running" /\ q # p
  BY DEF ThreadsInv, TypeOK, fork, At
<1>2. /\ ENCOUNTERED'[q] = ENCOUNTERED[p] /\ LB'[q] = LB[p] /\ UB'[q] = UB[p]
      /\ \A u \in Threads : pc'[q][u] \in {"idle", "gone"}
  BY <1>1 DEF fork, TypeOK
<1>3. \A o \in Processes \ {q} :
         /\ ENCOUNTERED'[o] = ENCOUNTERED[o] /\ LB'[o] = LB[o] /\ UB'[o] = UB[o]
         /\ pc'[o] = pc[o] /\ seen'[o] = seen[o] /\ status'[o] = status[o]
  BY <1>1 DEF fork, TypeOK
<1>4. UnbornOK'
  BY <1>1, <1>3 DEF UnbornOK
<1>5. GlobalsOK'
  <2> SUFFICES ASSUME NEW o \in Processes, NEW u \in Threads
               PROVE  /\ ENCOUNTERED'[o] = 1 => LB'[o] \in Encountered' /\ UB'[o] \in Encountered'
                      /\ pc'[o][u] \in {"first_ub", "first_encountered"} =>
                            LB'[o] \in Encountered'
                      /\ pc'[o][u] = "first_encountered" => UB'[o] \in Encountered'
    BY DEF GlobalsOK
  <2>1. CASE o = q
    BY <1>1, <1>2, <2>1 DEF GlobalsOK
  <2>2. CASE o # q
    BY <1>1, <1>3, <2>2 DEF GlobalsOK
  <2> QED
    BY <2>1, <2>2
<1> QED
  BY <1>4, <1>5

LEMMA NextThreads == ThreadsInv /\ [Next]_vars => ThreadsInv'
<1> SUFFICES ASSUME ThreadsInv, [Next]_vars PROVE ThreadsInv'
  OBVIOUS
<1>1. TypeOK' /\ Encountered \subseteq Encountered'
  BY NextTypeOK, EncounteredGrows DEF ThreadsInv
<1>2. ASSUME UNCHANGED <<output, refined>> PROVE PrintedOK' /\ BoundsEncountered'
  BY <1>1, <1>2 DEF ThreadsInv, PrintedOK, BoundsEncountered
<1>3. ASSUME UNCHANGED <<ENCOUNTERED, LB, UB, pc, seen>>,
             \A p \in Processes : status'[p] = "unborn" => status[p] = "unborn"
      PROVE  UnbornOK' /\ GlobalsOK'
  BY <1>1, <1>3 DEF ThreadsInv, UnbornOK, GlobalsOK
<1>4. ASSUME NEW p \in Processes, NEW t \in Threads, call(p, t) \/ track(p, t)
      PROVE  ThreadsInv'
  <2>1. UNCHANGED <<output, refined>>
    BY <1>4, CallIsLocal DEF ThreadsInv, Local, elsewhere
  <2> QED
    BY <1>1, <1>2, <1>4, <2>1, CallThreads DEF ThreadsInv
<1>5. ASSUME NEW p \in Processes, NEW q \in Processes, NEW t \in Threads, fork(p, t, q)
      PROVE  ThreadsInv'
  <2>1. UNCHANGED <<output, refined>>
    BY <1>5 DEF fork, elsewhere
  <2> QED
    BY <1>1, <1>2, <1>5, <2>1, ForkThreads DEF ThreadsInv
<1>6. ASSUME NEW p \in Processes, exit(p) \/ kill(p) \/ print(p)
      PROVE  ThreadsInv'
  <2>1. /\ UNCHANGED <<ENCOUNTERED, LB, UB, pc, seen, refined>>
        /\ \A q \in Processes : status'[q] = "unborn" => status[q] = "unborn"
    BY <1>6 DEF exit, kill, print, memory, elsewhere, ThreadsInv, TypeOK
  <2>2. UnbornOK' /\ GlobalsOK'
    BY <1>3, <2>1
  <2>3. \A l \in output' : l \in output \/ (ENCOUNTERED[p] = 1 /\ l.lb = LB[p] /\ l.ub = UB[p])
    BY <1>6 DEF exit, kill, print, elsewhere
  <2>4. PrintedOK' /\ BoundsEncountered'
    BY <1>1, <2>1, <2>3 DEF ThreadsInv, PrintedOK, BoundsEncountered, GlobalsOK
  <2> QED
    BY <1>1, <2>2, <2>4 DEF ThreadsInv
<1>7. CASE refine
  <2>1. UNCHANGED <<ENCOUNTERED, LB, UB, pc, status, seen, output>>
    BY <1>7 DEF refine, memory
  <2>2. UnbornOK' /\ GlobalsOK'
    BY <1>3, <2>1
  <2>3. PrintedOK'
    BY <1>1, <2>1 DEF ThreadsInv, PrintedOK
  <2>4. BoundsEncountered'
    BY <1>1, <1>7 DEF refine, ThreadsInv, PrintedOK, BoundsEncountered
  <2> QED
    BY <1>1, <2>2, <2>3, <2>4 DEF ThreadsInv
<1>8. CASE run_raises
  <2>1. /\ UNCHANGED <<ENCOUNTERED, LB, UB, pc, seen, output, refined>>
        /\ \A q \in Processes : status'[q] = "unborn" => status[q] = "unborn"
    BY <1>8 DEF run_raises, memory, ThreadsInv, TypeOK
  <2>2. UnbornOK' /\ GlobalsOK'
    BY <1>3, <2>1
  <2> QED
    BY <1>1, <1>2, <2>1, <2>2 DEF ThreadsInv
<1>9. CASE UNCHANGED vars
  <2>1. UNCHANGED <<ENCOUNTERED, LB, UB, pc, status, seen, output, refined>>
    BY <1>9 DEF vars, memory, elsewhere
  <2>2. UnbornOK' /\ GlobalsOK'
    BY <1>3, <2>1
  <2> QED
    BY <1>1, <1>2, <2>1, <2>2 DEF ThreadsInv
<1> QED
  BY <1>4, <1>5, <1>6, <1>7, <1>8, <1>9 DEF Next

(* However many threads and forked processes call track_<name> at the same *)
(* time, a refined marker's bounds are values the run has encountered: what*)
(* a race can lose is a wider bound, never the truth of the one that is    *)
(* there.                                                                  *)
THEOREM BoundsSound == Spec => []BoundsEncountered
<1>1. Init => ThreadsInv
  <2> SUFFICES ASSUME Init PROVE ThreadsInv
    OBVIOUS
  <2>1. \A p \in Processes :
           seen[p] = {} /\ ENCOUNTERED[p] = 0 /\ \A t \in Threads : pc[p][t] = "idle"
    BY DEF Init, Everywhere
  <2>2. output = {} /\ refined = {}
    BY DEF Init
  <2> QED
    BY <2>1, <2>2, InitTypeOK
    DEF ThreadsInv, UnbornOK, GlobalsOK, PrintedOK, BoundsEncountered
<1>2. ThreadsInv => BoundsEncountered
  BY DEF ThreadsInv
<1> QED
  BY <1>1, <1>2, NextThreads, PTL DEF Spec

-----------------------------------------------------------------------------
(* The inductive invariant.  The globals are the span of the values seen,  *)
(* but for what the current call has done so far.                          *)

Settled(p) ==
    IF ENCOUNTERED[p] = 1
    THEN Promise!IsSpan([lb |-> LB[p], ub |-> UB[p]], seen[p])
    ELSE seen[p] = {}

(* The bounds while the call for x is between its two comparisons.         *)
LowerDone(p, x) ==
    /\ LB[p] \in seen[p] \cup {x} /\ LB[p] <= x
    /\ UB[p] \in seen[p]
    /\ \A y \in seen[p] : LB[p] <= y /\ y <= UB[p]

CallOK(p, t) ==
    /\ pc[p][t] \in {"test_lb", "set_lb"} => Settled(p) /\ ENCOUNTERED[p] = 1
    /\ pc[p][t] = "set_lb" => v[p][t] < LB[p]
    /\ pc[p][t] \in {"first_lb", "first_ub", "first_encountered"} => seen[p] = {}
    /\ pc[p][t] \in {"first_ub", "first_encountered"} => LB[p] = v[p][t]
    /\ pc[p][t] = "first_encountered" => UB[p] = v[p][t]
    /\ pc[p][t] \in {"test_ub", "set_ub"} =>
          ENCOUNTERED[p] = 1 /\ LowerDone(p, v[p][t])
    /\ pc[p][t] = "set_ub" => v[p][t] > UB[p]

Inside(p, t) == pc[p][t] \notin {"idle", "gone"}

(* One thread is in a call, or none.                                       *)
RunningOK(p) ==
    /\ Quiet(p) => Settled(p)
    /\ \A t \in Threads :
          Inside(p, t) => CallOK(p, t) /\ \A u \in Threads : Inside(p, u) => u = t

CallsOK ==
    \A p \in Processes :
        /\ status[p] = "running" => RunningOK(p)
        /\ status[p] \in {"exiting", "exited"} => Settled(p)

(* Every line is that of a process that has exited, and every such process *)
(* that has seen a value has its line.                                     *)
LinesOK ==
    /\ \A l \in output : \E p \in Processes :
          status[p] = "exited" /\ Promise!IsSpan(l, seen[p])
    /\ \A p \in Processes :
          status[p] = "exited" /\ seen[p] # {} =>
              \E l \in output : Promise!IsSpan(l, seen[p])

RefinedOK == SpanOfExited /\ (refined # {} => Over)

IInv == TypeOK /\ CallsOK /\ LinesOK /\ RefinedOK

(* No two calls of a process overlap: the program sees to it, or it has    *)
(* one thread.                                                             *)
TurnsTaken == takes_turns \/ \E t : Threads = {t}

LEMMA TurnsQuiet ==
    ASSUME TurnsTaken, NEW p \in Processes, NEW t \in Threads, At(p, t, "idle"), InTurn(p)
    PROVE  Quiet(p)
BY DEF TurnsTaken, At, InTurn, Quiet

LEMMA InitIInv == Init => IInv
<1> SUFFICES ASSUME Init PROVE IInv
  OBVIOUS
<1>1. TypeOK
  BY InitTypeOK
<1>2. CallsOK
  <2> SUFFICES ASSUME NEW p \in Processes
               PROVE  /\ Settled(p) /\ status[p] \in {"running", "unborn"}
                      /\ \A t \in Threads : pc[p][t] = "idle"
    BY DEF CallsOK, RunningOK, Inside
  <2> QED
    BY DEF Init, Settled, Everywhere
<1>3. LinesOK /\ RefinedOK
  BY DEF Init, LinesOK, RefinedOK, SpanOfExited
<1> QED
  BY <1>1, <1>2, <1>3 DEF IInv

-----------------------------------------------------------------------------
(* In the process itself, the statement leads from one assertion to the    *)
(* next.                                                                   *)
LEMMA CallStep ==
    ASSUME TypeOK, NEW p \in Processes, NEW t \in Threads,
           call(p, t) \/ track(p, t),
           IF pc[p][t] = "idle" THEN Settled(p) ELSE CallOK(p, t)
    PROVE  IF pc'[p][t] = "idle" THEN Settled(p)' ELSE CallOK(p, t)'
<1> DEFINE x == v[p][t]
<1> USE DEF TypeOK, At, Goto, Return, memory
<1>1. /\ x \in Int /\ LB[p] \in Int /\ UB[p] \in Int /\ seen[p] \subseteq Int
      /\ pc[p][t] \in Statements /\ ENCOUNTERED[p] \in {0, 1}
  BY ValuesAssumption
<1>2. CASE call(p, t)
  <2>1. pc[p][t] = "idle" /\ pc'[p][t] = IF ENCOUNTERED[p] = 0 THEN "first_lb" ELSE "test_lb"
    BY <1>2 DEF call
  <2>2. ENCOUNTERED'[p] = ENCOUNTERED[p] /\ LB'[p] = LB[p] /\ UB'[p] = UB[p] /\ seen'[p] = seen[p]
    BY <1>2 DEF call
  <2> QED
    BY <1>1, <2>1, <2>2 DEF CallOK, Settled
<1>3. CASE first_lb(p, t)
  <2>1. pc[p][t] = "first_lb" /\ pc'[p][t] = "first_ub" /\ LB'[p] = x
    BY <1>3 DEF first_lb
  <2>2. ENCOUNTERED'[p] = ENCOUNTERED[p] /\ v'[p][t] = x /\ seen'[p] = seen[p]
    BY <1>3 DEF first_lb
  <2> QED
    BY <2>1, <2>2 DEF CallOK
<1>4. CASE first_ub(p, t)
  <2>1. pc[p][t] = "first_ub" /\ pc'[p][t] = "first_encountered" /\ UB'[p] = x
    BY <1>4 DEF first_ub
  <2>2. LB'[p] = LB[p] /\ v'[p][t] = x /\ seen'[p] = seen[p]
    BY <1>4 DEF first_ub
  <2> QED
    BY <2>1, <2>2 DEF CallOK
<1>5. CASE first_encountered(p, t)
  <2>1. pc[p][t] = "first_encountered" /\ pc'[p][t] = "idle" /\ ENCOUNTERED'[p] = 1
    BY <1>5 DEF first_encountered
  <2>2. LB'[p] = LB[p] /\ UB'[p] = UB[p] /\ seen'[p] = seen[p] \cup {x}
    BY <1>5 DEF first_encountered
  <2>3. seen[p] = {} /\ LB[p] = x /\ UB[p] = x
    BY <2>1 DEF CallOK
  <2>4. Settled(p)'
    BY <1>1, <2>1, <2>2, <2>3 DEF Settled, Promise!IsSpan
  <2> QED
    BY <2>1, <2>4 DEF CallOK
<1>6. CASE test_lb(p, t)
  <2>1. pc[p][t] = "test_lb" /\ pc'[p][t] = IF x < LB[p] THEN "set_lb" ELSE "test_ub"
    BY <1>6 DEF test_lb
  <2>2. /\ ENCOUNTERED'[p] = ENCOUNTERED[p] /\ LB'[p] = LB[p] /\ UB'[p] = UB[p]
        /\ seen'[p] = seen[p] /\ v'[p][t] = x
    BY <1>6 DEF test_lb
  <2>3. Settled(p) /\ ENCOUNTERED[p] = 1
    BY <2>1 DEF CallOK
  <2>4. CASE x < LB[p]
    BY <2>1, <2>2, <2>3, <2>4 DEF CallOK, Settled
  <2>5. CASE ~(x < LB[p])
    <3>1. LowerDone(p, x)
      BY <1>1, <2>3, <2>5 DEF Settled, LowerDone, Promise!IsSpan
    <3>2. LowerDone(p, v[p][t])'
      BY <2>2, <3>1 DEF LowerDone
    <3> QED
      BY <2>1, <2>2, <2>3, <2>5, <3>2 DEF CallOK
  <2> QED
    BY <2>4, <2>5
<1>7. CASE set_lb(p, t)
  <2>1. pc[p][t] = "set_lb" /\ pc'[p][t] = "test_ub" /\ LB'[p] = x
    BY <1>7 DEF set_lb
  <2>2. /\ ENCOUNTERED'[p] = ENCOUNTERED[p] /\ UB'[p] = UB[p]
        /\ seen'[p] = seen[p] /\ v'[p][t] = x
    BY <1>7 DEF set_lb
  <2>3. Settled(p) /\ ENCOUNTERED[p] = 1 /\ x < LB[p]
    BY <2>1 DEF CallOK
  <2>4. LowerDone(p, v[p][t])'
    BY <1>1, <2>1, <2>2, <2>3 DEF Settled, LowerDone, Promise!IsSpan
  <2> QED
    BY <2>1, <2>2, <2>3, <2>4 DEF CallOK
<1>8. CASE test_ub(p, t)
  <2>1. /\ ENCOUNTERED'[p] = ENCOUNTERED[p] /\ LB'[p] = LB[p] /\ UB'[p] = UB[p]
        /\ v'[p][t] = x
    BY <1>8 DEF test_ub
  <2>2. pc[p][t] = "test_ub" /\ ENCOUNTERED[p] = 1 /\ LowerDone(p, x)
    BY <1>8 DEF CallOK, test_ub
  <2>3. CASE x > UB[p]
    <3>1. pc'[p][t] = "set_ub" /\ seen'[p] = seen[p]
      BY <1>8, <2>3 DEF test_ub
    <3>2. LowerDone(p, v[p][t])'
      BY <2>1, <2>2, <3>1 DEF LowerDone
    <3> QED
      BY <2>1, <2>2, <2>3, <3>1, <3>2 DEF CallOK
  <2>4. CASE ~(x > UB[p])
    <3>1. pc'[p][t] = "idle" /\ seen'[p] = seen[p] \cup {x}
      BY <1>8, <2>4 DEF test_ub
    <3>2. Settled(p)'
      BY <1>1, <2>1, <2>2, <2>4, <3>1 DEF LowerDone, Settled, Promise!IsSpan
    <3> QED
      BY <3>1, <3>2 DEF CallOK
  <2> QED
    BY <2>3, <2>4
<1>9. CASE set_ub(p, t)
  <2>1. /\ ENCOUNTERED'[p] = ENCOUNTERED[p] /\ LB'[p] = LB[p] /\ UB'[p] = x
        /\ pc'[p][t] = "idle" /\ seen'[p] = seen[p] \cup {x}
    BY <1>9 DEF set_ub
  <2>2. ENCOUNTERED[p] = 1 /\ LowerDone(p, x) /\ x > UB[p]
    BY <1>9 DEF CallOK, set_ub
  <2>3. Settled(p)'
    BY <1>1, <2>1, <2>2 DEF LowerDone, Settled, Promise!IsSpan
  <2> QED
    BY <2>1, <2>3 DEF CallOK
<1> QED
  BY <1>2, <1>3, <1>4, <1>5, <1>6, <1>7, <1>8, <1>9 DEF track

(* A call begins at one of two statements.                                 *)
LEMMA EntersCall ==
    ASSUME TypeOK, NEW p \in Processes, NEW t \in Threads, call(p, t)
    PROVE  pc'[p][t] \in {"first_lb", "test_lb"}
BY DEF call, TypeOK, Goto

LEMMA CallIInv ==
    ASSUME IInv, TurnsTaken, NEW p \in Processes, NEW t \in Threads,
           call(p, t) \/ track(p, t)
    PROVE  IInv'
<1>1. TypeOK /\ TypeOK'
  BY CallTypeOK DEF IInv
<1>2. Local(p, t)
  BY <1>1, CallIsLocal
<1>3. RunningOK(p)
  BY <1>2 DEF IInv, CallsOK, Local
<1>4. RunningOK(p)'
  <2>1. pc[p][t] # "gone" /\ (pc[p][t] = "idle" => call(p, t))
    BY DEF call, track, first_lb, first_ub, first_encountered, test_lb, set_lb, test_ub,
       set_ub, At
  <2>2. \A u \in Threads : u # t => pc[p][u] \in {"idle", "gone"}
    <3>1. CASE pc[p][t] = "idle"
      <4>1. Quiet(p)
        BY <2>1, <3>1, TurnsQuiet DEF call
      <4> QED
        BY <4>1 DEF Quiet
    <3>2. CASE pc[p][t] # "idle"
      BY <1>3, <2>1, <3>2 DEF RunningOK, Inside
    <3> QED
      BY <3>1, <3>2
  <2>3. IF pc[p][t] = "idle" THEN Settled(p) ELSE CallOK(p, t)
    BY <1>3, <2>1, <2>2 DEF RunningOK, Quiet, Inside
  <2>4. IF pc'[p][t] = "idle" THEN Settled(p)' ELSE CallOK(p, t)'
    BY <1>1, <2>3, CallStep
  <2>5. /\ pc'[p][t] # "gone"
        /\ \A u \in Threads : u # t => pc'[p][u] \in {"idle", "gone"}
    BY <1>1, <2>2, ArgumentsKept, EntersCall
  <2>6. Quiet(p)' => Settled(p)'
    BY <2>4, <2>5 DEF Quiet
  <2>7. \A u \in Threads : Inside(p, u)' => u = t /\ CallOK(p, u)'
    BY <2>4, <2>5 DEF Inside
  <2> QED
    BY <2>6, <2>7 DEF RunningOK
<1>5. CallsOK'
  <2> SUFFICES ASSUME NEW q \in Processes
               PROVE  /\ status'[q] = "running" => RunningOK(q)'
                      /\ status'[q] \in {"exiting", "exited"} => Settled(q)'
    BY DEF CallsOK
  <2>1. CASE q = p
    BY <1>2, <1>4, <2>1 DEF Local
  <2>2. CASE q # p
    <3>1. RunningOK(q) => RunningOK(q)'
      BY <1>2, <2>2 DEF Local, RunningOK, Quiet, Inside, CallOK, Settled, LowerDone
    <3>2. Settled(q) => Settled(q)'
      BY <1>2, <2>2 DEF Local, Settled
    <3> QED
      BY <1>2, <3>1, <3>2 DEF IInv, CallsOK, Local
  <2> QED
    BY <2>1, <2>2
<1>6. \A q \in Processes : status[q] = "exited" => seen'[q] = seen[q]
  BY <1>2 DEF Local
<1>7. LinesOK'
  BY <1>2, <1>6 DEF IInv, LinesOK, Local, elsewhere
<1>8. refined' = {}
  BY <1>2 DEF IInv, RefinedOK, Over, Local, elsewhere
<1> QED
  BY <1>1, <1>5, <1>7, <1>8 DEF IInv, RefinedOK, SpanOfExited

LEMMA ForkIInv ==
    ASSUME IInv, TurnsTaken, NEW p \in Processes, NEW q \in Processes, NEW t \in Threads,
           fork(p, t, q), TypeOK'
    PROVE  IInv'
<1>1. /\ status[p] = "running" /\ status[q] = "unborn" /\ q # p
      /\ Quiet(p)
  BY TurnsQuiet DEF fork, At
<1>2. Settled(p)
  BY <1>1 DEF IInv, CallsOK, RunningOK
<1>3. /\ status' = [status EXCEPT ![q] = "running"]
      /\ \A u \in Threads : pc'[q][u] \in {"idle", "gone"}
      /\ ENCOUNTERED'[q] = ENCOUNTERED[p] /\ LB'[q] = LB[p] /\ UB'[q] = UB[p]
      /\ seen'[q] = seen[p] /\ UNCHANGED <<output, refined>>
      /\ \A o \in Processes \ {q} :
            /\ ENCOUNTERED'[o] = ENCOUNTERED[o] /\ LB'[o] = LB[o] /\ UB'[o] = UB[o]
            /\ pc'[o] = pc[o] /\ v'[o] = v[o] /\ seen'[o] = seen[o]
  BY DEF fork, elsewhere, IInv, TypeOK
<1>4. status \in [Processes -> {"unborn", "running", "exiting", "exited", "killed"}]
  BY DEF IInv, TypeOK
<1>5. CallsOK'
  <2> SUFFICES ASSUME NEW o \in Processes
               PROVE  /\ status'[o] = "running" => RunningOK(o)'
                      /\ status'[o] \in {"exiting", "exited"} => Settled(o)'
    BY DEF CallsOK
  <2>1. CASE o = q
    <3>1. Settled(o)'
      BY <1>2, <1>3, <2>1 DEF Settled
    <3> QED
      BY <1>3, <2>1, <3>1 DEF RunningOK, Inside
  <2>2. CASE o # q
    <3>1. RunningOK(o) => RunningOK(o)'
      BY <1>3, <2>2 DEF RunningOK, Quiet, Inside, CallOK, Settled, LowerDone
    <3>2. (Settled(o) => Settled(o)') /\ status'[o] = status[o]
      BY <1>3, <1>4, <2>2 DEF Settled
    <3> QED
      BY <3>1, <3>2 DEF IInv, CallsOK
  <2> QED
    BY <2>1, <2>2
<1>6. \A o \in Processes :
         /\ status[o] = "exited" => status'[o] = "exited" /\ seen'[o] = seen[o]
         /\ status'[o] = "exited" => status[o] = "exited"
  BY <1>1, <1>3, <1>4
<1>7. LinesOK'
  BY <1>3, <1>6 DEF IInv, LinesOK
<1>8. refined' = {}
  BY <1>1, <1>3 DEF IInv, RefinedOK, Over
<1> QED
  BY <1>5, <1>7, <1>8 DEF IInv, RefinedOK, SpanOfExited

(* A process that leaves by exit or kill, or whose destructor runs.        *)
LEMMA EndIInv ==
    ASSUME IInv, TurnsTaken, NEW p \in Processes, exit(p) \/ kill(p) \/ print(p), TypeOK'
    PROVE  IInv'
<1>1. /\ status[p] \in {"running", "exiting"}
      /\ UNCHANGED <<memory, pc, v, seen, refined>>
      /\ status' = [status EXCEPT ![p] = status'[p]]
      /\ status'[p] \in {"exiting", "killed", "exited"}
  BY DEF exit, kill, print, elsewhere, At, IInv, TypeOK
<1>2. status \in [Processes -> {"unborn", "running", "exiting", "exited", "killed"}]
  BY DEF IInv, TypeOK
<1>3. status'[p] # "killed" => Settled(p)
  <2>1. CASE exit(p)
    <3>1. Quiet(p) /\ status[p] = "running"
      BY <2>1, TurnsQuiet DEF exit, At
    <3> QED
      BY <3>1 DEF IInv, CallsOK, RunningOK
  <2>2. CASE kill(p)
    BY <1>2, <2>2 DEF kill
  <2>3. CASE print(p)
    BY <2>3 DEF print, IInv, CallsOK
  <2> QED
    BY <2>1, <2>2, <2>3
<1>4. CallsOK'
  <2> SUFFICES ASSUME NEW q \in Processes
               PROVE  /\ status'[q] = "running" => RunningOK(q)'
                      /\ status'[q] \in {"exiting", "exited"} => Settled(q)'
    BY DEF CallsOK
  <2>1. /\ RunningOK(q) => RunningOK(q)'
        /\ Settled(q) => Settled(q)'
    BY <1>1 DEF memory, RunningOK, Quiet, Inside, CallOK, Settled, LowerDone
  <2>2. CASE q = p
    BY <1>1, <1>3, <2>1, <2>2
  <2>3. CASE q # p
    BY <1>1, <1>2, <2>1, <2>3 DEF IInv, CallsOK
  <2> QED
    BY <2>2, <2>3
<1>5. LinesOK'
  <2>1. CASE exit(p) \/ kill(p)
    <3>1. output' = output /\ status'[p] # "exited"
      BY <1>2, <2>1 DEF exit, kill, elsewhere
    <3>2. \A q \in Processes : status'[q] = "exited" <=> status[q] = "exited"
      BY <1>1, <1>2, <3>1
    <3> QED
      BY <1>1, <3>1, <3>2 DEF IInv, LinesOK
  <2>2. CASE print(p)
    <3> DEFINE line == [lb |-> LB[p], ub |-> UB[p]]
    <3>1. /\ output' = IF ENCOUNTERED[p] = 1 THEN output \cup {line} ELSE output
          /\ status'[p] = "exited"
      BY <1>2, <2>2 DEF print
    <3>2. IF ENCOUNTERED[p] = 1 THEN Promise!IsSpan(line, seen[p]) ELSE seen[p] = {}
      BY <1>2, <1>3, <3>1 DEF Settled
    <3>3. \A q \in Processes : status'[q] = "exited" <=> status[q] = "exited" \/ q = p
      BY <1>1, <1>2, <3>1
    <3>4. seen' = seen
      BY <1>1
    <3> HIDE DEF line
    <3>5. \A l \in output' : \E q \in Processes :
             status'[q] = "exited" /\ Promise!IsSpan(l, seen'[q])
      BY <3>1, <3>2, <3>3, <3>4 DEF IInv, LinesOK
    <3>6. \A q \in Processes :
             status'[q] = "exited" /\ seen'[q] # {} =>
                 \E l \in output' : Promise!IsSpan(l, seen'[q])
      BY <3>1, <3>2, <3>3, <3>4 DEF IInv, LinesOK
    <3> QED
      BY <3>5, <3>6 DEF LinesOK
  <2> QED
    BY <2>1, <2>2
<1>6. refined' = {}
  BY <1>1 DEF IInv, RefinedOK, Over
<1> QED
  BY <1>4, <1>5, <1>6 DEF IInv, RefinedOK, SpanOfExited

(* output.run raises; what the processes have printed stays unread.         *)
LEMMA RaiseIInv ==
    ASSUME IInv, run_raises, TypeOK'
    PROVE  IInv'
<1>1. /\ UNCHANGED <<memory, pc, v, seen, output>> /\ refined' = {}
      /\ \A q \in Processes : status'[q] = status[q] \/ status'[q] = "killed"
      /\ \A q \in Processes : status'[q] = "exited" <=> status[q] = "exited"
  BY DEF run_raises, IInv, TypeOK
<1>2. CallsOK'
  BY <1>1 DEF memory, IInv, CallsOK, RunningOK, Quiet, Inside, CallOK, Settled, LowerDone
<1>3. LinesOK'
  BY <1>1 DEF IInv, LinesOK
<1> QED
  BY <1>1, <1>2, <1>3 DEF IInv, RefinedOK, SpanOfExited

LEMMA RefineIInv ==
    ASSUME IInv, refine, TypeOK'
    PROVE  IInv'
<1>1. UNCHANGED <<memory, pc, v, status, seen, output>>
  BY DEF refine
<1>2. CallsOK' /\ LinesOK' /\ Over'
  BY <1>1 DEF refine, memory, IInv, CallsOK, RunningOK, Quiet, Inside, CallOK, Settled,
     LowerDone, LinesOK, Over
<1>3. SpanOfExited'
  <2>1. PICK low \in output, high \in output :
           /\ \A l \in output : low.lb <= l.lb /\ l.ub <= high.ub
           /\ refined' = {[lb |-> low.lb, ub |-> high.ub]}
    BY DEF refine
  <2> DEFINE met == UNION {seen[p] : p \in {q \in Processes : status[q] = "exited"}}
  <2>2. low.lb \in met /\ high.ub \in met
    BY DEF IInv, LinesOK, Promise!IsSpan
  <2>3. ASSUME NEW x \in met PROVE low.lb <= x /\ x <= high.ub
    <3>1. PICK p \in Processes : status[p] = "exited" /\ x \in seen[p]
      OBVIOUS
    <3>2. PICK l \in output : Promise!IsSpan(l, seen[p])
      BY <3>1 DEF IInv, LinesOK
    <3>3. /\ l.lb <= x /\ x <= l.ub
          /\ low.lb <= l.lb /\ l.ub <= high.ub
      BY <2>1, <3>1, <3>2 DEF Promise!IsSpan
    <3>4. /\ x \in Int /\ l.lb \in Int /\ l.ub \in Int
          /\ low.lb \in Int /\ high.ub \in Int
      BY <3>1, ValuesAssumption DEF IInv, TypeOK, Range
    <3> QED
      BY <3>3, <3>4
  <2>4. met' = met
    BY <1>1
  <2> HIDE DEF met
  <2>5. \A r \in refined' : /\ r.lb \in met' /\ r.ub \in met'
                            /\ \A x \in met' : r.lb <= x /\ x <= r.ub
    BY <2>1, <2>2, <2>3, <2>4
  <2> QED
    BY <2>5 DEF SpanOfExited, met
<1> QED
  BY <1>2, <1>3 DEF IInv, RefinedOK

(* Whether calls overlap is a matter of the program, not of the moment.    *)
TurnsInv == TypeOK /\ (TurnsTaken => IInv)

LEMMA NextTurnsInv == TurnsInv /\ [Next]_vars => TurnsInv'
<1> SUFFICES ASSUME TurnsInv, [Next]_vars PROVE TurnsInv'
  OBVIOUS
<1>1. TypeOK'
  BY NextTypeOK DEF TurnsInv
<1>2. takes_turns' = takes_turns
  BY DEF Next, vars, elsewhere, call, track, first_lb, first_ub, first_encountered, test_lb,
     set_lb, test_ub, set_ub, fork, exit, kill, print, run_raises, refine
<1>3. SUFFICES ASSUME TurnsTaken' PROVE IInv'
  BY <1>1 DEF TurnsInv
<1>4. TurnsTaken /\ IInv
  BY <1>2, <1>3 DEF TurnsTaken, TurnsInv
<1>5. CASE UNCHANGED vars
  BY <1>1, <1>4, <1>5 DEF vars, memory, elsewhere, IInv, CallsOK, RunningOK, Quiet, Inside, CallOK,
     Settled, LowerDone, LinesOK, RefinedOK, SpanOfExited, Over
<1>6. CASE Next
  BY <1>1, <1>4, <1>6, CallIInv, ForkIInv, EndIInv, RaiseIInv, RefineIInv DEF Next
<1> QED
  BY <1>5, <1>6

(* The inductive invariant of the emitted code, statement by statement, of *)
(* a program whose calls of track_<name> do not overlap.                   *)
THEOREM Invariance == Spec => []TurnsInv
<1>1. Init => TurnsInv
  BY InitIInv, InitTypeOK DEF TurnsInv
<1> QED
  BY <1>1, NextTurnsInv, PTL DEF Spec

(* If threads take turns, the range a refinement makes of a run covers     *)
(* every value the processes that exited have met, and no more than their  *)
(* span, whoever forks, and whichever others were killed.                  *)
THEOREM RefinedSound == Spec => []RefinedFromEncountered
<1>1. TurnsInv => RefinedFromEncountered
  BY DEF TurnsInv, TurnsTaken, IInv, RefinedOK, RefinedFromEncountered
<1> QED
  BY <1>1, Invariance, PTL

(* The threads of a process that has one need not agree on turns.          *)
THEOREM OneThreadSound ==
    ASSUME NEW t, Threads = {t}
    PROVE  Spec => []SpanOfExited
<1>1. TurnsInv => SpanOfExited
  BY DEF TurnsInv, TurnsTaken, IInv, RefinedOK
<1> QED
  BY <1>1, Invariance, PTL

-----------------------------------------------------------------------------
(* Refinement                                                              *)

LEMMA PromisedInit == Init => Promise!Init
<1> SUFFICES ASSUME Init PROVE Promise!Init
  OBVIOUS
<1>1. promised_status = [p \in Processes |-> IF p = First THEN "running" ELSE "unborn"]
  BY DEF Init, promised_status
<1> QED
  BY <1>1 DEF Init, Everywhere, Promise!Init

LEMMA PromisedCall ==
    ASSUME TypeOK, NEW p \in Processes, NEW t \in Threads, call(p, t) \/ track(p, t)
    PROVE  Promise!Next \/ UNCHANGED Promise!vars
<1>1. /\ promised_status[p] = "running"
      /\ UNCHANGED <<promised_status, takes_turns, output, raised, refined>>
  BY CallIsLocal DEF Local, elsewhere, promised_status
<1>2. v[p][t] \in Values
  BY DEF TypeOK
<1>3. UNCHANGED seen \/ Return(p, t)
  BY DEF call, track, first_lb, first_ub, first_encountered, test_lb, set_lb, test_ub, set_ub
<1>4. CASE Return(p, t)
  BY <1>1, <1>2, <1>4 DEF Return, Promise!Next, Promise!Observe
<1>5. CASE UNCHANGED seen
  BY <1>1, <1>5 DEF Promise!vars
<1> QED
  BY <1>3, <1>4, <1>5

LEMMA PromisedFork ==
    ASSUME TypeOK, NEW p \in Processes, NEW q \in Processes, NEW t \in Threads, fork(p, t, q)
    PROVE  Promise!Next
<1>1. promised_status[p] = "running" /\ promised_status[q] = "unborn"
  BY DEF fork, At, promised_status
<1>2. promised_status' = [promised_status EXCEPT ![q] = "running"]
  BY DEF fork, TypeOK, promised_status
<1> QED
  BY <1>1, <1>2 DEF fork, elsewhere, Promise!Next, Promise!Fork

LEMMA PromisedEnd ==
    ASSUME TurnsInv, NEW p \in Processes, exit(p) \/ kill(p) \/ print(p)
    PROVE  Promise!Next \/ UNCHANGED Promise!vars
<1>1. status \in [Processes -> {"unborn", "running", "exiting", "exited", "killed"}]
  BY DEF TurnsInv, TypeOK
<1>2. CASE exit(p)
  <2>1. promised_status' = promised_status
    BY <1>1, <1>2 DEF exit, At, promised_status
  <2> QED
    BY <1>2, <2>1 DEF exit, elsewhere, Promise!vars
<1>3. CASE kill(p)
  <2>1. /\ promised_status[p] = "running"
        /\ promised_status' = [promised_status EXCEPT ![p] = "killed"]
    BY <1>1, <1>3 DEF kill, promised_status
  <2> QED
    BY <1>3, <2>1 DEF kill, elsewhere, Promise!Next, Promise!Kill
<1>4. CASE print(p)
  <2> DEFINE line == [lb |-> LB[p], ub |-> UB[p]]
  <2>1. /\ promised_status[p] = "running"
        /\ promised_status' = [promised_status EXCEPT ![p] = "exited"]
    BY <1>1, <1>4 DEF print, promised_status
  <2>2. takes_turns =>
           IF ENCOUNTERED[p] = 1 THEN Promise!IsSpan(line, seen[p]) ELSE seen[p] = {}
    BY <1>4 DEF print, TurnsInv, TurnsTaken, IInv, CallsOK, Settled
  <2>3. line \in Promise!Range
    BY DEF TurnsInv, TypeOK, Promise!Range
  <2>4. output' = IF ENCOUNTERED[p] = 1 THEN output \cup {line} ELSE output
    BY <1>4 DEF print
  <2> HIDE DEF line
  <2>5. \/ Promise!MayBeSilent(p) /\ output' = output
        \/ \E r \in Promise!Range : Promise!Prints(p, r) /\ output' = output \cup {r}
    <3>1. CASE ENCOUNTERED[p] = 1
      BY <2>2, <2>3, <2>4, <3>1 DEF Promise!Prints
    <3>2. CASE ENCOUNTERED[p] # 1
      BY <2>2, <2>4, <3>2 DEF Promise!MayBeSilent
    <3> QED
      BY <3>1, <3>2
  <2>6. Promise!Exit(p)
    BY <1>4, <2>1, <2>5 DEF print, Promise!Exit
  <2> QED
    BY <2>6 DEF Promise!Next
<1> QED
  BY <1>2, <1>3, <1>4

LEMMA PromisedRaise ==
    ASSUME TypeOK, run_raises
    PROVE  Promise!Next
<1>1. promised_status' =
         [promised_status EXCEPT ![First] = IF @ = "running" THEN "killed" ELSE @]
  BY DEF run_raises, TypeOK, promised_status
<1>2. Promise!Raise
  BY <1>1 DEF run_raises, Promise!Raise
<1> QED
  BY <1>2 DEF Promise!Next

LEMMA PromisedRefine ==
    ASSUME TypeOK, refine
    PROVE  Promise!Next
<1>1. PICK low \in output, high \in output :
         /\ \A l \in output : low.lb <= l.lb /\ l.ub <= high.ub
         /\ refined' = {[lb |-> low.lb, ub |-> high.ub]}
  BY DEF refine
<1> DEFINE r == [lb |-> low.lb, ub |-> high.ub]
<1>2. r.lb = low.lb /\ r.ub = high.ub /\ r \in Promise!Range
  BY DEF TypeOK, Range, Promise!Range
<1>3. /\ \A p \in Processes : promised_status[p] # "running"
      /\ UNCHANGED <<takes_turns, promised_status, seen, output, raised>>
      /\ ~raised /\ refined = {} /\ refined' = {r}
  BY <1>1 DEF refine, Over, promised_status
<1> HIDE DEF r
<1>4. Promise!Refine
  BY <1>1, <1>2, <1>3 DEF Promise!Refine
<1> QED
  BY <1>4 DEF Promise!Next

(* The emitted C code, the destructors and the parsing implement the       *)
(* promise that a marker's range becomes the span of the values its        *)
(* expression took in the processes that exited, and whatever threads do   *)
(* never makes them refine a marker of lines that were not printed.        *)
THEOREM ImplementsTrackedRanges == Spec => TrackedRangesSpec
<1>1. TurnsInv /\ [Next]_vars => [Promise!Next]_Promise!vars
  <2> SUFFICES ASSUME TurnsInv, [Next]_vars PROVE Promise!Next \/ UNCHANGED Promise!vars
    OBVIOUS
  <2>1. TypeOK
    BY DEF TurnsInv
  <2>2. CASE UNCHANGED vars
    BY <2>2 DEF vars, elsewhere, Promise!vars, promised_status
  <2> QED
    BY <2>1, <2>2, PromisedCall, PromisedFork, PromisedEnd, PromisedRaise, PromisedRefine
    DEF Next
<1> QED
  BY <1>1, PromisedInit, Invariance, PTL DEF Spec, TrackedRangesSpec, Promise!Spec
=============================================================================
