--------------------------- MODULE DetectionProofs ---------------------------
(***************************************************************************)
(* Proofs about Detection, for any number of markers and any strategies.   *)
(***************************************************************************)
EXTENDS Detection, WellFoundedInduction, TLAPS

(* An int holds the magic integer of every id.                             *)
IdsFit == \A i \in Ids : MagicInt(i) <= IntMax

(* No other line is taken for a marker's.                                  *)
OthersDiffer == \A s \in Strategies, line \in OtherLines : Detected(s, line) = {}

-----------------------------------------------------------------------------
(* Natural numbers                                                         *)

(* Every non-empty set of naturals has a least element.                    *)
LEMMA LeastElement ==
    ASSUME NEW T, T \subseteq Nat, T # {}
    PROVE  \E x \in T : \A y \in T : x <= y
<1> DEFINE R == OpToRel(<, Nat)
<1>1. PICK x \in T : \A y \in T : ~(<<y, x>> \in R)
  BY NatLessThanWellFounded, WFMin
<1>2. \A y \in T : <<y, x>> \in R <=> y < x
  BY DEF OpToRel
<1> HIDE DEF R
<1>3. ASSUME NEW y \in T PROVE x <= y
  <2>1. ~(<<y, x>> \in R)
    BY <1>1
  <2>2. ~(y < x) /\ y \in Nat /\ x \in Nat
    BY <1>2, <2>1
  <2> QED BY <2>2
<1> QED BY <1>3

(* Induction, with a set in the place of the predicate.                    *)
LEMMA SetInduction ==
    ASSUME NEW P, 0 \in P, \A n \in Nat : n \in P => n + 1 \in P
    PROVE  Nat \subseteq P
<1> SUFFICES ASSUME Nat \ P # {} PROVE FALSE
  OBVIOUS
<1>1. PICK x \in Nat \ P : \A y \in Nat \ P : x <= y
  BY LeastElement
<1>2. x # 0 /\ x - 1 \in Nat /\ (x - 1) + 1 = x
  BY <1>1
<1>3. x - 1 \in P
  BY <1>1, <1>2
<1> QED BY <1>1, <1>2, <1>3

-----------------------------------------------------------------------------
(* Powers of the base                                                      *)

(* g lists the powers up to the n-th.                                      *)
Lists(g, n) ==
    /\ g \in [0..n -> Nat] /\ g[0] = 1
    /\ \A k \in 1..n : g[k] = Base * g[k - 1]

LEMMA ListsExist == \A n \in Nat : \E g : Lists(g, n)
<1> DEFINE P == {n \in Nat : \E g : Lists(g, n)}
<1>1. 0 \in P
  <2> DEFINE g == [k \in 0..0 |-> 1]
  <2>1. Lists(g, 0)
    BY DEF Lists
  <2> QED BY <2>1
<1>2. ASSUME NEW n \in Nat, n \in P PROVE n + 1 \in P
  <2>1. PICK g : Lists(g, n)
    BY <1>2
  <2> DEFINE h == [k \in 0..(n + 1) |-> IF k <= n THEN g[k] ELSE Base * g[n]]
  <2>2. g[n] \in Nat /\ Base \in Nat /\ Base * g[n] \in Nat
    BY <2>1, NumbersAssumption DEF Lists
  <2>3. h \in [0..(n + 1) -> Nat] /\ h[0] = 1
    BY <2>1, <2>2 DEF Lists
  <2>4. ASSUME NEW k \in 1..(n + 1) PROVE h[k] = Base * h[k - 1]
    <3>1. h[k - 1] = g[k - 1]
      OBVIOUS
    <3>2. CASE k <= n
      BY <2>1, <3>1, <3>2 DEF Lists
    <3>3. CASE k = n + 1
      BY <3>1, <3>3
    <3> QED BY <3>2, <3>3
  <2>5. Lists(h, n + 1)
    BY <2>3, <2>4 DEF Lists
  <2> QED BY <2>5
<1> HIDE DEF P
<1>3. Nat \subseteq P
  BY <1>1, <1>2, SetInduction
<1> QED BY <1>3 DEF P

LEMMA ListsAgree ==
    ASSUME NEW m \in Nat, NEW n \in Nat, NEW g, NEW h, Lists(g, m), Lists(h, n)
    PROVE  \A k \in Nat : k <= m /\ k <= n => g[k] = h[k]
<1> DEFINE P == {k \in Nat : k <= m /\ k <= n => g[k] = h[k]}
<1>1. 0 \in P
  BY DEF Lists
<1>2. ASSUME NEW k \in Nat, k \in P PROVE k + 1 \in P
  <2> SUFFICES ASSUME k + 1 <= m, k + 1 <= n PROVE g[k + 1] = h[k + 1]
    OBVIOUS
  <2>1. k + 1 \in 1..m /\ k + 1 \in 1..n /\ (k + 1) - 1 = k /\ g[k] = h[k]
    BY <1>2
  <2> QED BY <2>1 DEF Lists
<1> HIDE DEF P
<1>3. Nat \subseteq P
  BY <1>1, <1>2, SetInduction
<1> QED BY <1>3 DEF P

(* power is what its recursive definition says.                            *)
LEMMA PowerDef == power = [w \in Nat |-> IF w = 0 THEN 1 ELSE Base * power[w - 1]]
<1> DEFINE list(n) == CHOOSE g : Lists(g, n)
           h == [n \in Nat |-> list(n)[n]]
<1>1. \A n \in Nat : Lists(list(n), n)
  BY ListsExist
<1>2. h[0] = 1
  BY <1>1 DEF Lists
<1>3. ASSUME NEW n \in Nat, n # 0 PROVE h[n] = Base * h[n - 1]
  <2>1. n - 1 \in Nat /\ n \in 1..n /\ n - 1 <= n
    BY <1>3
  <2>2. Lists(list(n), n) /\ Lists(list(n - 1), n - 1)
    BY <1>1, <2>1
  <2> HIDE DEF list
  <2>3. list(n)[n] = Base * list(n)[n - 1]
    BY <2>1, <2>2 DEF Lists
  <2>4. list(n)[n - 1] = list(n - 1)[n - 1]
    BY <2>1, <2>2, ListsAgree
  <2> QED BY <2>1, <2>3, <2>4
<1>4. h = [n \in Nat |-> h[n]]
  OBVIOUS
<1> HIDE DEF h
<1>5. h = [w \in Nat |-> IF w = 0 THEN 1 ELSE Base * h[w - 1]]
  <2>1. \A w \in Nat : h[w] = IF w = 0 THEN 1 ELSE Base * h[w - 1]
    BY <1>2, <1>3
  <2> DEFINE r == [w \in Nat |-> IF w = 0 THEN 1 ELSE Base * h[w - 1]]
  <2>2. r = [w \in Nat |-> h[w]]
    BY <2>1
  <2> QED BY <1>4, <2>2
<1> QED BY <1>5 DEF power

LEMMA PowerStep ==
    /\ power[0] = 1
    /\ \A w \in Nat : power[w + 1] = Base * power[w]
<1>1. \A w \in Nat : power[w] = IF w = 0 THEN 1 ELSE Base * power[w - 1]
  BY PowerDef
<1>2. ASSUME NEW w \in Nat PROVE power[w + 1] = Base * power[w]
  <2>1. w + 1 \in Nat /\ w + 1 # 0 /\ (w + 1) - 1 = w
    OBVIOUS
  <2>2. power[w + 1] = Base * power[(w + 1) - 1]
    BY <1>1, <2>1
  <2> QED BY <2>1, <2>2
<1> QED BY <1>1, <1>2

LEMMA Doubles ==
    ASSUME NEW p \in Nat
    PROVE  Base * p \in Nat /\ Base * p >= 2 * p
<1>1. Base \in Nat /\ Base - 2 \in Nat
  BY NumbersAssumption
<1>2. (Base - 2) * p \in Nat /\ Base * p \in Nat
  BY <1>1
<1>3. Base * p = (Base - 2) * p + 2 * p
  BY <1>1
<1> QED BY <1>2, <1>3

LEMMA PowerGrows == \A n \in Nat : power[n] \in Nat /\ power[n] > n
<1> DEFINE P == {n \in Nat : power[n] \in Nat /\ power[n] > n}
<1>1. 0 \in P
  BY PowerStep
<1>2. ASSUME NEW n \in Nat, n \in P PROVE n + 1 \in P
  <2>1. power[n] \in Nat /\ power[n] > n
    BY <1>2
  <2>2. power[n + 1] \in Nat /\ power[n + 1] >= 2 * power[n]
    BY <2>1, PowerStep, Doubles
  <2> QED BY <2>1, <2>2
<1> HIDE DEF P
<1>3. Nat \subseteq P
  BY <1>1, <1>2, SetInduction
<1> QED BY <1>3 DEF P

LEMMA PowerMonotone ==
    ASSUME NEW m \in Nat, NEW n \in Nat, m <= n
    PROVE  power[m] <= power[n]
<1> DEFINE P == {d \in Nat : power[m] <= power[m + d]}
<1>1. 0 \in P
  BY PowerGrows
<1>2. ASSUME NEW d \in Nat, d \in P PROVE d + 1 \in P
  <2>1. m + d \in Nat /\ (m + d) + 1 = m + (d + 1) /\ power[m] <= power[m + d]
    BY <1>2
  <2>2. power[m] \in Nat /\ power[m + d] \in Nat /\ power[m + (d + 1)] \in Nat
    BY <2>1, PowerGrows
  <2>3. power[m + (d + 1)] >= 2 * power[m + d]
    BY <2>1, <2>2, PowerStep, Doubles
  <2> QED BY <2>1, <2>2, <2>3
<1> HIDE DEF P
<1>3. n - m \in P /\ m + (n - m) = n
  BY <1>1, <1>2, SetInduction
<1> QED BY <1>3 DEF P

-----------------------------------------------------------------------------
(* Magic integers                                                          *)

LEMMA WidthFits ==
    ASSUME NEW n \in Nat
    PROVE  /\ Width(n) \in 1..(n + 1)
           /\ n < power[Width(n)]
           /\ Width(n) = 1 \/ n >= power[Width(n) - 1]
<1> DEFINE T == {w \in 1..(n + 1) : n < power[w]}
<1>1. n + 1 \in T
  BY PowerGrows
<1>2. PICK w \in T : \A v \in T : w <= v
  <2>1. T \subseteq Nat /\ T # {}
    BY <1>1
  <2> HIDE DEF T
  <2> QED BY <2>1, LeastElement
<1>3. w = 1 \/ n >= power[w - 1]
  <2> SUFFICES ASSUME w # 1 PROVE n >= power[w - 1]
    OBVIOUS
  <2>1. w - 1 \in 1..(n + 1) /\ w - 1 \notin T /\ w - 1 \in Nat
    BY <1>2
  <2>2. power[w - 1] \in Nat
    BY <2>1, PowerGrows
  <2> QED BY <2>1, <2>2
<1>4. \E v \in 1..(n + 1) : n < power[v] /\ (v = 1 \/ n >= power[v - 1])
  BY <1>2, <1>3
<1> QED BY <1>4 DEF Width

(* A longer id makes a greater magic integer.                              *)
LEMMA MagicGrows ==
    ASSUME NEW i \in Nat, NEW j \in Nat, Width(i) < Width(j)
    PROVE  MagicInt(i) < MagicInt(j)
<1> DEFINE p == power[Width(i)]
           q == power[Width(j)]
<1>1. /\ Width(i) \in Nat /\ Width(j) \in Nat /\ Width(i) + 1 <= Width(j)
      /\ i < p
  BY WidthFits
<1>2. p \in Nat /\ q \in Nat /\ p > 0
  BY <1>1, PowerGrows
<1>3. q >= 2 * p
  <2>1. power[Width(i) + 1] <= q /\ power[Width(i) + 1] \in Nat
    BY <1>1, PowerMonotone, PowerGrows
  <2>2. power[Width(i) + 1] >= 2 * p
    BY <1>1, <1>2, PowerStep, Doubles
  <2> QED BY <1>2, <2>1, <2>2
<1>4. Magic \in Nat /\ Magic - 1 \in Nat
  BY NumbersAssumption
<1>5. MagicInt(i) = Magic * p + i /\ MagicInt(j) = Magic * q + j
  BY DEF MagicInt
<1> HIDE DEF p, q
<1>6. Magic * q >= Magic * p + p
  <2>1. Magic * (q - 2 * p) \in Nat /\ q - 2 * p \in Nat
    BY <1>2, <1>3, <1>4
  <2>2. (Magic - 1) * p \in Nat
    BY <1>2, <1>4
  <2>3. Magic * q = Magic * (q - 2 * p) + Magic * p + (Magic - 1) * p + p
    BY <1>2, <1>4
  <2>4. Magic * q \in Nat /\ Magic * p \in Nat
    BY <1>2, <1>4
  <2> QED BY <1>2, <2>1, <2>2, <2>3, <2>4
<1>7. Magic * q \in Nat /\ Magic * p \in Nat
  BY <1>2, <1>4
<1> QED BY <1>1, <1>2, <1>5, <1>6, <1>7

(* A magic integer is not smaller than the id in it, and no two ids have   *)
(* the same one.                                                           *)
LEMMA Numerals ==
    \A i, j \in Nat :
        /\ MagicInt(i) \in Nat /\ i <= MagicInt(i)
        /\ MagicInt(i) = MagicInt(j) => i = j
<1>1. ASSUME NEW i \in Nat PROVE MagicInt(i) \in Nat /\ i <= MagicInt(i)
  <2>1. power[Width(i)] \in Nat /\ Magic \in Nat
    BY WidthFits, PowerGrows, NumbersAssumption
  <2>2. Magic * power[Width(i)] \in Nat
    BY <2>1
  <2> QED BY <2>2 DEF MagicInt
<1>2. ASSUME NEW i \in Nat, NEW j \in Nat, MagicInt(i) = MagicInt(j) PROVE i = j
  <2>1. Width(i) = Width(j)
    <3>1. Width(i) \in Nat /\ Width(j) \in Nat
      BY WidthFits
    <3>2. MagicInt(i) \in Nat /\ MagicInt(j) \in Nat
      BY <1>1
    <3>3. ~(MagicInt(i) < MagicInt(j)) /\ ~(MagicInt(j) < MagicInt(i))
      BY <1>2, <3>2
    <3> QED BY <3>1, <3>3, MagicGrows
  <2>2. power[Width(i)] \in Nat /\ Magic \in Nat
    BY WidthFits, PowerGrows, NumbersAssumption
  <2>3. Magic * power[Width(i)] \in Nat
    BY <2>2
  <2> QED BY <1>2, <2>1, <2>3 DEF MagicInt
<1> QED BY <1>1, <1>2

-----------------------------------------------------------------------------
(* The conversion to int does not change a number that fits.               *)
LEMMA StoredFits ==
    ASSUME NEW n \in 0..IntMax
    PROVE  Stored(n) = n
<1> DEFINE k == IntMax + 1
<1>1. k \in Nat \ {0} /\ n + k \in 0..(2 * k - 1) /\ IntMax \in Nat
  BY NumbersAssumption
<1>2. (n + k) % (2 * k) = n + k
  <2> DEFINE modulus == 2 * k
             total == n + k
  <2>1. modulus \in Nat \ {0} /\ total \in 0..(modulus - 1)
    BY <1>1
  <2> HIDE DEF modulus, total
  <2>2. total % modulus = total
    BY <2>1
  <2> QED
    BY <2>2 DEF modulus, total
<1>3. n + IntMax + 1 = n + k
  BY <1>1
<1> QED
  BY <1>1, <1>2, <1>3 DEF Stored

(* A strategy finds in the line it has made of a marker that marker's id.  *)
LEMMA Recognised ==
    ASSUME IdsFit, NEW s \in Strategies, NEW i \in Ids
    PROVE  Detected(s, LineOf(s, i)) = {i}
<1>1. i \in Nat /\ IntMax \in Nat
  BY IdsAssumption, NumbersAssumption
<1>2. CASE Pattern[s] = "movl"
  <2>1. MagicInt(i) \in 0..IntMax /\ i \in 0..MagicInt(i)
    BY <1>1, Numerals DEF IdsFit
  <2>2. LineOf(s, i) = [op |-> "movl", value |-> MagicInt(i)]
    BY <1>2, <2>1, StoredFits DEF LineOf
  <2>3. Detected(s, LineOf(s, i)) = {j \in 0..MagicInt(i) : MagicInt(j) = MagicInt(i)}
    BY <1>2, <2>2 DEF Detected
  <2>4. \A j \in 0..MagicInt(i) : MagicInt(j) = MagicInt(i) => j = i
    BY <1>1, <2>1, Numerals
  <2> QED
    BY <2>1, <2>3, <2>4
<1>3. CASE Pattern[s] # "movl"
  BY <1>3 DEF LineOf, Detected
<1> QED
  BY <1>2, <1>3

-----------------------------------------------------------------------------
(* What the search knows: the lines still to be read are of survivors that *)
(* have not been found, or of none, and the others have been found.        *)
SearchInv ==
    /\ enabled \subseteq Ids /\ strategy \in Strategies
    /\ pc \in {"idle", "compiled"}
    /\ pc = "idle" => found = surviving
    /\ pc = "compiled" =>
          /\ surviving \subseteq enabled
          /\ found \subseteq surviving
          /\ lines \subseteq {LineOf(strategy, i) : i \in surviving} \cup OtherLines
          /\ \A i \in surviving \ found : LineOf(strategy, i) \in lines

LEMMA SearchLineInv ==
    ASSUME IdsFit, OthersDiffer, SearchInv, search_line
    PROVE  SearchInv'
<1>1. PICK line \in lines :
         /\ found' = found \cup (Detected(strategy, line) \cap enabled)
         /\ lines' = lines \ {line}
         /\ pc' = IF Detected(strategy, line) \subseteq enabled THEN pc ELSE "raised"
  BY DEF search_line
<1>2. pc = "compiled" /\ UNCHANGED <<enabled, strategy, surviving>>
  BY DEF search_line
<1>3. CASE line \in OtherLines
  <2>1. Detected(strategy, line) = {}
    BY <1>3 DEF OthersDiffer, SearchInv
  <2>2. \A i \in surviving \ found : LineOf(strategy, i) # line
    <3>1. \A i \in surviving : Detected(strategy, LineOf(strategy, i)) = {i}
      BY <1>2, Recognised DEF SearchInv
    <3> QED
      BY <2>1, <3>1
  <2> QED
    BY <1>1, <1>2, <2>1, <2>2 DEF SearchInv
<1>4. CASE line \notin OtherLines
  <2>1. PICK i \in surviving : line = LineOf(strategy, i)
    BY <1>2, <1>4 DEF SearchInv
  <2>2. Detected(strategy, line) = {i} /\ i \in enabled
    BY <1>2, <2>1, Recognised DEF SearchInv
  <2>3. found' = found \cup {i} /\ pc' = pc
    BY <1>1, <2>2
  <2>4. \A j \in surviving \ found : j # i => LineOf(strategy, j) # line
    <3>1. \A j \in surviving : Detected(strategy, LineOf(strategy, j)) = {j}
      BY <1>2, Recognised DEF SearchInv
    <3> QED
      BY <2>2, <3>1
  <2> QED
    BY <1>1, <1>2, <2>3, <2>4 DEF SearchInv
<1> QED
  BY <1>3, <1>4

LEMMA StepInv ==
    ASSUME IdsFit, OthersDiffer, SearchInv, [Next]_vars
    PROVE  SearchInv'
<1>1. CASE UNCHANGED vars
  BY <1>1 DEF vars, SearchInv
<1>2. CASE disable_markers \/ with_marker_strategy
  BY <1>2 DEF disable_markers, with_marker_strategy, SearchInv
<1>3. CASE compile
  BY <1>3 DEF compile, SearchInv
<1>4. CASE return
  BY <1>4 DEF return, SearchInv
<1> QED
  BY <1>1, <1>2, <1>3, <1>4, SearchLineInv DEF Next

(* With every strategy and whatever the compiler keeps, the search finds   *)
(* exactly the markers that were kept, as long as their magic integers fit *)
(* an int and no other line looks like a marker's.                         *)
THEOREM FindsWhatFits ==
    ASSUME IdsFit, OthersDiffer
    PROVE  Spec => []FindsNonEliminated
<1>1. Init => SearchInv
  BY StrategiesAssumption DEF Init, SearchInv
<1>2. SearchInv /\ [Next]_vars => SearchInv'
  BY StepInv
<1>3. SearchInv => FindsNonEliminated
  BY DEF SearchInv, FindsNonEliminated
<1> QED
  BY <1>1, <1>2, <1>3, PTL DEF Spec

-----------------------------------------------------------------------------
(* Without hypotheses on ids and lines                                     *)

(* The survivors whose magic integer an int holds.                         *)
Fitting == {i \in surviving : MagicInt(i) <= IntMax}

(* Those that are not found yet still have their line.                     *)
FittingInv ==
    /\ enabled \subseteq Ids /\ strategy \in Strategies
    /\ pc = "compiled" =>
          /\ surviving \subseteq Ids
          /\ \A i \in Fitting \ found : i \in enabled /\ LineOf(strategy, i) \in lines
    /\ pc = "idle" => Fitting \subseteq found

LEMMA FittingRecognised ==
    ASSUME NEW s \in Strategies, NEW i \in Ids, MagicInt(i) <= IntMax
    PROVE  i \in Detected(s, LineOf(s, i))
<1>1. i \in Nat /\ IntMax \in Nat
  BY IdsAssumption, NumbersAssumption
<1>2. CASE Pattern[s] = "movl"
  <2>1. MagicInt(i) \in 0..IntMax /\ i \in 0..MagicInt(i)
    BY <1>1, Numerals
  <2>2. LineOf(s, i) = [op |-> "movl", value |-> MagicInt(i)]
    BY <1>2, <2>1, StoredFits DEF LineOf
  <2> QED
    BY <1>2, <2>1, <2>2 DEF Detected
<1>3. CASE Pattern[s] # "movl"
  BY <1>3 DEF LineOf, Detected
<1> QED
  BY <1>2, <1>3

LEMMA FittingStep == ASSUME FittingInv, [Next]_vars PROVE FittingInv'
<1>1. CASE UNCHANGED vars
  BY <1>1 DEF vars, FittingInv, Fitting
<1>2. CASE disable_markers \/ with_marker_strategy
  BY <1>2 DEF disable_markers, with_marker_strategy, FittingInv, Fitting
<1>3. CASE compile
  BY <1>3 DEF compile, FittingInv, Fitting
<1>4. CASE search_line
  <2>1. PICK line \in lines :
           /\ found' = found \cup (Detected(strategy, line) \cap enabled)
           /\ lines' = lines \ {line}
           /\ pc' = IF Detected(strategy, line) \subseteq enabled THEN pc ELSE "raised"
    BY <1>4 DEF search_line
  <2>2. pc = "compiled" /\ UNCHANGED <<enabled, strategy, surviving>> /\ Fitting' = Fitting
    BY <1>4 DEF search_line, Fitting
  <2>3. ASSUME NEW i \in Fitting \ found', pc' = "compiled"
        PROVE  i \in enabled /\ LineOf(strategy, i) \in lines'
    <3>1. i \in enabled /\ LineOf(strategy, i) \in lines
      BY <2>1, <2>2, <2>3 DEF FittingInv
    <3>2. i \in Detected(strategy, LineOf(strategy, i))
      BY <2>2, <3>1, FittingRecognised DEF FittingInv, Fitting
    <3>3. LineOf(strategy, i) # line
      BY <2>1, <2>3, <3>1, <3>2
    <3> QED
      BY <2>1, <3>1, <3>3
  <2> QED
    BY <2>1, <2>2, <2>3 DEF FittingInv
<1>5. CASE return
  BY <1>5 DEF return, FittingInv, Fitting
<1> QED
  BY <1>1, <1>2, <1>3, <1>4, <1>5 DEF Next

(* A search that comes to its end has missed none of the markers that were *)
(* kept and whose magic integers fit an int, whatever the other ids and    *)
(* the other lines of the assembly are.                                    *)
THEOREM NoFittingMissed == Spec => [](pc = "idle" => Fitting \subseteq found)
<1>1. Init => FittingInv
  BY StrategiesAssumption DEF Init, FittingInv, Fitting
<1>2. FittingInv /\ [Next]_vars => FittingInv'
  BY FittingStep
<1>3. FittingInv => (pc = "idle" => Fitting \subseteq found)
  BY DEF FittingInv
<1> QED
  BY <1>1, <1>2, <1>3, PTL DEF Spec
=============================================================================
