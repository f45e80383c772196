--------------------------- MODULE ValueRangesProofs ---------------------------
(***************************************************************************)
(* Proofs about ValueRanges, for integer types of any widths.              *)
(***************************************************************************)
EXTENDS ValueRanges, TLAPS

Types == [max : Nat, signed : BOOLEAN]

Names == SignedNames \cup UnsignedNames

(* The tracking code declares "signed char" as "char", which must have its *)
(* values.                                                                 *)
CharHolds == CharSigned \/ "signed char" \notin Declared

(* The values a bound of a marker may have.                                *)
Bounds ==
    ValuesOf(TypeOf(declared))
        \cup (IF declared = "signed char" THEN 0..(2 * CharMax + 1) ELSE {})

(* The comparisons that C gets wrong: the least value of the widest signed *)
(* type is written with a literal of an unsigned type.                     *)
Misfires(x) ==
    /\ ~BigLiteral.signed
    /\ range.lb = -(LongLongMax + 1)
    /\ x \in 0..range.ub

-----------------------------------------------------------------------------
(* Conversions                                                             *)

LEMMA MaximaType ==
    /\ CharMax \in Nat /\ ShortMax \in Nat /\ IntMax \in Nat
    /\ LongMax \in Nat /\ LongLongMax \in Nat
BY MaximaAssumption DEF Maxima

(* A conversion to a type does not change the values of that type ...      *)
LEMMA ConvertKeeps ==
    ASSUME NEW t \in Types, NEW n \in ValuesOf(t)
    PROVE  Convert(n, t) = n
<1> DEFINE count == 2 * (t.max + 1)
<1>1. t.max \in Nat /\ t.signed \in BOOLEAN /\ count \in Nat \ {0} /\ n \in Int
  BY DEF Types, ValuesOf
<1>2. CASE n >= 0
  <2>1. n \in 0..(count - 1)
    BY <1>1, <1>2 DEF ValuesOf
  <2>2. n % count = n
    <3> HIDE DEF count
    <3> QED BY <1>1, <2>1
  <2> QED BY <2>2 DEF Convert
<1>3. CASE n < 0
  <2>1. n + count \in 0..(count - 1) /\ n + count > t.max /\ t.signed
    BY <1>1, <1>3 DEF ValuesOf
  <2>2. n % count = n + count
    <3> HIDE DEF count
    <3> QED BY <1>1, <2>1
  <2>3. n + count \notin ValuesOf(t) /\ (n + count) - count = n
    BY <1>1, <2>1 DEF ValuesOf
  <2> QED BY <2>2, <2>3 DEF Convert
<1> QED BY <1>1, <1>2, <1>3

(* ... and adds their number to a negative one if the type is unsigned.    *)
LEMMA ConvertNegative ==
    ASSUME NEW t \in Types, ~t.signed, NEW n \in -(t.max + 1)..(-1)
    PROVE  Convert(n, t) = n + 2 * (t.max + 1)
<1> DEFINE count == 2 * (t.max + 1)
<1>1. t.max \in Nat /\ count \in Nat \ {0} /\ n \in Int
      /\ n + count \in 0..(count - 1)
  BY DEF Types
<1>2. n % count = n + count
  <2> HIDE DEF count
  <2> QED BY <1>1
<1>3. n + count \in ValuesOf(t)
  BY <1>1 DEF ValuesOf
<1> QED BY <1>2, <1>3 DEF Convert

-----------------------------------------------------------------------------
(* Types                                                                   *)

LEMMA TypeFields ==
    ASSUME NEW name
    PROVE  /\ TypeOf(name).max = MaxOf(name)
           /\ TypeOf(name).signed = (name \in SignedNames)
           /\ ValuesOf(TypeOf(name)) =
                IF name \in SignedNames THEN -(MaxOf(name) + 1)..MaxOf(name)
                ELSE 0..(2 * MaxOf(name) + 1)
<1>1. TypeOf(name).max = MaxOf(name)
  BY DEF TypeOf
<1>2. TypeOf(name).signed = (name \in SignedNames)
  BY DEF TypeOf
<1> QED BY <1>1, <1>2 DEF ValuesOf

LEMMA NamedTypes ==
    ASSUME NEW name \in Names
    PROVE  /\ TypeOf(name) \in Types
           /\ TypeOf(name).max \in Maxima
           /\ TypeOf(name).max <= LongLongMax
           /\ TypeOf(name).max <= CharMax \/ TypeOf(name).max >= ShortMax
<1>1. MaxOf(name) \in Maxima
  BY DEF Names, SignedNames, UnsignedNames, MaxOf, Maxima
<1>2. \A m \in Maxima : m \in Nat /\ m <= LongLongMax /\ (m <= CharMax \/ m >= ShortMax)
  BY MaximaType, MaximaAssumption DEF Maxima
<1> QED
  BY <1>1, <1>2 DEF TypeOf, Types

LEMMA SpecialTypes ==
    /\ IntType = [max |-> IntMax, signed |-> TRUE]
    /\ LongType = [max |-> LongMax, signed |-> TRUE]
    /\ LongLongType = [max |-> LongLongMax, signed |-> TRUE]
    /\ BigLiteral \in Types
    /\ BigLiteral.max >= LongLongMax
    /\ BigLiteral.signed => BigLiteral.max >= 2 * LongLongMax + 1
<1>1. /\ IntType = [max |-> IntMax, signed |-> TRUE]
      /\ LongType = [max |-> LongMax, signed |-> TRUE]
      /\ LongLongType = [max |-> LongLongMax, signed |-> TRUE]
  <2>1. {"int", "long", "long long"} \subseteq SignedNames
    BY DEF SignedNames
  <2>2. MaxOf("int") = IntMax /\ MaxOf("long") = LongMax /\ MaxOf("long long") = LongLongMax
    BY DEF MaxOf
  <2> QED BY <2>1, <2>2 DEF IntType, LongType, LongLongType, TypeOf
<1> DEFINE ull == TypeOf("unsigned long long")
<1>2. ull.max = LongLongMax /\ ~ull.signed
  <2>1. "unsigned long long" \notin SignedNames
    BY DEF SignedNames
  <2>2. MaxOf("unsigned long long") = LongLongMax
    BY DEF MaxOf
  <2> QED BY <2>1, <2>2 DEF TypeOf
<1>3. 2 * LongLongMax + 1 \in ValuesOf(ull)
  <2> HIDE DEF ull
  <2> QED BY <1>2, MaximaType DEF ValuesOf
<1>4. BigLiteral \in Types /\ BigLiteral.max >= LongLongMax
  BY TypesAssumption DEF Types
<1>5. 2 * LongLongMax + 1 \in ValuesOf(BigLiteral)
  BY <1>3, TypesAssumption
<1>6. BigLiteral.signed => BigLiteral.max >= 2 * LongLongMax + 1
  BY <1>4, <1>5, MaximaType DEF ValuesOf, Types
<1> QED BY <1>1, <1>4, <1>6

(* A literal's type holds its value; it is signed, and as wide as an int   *)
(* at the least, unless no long long holds the value.                      *)
LEMMA LiteralTypes ==
    ASSUME NEW n \in 0..(2 * LongLongMax + 1)
    PROVE  /\ LiteralType(n) \in Types
           /\ n \in ValuesOf(LiteralType(n))
           /\ \/ /\ n <= LongLongMax
                 /\ LiteralType(n) \in {IntType, LongType, LongLongType}
              \/ n > LongLongMax /\ LiteralType(n) = BigLiteral
<1>1. CASE n <= LongLongMax
  <2>1. n \in ValuesOf(LongLongType)
    BY <1>1, SpecialTypes, MaximaType DEF ValuesOf
  <2>2. /\ LiteralType(n) \in {IntType, LongType, LongLongType}
        /\ n \in ValuesOf(LiteralType(n))
    BY <2>1 DEF LiteralType
  <2>3. {IntType, LongType, LongLongType} \subseteq Types
    BY SpecialTypes, MaximaType DEF Types
  <2> QED BY <1>1, <2>2, <2>3
<1>2. CASE n > LongLongMax
  <2>1. \A t \in {IntType, LongType, LongLongType} : n \notin ValuesOf(t)
    BY <1>2, SpecialTypes, MaximaType, MaximaAssumption DEF ValuesOf
  <2>2. LiteralType(n) = BigLiteral
    BY <2>1 DEF LiteralType
  <2>3. n \in ValuesOf(BigLiteral)
    BY <1>2, SpecialTypes, MaximaType DEF ValuesOf, Types
  <2> QED BY <1>2, <2>2, <2>3, SpecialTypes
<1> QED BY <1>1, <1>2, MaximaType

-----------------------------------------------------------------------------
(* Comparisons                                                             *)

(* A value of the variable x and a bound b keep their values in the type   *)
(* in which C compares them, unless b is negative and its literal          *)
(* unsigned.                                                               *)
LEMMA CommonHolds ==
    ASSUME NEW T \in Types, NEW n \in Nat, NEW b \in {n, -n},
           NEW x \in ValuesOf(T),
           T.max \in Maxima, T.max <= LongLongMax,
           n <= LongLongMax + 1 \/ (~T.signed /\ n <= 2 * LongLongMax + 1),
           b < 0 => T.signed /\ n <= T.max + 1,
           n > LongLongMax => (b < 0 \/ ~T.signed),
           b < 0 /\ n > LongLongMax => BigLiteral.signed
    PROVE  LET t == Common(T, LiteralType(n))
           IN  t \in Types /\ x \in ValuesOf(t) /\ b \in ValuesOf(t)
<1> DEFINE q == LiteralType(n)
           p == Promoted(T)
           t == Common(T, q)
<1> SUFFICES t \in Types /\ x \in ValuesOf(t) /\ b \in ValuesOf(t)
  OBVIOUS
<1>1. n \in 0..(2 * LongLongMax + 1)
  BY MaximaType
<1>2. /\ q \in Types /\ n \in ValuesOf(q)
      /\ \/ n <= LongLongMax /\ q.signed /\ q.max \in Maxima /\ q.max >= IntMax
         \/ n > LongLongMax /\ q = BigLiteral /\ q.max >= LongLongMax
  BY <1>1, LiteralTypes, SpecialTypes, MaximaType, MaximaAssumption DEF Maxima
<1>3. Promoted(q) = q
  BY <1>2, MaximaType, MaximaAssumption DEF Promoted, Types
<1>4. p \in Types /\ p.max \in Maxima /\ p.max <= LongLongMax /\ x \in ValuesOf(p)
  <2>1. CASE T.max < IntMax
    <3>1. p = IntType
      BY <2>1 DEF Promoted
    <3>2. IntMax \in Maxima /\ 2 * T.max + 1 <= IntMax
      BY <2>1, MaximaAssumption DEF Maxima
    <3> QED BY <3>1, <3>2, SpecialTypes, MaximaType, MaximaAssumption DEF Types, ValuesOf
  <2>2. CASE ~(T.max < IntMax)
    BY <2>2 DEF Promoted
  <2> QED BY <2>1, <2>2
<1>5. T.signed => p.signed
  BY SpecialTypes DEF Promoted
<1>6. p.max >= T.max
  BY MaximaType, SpecialTypes DEF Promoted, Types
<1>7. t = IF p.max > q.max \/ (p.max = q.max /\ q.signed) THEN p ELSE q
  BY <1>3 DEF Common
<1> HIDE DEF p, q, t
<1>8. CASE p.max > q.max \/ (p.max = q.max /\ q.signed)
  <2>1. t = p
    BY <1>7, <1>8
  <2>2. q.signed /\ q.max <= p.max /\ n <= q.max
    BY <1>2, <1>4, <1>8, MaximaType DEF Types, ValuesOf
  <2>3. b < 0 => p.signed /\ n <= p.max + 1
    BY <1>5, <1>6, <1>4 DEF Types
  <2>4. b \in ValuesOf(p)
    BY <1>2, <1>4, <2>2, <2>3 DEF Types, ValuesOf
  <2> QED BY <1>4, <2>1, <2>4
<1>9. CASE ~(p.max > q.max \/ (p.max = q.max /\ q.signed))
  <2>1. t = q /\ (p.max < q.max \/ (p.max = q.max /\ ~q.signed))
    BY <1>2, <1>4, <1>7, <1>9 DEF Types
  <2>2. b \in ValuesOf(q)
    BY <1>2, SpecialTypes DEF Types, ValuesOf
  <2>3. CASE q.signed
    <3>1. 2 * p.max + 1 <= q.max
      <4>1. CASE q.max \in Maxima
        BY <1>4, <2>1, <2>3, <4>1, MaximaAssumption
      <4>2. CASE q = BigLiteral
        BY <1>4, <2>3, <4>2, SpecialTypes, MaximaType DEF Types
      <4> QED BY <1>2, <4>1, <4>2
    <3>2. x \in ValuesOf(q)
      BY <1>2, <1>4, <2>3, <3>1 DEF Types, ValuesOf
    <3> QED BY <1>2, <2>1, <2>2, <3>2
  <2>4. CASE ~q.signed
    <3>1. q = BigLiteral /\ ~T.signed
      BY <1>2, <2>4
    <3>2. x >= 0
      BY <3>1 DEF Types, ValuesOf
    <3>3. x \in ValuesOf(q)
      BY <1>2, <1>4, <2>1, <2>4, <3>2 DEF Types, ValuesOf
    <3> QED BY <1>2, <2>1, <2>2, <3>3
  <2> QED BY <1>2, <2>3, <2>4
<1> QED BY <1>8, <1>9

(* What a bound of the marker is to its declared type.                     *)
LEMMA BoundsOfType ==
    ASSUME declared \in Names, NEW b \in Bounds
    PROVE  LET T == TypeOf(declared)
               n == IF b < 0 THEN -b ELSE b
           IN  /\ b \in Int /\ n \in Nat /\ b \in {n, -n}
               /\ n <= LongLongMax + 1 \/ (~T.signed /\ n <= 2 * LongLongMax + 1)
               /\ b < 0 => T.signed /\ n <= T.max + 1
               /\ n > LongLongMax => (b < 0 \/ ~T.signed)
               /\ b < 0 /\ n > LongLongMax => b = -(LongLongMax + 1)
<1> DEFINE T == TypeOf(declared)
<1>1. T \in Types /\ T.max <= LongLongMax
  BY NamedTypes
<1> HIDE DEF T
<1>2. CASE b \in ValuesOf(T)
  BY <1>1, <1>2, MaximaType DEF Types, ValuesOf, T
<1>3. CASE b \notin ValuesOf(T)
  <2>1. b \in 0..(2 * CharMax + 1)
    BY <1>3 DEF Bounds, T
  <2>2. 2 * CharMax + 1 <= LongLongMax
    BY MaximaType, MaximaAssumption DEF Maxima
  <2> QED BY <2>1, <2>2, MaximaType
<1> QED BY <1>2, <1>3

(* The guard compares as Python does ...                                   *)
LEMMA ComparesValues ==
    ASSUME declared \in Names, NEW x \in ValuesOf(TypeOf(declared)), NEW b \in Bounds,
           b # -(LongLongMax + 1) \/ BigLiteral.signed
    PROVE  /\ AtLeast(x, Bound(b)) <=> x >= b
           /\ AtMost(x, Bound(b)) <=> x <= b
<1> DEFINE T == TypeOf(declared)
           n == IF b < 0 THEN -b ELSE b
           q == LiteralType(n)
           t == Common(T, q)
<1>1. /\ b \in Int /\ n \in Nat /\ b \in {n, -n}
      /\ n <= LongLongMax + 1 \/ (~T.signed /\ n <= 2 * LongLongMax + 1)
      /\ b < 0 => T.signed /\ n <= T.max + 1
      /\ n > LongLongMax => (b < 0 \/ ~T.signed)
      /\ b < 0 /\ n > LongLongMax => BigLiteral.signed
  BY BoundsOfType
<1>2. T \in Types /\ T.max \in Maxima /\ T.max <= LongLongMax
  BY NamedTypes
<1>3. n \in 0..(2 * LongLongMax + 1) /\ (b < 0 => b = -n)
  BY <1>1, MaximaType
<1>4. Bound(b) = [type |-> q, value |-> Convert(b, q)]
  BY DEF Bound
<1> HIDE DEF T, n
<1>5. q \in Types /\ n \in ValuesOf(q) /\ (b < 0 => q.signed)
  BY <1>1, <1>3, LiteralTypes, SpecialTypes
<1>6. t \in Types /\ x \in ValuesOf(t) /\ b \in ValuesOf(t)
  BY <1>1, <1>2, CommonHolds DEF T
<1> HIDE DEF q
<1>7. b \in ValuesOf(q)
  BY <1>1, <1>3, <1>5 DEF Types, ValuesOf
<1>8. Convert(b, q) = b
  BY <1>5, <1>7, ConvertKeeps
<1> HIDE DEF t
<1>9. Convert(x, t) = x /\ Convert(b, t) = b
  BY <1>6, ConvertKeeps
<1> QED BY <1>4, <1>8, <1>9 DEF AtLeast, AtMost, t, T

(* ... except with the least bound of all if its literal is unsigned.      *)
LEMMA ComparesWrapped ==
    ASSUME declared \in Names, NEW x \in ValuesOf(TypeOf(declared)),
           -(LongLongMax + 1) \in Bounds, ~BigLiteral.signed
    PROVE  LET b == Bound(-(LongLongMax + 1))
           IN  /\ AtLeast(x, b) <=> x < 0
               /\ AtMost(x, b) <=> x >= 0 \/ x = -(LongLongMax + 1)
<1> DEFINE T == TypeOf(declared)
           n == LongLongMax + 1
           t == BigLiteral
           p == Promoted(T)
<1>1. T \in Types /\ T.max \in Maxima /\ T.max <= LongLongMax
  BY NamedTypes
<1>2. -n \in Int /\ -n < 0 /\ n \in 0..(2 * LongLongMax + 1) /\ n > LongLongMax /\ -(-n) = n
  BY MaximaType
<1>3. T.signed /\ T.max = LongLongMax
  BY <1>1, <1>2, BoundsOfType, MaximaType DEF Types
<1>4. t \in Types /\ t.max >= LongLongMax
  BY SpecialTypes
<1>5. LiteralType(n) = t
  <2> HIDE DEF n
  <2>1. ~(n <= LongLongMax)
    BY <1>2, MaximaType
  <2> QED BY <1>2, <2>1, LiteralTypes
<1>6. Bound(-n) = [type |-> t, value |-> Convert(-n, t)]
  BY <1>2, <1>5 DEF Bound
<1> HIDE DEF T
<1>7. Promoted(t) = t /\ p = T
  BY <1>1, <1>3, <1>4, MaximaType, MaximaAssumption DEF Promoted, Types
<1>8. Common(T, t) = t
  BY <1>1, <1>3, <1>4, <1>7, MaximaType DEF Common, Types
<1>9. Convert(-n, t) = 2 * (t.max + 1) - n
  <2>1. -n \in -(t.max + 1)..(-1)
    BY <1>4, MaximaType DEF Types
  <2>2. Convert(-n, t) = -n + 2 * (t.max + 1)
    BY <1>4, <2>1, ConvertNegative
  <2> QED BY <1>4, <2>2, MaximaType DEF Types
<1> DEFINE m == 2 * (t.max + 1) - n
<1>10. Convert(m, t) = m
  <2>1. m \in ValuesOf(t)
    BY <1>4, MaximaType DEF Types, ValuesOf
  <2> QED BY <1>4, <2>1, ConvertKeeps
<1>11. /\ AtLeast(x, Bound(-n)) <=> Convert(x, t) >= m
       /\ AtMost(x, Bound(-n)) <=> Convert(x, t) <= m
  BY <1>6, <1>8, <1>9, <1>10 DEF AtLeast, AtMost, T
<1>12. x \in -n..LongLongMax
  BY <1>3, MaximaType DEF ValuesOf, T
<1>13. CASE x >= 0
  <2>1. x \in ValuesOf(t)
    BY <1>4, <1>12, <1>13, MaximaType DEF Types, ValuesOf
  <2>2. Convert(x, t) = x
    BY <1>4, <2>1, ConvertKeeps
  <2>3. x < m /\ x # -n /\ x \in Int /\ m \in Int
    BY <1>4, <1>12, <1>13, MaximaType DEF Types
  <2> HIDE DEF m
  <2> QED BY <1>11, <1>13, <2>2, <2>3
<1>14. CASE x < 0
  <2>1. x \in -(t.max + 1)..(-1)
    BY <1>4, <1>12, <1>14, MaximaType DEF Types
  <2>2. Convert(x, t) = x + 2 * (t.max + 1)
    BY <1>4, <2>1, ConvertNegative
  <2>3. /\ x + 2 * (t.max + 1) >= m
        /\ x + 2 * (t.max + 1) <= m <=> x = -n
    BY <1>4, <1>12, MaximaType DEF Types
  <2> HIDE DEF m
  <2> QED BY <1>11, <1>12, <1>14, <2>2, <2>3, MaximaType
<1> QED BY <1>12, <1>13, <1>14, MaximaType

-----------------------------------------------------------------------------
(* Tracking                                                                *)

(* The globals hold every value of the variable, and printf prints every   *)
(* value of the globals.                                                   *)
LEMMA TrackedValues ==
    ASSUME declared \in Declared, NEW x \in ValuesOf(TypeOf(declared))
    PROVE  /\ Convert(x, TrackedType) \in Bounds
           /\ CharHolds => Convert(x, TrackedType) = x
<1>1. declared \in Names
  BY TypesAssumption DEF Names
<1>2. CASE declared = "signed char"
  <2>1. TrackedType = TypeOf("char")
    BY <1>2 DEF TrackedType, variable_type, convert_variable_type
  <2>2. /\ TrackedType \in Types /\ TrackedType.max = CharMax
        /\ TrackedType.signed <=> CharSigned
    <3>1. "char" \in SignedNames <=> CharSigned
      BY TypesAssumption DEF SignedNames
    <3>2. MaxOf("char") = CharMax
      BY DEF MaxOf
    <3>3. TrackedType \in Types
      BY <2>1, <3>2, MaximaType DEF TypeOf, Types
    <3> QED BY <2>1, <3>1, <3>2, <3>3, TypeFields
  <2>3. x \in -(CharMax + 1)..CharMax
    <3>1. "signed char" \in SignedNames /\ MaxOf("signed char") = CharMax
      BY DEF SignedNames, MaxOf
    <3> QED BY <1>2, <3>1 DEF TypeOf, ValuesOf
  <2>4. x \in ValuesOf(TrackedType) => Convert(x, TrackedType) = x
    BY <2>2, ConvertKeeps
  <2>5. x \notin ValuesOf(TrackedType) => Convert(x, TrackedType) \in 0..(2 * CharMax + 1)
    <3> SUFFICES ASSUME x \notin ValuesOf(TrackedType)
                 PROVE  Convert(x, TrackedType) \in 0..(2 * CharMax + 1)
      OBVIOUS
    <3>1. ~TrackedType.signed /\ x \in -(TrackedType.max + 1)..(-1)
      BY <2>2, <2>3, MaximaType DEF ValuesOf
    <3>2. Convert(x, TrackedType) = x + 2 * (TrackedType.max + 1)
      BY <2>2, <3>1, ConvertNegative
    <3> QED BY <2>2, <3>1, <3>2, MaximaType
  <2>6. CharHolds => x \in ValuesOf(TrackedType)
    BY <1>2, <2>2, <2>3 DEF CharHolds, ValuesOf
  <2> QED BY <1>2, <2>4, <2>5, <2>6 DEF Bounds
<1>3. CASE declared # "signed char"
  <2>1. TrackedType \in Types /\ x \in ValuesOf(TrackedType)
    <3>1. CASE declared \in {"_Bool", "bool"}
      <4>1. TrackedType = IntType
        BY <3>1 DEF TrackedType, variable_type, convert_variable_type, IntType
      <4>2. x \in 0..1
        <5>1. declared \notin SignedNames /\ MaxOf(declared) = 0
          BY <3>1 DEF SignedNames, MaxOf
        <5> QED BY <5>1, TypeFields
      <4>3. IntMax >= 1
        BY MaximaType, MaximaAssumption
      <4> QED BY <4>1, <4>2, <4>3, SpecialTypes, MaximaType DEF Types, ValuesOf
    <3>2. CASE declared \notin {"_Bool", "bool"}
      <4>1. TrackedType = TypeOf(declared)
        BY <1>3, <3>2 DEF TrackedType, variable_type, convert_variable_type
      <4> QED BY <1>1, <4>1, NamedTypes
    <3> QED BY <3>1, <3>2
  <2> QED BY <2>1, ConvertKeeps DEF Bounds
<1> QED BY <1>2, <1>3

LEMMA PrintedValues ==
    ASSUME declared \in Declared, NEW b \in Bounds
    PROVE  Printed(b) = b
<1>1. declared \in Names
  BY TypesAssumption DEF Names
<1> DEFINE f == format_specifier(variable_type)
<1>2. f \in Types /\ b \in ValuesOf(f)
  <2>1. CASE declared \in {"_Bool", "bool", "char", "signed char", "int"}
    <3>1. f = IntType
      BY <2>1 DEF variable_type, convert_variable_type, format_specifier
    <3>2. CASE declared = "int"
      BY <1>1, <3>1, <3>2, NamedTypes DEF Bounds, IntType
    <3>3. CASE declared # "int"
      <4>1. MaxOf(declared) \in {0, CharMax}
        BY <2>1, <3>3 DEF MaxOf
      <4>2. \A m \in {0, CharMax} : m \in Nat /\ 2 * m + 1 <= IntMax
        BY MaximaType, MaximaAssumption DEF Maxima
      <4>3. b \in -(IntMax + 1)..IntMax
        <5>1. ValuesOf(TypeOf(declared)) \subseteq -(IntMax + 1)..IntMax
          BY <4>1, <4>2, TypeFields, MaximaType
        <5>2. 0..(2 * CharMax + 1) \subseteq -(IntMax + 1)..IntMax
          BY <4>2, MaximaType
        <5> QED BY <5>1, <5>2 DEF Bounds
      <4> QED BY <3>1, <4>3, SpecialTypes, MaximaType DEF Types, ValuesOf
    <3> QED BY <3>2, <3>3
  <2>2. CASE declared = "unsigned char"
    <3>1. f = TypeOf("unsigned int")
      BY <2>2 DEF variable_type, convert_variable_type, format_specifier
    <3>2. MaxOf(declared) = CharMax /\ MaxOf("unsigned int") = IntMax
      BY <2>2 DEF MaxOf
    <3>3. declared \notin SignedNames /\ "unsigned int" \notin SignedNames
      BY <2>2 DEF SignedNames
    <3>4. f \in Types
      <4>1. "unsigned int" \in Names
        BY DEF Names, UnsignedNames
      <4> QED BY <3>1, <4>1, NamedTypes
    <3>5. ValuesOf(TypeOf(declared)) \subseteq ValuesOf(f)
      <4>1. ValuesOf(TypeOf(declared)) = 0..(2 * CharMax + 1)
        BY <3>2, <3>3, TypeFields
      <4>2. ValuesOf(TypeOf("unsigned int")) = 0..(2 * IntMax + 1)
        BY <3>2, <3>3, TypeFields
      <4>3. 0..(2 * CharMax + 1) \subseteq 0..(2 * IntMax + 1)
        BY MaximaType, MaximaAssumption
      <4> QED BY <3>1, <4>1, <4>2, <4>3
    <3> QED BY <2>2, <3>4, <3>5 DEF Bounds
  <2>3. CASE declared \notin {"_Bool", "bool", "char", "signed char", "unsigned char", "int"}
    <3>1. f = TypeOf(declared)
      BY <2>3 DEF variable_type, convert_variable_type, format_specifier
    <3> QED BY <1>1, <2>3, <3>1, NamedTypes DEF Bounds
  <2> QED BY <2>1, <2>2, <2>3
<1> QED BY <1>2, ConvertKeeps DEF Printed

-----------------------------------------------------------------------------
(* The inductive invariant                                                 *)

IsRange(r, S) == /\ r = [lb |-> r.lb, ub |-> r.ub]
                 /\ r.lb \in S /\ r.ub \in S /\ r.lb <= r.ub

(* A verdict differs from the marker's promise only where it must.         *)
Verdict(w) ==
    /\ w.value \in ValuesOf(TypeOf(declared))
    /\ w.fired <=> (w.value \notin range.lb..range.ub \/ Misfires(w.value))

RangeInv ==
    /\ declared \in Declared
    /\ phase \in {"made", "tracking", "refined"}
    /\ IsRange(range, Bounds)
    /\ \A w \in verdicts : Verdict(w)
    /\ phase # "tracking" => tracked = None
    /\ phase = "tracking" =>
          /\ verdicts = {}
          /\ IsRange(tracked, Bounds)
          /\ IsRange(met, ValuesOf(TypeOf(declared)))
          /\ CharHolds => tracked = met
    /\ phase = "refined" /\ CharHolds => range = met

LEMMA InitInv == Init => RangeInv
<1> SUFFICES ASSUME Init PROVE RangeInv
  OBVIOUS
<1>1. 0 \in Bounds
  <2>1. declared \in Names
    BY TypesAssumption DEF Init, Names
  <2>2. TypeOf(declared) \in Types
    BY <2>1, NamedTypes
  <2>3. 0 \in ValuesOf(TypeOf(declared))
    BY <2>2 DEF Types, ValuesOf
  <2> QED BY <2>3 DEF Bounds
<1>2. range = [lb |-> 0, ub |-> 0]
  BY DEF Init
<1>3. IsRange(range, Bounds)
  BY <1>1, <1>2 DEF IsRange
<1> QED BY <1>3 DEF Init, RangeInv

LEMMA BoundsAreIntegers ==
    ASSUME declared \in Declared
    PROVE  Bounds \subseteq Int
<1>1. declared \in Names
  BY TypesAssumption DEF Names
<1> QED BY <1>1, BoundsOfType

(* The guard's verdict on any value.                                       *)
LEMMA GuardVerdict ==
    ASSUME RangeInv, NEW x \in ValuesOf(TypeOf(declared))
    PROVE  marker_statement_prefix(x) <=> (x \notin range.lb..range.ub \/ Misfires(x))
<1> DEFINE least == -(LongLongMax + 1)
<1>1. /\ declared \in Names /\ x \in Bounds /\ x \in Int
      /\ range.lb \in Bounds /\ range.ub \in Bounds
      /\ range.lb \in Int /\ range.ub \in Int /\ range.lb <= range.ub
  BY TypesAssumption, BoundsAreIntegers DEF RangeInv, IsRange, Names, Bounds
<1>2. least \in Int /\ least < 0
  BY MaximaType
<1>3. CASE BigLiteral.signed \/ range.lb # least
  <2>1. AtLeast(x, Bound(range.lb)) <=> x >= range.lb
    BY <1>1, <1>3, ComparesValues
  <2>2. range.ub # least \/ BigLiteral.signed
    <3>1. \A b \in Bounds : b >= least
      BY <1>1, BoundsOfType, MaximaType
    <3> HIDE DEF least
    <3> QED BY <1>1, <1>2, <1>3, <3>1
  <2>3. AtMost(x, Bound(range.ub)) <=> x <= range.ub
    BY <1>1, <2>2, ComparesValues
  <2>4. ~Misfires(x)
    BY <1>3 DEF Misfires
  <2> QED BY <1>1, <2>1, <2>3, <2>4 DEF marker_statement_prefix
<1>4. CASE ~BigLiteral.signed /\ range.lb = least
  <2>1. AtLeast(x, Bound(range.lb)) <=> x < 0
    BY <1>1, <1>4, ComparesWrapped
  <2>2. x >= least
    BY <1>1, BoundsOfType, MaximaType
  <2>3. Misfires(x) <=> x \in 0..range.ub
    BY <1>4 DEF Misfires
  <2>4. CASE range.ub = least
    <3>1. AtMost(x, Bound(range.ub)) <=> x >= 0 \/ x = least
      BY <1>1, <1>4, <2>4, ComparesWrapped
    <3> HIDE DEF least
    <3> QED BY <1>1, <1>2, <1>4, <2>1, <2>2, <2>3, <2>4, <3>1 DEF marker_statement_prefix
  <2>5. CASE range.ub # least
    <3>1. AtMost(x, Bound(range.ub)) <=> x <= range.ub
      BY <1>1, <2>5, ComparesValues
    <3> HIDE DEF least
    <3> QED BY <1>1, <1>2, <1>4, <2>1, <2>2, <2>3, <3>1 DEF marker_statement_prefix
  <2> QED BY <2>4, <2>5
<1> QED BY <1>3, <1>4

LEMMA EvaluateInv == ASSUME RangeInv, evaluate PROVE RangeInv'
<1>1. PICK x \in ValuesOf(TypeOf(declared)) :
         verdicts' = {[value |-> x, fired |-> marker_statement_prefix(x)]}
  BY DEF evaluate
<1>2. UNCHANGED <<declared, range, tracked, met, phase>> /\ phase # "tracking"
  BY DEF evaluate
<1>3. marker_statement_prefix(x) \in BOOLEAN
  BY DEF marker_statement_prefix
<1>4. \A w \in verdicts' : Verdict(w)
  BY <1>1, <1>3, GuardVerdict DEF Verdict
<1>5. \A w \in verdicts' : Verdict(w)'
  BY <1>2, <1>4 DEF Verdict, Misfires
<1> QED BY <1>2, <1>5 DEF RangeInv, IsRange, Bounds

(* The widened range still consists of values of S.                        *)
LEMMA SpanningIsRange ==
    ASSUME NEW S, S \subseteq Int, NEW x \in S, NEW r, r = None \/ IsRange(r, S)
    PROVE  IsRange(Spanning(r, x), S)
<1>1. CASE r = None
  BY <1>1 DEF Spanning, IsRange
<1>2. CASE r # None
  <2>1. IsRange(r, S) /\ r.lb \in Int /\ r.ub \in Int /\ x \in Int
    BY <1>2 DEF IsRange
  <2> QED BY <1>2, <2>1 DEF Spanning, IsRange
<1> QED BY <1>1, <1>2

LEMMA TrackInv == ASSUME RangeInv, track PROVE RangeInv'
<1>1. PICK x \in ValuesOf(TypeOf(declared)) :
         /\ tracked' = Spanning(tracked, Convert(x, TrackedType))
         /\ met' = Spanning(IF phase = "tracking" THEN met ELSE None, x)
  BY DEF track
<1>2. UNCHANGED <<declared, range>> /\ phase' = "tracking" /\ verdicts' = {}
  BY DEF track
<1> DEFINE S == ValuesOf(TypeOf(declared))
           before == IF phase = "tracking" THEN met ELSE None
<1>3. declared \in Declared /\ Bounds \subseteq Int /\ S \subseteq Bounds
  BY BoundsAreIntegers DEF RangeInv, Bounds
<1>4. /\ Convert(x, TrackedType) \in Bounds
      /\ CharHolds => Convert(x, TrackedType) = x
  BY <1>3, TrackedValues
<1>5. /\ tracked = None \/ IsRange(tracked, Bounds)
      /\ before = None \/ IsRange(before, S)
      /\ CharHolds => tracked = before
  BY DEF RangeInv
<1> HIDE DEF S, before
<1>6. IsRange(tracked', Bounds)
  BY <1>1, <1>3, <1>4, <1>5, SpanningIsRange
<1>7. IsRange(met', S)
  <2>1. x \in S
    BY DEF S
  <2> QED BY <1>1, <1>3, <1>5, <2>1, SpanningIsRange DEF before
<1>8. CharHolds => tracked' = met'
  BY <1>1, <1>4, <1>5 DEF before
<1> QED BY <1>2, <1>6, <1>7, <1>8 DEF RangeInv, IsRange, Bounds, CharHolds, S

LEMMA RefineInv == ASSUME RangeInv, refine PROVE RangeInv'
<1>1. /\ declared \in Declared /\ IsRange(tracked, Bounds)
      /\ CharHolds => tracked = met
  BY DEF RangeInv, refine
<1>2. Printed(tracked.lb) = tracked.lb /\ Printed(tracked.ub) = tracked.ub
  BY <1>1, PrintedValues DEF IsRange
<1>3. range' = tracked /\ phase' = "refined"
  BY <1>1, <1>2 DEF refine, IsRange
<1>4. UNCHANGED <<declared, met>> /\ tracked' = None /\ verdicts' = {}
  BY DEF refine, RangeInv
<1> QED BY <1>1, <1>3, <1>4 DEF RangeInv, IsRange, Bounds, CharHolds

LEMMA StepInv == ASSUME RangeInv, [Next]_vars PROVE RangeInv'
<1>1. CASE UNCHANGED vars
  BY <1>1 DEF vars, RangeInv, IsRange, Verdict, Misfires, Bounds, CharHolds
<1> QED BY <1>1, EvaluateInv, TrackInv, RefineInv DEF Next

LEMMA Invariance == Spec => []RangeInv
BY InitInv, StepInv, PTL DEF Spec

-----------------------------------------------------------------------------
(* Theorems                                                                *)

(* Whatever the widths of the types, the bounds of a refined marker are    *)
(* the least and the greatest value of the run, and building it does not   *)
(* raise, if plain char has the values of the signed chars tracked in it.  *)
THEOREM RefinesToSpan == CharHolds => (Spec => []RefinedToSpan)
<1>1. CharHolds /\ RangeInv => RefinedToSpan
  BY DEF RangeInv, RefinedToSpan
<1>2. ASSUME CharHolds PROVE Spec => []RefinedToSpan
  <2>1. RangeInv => RefinedToSpan
    BY <1>1, <1>2
  <2> QED BY <2>1, Invariance, PTL
<1> QED BY <1>2

(* Whatever the types of the variable and of the literals, the guard fires *)
(* for exactly the values outside of the bounds, as long as the compiler   *)
(* gives a literal that no long long holds a signed type.                  *)
THEOREM GuardIsDeadInRange == BigLiteral.signed => (Spec => []DeadInRange)
<1>1. BigLiteral.signed /\ RangeInv => DeadInRange
  BY DEF RangeInv, Verdict, Misfires, DeadInRange
<1>2. ASSUME BigLiteral.signed PROVE Spec => []DeadInRange
  <2>1. RangeInv => DeadInRange
    BY <1>1, <1>2
  <2> QED BY <2>1, Invariance, PTL
<1> QED BY <1>2

(* With an unsigned type the guard is wrong about one kind of value only:  *)
(* those from 0 to the upper bound when the lower bound is the least value *)
(* of the widest type.  It fires for them although they are in range.      *)
THEOREM GuardMisfiresExactly ==
    Spec => [](\A w \in verdicts :
                  w.fired <=> (w.value \notin range.lb..range.ub \/ Misfires(w.value)))
<1>1. RangeInv => \A w \in verdicts :
                     w.fired <=> (w.value \notin range.lb..range.ub \/ Misfires(w.value))
  BY DEF RangeInv, Verdict
<1> QED BY <1>1, Invariance, PTL
=============================================================================
