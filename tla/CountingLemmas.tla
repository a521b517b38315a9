--------------------------- MODULE CountingLemmas ---------------------------
(***************************************************************************)
(* Lemmas that several components need: the remainders by which rings are  *)
(* indexed, the distance of two counters that wrap around, and totals.     *)
(***************************************************************************)
EXTENDS Totals, Integers, FiniteSetTheorems, WellFoundedInduction, TLAPS

-----------------------------------------------------------------------------
(* Remainders.                                                             *)

LEMMA ModIsRest ==
  ASSUME NEW n \in Nat \ {0}, NEW x \in Int
  PROVE  x % n \in 0..(n - 1) /\ x \div n \in Int /\ x = n * (x \div n) + (x % n)
OBVIOUS

LEMMA ModIsUnique ==
  ASSUME NEW n \in Nat \ {0}, NEW q \in Int, NEW m \in 0..(n - 1), NEW x \in Int, x = n * q + m
  PROVE  x % n = m
<1>1. x % n \in 0..(n - 1) /\ x \div n \in Int /\ x = n * (x \div n) + (x % n)
  BY ModIsRest
<1>2. n * (q - (x \div n)) = (x % n) - m
  BY <1>1
<1>3. (x % n) - m < n /\ (x % n) - m > -n
  BY <1>1
<1>4. q - (x \div n) = 0
  BY <1>1, <1>2, <1>3
<1> QED
  BY <1>1, <1>2, <1>4

LEMMA ModOfSmall == ASSUME NEW n \in Nat \ {0}, NEW x \in 0..(n - 1) PROVE x % n = x
OBVIOUS

LEMMA ModOfNext == ASSUME NEW n \in Nat \ {0}, NEW x \in n..(2 * n - 1) PROVE x % n = x - n
BY ModIsUnique

LEMMA ProductAssociates ==
  ASSUME NEW n \in Int, NEW a \in Int, NEW b \in Int, NEW w, w = n * a
  PROVE  w * b = n * (a * b)
OBVIOUS

LEMMA ProductDistributes ==
  ASSUME NEW n \in Int, NEW a \in Int, NEW b \in Int
  PROVE  n * (a + b) = n * a + n * b
OBVIOUS

LEMMA NestedRests ==
  ASSUME NEW n \in Int, NEW a \in Int, NEW w \in Int, w = n * a, NEW p \in Int, NEW q \in Int,
         NEW m \in Int, NEW y \in Int, NEW x \in Int, y = n * q + m, x = w * p + y
  PROVE  x = n * (a * p + q) + m
<1> DEFINE c == a * p
<1>1. c \in Int
  OBVIOUS
<1>2. w * p = n * c
  BY ProductAssociates
<1> HIDE DEF c
<1>3. n * c \in Int /\ n * q \in Int /\ n * (c + q) = n * c + n * q
  BY <1>1, ProductDistributes
<1>4. x = n * (c + q) + m
  BY <1>2, <1>3
<1> QED
  BY <1>4 DEF c

(* A multiple of n more or less does not matter.                           *)
LEMMA ModOfMod ==
  ASSUME NEW n \in Nat \ {0}, NEW w \in Nat \ {0}, w % n = 0, NEW x \in Int
  PROVE  (x % w) % n = x % n
<1>1. x % w \in Int /\ x \div w \in Int /\ x = w * (x \div w) + (x % w)
  BY ModIsRest
<1>2. w \div n \in Int /\ w = n * (w \div n)
  BY ModIsRest
<1>3. PICK p \in Int : x = w * p + (x % w)
  BY <1>1
<1>4. PICK a \in Int : w = n * a
  BY <1>2
<1>5. (x % w) % n \in 0..(n - 1) /\ (x % w) \div n \in Int
      /\ x % w = n * ((x % w) \div n) + ((x % w) % n)
  BY <1>1, ModIsRest
<1>6. PICK q \in Int : x % w = n * q + ((x % w) % n)
  BY <1>5
<1>7. n \in Int /\ w \in Int /\ (x % w) % n \in Int
  BY <1>5
<1>8. x = n * (a * p + q) + ((x % w) % n)
  BY <1>1, <1>3, <1>4, <1>6, <1>7, NestedRests
<1>9. a * p + q \in Int
  OBVIOUS
<1>10. PICK c \in Int : x = n * c + ((x % w) % n)
  BY <1>8, <1>9
<1> DEFINE m == (x % w) % n
<1>11. m \in 0..(n - 1) /\ x = n * c + m
  BY <1>5, <1>10
<1> HIDE DEF m
<1>12. x % n = m
  BY <1>11, ModIsUnique
<1> QED
  BY <1>12 DEF m

(* Equal remainders stay equal.                                            *)
LEMMA ProductSums ==
  ASSUME NEW n \in Int, NEW d \in Int, NEW p \in Int, NEW q \in Int
  PROVE  n * (d + p - q) = n * d + n * p - n * q
OBVIOUS

Congruent(x, y, n) == x % n = y % n

LEMMA ModShifts ==
  ASSUME NEW n \in Nat \ {0}, NEW x \in Int, NEW y \in Int, Congruent(x, y, n),
         NEW u \in Int, NEW v \in Int, u - v = x - y
  PROVE  Congruent(u, v, n)
<1>1. x % n = y % n
  BY DEF Congruent
<1>2. /\ x % n \in Int /\ x \div n \in Int /\ x = n * (x \div n) + (x % n)
      /\ y % n \in Int /\ y \div n \in Int /\ y = n * (y \div n) + (y % n)
  BY ModIsRest
<1>3. v % n \in 0..(n - 1) /\ v \div n \in Int /\ v = n * (v \div n) + (v % n)
  BY ModIsRest
<1>4. PICK p \in Int : p = x \div n
  BY <1>2
<1>5. PICK q \in Int : q = y \div n
  BY <1>2
<1>6. PICK d \in Int : d = v \div n
  BY <1>3
<1>7. PICK m \in 0..(n - 1) : m = v % n
  BY <1>3
<1>8. n * (d + p - q) = n * d + n * p - n * q
  BY ProductSums
<1>9. n * d \in Int /\ n * p \in Int /\ n * q \in Int
  OBVIOUS
<1>10. x = n * p + (x % n) /\ y = n * q + (x % n) /\ v = n * d + m
  BY <1>1, <1>2, <1>3, <1>4, <1>5, <1>6, <1>7
<1>11. u = n * (d + p - q) + m
  <2>1. PICK D \in Int, P \in Int, Q \in Int : D = n * d /\ P = n * p /\ Q = n * q
    BY <1>9
  <2>2. x = P + (x % n) /\ y = Q + (x % n) /\ v = D + m
    BY <1>10, <2>1
  <2>3. u = D + P - Q + m
    BY <1>2, <2>2
  <2> QED
    BY <1>8, <2>1, <2>3
<1>12. d + p - q \in Int
  OBVIOUS
<1>13. PICK k \in Int : u = n * k + m
  BY <1>11, <1>12
<1>14. \A z \in Int : z = n * k + m => z % n = m
  BY ModIsUnique
<1> QED
  BY <1>7, <1>13, <1>14 DEF Congruent

(* Sums of a counter that wraps around at a multiple of n.                 *)
LEMMA ModOfSum ==
  ASSUME NEW n \in Nat \ {0}, NEW w \in Nat \ {0}, w % n = 0, NEW x \in Int, NEW j \in Int
  PROVE  ((x % w) + j) % n = (x + j) % n
<1>1. x % w \in Int
  BY ModIsRest
<1>2. (x % w) % n = x % n
  BY ModOfMod
<1>3. PICK y \in Int : y = x % w
  BY <1>1
<1>4. PICK u \in Int : u = y + j
  OBVIOUS
<1>5. PICK v \in Int : v = x + j
  OBVIOUS
<1>6. Congruent(x, y, n) /\ v - u = x - y
  BY <1>2, <1>3, <1>4, <1>5 DEF Congruent
<1>7. Congruent(v, u, n)
  BY <1>6, ModShifts
<1> QED
  BY <1>3, <1>4, <1>5, <1>7 DEF Congruent

LEMMA ModOfWhole == ASSUME NEW w \in Nat \ {0} PROVE w % w = 0 /\ 0 % w = 0
BY ModIsUnique

LEMMA ModOfDifference ==
  ASSUME NEW w \in Nat \ {0}, NEW x \in Int, NEW j \in Int
  PROVE  ((x % w) + w - j) % w = (x - j) % w
<1>1. w % w = 0 /\ 0 % w = 0
  BY ModOfWhole
<1>2. PICK k \in Int : k = w - j
  OBVIOUS
<1>3. ((x % w) + k) % w = (x + k) % w
  BY <1>1, ModOfSum
<1>4. PICK i \in Int : i = x - j
  OBVIOUS
<1>5. PICK u \in Int : u = x + k
  OBVIOUS
<1>6. u - i = w - 0 /\ 0 \in Int /\ w \in Int /\ Congruent(w, 0, w)
  BY <1>1, <1>2, <1>4, <1>5 DEF Congruent
<1>7. Congruent(u, i, w)
  BY <1>6, ModShifts
<1>8. x % w \in Int
  BY ModIsRest
<1>9. (x % w) + w - j = (x % w) + k
  BY <1>2, <1>8
<1> QED
  BY <1>3, <1>4, <1>5, <1>7, <1>9 DEF Congruent

(* Less than n apart, two slots are different.                             *)
LEMMA SlotsDiffer ==
  ASSUME NEW n \in Nat \ {0}, NEW x \in Int, NEW y \in Int, x < y, y < x + n
  PROVE  x % n # y % n
<1> SUFFICES ASSUME x % n = y % n PROVE FALSE
  OBVIOUS
<1>1. /\ x % n \in Int /\ x \div n \in Int /\ x = n * (x \div n) + (x % n)
      /\ y % n \in Int /\ y \div n \in Int /\ y = n * (y \div n) + (y % n)
  BY ModIsRest
<1> DEFINE k == (y \div n) - (x \div n)
<1>2. k \in Int /\ y - x = n * k
  BY <1>1
<1>3. 0 < n * k /\ n * k < n
  BY <1>2
<1> HIDE DEF k
<1> QED
  BY <1>2, <1>3

-----------------------------------------------------------------------------
(* Counters that count modulo w, and how far apart they are.               *)

LEMMA Distance ==
  ASSUME NEW w \in Nat \ {0}, NEW a \in 0..(w - 1), NEW b \in 0..(w - 1)
  PROVE  /\ (b + w - a) % w \in 0..(w - 1)
         /\ (b + w - a) % w = IF a <= b THEN b - a ELSE b + w - a
<1>1. CASE a <= b
  BY <1>1, ModOfNext
<1>2. CASE ~(a <= b)
  BY <1>2, ModOfSmall
<1> QED
  BY <1>1, <1>2

LEMMA Advance ==
  ASSUME NEW w \in Nat \ {0}, NEW a \in 0..(w - 1)
  PROVE  (a + 1) % w \in 0..(w - 1) /\ (a + 1) % w = IF a + 1 = w THEN 0 ELSE a + 1
<1>1. CASE a + 1 = w
  BY <1>1, ModIsUnique
<1>2. CASE a + 1 # w
  BY <1>2, ModOfSmall
<1> QED
  BY <1>1, <1>2

(* From a the counter b is as far as the sum of the steps.                 *)
LEMMA DistanceReaches ==
  ASSUME NEW w \in Nat \ {0}, NEW a \in 0..(w - 1), NEW b \in 0..(w - 1)
  PROVE  (a + ((b + w - a) % w)) % w = b
<1>1. CASE a <= b
  BY <1>1, Distance, ModOfSmall
<1>2. CASE ~(a <= b)
  BY <1>2, Distance, ModOfNext
<1> QED
  BY <1>1, <1>2

(* A counter that is so far ahead is that far away.                        *)
LEMMA DistanceIs ==
  ASSUME NEW w \in Nat \ {0}, NEW a \in 0..(w - 1), NEW d \in 0..(w - 1), NEW b, b = (a + d) % w
  PROVE  b \in 0..(w - 1) /\ (b + w - a) % w = d
<1>1. PICK c \in Nat : c = a + d
  OBVIOUS
<1>2. b = IF c < w THEN c ELSE c - w
  BY <1>1, ModOfSmall, ModOfNext
<1>3. b \in 0..(w - 1)
  BY <1>1, <1>2
<1>4. (b + w - a) % w = IF a <= b THEN b - a ELSE b + w - a
  BY <1>3, Distance
<1> QED
  BY <1>1, <1>2, <1>3, <1>4

(* One step of the counter ahead, or of the one behind.                    *)
LEMMA DistanceGrows ==
  ASSUME NEW w \in Nat \ {0}, NEW a \in 0..(w - 1), NEW b \in 0..(w - 1), (b + w - a) % w < w - 1
  PROVE  (((b + 1) % w) + w - a) % w = ((b + w - a) % w) + 1
<1> DEFINE c == (b + 1) % w
<1>1. c \in 0..(w - 1) /\ c = IF b + 1 = w THEN 0 ELSE b + 1
  BY Advance
<1>2. (b + w - a) % w = IF a <= b THEN b - a ELSE b + w - a
  BY Distance
<1>3. (c + w - a) % w = IF a <= c THEN c - a ELSE c + w - a
  <2> HIDE DEF c
  <2> QED
    BY <1>1, Distance
<1> HIDE DEF c
<1> QED
  BY <1>1, <1>2, <1>3 DEF c

LEMMA DistanceShrinks ==
  ASSUME NEW w \in Nat \ {0}, NEW a \in 0..(w - 1), NEW b \in 0..(w - 1), a # b
  PROVE  /\ (b + w - a) % w > 0
         /\ (b + w - ((a + 1) % w)) % w = ((b + w - a) % w) - 1
<1> DEFINE c == (a + 1) % w
<1>1. c \in 0..(w - 1) /\ c = IF a + 1 = w THEN 0 ELSE a + 1
  BY Advance
<1>2. (b + w - a) % w = IF a <= b THEN b - a ELSE b + w - a
  BY Distance
<1>3. (b + w - c) % w = IF c <= b THEN b - c ELSE b + w - c
  <2> HIDE DEF c
  <2> QED
    BY <1>1, Distance
<1> HIDE DEF c
<1> QED
  BY <1>1, <1>2, <1>3 DEF c

-----------------------------------------------------------------------------
(* The least of some numbers.                                              *)

LEMMA LeastOne == ASSUME NEW T, T \subseteq Nat, T # {} PROVE \E x \in T : \A y \in T : x <= y
<1> DEFINE Below == {s \in Nat \X Nat : s[1] < s[2]}
<1>1. IsWellFoundedOn(OpToRel(<, Nat), Nat)
  BY NatLessThanWellFounded, Zenon
<1>2. IsWellFoundedOn(Below, Nat)
  BY <1>1, Zenon DEF OpToRel
<1>3. \A s, t \in Nat : <<s, t>> \in Below <=> s < t
  OBVIOUS
<1> HIDE DEF Below
<1>4. PICK x \in T : \A y \in T : ~ (<<y, x>> \in Below)
  BY <1>2, WFMin
<1>5. \A y \in T : ~ (y < x)
  BY <1>3, <1>4
<1>6. \A y \in T : x \in Nat /\ y \in Nat
  OBVIOUS
<1> QED
  BY <1>5, <1>6

(* Up to n, one after the other.                                           *)
LEMMA StepByStep ==
  ASSUME NEW n \in Nat, NEW S, 0 \in S, \A k \in 0..(n - 1) : k \in S => k + 1 \in S
  PROVE  0..n \subseteq S
<1> DEFINE Bad == {k \in 0..n : k \notin S}
<1>1. SUFFICES ASSUME Bad # {} PROVE FALSE
  OBVIOUS
<1>2. PICK k \in Bad : \A j \in Bad : k <= j
  BY <1>1, LeastOne, Bad \subseteq Nat
<1>3. k - 1 \in 0..(n - 1) /\ k - 1 \in S
  BY <1>2
<1> QED
  BY <1>2, <1>3

-----------------------------------------------------------------------------
(* How many members of a finite set have something, when one of them       *)
(* changes, or two.                                                        *)

Among(x, A) == IF x \in A THEN 1 ELSE 0

LEMMA CountIsNat ==
  ASSUME NEW S, IsFiniteSet(S), NEW A, A \subseteq S
  PROVE  IsFiniteSet(A) /\ Cardinality(A) \in Nat
BY FS_Subset, FS_CardinalityType

LEMMA CountWithout ==
  ASSUME NEW S, IsFiniteSet(S), NEW A, A \subseteq S, NEW x
  PROVE  Cardinality(A) = Cardinality(A \ {x}) + Among(x, A)
<1>1. IsFiniteSet(A) /\ Cardinality(A) \in Nat
  BY CountIsNat
<1>2. Cardinality(A \ {x}) = IF x \in A THEN Cardinality(A) - 1 ELSE Cardinality(A)
  BY <1>1, FS_RemoveElement
<1> QED
  BY <1>1, <1>2 DEF Among

LEMMA CountChanges ==
  ASSUME NEW S, IsFiniteSet(S), NEW A, A \subseteq S, NEW B, B \subseteq S, NEW x,
         \A s \in S : s # x => (s \in A <=> s \in B)
  PROVE  /\ Cardinality(A) \in Nat /\ Cardinality(B) \in Nat
         /\ Cardinality(B) + Among(x, A) = Cardinality(A) + Among(x, B)
<1>1. A \ {x} = B \ {x}
  OBVIOUS
<1>2. Cardinality(A) = Cardinality(A \ {x}) + Among(x, A) /\ Cardinality(A \ {x}) \in Nat
  BY CountWithout, CountIsNat
<1>3. Cardinality(B) = Cardinality(B \ {x}) + Among(x, B)
  BY CountWithout
<1>4. Cardinality(A) \in Nat /\ Cardinality(B) \in Nat /\ Among(x, A) \in Nat /\ Among(x, B) \in Nat
  BY CountIsNat DEF Among
<1>5. PICK n \in Nat : n = Cardinality(A \ {x})
  BY <1>2
<1>6. Cardinality(B \ {x}) = n
  BY <1>1, <1>5, Zenon
<1>7. Cardinality(A) = n + Among(x, A) /\ Cardinality(B) = n + Among(x, B)
  BY <1>2, <1>3, <1>5, <1>6
<1> QED
  BY <1>4, <1>7

LEMMA CountOfTwo ==
  ASSUME NEW S, IsFiniteSet(S), NEW A, A \subseteq S, NEW B, B \subseteq S, NEW x, NEW y, x # y,
         \A s \in S \ {x, y} : s \in A <=> s \in B
  PROVE  /\ Cardinality(A) \in Nat /\ Cardinality(B) \in Nat
         /\ Cardinality(B) + Among(x, A) + Among(y, A) = Cardinality(A) + Among(x, B) + Among(y, B)
<1>1. /\ Cardinality(A \ {x}) \in Nat /\ Cardinality(B \ {x}) \in Nat
      /\ Cardinality(B \ {x}) + Among(y, A \ {x}) = Cardinality(A \ {x}) + Among(y, B \ {x})
  BY CountChanges
<1>2. Among(y, A \ {x}) = Among(y, A) /\ Among(y, B \ {x}) = Among(y, B)
  BY DEF Among
<1>3. Cardinality(A) = Cardinality(A \ {x}) + Among(x, A)
      /\ Cardinality(B) = Cardinality(B \ {x}) + Among(x, B)
  BY CountWithout
<1>4. /\ Among(x, A) \in Nat /\ Among(x, B) \in Nat /\ Among(y, A) \in Nat /\ Among(y, B) \in Nat
      /\ Cardinality(A) \in Nat /\ Cardinality(B) \in Nat
  BY CountIsNat DEF Among
<1>5. PICK a \in Nat, b \in Nat : a = Cardinality(A \ {x}) /\ b = Cardinality(B \ {x})
  BY <1>1
<1> QED
  BY <1>1, <1>2, <1>3, <1>4, <1>5

(* No more members have one thing than another, if each gives its own.     *)
LEMMA NoMoreThan ==
  ASSUME NEW S, IsFiniteSet(S), NEW T, NEW f \in [T -> S], \A s, t \in T : f[s] = f[t] => s = t
  PROVE  IsFiniteSet(T) /\ Cardinality(T) \in Nat /\ Cardinality(T) <= Cardinality(S)
<1>1. f \in Injection(T, S)
  BY DEF Injection, IsInjective
<1> QED
  BY <1>1, FS_Injection, FS_CardinalityType

-----------------------------------------------------------------------------
(* Totals.                                                                 *)

LEMMA ThingsAreFinite ==
  ASSUME NEW S, IsFiniteSet(S), NEW f, \A s \in S : f[s] \in Nat
  PROVE  IsFiniteSet(Things(f, S)) /\ Total(f, S) \in Nat
<1> DEFINE T == {{s} \X (1..f[s]) : s \in S}
           g == [s \in S |-> {s} \X (1..f[s])]
<1>1. g \in Surjection(S, T)
  BY DEF Surjection
<1>2. IsFiniteSet(T)
  BY <1>1, FS_Surjection
<1>3. \A U \in T : IsFiniteSet(U)
  <2>1. ASSUME NEW s \in S PROVE IsFiniteSet({s} \X (1..f[s]))
    <3>1. f[s] \in Int /\ 1 \in Int
      OBVIOUS
    <3> QED
      BY <3>1, FS_Product, FS_Singleton, FS_Interval
  <2> QED
    BY <2>1
<1>4. IsFiniteSet(UNION T)
  BY <1>2, <1>3, FS_UNION
<1> QED
  BY <1>4, FS_CardinalityType DEF Things, Total

LEMMA TotalOfNone == ASSUME NEW f PROVE Total(f, {}) = 0
BY FS_EmptySet DEF Total, Things

\* Members that count nothing.
LEMMA TotalOfNothing == ASSUME NEW S, NEW f, \A s \in S : f[s] = 0 PROVE Total(f, S) = 0
<1>1. \A s \in S : 1 .. f[s] = {}
  OBVIOUS
<1>2. Things(f, S) = {}
  BY <1>1 DEF Things
<1> QED
  BY <1>2, FS_EmptySet DEF Total

LEMMA TotalIsOf ==
  ASSUME NEW S, NEW f, NEW g, \A s \in S : f[s] = g[s]
  PROVE  Total(f, S) = Total(g, S)
BY DEF Total, Things

LEMMA TotalAdds ==
  ASSUME NEW S, IsFiniteSet(S), NEW x, x \notin S, NEW f, \A s \in S \cup {x} : f[s] \in Nat
  PROVE  Total(f, S \cup {x}) = Total(f, S) + f[x]
<1> DEFINE X == {x} \X (1..f[x])
<1>1. IsFiniteSet(X) /\ Cardinality(X) = f[x]
  <2>1. f[x] \in Nat /\ f[x] \in Int /\ 1 \in Int
    OBVIOUS
  <2>2. IsFiniteSet(1..f[x]) /\ Cardinality(1..f[x]) = f[x]
    <3> DEFINE n == f[x]
    <3> HIDE DEF n
    <3>1. IsFiniteSet(1..n) /\ Cardinality(1..n) = IF 1 > n THEN 0 ELSE n - 1 + 1
      BY <2>1, FS_Interval, Zenon DEF n
    <3>2. Cardinality(1..n) = n
      BY <2>1, <3>1 DEF n
    <3> QED
      BY <3>1, <3>2 DEF n
  <2>3. IsFiniteSet({x}) /\ Cardinality({x}) = 1
    BY FS_Singleton
  <2>4. IsFiniteSet(X) /\ Cardinality(X) = Cardinality({x}) * Cardinality(1..f[x])
    BY <2>2, <2>3, FS_Product
  <2> QED
    BY <2>1, <2>2, <2>3, <2>4
<1>2. Things(f, S \cup {x}) = Things(f, S) \cup X
  BY DEF Things
<1>3. Things(f, S) \cap X = {}
  BY DEF Things
<1>4. IsFiniteSet(Things(f, S)) /\ Total(f, S) \in Nat
  BY ThingsAreFinite
<1> HIDE DEF X
<1>5. Cardinality(Things(f, S) \cup X)
        = Cardinality(Things(f, S)) + Cardinality(X) - Cardinality(Things(f, S) \cap X)
  BY <1>1, <1>4, FS_Union
<1>6. Cardinality(Things(f, S) \cap X) = 0
  BY <1>3, FS_EmptySet
<1>7. f[x] \in Nat
  OBVIOUS
<1>8. Total(f, S \cup {x}) = Cardinality(Things(f, S) \cup X)
  BY <1>2 DEF Total
<1>9. Total(f, S) = Cardinality(Things(f, S))
  BY DEF Total
<1> QED
  BY <1>1, <1>4, <1>5, <1>6, <1>7, <1>8, <1>9

(* Without one of its members.                                             *)
LEMMA TotalRemoves ==
  ASSUME NEW S, IsFiniteSet(S), NEW x \in S, NEW f, \A s \in S : f[s] \in Nat
  PROVE  /\ IsFiniteSet(S \ {x})
         /\ Total(f, S) = Total(f, S \ {x}) + f[x]
         /\ Total(f, S \ {x}) \in Nat /\ Total(f, S) \in Nat /\ f[x] <= Total(f, S)
<1> DEFINE R == S \ {x}
<1>1. IsFiniteSet(R) /\ x \notin R /\ R \cup {x} = S
  BY FS_RemoveElement
<1> HIDE DEF R
<1>2. Total(f, S) = Total(f, R) + f[x] /\ Total(f, R) \in Nat /\ f[x] \in Nat
  BY <1>1, TotalAdds, ThingsAreFinite
<1> QED
  BY <1>1, <1>2 DEF R

(* One member counts something else.                                       *)
LEMMA TotalChanges ==
  ASSUME NEW S, IsFiniteSet(S), NEW x \in S, NEW f, NEW g,
         \A s \in S : f[s] \in Nat /\ g[s] \in Nat, \A s \in S \ {x} : g[s] = f[s]
  PROVE  Total(g, S) = Total(f, S) + g[x] - f[x]
<1>1. Total(f, S) = Total(f, S \ {x}) + f[x] /\ Total(g, S) = Total(g, S \ {x}) + g[x]
  BY TotalRemoves
<1>2. Total(f, S \ {x}) = Total(g, S \ {x}) /\ Total(f, S \ {x}) \in Nat
  BY TotalIsOf, TotalRemoves
<1> QED
  BY <1>1, <1>2

\* The total when two members change.
LEMMA TotalOfTwo ==
  ASSUME NEW S, IsFiniteSet(S), NEW x \in S, NEW y \in S, x # y, NEW f, NEW g,
         \A s \in S : f[s] \in Nat /\ g[s] \in Nat, \A s \in S \ {x, y} : g[s] = f[s]
  PROVE  Total(g, S) + f[x] + f[y] = Total(f, S) + g[x] + g[y]
<1>1. /\ IsFiniteSet(S \ {x}) /\ Total(f, S \ {x}) \in Nat /\ Total(g, S \ {x}) \in Nat
      /\ Total(f, S) = Total(f, S \ {x}) + f[x] /\ Total(g, S) = Total(g, S \ {x}) + g[x]
  BY TotalRemoves
<1>2. Total(g, S \ {x}) = Total(f, S \ {x}) + g[y] - f[y]
  BY <1>1, TotalChanges, SMTT(30)
<1>3. PICK fx \in Nat, fy \in Nat, gx \in Nat, gy \in Nat :
        fx = f[x] /\ fy = f[y] /\ gx = g[x] /\ gy = g[y]
  OBVIOUS
<1>4. PICK a \in Nat, b \in Nat : a = Total(f, S \ {x}) /\ b = Total(g, S \ {x})
  BY <1>1
<1>5. b = a + gy - fy /\ Total(f, S) = a + fx /\ Total(g, S) = b + gx
  BY <1>1, <1>2, <1>3, <1>4
<1>6. (b + gx) + fx + fy = (a + fx) + gx + gy
  BY <1>5
<1> QED
  BY <1>3, <1>5, <1>6

-----------------------------------------------------------------------------
(* A function whose value at k is made from the one at k - 1 exists.       *)

Run(r, n, X, x, F) ==
  /\ r \in [0..n -> X]
  /\ r[0] = x
  /\ \A k \in 1..n : r[k] = F[k][r[k - 1]]

LEMMA Iteration ==
  ASSUME NEW n \in Nat, NEW X, NEW x \in X, NEW F \in [1..n -> [X -> X]]
  PROVE  \E r : Run(r, n, X, x, F)
<1> DEFINE Good(m) == \E r \in [0..m -> X] : r[0] = x /\ \A k \in 1..m : r[k] = F[k][r[k - 1]]
           S == {m \in 0..n : Good(m)}
<1>1. Good(0)
  <2> DEFINE r == [k \in 0..0 |-> x]
  <2>1. r \in [0..0 -> X] /\ r[0] = x /\ 1..0 = {}
    OBVIOUS
  <2> QED
    BY <2>1
<1>2. ASSUME NEW m \in 0..(n - 1), Good(m) PROVE Good(m + 1)
  <2>1. PICK r \in [0..m -> X] : r[0] = x /\ \A k \in 1..m : r[k] = F[k][r[k - 1]]
    BY <1>2
  <2> DEFINE t == [k \in 0..(m + 1) |-> IF k = m + 1 THEN F[m + 1][r[m]] ELSE r[k]]
  <2>2. m + 1 \in 1..n /\ r[m] \in X
    OBVIOUS
  <2>3. F[m + 1][r[m]] \in X
    BY <2>2
  <2>4. t \in [0..(m + 1) -> X]
    BY <2>3
  <2>5. t[0] = x /\ \A k \in 1..(m + 1) : t[k] = F[k][t[k - 1]]
    BY <2>1
  <2> QED
    BY <2>4, <2>5
<1> HIDE DEF Good
<1>3. 0 \in S /\ \A m \in 0..(n - 1) : m \in S => m + 1 \in S
  BY <1>1, <1>2
<1> HIDE DEF S
<1>4. 0..n \subseteq S
  BY <1>3, StepByStep
<1> QED
  BY <1>4 DEF S, Good, Run
=============================================================================
