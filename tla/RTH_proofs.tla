------------------------------ MODULE RTH_proofs ----------------------------
(***************************************************************************)
(* The entry of a return-to-home plan is read as it was meant, and the     *)
(* trajectory that is converted from it flies the entry that was meant.    *)
(***************************************************************************)
EXTENDS RTHUse, Builder_proofs

---------------------------------------------------------------------------
(* Functions that are defined step by step.                                *)

(* A function whose values are each made of the one before.                *)
Stepwise(f, n, a, G) == f = [i \in 0 .. n |-> IF i = 0 THEN a ELSE G[i][f[i - 1]]]

(* There is one for every first value and all steps.                       *)
LEMMA StepwiseExists ==
  ASSUME NEW n \in Nat, NEW S, NEW a \in S, NEW G,
         \A i \in 1 .. n : \A v \in S : G[i][v] \in S
  PROVE  \E f : Stepwise(f, n, a, G)
<1> DEFINE UpTo(f, k) == f[0] = a /\ \A i \in 1 .. n : i <= k => f[i] = G[i][f[i - 1]]
           Fs == [0 .. n -> S]
           Q == {k \in Nat : \E f \in Fs : UpTo(f, k)}
<1>1. 0 \in Q
  <2>1. [i \in 0 .. n |-> a] \in Fs /\ UpTo([i \in 0 .. n |-> a], 0)
    OBVIOUS
  <2>2. QED
    BY <2>1
<1>2. ASSUME NEW k \in Nat, k \in Q PROVE k + 1 \in Q
  <2>1. PICK f \in Fs : UpTo(f, k)
    BY <1>2
  <2>2. CASE k + 1 > n
    <3>1. UpTo(f, k + 1)
      BY <2>1, <2>2
    <3> HIDE DEF UpTo, Fs
    <3>2. QED
      BY <3>1
  <2>3. CASE k + 1 <= n
    <3> DEFINE g == [f EXCEPT ![k + 1] = G[k + 1][f[k]]]
    <3>1. f[k] \in S /\ G[k + 1][f[k]] \in S
      BY <2>1, <2>3
    <3>2. g \in Fs
      BY <3>1
    <3>3. UpTo(g, k + 1)
      BY <2>1, <2>3
    <3> HIDE DEF g, UpTo, Fs
    <3>4. QED
      BY <3>2, <3>3
  <2>4. QED
    BY <2>2, <2>3
<1> HIDE DEF Q
<1>3. n \in Q
  BY <1>1, <1>2, CountingInduction
<1>4. PICK f \in Fs : UpTo(f, n)
  BY <1>3 DEF Q
<1>5. f = [i \in 0 .. n |-> IF i = 0 THEN a ELSE G[i][f[i - 1]]]
  BY <1>4
<1>6. QED
  BY <1>5 DEF Stepwise

(* Its values are of the type that the steps keep.                         *)
LEMMA StepwiseType ==
  ASSUME NEW n \in Nat, NEW S, NEW f, f[0] \in S,
         \A i \in 1 .. n : f[i - 1] \in S => f[i] \in S
  PROVE  \A i \in 0 .. n : f[i] \in S
<1> DEFINE Q == {i \in Nat : i <= n => f[i] \in S}
<1>1. 0 \in Q
  OBVIOUS
<1>2. ASSUME NEW i \in Nat, i \in Q PROVE i + 1 \in Q
  <2>1. CASE i + 1 <= n
    <3>1. i + 1 \in 1 .. n /\ (i + 1) - 1 = i /\ f[i] \in S
      BY <1>2, <2>1
    <3>2. QED
      BY <3>1
  <2>2. QED
    BY <2>1
<1> HIDE DEF Q
<1>3. \A i \in Nat : i \in Q
  BY <1>1, <1>2, CountingInduction
<1>4. QED
  BY <1>3 DEF Q

---------------------------------------------------------------------------
(* Powers of two.                                                          *)

(* Each power of two is twice the one before it.                           *)
LEMMA PowerSteps ==
  /\ Power[0] = 1
  /\ \A i \in 1 .. WordBits + 6 : Power[i] = 2 * Power[i - 1]
<1> DEFINE n == WordBits + 6
           G == [i \in 1 .. n |-> [v \in Nat |-> 2 * v]]
<1>1. n \in Nat
  BY ParsingAssumption
<1>2. \A i \in 1 .. n : \A v \in Nat : G[i][v] = 2 * v /\ G[i][v] \in Nat
  OBVIOUS
<1> HIDE DEF G, n
<1>3. PICK f : Stepwise(f, n, 1, G)
  <2>1. 1 \in Nat /\ \A i \in 1 .. n : \A v \in Nat : G[i][v] \in Nat
    BY <1>2
  <2>2. QED
    BY <1>1, <2>1, StepwiseExists
<1>4. f[0] = 1 /\ \A i \in 1 .. n : f[i] = G[i][f[i - 1]]
  BY <1>1, <1>3 DEF Stepwise
<1>5. \A i \in 0 .. n : f[i] \in Nat
  <2>1. \A i \in 1 .. n : f[i - 1] \in Nat => f[i] \in Nat
    BY <1>2, <1>4
  <2>2. f[0] \in Nat
    BY <1>4
  <2>3. QED
    BY <1>1, <2>1, <2>2, StepwiseType, Zenon
<1>6. f = [i \in 0 .. n |-> IF i = 0 THEN 1 ELSE 2 * f[i - 1]]
  <2>1. ASSUME NEW i \in 0 .. n
        PROVE  (IF i = 0 THEN 1 ELSE G[i][f[i - 1]]) = (IF i = 0 THEN 1 ELSE 2 * f[i - 1])
    BY <1>1, <1>2, <1>5
  <2>2. QED
    BY <1>3, <2>1, Zenon DEF Stepwise
<1>7. Power = [i \in 0 .. n |-> IF i = 0 THEN 1 ELSE 2 * Power[i - 1]]
  BY <1>6 DEF Power, n
<1>8. ASSUME NEW i \in 0 .. n
      PROVE  Power[i] = IF i = 0 THEN 1 ELSE 2 * Power[i - 1]
  BY ONLY <1>7, <1>8, Zenon
<1>9. Power[0] = 1
  <2>1. 0 \in 0 .. n
    BY <1>1
  <2>2. QED
    BY <1>8, <2>1
<1>10. \A i \in 1 .. n : Power[i] = 2 * Power[i - 1]
  <2>1. \A i \in 1 .. n : i \in 0 .. n /\ i # 0
    BY <1>1
  <2>2. QED
    BY <1>8, <2>1
<1>11. QED
  BY <1>9, <1>10 DEF n

(* Powers are positive numbers, and grow.                                  *)
LEMMA PowerType ==
  ASSUME NEW k \in 0 .. WordBits + 6
  PROVE  Power[k] \in Nat /\ Power[k] >= 1
<1> DEFINE S == Nat \ {0}
<1>1. WordBits + 6 \in Nat
  BY ParsingAssumption
<1>2. Power[0] \in S /\ \A i \in 1 .. WordBits + 6 : Power[i - 1] \in S => Power[i] \in S
  BY PowerSteps
<1> HIDE DEF S
<1>3. \A i \in 0 .. WordBits + 6 : Power[i] \in S
  BY <1>1, <1>2, StepwiseType
<1>4. QED
  BY <1>3 DEF S

(* Powers add up.                                                          *)
LEMMA PowerOfSum ==
  ASSUME NEW j \in Nat, NEW k \in Nat, j + k <= WordBits + 6
  PROVE  Power[j + k] = Power[j] * Power[k]
<1> DEFINE S == {i \in Nat : i <= k => Power[j + i] = Power[j] * Power[i]}
<1>1. WordBits \in Nat
  BY ParsingAssumption
<1>2. 0 \in S
  BY <1>1, PowerSteps, PowerType
<1>3. ASSUME NEW i \in Nat, i \in S PROVE i + 1 \in S
  <2>1. CASE i + 1 <= k
    <3>1. /\ i + 1 \in 1 .. WordBits + 6 /\ (i + 1) - 1 = i
          /\ j + (i + 1) \in 1 .. WordBits + 6 /\ (j + (i + 1)) - 1 = j + i
          /\ i \in 0 .. WordBits + 6 /\ j \in 0 .. WordBits + 6
      BY <1>1, <2>1
    <3>2. Power[j + (i + 1)] = 2 * Power[j + i] /\ Power[i + 1] = 2 * Power[i]
      BY <3>1, PowerSteps
    <3>3. Power[j + i] = Power[j] * Power[i]
      BY <1>3, <2>1
    <3>4. Power[j] \in Nat /\ Power[i] \in Nat
      BY <3>1, PowerType
    <3>5. \A x, y \in Nat : 2 * (x * y) = x * (2 * y)
      OBVIOUS
    <3>6. Power[j + (i + 1)] = Power[j] * Power[i + 1]
      BY <3>2, <3>3, <3>4, <3>5
    <3>7. QED
      BY <3>6
  <2>2. QED
    BY <2>1
<1> HIDE DEF S
<1>4. k \in S
  BY <1>2, <1>3, CountingInduction
<1>5. QED
  BY <1>4 DEF S

(* A word has at least a group of seven bits and one bit more.             *)
LEMMA PowerOfSeven == WordBits >= 8 /\ Power[7] = 128
<1>1. WordBits \in Nat /\ WordBits >= 8
  BY ParsingAssumption
<1>2. \A i \in 1 .. 7 : i \in 1 .. WordBits + 6
  BY <1>1
<1>3. /\ Power[0] = 1 /\ Power[1] = 2 * Power[0] /\ Power[2] = 2 * Power[1]
      /\ Power[3] = 2 * Power[2] /\ Power[4] = 2 * Power[3] /\ Power[5] = 2 * Power[4]
      /\ Power[6] = 2 * Power[5] /\ Power[7] = 2 * Power[6]
  BY <1>2, PowerSteps
<1>4. QED
  BY <1>1, <1>3

(* A larger power is not smaller.                                          *)
LEMMA PowerGrows ==
  ASSUME NEW j \in 0 .. WordBits + 6, NEW k \in 0 .. WordBits + 6, j <= k
  PROVE  Power[j] <= Power[k]
<1>1. /\ WordBits \in Nat /\ j \in Nat /\ k - j \in Nat /\ j + (k - j) = k
      /\ k - j \in 0 .. WordBits + 6 /\ j + (k - j) <= WordBits + 6
  BY ParsingAssumption
<1>2. Power[k] = Power[j] * Power[k - j]
  BY <1>1, PowerOfSum
<1>3. Power[j] \in Nat /\ Power[k - j] \in Nat /\ Power[k - j] >= 1
  BY <1>1, PowerType
<1>4. \A x, y \in Nat : y >= 1 => x <= x * y
  OBVIOUS
<1>5. QED
  BY <1>2, <1>3, <1>4

---------------------------------------------------------------------------
(* Division.                                                               *)

(* What division and its remainder are.                                    *)
LEMMA Divided ==
  ASSUME NEW x \in Nat, NEW m \in Nat, m >= 1
  PROVE  /\ x \div m \in Nat /\ x % m \in Nat /\ x % m < m
         /\ x = m * (x \div m) + (x % m)
  BY SMT

(* There is only one remainder.                                            *)
LEMMA RemainderIs ==
  ASSUME NEW x \in Nat, NEW m \in Nat, m >= 1, NEW k \in Nat, NEW r \in Nat, r < m,
         x = m * k + r
  PROVE  x % m = r
<1> DEFINE q == x \div m
           s == x % m
<1>1. q \in Nat /\ s \in Nat /\ s < m /\ x = m * q + s
  BY Divided
<1> HIDE DEF q, s
<1>2. m * q + s = m * k + r
  BY <1>1
<1>3. q = k
  <2>1. \A a, b \in Nat : a < b => m * a + m <= m * b
    <3>1. SUFFICES ASSUME NEW a \in Nat, NEW b \in Nat, a < b PROVE m * a + m <= m * b
      OBVIOUS
    <3>2. b = (a + 1) + (b - a - 1) /\ b - a - 1 \in Nat
      BY <3>1
    <3>3. m * b = m * (a + 1) + m * (b - a - 1) /\ m * (a + 1) = m * a + m /\ m * (b - a - 1) \in Nat
      BY <3>2
    <3>4. m * a \in Nat /\ m * b \in Nat
      OBVIOUS
    <3>5. QED
      BY <3>3, <3>4
  <2>2. m * q \in Nat /\ m * k \in Nat
    BY <1>1
  <2>3. ~(q < k)
    BY <1>1, <1>2, <2>1, <2>2
  <2>4. ~(k < q)
    BY <1>1, <1>2, <2>1, <2>2
  <2>5. QED
    BY <1>1, <2>3, <2>4
<1>4. s = r
  <2>1. m * q \in Nat
    BY <1>1
  <2>2. QED
    BY <1>1, <1>2, <1>3, <2>1
<1>5. QED
  BY <1>4 DEF s

(* The quotient of a number below a multiple.                              *)
LEMMA QuotientBelow ==
  ASSUME NEW x \in Nat, NEW m \in Nat, m >= 1, NEW b \in Nat, x < m * b
  PROVE  x \div m < b
<1> DEFINE q == x \div m
           s == x % m
<1>1. q \in Nat /\ s \in Nat /\ x = m * q + s
  BY Divided
<1> HIDE DEF q, s
<1>2. ASSUME q >= b PROVE FALSE
  <2>1. q = b + (q - b) /\ q - b \in Nat
    BY <1>1, <1>2
  <2>2. m * q = m * b + m * (q - b) /\ m * (q - b) \in Nat /\ m * b \in Nat
    BY <2>1
  <2>3. QED
    BY <1>1, <2>2
<1>3. QED
  BY <1>1, <1>2 DEF q

(* The remainder of one more group of seven bits.                          *)
LEMMA OneMoreGroup ==
  ASSUME NEW x \in Nat, NEW m \in Nat, m >= 1
  PROVE  x % (128 * m) = (x % m) + ((x \div m) % 128) * m
<1> DEFINE q == x \div m
           s == x % m
           a == q \div 128
           g == q % 128
<1>1. q \in Nat /\ s \in Nat /\ s < m /\ x = m * q + s
  BY Divided
<1>2. a \in Nat /\ g \in Nat /\ g <= 127 /\ q = 128 * a + g
  BY <1>1
<1> HIDE DEF q, s, a, g
<1>3. x = (128 * m) * a + (s + g * m)
  <2>1. m * q = m * (128 * a) + m * g
    BY <1>2
  <2>2. m * (128 * a) = (128 * m) * a /\ m * g = g * m
    BY <1>2
  <2>3. m * q \in Nat /\ g * m \in Nat /\ (128 * m) * a \in Nat
    BY <1>1, <1>2
  <2>4. QED
    BY <1>1, <2>1, <2>2, <2>3
<1>4. s + g * m \in Nat /\ s + g * m < 128 * m
  <2>1. g * m <= 127 * m /\ g * m \in Nat
    BY <1>2
  <2>2. QED
    BY <1>1, <2>1
<1>5. 128 * m \in Nat /\ 128 * m >= 1
  OBVIOUS
<1>6. x % (128 * m) = s + g * m
  BY ONLY <1>2, <1>3, <1>4, <1>5, x \in Nat, RemainderIs
<1>7. QED
  BY <1>6 DEF q, s, g

---------------------------------------------------------------------------
(* Numbers of variable length.                                             *)

(* A set with a number in it has a least one.                              *)
LEMMA LeastNumber ==
  ASSUME NEW S, NEW m \in Nat, m \in S
  PROVE  \E k \in Nat : k \in S /\ k <= m /\ \A l \in Nat : l < k => l \notin S
<1> DEFINE R == OpToRel(<, Nat)
           T == {k \in Nat : k \in S}
<1>1. IsWellFoundedOn(R, Nat)
  BY NatLessThanWellFounded, Zenon
<1>2. \A x, y \in Nat : <<x, y>> \in R <=> x < y
  BY DEF OpToRel
<1>3. T \subseteq Nat /\ T # {}
  OBVIOUS
<1> HIDE DEF R
<1>4. PICK k \in T : \A l \in T : <<l, k>> \notin R
  BY <1>1, <1>3, WFMin
<1>5. k \in Nat /\ k \in S /\ \A l \in Nat : l < k => l \notin S
  BY <1>2, <1>4
<1>6. k <= m
  BY <1>5
<1>7. QED
  BY <1>5, <1>6

(* How many groups a number has.                                           *)
HasGroups(n, k) ==
  /\ k \in 1 .. WordBits /\ 7 * k <= WordBits + 6
  /\ n < Power[7 * k] /\ \A l \in 1 .. k - 1 : n >= Power[7 * l]

(* The groups of a number, as they are written.                            *)
IsVaruint(v, n, k) ==
  v = [i \in 1 .. k |-> ((n \div Power[7 * (i - 1)]) % 128) + (IF i < k THEN 128 ELSE 0)]

(* A number is written in as many groups as it needs, no more.             *)
LEMMA VaruintIs ==
  ASSUME NEW n \in Words
  PROVE  \E k : HasGroups(n, k) /\ IsVaruint(Varuint(n), n, k)
<1> DEFINE W == WordBits
           m == (W + 6) \div 7
           Fits7(k) == n < Power[7 * k] /\ \A l \in 1 .. k - 1 : n >= Power[7 * l]
           S == {k \in Nat : k = 0 \/ n >= Power[7 * k]}
           T == {k \in Nat : k >= 1 /\ n < Power[7 * k]}
<1>1. W \in Nat /\ W >= 8 /\ m \in Nat /\ m >= 1 /\ m <= W /\ W <= 7 * m /\ 7 * m <= W + 6
  BY ParsingAssumption
<1>2. n \in Nat /\ n < Power[W]
  <2>1. Power[W] \in Nat
    BY <1>1, PowerType
  <2>2. QED
    BY <2>1 DEF Words
<1> HIDE DEF m, W
<1>3. n < Power[7 * m]
  <2>1. 7 * m \in 0 .. W + 6 /\ W \in 0 .. W + 6
    BY <1>1
  <2>2. Power[W] <= Power[7 * m] /\ Power[W] \in Nat /\ Power[7 * m] \in Nat
    BY <1>1, <2>1, PowerGrows, PowerType DEF W
  <2>3. QED
    BY <1>2, <2>2
<1>4. m \in T
  BY <1>1, <1>3
<1>5. PICK k \in Nat : k \in T /\ k <= m /\ \A l \in Nat : l < k => l \notin T
  <2> HIDE DEF T
  <2>1. QED
    BY <1>1, <1>4, LeastNumber
<1>6. k >= 1 /\ n < Power[7 * k]
  BY <1>5
<1>7. ASSUME NEW l \in 1 .. k - 1 PROVE n >= Power[7 * l]
  <2>1. l \in Nat /\ l >= 1 /\ l < k /\ 7 * l \in 0 .. W + 6
    BY <1>1, <1>5
  <2>2. Power[7 * l] \in Nat
    BY <2>1, PowerType DEF W
  <2>3. ~(n < Power[7 * l])
    BY <1>5, <2>1
  <2>4. QED
    BY <1>2, <2>2, <2>3
<1>8. k \in 1 .. W /\ Fits7(k)
  BY <1>1, <1>5, <1>6, <1>7
<1> DEFINE g == CHOOSE c \in 1 .. W : Fits7(c)
<1>9. g \in 1 .. W /\ Fits7(g)
  <2> HIDE DEF Fits7
  <2>1. QED
    BY <1>8
<1>10. Varuint(n) = [i \in 1 .. g |-> ((n \div Power[7 * (i - 1)]) % 128) + (IF i < g THEN 128 ELSE 0)]
  BY DEF Varuint, W
<1> HIDE DEF g
<1>11. g <= m
  <2>1. ASSUME g > m PROVE FALSE
    <3>1. m \in 1 .. g - 1
      BY <1>1, <1>9, <2>1
    <3>2. n >= Power[7 * m]
      BY <1>9, <3>1
    <3>3. Power[7 * m] \in Nat
      <4>1. 7 * m \in 0 .. WordBits + 6
        BY <1>1 DEF W
      <4>2. QED
        BY <4>1, PowerType
    <3>4. QED
      BY <1>2, <1>3, <3>2, <3>3
  <2>2. QED
    BY <1>1, <1>9, <2>1
<1>12. HasGroups(n, g)
  <2>1. g \in 1 .. W /\ 7 * g <= W + 6
    BY <1>1, <1>9, <1>11
  <2>2. QED
    BY <1>9, <2>1 DEF HasGroups, W
<1>13. QED
  BY <1>10, <1>12 DEF IsVaruint

(* What is known of the bytes of a number.                                 *)
GroupBytes(v, n, k) ==
  /\ v \in Seq(Byte) /\ Len(v) = k
  /\ \A i \in 1 .. k : v[i] % 128 = (n \div Power[7 * (i - 1)]) % 128
  /\ \A i \in 1 .. k - 1 : v[i] >= 128
  /\ v[k] < 128 /\ v[k] = (n \div Power[7 * (k - 1)]) % 128

(* The bits of a written group, and its mark that another one follows.     *)
LEMMA GroupBytesAre ==
  ASSUME NEW n \in Nat, NEW k, NEW v, HasGroups(n, k), IsVaruint(v, n, k)
  PROVE  GroupBytes(v, n, k)
<1>1. k \in Nat /\ k >= 1 /\ WordBits \in Nat /\ 7 * k <= WordBits + 6
  BY ParsingAssumption DEF HasGroups
<1> DEFINE d(i) == (n \div Power[7 * (i - 1)]) % 128
<1>2. ASSUME NEW i \in 1 .. k PROVE d(i) \in Nat /\ d(i) <= 127
  <2>1. 7 * (i - 1) \in 0 .. WordBits + 6
    BY <1>1
  <2>2. Power[7 * (i - 1)] \in Nat /\ Power[7 * (i - 1)] >= 1
    BY <2>1, PowerType
  <2>3. n \div Power[7 * (i - 1)] \in Nat
    BY <2>2, Divided
  <2> DEFINE q == n \div Power[7 * (i - 1)]
  <2>4. q \in Nat
    BY <2>3
  <2> HIDE DEF q
  <2>5. q % 128 \in Nat /\ q % 128 <= 127
    BY <2>4
  <2>6. QED
    BY <2>5 DEF q
<1>3. v = [i \in 1 .. k |-> d(i) + (IF i < k THEN 128 ELSE 0)]
  BY DEF IsVaruint
<1> HIDE DEF d
<1>4. ASSUME NEW i \in 1 .. k
      PROVE  /\ v[i] \in 0 .. 255 /\ v[i] % 128 = d(i)
             /\ i < k => v[i] >= 128
             /\ i = k => v[i] = d(i) /\ v[i] < 128
  <2> DEFINE x == d(i)
             y == v[i]
  <2>1. x \in Nat /\ x <= 127
    BY <1>2
  <2>2. y = x + (IF i < k THEN 128 ELSE 0)
    BY <1>3
  <2> HIDE DEF x, y
  <2>3. i < k => y = x + 128
    BY <2>1, <2>2
  <2>4. ~(i < k) => y = x
    BY <2>1, <2>2
  <2>5. (x + 128) % 128 = x /\ x % 128 = x
    BY <2>1
  <2>6. i = k => ~(i < k)
    BY <1>1
  <2>7. /\ y \in 0 .. 255 /\ y % 128 = x
        /\ i < k => y >= 128
        /\ i = k => y = x /\ y < 128
    BY <2>1, <2>3, <2>4, <2>5, <2>6
  <2>8. QED
    BY <2>7 DEF x, y
<1>5. v \in Seq(Byte) /\ Len(v) = k
  <2>1. v \in [1 .. k -> Byte]
    <3>1. \A i \in 1 .. k : v[i] \in Byte
      BY <1>4, BuilderAssumption
    <3>2. v = [i \in 1 .. k |-> v[i]]
      BY <1>3
    <3>3. QED
      BY <3>1, <3>2
  <2>2. v \in Seq(Byte)
    BY <1>1, <2>1, IsASeq
  <2>3. Len(v) \in Nat /\ DOMAIN v = 1 .. Len(v) /\ DOMAIN v = 1 .. k
    BY <2>1, <2>2, LenProperties
  <2>4. Len(v) = k
    <3> DEFINE l == Len(v)
    <3>1. l \in Nat /\ 1 .. l = 1 .. k
      BY <2>3
    <3> HIDE DEF l
    <3>2. k \in 1 .. l
      BY <1>1, <3>1
    <3>3. l \in 1 .. k
      BY <3>1, <3>2
    <3>4. l = k
      BY <1>1, <3>1, <3>2, <3>3
    <3>5. QED
      BY <3>4 DEF l
  <2>5. QED
    BY <2>2, <2>4
<1>6. \A i \in 1 .. k : v[i] % 128 = d(i)
  BY <1>4
<1>7. \A i \in 1 .. k - 1 : v[i] >= 128
  BY <1>1, <1>4
<1>8. v[k] < 128 /\ v[k] = d(k)
  BY <1>1, <1>4
<1>9. QED
  BY <1>5, <1>6, <1>7, <1>8 DEF GroupBytes, d

---------------------------------------------------------------------------
(* Groups that are read add up to the number they were made of.            *)

(* The bytes up to the last hold the groups of a number.                   *)
AreGroups(bytes, offset, n, last) ==
  \A i \in 0 .. last : bytes[offset + i + 1] % 128 = (n \div Power[7 * i]) % 128

(* What was read so far is the low end of the number.                      *)
AddUp(bytes, offset, n, last) ==
  SumOfGroups(bytes, offset, last) = n % Power[7 * (last + 1)]

(* Bytes that hold the groups of a number add up to it.                    *)
LEMMA GroupsAddUp ==
  ASSUME NEW bytes, NEW offset \in Nat, NEW n \in Nat, NEW last \in Nat,
         7 * (last + 1) <= WordBits + 6, AreGroups(bytes, offset, n, last)
  PROVE  AddUp(bytes, offset, n, last)
<1> DEFINE c(i) == (bytes[offset + i + 1] % 128) * Power[7 * i]
           f == [i \in 0 .. last |-> n % Power[7 * (i + 1)]]
           IsSum(s) == s = [i \in 0 .. last |-> (IF i = 0 THEN 0 ELSE s[i - 1]) + c(i)]
           sum == CHOOSE s : IsSum(s)
<1>1. WordBits \in Nat
  BY ParsingAssumption
<1>2. ASSUME NEW i \in 0 .. last
      PROVE  /\ c(i) \in Nat
             /\ n % Power[7 * i] \in Nat
             /\ n % Power[7 * (i + 1)] = (n % Power[7 * i]) + c(i)
  <2> DEFINE m == Power[7 * i]
             b == bytes[offset + i + 1]
  <2>1. 7 * i \in 0 .. WordBits + 6 /\ 7 + 7 * i <= WordBits + 6 /\ 7 * i \in Nat
        /\ 7 * (i + 1) = 7 + 7 * i
    BY <1>1
  <2>2. m \in Nat /\ m >= 1
    BY <2>1, PowerType
  <2>3. Power[7 * (i + 1)] = 128 * m
    BY <2>1, PowerOfSum, PowerOfSeven
  <2>4. b % 128 = (n \div m) % 128
    BY DEF AreGroups
  <2> HIDE DEF m, b
  <2>5. n % (128 * m) = (n % m) + ((n \div m) % 128) * m
    BY <2>2, OneMoreGroup
  <2>6. n \div m \in Nat /\ n % m \in Nat
    BY <2>2, Divided
  <2>7. (n \div m) % 128 \in Nat
    BY <2>6
  <2>8. ((n \div m) % 128) * m \in Nat
    BY <2>2, <2>7
  <2>9. c(i) = ((n \div m) % 128) * m
    BY <2>4 DEF m, b
  <2> HIDE DEF c
  <2>10. QED
    BY <2>3, <2>5, <2>6, <2>8, <2>9 DEF m
<1>3. n % Power[0] = 0
  BY PowerSteps
<1> HIDE DEF c
<1>4. IsSum(f)
  <2>1. ASSUME NEW i \in 0 .. last
        PROVE  f[i] = (IF i = 0 THEN 0 ELSE f[i - 1]) + c(i)
    <3>1. f[i] = (n % Power[7 * i]) + c(i)
      BY <1>2
    <3>2. CASE i = 0
      <4>1. 7 * i = 0
        BY <3>2
      <4>2. QED
        BY <1>3, <3>1, <3>2, <4>1
    <3>3. CASE i # 0
      <4>1. i - 1 \in 0 .. last /\ (i - 1) + 1 = i
        BY <3>3
      <4>2. f[i - 1] = n % Power[7 * i]
        BY <4>1
      <4>3. QED
        BY <3>1, <3>3, <4>2
    <3>4. QED
      BY <3>2, <3>3
  <2> DEFINE g == [i \in 0 .. last |-> (IF i = 0 THEN 0 ELSE f[i - 1]) + c(i)]
  <2>2. \A i \in 0 .. last : f[i] = g[i]
    BY <2>1
  <2>3. f = g
    BY <2>2
  <2>4. QED
    BY <2>3
<1>5. IsSum(sum)
  <2> HIDE DEF IsSum, f
  <2>1. QED
    BY <1>4
<1>6. SumOfGroups(bytes, offset, last) = sum[last]
  BY DEF SumOfGroups, c
<1> HIDE DEF sum
<1>7. \A i \in 0 .. last : sum[i] = (IF i = 0 THEN 0 ELSE sum[i - 1]) + c(i)
  BY <1>5
<1> HIDE DEF IsSum
<1> DEFINE S == {i \in Nat : i <= last => sum[i] = n % Power[7 * (i + 1)]}
<1>8. 0 \in S
  <2>1. 0 \in 0 .. last /\ 7 * 0 = 0
    OBVIOUS
  <2>2. sum[0] = 0 + c(0)
    BY <1>7, <2>1
  <2>3. n % Power[7 * (0 + 1)] = (n % Power[7 * 0]) + c(0)
    BY <1>2, <2>1
  <2>4. QED
    BY <1>3, <2>1, <2>2, <2>3
<1>9. ASSUME NEW i \in Nat, i \in S PROVE i + 1 \in S
  <2>1. CASE i + 1 <= last
    <3>1. i + 1 \in 0 .. last /\ i + 1 # 0 /\ (i + 1) - 1 = i
      BY <2>1
    <3>2. sum[i + 1] = sum[i] + c(i + 1)
      BY <1>7, <3>1
    <3>3. n % Power[7 * ((i + 1) + 1)] = (n % Power[7 * (i + 1)]) + c(i + 1)
      BY <1>2, <3>1
    <3>4. sum[i] = n % Power[7 * (i + 1)]
      BY <1>9, <2>1
    <3>5. QED
      BY <3>2, <3>3, <3>4
  <2>2. QED
    BY <2>1
<1> HIDE DEF S
<1>10. last \in S
  BY <1>8, <1>9, CountingInduction
<1>11. QED
  BY <1>6, <1>10 DEF S, AddUp

---------------------------------------------------------------------------
(* A number of variable length is read as what was written.                *)
LEMMA VaruintDecodes ==
  ASSUME NEW bytes \in Seq(Byte), NEW offset \in Nat, NEW n \in Words,
         HasAt(bytes, offset, Varuint(n))
  PROVE  /\ ParseVaruint32(bytes, offset) = Parsed("SUCCESS", n, offset + Len(Varuint(n)))
         /\ Varuint(n) \in Seq(Byte) /\ Len(Varuint(n)) \in Nat
<1> DEFINE v == Varuint(n)
           num_bytes == Len(bytes)
           ByteAt(turn) == bytes[offset + turn + 1]
           AtEnd(turn) == offset + turn >= num_bytes
           Full(turn) == 7 * (turn + 1) > WordBits - 1
           Stops(turn) == \/ AtEnd(turn)
                          \/ TooWide(ByteAt(turn), turn)
                          \/ ~Continues(ByteAt(turn))
                          \/ Full(turn)
           IsLast(turn) == Stops(turn) /\ \A earlier \in 0 .. turn - 1 : ~Stops(earlier)
           last == CHOOSE turn \in 0 .. num_bytes : IsLast(turn)
<1>1. PICK k : HasGroups(n, k) /\ IsVaruint(v, n, k)
  BY VaruintIs
<1>2. WordBits \in Nat /\ WordBits >= 8 /\ n \in Nat /\ n < Power[WordBits]
  <2>1. WordBits \in Nat /\ WordBits >= 8 /\ WordBits \in 0 .. WordBits + 6
    BY ParsingAssumption
  <2>2. Power[WordBits] \in Nat
    BY <2>1, PowerType
  <2>3. QED
    BY <2>1, <2>2 DEF Words
<1>3. /\ k \in Nat /\ k >= 1 /\ 7 * k <= WordBits + 6 /\ n < Power[7 * k]
  BY <1>1, <1>2 DEF HasGroups
<1>4. GroupBytes(v, n, k)
  BY <1>1, <1>2, GroupBytesAre
<1>5. /\ v \in Seq(Byte) /\ Len(v) = k /\ num_bytes \in Nat /\ offset + k <= num_bytes
      /\ \A i \in 1 .. k : bytes[offset + i] = v[i]
  BY <1>4, LenProperties DEF HasAt, GroupBytes
<1> HIDE DEF v
<1>6. ASSUME NEW i \in 0 .. k - 1
      PROVE  /\ ByteAt(i) = v[i + 1] /\ ~AtEnd(i) /\ i + 1 \in 1 .. k
  <2>1. i + 1 \in 1 .. k /\ offset + (i + 1) = offset + i + 1 /\ ~(offset + i >= num_bytes)
    BY <1>3, <1>5
  <2>2. bytes[offset + (i + 1)] = v[i + 1]
    BY <1>5, <2>1
  <2>3. QED
    BY <2>1, <2>2
<1>7. ASSUME NEW i \in 0 .. k - 2 PROVE ~Stops(i)
  <2>1. i \in 0 .. k - 1 /\ i + 1 \in 1 .. k - 1 /\ 7 * (i + 1) <= WordBits - 1
        /\ ~(WordBits - 7 * i < 7)
    BY <1>2, <1>3
  <2>2. ByteAt(i) >= 128 /\ ~AtEnd(i)
    BY <1>4, <1>6, <2>1 DEF GroupBytes
  <2>3. ~TooWide(ByteAt(i), i)
    BY <2>1 DEF TooWide
  <2>4. Continues(ByteAt(i))
    BY <2>2 DEF Continues
  <2>5. ~Full(i)
    BY <1>2, <2>1
  <2>6. QED
    BY <2>2, <2>3, <2>4, <2>5
<1>8. k - 1 \in 0 .. k - 1 /\ (k - 1) + 1 = k /\ k - 1 \in Nat
  BY <1>3
<1>9. ByteAt(k - 1) = v[k] /\ ~AtEnd(k - 1)
  BY <1>6, <1>8
<1>10. v[k] < 128 /\ v[k] = (n \div Power[7 * (k - 1)]) % 128
  BY <1>4 DEF GroupBytes
<1>11. ~Continues(ByteAt(k - 1))
  <2>1. ~(v[k] >= 128)
    <3>1. v[k] \in Int
      <4> DEFINE q == n \div Power[7 * (k - 1)]
      <4>1. v[k] = q % 128 /\ q \in Int
        <5>1. 7 * (k - 1) \in 0 .. WordBits + 6
          BY <1>2, <1>3
        <5>2. Power[7 * (k - 1)] \in Nat /\ Power[7 * (k - 1)] >= 1
          BY <5>1, PowerType
        <5>3. QED
          BY <1>2, <1>10, <5>2, Divided
      <4> HIDE DEF q
      <4>2. QED
        BY <4>1
    <3>2. QED
      BY <1>10, <3>1
  <2>2. QED
    BY <1>9, <2>1 DEF Continues
<1>12. ~TooWide(ByteAt(k - 1), k - 1)
  <2> DEFINE left == WordBits - 7 * (k - 1)
             m == Power[7 * (k - 1)]
             b == Power[left]
             q == n \div m
  <2>1. left \in Nat /\ left >= 1 /\ 7 * (k - 1) \in Nat
        /\ 7 * (k - 1) + left = WordBits /\ 7 * (k - 1) + left <= WordBits + 6
        /\ left \in 0 .. WordBits + 6 /\ 7 * (k - 1) \in 0 .. WordBits + 6
    BY <1>2, <1>3
  <2>2. m \in Nat /\ m >= 1 /\ b \in Nat /\ b >= 1
    BY <2>1, PowerType
  <2>3. Power[WordBits] = m * b
    BY <2>1, PowerOfSum
  <2> HIDE DEF m, b, q
  <2>4. q < b /\ q \in Nat
    <3>1. n < m * b
      BY <1>2, <2>3
    <3>2. QED
      BY <1>2, <2>2, <3>1, QuotientBelow, Divided DEF q
  <2>5. v[k] = q % 128
    BY <1>10 DEF q, m
  <2>6. v[k] \in Nat /\ v[k] < b
    <3>1. q % 128 \in Nat /\ q % 128 <= q
      BY <2>4
    <3>2. QED
      BY <2>2, <2>4, <2>5, <3>1
  <2>7. v[k] \div b = 0
    <3> DEFINE x == v[k]
    <3>1. x \in Nat /\ x < b
      BY <2>6
    <3> HIDE DEF x
    <3>2. x < b * 1
      BY <2>2, <3>1
    <3>3. x \div b < 1 /\ x \div b \in Nat
      BY <2>2, <3>1, <3>2, QuotientBelow, Divided
    <3>4. QED
      BY <3>3 DEF x
  <2>8. QED
    BY <1>9, <2>7 DEF TooWide, b
<1>13. k - 1 \in 0 .. num_bytes /\ IsLast(k - 1)
  <2>1. k - 1 \in 0 .. num_bytes
    BY <1>3, <1>5
  <2>2. \A i \in 0 .. (k - 1) - 1 : ~Stops(i)
    <3>1. (k - 1) - 1 = k - 2
      BY <1>3
    <3>2. QED
      BY <1>7, <3>1
  <2>3. Stops(k - 1)
    BY <1>11
  <2>4. QED
    BY <2>1, <2>2, <2>3
<1>14. last = k - 1
  <2>1. last \in 0 .. num_bytes /\ IsLast(last)
    <3> HIDE DEF IsLast
    <3>1. QED
      BY <1>13
  <2> HIDE DEF last, Stops
  <2>2. ~(last < k - 1)
    <3>1. ASSUME last < k - 1 PROVE FALSE
      <4>1. last \in 0 .. (k - 1) - 1
        BY <1>3, <2>1, <3>1
      <4>2. QED
        BY <1>13, <2>1, <4>1
    <3>2. QED
      BY <3>1
  <2>3. ~(k - 1 < last)
    <3>1. ASSUME k - 1 < last PROVE FALSE
      <4>1. k - 1 \in 0 .. last - 1
        BY <1>3, <2>1, <3>1
      <4>2. QED
        BY <1>13, <2>1, <4>1
    <3>2. QED
      BY <3>1
  <2>4. QED
    BY <1>3, <2>1, <2>2, <2>3
<1> HIDE DEF last
<1>15. SumOfGroups(bytes, offset, k - 1) = n
  <2>1. \A i \in 0 .. k - 1 : bytes[offset + i + 1] % 128 = (n \div Power[7 * i]) % 128
    <3>1. SUFFICES ASSUME NEW i \in 0 .. k - 1
                   PROVE  bytes[offset + i + 1] % 128 = (n \div Power[7 * i]) % 128
      OBVIOUS
    <3>2. i + 1 \in 1 .. k /\ (i + 1) - 1 = i /\ bytes[offset + i + 1] = v[i + 1]
      BY <1>6
    <3>3. v[i + 1] % 128 = (n \div Power[7 * ((i + 1) - 1)]) % 128
      BY <1>4, <3>2 DEF GroupBytes
    <3>4. QED
      BY <3>2, <3>3
  <2>2. 7 * ((k - 1) + 1) <= WordBits + 6 /\ 7 * ((k - 1) + 1) = 7 * k
    BY <1>3
  <2>3. SumOfGroups(bytes, offset, k - 1) = n % Power[7 * ((k - 1) + 1)]
    <3> DEFINE r == k - 1
    <3>1. /\ offset \in Nat /\ n \in Nat /\ r \in Nat /\ 7 * (r + 1) <= WordBits + 6
          /\ AreGroups(bytes, offset, n, r)
      BY <1>2, <1>8, <2>1, <2>2 DEF AreGroups
    <3> HIDE DEF r
    <3>2. AddUp(bytes, offset, n, r)
      BY <3>1, GroupsAddUp
    <3>3. QED
      BY <3>2 DEF r, AddUp
  <2>4. n % Power[7 * k] = n
    <3>1. 7 * k \in 0 .. WordBits + 6
      BY <1>2, <1>3
    <3>2. Power[7 * k] \in Nat
      BY <3>1, PowerType
    <3>3. QED
      BY <1>2, <1>3, <3>2, ModSmall
  <2>5. QED
    BY <2>2, <2>3, <2>4
<1>16. ParseVaruint32(bytes, offset)
         = Parsed("SUCCESS", SumOfGroups(bytes, offset, last), offset + last + 1)
  <2>1. ~AtEnd(last) /\ ~TooWide(ByteAt(last), last) /\ ~Continues(ByteAt(last))
    BY <1>9, <1>11, <1>12, <1>14
  <2>2. QED
    BY <2>1 DEF ParseVaruint32, last
<1>17. offset + last + 1 = offset + Len(v)
  BY <1>3, <1>5, <1>14
<1>18. QED
  BY <1>3, <1>5, <1>14, <1>15, <1>16, <1>17 DEF v

---------------------------------------------------------------------------
(* The bytes of a plan.                                                    *)

(* Numbers are written as bytes.                                           *)
LEMMA VaruintType ==
  ASSUME NEW n \in Words
  PROVE  Varuint(n) \in Seq(Byte) /\ Len(Varuint(n)) \in Nat
<1>1. PICK k : HasGroups(n, k) /\ IsVaruint(Varuint(n), n, k)
  BY VaruintIs
<1>2. n \in Nat
  BY DEF Words
<1>3. GroupBytes(Varuint(n), n, k)
  BY <1>1, <1>2, GroupBytesAre
<1>4. QED
  BY <1>3, LenProperties DEF GroupBytes

(* So are coordinates.                                                     *)
LEMMA WriteType ==
  ASSUME NEW n \in Int
  PROVE  /\ WriteUint16(n) = WrittenInt16(n) /\ WriteInt16(n) = WrittenInt16(n)
         /\ WriteUint16(n) \in Seq(Byte) /\ Len(WriteUint16(n)) = 2
<1>1. WriteUint16(n) = WrittenInt16(n) /\ WriteInt16(n) = WrittenInt16(n)
  BY DEF WriteUint16, WriteInt16, WrittenInt16
<1>2. QED
  BY <1>1, WrittenInt16Type

(* The code of an action is read back as the action.                       *)
LEMMA CodesAre ==
  /\ CodeOf("SAME") = 0 /\ CodeOf("LAND") = 1
  /\ CodeOf("KEEP_ALTITUDE") = 2 /\ CodeOf("WITH_ALTITUDE") = 3
<1>1. Actions[1] = "LAND" /\ Actions[2] = "KEEP_ALTITUDE" /\ Actions[3] = "WITH_ALTITUDE"
  BY DEF Actions
<1>2. ASSUME NEW c \in 1 .. 3, NEW d \in 1 .. 3, Actions[c] = Actions[d] PROVE c = d
  BY <1>1, <1>2
<1>3. ASSUME NEW c \in 1 .. 3, Actions[c] # "SAME" PROVE CodeOf(Actions[c]) = c
  <2>1. CodeOf(Actions[c]) = CHOOSE d \in 1 .. 3 : Actions[d] = Actions[c]
    BY <1>3 DEF CodeOf
  <2> DEFINE e == CHOOSE d \in 1 .. 3 : Actions[d] = Actions[c]
  <2>2. e \in 1 .. 3 /\ Actions[e] = Actions[c]
    OBVIOUS
  <2> HIDE DEF e
  <2>3. e = c
    BY <1>2, <2>2
  <2>4. QED
    BY <2>1, <2>3 DEF e
<1>4. CodeOf("SAME") = 0
  BY DEF CodeOf
<1>5. 1 \in 1 .. 3 /\ 2 \in 1 .. 3 /\ 3 \in 1 .. 3
  OBVIOUS
<1>6. "LAND" # "SAME" /\ "KEEP_ALTITUDE" # "SAME" /\ "WITH_ALTITUDE" # "SAME"
  OBVIOUS
<1>7. QED
  BY <1>1, <1>3, <1>4, <1>5, <1>6

(* The first byte of an entry.                                             *)
FlagsByte(e) ==
  16 * CodeOf(e.action) + (IF e.pre_delay > 0 THEN 2 ELSE 0) + (IF e.post_delay > 0 THEN 1 ELSE 0)

(* The first byte of an entry has its action and its two flags.            *)
LEMMA FlagsByteType ==
  ASSUME NEW e \in PlannedEntry
  PROVE  /\ FlagsByte(e) \in 0 .. 255
         /\ EncodedAction(FlagsByte(e)) = CodeOf(e.action)
         /\ CodeOf(e.action) \in 0 .. 3
         /\ Bit(FlagsByte(e), 2) <=> e.pre_delay > 0
         /\ Bit(FlagsByte(e), 1) <=> e.post_delay > 0
<1> DEFINE c == CodeOf(e.action)
           p == IF e.pre_delay > 0 THEN 2 ELSE 0
           q == IF e.post_delay > 0 THEN 1 ELSE 0
<1>1. c \in 0 .. 3
  <2>1. e.action \in EntryActions
    BY DEF PlannedEntry
  <2>2. QED
    BY <2>1, CodesAre DEF EntryActions
<1>3. q = 1 <=> e.post_delay > 0
  OBVIOUS
<1>4. p = 2 <=> e.pre_delay > 0
  OBVIOUS
<1>5. p \in {0, 2} /\ q \in {0, 1}
  OBVIOUS
<1>6. FlagsByte(e) = 16 * c + p + q
  BY DEF FlagsByte
<1> HIDE DEF c, p, q
<1> DEFINE f == 16 * c + p + q
<1>7. f \in 0 .. 255 /\ (f \div 16) % 4 = c
  BY <1>1, <1>5
<1>8. (f \div 2) % 2 = 1 <=> p = 2
  BY <1>1, <1>5
<1>9. (f \div 1) % 2 = 1 <=> q = 1
  BY <1>1, <1>5
<1>10. FlagsByte(e) = f
  BY <1>6
<1> HIDE DEF f
<1>11. Bit(f, 2) <=> p = 2
  BY <1>8 DEF Bit
<1>12. Bit(f, 1) <=> q = 1
  BY <1>9 DEF Bit
<1>13. QED
  BY <1>1, <1>3, <1>4, <1>7, <1>10, <1>11, <1>12 DEF EncodedAction, c

(* The fields of an entry, each with its bytes.                            *)
TargetBytes(e) == IF HasTarget(e.action) THEN Varuint(e.point) ELSE << >>
NeckBytes(e, scale) ==
  IF HasNeck(e.action)
    THEN WriteInt16(e.altitude \div scale) \o WriteInt16(e.neck \div scale)
           \o Varuint(e.neck_duration) ELSE << >>
DurationBytes(e, action) == IF HasDuration(action) THEN Varuint(e.duration) ELSE << >>
PreBytes(e) == IF e.pre_delay > 0 THEN Varuint(e.pre_delay) ELSE << >>
PostBytes(e) == IF e.post_delay > 0 THEN Varuint(e.post_delay) ELSE << >>

(* The encoding of an entry is the parts, one after the other.             *)
LEMMA EntryInParts ==
  ASSUME NEW e, NEW scale, NEW action
  PROVE  EncodedEntry(e, scale, action)
           = <<FlagsByte(e)>> \o Varuint(e.after) \o TargetBytes(e) \o NeckBytes(e, scale)
               \o DurationBytes(e, action) \o PreBytes(e) \o PostBytes(e)
  BY DEF EncodedEntry, FlagsByte, TargetBytes, NeckBytes, DurationBytes, PreBytes, PostBytes

(* It consists of bytes.                                                   *)
LEMMA EntryBytesType ==
  ASSUME NEW e \in PlannedEntry, NEW scale \in 1 .. 127, NEW action
  PROVE  /\ <<FlagsByte(e)>> \in Seq(Byte) /\ Varuint(e.after) \in Seq(Byte)
         /\ TargetBytes(e) \in Seq(Byte) /\ NeckBytes(e, scale) \in Seq(Byte)
         /\ DurationBytes(e, action) \in Seq(Byte)
         /\ PreBytes(e) \in Seq(Byte) /\ PostBytes(e) \in Seq(Byte)
         /\ EncodedEntry(e, scale, action) \in Seq(Byte)
<1>1. /\ e.after \in Words /\ e.point \in Words /\ e.neck_duration \in Words
      /\ e.duration \in Words /\ e.pre_delay \in Words /\ e.post_delay \in Words
      /\ e.altitude \in Int /\ e.neck \in Int
  BY DEF PlannedEntry
<1>2. <<FlagsByte(e)>> \in Seq(Byte)
  BY FlagsByteType, BuilderAssumption
<1>3. << >> \in Seq(Byte)
  OBVIOUS
<1>4. Varuint(e.after) \in Seq(Byte)
  BY <1>1, VaruintType
<1>5. TargetBytes(e) \in Seq(Byte)
  BY <1>1, <1>3, VaruintType DEF TargetBytes
<1>6. NeckBytes(e, scale) \in Seq(Byte)
  <2>1. e.altitude \div scale \in Int /\ e.neck \div scale \in Int
    BY <1>1
  <2>2. WriteInt16(e.altitude \div scale) \in Seq(Byte) /\ WriteInt16(e.neck \div scale) \in Seq(Byte)
    BY <2>1, WriteType
  <2>3. Varuint(e.neck_duration) \in Seq(Byte)
    BY <1>1, VaruintType
  <2>4. WriteInt16(e.altitude \div scale) \o WriteInt16(e.neck \div scale) \in Seq(Byte)
    BY <2>2, ConcatType
  <2>5. WriteInt16(e.altitude \div scale) \o WriteInt16(e.neck \div scale)
          \o Varuint(e.neck_duration) \in Seq(Byte)
    BY <2>3, <2>4, ConcatType
  <2>6. QED
    BY <1>3, <2>5 DEF NeckBytes
<1>7. DurationBytes(e, action) \in Seq(Byte)
  BY <1>1, <1>3, VaruintType DEF DurationBytes
<1>8. PreBytes(e) \in Seq(Byte) /\ PostBytes(e) \in Seq(Byte)
  BY <1>1, <1>3, VaruintType DEF PreBytes, PostBytes
<1> DEFINE a == <<FlagsByte(e)>>
           b == Varuint(e.after)
           c == TargetBytes(e)
           d == NeckBytes(e, scale)
           f == DurationBytes(e, action)
           g == PreBytes(e)
           h == PostBytes(e)
<1>9. EncodedEntry(e, scale, action) = a \o b \o c \o d \o f \o g \o h
  BY EntryInParts
<1>10. /\ a \in Seq(Byte) /\ b \in Seq(Byte) /\ c \in Seq(Byte) /\ d \in Seq(Byte)
       /\ f \in Seq(Byte) /\ g \in Seq(Byte) /\ h \in Seq(Byte)
  BY <1>2, <1>4, <1>5, <1>6, <1>7, <1>8
<1> HIDE DEF a, b, c, d, f, g, h
<1>11. a \o b \in Seq(Byte)
  BY <1>10, ConcatType
<1>12. a \o b \o c \in Seq(Byte)
  BY <1>10, <1>11, ConcatType
<1>13. a \o b \o c \o d \in Seq(Byte)
  BY <1>10, <1>12, ConcatType
<1>14. a \o b \o c \o d \o f \in Seq(Byte)
  BY <1>10, <1>13, ConcatType
<1>15. a \o b \o c \o d \o f \o g \in Seq(Byte)
  BY <1>10, <1>14, ConcatType
<1>16. a \o b \o c \o d \o f \o g \o h \in Seq(Byte)
  BY <1>10, <1>15, ConcatType
<1>17. QED
  BY <1>2, <1>4, <1>5, <1>6, <1>7, <1>8, <1>9, <1>16

---------------------------------------------------------------------------
(* Reading an entry, field by field.                                       *)

(* What sb_rth_plan_evaluate_at() may have in the entry it fills.          *)
EntryRecord ==
  [time: Words, action: EntryActions \ {"SAME"}, point: Words, altitude: Int, neck: Int,
   neck_duration: Words, duration: Words, pre_delay: Words, post_delay: Words]

(* An entry of its fields.                                                 *)
EntryOf(t, a, p, h, n, m, d, b, c) ==
  [time |-> t, action |-> a, point |-> p, altitude |-> h, neck |-> n, neck_duration |-> m,
   duration |-> d, pre_delay |-> b, post_delay |-> c]

(* It has these fields and no others.                                      *)
LEMMA EntryParts ==
  ASSUME NEW e \in EntryRecord
  PROVE  e = EntryOf(e.time, e.action, e.point, e.altitude, e.neck, e.neck_duration,
                     e.duration, e.pre_delay, e.post_delay)
  BY DEF EntryRecord, EntryOf

(* Its time can be another one.                                            *)
LEMMA EntryTimed ==
  ASSUME NEW t, NEW a, NEW p, NEW h, NEW n, NEW m, NEW d, NEW b, NEW c, NEW u,
         NEW e, e = EntryOf(t, a, p, h, n, m, d, b, c)
  PROVE  [e EXCEPT !.time = u] = EntryOf(u, a, p, h, n, m, d, b, c)
  BY DEF EntryOf

(* What has been read so far, unless there was an error.                   *)
IsRead(parsed, entry, offset) ==
  parsed.result = "SUCCESS"
    => parsed = [result |-> "SUCCESS", offset |-> offset, entry |-> entry]

(* The fields that follow the time.                                        *)
FieldNames == {"point", "altitude", "neck", "neck_duration", "duration", "pre_delay", "post_delay"}

(* Reading a field changes that field and what it says of the result.      *)
LEMMA FieldStep ==
  ASSUME NEW bytes, NEW flags, NEW parsed, NEW field \in FieldNames, NEW entry, NEW offset,
         IsRead(parsed, entry, offset),
         NEW v, NEW o,
         IsStored(field, flags, entry.action) =>
           FieldAt(bytes, field, offset).value = v /\ FieldAt(bytes, field, offset).offset = o,
         ~IsStored(field, flags, entry.action) =>
           o = offset /\ v = IF IsKept(field, flags) THEN entry[field] ELSE 0
  PROVE  IsRead(ParseField(bytes, flags, parsed, field), [entry EXCEPT ![field] = v], o)
<1> DEFINE s == ParseField(bytes, flags, parsed, field)
           value == FieldOf(bytes, flags, parsed, field)
<1>1. CASE parsed.result # "SUCCESS"
  BY <1>1 DEF ParseField, IsRead
<1>2. CASE parsed.result = "SUCCESS"
  <2>1. parsed = [result |-> "SUCCESS", offset |-> offset, entry |-> entry]
    BY <1>2 DEF IsRead
  <2>2. parsed.entry = entry /\ parsed.offset = offset
    BY <2>1
  <2>3. s = WithField(parsed, field, value)
    BY <1>2 DEF ParseField
  <2>4. value.value = v /\ value.offset = o
    <3>1. CASE IsStored(field, flags, entry.action)
      BY <2>2, <3>1 DEF FieldOf
    <3>2. CASE ~IsStored(field, flags, entry.action)
      BY <2>2, <3>2 DEF FieldOf, Parsed
    <3>3. QED
      BY <3>1, <3>2
  <2> HIDE DEF value
  <2>5. s = [result |-> value.result, offset |-> o, entry |-> [entry EXCEPT ![field] = v]]
    BY <2>2, <2>3, <2>4 DEF WithField
  <2>6. QED
    BY <2>5 DEF IsRead
<1>3. QED
  BY <1>1, <1>2

(* The flags of an entry with this action store what it gives, and keep    *)
(* only what it does not say.                                              *)
StoresFields(flags, e, action) ==
  /\ IsStored("point", flags, action) <=> HasTarget(e.action)
  /\ IsStored("altitude", flags, action) <=> HasNeck(e.action)
  /\ IsStored("neck", flags, action) <=> HasNeck(e.action)
  /\ IsStored("neck_duration", flags, action) <=> HasNeck(e.action)
  /\ IsStored("duration", flags, action) <=> HasDuration(action)
  /\ IsStored("pre_delay", flags, action) <=> e.pre_delay > 0
  /\ IsStored("post_delay", flags, action) <=> e.post_delay > 0
  /\ IsKept("point", flags) <=> e.action = "SAME"
  /\ IsKept("altitude", flags) <=> e.action = "SAME"
  /\ IsKept("neck", flags) <=> e.action = "SAME"
  /\ IsKept("neck_duration", flags) <=> e.action = "SAME"
  /\ ~IsKept("duration", flags) /\ ~IsKept("pre_delay", flags) /\ ~IsKept("post_delay", flags)

(* Which fields there are in the bytes of an entry.                        *)
LEMMA StoredFields ==
  ASSUME NEW e \in PlannedEntry, NEW before, NEW action,
         action = IF e.action = "SAME" THEN before ELSE e.action
  PROVE  StoresFields(FlagsByte(e), e, action)
<1> DEFINE flags == FlagsByte(e)
           own == EncodedAction(flags) # 0
<1>1. e.action \in EntryActions
  BY DEF PlannedEntry
<1>2. own <=> e.action # "SAME"
  <2>1. EncodedAction(flags) = CodeOf(e.action)
    BY FlagsByteType
  <2>2. QED
    BY <1>1, <2>1, CodesAre DEF EntryActions
<1>3. own => action = e.action
  BY <1>2
<1>4. ~HasTarget("SAME") /\ ~HasNeck("SAME") /\ ~HasTargetAltitude("SAME")
  BY DEF HasTarget, HasNeck, HasTargetAltitude
<1>5. \A a : HasTargetAltitude(a) <=> HasNeck(a)
  BY DEF HasNeck, HasTargetAltitude
<1> HIDE DEF flags
<1>6. IsStored("point", flags, action) <=> own /\ HasTarget(action)
  BY DEF IsStored
<1>7. IsStored("altitude", flags, action) <=> own /\ HasTargetAltitude(action)
  BY DEF IsStored
<1>8. /\ IsStored("neck", flags, action) <=> own /\ HasNeck(action)
  BY DEF IsStored
<1>9. IsStored("neck_duration", flags, action) <=> own /\ HasNeck(action)
  BY DEF IsStored
<1>10. IsStored("duration", flags, action) <=> HasDuration(action)
  BY DEF IsStored, DurationIsStored
<1>11. IsStored("pre_delay", flags, action) <=> Bit(flags, 2)
  BY DEF IsStored
<1>12. IsStored("post_delay", flags, action) <=> Bit(flags, 1)
  BY DEF IsStored
<1>13. Bit(flags, 2) <=> e.pre_delay > 0
  BY FlagsByteType DEF flags
<1>14. Bit(flags, 1) <=> e.post_delay > 0
  BY FlagsByteType DEF flags
<1>15. /\ IsKept("point", flags) <=> ~own
       /\ IsKept("altitude", flags) <=> ~own
       /\ IsKept("neck", flags) <=> ~own
       /\ IsKept("neck_duration", flags) <=> ~own
       /\ ~IsKept("duration", flags) /\ ~IsKept("pre_delay", flags) /\ ~IsKept("post_delay", flags)
  BY DEF IsKept
<1> HIDE DEF own
<1>16. IsStored("point", flags, action) <=> HasTarget(e.action)
  BY <1>2, <1>3, <1>4, <1>6
<1>17. /\ IsStored("altitude", flags, action) <=> HasNeck(e.action)
  BY <1>2, <1>3, <1>4, <1>5, <1>7
<1>18. IsStored("neck", flags, action) <=> HasNeck(e.action)
  BY <1>2, <1>3, <1>4, <1>8
<1>19. IsStored("neck_duration", flags, action) <=> HasNeck(e.action)
  BY <1>2, <1>3, <1>4, <1>9
<1>20. QED
  <2>1. StoresFields(flags, e, action)
    BY <1>2, <1>10, <1>11, <1>12, <1>13, <1>14, <1>15, <1>16, <1>17, <1>18, <1>19
       DEF StoresFields
  <2>2. QED
    BY <2>1 DEF flags

(* Where the parts of an entry are.                                        *)
SevenAt(bytes, o, a, b, c, d, f, g, h) ==
  /\ HasAt(bytes, o, a)
  /\ HasAt(bytes, o + Len(a), b)
  /\ HasAt(bytes, o + Len(a) + Len(b), c)
  /\ HasAt(bytes, o + Len(a) + Len(b) + Len(c), d)
  /\ HasAt(bytes, o + Len(a) + Len(b) + Len(c) + Len(d), f)
  /\ HasAt(bytes, o + Len(a) + Len(b) + Len(c) + Len(d) + Len(f), g)
  /\ HasAt(bytes, o + Len(a) + Len(b) + Len(c) + Len(d) + Len(f) + Len(g), h)
  /\ Len(a \o b \o c \o d \o f \o g \o h)
       = Len(a) + Len(b) + Len(c) + Len(d) + Len(f) + Len(g) + Len(h)

(* The bytes of parts that are joined are at the ends of the parts before. *)
LEMMA HasSeven ==
  ASSUME NEW bytes \in Seq(Byte), NEW o \in Nat,
         NEW a \in Seq(Byte), NEW b \in Seq(Byte), NEW c \in Seq(Byte), NEW d \in Seq(Byte),
         NEW f \in Seq(Byte), NEW g \in Seq(Byte), NEW h \in Seq(Byte),
         HasAt(bytes, o, a \o b \o c \o d \o f \o g \o h)
  PROVE  SevenAt(bytes, o, a, b, c, d, f, g, h)
<1> DEFINE s2 == a \o b
           s3 == s2 \o c
           s4 == s3 \o d
           s5 == s4 \o f
           s6 == s5 \o g
<1>0. /\ Len(bytes) \in Nat /\ Len(a) \in Nat /\ Len(b) \in Nat /\ Len(c) \in Nat
      /\ Len(d) \in Nat /\ Len(f) \in Nat /\ Len(g) \in Nat /\ Len(h) \in Nat
  BY LenProperties
<1>1. s2 \in Seq(Byte) /\ Len(s2) = Len(a) + Len(b)
  BY ConcatType
<1> HIDE DEF s2
<1>2. s3 \in Seq(Byte) /\ Len(s3) = Len(s2) + Len(c)
  BY <1>1, ConcatType
<1> HIDE DEF s3
<1>3. s4 \in Seq(Byte) /\ Len(s4) = Len(s3) + Len(d)
  BY <1>2, ConcatType
<1> HIDE DEF s4
<1>4. s5 \in Seq(Byte) /\ Len(s5) = Len(s4) + Len(f)
  BY <1>3, ConcatType
<1> HIDE DEF s5
<1>5. s6 \in Seq(Byte) /\ Len(s6) = Len(s5) + Len(g)
  BY <1>4, ConcatType
<1> HIDE DEF s6
<1>6. HasAt(bytes, o, s6 \o h) /\ Len(s6 \o h) = Len(s6) + Len(h)
  BY <1>5, ConcatType DEF s2, s3, s4, s5, s6
<1>7. HasAt(bytes, o, s6) /\ HasAt(bytes, o + Len(s6), h)
  BY <1>0, <1>5, <1>6, HasParts
<1>8. HasAt(bytes, o, s5) /\ HasAt(bytes, o + Len(s5), g)
  BY <1>0, <1>4, <1>7, HasParts DEF s6
<1>9. HasAt(bytes, o, s4) /\ HasAt(bytes, o + Len(s4), f)
  BY <1>0, <1>3, <1>8, HasParts DEF s5
<1>10. HasAt(bytes, o, s3) /\ HasAt(bytes, o + Len(s3), d)
  BY <1>0, <1>2, <1>9, HasParts DEF s4
<1>11. HasAt(bytes, o, s2) /\ HasAt(bytes, o + Len(s2), c)
  BY <1>0, <1>1, <1>10, HasParts DEF s3
<1>12. HasAt(bytes, o, a) /\ HasAt(bytes, o + Len(a), b)
  BY <1>0, <1>11, HasParts DEF s2
<1>13. /\ o + Len(s2) = o + Len(a) + Len(b)
       /\ o + Len(s3) = o + Len(a) + Len(b) + Len(c)
       /\ o + Len(s4) = o + Len(a) + Len(b) + Len(c) + Len(d)
       /\ o + Len(s5) = o + Len(a) + Len(b) + Len(c) + Len(d) + Len(f)
       /\ o + Len(s6) = o + Len(a) + Len(b) + Len(c) + Len(d) + Len(f) + Len(g)
  BY <1>0, <1>1, <1>2, <1>3, <1>4, <1>5
<1>14. Len(s6 \o h) = Len(a) + Len(b) + Len(c) + Len(d) + Len(f) + Len(g) + Len(h)
  BY <1>0, <1>1, <1>2, <1>3, <1>4, <1>5, <1>6
<1>15. s6 \o h = a \o b \o c \o d \o f \o g \o h
  BY DEF s2, s3, s4, s5, s6
<1>16. QED
  BY <1>7, <1>8, <1>9, <1>10, <1>11, <1>12, <1>13, <1>14, <1>15 DEF SevenAt

(* The time of an entry was read: the sum that was meant, or an error.     *)
TimeIsRead(e, before, action, offset) ==
  LET parsed == ParseTime(before, FlagsByte(e), Parsed("SUCCESS", e.after, offset)) IN
  /\ IsRead(parsed, [before EXCEPT !.time = before.time + e.after, !.action = action], offset)
  /\ parsed.result = "SUCCESS" => before.time + e.after \in Words

(* The time of an entry is read as the sum that was meant, or refused.     *)
LEMMA TimeStep ==
  ASSUME NEW e \in PlannedEntry, NEW before \in EntryRecord, NEW action, NEW offset,
         action = IF e.action = "SAME" THEN before.action ELSE e.action
  PROVE  TimeIsRead(e, before, action, offset)
<1> DEFINE flags == FlagsByte(e)
           diff == Parsed("SUCCESS", e.after, offset)
           parsed == ParseTime(before, flags, diff)
           x == before.time
           y == e.after
           m == Power[WordBits]
           time == (x + y) % m
           code == EncodedAction(flags)
           acted == IF code = 0 THEN before.action ELSE Actions[code]
<1>1. diff.result = "SUCCESS" /\ diff.value = y /\ diff.offset = offset
  BY DEF Parsed
<1>2. parsed = [result |-> IF time < x THEN "EOVERFLOW" ELSE "SUCCESS", offset |-> offset,
                entry |-> [before EXCEPT !.time = time, !.action = acted]]
  <2> HIDE DEF diff, flags
  <2>1. QED
    BY <1>1 DEF ParseTime, EntryRecord
<1>3. acted = action
  <2>1. code = CodeOf(e.action)
    BY FlagsByteType
  <2>2. e.action \in EntryActions
    BY DEF PlannedEntry
  <2>3. Actions[1] = "LAND" /\ Actions[2] = "KEEP_ALTITUDE" /\ Actions[3] = "WITH_ALTITUDE"
    BY DEF Actions
  <2> HIDE DEF code
  <2>4. QED
    BY <2>1, <2>2, <2>3, CodesAre DEF EntryActions
<1>4. x \in Nat /\ y \in Nat /\ m \in Nat /\ x < m /\ y < m /\ m >= 1
  <2>1. x \in Words /\ y \in Words
    BY DEF EntryRecord, PlannedEntry
  <2>2. WordBits \in 0 .. WordBits + 6
    BY ParsingAssumption
  <2>3. m \in Nat /\ m >= 1
    BY <2>2, PowerType
  <2>4. QED
    BY <2>1, <2>3 DEF Words
<1> HIDE DEF acted, code, diff, flags
<1>5. ~(time < x) => time = x + y /\ x + y < m
  <2> HIDE DEF x, y, m
  <2>1. CASE x + y < m
    <3>1. x + y \in Nat
      BY <1>4
    <3>2. (x + y) % m = x + y
      BY <1>4, <2>1, <3>1, ModSmall
    <3>3. QED
      BY <2>1, <3>2
  <2>2. CASE ~(x + y < m)
    <3> DEFINE k == m - 1
    <3>1. k \in Nat /\ x <= k /\ y <= k /\ x + y > k /\ k + 1 = m
      BY <1>4, <2>2
    <3> HIDE DEF k
    <3>2. (x + y) % (k + 1) < x
      BY <1>4, <3>1, ModWraps
    <3>3. QED
      BY <3>1, <3>2
  <2>3. QED
    BY <2>1, <2>2
<1> HIDE DEF time
<1>6. parsed.result = "SUCCESS" => ~(time < x)
  BY <1>2
<1>7. parsed.result = "SUCCESS" => x + y \in Words
  BY <1>4, <1>5, <1>6 DEF Words, m
<1>8. parsed.result = "SUCCESS" =>
        parsed = [result |-> "SUCCESS", offset |-> offset,
                  entry |-> [before EXCEPT !.time = x + y, !.action = action]]
  BY <1>2, <1>3, <1>5, <1>6
<1>9. QED
  BY <1>7, <1>8 DEF IsRead, TimeIsRead, flags, diff

(* A field is given back as it was written.                                *)
LEMMA AltitudeDecodes ==
  ASSUME NEW bytes \in Seq(Byte), NEW offset \in Nat, NEW n \in Int, NEW scale \in 1 .. 127,
         bytes[1] % 128 = scale, OnScale(n, scale), HasAt(bytes, offset, WriteInt16(n \div scale))
  PROVE  PlanCoordinate(bytes, offset) = n
<1>1. n \div scale \in Int /\ Int16(n \div scale) /\ (n \div scale) * scale = n
  BY DEF OnScale
<1> DEFINE q == n \div scale
<1>2. WriteInt16(q) = WrittenInt16(q)
  BY <1>1, WriteType
<1>3. q \in Int /\ Int16(q) /\ q * scale = n /\ HasAt(bytes, offset, WrittenInt16(q))
  BY <1>1, <1>2
<1> HIDE DEF q
<1>4. Int16At(bytes, offset) = q
  BY <1>3, Int16Decodes
<1>5. ParseInt16(bytes, offset) = q
  BY <1>4 DEF ParseInt16, Int16At, ParseUint16, Uint16At
<1>6. ParsePlanHeader(bytes).scale = scale
  BY DEF ParsePlanHeader
<1>7. QED
  BY <1>3, <1>5, <1>6 DEF PlanCoordinate

(* A number that is a field is read back.                                  *)
LEMMA NumberFieldDecodes ==
  ASSUME NEW bytes \in Seq(Byte), NEW offset \in Nat, NEW n \in Words,
         HasAt(bytes, offset, Varuint(n)),
         NEW field \in {"point", "neck_duration", "duration", "pre_delay", "post_delay"}
  PROVE  /\ FieldAt(bytes, field, offset).value = n
         /\ FieldAt(bytes, field, offset).offset = offset + Len(Varuint(n))
<1> DEFINE o == offset + Len(Varuint(n))
           d == ParseVaruint32(bytes, offset)
<1>1. d = Parsed("SUCCESS", n, o)
  BY VaruintDecodes
<1> HIDE DEF o, d
<1>2. d.value = n /\ d.offset = o
  BY <1>1 DEF Parsed
<1>3. NotTooLong(d).value = n /\ NotTooLong(d).offset = o
  <2>1. CASE d.result = "SUCCESS" /\ d.value > PlanMaxDuration
    <3>1. NotTooLong(d) = [d EXCEPT !.result = "EOVERFLOW"]
      BY <2>1 DEF NotTooLong
    <3>2. [d EXCEPT !.result = "EOVERFLOW"] = Parsed("EOVERFLOW", n, o)
      BY <1>1 DEF Parsed
    <3>3. QED
      BY <3>1, <3>2 DEF Parsed
  <2>2. CASE ~(d.result = "SUCCESS" /\ d.value > PlanMaxDuration)
    BY <1>2, <2>2 DEF NotTooLong
  <2>3. QED
    BY <2>1, <2>2
<1>4. FieldAt(bytes, field, offset) = IF field = "point" THEN d ELSE NotTooLong(d)
  BY DEF FieldAt, d
<1>5. QED
  BY <1>2, <1>3, <1>4 DEF o

(* So is an altitude, which was written on the scale of the plan.          *)
LEMMA AltitudeFieldDecodes ==
  ASSUME NEW bytes \in Seq(Byte), NEW offset \in Nat, NEW n \in Int, NEW scale \in 1 .. 127,
         bytes[1] % 128 = scale, OnScale(n, scale), HasAt(bytes, offset, WriteInt16(n \div scale)),
         NEW field \in {"altitude", "neck"}
  PROVE  /\ FieldAt(bytes, field, offset).value = n
         /\ FieldAt(bytes, field, offset).offset = offset + 2
<1>1. PlanCoordinate(bytes, offset) = n
  BY AltitudeDecodes
<1>2. FieldAt(bytes, field, offset) = Parsed("SUCCESS", n, offset + 2)
  BY <1>1 DEF FieldAt
<1>3. QED
  BY <1>2 DEF Parsed

(* The entry that is meant after another one.                              *)
Inherited(before, e, field, has) ==
  IF e.action = "SAME" THEN before[field] ELSE IF has THEN e[field] ELSE 0

After(before, e, action) ==
  EntryOf(before.time + e.after, action,
          Inherited(before, e, "point", HasTarget(e.action)),
          Inherited(before, e, "altitude", HasNeck(e.action)),
          Inherited(before, e, "neck", HasNeck(e.action)),
          Inherited(before, e, "neck_duration", HasNeck(e.action)),
          IF HasDuration(action) THEN e.duration ELSE 0, e.pre_delay, e.post_delay)

(* What is read of an entry with an error is not read further.             *)
LEMMA FieldsKeepErrors ==
  ASSUME NEW bytes, NEW flags, NEW parsed, NEW field,
         ParseField(bytes, flags, parsed, field).result = "SUCCESS"
  PROVE  parsed.result = "SUCCESS"
  BY DEF ParseField

(* The fields of the bytes of a neck.                                      *)
NeckAt(bytes, o, e, scale) ==
  /\ HasAt(bytes, o, WriteInt16(e.altitude \div scale))
  /\ HasAt(bytes, o + 2, WriteInt16(e.neck \div scale))
  /\ HasAt(bytes, (o + 2) + 2, Varuint(e.neck_duration))
  /\ o + Len(NeckBytes(e, scale)) = ((o + 2) + 2) + Len(Varuint(e.neck_duration))

(* The bytes of a neck are an altitude, a neck and its duration.           *)
LEMMA NeckInParts ==
  ASSUME NEW bytes \in Seq(Byte), NEW o \in Nat, NEW e \in PlannedEntry, NEW scale \in 1 .. 127,
         HasNeck(e.action), HasAt(bytes, o, NeckBytes(e, scale))
  PROVE  NeckAt(bytes, o, e, scale)
<1> DEFINE a == WriteInt16(e.altitude \div scale)
           b == WriteInt16(e.neck \div scale)
           c == Varuint(e.neck_duration)
<1>1. e.altitude \in Int /\ e.neck \in Int /\ e.neck_duration \in Words
  BY DEF PlannedEntry
<1>2. e.altitude \div scale \in Int /\ e.neck \div scale \in Int
  BY <1>1
<1>3. a \in Seq(Byte) /\ b \in Seq(Byte) /\ Len(a) = 2 /\ Len(b) = 2
  BY <1>2, WriteType
<1>4. c \in Seq(Byte) /\ Len(c) \in Nat
  BY <1>1, VaruintType
<1>5. NeckBytes(e, scale) = a \o b \o c
  BY DEF NeckBytes
<1> HIDE DEF a, b, c
<1>6. a \o b \in Seq(Byte) /\ Len(a \o b) = 4
  <2>1. a \o b \in Seq(Byte) /\ Len(a \o b) = Len(a) + Len(b)
    BY <1>3, ConcatType
  <2>2. QED
    BY <1>3, <2>1
<1>7. Len((a \o b) \o c) = 4 + Len(c)
  <2>1. Len((a \o b) \o c) = Len(a \o b) + Len(c)
    BY <1>4, <1>6, ConcatType
  <2>2. QED
    BY <1>6, <2>1
<1>8. Len(bytes) \in Nat
  BY LenProperties
<1>9. HasAt(bytes, o, a \o b) /\ HasAt(bytes, o + 4, c)
  BY <1>4, <1>5, <1>6, <1>8, HasParts
<1>10. HasAt(bytes, o, a) /\ HasAt(bytes, o + 2, b)
  BY <1>3, <1>8, <1>9, HasParts
<1>11. (o + 2) + 2 = o + 4 /\ o + (4 + Len(c)) = (o + 4) + Len(c)
  BY <1>4
<1>12. QED
  BY <1>5, <1>7, <1>9, <1>10, <1>11 DEF NeckAt, a, b, c

(* An entry is read as what it means after the one before it, or refused.  *)
EntryIsRead(bytes, offset, e, before, scale, action) ==
  LET parsed == ParseEntry(bytes, offset, before) IN
  /\ IsRead(parsed, After(before, e, action),
            offset + Len(EncodedEntry(e, scale, action)))
  /\ parsed.result = "SUCCESS" => before.time + e.after \in Words

(* The bytes of an entry are read back as the entry that was meant, after  *)
(* the one before it, wherever they are in the plan.                       *)
LEMMA EntryDecodes ==
  ASSUME NEW bytes \in Seq(Byte), NEW offset \in Nat, NEW e \in PlannedEntry,
         NEW before \in EntryRecord, NEW scale \in 1 .. 127, NEW action,
         action = IF e.action = "SAME" THEN before.action ELSE e.action,
         bytes[1] % 128 = scale, OnScale(e.altitude, scale), OnScale(e.neck, scale),
         HasAt(bytes, offset, EncodedEntry(e, scale, action))
  PROVE  EntryIsRead(bytes, offset, e, before, scale, action)
<1> DEFINE flags == FlagsByte(e)
           a == <<flags>>
           b == Varuint(e.after)
           c == TargetBytes(e)
           d == NeckBytes(e, scale)
           f == DurationBytes(e, action)
           g == PreBytes(e)
           h == PostBytes(e)
<1>1. /\ a \in Seq(Byte) /\ b \in Seq(Byte) /\ c \in Seq(Byte) /\ d \in Seq(Byte)
      /\ f \in Seq(Byte) /\ g \in Seq(Byte) /\ h \in Seq(Byte)
  BY EntryBytesType
<1>2. EncodedEntry(e, scale, action) = a \o b \o c \o d \o f \o g \o h
  BY EntryInParts
<1> HIDE DEF a, b, c, d, f, g, h
<1>3. HasAt(bytes, offset, a \o b \o c \o d \o f \o g \o h)
  BY <1>2
<1>parts.
       /\ HasAt(bytes, offset, a)
       /\ HasAt(bytes, offset + Len(a), b)
       /\ HasAt(bytes, offset + Len(a) + Len(b), c)
       /\ HasAt(bytes, offset + Len(a) + Len(b) + Len(c), d)
       /\ HasAt(bytes, offset + Len(a) + Len(b) + Len(c) + Len(d), f)
       /\ HasAt(bytes, offset + Len(a) + Len(b) + Len(c) + Len(d) + Len(f), g)
       /\ HasAt(bytes, offset + Len(a) + Len(b) + Len(c) + Len(d) + Len(f) + Len(g), h)
       /\ Len(a \o b \o c \o d \o f \o g \o h)
            = Len(a) + Len(b) + Len(c) + Len(d) + Len(f) + Len(g) + Len(h)
  <2>1. SevenAt(bytes, offset, a, b, c, d, f, g, h)
    BY <1>1, <1>3, HasSeven
  <2>2. QED
    BY <2>1 DEF SevenAt
<1> DEFINE o2 == offset + Len(a)
           o3 == offset + Len(a) + Len(b)
           o4 == offset + Len(a) + Len(b) + Len(c)
           o5 == offset + Len(a) + Len(b) + Len(c) + Len(d)
           o6 == offset + Len(a) + Len(b) + Len(c) + Len(d) + Len(f)
           o7 == offset + Len(a) + Len(b) + Len(c) + Len(d) + Len(f) + Len(g)
           o8 == offset + Len(EncodedEntry(e, scale, action))
<1>4. /\ HasAt(bytes, offset, a) /\ HasAt(bytes, o2, b) /\ HasAt(bytes, o3, c)
      /\ HasAt(bytes, o4, d) /\ HasAt(bytes, o5, f) /\ HasAt(bytes, o6, g)
      /\ HasAt(bytes, o7, h)
  BY <1>parts
<1>5. Len(a \o b \o c \o d \o f \o g \o h)
        = Len(a) + Len(b) + Len(c) + Len(d) + Len(f) + Len(g) + Len(h)
  BY <1>parts
<1>6. /\ Len(a) \in Nat /\ Len(b) \in Nat /\ Len(c) \in Nat /\ Len(d) \in Nat
      /\ Len(f) \in Nat /\ Len(g) \in Nat /\ Len(h) \in Nat /\ Len(a) = 1
  BY <1>1, LenProperties DEF a
<1>7. /\ o2 = offset + 1 /\ o2 \in Nat /\ o3 = o2 + Len(b) /\ o3 \in Nat /\ o4 = o3 + Len(c) /\ o4 \in Nat
      /\ o5 = o4 + Len(d) /\ o5 \in Nat /\ o6 = o5 + Len(f) /\ o6 \in Nat
      /\ o7 = o6 + Len(g) /\ o7 \in Nat /\ o8 = o7 + Len(h)
  <2> DEFINE la == Len(a)
             lb == Len(b)
             lc == Len(c)
             ld == Len(d)
             lf == Len(f)
             lg == Len(g)
             lh == Len(h)
  <2>1. o8 = offset + (la + lb + lc + ld + lf + lg + lh)
    BY <1>2, <1>5
  <2>2. /\ la \in Nat /\ lb \in Nat /\ lc \in Nat /\ ld \in Nat
        /\ lf \in Nat /\ lg \in Nat /\ lh \in Nat /\ la = 1
    BY <1>6
  <2>3. /\ o2 = offset + la /\ o3 = offset + la + lb /\ o4 = offset + la + lb + lc
        /\ o5 = offset + la + lb + lc + ld /\ o6 = offset + la + lb + lc + ld + lf
        /\ o7 = offset + la + lb + lc + ld + lf + lg
    OBVIOUS
  <2> HIDE DEF la, lb, lc, ld, lf, lg, lh, o2, o3, o4, o5, o6, o7, o8
  <2>4. /\ o2 = offset + 1 /\ o2 \in Nat
    BY <2>2, <2>3
  <2>5. o3 = o2 + lb /\ o3 \in Nat
    BY <2>2, <2>3
  <2>6. o4 = o3 + lc /\ o4 \in Nat
    BY <2>2, <2>3
  <2>7. o5 = o4 + ld /\ o5 \in Nat
    BY <2>2, <2>3
  <2>8. o6 = o5 + lf /\ o6 \in Nat
    BY <2>2, <2>3
  <2>9. o7 = o6 + lg /\ o7 \in Nat
    BY <2>2, <2>3
  <2>10. o8 = o7 + lh
    BY <2>1, <2>2, <2>3
  <2>11. QED
    BY <2>4, <2>5, <2>6, <2>7, <2>8, <2>9, <2>10 DEF lb, lc, ld, lf, lg, lh
<1>8. bytes[offset + 1] = flags
  BY <1>4, <1>6 DEF HasAt, a
<1> HIDE DEF o2, o3, o4, o5, o6, o7, o8
<1>9. /\ e.after \in Words /\ e.point \in Words /\ e.neck_duration \in Words
      /\ e.duration \in Words /\ e.pre_delay \in Words /\ e.post_delay \in Words
      /\ e.altitude \in Int /\ e.neck \in Int
  BY DEF PlannedEntry
<1> DEFINE same == e.action = "SAME"
           t == before.time + e.after
           p == Inherited(before, e, "point", HasTarget(e.action))
           l == Inherited(before, e, "altitude", HasNeck(e.action))
           n == Inherited(before, e, "neck", HasNeck(e.action))
           m == Inherited(before, e, "neck_duration", HasNeck(e.action))
           u == IF HasDuration(action) THEN e.duration ELSE 0
           q == before.pre_delay
           r == before.post_delay
           bp == before.point
           bl == before.altitude
           bn == before.neck
           bm == before.neck_duration
           bu == before.duration
           p0 == ParseTime(before, flags, ParseVaruint32(bytes, offset + 1))
           p1 == ParseField(bytes, flags, p0, "point")
           p2 == ParseField(bytes, flags, p1, "altitude")
           p3 == ParseField(bytes, flags, p2, "neck")
           p4 == ParseField(bytes, flags, p3, "neck_duration")
           p5 == ParseField(bytes, flags, p4, "duration")
           p6 == ParseField(bytes, flags, p5, "pre_delay")
           p7 == ParseField(bytes, flags, p6, "post_delay")
           E(x1, x2, x3, x4, x5, x6, x7) == EntryOf(t, action, x1, x2, x3, x4, x5, x6, x7)
<1>10. ParseEntry(bytes, offset, before) = p7
  BY <1>8 DEF ParseEntry
<1>11. ParseVaruint32(bytes, offset + 1) = Parsed("SUCCESS", e.after, o3)
  <2>1. e.after \in Words /\ o2 \in Nat /\ HasAt(bytes, o2, Varuint(e.after))
    BY <1>4, <1>7, <1>9 DEF b
  <2>2. ParseVaruint32(bytes, o2) = Parsed("SUCCESS", e.after, o2 + Len(Varuint(e.after)))
    BY <2>1, VaruintDecodes
  <2>3. o2 = offset + 1 /\ o3 = o2 + Len(Varuint(e.after))
    BY <1>7 DEF b
  <2>4. QED
    BY <2>2, <2>3
<1>12. IsRead(p0, E(bp, bl, bn, bm, bu, q, r), o3) /\ (p0.result = "SUCCESS" => t \in Words)
  <2>1. /\ IsRead(p0, [before EXCEPT !.time = t, !.action = action], o3)
        /\ p0.result = "SUCCESS" => t \in Words
    <3>1. p0 = ParseTime(before, FlagsByte(e), Parsed("SUCCESS", e.after, o3))
      BY <1>11
    <3>2. /\ IsRead(ParseTime(before, FlagsByte(e), Parsed("SUCCESS", e.after, o3)),
                    [before EXCEPT !.time = before.time + e.after, !.action = action], o3)
          /\ ParseTime(before, FlagsByte(e), Parsed("SUCCESS", e.after, o3)).result = "SUCCESS"
               => before.time + e.after \in Words
      <4>1. TimeIsRead(e, before, action, o3)
        BY TimeStep
      <4>2. QED
        BY <4>1 DEF TimeIsRead
    <3> HIDE DEF p0, p1, p2, p3, p4, p5, p6, p7
    <3>3. QED
      BY <3>1, <3>2
  <2>2. before = EntryOf(before.time, before.action, bp, bl, bn, bm, bu, q, r)
    BY EntryParts
  <2>3. [EntryOf(before.time, before.action, bp, bl, bn, bm, bu, q, r)
           EXCEPT !.time = t, !.action = action] = E(bp, bl, bn, bm, bu, q, r)
    <3> DEFINE bt == before.time
               ba == before.action
    <3> HIDE DEF t, bp, bl, bn, bm, bu, q, r, bt, ba
    <3>1. [EntryOf(bt, ba, bp, bl, bn, bm, bu, q, r) EXCEPT !.time = t]
            = EntryOf(t, ba, bp, bl, bn, bm, bu, q, r)
      BY DEF EntryOf
    <3>2. [EntryOf(t, ba, bp, bl, bn, bm, bu, q, r) EXCEPT !.action = action]
            = EntryOf(t, action, bp, bl, bn, bm, bu, q, r)
      BY DEF EntryOf
    <3>3. QED
      BY <3>1, <3>2 DEF bt, ba
  <2>4. QED
    BY <2>1, <2>2, <2>3
<1> DEFINE St(field) == IsStored(field, flags, action)
           Old(field) == IsKept(field, flags)
<1>13. /\ St("point") <=> HasTarget(e.action)
       /\ St("altitude") <=> HasNeck(e.action)
       /\ St("neck") <=> HasNeck(e.action)
       /\ St("neck_duration") <=> HasNeck(e.action)
       /\ St("duration") <=> HasDuration(action)
       /\ St("pre_delay") <=> e.pre_delay > 0
       /\ St("post_delay") <=> e.post_delay > 0
       /\ Old("point") <=> same
       /\ Old("altitude") <=> same
       /\ Old("neck") <=> same
       /\ Old("neck_duration") <=> same
       /\ ~Old("duration") /\ ~Old("pre_delay") /\ ~Old("post_delay")
  <2>1. StoresFields(FlagsByte(e), e, action)
    BY StoredFields
  <2>2. QED
    BY <2>1, Zenon DEF StoresFields
<1>14. HasTarget(e.action) => ~same
  BY DEF HasTarget
<1>15. HasNeck(e.action) => ~same
  BY DEF HasNeck
<1>16. /\ p = IF same THEN bp ELSE IF HasTarget(e.action) THEN e.point ELSE 0
       /\ l = IF same THEN bl ELSE IF HasNeck(e.action) THEN e.altitude ELSE 0
       /\ n = IF same THEN bn ELSE IF HasNeck(e.action) THEN e.neck ELSE 0
       /\ m = IF same THEN bm ELSE IF HasNeck(e.action) THEN e.neck_duration ELSE 0
  BY DEF Inherited
<1> HIDE DEF p0, p1, p2, p3, p4, p5, p6, p7, flags, bp, bl, bn, bm, bu, p, l, n, m, u, q, r, t
<1>17. IsRead(p1, E(p, bl, bn, bm, bu, q, r), o4)
  <2> DEFINE x == E(bp, bl, bn, bm, bu, q, r)
  <2>1. x.action = action /\ x["point"] = bp
    BY DEF EntryOf
  <2>2. [x EXCEPT !["point"] = p] = E(p, bl, bn, bm, bu, q, r)
    BY DEF EntryOf
  <2> HIDE DEF x
  <2>3. St("point") => FieldAt(bytes, "point", o3).value = p /\ FieldAt(bytes, "point", o3).offset = o4
    <3>1. SUFFICES ASSUME HasTarget(e.action)
                   PROVE  FieldAt(bytes, "point", o3).value = p
                            /\ FieldAt(bytes, "point", o3).offset = o4
      BY <1>13
    <3>2. c = Varuint(e.point) /\ HasAt(bytes, o3, Varuint(e.point))
          /\ e.point \in Words /\ o3 \in Nat
      BY <1>4, <1>7, <1>9, <3>1 DEF c, TargetBytes
    <3>3. /\ FieldAt(bytes, "point", o3).value = e.point
          /\ FieldAt(bytes, "point", o3).offset = o3 + Len(Varuint(e.point))
      BY <3>2, NumberFieldDecodes
    <3>4. QED
      BY <1>7, <1>14, <1>16, <3>1, <3>2, <3>3
  <2>4. ~St("point") => o4 = o3 /\ p = IF Old("point") THEN x["point"] ELSE 0
    <3>1. SUFFICES ASSUME ~HasTarget(e.action)
                   PROVE  o4 = o3 /\ p = IF Old("point") THEN x["point"] ELSE 0
      BY <1>13
    <3>2. Len(c) = 0
      BY <3>1 DEF c, TargetBytes
    <3>3. o4 = o3
      BY <1>7, <3>2
    <3>4. QED
      BY <1>13, <1>16, <2>1, <3>1, <3>3
  <2>5. "point" \in FieldNames
    BY DEF FieldNames
  <2>6. IsRead(p0, x, o3)
    BY <1>12 DEF x
  <2>7. IsRead(p1, [x EXCEPT !["point"] = p], o4)
    BY <2>1, <2>3, <2>4, <2>5, <2>6, FieldStep DEF p1
  <2>8. QED
    BY <2>2, <2>7
<1> DEFINE n1 == IF HasNeck(e.action) THEN o4 + 2 ELSE o4
           n2 == IF HasNeck(e.action) THEN (o4 + 2) + 2 ELSE o4
<1>18. n1 \in Nat /\ n2 \in Nat /\ (HasNeck(e.action) => n1 = o4 + 2 /\ n2 = (o4 + 2) + 2)
       /\ (~HasNeck(e.action) => n1 = o4 /\ n2 = o4 /\ o5 = o4)
  <2>1. ~HasNeck(e.action) => Len(d) = 0
    BY DEF d, NeckBytes
  <2>2. QED
    BY <1>7, <2>1
<1>19. HasNeck(e.action) =>
         /\ HasAt(bytes, o4, WriteInt16(e.altitude \div scale))
         /\ HasAt(bytes, n1, WriteInt16(e.neck \div scale))
         /\ HasAt(bytes, n2, Varuint(e.neck_duration))
         /\ o5 = n2 + Len(Varuint(e.neck_duration))
  <2>1. SUFFICES ASSUME HasNeck(e.action)
                 PROVE  /\ HasAt(bytes, o4, WriteInt16(e.altitude \div scale))
                        /\ HasAt(bytes, o4 + 2, WriteInt16(e.neck \div scale))
                        /\ HasAt(bytes, (o4 + 2) + 2, Varuint(e.neck_duration))
                        /\ o5 = ((o4 + 2) + 2) + Len(Varuint(e.neck_duration))
    BY <1>18
  <2>2. HasAt(bytes, o4, NeckBytes(e, scale)) /\ o5 = o4 + Len(NeckBytes(e, scale))
    BY <1>4, <1>7 DEF d
  <2>3. o4 \in Nat
    BY <1>7
  <2>4. /\ HasAt(bytes, o4, WriteInt16(e.altitude \div scale))
        /\ HasAt(bytes, o4 + 2, WriteInt16(e.neck \div scale))
        /\ HasAt(bytes, (o4 + 2) + 2, Varuint(e.neck_duration))
        /\ o4 + Len(NeckBytes(e, scale)) = ((o4 + 2) + 2) + Len(Varuint(e.neck_duration))
    <3>1. NeckAt(bytes, o4, e, scale)
      BY <2>1, <2>2, <2>3, NeckInParts
    <3>2. QED
      BY <3>1 DEF NeckAt
  <2>5. QED
    BY <2>2, <2>4
<1> HIDE DEF n1, n2
<1>20. IsRead(p1, E(p, bl, bn, bm, bu, q, r), o4)
  BY <1>17
<1>21. IsRead(p2, E(p, l, bn, bm, bu, q, r), n1)
  <2> DEFINE x == E(p, bl, bn, bm, bu, q, r)
  <2>1. x.action = action /\ x["altitude"] = bl
    BY DEF EntryOf
  <2>2. [x EXCEPT !["altitude"] = l] = E(p, l, bn, bm, bu, q, r)
    BY DEF EntryOf
  <2> HIDE DEF x
  <2>3. St("altitude") => FieldAt(bytes, "altitude", o4).value = l
                        /\ FieldAt(bytes, "altitude", o4).offset = n1
    <3>1. SUFFICES ASSUME HasNeck(e.action)
                   PROVE  FieldAt(bytes, "altitude", o4).value = l
                            /\ FieldAt(bytes, "altitude", o4).offset = n1
      BY <1>13
    <3>2. HasAt(bytes, o4, WriteInt16(e.altitude \div scale)) /\ o4 \in Nat
      BY <1>7, <1>18, <1>19, <3>1
    <3>3. FieldAt(bytes, "altitude", o4).value = e.altitude
          /\ FieldAt(bytes, "altitude", o4).offset = o4 + 2
      BY <1>9, <3>2, AltitudeFieldDecodes
    <3>4. n1 = o4 + 2
      BY <1>7, <1>18, <3>1
    <3>5. QED
      BY <1>15, <1>16, <3>1, <3>3, <3>4
  <2>4. ~St("altitude") => n1 = o4 /\ l = IF Old("altitude") THEN x["altitude"] ELSE 0
    <3>1. SUFFICES ASSUME ~HasNeck(e.action)
                   PROVE  n1 = o4 /\ l = IF Old("altitude") THEN x["altitude"] ELSE 0
      BY <1>13
    <3>2. n1 = o4
      BY <1>18, <3>1
    <3>3. QED
      BY <1>13, <1>16, <2>1, <3>1, <3>2
  <2>5. "altitude" \in FieldNames
    BY DEF FieldNames
  <2>6. IsRead(p1, x, o4)
    BY <1>20 DEF x
  <2>7. IsRead(p2, [x EXCEPT !["altitude"] = l], n1)
    BY <2>1, <2>3, <2>4, <2>5, <2>6, FieldStep DEF p2
  <2>8. QED
    BY <2>2, <2>7
<1>22. IsRead(p3, E(p, l, n, bm, bu, q, r), n2)
  <2> DEFINE x == E(p, l, bn, bm, bu, q, r)
  <2>1. x.action = action /\ x["neck"] = bn
    BY DEF EntryOf
  <2>2. [x EXCEPT !["neck"] = n] = E(p, l, n, bm, bu, q, r)
    BY DEF EntryOf
  <2> HIDE DEF x
  <2>3. St("neck") => FieldAt(bytes, "neck", n1).value = n
                        /\ FieldAt(bytes, "neck", n1).offset = n2
    <3>1. SUFFICES ASSUME HasNeck(e.action)
                   PROVE  FieldAt(bytes, "neck", n1).value = n
                            /\ FieldAt(bytes, "neck", n1).offset = n2
      BY <1>13
    <3>2. HasAt(bytes, n1, WriteInt16(e.neck \div scale)) /\ n1 \in Nat
      BY <1>7, <1>18, <1>19, <3>1
    <3>3. FieldAt(bytes, "neck", n1).value = e.neck
          /\ FieldAt(bytes, "neck", n1).offset = n1 + 2
      BY <1>9, <3>2, AltitudeFieldDecodes
    <3>4. n2 = n1 + 2
      BY <1>7, <1>18, <3>1
    <3>5. QED
      BY <1>15, <1>16, <3>1, <3>3, <3>4
  <2>4. ~St("neck") => n2 = n1 /\ n = IF Old("neck") THEN x["neck"] ELSE 0
    <3>1. SUFFICES ASSUME ~HasNeck(e.action)
                   PROVE  n2 = n1 /\ n = IF Old("neck") THEN x["neck"] ELSE 0
      BY <1>13
    <3>2. n2 = n1
      BY <1>18, <3>1
    <3>3. QED
      BY <1>13, <1>16, <2>1, <3>1, <3>2
  <2>5. "neck" \in FieldNames
    BY DEF FieldNames
  <2>6. IsRead(p2, x, n1)
    BY <1>21 DEF x
  <2>7. IsRead(p3, [x EXCEPT !["neck"] = n], n2)
    BY <2>1, <2>3, <2>4, <2>5, <2>6, FieldStep DEF p3
  <2>8. QED
    BY <2>2, <2>7
<1>23. IsRead(p4, E(p, l, n, m, bu, q, r), o5)
  <2> DEFINE x == E(p, l, n, bm, bu, q, r)
  <2>1. x.action = action /\ x["neck_duration"] = bm
    BY DEF EntryOf
  <2>2. [x EXCEPT !["neck_duration"] = m] = E(p, l, n, m, bu, q, r)
    BY DEF EntryOf
  <2> HIDE DEF x
  <2>3. St("neck_duration") => FieldAt(bytes, "neck_duration", n2).value = m
                        /\ FieldAt(bytes, "neck_duration", n2).offset = o5
    <3>1. SUFFICES ASSUME HasNeck(e.action)
                   PROVE  FieldAt(bytes, "neck_duration", n2).value = m
                            /\ FieldAt(bytes, "neck_duration", n2).offset = o5
      BY <1>13
    <3>2. HasAt(bytes, n2, Varuint(e.neck_duration))
      BY <1>19, <3>1
    <3>3. FieldAt(bytes, "neck_duration", n2).value = e.neck_duration
          /\ FieldAt(bytes, "neck_duration", n2).offset = n2 + Len(Varuint(e.neck_duration))
      BY <1>9, <1>18, <3>2, NumberFieldDecodes
    <3>4. QED
      BY <1>15, <1>16, <1>19, <3>1, <3>3
  <2>4. ~St("neck_duration") => o5 = n2 /\ m = IF Old("neck_duration") THEN x["neck_duration"] ELSE 0
    <3>1. SUFFICES ASSUME ~HasNeck(e.action)
                   PROVE  o5 = n2 /\ m = IF Old("neck_duration") THEN x["neck_duration"] ELSE 0
      BY <1>13
    <3>2. o5 = n2
      BY <1>18, <3>1
    <3>3. QED
      BY <1>13, <1>16, <2>1, <3>1, <3>2
  <2>5. "neck_duration" \in FieldNames
    BY DEF FieldNames
  <2>6. IsRead(p3, x, n2)
    BY <1>22 DEF x
  <2>7. IsRead(p4, [x EXCEPT !["neck_duration"] = m], o5)
    BY <2>1, <2>3, <2>4, <2>5, <2>6, FieldStep DEF p4
  <2>8. QED
    BY <2>2, <2>7
<1> DEFINE v == e.pre_delay
           w == e.post_delay
<1> HIDE DEF v, w
<1>24. IsRead(p5, E(p, l, n, m, u, q, r), o6)
  <2> DEFINE x == E(p, l, n, m, bu, q, r)
  <2>1. x.action = action
    BY DEF EntryOf
  <2>2. [x EXCEPT !["duration"] = u] = E(p, l, n, m, u, q, r)
    BY DEF EntryOf
  <2> HIDE DEF x
  <2>3. St("duration") => FieldAt(bytes, "duration", o5).value = u
                        /\ FieldAt(bytes, "duration", o5).offset = o6
    <3>1. SUFFICES ASSUME HasDuration(action)
                   PROVE  FieldAt(bytes, "duration", o5).value = u
                            /\ FieldAt(bytes, "duration", o5).offset = o6
      BY <1>13
    <3>2. f = Varuint(e.duration) /\ HasAt(bytes, o5, Varuint(e.duration))
          /\ e.duration \in Words /\ o5 \in Nat
      BY <1>4, <1>7, <1>9, <3>1 DEF f, DurationBytes
    <3>3. FieldAt(bytes, "duration", o5).value = e.duration
          /\ FieldAt(bytes, "duration", o5).offset = o5 + Len(Varuint(e.duration))
      BY <3>2, NumberFieldDecodes
    <3>4. u = e.duration
      BY <3>1 DEF u
    <3>5. QED
      BY <1>7, <3>2, <3>3, <3>4
  <2>4. ~St("duration") => o6 = o5 /\ u = IF Old("duration") THEN x["duration"] ELSE 0
    <3>1. SUFFICES ASSUME ~(HasDuration(action)) PROVE o6 = o5 /\ u = 0
      BY <1>13
    <3>2. Len(f) = 0
      BY <3>1 DEF f, DurationBytes
    <3>3. u = 0
      BY <1>9, <3>1 DEF u
    <3>4. QED
      BY <1>7, <3>2, <3>3
  <2>5. "duration" \in FieldNames
    BY DEF FieldNames
  <2>6. IsRead(p4, x, o5)
    BY <1>23 DEF x
  <2>7. IsRead(p5, [x EXCEPT !["duration"] = u], o6)
    BY <2>1, <2>3, <2>4, <2>5, <2>6, FieldStep DEF p5
  <2>8. QED
    BY <2>2, <2>7
<1>25. IsRead(p6, E(p, l, n, m, u, v, r), o7)
  <2> DEFINE x == E(p, l, n, m, u, q, r)
  <2>1. x.action = action
    BY DEF EntryOf
  <2>2. [x EXCEPT !["pre_delay"] = v] = E(p, l, n, m, u, v, r)
    BY DEF EntryOf
  <2> HIDE DEF x
  <2>3. St("pre_delay") => FieldAt(bytes, "pre_delay", o6).value = v
                        /\ FieldAt(bytes, "pre_delay", o6).offset = o7
    <3>1. SUFFICES ASSUME e.pre_delay > 0
                   PROVE  FieldAt(bytes, "pre_delay", o6).value = v
                            /\ FieldAt(bytes, "pre_delay", o6).offset = o7
      BY <1>13
    <3>2. g = Varuint(e.pre_delay) /\ HasAt(bytes, o6, Varuint(e.pre_delay))
          /\ e.pre_delay \in Words /\ o6 \in Nat
      BY <1>4, <1>7, <1>9, <3>1 DEF g, PreBytes
    <3>3. FieldAt(bytes, "pre_delay", o6).value = e.pre_delay
          /\ FieldAt(bytes, "pre_delay", o6).offset = o6 + Len(Varuint(e.pre_delay))
      BY <3>2, NumberFieldDecodes
    <3>4. v = e.pre_delay
      BY <3>1 DEF v
    <3>5. QED
      BY <1>7, <3>2, <3>3, <3>4
  <2>4. ~St("pre_delay") => o7 = o6 /\ v = IF Old("pre_delay") THEN x["pre_delay"] ELSE 0
    <3>1. SUFFICES ASSUME ~(e.pre_delay > 0) PROVE o7 = o6 /\ v = 0
      BY <1>13
    <3>2. Len(g) = 0
      BY <3>1 DEF g, PreBytes
    <3>3. v = 0
      BY <1>9, <3>1 DEF v, Words
    <3>4. QED
      BY <1>7, <3>2, <3>3
  <2>5. "pre_delay" \in FieldNames
    BY DEF FieldNames
  <2>6. IsRead(p5, x, o6)
    BY <1>24 DEF x
  <2>7. IsRead(p6, [x EXCEPT !["pre_delay"] = v], o7)
    BY <2>1, <2>3, <2>4, <2>5, <2>6, FieldStep DEF p6
  <2>8. QED
    BY <2>2, <2>7
<1>26. IsRead(p7, E(p, l, n, m, u, v, w), o8)
  <2> DEFINE x == E(p, l, n, m, u, v, r)
  <2>1. x.action = action
    BY DEF EntryOf
  <2>2. [x EXCEPT !["post_delay"] = w] = E(p, l, n, m, u, v, w)
    BY DEF EntryOf
  <2> HIDE DEF x
  <2>3. St("post_delay") => FieldAt(bytes, "post_delay", o7).value = w
                        /\ FieldAt(bytes, "post_delay", o7).offset = o8
    <3>1. SUFFICES ASSUME e.post_delay > 0
                   PROVE  FieldAt(bytes, "post_delay", o7).value = w
                            /\ FieldAt(bytes, "post_delay", o7).offset = o8
      BY <1>13
    <3>2. h = Varuint(e.post_delay) /\ HasAt(bytes, o7, Varuint(e.post_delay))
          /\ e.post_delay \in Words /\ o7 \in Nat
      BY <1>4, <1>7, <1>9, <3>1 DEF h, PostBytes
    <3>3. FieldAt(bytes, "post_delay", o7).value = e.post_delay
          /\ FieldAt(bytes, "post_delay", o7).offset = o7 + Len(Varuint(e.post_delay))
      BY <3>2, NumberFieldDecodes
    <3>4. w = e.post_delay
      BY <3>1 DEF w
    <3>5. QED
      BY <1>7, <3>2, <3>3, <3>4
  <2>4. ~St("post_delay") => o8 = o7 /\ w = IF Old("post_delay") THEN x["post_delay"] ELSE 0
    <3>1. SUFFICES ASSUME ~(e.post_delay > 0) PROVE o8 = o7 /\ w = 0
      BY <1>13
    <3>2. Len(h) = 0
      BY <3>1 DEF h, PostBytes
    <3>3. w = 0
      BY <1>9, <3>1 DEF w, Words
    <3>4. QED
      BY <1>7, <3>2, <3>3
  <2>5. "post_delay" \in FieldNames
    BY DEF FieldNames
  <2>6. IsRead(p6, x, o7)
    BY <1>25 DEF x
  <2>7. IsRead(p7, [x EXCEPT !["post_delay"] = w], o8)
    BY <2>1, <2>3, <2>4, <2>5, <2>6, FieldStep DEF p7
  <2>8. QED
    BY <2>2, <2>7
<1>27. p7.result = "SUCCESS" => p0.result = "SUCCESS"
  BY FieldsKeepErrors DEF p1, p2, p3, p4, p5, p6, p7
<1>28. After(before, e, action) = E(p, l, n, m, u, v, w)
  BY DEF After, t, p, l, n, m, u, v, w
<1>29. QED
  BY <1>10, <1>12, <1>26, <1>27, <1>28 DEF EntryIsRead, t, o8

---------------------------------------------------------------------------
(* Where the entries of a plan are.                                        *)

(* Strings of bytes that are joined one by one.                            *)
Joined(f, n, B) == f = [i \in 0 .. n |-> IF i = 0 THEN << >> ELSE f[i - 1] \o B[i]]

(* Each string is the one before it and the next piece.                    *)
Joins(f, n, B) ==
  /\ f[0] = << >>
  /\ \A i \in 1 .. n : f[i] = f[i - 1] \o B[i]
  /\ \A i \in 0 .. n : f[i] \in Seq(Byte)

(* A function of joined strings joins them one by one.                     *)
LEMMA JoinedSteps ==
  ASSUME NEW n \in Nat, NEW B, \A i \in 1 .. n : B[i] \in Seq(Byte), NEW f, Joined(f, n, B)
  PROVE  Joins(f, n, B)
<1> DEFINE S == Seq(Byte)
<1>1. f[0] = << >> /\ \A i \in 1 .. n : f[i] = f[i - 1] \o B[i]
  <2>1. 0 \in 0 .. n
    OBVIOUS
  <2>2. f[0] = << >>
    BY <2>1, Zenon DEF Joined
  <2>3. ASSUME NEW i \in 1 .. n PROVE f[i] = f[i - 1] \o B[i]
    <3>1. i \in 0 .. n /\ i # 0
      OBVIOUS
    <3>2. QED
      BY <3>1, Zenon DEF Joined
  <2>4. QED
    BY <2>2, <2>3
<1>2. f[0] \in S
  BY <1>1
<1>3. ASSUME NEW i \in 1 .. n, f[i - 1] \in S PROVE f[i] \in S
  BY <1>1, <1>3, ConcatType
<1> HIDE DEF S
<1>4. \A i \in 0 .. n : f[i] \in S
  BY <1>2, <1>3, StepwiseType
<1>5. QED
  BY <1>1, <1>4 DEF S, Joins

(* There is one.                                                           *)
LEMMA JoinedExists ==
  ASSUME NEW n \in Nat, NEW B, \A i \in 1 .. n : B[i] \in Seq(Byte)
  PROVE  \E f : Joined(f, n, B)
<1> DEFINE S == Seq(Byte)
           G == [i \in 1 .. n |-> [v \in S |-> v \o B[i]]]
<1>1. \A i \in 1 .. n : \A v \in S : G[i][v] = v \o B[i] /\ G[i][v] \in S
  BY ConcatType
<1>2. << >> \in S
  OBVIOUS
<1> HIDE DEF G, S
<1>3. PICK f : Stepwise(f, n, << >>, G)
  BY <1>1, <1>2, StepwiseExists
<1>4. f[0] = << >> /\ \A i \in 1 .. n : f[i] = G[i][f[i - 1]]
  BY <1>3 DEF Stepwise
<1>5. \A i \in 0 .. n : f[i] \in S
  <2>1. \A i \in 1 .. n : f[i - 1] \in S => f[i] \in S
    BY <1>1, <1>4
  <2>2. f[0] \in S
    BY <1>2, <1>4
  <2>3. QED
    BY <2>1, <2>2, StepwiseType, Zenon
<1>6. ASSUME NEW i \in 0 .. n
      PROVE  (IF i = 0 THEN << >> ELSE G[i][f[i - 1]]) = (IF i = 0 THEN << >> ELSE f[i - 1] \o B[i])
  <2>1. CASE i = 0
    BY <2>1, Zenon
  <2>2. CASE i # 0
    <3>1. i \in 1 .. n /\ i - 1 \in 0 .. n
      BY <2>2
    <3>2. G[i][f[i - 1]] = f[i - 1] \o B[i]
      BY <1>1, <1>5, <3>1, Zenon
    <3>3. QED
      BY <2>2, <3>2, Zenon
  <2>3. QED
    BY <2>1, <2>2
<1>7. f = [i \in 0 .. n |-> IF i = 0 THEN << >> ELSE f[i - 1] \o B[i]]
  BY <1>3, <1>6, Zenon DEF Stepwise
<1>8. QED
  BY <1>7 DEF Joined

(* The i-th entry and point, encoded.                                      *)
EntryBytes(plan, i) == EncodedEntry(plan.entries[i], plan.scale, ActionAt(plan.entries, i))
PointBytes(plan, i) == EncodedPoint(plan.points[i], plan.scale)

(* What the encodings of points and entries are, step by step.             *)
PlanEncoded(plan) ==
  LET n == Len(plan.entries)
      m == Len(plan.points)
  IN  /\ n \in Nat /\ m \in Nat
      /\ EncodedEntries(plan, 0) = << >> /\ EncodedPoints(plan, 0) = << >>
      /\ \A i \in 1 .. n : /\ EncodedEntries(plan, i) = EncodedEntries(plan, i - 1) \o EntryBytes(plan, i)
                           /\ EntryBytes(plan, i) \in Seq(Byte)
      /\ \A i \in 0 .. n : EncodedEntries(plan, i) \in Seq(Byte)
      /\ \A i \in 1 .. m : /\ EncodedPoints(plan, i) = EncodedPoints(plan, i - 1) \o PointBytes(plan, i)
                           /\ PointBytes(plan, i) \in Seq(Byte) /\ Len(PointBytes(plan, i)) = 4
      /\ \A i \in 0 .. m : EncodedPoints(plan, i) \in Seq(Byte)

(* They are that for every plan that can be encoded.                       *)
LEMMA PlanIsEncoded ==
  ASSUME NEW plan, Encodable(plan)
  PROVE  PlanEncoded(plan)
<1> DEFINE n == Len(plan.entries)
           m == Len(plan.points)
           B == [i \in 1 .. n |-> EntryBytes(plan, i)]
           C == [i \in 1 .. m |-> PointBytes(plan, i)]
           IsE(f) == f = [i \in 0 .. n |-> IF i = 0 THEN << >> ELSE f[i - 1] \o EntryBytes(plan, i)]
           IsP(f) == f = [i \in 0 .. m |-> IF i = 0 THEN << >> ELSE f[i - 1] \o PointBytes(plan, i)]
<1>1. n \in Nat /\ m \in Nat /\ plan.scale \in 1 .. 127
  BY LenProperties DEF Encodable
<1>2. ASSUME NEW i \in 1 .. n PROVE EntryBytes(plan, i) \in Seq(Byte)
  <2>1. plan.entries[i] \in PlannedEntry
    BY ElementOfSeq DEF Encodable
  <2>2. QED
    BY <1>1, <2>1, EntryBytesType DEF EntryBytes
<1>3. ASSUME NEW i \in 1 .. m
      PROVE  PointBytes(plan, i) \in Seq(Byte) /\ Len(PointBytes(plan, i)) = 4
  <2> DEFINE p == plan.points[i]
             u == WriteInt16(p.x \div plan.scale)
             v == WriteInt16(p.y \div plan.scale)
  <2>1. p.x \in Int /\ p.y \in Int
    <3> DEFINE P == [x: Int, y: Int]
    <3>1. plan.points \in Seq(P)
      BY DEF Encodable
    <3> HIDE DEF P
    <3>2. p \in P
      BY <3>1, ElementOfSeq
    <3>3. QED
      BY <3>2 DEF P
  <2>2. p.x \div plan.scale \in Int /\ p.y \div plan.scale \in Int
    <3> DEFINE x == p.x
               y == p.y
               k == plan.scale
    <3>1. x \in Int /\ y \in Int /\ k \in 1 .. 127
      BY <1>1, <2>1
    <3> HIDE DEF x, y, k
    <3>2. x \div k \in Int /\ y \div k \in Int
      BY <3>1
    <3>3. QED
      BY <3>2 DEF x, y, k
  <2>3. u \in Seq(Byte) /\ v \in Seq(Byte) /\ Len(u) = 2 /\ Len(v) = 2
    BY <2>2, WriteType
  <2>4. PointBytes(plan, i) = u \o v
    BY DEF PointBytes, EncodedPoint
  <2> HIDE DEF u, v
  <2>5. u \o v \in Seq(Byte) /\ Len(u \o v) = Len(u) + Len(v)
    BY <2>3, ConcatType
  <2>6. QED
    BY <2>3, <2>4, <2>5
<1>4. \E f : IsE(f)
  <2>1. \A i \in 1 .. n : B[i] \in Seq(Byte)
    BY <1>2
  <2> HIDE DEF n, B
  <2>2. PICK f : Joined(f, n, B)
    BY <1>1, <2>1, JoinedExists
  <2>3. ASSUME NEW i \in 0 .. n
        PROVE  (IF i = 0 THEN << >> ELSE f[i - 1] \o B[i])
                 = (IF i = 0 THEN << >> ELSE f[i - 1] \o EntryBytes(plan, i))
    BY <1>1 DEF B
  <2>4. IsE(f)
    BY <2>2, <2>3, Zenon DEF Joined
  <2>5. QED
    BY <2>4
<1>5. \E f : IsP(f)
  <2>1. \A i \in 1 .. m : C[i] \in Seq(Byte)
    BY <1>3
  <2> HIDE DEF m, C
  <2>2. PICK f : Joined(f, m, C)
    BY <1>1, <2>1, JoinedExists
  <2>3. ASSUME NEW i \in 0 .. m
        PROVE  (IF i = 0 THEN << >> ELSE f[i - 1] \o C[i])
                 = (IF i = 0 THEN << >> ELSE f[i - 1] \o PointBytes(plan, i))
    BY <1>1 DEF C
  <2>4. IsP(f)
    BY <2>2, <2>3, Zenon DEF Joined
  <2>5. QED
    BY <2>4
<1> DEFINE e == CHOOSE f : IsE(f)
           p == CHOOSE f : IsP(f)
<1>6. \A i : EncodedEntries(plan, i) = e[i]
  BY DEF EncodedEntries, EntryBytes
<1>7. \A i : EncodedPoints(plan, i) = p[i]
  BY DEF EncodedPoints, PointBytes
<1>8. Joins(e, n, B)
  <2>1. IsE(e)
    <3> HIDE DEF IsE
    <3>1. QED
      BY <1>4
  <2> HIDE DEF e, n, B
  <2>2. ASSUME NEW i \in 0 .. n
        PROVE  (IF i = 0 THEN << >> ELSE e[i - 1] \o EntryBytes(plan, i))
                 = (IF i = 0 THEN << >> ELSE e[i - 1] \o B[i])
    BY <1>1 DEF B
  <2>3. Joined(e, n, B)
    BY <2>1, <2>2, Zenon DEF Joined
  <2>4. \A i \in 1 .. n : B[i] \in Seq(Byte)
    BY <1>2 DEF B
  <2>5. QED
    BY <1>1, <2>3, <2>4, JoinedSteps
<1>9. Joins(p, m, C)
  <2>1. IsP(p)
    <3> HIDE DEF IsP
    <3>1. QED
      BY <1>5
  <2> HIDE DEF p, m, C
  <2>2. ASSUME NEW i \in 0 .. m
        PROVE  (IF i = 0 THEN << >> ELSE p[i - 1] \o PointBytes(plan, i))
                 = (IF i = 0 THEN << >> ELSE p[i - 1] \o C[i])
    BY <1>1 DEF C
  <2>3. Joined(p, m, C)
    BY <2>1, <2>2, Zenon DEF Joined
  <2>4. \A i \in 1 .. m : C[i] \in Seq(Byte)
    BY <1>3 DEF C
  <2>5. QED
    BY <1>1, <2>3, <2>4, JoinedSteps
<1>10. (\A i \in 1 .. n : B[i] = EntryBytes(plan, i)) /\ (\A i \in 1 .. m : C[i] = PointBytes(plan, i))
  OBVIOUS
<1> HIDE DEF e, p, B, C, IsE, IsP
<1>11. EncodedEntries(plan, 0) = << >> /\ EncodedPoints(plan, 0) = << >>
  BY <1>6, <1>7, <1>8, <1>9, Zenon DEF Joins
<1>12. ASSUME NEW i \in 1 .. n
       PROVE  EncodedEntries(plan, i) = EncodedEntries(plan, i - 1) \o EntryBytes(plan, i)
  BY <1>6, <1>8, <1>10, Zenon DEF Joins
<1>13. ASSUME NEW i \in 1 .. m
       PROVE  EncodedPoints(plan, i) = EncodedPoints(plan, i - 1) \o PointBytes(plan, i)
  BY <1>7, <1>9, <1>10, Zenon DEF Joins
<1>14. \A i \in 0 .. n : EncodedEntries(plan, i) \in Seq(Byte)
  BY <1>6, <1>8, Zenon DEF Joins
<1>15. \A i \in 0 .. m : EncodedPoints(plan, i) \in Seq(Byte)
  BY <1>7, <1>9, Zenon DEF Joins
<1>16. QED
  BY <1>1, <1>2, <1>3, <1>11, <1>12, <1>13, <1>14, <1>15, Zenon DEF PlanEncoded

(* A point takes four bytes.                                               *)
LEMMA PointsLength ==
  ASSUME NEW plan, PlanEncoded(plan), NEW k \in Nat, k <= Len(plan.points)
  PROVE  Len(EncodedPoints(plan, k)) = 4 * k
<1> DEFINE m == Len(plan.points)
           Q == {i \in Nat : i <= m => Len(EncodedPoints(plan, i)) = 4 * i}
<1>1. m \in Nat
  BY DEF PlanEncoded
<1>2. 0 \in Q
  <2>1. EncodedPoints(plan, 0) = << >>
    BY DEF PlanEncoded
  <2>2. Len(EncodedPoints(plan, 0)) = 4 * 0
    BY <2>1
  <2>3. QED
    BY <2>2
<1>3. ASSUME NEW i \in Nat, i \in Q PROVE i + 1 \in Q
  <2>1. CASE i + 1 <= m
    <3>1. i + 1 \in 1 .. m /\ (i + 1) - 1 = i /\ i \in 0 .. m
      BY <1>1, <2>1
    <3> DEFINE s == EncodedPoints(plan, i)
               t == PointBytes(plan, i + 1)
    <3>2. /\ EncodedPoints(plan, i + 1) = s \o t /\ s \in Seq(Byte)
          /\ t \in Seq(Byte) /\ Len(t) = 4
      BY <3>1 DEF PlanEncoded
    <3>3. Len(s) = 4 * i
      BY <1>3, <2>1
    <3> HIDE DEF s, t
    <3>4. Len(s \o t) = Len(s) + Len(t)
      BY <3>2, ConcatType
    <3>5. Len(EncodedPoints(plan, i + 1)) = 4 * (i + 1)
      BY <3>2, <3>3, <3>4
    <3>6. QED
      BY <3>5
  <2>2. QED
    BY <2>1
<1> HIDE DEF Q
<1>4. k \in Q
  BY <1>2, <1>3, CountingInduction
<1>5. QED
  BY <1>4 DEF Q

(* What is there in one piece is there entry by entry.                     *)
EntriesAreAt(plan, bytes, first) ==
  \A i \in 1 .. Len(plan.entries) :
    /\ Len(EncodedEntries(plan, i - 1)) \in Nat
    /\ HasAt(bytes, first + Len(EncodedEntries(plan, i - 1)), EntryBytes(plan, i))
    /\ Len(EncodedEntries(plan, i)) = Len(EncodedEntries(plan, i - 1)) + Len(EntryBytes(plan, i))

(* The entries are those up to one, that one, and the rest.                *)
LEMMA EntriesInParts ==
  ASSUME NEW plan, PlanEncoded(plan), NEW bytes, Len(bytes) \in Nat, NEW first \in Nat,
         HasAt(bytes, first, EncodedEntries(plan, Len(plan.entries)))
  PROVE  EntriesAreAt(plan, bytes, first)
<1> DEFINE n == Len(plan.entries)
           Q == {k \in Nat : k <= n => HasAt(bytes, first, EncodedEntries(plan, n - k))}
<1>1. n \in Nat
  BY DEF PlanEncoded
<1>2. 0 \in Q
  <2>1. n - 0 = n
    BY <1>1
  <2>2. QED
    BY <2>1
<1>3. ASSUME NEW i \in 1 .. n
      PROVE  /\ EncodedEntries(plan, i) = EncodedEntries(plan, i - 1) \o EntryBytes(plan, i)
             /\ EncodedEntries(plan, i - 1) \in Seq(Byte) /\ EntryBytes(plan, i) \in Seq(Byte)
  <2>1. i - 1 \in 0 .. n
    BY <1>1
  <2>2. QED
    BY <2>1 DEF PlanEncoded
<1>4. ASSUME NEW i \in 1 .. n, HasAt(bytes, first, EncodedEntries(plan, i))
      PROVE  /\ HasAt(bytes, first, EncodedEntries(plan, i - 1))
             /\ HasAt(bytes, first + Len(EncodedEntries(plan, i - 1)), EntryBytes(plan, i))
  <2> DEFINE s == EncodedEntries(plan, i - 1)
             t == EntryBytes(plan, i)
  <2>1. s \in Seq(Byte) /\ t \in Seq(Byte) /\ HasAt(bytes, first, s \o t)
    BY <1>3, <1>4
  <2> HIDE DEF s, t
  <2>2. HasAt(bytes, first, s) /\ HasAt(bytes, first + Len(s), t)
    BY <2>1, HasParts
  <2>3. QED
    BY <2>2 DEF s, t
<1>5. ASSUME NEW k \in Nat, k \in Q PROVE k + 1 \in Q
  <2>1. CASE k + 1 <= n
    <3>1. n - k \in 1 .. n /\ (n - k) - 1 = n - (k + 1)
      BY <1>1, <2>1
    <3>2. HasAt(bytes, first, EncodedEntries(plan, n - k))
      BY <1>5, <2>1
    <3>3. HasAt(bytes, first, EncodedEntries(plan, (n - k) - 1))
      BY <1>4, <3>1, <3>2
    <3>4. QED
      BY <3>1, <3>3
  <2>2. QED
    BY <2>1
<1> HIDE DEF Q
<1>6. \A k \in Nat : k \in Q
  BY <1>2, <1>5, CountingInduction
<1>7. ASSUME NEW i \in 1 .. n
      PROVE  /\ Len(EncodedEntries(plan, i - 1)) \in Nat
             /\ HasAt(bytes, first + Len(EncodedEntries(plan, i - 1)), EntryBytes(plan, i))
             /\ Len(EncodedEntries(plan, i)) = Len(EncodedEntries(plan, i - 1)) + Len(EntryBytes(plan, i))
  <2>1. n - i \in Nat /\ n - i <= n /\ n - (n - i) = i
    BY <1>1
  <2>2. HasAt(bytes, first, EncodedEntries(plan, i))
    BY <1>6, <2>1 DEF Q
  <2>3. Len(EncodedEntries(plan, i - 1)) \in Nat
    BY <1>3, LenProperties
  <2>4. Len(EncodedEntries(plan, i)) = Len(EncodedEntries(plan, i - 1)) + Len(EntryBytes(plan, i))
    BY <1>3, ConcatType
  <2>5. QED
    BY <1>4, <2>2, <2>3, <2>4
<1>8. QED
  BY <1>7 DEF EntriesAreAt

(* A plan is laid out as the reader expects it.                            *)
LaidOut(plan, bytes) ==
  /\ bytes \in Seq(Byte) /\ bytes # << >> /\ bytes[1] % 128 = plan.scale
  /\ OffsetOfFirstEntry(bytes) \in Nat /\ OffsetOfFirstEntry(bytes) <= Len(bytes)
  /\ ParsePlanHeader(bytes).num_points \in Nat
  /\ NumEntries(bytes) = Len(plan.entries)
  /\ EntriesAreAt(plan, bytes, OffsetOfFirstEntry(bytes))

(* The reader finds the number of entries and the first entry, and each of *)
(* them where the ones before it end.                                      *)
LEMMA PlanIsLaidOut ==
  ASSUME NEW plan, Encodable(plan), plan.entries # << >>
  PROVE  LaidOut(plan, Encoding(plan))
<1> DEFINE bytes == Encoding(plan)
           n == Len(plan.entries)
           m == Len(plan.points)
           scale == plan.scale
           a == <<scale>>
           b == WriteUint16(m)
           c == EncodedPoints(plan, m)
           d == WriteUint16(n)
           f == EncodedEntries(plan, n)
<1>1. PlanEncoded(plan)
  BY PlanIsEncoded
<1>2. n \in Nat /\ m \in Nat /\ n <= 65535 /\ m <= 65535 /\ scale \in 1 .. 127
  <2>1. n \in Nat /\ m \in Nat
    BY <1>1 DEF PlanEncoded
  <2>2. n <= 65535 /\ m <= 65535 /\ scale \in 1 .. 127
    BY SMT DEF Encodable
  <2>3. QED
    BY <2>1, <2>2
<1>3. c \in Seq(Byte) /\ Len(c) = 4 * m /\ f \in Seq(Byte)
  <2>1. n \in 0 .. n /\ m \in 0 .. m /\ m <= m
    BY <1>2
  <2>2. Len(c) = 4 * m
    BY <1>1, <1>2, <2>1, PointsLength
  <2>3. c \in Seq(Byte) /\ f \in Seq(Byte)
    BY <1>1, <2>1 DEF PlanEncoded
  <2>4. QED
    BY <2>2, <2>3
<1>4. /\ b \in Seq(Byte) /\ Len(b) = 2 /\ b = WrittenInt16(m)
      /\ d \in Seq(Byte) /\ Len(d) = 2 /\ d = WrittenInt16(n)
  <2>1. n \in Int /\ m \in Int
    BY <1>2
  <2> HIDE DEF n, m
  <2>2. QED
    BY <2>1, WriteType
<1>5. a \in Seq(Byte) /\ Len(a) = 1 /\ a[1] = scale
  BY <1>2, BuilderAssumption
<1>6. bytes = a \o b \o c \o d \o f
  BY DEF Encoding
<1> HIDE DEF bytes, n, m, scale, a, b, c, d, f
<1> DEFINE s2 == a \o b
           s3 == s2 \o c
           s4 == s3 \o d
<1>7. s2 \in Seq(Byte) /\ Len(s2) = 3
  <2>1. s2 \in Seq(Byte) /\ Len(s2) = Len(a) + Len(b)
    BY <1>4, <1>5, ConcatType
  <2>2. Len(a) + Len(b) = 3
    BY <1>4, <1>5
  <2>3. QED
    BY <2>1, <2>2, Zenon
<1> HIDE DEF s2
<1>8. s3 \in Seq(Byte) /\ Len(s3) = 3 + 4 * m
  <2>1. s3 \in Seq(Byte) /\ Len(s3) = Len(s2) + Len(c)
    BY <1>3, <1>7, ConcatType
  <2>2. QED
    BY <1>3, <1>7, <2>1
<1> HIDE DEF s3
<1>9. s4 \in Seq(Byte) /\ Len(s4) = 5 + 4 * m
  <2>1. s4 \in Seq(Byte) /\ Len(s4) = Len(s3) + Len(d)
    BY <1>4, <1>8, ConcatType
  <2>2. QED
    BY <1>2, <1>4, <1>8, <2>1
<1> HIDE DEF s4
<1>10. bytes \in Seq(Byte) /\ Len(bytes) \in Nat /\ HasAt(bytes, 0, s4 \o f)
  <2>1. bytes = s4 \o f
    BY <1>6 DEF s2, s3, s4
  <2>2. bytes \in Seq(Byte) /\ Len(bytes) \in Nat
    BY <1>3, <1>9, <2>1, ConcatType, LenProperties
  <2>3. HasAt(bytes, 0, bytes)
    BY <2>2 DEF HasAt
  <2>4. QED
    BY <2>1, <2>2, <2>3
<1>11. HasAt(bytes, 0, s4) /\ HasAt(bytes, 5 + 4 * m, f)
  <2>1. HasAt(bytes, 0, s4) /\ HasAt(bytes, 0 + Len(s4), f)
    BY <1>3, <1>9, <1>10, HasParts
  <2>2. 0 + Len(s4) = 5 + 4 * m
    BY <1>2, <1>9
  <2>3. QED
    BY <2>1, <2>2
<1>12. HasAt(bytes, 0, s3) /\ HasAt(bytes, 3 + 4 * m, d)
  <2>1. HasAt(bytes, 0, s3) /\ HasAt(bytes, 0 + Len(s3), d)
    BY <1>4, <1>8, <1>10, <1>11, HasParts DEF s4
  <2>2. 0 + Len(s3) = 3 + 4 * m
    BY <1>2, <1>8
  <2>3. QED
    BY <2>1, <2>2
<1>13. HasAt(bytes, 0, s2)
  BY <1>3, <1>7, <1>10, <1>12, HasParts DEF s3
<1>14. HasAt(bytes, 0, a) /\ HasAt(bytes, 1, b)
  <2>1. HasAt(bytes, 0, a) /\ HasAt(bytes, 0 + Len(a), b)
    BY <1>4, <1>5, <1>10, <1>13, HasParts DEF s2
  <2>2. 0 + Len(a) = 1
    BY <1>5
  <2>3. QED
    BY <2>1, <2>2
<1>15. bytes[1] = scale /\ scale % 128 = scale
  <2>1. bytes[0 + 1] = a[1]
    BY <1>5, <1>14 DEF HasAt
  <2>2. QED
    BY <1>2, <1>5, <2>1
<1>16. Uint16At(bytes, 1) = m
  <2>1. HasAt(bytes, 1, WrittenInt16(m))
    BY <1>4, <1>14
  <2>2. QED
    BY <1>2, <1>10, <2>1, Uint16Decodes, SMT
<1>17. Uint16At(bytes, 3 + 4 * m) = n
  <2>1. HasAt(bytes, 3 + 4 * m, WrittenInt16(n)) /\ 3 + 4 * m \in Nat
    BY <1>2, <1>4, <1>12
  <2>2. QED
    BY <1>2, <1>10, <2>1, Uint16Decodes, SMT
<1>18. OffsetOfEntryTable(bytes) = 3 + 4 * m /\ ParsePlanHeader(bytes).num_points = m
  <2>1. ParsePlanHeader(bytes).num_points = m
    BY <1>16 DEF ParsePlanHeader, ParseUint16, Uint16At
  <2>2. QED
    BY <2>1 DEF OffsetOfEntryTable, OffsetOfPoint, PlanHeaderLength
<1>19. OffsetOfFirstEntry(bytes) = 5 + 4 * m /\ 5 + 4 * m \in Nat
  BY <1>2, <1>18 DEF OffsetOfFirstEntry
<1>20. (3 + 4 * m) + 2 <= Len(bytes) /\ bytes # << >>
  <2>1. (3 + 4 * m) + 2 <= Len(bytes)
    BY <1>4, <1>12 DEF HasAt
  <2>2. Len(<< >>) = 0
    OBVIOUS
  <2>3. QED
    BY <1>2, <1>10, <2>1, <2>2
<1>21. NumEntries(bytes) = n
  BY <1>17, <1>18, <1>20 DEF NumEntries, ParseUint16, Uint16At
<1>22. EntriesAreAt(plan, bytes, 5 + 4 * m)
  BY <1>1, <1>10, <1>11, <1>19, EntriesInParts DEF f, n
<1>23. OffsetOfFirstEntry(bytes) <= Len(bytes) /\ ParsePlanHeader(bytes).num_points \in Nat
  BY <1>2, <1>10, <1>18, <1>19, <1>20
<1>24. QED
  BY <1>10, <1>15, <1>19, <1>20, <1>21, <1>22, <1>23 DEF LaidOut, bytes, n, scale

---------------------------------------------------------------------------
(* The entry that is meant, from the one before it.                        *)

(* Times are sums.                                                         *)
TimesAdd(entries) ==
  /\ TimeOf(entries, 0) = 0
  /\ \A i \in 1 .. Len(entries) : TimeOf(entries, i) = TimeOf(entries, i - 1) + entries[i].after
  /\ \A i \in 0 .. Len(entries) : TimeOf(entries, i) \in Nat

(* The times that entries are meant for are the sums of what they say.     *)
LEMMA EntryTimes ==
  ASSUME NEW entries \in Seq(PlannedEntry)
  PROVE  TimesAdd(entries)
<1> DEFINE n == Len(entries)
           G == [i \in 1 .. n |-> [v \in Nat |-> v + entries[i].after]]
           IsT(f) == f = [i \in 0 .. n |-> IF i = 0 THEN 0 ELSE f[i - 1] + entries[i].after]
           t == CHOOSE f : IsT(f)
<1>1. n \in Nat
  BY LenProperties
<1>2. ASSUME NEW i \in 1 .. n PROVE entries[i].after \in Nat
  <2>1. entries[i] \in PlannedEntry
    BY ElementOfSeq
  <2>2. QED
    BY <2>1 DEF PlannedEntry, Words
<1>3. \A i \in 1 .. n : \A v \in Nat : G[i][v] = v + entries[i].after /\ G[i][v] \in Nat
  BY <1>2
<1> HIDE DEF G
<1>4. \E f : IsT(f)
  <2> HIDE DEF n
  <2>1. PICK f : Stepwise(f, n, 0, G)
    <3>1. 0 \in Nat /\ \A i \in 1 .. n : \A v \in Nat : G[i][v] \in Nat
      BY <1>3
    <3>2. QED
      BY <1>1, <3>1, StepwiseExists
  <2>2. f[0] = 0 /\ \A i \in 1 .. n : f[i] = G[i][f[i - 1]]
    BY <1>1, <2>1 DEF Stepwise
  <2>3. \A i \in 0 .. n : f[i] \in Nat
    <3>1. \A i \in 1 .. n : f[i - 1] \in Nat => f[i] \in Nat
      BY <1>3, <2>2
    <3>2. f[0] \in Nat
      BY <2>2
    <3>3. QED
      BY <1>1, <3>1, <3>2, StepwiseType, Zenon
  <2>4. ASSUME NEW i \in 0 .. n
        PROVE  (IF i = 0 THEN 0 ELSE G[i][f[i - 1]]) = (IF i = 0 THEN 0 ELSE f[i - 1] + entries[i].after)
    <3>1. CASE i = 0
      BY <3>1, Zenon
    <3>2. CASE i # 0
      <4>1. i \in 1 .. n /\ i - 1 \in 0 .. n
        BY <1>1, <3>2
      <4>2. G[i][f[i - 1]] = f[i - 1] + entries[i].after
        BY <1>3, <2>3, <4>1, Zenon
      <4>3. QED
        BY <3>2, <4>2, Zenon
    <3>3. QED
      BY <3>1, <3>2
  <2>5. IsT(f)
    BY <2>1, <2>4, Zenon DEF Stepwise
  <2>6. QED
    BY <2>5
<1>5. IsT(t)
  <2> HIDE DEF IsT
  <2>1. QED
    BY <1>4
<1>6. \A i : TimeOf(entries, i) = t[i]
  BY DEF TimeOf
<1> HIDE DEF t
<1>7. t[0] = 0 /\ \A i \in 1 .. n : t[i] = t[i - 1] + entries[i].after
  BY <1>1, <1>5
<1> HIDE DEF n, IsT
<1>8. \A i \in 0 .. n : t[i] \in Nat
  <2>1. ASSUME NEW i \in 1 .. n, t[i - 1] \in Nat PROVE t[i] \in Nat
    BY <1>2, <1>7, <2>1
  <2>2. t[0] \in Nat
    BY <1>7
  <2>3. QED
    BY <1>1, <2>1, <2>2, StepwiseType, Zenon
<1>9. TimeOf(entries, 0) = 0
  BY <1>6, <1>7, Zenon
<1>10. ASSUME NEW i \in 1 .. n PROVE TimeOf(entries, i) = TimeOf(entries, i - 1) + entries[i].after
  BY <1>6, <1>7, Zenon
<1>11. ASSUME NEW i \in 0 .. n PROVE TimeOf(entries, i) \in Nat
  BY <1>6, <1>8, Zenon
<1>12. QED
  BY <1>9, <1>10, <1>11, Zenon DEF TimesAdd, n

(* What Source() is: the last entry of its own up to i, or none.           *)
SourceIs(entries, i) ==
  /\ Source(entries, i) \in 0 .. i
  /\ Source(entries, i) = IF i = 0 THEN 0
                          ELSE IF entries[i].action # "SAME" THEN i ELSE Source(entries, i - 1)
  /\ Source(entries, i) # 0 => entries[Source(entries, i)].action # "SAME"

(* An entry of its own is its own source, any other has the one before's.  *)
LEMMA SourceSteps ==
  ASSUME NEW entries, NEW i \in Nat
  PROVE  SourceIs(entries, i)
<1> DEFINE own == {j \in 1 .. i : entries[j].action # "SAME"}
           before == {j \in 1 .. i - 1 : entries[j].action # "SAME"}
           last == CHOOSE j \in own : \A k \in own : k <= j
           s == Source(entries, i)
<1>1. s = IF own = {} THEN 0 ELSE last
  BY DEF Source
<1>3. own # {} => last \in own
  <2>1. SUFFICES ASSUME own # {} PROVE \E j \in own : \A k \in own : k <= j
    OBVIOUS
  <2> DEFINE Q == {i - j : j \in own}
  <2>2. PICK j \in own : TRUE
    BY <2>1
  <2>3. i - j \in Q /\ Q \subseteq Nat
    OBVIOUS
  <2>4. PICK q \in Nat : q \in Q /\ \A r \in Nat : r < q => r \notin Q
    <3> HIDE DEF Q
    <3>1. i - j \in Nat /\ i - j \in Q
      BY <2>3
    <3>2. QED
      BY <3>1, LeastNumber
  <2>5. PICK l \in own : q = i - l
    BY <2>4
  <2>6. ASSUME NEW k \in own PROVE k <= l
    <3>1. i - l <= i - k
      <4>1. i - k \in Q /\ i - k \in Nat
        OBVIOUS
      <4> HIDE DEF Q
      <4>2. ~(i - k < q)
        BY <2>4, <4>1
      <4>3. QED
        BY <2>4, <2>5, <4>1, <4>2
    <3>2. QED
      BY <3>1
  <2>7. QED
    BY <2>6
<1>4. CASE i = 0
  <2>1. own = {}
    BY <1>4
  <2>2. QED
    BY <1>1, <1>4, <2>1 DEF SourceIs
<1>5. CASE i # 0 /\ entries[i].action # "SAME"
  <2>1. i \in own
    BY <1>5
  <2>2. last \in own /\ \A k \in own : k <= last
    <3>1. \E j \in own : \A k \in own : k <= j
      <4>1. \A k \in own : k <= i
        OBVIOUS
      <4>2. QED
        BY <2>1, <4>1
    <3> HIDE DEF own
    <3>2. QED
      BY <3>1
  <2>3. own # {}
    BY <2>1
  <2>4. \A k \in own : k \in 1 .. i
    OBVIOUS
  <2> HIDE DEF own, last
  <2>5. last = i
    BY <2>1, <2>2, <2>4
  <2>6. QED
    BY <1>1, <1>5, <2>3, <2>5 DEF SourceIs
<1>6. CASE i # 0 /\ entries[i].action = "SAME"
  <2>1. own = before
    BY <1>6
  <2>2. s = Source(entries, i - 1)
    <3> DEFINE LastOf(S) == IF S = {} THEN 0 ELSE CHOOSE j \in S : \A k \in S : k <= j
    <3>1. s = LastOf(own) /\ Source(entries, i - 1) = LastOf(before)
      BY DEF Source
    <3> HIDE DEF LastOf, own, before, s
    <3>2. QED
      BY <2>1, <3>1 DEF s
  <2>3. s \in 0 .. i /\ (s # 0 => entries[s].action # "SAME")
    BY <1>1, <1>3
  <2>4. QED
    BY <1>6, <2>2, <2>3 DEF SourceIs
<1>7. QED
  BY <1>4, <1>5, <1>6

(* What the i-th entry is read over.                                       *)
BeforeEntry(entries, i) == IF i = 0 THEN NoEntry ELSE MeantEntry(entries, i)

(* What the i-th entry takes over of the one before it.                    *)
Inherits(entries, i) ==
  LET before == BeforeEntry(entries, i - 1)
      e == entries[i]
      action == ActionAt(entries, i)
  IN  /\ action = IF e.action = "SAME" THEN before.action ELSE e.action
      /\ MeantEntry(entries, i) = After(before, e, action)
      /\ before.time = TimeOf(entries, i - 1)
      /\ MeantEntry(entries, i).time = TimeOf(entries, i)

(* The entry that is meant is made of the one before it and its own fields.*)
LEMMA MeantSteps ==
  ASSUME NEW entries \in Seq(PlannedEntry), NEW i \in 1 .. Len(entries)
  PROVE  Inherits(entries, i)
<1> DEFINE before == BeforeEntry(entries, i - 1)
           e == entries[i]
           action == ActionAt(entries, i)
           s == Source(entries, i)
           r == Source(entries, i - 1)
<1>1. i \in Nat /\ i - 1 \in Nat /\ i # 0 /\ i - 1 # i
  OBVIOUS
<1>2. SourceIs(entries, i) /\ SourceIs(entries, i - 1)
  BY <1>1, SourceSteps
<1>3. s = (IF e.action # "SAME" THEN i ELSE r) /\ r \in Nat /\ s \in Nat
  BY <1>1, <1>2 DEF SourceIs
<1>4. TimesAdd(entries)
  BY EntryTimes
<1>5. i - 1 = 0 => r = 0
  BY <1>2 DEF SourceIs
<1>6. action = IF s = 0 THEN "LAND" ELSE entries[s].action
  BY DEF ActionAt
<1>7. before.action = IF r = 0 THEN "LAND" ELSE entries[r].action
  BY <1>5 DEF BeforeEntry, MeantEntry, NoEntry, ActionAt
<1>8. action = IF e.action = "SAME" THEN before.action ELSE e.action
  BY <1>1, <1>3, <1>6, <1>7
<1>9. before.time = TimeOf(entries, i - 1)
  BY <1>4 DEF BeforeEntry, MeantEntry, NoEntry, TimesAdd
<1>10. MeantEntry(entries, i).time = TimeOf(entries, i)
  BY DEF MeantEntry
<1>11. TimeOf(entries, i) = before.time + e.after
  BY <1>4, <1>9 DEF TimesAdd
<1> DEFINE From(j, field) == IF j = 0 THEN NoEntry[field] ELSE entries[j][field]
           old == before.action
<1>12. /\ before["point"] = IF HasTarget(old) THEN From(r, "point") ELSE 0
       /\ before["altitude"] = IF HasNeck(old) THEN From(r, "altitude") ELSE 0
       /\ before["neck"] = IF HasNeck(old) THEN From(r, "neck") ELSE 0
       /\ before["neck_duration"] = IF HasNeck(old) THEN From(r, "neck_duration") ELSE 0
  <2>1. CASE i - 1 = 0
    <3>1. before = NoEntry
      BY <2>1 DEF BeforeEntry
    <3>2. ~HasTarget("LAND") /\ ~HasNeck("LAND")
      BY DEF HasTarget, HasNeck
    <3>3. QED
      BY <3>1, <3>2 DEF NoEntry
  <2>2. CASE i - 1 # 0
    <3>1. before = MeantEntry(entries, i - 1) /\ old = ActionAt(entries, i - 1)
      BY <2>2 DEF BeforeEntry, MeantEntry
    <3>2. QED
      BY <3>1 DEF MeantEntry
  <2>3. QED
    BY <2>1, <2>2
<1>13. MeantEntry(entries, i)
         = EntryOf(TimeOf(entries, i), action,
                   IF HasTarget(action) THEN From(s, "point") ELSE 0,
                   IF HasNeck(action) THEN From(s, "altitude") ELSE 0,
                   IF HasNeck(action) THEN From(s, "neck") ELSE 0,
                   IF HasNeck(action) THEN From(s, "neck_duration") ELSE 0,
                   IF HasDuration(action) THEN e.duration ELSE 0, e.pre_delay, e.post_delay)
  BY DEF MeantEntry, EntryOf
<1>14. /\ (IF HasTarget(action) THEN From(s, "point") ELSE 0)
            = Inherited(before, e, "point", HasTarget(e.action))
       /\ (IF HasNeck(action) THEN From(s, "altitude") ELSE 0)
            = Inherited(before, e, "altitude", HasNeck(e.action))
       /\ (IF HasNeck(action) THEN From(s, "neck") ELSE 0)
            = Inherited(before, e, "neck", HasNeck(e.action))
       /\ (IF HasNeck(action) THEN From(s, "neck_duration") ELSE 0)
            = Inherited(before, e, "neck_duration", HasNeck(e.action))
  <2>1. CASE e.action = "SAME"
    <3>1. s = r /\ action = old
      BY <1>3, <1>8, <2>1
    <3> HIDE DEF From, s, r, action, old, before, e
    <3>2. QED
      BY <1>12, <2>1, <3>1 DEF Inherited
  <2>2. CASE e.action # "SAME"
    <3>1. s = i /\ action = e.action /\ s # 0
      BY <1>1, <1>3, <1>8, <2>2
    <3>2. \A field : From(s, field) = e[field]
      BY <1>1, <3>1
    <3> HIDE DEF From, s, r, action, old, before, e
    <3>3. QED
      BY <2>2, <3>1, <3>2 DEF Inherited
  <2>3. QED
    BY <2>1, <2>2
<1> HIDE DEF From, s, r, action, old, before, e
<1>15. MeantEntry(entries, i) = After(before, e, action)
  BY <1>11, <1>13, <1>14 DEF After
<1>16. QED
  BY <1>8, <1>9, <1>10, <1>15 DEF Inherits, before, e, action

(* Nothing is a number of a word.                                          *)
LEMMA ZeroIsWord == 0 \in Words
<1>1. WordBits \in 0 .. WordBits + 6
  BY ParsingAssumption
<1>2. Power[WordBits] \in Nat /\ Power[WordBits] >= 1
  BY <1>1, PowerType
<1>3. QED
  BY <1>2 DEF Words

(* What an entry that is meant says, apart from its time.                  *)
LEMMA MeantFields ==
  ASSUME NEW entries \in Seq(PlannedEntry), NEW i \in 1 .. Len(entries)
  PROVE  /\ MeantEntry(entries, i).action \in EntryActions \ {"SAME"}
         /\ [MeantEntry(entries, i) EXCEPT !.time = 0] \in EntryRecord
         /\ MeantEntry(entries, i) = [[MeantEntry(entries, i) EXCEPT !.time = 0]
                                        EXCEPT !.time = TimeOf(entries, i)]
         /\ ~HasNeck(MeantEntry(entries, i).action)
              => MeantEntry(entries, i).neck = 0 /\ MeantEntry(entries, i).neck_duration = 0
         /\ ~HasDuration(MeantEntry(entries, i).action) => MeantEntry(entries, i).duration = 0
<1> DEFINE e == entries[i]
           s == Source(entries, i)
           action == ActionAt(entries, i)
           From(field) == IF s = 0 THEN NoEntry[field] ELSE entries[s][field]
<1>1. SourceIs(entries, i)
  BY SourceSteps
<1>2. s \in 0 .. i /\ (s # 0 => entries[s].action # "SAME")
  BY <1>1 DEF SourceIs
<1>3. e \in PlannedEntry
  BY ElementOfSeq
<1>4. s # 0 => entries[s] \in PlannedEntry
  <2>1. SUFFICES ASSUME s # 0 PROVE s \in 1 .. Len(entries)
    BY ElementOfSeq
  <2>2. QED
    BY <1>2, <2>1
<1>5. /\ NoEntry["point"] = 0 /\ NoEntry["altitude"] = 0 /\ NoEntry["neck"] = 0
      /\ NoEntry["neck_duration"] = 0
  BY DEF NoEntry
<1>6. /\ From("point") \in Words /\ From("altitude") \in Int /\ From("neck") \in Int
      /\ From("neck_duration") \in Words
  <2>1. CASE s = 0
    BY <1>5, <2>1, ZeroIsWord
  <2>2. CASE s # 0
    BY <1>4, <2>2 DEF PlannedEntry
  <2>3. QED
    BY <2>1, <2>2
<1>7. action \in EntryActions \ {"SAME"}
  <2>1. action = IF s = 0 THEN "LAND" ELSE entries[s].action
    BY DEF ActionAt
  <2>2. s # 0 => entries[s].action \in EntryActions /\ entries[s].action # "SAME"
    BY <1>2, <1>4 DEF PlannedEntry
  <2>3. "LAND" \in EntryActions \ {"SAME"}
    BY DEF EntryActions
  <2> HIDE DEF s, action
  <2>4. QED
    BY <2>1, <2>2, <2>3
<1>8. e.duration \in Words /\ e.pre_delay \in Words /\ e.post_delay \in Words
  BY <1>3 DEF PlannedEntry
<1>9. MeantEntry(entries, i)
       = [time |-> TimeOf(entries, i), action |-> action,
          point |-> IF HasTarget(action) THEN From("point") ELSE 0,
          altitude |-> IF HasNeck(action) THEN From("altitude") ELSE 0,
          neck |-> IF HasNeck(action) THEN From("neck") ELSE 0,
          neck_duration |-> IF HasNeck(action) THEN From("neck_duration") ELSE 0,
          duration |-> IF HasDuration(action) THEN e.duration ELSE 0,
          pre_delay |-> e.pre_delay, post_delay |-> e.post_delay]
  BY DEF MeantEntry
<1> HIDE DEF From, s, action, e
<1>10. [MeantEntry(entries, i) EXCEPT !.time = 0] \in EntryRecord
  BY <1>6, <1>7, <1>8, <1>9, ZeroIsWord DEF EntryRecord
<1>11. /\ MeantEntry(entries, i).action = action
       /\ ~HasNeck(action)
            => MeantEntry(entries, i).neck = 0 /\ MeantEntry(entries, i).neck_duration = 0
       /\ ~HasDuration(action) => MeantEntry(entries, i).duration = 0
  BY <1>9
<1>12. MeantEntry(entries, i) = [[MeantEntry(entries, i) EXCEPT !.time = 0]
                                  EXCEPT !.time = TimeOf(entries, i)]
  <2> DEFINE time == TimeOf(entries, i)
             point == IF HasTarget(action) THEN From("point") ELSE 0
             altitude == IF HasNeck(action) THEN From("altitude") ELSE 0
             neck == IF HasNeck(action) THEN From("neck") ELSE 0
             lasts == IF HasNeck(action) THEN From("neck_duration") ELSE 0
             duration == IF HasDuration(action) THEN e.duration ELSE 0
             pre == e.pre_delay
             post == e.post_delay
             Of(t) == EntryOf(t, action, point, altitude, neck, lasts, duration, pre, post)
             m == MeantEntry(entries, i)
             n == [m EXCEPT !.time = 0]
  <2>1. m = Of(time)
    BY <1>9, Zenon DEF EntryOf
  <2> HIDE DEF time, point, altitude, neck, lasts, duration, pre, post, m
  <2>2. n = Of(0)
    BY <2>1, EntryTimed
  <2> HIDE DEF n
  <2>3. [n EXCEPT !.time = time] = Of(time)
    BY <2>2, EntryTimed
  <2>4. m = [n EXCEPT !.time = time]
    BY <2>1, <2>3, Zenon
  <2>5. QED
    BY <2>4 DEF m, n, time
<1>13. QED
  BY <1>7, <1>10, <1>11, <1>12

(* An entry that was read is one that another can be read over.            *)
LEMMA MeantType ==
  ASSUME NEW entries \in Seq(PlannedEntry), NEW i \in 0 .. Len(entries),
         TimeOf(entries, i) \in Words
  PROVE  BeforeEntry(entries, i) \in EntryRecord
<1>1. CASE i = 0
  <2>1. NoEntry \in EntryRecord
    BY ZeroIsWord DEF NoEntry, EntryRecord, EntryActions
  <2>2. QED
    BY <1>1, <2>1 DEF BeforeEntry
<1>2. CASE i # 0
  <2> DEFINE m == [MeantEntry(entries, i) EXCEPT !.time = 0]
  <2>1. i \in 1 .. Len(entries)
    BY <1>2, LenProperties
  <2>2. m \in EntryRecord
    BY <2>1, MeantFields
  <2>3. MeantEntry(entries, i) = [m EXCEPT !.time = TimeOf(entries, i)]
    BY <2>1, MeantFields, Zenon
  <2> HIDE DEF m
  <2>4. MeantEntry(entries, i) \in EntryRecord
    BY <2>2, <2>3 DEF EntryRecord
  <2>5. QED
    BY <1>2, <2>4 DEF BeforeEntry
<1>3. QED
  BY <1>1, <1>2

---------------------------------------------------------------------------
(* The search for an entry.                                                *)

(* The entry the search is to end with.                                    *)
EntryMeant ==
  IF asked < 0 \/ meant.entries = << >> THEN [NoEntry EXCEPT !.time = asked]
  ELSE MeantEntry(meant.entries, MeantFor(meant.entries, asked))

(* All entries up to the one that was read are before the time asked for,  *)
(* and the next is where the reader is.                                    *)
Searching ==
  LET k == scan.read IN
  /\ asked >= 0 /\ meant.entries # << >>
  /\ k \in 0 .. Len(meant.entries) - 1
  /\ scan.offset = OffsetOfFirstEntry(Bytes) + Len(EncodedEntries(meant, k))
  /\ (IF k = 0 THEN [scan.entry EXCEPT !.time = 0] ELSE scan.entry)
       = BeforeEntry(meant.entries, k)
  /\ TimeOf(meant.entries, k) \in Words
  /\ \A j \in 1 .. k : TimeOf(meant.entries, j) < asked

(* Where the search is over.                                               *)
Evaluated == {"target", "found", "converting", "converted"}

(* The invariant of the search: while it goes on it has read the entries it*)
(* has passed as they were meant, and when it is over it has the right one.*)
PlanInv ==
  /\ meant \in Plans /\ asked \in Times
  /\ scan = [at |-> scan.at, read |-> scan.read, offset |-> scan.offset,
             entry |-> scan.entry, result |-> scan.result]
  /\ scan.at = "start" => scan.read = 0 /\ scan.entry = [NoEntry EXCEPT !.time = asked]
  /\ scan.at = "entries" => Searching
  /\ scan.at \in Evaluated => scan.entry = EntryMeant

(* The first entry that is due is the one that is meant, and the last one  *)
(* when none is.                                                           *)
LEMMA MeantForIs ==
  ASSUME NEW entries, Len(entries) \in Nat, TimesAdd(entries), NEW t \in Int,
         NEW k \in 1 .. Len(entries),
         \A j \in 1 .. k - 1 : TimeOf(entries, j) < t,
         TimeOf(entries, k) >= t \/ k = Len(entries)
  PROVE  MeantFor(entries, t) = k
<1> DEFINE n == Len(entries)
           due == {i \in 1 .. n : TimeOf(entries, i) >= t}
           first == CHOOSE i \in due : \A j \in due : i <= j
<1>1. MeantFor(entries, t) = IF due = {} THEN n ELSE first
  BY DEF MeantFor
<1>2. \A i \in 1 .. n : TimeOf(entries, i) \in Nat
  BY DEF TimesAdd
<1>3. CASE TimeOf(entries, k) >= t
  <2>1. k \in due /\ due # {}
    BY <1>3
  <2>2. \A j \in due : k <= j
    <3>1. SUFFICES ASSUME NEW j \in due, j < k PROVE FALSE
      OBVIOUS
    <3>2. j \in 1 .. k - 1 /\ TimeOf(entries, j) >= t /\ TimeOf(entries, j) \in Nat
      BY <1>2, <3>1
    <3>3. TimeOf(entries, j) < t
      BY <3>2
    <3>4. QED
      BY <3>2, <3>3
  <2>3. due \subseteq Nat
    OBVIOUS
  <2>4. first \in due /\ \A j \in due : first <= j
    <3> HIDE DEF due
    <3>1. QED
      BY <2>1, <2>2
  <2> HIDE DEF due, first
  <2>5. first = k
    BY <2>1, <2>2, <2>3, <2>4
  <2>6. QED
    BY <1>1, <2>1, <2>5
<1>4. CASE ~(TimeOf(entries, k) >= t)
  <2>1. k = n
    BY <1>4
  <2>2. due = {}
    <3>1. SUFFICES ASSUME NEW j \in due PROVE FALSE
      OBVIOUS
    <3>2. j \in 1 .. n /\ TimeOf(entries, j) >= t /\ TimeOf(entries, j) \in Nat
      BY <1>2
    <3>3. j # k
      BY <1>4, <3>2
    <3>4. j \in 1 .. k - 1
      BY <2>1, <3>2, <3>3
    <3>5. TimeOf(entries, j) < t
      BY <3>4
    <3>6. QED
      BY <3>2, <3>5
  <2>3. QED
    BY <1>1, <2>1, <2>2
<1>5. QED
  BY <1>3, <1>4

(* The search has not begun.                                               *)
LEMMA PlanStarts == PlanInit => PlanInv
<1> SUFFICES ASSUME PlanInit PROVE PlanInv
  OBVIOUS
<1>1. /\ meant \in Plans /\ asked \in Times
      /\ scan = [at |-> "start", read |-> 0, offset |-> 0,
                 entry |-> [NoEntry EXCEPT !.time = asked], result |-> "SUCCESS"]
  BY DEF PlanInit
<1>2. /\ scan.at = "start" /\ scan.read = 0 /\ scan.offset = 0 /\ scan.result = "SUCCESS"
      /\ scan.entry = [NoEntry EXCEPT !.time = asked]
  BY <1>1
<1>3. "start" \notin Evaluated
  BY DEF Evaluated
<1>4. QED
  BY <1>1, <1>2, <1>3 DEF PlanInv

(* The plan that was encoded is laid out for the reader.                   *)
LEMMA MeantPlan ==
  ASSUME meant \in Plans
  PROVE  /\ Encodable(meant)
         /\ meant.entries \in Seq(PlannedEntry)
         /\ meant.scale \in 1 .. 127
         /\ meant.entries = << >> => NumEntries(Bytes) = 0
         /\ meant.entries # << >> => LaidOut(meant, Bytes)
<1>1. Encodable(meant)
  BY RTHAssumption
<1>2. meant.entries \in Seq(PlannedEntry) /\ meant.scale \in 1 .. 127
  BY <1>1 DEF Encodable
<1>3. meant.entries = << >> => NumEntries(Bytes) = 0
  BY DEF Bytes, Encoding, NumEntries
<1>4. meant.entries # << >> => LaidOut(meant, Bytes)
  BY <1>1, PlanIsLaidOut DEF Bytes
<1>5. QED
  BY <1>1, <1>2, <1>3, <1>4

(* It begins at the first entry, unless there is nothing to search for.    *)
LEMMA SearchBegins ==
  ASSUME PlanInv, BeginEvaluation
  PROVE  PlanInv'
<1> DEFINE at == IF asked < 0 \/ NumEntries(Bytes) = 0 THEN "target" ELSE "entries"
           offset == IF Bytes = << >> THEN 0 ELSE OffsetOfFirstEntry(Bytes)
           n == Len(meant.entries)
<1>1. /\ scan.at = "start" /\ scan.read = 0 /\ scan.entry = [NoEntry EXCEPT !.time = asked]
      /\ meant \in Plans /\ asked \in Times
      /\ scan = [at |-> scan.at, read |-> scan.read, offset |-> scan.offset,
                 entry |-> scan.entry, result |-> scan.result]
  BY DEF BeginEvaluation, PlanInv
<1>2. /\ scan' = [scan EXCEPT !.at = at, !.offset = offset]
      /\ meant' = meant /\ asked' = asked
  BY DEF BeginEvaluation
<1>3. scan' = [at |-> at, read |-> 0, offset |-> offset,
               entry |-> [NoEntry EXCEPT !.time = asked], result |-> scan.result]
  <2> HIDE DEF at, offset
  <2>1. scan = [at |-> "start", read |-> 0, offset |-> scan.offset,
                entry |-> scan.entry, result |-> scan.result]
    BY <1>1
  <2>2. QED
    BY <1>1, <1>2, <2>1
<1>4. /\ scan'.at = at /\ scan'.read = 0 /\ scan'.offset = offset
      /\ scan'.entry = [NoEntry EXCEPT !.time = asked] /\ scan'.result = scan.result
  BY <1>3
<1>5. asked \in Int
  BY <1>1, RTHAssumption
<1>6. meant.entries \in Seq(PlannedEntry) /\ n \in Nat
  BY <1>1, MeantPlan, LenProperties
<1>7. NumEntries(Bytes) = 0 <=> meant.entries = << >>
  <2>1. meant.entries # << >> => NumEntries(Bytes) = n
    BY <1>1, MeantPlan DEF LaidOut
  <2>2. meant.entries # << >> => n # 0
    BY <1>6, EmptySeq
  <2>3. QED
    BY <1>1, <2>1, <2>2, MeantPlan
<1>8. CASE at = "target"
  <2>1. asked < 0 \/ meant.entries = << >>
    BY <1>7, <1>8
  <2>2. (scan.entry = EntryMeant)'
    BY <1>2, <1>4, <2>1 DEF EntryMeant
  <2>3. "target" # "start" /\ "target" # "entries"
    OBVIOUS
  <2> HIDE DEF at, offset
  <2>4. QED
    BY <1>1, <1>2, <1>3, <1>4, <1>8, <2>2, <2>3 DEF PlanInv
<1>9. CASE at = "entries"
  <2>1. ~(asked < 0) /\ meant.entries # << >>
    BY <1>7, <1>9
  <2>2. LaidOut(meant, Bytes)
    BY <1>1, <2>1, MeantPlan
  <2>3. offset = OffsetOfFirstEntry(Bytes) /\ OffsetOfFirstEntry(Bytes) \in Nat
    BY <2>2 DEF LaidOut
  <2>4. EncodedEntries(meant, 0) = << >>
    BY <1>1, MeantPlan, PlanIsEncoded DEF PlanEncoded
  <2>5. offset = OffsetOfFirstEntry(Bytes) + Len(EncodedEntries(meant, 0))
    BY <2>3, <2>4
  <2>6. 0 \in 0 .. n - 1
    BY <1>6, <2>1, EmptySeq
  <2>7. TimeOf(meant.entries, 0) = 0
    BY <1>6, EntryTimes DEF TimesAdd
  <2>8. 0 \in Words
    <3>1. WordBits \in 0 .. WordBits + 6
      BY ParsingAssumption
    <3>2. Power[WordBits] \in Nat /\ Power[WordBits] >= 1
      BY <3>1, PowerType
    <3>3. QED
      BY <3>2 DEF Words
  <2>9. [[NoEntry EXCEPT !.time = asked] EXCEPT !.time = 0] = NoEntry
    <3>1. [NoEntry EXCEPT !.time = asked] = EntryOf(asked, "LAND", 0, 0, 0, 0, 0, 0, 0)
      BY DEF NoEntry, EntryOf
    <3>2. [EntryOf(asked, "LAND", 0, 0, 0, 0, 0, 0, 0) EXCEPT !.time = 0] = NoEntry
      BY DEF NoEntry, EntryOf
    <3>3. QED
      BY <3>1, <3>2
  <2>10. Bytes' = Bytes
    BY <1>2 DEF Bytes
  <2> HIDE DEF at, offset
  <2>11. asked >= 0
    BY <1>5, <2>1
  <2>12. Searching'
    <3>1. \A j \in 1 .. 0 : TimeOf(meant.entries, j) < asked
      OBVIOUS
    <3>2. BeforeEntry(meant.entries, 0) = NoEntry
      BY DEF BeforeEntry
    <3>3. QED
      BY <1>2, <1>4, <2>1, <2>5, <2>6, <2>7, <2>8, <2>9, <2>10, <2>11, <3>1, <3>2 DEF Searching
  <2>13. "entries" # "start" /\ "entries" \notin Evaluated
    BY DEF Evaluated
  <2>14. QED
    BY <1>1, <1>2, <1>3, <1>4, <1>9, <2>12, <2>13 DEF PlanInv
<1>10. QED
  BY <1>8, <1>9

(* It goes on to the next entry, and stops where it has to.                *)
LEMMA SearchGoesOn ==
  ASSUME PlanInv, EvaluateEntry
  PROVE  PlanInv'
<1> DEFINE n == Len(meant.entries)
           k == scan.read
           before == IF scan.read = 0 THEN [scan.entry EXCEPT !.time = 0] ELSE scan.entry
           parsed == ParseEntry(Bytes, scan.offset, before)
           last == k + 1 = NumEntries(Bytes)
           e == meant.entries[k + 1]
           action == ActionAt(meant.entries, k + 1)
           time == TimeOf(meant.entries, k + 1)
           next == MeantEntry(meant.entries, k + 1)
           start == OffsetOfFirstEntry(Bytes)
<1>1. /\ scan.at = "entries" /\ Searching /\ meant \in Plans /\ asked \in Times
      /\ scan = [at |-> scan.at, read |-> scan.read, offset |-> scan.offset,
                 entry |-> scan.entry, result |-> scan.result]
  BY DEF EvaluateEntry, PlanInv
<1>2. meant' = meant /\ asked' = asked /\ Bytes' = Bytes
  BY DEF EvaluateEntry, Bytes
<1>3. /\ asked >= 0 /\ meant.entries # << >> /\ k \in 0 .. n - 1
      /\ scan.offset = start + Len(EncodedEntries(meant, k))
      /\ before = BeforeEntry(meant.entries, k)
      /\ TimeOf(meant.entries, k) \in Words
      /\ \A j \in 1 .. k : TimeOf(meant.entries, j) < asked
  BY <1>1 DEF Searching
<1>4. /\ Encodable(meant) /\ meant.entries \in Seq(PlannedEntry) /\ meant.scale \in 1 .. 127
      /\ LaidOut(meant, Bytes)
  BY <1>1, <1>3, MeantPlan
<1>5. asked \in Int
  BY <1>1, RTHAssumption
<1>6. n \in Nat /\ k \in Nat /\ k + 1 \in 1 .. n /\ (k + 1) - 1 = k /\ k \in 0 .. n
  BY <1>3, <1>4, LenProperties
<1>7. e \in PlannedEntry
  BY <1>4, <1>6, ElementOfSeq
<1>8. before \in EntryRecord
  BY <1>3, <1>4, <1>6, MeantType
<1>9. Inherits(meant.entries, k + 1)
  BY <1>4, <1>6, MeantSteps
<1>10. /\ action = IF e.action = "SAME" THEN before.action ELSE e.action
       /\ next = After(before, e, action)
       /\ before.time = TimeOf(meant.entries, k)
       /\ next.time = time
  BY <1>3, <1>6, <1>9 DEF Inherits
<1>11. /\ Bytes \in Seq(Byte) /\ Bytes[1] % 128 = meant.scale /\ start \in Nat
       /\ NumEntries(Bytes) = n /\ EntriesAreAt(meant, Bytes, start)
  BY <1>4 DEF LaidOut
<1>12. OnScale(e.altitude, meant.scale) /\ OnScale(e.neck, meant.scale)
  BY <1>4, <1>6 DEF Encodable
<1>13. /\ Len(EncodedEntries(meant, k)) \in Nat
       /\ HasAt(Bytes, scan.offset, EncodedEntry(e, meant.scale, action))
       /\ Len(EncodedEntries(meant, k + 1))
            = Len(EncodedEntries(meant, k)) + Len(EncodedEntry(e, meant.scale, action))
  <2>1. /\ Len(EncodedEntries(meant, (k + 1) - 1)) \in Nat
        /\ HasAt(Bytes, start + Len(EncodedEntries(meant, (k + 1) - 1)), EntryBytes(meant, k + 1))
        /\ Len(EncodedEntries(meant, k + 1))
             = Len(EncodedEntries(meant, (k + 1) - 1)) + Len(EntryBytes(meant, k + 1))
    BY <1>6, <1>11 DEF EntriesAreAt
  <2>2. EntryBytes(meant, k + 1) = EncodedEntry(e, meant.scale, action)
    BY DEF EntryBytes
  <2>3. QED
    BY <1>3, <1>6, <2>1, <2>2
<1>14. scan.offset \in Nat
  BY <1>3, <1>11, <1>13
<1>15. /\ IsRead(parsed, next, scan.offset + Len(EncodedEntry(e, meant.scale, action)))
       /\ parsed.result = "SUCCESS" => before.time + e.after \in Words
  <2> DEFINE bytes == Bytes
             offset == scan.offset
             scale == meant.scale
             b == before
             f == e
             a == action
  <2>1. /\ bytes \in Seq(Byte) /\ offset \in Nat /\ f \in PlannedEntry /\ b \in EntryRecord
        /\ scale \in 1 .. 127 /\ a = (IF f.action = "SAME" THEN b.action ELSE f.action)
        /\ bytes[1] % 128 = scale /\ OnScale(f.altitude, scale) /\ OnScale(f.neck, scale)
        /\ HasAt(bytes, offset, EncodedEntry(f, scale, a))
    BY <1>4, <1>7, <1>8, <1>10, <1>11, <1>12, <1>13, <1>14
  <2>2. parsed = ParseEntry(bytes, offset, b) /\ next = After(b, f, a)
    BY <1>10
  <2> HIDE DEF bytes, offset, scale, b, f, a, parsed, next
  <2>3. EntryIsRead(bytes, offset, f, b, scale, a)
    BY <2>1, EntryDecodes
  <2>4. QED
    BY <2>2, <2>3 DEF EntryIsRead, bytes, offset, scale, b, f, a
<1>16. scan' = IF parsed.result # "SUCCESS"
                 THEN [scan EXCEPT !.at = "failed", !.result = parsed.result]
                 ELSE [scan EXCEPT !.read = @ + 1, !.offset = parsed.offset,
                         !.entry = parsed.entry,
                         !.at = IF IsDue(parsed.entry.time) \/ last THEN "target" ELSE @]
  BY DEF EvaluateEntry
<1>17. /\ "failed" \notin Evaluated /\ "failed" # "start" /\ "failed" # "entries"
       /\ "entries" \notin Evaluated /\ "entries" # "start"
       /\ "target" # "start" /\ "target" # "entries"
  BY DEF Evaluated
<1> HIDE DEF parsed
<1>18. CASE parsed.result # "SUCCESS"
  <2>1. scan' = [at |-> "failed", read |-> scan.read, offset |-> scan.offset,
                 entry |-> scan.entry, result |-> parsed.result]
    BY <1>1, <1>16, <1>18
  <2>2. scan'.at = "failed" /\ scan' = [at |-> scan'.at, read |-> scan'.read, offset |-> scan'.offset,
                 entry |-> scan'.entry, result |-> scan'.result]
    BY <2>1
  <2>3. QED
    BY <1>1, <1>2, <1>17, <2>2 DEF PlanInv
<1>19. CASE parsed.result = "SUCCESS"
  <2> DEFINE offset == scan.offset + Len(EncodedEntry(e, meant.scale, action))
             at == IF IsDue(time) \/ last THEN "target" ELSE "entries"
  <2>1. parsed.offset = offset /\ parsed.entry = next
    <3>1. parsed = [result |-> "SUCCESS", offset |-> offset, entry |-> next]
      BY <1>15, <1>19 DEF IsRead
    <3> HIDE DEF offset, next
    <3>2. QED
      BY <3>1
  <2>2. scan' = [at |-> at, read |-> k + 1, offset |-> offset, entry |-> next, result |-> scan.result]
    <3>1. parsed.entry.time = time
      BY <1>10, <2>1
    <3>2. scan' = [scan EXCEPT !.read = k + 1, !.offset = offset, !.entry = next, !.at = at]
      BY <1>1, <1>16, <1>19, <2>1, <3>1
    <3> HIDE DEF offset, next, at
    <3>3. QED
      BY <1>1, <3>2
  <2>3. /\ scan'.at = at /\ scan'.read = k + 1 /\ scan'.offset = offset /\ scan'.entry = next
        /\ scan'.result = scan.result
    BY <2>2
  <2>4. offset = start + Len(EncodedEntries(meant, k + 1))
    <3> DEFINE x == Len(EncodedEntries(meant, k))
               y == Len(EncodedEntry(e, meant.scale, action))
    <3>1. /\ scan.offset = start + x /\ Len(EncodedEntries(meant, k + 1)) = x + y
          /\ x \in Nat /\ y \in Nat /\ start \in Nat
      <4>1. y \in Nat
        <5>1. EncodedEntry(e, meant.scale, action) \in Seq(Byte)
          BY <1>4, <1>7, EntryBytesType
        <5>2. QED
          BY <5>1, LenProperties
      <4>2. QED
        BY <1>3, <1>11, <1>13, <4>1
    <3>2. offset = scan.offset + y
      OBVIOUS
    <3> HIDE DEF x, y, start, offset
    <3>3. QED
      BY <3>1, <3>2
  <2>5. TimesAdd(meant.entries)
    BY <1>4, EntryTimes
  <2>6. time \in Words /\ time \in Nat
    <3>1. time = before.time + e.after
      BY <1>6, <1>10, <2>5 DEF TimesAdd
    <3>2. QED
      BY <1>15, <1>19, <3>1 DEF Words
  <2>7. CASE IsDue(time) \/ last
    <3>1. at = "target"
      BY <2>7
    <3>2. MeantFor(meant.entries, asked) = k + 1
      <4>1. time >= asked \/ k + 1 = n
        BY <1>11, <2>7 DEF IsDue
      <4>2. \A j \in 1 .. (k + 1) - 1 : TimeOf(meant.entries, j) < asked
        BY <1>3, <1>6
      <4>3. QED
        BY <1>5, <1>6, <2>5, <4>1, <4>2, MeantForIs
    <3>3. (scan.entry = EntryMeant)'
      <4>1. ~(asked < 0)
        BY <1>3, <1>5
      <4>2. QED
        BY <1>2, <1>3, <2>3, <3>2, <4>1 DEF EntryMeant
    <3> HIDE DEF offset, next, at
    <3>4. QED
      BY <1>1, <1>2, <1>17, <2>2, <2>3, <3>1, <3>3 DEF PlanInv
  <2>8. CASE ~(IsDue(time) \/ last)
    <3>1. at = "entries"
      BY <2>8
    <3>2. time < asked /\ k + 1 # n
      BY <1>5, <1>11, <2>6, <2>8 DEF IsDue
    <3>3. k + 1 \in 0 .. n - 1 /\ k + 1 # 0
      BY <1>6, <3>2
    <3>4. \A j \in 1 .. k + 1 : TimeOf(meant.entries, j) < asked
      <4>1. SUFFICES ASSUME NEW j \in 1 .. k + 1 PROVE TimeOf(meant.entries, j) < asked
        OBVIOUS
      <4>2. CASE j = k + 1
        BY <3>2, <4>2
      <4>3. CASE j # k + 1
        <5>1. j \in 1 .. k
          BY <1>6, <4>3
        <5>2. QED
          BY <1>3, <5>1
      <4>4. QED
        BY <4>2, <4>3
    <3>5. next = BeforeEntry(meant.entries, k + 1)
      BY <3>3 DEF BeforeEntry
    <3> HIDE DEF offset, next, at
    <3>6. Searching'
      BY <1>2, <1>3, <2>3, <2>4, <2>6, <3>3, <3>4, <3>5 DEF Searching
    <3>7. QED
      BY <1>1, <1>2, <1>17, <2>2, <2>3, <3>1, <3>6 DEF PlanInv
  <2>9. QED
    BY <2>7, <2>8
<1>20. QED
  BY <1>18, <1>19

(* After the search only its state goes on.                                *)
LEMMA SearchIsOver ==
  ASSUME PlanInv, meant' = meant, asked' = asked, scan.at \in Evaluated,
         NEW at, NEW error, at \in Evaluated \cup {"failed", "refused"},
         scan' = [scan EXCEPT !.at = at, !.result = error]
  PROVE  PlanInv'
<1>1. /\ meant \in Plans /\ asked \in Times /\ scan.entry = EntryMeant
      /\ scan = [at |-> scan.at, read |-> scan.read, offset |-> scan.offset,
                 entry |-> scan.entry, result |-> scan.result]
  BY DEF PlanInv
<1>2. scan' = [at |-> at, read |-> scan.read, offset |-> scan.offset,
               entry |-> scan.entry, result |-> error]
  BY <1>1
<1>3. /\ scan'.at = at /\ scan'.entry = scan.entry
      /\ scan' = [at |-> scan'.at, read |-> scan'.read, offset |-> scan'.offset,
                  entry |-> scan'.entry, result |-> scan'.result]
  BY <1>2
<1>4. at # "start" /\ at # "entries"
  BY DEF Evaluated
<1>5. EntryMeant' = EntryMeant
  BY DEF EntryMeant
<1>6. QED
  BY <1>1, <1>3, <1>4, <1>5 DEF PlanInv

(* Nothing else disturbs it.                                               *)
LEMMA ScanUnchanged ==
  ASSUME PlanInv, meant' = meant, asked' = asked, scan' = scan
  PROVE  PlanInv'
  BY DEF PlanInv, Searching, EntryMeant, Bytes

(* There is something to do only while the entry is converted.             *)
OnlyConverting == steps # << >> => scan.at = "converting"

(* Only BeginConversion() gives the vehicle something to do.               *)
LEMMA OnlyConvertingKept ==
  ASSUME PlanInv, OnlyConverting, [PlanNext]_rthVars
  PROVE  OnlyConverting'
<1>1. CASE BeginEvaluation
  BY <1>1 DEF BeginEvaluation, OnlyConverting
<1>2. CASE EvaluateEntry
  BY <1>2 DEF EvaluateEntry, OnlyConverting
<1>3. CASE EvaluateTarget
  BY <1>3 DEF EvaluateTarget, OnlyConverting
<1>4. CASE BeginConversion
  <2> DEFINE scale == ScaleFor(scan.entry)
             first == Conversion(scan.entry)[3]
             error == IF scale.result # "SUCCESS" THEN scale.result
                      ELSE MsecFromSeconds(first.sec).result
  <2>1. /\ scan' = [scan EXCEPT !.at = IF error = "SUCCESS" THEN "converting" ELSE "refused"]
        /\ steps' = IF error = "SUCCESS" THEN Conversion(scan.entry) ELSE << >>
        /\ scan.at = "found"
    BY <1>4 DEF BeginConversion
  <2> HIDE DEF error
  <2>2. QED
    BY <2>1 DEF OnlyConverting, PlanInv
<1>5. CASE ConversionStep
  <2>1. steps # << >> /\ ((scan' = scan) \/ steps' = << >>)
    BY <1>5 DEF ConversionStep, Go
  <2>2. QED
    BY <2>1 DEF OnlyConverting
<1>6. CASE ConversionCall
  <2>1. scan' = scan /\ (steps' = steps \/ steps' = << >>)
    BY <1>6 DEF ConversionCall, Go
  <2>2. QED
    BY <2>1 DEF OnlyConverting
<1>7. CASE UNCHANGED rthVars
  BY <1>7 DEF rthVars, OnlyConverting
<1>8. QED
  BY <1>1, <1>2, <1>3, <1>4, <1>5, <1>6, <1>7 DEF PlanNext

(* Every step keeps the invariant of the search.                           *)
LEMMA PlanKept ==
  ASSUME PlanInv, OnlyConverting, [PlanNext]_rthVars
  PROVE  PlanInv'
<1> DEFINE IsScan == scan = [at |-> scan.at, read |-> scan.read, offset |-> scan.offset,
                             entry |-> scan.entry, result |-> scan.result]
<1>0. IsScan
  BY DEF PlanInv
<1>1. CASE BeginEvaluation
  BY <1>1, SearchBegins
<1>2. CASE EvaluateEntry
  BY <1>2, SearchGoesOn
<1>3. CASE EvaluateTarget
  <2> DEFINE point == GetPoint(Bytes, scan.entry.point)
             found == HasTarget(scan.entry.action) => point.result = "SUCCESS"
             at == IF found THEN "found" ELSE "failed"
             error == IF found THEN "SUCCESS" ELSE point.result
  <2>1. /\ scan.at = "target" /\ scan' = [scan EXCEPT !.at = at, !.result = error]
        /\ meant' = meant /\ asked' = asked
    BY <1>3 DEF EvaluateTarget
  <2>2. at \in Evaluated \cup {"failed", "refused"} /\ scan.at \in Evaluated
    BY <2>1 DEF Evaluated
  <2> HIDE DEF at, error
  <2>3. QED
    BY <2>1, <2>2, SearchIsOver
<1>4. CASE BeginConversion
  <2> DEFINE scale == ScaleFor(scan.entry)
             first == Conversion(scan.entry)[3]
             error == IF scale.result # "SUCCESS" THEN scale.result
                      ELSE MsecFromSeconds(first.sec).result
             at == IF error = "SUCCESS" THEN "converting" ELSE "refused"
  <2>1. /\ scan.at = "found" /\ scan' = [scan EXCEPT !.at = at]
        /\ meant' = meant /\ asked' = asked
    BY <1>4 DEF BeginConversion
  <2>2. at \in Evaluated \cup {"failed", "refused"} /\ scan.at \in Evaluated
    BY <2>1 DEF Evaluated
  <2> HIDE DEF at
  <2>3. scan' = [scan EXCEPT !.at = at, !.result = scan.result]
    BY <1>0, <2>1
  <2>4. QED
    BY <2>1, <2>2, <2>3, SearchIsOver
<1>5. CASE ConversionStep
  <2>1. meant' = meant /\ asked' = asked /\ (scan' = scan \/ scan' = [scan EXCEPT !.at = "converted"])
    BY <1>5 DEF ConversionStep, Go
  <2>2. CASE scan' = scan
    BY <2>1, <2>2, ScanUnchanged
  <2>3. CASE scan' = [scan EXCEPT !.at = "converted"]
    <3>1. scan.at = "converting"
      BY <1>5 DEF ConversionStep, OnlyConverting
    <3>2. scan' = [scan EXCEPT !.at = "converted", !.result = scan.result]
      BY <1>0, <2>3
    <3>3. scan.at \in Evaluated /\ "converted" \in Evaluated
      BY <3>1 DEF Evaluated
    <3>4. QED
      BY <2>1, <3>2, <3>3, SearchIsOver
  <2>4. QED
    BY <2>1, <2>2, <2>3
<1>6. CASE ConversionCall
  <2>1. meant' = meant /\ asked' = asked /\ scan' = scan
    BY <1>6 DEF ConversionCall, Go
  <2>2. QED
    BY <2>1, ScanUnchanged
<1>7. CASE UNCHANGED rthVars
  <2>1. meant' = meant /\ asked' = asked /\ scan' = scan
    BY <1>7 DEF rthVars
  <2>2. QED
    BY <2>1, ScanUnchanged
<1>8. QED
  BY <1>1, <1>2, <1>3, <1>4, <1>5, <1>6, <1>7 DEF PlanNext

(* The search finds the entry that was meant for the time.                 *)
THEOREM PlanEvaluated == PlanSpec => []EvaluatesToMeant
<1>1. PlanInit => PlanInv /\ OnlyConverting
  <2>1. PlanInit => OnlyConverting
    BY DEF PlanInit, OnlyConverting
  <2>2. QED
    BY <2>1, PlanStarts
<1>2. PlanInv /\ OnlyConverting /\ [PlanNext]_rthVars => (PlanInv /\ OnlyConverting)'
  BY PlanKept, OnlyConvertingKept
<1>3. PlanInv => EvaluatesToMeant
  BY DEF PlanInv, EvaluatesToMeant, Evaluated, EntryMeant
<1>4. QED
  BY <1>1, <1>2, <1>3, PTL DEF PlanSpec

---------------------------------------------------------------------------
(* The scale.                                                              *)

(* A position whose coordinates fit on the grid of a scale.                *)
InReach(scale, p) ==
  \A a \in {"x", "y", "z"} : -32768 * scale <= p[a] /\ p[a] < 32768 * scale

(* A scale covers a coordinate.                                            *)
Covers(scale, n) == Magnitude(n) <= scale * 32767

(* The largest of three numbers.                                           *)
LEMMA LargestOfThree ==
  ASSUME NEW a \in Int, NEW b \in Int, NEW c \in Int
  PROVE  /\ LargestOf({a, b, c}) \in Int
         /\ a <= LargestOf({a, b, c}) /\ b <= LargestOf({a, b, c}) /\ c <= LargestOf({a, b, c})
<1> DEFINE Is(n) == n \in {a, b, c} /\ \A m \in {a, b, c} : m <= n
<1>1. \E n : Is(n)
  <2>1. CASE a >= b /\ a >= c
    <3>1. Is(a)
      BY <2>1
    <3>2. QED
      BY <3>1
  <2>2. CASE b >= a /\ b >= c
    <3>1. Is(b)
      BY <2>2
    <3>2. QED
      BY <3>1
  <2>3. CASE c >= a /\ c >= b
    <3>1. Is(c)
      BY <2>3
    <3>2. QED
      BY <3>1
  <2>4. QED
    BY <2>1, <2>2, <2>3
<1>2. LargestOf({a, b, c}) = CHOOSE n : Is(n)
  <2>1. LargestOf({a, b, c}) = CHOOSE n \in {a, b, c} : \A m \in {a, b, c} : m <= n
    BY DEF LargestOf
  <2>2. QED
    BY <2>1, Zenon
<1>3. Is(CHOOSE n : Is(n))
  <2> HIDE DEF Is
  <2>1. QED
    BY <1>1, Zenon
<1>4. QED
  BY <1>2, <1>3

(* The new scale covers the coordinates and is not smaller than the old.   *)
Raised(scale, s) == s \in 1 .. 127 /\ scale <= s

RaisedFor(scale, s, x, y, z) ==
  Raised(scale, s) /\ Covers(s, x) /\ Covers(s, y) /\ Covers(s, z)

(* A scale that is raised without an error covers what it was raised for.  *)
LEMMA ScaleRaised ==
  ASSUME NEW scale \in 1 .. 127, NEW x \in Int, NEW y \in Int, NEW z \in Int,
         NEW o, o = ScaleUpdate(scale, x, y, z), o.result = "SUCCESS"
  PROVE  RaisedFor(scale, o.scale, x, y, z)
<1> DEFINE most == LargestOf({Magnitude(x), Magnitude(y), Magnitude(z)})
           new == CeilingOf(most, 32767)
<1>1. Magnitude(x) \in Nat /\ Magnitude(y) \in Nat /\ Magnitude(z) \in Nat
  BY DEF Magnitude
<1>2. \A n \in {Magnitude(x), Magnitude(y), Magnitude(z)} : n <= most
  <2> DEFINE a == Magnitude(x)
             b == Magnitude(y)
             c == Magnitude(z)
  <2>1. a \in Int /\ b \in Int /\ c \in Int
    BY <1>1
  <2> HIDE DEF a, b, c
  <2>2. /\ a <= LargestOf({a, b, c}) /\ b <= LargestOf({a, b, c}) /\ c <= LargestOf({a, b, c})
    BY <2>1, LargestOfThree
  <2>3. QED
    BY <2>2 DEF a, b, c
<1>3. most \in Nat
  <2> DEFINE a == Magnitude(x)
             b == Magnitude(y)
             c == Magnitude(z)
  <2>1. a \in Int /\ b \in Int /\ c \in Int /\ a >= 0
    BY <1>1
  <2> HIDE DEF a, b, c
  <2>2. LargestOf({a, b, c}) \in Int /\ a <= LargestOf({a, b, c})
    BY <2>1, LargestOfThree
  <2>3. LargestOf({a, b, c}) \in Nat
    BY <2>1, <2>2
  <2>4. QED
    BY <2>3 DEF a, b, c
<1>4. o = IF most <= scale * 32767 THEN [result |-> "SUCCESS", scale |-> scale]
          ELSE IF new <= 127 THEN [result |-> "SUCCESS", scale |-> new]
          ELSE [result |-> "EOVERFLOW", scale |-> scale]
  <2>1. (IF scale = 0 THEN 1 ELSE scale) = scale
    BY SMT
  <2>2. QED
    BY <2>1 DEF ScaleUpdate, Int16Max, MaxScale
<1>5. new \in Int /\ most <= new * 32767
  <2> HIDE DEF most
  <2>1. QED
    BY <1>3, SMT DEF CeilingOf
<1>6. \/ most <= scale * 32767 /\ o.scale = scale
      \/ most > scale * 32767 /\ new <= 127 /\ o.scale = new
  <2> HIDE DEF most, new
  <2>1. CASE most <= scale * 32767
    BY <1>4, <2>1
  <2>2. CASE ~(most <= scale * 32767) /\ new <= 127
    BY <1>3, <1>4, <2>2
  <2>3. CASE ~(most <= scale * 32767) /\ ~(new <= 127)
    <3>1. o = [result |-> "EOVERFLOW", scale |-> scale]
      BY <1>4, <2>3
    <3>2. o.result = "EOVERFLOW"
      BY <3>1
    <3>3. QED
      BY <3>2
  <2>4. QED
    BY <2>1, <2>2, <2>3
<1> HIDE DEF most, new
<1>7. o.scale \in Int /\ scale <= o.scale /\ o.scale <= 127 /\ most <= o.scale * 32767
  BY <1>3, <1>5, <1>6, SMT
<1>8. QED
  BY <1>1, <1>2, <1>3, <1>7 DEF Covers, Raised, RaisedFor

(* What a scale covers, a larger one covers too.                           *)
LEMMA CoversStill ==
  ASSUME NEW scale \in 1 .. 127, NEW s, Raised(scale, s), NEW n \in Int, Covers(scale, n)
  PROVE  Covers(s, n)
<1>1. Magnitude(n) \in Nat
  BY DEF Magnitude
<1>2. QED
  BY <1>1, SMT DEF Covers, Raised

(* A position whose coordinates are covered is in reach.                   *)
LEMMA CoveredReach ==
  ASSUME NEW scale \in 1 .. 127, NEW p \in [Axes -> Int],
         Covers(scale, p.x), Covers(scale, p.y), Covers(scale, p.z)
  PROVE  InReach(scale, p)
<1> SUFFICES ASSUME NEW a \in {"x", "y", "z"}
             PROVE  -32768 * scale <= p[a] /\ p[a] < 32768 * scale
  BY DEF InReach
<1>1. p[a] \in Int /\ Covers(scale, p[a])
  BY DEF Axes
<1>2. QED
  BY <1>1, SMT DEF Covers, Magnitude

(* What is in reach fits.                                                  *)
LEMMA ReachFits ==
  ASSUME NEW scale \in 1 .. 127, NEW p \in [Axes -> Int], InReach(scale, p)
  PROVE  \A a \in Axes : Int16(Encoded(scale, p, a))
<1> SUFFICES ASSUME NEW a \in Axes
             PROVE  Int16(Encoded(scale, p, a))
  OBVIOUS
<1>1. p[a] \in Int
  OBVIOUS
<1>2. CASE a = "yaw"
  <2>1. Encoded(scale, p, a) = Angle(p[a])
    BY <1>2 DEF Encoded
  <2>2. QED
    BY <1>1, <2>1, AngleKept, SMT DEF Int16
<1>3. CASE a # "yaw"
  <2>1. Encoded(scale, p, a) = p[a] \div scale
    BY <1>3 DEF Encoded
  <2>2. -32768 * scale <= p[a] /\ p[a] < 32768 * scale
    BY <1>3 DEF InReach, Axes
  <2>3. QED
    BY <1>1, <2>1, <2>2, SMT DEF Int16
<1>4. QED
  BY <1>2, <1>3

(* The midpoint of two positions in reach is in reach.                     *)
LEMMA MidpointReach ==
  ASSUME NEW scale \in 1 .. 127, NEW p \in [Axes -> Int], NEW q \in [Axes -> Int],
         InReach(scale, p), InReach(scale, q)
  PROVE  InReach(scale, Midpoint(p, q))
<1> SUFFICES ASSUME NEW a \in {"x", "y", "z"}
             PROVE  /\ -32768 * scale <= Midpoint(p, q)[a]
                    /\ Midpoint(p, q)[a] < 32768 * scale
  BY DEF InReach
<1>1. p[a] \in Int /\ q[a] \in Int
  BY DEF Axes
<1>2. Midpoint(p, q)[a] = (p[a] + q[a]) \div 2
  BY DEF Midpoint, Axes
<1>3. /\ -32768 * scale <= p[a] /\ p[a] < 32768 * scale
      /\ -32768 * scale <= q[a] /\ q[a] < 32768 * scale
  BY DEF InReach
<1>4. QED
  BY <1>1, <1>2, <1>3, SMT

(* The origin always is.                                                   *)
LEMMA OriginReach ==
  ASSUME NEW scale \in 1 .. 127
  PROVE  Origin \in [Axes -> Int] /\ InReach(scale, Origin)
<1>1. Origin \in [Axes -> Int]
  BY DEF Origin
<1>2. \A a \in {"x", "y", "z"} : Origin[a] = 0
  BY DEF Origin, Axes
<1>3. -32768 * scale <= 0 /\ 0 < 32768 * scale
  BY SMT
<1>4. QED
  BY <1>1, <1>2, <1>3 DEF InReach

---------------------------------------------------------------------------
(* The entry that is converted.                                            *)

(* An entry as the search may end with.                                    *)
EntryFine(e) ==
  /\ e.action \in {"LAND", "KEEP_ALTITUDE", "WITH_ALTITUDE"}
  /\ e.time \in Int /\ e.point \in Nat /\ e.altitude \in Int /\ e.neck \in Int
  /\ e.neck_duration \in Nat /\ e.duration \in Nat /\ e.pre_delay \in Nat /\ e.post_delay \in Nat
  /\ ~HasNeck(e.action) => e.neck = 0 /\ e.neck_duration = 0
  /\ ~HasDuration(e.action) => e.duration = 0

(* Words are numbers.                                                      *)
LEMMA WordsAreNumbers == Words \subseteq Nat
<1>1. WordBits \in 0 .. WordBits + 6
  BY ParsingAssumption
<1>2. Power[WordBits] \in Nat
  BY <1>1, PowerType
<1>3. QED
  BY <1>2 DEF Words

(* The entry that is meant is one of the plan's.                           *)
LEMMA MeantForType ==
  ASSUME NEW entries \in Seq(PlannedEntry), entries # << >>, NEW t \in Int
  PROVE  MeantFor(entries, t) \in 1 .. Len(entries)
<1> DEFINE n == Len(entries)
           due == {i \in 1 .. n : TimeOf(entries, i) >= t}
<1>1. n \in Nat /\ n >= 1
  BY LastElement
<1>2. TimesAdd(entries)
  BY EntryTimes
<1>3. \E k \in 1 .. n : /\ \A j \in 1 .. k - 1 : TimeOf(entries, j) < t
                        /\ TimeOf(entries, k) >= t \/ k = n
  <2>1. \A j \in 1 .. n : TimeOf(entries, j) \in Nat
    BY <1>2 DEF TimesAdd
  <2>2. CASE due = {}
    <3>1. \A j \in 1 .. n - 1 : TimeOf(entries, j) < t
      BY <1>1, <2>1, <2>2
    <3>2. QED
      BY <1>1, <3>1
  <2>3. CASE due # {}
    <3>1. PICK m \in due : TRUE
      BY <2>3
    <3>2. m \in Nat
      BY <1>1, <3>1
    <3>3. PICK k \in Nat : k \in due /\ k <= m /\ \A l \in Nat : l < k => l \notin due
      <4> HIDE DEF due
      <4>1. QED
        BY <3>1, <3>2, LeastNumber
    <3>4. \A j \in 1 .. k - 1 : TimeOf(entries, j) < t
      BY <1>1, <2>1, <3>3
    <3>5. QED
      BY <3>3, <3>4
  <2>4. QED
    BY <2>2, <2>3
<1>4. PICK k \in 1 .. n : /\ \A j \in 1 .. k - 1 : TimeOf(entries, j) < t
                          /\ TimeOf(entries, k) >= t \/ k = n
  BY <1>3
<1>5. MeantFor(entries, t) = k
  BY <1>1, <1>2, <1>4, MeantForIs
<1>6. QED
  BY <1>5

(* The search ends with such an entry.                                     *)
LEMMA MeantIsFine ==
  ASSUME meant \in Plans, asked \in Times
  PROVE  EntryFine(EntryMeant)
<1>1. asked \in Int /\ meant.entries \in Seq(PlannedEntry)
  BY MeantPlan, RTHAssumption
<1>2. CASE asked < 0 \/ meant.entries = << >>
  <2>1. EntryMeant = EntryOf(asked, "LAND", 0, 0, 0, 0, 0, 0, 0)
    BY <1>2 DEF EntryMeant, NoEntry, EntryOf
  <2>2. EntryFine(EntryOf(asked, "LAND", 0, 0, 0, 0, 0, 0, 0))
    BY <1>1 DEF EntryFine, EntryOf
  <2>3. QED
    BY <2>1, <2>2
<1>3. CASE ~(asked < 0 \/ meant.entries = << >>)
  <2> DEFINE i == MeantFor(meant.entries, asked)
             e == MeantEntry(meant.entries, i)
             timeless == [e EXCEPT !.time = 0]
             time == TimeOf(meant.entries, i)
  <2>1. i \in 1 .. Len(meant.entries)
    BY <1>1, <1>3, MeantForType
  <2>2. EntryMeant = e
    BY <1>3 DEF EntryMeant
  <2>3. time \in Nat
    <3>1. TimesAdd(meant.entries) /\ i \in 0 .. Len(meant.entries)
      BY <1>1, <2>1, EntryTimes
    <3> HIDE DEF i
    <3>2. QED
      BY <3>1 DEF TimesAdd
  <2> HIDE DEF i
  <2>4. /\ e.action \in EntryActions \ {"SAME"} /\ timeless \in EntryRecord
        /\ e = [timeless EXCEPT !.time = time]
        /\ ~HasNeck(e.action) => e.neck = 0 /\ e.neck_duration = 0
        /\ ~HasDuration(e.action) => e.duration = 0
    BY <1>1, <2>1, MeantFields
  <2> HIDE DEF e, timeless, time
  <2>5. /\ e.time = time /\ e.point \in Words /\ e.altitude \in Int /\ e.neck \in Int
        /\ e.neck_duration \in Words /\ e.duration \in Words
        /\ e.pre_delay \in Words /\ e.post_delay \in Words
    BY <2>4 DEF EntryRecord
  <2>6. EntryFine(e)
    BY <2>3, <2>4, <2>5, WordsAreNumbers DEF EntryFine, EntryActions
  <2>7. QED
    BY <2>2, <2>6
<1>4. QED
  BY <1>2, <1>3

(* A coordinate that is there is a number.                                 *)
LEMMA CoordinateType ==
  ASSUME NEW bytes \in Seq(Byte), bytes # << >>, NEW offset \in Nat, offset + 2 <= Len(bytes)
  PROVE  PlanCoordinate(bytes, offset) \in Int
<1> DEFINE n == ParseUint16(bytes, offset)
<1>1. Len(bytes) \in Nat /\ Len(bytes) >= 1
  BY LastElement
<1>2. /\ 1 \in 1 .. Len(bytes) /\ offset + 1 \in 1 .. Len(bytes) /\ offset + 2 \in 1 .. Len(bytes)
  BY <1>1
<1>3. bytes[1] \in Byte /\ bytes[offset + 1] \in Byte /\ bytes[offset + 2] \in Byte
  BY <1>2, ElementOfSeq
<1>4. bytes[1] \in Int /\ n \in Int
  <2> DEFINE a == bytes[offset + 1]
             b == bytes[offset + 2]
  <2>1. Byte \subseteq Int
    BY BuilderAssumption
  <2>2. a \in Int /\ b \in Int /\ bytes[1] \in Int
    BY <1>3, <2>1
  <2>3. n = a + 256 * b
    BY Zenon DEF ParseUint16
  <2> HIDE DEF a, b, n
  <2>4. QED
    BY <2>2, <2>3
<1>5. ParseInt16(bytes, offset) \in Int
  <2> HIDE DEF n
  <2>1. ParseInt16(bytes, offset) = IF n < 32768 THEN n ELSE n - 65536
    BY DEF ParseInt16, n
  <2>2. QED
    BY <1>4, <2>1, SMT
<1>6. ParsePlanHeader(bytes).scale = bytes[1] % 128
  BY DEF ParsePlanHeader
<1>7. ParsePlanHeader(bytes).scale \in Int
  BY <1>4, <1>6, SMT
<1>8. QED
  BY <1>5, <1>7, SMT DEF PlanCoordinate

(* The search checks that the point of the entry is there.                 *)
HasItsPoint == HasTarget(scan.entry.action) => GetPoint(Bytes, scan.entry.point).result = "SUCCESS"

(* Where the entry leads is on the plane.                                  *)
LEMMA TargetType ==
  ASSUME meant \in Plans, asked \in Times, scan.entry = EntryMeant, HasItsPoint
  PROVE  Target(scan.entry).x \in Int /\ Target(scan.entry).y \in Int
<1> DEFINE e == scan.entry
           points == ParsePlanHeader(Bytes).num_points
<1>1. CASE ~HasTarget(e.action)
  <2>1. Target(e) = [x |-> 0, y |-> 0]
    BY <1>1 DEF Target
  <2>2. QED
    BY <2>1
<1>2. CASE HasTarget(e.action)
  <2>1. e.point \in Nat
    BY MeantIsFine DEF EntryFine
  <2>2. meant.entries # << >>
    <3>1. ([NoEntry EXCEPT !.time = asked]).action = "LAND"
      BY DEF NoEntry
    <3>2. QED
      BY <1>2, <3>1 DEF EntryMeant, HasTarget
  <2>3. LaidOut(meant, Bytes)
    BY <2>2, MeantPlan
  <2>4. /\ Bytes \in Seq(Byte) /\ Bytes # << >> /\ points \in Nat
        /\ OffsetOfFirstEntry(Bytes) <= Len(Bytes)
    BY <2>3 DEF LaidOut
  <2>5. ~(e.point >= points)
    <3>1. ([result |-> "EINVAL", x |-> 0, y |-> 0]).result # "SUCCESS"
      OBVIOUS
    <3>2. QED
      BY <1>2, <3>1 DEF GetPoint, HasItsPoint
  <2>6. /\ Target(e).x = PlanCoordinate(Bytes, OffsetOfPoint(e.point))
        /\ Target(e).y = PlanCoordinate(Bytes, OffsetOfPoint(e.point) + 2)
    <3>1. GetPoint(Bytes, e.point) =
            [result |-> "SUCCESS",
             x |-> PlanCoordinate(Bytes, OffsetOfPoint(e.point)),
             y |-> PlanCoordinate(Bytes, OffsetOfPoint(e.point) + 2)]
      BY <2>5 DEF GetPoint
    <3>2. Target(e) = [x |-> GetPoint(Bytes, e.point).x, y |-> GetPoint(Bytes, e.point).y]
      BY <1>2 DEF Target
    <3>3. QED
      BY <3>1, <3>2
  <2>7. /\ OffsetOfPoint(e.point) \in Nat
        /\ OffsetOfPoint(e.point) + 4 <= OffsetOfFirstEntry(Bytes)
    <3> HIDE DEF e, points
    <3>1. OffsetOfPoint(e.point) = 3 + 4 * e.point
      BY DEF OffsetOfPoint, PlanHeaderLength
    <3>2. OffsetOfFirstEntry(Bytes) = 3 + 4 * points + 2
      BY DEF OffsetOfFirstEntry, OffsetOfEntryTable, OffsetOfPoint, PlanHeaderLength, points
    <3>3. QED
      BY <2>1, <2>4, <2>5, <3>1, <3>2, SMT
  <2>8. Len(Bytes) \in Nat
    BY <2>4, LenProperties
  <2> DEFINE o == OffsetOfPoint(e.point)
  <2> HIDE DEF o
  <2>9. o \in Nat /\ o + 2 \in Nat /\ o + 2 <= Len(Bytes) /\ (o + 2) + 2 <= Len(Bytes)
    <3> DEFINE first == OffsetOfFirstEntry(Bytes)
               len == Len(Bytes)
    <3>1. first \in Nat
      BY <2>3 DEF LaidOut
    <3>2. o \in Nat /\ o + 4 <= first /\ first <= len /\ len \in Nat
      BY <2>4, <2>7, <2>8 DEF o
    <3> HIDE DEF first, len
    <3>3. o \in Nat /\ o + 2 \in Nat /\ o + 2 <= len /\ (o + 2) + 2 <= len
      BY <3>1, <3>2
    <3>4. QED
      BY <3>3 DEF len
  <2>10. PlanCoordinate(Bytes, o) \in Int /\ PlanCoordinate(Bytes, o + 2) \in Int
    BY <2>4, <2>9, CoordinateType
  <2>11. QED
    BY <2>6, <2>10 DEF o
<1>3. QED
  BY <1>1, <1>2

---------------------------------------------------------------------------
(* Nothing that is in reach is refused.                                    *)

(* No outcome is that an argument was invalid.                             *)
IsOther(o) == \E x, y, z : x # "EINVAL" /\ o = Outcome(x, y, z)
NoneInvalid(outcomes) == \A o \in outcomes : IsOther(o)

(* An outcome whose bytes are other ones has the same result.              *)
LEMMA OtherBytes ==
  ASSUME NEW o, IsOther(o), NEW bytes
  PROVE  o.result # "EINVAL" /\ IsOther([o EXCEPT !.buffer.contents = bytes])
<1>1. PICK x, y, z : x # "EINVAL" /\ o = Outcome(x, y, z)
  BY DEF IsOther
<1>2. o.result = x
  BY <1>1 DEF Outcome
<1>3. [o EXCEPT !.buffer.contents = bytes] = Outcome(x, y, [z EXCEPT !.contents = bytes])
  BY <1>1 DEF Outcome
<1>4. QED
  BY <1>1, <1>2, <1>3 DEF IsOther

(* Only the arguments of the builder can be, not those of its buffer.      *)
LEMMA ReallocTakesAll ==
  ASSUME NEW h, NEW b, NEW n
  PROVE  NoneInvalid(Realloc(h, b, n))
<1> SUFFICES ASSUME NEW o \in Realloc(h, b, n) PROVE IsOther(o)
  BY DEF NoneInvalid
<1>1. "SUCCESS" # "EINVAL" /\ "FAILURE" # "EINVAL" /\ "ENOMEM" # "EINVAL"
  OBVIOUS
<1>2. \/ \E y, z : o = Outcome("SUCCESS", y, z)
      \/ \E y, z : o = Outcome("FAILURE", y, z)
      \/ \E y, z : o = Outcome("ENOMEM", y, z)
  BY Zenon DEF Realloc
<1>3. QED
  BY <1>1, <1>2, Zenon DEF IsOther

(* Nor those of the growth by doubling,                                    *)
LEMMA SpaceTakesAll ==
  ASSUME NEW h, NEW b, NEW n
  PROVE  NoneInvalid(EnsureFreeSpace(h, b, n))
<1> DEFINE size == (Size(b) + n) % (SizeMax + 1)
           D == DesiredCapacity(b.capacity, size)
<1> SUFFICES ASSUME NEW o \in EnsureFreeSpace(h, b, n) PROVE IsOther(o)
  BY DEF NoneInvalid
<1>1. \/ o = Outcome("SUCCESS", h, b) \/ o = Outcome("ENOMEM", h, b)
      \/ \E d \in D : o \in Realloc(h, b, d)
  BY DEF EnsureFreeSpace
<1>2. "SUCCESS" # "EINVAL" /\ "ENOMEM" # "EINVAL"
  OBVIOUS
<1>3. \A d : NoneInvalid(Realloc(h, b, d))
  BY ReallocTakesAll
<1> HIDE DEF D
<1>4. QED
  BY <1>1, <1>2, <1>3, Zenon DEF NoneInvalid, IsOther

(* of the zeros that are added,                                            *)
LEMMA ExtendTakesAll ==
  ASSUME NEW h, NEW b, NEW n
  PROVE  NoneInvalid(ExtendWithZeros(h, b, n))
<1> DEFINE m == (Size(b) + n) % (SizeMax + 1)
           S == EnsureFreeSpace(h, b, m)
           Cleared(o) == [o EXCEPT !.buffer.contents = @ \o Zeros(n)]
<1>1. \A o \in ExtendWithZeros(h, b, n) : o \in S \/ \E p \in S : o = Cleared(p)
  BY DEF ExtendWithZeros, Check
<1>2. NoneInvalid(S)
  BY SpaceTakesAll
<1>3. ASSUME NEW p \in S PROVE IsOther(Cleared(p))
  <2>1. IsOther(p)
    BY <1>2 DEF NoneInvalid
  <2> DEFINE bytes == p.buffer.contents \o Zeros(n)
  <2>2. Cleared(p) = [p EXCEPT !.buffer.contents = bytes]
    OBVIOUS
  <2> HIDE DEF S, Cleared, bytes
  <2>3. IsOther([p EXCEPT !.buffer.contents = bytes])
    BY <2>1, OtherBytes
  <2>4. QED
    BY <2>2, <2>3
<1> HIDE DEF S, Cleared
<1>4. QED
  BY <1>1, <1>2, <1>3 DEF NoneInvalid

(* and of the length that is cut.                                          *)
LEMMA ResizeTakesAll ==
  ASSUME NEW h, NEW b, NEW n
  PROVE  NoneInvalid(Resize(h, b, n))
<1> DEFINE S == Realloc(h, b, n)
           Cleared(o) == [o EXCEPT !.buffer.contents = @ \o Zeros(n - Size(b))]
           cut == [b EXCEPT !.contents = SubSeq(@, 1, n)]
<1>1. \A o \in Resize(h, b, n) :
        \/ o = Outcome("FAILURE", h, b) \/ o = Outcome("SUCCESS", h, cut) \/ o \in S
        \/ \E p \in S : o = Cleared(p)
  BY DEF Resize, Check
<1>2. NoneInvalid(S)
  BY ReallocTakesAll
<1>3. "SUCCESS" # "EINVAL" /\ "FAILURE" # "EINVAL"
  OBVIOUS
<1>4. ASSUME NEW p \in S PROVE IsOther(Cleared(p))
  <2>1. IsOther(p)
    BY <1>2 DEF NoneInvalid
  <2> DEFINE bytes == p.buffer.contents \o Zeros(n - Size(b))
  <2>2. Cleared(p) = [p EXCEPT !.buffer.contents = bytes]
    OBVIOUS
  <2> HIDE DEF S, Cleared, bytes
  <2>3. IsOther([p EXCEPT !.buffer.contents = bytes])
    BY <2>1, OtherBytes
  <2>4. QED
    BY <2>2, <2>3
<1> HIDE DEF S, Cleared, cut
<1>5. IsOther(Outcome("FAILURE", h, b)) /\ IsOther(Outcome("SUCCESS", h, cut))
  BY <1>3 DEF IsOther
<1>6. QED
  BY <1>1, <1>2, <1>4, <1>5 DEF NoneInvalid

(* Coordinates that all fit are all written.                               *)
LEMMA FittingAll ==
  ASSUME NEW scale, NEW p, NEW axes \in SUBSET Axes,
         \A a \in Axes : Int16(Encoded(scale, p, a))
  PROVE  Fitting(scale, p, axes) = axes
  BY DEF Fitting

(* A line to a target in reach is not refused.                             *)
LEMMA LineInReach ==
  ASSUME AppendLine, builder.scale \in 1 .. 127, Head(calls).target \in [Axes -> Int],
         InReach(builder.scale, Head(calls).target)
  PROVE  result' # "EINVAL"
<1> DEFINE line == Head(calls)
           b == builder.buffer
           changed == Changed(line.target)
           fitting == Fitting(builder.scale, line.target, changed)
           segment == <<FlagsOf(Touched(builder.scale, line.target, changed))>>
                        \o WrittenInt16(line.duration)
                        \o Written(builder.scale, line.target, fitting)
           Encode(p) == [p EXCEPT !.buffer.contents = Overwritten(@, Size(b), segment)]
           n == Size(b) + Len(segment)
           E == ExtendWithZeros(heap, b, SegmentLength)
<1>1. PICK o \in AppendedSegment(line.target, line.duration) : result' = o.result
  BY DEF AppendLine
<1>2. fitting = changed
  <2>1. \A a \in Axes : Int16(Encoded(builder.scale, line.target, a))
    BY ReachFits
  <2>2. changed \in SUBSET Axes
    BY DEF Changed
  <2> HIDE DEF changed
  <2>3. QED
    BY <2>1, <2>2, FittingAll
<1>3. \/ o \in E
      \/ \E p \in E : /\ p.result = "SUCCESS"
                      /\ o \in IF fitting = changed
                                 THEN Resize(p.heap, Encode(p).buffer, n)
                                 ELSE {[Encode(p) EXCEPT !.result = "EINVAL"]}
  BY DEF AppendedSegment, Check, Changed
<1>4. NoneInvalid(E) /\ \A h, c : NoneInvalid(Resize(h, c, n))
  BY ExtendTakesAll, ResizeTakesAll
<1> HIDE DEF E, fitting, changed, n
<1>5. IsOther(o)
  BY <1>2, <1>3, <1>4 DEF NoneInvalid
<1>6. QED
  BY <1>1, <1>5, OtherBytes

---------------------------------------------------------------------------
(* What the scale of a conversion covers.                                  *)

(* All coordinates of the trajectory.                                      *)
ScaleSuits(s, e) ==
  /\ Covers(s, vehicle.x) /\ Covers(s, vehicle.y) /\ Covers(s, vehicle.z)
  /\ HasNeck(e.action) => Covers(s, vehicle.z + e.neck)
  /\ HasTarget(e.action) => Covers(s, Target(e).x) /\ Covers(s, Target(e).y)
  /\ HasTargetAltitude(e.action) => Covers(s, e.altitude)

(* The scale is raised as far as each of them needs.                       *)
LEMMA ScaleForSuits ==
  ASSUME NEW e, EntryFine(e), vehicle \in [Axes -> Int],
         Target(e).x \in Int, Target(e).y \in Int, ScaleFor(e).result = "SUCCESS"
  PROVE  ScaleFor(e).scale \in 1 .. 127 /\ ScaleSuits(ScaleFor(e).scale, e)
<1> DEFINE s1 == ScaleUpdate(1, vehicle.x, vehicle.y, vehicle.z)
           u2 == ScaleUpdate(s1.scale, 0, 0, vehicle.z + e.neck)
           s2 == IF s1.result = "SUCCESS" /\ HasNeck(e.action) THEN u2 ELSE s1
           u3 == ScaleUpdate(s2.scale, Target(e).x, Target(e).y, 0)
           s3 == IF s2.result = "SUCCESS" /\ HasTarget(e.action) THEN u3 ELSE s2
           u4 == ScaleUpdate(s3.scale, 0, 0, e.altitude)
           s4 == IF s3.result = "SUCCESS" /\ HasTargetAltitude(e.action) THEN u4 ELSE s3
<1>1. ScaleFor(e) = s4
  BY DEF ScaleFor
<1>2. /\ vehicle.x \in Int /\ vehicle.y \in Int /\ vehicle.z \in Int
      /\ e.neck \in Int /\ e.altitude \in Int /\ vehicle.z + e.neck \in Int
  <2>1. "x" \in Axes /\ "y" \in Axes /\ "z" \in Axes
    BY DEF Axes
  <2>2. vehicle.x \in Int /\ vehicle.y \in Int /\ vehicle.z \in Int
    BY <2>1
  <2>3. e.neck \in Int /\ e.altitude \in Int
    BY DEF EntryFine
  <2>4. QED
    BY <2>2, <2>3
<1>3. s1.result = "SUCCESS" /\ s2.result = "SUCCESS" /\ s3.result = "SUCCESS" /\ s4.result = "SUCCESS"
  <2> HIDE DEF u2, u3, u4, s1
  <2>1. s4.result = "SUCCESS"
    BY <1>1
  <2>2. s3.result = "SUCCESS"
    <3> HIDE DEF s3
    <3>1. QED
      BY <2>1
  <2>3. s2.result = "SUCCESS"
    <3> HIDE DEF s2
    <3>1. QED
      BY <2>2
  <2>4. s1.result = "SUCCESS"
    BY <2>3
  <2>5. QED
    BY <2>1, <2>2, <2>3, <2>4
<1>4. /\ Raised(1, s1.scale)
      /\ Covers(s1.scale, vehicle.x) /\ Covers(s1.scale, vehicle.y) /\ Covers(s1.scale, vehicle.z)
  <2> DEFINE x == vehicle.x
             y == vehicle.y
             z == vehicle.z
  <2>1. 1 \in 1 .. 127 /\ x \in Int /\ y \in Int /\ z \in Int
    BY <1>2
  <2>2. s1 = ScaleUpdate(1, x, y, z) /\ s1.result = "SUCCESS"
    BY <1>3
  <2> HIDE DEF s1, x, y, z
  <2>3. RaisedFor(1, s1.scale, x, y, z)
    BY <2>1, <2>2, ScaleRaised
  <2>4. QED
    BY <2>3 DEF RaisedFor, x, y, z
<1>5. s1.scale \in 1 .. 127
  BY <1>4 DEF Raised
<1>6. /\ Raised(s1.scale, s2.scale)
      /\ HasNeck(e.action) => Covers(s2.scale, vehicle.z + e.neck)
  <2>1. CASE HasNeck(e.action)
    <3>1. s2 = u2
      BY <1>3, <2>1
    <3>2. u2.result = "SUCCESS"
      BY <1>3, <3>1
    <3>3. Raised(s1.scale, u2.scale) /\ Covers(u2.scale, vehicle.z + e.neck)
      <4> DEFINE z == vehicle.z + e.neck
      <4>1. s1.scale \in 1 .. 127 /\ 0 \in Int /\ z \in Int
        BY <1>2, <1>5
      <4>2. u2 = ScaleUpdate(s1.scale, 0, 0, z)
        OBVIOUS
      <4> HIDE DEF s1, s2, u2, z
      <4>3. RaisedFor(s1.scale, u2.scale, 0, 0, z)
        BY <3>2, <4>1, <4>2, ScaleRaised
      <4>4. QED
        BY <4>3 DEF RaisedFor, z
    <3> HIDE DEF s1, s2, u2
    <3>4. QED
      BY <3>1, <3>3
  <2>2. CASE ~HasNeck(e.action)
    <3>1. s2 = s1
      BY <2>2
    <3> HIDE DEF s1, s2
    <3>2. QED
      BY <1>5, <2>2, <3>1 DEF Raised
  <2>3. QED
    BY <2>1, <2>2
<1>7. s2.scale \in 1 .. 127
  <2> HIDE DEF s2
  <2>1. QED
    BY <1>6 DEF Raised
<1>8. /\ Raised(s2.scale, s3.scale)
      /\ HasTarget(e.action) => Covers(s3.scale, Target(e).x) /\ Covers(s3.scale, Target(e).y)
  <2> HIDE DEF s1, s2
  <2>1. CASE HasTarget(e.action)
    <3>1. s3 = u3
      BY <1>3, <2>1
    <3>2. u3.result = "SUCCESS"
      BY <1>3, <3>1
    <3>3. /\ Raised(s2.scale, u3.scale)
          /\ Covers(u3.scale, Target(e).x) /\ Covers(u3.scale, Target(e).y)
      <4> DEFINE x == Target(e).x
                 y == Target(e).y
      <4>1. s2.scale \in 1 .. 127 /\ 0 \in Int /\ x \in Int /\ y \in Int
        BY <1>7
      <4>2. u3 = ScaleUpdate(s2.scale, x, y, 0)
        OBVIOUS
      <4> HIDE DEF s3, u3, x, y
      <4>3. RaisedFor(s2.scale, u3.scale, x, y, 0)
        BY <3>2, <4>1, <4>2, ScaleRaised
      <4>4. QED
        BY <4>3 DEF RaisedFor, x, y
    <3> HIDE DEF s3, u3
    <3>4. QED
      BY <3>1, <3>3
  <2>2. CASE ~HasTarget(e.action)
    <3>1. s3 = s2
      BY <2>2
    <3> HIDE DEF s3
    <3>2. QED
      BY <1>7, <2>2, <3>1 DEF Raised
  <2>3. QED
    BY <2>1, <2>2
<1>9. s3.scale \in 1 .. 127
  <2> HIDE DEF s3
  <2>1. QED
    BY <1>8 DEF Raised
<1>10. /\ Raised(s3.scale, s4.scale)
       /\ HasTargetAltitude(e.action) => Covers(s4.scale, e.altitude)
  <2> HIDE DEF s1, s2, s3
  <2>1. CASE HasTargetAltitude(e.action)
    <3>1. s4 = u4
      BY <1>3, <2>1
    <3>2. u4.result = "SUCCESS"
      BY <1>3, <3>1
    <3>3. Raised(s3.scale, u4.scale) /\ Covers(u4.scale, e.altitude)
      <4> DEFINE z == e.altitude
      <4>1. s3.scale \in 1 .. 127 /\ 0 \in Int /\ z \in Int
        BY <1>2, <1>9
      <4>2. u4 = ScaleUpdate(s3.scale, 0, 0, z)
        OBVIOUS
      <4> HIDE DEF s4, u4, z
      <4>3. RaisedFor(s3.scale, u4.scale, 0, 0, z)
        BY <3>2, <4>1, <4>2, ScaleRaised
      <4>4. QED
        BY <4>3 DEF RaisedFor, z
    <3> HIDE DEF s4, u4
    <3>4. QED
      BY <3>1, <3>3
  <2>2. CASE ~HasTargetAltitude(e.action)
    <3>1. s4 = s3
      BY <2>2
    <3> HIDE DEF s4
    <3>2. QED
      BY <1>9, <2>2, <3>1 DEF Raised
  <2>3. QED
    BY <2>1, <2>2
<1> HIDE DEF s1, s2, s3, s4
<1>11. /\ s4.scale \in 1 .. 127 /\ Raised(s1.scale, s4.scale) /\ Raised(s2.scale, s4.scale)
       /\ Raised(s3.scale, s4.scale)
  <2> DEFINE a == s1.scale
             b == s2.scale
             c == s3.scale
             d == s4.scale
  <2>1. /\ a \in 1 .. 127 /\ b \in 1 .. 127 /\ c \in 1 .. 127 /\ d \in 1 .. 127
        /\ a <= b /\ b <= c /\ c <= d
    BY <1>5, <1>6, <1>8, <1>10 DEF Raised
  <2> HIDE DEF a, b, c, d
  <2>2. a <= d /\ b <= d /\ c <= d
    BY <2>1
  <2>3. QED
    BY <2>1, <2>2 DEF Raised, a, b, c, d
<1>12. Covers(s4.scale, vehicle.x) /\ Covers(s4.scale, vehicle.y) /\ Covers(s4.scale, vehicle.z)
  BY <1>2, <1>4, <1>5, <1>11, CoversStill
<1>13. HasNeck(e.action) => Covers(s4.scale, vehicle.z + e.neck)
  BY <1>2, <1>6, <1>7, <1>11, CoversStill
<1>14. HasTarget(e.action) => Covers(s4.scale, Target(e).x) /\ Covers(s4.scale, Target(e).y)
  BY <1>8, <1>9, <1>11, CoversStill
<1>15. QED
  BY <1>1, <1>10, <1>11, <1>12, <1>13, <1>14 DEF ScaleSuits

---------------------------------------------------------------------------
(* The steps of a conversion.                                              *)

(* A step, with its position and its seconds.                              *)
StepRecord ==
  [do: {"init", "start", "line", "hold", "finish", "destroy"}, arg: [Axes -> Int], sec: Nat]

(* What every conversion ends with.                                        *)
Ends == <<Do("finish"), Do("destroy")>>

(* Lines and holds to where the scale reaches.                             *)
IsMove(m, scale) == m \in StepRecord /\ m.do \in {"line", "hold"} /\ InReach(scale, m.arg)
AreMoves(moves, scale) ==
  moves \in Seq(StepRecord) /\ \A i \in 1 .. Len(moves) : IsMove(moves[i], scale)

(* Where the vehicle is after a move, and when.                            *)
Moved(scale, p, m) ==
  [time |-> p.time + MsecPerSec * m.sec,
   position |-> IF m.do = "line" THEN Kept(scale, m.arg) ELSE p.position]

(* Moves that lead from one point to another.                              *)
Course(moves, scale, from, to) ==
  \E at : /\ at[0] = from /\ at[Len(moves)] = to
          /\ \A i \in 1 .. Len(moves) : at[i] = Moved(scale, at[i - 1], moves[i])

(* A sequence in front of which there is another element.                  *)
LEMMA ConsParts ==
  ASSUME NEW S, NEW c \in S, NEW u \in Seq(S)
  PROVE  /\ <<c>> \o u \in Seq(S) /\ <<c>> \o u # << >> /\ Len(<<c>> \o u) = Len(u) + 1
         /\ (<<c>> \o u)[1] = c /\ \A i \in 1 .. Len(u) : (<<c>> \o u)[i + 1] = u[i]
         /\ Head(<<c>> \o u) = c /\ Tail(<<c>> \o u) = u
<1> DEFINE p == <<c>>
           v == p \o u
<1>1. p \in Seq(S) /\ Len(p) = 1 /\ p[1] = c /\ Len(u) \in Nat
  BY LenProperties
<1> HIDE DEF p
<1>2. /\ v \in Seq(S) /\ Len(v) = 1 + Len(u)
      /\ \A i \in 1 .. 1 + Len(u) : v[i] = IF i <= 1 THEN p[i] ELSE u[i - 1]
  <2>1. /\ v \in Seq(S) /\ Len(v) = Len(p) + Len(u)
        /\ \A i \in 1 .. Len(p) + Len(u) : v[i] = IF i <= Len(p) THEN p[i] ELSE u[i - Len(p)]
    BY <1>1, ConcatProperties
  <2> HIDE DEF v
  <2>2. QED
    BY <1>1, <2>1
<1> HIDE DEF v
<1>3. v # << >>
  BY <1>1, <1>2, EmptySeq
<1>4. v[1] = c
  BY <1>1, <1>2
<1>5. ASSUME NEW i \in 1 .. Len(u) PROVE v[i + 1] = u[i]
  <2>1. i + 1 \in 1 .. 1 + Len(u) /\ ~(i + 1 <= 1) /\ (i + 1) - 1 = i
    BY <1>1
  <2>2. QED
    BY <1>2, <2>1
<1>6. /\ Head(v) = v[1] /\ Tail(v) \in Seq(S) /\ Len(Tail(v)) = Len(v) - 1
      /\ \A i \in 1 .. Len(Tail(v)) : Tail(v)[i] = v[i + 1]
  BY <1>2, <1>3, HeadTailProperties
<1>7. Tail(v) = u
  <2>1. Len(Tail(v)) = Len(u)
    BY <1>1, <1>2, <1>6
  <2>2. \A i \in 1 .. Len(u) : Tail(v)[i] = u[i]
    BY <1>5, <1>6, <2>1
  <2>3. QED
    BY <1>6, <2>1, <2>2, SeqEqual
<1>8. Len(v) = Len(u) + 1
  BY <1>1, <1>2
<1>9. QED
  BY <1>2, <1>3, <1>4, <1>5, <1>6, <1>7, <1>8 DEF v, p

(* A sequence is its head and its tail.                                    *)
LEMMA HeadAndTail ==
  ASSUME NEW S, NEW s \in Seq(S), s # << >>
  PROVE  s = <<Head(s)>> \o Tail(s) /\ Head(s) \in S /\ Tail(s) \in Seq(S)
<1> DEFINE c == Head(s)
           u == Tail(s)
           v == <<c>> \o u
<1>1. /\ c \in S /\ u \in Seq(S) /\ c = s[1] /\ Len(u) = Len(s) - 1 /\ Len(s) \in Nat
      /\ \A i \in 1 .. Len(u) : u[i] = s[i + 1]
  BY HeadTailProperties, LenProperties
<1> HIDE DEF c, u
<1>2. /\ v \in Seq(S) /\ Len(v) = Len(u) + 1 /\ v[1] = c
      /\ \A i \in 1 .. Len(u) : v[i + 1] = u[i]
  BY <1>1, ConsParts
<1> HIDE DEF v
<1>3. ASSUME NEW i \in 1 .. Len(s) PROVE v[i] = s[i]
  <2>1. CASE i = 1
    BY <1>1, <1>2, <2>1
  <2>2. CASE i # 1
    <3>1. i - 1 \in 1 .. Len(u) /\ (i - 1) + 1 = i
      BY <1>1, <2>2
    <3>2. QED
      BY <1>1, <1>2, <3>1
  <2>3. QED
    BY <2>1, <2>2
<1>4. Len(v) = Len(s)
  BY <1>1, <1>2
<1>5. s = v
  BY <1>2, <1>3, <1>4, SeqEqual
<1>6. QED
  BY <1>1, <1>5 DEF v, c, u

(* The steps of the conversion are such steps.                             *)
LEMMA StepTypes ==
  /\ \A what \in {"init", "start", "finish", "destroy"} : Do(what) \in StepRecord
  /\ \A p \in [Axes -> Int], n \in Nat : Fly(p, n) \in StepRecord /\ Stay(n) \in StepRecord
  /\ Ends \in Seq(StepRecord)
<1>1. Origin \in [Axes -> Int]
  BY DEF Origin
<1>2. \A what \in {"init", "start", "finish", "destroy"} : Do(what) \in StepRecord
  BY <1>1 DEF Do, StepRecord
<1>3. \A p \in [Axes -> Int], n \in Nat : Fly(p, n) \in StepRecord /\ Stay(n) \in StepRecord
  BY <1>1 DEF Fly, Stay, StepRecord
<1>4. Ends \in Seq(StepRecord)
  BY <1>2 DEF Ends
<1>5. QED
  BY <1>2, <1>3, <1>4

(* The first of the moves, or of what comes after them.                    *)
LEMMA NextStep ==
  ASSUME NEW m \in Seq(StepRecord)
  PROVE  /\ m \o Ends \in Seq(StepRecord) /\ m \o Ends # << >>
         /\ m = << >> => Head(m \o Ends) = Do("finish") /\ Tail(m \o Ends) = <<Do("destroy")>>
         /\ m # << >> => Head(m \o Ends) = Head(m) /\ Tail(m \o Ends) = Tail(m) \o Ends
<1>1. Ends \in Seq(StepRecord) /\ Ends # << >> /\ Ends = <<Do("finish")>> \o <<Do("destroy")>>
  BY StepTypes DEF Ends
<1>2. Do("finish") \in StepRecord /\ <<Do("destroy")>> \in Seq(StepRecord)
  BY StepTypes
<1>3. CASE m = << >>
  <2>1. m \o Ends = Ends
    BY <1>1, <1>3, ConcatEmptySeq
  <2>2. Head(Ends) = Do("finish") /\ Tail(Ends) = <<Do("destroy")>>
    <3> DEFINE c == Do("finish")
               u == <<Do("destroy")>>
    <3>1. c \in StepRecord /\ u \in Seq(StepRecord) /\ Ends = <<c>> \o u
      BY <1>1, <1>2
    <3> HIDE DEF c, u
    <3>2. Head(<<c>> \o u) = c /\ Tail(<<c>> \o u) = u
      BY <3>1, ConsParts
    <3>3. QED
      BY <3>1, <3>2 DEF c, u
  <2>3. QED
    BY <1>1, <1>3, <2>1, <2>2
<1>4. CASE m # << >>
  <2> DEFINE c == Head(m)
             t == Tail(m)
             u == t \o Ends
  <2>1. m = <<c>> \o t /\ c \in StepRecord /\ t \in Seq(StepRecord)
    BY <1>4, HeadAndTail
  <2>2. u \in Seq(StepRecord)
    BY <1>1, <2>1, ConcatProperties
  <2>3. m \o Ends = <<c>> \o u
    <3>1. <<c>> \in Seq(StepRecord)
      BY <2>1
    <3> HIDE DEF c, t
    <3>2. (<<c>> \o t) \o Ends = <<c>> \o (t \o Ends)
      BY <1>1, <2>1, <3>1, ConcatAssociative
    <3>3. QED
      BY <2>1, <3>2
  <2> HIDE DEF u, c
  <2>4. /\ <<c>> \o u \in Seq(StepRecord) /\ <<c>> \o u # << >>
        /\ Head(<<c>> \o u) = c /\ Tail(<<c>> \o u) = u
    BY <2>1, <2>2, ConsParts
  <2>5. QED
    BY <1>4, <2>3, <2>4 DEF u, c
<1>5. QED
  BY <1>3, <1>4

(* No moves are a course to where it starts.                               *)
LEMMA CourseEmpty ==
  ASSUME NEW scale, NEW p, NEW q
  PROVE  Course(<< >>, scale, p, q) <=> p = q
<1>1. Len(<< >>) = 0 /\ \A i \in 1 .. 0 : FALSE
  OBVIOUS
<1>2. ASSUME p = q PROVE Course(<< >>, scale, p, q)
  <2> DEFINE at == [i \in {0} |-> p]
  <2>1. at[0] = p
    OBVIOUS
  <2> HIDE DEF at
  <2>2. QED
    BY <1>1, <1>2, <2>1 DEF Course
<1>3. ASSUME Course(<< >>, scale, p, q) PROVE p = q
  BY <1>1, <1>3 DEF Course
<1>4. QED
  BY <1>2, <1>3

(* A move in front leads to where the others begin.                        *)
LEMMA CoursePush ==
  ASSUME NEW m \in Seq(StepRecord), NEW c \in StepRecord, NEW scale, NEW p, NEW q,
         Course(m, scale, Moved(scale, p, c), q)
  PROVE  Course(<<c>> \o m, scale, p, q)
<1> DEFINE n == Len(m)
           u == <<c>> \o m
<1>1. /\ n \in Nat /\ Len(u) = n + 1 /\ u[1] = c /\ \A i \in 1 .. n : u[i + 1] = m[i]
  BY ConsParts, LenProperties
<1>2. PICK at : /\ at[0] = Moved(scale, p, c) /\ at[n] = q
                /\ \A i \in 1 .. n : at[i] = Moved(scale, at[i - 1], m[i])
  BY DEF Course
<1> DEFINE d == [i \in 0 .. n + 1 |-> IF i = 0 THEN p ELSE at[i - 1]]
<1> HIDE DEF n, u
<1>3. /\ d[0] = p /\ \A i \in 1 .. n + 1 : d[i] = at[i - 1]
  BY <1>1
<1> HIDE DEF d
<1>4. d[n + 1] = q
  <2>1. n + 1 \in 1 .. n + 1 /\ (n + 1) - 1 = n
    BY <1>1
  <2>2. QED
    BY <1>2, <1>3, <2>1
<1>5. ASSUME NEW i \in 1 .. n + 1 PROVE d[i] = Moved(scale, d[i - 1], u[i])
  <2>1. CASE i = 1
    <3>1. i - 1 = 0
      BY <2>1
    <3>2. QED
      BY <1>1, <1>2, <1>3, <2>1, <3>1
  <2>2. CASE i # 1
    <3>1. i - 1 \in 1 .. n /\ (i - 1) + 1 = i /\ i - 1 \in 1 .. n + 1
      BY <1>1, <2>2
    <3>2. d[i] = at[i - 1] /\ d[i - 1] = at[(i - 1) - 1] /\ u[i] = m[i - 1]
      BY <1>1, <1>3, <3>1
    <3>3. QED
      BY <1>2, <3>1, <3>2
  <2>3. QED
    BY <2>1, <2>2
<1>6. QED
  BY <1>1, <1>3, <1>4, <1>5 DEF Course, u

(* After the first move the others lead on.                                *)
LEMMA CoursePop ==
  ASSUME NEW m \in Seq(StepRecord), m # << >>, NEW scale, NEW p, NEW q,
         Course(m, scale, p, q)
  PROVE  Course(Tail(m), scale, Moved(scale, p, Head(m)), q)
<1> DEFINE n == Len(m)
           t == Tail(m)
<1>1. /\ n \in Nat /\ n >= 1 /\ Len(t) = n - 1 /\ Head(m) = m[1]
      /\ \A i \in 1 .. n - 1 : t[i] = m[i + 1]
  BY HeadTailProperties, LenProperties, EmptySeq
<1>2. PICK at : /\ at[0] = p /\ at[n] = q
                /\ \A i \in 1 .. n : at[i] = Moved(scale, at[i - 1], m[i])
  BY DEF Course
<1> DEFINE d == [i \in 0 .. n - 1 |-> at[i + 1]]
<1> HIDE DEF n, t
<1>3. \A i \in 0 .. n - 1 : d[i] = at[i + 1]
  OBVIOUS
<1> HIDE DEF d
<1>4. d[0] = Moved(scale, p, Head(m)) /\ d[n - 1] = q
  <2>1. 0 \in 0 .. n - 1 /\ n - 1 \in 0 .. n - 1 /\ (n - 1) + 1 = n /\ 1 \in 1 .. n /\ 0 + 1 = 1
        /\ 1 - 1 = 0
    BY <1>1
  <2>2. d[0] = at[1] /\ d[n - 1] = at[n]
    BY <1>3, <2>1
  <2>3. at[1] = Moved(scale, at[0], m[1])
    BY <1>2, <2>1
  <2>4. QED
    BY <1>1, <1>2, <2>2, <2>3
<1>5. ASSUME NEW i \in 1 .. n - 1 PROVE d[i] = Moved(scale, d[i - 1], t[i])
  <2>1. i \in 0 .. n - 1 /\ i - 1 \in 0 .. n - 1 /\ i + 1 \in 1 .. n
        /\ (i + 1) - 1 = i /\ (i - 1) + 1 = i
    BY <1>1
  <2>2. d[i] = at[i + 1] /\ d[i - 1] = at[i]
    BY <1>3, <2>1
  <2>3. at[i + 1] = Moved(scale, at[i], m[i + 1])
    BY <1>2, <2>1
  <2>4. QED
    BY <1>1, <2>2, <2>3
<1>6. Course(t, scale, Moved(scale, p, Head(m)), q)
  BY <1>1, <1>4, <1>5 DEF Course
<1>7. QED
  BY <1>6 DEF t

(* The moves after the first are moves.                                    *)
LEMMA MovesPop ==
  ASSUME NEW scale, NEW m, AreMoves(m, scale), m # << >>
  PROVE  IsMove(Head(m), scale) /\ AreMoves(Tail(m), scale)
<1>1. m \in Seq(StepRecord) /\ Len(m) \in Nat /\ Len(m) >= 1
  BY LenProperties, EmptySeq DEF AreMoves
<1>2. /\ Head(m) = m[1] /\ Tail(m) \in Seq(StepRecord) /\ Len(Tail(m)) = Len(m) - 1
      /\ \A i \in 1 .. Len(Tail(m)) : Tail(m)[i] = m[i + 1]
  BY <1>1, HeadTailProperties
<1>3. \A i \in 1 .. Len(m) - 1 : i + 1 \in 1 .. Len(m)
  BY <1>1
<1>4. 1 \in 1 .. Len(m)
  BY <1>1
<1>5. QED
  BY <1>1, <1>2, <1>3, <1>4 DEF AreMoves

(* A move, if there is one, in front of others.                            *)
If(condition, m) == IF condition THEN <<m>> ELSE << >>

(* With such a move in front, moves in reach are moves in reach,           *)
LEMMA MovesPush ==
  ASSUME NEW scale, NEW m, AreMoves(m, scale), NEW condition \in BOOLEAN,
         NEW c \in StepRecord, condition => IsMove(c, scale)
  PROVE  AreMoves(If(condition, c) \o m, scale)
<1>1. m \in Seq(StepRecord) /\ Len(m) \in Nat
  BY LenProperties DEF AreMoves
<1>2. CASE ~condition
  <2>1. If(condition, c) \o m = m
    BY <1>1, <1>2, ConcatEmptySeq DEF If
  <2>2. QED
    BY <2>1
<1>3. CASE condition
  <2> DEFINE u == <<c>> \o m
  <2>1. If(condition, c) \o m = u
    BY <1>3 DEF If
  <2>2. /\ u \in Seq(StepRecord) /\ Len(u) = Len(m) + 1 /\ u[1] = c
        /\ \A i \in 1 .. Len(m) : u[i + 1] = m[i]
    BY <1>1, ConsParts
  <2> HIDE DEF u
  <2>3. ASSUME NEW i \in 1 .. Len(u) PROVE IsMove(u[i], scale)
    <3>1. CASE i = 1
      BY <1>3, <2>2, <3>1
    <3>2. CASE i # 1
      <4>1. i - 1 \in 1 .. Len(m) /\ (i - 1) + 1 = i
        BY <1>1, <2>2, <3>2
      <4>2. u[i] = m[i - 1]
        BY <2>2, <4>1
      <4>3. QED
        BY <4>1, <4>2 DEF AreMoves
    <3>3. QED
      BY <3>1, <3>2
  <2>4. QED
    BY <2>1, <2>2, <2>3 DEF AreMoves
<1>4. QED
  BY <1>2, <1>3

(* and lead from where the move begins.                                    *)
LEMMA CourseIf ==
  ASSUME NEW m \in Seq(StepRecord), NEW c \in StepRecord, NEW condition \in BOOLEAN,
         NEW scale, NEW p, NEW q,
         Course(m, scale, IF condition THEN Moved(scale, p, c) ELSE p, q)
  PROVE  Course(If(condition, c) \o m, scale, p, q)
<1>1. CASE condition
  <2>1. If(condition, c) \o m = <<c>> \o m
    BY <1>1 DEF If
  <2>2. Course(m, scale, Moved(scale, p, c), q)
    BY <1>1
  <2>3. QED
    BY <2>1, <2>2, CoursePush
<1>2. CASE ~condition
  <2>1. If(condition, c) \o m = m
    BY <1>2, ConcatEmptySeq DEF If
  <2>2. QED
    BY <1>2, <2>1
<1>3. QED
  BY <1>1, <1>2

---------------------------------------------------------------------------
(* The task of a conversion.                                               *)

(* A flight: its scale, where and how long it waits, its moves, and where  *)
(* and when it ends.                                                       *)
Begins(f) == [time |-> MsecPerSec * f.wait, position |-> Kept(f.scale, f.start)]
Arrives(f) == [time |-> f.end, position |-> Kept(f.scale, f.goal)]

(* Its moves lead where they should, and are in reach.                     *)
Fit(f) ==
  /\ f.scale \in 1 .. 127 /\ f.start \in [Axes -> Int] /\ f.goal \in [Axes -> Int]
  /\ f.wait \in Nat
  /\ InReach(f.scale, f.start) /\ AreMoves(f.moves, f.scale)
  /\ Course(f.moves, f.scale, Begins(f), Arrives(f))

(* All its steps.                                                          *)
AllSteps(f) ==
  <<Do("init")>> \o (<<Do("start")>> \o (<<Stay(f.wait)>> \o (f.moves \o Ends)))

(* What an entry asks for.                                                 *)
Delay(e) == Positive(e.time) + Positive(e.pre_delay)
GoalOf(e) ==
  CASE e.action = "LAND" -> vehicle
    [] e.action = "KEEP_ALTITUDE" -> [vehicle EXCEPT !.x = Target(e).x, !.y = Target(e).y]
    [] e.action = "WITH_ALTITUDE" ->
         [vehicle EXCEPT !.x = Target(e).x, !.y = Target(e).y, !.z = e.altitude]

(* The flight that the entry asks for.                                     *)
IsTask(f) ==
  LET e == scan.entry
  IN  /\ f.start = vehicle /\ f.scale = ScaleFor(e).scale
      /\ f.wait = Delay(e) /\ f.goal = GoalOf(e)
      /\ f.end = MsecPerSec * Delay(e)
                   + MsecPerSec * (e.neck_duration + e.duration + Positive(e.post_delay))

(* The moves of a conversion.                                              *)
GoesUp(e) == e.neck # 0 \/ e.neck_duration # 0
Necked(e) == IF GoesUp(e) THEN [vehicle EXCEPT !.z = @ + e.neck] ELSE vehicle
GoalFrom(e) ==
  CASE e.action = "LAND" -> Necked(e)
    [] e.action = "KEEP_ALTITUDE" -> [Necked(e) EXCEPT !.x = Target(e).x, !.y = Target(e).y]
    [] e.action = "WITH_ALTITUDE" ->
         [Necked(e) EXCEPT !.x = Target(e).x, !.y = Target(e).y, !.z = e.altitude]
NeckMove(e) == If(GoesUp(e), Fly(Necked(e), e.neck_duration))
LineMove(e) == If(HasTarget(e.action), Fly(GoalFrom(e), e.duration))
PostMove(e) == If(e.post_delay > 0, Stay(e.post_delay))

(* The calls of a conversion in terms of these moves.                      *)
LEMMA ConversionParts ==
  ASSUME NEW e
  PROVE  Conversion(e) = <<Do("init"), Do("start"), Stay(Delay(e))>> \o NeckMove(e)
                           \o LineMove(e) \o PostMove(e) \o Ends
<1> DEFINE first == <<Do("init"), Do("start"), Stay(Delay(e))>>
<1>1. NeckMove(e) = IF e.neck # 0 \/ e.neck_duration # 0
                      THEN <<Fly([vehicle EXCEPT !.z = @ + e.neck], e.neck_duration)>> ELSE << >>
  BY DEF NeckMove, If, GoesUp, Necked
<1>2. Conversion(e) =
        first \o (IF GoesUp(e) THEN <<Fly(Necked(e), e.neck_duration)>> ELSE << >>)
              \o (IF HasTarget(e.action) THEN <<Fly(GoalFrom(e), e.duration)>> ELSE << >>)
              \o (IF e.post_delay > 0 THEN <<Stay(e.post_delay)>> ELSE << >>)
              \o <<Do("finish"), Do("destroy")>>
  BY Zenon DEF Conversion, GoesUp, Necked, GoalFrom, Delay
<1>3. QED
  BY <1>2, Zenon DEF NeckMove, LineMove, PostMove, If, Ends

(* Where the moves lead is where the entry asks for, as only an entry with *)
(* an altitude has a neck.                                                 *)
LEMMA GoalFromIs ==
  ASSUME NEW e, EntryFine(e), vehicle \in [Axes -> Int], Target(e).x \in Int, Target(e).y \in Int
  PROVE  /\ Necked(e) \in [Axes -> Int] /\ GoalOf(e) \in [Axes -> Int]
         /\ GoalFrom(e) = GoalOf(e)
         /\ e.action = "LAND" => ~GoesUp(e) /\ e.duration = 0
         /\ GoesUp(e) => HasNeck(e.action)
         /\ Necked(e).x = vehicle.x /\ Necked(e).y = vehicle.y
         /\ Necked(e).z = IF GoesUp(e) THEN vehicle.z + e.neck ELSE vehicle.z
         /\ GoalOf(e).x = (IF HasTarget(e.action) THEN Target(e).x ELSE vehicle.x)
         /\ GoalOf(e).y = (IF HasTarget(e.action) THEN Target(e).y ELSE vehicle.y)
         /\ GoalOf(e).z = (IF HasTargetAltitude(e.action) THEN e.altitude ELSE vehicle.z)
<1>1. /\ e.action \in {"LAND", "KEEP_ALTITUDE", "WITH_ALTITUDE"}
      /\ e.neck \in Int /\ e.altitude \in Int
      /\ ~HasNeck(e.action) => e.neck = 0 /\ e.neck_duration = 0
      /\ ~HasDuration(e.action) => e.duration = 0
  BY DEF EntryFine
<1>2. GoesUp(e) => HasNeck(e.action)
  BY <1>1 DEF GoesUp
<1>3. Axes = {"x", "y", "z", "yaw"}
  BY DEF Axes
<1>4. /\ Necked(e) \in [Axes -> Int]
      /\ Necked(e).x = vehicle.x /\ Necked(e).y = vehicle.y
      /\ Necked(e).z = IF GoesUp(e) THEN vehicle.z + e.neck ELSE vehicle.z
  <2>1. CASE GoesUp(e)
    <3>1. Necked(e) = [vehicle EXCEPT !.z = vehicle.z + e.neck]
      BY <2>1 DEF Necked
    <3>2. vehicle.z + e.neck \in Int
      BY <1>1, <1>3
    <3>3. QED
      BY <1>3, <2>1, <3>1, <3>2
  <2>2. CASE ~GoesUp(e)
    BY <2>2 DEF Necked
  <2>3. QED
    BY <2>1, <2>2
<1>5. CASE e.action = "LAND"
  <2>1. ~HasNeck(e.action) /\ ~HasTarget(e.action) /\ ~HasTargetAltitude(e.action) /\ ~HasDuration(e.action)
    BY <1>5 DEF HasNeck, HasTarget, HasTargetAltitude, HasDuration
  <2>2. Necked(e) = vehicle
    BY <1>2, <2>1 DEF Necked
  <2>3. GoalOf(e) = vehicle /\ GoalFrom(e) = Necked(e)
    BY <1>5 DEF GoalOf, GoalFrom
  <2>4. QED
    BY <1>1, <1>2, <1>4, <2>1, <2>2, <2>3
<1>6. CASE e.action = "KEEP_ALTITUDE"
  <2>1. ~HasNeck(e.action) /\ HasTarget(e.action) /\ ~HasTargetAltitude(e.action)
    BY <1>6 DEF HasNeck, HasTarget, HasTargetAltitude
  <2>2. Necked(e) = vehicle
    BY <1>2, <2>1 DEF Necked
  <2> DEFINE p == [vehicle EXCEPT !.x = Target(e).x, !.y = Target(e).y]
  <2>3. GoalOf(e) = p /\ GoalFrom(e) = p
    BY <1>6, <2>2 DEF GoalOf, GoalFrom
  <2>4. p \in [Axes -> Int] /\ p.x = Target(e).x /\ p.y = Target(e).y /\ p.z = vehicle.z
    BY <1>3
  <2> HIDE DEF p
  <2>5. QED
    BY <1>2, <1>4, <1>6, <2>1, <2>3, <2>4
<1>7. CASE e.action = "WITH_ALTITUDE"
  <2>1. HasTarget(e.action) /\ HasTargetAltitude(e.action)
    BY <1>7 DEF HasTarget, HasTargetAltitude
  <2> DEFINE p == [vehicle EXCEPT !.x = Target(e).x, !.y = Target(e).y, !.z = e.altitude]
             q == [Necked(e) EXCEPT !.x = Target(e).x, !.y = Target(e).y, !.z = e.altitude]
  <2>2. GoalOf(e) = p /\ GoalFrom(e) = q
    BY <1>7 DEF GoalOf, GoalFrom
  <2>3. p \in [Axes -> Int] /\ p.x = Target(e).x /\ p.y = Target(e).y /\ p.z = e.altitude
    BY <1>1, <1>3
  <2>4. q = p
    <3>1. q \in [Axes -> Int]
      BY <1>1, <1>3, <1>4
    <3>2. Necked(e).yaw = vehicle.yaw
      <4>1. CASE GoesUp(e)
        <5>1. Necked(e) = [vehicle EXCEPT !.z = vehicle.z + e.neck]
          BY <4>1 DEF Necked
        <5>2. QED
          BY <1>3, <5>1
      <4>2. CASE ~GoesUp(e)
        BY <4>2 DEF Necked
      <4>3. QED
        BY <4>1, <4>2
    <3>3. \A a \in Axes : q[a] = p[a]
      BY <1>1, <1>3, <1>4, <3>2
    <3> HIDE DEF p, q
    <3>4. QED
      BY <2>3, <3>1, <3>3
  <2> HIDE DEF p, q
  <2>5. QED
    BY <1>2, <1>4, <1>7, <2>1, <2>2, <2>3, <2>4
<1>8. QED
  BY <1>1, <1>5, <1>6, <1>7

---------------------------------------------------------------------------
(* Every entry that can be converted is such a flight.                     *)
At(t, k) == [time |-> t, position |-> k]

(* Where a line and a wait lead.                                           *)
LEMMA MovedTo ==
  ASSUME NEW scale, NEW t, NEW k, NEW q, NEW n
  PROVE  /\ Moved(scale, At(t, k), Fly(q, n)) = At(t + MsecPerSec * n, Kept(scale, q))
         /\ Moved(scale, At(t, k), Stay(n)) = At(t + MsecPerSec * n, k)
  BY DEF Moved, At, Fly, Stay

(* Times add up.                                                           *)
LEMMA TimesSum ==
  ASSUME NEW m \in Int, NEW a \in Int, NEW b \in Int, NEW c \in Int, NEW d \in Int
  PROVE  ((m * a + m * b) + m * c) + m * d = m * a + m * (b + c + d)
  BY SMT

(* The moves of an entry lead from the start to its goal, in its time.     *)
LEMMA TaskCourse ==
  ASSUME NEW e, EntryFine(e), vehicle \in [Axes -> Int], NEW scale,
         Target(e).x \in Int, Target(e).y \in Int, NEW t0 \in Int
  PROVE  Course(NeckMove(e) \o (LineMove(e) \o (PostMove(e) \o << >>)), scale,
                At(t0, Kept(scale, vehicle)),
                At(((t0 + MsecPerSec * e.neck_duration) + MsecPerSec * e.duration)
                     + MsecPerSec * Positive(e.post_delay), Kept(scale, GoalOf(e))))
<1> DEFINE t1 == t0 + MsecPerSec * e.neck_duration
           t2 == t1 + MsecPerSec * e.duration
           t3 == t2 + MsecPerSec * Positive(e.post_delay)
           p0 == At(t0, Kept(scale, vehicle))
           p1 == At(t1, Kept(scale, Necked(e)))
           p2 == At(t2, Kept(scale, GoalOf(e)))
           p3 == At(t3, Kept(scale, GoalOf(e)))
           neck == Fly(Necked(e), e.neck_duration)
           line == Fly(GoalFrom(e), e.duration)
           post == Stay(e.post_delay)
           M3 == PostMove(e) \o << >>
           M2 == LineMove(e) \o M3
           up == GoesUp(e)
           far == HasTarget(e.action)
           late == e.post_delay > 0
<1>1. /\ e.neck_duration \in Nat /\ e.duration \in Nat /\ e.post_delay \in Nat
      /\ MsecPerSec \in Nat /\ e.action \in {"LAND", "KEEP_ALTITUDE", "WITH_ALTITUDE"}
  BY ScalingAssumption DEF EntryFine
<1>2. /\ Necked(e) \in [Axes -> Int] /\ GoalOf(e) \in [Axes -> Int]
      /\ GoalFrom(e) = GoalOf(e)
      /\ e.action = "LAND" => ~GoesUp(e) /\ e.duration = 0
  BY GoalFromIs
<1>3. neck \in StepRecord /\ line \in StepRecord /\ post \in StepRecord
  BY <1>1, <1>2, StepTypes
<1>4. << >> \in Seq(StepRecord) /\ M3 \in Seq(StepRecord) /\ M2 \in Seq(StepRecord)
  <2>1. << >> \in Seq(StepRecord)
    BY EmptySeq
  <2>2. PostMove(e) \in Seq(StepRecord) /\ LineMove(e) \in Seq(StepRecord)
    <3> HIDE DEF post, line
    <3>1. PostMove(e) = If(late, post) /\ LineMove(e) = If(far, line)
      BY DEF PostMove, LineMove, post, line
    <3>2. QED
      BY <1>3, <2>1, <3>1 DEF If
  <2>3. QED
    BY <2>1, <2>2, ConcatProperties
<1>5. MsecPerSec * 0 = 0 /\ \A t \in Int : t + 0 = t
  BY <1>1
<1>6. t1 \in Int /\ t2 \in Int
  <2>1. MsecPerSec * e.neck_duration \in Int /\ MsecPerSec * e.duration \in Int
    BY <1>1
  <2>2. QED
    BY <2>1
<1>7. (IF up THEN Moved(scale, p0, neck) ELSE p0) = p1
  <2>1. CASE up
    BY <2>1, MovedTo
  <2>2. CASE ~up
    <3>1. e.neck_duration = 0 /\ Necked(e) = vehicle
      BY <2>2 DEF GoesUp, Necked
    <3>2. t1 = t0
      BY <1>5, <3>1
    <3>3. QED
      BY <2>2, <3>1, <3>2
  <2>3. QED
    BY <2>1, <2>2
<1>8. (IF far THEN Moved(scale, p1, line) ELSE p1) = p2
  <2>1. CASE far
    BY <1>2, <2>1, MovedTo
  <2>2. CASE ~far
    <3>1. e.action = "LAND"
      BY <1>1, <2>2 DEF HasTarget
    <3>2. e.duration = 0 /\ Necked(e) = vehicle /\ GoalOf(e) = vehicle
      BY <1>2, <3>1 DEF GoesUp, Necked, GoalOf
    <3> HIDE DEF t1
    <3>3. t2 = t1
      BY <1>5, <1>6, <3>2
    <3>4. QED
      BY <2>2, <3>2, <3>3
  <2>3. QED
    BY <2>1, <2>2
<1>9. (IF late THEN Moved(scale, p2, post) ELSE p2) = p3
  <2>1. CASE late
    <3>1. Positive(e.post_delay) = e.post_delay
      BY <2>1 DEF Positive
    <3>2. QED
      BY <2>1, <3>1, MovedTo
  <2>2. CASE ~late
    <3>1. Positive(e.post_delay) = 0
      BY <2>2 DEF Positive
    <3> HIDE DEF t2
    <3>2. t3 = t2
      BY <1>5, <1>6, <3>1
    <3>3. QED
      BY <2>2, <3>2
  <2>3. QED
    BY <2>1, <2>2
<1> HIDE DEF p0, p1, p2, p3, t1, t2, t3, neck, line, post, M3, M2
<1>10. up \in BOOLEAN /\ far \in BOOLEAN /\ late \in BOOLEAN
  BY <1>1 DEF GoesUp, HasTarget
<1> HIDE DEF up, far, late
<1>11. Course(<< >>, scale, p3, p3)
  BY CourseEmpty
<1>12. Course(M3, scale, p2, p3)
  <2>1. Course(If(late, post) \o << >>, scale, p2, p3)
    BY <1>3, <1>4, <1>9, <1>10, <1>11, CourseIf
  <2>2. QED
    BY <2>1 DEF M3, PostMove, late, post
<1>13. Course(M2, scale, p1, p3)
  <2>1. Course(If(far, line) \o M3, scale, p1, p3)
    BY <1>3, <1>4, <1>8, <1>10, <1>12, CourseIf
  <2>2. QED
    BY <2>1 DEF M2, LineMove, far, line
<1>14. Course(If(up, neck) \o M2, scale, p0, p3)
  BY <1>3, <1>4, <1>7, <1>10, <1>13, CourseIf
<1>15. QED
  BY <1>14 DEF M2, M3, NeckMove, up, neck, p0, p3, t3, t2, t1

(* All of it is in reach.                                                  *)
LEMMA TaskReach ==
  ASSUME NEW e, EntryFine(e), vehicle \in [Axes -> Int], NEW scale \in 1 .. 127,
         Target(e).x \in Int, Target(e).y \in Int, ScaleSuits(scale, e)
  PROVE  /\ InReach(scale, vehicle)
         /\ AreMoves(NeckMove(e) \o (LineMove(e) \o (PostMove(e) \o << >>)), scale)
<1> DEFINE neck == Fly(Necked(e), e.neck_duration)
           line == Fly(GoalFrom(e), e.duration)
           post == Stay(e.post_delay)
           up == GoesUp(e)
           far == HasTarget(e.action)
           late == e.post_delay > 0
           M3 == PostMove(e) \o << >>
           M2 == LineMove(e) \o M3
<1>1. /\ e.neck_duration \in Nat /\ e.duration \in Nat /\ e.post_delay \in Nat
  BY DEF EntryFine
<1>2. /\ Necked(e) \in [Axes -> Int] /\ GoalOf(e) \in [Axes -> Int]
      /\ GoalFrom(e) = GoalOf(e)
      /\ GoesUp(e) => HasNeck(e.action)
      /\ Necked(e).x = vehicle.x /\ Necked(e).y = vehicle.y
      /\ Necked(e).z = IF GoesUp(e) THEN vehicle.z + e.neck ELSE vehicle.z
      /\ GoalOf(e).x = (IF HasTarget(e.action) THEN Target(e).x ELSE vehicle.x)
      /\ GoalOf(e).y = (IF HasTarget(e.action) THEN Target(e).y ELSE vehicle.y)
      /\ GoalOf(e).z = (IF HasTargetAltitude(e.action) THEN e.altitude ELSE vehicle.z)
  BY GoalFromIs
<1>3. InReach(scale, vehicle) /\ InReach(scale, Necked(e)) /\ InReach(scale, GoalOf(e))
  <2>1. InReach(scale, vehicle)
    BY CoveredReach DEF ScaleSuits
  <2>2. /\ Covers(scale, Necked(e).x) /\ Covers(scale, Necked(e).y) /\ Covers(scale, Necked(e).z)
    BY <1>2 DEF ScaleSuits
  <2>3. /\ Covers(scale, GoalOf(e).x) /\ Covers(scale, GoalOf(e).y) /\ Covers(scale, GoalOf(e).z)
    BY <1>2 DEF ScaleSuits
  <2>4. QED
    BY <1>2, <2>1, <2>2, <2>3, CoveredReach
<1>4. neck \in StepRecord /\ line \in StepRecord /\ post \in StepRecord
  BY <1>1, <1>2, StepTypes
<1>5. IsMove(neck, scale) /\ IsMove(line, scale) /\ IsMove(post, scale)
  <2>1. /\ neck.do = "line" /\ neck.arg = Necked(e) /\ line.do = "line" /\ line.arg = GoalOf(e)
        /\ post.do = "hold" /\ post.arg = Origin
    BY <1>2 DEF Fly, Stay
  <2> HIDE DEF neck, line, post
  <2>2. QED
    BY <1>3, <1>4, <2>1, OriginReach DEF IsMove
<1> HIDE DEF neck, line, post, M3, M2
<1>6. up \in BOOLEAN /\ far \in BOOLEAN /\ late \in BOOLEAN
  BY <1>1 DEF GoesUp, HasTarget
<1> HIDE DEF up, far, late
<1>7. AreMoves(<< >>, scale)
  BY EmptySeq DEF AreMoves
<1>8. AreMoves(If(late, post) \o << >>, scale)
  BY <1>4, <1>5, <1>6, <1>7, MovesPush
<1>9. AreMoves(M3, scale)
  BY <1>8 DEF M3, PostMove, late, post
<1>10. AreMoves(If(far, line) \o M3, scale)
  BY <1>4, <1>5, <1>6, <1>9, MovesPush
<1>11. AreMoves(M2, scale)
  BY <1>10 DEF M2, LineMove, far, line
<1>12. AreMoves(If(up, neck) \o M2, scale)
  BY <1>4, <1>5, <1>6, <1>11, MovesPush
<1>13. QED
  BY <1>3, <1>12 DEF M2, M3, NeckMove, up, neck

---------------------------------------------------------------------------
(* Steps may be put together from either end.                              *)
LEMMA StepsAssociate ==
  \A s \in Seq(StepRecord), t \in Seq(StepRecord), u \in Seq(StepRecord) :
    (s \o t) \o u = s \o (t \o u) /\ s \o t \in Seq(StepRecord)
<1> SUFFICES ASSUME NEW s \in Seq(StepRecord), NEW t \in Seq(StepRecord), NEW u \in Seq(StepRecord)
             PROVE  (s \o t) \o u = s \o (t \o u) /\ s \o t \in Seq(StepRecord)
  OBVIOUS
<1>1. (s \o t) \o u = s \o (t \o u)
  BY ONLY s \in Seq(StepRecord), t \in Seq(StepRecord), u \in Seq(StepRecord), ConcatAssociative
<1>2. s \o t \in Seq(StepRecord)
  BY ConcatProperties
<1>3. QED
  BY <1>1, <1>2

(* The calls of the conversion are those steps in their order.             *)
LEMMA ConversionIs ==
  ASSUME NEW e, EntryFine(e), vehicle \in [Axes -> Int], Target(e).x \in Int, Target(e).y \in Int,
         NEW f, f.wait = Delay(e),
         f.moves = NeckMove(e) \o (LineMove(e) \o (PostMove(e) \o << >>))
  PROVE  f.wait \in Nat /\ f.moves \in Seq(StepRecord) /\ Conversion(e) = AllSteps(f)
<1> DEFINE N == NeckMove(e)
           L == LineMove(e)
           P == PostMove(e)
           a == Do("init")
           b == Do("start")
           c == Stay(Delay(e))
<1>1. /\ e.neck_duration \in Nat /\ e.duration \in Nat /\ e.post_delay \in Nat
      /\ e.pre_delay \in Nat /\ e.time \in Int
  BY DEF EntryFine
<1>2. Delay(e) \in Nat
  BY <1>1 DEF Delay, Positive
<1>3. Necked(e) \in [Axes -> Int] /\ GoalFrom(e) \in [Axes -> Int]
  BY GoalFromIs
<1>4. /\ Fly(Necked(e), e.neck_duration) \in StepRecord /\ Fly(GoalFrom(e), e.duration) \in StepRecord
      /\ Stay(e.post_delay) \in StepRecord
      /\ a \in StepRecord /\ b \in StepRecord /\ c \in StepRecord /\ Ends \in Seq(StepRecord)
  BY <1>1, <1>2, <1>3, StepTypes
<1>5. N \in Seq(StepRecord) /\ L \in Seq(StepRecord) /\ P \in Seq(StepRecord)
  <2>1. << >> \in Seq(StepRecord)
    BY EmptySeq
  <2>2. QED
    BY <1>4, <2>1 DEF NeckMove, LineMove, PostMove, If
<1>6. Conversion(e) = <<a, b, c>> \o N \o L \o P \o Ends
  BY ConversionParts
<1> HIDE DEF N, L, P, a, b, c
<1>7. f.moves = N \o (L \o P)
  <2>1. P \o << >> = P
    BY <1>5, ConcatEmptySeq
  <2>2. QED
    BY <2>1 DEF N, L, P
<1>8. L \o P \in Seq(StepRecord) /\ N \o (L \o P) \in Seq(StepRecord)
  BY <1>5, ConcatProperties
<1> DEFINE M == N \o (L \o P)
           A == <<a, b, c>>
<1>9. A \in Seq(StepRecord) /\ <<a>> \in Seq(StepRecord) /\ <<b>> \in Seq(StepRecord)
      /\ <<c>> \in Seq(StepRecord) /\ <<b>> \o <<c>> \in Seq(StepRecord)
  <2>1. <<a, b, c>> \in Seq(StepRecord) /\ <<a>> \in Seq(StepRecord) /\ <<b>> \in Seq(StepRecord)
        /\ <<c>> \in Seq(StepRecord)
    BY <1>4
  <2>2. QED
    BY <2>1, ConcatProperties
<1>10. A = <<a>> \o (<<b>> \o <<c>>)
  <2>1. <<b, c>> \in Seq(StepRecord)
    BY <1>4
  <2>2. <<b, c>> = <<b>> \o <<c>>
    <3> DEFINE s == <<b, c>>
    <3>1. s \in Seq(StepRecord) /\ s # << >> /\ Head(s) = b /\ Tail(s) = <<c>>
      BY <2>1
    <3> HIDE DEF s
    <3>2. s = <<Head(s)>> \o Tail(s)
      BY <3>1, HeadAndTail
    <3>3. QED
      BY <3>1, <3>2, Zenon DEF s
  <2>3. <<a, b, c>> = <<a>> \o <<b, c>>
    BY <1>4
  <2>4. QED
    BY <2>2, <2>3, Zenon
<1> HIDE DEF A
<1>11. A \o N \o L \o P \o Ends = A \o (M \o Ends)
  <2>1. N \o L \in Seq(StepRecord)
    BY ONLY <1>5, StepsAssociate
  <2>2. (A \o N) \o L = A \o (N \o L)
    BY ONLY <1>5, <1>9, StepsAssociate
  <2>3. (A \o (N \o L)) \o P = A \o ((N \o L) \o P)
    <3> DEFINE K == N \o L
    <3>1. K \in Seq(StepRecord)
      BY <2>1
    <3> HIDE DEF K
    <3>2. (A \o K) \o P = A \o (K \o P)
      BY ONLY <1>5, <1>9, <3>1, StepsAssociate
    <3>3. QED
      BY <3>2 DEF K
  <2>4. (N \o L) \o P = N \o (L \o P)
    BY <1>5, StepsAssociate
  <2>5. M \in Seq(StepRecord)
    BY <1>8
  <2>6. A \o N \o L \o P = A \o M
    BY <2>2, <2>3, <2>4, Zenon
  <2> HIDE DEF M
  <2>7. (A \o M) \o Ends = A \o (M \o Ends)
    <3>1. A \in Seq(StepRecord) /\ Ends \in Seq(StepRecord)
      BY <1>4, <1>9
    <3>2. QED
      BY ONLY <3>1, <2>5, StepsAssociate, Zenon
  <2>8. QED
    BY <2>6, <2>7, Zenon
<1>12. A \o (M \o Ends) = <<a>> \o (<<b>> \o (<<c>> \o (M \o Ends)))
  <2> DEFINE R == M \o Ends
             B == <<b>> \o <<c>>
             x == <<a>>
             y == <<b>>
             z == <<c>>
  <2>1. R \in Seq(StepRecord)
    BY <1>4, <1>8, ConcatProperties
  <2>2. x \in Seq(StepRecord) /\ y \in Seq(StepRecord) /\ z \in Seq(StepRecord)
        /\ B \in Seq(StepRecord)
    BY <1>9
  <2>21. A = x \o B /\ B = y \o z
    BY <1>10, Zenon
  <2> HIDE DEF R, B, x, y, z
  <2>3. (x \o B) \o R = x \o (B \o R)
    BY ONLY <2>1, <2>2, StepsAssociate
  <2>4. (y \o z) \o R = y \o (z \o R)
    BY ONLY <2>1, <2>2, StepsAssociate
  <2>5. A \o R = x \o (y \o (z \o R))
    BY <2>21, <2>3, <2>4, Zenon
  <2>6. QED
    BY <2>5 DEF R, x, y, z
<1>13. Conversion(e) = AllSteps(f)
  <2>1. Conversion(e) = <<a>> \o (<<b>> \o (<<c>> \o (M \o Ends)))
    BY <1>6, <1>11, <1>12, Zenon DEF A
  <2>2. c = Stay(f.wait)
    BY DEF c
  <2>3. QED
    BY <1>7, <2>1, <2>2, Zenon DEF AllSteps, a, b
<1>14. QED
  BY <1>2, <1>7, <1>8, <1>13

(* What the entry asks for is a flight whose calls are all in reach.       *)
LEMMA TaskIsFit ==
  ASSUME meant \in Plans, asked \in Times, vehicle \in Starts,
         scan.entry = EntryMeant, HasItsPoint, ScaleFor(scan.entry).result = "SUCCESS"
  PROVE  \E f : IsTask(f) /\ Fit(f) /\ Conversion(scan.entry) = AllSteps(f)
<1> DEFINE e == scan.entry
           scale == ScaleFor(e).scale
           moves == NeckMove(e) \o (LineMove(e) \o (PostMove(e) \o << >>))
           end == MsecPerSec * Delay(e)
                    + MsecPerSec * (e.neck_duration + e.duration + Positive(e.post_delay))
           f == [scale |-> scale, start |-> vehicle, wait |-> Delay(e), moves |-> moves,
                 end |-> end, goal |-> GoalOf(e)]
<1>1. EntryFine(e) /\ vehicle \in [Axes -> Int] /\ Target(e).x \in Int /\ Target(e).y \in Int
  BY MeantIsFine, TargetType, RTHAssumption
<1>2. scale \in 1 .. 127 /\ ScaleSuits(scale, e)
  <2> HIDE DEF e
  <2>1. QED
    BY <1>1, ScaleForSuits DEF e
<1> HIDE DEF e, scale, moves, end
<1>3. /\ f.scale = scale /\ f.start = vehicle /\ f.wait = Delay(e) /\ f.moves = moves
      /\ f.end = end /\ f.goal = GoalOf(e)
  OBVIOUS
<1> HIDE DEF f
<1>4. InReach(scale, vehicle) /\ AreMoves(moves, scale)
  BY <1>1, <1>2, TaskReach DEF moves
<1>5. f.wait \in Nat /\ Conversion(e) = AllSteps(f)
  BY <1>1, <1>3, ConversionIs DEF moves
<1>6. GoalOf(e) \in [Axes -> Int]
  BY <1>1, GoalFromIs
<1>7. Course(moves, scale, Begins(f), Arrives(f))
  <2> DEFINE t0 == MsecPerSec * f.wait
             t3 == ((t0 + MsecPerSec * e.neck_duration) + MsecPerSec * e.duration)
                     + MsecPerSec * Positive(e.post_delay)
             p == e.neck_duration
             q == e.duration
             r == Positive(e.post_delay)
  <2>1. p \in Int /\ q \in Int /\ r \in Int /\ MsecPerSec \in Int
    BY <1>1, ScalingAssumption DEF EntryFine, Positive
  <2>2. t0 \in Int
    BY <1>5, <2>1
  <2>3. t3 = end
    <3> DEFINE w == f.wait
    <3>1. w \in Int
      BY <1>5
    <3>2. t3 = ((MsecPerSec * w + MsecPerSec * p) + MsecPerSec * q) + MsecPerSec * r
      OBVIOUS
    <3>3. end = MsecPerSec * w + MsecPerSec * (p + q + r)
      BY <1>3 DEF end
    <3> HIDE DEF w, p, q, r, t3
    <3>4. ((MsecPerSec * w + MsecPerSec * p) + MsecPerSec * q) + MsecPerSec * r
            = MsecPerSec * w + MsecPerSec * (p + q + r)
      BY <2>1, <3>1, TimesSum
    <3>5. QED
      BY <3>2, <3>3, <3>4
  <2>4. Course(moves, scale, At(t0, Kept(scale, vehicle)), At(t3, Kept(scale, GoalOf(e))))
    <3> HIDE DEF t0
    <3>1. QED
      BY <1>1, <2>2, TaskCourse DEF moves
  <2>5. At(t0, Kept(scale, vehicle)) = Begins(f)
    BY <1>3 DEF At, Begins
  <2>6. At(t3, Kept(scale, GoalOf(e))) = Arrives(f)
    <3> HIDE DEF t3
    <3>1. QED
      BY <1>3, <2>3 DEF At, Arrives
  <2> HIDE DEF t0, t3
  <2>7. QED
    BY <2>4, <2>5, <2>6
<1>8. Fit(f)
  BY <1>1, <1>2, <1>3, <1>4, <1>5, <1>6, <1>7 DEF Fit
<1>9. IsTask(f)
  BY <1>3 DEF IsTask, e, scale, end
<1>10. QED
  BY <1>5, <1>8, <1>9 DEF e

---------------------------------------------------------------------------
(* Where a conversion is.                                                  *)

(* All blocks that are allocated have an owner.                            *)
NothingLost == heap \subseteq OwnedBlocks

(* The builder is there, with the scale of the flight.                     *)
Underway(f) ==
  /\ result = "SUCCESS" /\ BuilderLives /\ ~TrajectoryLives /\ NothingLost
  /\ builder.scale = f.scale /\ ScaleOf(builder.buffer.contents) = f.scale

(* Nothing was done yet; the builder was made; it has its start.           *)
AtInit(f) ==
  /\ steps = AllSteps(f) /\ calls = << >> /\ result = "SUCCESS"
  /\ ~BuilderLives /\ ~TrajectoryLives /\ heap = {}

AtStart(f) ==
  /\ steps = <<Do("start")>> \o (<<Stay(f.wait)>> \o (f.moves \o Ends))
  /\ calls = << >> /\ Underway(f) /\ Size(builder.buffer) = HeaderLength

AtHold(f) ==
  /\ steps = <<Stay(f.wait)>> \o (f.moves \o Ends)
  /\ calls = << >> /\ Underway(f) /\ builder.last_position = f.start
  /\ \E way : /\ Len(way) = 1
              /\ Drawn(builder.buffer.contents, f.scale, f.start, << >>,
                       <<At(0, Kept(f.scale, f.start))>>, way)

(* The vehicle has not moved, and is to wait until the entry begins.       *)
StaysAt(start, s) == \A i \in 1 .. Len(s) : s[i].call = "line" => s[i].target = start
Waits(f, last, s, r, way) ==
  /\ last = f.start /\ r[Len(r)] = Begins(f) /\ StaysAt(f.start, s)
  /\ \A w \in 1 .. Len(way) : way[w].time \in Nat /\ way[w].position = Kept(f.scale, f.start)

(* It has waited, at the start.                                            *)
HasWaited(f, way) ==
  /\ Met(way, Begins(f)) /\ Begins(f).time <= way[Len(way)].time
  /\ \A w \in 1 .. Len(way) :
       /\ way[w].time \in Nat
       /\ way[w].time < Begins(f).time => way[w].position = Kept(f.scale, f.start)

(* What was drawn leads along the flight, and so do the moves that are     *)
(* left.                                                                   *)
OnItsWay(f, m, r, way) ==
  /\ Drawn(builder.buffer.contents, f.scale, builder.last_position, calls, r, way)
  /\ Course(m, f.scale, r[Len(r)], Arrives(f))
  /\ Waits(f, builder.last_position, calls, r, way) \/ HasWaited(f, way)

AllInReach(scale, s) == \A i \in 1 .. Len(s) : InReach(scale, s[i].target)

Moving(f) ==
  /\ Underway(f) /\ InReach(f.scale, builder.last_position) /\ AllInReach(f.scale, calls)
  /\ \E m : /\ AreMoves(m, f.scale) /\ steps = m \o Ends
            /\ \E r, way : OnItsWay(f, m, r, way)

(* The bytes fly all of it.                                                *)
Flown(f, bytes) ==
  /\ bytes \in Seq(Byte)
  /\ \E way : IsWay(bytes, way) /\ HasWaited(f, way) /\ EndsAt(way, f.end, Kept(f.scale, f.goal))

AtEnd(f) ==
  /\ steps = <<Do("destroy")>> /\ calls = << >>
  /\ result = "SUCCESS" =>
       /\ BuilderLives /\ TrajectoryLives /\ NothingLost
       /\ builder.scale = f.scale /\ Flown(f, trajectory.contents)

(* The inductive invariant of a conversion, while it goes on and after it. *)
Converting(f) ==
  /\ result # "EINVAL" /\ BuilderInv
  /\ steps = << >> => calls = << >>
  /\ steps # << >> => AtInit(f) \/ AtStart(f) \/ AtHold(f) \/ Moving(f) \/ AtEnd(f)

Converted(f) ==
  result = "SUCCESS" =>
    /\ builder.scale = f.scale /\ heap = {trajectory.stor_begin} /\ Flown(f, trajectory.contents)

---------------------------------------------------------------------------
(* The steps before the moves.                                             *)

(* The next of the steps before the moves.                                 *)
LEMMA FirstSteps ==
  ASSUME NEW f, Fit(f)
  PROVE  /\ AtInit(f) => /\ steps # << >> /\ Head(steps) = Do("init")
                         /\ Tail(steps) = <<Do("start")>> \o (<<Stay(f.wait)>> \o (f.moves \o Ends))
         /\ AtStart(f) => /\ steps # << >> /\ Head(steps) = Do("start")
                          /\ Tail(steps) = <<Stay(f.wait)>> \o (f.moves \o Ends)
         /\ AtHold(f) => /\ steps # << >> /\ Head(steps) = Stay(f.wait)
                         /\ Tail(steps) = f.moves \o Ends
<1> DEFINE u1 == f.moves \o Ends
           c == Stay(f.wait)
           u2 == <<c>> \o u1
           b == Do("start")
           u3 == <<b>> \o u2
           a == Do("init")
<1>1. f.moves \in Seq(StepRecord) /\ f.wait \in Nat
  BY DEF Fit, AreMoves
<1>2. u1 \in Seq(StepRecord)
  BY <1>1, NextStep
<1>3. a \in StepRecord /\ b \in StepRecord
  BY StepTypes
<1>4. c \in StepRecord
  <2>1. Origin \in [Axes -> Int]
    BY DEF Origin
  <2>2. QED
    BY <1>1, <2>1, StepTypes
<1>5. /\ AtInit(f) => steps = <<a>> \o u3
      /\ AtStart(f) => steps = u3
      /\ AtHold(f) => steps = u2
  BY Zenon DEF AtInit, AtStart, AtHold, AllSteps
<1> HIDE DEF u1, a, b, c
<1>6. /\ u2 \in Seq(StepRecord) /\ u2 # << >> /\ Head(u2) = c /\ Tail(u2) = u1
  BY <1>2, <1>4, ConsParts
<1> HIDE DEF u2
<1>7. /\ u3 \in Seq(StepRecord) /\ u3 # << >> /\ Head(u3) = b /\ Tail(u3) = u2
  BY <1>3, <1>6, ConsParts
<1> HIDE DEF u3
<1> DEFINE u4 == <<a>> \o u3
<1>8. /\ u4 \in Seq(StepRecord) /\ u4 # << >> /\ Head(u4) = a /\ Tail(u4) = u3
  BY <1>3, <1>7, ConsParts
<1> HIDE DEF u4
<1>9. (AtInit(f) => steps = u4) /\ (AtStart(f) => steps = u3) /\ (AtHold(f) => steps = u2)
  BY <1>5 DEF u4
<1>10. AtInit(f) => steps # << >> /\ Head(steps) = a /\ Tail(steps) = u3
  BY <1>8, <1>9
<1>11. AtStart(f) => steps # << >> /\ Head(steps) = b /\ Tail(steps) = u2
  BY <1>7, <1>9
<1>12. AtHold(f) => steps # << >> /\ Head(steps) = c /\ Tail(steps) = u1
  BY <1>6, <1>9
<1>13. /\ a = Do("init") /\ b = Do("start") /\ c = Stay(f.wait) /\ u1 = f.moves \o Ends
       /\ u2 = <<Stay(f.wait)>> \o (f.moves \o Ends)
       /\ u3 = <<Do("start")>> \o (<<Stay(f.wait)>> \o (f.moves \o Ends))
  BY Zenon DEF u3, u2, u1, a, b, c
<1>14. QED
  BY <1>10, <1>11, <1>12, <1>13, Zenon

(* A conversion that has to stop.                                          *)
LEMMA Stops ==
  ASSUME NEW f, BuilderInv', result' # "EINVAL", steps' = << >>, calls' = << >>
  PROVE  Converting(f)'
  BY DEF Converting

(* The builder is made.                                                    *)
LEMMA InitConverts ==
  ASSUME NEW f, Fit(f), BuilderInv, AtInit(f), InitBuilder(f.scale, FALSE),
         steps' = (IF result' = "SUCCESS" THEN Tail(steps) ELSE << >>),
         UNCHANGED <<trajectory, calls>>
  PROVE  Converting(f)'
<1>1. /\ calls = << >> /\ ~BuilderLives /\ ~TrajectoryLives /\ heap = {}
      /\ trajectory' = trajectory /\ calls' = calls /\ f.scale \in 1 .. 127
  BY DEF AtInit, Fit
<1>2. MemoryStep
  BY <1>1, InitSteps
<1>3. \/ result' = "ENOMEM" /\ builder'.buffer.stor_begin = NoBlock
      \/ /\ result' = "SUCCESS" /\ builder'.buffer.stor_begin # NoBlock
         /\ builder'.last_position = Origin /\ builder'.scale = f.scale
         /\ \E v \in Byte : builder'.buffer.contents = EmptyBytes(v) /\ v % 128 = f.scale
  BY <1>1, InitGives
<1>4. CASE result' = "ENOMEM"
  <2>1. steps' = << >> /\ result' # "EINVAL"
    BY <1>4
  <2>2. QED
    BY <1>1, <1>2, <2>1, Stops DEF MemoryStep
<1>5. CASE result' # "ENOMEM"
  <2>1. /\ result' = "SUCCESS" /\ builder'.buffer.stor_begin # NoBlock /\ builder'.scale = f.scale
        /\ \E v \in Byte : builder'.buffer.contents = EmptyBytes(v) /\ v % 128 = f.scale
    BY <1>3, <1>5
  <2>2. PICK v \in Byte : builder'.buffer.contents = EmptyBytes(v) /\ v % 128 = f.scale
    BY <2>1
  <2>3. /\ Len(builder'.buffer.contents) = HeaderLength
        /\ ScaleOf(builder'.buffer.contents) = f.scale
    BY <2>2, EmptyBytesDecode
  <2>4. NothingLost'
    BY <1>1, <1>2, <1>5 DEF MemoryStep, NothingLost
  <2>5. Underway(f)'
    BY <1>1, <2>1, <2>3, <2>4 DEF Underway, BuilderLives, TrajectoryLives
  <2>6. AtStart(f)'
    <3>1. steps' = Tail(steps)
      BY <2>1
    <3>2. Tail(steps) = <<Do("start")>> \o (<<Stay(f.wait)>> \o (f.moves \o Ends))
      BY FirstSteps
    <3>3. QED
      BY <1>1, <2>3, <2>5, <3>1, <3>2 DEF AtStart, Size
  <2>7. result' # "EINVAL" /\ calls' = << >> /\ BuilderInv'
    BY <1>1, <1>2, <2>1 DEF MemoryStep
  <2>8. QED
    BY <2>6, <2>7 DEF Converting
<1>6. QED
  BY <1>4, <1>5

(* It is given its start.                                                  *)
LEMMA StartConverts ==
  ASSUME NEW f, Fit(f), BuilderInv, AtStart(f), SetStartPosition(f.start),
         steps' = (IF result' = "SUCCESS" THEN Tail(steps) ELSE << >>),
         UNCHANGED <<trajectory, calls>>
  PROVE  Converting(f)'
<1>1. /\ calls = << >> /\ Underway(f) /\ Size(builder.buffer) = HeaderLength
      /\ trajectory' = trajectory /\ calls' = calls
      /\ f.scale \in 1 .. 127 /\ f.start \in [Axes -> Int] /\ InReach(f.scale, f.start)
  BY DEF AtStart, Fit
<1>2. /\ BuilderLives /\ ~TrajectoryLives /\ NothingLost /\ builder.scale = f.scale
      /\ ScaleOf(builder.buffer.contents) = builder.scale
  BY <1>1 DEF Underway
<1>3. MemoryStep
  BY <1>1, <1>2, StartSteps
<1>4. \A a \in Axes : Int16(Encoded(f.scale, f.start, a))
  BY <1>1, ReachFits
<1>5. /\ result' = "SUCCESS"
      /\ builder'.last_position = f.start /\ builder'.scale = f.scale
      /\ ScaleOf(builder'.buffer.contents) = f.scale
      /\ \E way : /\ Len(way) = 1
                  /\ Drawn(builder'.buffer.contents, f.scale, f.start, << >>,
                           <<[time |-> 0, position |-> Kept(f.scale, f.start)]>>, way)
  BY <1>1, <1>2, <1>4, StartGives
<1>6. BuilderLives' /\ heap' = heap
  <2>1. builder \in BuilderRecord /\ builder.buffer \in BufferRecord
    BY DEF BuilderInv, UseTypeOK, BuilderRecord
  <2> DEFINE fitting == Fitting(builder.scale, f.start, Axes)
             written == Overwritten(builder.buffer.contents, 1,
                                    Written(builder.scale, f.start, fitting))
  <2>2. /\ heap' = heap
        /\ builder' = [builder EXCEPT
                         !.buffer.contents = written,
                         !.last_position = IF fitting = Axes THEN f.start ELSE @]
    BY <1>1, Zenon DEF SetStartPosition
  <2> HIDE DEF written, fitting
  <2>3. builder'.buffer.stor_begin = builder.buffer.stor_begin
    BY <2>1, <2>2 DEF BuilderRecord, BufferRecord
  <2>4. QED
    BY <1>2, <2>2, <2>3 DEF BuilderLives
<1>7. NothingLost' /\ BuilderInv'
  <2>1. heap' \ OwnedBlocks' = heap \ OwnedBlocks
    BY <1>3, <1>5 DEF MemoryStep
  <2>2. QED
    BY <1>2, <1>3, <2>1 DEF MemoryStep, NothingLost
<1>8. Underway(f)'
  BY <1>1, <1>2, <1>5, <1>6, <1>7 DEF Underway, TrajectoryLives
<1>9. steps' = <<Stay(f.wait)>> \o (f.moves \o Ends)
  BY <1>5, FirstSteps
<1>10. AtHold(f)'
  BY <1>1, <1>5, <1>8, <1>9 DEF AtHold, At
<1>11. result' # "EINVAL" /\ calls' = << >>
  BY <1>1, <1>5
<1>12. QED
  BY <1>7, <1>10, <1>11 DEF Converting

---------------------------------------------------------------------------
(* The moves.                                                              *)

(* Seconds are converted to milliseconds unless there are too many.        *)
LEMMA MsecIs ==
  ASSUME NEW n \in Nat, NEW o, o = MsecFromSeconds(n)
  PROVE  /\ o.result # "EINVAL"
         /\ o.result = "SUCCESS" => o.msec = MsecPerSec * n /\ o.msec \in Nat
<1>1. MsecPerSec \in Nat
  BY ScalingAssumption
<1>2. n * MsecPerSec = MsecPerSec * n /\ MsecPerSec * n \in Nat /\ ~(n < 0)
  BY <1>1
<1>3. CASE n * MsecPerSec > MaxMsec
  BY <1>2, <1>3 DEF MsecFromSeconds
<1>4. CASE ~(n * MsecPerSec > MaxMsec)
  BY <1>2, <1>4 DEF MsecFromSeconds
<1>5. QED
  BY <1>3, <1>4

(* Calls that are made in reach.                                           *)
LEMMA ReachOfOne ==
  ASSUME NEW scale, NEW c, InReach(scale, c.target)
  PROVE  AllInReach(scale, <<c>>)
  BY DEF AllInReach

(* Those that are left, when the first has returned,                       *)
LEMMA ReachOfTail ==
  ASSUME NEW scale, NEW s \in Seq(CallRecord), s # << >>, AllInReach(scale, s)
  PROVE  InReach(scale, Head(s).target) /\ AllInReach(scale, Tail(s))
<1>1. /\ Len(s) \in Nat /\ Len(s) >= 1 /\ Len(Tail(s)) = Len(s) - 1
      /\ Head(s) = s[1] /\ \A i \in 1 .. Len(s) - 1 : Tail(s)[i] = s[i + 1]
  BY TailElements
<1>2. \A i \in 1 .. Len(s) : InReach(scale, s[i].target)
  BY DEF AllInReach
<1>3. InReach(scale, Head(s).target)
  BY <1>1, <1>2
<1>4. ASSUME NEW i \in 1 .. Len(s) - 1 PROVE InReach(scale, Tail(s)[i].target)
  <2>1. i + 1 \in 1 .. Len(s)
    BY <1>1
  <2>2. InReach(scale, s[i + 1].target)
    BY <1>2, <2>1
  <2>3. QED
    BY <1>1, <2>2
<1>5. QED
  BY <1>1, <1>3, <1>4 DEF AllInReach

(* and those with two in place of the first.                               *)
LEMMA ReachOfPair ==
  ASSUME NEW scale, NEW s \in Seq(CallRecord), s # << >>, AllInReach(scale, s),
         NEW c \in CallRecord, NEW d \in CallRecord,
         InReach(scale, c.target), InReach(scale, d.target)
  PROVE  AllInReach(scale, <<c, d>> \o Tail(s))
<1> DEFINE u == <<c, d>> \o Tail(s)
<1>1. /\ Len(u) = Len(s) + 1 /\ u[1] = c /\ u[2] = d
      /\ \A i \in 3 .. Len(s) + 1 : u[i] = s[i - 1]
  BY PairElements
<1>2. Len(s) \in Nat
  BY LenProperties
<1> HIDE DEF u
<1>3. ASSUME NEW i \in 1 .. Len(u) PROVE InReach(scale, u[i].target)
  <2>1. CASE i = 1
    BY <1>1, <2>1
  <2>2. CASE i = 2
    BY <1>1, <2>2
  <2>3. CASE i # 1 /\ i # 2
    <3>1. i \in 3 .. Len(s) + 1 /\ i - 1 \in 1 .. Len(s)
      BY <1>1, <1>2, <2>3
    <3>2. InReach(scale, s[i - 1].target)
      BY <3>1 DEF AllInReach
    <3>3. QED
      BY <1>1, <3>1, <3>2
  <2>4. QED
    BY <2>1, <2>2, <2>3
<1>4. QED
  BY <1>3 DEF AllInReach, u

(* Calls that stay where the vehicle starts.                               *)
LEMMA StaysOfTail ==
  ASSUME NEW start, NEW s \in Seq(CallRecord), s # << >>, StaysAt(start, s)
  PROVE  /\ Head(s).call = "line" => Head(s).target = start
         /\ StaysAt(start, Tail(s))
<1>1. /\ Len(s) \in Nat /\ Len(s) >= 1 /\ Len(Tail(s)) = Len(s) - 1
      /\ Head(s) = s[1] /\ \A i \in 1 .. Len(s) - 1 : Tail(s)[i] = s[i + 1]
  BY TailElements
<1>2. \A i \in 1 .. Len(s) : s[i].call = "line" => s[i].target = start
  BY DEF StaysAt
<1>3. Head(s).call = "line" => Head(s).target = start
  BY <1>1, <1>2
<1>4. ASSUME NEW i \in 1 .. Len(s) - 1, Tail(s)[i].call = "line"
      PROVE  Tail(s)[i].target = start
  <2>1. i + 1 \in 1 .. Len(s)
    BY <1>1
  <2>2. Tail(s)[i] = s[i + 1]
    BY <1>1
  <2>3. QED
    BY <1>2, <1>4, <2>1, <2>2
<1>5. QED
  BY <1>1, <1>3, <1>4 DEF StaysAt

(* Two of them in place of the first stay there too.                       *)
LEMMA StaysOfPair ==
  ASSUME NEW start, NEW s \in Seq(CallRecord), s # << >>, StaysAt(start, s),
         NEW c \in CallRecord, NEW d \in CallRecord,
         c.call = "line" => c.target = start, d.call = "line" => d.target = start
  PROVE  StaysAt(start, <<c, d>> \o Tail(s))
<1> DEFINE u == <<c, d>> \o Tail(s)
<1>1. /\ Len(u) = Len(s) + 1 /\ u[1] = c /\ u[2] = d
      /\ \A i \in 3 .. Len(s) + 1 : u[i] = s[i - 1]
  BY PairElements
<1>2. Len(s) \in Nat
  BY LenProperties
<1> HIDE DEF u
<1>3. ASSUME NEW i \in 1 .. Len(u), u[i].call = "line" PROVE u[i].target = start
  <2>1. CASE i = 1
    BY <1>1, <1>3, <2>1
  <2>2. CASE i = 2
    BY <1>1, <1>3, <2>2
  <2>3. CASE i # 1 /\ i # 2
    <3>1. i \in 3 .. Len(s) + 1 /\ i - 1 \in 1 .. Len(s)
      BY <1>1, <1>2, <2>3
    <3>2. u[i] = s[i - 1]
      BY <1>1, <3>1
    <3>3. s[i - 1].call = "line" => s[i - 1].target = start
      BY <3>1 DEF StaysAt
    <3>4. QED
      BY <1>3, <3>2, <3>3
  <2>4. QED
    BY <2>1, <2>2, <2>3
<1>4. QED
  BY <1>3 DEF StaysAt, u

(* When no calls are left, the wait is over.                               *)
LEMMA WaitIsOver ==
  ASSUME NEW f, NEW bytes, NEW scale, NEW last, NEW r, NEW way,
         Drawn(bytes, scale, last, << >>, r, way),
         Waits(f, last, << >>, r, way) \/ HasWaited(f, way)
  PROVE  HasWaited(f, way)
<1>1. CASE Waits(f, last, << >>, r, way)
  <2>1. /\ r[Len(r)] = Begins(f)
        /\ \A w \in 1 .. Len(way) :
             way[w].time \in Nat /\ way[w].position = Kept(f.scale, f.start)
    BY <1>1 DEF Waits
  <2>2. /\ \A p \in 1 .. Len(r) : Met(way, r[p])
        /\ EndsAt(way, r[Len(r)].time, r[Len(r)].position)
    BY AllMet
  <2>3. Len(r) \in Nat /\ Len(r) >= 1
    BY LastElement DEF Drawn
  <2>4. Met(way, Begins(f))
    BY <2>1, <2>2, <2>3
  <2>5. Begins(f).time = way[Len(way)].time
    BY <2>1, <2>2 DEF EndsAt
  <2>6. Len(way) \in 1 .. Len(way)
    BY DEF Drawn, IsWay
  <2>7. Begins(f).time <= way[Len(way)].time
    BY <2>1, <2>5, <2>6
  <2>8. QED
    BY <2>1, <2>4, <2>7 DEF HasWaited
<1>2. QED
  BY <1>1

(* A call that is made while nothing is to be drawn.                       *)
LEMMA CallIsMade ==
  ASSUME NEW f, Fit(f), BuilderInv, Underway(f), InReach(f.scale, builder.last_position),
         NEW c \in CallRecord, InReach(f.scale, c.target),
         calls' = <<c>>, result' = "SUCCESS", UNCHANGED <<heap, builder, trajectory>>
  PROVE  /\ BuilderInv' /\ Underway(f)'
         /\ InReach(f.scale, builder.last_position)' /\ AllInReach(f.scale, calls)'
<1>1. /\ calls' = <<c>> /\ result' = "SUCCESS"
      /\ heap' = heap /\ builder' = builder /\ trajectory' = trajectory
  OBVIOUS
<1>2. calls' \in Seq(CallRecord)
  BY <1>1
<1>3. BuilderInv'
  BY <1>1, <1>2, MemoryUnchanged DEF Underway
<1>4. Underway(f)'
  BY <1>1 DEF Underway, BuilderLives, TrajectoryLives, NothingLost, OwnedBlocks
<1>5. AllInReach(f.scale, calls')
  BY <1>1, ReachOfOne
<1>6. QED
  BY <1>1, <1>3, <1>4, <1>5

---------------------------------------------------------------------------
(* What a step of the conversion calls.                                    *)
Call(step) ==
  LET msec == MsecFromSeconds(step.sec).msec
  IN  IF step.do = "line" THEN Line(step.arg, msec) ELSE Hold(msec)

(* It takes as long as the step, and leads to where it does.               *)
LEMMA CallIs ==
  ASSUME NEW scale \in 1 .. 127, NEW step \in StepRecord,
         step.do = "line" => InReach(scale, step.arg),
         MsecFromSeconds(step.sec).result = "SUCCESS"
  PROVE  /\ Call(step) \in CallRecord /\ InReach(scale, Call(step).target)
         /\ Call(step).duration = MsecPerSec * step.sec
         /\ step.do = "line" => Call(step).call = "line" /\ Call(step).target = step.arg
         /\ step.do # "line" => Call(step).call = "hold"
<1> DEFINE msec == MsecFromSeconds(step.sec).msec
<1>1. step.arg \in [Axes -> Int] /\ step.sec \in Nat
  BY DEF StepRecord
<1>2. msec = MsecPerSec * step.sec /\ msec \in Nat
  BY <1>1, MsecIs
<1> HIDE DEF msec
<1>3. Call(step) = IF step.do = "line" THEN Line(step.arg, msec) ELSE Hold(msec)
  BY DEF Call, msec
<1>4. Line(step.arg, msec) \in CallRecord /\ Hold(msec) \in CallRecord
  BY <1>1, <1>2, LineType
<1>5. InReach(scale, Origin)
  BY OriginReach
<1>6. CASE step.do = "line"
  <2>1. Call(step) = Line(step.arg, msec)
    BY <1>3, <1>6
  <2>2. /\ Line(step.arg, msec).call = "line" /\ Line(step.arg, msec).target = step.arg
        /\ Line(step.arg, msec).duration = msec
    BY DEF Line
  <2>3. QED
    BY <1>2, <1>4, <1>6, <2>1, <2>2
<1>7. CASE step.do # "line"
  <2>1. Call(step) = Hold(msec)
    BY <1>3, <1>7
  <2>2. /\ Hold(msec).call = "hold" /\ Hold(msec).target = Origin
        /\ Hold(msec).duration = msec
    BY DEF Hold
  <2>3. QED
    BY <1>2, <1>4, <1>5, <1>7, <2>1, <2>2
<1>8. QED
  BY <1>6, <1>7

(* Where the vehicle is to be after the call is where the move leads.      *)
CallLeads(bytes, scale, last, step, from, way) ==
  \E q : /\ Drawn(bytes, scale, last, <<Call(step)>>, q, way)
        /\ q[Len(q)] = Moved(scale, from, step)

(* The call that is made leads where the move does.                        *)
LEMMA CallMoves ==
  ASSUME NEW bytes, NEW scale \in 1 .. 127, NEW last, NEW r, NEW way,
         Drawn(bytes, scale, last, << >>, r, way),
         NEW step \in StepRecord, step.do = "line" => InReach(scale, step.arg),
         MsecFromSeconds(step.sec).result = "SUCCESS"
  PROVE  CallLeads(bytes, scale, last, step, r[Len(r)], way)
<1> DEFINE c == Call(step)
           position == IF c.call = "line" THEN Kept(scale, c.target) ELSE r[Len(r)].position
           p == [time |-> r[Len(r)].time + c.duration, position |-> position]
           q == Append(r, p)
<1>1. /\ c \in CallRecord /\ c.duration = MsecPerSec * step.sec
      /\ step.do = "line" => c.call = "line" /\ c.target = step.arg
      /\ step.do # "line" => c.call = "hold"
  BY CallIs
<1> HIDE DEF c
<1>2. Drawn(bytes, scale, last, <<c>>, q, way)
  BY <1>1, DrawnAsk
<1>3. p = Moved(scale, r[Len(r)], step)
  <2>1. p.time = r[Len(r)].time + MsecPerSec * step.sec
    BY <1>1
  <2>2. position = IF step.do = "line" THEN Kept(scale, step.arg) ELSE r[Len(r)].position
    <3>1. CASE step.do = "line"
      BY <1>1, <3>1
    <3>2. CASE step.do # "line"
      <4>1. c.call # "line"
        BY <1>1, <3>2
      <4>2. QED
        BY <3>2, <4>1
    <3>3. QED
      BY <3>1, <3>2
  <2> HIDE DEF position
  <2>3. QED
    BY <1>1, <2>2 DEF Moved
<1>4. r \in Seq(RoutePoint)
  BY DEF Drawn
<1> HIDE DEF p
<1>5. q[Len(q)] = p
  <2>1. q \in Seq(RoutePoint) /\ q # << >>
    BY <1>2 DEF Drawn
  <2>2. Len(q) = Len(r) + 1 /\ Len(r) \in Nat
    BY <1>4, LenProperties, AppendProperties
  <2>3. QED
    BY <1>4, <2>2
<1>6. QED
  BY <1>2, <1>3, <1>5 DEF c, CallLeads

(* The vehicle is to wait until the entry begins.                          *)
LEMMA HoldConverts ==
  ASSUME NEW f, Fit(f), BuilderInv, AtHold(f),
         NEW o, o = MsecFromSeconds(Head(steps).sec), result' = o.result,
         calls' = (IF o.result = "SUCCESS" THEN <<Call(Head(steps))>> ELSE << >>),
         steps' = (IF result' = "SUCCESS" THEN Tail(steps) ELSE << >>),
         UNCHANGED <<heap, builder, trajectory>>
  PROVE  Converting(f)'
<1> DEFINE c == Stay(f.wait)
<1>1. /\ f.scale \in 1 .. 127 /\ f.start \in [Axes -> Int] /\ f.wait \in Nat
      /\ InReach(f.scale, f.start) /\ AreMoves(f.moves, f.scale)
      /\ Course(f.moves, f.scale, Begins(f), Arrives(f))
  BY DEF Fit
<1>2. /\ Underway(f) /\ builder.last_position = f.start /\ calls = << >>
      /\ heap' = heap /\ builder' = builder /\ trajectory' = trajectory
  BY DEF AtHold
<1>3. Head(steps) = c /\ Tail(steps) = f.moves \o Ends
  BY FirstSteps
<1>4. c \in StepRecord /\ c.do = "hold" /\ c.sec = f.wait
  <2>1. Origin \in [Axes -> Int]
    BY <1>1, OriginReach
  <2>2. c \in StepRecord
    BY <1>1, <2>1, StepTypes
  <2>3. QED
    BY <2>2 DEF Stay
<1> HIDE DEF c
<1>5. o.result # "EINVAL"
  BY <1>1, <1>3, <1>4, MsecIs
<1>6. CASE o.result # "SUCCESS"
  <2>1. calls' = << >> /\ steps' = << >> /\ result' # "EINVAL"
    BY <1>5, <1>6
  <2>2. calls' \in Seq(CallRecord)
    BY <2>1, EmptySeq
  <2>3. BuilderInv'
    BY <1>2, <2>1, <2>2, MemoryUnchanged
  <2>4. QED
    BY <2>1, <2>3, Stops
<1>7. CASE o.result = "SUCCESS"
  <2>1. calls' = <<Call(c)>> /\ result' = "SUCCESS" /\ steps' = f.moves \o Ends
    BY <1>3, <1>7
  <2>2. /\ Call(c) \in CallRecord /\ InReach(f.scale, Call(c).target) /\ Call(c).call = "hold"
    BY <1>1, <1>3, <1>4, <1>7, CallIs
  <2>3. /\ BuilderInv' /\ Underway(f)'
        /\ InReach(f.scale, builder.last_position)' /\ AllInReach(f.scale, calls)'
    BY <1>1, <1>2, <2>1, <2>2, CallIsMade
  <2>4. PICK way : /\ Len(way) = 1
                   /\ Drawn(builder.buffer.contents, f.scale, f.start, << >>,
                            <<At(0, Kept(f.scale, f.start))>>, way)
    BY DEF AtHold
  <2> DEFINE r == <<At(0, Kept(f.scale, f.start))>>
  <2>5. Len(r) = 1 /\ r[1] = At(0, Kept(f.scale, f.start))
    OBVIOUS
  <2> HIDE DEF r
  <2>6. PICK q : /\ Drawn(builder.buffer.contents, f.scale, f.start, <<Call(c)>>, q, way)
                 /\ q[Len(q)] = Moved(f.scale, r[Len(r)], c)
    <3>1. Drawn(builder.buffer.contents, f.scale, f.start, << >>, r, way)
      BY <2>4 DEF r
    <3>2. c.do # "line" /\ MsecFromSeconds(c.sec).result = "SUCCESS"
      BY <1>3, <1>4, <1>7
    <3>3. CallLeads(builder.buffer.contents, f.scale, f.start, c, r[Len(r)], way)
      BY <1>1, <1>4, <3>1, <3>2, CallMoves
    <3>4. QED
      BY <3>3 DEF CallLeads
  <2>7. q[Len(q)] = Begins(f)
    <3>1. q[Len(q)] = At(0 + MsecPerSec * f.wait, Kept(f.scale, f.start))
      BY <2>5, <2>6, MovedTo DEF c
    <3>2. MsecPerSec \in Nat
      BY ScalingAssumption
    <3>3. 0 + MsecPerSec * f.wait = MsecPerSec * f.wait
      BY <1>1, <3>2
    <3>4. QED
      BY <3>1, <3>3 DEF At, Begins
  <2>8. way[1].time \in Nat /\ way[1].position = Kept(f.scale, f.start)
    BY <2>4 DEF Drawn, EndsAt
  <2>9. Waits(f, f.start, <<Call(c)>>, q, way)
    <3>1. StaysAt(f.start, <<Call(c)>>)
      <4>1. Call(c).call # "line"
        BY <2>2
      <4>2. QED
        BY <4>1 DEF StaysAt
    <3>2. \A w \in 1 .. Len(way) :
            way[w].time \in Nat /\ way[w].position = Kept(f.scale, f.start)
      BY <2>4, <2>8
    <3>3. QED
      BY <2>7, <3>1, <3>2 DEF Waits
  <2>10. Course(f.moves, f.scale, q[Len(q)], Arrives(f))
    BY <1>1, <2>7
  <2>11. OnItsWay(f, f.moves, q, way)'
    BY <1>2, <2>1, <2>6, <2>9, <2>10 DEF OnItsWay
  <2>12. Moving(f)'
    BY <1>1, <2>1, <2>3, <2>11 DEF Moving
  <2>13. steps' # << >>
    BY <1>1, <2>1, NextStep DEF AreMoves
  <2>14. QED
    BY <2>1, <2>3, <2>12, <2>13 DEF Converting
<1>8. QED
  BY <1>6, <1>7

---------------------------------------------------------------------------
(* It is to move, or to wait where it is.                                  *)
LEMMA MoveConverts ==
  ASSUME NEW f, Fit(f), BuilderInv, Moving(f), calls = << >>,
         Head(steps).do \in {"hold", "line"},
         NEW o, o = MsecFromSeconds(Head(steps).sec), result' = o.result,
         calls' = (IF o.result = "SUCCESS" THEN <<Call(Head(steps))>> ELSE << >>),
         steps' = (IF result' = "SUCCESS" THEN Tail(steps) ELSE << >>),
         UNCHANGED <<heap, builder, trajectory>>
  PROVE  Converting(f)'
<1>1. /\ f.scale \in 1 .. 127 /\ calls = << >>
      /\ heap' = heap /\ builder' = builder /\ trajectory' = trajectory
      /\ Underway(f) /\ InReach(f.scale, builder.last_position)
  BY DEF Fit, Moving
<1>2. PICK m : /\ AreMoves(m, f.scale) /\ steps = m \o Ends
               /\ \E r, way : OnItsWay(f, m, r, way)
  BY DEF Moving
<1>3. m \in Seq(StepRecord)
  BY <1>2 DEF AreMoves
<1>4. m # << >>
  <2>1. ASSUME m = << >> PROVE FALSE
    <3>1. Head(steps) = Do("finish")
      BY <1>2, <1>3, <2>1, NextStep
    <3>2. QED
      BY <3>1 DEF Do
  <2>2. QED
    BY <2>1
<1> DEFINE c == Head(m)
           t == Tail(m)
<1>5. Head(steps) = c /\ Tail(steps) = t \o Ends
  BY <1>2, <1>3, <1>4, NextStep
<1>6. IsMove(c, f.scale) /\ AreMoves(t, f.scale)
  BY <1>2, <1>4, MovesPop
<1>7. c \in StepRecord /\ InReach(f.scale, c.arg) /\ c.sec \in Nat
  BY <1>6 DEF IsMove, StepRecord
<1>8. PICK r, way : OnItsWay(f, m, r, way)
  BY <1>2
<1>9. Course(t, f.scale, Moved(f.scale, r[Len(r)], c), Arrives(f))
  BY <1>3, <1>4, <1>8, CoursePop DEF OnItsWay
<1> HIDE DEF c, t
<1>10. o.result # "EINVAL"
  BY <1>5, <1>7, MsecIs
<1>11. CASE o.result # "SUCCESS"
  <2>1. calls' = << >> /\ steps' = << >> /\ result' # "EINVAL"
    BY <1>10, <1>11
  <2>2. calls' \in Seq(CallRecord)
    BY <2>1, EmptySeq
  <2>3. BuilderInv'
    BY <1>1, <2>1, <2>2, MemoryUnchanged
  <2>4. QED
    BY <2>1, <2>3, Stops
<1>12. CASE o.result = "SUCCESS"
  <2>1. calls' = <<Call(c)>> /\ result' = "SUCCESS" /\ steps' = t \o Ends
    BY <1>5, <1>12
  <2>2. MsecFromSeconds(c.sec).result = "SUCCESS"
    BY <1>5, <1>12
  <2>3. Call(c) \in CallRecord /\ InReach(f.scale, Call(c).target)
    BY <1>1, <1>7, <2>2, CallIs
  <2>4. /\ BuilderInv' /\ Underway(f)'
        /\ InReach(f.scale, builder.last_position)' /\ AllInReach(f.scale, calls)'
    BY <1>1, <2>1, <2>3, CallIsMade
  <2> DEFINE bytes == builder.buffer.contents
             last == builder.last_position
  <2>5. /\ Drawn(bytes, f.scale, last, << >>, r, way)
        /\ Waits(f, last, << >>, r, way) \/ HasWaited(f, way)
    BY <1>1, <1>8 DEF OnItsWay
  <2>6. HasWaited(f, way)
    BY <2>5, WaitIsOver
  <2>7. CallLeads(bytes, f.scale, last, c, r[Len(r)], way)
    BY <1>1, <1>7, <2>2, <2>5, CallMoves
  <2>8. PICK q : /\ Drawn(bytes, f.scale, last, <<Call(c)>>, q, way)
                 /\ q[Len(q)] = Moved(f.scale, r[Len(r)], c)
    BY <2>7 DEF CallLeads
  <2>9. Course(t, f.scale, q[Len(q)], Arrives(f))
    BY <1>9, <2>8
  <2>10. OnItsWay(f, t, q, way)'
    BY <1>1, <2>1, <2>6, <2>8, <2>9 DEF OnItsWay
  <2>11. Moving(f)'
    BY <1>6, <2>1, <2>4, <2>10 DEF Moving
  <2>12. steps' # << >>
    BY <1>6, <2>1, NextStep DEF AreMoves
  <2>13. QED
    BY <2>1, <2>4, <2>11, <2>12 DEF Converting
<1>13. QED
  BY <1>11, <1>12

(* A line that is drawn leaves a builder that lives.                       *)
LEMMA LineLives ==
  ASSUME BuilderInv, AppendLine, result' = "SUCCESS"
  PROVE  BuilderLives'
<1> DEFINE b == builder.buffer
           line == Head(calls)
<1>1. calls # << >>
  BY DEF AppendLine
<1>2. /\ builder \in BuilderRecord /\ b \in BufferRecord /\ builder.scale \in 1 .. 127
      /\ heap \subseteq Blocks /\ calls \in Seq(CallRecord) /\ BuilderLives
      /\ builder.last_position \in [Axes -> Int] /\ OwnsItsBytes(b)
  BY <1>1 DEF BuilderInv, UseTypeOK, BuilderRecord, BufferRecord
<1>3. Fits(heap, b) /\ b.owned
  BY <1>2, OwnerFits
<1>4. line.target \in [Axes -> Int] /\ line.duration \in Nat
  BY <1>1, <1>2, CallsType
<1>5. PICK o \in AppendedSegment(line.target, line.duration) :
        /\ heap' = o.heap /\ result' = o.result
        /\ builder' = [builder EXCEPT !.buffer = o.buffer,
             !.last_position = IF o.result = "SUCCESS" THEN line.target ELSE @]
  BY DEF AppendLine
<1>6. o.buffer.stor_begin # NoBlock
  BY <1>2, <1>3, <1>4, <1>5, SegmentKeeps
<1>7. builder'.buffer = o.buffer
  BY <1>2, <1>5 DEF BuilderRecord
<1>8. QED
  BY <1>6, <1>7 DEF BuilderLives

(* A call that is still to be made, and where it leads.                    *)
LEMMA NextCall ==
  ASSUME NEW f, BuilderInv, Moving(f), calls # << >>
  PROVE  /\ calls \in Seq(CallRecord) /\ Tail(calls) \in Seq(CallRecord)
         /\ Head(calls) \in CallRecord /\ Head(calls).target \in [Axes -> Int]
         /\ InReach(f.scale, Head(calls).target) /\ AllInReach(f.scale, Tail(calls))
<1>1. calls \in Seq(CallRecord)
  BY DEF BuilderInv, UseTypeOK
<1>2. AllInReach(f.scale, calls)
  BY DEF Moving
<1>3. InReach(f.scale, Head(calls).target) /\ AllInReach(f.scale, Tail(calls))
  BY <1>1, <1>2, ReachOfTail
<1>4. QED
  BY <1>1, <1>3, CallsType

---------------------------------------------------------------------------
(* A way that has one more point, at the start.                            *)
LEMMA WaitsOn ==
  ASSUME NEW f, NEW last, NEW s \in Seq(CallRecord), s # << >>, Head(s).call = "line",
         Head(s).duration \in Nat, NEW r, NEW way, Len(way) \in Nat, Len(way) >= 1,
         Waits(f, last, s, r, way), NEW v,
         v.time = way[Len(way)].time + Head(s).duration,
         v.position = Kept(f.scale, Head(s).target)
  PROVE  Waits(f, Head(s).target, Tail(s), r, Longer(way, v))
<1>1. /\ r[Len(r)] = Begins(f) /\ StaysAt(f.start, s)
      /\ \A w \in 1 .. Len(way) :
           way[w].time \in Nat /\ way[w].position = Kept(f.scale, f.start)
  BY DEF Waits
<1>2. Head(s).target = f.start /\ StaysAt(f.start, Tail(s))
  BY <1>1, StaysOfTail
<1>3. /\ Len(Longer(way, v)) = Len(way) + 1
      /\ \A i \in 1 .. Len(way) : Longer(way, v)[i] = way[i]
      /\ Longer(way, v)[Len(way) + 1] = v
  BY LongerType
<1>4. v.time \in Nat /\ v.position = Kept(f.scale, f.start)
  <2>1. Len(way) \in 1 .. Len(way)
    OBVIOUS
  <2>2. way[Len(way)].time \in Nat
    BY <1>1, <2>1
  <2>3. QED
    BY <1>2, <2>2
<1> DEFINE more == Longer(way, v)
<1> HIDE DEF more
<1>5. ASSUME NEW w \in 1 .. Len(more)
      PROVE  more[w].time \in Nat /\ more[w].position = Kept(f.scale, f.start)
  <2>1. CASE w \in 1 .. Len(way)
    BY <1>1, <1>3, <2>1 DEF more
  <2>2. CASE w \notin 1 .. Len(way)
    <3>1. w = Len(way) + 1
      BY <1>3, <2>2 DEF more
    <3>2. more[w] = v
      BY <1>3, <3>1 DEF more
    <3>3. QED
      BY <1>4, <3>2
  <2>3. QED
    BY <2>1, <2>2
<1>6. QED
  BY <1>1, <1>2, <1>5 DEF Waits, more

(* A way that goes on after the wait.                                      *)
LEMMA WaitedOn ==
  ASSUME NEW f, NEW way, Len(way) \in Nat, Len(way) >= 1, HasWaited(f, way),
         Begins(f).time \in Nat, NEW v, NEW d \in Nat, v.time = way[Len(way)].time + d
  PROVE  HasWaited(f, Longer(way, v))
<1> DEFINE begin == Begins(f).time
           more == Longer(way, v)
<1>1. /\ Len(more) = Len(way) + 1
      /\ \A i \in 1 .. Len(way) : more[i] = way[i]
      /\ more[Len(way) + 1] = v
  BY LongerType
<1>2. /\ Met(way, Begins(f)) /\ begin <= way[Len(way)].time
      /\ \A w \in 1 .. Len(way) :
           /\ way[w].time \in Nat
           /\ way[w].time < begin => way[w].position = Kept(f.scale, f.start)
  BY DEF HasWaited
<1>3. begin \in Nat
  OBVIOUS
<1> HIDE DEF more, begin
<1>4. v.time \in Nat /\ begin <= v.time
  <2>1. Len(way) \in 1 .. Len(way)
    OBVIOUS
  <2>2. way[Len(way)].time \in Nat
    BY <1>2, <2>1
  <2>3. QED
    BY <1>2, <1>3, <2>2
<1>5. Met(more, Begins(f))
  <2>1. PICK w \in 1 .. Len(way) :
          way[w].time = Begins(f).time /\ way[w].position = Begins(f).position
    BY <1>2 DEF Met
  <2>2. w \in 1 .. Len(more) /\ more[w] = way[w]
    BY <1>1, <2>1
  <2>3. QED
    BY <2>1, <2>2 DEF Met
<1>6. ASSUME NEW w \in 1 .. Len(more)
      PROVE  /\ more[w].time \in Nat
             /\ more[w].time < begin => more[w].position = Kept(f.scale, f.start)
  <2>1. CASE w \in 1 .. Len(way)
    BY <1>1, <1>2, <2>1
  <2>2. CASE w \notin 1 .. Len(way)
    <3>1. w = Len(way) + 1
      BY <1>1, <2>2
    <3>2. more[w] = v
      BY <1>1, <3>1
    <3>3. ~(more[w].time < begin)
      BY <1>3, <1>4, <3>2
    <3>4. QED
      BY <1>4, <3>2, <3>3
  <2>3. QED
    BY <2>1, <2>2
<1>7. begin <= more[Len(more)].time
  BY <1>1, <1>4
<1>8. QED
  BY <1>5, <1>6, <1>7 DEF HasWaited, more, begin

(* A line is drawn.                                                        *)
LEMMA LineConverts ==
  ASSUME NEW f, Fit(f), BuilderInv, Moving(f), AppendLine,
         steps' = (IF result' = "SUCCESS" THEN steps ELSE << >>)
  PROVE  Converting(f)'
<1> DEFINE line == Head(calls)
<1>1. /\ calls # << >> /\ trajectory' = trajectory /\ line.call = "line"
      /\ calls' = IF result' = "SUCCESS" THEN Tail(calls) ELSE << >>
  BY DEF AppendLine, Continue
<1>2. /\ f.scale \in 1 .. 127 /\ f.wait \in Nat
      /\ Underway(f) /\ InReach(f.scale, builder.last_position)
  BY DEF Fit, Moving
<1>3. MemoryStep
  BY AppendLineSteps
<1>4. /\ builder.scale = f.scale /\ ScaleOf(builder.buffer.contents) = builder.scale
      /\ ~TrajectoryLives /\ NothingLost
  BY <1>2 DEF Underway
<1>5. /\ calls \in Seq(CallRecord) /\ Tail(calls) \in Seq(CallRecord)
      /\ line \in CallRecord /\ line.target \in [Axes -> Int] /\ line.duration \in Nat
      /\ InReach(f.scale, line.target) /\ AllInReach(f.scale, Tail(calls))
  BY <1>1, NextCall, CallsType
<1>6. result' # "EINVAL"
  BY <1>2, <1>4, <1>5, LineInReach
<1>7. CASE result' # "SUCCESS"
  <2>1. steps' = << >> /\ calls' = << >>
    BY <1>1, <1>7
  <2>2. QED
    BY <1>3, <1>6, <2>1, Stops DEF MemoryStep
<1>8. CASE result' = "SUCCESS"
  <2>1. /\ builder'.last_position = line.target /\ builder'.scale = f.scale
        /\ ScaleOf(builder'.buffer.contents) = f.scale
        /\ calls' = Tail(calls)
        /\ LineDrawn(builder.buffer.contents, f.scale, builder.last_position, calls,
                     builder'.buffer.contents)
    BY <1>4, <1>8, LineGives
  <2>2. BuilderLives'
    BY <1>8, LineLives
  <2>3. NothingLost'
    <3>1. heap' \ OwnedBlocks' = heap \ OwnedBlocks
      BY <1>3, <1>8 DEF MemoryStep
    <3>2. QED
      BY <1>4, <3>1 DEF NothingLost
  <2>4. Underway(f)'
    BY <1>1, <1>4, <1>8, <2>1, <2>2, <2>3 DEF Underway, TrajectoryLives
  <2>5. PICK m : /\ AreMoves(m, f.scale) /\ steps = m \o Ends
                 /\ \E r, way : OnItsWay(f, m, r, way)
    BY DEF Moving
  <2>6. PICK r, way : OnItsWay(f, m, r, way)
    BY <2>5
  <2>7. /\ Drawn(builder.buffer.contents, f.scale, builder.last_position, calls, r, way)
        /\ Course(m, f.scale, r[Len(r)], Arrives(f))
        /\ Waits(f, builder.last_position, calls, r, way) \/ HasWaited(f, way)
    BY <2>6 DEF OnItsWay
  <2>8. PICK v : /\ v.time = way[Len(way)].time + line.duration
                 /\ v.position = Kept(f.scale, line.target)
                 /\ Drawn(builder'.buffer.contents, f.scale, line.target, Tail(calls), r,
                          Longer(way, v))
    BY <2>1, <2>7 DEF LineDrawn
  <2>9. Len(way) \in Nat /\ Len(way) >= 1
    BY <2>7 DEF Drawn, IsWay
  <2>10. Waits(f, line.target, Tail(calls), r, Longer(way, v)) \/ HasWaited(f, Longer(way, v))
    <3>1. CASE Waits(f, builder.last_position, calls, r, way)
      BY <1>1, <1>5, <2>8, <2>9, <3>1, WaitsOn
    <3>2. CASE HasWaited(f, way)
      <4>1. Begins(f).time \in Nat
        <5>1. MsecPerSec \in Nat
          BY ScalingAssumption
        <5>2. QED
          BY <1>2, <5>1 DEF Begins
      <4>2. QED
        BY <1>5, <2>8, <2>9, <3>2, <4>1, WaitedOn
    <3>3. QED
      BY <2>7, <3>1, <3>2
  <2>11. OnItsWay(f, m, r, Longer(way, v))'
    BY <2>1, <2>7, <2>8, <2>10 DEF OnItsWay
  <2>12. steps' = m \o Ends /\ steps' # << >>
    <3>1. steps' = m \o Ends
      BY <1>8, <2>5
    <3>2. QED
      BY <2>5, <3>1, NextStep DEF AreMoves
  <2>13. Moving(f)'
    BY <1>5, <2>1, <2>4, <2>5, <2>11, <2>12 DEF Moving
  <2>14. QED
    BY <1>3, <1>8, <2>12, <2>13 DEF Converting, MemoryStep
<1>9. QED
  BY <1>7, <1>8

---------------------------------------------------------------------------
(* A point is in the middle of itself.                                     *)
LEMMA MidpointSame ==
  ASSUME NEW p \in [Axes -> Int]
  PROVE  Midpoint(p, p) = p
<1>1. ASSUME NEW a \in Axes PROVE (p[a] + p[a]) \div 2 = p[a]
  <2>1. p[a] \in Int
    OBVIOUS
  <2>2. QED
    BY <2>1
<1>2. Midpoint(p, p) = [a \in Axes |-> p[a]]
  BY <1>1 DEF Midpoint
<1>3. QED
  BY <1>2

(* The calls change, and nothing else.                                     *)
LEMMA CallsChange ==
  ASSUME NEW f, BuilderInv', Moving(f), result' = "SUCCESS", steps' = steps,
         UNCHANGED <<heap, builder, trajectory>>, AllInReach(f.scale, calls'),
         \A m, r, way : OnItsWay(f, m, r, way) => OnItsWay(f, m, r, way)'
  PROVE  Converting(f)'
<1>1. /\ Underway(f) /\ InReach(f.scale, builder.last_position)
      /\ heap' = heap /\ builder' = builder /\ trajectory' = trajectory
  BY DEF Moving
<1>2. PICK m : /\ AreMoves(m, f.scale) /\ steps = m \o Ends
               /\ \E r, way : OnItsWay(f, m, r, way)
  BY DEF Moving
<1>3. PICK r, way : OnItsWay(f, m, r, way)
  BY <1>2
<1>4. OnItsWay(f, m, r, way)'
  BY <1>3
<1>5. Underway(f)'
  BY <1>1 DEF Underway, BuilderLives, TrajectoryLives, NothingLost, OwnedBlocks
<1>6. Moving(f)'
  BY <1>1, <1>2, <1>4, <1>5 DEF Moving
<1>7. steps' # << >>
  BY <1>2, NextStep DEF AreMoves
<1>8. QED
  BY <1>6, <1>7 DEF Converting

(* A long line is drawn in two.                                            *)
LEMMA SplitConverts ==
  ASSUME NEW f, Fit(f), BuilderInv, Moving(f), SplitLine,
         steps' = (IF result' = "SUCCESS" THEN steps ELSE << >>)
  PROVE  Converting(f)'
<1> DEFINE line == Head(calls)
           last == builder.last_position
           bytes == builder.buffer.contents
<1>1. /\ calls # << >> /\ line.call = "line" /\ result' = result
      /\ UNCHANGED <<heap, builder, trajectory>>
  BY DEF SplitLine
<1>2. /\ f.scale \in 1 .. 127 /\ f.start \in [Axes -> Int]
      /\ Underway(f) /\ InReach(f.scale, last) /\ AllInReach(f.scale, calls)
  BY DEF Fit, Moving
<1>3. BuilderInv'
  BY OtherCallsSteps DEF MemoryStep
<1>4. /\ calls \in Seq(CallRecord) /\ line.target \in [Axes -> Int]
      /\ InReach(f.scale, line.target) /\ last \in [Axes -> Int]
  BY <1>1, NextCall DEF BuilderInv, UseTypeOK
<1>5. result' = "SUCCESS" /\ steps' = steps
  BY <1>1, <1>2 DEF Underway
<1>6. PICK c \in CallRecord, d \in CallRecord :
        /\ calls' = <<c, d>> \o Tail(calls)
        /\ c.target = Midpoint(last, line.target) /\ d.target = line.target
        /\ \A r, way :
             Drawn(bytes, builder.scale, last, calls, r, way)
               => Drawn(bytes, builder.scale, last, calls', r, way)
  BY SplitGives
<1>7. AllInReach(f.scale, calls')
  <2>1. InReach(f.scale, c.target) /\ InReach(f.scale, d.target)
    BY <1>2, <1>4, <1>6, MidpointReach
  <2>2. AllInReach(f.scale, <<c, d>> \o Tail(calls))
    BY <1>1, <1>2, <1>4, <2>1, ReachOfPair
  <2>3. QED
    BY <1>6, <2>2
<1>8. ASSUME NEW r, NEW way, Waits(f, last, calls, r, way)
      PROVE  Waits(f, last, calls', r, way)
  <2>1. last = f.start /\ StaysAt(f.start, calls)
    BY <1>8 DEF Waits
  <2>2. line.target = f.start
    BY <1>1, <1>4, <2>1, StaysOfTail
  <2>3. c.target = f.start /\ d.target = f.start
    BY <1>2, <1>6, <2>1, <2>2, MidpointSame
  <2>4. StaysAt(f.start, <<c, d>> \o Tail(calls))
    BY <1>1, <1>4, <2>1, <2>3, StaysOfPair
  <2>5. StaysAt(f.start, calls')
    BY <1>6, <2>4
  <2>6. QED
    BY <1>8, <2>5 DEF Waits
<1>9. ASSUME NEW m, NEW r, NEW way, OnItsWay(f, m, r, way) PROVE OnItsWay(f, m, r, way)'
  <2>1. builder.scale = f.scale /\ builder' = builder
    BY <1>1, <1>2 DEF Underway
  <2>2. Drawn(bytes, f.scale, last, calls', r, way)
    BY <1>6, <1>9, <2>1 DEF OnItsWay
  <2>3. Waits(f, last, calls', r, way) \/ HasWaited(f, way)
    BY <1>8, <1>9 DEF OnItsWay
  <2>4. QED
    BY <1>9, <2>1, <2>2, <2>3 DEF OnItsWay
<1>10. QED
  BY <1>1, <1>3, <1>5, <1>7, <1>9, CallsChange

(* A hold is drawn one part after another.                                 *)
LEMMA HoldCallConverts ==
  ASSUME NEW f, Fit(f), BuilderInv, Moving(f), HoldPositionFor,
         steps' = (IF result' = "SUCCESS" THEN steps ELSE << >>)
  PROVE  Converting(f)'
<1> DEFINE hold == Head(calls)
           last == builder.last_position
           bytes == builder.buffer.contents
<1>1. /\ calls # << >> /\ result' = "SUCCESS" /\ steps' = steps
      /\ UNCHANGED <<heap, builder, trajectory>>
  BY DEF HoldPositionFor
<1>2. /\ f.scale \in 1 .. 127 /\ f.start \in [Axes -> Int]
      /\ Underway(f) /\ InReach(f.scale, last) /\ AllInReach(f.scale, calls)
  BY DEF Fit, Moving
<1>3. BuilderInv'
  BY OtherCallsSteps DEF MemoryStep
<1>4. calls \in Seq(CallRecord) /\ AllInReach(f.scale, Tail(calls))
  BY <1>1, NextCall
<1>5. /\ \/ calls' = Tail(calls)
         \/ \E c \in CallRecord, d \in CallRecord :
               /\ calls' = <<c, d>> \o Tail(calls)
               /\ c.target = last /\ d.call = "hold" /\ d.target = Origin
      /\ \A r, way :
           Drawn(bytes, builder.scale, last, calls, r, way)
             => Drawn(bytes, builder.scale, last, calls', r, way)
  BY HoldGives
<1>6. AllInReach(f.scale, calls') /\ (StaysAt(f.start, calls) /\ last = f.start
                                        => StaysAt(f.start, calls'))
  <2>1. CASE calls' = Tail(calls)
    <3>1. AllInReach(f.scale, calls')
      BY <1>4, <2>1
    <3>2. ASSUME StaysAt(f.start, calls) PROVE StaysAt(f.start, calls')
      BY <1>1, <1>4, <2>1, <3>2, StaysOfTail
    <3>3. QED
      BY <3>1, <3>2
  <2>2. CASE calls' # Tail(calls)
    <3>1. PICK c \in CallRecord, d \in CallRecord :
            /\ calls' = <<c, d>> \o Tail(calls)
            /\ c.target = last /\ d.call = "hold" /\ d.target = Origin
      BY <1>5, <2>2
    <3>2. AllInReach(f.scale, calls')
      <4>1. InReach(f.scale, c.target) /\ InReach(f.scale, d.target)
        BY <1>2, <3>1, OriginReach
      <4>2. AllInReach(f.scale, <<c, d>> \o Tail(calls))
        BY <1>1, <1>2, <1>4, <4>1, ReachOfPair
      <4>3. QED
        BY <3>1, <4>2
    <3>3. ASSUME StaysAt(f.start, calls), last = f.start PROVE StaysAt(f.start, calls')
      <4>1. c.target = f.start /\ d.call # "line"
        BY <3>1, <3>3
      <4>2. StaysAt(f.start, <<c, d>> \o Tail(calls))
        BY <1>1, <1>4, <3>3, <4>1, StaysOfPair
      <4>3. QED
        BY <3>1, <4>2
    <3>4. QED
      BY <3>2, <3>3
  <2>3. QED
    BY <2>1, <2>2
<1>7. ASSUME NEW r, NEW way, Waits(f, last, calls, r, way)
      PROVE  Waits(f, last, calls', r, way)
  BY <1>6, <1>7 DEF Waits
<1>8. ASSUME NEW m, NEW r, NEW way, OnItsWay(f, m, r, way) PROVE OnItsWay(f, m, r, way)'
  <2>1. builder.scale = f.scale /\ builder' = builder
    BY <1>1, <1>2 DEF Underway
  <2>2. Drawn(bytes, f.scale, last, calls', r, way)
    BY <1>5, <1>8, <2>1 DEF OnItsWay
  <2>3. Waits(f, last, calls', r, way) \/ HasWaited(f, way)
    BY <1>7, <1>8 DEF OnItsWay
  <2>4. QED
    BY <1>8, <2>1, <2>2, <2>3 DEF OnItsWay
<1>9. QED
  BY <1>1, <1>3, <1>6, <1>8, CallsChange

(* The trajectory takes the bytes.                                         *)
LEMMA FinishConverts ==
  ASSUME NEW f, BuilderInv, Moving(f), calls = << >>, calls' = calls,
         Head(steps).do = "finish", InitFromBuilder, steps' = Tail(steps)
  PROVE  Converting(f)'
<1>1. /\ Underway(f) /\ calls = << >> /\ calls' = << >>
  BY DEF Moving
<1>2. PICK m : /\ AreMoves(m, f.scale) /\ steps = m \o Ends
               /\ \E r, way : OnItsWay(f, m, r, way)
  BY DEF Moving
<1>3. m \in Seq(StepRecord)
  BY <1>2 DEF AreMoves
<1>4. m = << >>
  <2>1. ASSUME m # << >> PROVE FALSE
    <3>1. Head(steps) = Head(m)
      BY <1>2, <1>3, <2>1, NextStep
    <3>2. Head(m).do \in {"line", "hold"}
      BY <1>2, <2>1, MovesPop DEF IsMove
    <3>3. QED
      BY <3>1, <3>2
  <2>2. QED
    BY <2>1
<1>5. steps' = <<Do("destroy")>>
  BY <1>2, <1>3, <1>4, NextStep
<1>6. PICK r, way : OnItsWay(f, m, r, way)
  BY <1>2
<1>7. /\ Drawn(builder.buffer.contents, f.scale, builder.last_position, << >>, r, way)
      /\ Course(<< >>, f.scale, r[Len(r)], Arrives(f))
      /\ Waits(f, builder.last_position, << >>, r, way) \/ HasWaited(f, way)
  BY <1>1, <1>4, <1>6 DEF OnItsWay
<1>8. Flown(f, builder.buffer.contents)
  <2>1. HasWaited(f, way)
    BY <1>7, WaitIsOver
  <2>2. r[Len(r)] = Arrives(f)
    BY <1>7, CourseEmpty
  <2>3. EndsAt(way, r[Len(r)].time, r[Len(r)].position)
    BY <1>7, AllMet
  <2>4. EndsAt(way, f.end, Kept(f.scale, f.goal))
    BY <2>2, <2>3 DEF Arrives
  <2>5. IsWay(builder.buffer.contents, way)
    BY <1>7 DEF Drawn
  <2>6. builder.buffer.contents \in Seq(Byte)
    BY <1>1 DEF Underway, BuilderInv, UseTypeOK, BufferRecord
  <2>7. QED
    BY <2>1, <2>4, <2>5, <2>6 DEF Flown
<1>9. BuilderLives /\ ~TrajectoryLives /\ NothingLost /\ builder.scale = f.scale
  BY <1>1 DEF Underway
<1>10. MemoryStep
  BY <1>1, <1>9, HandOverSteps
<1>11. /\ trajectory'.contents = builder.buffer.contents
       /\ trajectory'.stor_begin = builder.buffer.stor_begin
       /\ \/ result' = "ENOMEM"
          \/ /\ result' = "SUCCESS" /\ builder'.scale = builder.scale
             /\ builder'.buffer.stor_begin # NoBlock
  BY <1>9, HandOverGives
<1>12. ASSUME result' = "SUCCESS"
       PROVE  /\ BuilderLives' /\ TrajectoryLives' /\ NothingLost'
              /\ builder'.scale = f.scale /\ Flown(f, trajectory'.contents)
  <2>1. NothingLost'
    BY <1>9, <1>10, <1>12 DEF MemoryStep, NothingLost
  <2>2. builder'.scale = f.scale /\ BuilderLives'
    BY <1>9, <1>11, <1>12 DEF BuilderLives
  <2>3. TrajectoryLives'
    BY <1>9, <1>11 DEF BuilderLives, TrajectoryLives
  <2>4. QED
    BY <1>8, <1>11, <2>1, <2>2, <2>3
<1>13. AtEnd(f)'
  BY <1>1, <1>5, <1>12 DEF AtEnd
<1>14. result' # "EINVAL" /\ BuilderInv'
  BY <1>10, <1>11 DEF MemoryStep
<1>15. QED
  BY <1>1, <1>13, <1>14 DEF Converting

(* The builder is destroyed; the bytes of the trajectory are all that is   *)
(* left.                                                                   *)
LEMMA DestroyConverts ==
  ASSUME NEW f, BuilderInv, AtEnd(f), DestroyBuilder, UNCHANGED <<trajectory, calls, result>>
  PROVE  Converted(f)'
<1>1. calls = << >> /\ trajectory' = trajectory /\ calls' = calls /\ result' = result
  BY DEF AtEnd
<1>2. SUFFICES ASSUME result' = "SUCCESS"
               PROVE  /\ builder'.scale = f.scale /\ heap' = {trajectory'.stor_begin}
                      /\ Flown(f, trajectory'.contents)
  BY DEF Converted
<1>3. /\ BuilderLives /\ TrajectoryLives /\ NothingLost
      /\ builder.scale = f.scale /\ Flown(f, trajectory.contents)
  BY <1>1, <1>2 DEF AtEnd
<1>4. MemoryStep
  BY <1>1, <1>3, DestroySteps
<1>5. builder'.scale = builder.scale /\ builder'.buffer.stor_begin = NoBlock
  <2>1. builder \in BuilderRecord /\ builder.buffer \in BufferRecord /\ builder.buffer.owned
    BY <1>3 DEF BuilderInv, UseTypeOK, BuilderRecord, OwnsItsBytes
  <2> DEFINE o == DestroyBuffer(heap, builder.buffer)
  <2>2. builder' = [builder EXCEPT !.buffer = o.buffer, !.last_position = Origin]
    BY DEF DestroyBuilder
  <2>3. o.buffer.stor_begin = NoBlock
    BY <2>1 DEF DestroyBuffer, Outcome, BufferRecord
  <2> HIDE DEF o
  <2>4. builder'.buffer = o.buffer /\ builder'.scale = builder.scale
    BY <2>1, <2>2 DEF BuilderRecord
  <2>5. QED
    BY <2>3, <2>4
<1>6. heap' \subseteq OwnedBlocks'
  BY <1>2, <1>3, <1>4 DEF MemoryStep, NothingLost
<1>7. trajectory'.stor_begin \in heap'
  BY <1>1, <1>3, <1>4 DEF MemoryStep, BuilderInv, BytesHaveOneOwner, TrajectoryLives
<1>8. heap' = {trajectory'.stor_begin}
  BY <1>5, <1>6, <1>7 DEF OwnedBlocks
<1>9. QED
  BY <1>1, <1>3, <1>5, <1>8

---------------------------------------------------------------------------
(* The conversion as a whole.                                              *)

(* What is kept of a position is close to it.                              *)
LEMMA KeptClose ==
  ASSUME NEW p \in [Axes -> Int], builder.scale \in 1 .. 127
  PROVE  Close(Kept(builder.scale, p), p)
<1> DEFINE s == builder.scale
           k == Kept(s, p)
<1>1. /\ \A a \in {"x", "y", "z"} : k[a] = (p[a] \div s) * s
      /\ k.yaw = Angle(p.yaw)
  BY DEF Kept, Axes
<1>2. s \in Int /\ s >= 1
  OBVIOUS
<1> HIDE DEF k, s
<1>3. ASSUME NEW n \in Int PROVE Magnitude((n \div s) * s - n) < s
  <2> DEFINE q == n \div s
             m == n % s
  <2>1. q \in Int /\ m \in Int /\ 0 <= m /\ m < s /\ n = s * q + m
    BY <1>2
  <2> HIDE DEF q, m
  <2>2. s * q = q * s /\ q * s \in Int
    BY <1>2, <2>1
  <2>3. q * s - n = - m
    BY <2>1, <2>2
  <2>4. Magnitude(- m) < s
    BY <1>2, <2>1 DEF Magnitude
  <2>5. QED
    BY <2>3, <2>4 DEF q
<1>4. ASSUME NEW a \in {"x", "y", "z"} PROVE Magnitude(k[a] - p[a]) < s
  <2>1. p[a] \in Int
    BY DEF Axes
  <2>2. QED
    BY <1>1, <1>3, <2>1
<1>5. QED
  BY <1>1, <1>4 DEF Close, k, s

(* The task stays the same while the entry does.                           *)
LEMMA TaskStays ==
  ASSUME NEW f, IsTask(f), vehicle' = vehicle, meant' = meant, scan'.entry = scan.entry
  PROVE  IsTask(f)'
<1>1. Bytes' = Bytes
  BY DEF Bytes
<1>2. QED
  BY <1>1 DEF IsTask, ScaleFor, GoalOf, Target, Delay

(* What is to be done tells where the conversion is.                       *)
LEMMA WhereItIs ==
  ASSUME NEW f, Fit(f), Converting(f), steps # << >>
  PROVE  /\ Head(steps).do = "init" => AtInit(f)
         /\ Head(steps).do = "start" => AtStart(f)
         /\ Head(steps).do \in {"hold", "line"} => AtHold(f) \/ Moving(f)
         /\ Head(steps).do = "finish" => Moving(f)
         /\ Head(steps).do = "destroy" => AtEnd(f)
<1>1. AtInit(f) => Head(steps).do = "init"
  <2>1. AtInit(f) => Head(steps) = Do("init")
    BY FirstSteps
  <2>2. Do("init").do = "init"
    BY DEF Do
  <2>3. QED
    BY <2>1, <2>2
<1>2. AtStart(f) => Head(steps).do = "start"
  <2>1. AtStart(f) => Head(steps) = Do("start")
    BY FirstSteps
  <2>2. Do("start").do = "start"
    BY DEF Do
  <2>3. QED
    BY <2>1, <2>2
<1>3. AtHold(f) => Head(steps).do = "hold"
  <2>1. AtHold(f) => Head(steps) = Stay(f.wait)
    BY FirstSteps
  <2>2. Stay(f.wait).do = "hold"
    BY DEF Stay
  <2>3. QED
    BY <2>1, <2>2
<1>4. ASSUME Moving(f) PROVE Head(steps).do \in {"hold", "line", "finish"}
  <2>1. PICK m : AreMoves(m, f.scale) /\ steps = m \o Ends
    BY <1>4 DEF Moving
  <2>2. m \in Seq(StepRecord)
    BY <2>1 DEF AreMoves
  <2>3. CASE m = << >>
    <3>1. Head(steps) = Do("finish")
      BY <2>1, <2>2, <2>3, NextStep
    <3>2. QED
      BY <3>1 DEF Do
  <2>4. CASE m # << >>
    <3>1. Head(steps) = Head(m)
      BY <2>1, <2>2, <2>4, NextStep
    <3>2. Head(m).do \in {"line", "hold"}
      BY <2>1, <2>4, MovesPop DEF IsMove
    <3>3. QED
      BY <3>1, <3>2
  <2>5. QED
    BY <2>3, <2>4
<1>5. ASSUME AtEnd(f) PROVE Head(steps).do = "destroy"
  <2>1. steps = <<Do("destroy")>>
    BY <1>5 DEF AtEnd
  <2>2. Head(steps) = Do("destroy")
    BY <2>1
  <2>3. QED
    BY <2>2 DEF Do
<1>6. AtInit(f) \/ AtStart(f) \/ AtHold(f) \/ Moving(f) \/ AtEnd(f)
  BY DEF Converting
<1>7. QED
  BY <1>1, <1>2, <1>3, <1>4, <1>5, <1>6

(* Where the conversion is afterwards.                                     *)
GoesOn(f) ==
  \/ scan' = scan /\ Converting(f)'
  \/ /\ scan' = [scan EXCEPT !.at = "converted"]
     /\ calls' = << >> /\ Converted(f)'

(* A step of the conversion goes on with it, or ends it.                   *)
LEMMA StepConverts ==
  ASSUME NEW f, IsTask(f), Fit(f), Converting(f), ConversionStep
  PROVE  GoesOn(f)
<1> DEFINE step == Head(steps)
           msec == MsecFromSeconds(step.sec)
           next == IF step.do = "line" THEN Line(step.arg, msec.msec) ELSE Hold(msec.msec)
<1>1. steps # << >> /\ calls = << >> /\ BuilderInv
  BY DEF ConversionStep, Converting
<1>2. f.scale = ScaleFor(scan.entry).scale /\ f.start = vehicle
  BY DEF IsTask
<1>3. next = Call(step)
  BY DEF Call
<1>4. CASE /\ step.do = "init"
           /\ InitBuilder(ScaleFor(scan.entry).scale, FALSE)
           /\ Go(Tail(steps)) /\ UNCHANGED <<trajectory, calls>>
  <2>1. AtInit(f)
    BY <1>1, <1>4, WhereItIs
  <2>2. /\ InitBuilder(f.scale, FALSE) /\ scan' = scan
        /\ steps' = (IF result' = "SUCCESS" THEN Tail(steps) ELSE << >>)
    BY <1>2, <1>4 DEF Go
  <2>3. Converting(f)'
    BY <1>1, <1>4, <2>1, <2>2, InitConverts
  <2>4. QED
    BY <2>2, <2>3 DEF GoesOn
<1>5. CASE /\ step.do = "start"
           /\ SetStartPosition(vehicle)
           /\ Go(Tail(steps)) /\ UNCHANGED <<trajectory, calls>>
  <2>1. AtStart(f)
    BY <1>1, <1>5, WhereItIs
  <2>2. /\ SetStartPosition(f.start) /\ scan' = scan
        /\ steps' = (IF result' = "SUCCESS" THEN Tail(steps) ELSE << >>)
    BY <1>2, <1>5 DEF Go
  <2>3. Converting(f)'
    BY <1>1, <1>5, <2>1, <2>2, StartConverts
  <2>4. QED
    BY <2>2, <2>3 DEF GoesOn
<1>6. CASE /\ step.do \in {"hold", "line"}
           /\ result' = msec.result
           /\ calls' = IF msec.result = "SUCCESS" THEN <<next>> ELSE << >>
           /\ Go(Tail(steps)) /\ UNCHANGED <<heap, builder, trajectory>>
  <2>1. AtHold(f) \/ Moving(f)
    BY <1>1, <1>6, WhereItIs
  <2>2. /\ scan' = scan
        /\ steps' = (IF result' = "SUCCESS" THEN Tail(steps) ELSE << >>)
    BY <1>6 DEF Go
  <2>3. calls' = IF msec.result = "SUCCESS" THEN <<Call(step)>> ELSE << >>
    BY <1>3, <1>6
  <2> DEFINE o == MsecFromSeconds(Head(steps).sec)
  <2>4. /\ o = MsecFromSeconds(Head(steps).sec) /\ result' = o.result
        /\ calls' = (IF o.result = "SUCCESS" THEN <<Call(Head(steps))>> ELSE << >>)
        /\ UNCHANGED <<heap, builder, trajectory>> /\ Head(steps).do \in {"hold", "line"}
    BY <1>6, <2>3
  <2> HIDE DEF o, step, msec, next
  <2>5. Converting(f)'
    BY <1>1, <2>1, <2>2, <2>4, HoldConverts, MoveConverts
  <2>6. QED
    BY <2>2, <2>5 DEF GoesOn
<1>7. CASE /\ step.do = "finish"
           /\ InitFromBuilder
           /\ steps' = Tail(steps)
           /\ UNCHANGED <<calls, meant, asked, scan, vehicle>>
  <2>1. Moving(f)
    BY <1>1, <1>7, WhereItIs
  <2>2. Converting(f)'
    BY <1>1, <1>7, <2>1, FinishConverts
  <2>3. QED
    BY <1>7, <2>2 DEF GoesOn
<1>8. CASE /\ step.do = "destroy"
           /\ DestroyBuilder
           /\ steps' = << >>
           /\ scan' = [scan EXCEPT !.at = "converted"]
           /\ UNCHANGED <<trajectory, calls, result, meant, asked, vehicle>>
  <2>1. AtEnd(f)
    BY <1>1, <1>8, WhereItIs
  <2>2. Converted(f)'
    BY <1>1, <1>8, <2>1, DestroyConverts
  <2>3. QED
    BY <1>1, <1>8, <2>2 DEF GoesOn
<1>9. QED
  BY <1>4, <1>5, <1>6, <1>7, <1>8 DEF ConversionStep

(* So does the rest of a call.                                             *)
LEMMA CallConverts ==
  ASSUME NEW f, Fit(f), Converting(f), ConversionCall
  PROVE  GoesOn(f)
<1>1. /\ AppendLine \/ SplitLine \/ HoldPositionFor
      /\ steps' = (IF result' = "SUCCESS" THEN steps ELSE << >>) /\ scan' = scan
  BY DEF ConversionCall, Go
<1>2. calls # << >>
  BY <1>1 DEF AppendLine, SplitLine, HoldPositionFor
<1>3. BuilderInv /\ Moving(f)
  BY <1>2 DEF Converting, AtInit, AtStart, AtHold, AtEnd
<1>4. Converting(f)'
  BY <1>1, <1>3, LineConverts, SplitConverts, HoldCallConverts
<1>5. QED
  BY <1>1, <1>4 DEF GoesOn

---------------------------------------------------------------------------
(* The invariant of the flight: the builder is untouched until the entry   *)
(* was found, then the conversion follows the entry, and when it has       *)
(* succeeded the trajectory flies it.                                      *)
FlightInv ==
  /\ vehicle \in Starts
  /\ scan.at \in {"start", "entries", "target", "found"} => BuilderInit
  /\ scan.at = "found" => HasItsPoint
  /\ scan.at = "converting" => \E f : IsTask(f) /\ Fit(f) /\ Converting(f)
  /\ scan.at = "converted" => \E f : IsTask(f) /\ Fit(f) /\ Converted(f)
  /\ scan.at # "converting" => calls = << >>

(* Before the conversion nothing is built.                                 *)
LEMMA UnbuiltKept ==
  ASSUME FlightInv, scan.at \in {"start", "entries", "target", "found"},
         UNCHANGED <<heap, builder, trajectory, calls, result, vehicle>>,
         scan'.at \in {"entries", "target", "found", "failed"},
         scan'.at = "found" => HasItsPoint'
  PROVE  FlightInv'
<1>1. /\ BuilderInit /\ vehicle \in Starts
      /\ heap' = heap /\ builder' = builder /\ trajectory' = trajectory
      /\ calls' = calls /\ result' = result /\ vehicle' = vehicle
  BY DEF FlightInv
<1>2. BuilderInit' /\ calls' = << >>
  BY <1>1 DEF BuilderInit
<1>3. scan'.at # "converting" /\ scan'.at # "converted"
  OBVIOUS
<1>4. QED
  BY <1>1, <1>2, <1>3 DEF FlightInv

(* The vehicle is given what the entry asks for.                           *)
LEMMA FlightBegins ==
  ASSUME PlanInv, FlightInv, BeginConversion
  PROVE  FlightInv'
<1> DEFINE e == scan.entry
           first == Conversion(e)[3]
           error == IF ScaleFor(e).result # "SUCCESS" THEN ScaleFor(e).result
                    ELSE MsecFromSeconds(first.sec).result
<1>1. /\ scan.at = "found"
      /\ scan' = [scan EXCEPT !.at = IF error = "SUCCESS" THEN "converting" ELSE "refused"]
      /\ steps' = IF error = "SUCCESS" THEN Conversion(e) ELSE << >>
      /\ result' = error
      /\ UNCHANGED <<heap, builder, trajectory, calls, meant, asked, vehicle>>
  BY DEF BeginConversion
<1>2. error = "SUCCESS" => ScaleFor(e).result = "SUCCESS"
  OBVIOUS
<1> HIDE DEF error
<1>3. /\ BuilderInit /\ HasItsPoint /\ vehicle \in Starts
      /\ meant \in Plans /\ asked \in Times /\ scan.entry = EntryMeant
  BY <1>1 DEF FlightInv, PlanInv, Evaluated
<1>4. /\ scan'.at = IF error = "SUCCESS" THEN "converting" ELSE "refused"
      /\ scan'.entry = scan.entry
  BY <1>1 DEF PlanInv
<1>5. calls' = << >> /\ vehicle' \in Starts
  BY <1>1, <1>3 DEF BuilderInit
<1>6. CASE error # "SUCCESS"
  <2>1. scan'.at = "refused"
    BY <1>4, <1>6
  <2>2. QED
    BY <1>5, <2>1 DEF FlightInv
<1>7. CASE error = "SUCCESS"
  <2>1. PICK f : IsTask(f) /\ Fit(f) /\ Conversion(scan.entry) = AllSteps(f)
    BY <1>2, <1>3, <1>7, TaskIsFit
  <2>2. IsTask(f)'
    BY <1>1, <1>4, <2>1, TaskStays
  <2>3. BuilderInv'
    <3>1. calls' \in Seq(CallRecord)
      BY <1>5, EmptySeq
    <3>2. BuilderInv
      BY <1>3, InvHolds
    <3>3. QED
      BY <1>1, <1>5, <3>1, <3>2, MemoryUnchanged
  <2>4. AtInit(f)'
    <3>1. builder'.buffer = Unbuilt /\ trajectory' = Unbuilt /\ heap' = {}
      BY <1>1, <1>3 DEF BuilderInit
    <3>2. ~BuilderLives' /\ ~TrajectoryLives'
      BY <3>1 DEF BuilderLives, TrajectoryLives, Unbuilt
    <3>3. steps' = AllSteps(f) /\ result' = "SUCCESS"
      BY <1>1, <1>7, <2>1
    <3>4. QED
      BY <1>5, <3>1, <3>2, <3>3 DEF AtInit
  <2>5. Converting(f)'
    BY <1>1, <1>5, <1>7, <2>3, <2>4 DEF Converting
  <2>6. scan'.at = "converting"
    BY <1>4, <1>7
  <2>7. QED
    BY <1>5, <2>1, <2>2, <2>5, <2>6 DEF FlightInv
<1>8. QED
  BY <1>6, <1>7

(* A conversion that goes on keeps to the flight.                          *)
LEMMA FlightGoesOn ==
  ASSUME PlanInv, FlightInv, scan.at = "converting", meant' = meant, vehicle' = vehicle,
         NEW f, IsTask(f), Fit(f), GoesOn(f)
  PROVE  FlightInv'
<1>1. vehicle' \in Starts
  BY DEF FlightInv
<1>2. CASE scan' = scan /\ Converting(f)'
  <2>1. IsTask(f)'
    BY <1>2, TaskStays
  <2>2. QED
    BY <1>1, <1>2, <2>1 DEF FlightInv
<1>3. CASE /\ scan' = [scan EXCEPT !.at = "converted"]
           /\ calls' = << >> /\ Converted(f)'
  <2>1. scan'.at = "converted" /\ scan'.entry = scan.entry
    BY <1>3 DEF PlanInv
  <2>2. IsTask(f)'
    BY <2>1, TaskStays
  <2>3. QED
    BY <1>1, <1>3, <2>1, <2>2 DEF FlightInv
<1>4. QED
  BY <1>2, <1>3 DEF GoesOn

(* Every step keeps the invariant of the flight.                           *)
LEMMA FlightKept ==
  ASSUME PlanInv, OnlyConverting, FlightInv, [PlanNext]_rthVars
  PROVE  FlightInv'
<1> DEFINE IsScan == scan = [at |-> scan.at, read |-> scan.read, offset |-> scan.offset,
                             entry |-> scan.entry, result |-> scan.result]
<1>0. IsScan
  BY DEF PlanInv
<1>1. CASE BeginEvaluation
  <2>1. /\ scan.at = "start" /\ scan'.at \in {"target", "entries"}
        /\ UNCHANGED <<heap, builder, trajectory, calls, result, vehicle>>
    BY <1>0, <1>1 DEF BeginEvaluation
  <2>2. QED
    BY <2>1, UnbuiltKept
<1>2. CASE EvaluateEntry
  <2>1. /\ scan.at = "entries" /\ scan'.at \in {"failed", "target", "entries"}
        /\ UNCHANGED <<heap, builder, trajectory, calls, result, vehicle>>
    BY <1>0, <1>2 DEF EvaluateEntry
  <2>2. QED
    BY <2>1, UnbuiltKept
<1>3. CASE EvaluateTarget
  <2> DEFINE point == GetPoint(Bytes, scan.entry.point)
             found == HasTarget(scan.entry.action) => point.result = "SUCCESS"
  <2>1. /\ scan.at = "target"
        /\ scan' = [scan EXCEPT !.at = IF found THEN "found" ELSE "failed",
                                !.result = IF found THEN "SUCCESS" ELSE point.result]
        /\ UNCHANGED <<heap, builder, trajectory, calls, result, vehicle>> /\ meant' = meant
    BY <1>3 DEF EvaluateTarget
  <2>2. found <=> HasItsPoint
    BY DEF HasItsPoint
  <2> HIDE DEF found, point
  <2>3. scan'.at = (IF found THEN "found" ELSE "failed") /\ scan'.entry = scan.entry
    BY <1>0, <2>1
  <2>4. HasItsPoint' = HasItsPoint
    BY <2>1, <2>3 DEF HasItsPoint, Bytes
  <2>5. QED
    BY <2>1, <2>2, <2>3, <2>4, UnbuiltKept
<1>4. CASE BeginConversion
  BY <1>4, FlightBegins
<1>5. CASE ConversionStep
  <2>1. steps # << >> /\ meant' = meant /\ vehicle' = vehicle
    BY <1>5 DEF ConversionStep, Go
  <2>2. scan.at = "converting"
    BY <2>1 DEF OnlyConverting
  <2>3. PICK f : IsTask(f) /\ Fit(f) /\ Converting(f)
    BY <2>2 DEF FlightInv
  <2>4. GoesOn(f)
    BY <1>5, <2>3, StepConverts
  <2>5. QED
    BY <2>1, <2>2, <2>3, <2>4, FlightGoesOn
<1>6. CASE ConversionCall
  <2>1. calls # << >> /\ meant' = meant /\ vehicle' = vehicle
    BY <1>6 DEF ConversionCall, AppendLine, SplitLine, HoldPositionFor, Go
  <2>2. scan.at = "converting"
    BY <2>1 DEF FlightInv
  <2>3. PICK f : IsTask(f) /\ Fit(f) /\ Converting(f)
    BY <2>2 DEF FlightInv
  <2>4. GoesOn(f)
    BY <1>6, <2>3, CallConverts
  <2>5. QED
    BY <2>1, <2>2, <2>3, <2>4, FlightGoesOn
<1>7. CASE UNCHANGED rthVars
  <2>1. /\ heap' = heap /\ builder' = builder /\ trajectory' = trajectory
        /\ calls' = calls /\ result' = result /\ meant' = meant /\ asked' = asked
        /\ scan' = scan /\ vehicle' = vehicle /\ steps' = steps
    BY <1>7 DEF rthVars
  <2>2. CASE scan.at = "converting"
    <3>1. PICK f : IsTask(f) /\ Fit(f) /\ Converting(f)
      BY <2>2 DEF FlightInv
    <3>2. Converting(f)'
      <4>1. BuilderInv'
        <5>1. BuilderInv
          BY <3>1 DEF Converting
        <5>2. calls' \in Seq(CallRecord) /\ (calls' # << >> => BuilderLives)
          BY <2>1, <5>1 DEF BuilderInv, UseTypeOK
        <5>3. QED
          BY <2>1, <5>1, <5>2, MemoryUnchanged
      <4>2. Underway(f)' = Underway(f)
        BY <2>1 DEF Underway, BuilderLives, TrajectoryLives, NothingLost, OwnedBlocks
      <4>3. AtInit(f)' = AtInit(f)
        BY <2>1 DEF AtInit, BuilderLives, TrajectoryLives
      <4>4. AtStart(f)' = AtStart(f)
        BY <2>1, <4>2 DEF AtStart
      <4>5. AtHold(f) => AtHold(f)'
        BY <2>1, <4>2 DEF AtHold
      <4>6. Moving(f) => Moving(f)'
        BY <2>1, <4>2 DEF Moving, OnItsWay
      <4>7. AtEnd(f)' = AtEnd(f)
        BY <2>1 DEF AtEnd, BuilderLives, TrajectoryLives, NothingLost, OwnedBlocks
      <4>8. QED
        BY <2>1, <3>1, <4>1, <4>3, <4>4, <4>5, <4>6, <4>7 DEF Converting
    <3>3. GoesOn(f)
      BY <2>1, <3>2 DEF GoesOn
    <3>4. QED
      BY <2>1, <2>2, <3>1, <3>3, FlightGoesOn
  <2>3. CASE scan.at = "converted"
    <3>1. PICK f : IsTask(f) /\ Fit(f) /\ Converted(f)
      BY <2>3 DEF FlightInv
    <3>2. IsTask(f)'
      BY <2>1, <3>1, TaskStays
    <3>3. Converted(f)'
      BY <2>1, <3>1 DEF Converted
    <3>4. QED
      BY <2>1, <2>3, <3>1, <3>2, <3>3 DEF FlightInv
  <2>4. CASE scan.at # "converting" /\ scan.at # "converted"
    <3>1. HasItsPoint' = HasItsPoint
      BY <2>1 DEF HasItsPoint, Bytes
    <3>2. BuilderInit' = BuilderInit
      BY <2>1 DEF BuilderInit
    <3>3. QED
      BY <2>1, <2>4, <3>1, <3>2 DEF FlightInv
  <2>5. QED
    BY <2>2, <2>3, <2>4
<1>8. QED
  BY <1>1, <1>2, <1>3, <1>4, <1>5, <1>6, <1>7 DEF PlanNext

---------------------------------------------------------------------------
(* A trajectory that was converted flies the entry.                        *)
LEMMA ConvertedFlies ==
  ASSUME NEW f, IsTask(f), Fit(f), Converted(f), scan.at = "converted", result = "SUCCESS"
  PROVE  FliesTheEntry
<1> DEFINE e == scan.entry
           bytes == trajectory.contents
           begin == MsecPerSec * (Positive(e.time) + Positive(e.pre_delay))
           flight == MsecPerSec * (e.neck_duration + e.duration + Positive(e.post_delay))
<1>1. builder.scale = f.scale /\ heap = {trajectory.stor_begin} /\ Flown(f, bytes)
  BY DEF Converted
<1>2. /\ f.start = vehicle /\ f.goal = GoalOf(e) /\ f.wait = Delay(e)
      /\ f.end = begin + flight
  BY DEF IsTask, Delay
<1>3. f.scale \in 1 .. 127 /\ f.start \in [Axes -> Int] /\ f.goal \in [Axes -> Int]
  BY DEF Fit
<1>4. PICK way : /\ IsWay(bytes, way) /\ HasWaited(f, way)
                 /\ EndsAt(way, f.end, Kept(f.scale, f.goal))
  BY <1>1 DEF Flown
<1>5. Waypoints(bytes) = way
  BY <1>1, <1>4, WaypointsAre DEF Flown
<1>6. Begins(f) = [time |-> begin, position |-> Kept(f.scale, f.start)]
  BY <1>2 DEF Begins, Delay
<1>7. begin \in Nat
  <2>1. MsecPerSec \in Nat /\ f.wait \in Nat
    BY ScalingAssumption DEF Fit
  <2>2. begin = MsecPerSec * f.wait
    BY <1>2 DEF Delay
  <2> HIDE DEF begin
  <2>3. QED
    BY <2>1, <2>2
<1> HIDE DEF begin, flight
<1>8. Close(Kept(f.scale, f.start), vehicle)
  <2>1. Close(Kept(builder.scale, f.start), f.start)
    BY <1>1, <1>3, KeptClose
  <2>2. QED
    BY <1>1, <1>2, <2>1
<1>9. Close(Kept(f.scale, f.goal), GoalOf(e))
  <2>1. Close(Kept(builder.scale, f.goal), f.goal)
    BY <1>1, <1>3, KeptClose
  <2>2. QED
    BY <1>1, <1>2, <2>1
<1>10. ASSUME NEW w \in 1 .. Len(way), way[w].time <= begin
       PROVE  Close(way[w].position, vehicle) \/ way[w].time = begin
  <2>1. way[w].time \in Nat /\ (way[w].time < begin => way[w].position = Kept(f.scale, f.start))
    BY <1>4, <1>6 DEF HasWaited
  <2>2. CASE way[w].time < begin
    <3>1. way[w].position = Kept(f.scale, f.start)
      BY <2>1, <2>2
    <3>2. QED
      BY <1>8, <3>1
  <2>3. CASE ~(way[w].time < begin)
    BY <1>7, <1>10, <2>1, <2>3
  <2>4. QED
    BY <2>2, <2>3
<1>11. \E w \in 1 .. Len(way) : way[w].time = begin /\ Close(way[w].position, vehicle)
  <2>1. PICK w \in 1 .. Len(way) :
          way[w].time = Begins(f).time /\ way[w].position = Begins(f).position
    BY <1>4 DEF HasWaited, Met
  <2>2. way[w].time = begin /\ way[w].position = Kept(f.scale, f.start)
    BY <1>6, <2>1
  <2>3. Close(way[w].position, vehicle)
    BY <1>8, <2>2
  <2>4. QED
    BY <2>1, <2>2, <2>3
<1>12. way[Len(way)].time = begin + flight
  BY <1>2, <1>4 DEF EndsAt
<1>13. Close(way[Len(way)].position, GoalOf(e))
  <2>1. way[Len(way)].position = Kept(f.scale, f.goal)
    BY <1>4 DEF EndsAt
  <2>2. QED
    BY <1>9, <2>1
<1>14. Close(way[Len(way)].position,
             CASE e.action = "LAND" -> vehicle
               [] e.action = "KEEP_ALTITUDE" ->
                    [vehicle EXCEPT !.x = Target(e).x, !.y = Target(e).y]
               [] e.action = "WITH_ALTITUDE" ->
                    [vehicle EXCEPT !.x = Target(e).x, !.y = Target(e).y, !.z = e.altitude])
  BY <1>13, Zenon DEF GoalOf
<1>15. QED
  BY <1>1, <1>5, <1>10, <1>11, <1>12, <1>14, Zenon DEF FliesTheEntry, begin, flight

(* The invariants of the search and of the flight hold together.           *)
LEMMA FlightInvariant ==
  PlanSpec => [](PlanInv /\ OnlyConverting /\ FlightInv)
<1>1. PlanInit => PlanInv /\ OnlyConverting /\ FlightInv
  <2>1. PlanInit => OnlyConverting
    BY DEF PlanInit, OnlyConverting
  <2>2. PlanInit => FlightInv
    BY DEF PlanInit, FlightInv, BuilderInit
  <2>3. QED
    BY <2>1, <2>2, PlanStarts
<1>2. PlanInv /\ OnlyConverting /\ FlightInv /\ [PlanNext]_rthVars
        => (PlanInv /\ OnlyConverting /\ FlightInv)'
  BY PlanKept, OnlyConvertingKept, FlightKept
<1>3. QED
  BY <1>1, <1>2, PTL DEF PlanSpec

(* The scale that is chosen for a conversion is enough for every           *)
(* coordinate it writes, also for the midpoints of the lines it splits: no *)
(* call of the conversion is refused its arguments.                        *)
THEOREM ScaleSuffices == PlanSpec => []ScaleIsEnough
<1>1. FlightInv => ScaleIsEnough
  BY DEF FlightInv, Converting, ScaleIsEnough
<1>2. QED
  BY <1>1, FlightInvariant, PTL

(* Whatever the plan, the time and the place, a conversion that succeeds   *)
(* flies the entry: it waits at the start until the entry begins and its   *)
(* delay is over, ends at the goal to within the grid, takes as long as    *)
(* all of the entry, and leaves nothing allocated but its bytes.           *)
THEOREM EntryFlown == PlanSpec => []FliesTheEntry
<1>1. FlightInv => FliesTheEntry
  <2>1. SUFFICES ASSUME FlightInv, scan.at = "converted", result = "SUCCESS"
                 PROVE  FliesTheEntry
    BY DEF FliesTheEntry
  <2>2. PICK f : IsTask(f) /\ Fit(f) /\ Converted(f)
    BY <2>1 DEF FlightInv
  <2>3. QED
    BY <2>1, <2>2, ConvertedFlies
<1>2. QED
  BY <1>1, FlightInvariant, PTL
===========================================================================
