----------------------------- MODULE AmountProofs -----------------------------
(***************************************************************************)
(* Theorems about Amounts, for every base and every width of the two words. *)
(* What is said of every number of digits is shown by induction and         *)
(* recursion over sets and functions, for which the first two lemmas stand. *)
(***************************************************************************)
EXTENDS Amounts, FiniteSetTheorems, SequenceTheorems, TLAPS

-----------------------------------------------------------------------------
(* Induction and recursion over the naturals, for sets and functions *)

(* A set that holds 0 and the successor of each of its naturals holds them   *)
(* all: below a natural it missed, the missed ones would be closed under     *)
(* the predecessor, and map one to one into fewer.                           *)
LEMMA SetInduction ==
  ASSUME NEW S, 0 \in S, \A n \in Nat : n \in S => n + 1 \in S
  PROVE  \A n \in Nat : n \in S
<1>1. SUFFICES ASSUME NEW n \in Nat, n \notin S
               PROVE  FALSE
  OBVIOUS
<1> DEFINE Missed == (0 .. n) \ S
           Down   == [m \in Missed |-> m - 1]
<1>2. /\ IsFiniteSet(Missed) /\ IsFiniteSet(Missed \ {n})
      /\ Cardinality(Missed \ {n}) < Cardinality(Missed)
  <2>1. IsFiniteSet(0 .. n)
    BY FS_Interval
  <2>2. IsFiniteSet(Missed) /\ Cardinality(Missed) \in Nat
    BY <2>1, FS_Subset, FS_CardinalityType
  <2>3. n \in Missed
    BY <1>1
  <2> HIDE DEF Missed
  <2>4. IsFiniteSet(Missed \ {n}) /\ Cardinality(Missed \ {n}) = Cardinality(Missed) - 1
    BY <2>2, <2>3, FS_RemoveElement
  <2> QED BY <2>2, <2>4
<1>3. Down \in [Missed -> Missed \ {n}]
  <2>1. ASSUME NEW m \in Missed
        PROVE  m - 1 \in Missed \ {n}
    <3>1. m # 0 /\ m \in Nat /\ m <= n
      OBVIOUS
    <3>2. m - 1 \in Nat /\ m - 1 \notin S /\ (m - 1) + 1 = m
      BY <3>1
    <3> QED BY <3>1, <3>2
  <2> HIDE DEF Missed
  <2> QED BY <2>1
<1>4. \A x, y \in Missed : Down[x] = Down[y] => x = y
  OBVIOUS
<1> HIDE DEF Missed, Down
<1> QED BY <1>2, <1>3, <1>4, FS_PigeonHole

(* The function that begins at a and goes on with step.                      *)
GoesOn(f, A, a, step) ==
  f \in [Nat -> A] /\ f[0] = a /\ \A n \in Nat : f[n + 1] = step[n][f[n]]

(* A beginning and a step for each natural define a function on them all.    *)
LEMMA Recursion ==
  ASSUME NEW A, NEW a \in A, NEW step \in [Nat -> [A -> A]]
  PROVE  \E f : GoesOn(f, A, a, step)
<1> DEFINE Follows(n, g) ==
             g \in [0 .. n -> A] /\ g[0] = a /\ \A i \in 0 .. n - 1 : g[i + 1] = step[i][g[i]]
           Reached == {n \in Nat : \E g : Follows(n, g)}
           begun   == [n \in Nat |-> CHOOSE g : Follows(n, g)]
           f       == [n \in Nat |-> begun[n][n]]
<1>1. \A n \in Nat : n \in Reached
  <2>1. 0 \in Reached
    <3>1. Follows(0, [i \in 0 .. 0 |-> a])
      OBVIOUS
    <3> QED BY <3>1
  <2>2. ASSUME NEW n \in Nat, n \in Reached
        PROVE  n + 1 \in Reached
    <3>1. PICK g : Follows(n, g)
      BY <2>2
    <3> DEFINE h == [i \in 0 .. n + 1 |-> IF i = n + 1 THEN step[n][g[n]] ELSE g[i]]
    <3>2. g[n] \in A /\ step[n][g[n]] \in A
      BY <3>1
    <3>3. h \in [0 .. n + 1 -> A]
      BY <3>1, <3>2
    <3>4. h[0] = a
      BY <3>1
    <3>5. ASSUME NEW i \in 0 .. (n + 1) - 1
          PROVE  h[i + 1] = step[i][h[i]]
      <4>1. CASE i = n
        BY <4>1
      <4>2. CASE i # n
        <5>1. i \in 0 .. n - 1 /\ i \in 0 .. n + 1 /\ i + 1 \in 0 .. n + 1
              /\ i # n + 1 /\ i + 1 # n + 1
          BY <4>2
        <5>2. h[i + 1] = g[i + 1] /\ h[i] = g[i]
          BY <5>1
        <5> QED BY <3>1, <5>1, <5>2
      <4> QED BY <4>1, <4>2
    <3> HIDE DEF h
    <3>6. Follows(n + 1, h)
      BY <3>3, <3>4, <3>5
    <3> QED BY <3>6
  <2> HIDE DEF Reached
  <2> QED BY <2>1, <2>2, SetInduction
<1>2. \A n \in Nat : Follows(n, begun[n])
  <2>1. \A n \in Nat : \E g : Follows(n, g)
    BY <1>1
  <2> HIDE DEF Follows
  <2> QED BY <2>1
<1> HIDE DEF begun
<1>3. ASSUME NEW n \in Nat
      PROVE  /\ begun[n] \in [0 .. n -> A] /\ begun[n][0] = a
             /\ \A i \in 0 .. n - 1 : begun[n][i + 1] = step[i][begun[n][i]]
  BY <1>2
<1>4. ASSUME NEW n \in Nat
      PROVE  \A i \in Nat : i <= n => begun[n][i] = begun[n + 1][i]
  <2> DEFINE Same == {i \in Nat : i <= n => begun[n][i] = begun[n + 1][i]}
  <2>1. 0 \in Same
    BY <1>3
  <2>2. ASSUME NEW i \in Nat, i \in Same
        PROVE  i + 1 \in Same
    <3>1. CASE i + 1 <= n
      <4>1. i \in 0 .. n - 1 /\ i \in 0 .. (n + 1) - 1 /\ i <= n /\ n + 1 \in Nat
        BY <3>1
      <4>2. begun[n][i + 1] = step[i][begun[n][i]]
        BY <4>1, <1>3
      <4>3. begun[n + 1][i + 1] = step[i][begun[n + 1][i]]
        BY <4>1, <1>3
      <4> QED BY <2>2, <4>1, <4>2, <4>3
    <3>2. CASE ~(i + 1 <= n)
      BY <3>2
    <3> QED BY <3>1, <3>2
  <2> HIDE DEF Same
  <2>3. \A i \in Nat : i \in Same
    BY <2>1, <2>2, SetInduction
  <2> QED BY <2>3 DEF Same
<1>5. f \in [Nat -> A]
  <2>1. \A n \in Nat : begun[n][n] \in A
    BY <1>3
  <2> QED BY <2>1
<1>6. f[0] = a
  BY <1>3
<1>7. ASSUME NEW n \in Nat
      PROVE  f[n + 1] = step[n][f[n]]
  <2>1. n + 1 \in Nat /\ n \in 0 .. (n + 1) - 1 /\ n <= n
    OBVIOUS
  <2>2. begun[n + 1][n + 1] = step[n][begun[n + 1][n]]
    BY <2>1, <1>3
  <2>3. begun[n + 1][n] = begun[n][n]
    BY <2>1, <1>4
  <2> QED BY <2>1, <2>2, <2>3
<1> HIDE DEF f
<1> QED BY <1>5, <1>6, <1>7 DEF GoesOn

-----------------------------------------------------------------------------
(* Division *)

(* Quotient and rest, and that nothing else is either.                       *)
LEMMA Division ==
  ASSUME NEW n \in Nat, NEW b \in Nat \ {0}
  PROVE  /\ n \div b \in Nat /\ n % b \in 0 .. b - 1
         /\ n = b * (n \div b) + (n % b)
         /\ \A q \in Int, r \in 0 .. b - 1 : n = b * q + r => q = n \div b /\ r = n % b
<1>1. n \div b \in Nat /\ n % b \in 0 .. b - 1 /\ n = b * (n \div b) + (n % b)
  OBVIOUS
<1>2. ASSUME NEW q \in Int, NEW r \in 0 .. b - 1, n = b * q + r
      PROVE  q = n \div b /\ r = n % b
  BY <1>2
<1> QED BY <1>1, <1>2

(* Dividing twice is dividing once by the product.                           *)
LEMMA DivideTwice ==
  ASSUME NEW n \in Nat, NEW x \in Nat \ {0}, NEW b \in Nat \ {0}
  PROVE  b * x \in Nat \ {0} /\ (n \div x) \div b = n \div (b * x)
<1> DEFINE q == n \div x
           r == n % x
           p == q \div b
           t == q % b
<1>1. q \in Nat /\ r \in 0 .. x - 1 /\ n = x * q + r
  BY Division
<1>2. p \in Nat /\ t \in 0 .. b - 1 /\ q = b * p + t
  BY <1>1, Division
<1> HIDE DEF q, r, p, t
<1>3. b * x \in Nat \ {0}
  OBVIOUS
<1>4. x * t \in Nat /\ x * t <= x * (b - 1)
  BY <1>2
<1>5. x * (b - 1) = b * x - x
  OBVIOUS
<1>6. x * t + r \in 0 .. (b * x) - 1
  BY <1>1, <1>3, <1>4, <1>5
<1>7. n = (b * x) * p + (x * t + r)
  <2>1. x * q = x * (b * p) + x * t
    BY <1>1, <1>2
  <2>2. x * (b * p) = (b * x) * p
    BY <1>2
  <2> QED BY <1>1, <1>2, <2>1, <2>2
<1> DEFINE d == b * x
           e == x * t + r
<1>8. d \in Nat \ {0} /\ p \in Int /\ e \in 0 .. d - 1 /\ n = d * p + e
  BY <1>2, <1>3, <1>6, <1>7
<1> HIDE DEF d, e
<1>9. p = n \div d
  BY <1>8, Division
<1> QED BY <1>3, <1>9 DEF p, q, d

-----------------------------------------------------------------------------
(* Powers of the base *)

(* Power is the function its definition describes, and never zero.           *)
LEMMA PowerIs ==
  /\ Power[0] = 1
  /\ \A k \in Nat : Power[k] \in Nat \ {0} /\ Power[k + 1] = Base * Power[k]
<1> DEFINE times == [k \in Nat |-> [p \in Nat |-> Base * p]]
<1>1. Base \in Nat \ {0}
  BY AmountConstants
<1>2. times \in [Nat -> [Nat -> Nat]]
  BY <1>1
<1>3. PICK f : GoesOn(f, Nat, 1, times)
  <2> HIDE DEF times
  <2> QED BY <1>2, Recursion
<1>4. f = [k \in Nat |-> IF k = 0 THEN 1 ELSE Base * f[k - 1]]
  <2>1. ASSUME NEW k \in Nat
        PROVE  f[k] = IF k = 0 THEN 1 ELSE Base * f[k - 1]
    <3>1. CASE k = 0
      BY <3>1, <1>3 DEF GoesOn
    <3>2. CASE k # 0
      <4>1. k - 1 \in Nat /\ (k - 1) + 1 = k /\ f[k - 1] \in Nat
        BY <1>3, <3>2 DEF GoesOn
      <4>2. f[k] = times[k - 1][f[k - 1]]
        BY <4>1, <1>3 DEF GoesOn
      <4> QED BY <3>2, <4>1, <4>2
    <3> QED BY <3>1, <3>2
  <2>2. f = [k \in Nat |-> f[k]]
    BY <1>3 DEF GoesOn
  <2> QED BY <2>1, <2>2
<1>5. Power = [k \in Nat |-> IF k = 0 THEN 1 ELSE Base * Power[k - 1]]
  BY <1>4 DEF Power
<1>6. Power[0] = 1
  BY <1>5
<1>7. \A k \in Nat : Power[k + 1] = Base * Power[k]
  BY <1>5
<1>8. \A k \in Nat : Power[k] \in Nat \ {0}
  <2> DEFINE Positive == {k \in Nat : Power[k] \in Nat \ {0}}
  <2>1. 0 \in Positive
    BY <1>6
  <2>2. ASSUME NEW k \in Nat, k \in Positive
        PROVE  k + 1 \in Positive
    BY <1>1, <1>7, <2>2
  <2> HIDE DEF Positive
  <2>3. \A k \in Nat : k \in Positive
    BY <2>1, <2>2, SetInduction
  <2> QED BY <2>3 DEF Positive
<1> QED BY <1>6, <1>7, <1>8

(* More digits hold more.                                                    *)
LEMMA PowersGrow ==
  ASSUME NEW k \in Nat
  PROVE  /\ Power[k] < Power[k + 1]
         /\ \A j \in Nat : Power[k] <= Power[k + j]
<1>1. ASSUME NEW i \in Nat
      PROVE  Power[i] < Power[i + 1]
  <2>1. Power[i] \in Nat \ {0} /\ Power[i + 1] = Base * Power[i]
    BY PowerIs
  <2>2. Base \in Nat /\ Base >= 2
    BY AmountConstants
  <2> QED BY <2>1, <2>2
<1> DEFINE Above == {j \in Nat : Power[k] <= Power[k + j]}
<1>2. 0 \in Above
  BY PowerIs
<1>3. ASSUME NEW j \in Nat, j \in Above
      PROVE  j + 1 \in Above
  <2>1. k + j \in Nat /\ k + (j + 1) = (k + j) + 1
    OBVIOUS
  <2>2. Power[k + j] < Power[(k + j) + 1]
    BY <2>1, <1>1
  <2>3. Power[k] \in Nat /\ Power[k + j] \in Nat /\ Power[(k + j) + 1] \in Nat
    BY <2>1, PowerIs
  <2> QED BY <1>3, <2>1, <2>2, <2>3
<1> HIDE DEF Above
<1>4. \A j \in Nat : j \in Above
  BY <1>2, <1>3, SetInduction
<1> QED BY <1>1, <1>4 DEF Above

-----------------------------------------------------------------------------
(* Reading and writing digits *)

(* What has been read of s after each of its bytes.                          *)
Reads(read, s) ==
  /\ read \in [0 .. Len(s) -> Nat] /\ read[0] = 0
  /\ \A i \in 1 .. Len(s) : read[i] = read[i - 1] * Base + s[i]
  /\ FromBigEndian(s) = read[Len(s)]

(* from_be_slice is defined on every sequence of bytes.                      *)
LEMMA Reading ==
  ASSUME NEW s \in Seq(Octets)
  PROVE  \E read : Reads(read, s)
<1> DEFINE last == Len(s)
           byte == [i \in Nat |-> [p \in Nat |-> IF i < last THEN p * Base + s[i + 1] ELSE 0]]
           read == CHOOSE g : g = [i \in 0 .. last |->
                                     IF i = 0 THEN 0 ELSE g[i - 1] * Base + s[i]]
<1>1. last \in Nat /\ Base \in Nat /\ \A i \in 1 .. last : s[i] \in Nat
  BY AmountConstants DEF Octets
<1>2. byte \in [Nat -> [Nat -> Nat]]
  <2>1. ASSUME NEW i \in Nat, NEW p \in Nat
        PROVE  (IF i < last THEN p * Base + s[i + 1] ELSE 0) \in Nat
    <3>1. CASE i < last
      <4>1. i + 1 \in 1 .. last
        BY <3>1, <1>1
      <4>2. s[i + 1] \in Nat /\ p * Base \in Nat
        BY <4>1, <1>1
      <4> QED BY <3>1, <4>2
    <3>2. CASE ~(i < last)
      BY <3>2
    <3> QED BY <3>1, <3>2
  <2> HIDE DEF last
  <2> QED BY <2>1
<1>3. PICK f : GoesOn(f, Nat, 0, byte)
  <2> HIDE DEF byte
  <2> QED BY <1>2, Recursion
<1> HIDE DEF last
<1>4. \E g : g = [i \in 0 .. last |-> IF i = 0 THEN 0 ELSE g[i - 1] * Base + s[i]]
  <2> DEFINE g == [i \in 0 .. last |-> f[i]]
  <2>1. ASSUME NEW i \in 0 .. last
        PROVE  g[i] = IF i = 0 THEN 0 ELSE g[i - 1] * Base + s[i]
    <3>1. CASE i = 0
      BY <3>1, <1>3 DEF GoesOn
    <3>2. CASE i # 0
      <4>1. i - 1 \in Nat /\ i - 1 \in 0 .. last /\ (i - 1) + 1 = i /\ i - 1 < last
        BY <1>1, <3>2
      <4>2. f[i - 1] \in Nat
        BY <1>3, <4>1 DEF GoesOn
      <4>3. f[i] = byte[i - 1][f[i - 1]]
        BY <1>3, <4>1 DEF GoesOn
      <4>4. byte[i - 1][f[i - 1]] = f[i - 1] * Base + s[i]
        BY <4>1, <4>2
      <4> QED BY <3>2, <4>1, <4>3, <4>4
    <3> QED BY <3>1, <3>2
  <2>2. g = [i \in 0 .. last |-> g[i]]
    OBVIOUS
  <2> HIDE DEF g
  <2>3. g = [i \in 0 .. last |-> IF i = 0 THEN 0 ELSE g[i - 1] * Base + s[i]]
    BY <2>1, <2>2
  <2> QED BY <2>3
<1>5. read = [i \in 0 .. last |-> IF i = 0 THEN 0 ELSE read[i - 1] * Base + s[i]]
  BY <1>4
<1>6. FromBigEndian(s) = read[last]
  BY DEF FromBigEndian, last
<1> HIDE DEF read, byte
<1>7. read[0] = 0
  BY <1>1, <1>5
<1>8. ASSUME NEW i \in 1 .. last
      PROVE  read[i] = read[i - 1] * Base + s[i]
  <2>1. i \in 0 .. last /\ i # 0
    BY <1>1
  <2> QED BY <1>5, <2>1
<1>9. \A i \in 0 .. last : read[i] \in Nat
  <2> DEFINE Natural == {i \in Nat : i <= last => read[i] \in Nat}
  <2>1. 0 \in Natural
    BY <1>7
  <2>2. ASSUME NEW i \in Nat, i \in Natural
        PROVE  i + 1 \in Natural
    <3>1. CASE i + 1 <= last
      <4>1. i + 1 \in 1 .. last /\ (i + 1) - 1 = i /\ i <= last
        BY <1>1, <3>1
      <4>2. read[i + 1] = read[i] * Base + s[i + 1]
        BY <1>8, <4>1
      <4>3. read[i] \in Nat /\ s[i + 1] \in Nat
        BY <1>1, <2>2, <4>1
      <4>4. read[i] * Base \in Nat
        BY <1>1, <4>3
      <4> QED BY <4>2, <4>3, <4>4
    <3>2. CASE ~(i + 1 <= last)
      BY <3>2
    <3> QED BY <3>1, <3>2
  <2> HIDE DEF Natural
  <2>3. \A i \in Nat : i \in Natural
    BY <2>1, <2>2, SetInduction
  <2> QED BY <1>1, <2>3 DEF Natural
<1>10. read \in [0 .. last -> Nat]
  BY <1>5, <1>9
<1> QED BY <1>6, <1>7, <1>8, <1>10 DEF Reads, last

(* to_be_bytes gives as many bytes as it is asked for.                       *)
LEMMA DigitsType ==
  ASSUME NEW n \in Nat, NEW k \in Nat
  PROVE  /\ BigEndian(n, k) \in Seq(Octets) /\ Len(BigEndian(n, k)) = k
         /\ \A i \in 1 .. k : BigEndian(n, k)[i] = (n \div Power[k - i]) % Base
<1> DEFINE s == BigEndian(n, k)
<1>1. DOMAIN s = 1 .. k /\ s = [i \in 1 .. k |-> s[i]]
  BY DEF BigEndian
<1>2. \A i \in 1 .. k : s[i] = (n \div Power[k - i]) % Base
  BY DEF BigEndian
<1>3. ASSUME NEW i \in 1 .. k
      PROVE  s[i] \in Octets
  <2>1. k - i \in Nat
    OBVIOUS
  <2>2. n \div Power[k - i] \in Nat
    BY <2>1, PowerIs, Division
  <2>3. Base \in Nat \ {0}
    BY AmountConstants
  <2>4. (n \div Power[k - i]) % Base \in 0 .. Base - 1
    BY <2>2, <2>3, Division
  <2> QED BY <1>2, <2>4 DEF Octets
<1> HIDE DEF s
<1>4. s \in [1 .. k -> Octets]
  BY <1>1, <1>3
<1>5. s \in Seq(Octets) /\ Len(s) = k
  BY <1>4
<1> QED BY <1>2, <1>5 DEF s

(* The digits of a number that fits read back as the number: after the first *)
(* i of them it is what the rest does not weigh.                             *)
LEMMA DigitsReadBack ==
  ASSUME NEW n \in Nat, NEW k \in Nat, n < Power[k]
  PROVE  FromBigEndian(BigEndian(n, k)) = n
<1> DEFINE s == BigEndian(n, k)
<1>1. /\ s \in Seq(Octets) /\ Len(s) = k
      /\ \A i \in 1 .. k : s[i] = (n \div Power[k - i]) % Base
  BY DigitsType
<1> HIDE DEF s
<1>2. PICK read : Reads(read, s)
  BY <1>1, Reading
<1>3. Base \in Nat \ {0}
  BY AmountConstants
<1> DEFINE Right == {i \in Nat : i <= k => read[i] = n \div Power[k - i]}
<1>4. 0 \in Right
  <2>1. Power[k] \in Nat \ {0}
    BY PowerIs
  <2>2. n = Power[k] * 0 + n /\ n \in 0 .. Power[k] - 1
    BY <2>1
  <2>3. n \div Power[k] = 0
    BY <2>1, <2>2, Division
  <2>4. k - 0 = k
    OBVIOUS
  <2> QED BY <1>2, <2>3, <2>4 DEF Reads
<1>5. ASSUME NEW i \in Nat, i \in Right
      PROVE  i + 1 \in Right
  <2>1. CASE i + 1 <= k
    <3> DEFINE w == Power[k - (i + 1)]
               m == n \div w
    <3>1. k - (i + 1) \in Nat /\ (k - (i + 1)) + 1 = k - i /\ i <= k
      BY <2>1
    <3>2. w \in Nat \ {0} /\ Power[k - i] = Base * w
      BY <3>1, PowerIs
    <3>3. m \in Nat
      BY <3>2, Division
    <3>4. read[i] = m \div Base
      <4>1. m \div Base = n \div (Base * w)
        BY <1>3, <3>2, DivideTwice
      <4> QED BY <1>5, <3>1, <3>2, <4>1
    <3>5. s[i + 1] = m % Base
      BY <1>1, <2>1
    <3>6. m = Base * (m \div Base) + (m % Base)
      BY <1>3, <3>3, Division
    <3>7. read[i + 1] = read[i] * Base + s[i + 1]
      <4>1. i + 1 \in 1 .. Len(s) /\ (i + 1) - 1 = i
        BY <1>1, <2>1
      <4> QED BY <1>2, <4>1 DEF Reads
    <3>8. m \div Base \in Nat /\ m % Base \in Nat
      BY <1>3, <3>3, Division
    <3> HIDE DEF m, w
    <3>9. read[i + 1] = m
      BY <1>3, <3>3, <3>4, <3>5, <3>6, <3>7, <3>8
    <3> QED BY <2>1, <3>9 DEF m, w
  <2>2. CASE ~(i + 1 <= k)
    BY <2>2
  <2> QED BY <2>1, <2>2
<1> HIDE DEF Right
<1>6. k \in Right
  BY <1>4, <1>5, SetInduction
<1>7. n \div Power[k - k] = n
  <2>1. k - k = 0 /\ n \div 1 = n
    OBVIOUS
  <2> QED BY <2>1, PowerIs
<1>8. read[k] = n
  BY <1>6, <1>7 DEF Right
<1> QED BY <1>1, <1>2, <1>8 DEF Reads, s

(* And bytes are the digits of the number they read as; it has as many as    *)
(* there are bytes, unless the first is none.                                *)
LEMMA BytesAreDigits ==
  ASSUME NEW s \in Seq(Octets)
  PROVE  LET v == FromBigEndian(s)
             k == Len(s)
         IN  /\ v \in Nat /\ v < Power[k] /\ BigEndian(v, k) = s
             /\ s # << >> /\ s[1] # 0 => v >= Power[k - 1]
<1> DEFINE v == FromBigEndian(s)
           k == Len(s)
<1>1. /\ k \in Nat /\ Base \in Nat \ {0}
      /\ \A i \in 1 .. k : s[i] \in 0 .. Base - 1
  BY AmountConstants DEF Octets
<1>2. PICK read : Reads(read, s)
  BY Reading
<1>3. /\ read[0] = 0 /\ v = read[k] /\ \A i \in 0 .. k : read[i] \in Nat
      /\ \A i \in 1 .. k : read[i] = read[i - 1] * Base + s[i]
  BY <1>2 DEF Reads
<1> HIDE DEF v, k
<1>4. v \in Nat
  BY <1>1, <1>3
<1> DEFINE Right == {j \in Nat : j <= k => v \div Power[j] = read[k - j]}
<1>5. \A j \in Nat : j \in Right
  <2>1. 0 \in Right
    <3>1. k - 0 = k /\ v \div 1 = v
      BY <1>1, <1>4
    <3> QED BY <1>3, <3>1, PowerIs
  <2>2. ASSUME NEW j \in Nat, j \in Right
        PROVE  j + 1 \in Right
    <3>1. CASE j + 1 <= k
      <4> DEFINE i == k - j
                 m == v \div Power[j]
      <4>1. i \in 1 .. k /\ i - 1 \in 0 .. k /\ i \in 0 .. k /\ j <= k /\ i - 1 = k - (j + 1)
        BY <1>1, <3>1
      <4>2. m = read[i]
        BY <2>2, <4>1
      <4> HIDE DEF i, m
      <4>3. m = read[i - 1] * Base + s[i]
        BY <1>3, <4>1, <4>2
      <4>4. m \in Nat /\ read[i - 1] \in Nat /\ s[i] \in 0 .. Base - 1
        BY <1>1, <1>3, <4>1, <4>2
      <4> DEFINE q == read[i - 1]
                 r == s[i]
      <4>5. q \in Int /\ r \in 0 .. Base - 1 /\ m = Base * q + r
        BY <1>1, <4>3, <4>4
      <4> HIDE DEF q, r
      <4>6. q = m \div Base
        BY <1>1, <4>4, <4>5, Division
      <4>7. m \div Base = v \div Power[j + 1]
        <5>1. Power[j] \in Nat \ {0} /\ Power[j + 1] = Base * Power[j]
          BY PowerIs
        <5> QED BY <1>1, <1>4, <5>1, DivideTwice DEF m
      <4> QED BY <4>1, <4>6, <4>7 DEF q
    <3>2. CASE ~(j + 1 <= k)
      BY <3>2
    <3> QED BY <3>1, <3>2
  <2> HIDE DEF Right
  <2> QED BY <2>1, <2>2, SetInduction
<1>6. \A j \in 0 .. k : v \div Power[j] = read[k - j]
  BY <1>1, <1>5
<1>7. v < Power[k]
  <2>1. Power[k] \in Nat \ {0}
    BY <1>1, PowerIs
  <2>2. v \div Power[k] = 0
    <3>1. k \in 0 .. k /\ k - k = 0
      BY <1>1
    <3> QED BY <1>3, <1>6, <3>1
  <2> DEFINE w == Power[k]
             r == v % w
  <2>3. r \in 0 .. w - 1 /\ v = w * 0 + r
    BY <1>4, <2>1, <2>2, Division
  <2> HIDE DEF w, r
  <2>4. w \in Nat
    BY <2>1 DEF w
  <2>5. v < w
    BY <2>3, <2>4
  <2> QED BY <2>5 DEF w
<1>8. BigEndian(v, k) = s
  <2>1. /\ BigEndian(v, k) \in Seq(Octets) /\ Len(BigEndian(v, k)) = k
        /\ \A i \in 1 .. k : BigEndian(v, k)[i] = (v \div Power[k - i]) % Base
    BY <1>1, <1>4, DigitsType
  <2>2. ASSUME NEW i \in 1 .. k
        PROVE  BigEndian(v, k)[i] = s[i]
    <3> DEFINE m == v \div Power[k - i]
    <3>1. k - i \in 0 .. k /\ k - (k - i) = i /\ i - 1 \in 0 .. k /\ i \in 0 .. k
      BY <1>1
    <3>2. m = read[i]
      BY <1>6, <3>1
    <3>3. BigEndian(v, k)[i] = m % Base
      BY <2>1
    <3> HIDE DEF m
    <3>4. m \in Nat /\ read[i - 1] \in Nat /\ s[i] \in 0 .. Base - 1
      BY <1>1, <1>3, <3>1, <3>2
    <3>5. m = read[i - 1] * Base + s[i]
      BY <1>3, <3>2
    <3> DEFINE q == read[i - 1]
               r == s[i]
    <3>6. q \in Int /\ r \in 0 .. Base - 1 /\ m = Base * q + r
      BY <1>1, <3>4, <3>5
    <3> HIDE DEF q, r
    <3>7. r = m % Base
      BY <1>1, <3>4, <3>6, Division
    <3> QED BY <3>3, <3>7 DEF r
  <2> QED BY <2>1, <2>2, SeqEqual DEF k
<1>9. ASSUME s # << >>, s[1] # 0
      PROVE  v >= Power[k - 1]
  <2>1. k - 1 \in 0 .. k /\ k - 1 \in Nat /\ k - (k - 1) = 1 /\ 1 \in 1 .. k
    <3>1. k # 0
      BY <1>9, EmptySeq DEF k
    <3> QED BY <1>1, <3>1
  <2>2. read[1] >= 1 /\ read[1] \in Nat
    <3>1. read[1] = read[1 - 1] * Base + s[1] /\ 1 - 1 = 0
      BY <1>3, <2>1
    <3>2. s[1] \in Nat /\ s[1] # 0
      BY <1>1, <1>9, <2>1
    <3> QED BY <1>1, <1>3, <3>1, <3>2
  <2> DEFINE w == Power[k - 1]
             r == v % w
  <2>3. w \in Nat \ {0}
    BY <2>1, PowerIs
  <2>4. v \div w = read[1]
    BY <1>6, <2>1
  <2>5. r \in 0 .. w - 1 /\ v = w * read[1] + r
    BY <1>4, <2>3, <2>4, Division
  <2> HIDE DEF w, r
  <2>6. w * read[1] >= w
    BY <2>2, <2>3
  <2>7. v >= w
    BY <2>2, <2>3, <2>5, <2>6
  <2> QED BY <2>7 DEF w
<1> QED BY <1>4, <1>7, <1>8, <1>9 DEF v, k

-----------------------------------------------------------------------------
(* The encoders and the decoder *)

(* n has k digits and the first of them, if there is one, is not zero.       *)
Spans(n, k) == k \in Nat /\ n < Power[k] /\ (k > 0 => n >= Power[k - 1])

(* Every number has a number of digits.                                      *)
LEMMA Spanned ==
  ASSUME NEW n \in Nat, NEW m \in Nat, n < Power[m]
  PROVE  \E k \in 0 .. m : Spans(n, k)
<1> DEFINE Some == {j \in Nat : n < Power[j] => \E k \in 0 .. j : Spans(n, k)}
<1>1. 0 \in Some
  BY DEF Spans
<1>2. ASSUME NEW j \in Nat, j \in Some
      PROVE  j + 1 \in Some
  <2>1. CASE n < Power[j]
    <3>1. PICK k \in 0 .. j : Spans(n, k)
      BY <1>2, <2>1
    <3>2. k \in 0 .. j + 1
      OBVIOUS
    <3> QED BY <3>1, <3>2
  <2>2. CASE ~(n < Power[j])
    <3>1. Power[j] \in Nat /\ (j + 1) - 1 = j
      BY PowerIs
    <3>2. n < Power[j + 1] => Spans(n, j + 1)
      BY <2>2, <3>1 DEF Spans
    <3>3. j + 1 \in 0 .. j + 1
      OBVIOUS
    <3> QED BY <3>2, <3>3
  <2> QED BY <2>1, <2>2
<1> HIDE DEF Some
<1>3. m \in Some
  BY <1>1, <1>2, SetInduction
<1> QED BY <1>3 DEF Some

(* The length encode_uint chooses is the only one it can.                    *)
LEMMA EncodeIs ==
  ASSUME NEW n \in Nat, NEW k \in 0 .. Word, Spans(n, k)
  PROVE  EncodeUint(n) = BigEndian(n, k)
<1> DEFINE Least(j) == n < Power[j] /\ \A i \in 0 .. j - 1 : n >= Power[i]
<1>0. Word \in Nat
  BY AmountConstants
<1>1. Least(k)
  <2>1. ASSUME NEW i \in 0 .. k - 1
        PROVE  n >= Power[i]
    <3>1. i \in Nat /\ (k - 1) - i \in Nat /\ i + ((k - 1) - i) = k - 1 /\ k - 1 \in Nat /\ k > 0
      BY <1>0
    <3>2. Power[i] <= Power[i + ((k - 1) - i)]
      BY <3>1, PowersGrow
    <3>3. Power[i] \in Nat /\ Power[k - 1] \in Nat /\ n >= Power[k - 1]
      BY <3>1, PowerIs DEF Spans
    <3> QED BY <3>1, <3>2, <3>3
  <2> QED BY <2>1 DEF Spans
<1>2. ASSUME NEW j \in 0 .. Word, Least(j)
      PROVE  j = k
  <2>1. Power[j] \in Nat /\ Power[k] \in Nat
    BY <1>0, PowerIs
  <2>2. ~(j < k)
    <3>1. SUFFICES ASSUME j < k PROVE FALSE
      OBVIOUS
    <3>2. j \in 0 .. k - 1
      BY <1>0, <3>1
    <3> QED BY <1>1, <1>2, <2>1, <3>2
  <2>3. ~(k < j)
    <3>1. SUFFICES ASSUME k < j PROVE FALSE
      OBVIOUS
    <3>2. k \in 0 .. j - 1
      BY <1>0, <3>1
    <3> QED BY <1>1, <1>2, <2>1, <3>2
  <2> QED BY <1>0, <2>2, <2>3
<1>3. (CHOOSE j \in 0 .. Word : Least(j)) = k
  <2> HIDE DEF Least
  <2> QED BY <1>1, <1>2
<1> QED BY <1>3 DEF EncodeUint

(* What is below the divisor is not divided.                                 *)
LEMMA SmallQuotient ==
  ASSUME NEW n \in Nat, NEW w \in Nat \ {0}, n < w
  PROVE  n \div w = 0
BY Division

(* The leading digit of a number that needs all of its digits is set.        *)
LEMMA LeadingDigit ==
  ASSUME NEW n \in Nat, NEW k \in Nat \ {0}, Spans(n, k)
  PROVE  (n \div Power[k - 1]) % Base # 0
<1> DEFINE w == Power[k - 1]
           q == n \div w
           r == n % w
<1>1. Base \in Nat \ {0} /\ w \in Nat \ {0} /\ Power[k] = Base * w
  <2>1. k - 1 \in Nat /\ (k - 1) + 1 = k
    OBVIOUS
  <2>2. Power[(k - 1) + 1] = Base * Power[k - 1]
    BY <2>1, PowerIs
  <2> QED BY <2>1, <2>2, PowerIs, AmountConstants
<1>2. n >= w /\ n < Base * w
  BY <1>1 DEF Spans
<1>3. q \in Nat /\ r \in 0 .. w - 1 /\ n = w * q + r
  BY <1>1, Division
<1> HIDE DEF w, q, r
<1>4. q # 0
  BY <1>1, <1>2, <1>3
<1>5. q < Base
  <2>1. SUFFICES ASSUME q >= Base PROVE FALSE
    BY <1>1, <1>3
  <2>2. w * q >= w * Base
    BY <1>1, <1>3, <2>1
  <2>3. w * Base = Base * w
    BY <1>1
  <2> QED BY <1>1, <1>2, <1>3, <2>2, <2>3
<1>6. q % Base = q
  BY <1>1, <1>3, <1>5
<1> QED BY <1>4, <1>6 DEF q, w

(* What encode_uint writes, decode_uint reads.                               *)
LEMMA EncodingReadsBack ==
  ASSUME NEW n \in Uint
  PROVE  /\ EncodeUint(n) \in Seq(Octets) /\ Len(EncodeUint(n)) <= Word
         /\ DecodeUint(EncodeUint(n)) = n
<1>1. n \in Nat /\ Word \in Nat /\ n < Power[Word]
  BY AmountConstants, PowerIs DEF Uint
<1>2. PICK k \in 0 .. Word : Spans(n, k)
  BY <1>1, Spanned
<1> DEFINE s == BigEndian(n, k)
<1>3. EncodeUint(n) = s
  BY <1>1, <1>2, EncodeIs
<1>4. /\ s \in Seq(Octets) /\ Len(s) = k
      /\ \A i \in 1 .. k : s[i] = (n \div Power[k - i]) % Base
  BY <1>1, <1>2, DigitsType DEF Spans
<1>5. FromBigEndian(s) = n
  BY <1>1, <1>2, DigitsReadBack DEF Spans
<1> HIDE DEF s
<1>6. s # << >> => s[1] # 0
  <2>1. SUFFICES ASSUME s # << >> PROVE s[1] # 0
    OBVIOUS
  <2>2. k \in Nat \ {0} /\ 1 \in 1 .. k
    BY <1>4, <2>1, EmptySeq
  <2> QED BY <1>1, <1>2, <1>4, <2>2, LeadingDigit
<1>7. DecodeUint(s) = n
  BY <1>1, <1>4, <1>5, <1>6 DEF DecodeUint
<1> QED BY <1>1, <1>3, <1>4, <1>7

(* What decode_uint accepts, encode_uint would have written.                 *)
LEMMA AcceptedIsEncoded ==
  ASSUME NEW s \in Seq(Octets), DecodeUint(s) # Reject
  PROVE  DecodeUint(s) \in Uint /\ EncodeUint(DecodeUint(s)) = s
<1> DEFINE v == FromBigEndian(s)
           k == Len(s)
<1>1. k \in Nat /\ Word \in Nat
  BY AmountConstants
<1>2. k <= Word /\ (s # << >> => s[1] # 0) /\ DecodeUint(s) = v
  BY <1>1 DEF DecodeUint
<1>3. /\ v \in Nat /\ v < Power[k] /\ BigEndian(v, k) = s
      /\ s # << >> => v >= Power[k - 1]
  BY <1>2, BytesAreDigits
<1>4. k > 0 => s # << >>
  BY EmptySeq
<1> HIDE DEF v, k
<1>5. k \in 0 .. Word /\ Spans(v, k)
  BY <1>1, <1>2, <1>3, <1>4 DEF Spans
<1>6. EncodeUint(v) = s
  BY <1>3, <1>5, EncodeIs
<1>7. v \in Uint
  <2>1. Word - k \in Nat /\ k + (Word - k) = Word
    BY <1>1, <1>2
  <2>2. Power[k] <= Power[k + (Word - k)]
    BY <1>1, <2>1, PowersGrow
  <2>3. Power[k] \in Nat /\ Power[Word] \in Nat
    BY <1>1, PowerIs
  <2> QED BY <1>3, <2>1, <2>2, <2>3 DEF Uint
<1> QED BY <1>2, <1>6, <1>7

(* The echo venue cuts a native word at its first byte that is set, and has  *)
(* what encode_uint makes of the same number.                                *)
LEMMA EncodersAgree ==
  ASSUME NEW n \in Native
  PROVE  n \in Uint /\ MinimalBe(n) = EncodeUint(n)
<1>1. /\ n \in Nat /\ Half \in Nat /\ Word \in Nat /\ Half < Word /\ n < Power[Half]
      /\ Base \in Nat \ {0}
  BY AmountConstants, PowerIs DEF Native
<1>2. n \in Uint
  <2>1. Word - Half \in Nat /\ Half + (Word - Half) = Word
    BY <1>1
  <2>2. Power[Half] <= Power[Half + (Word - Half)]
    BY <1>1, <2>1, PowersGrow
  <2>3. Power[Half] \in Nat /\ Power[Word] \in Nat
    BY <1>1, PowerIs
  <2> QED BY <1>1, <2>1, <2>2, <2>3 DEF Uint
<1>3. PICK k \in 0 .. Half : Spans(n, k)
  BY <1>1, Spanned
<1> DEFINE word == BigEndian(n, Half)
           short == BigEndian(n, k)
<1>4. k \in Nat /\ k \in 0 .. Word /\ EncodeUint(n) = short
  BY <1>1, <1>3, EncodeIs
<1>5. /\ word \in Seq(Octets) /\ Len(word) = Half
      /\ \A i \in 1 .. Half : word[i] = (n \div Power[Half - i]) % Base
  BY <1>1, DigitsType
<1>6. /\ short \in Seq(Octets) /\ Len(short) = k
      /\ \A i \in 1 .. k : short[i] = (n \div Power[k - i]) % Base
  BY <1>1, <1>4, DigitsType
<1>7. ASSUME NEW i \in 1 .. Half, i <= Half - k
      PROVE  word[i] = 0
  <2>1. (Half - i) - k \in Nat /\ k + ((Half - i) - k) = Half - i /\ Half - i \in Nat
    BY <1>1, <1>4, <1>7
  <2>2. Power[k] <= Power[k + ((Half - i) - k)]
    BY <1>4, <2>1, PowersGrow
  <2>3. Power[k] \in Nat /\ Power[Half - i] \in Nat \ {0}
    BY <1>4, <2>1, PowerIs
  <2>4. n < Power[Half - i]
    BY <1>1, <1>3, <2>1, <2>2, <2>3 DEF Spans
  <2>5. n \div Power[Half - i] = 0
    BY <1>1, <2>3, <2>4, SmallQuotient
  <2>6. 0 % Base = 0
    BY <1>1
  <2> QED BY <1>5, <2>5, <2>6
<1> HIDE DEF word, short
<1>8. CASE k = 0
  <2>1. \A i \in 1 .. Half : word[i] = 0
    BY <1>1, <1>7, <1>8
  <2>2. MinimalBe(n) = << >>
    BY <2>1 DEF MinimalBe, word
  <2>3. short = << >>
    BY <1>6, <1>8, EmptySeq
  <2> QED BY <1>2, <1>4, <2>2, <2>3
<1>9. CASE k # 0
  <2> DEFINE first == (Half - k) + 1
  <2>1. /\ first \in 1 .. Half /\ Half - first = k - 1 /\ k \in Nat \ {0} /\ k <= Half
        /\ (Half - first) + 1 = k
    BY <1>1, <1>3, <1>9
  <2>2. word[first] # 0
    <3>1. word[first] = (n \div Power[k - 1]) % Base
      BY <1>5, <2>1
    <3> QED BY <1>1, <1>3, <2>1, <3>1, LeadingDigit
  <2>3. \A j \in 1 .. first - 1 : word[j] = 0
    <3>1. ASSUME NEW j \in 1 .. first - 1
          PROVE  j \in 1 .. Half /\ j <= Half - k
      BY <1>1, <2>1
    <3> QED BY <1>7, <3>1
  <2> HIDE DEF first
  <2>4. (CHOOSE i \in 1 .. Half : word[i] # 0 /\ \A j \in 1 .. i - 1 : word[j] = 0) = first
    <3> DEFINE First(i) == word[i] # 0 /\ \A j \in 1 .. i - 1 : word[j] = 0
    <3>1. First(first)
      BY <2>2, <2>3
    <3>2. ASSUME NEW i \in 1 .. Half, First(i)
          PROVE  i = first
      <4>1. ~(i < first)
        <5>1. i < first => i \in 1 .. first - 1
          BY <1>1, <2>1
        <5> QED BY <2>3, <3>2, <5>1
      <4>2. ~(first < i)
        <5>1. first < i => first \in 1 .. i - 1
          BY <1>1, <2>1
        <5> QED BY <2>2, <3>2, <5>1
      <4> QED BY <1>1, <2>1, <4>1, <4>2
    <3> HIDE DEF First
    <3>3. (CHOOSE i \in 1 .. Half : First(i)) = first
      BY <2>1, <3>1, <3>2
    <3> QED BY <3>3 DEF First
  <2>5. MinimalBe(n) = SubSeq(word, first, Half)
    BY <2>1, <2>2, <2>4 DEF MinimalBe, word
  <2>6. SubSeq(word, first, Half) = short
    <3> DEFINE cut == SubSeq(word, first, Half)
    <3>1. /\ cut \in Seq(Octets) /\ Len(cut) = k
          /\ \A i \in 1 .. (Half - first) + 1 : cut[i] = word[(first + i) - 1]
      <4>1. \A i \in first .. Half : word[i] \in Octets
        BY <1>1, <1>5, <2>1
      <4>2. first \in Int /\ Half \in Int /\ first <= Half
        BY <1>1, <2>1
      <4> QED BY <2>1, <4>1, <4>2, SubSeqProperties
    <3>2. ASSUME NEW i \in 1 .. k
          PROVE  cut[i] = short[i]
      <4>1. /\ i \in 1 .. (Half - first) + 1 /\ (first + i) - 1 \in 1 .. Half
            /\ Half - ((first + i) - 1) = k - i
        BY <1>1, <2>1
      <4>2. cut[i] = (n \div Power[k - i]) % Base
        BY <1>5, <3>1, <4>1
      <4> QED BY <1>6, <4>2
    <3> HIDE DEF cut
    <3>3. cut = short
      BY <1>6, <3>1, <3>2, SeqEqual
    <3> QED BY <3>3 DEF cut
  <2> QED BY <1>2, <1>4, <2>5, <2>6
<1> QED BY <1>8, <1>9

(* Padding and bytes past the word are refused.                              *)
LEMMA OthersAreRefused ==
  ASSUME NEW n \in Uint
  PROVE  /\ DecodeUint(<<0>> \o EncodeUint(n)) = Reject
         /\ DecodeUint(<<1>> \o BigEndian(n, Word)) = Reject
<1>1. n \in Nat /\ Word \in Nat /\ 0 \in Octets /\ 1 \in Octets
  BY AmountConstants, PowerIs DEF Uint, Octets
<1>2. ASSUME NEW b \in Octets, NEW s \in Seq(Octets)
      PROVE  LET t == <<b>> \o s
             IN  t # << >> /\ t[1] = b /\ Len(t) = 1 + Len(s)
  <2> DEFINE one == <<b>>
             t == one \o s
  <2>1. one \in Seq(Octets) /\ Len(one) = 1 /\ one[1] = b
    OBVIOUS
  <2> HIDE DEF one
  <2>2. Len(t) = 1 + Len(s) /\ t[1] = one[1] /\ Len(s) \in Nat
    BY <2>1, ConcatProperties
  <2>3. t # << >>
    BY <2>2, EmptySeq
  <2> QED BY <2>1, <2>2, <2>3 DEF one
<1>3. DecodeUint(<<0>> \o EncodeUint(n)) = Reject
  <2> DEFINE t == <<0>> \o EncodeUint(n)
  <2>1. t # << >> /\ t[1] = 0
    BY <1>1, <1>2, EncodingReadsBack
  <2> HIDE DEF t
  <2>2. DecodeUint(t) = Reject
    BY <2>1 DEF DecodeUint
  <2> QED BY <2>2 DEF t
<1>4. DecodeUint(<<1>> \o BigEndian(n, Word)) = Reject
  <2> DEFINE t == <<1>> \o BigEndian(n, Word)
  <2>1. Len(t) = 1 + Word
    BY <1>1, <1>2, DigitsType
  <2>2. t # << >> /\ t[1] = 1
    BY <1>1, <1>2, DigitsType
  <2> HIDE DEF t
  <2>3. Len(t) > Word
    BY <1>1, <2>1
  <2>4. DecodeUint(t) = Reject
    BY <2>2, <2>3 DEF DecodeUint
  <2> QED BY <2>4 DEF t
<1> QED BY <1>3, <1>4

-----------------------------------------------------------------------------
(* What is published *)

(* A golden's header is what either encoder derives from its body.           *)
Golden(g) ==
  /\ \A encoder \in {"sdk", "echo"} : DeriveHeader(encoder, g.venue, g.body) = g.header
  /\ DecodeUint(g.header.gives.amount) = g.body.amount

AmountInv ==
  /\ received \in Seq(Octets)
  /\ \A v \in uintVectors : DecodeUint(v.bytes) = v.expect
  /\ \A g \in goldens : Golden(g)

LEMMA AmountInvInit == AmountInit => AmountInv
BY DEF AmountInit, AmountInv

LEMMA AmountInvStep == AmountInv /\ [AmountNext]_amountVars => AmountInv'
<1> SUFFICES ASSUME AmountInv, [AmountNext]_amountVars
             PROVE  AmountInv'
  OBVIOUS
<1>1. ASSUME NEW b \in Octets, ReadByte(b)
      PROVE  AmountInv'
  BY <1>1, AppendProperties DEF AmountInv, ReadByte, Golden
<1>2. ASSUME NEW n \in Uint, PublishVector(n)
      PROVE  AmountInv'
  <2> DEFINE whole  == [bytes |-> EncodeUint(n), expect |-> n]
             padded == [bytes |-> <<0>> \o EncodeUint(n), expect |-> Reject]
             long   == [bytes |-> <<1>> \o BigEndian(n, Word), expect |-> Reject]
             Fits(v) == DecodeUint(v.bytes) = v.expect
  <2>1. Fits(whole) /\ Fits(padded) /\ Fits(long)
    BY EncodingReadsBack, OthersAreRefused
  <2>2. PICK v \in {whole, padded, long} : uintVectors' = uintVectors \cup {v}
    BY <1>2 DEF PublishVector
  <2> HIDE DEF whole, padded, long
  <2>3. Fits(v)
    BY <2>1, <2>2
  <2>4. \A u \in uintVectors' : Fits(u)
    BY <2>2, <2>3 DEF AmountInv
  <2>5. received' = received /\ goldens' = goldens
    BY <1>2 DEF PublishVector
  <2> QED BY <2>4, <2>5 DEF AmountInv, Golden
<1>3. ASSUME NEW venue \in {"echo", "reference"}, NEW version \in {1, 2}, NEW n \in Native,
             RecordGolden(venue, [version |-> version, amount |-> n])
      PROVE  AmountInv'
  <2> DEFINE body == [version |-> version, amount |-> n]
             own  == IF venue = "echo" THEN "echo" ELSE "sdk"
             g    == [venue |-> venue, body |-> body, header |-> DeriveHeader(own, venue, body)]
  <2>1. goldens' = goldens \cup {g} /\ received' = received /\ uintVectors' = uintVectors
    BY <1>3 DEF RecordGolden
  <2>2. n \in Uint /\ Encoded("sdk", n) = EncodeUint(n) /\ Encoded("echo", n) = EncodeUint(n)
    BY EncodersAgree DEF Encoded
  <2>3. ASSUME NEW encoder \in {"sdk", "echo"}
        PROVE  DeriveHeader(encoder, venue, body) = DeriveHeader(own, venue, body)
    <3>1. Encoded(encoder, body.amount) = Encoded(own, body.amount)
      BY <2>2
    <3> HIDE DEF own
    <3> QED BY <3>1 DEF DeriveHeader, EchoHeader, ReferenceHeader
  <2>4. g.header.gives.amount = EncodeUint(n)
    <3>1. Encoded(own, n) = EncodeUint(n)
      BY <2>2
    <3> HIDE DEF own
    <3> QED BY <3>1 DEF DeriveHeader, EchoHeader, ReferenceHeader
  <2>5. DecodeUint(EncodeUint(n)) = n
    BY <2>2, EncodingReadsBack
  <2>6. g.venue = venue /\ g.body = body /\ g.header = DeriveHeader(own, venue, body)
        /\ body.amount = n
    OBVIOUS
  <2> HIDE DEF g, body
  <2>7. Golden(g)
    BY <2>3, <2>4, <2>5, <2>6 DEF Golden
  <2> QED BY <2>1, <2>7 DEF AmountInv
<1>4. CASE UNCHANGED amountVars
  BY <1>4 DEF AmountInv, amountVars, Golden
<1> QED BY <1>1, <1>2, <1>3, <1>4 DEF AmountNext

(* A number has one encoding, whichever of the two encoders writes it, and   *)
(* every amount the kit publishes reads back as itself (value_flow.rs 28,    *)
(* 38-46, 69-76; echo-venue lib.rs 182-189; header.rs 208-243; uint.rs       *)
(* 101-125, 146-171).                                                        *)
THEOREM AmountsAlwaysAgree == AmountSpec => []AmountsAgree
<1>1. AmountSpec => []AmountInv
  BY AmountInvInit, AmountInvStep, PTL DEF AmountSpec
<1>2. AmountInv => AmountsAgree
  <2> SUFFICES ASSUME AmountInv PROVE AmountsAgree
    OBVIOUS
  <2>1. goldens # {} => HeadersConform("sdk") /\ HeadersConform("echo")
    BY DEF AmountInv, Golden, HeadersConform
  <2>2. \A g \in goldens : DecodeUint(g.header.gives.amount) = g.body.amount
    BY DEF AmountInv, Golden
  <2>3. uintVectors # {} => DecoderConforms
    BY DEF AmountInv, DecoderConforms
  <2>4. DecodeUint(received) # Reject =>
          /\ DecodeUint(received) \in Uint
          /\ EncodeUint(DecodeUint(received)) = received
    BY AcceptedIsEncoded DEF AmountInv
  <2> QED BY <2>1, <2>2, <2>3, <2>4 DEF AmountsAgree
<1> QED BY <1>1, <1>2, PTL

===============================================================================
