----------------------------- MODULE Ntt_proofs -----------------------------
(***************************************************************************)
(* ntt.c computes the transform of any vector, whatever the order of the   *)
(* commands, until a product passes 32 bits.                               *)
(*                                                                         *)
(* The residues of 3329 are a ring (Plus, Product) in which 17 is a root   *)
(* of order 256: the table follows from its recursion by squares.  A sum   *)
(* of 256 values is taken by halves (Partial), so that eight steps prove   *)
(* what is true of it: it is linear, sums exchange, and the sum of the     *)
(* powers of a root that is not 1 is 0.  Hence the inverse undoes the      *)
(* transform (InverseIs).  What the array holds after each of the eight    *)
(* stages is told without the code (Blocks): the partial sums of the terms *)
(* of each residue, the residues in reversed bits.  A stage of butterflies *)
(* leads from one to the next (StageSums), and Barrett's estimate is exact *)
(* below 852346 (BarrettExact), so the code's stage is that stage          *)
(* (StageExact).  After the last the sums are whole, and the bit reversal  *)
(* sorts them (AppliedExact).                                              *)
(***************************************************************************)
EXTENDS Programs, TLAPS, WellFoundedInduction

\* Induction over the numbers, for a set of them.
LEMMA EachNat ==
  ASSUME NEW T, 0 \in T, \A n \in Nat : n \in T => n + 1 \in T
  PROVE  \A n \in Nat : n \in T
<1> SUFFICES ASSUME Nat \ T # {} PROVE FALSE
  OBVIOUS
<1> DEFINE R == OpToRel(<, Nat)
<1>1. R = {ss \in Nat \X Nat : ss[1] < ss[2]}
  BY DEF OpToRel
<1>2. PICK x \in Nat \ T : \A y \in Nat \ T : ~(<<y, x>> \in R)
  <2>1. IsWellFoundedOn(R, Nat)
    BY NatLessThanWellFounded
  <2> HIDE DEF R
  <2> QED
    BY <2>1, WFMin
<1>3. x # 0 /\ x \in Nat /\ x \notin T
  BY <1>2
<1>4. x - 1 \in Nat /\ (x - 1) + 1 = x
  BY <1>3
<1>5. x - 1 \notin T
  BY <1>3, <1>4
<1>6. <<x - 1, x>> \in R
  <2>1. <<x - 1, x>> \in {ss \in Nat \X Nat : ss[1] < ss[2]}
    BY <1>3, <1>4
  <2> HIDE DEF R
  <2> QED
    BY <1>1, <2>1
<1> QED
  BY <1>2, <1>4, <1>5, <1>6

-----------------------------------------------------------------------------
(***************************************************************************)
(* The types: what the arrays, the table and the stages hold.              *)
(***************************************************************************)
Values == 0 .. NTT_Q - 1
Halves == {1, 2, 4, 8, 16, 32, 64, 128}

\* 2 to the power of what is left of eight stages.
LEMMA StageHalves ==
  ASSUME NEW s \in 1 .. 8
  PROVE  2^(8-s) \in Halves
<1>1. CASE s = 1
  BY <1>1 DEF Halves
<1>2. CASE s = 2
  BY <1>2 DEF Halves
<1>3. CASE s = 3
  BY <1>3 DEF Halves
<1>4. CASE s = 4
  BY <1>4 DEF Halves
<1>5. CASE s = 5
  BY <1>5 DEF Halves
<1>6. CASE s = 6
  BY <1>6 DEF Halves
<1>7. CASE s = 7
  BY <1>7 DEF Halves
<1>8. CASE s = 8
  BY <1>8 DEF Halves
<1>9. s \in {1, 2, 3, 4, 5, 6, 7, 8}
  OBVIOUS
<1> QED
  BY <1>1, <1>2, <1>3, <1>4, <1>5, <1>6, <1>7, <1>8, <1>9

LEMMA Ranges == Index = 0 .. 255 /\ Values = 0 .. 3328 /\ Values \in SUBSET Nat
BY DEF Index, Values, NTT_N, NTT_Q

LEMMA StoredIs ==
  ASSUME NEW R \in SUBSET Nat, NEW f \in [Index -> R]
  PROVE  Stored(f) = f
<1>1. f \in [Index -> Nat]
  OBVIOUS
<1> QED
  BY <1>1 DEF Stored

-----------------------------------------------------------------------------
\* A function that is defined from its values at half the argument exists, and
\* what its definition says holds of it.
PowerOf(f, k) == IF k = 0 THEN 1 ELSE (f[k \div 2] * f[k \div 2] * (IF k % 2 = 1 THEN 17 ELSE 1)) % NTT_Q

LEMMA PowerOfIs ==
  ASSUME NEW f, NEW k \in Index, k # 0 => f[k \div 2] \in Values
  PROVE  PowerOf(f, k) \in Values
<1>1. CASE k = 0
  BY <1>1 DEF Index, Values, NTT_N, PowerOf, NTT_Q
<1>2. CASE k # 0
  <2>1. PICK v \in Values : v = f[k \div 2]
    BY <1>2
  <2>2. PICK w \in Int : w = IF k % 2 = 1 THEN 17 ELSE 1
    OBVIOUS
  <2>3. PowerOf(f, k) = (v * v * w) % NTT_Q
    BY <1>2, <2>1, <2>2 DEF PowerOf
  <2>4. v \in Int
    BY DEF Values
  <2> DEFINE z == v * v * w
  <2>5. z \in Int
    BY <2>4
  <2> HIDE DEF z
  <2>6. z % 3329 \in 0 .. 3328
    BY <2>5
  <2> QED
    BY <2>3, <2>6 DEF Values, NTT_Q, z
<1> QED
  BY <1>1, <1>2

LEMMA PowersTwice ==
  ASSUME NEW n \in Halves, NEW f \in [0 .. n - 1 -> Values], \A k \in 0 .. n - 1 : f[k] = PowerOf(f, k)
  PROVE  \E g \in [0 .. 2 * n - 1 -> Values] : \A k \in 0 .. 2 * n - 1 : g[k] = PowerOf(g, k)
<1>1. n \in 1 .. 128 /\ n \in Nat
  BY DEF Halves
<1> DEFINE g == [k \in 0 .. 2 * n - 1 |-> PowerOf(f, k)]
<1>2. ASSUME NEW k \in 0 .. 2 * n - 1 PROVE k \in Index /\ k \div 2 \in 0 .. n - 1
  BY <1>1 DEF Index, Values, NTT_N, NTT_Q
<1>3. \A k \in 0 .. 2 * n - 1 : g[k] \in Values
  BY <1>2, PowerOfIs
<1>4. \A k \in 0 .. n - 1 : k \in 0 .. 2 * n - 1 /\ g[k] = f[k]
  BY <1>1
<1>5. ASSUME NEW k \in 0 .. 2 * n - 1 PROVE g[k] = PowerOf(g, k)
  <2>1. g[k \div 2] = f[k \div 2]
    BY <1>2, <1>4
  <2>2. g[k] = PowerOf(f, k)
    OBVIOUS
  <2> HIDE DEF g
  <2> QED
    BY <2>1, <2>2 DEF PowerOf
<1>6. g \in [0 .. 2 * n - 1 -> Values]
  BY <1>3
<1> QED
  BY <1>5, <1>6

LEMMA PowersExist ==
  \E f \in [Index -> Values] : f = [k \in Index |-> PowerOf(f, k)]
<1> DEFINE P(n) == \E f \in [0 .. n - 1 -> Values] : \A k \in 0 .. n - 1 : f[k] = PowerOf(f, k)
<1>1. P(1)
  <2> DEFINE f == [k \in 0 .. 1 - 1 |-> 1]
  <2>1. f \in [0 .. 1 - 1 -> Values] /\ \A k \in 0 .. 1 - 1 : k = 0 /\ f[k] = 1
    BY DEF Index, Values, NTT_N, NTT_Q
  <2> HIDE DEF f
  <2> QED
    BY <2>1 DEF PowerOf
<1>2. \A n \in Halves : P(n) => P(2 * n)
  BY PowersTwice
<1> HIDE DEF P
<1>3. P(2 * 1)
  BY <1>1, <1>2 DEF Halves
<1>4. P(2 * 2)
  BY <1>2, <1>3 DEF Halves
<1>5. P(2 * 4)
  BY <1>2, <1>4 DEF Halves
<1>6. P(2 * 8)
  BY <1>2, <1>5 DEF Halves
<1>7. P(2 * 16)
  BY <1>2, <1>6 DEF Halves
<1>8. P(2 * 32)
  BY <1>2, <1>7 DEF Halves
<1>9. P(2 * 64)
  BY <1>2, <1>8 DEF Halves
<1>10. P(2 * 128)
  BY <1>2, <1>9 DEF Halves
<1>11. 0 .. 2 * 128 - 1 = Index
  BY Ranges
<1>12. PICK f \in [0 .. 2 * 128 - 1 -> Values] : \A k \in 0 .. 2 * 128 - 1 : f[k] = PowerOf(f, k)
  BY <1>10 DEF P
<1>13. f \in [Index -> Values] /\ \A k \in Index : f[k] = PowerOf(f, k)
  BY <1>11, <1>12
<1>14. f = [k \in Index |-> PowerOf(f, k)]
  BY <1>13
<1> QED
  BY <1>13, <1>14

LEMMA PowersTyped ==
  ASSUME NEW f, f = [k \in Index |-> PowerOf(f, k)]
  PROVE  f \in [Index -> Values]
<1> DEFINE P(n) == \A k \in 0 .. n - 1 : f[k] \in Values
<1>1. \A k \in Index : f[k] = PowerOf(f, k)
  OBVIOUS
<1>2. P(1)
  <2>1. 0 \in Index /\ PowerOf(f, 0) \in Values
    BY DEF Index, Values, NTT_N, PowerOf, NTT_Q
  <2>2. \A k \in 0 .. 1 - 1 : k = 0
    OBVIOUS
  <2> QED
    BY <1>1, <2>1, <2>2
<1>3. ASSUME NEW n \in Halves, P(n) PROVE P(2 * n)
  <2> SUFFICES ASSUME NEW k \in 0 .. 2 * n - 1 PROVE f[k] \in Values
    OBVIOUS
  <2>1. n \in 1 .. 128 /\ n \in Nat
    BY DEF Halves
  <2>2. k \in Index /\ k \div 2 \in 0 .. n - 1
    BY <2>1 DEF Index, Values, NTT_N, NTT_Q
  <2> QED
    BY <1>1, <1>3, <2>2, PowerOfIs
<1> HIDE DEF P
<1>4. P(2 * 1)
  BY <1>2, <1>3 DEF Halves
<1>5. P(2 * 2)
  BY <1>3, <1>4 DEF Halves
<1>6. P(2 * 4)
  BY <1>3, <1>5 DEF Halves
<1>7. P(2 * 8)
  BY <1>3, <1>6 DEF Halves
<1>8. P(2 * 16)
  BY <1>3, <1>7 DEF Halves
<1>9. P(2 * 32)
  BY <1>3, <1>8 DEF Halves
<1>10. P(2 * 64)
  BY <1>3, <1>9 DEF Halves
<1>11. P(2 * 128)
  BY <1>3, <1>10 DEF Halves
<1>12. \A k \in 0 .. 2 * 128 - 1 : f[k] \in Values
  BY <1>11 DEF P
<1>13. 0 .. 2 * 128 - 1 = Index
  BY Ranges
<1>14. \A k \in Index : f[k] \in Values
  BY <1>12, <1>13
<1> QED
  BY <1>14

LEMMA TwIs == TW \in [Index -> Values]
<1> DEFINE power == CHOOSE f : f = [k \in Index |-> PowerOf(f, k)]
<1>1. TW = Stored(power)
  BY DEF TW, PowerOf
<1>2. \E f : f = [k \in Index |-> PowerOf(f, k)]
  BY PowersExist
<1>3. power = [k \in Index |-> PowerOf(power, k)]
  BY <1>2
<1> HIDE DEF power
<1>4. power \in [Index -> Values]
  BY <1>3, PowersTyped
<1>5. Values \in SUBSET Nat
  BY Ranges
<1>6. Stored(power) = power
  BY <1>4, <1>5, StoredIs
<1> QED
  BY <1>1, <1>4, <1>6

-----------------------------------------------------------------------------
\* Eight steps from z, one after the other, the n-th from S[n-1] to S[n].
LEMMA EightSteps ==
  ASSUME NEW S, NEW z \in S[0], NEW G, \A n \in 1 .. 8 : G[n] \in [S[n-1] -> S[n]]
  PROVE  \E f : /\ f = [n \in 0 .. 8 |-> f[n]] /\ f[0] = z
                /\ \A n \in 0 .. 8 : f[n] \in S[n]
                /\ \A n \in 1 .. 8 : f[n] = G[n][f[n-1]]
<1>0. /\ 1 - 1 = 0 /\ 2 - 1 = 1 /\ 3 - 1 = 2 /\ 4 - 1 = 3 /\ 5 - 1 = 4 /\ 6 - 1 = 5
      /\ 7 - 1 = 6 /\ 8 - 1 = 7
  OBVIOUS
<1>1. \A n \in 1 .. 8 : \A v \in S[n-1] : \E w \in S[n] : w = G[n][v]
  OBVIOUS
<1>2. PICK z1 \in S[1] : z1 = G[1][z]
  BY <1>0, <1>1
<1>3. PICK z2 \in S[2] : z2 = G[2][z1]
  BY <1>0, <1>1
<1>4. PICK z3 \in S[3] : z3 = G[3][z2]
  BY <1>0, <1>1
<1>5. PICK z4 \in S[4] : z4 = G[4][z3]
  BY <1>0, <1>1
<1>6. PICK z5 \in S[5] : z5 = G[5][z4]
  BY <1>0, <1>1
<1>7. PICK z6 \in S[6] : z6 = G[6][z5]
  BY <1>0, <1>1
<1>8. PICK z7 \in S[7] : z7 = G[7][z6]
  BY <1>0, <1>1
<1>9. PICK z8 \in S[8] : z8 = G[8][z7]
  BY <1>0, <1>1
<1>10. /\ z1 = G[1][z] /\ z2 = G[2][z1] /\ z3 = G[3][z2] /\ z4 = G[4][z3]
       /\ z5 = G[5][z4] /\ z6 = G[6][z5] /\ z7 = G[7][z6] /\ z8 = G[8][z7]
  BY <1>2, <1>3, <1>4, <1>5, <1>6, <1>7, <1>8, <1>9
<1> DEFINE f == [n \in 0 .. 8 |-> IF n = 0 THEN z ELSE IF n = 1 THEN z1 ELSE IF n = 2 THEN z2
                                  ELSE IF n = 3 THEN z3 ELSE IF n = 4 THEN z4 ELSE IF n = 5 THEN z5
                                  ELSE IF n = 6 THEN z6 ELSE IF n = 7 THEN z7 ELSE z8]
<1>11. /\ f[0] = z /\ f[1] = z1 /\ f[2] = z2 /\ f[3] = z3 /\ f[4] = z4
       /\ f[5] = z5 /\ f[6] = z6 /\ f[7] = z7 /\ f[8] = z8
  OBVIOUS
<1>12. f = [n \in 0 .. 8 |-> f[n]]
  OBVIOUS
<1> HIDE DEF f
<1>13. \A n \in 0 .. 8 : n \in {0, 1, 2, 3, 4, 5, 6, 7, 8}
  OBVIOUS
<1>14. \A n \in 0 .. 8 : f[n] \in S[n]
  BY <1>11, <1>13
<1>16. \A n \in 1 .. 8 : f[n] = G[n][f[n-1]]
  <2>1. \A n \in 1 .. 8 : n \in {1, 2, 3, 4, 5, 6, 7, 8}
    OBVIOUS
  <2> QED
    BY <1>0, <1>10, <1>11, <2>1
<1> QED
  BY <1>11, <1>12, <1>14, <1>16

-----------------------------------------------------------------------------
Arrays == [a : [Index -> Word16], wide : BOOLEAN]

LEMMA WordIs ==
  ASSUME NEW x \in Int
  PROVE  x % 2^16 \in Word16 /\ x % 2^16 \in Int
<1>1. x % 2^16 \in Word16
  BY DEF Word16
<1>2. x % 2^16 \in Int
  OBVIOUS
<1> QED
  BY <1>1, <1>2

LEMMA BarrettIs ==
  ASSUME NEW x \in Int
  PROVE  barrett(x) \in Word16
<1>1. q_est(x) \in Int
  <2>1. \A y, z \in Int : ((y + z \div 4096) \div 4096) % 256 \in Int
    OBVIOUS
  <2>2. (x \div 4096) * 5039 \in Int /\ (x % 4096) * 5039 \in Int
    OBVIOUS
  <2> QED
    BY <2>1, <2>2 DEF q_est
<1> DEFINE r == x - q_est(x) * NTT_Q
           w == IF r >= NTT_Q THEN r - NTT_Q ELSE r
<1>2. r \in Int
  <2>1. \A y \in Int : x - y * 3329 \in Int
    OBVIOUS
  <2> QED
    BY <1>1, <2>1 DEF NTT_Q
<1> HIDE DEF r
<1>3. w \in Int
  BY <1>2 DEF NTT_Q
<1> HIDE DEF w
<1>4. barrett(x) = w % 2^16
  BY DEF barrett, w, r
<1> QED
  BY <1>3, <1>4, WordIs

LEMMA ReducedIs ==
  ASSUME NEW x \in Int
  PROVE  Reduced(x) \in Int
BY DEF Reduced, NTT_Q

LEMMA TwiddleIs ==
  ASSUME NEW inverse \in BOOLEAN, NEW k \in 0 .. 127
  PROVE  twiddle(inverse, k) \in Int
<1>1. \A i \in 0 .. 255 : i \in Index
  BY DEF Index, NTT_N
<1>2. \A v \in Values : v \in Int /\ NTT_Q - v \in Int
  BY DEF Values, NTT_Q
<1>3. k \in 0 .. 255 /\ 128 - k \in 0 .. 255
  OBVIOUS
<1> QED
  BY <1>1, <1>2, <1>3, TwIs DEF twiddle

\* The partner of a cell.
LEMMA Partner ==
  ASSUME NEW half \in Halves, NEW i \in Index
  PROVE  /\ (i \div half) % 2 = 0 => i + half \in Index
         /\ (i \div half) % 2 # 0 => i - half \in Index
         /\ (i % half) * (128 \div half) \in 0 .. 127
<1>1. i \in 0 .. 255
  BY DEF Index, NTT_N
<1>2. CASE half = 1
  BY <1>1, <1>2 DEF Index, NTT_N
<1>3. CASE half = 2
  BY <1>1, <1>3 DEF Index, NTT_N
<1>4. CASE half = 4
  BY <1>1, <1>4 DEF Index, NTT_N
<1>5. CASE half = 8
  BY <1>1, <1>5 DEF Index, NTT_N
<1>6. CASE half = 16
  BY <1>1, <1>6 DEF Index, NTT_N
<1>7. CASE half = 32
  BY <1>1, <1>7 DEF Index, NTT_N
<1>8. CASE half = 64
  BY <1>1, <1>8 DEF Index, NTT_N
<1>9. CASE half = 128
  BY <1>1, <1>9 DEF Index, NTT_N
<1> QED
  BY <1>2, <1>3, <1>4, <1>5, <1>6, <1>7, <1>8, <1>9 DEF Halves

LEMMA StageIs ==
  ASSUME NEW st \in Arrays, NEW half \in Halves, NEW inverse \in BOOLEAN
  PROVE  Stage(st, half, inverse) \in Arrays
<1> DEFINE a          == st.a
           IsTop(i)   == (i \div half) % 2 = 0
           sum(i)     == Reduced((a[i] + a[i + half]) % 2^16) % 2^16
           dif(i)     == Reduced((a[i - half] + NTT_Q - a[i]) % 2^16)
           product(i) == dif(i) * twiddle(inverse, (i % half) * (128 \div half))
           array      == [i \in Index |-> IF IsTop(i) THEN sum(i) ELSE barrett(product(i))]
           wide       == st.wide \/ \E i \in Index : ~IsTop(i) /\ Wide(product(i))
<1>1. Stage(st, half, inverse) = [a |-> Stored(array), wide |-> wide]
  BY DEF Stage
<1>2. \A i \in Index : a[i] \in Int
  <2>1. a \in [Index -> Word16]
    BY DEF Arrays
  <2>2. Word16 \subseteq Int
    BY DEF Word16
  <2> QED
    BY <2>1, <2>2
<1>3. ASSUME NEW i \in Index, IsTop(i) PROVE sum(i) \in Word16
  <2>1. i + half \in Index
    BY <1>3, Partner
  <2>2. PICK x \in Int, y \in Int : x = a[i] /\ y = a[i + half]
    BY <1>2, <2>1
  <2>3. (x + y) % 2^16 \in Int
    BY WordIs
  <2>4. Reduced((x + y) % 2^16) \in Int
    BY <2>3, ReducedIs
  <2>5. Reduced((x + y) % 2^16) % 2^16 \in Word16
    BY <2>4, WordIs
  <2> QED
    BY <2>2, <2>5
<1>4. ASSUME NEW i \in Index, ~IsTop(i) PROVE product(i) \in Int
  <2>1. i - half \in Index /\ (i % half) * (128 \div half) \in 0 .. 127
    BY <1>4, Partner
  <2>2. PICK x \in Int, y \in Int : x = a[i] /\ y = a[i - half]
    BY <1>2, <2>1
  <2>3. y + NTT_Q - x \in Int
    BY DEF NTT_Q
  <2>4. (y + NTT_Q - x) % 2^16 \in Int
    BY <2>3, WordIs
  <2>5. Reduced((y + NTT_Q - x) % 2^16) \in Int
    BY <2>4, ReducedIs
  <2>6. dif(i) \in Int
    BY <2>2, <2>5
  <2>7. twiddle(inverse, (i % half) * (128 \div half)) \in Int
    BY <2>1, TwiddleIs
  <2> HIDE DEF dif
  <2>8. \A u, v \in Int : u * v \in Int
    OBVIOUS
  <2> QED
    BY <2>6, <2>7, <2>8
<1> HIDE DEF sum, product, IsTop
<1>5. \A i \in Index : array[i] \in Word16
  BY <1>3, <1>4, BarrettIs
<1>6. array \in [Index -> Word16]
  BY <1>5
<1> HIDE DEF array
<1>7. Stored(array) \in [Index -> Word16]
  <2>1. Word16 \in SUBSET Nat
    BY DEF Word16
  <2> QED
    BY <1>6, <2>1, StoredIs
<1>8. wide \in BOOLEAN
  BY DEF Arrays
<1> HIDE DEF wide
<1> QED
  BY <1>1, <1>7, <1>8 DEF Arrays

LEMMA ScaledIs ==
  ASSUME NEW st \in Arrays, NEW inverse \in BOOLEAN
  PROVE  Scaled(st, inverse) \in Arrays
<1> DEFINE array == [i \in Index |-> barrett(st.a[i] * NTT_N_INV)]
           wide  == st.wide \/ \E i \in Index : Wide(st.a[i] * NTT_N_INV)
<1>1. Scaled(st, inverse) = IF ~inverse THEN st ELSE [a |-> Stored(array), wide |-> wide]
  BY DEF Scaled
<1>2. \A i \in Index : st.a[i] * NTT_N_INV \in Int
  <2>1. st.a \in [Index -> Word16]
    BY DEF Arrays
  <2>2. \A v \in Word16 : v * 3316 \in Int
    BY DEF Word16
  <2> QED
    BY <2>1, <2>2 DEF NTT_N_INV
<1>3. \A i \in Index : array[i] \in Word16
  BY <1>2, BarrettIs
<1>4. array \in [Index -> Word16]
  BY <1>3
<1> HIDE DEF array
<1>5. Stored(array) \in [Index -> Word16]
  <2>1. Word16 \in SUBSET Nat
    BY DEF Word16
  <2> QED
    BY <1>4, <2>1, StoredIs
<1>6. wide \in BOOLEAN
  BY DEF Arrays
<1> HIDE DEF wide
<1> QED
  BY <1>1, <1>5, <1>6 DEF Arrays

LEMMA ReversedIs ==
  ASSUME NEW st \in Arrays
  PROVE  ntt_bit_reverse(st) \in Arrays
<1> DEFINE bit(i, b)  == (i \div 2^b) % 2
           reverse(i) == bit(i, 0) * 128 + bit(i, 1) * 64 + bit(i, 2) * 32 + bit(i, 3) * 16
                         + bit(i, 4) * 8 + bit(i, 5) * 4 + bit(i, 6) * 2 + bit(i, 7)
           array == [i \in Index |-> st.a[reverse(i)]]
<1>1. ntt_bit_reverse(st) = [st EXCEPT !.a = Stored(array)]
  BY DEF ntt_bit_reverse
<1>2. ASSUME NEW i \in Index, NEW b \in 0 .. 7 PROVE bit(i, b) \in 0 .. 1
  <2>1. 2^b \in Halves
    <3>1. 8 - b \in 1 .. 8 /\ 8 - (8 - b) = b
      OBVIOUS
    <3>2. 2^(8 - (8 - b)) \in Halves
      BY <3>1, StageHalves
    <3> QED
      BY <3>1, <3>2, Zenon
  <2>2. PICK n \in 1 .. 128 : n = 2^b
    BY <2>1 DEF Halves
  <2>3. (i \div n) % 2 \in 0 .. 1
    BY DEF Index, NTT_N
  <2> QED
    BY <2>2, <2>3, Zenon
<1> HIDE DEF bit
<1>3. \A i \in Index : reverse(i) \in Index
  <2>1. ASSUME NEW i \in Index
        PROVE  /\ bit(i, 0) \in 0 .. 1 /\ bit(i, 1) \in 0 .. 1 /\ bit(i, 2) \in 0 .. 1
               /\ bit(i, 3) \in 0 .. 1 /\ bit(i, 4) \in 0 .. 1 /\ bit(i, 5) \in 0 .. 1
               /\ bit(i, 6) \in 0 .. 1 /\ bit(i, 7) \in 0 .. 1
    BY <1>2
  <2> QED
    BY <2>1 DEF Index, NTT_N
<1> HIDE DEF reverse
<1>4. st.a \in [Index -> Word16]
  BY DEF Arrays
<1>5. array \in [Index -> Word16]
  BY <1>3, <1>4
<1> HIDE DEF array
<1>6. Stored(array) \in [Index -> Word16]
  <2>1. Word16 \in SUBSET Nat
    BY DEF Word16
  <2> QED
    BY <1>5, <2>1, StoredIs
<1> QED
  BY <1>1, <1>6 DEF Arrays

-----------------------------------------------------------------------------
(***************************************************************************)
(* The ring of the residues.                                               *)
(***************************************************************************)
Plus(x, y)  == (x + y) % NTT_Q
Product(x, y) == (x * y) % NTT_Q
MinusOne    == NTT_Q - 1

LEMMA ModProduct ==
  ASSUME NEW x \in Int, NEW y \in Int
  PROVE  ((x % 3329) * y) % 3329 = (x * y) % 3329
<1>1. PICK d \in Int : d = x \div 3329
  OBVIOUS
<1>2. PICK r \in Int : r = x % 3329
  OBVIOUS
<1>3. x = 3329 * d + r
  BY <1>1, <1>2
<1>4. PICK e \in Int : e = d * y
  OBVIOUS
<1>5. PICK z \in Int : z = r * y
  OBVIOUS
<1>6. x * y = 3329 * e + z
  <2>1. (3329 * d + r) * y = 3329 * (d * y) + r * y
    OBVIOUS
  <2> QED
    BY <1>3, <1>4, <1>5, <2>1
<1>7. (3329 * e + z) % 3329 = z % 3329
  OBVIOUS
<1> QED
  BY <1>2, <1>5, <1>6, <1>7

LEMMA PlusIs ==
  /\ \A x, y \in Values : Plus(x, y) \in Values /\ Plus(x, y) = Plus(y, x)
  /\ \A x, y, z \in Values : Plus(Plus(x, y), z) = Plus(x, Plus(y, z))
  /\ \A x \in Values : Plus(x, 0) = x /\ Plus(0, x) = x
  /\ 0 \in Values /\ 1 \in Values /\ MinusOne \in Values /\ NTT_N_INV \in Values
  /\ Plus(1, MinusOne) = 0
<1>1. \A x, y \in Values : Plus(x, y) \in Values /\ Plus(x, y) = Plus(y, x)
  BY DEF Plus, Values, NTT_Q
<1>2. \A x, y, z \in Values : Plus(Plus(x, y), z) = Plus(x, Plus(y, z))
  BY DEF Plus, Values, NTT_Q
<1>3. \A x \in Values : Plus(x, 0) = x /\ Plus(0, x) = x
  BY DEF Plus, Values, NTT_Q
<1>4. 0 \in Values /\ 1 \in Values /\ MinusOne \in Values /\ NTT_N_INV \in Values
  BY DEF Values, NTT_Q, MinusOne, NTT_N_INV
<1>5. Plus(1, MinusOne) = 0
  BY DEF Plus, NTT_Q, MinusOne
<1> QED
  BY <1>1, <1>2, <1>3, <1>4, <1>5

LEMMA ProductIs ==
  /\ \A x, y \in Values : Product(x, y) \in Values /\ Product(x, y) = Product(y, x)
  /\ \A x, y, z \in Values : Product(Product(x, y), z) = Product(x, Product(y, z))
  /\ \A x, y, z \in Values : Product(Plus(x, y), z) = Plus(Product(x, z), Product(y, z))
  /\ \A x \in Values : Product(x, 0) = 0 /\ Product(0, x) = 0 /\ Product(x, 1) = x /\ Product(1, x) = x
  /\ Product(MinusOne, MinusOne) = 1
<1>1. \A x, y \in Values : Product(x, y) \in Values /\ Product(x, y) = Product(y, x)
  <2> SUFFICES ASSUME NEW x \in Values, NEW y \in Values
               PROVE  Product(x, y) \in Values /\ Product(x, y) = Product(y, x)
    OBVIOUS
  <2>1. x \in Int /\ y \in Int
    BY DEF Values
  <2>2. PICK z \in Int : z = x * y
    BY <2>1
  <2>3. z = y * x
    BY <2>1, <2>2
  <2>4. z % 3329 \in 0 .. 3328
    OBVIOUS
  <2> QED
    BY <2>2, <2>3, <2>4 DEF Product, Values, NTT_Q
<1>2. ASSUME NEW x \in Values, NEW y \in Values, NEW z \in Values
      PROVE  Product(Product(x, y), z) = Product(x, Product(y, z))
  <2>1. x \in Int /\ y \in Int /\ z \in Int
    BY DEF Values
  <2>2. PICK u \in Int : u = x * y
    BY <2>1
  <2>3. PICK v \in Int : v = y * z
    BY <2>1
  <2>4. u * z = v * x
    <3>1. (x * y) * z = (y * z) * x
      BY <2>1
    <3> QED
      BY <2>2, <2>3, <3>1
  <2>5. ((u % 3329) * z) % 3329 = (u * z) % 3329 /\ ((v % 3329) * x) % 3329 = (v * x) % 3329
    BY <2>1, ModProduct
  <2>6. Product(x, Product(y, z)) = Product(Product(y, z), x)
    BY <1>1
  <2> QED
    BY <2>2, <2>3, <2>4, <2>5, <2>6 DEF Product, NTT_Q
<1>3. ASSUME NEW x \in Values, NEW y \in Values, NEW z \in Values
      PROVE  Product(Plus(x, y), z) = Plus(Product(x, z), Product(y, z))
  <2>1. x \in Int /\ y \in Int /\ z \in Int
    BY DEF Values
  <2>2. PICK u \in Int : u = x * z
    BY <2>1
  <2>3. PICK v \in Int : v = y * z
    BY <2>1
  <2>4. (x + y) * z = u + v
    <3>1. (x + y) * z = x * z + y * z
      BY <2>1
    <3> QED
      BY <2>2, <2>3, <3>1
  <2>5. PICK w \in Int : w = x + y
    BY <2>1
  <2>6. ((w % 3329) * z) % 3329 = (w * z) % 3329
    BY <2>1, ModProduct
  <2>7. ((u % 3329) + (v % 3329)) % 3329 = (u + v) % 3329
    OBVIOUS
  <2> QED
    BY <2>2, <2>3, <2>4, <2>5, <2>6, <2>7 DEF Product, Plus, NTT_Q
<1>4. \A x \in Values : Product(x, 0) = 0 /\ Product(0, x) = 0 /\ Product(x, 1) = x /\ Product(1, x) = x
  BY DEF Product, Values, NTT_Q
<1>5. Product(MinusOne, MinusOne) = 1
  BY DEF Product, MinusOne, NTT_Q
<1> QED
  BY <1>1, <1>2, <1>3, <1>4, <1>5

-----------------------------------------------------------------------------
(***************************************************************************)
(* The powers of the generator.                                            *)
(***************************************************************************)
LEMMA PowersAre == \A k \in Index : TW[k] = PowerOf(TW, k)
<1> DEFINE power == CHOOSE f : f = [k \in Index |-> PowerOf(f, k)]
<1>1. TW = Stored(power)
  BY DEF TW, PowerOf
<1>2. \E f : f = [k \in Index |-> PowerOf(f, k)]
  BY PowersExist
<1>3. power = [k \in Index |-> PowerOf(power, k)]
  BY <1>2
<1> HIDE DEF power
<1>4. power \in [Index -> Values]
  BY <1>3, PowersTyped
<1>5. Values \in SUBSET Nat
  BY Ranges
<1>6. TW = power
  BY <1>1, <1>4, <1>5, StoredIs
<1> QED
  BY <1>3, <1>6

\* The table at twice an index.
LEMMA PowerTwice ==
  /\ TW[0] = 1
  /\ \A m \in 1 .. 127 : TW[2 * m] = Product(TW[m], TW[m])
  /\ \A m \in 0 .. 127 : TW[2 * m + 1] = Product(17, Product(TW[m], TW[m]))
<1>1. TW[0] = 1
  <2>1. 0 \in Index
    BY Ranges
  <2> QED
    BY <2>1, PowersAre DEF PowerOf
<1>2. ASSUME NEW m \in 1 .. 127 PROVE TW[2 * m] = Product(TW[m], TW[m])
  <2>1. 2 * m \in Index /\ 2 * m # 0 /\ (2 * m) \div 2 = m /\ (2 * m) % 2 # 1 /\ m \in Index
    BY Ranges
  <2>2. TW[m] \in Values
    BY <2>1, TwIs
  <2>3. PICK v \in Int : v = TW[m]
    BY <2>2 DEF Values
  <2>4. TW[2 * m] = (v * v * 1) % NTT_Q
    BY <2>1, <2>3, PowersAre DEF PowerOf
  <2>5. PICK z \in Int : z = v * v
    OBVIOUS
  <2> QED
    BY <2>3, <2>4, <2>5 DEF Product
<1>3. ASSUME NEW m \in 0 .. 127 PROVE TW[2 * m + 1] = Product(17, Product(TW[m], TW[m]))
  <2>1. /\ 2 * m + 1 \in Index /\ 2 * m + 1 # 0 /\ (2 * m + 1) \div 2 = m /\ (2 * m + 1) % 2 = 1
        /\ m \in Index
    BY Ranges
  <2>2. TW[m] \in Values
    BY <2>1, TwIs
  <2>3. PICK v \in Int : v = TW[m]
    BY <2>2 DEF Values
  <2>4. TW[2 * m + 1] = (v * v * 17) % NTT_Q
    BY <2>1, <2>3, PowersAre DEF PowerOf
  <2>5. PICK z \in Int : z = v * v
    OBVIOUS
  <2>6. ((z % 3329) * 17) % 3329 = (z * 17) % 3329
    OBVIOUS
  <2>7. 17 * (z % 3329) = (z % 3329) * 17
    OBVIOUS
  <2> QED
    BY <2>3, <2>4, <2>5, <2>6, <2>7 DEF Product, NTT_Q
<1> QED
  BY <1>1, <1>2, <1>3

LEMMA TwAre == 17 \in Values /\ \A k \in 0 .. 255 : TW[k] \in Values
<1>1. 17 \in Values
  BY DEF Values, NTT_Q
<1>2. \A k \in 0 .. 255 : k \in Index
  BY DEF Index, NTT_N
<1> QED
  BY <1>1, <1>2, TwIs

LEMMA PowerNext == \A k \in 0 .. 254 : TW[k + 1] = Product(17, TW[k])
<1> DEFINE T == {n \in Nat : \A k \in 0 .. 254 : k <= n => TW[k + 1] = Product(17, TW[k])}
<1>0. 17 \in Values /\ \A k \in 0 .. 255 : TW[k] \in Values
  BY TwAre
<1>1. 0 \in T
  <2>1. TW[1] = Product(17, Product(TW[0], TW[0]))
    <3>1. 0 \in 0 .. 127 /\ 2 * 0 + 1 = 1
      OBVIOUS
    <3> QED
      BY <3>1, PowerTwice
  <2>2. Product(TW[0], TW[0]) = TW[0]
    BY PowerTwice, ProductIs, PlusIs
  <2>3. \A k \in 0 .. 254 : k <= 0 => k = 0 /\ k + 1 = 1
    OBVIOUS
  <2> QED
    BY <2>1, <2>2, <2>3
<1>2. ASSUME NEW n \in Nat, n \in T PROVE n + 1 \in T
  <2> SUFFICES ASSUME n + 1 \in 0 .. 254 PROVE TW[n + 1 + 1] = Product(17, TW[n + 1])
    <3>1. \A k \in 0 .. 254 : k <= n => TW[k + 1] = Product(17, TW[k])
      BY <1>2
    <3>2. \A k \in 0 .. 254 : k <= n + 1 => k <= n \/ k = n + 1
      OBVIOUS
    <3> QED
      BY <3>1, <3>2
  <2>1. CASE (n + 1) % 2 = 0
    <3>1. PICK m \in 1 .. 127 : n + 1 = 2 * m
      <4>1. (n + 1) \div 2 \in 1 .. 127 /\ n + 1 = 2 * ((n + 1) \div 2)
        BY <2>1
      <4> QED
        BY <4>1
    <3>2. TW[2 * m] = Product(TW[m], TW[m]) /\ TW[2 * m + 1] = Product(17, Product(TW[m], TW[m]))
      BY PowerTwice
    <3> QED
      BY <3>1, <3>2
  <2>2. CASE (n + 1) % 2 # 0
    <3>1. PICK m \in 0 .. 126 : n + 1 = 2 * m + 1
      <4>1. (n + 1) \div 2 \in 0 .. 126 /\ n + 1 = 2 * ((n + 1) \div 2) + 1
        BY <2>2
      <4> QED
        BY <4>1
    <3>2. TW[m + 1] = Product(17, TW[m])
      <4>1. m \in 0 .. 254 /\ m <= n
        BY <3>1
      <4> QED
        BY <1>2, <4>1
    <3>3. TW[2 * m + 1] = Product(17, Product(TW[m], TW[m]))
      BY PowerTwice
    <3>4. TW[2 * (m + 1)] = Product(TW[m + 1], TW[m + 1])
      <4>1. m + 1 \in 1 .. 127
        OBVIOUS
      <4> QED
        BY <4>1, PowerTwice
    <3>5. PICK v \in Values : v = TW[m]
      BY <1>0
    <3>6. Product(Product(17, v), Product(17, v)) = Product(17, Product(17, Product(v, v)))
      <4>1. Product(17, v) \in Values /\ Product(v, v) \in Values
        BY <1>0, ProductIs
      <4>2. Product(Product(17, v), Product(17, v)) = Product(17, Product(v, Product(17, v)))
        BY <1>0, <4>1, ProductIs
      <4>3. Product(v, Product(17, v)) = Product(Product(17, v), v)
        BY <4>1, ProductIs
      <4>4. Product(Product(17, v), v) = Product(17, Product(v, v))
        BY <1>0, ProductIs
      <4> QED
        BY <4>2, <4>3, <4>4
    <3>7. n + 1 + 1 = 2 * (m + 1)
      BY <3>1
    <3> QED
      BY <3>1, <3>2, <3>3, <3>4, <3>5, <3>6, <3>7
  <2> QED
    BY <2>1, <2>2
<1> HIDE DEF T
<1>3. \A n \in Nat : n \in T
  BY <1>1, <1>2, EachNat
<1> QED
  <2>1. 254 \in T
    BY <1>3
  <2>2. \A k \in 0 .. 254 : k <= 254 => TW[k + 1] = Product(17, TW[k])
    BY <2>1 DEF T
  <2> QED
    BY <2>2

\* 17^128 = -1 and 17^256 = 1.
LEMMA PowerLast == TW[128] = MinusOne /\ Product(17, TW[255]) = 1
<1>1. /\ TW[2 * 1] = Product(TW[1], TW[1]) /\ TW[2 * 2] = Product(TW[2], TW[2])
      /\ TW[2 * 4] = Product(TW[4], TW[4]) /\ TW[2 * 8] = Product(TW[8], TW[8])
      /\ TW[2 * 16] = Product(TW[16], TW[16]) /\ TW[2 * 32] = Product(TW[32], TW[32])
      /\ TW[2 * 64] = Product(TW[64], TW[64])
  BY PowerTwice
<1>2. TW[1] = 17
  <2>1. TW[0 + 1] = Product(17, TW[0])
    BY PowerNext
  <2> QED
    BY <2>1, PowerTwice DEF Product, NTT_Q
<1>3. TW[2] = 289
  BY <1>1, <1>2 DEF Product, NTT_Q
<1>4. TW[4] = 296
  BY <1>1, <1>3 DEF Product, NTT_Q
<1>5. TW[8] = 1062
  BY <1>1, <1>4 DEF Product, NTT_Q
<1>6. TW[16] = 2642
  BY <1>1, <1>5 DEF Product, NTT_Q
<1>7. TW[32] = 2580
  BY <1>1, <1>6 DEF Product, NTT_Q
<1>8. TW[64] = 1729
  BY <1>1, <1>7 DEF Product, NTT_Q
<1>9. TW[128] = MinusOne
  BY <1>1, <1>8 DEF Product, NTT_Q, MinusOne
<1>10. Product(17, TW[255]) = 1
  <2>1. PICK v \in Values : v = TW[127]
    BY TwAre
  <2>2. Product(17, v) = MinusOne
    <3>1. TW[127 + 1] = Product(17, TW[127])
      BY PowerNext
    <3> QED
      BY <1>9, <2>1, <3>1
  <2>3. TW[2 * 127 + 1] = Product(17, Product(v, v))
    BY <2>1, PowerTwice
  <2>4. 17 \in Values /\ Product(v, v) \in Values /\ Product(17, v) \in Values
    BY TwAre, ProductIs
  <2>5. Product(17, Product(17, Product(v, v))) = Product(17, Product(Product(17, v), v))
    BY <2>4, ProductIs
  <2>6. Product(Product(17, v), v) = Product(v, Product(17, v))
    BY <2>4, ProductIs
  <2>7. Product(17, Product(v, Product(17, v))) = Product(Product(17, v), Product(17, v))
    BY <2>4, ProductIs
  <2> QED
    BY <2>2, <2>3, <2>5, <2>6, <2>7, ProductIs
<1> QED
  BY <1>9, <1>10

-----------------------------------------------------------------------------
(***************************************************************************)
(* The roots that the transform and its inverse take.                      *)
(***************************************************************************)
Power(n) == TW[n % NTT_N]

LEMMA PowerIs ==
  /\ \A n \in Nat : Power(n) \in Values /\ n % NTT_N \in 0 .. 255
  /\ \A n \in Nat : Power(n + 1) = Product(17, Power(n))
  /\ Power(0) = 1 /\ Power(128) = MinusOne
  /\ \A m, n \in Nat : m % 256 = n % 256 => Power(m) = Power(n)
<1>1. ASSUME NEW n \in Nat PROVE Power(n) \in Values /\ n % NTT_N \in 0 .. 255
  <2>1. n % 256 \in 0 .. 255
    OBVIOUS
  <2> QED
    BY <2>1, TwAre DEF Power, NTT_N
<1>2. ASSUME NEW n \in Nat PROVE Power(n + 1) = Product(17, Power(n))
  <2>1. PICK k \in 0 .. 255 : k = n % 256
    OBVIOUS
  <2>2. Power(n) = TW[k]
    BY <2>1 DEF Power, NTT_N
  <2>3. CASE k = 255
    <3>1. (n + 1) % 256 = 0
      BY <2>1, <2>3
    <3> QED
      BY <2>2, <2>3, <3>1, PowerTwice, PowerLast DEF Power, NTT_N
  <2>4. CASE k # 255
    <3>1. (n + 1) % 256 = k + 1 /\ k \in 0 .. 254
      BY <2>1, <2>4
    <3> QED
      BY <2>2, <3>1, PowerNext DEF Power, NTT_N
  <2> QED
    BY <2>3, <2>4
<1>3. Power(0) = 1 /\ Power(128) = MinusOne
  <2>1. 0 % 256 = 0 /\ 128 % 256 = 128
    OBVIOUS
  <2> QED
    BY <2>1, PowerTwice, PowerLast DEF Power, NTT_N
<1>4. \A m, n \in Nat : m % 256 = n % 256 => Power(m) = Power(n)
  BY DEF Power, NTT_N
<1> QED
  BY <1>1, <1>2, <1>3, <1>4

LEMMA PowerSame ==
  ASSUME NEW m \in Nat, NEW n \in Nat, m % 256 = n % 256
  PROVE  Power(m) = Power(n)
BY PowerIs

LEMMA PowerAdds ==
  ASSUME NEW m \in Nat, NEW n \in Nat
  PROVE  Power(m + n) = Product(Power(m), Power(n))
<1> DEFINE T == {k \in Nat : Power(m + k) = Product(Power(m), Power(k))}
<1>1. 0 \in T
  <2>1. m + 0 = m
    OBVIOUS
  <2> QED
    BY <2>1, PowerIs, ProductIs
<1>2. ASSUME NEW k \in Nat, k \in T PROVE k + 1 \in T
  <2>1. Power(m) \in Values /\ Power(k) \in Values /\ 17 \in Values
    BY PowerIs, TwAre
  <2>2. m + (k + 1) = (m + k) + 1 /\ m + k \in Nat
    OBVIOUS
  <2>3. Power(m + (k + 1)) = Product(17, Product(Power(m), Power(k)))
    BY <1>2, <2>2, PowerIs
  <2>4. Product(Power(m), Power(k + 1)) = Product(Product(17, Power(k)), Power(m))
    <3>1. Power(k + 1) = Product(17, Power(k)) /\ Power(k + 1) \in Values
      BY PowerIs
    <3> QED
      BY <2>1, <3>1, ProductIs
  <2>5. Product(Product(17, Power(k)), Power(m)) = Product(17, Product(Power(k), Power(m)))
    BY <2>1, ProductIs
  <2>6. Product(Power(k), Power(m)) = Product(Power(m), Power(k))
    BY <2>1, ProductIs
  <2> QED
    BY <2>3, <2>4, <2>5, <2>6
<1> HIDE DEF T
<1>3. n \in T
  BY <1>1, <1>2, EachNat
<1> QED
  BY <1>3 DEF T

\* root of Transform.
Root(inverse, n) == TW[(IF inverse THEN NTT_N - (n % NTT_N) ELSE n) % NTT_N]

LEMMA RootPower ==
  ASSUME NEW inverse \in BOOLEAN
  PROVE  /\ inverse => \A n \in Nat : Root(inverse, n) = Power(255 * n)
         /\ ~inverse => \A n \in Nat : Root(inverse, n) = Power(n)
<1>1. \A n \in Nat : (256 - (n % 256)) % 256 = (255 * n) % 256
  OBVIOUS
<1> QED
  BY <1>1 DEF Root, Power, NTT_N

\* What the transform uses of its root.
LEMMA RootIs ==
  ASSUME NEW inverse \in BOOLEAN
  PROVE  /\ \A n \in Nat : Root(inverse, n) \in Values
         /\ Root(inverse, 0) = 1 /\ Root(inverse, 128) = MinusOne /\ Root(inverse, 256) = 1
         /\ \A m, n \in Nat : Root(inverse, m + n) = Product(Root(inverse, m), Root(inverse, n))
         /\ \A m, n \in Nat : m % 256 = n % 256 => Root(inverse, m) = Root(inverse, n)
<1>1. CASE ~inverse
  <2>1. \A n \in Nat : Root(inverse, n) = Power(n)
    BY <1>1, RootPower
  <2>2. Root(inverse, 256) = 1
    <3>1. 256 % 256 = 0 % 256
      OBVIOUS
    <3>2. Power(256) = Power(0)
      BY <3>1, PowerSame
    <3> QED
      BY <2>1, <3>2, PowerIs
  <2>3. \A m, n \in Nat : m + n \in Nat
    OBVIOUS
  <2>4. \A m, n \in Nat : Root(inverse, m + n) = Product(Root(inverse, m), Root(inverse, n))
    BY <2>1, <2>3, PowerAdds
  <2>5. Root(inverse, 0) = 1 /\ Root(inverse, 128) = MinusOne
    BY <2>1, PowerIs
  <2>6. \A m, n \in Nat : m % 256 = n % 256 => Root(inverse, m) = Root(inverse, n)
    BY <2>1, PowerSame
  <2>7. \A n \in Nat : Root(inverse, n) \in Values
    BY <2>1, PowerIs
  <2> QED
    BY <2>2, <2>4, <2>5, <2>6, <2>7
<1>2. CASE inverse
  <2>1. \A n \in Nat : Root(inverse, n) = Power(255 * n) /\ 255 * n \in Nat
    <3>1. \A n \in Nat : 255 * n \in Nat
      OBVIOUS
    <3> QED
      BY <1>2, <3>1, RootPower
  <2>2. Root(inverse, 0) = 1
    <3>1. 255 * 0 = 0
      OBVIOUS
    <3> QED
      BY <2>1, <3>1, PowerIs
  <2>3. Root(inverse, 128) = MinusOne
    <3>1. (255 * 128) % 256 = 128 % 256 /\ 255 * 128 \in Nat
      OBVIOUS
    <3>2. Power(255 * 128) = Power(128)
      BY <3>1, PowerIs
    <3> QED
      BY <2>1, <3>2, PowerIs
  <2>4. Root(inverse, 256) = 1
    <3>1. (255 * 256) % 256 = 0 % 256 /\ 255 * 256 \in Nat
      OBVIOUS
    <3>2. Power(255 * 256) = Power(0)
      BY <3>1, PowerIs
    <3> QED
      BY <2>1, <3>2, PowerIs
  <2>5. \A m, n \in Nat : Root(inverse, m + n) = Product(Root(inverse, m), Root(inverse, n))
    <3> SUFFICES ASSUME NEW m \in Nat, NEW n \in Nat
                 PROVE  Root(inverse, m + n) = Product(Root(inverse, m), Root(inverse, n))
      OBVIOUS
    <3>1. 255 * (m + n) = 255 * m + 255 * n /\ m + n \in Nat
      OBVIOUS
    <3> QED
      BY <2>1, <3>1, PowerAdds
  <2>6. \A m, n \in Nat : m % 256 = n % 256 => Root(inverse, m) = Root(inverse, n)
    <3> SUFFICES ASSUME NEW m \in Nat, NEW n \in Nat, m % 256 = n % 256
                 PROVE  Root(inverse, m) = Root(inverse, n)
      OBVIOUS
    <3>1. (255 * m) % 256 = (255 * n) % 256
      OBVIOUS
    <3>2. 255 * m \in Nat /\ 255 * n \in Nat
      OBVIOUS
    <3>3. Power(255 * m) = Power(255 * n)
      <4> DEFINE x == 255 * m
                 y == 255 * n
      <4>1. x \in Nat /\ y \in Nat /\ x % 256 = y % 256
        BY <3>1, <3>2
      <4> HIDE DEF x, y
      <4>2. Power(x) = Power(y)
        BY <4>1, PowerSame
      <4> QED
        BY <4>2 DEF x, y
    <3> QED
      BY <2>1, <3>3
  <2>7. \A n \in Nat : Root(inverse, n) \in Values
    BY <2>1, PowerIs
  <2> QED
    BY <2>2, <2>3, <2>4, <2>5, <2>6, <2>7
<1> QED
  BY <1>1, <1>2

-----------------------------------------------------------------------------
(***************************************************************************)
(* The sum of 256 values: Partial(f, n, x) is the sum of the values of f   *)
(* at x, x + Width(n), x + 2 * Width(n) and so on.                         *)
(***************************************************************************)
Vectors  == [Index -> Values]
Width(n) == 2^(8-n)

Halved(v, n) == [x \in 0..2^(8-n)-1 |-> (v[x] + v[x + 2^(8-n)]) % NTT_Q]
Levels(f)    == CHOOSE g : g = [n \in 0..8 |-> IF n = 0 THEN f ELSE Halved(g[n-1], n)]

Partial(f, n, x) == Levels(f)[n][x]

LEMMA Widths ==
  /\ Width(0) = 256 /\ Width(8) = 1
  /\ \A n \in 0 .. 8 : Width(n) \in 1 .. 256
  /\ \A n \in 1 .. 8 : Width(n-1) = 2 * Width(n) /\ Width(n) \in Halves /\ n - 1 \in 0 .. 8
<1>1. /\ Width(0) = 256 /\ Width(1) = 128 /\ Width(2) = 64 /\ Width(3) = 32 /\ Width(4) = 16
      /\ Width(5) = 8 /\ Width(6) = 4 /\ Width(7) = 2 /\ Width(8) = 1
  BY DEF Width
<1>2. ASSUME NEW n \in 0 .. 8 PROVE n \in {0, 1, 2, 3, 4, 5, 6, 7, 8} /\ Width(n) \in 1 .. 256
  <2>1. n \in {0, 1, 2, 3, 4, 5, 6, 7, 8}
    OBVIOUS
  <2> QED
    BY <1>1, <2>1
<1>3. ASSUME NEW n \in 1 .. 8
      PROVE  Width(n-1) = 2 * Width(n) /\ Width(n) \in Halves /\ n - 1 \in 0 .. 8
  <2>1. n \in {1, 2, 3, 4, 5, 6, 7, 8} /\ n - 1 \in 0 .. 8
    OBVIOUS
  <2>2. /\ 1 - 1 = 0 /\ 2 - 1 = 1 /\ 3 - 1 = 2 /\ 4 - 1 = 3 /\ 5 - 1 = 4 /\ 6 - 1 = 5
        /\ 7 - 1 = 6 /\ 8 - 1 = 7
    OBVIOUS
  <2> QED
    BY <1>1, <2>1, <2>2 DEF Halves
<1> QED
  BY <1>1, <1>2, <1>3

\* What holds of level 0 and passes from each level to the next holds of all.
LEMMA EachLevel ==
  ASSUME NEW S, 0 \in S, \A n \in 1 .. 8 : n - 1 \in S => n \in S
  PROVE  \A n \in 0 .. 8 : n \in S
<1>0. /\ 1 - 1 = 0 /\ 2 - 1 = 1 /\ 3 - 1 = 2 /\ 4 - 1 = 3 /\ 5 - 1 = 4 /\ 6 - 1 = 5
      /\ 7 - 1 = 6 /\ 8 - 1 = 7
  OBVIOUS
<1>1. 1 \in S
  BY <1>0
<1>2. 2 \in S
  BY <1>0, <1>1
<1>3. 3 \in S
  BY <1>0, <1>2
<1>4. 4 \in S
  BY <1>0, <1>3
<1>5. 5 \in S
  BY <1>0, <1>4
<1>6. 6 \in S
  BY <1>0, <1>5
<1>7. 7 \in S
  BY <1>0, <1>6
<1>8. 8 \in S
  BY <1>0, <1>7
<1>9. \A n \in 0 .. 8 : n \in {0, 1, 2, 3, 4, 5, 6, 7, 8}
  OBVIOUS
<1> QED
  BY <1>1, <1>2, <1>3, <1>4, <1>5, <1>6, <1>7, <1>8, <1>9

LEMMA Folding ==
  ASSUME NEW n \in 1 .. 8, NEW x \in 0 .. Width(n)-1
  PROVE  /\ x \in 0 .. Width(n-1)-1 /\ x + Width(n) \in 0 .. Width(n-1)-1
         /\ x \in Index /\ x + Width(n) \in Index
<1>1. Width(n-1) = 2 * Width(n) /\ Width(n) \in 1 .. 128
  <2>1. Width(n) \in Halves
    BY Widths
  <2>2. Width(n) \in 1 .. 128
    BY <2>1 DEF Halves
  <2> QED
    BY <2>2, Widths
<1> QED
  BY <1>1 DEF Index, NTT_N

LEMMA HalvedIs ==
  ASSUME NEW n \in 1 .. 8, NEW v \in [0 .. Width(n-1)-1 -> Values]
  PROVE  /\ Halved(v, n) \in [0 .. Width(n)-1 -> Values]
         /\ \A x \in 0 .. Width(n)-1 : Halved(v, n)[x] = Plus(v[x], v[x + Width(n)])
<1>1. Halved(v, n) = [x \in 0 .. Width(n)-1 |-> Plus(v[x], v[x + Width(n)])]
  BY DEF Halved, Width, Plus
<1>2. ASSUME NEW x \in 0 .. Width(n)-1 PROVE Plus(v[x], v[x + Width(n)]) \in Values
  BY Folding, PlusIs
<1> QED
  BY <1>1, <1>2

LEMMA LevelsAre ==
  ASSUME NEW f \in Vectors
  PROVE  /\ \A n \in 0 .. 8 : Levels(f)[n] \in [0 .. Width(n)-1 -> Values]
         /\ Levels(f)[0] = f /\ Total(f) = Levels(f)[8][0]
         /\ \A n \in 1 .. 8 : Levels(f)[n] = Halved(Levels(f)[n-1], n)
<1> DEFINE Step(g, n) == IF n = 0 THEN f ELSE Halved(g[n-1], n)
           S == [n \in 0 .. 8 |-> [0 .. Width(n)-1 -> Values]]
<1>1. \A n \in 0 .. 8 : S[n] = [0 .. Width(n)-1 -> Values]
  OBVIOUS
<1> HIDE DEF S
<1>2. f \in S[0]
  <2>1. 0 .. 256 - 1 = Index
    BY Ranges
  <2>2. 0 .. Width(0) - 1 = Index
    BY <2>1, Widths
  <2>3. S[0] = [0 .. Width(0)-1 -> Values]
    BY <1>1
  <2> QED
    BY <2>2, <2>3, Zenon DEF Vectors
<1>3. ASSUME NEW n \in 1 .. 8, NEW v \in S[n-1] PROVE Halved(v, n) \in S[n]
  <2>1. n - 1 \in 0 .. 8 /\ n \in 0 .. 8
    OBVIOUS
  <2>2. v \in [0 .. Width(n-1)-1 -> Values]
    BY <1>1, <2>1
  <2> QED
    BY <1>1, <2>1, <2>2, HalvedIs
<1>4. \E g : g = [n \in 0 .. 8 |-> Step(g, n)]
  <2> DEFINE G == [n \in 1 .. 8 |-> [v \in S[n-1] |-> Halved(v, n)]]
  <2>1. \A n \in 1 .. 8 : G[n] \in [S[n-1] -> S[n]]
    BY <1>3
  <2>2. \A n \in 1 .. 8 : \A v \in S[n-1] : G[n][v] = Halved(v, n)
    OBVIOUS
  <2> HIDE DEF G
  <2>3. PICK g : /\ g = [n \in 0 .. 8 |-> g[n]] /\ g[0] = f
                 /\ \A n \in 0 .. 8 : g[n] \in S[n]
                 /\ \A n \in 1 .. 8 : g[n] = G[n][g[n-1]]
    BY <1>2, <2>1, EightSteps
  <2>4. ASSUME NEW n \in 0 .. 8 PROVE g[n] = Step(g, n)
    <3>1. CASE n = 0
      BY <2>3, <3>1
    <3>2. CASE n # 0
      <4>1. n \in 1 .. 8 /\ n - 1 \in 0 .. 8
        BY <3>2
      <4>2. g[n-1] \in S[n-1]
        BY <2>3, <4>1
      <4>3. g[n] = Halved(g[n-1], n)
        BY <2>2, <2>3, <4>1, <4>2
      <4> QED
        BY <3>2, <4>3
    <3> QED
      BY <3>1, <3>2
  <2> HIDE DEF Step
  <2>5. g = [n \in 0 .. 8 |-> Step(g, n)]
    BY <2>3, <2>4
  <2> QED
    BY <2>5
<1>5. Levels(f) = CHOOSE g : g = [n \in 0 .. 8 |-> Step(g, n)]
  BY DEF Levels
<1>6. Total(f) = Levels(f)[8][0]
  BY DEF Total, Levels, Halved
<1> DEFINE h == Levels(f)
<1>7. h = [n \in 0 .. 8 |-> Step(h, n)]
  <2> HIDE DEF Step, h
  <2> QED
    BY <1>4, <1>5 DEF h
<1> HIDE DEF h
<1>8. \A n \in 0 .. 8 : h[n] = Step(h, n)
  <2> HIDE DEF Step
  <2> QED
    BY <1>7
<1>9. h[0] = f
  BY <1>8
<1>10. ASSUME NEW n \in 1 .. 8 PROVE h[n] = Halved(h[n-1], n)
  <2>1. n \in 0 .. 8 /\ n # 0
    OBVIOUS
  <2> QED
    BY <1>8, <2>1
<1>11. \A n \in 0 .. 8 : h[n] \in S[n]
  <2> DEFINE T == {n \in 0 .. 8 : h[n] \in S[n]}
  <2>1. 0 \in T
    BY <1>2, <1>9
  <2>2. \A n \in 1 .. 8 : n - 1 \in T => n \in T
    <3>1. \A n \in 1 .. 8 : n \in 0 .. 8
      OBVIOUS
    <3> QED
      BY <1>3, <1>10, <3>1
  <2> HIDE DEF T
  <2>3. \A n \in 0 .. 8 : n \in T
    BY <2>1, <2>2, EachLevel
  <2> QED
    BY <2>3 DEF T
<1> QED
  BY <1>1, <1>6, <1>9, <1>10, <1>11 DEF h

LEMMA PartialIs ==
  ASSUME NEW f \in Vectors
  PROVE  /\ Total(f) = Partial(f, 8, 0)
         /\ \A x \in Index : Partial(f, 0, x) = f[x]
         /\ \A n \in 0 .. 8 : \A x \in 0 .. Width(n)-1 : Partial(f, n, x) \in Values
         /\ \A n \in 1 .. 8 : \A x \in 0 .. Width(n)-1 :
              /\ Partial(f, n, x) = Plus(Partial(f, n-1, x), Partial(f, n-1, x + Width(n)))
              /\ Partial(f, n-1, x) \in Values /\ Partial(f, n-1, x + Width(n)) \in Values
<1>1. Total(f) = Partial(f, 8, 0) /\ \A x \in Index : Partial(f, 0, x) = f[x]
  BY LevelsAre DEF Partial
<1>2. ASSUME NEW n \in 0 .. 8, NEW x \in 0 .. Width(n)-1 PROVE Partial(f, n, x) \in Values
  BY LevelsAre DEF Partial
<1>3. ASSUME NEW n \in 1 .. 8, NEW x \in 0 .. Width(n)-1
      PROVE  /\ Partial(f, n, x) = Plus(Partial(f, n-1, x), Partial(f, n-1, x + Width(n)))
             /\ Partial(f, n-1, x) \in Values /\ Partial(f, n-1, x + Width(n)) \in Values
  <2>1. n - 1 \in 0 .. 8
    OBVIOUS
  <2>2. Levels(f)[n-1] \in [0 .. Width(n-1)-1 -> Values]
    BY <2>1, LevelsAre
  <2>3. Levels(f)[n] = Halved(Levels(f)[n-1], n)
    BY LevelsAre
  <2>4. Levels(f)[n][x] = Plus(Levels(f)[n-1][x], Levels(f)[n-1][x + Width(n)])
    BY <2>2, <2>3, HalvedIs
  <2>5. Partial(f, n-1, x) \in Values /\ Partial(f, n-1, x + Width(n)) \in Values
    BY <1>2, <2>1, Folding
  <2> QED
    BY <2>4, <2>5 DEF Partial
<1> QED
  BY <1>1, <1>2, <1>3

-----------------------------------------------------------------------------
(***************************************************************************)
(* What sums do with factors, with other sums and with single values.      *)
(***************************************************************************)
Scale(f, c) == [i \in Index |-> Product(f[i], c[i])]
Added(f, g) == [i \in Index |-> Plus(f[i], g[i])]

\* c takes the same values after every h.
Periodic(c, h) == \A y \in Index : y + h \in Index => c[y + h] = c[y]

LEMMA ScaleIs ==
  ASSUME NEW f \in Vectors, NEW g \in Vectors
  PROVE  Scale(f, g) \in Vectors /\ Added(f, g) \in Vectors
BY PlusIs, ProductIs DEF Vectors, Scale, Added

\* A factor that each sum sees once can be taken out of it.
LEMMA SumScaled ==
  ASSUME NEW u \in 0 .. 8, NEW f \in Vectors, NEW c \in Vectors, Periodic(c, Width(u)),
         NEW x \in 0 .. Width(u)-1
  PROVE  Partial(Scale(f, c), u, x) = Product(Partial(f, u, x), c[x])
<1> DEFINE S == {n \in 0 .. 8 : Periodic(c, Width(n)) =>
                   \A y \in 0 .. Width(n)-1 : Partial(Scale(f, c), n, y) = Product(Partial(f, n, y), c[y])}
<1>0. Scale(f, c) \in Vectors
  BY ScaleIs
<1>1. 0 \in S
  <2>1. \A y \in 0 .. Width(0)-1 : y \in Index
    BY Widths, Ranges
  <2>2. \A y \in Index : Partial(Scale(f, c), 0, y) = Product(Partial(f, 0, y), c[y])
    BY <1>0, PartialIs DEF Scale
  <2> QED
    BY <2>1, <2>2
<1>2. ASSUME NEW n \in 1 .. 8, n - 1 \in S PROVE n \in S
  <2> SUFFICES ASSUME Periodic(c, Width(n)), NEW y \in 0 .. Width(n)-1
               PROVE  Partial(Scale(f, c), n, y) = Product(Partial(f, n, y), c[y])
    OBVIOUS
  <2>1. PICK h \in 1 .. 128 : h = Width(n) /\ Width(n-1) = 2 * h
    BY Widths DEF Halves
  <2>2. Periodic(c, Width(n-1))
    <3> SUFFICES ASSUME NEW z \in Index, z + 2 * h \in Index PROVE c[z + 2 * h] = c[z]
      BY <2>1 DEF Periodic
    <3>1. z + h \in Index /\ (z + h) + h = z + 2 * h
      BY Ranges
    <3>2. c[z + h] = c[z] /\ c[(z + h) + h] = c[z + h]
      BY <2>1, <3>1 DEF Periodic
    <3> QED
      BY <3>1, <3>2
  <2>3. /\ y \in 0 .. Width(n-1)-1 /\ y + h \in 0 .. Width(n-1)-1
        /\ y \in Index /\ y + h \in Index
    BY <2>1, Folding
  <2>4. /\ Partial(Scale(f, c), n-1, y) = Product(Partial(f, n-1, y), c[y])
        /\ Partial(Scale(f, c), n-1, y + h) = Product(Partial(f, n-1, y + h), c[y + h])
    BY <1>2, <2>2, <2>3
  <2>5. c[y + h] = c[y] /\ c[y] \in Values
    BY <2>1, <2>3 DEF Periodic, Vectors
  <2>6. PICK p \in Values, q \in Values : p = Partial(f, n-1, y) /\ q = Partial(f, n-1, y + h)
    BY <2>1, PartialIs
  <2>7. Partial(f, n, y) = Plus(p, q)
    BY <2>1, <2>6, PartialIs
  <2>8. Partial(Scale(f, c), n, y) = Plus(Product(p, c[y]), Product(q, c[y]))
    <3>1. Partial(Scale(f, c), n, y) = Plus(Partial(Scale(f, c), n-1, y), Partial(Scale(f, c), n-1, y + h))
      BY <1>0, <2>1, PartialIs
    <3> QED
      BY <2>4, <2>5, <2>6, <3>1
  <2>9. PICK v \in Values : v = c[y]
    BY <2>5
  <2>10. Product(Plus(p, q), v) = Plus(Product(p, v), Product(q, v))
    BY ProductIs
  <2> QED
    BY <2>7, <2>8, <2>9, <2>10
<1> HIDE DEF S
<1>3. u \in S
  BY <1>1, <1>2, EachLevel
<1> QED
  BY <1>3 DEF S

Constant(v) == [i \in Index |-> v]

LEMMA SumTimes ==
  ASSUME NEW f \in Vectors, NEW v \in Values
  PROVE  Scale(f, Constant(v)) \in Vectors /\ Total(Scale(f, Constant(v))) = Product(Total(f), v)
<1>1. Constant(v) \in Vectors /\ Periodic(Constant(v), Width(8))
  BY DEF Constant, Periodic, Vectors
<1>2. 0 \in 0 .. Width(8)-1 /\ 8 \in 0 .. 8
  BY Widths
<1>3. Constant(v)[0] = v
  BY Ranges DEF Constant
<1>4. Partial(Scale(f, Constant(v)), 8, 0) = Product(Partial(f, 8, 0), v)
  BY <1>1, <1>2, <1>3, SumScaled
<1> QED
  BY <1>1, <1>4, PartialIs, ScaleIs

\* The sum of two vectors.
LEMMA SumAdded ==
  ASSUME NEW f \in Vectors, NEW g \in Vectors
  PROVE  Total(Added(f, g)) = Plus(Total(f), Total(g))
<1> DEFINE S == {n \in 0 .. 8 : \A y \in 0 .. Width(n)-1 :
                   Partial(Added(f, g), n, y) = Plus(Partial(f, n, y), Partial(g, n, y))}
<1>0. Added(f, g) \in Vectors
  BY ScaleIs
<1>1. 0 \in S
  <2>1. \A y \in 0 .. Width(0)-1 : y \in Index
    BY Widths, Ranges
  <2>2. \A y \in Index : Partial(Added(f, g), 0, y) = Plus(Partial(f, 0, y), Partial(g, 0, y))
    BY <1>0, PartialIs DEF Added
  <2> QED
    BY <2>1, <2>2
<1>2. ASSUME NEW n \in 1 .. 8, n - 1 \in S PROVE n \in S
  <2> SUFFICES ASSUME NEW y \in 0 .. Width(n)-1
               PROVE  Partial(Added(f, g), n, y) = Plus(Partial(f, n, y), Partial(g, n, y))
    OBVIOUS
  <2>1. PICK h \in 1 .. 128 : h = Width(n) /\ Width(n-1) = 2 * h
    BY Widths DEF Halves
  <2>2. y \in 0 .. Width(n-1)-1 /\ y + h \in 0 .. Width(n-1)-1
    BY <2>1, Folding
  <2>3. PICK p \in Values, q \in Values : p = Partial(f, n-1, y) /\ q = Partial(f, n-1, y + h)
    BY <2>1, PartialIs
  <2>4. PICK r \in Values, t \in Values : r = Partial(g, n-1, y) /\ t = Partial(g, n-1, y + h)
    BY <2>1, PartialIs
  <2>5. /\ Partial(Added(f, g), n-1, y) = Plus(p, r)
        /\ Partial(Added(f, g), n-1, y + h) = Plus(q, t)
    BY <1>2, <2>2, <2>3, <2>4
  <2>6. Partial(f, n, y) = Plus(p, q) /\ Partial(g, n, y) = Plus(r, t)
    BY <2>1, <2>3, <2>4, PartialIs
  <2>7. Partial(Added(f, g), n, y) = Plus(Plus(p, r), Plus(q, t))
    <3>1. Partial(Added(f, g), n, y) = Plus(Partial(Added(f, g), n-1, y), Partial(Added(f, g), n-1, y + h))
      BY <1>0, <2>1, PartialIs
    <3> QED
      BY <2>5, <3>1
  <2>8. Plus(Plus(p, r), Plus(q, t)) = Plus(Plus(p, q), Plus(r, t))
    BY DEF Plus, Values, NTT_Q
  <2> QED
    BY <2>6, <2>7, <2>8
<1> HIDE DEF S
<1>3. 8 \in S
  BY <1>1, <1>2, EachLevel
<1>4. Partial(Added(f, g), 8, 0) = Plus(Partial(f, 8, 0), Partial(g, 8, 0))
  <2>1. 0 \in 0 .. Width(8)-1
    BY Widths
  <2> QED
    BY <1>3, <2>1 DEF S
<1> QED
  BY <1>0, <1>4, PartialIs

\* A place seen twice as wide.
TwicePlace(h, l, y) == /\ l % h = y <=> l % (2 * h) = y \/ l % (2 * h) = y + h
                       /\ ~(l % (2 * h) = y /\ l % (2 * h) = y + h)

LEMMA Residue ==
  ASSUME NEW h \in Halves, NEW l \in 0 .. 255, NEW y \in 0 .. h - 1
  PROVE  TwicePlace(h, l, y)
<1>1. CASE h = 1
  BY <1>1 DEF TwicePlace
<1>2. CASE h = 2
  BY <1>2 DEF TwicePlace
<1>3. CASE h = 4
  BY <1>3 DEF TwicePlace
<1>4. CASE h = 8
  BY <1>4 DEF TwicePlace
<1>5. CASE h = 16
  BY <1>5 DEF TwicePlace
<1>6. CASE h = 32
  BY <1>6 DEF TwicePlace
<1>7. CASE h = 64
  BY <1>7 DEF TwicePlace
<1>8. CASE h = 128
  BY <1>8 DEF TwicePlace
<1> QED
  BY <1>1, <1>2, <1>3, <1>4, <1>5, <1>6, <1>7, <1>8 DEF Halves

\* A vector with one value only.
LEMMA SumSingle ==
  ASSUME NEW d \in Vectors, NEW l \in Index, \A j \in Index : j # l => d[j] = 0
  PROVE  Total(d) = d[l]
<1> DEFINE S == {n \in 0 .. 8 : \A y \in 0 .. Width(n)-1 :
                   Partial(d, n, y) = IF l % Width(n) = y THEN d[l] ELSE 0}
<1>0. d[l] \in Values /\ l \in 0 .. 255
  <2>1. l \in 0 .. 255
    BY Ranges
  <2>2. d[l] \in Values
    BY DEF Vectors
  <2> QED
    BY <2>1, <2>2
<1>1. 0 \in S
  <2>1. \A y \in 0 .. Width(0)-1 : y \in Index /\ (l % Width(0) = y <=> y = l)
    <3>1. l % 256 = l
      BY <1>0
    <3>2. Width(0) = 256
      BY Widths
    <3>3. \A y \in 0 .. Width(0)-1 : y \in Index
      BY <3>2, Ranges
    <3> QED
      BY <3>1, <3>2, <3>3
  <2>2. \A y \in Index : Partial(d, 0, y) = IF y = l THEN d[l] ELSE 0
    BY PartialIs
  <2> QED
    BY <2>1, <2>2
<1>2. ASSUME NEW n \in 1 .. 8, n - 1 \in S PROVE n \in S
  <2> SUFFICES ASSUME NEW y \in 0 .. Width(n)-1
               PROVE  Partial(d, n, y) = IF l % Width(n) = y THEN d[l] ELSE 0
    OBVIOUS
  <2>1. PICK h \in Halves : h = Width(n) /\ Width(n-1) = 2 * h
    BY Widths
  <2>2. y \in 0 .. Width(n-1)-1 /\ y + h \in 0 .. Width(n-1)-1
    BY <2>1, Folding
  <2>3. /\ Partial(d, n-1, y) = IF l % (2 * h) = y THEN d[l] ELSE 0
        /\ Partial(d, n-1, y + h) = IF l % (2 * h) = y + h THEN d[l] ELSE 0
    BY <1>2, <2>1, <2>2
  <2>4. /\ l % h = y <=> l % (2 * h) = y \/ l % (2 * h) = y + h
        /\ ~(l % (2 * h) = y /\ l % (2 * h) = y + h)
    <3>1. y \in 0 .. h - 1
      BY <2>1
    <3>2. l \in 0 .. 255 /\ h \in Halves
      BY <1>0
    <3>3. TwicePlace(h, l, y)
      BY <3>1, <3>2, Residue
    <3> QED
      BY <3>3 DEF TwicePlace
  <2>5. Partial(d, n, y) = Plus(Partial(d, n-1, y), Partial(d, n-1, y + h))
    BY <2>1, PartialIs
  <2> QED
    BY <1>0, <2>1, <2>3, <2>4, <2>5, PlusIs
<1> HIDE DEF S
<1>3. 8 \in S
  BY <1>1, <1>2, EachLevel
<1>4. Partial(d, 8, 0) = d[l]
  <2>1. 0 \in 0 .. Width(8)-1 /\ l % Width(8) = 0
    BY <1>0, Widths
  <2> QED
    BY <1>3, <2>1 DEF S
<1> QED
  BY <1>4, PartialIs

\* Sums over rows and sums over columns.
Column(F, k)    == [j \in Index |-> F[j][k]]
Across(F, n, x) == [k \in Index |-> Partial(Column(F, k), n, x)]

LEMMA SumsExchanged ==
  ASSUME NEW F \in [Index -> Vectors]
  PROVE  Total([k \in Index |-> Total(Column(F, k))]) = Total([j \in Index |-> Total(F[j])])
<1> DEFINE rows == [j \in Index |-> Total(F[j])]
           S    == {n \in 0 .. 8 : \A x \in 0 .. Width(n)-1 :
                      Across(F, n, x) \in Vectors /\ Total(Across(F, n, x)) = Partial(rows, n, x)}
<1>1. \A k \in Index : Column(F, k) \in Vectors
  BY DEF Column, Vectors
<1>2. rows \in Vectors
  <2>1. \A j \in Index : F[j] \in Vectors
    OBVIOUS
  <2>2. 0 \in 0 .. Width(8)-1 /\ 8 \in 0 .. 8
    BY Widths
  <2>3. \A j \in Index : Total(F[j]) \in Values
    BY <2>1, <2>2, PartialIs
  <2> QED
    BY <2>3 DEF Vectors
<1>3. 0 \in S
  <2> SUFFICES ASSUME NEW x \in 0 .. Width(0)-1
               PROVE  Across(F, 0, x) \in Vectors /\ Total(Across(F, 0, x)) = Partial(rows, 0, x)
    OBVIOUS
  <2>1. x \in Index
    BY Widths, Ranges
  <2>2. \A k \in Index : Partial(Column(F, k), 0, x) = F[x][k]
    <3>1. \A k \in Index : Partial(Column(F, k), 0, x) = Column(F, k)[x]
      BY <1>1, <2>1, PartialIs
    <3> QED
      BY <2>1, <3>1 DEF Column
  <2>3. Across(F, 0, x) = F[x] /\ F[x] \in Vectors
    BY <2>1, <2>2 DEF Across, Vectors
  <2>4. Partial(rows, 0, x) = Total(F[x])
    BY <1>2, <2>1, PartialIs
  <2> QED
    BY <2>3, <2>4
<1>4. ASSUME NEW n \in 1 .. 8, n - 1 \in S PROVE n \in S
  <2> SUFFICES ASSUME NEW x \in 0 .. Width(n)-1
               PROVE  Across(F, n, x) \in Vectors /\ Total(Across(F, n, x)) = Partial(rows, n, x)
    OBVIOUS
  <2> DEFINE y == x + Width(n)
             one == Across(F, n-1, x)
             two == Across(F, n-1, y)
  <2>1. x \in 0 .. Width(n-1)-1 /\ y \in 0 .. Width(n-1)-1
    BY Folding
  <2>2. /\ one \in Vectors /\ Total(one) = Partial(rows, n-1, x)
        /\ two \in Vectors /\ Total(two) = Partial(rows, n-1, y)
    BY <1>4, <2>1
  <2>3. \A k \in Index : Partial(Column(F, k), n, x) = Plus(one[k], two[k])
    BY <1>1, PartialIs DEF Across
  <2>4. Across(F, n, x) = Added(one, two)
    BY <2>3 DEF Across, Added
  <2>5. Partial(rows, n, x) = Plus(Partial(rows, n-1, x), Partial(rows, n-1, y))
    BY <1>2, PartialIs
  <2> HIDE DEF one, two, y, S
  <2> QED
    BY <2>2, <2>4, <2>5, ScaleIs, SumAdded
<1> HIDE DEF S, rows
<1>5. 8 \in S
  BY <1>3, <1>4, EachLevel
<1>6. Total(Across(F, 8, 0)) = Partial(rows, 8, 0)
  <2>1. 0 \in 0 .. Width(8)-1
    BY Widths
  <2> QED
    BY <1>5, <2>1 DEF S
<1>7. Across(F, 8, 0) = [k \in Index |-> Total(Column(F, k))]
  BY <1>1, PartialIs DEF Across
<1> QED
  BY <1>2, <1>6, <1>7, PartialIs DEF rows

\* The powers of 17^n are as many ones, or they cancel.
LEMMA SumOfPowers ==
  ASSUME NEW n \in Nat
  PROVE  LET c == [k \in Index |-> Power(k * n)]
         IN  c \in Vectors /\ Total(c) = IF n % 256 = 0 THEN NTT_N ELSE 0
<1> DEFINE c == [k \in Index |-> Power(k * n)]
<1>0. \A k \in Index : k \in Nat /\ k * n \in Nat
  BY Ranges
<1>1. c \in Vectors
  BY <1>0, PowerIs DEF Vectors
<1>2. \A k \in Index : c[k] = Power(k * n)
  OBVIOUS
<1> HIDE DEF c
<1>3. CASE n % 256 = 0
  <2>1. ASSUME NEW k \in Index PROVE c[k] = 1
    <3>1. PICK d \in Nat : n = 256 * d
      <4>1. n \div 256 \in Nat /\ n = 256 * (n \div 256)
        BY <1>3
      <4> QED
        BY <4>1
    <3>2. PICK e \in Nat : e = k * d
      BY <1>0
    <3>3. k * n = 256 * e
      <4>1. k * (256 * d) = 256 * (k * d)
        BY <1>0
      <4> QED
        BY <3>1, <3>2, <4>1
    <3>4. (256 * e) % 256 = 0 % 256
      OBVIOUS
    <3>5. Power(256 * e) = Power(0)
      BY <3>4, PowerSame
    <3> QED
      BY <1>2, <3>3, <3>5, PowerIs
  <2> DEFINE S == {u \in 0 .. 8 : \A x \in 0 .. Width(u)-1 : Partial(c, u, x) * Width(u) = 256}
  <2>2. 0 \in S
    <3>1. \A x \in 0 .. Width(0)-1 : x \in Index
      BY Widths, Ranges
    <3>2. \A x \in Index : Partial(c, 0, x) = 1
      BY <1>1, <2>1, PartialIs
    <3> QED
      BY <3>1, <3>2, Widths
  <2>3. ASSUME NEW u \in 1 .. 8, u - 1 \in S PROVE u \in S
    <3> SUFFICES ASSUME NEW x \in 0 .. Width(u)-1 PROVE Partial(c, u, x) * Width(u) = 256
      OBVIOUS
    <3>1. PICK h \in Halves : h = Width(u) /\ Width(u-1) = 2 * h
      BY Widths
    <3>2. x \in 0 .. Width(u-1)-1 /\ x + h \in 0 .. Width(u-1)-1
      BY <3>1, Folding
    <3>3. PICK p \in Values, q \in Values : p = Partial(c, u-1, x) /\ q = Partial(c, u-1, x + h)
      BY <1>1, <3>1, PartialIs
    <3>4. p * (2 * h) = 256 /\ q * (2 * h) = 256
      BY <2>3, <3>1, <3>2, <3>3
    <3>5. Partial(c, u, x) = Plus(p, q)
      BY <1>1, <3>1, <3>3, PartialIs
    <3>6. Plus(p, q) * h = 256
      BY <3>4 DEF Halves, Plus, Values, NTT_Q
    <3> QED
      BY <3>1, <3>5, <3>6
  <2> HIDE DEF S
  <2>4. 8 \in S
    BY <2>2, <2>3, EachLevel
  <2>5. Partial(c, 8, 0) = 256
    <3>1. 0 \in 0 .. Width(8)-1 /\ Width(8) = 1
      BY Widths
    <3>2. Partial(c, 8, 0) \in Int
      <4>1. Partial(c, 8, 0) \in Values
        BY <1>1, <3>1, PartialIs
      <4> QED
        BY <4>1 DEF Values
    <3> QED
      BY <2>4, <3>1, <3>2 DEF S
  <2> QED
    BY <1>1, <1>3, <2>5, PartialIs DEF c, NTT_N
<1>4. CASE n % 256 # 0
  <2> DEFINE S == {u \in 0 .. 8 : \E p \in Values :
                     /\ \A x \in 0 .. Width(u)-1 : Partial(c, u, x) = Product(p, c[x])
                     /\ (Width(u) * n) % 256 # 0 => p = 0}
  <2>1. 0 \in S
    <3>1. \A x \in 0 .. Width(0)-1 : x \in Index
      BY Widths, Ranges
    <3>2. \A x \in Index : Partial(c, 0, x) = Product(1, c[x])
      BY <1>1, ProductIs, PartialIs DEF Vectors
    <3>3. (Width(0) * n) % 256 = 0
      <4>1. (256 * n) % 256 = 0
        OBVIOUS
      <4> QED
        BY <4>1, Widths
    <3> QED
      BY <3>1, <3>2, <3>3, PlusIs
  <2>2. ASSUME NEW u \in 1 .. 8, u - 1 \in S PROVE u \in S
    <3>1. PICK h \in 1 .. 128 : h = Width(u) /\ Width(u-1) = 2 * h
      BY Widths DEF Halves
    <3>2. PICK p \in Values :
            /\ \A x \in 0 .. Width(u-1)-1 : Partial(c, u-1, x) = Product(p, c[x])
            /\ (Width(u-1) * n) % 256 # 0 => p = 0
      BY <2>2
    <3>3. PICK m \in Nat : m = h * n
      <4>1. h * n \in Nat
        OBVIOUS
      <4> QED
        BY <4>1
    <3> DEFINE r == Power(m)
               w == Plus(1, r)
    <3>4. r \in Values /\ w \in Values
      BY PowerIs, PlusIs
    <3>5. ASSUME NEW x \in 0 .. Width(u)-1 PROVE Partial(c, u, x) = Product(Product(p, w), c[x])
      <4>1. /\ x \in 0 .. Width(u-1)-1 /\ x + h \in 0 .. Width(u-1)-1
            /\ x \in Index /\ x + h \in Index
        BY <3>1, Folding
      <4>2. Partial(c, u, x) = Plus(Product(p, c[x]), Product(p, c[x + h]))
        BY <1>1, <3>1, <3>2, <4>1, PartialIs
      <4>3. PICK v \in Values : v = c[x]
        BY <1>1, <4>1 DEF Vectors
      <4>4. c[x + h] = Product(v, r)
        <5>1. PICK y \in Nat : y = x * n
          BY <1>0, <4>1
        <5>2. (x + h) * n = y + m
          <6>1. x \in Nat
            BY <1>0, <4>1
          <6>2. (x + h) * n = x * n + h * n
            BY <6>1
          <6> QED
            BY <3>3, <5>1, <6>2
        <5>3. c[x + h] = Power(y + m) /\ v = Power(y)
          BY <1>2, <4>1, <4>3, <5>1, <5>2
        <5> QED
          BY <5>3, PowerAdds
      <4> HIDE DEF r
      <4>5. Product(p, v) \in Values /\ Product(v, r) \in Values /\ 1 \in Values
        BY <3>4, ProductIs, PlusIs
      <4>6. Product(p, Product(v, r)) = Product(r, Product(p, v))
        <5>1. Product(p, Product(v, r)) = Product(Product(p, v), r)
          BY <3>4, ProductIs
        <5> QED
          BY <3>4, <4>5, <5>1, ProductIs
      <4>7. Plus(Product(p, v), Product(r, Product(p, v))) = Product(w, Product(p, v))
        <5>1. Product(1, Product(p, v)) = Product(p, v)
          BY <4>5, ProductIs
        <5>2. Product(Plus(1, r), Product(p, v)) = Plus(Product(1, Product(p, v)), Product(r, Product(p, v)))
          BY <3>4, <4>5, ProductIs
        <5> QED
          BY <5>1, <5>2
      <4> HIDE DEF w
      <4>8. Product(w, Product(p, v)) = Product(Product(p, w), v)
        <5>1. Product(w, Product(p, v)) = Product(Product(w, p), v)
          BY <3>4, ProductIs
        <5>2. Product(w, p) = Product(p, w)
          BY <3>4, ProductIs
        <5> QED
          BY <5>1, <5>2
      <4> QED
        BY <4>2, <4>3, <4>4, <4>6, <4>7, <4>8
    <3>6. (Width(u) * n) % 256 # 0 => Product(p, w) = 0
      <4> SUFFICES ASSUME m % 256 # 0 PROVE Product(p, w) = 0
        BY <3>1, <3>3
      <4>1. CASE (2 * m) % 256 # 0
        <5>1. Width(u-1) * n = 2 * m
          <6>1. (2 * h) * n = 2 * (h * n)
            OBVIOUS
          <6> QED
            BY <3>1, <3>3, <6>1
        <5>2. p = 0
          BY <3>2, <4>1, <5>1
        <5> HIDE DEF w
        <5> QED
          BY <3>4, <5>2, ProductIs
      <4>2. CASE (2 * m) % 256 = 0
        <5>1. m % 256 = 128 % 256
          BY <4>2
        <5>2. r = MinusOne
          BY <5>1, PowerSame, PowerIs
        <5>3. w = 0
          BY <5>2, PlusIs
        <5> HIDE DEF w
        <5> QED
          BY <5>3, ProductIs
      <4> QED
        BY <4>1, <4>2
    <3>7. Product(p, w) \in Values
      BY <3>4, ProductIs
    <3> HIDE DEF w
    <3> QED
      BY <3>5, <3>6, <3>7
  <2> HIDE DEF S
  <2>3. 8 \in S
    BY <2>1, <2>2, EachLevel
  <2>4. Partial(c, 8, 0) = 0
    <3>1. 0 \in 0 .. Width(8)-1 /\ Width(8) * n = n /\ 0 \in Index
      BY Widths, Ranges
    <3>2. PICK p \in Values : Partial(c, 8, 0) = Product(p, c[0]) /\ ((Width(8) * n) % 256 # 0 => p = 0)
      BY <2>3, <3>1 DEF S
    <3>3. p = 0 /\ c[0] \in Values
      BY <1>1, <1>4, <3>1, <3>2 DEF Vectors
    <3> QED
      BY <3>2, <3>3, ProductIs
  <2> QED
    BY <1>1, <1>4, <2>4, PartialIs DEF c
<1> QED
  BY <1>3, <1>4

-----------------------------------------------------------------------------
(***************************************************************************)
(* The definition of the transform.                                        *)
(***************************************************************************)
Terms(a, inverse, k) == [j \in Index |-> Product(a[j], Root(inverse, j * k))]

LEMMA TermsAre ==
  ASSUME NEW a \in Vectors, NEW inverse \in BOOLEAN, NEW k \in Nat
  PROVE  Terms(a, inverse, k) \in Vectors /\ Total(Terms(a, inverse, k)) \in Values
<1>1. ASSUME NEW j \in Index PROVE Product(a[j], Root(inverse, j * k)) \in Values
  <2>1. j * k \in Nat
    BY Ranges
  <2> QED
    BY <2>1, RootIs, ProductIs DEF Vectors
<1>2. Terms(a, inverse, k) \in Vectors
  BY <1>1 DEF Terms, Vectors
<1>3. 0 \in 0 .. Width(8)-1 /\ 8 \in 0 .. 8
  BY Widths
<1> QED
  BY <1>2, <1>3, PartialIs

LEMMA TransformIs ==
  ASSUME NEW a \in Vectors, NEW inverse \in BOOLEAN
  PROVE  /\ Transform(a, inverse) \in Vectors
         /\ \A k \in Index : Transform(a, inverse)[k] =
              IF inverse THEN Product(Total(Terms(a, inverse, k)), NTT_N_INV) ELSE Total(Terms(a, inverse, k))
<1> DEFINE root(n)    == TW[(IF inverse THEN NTT_N - (n % NTT_N) ELSE n) % NTT_N]
           term(j, k) == IF a[j] = 0 THEN 0 ELSE (a[j] * root(j * k)) % NTT_Q
           sum(k)     == Total([j \in Index |-> term(j, k)])
           array      == [k \in Index |-> IF inverse THEN (sum(k) * NTT_N_INV) % NTT_Q ELSE sum(k)]
           entry(k)   == IF inverse THEN Product(Total(Terms(a, inverse, k)), NTT_N_INV)
                         ELSE Total(Terms(a, inverse, k))
<1>1. Transform(a, inverse) = Stored(array)
  BY DEF Transform
<1>2. ASSUME NEW k \in Index PROVE sum(k) = Total(Terms(a, inverse, k))
  <2>1. ASSUME NEW j \in Index PROVE term(j, k) = Product(a[j], Root(inverse, j * k))
    <3>1. j * k \in Nat
      BY Ranges
    <3>2. root(j * k) = Root(inverse, j * k)
      BY DEF Root
    <3> HIDE DEF root
    <3>3. term(j, k) = IF a[j] = 0 THEN 0 ELSE Product(a[j], Root(inverse, j * k))
      BY <3>2 DEF Product
    <3>4. a[j] = 0 => Product(a[j], Root(inverse, j * k)) = 0
      BY <3>1, RootIs, ProductIs
    <3> QED
      BY <3>3, <3>4
  <2> HIDE DEF term
  <2>2. [j \in Index |-> term(j, k)] = Terms(a, inverse, k)
    BY <2>1 DEF Terms
  <2> QED
    BY <2>2
<1> HIDE DEF sum
<1>3. array = [k \in Index |-> entry(k)]
  BY <1>2 DEF Product
<1>4. ASSUME NEW k \in Index PROVE entry(k) \in Values
  <2>1. k \in Nat
    BY Ranges
  <2> QED
    BY <2>1, TermsAre, ProductIs, PlusIs
<1> HIDE DEF array
<1>5. array \in [Index -> Values]
  BY <1>3, <1>4
<1>6. Stored(array) = array
  <2>1. Values \in SUBSET Nat
    BY Ranges
  <2> QED
    BY <1>5, <2>1, StoredIs
<1> QED
  BY <1>1, <1>3, <1>5, <1>6 DEF Vectors

LEMMA SamePlace ==
  ASSUME NEW j \in Index, NEW l \in Index
  PROVE  j + 255 * l \in Nat /\ ((j + 255 * l) % 256 = 0 <=> j = l)
<1>1. j \in 0 .. 255 /\ l \in 0 .. 255
  BY Ranges
<1>2. j + 255 * l \in Nat
  BY <1>1
<1>3. (j + 255 * l) % 256 = (j - l) % 256
  BY <1>1
<1>4. (j - l) % 256 = 0 <=> j = l
  <2>1. PICK z \in -255 .. 255 : z = j - l
    BY <1>1
  <2>2. z % 256 = 0 => z = 0
    OBVIOUS
  <2>3. z = 0 <=> j = l
    BY <1>1, <2>1
  <2>4. 0 % 256 = 0
    OBVIOUS
  <2> QED
    BY <2>1, <2>2, <2>3, <2>4
<1> QED
  BY <1>2, <1>3, <1>4

Common(j, k, l) == Power(k * (j + 255 * l))

LEMMA Exponents ==
  ASSUME NEW no \in BOOLEAN, NEW yes \in BOOLEAN, ~no, yes,
         NEW j \in Index, NEW k \in Index, NEW l \in Index
  PROVE  /\ Common(j, k, l) = Product(Root(no, j * k), Root(yes, k * l))
         /\ Common(j, k, l) \in Values
         /\ Root(no, j * k) \in Values /\ Root(yes, k * l) \in Values
<1>0. j \in Nat /\ k \in Nat /\ l \in Nat
  BY Ranges
<1>1. PICK x \in Nat : x = j * k
  BY <1>0
<1>2. PICK y \in Nat : y = k * l
  BY <1>0
<1>3. k * (j + 255 * l) = j * k + 255 * (k * l)
  BY <1>0
<1>4. k * (j + 255 * l) = x + 255 * y
  BY <1>1, <1>2, <1>3
<1>5. PICK z \in Nat : z = 255 * y
  OBVIOUS
<1>6. x + z \in Nat
  OBVIOUS
<1>7. Power(x + z) = Product(Power(x), Power(z)) /\ Power(x + z) \in Values
  BY <1>6, PowerAdds, PowerIs
<1>8. Power(x) = Root(no, x) /\ Power(z) = Root(yes, y)
  BY <1>5, RootPower
<1>9. Root(no, x) \in Values /\ Root(yes, y) \in Values
  BY RootIs
<1> QED
  BY <1>1, <1>2, <1>4, <1>5, <1>7, <1>8, <1>9 DEF Common

\* The inverse undoes the transform.
LEMMA InverseIs ==
  ASSUME NEW a \in Vectors, NEW no \in BOOLEAN, NEW yes \in BOOLEAN, ~no, yes
  PROVE  Transform(Transform(a, no), yes) = a
<1> DEFINE A == Transform(a, no)
<1>1. A \in Vectors /\ \A k \in Index : A[k] = Total(Terms(a, no, k))
  BY TransformIs
<1> HIDE DEF A
<1>2. ASSUME NEW l \in Index PROVE Total(Terms(A, yes, l)) = Product(NTT_N, a[l])
  <2> DEFINE n(j)    == j + 255 * l
             c(j)    == [k \in Index |-> Power(k * n(j))]
             F       == [j \in Index |-> [k \in Index |-> Product(a[j], Common(j, k, l))]]
             root(k) == Root(yes, k * l)
  <2>1. \A j \in Index : a[j] \in Values
    BY DEF Vectors
  <2>2. ASSUME NEW j \in Index, NEW k \in Index
        PROVE  /\ Common(j, k, l) = Product(Root(no, j * k), root(k))
               /\ Common(j, k, l) \in Values /\ Root(no, j * k) \in Values /\ root(k) \in Values
    BY Exponents
  <2>3. F \in [Index -> Vectors]
    <3>1. ASSUME NEW j \in Index PROVE [k \in Index |-> Product(a[j], Common(j, k, l))] \in Vectors
      <4>1. ASSUME NEW k \in Index PROVE Product(a[j], Common(j, k, l)) \in Values
        BY <2>1, <2>2, ProductIs
      <4> QED
        BY <4>1 DEF Vectors
    <3> QED
      BY <3>1
  <2> HIDE DEF n
  <2>4. ASSUME NEW k \in Index PROVE Total(Column(F, k)) = Terms(A, yes, l)[k]
    <3> DEFINE t == Terms(a, no, k)
               v == root(k)
    <3>1. v \in Values
      BY <2>2
    <3>2. t \in Vectors /\ A[k] = Total(t)
      <4>1. k \in Nat
        BY Ranges
      <4> QED
        BY <1>1, <4>1, TermsAre
    <3>3. ASSUME NEW j \in Index PROVE F[j][k] = Product(t[j], v)
      <4>1. F[j][k] = Product(a[j], Product(Root(no, j * k), v))
        BY <2>2
      <4>2. t[j] = Product(a[j], Root(no, j * k))
        BY DEF Terms
      <4>3. PICK x \in Values, y \in Values : x = a[j] /\ y = Root(no, j * k)
        BY <2>1, <2>2
      <4> HIDE DEF F, v, t
      <4>4. Product(Product(x, y), v) = Product(x, Product(y, v))
        BY <3>1, ProductIs
      <4> QED
        BY <4>1, <4>2, <4>3, <4>4
    <3>4. Terms(A, yes, l)[k] = Product(A[k], v)
      BY DEF Terms
    <3> HIDE DEF F, v, t
    <3>5. Column(F, k) = Scale(t, Constant(v))
      BY <3>3 DEF Column, Scale, Constant
    <3> QED
      BY <3>1, <3>2, <3>4, <3>5, SumTimes
  <2>5. ASSUME NEW j \in Index PROVE Total(F[j]) = IF j = l THEN Product(NTT_N, a[l]) ELSE 0
    <3>1. n(j) \in Nat /\ (n(j) % 256 = 0 <=> j = l)
      BY SamePlace DEF n
    <3>2. c(j) \in Vectors /\ Total(c(j)) = IF n(j) % 256 = 0 THEN NTT_N ELSE 0
      BY <3>1, SumOfPowers
    <3>3. F[j] = Scale(c(j), Constant(a[j]))
      <4>1. \A k \in Index : Product(a[j], Common(j, k, l)) = Product(Common(j, k, l), a[j])
        <5>1. \A k \in Index : Common(j, k, l) \in Values
          BY <2>2
        <5> QED
          BY <2>1, <5>1, ProductIs
      <4>2. \A k \in Index : Constant(a[j])[k] = a[j]
        BY DEF Constant
      <4>3. \A k \in Index : c(j)[k] = Common(j, k, l)
        BY DEF Common, n
      <4> HIDE DEF c
      <4> QED
        BY <4>1, <4>2, <4>3 DEF Scale
    <3> HIDE DEF c, F
    <3>4. Total(F[j]) = Product(Total(c(j)), a[j])
      BY <2>1, <3>2, <3>3, SumTimes
    <3>5. Product(0, a[j]) = 0
      BY <2>1, ProductIs
    <3> QED
      BY <3>1, <3>2, <3>4, <3>5
  <2>6. Terms(A, yes, l) = [k \in Index |-> Total(Column(F, k))]
    <3> HIDE DEF F
    <3> QED
      BY <2>4 DEF Terms
  <2> HIDE DEF F
  <2> DEFINE d == [j \in Index |-> Total(F[j])]
  <2>7. Total(Terms(A, yes, l)) = Total(d)
    BY <2>3, <2>6, SumsExchanged
  <2>8. d \in Vectors /\ d[l] = Product(NTT_N, a[l]) /\ \A j \in Index : j # l => d[j] = 0
    <3>1. NTT_N \in Values
      BY DEF Values, NTT_Q, NTT_N
    <3>2. Product(NTT_N, a[l]) \in Values /\ 0 \in Values
      BY <2>1, <3>1, ProductIs, PlusIs
    <3>3. \A j \in Index : Total(F[j]) \in Values
      BY <2>5, <3>2
    <3> QED
      BY <2>5, <3>3 DEF Vectors
  <2>9. Total(d) = d[l]
    <3> HIDE DEF d
    <3> QED
      BY <2>8, SumSingle
  <2> QED
    BY <2>7, <2>8, <2>9
<1>3. ASSUME NEW l \in Index PROVE Transform(A, yes)[l] = a[l]
  <2>1. Transform(A, yes)[l] = Product(Product(NTT_N, a[l]), NTT_N_INV)
    <3>1. Transform(A, yes)[l] =
            IF yes THEN Product(Total(Terms(A, yes, l)), NTT_N_INV) ELSE Total(Terms(A, yes, l))
      BY <1>1, TransformIs
    <3> QED
      BY <1>2, <3>1
  <2>2. Product(NTT_N, NTT_N_INV) = 1
    BY DEF Product, NTT_N_INV, NTT_Q, NTT_N
  <2>3. NTT_N \in Values /\ NTT_N_INV \in Values
    <3>1. NTT_N \in Values
      BY DEF Values, NTT_Q, NTT_N
    <3> QED
      BY <3>1, PlusIs
  <2>4. PICK v \in Values : v = a[l]
    BY DEF Vectors
  <2>5. Product(NTT_N, v) = Product(v, NTT_N)
    BY <2>3, ProductIs
  <2>6. Product(Product(v, NTT_N), NTT_N_INV) = Product(v, Product(NTT_N, NTT_N_INV))
    BY <2>3, ProductIs
  <2>7. Product(v, 1) = v
    BY ProductIs
  <2> QED
    BY <2>1, <2>2, <2>4, <2>5, <2>6, <2>7
<1>4. Transform(A, yes) \in Vectors
  BY <1>1, TransformIs
<1>5. Transform(A, yes) \in [Index -> Values] /\ a \in [Index -> Values]
  BY <1>4 DEF Vectors
<1>6. Transform(A, yes) = a
  <2> DEFINE b == Transform(A, yes)
  <2>1. b \in [Index -> Values] /\ a \in [Index -> Values] /\ \A l \in Index : b[l] = a[l]
    BY <1>3, <1>5
  <2> HIDE DEF b
  <2>2. b = a
    BY <2>1
  <2> QED
    BY <2>2 DEF b
<1> QED
  BY <1>6 DEF A

-----------------------------------------------------------------------------
(***************************************************************************)
(* A stage, when no product is too wide.                                   *)
(***************************************************************************)
LEMMA OneMore ==
  ASSUME NEW r \in Nat, r < 6658
  PROVE  (IF r >= 3329 THEN r - 3329 ELSE r) = r % 3329
<1>1. CASE r >= 3329
  <2>1. PICK y \in Nat : r = y + 3329
    <3>1. r - 3329 \in Nat /\ r = (r - 3329) + 3329
      BY <1>1
    <3> QED
      BY <3>1
  <2>2. y < 3329
    BY <2>1
  <2>3. (y + 3329) % 3329 = y
    BY <2>2
  <2> QED
    BY <1>1, <2>1, <2>3
<1>2. CASE r < 3329
  BY <1>2
<1> QED
  BY <1>1, <1>2

LEMMA BarrettIsExact ==
  ASSUME NEW x \in Nat, x <= 852345
  PROVE  barrett(x) = x % NTT_Q
<1>1. x <= 852345
  OBVIOUS
<1>2. PICK t \in Nat : t = x \div 4096 /\ t <= 208
  <2>1. x \div 4096 \in Nat /\ x \div 4096 <= 208
    BY <1>1
  <2> QED
    BY <2>1
<1>3. PICK l \in Nat : l = x % 4096 /\ l < 4096
  OBVIOUS
<1>4. x = 4096 * t + l
  BY <1>2, <1>3
<1>5. PICK u \in Nat : u = (l * 5039) \div 4096 /\ 4096 * u <= l * 5039 /\ l * 5039 < 4096 * u + 4096
  OBVIOUS
<1>6. PICK w \in Nat : w = (t * 5039 + u) \div 4096 /\ 4096 * w <= t * 5039 + u /\ t * 5039 + u < 4096 * w + 4096
  OBVIOUS
<1>7. w < 256
  BY <1>1, <1>3, <1>5, <1>6, <1>4
<1>8. q_est(x) = w
  <2>1. q_est(x) = ((t * 5039 + (l * 5039) \div 4096) \div 4096) % 256
    BY <1>2, <1>3 DEF q_est
  <2>2. q_est(x) = w % 256
    BY <1>5, <1>6, <2>1
  <2> QED
    BY <1>7, <2>2
<1>9. x - w * 3329 >= 0 /\ x - w * 3329 < 6658
  <2>1. 16777216 * w <= 5039 * x /\ 5039 * x < 16777216 * w + 16777216
    BY <1>3, <1>5, <1>6, <1>4
  <2> QED
    BY <1>1, <2>1
<1>10. PICK r \in Nat : r = x - w * 3329 /\ r < 6658
  <2>1. x - w * 3329 \in Nat /\ x - w * 3329 < 6658
    BY <1>9
  <2> QED
    BY <2>1
<1>11. r % 3329 = x % 3329
  BY <1>10
<1>12. barrett(x) = (IF r >= 3329 THEN r - 3329 ELSE r) % 2^16
  BY <1>8, <1>10 DEF barrett, NTT_Q
<1>13. (IF r >= 3329 THEN r - 3329 ELSE r) = r % 3329
  BY <1>10, OneMore
<1>14. (r % 3329) % 2^16 = r % 3329
  OBVIOUS
<1> QED
  BY <1>11, <1>12, <1>13, <1>14 DEF NTT_Q

LEMMA BarrettExact ==
  ASSUME NEW x \in Nat, ~Wide(x)
  PROVE  barrett(x) = x % NTT_Q
<1>1. x <= 852345
  BY DEF Wide
<1> QED
  BY <1>1, BarrettIsExact

\* A factor of a butterfly is a root, or as far from it as a multiple of the modulus.
LEMMA TwiddleRoot ==
  ASSUME NEW inverse \in BOOLEAN, NEW k \in 0 .. 127, NEW d \in Values
  PROVE  /\ (d * twiddle(inverse, k)) % NTT_Q = Product(d, Root(inverse, k))
         /\ d * twiddle(inverse, k) \in Nat
<1>0. d \in Nat /\ k \in Nat
  BY DEF Values
<1>1. CASE ~(inverse /\ k > 0)
  <2>1. twiddle(inverse, k) = TW[k]
    BY <1>1 DEF twiddle
  <2>2. Root(inverse, k) = TW[k]
    <3>1. CASE ~inverse
      <4>1. k % 256 = k
        OBVIOUS
      <4> QED
        BY <3>1, <4>1 DEF Root, NTT_N
    <3>2. CASE inverse
      <4>1. k = 0
        BY <1>1, <3>2
      <4> QED
        BY <4>1, RootIs, PowerTwice
    <3> QED
      BY <3>1, <3>2
  <2>3. TW[k] \in Nat
    <3>1. TW[k] \in Values
      BY TwAre
    <3> QED
      BY <3>1 DEF Values
  <2>4. PICK v \in Nat : v = TW[k]
    BY <2>3
  <2>5. d * v \in Nat
    BY <1>0
  <2> QED
    BY <2>1, <2>2, <2>4, <2>5 DEF Product
<1>2. CASE inverse /\ k > 0
  <2>1. PICK v \in Values : v = TW[128 - k]
    <3>1. 128 - k \in 0 .. 255
      OBVIOUS
    <3> QED
      BY <3>1, TwAre
  <2>2. twiddle(inverse, k) = 3329 - v
    BY <1>2, <2>1 DEF twiddle, NTT_Q
  <2>3. Root(inverse, k) = Product(MinusOne, v)
    <3>1. Root(inverse, k) = Power(256 - k)
      <4>1. (256 - (k % 256)) % 256 = (256 - k) % 256
        OBVIOUS
      <4> QED
        BY <1>2, <4>1 DEF Root, Power, NTT_N
    <3>2. 256 - k = 128 + (128 - k) /\ 128 - k \in Nat
      OBVIOUS
    <3>3. Power(256 - k) = Product(Power(128), Power(128 - k))
      BY <3>2, PowerAdds
    <3>4. Power(128 - k) = v
      <4>1. (128 - k) % 256 = 128 - k
        OBVIOUS
      <4> QED
        BY <2>1, <4>1 DEF Power, NTT_N
    <3> QED
      BY <3>1, <3>3, <3>4, PowerIs
  <2>4. v \in 0 .. 3328
    BY DEF Values, NTT_Q
  <2>5. Product(MinusOne, v) = (3329 - v) % 3329
    BY <2>4 DEF Product, MinusOne, NTT_Q
  <2>6. PICK y \in Nat : y = 3329 - v
    BY <2>4
  <2>7. (d * y) % 3329 = (d * (y % 3329)) % 3329
    <3>1. ((y % 3329) * d) % 3329 = (y * d) % 3329
      BY <1>0, ModProduct
    <3>2. (y % 3329) * d = d * (y % 3329) /\ y * d = d * y
      BY <1>0
    <3> QED
      BY <3>1, <3>2
  <2>8. d * y \in Nat
    BY <1>0
  <2>9. Product(d, Root(inverse, k)) = (d * (y % 3329)) % 3329
    BY <2>3, <2>5, <2>6 DEF Product, NTT_Q
  <2>10. (d * twiddle(inverse, k)) % NTT_Q = (d * y) % 3329
    BY <2>2, <2>6 DEF NTT_Q
  <2> QED
    BY <2>2, <2>6, <2>7, <2>8, <2>9, <2>10
<1> QED
  BY <1>1, <1>2

Butterflies(v, h, inverse) ==
  [i \in Index |-> IF (i \div h) % 2 = 0 THEN Plus(v[i], v[i + h])
                   ELSE Product(Plus(v[i - h], Product(v[i], MinusOne)), Root(inverse, (i % h) * (128 \div h)))]

\* The sum and the difference, as words.
LEMMA SumAndDifference ==
  ASSUME NEW x \in Values, NEW y \in Values
  PROVE  /\ Reduced((x + y) % 2^16) % 2^16 = Plus(x, y)
         /\ Reduced((x + NTT_Q - y) % 2^16) = Plus(x, Product(y, MinusOne))
<1>1. x \in 0 .. 3328 /\ y \in 0 .. 3328
  BY DEF Values, NTT_Q
<1>2. Reduced((x + y) % 2^16) % 2^16 = Plus(x, y)
  BY <1>1 DEF Reduced, Plus, NTT_Q
<1>3. Product(y, MinusOne) = (3329 - y) % 3329
  BY <1>1 DEF Product, MinusOne, NTT_Q
<1>4. Plus(x, Product(y, MinusOne)) = (x + 3329 - y) % 3329
  BY <1>1, <1>3 DEF Plus, NTT_Q
<1>5. Reduced((x + 3329 - y) % 2^16) = (x + 3329 - y) % 3329
  BY <1>1 DEF Reduced, NTT_Q
<1> QED
  BY <1>2, <1>4, <1>5 DEF NTT_Q

LEMMA StageExact ==
  ASSUME NEW st \in Arrays, st.a \in Vectors, NEW half \in Halves, NEW inverse \in BOOLEAN,
         ~Stage(st, half, inverse).wide
  PROVE  ~st.wide /\ Stage(st, half, inverse).a = Butterflies(st.a, half, inverse)
                  /\ Butterflies(st.a, half, inverse) \in Vectors
<1> DEFINE a          == st.a
           IsTop(i)   == (i \div half) % 2 = 0
           sum(i)     == Reduced((a[i] + a[i + half]) % 2^16) % 2^16
           dif(i)     == Reduced((a[i - half] + NTT_Q - a[i]) % 2^16)
           place(i)   == (i % half) * (128 \div half)
           product(i) == dif(i) * twiddle(inverse, place(i))
           array      == [i \in Index |-> IF IsTop(i) THEN sum(i) ELSE barrett(product(i))]
           wide       == st.wide \/ \E i \in Index : ~IsTop(i) /\ Wide(product(i))
           exact(i)   == IF IsTop(i) THEN Plus(a[i], a[i + half])
                         ELSE Product(Plus(a[i - half], Product(a[i], MinusOne)), Root(inverse, place(i)))
<1>1. Stage(st, half, inverse) = [a |-> Stored(array), wide |-> wide]
  BY DEF Stage
<1>2. ~st.wide /\ \A i \in Index : ~IsTop(i) => ~Wide(product(i))
  <2>1. ~wide
    <3> HIDE DEF array, wide
    <3> QED
      BY <1>1
  <2> HIDE DEF array, IsTop, product
  <2> QED
    BY <2>1
<1>3. \A i \in Index : a[i] \in Values
  BY DEF Vectors
<1>4. ASSUME NEW i \in Index, IsTop(i) PROVE sum(i) = Plus(a[i], a[i + half]) /\ sum(i) \in Values
  <2>1. i + half \in Index
    BY <1>4, Partner
  <2>2. PICK x \in Values, y \in Values : x = a[i] /\ y = a[i + half]
    BY <1>3, <2>1
  <2>3. Reduced((x + y) % 2^16) % 2^16 = Plus(x, y)
    BY SumAndDifference
  <2>4. sum(i) = Plus(x, y)
    BY <2>2, <2>3
  <2>5. Plus(x, y) \in Values
    BY PlusIs
  <2> HIDE DEF sum
  <2> QED
    BY <2>2, <2>4, <2>5
<1>5. ASSUME NEW i \in Index, ~IsTop(i)
      PROVE  LET e == Product(Plus(a[i - half], Product(a[i], MinusOne)), Root(inverse, place(i)))
             IN  barrett(product(i)) = e /\ e \in Values
  <2>1. i - half \in Index /\ place(i) \in 0 .. 127
    BY <1>5, Partner
  <2>2. PICK x \in Values, y \in Values : x = a[i - half] /\ y = a[i]
    BY <1>3, <2>1
  <2>3. Reduced((x + NTT_Q - y) % 2^16) = Plus(x, Product(y, MinusOne))
    BY SumAndDifference
  <2>4. PICK d \in Values : d = Plus(x, Product(y, MinusOne))
    BY PlusIs, ProductIs
  <2>5. dif(i) = d
    BY <2>2, <2>3, <2>4
  <2> HIDE DEF dif
  <2>6. PICK k \in 0 .. 127 : k = place(i)
    BY <2>1
  <2> HIDE DEF place
  <2>7. product(i) = d * twiddle(inverse, k)
    BY <2>5, <2>6
  <2>8. (d * twiddle(inverse, k)) % NTT_Q = Product(d, Root(inverse, k)) /\ d * twiddle(inverse, k) \in Nat
    BY TwiddleRoot
  <2>9. ~Wide(product(i))
    BY <1>2, <1>5
  <2> HIDE DEF product
  <2>10. barrett(product(i)) = product(i) % NTT_Q
    BY <2>7, <2>8, <2>9, BarrettExact
  <2>11. Product(d, Root(inverse, k)) \in Values
    <3>1. k \in Nat
      OBVIOUS
    <3>2. Root(inverse, k) \in Values
      BY <3>1, RootIs
    <3> QED
      BY <3>2, ProductIs
  <2> QED
    BY <2>2, <2>4, <2>6, <2>7, <2>8, <2>10, <2>11
<1> HIDE DEF sum, product, IsTop, place, a
<1>6. \A i \in Index : exact(i) \in Values /\ (IF IsTop(i) THEN sum(i) ELSE barrett(product(i))) = exact(i)
  BY <1>4, <1>5
<1>7. array = [i \in Index |-> exact(i)]
  BY <1>6
<1>8. Butterflies(a, half, inverse) = [i \in Index |-> exact(i)]
  BY DEF Butterflies, IsTop, place
<1> HIDE DEF exact
<1>9. array \in [Index -> Values]
  BY <1>6, <1>7
<1> HIDE DEF array
<1>10. Stored(array) = array
  <2>1. Values \in SUBSET Nat
    BY Ranges
  <2> QED
    BY <1>9, <2>1, StoredIs
<1>11. Stage(st, half, inverse).a = array
  BY <1>1, <1>10
<1> QED
  BY <1>2, <1>7, <1>8, <1>9, <1>11 DEF Vectors, a

LEMMA ScaledExact ==
  ASSUME NEW st \in Arrays, st.a \in Vectors, NEW inverse \in BOOLEAN, ~Scaled(st, inverse).wide
  PROVE  /\ ~st.wide /\ Scaled(st, inverse).a \in Vectors
         /\ \A i \in Index : Scaled(st, inverse).a[i] =
                               IF inverse THEN Product(st.a[i], NTT_N_INV) ELSE st.a[i]
<1>1. CASE ~inverse
  BY <1>1 DEF Scaled
<1>2. CASE inverse
  <2> DEFINE a     == st.a
             array == [i \in Index |-> barrett(a[i] * NTT_N_INV)]
             wide  == st.wide \/ \E i \in Index : Wide(a[i] * NTT_N_INV)
  <2>1. Scaled(st, inverse) = [a |-> Stored(array), wide |-> wide]
    BY <1>2 DEF Scaled
  <2>2. ~st.wide /\ \A i \in Index : ~Wide(a[i] * NTT_N_INV)
    <3>1. ~wide
      <4> HIDE DEF array, wide
      <4> QED
        BY <2>1
    <3> QED
      BY <3>1
  <2>3. ASSUME NEW i \in Index
        PROVE  barrett(a[i] * NTT_N_INV) = Product(a[i], NTT_N_INV) /\ Product(a[i], NTT_N_INV) \in Values
    <3>1. PICK v \in Values : v = a[i]
      BY DEF Vectors
    <3>2. PICK z \in Nat : z = v * NTT_N_INV
      <4>1. v * 3316 \in Nat
        BY DEF Values
      <4> QED
        BY <4>1 DEF NTT_N_INV
    <3>3. barrett(z) = z % NTT_Q
      BY <2>2, <3>1, <3>2, BarrettExact
    <3> QED
      BY <3>1, <3>2, <3>3, ProductIs, PlusIs DEF Product
  <2>4. array = [i \in Index |-> Product(a[i], NTT_N_INV)] /\ array \in [Index -> Values]
    BY <2>3
  <2> HIDE DEF array
  <2>5. Stored(array) = array
    <3>1. Values \in SUBSET Nat
      BY Ranges
    <3> QED
      BY <2>4, <3>1, StoredIs
  <2>6. Scaled(st, inverse).a = array
    BY <2>1, <2>5
  <2>7. array \in Vectors
    BY <2>4 DEF Vectors
  <2>8. \A i \in Index : array[i] = Product(st.a[i], NTT_N_INV)
    BY <2>4
  <2> QED
    BY <1>2, <2>2, <2>6, <2>7, <2>8
<1> QED
  BY <1>1, <1>2

-----------------------------------------------------------------------------
(***************************************************************************)
(* What the stages have summed: block by block, a sum of the terms of the  *)
(* index whose bits are those of the block in reverse.                     *)
(***************************************************************************)
Mirror(i) == (i % 2) * 128 + ((i \div 2) % 2) * 64 + ((i \div 4) % 2) * 32 + ((i \div 8) % 2) * 16
              + ((i \div 16) % 2) * 8 + ((i \div 32) % 2) * 4 + ((i \div 64) % 2) * 2
              + ((i \div 128) % 2)

LEMMA ReverseIs ==
  ASSUME NEW i \in Index
  PROVE  Mirror(i) \in Index /\ Mirror(i) \in Nat
<1>1. i \in 0 .. 255
  BY Ranges
<1>2. Mirror(i) \in 0 .. 255
  BY <1>1 DEF Mirror
<1> QED
  BY <1>2, Ranges

LEMMA ReverseReverse ==
  ASSUME NEW i \in Index
  PROVE  Mirror(Mirror(i)) = i
<1>1. i \in 0 .. 255
  BY Ranges
<1>2. PICK a \in 0 .. 1, b \in 0 .. 1, c \in 0 .. 1, d \in 0 .. 1, e \in 0 .. 1, f \in 0 .. 1,
           g \in 0 .. 1, h \in 0 .. 1 :
        /\ a = i % 2 /\ b = (i \div 2) % 2 /\ c = (i \div 4) % 2 /\ d = (i \div 8) % 2
        /\ e = (i \div 16) % 2 /\ f = (i \div 32) % 2 /\ g = (i \div 64) % 2 /\ h = (i \div 128) % 2
  <2>1. /\ i % 2 \in 0 .. 1 /\ (i \div 2) % 2 \in 0 .. 1 /\ (i \div 4) % 2 \in 0 .. 1
        /\ (i \div 8) % 2 \in 0 .. 1 /\ (i \div 16) % 2 \in 0 .. 1 /\ (i \div 32) % 2 \in 0 .. 1
        /\ (i \div 64) % 2 \in 0 .. 1 /\ (i \div 128) % 2 \in 0 .. 1
    BY <1>1
  <2> QED
    BY <2>1
<1>3. i = a + 2 * b + 4 * c + 8 * d + 16 * e + 32 * f + 64 * g + 128 * h
  BY <1>1, <1>2
<1>4. Mirror(i) = a * 128 + b * 64 + c * 32 + d * 16 + e * 8 + f * 4 + g * 2 + h
  BY <1>2 DEF Mirror
<1>5. PICK r \in Nat : r = a * 128 + b * 64 + c * 32 + d * 16 + e * 8 + f * 4 + g * 2 + h
  OBVIOUS
<1>6. r % 2 = h /\ (r \div 2) % 2 = g /\ (r \div 4) % 2 = f /\ (r \div 8) % 2 = e
  BY <1>5
<1>7. (r \div 16) % 2 = d /\ (r \div 32) % 2 = c /\ (r \div 64) % 2 = b /\ (r \div 128) % 2 = a
  BY <1>5
<1> QED
  BY <1>3, <1>4, <1>5, <1>6, <1>7 DEF Mirror

\* The bit of a stage, put to the start of a block of the stage before.
LEMMA ReverseAdds ==
  ASSUME NEW h \in Halves, NEW m \in Index, m % (2 * h) = 0
  PROVE  Mirror(m + h) = Mirror(m) + 128 \div h
<1>0. m \in 0 .. 255
  BY Ranges
<1>1. CASE h = 1
  <2>1. PICK d \in Nat : m = 2 * d
    <3>1. m \div 2 \in Nat /\ m = 2 * (m \div 2)
      BY <1>0, <1>1
    <3> QED
      BY <3>1
  <2>2. /\ (m + 1) % 2 = 1 /\ m % 2 = 0 /\ (m + 1) \div 2 = m \div 2 /\ (m + 1) \div 4 = m \div 4
        /\ (m + 1) \div 8 = m \div 8 /\ (m + 1) \div 16 = m \div 16 /\ (m + 1) \div 32 = m \div 32
        /\ (m + 1) \div 64 = m \div 64 /\ (m + 1) \div 128 = m \div 128
    BY <2>1
  <2> QED
    BY <1>0, <1>1, <2>2 DEF Mirror
<1>2. CASE h = 2
  <2>1. PICK d \in Nat : m = 4 * d
    <3>1. m \div 4 \in Nat /\ m = 4 * (m \div 4)
      BY <1>0, <1>2
    <3> QED
      BY <3>1
  <2>2. /\ (m + 2) % 2 = 0 /\ m % 2 = 0 /\ ((m + 2) \div 2) % 2 = 1 /\ (m \div 2) % 2 = 0
        /\ (m + 2) \div 4 = m \div 4
        /\ (m + 2) \div 8 = m \div 8 /\ (m + 2) \div 16 = m \div 16 /\ (m + 2) \div 32 = m \div 32
        /\ (m + 2) \div 64 = m \div 64 /\ (m + 2) \div 128 = m \div 128
    BY <2>1
  <2> QED
    BY <1>0, <1>2, <2>2 DEF Mirror
<1>3. CASE h = 4
  BY <1>0, <1>3 DEF Mirror
<1>4. CASE h = 8
  BY <1>0, <1>4 DEF Mirror
<1>5. CASE h = 16
  BY <1>0, <1>5 DEF Mirror
<1>6. CASE h = 32
  BY <1>0, <1>6 DEF Mirror
<1>7. CASE h = 64
  BY <1>0, <1>7 DEF Mirror
<1>8. CASE h = 128
  BY <1>0, <1>8 DEF Mirror
<1> QED
  BY <1>1, <1>2, <1>3, <1>4, <1>5, <1>6, <1>7, <1>8 DEF Halves

\* Where a cell and its partner lie in the blocks of a stage and of the stage before.
Above(h, i) ==
  LET x == i % h
      m == i - (i % (2 * h))
  IN  /\ x \in 0 .. h - 1 /\ m \in 0 .. 255 /\ m % (2 * h) = 0
      /\ (i \div h) % 2 = 0 /\ i % (2 * h) = x
      /\ (i + h) % (2 * h) = x + h

Below(h, i) ==
  LET x == i % h
      m == i - (i % (2 * h))
  IN  /\ x \in 0 .. h - 1 /\ m \in 0 .. 255 /\ m % (2 * h) = 0 /\ m + h \in 0 .. 255
      /\ (i \div h) % 2 # 0 /\ i % (2 * h) = x + h
      /\ (i - h) % (2 * h) = x

LEMMA Placed ==
  ASSUME NEW h \in Halves, NEW i \in Index
  PROVE  Above(h, i) \/ Below(h, i)
<1>0. i \in 0 .. 255
  BY Ranges
<1>1. CASE h = 1
  <2>1. PICK d \in 0 .. 127, y \in 0 .. 1 : i = 2 * d + y
    <3>1. i \div 2 \in 0 .. 127 /\ i % 2 \in 0 .. 1 /\ i = 2 * (i \div 2) + (i % 2)
      BY <1>0
    <3> QED
      BY <3>1
  <2>2. CASE y < 1
    BY <1>1, <2>1, <2>2 DEF Above
  <2>3. CASE y >= 1
    BY <1>1, <2>1, <2>3 DEF Below
  <2> QED
    BY <2>1, <2>2, <2>3
<1>2. CASE h = 2
  <2>1. PICK d \in 0 .. 63, y \in 0 .. 3 : i = 4 * d + y
    <3>1. i \div 4 \in 0 .. 63 /\ i % 4 \in 0 .. 3 /\ i = 4 * (i \div 4) + (i % 4)
      BY <1>0
    <3> QED
      BY <3>1
  <2>2. CASE y < 2
    BY <1>2, <2>1, <2>2 DEF Above
  <2>3. CASE y >= 2
    BY <1>2, <2>1, <2>3 DEF Below
  <2> QED
    BY <2>1, <2>2, <2>3
<1>3. CASE h = 4
  <2>1. PICK d \in 0 .. 31, y \in 0 .. 7 : i = 8 * d + y
    <3>1. i \div 8 \in 0 .. 31 /\ i % 8 \in 0 .. 7 /\ i = 8 * (i \div 8) + (i % 8)
      BY <1>0
    <3> QED
      BY <3>1
  <2>2. CASE y < 4
    BY <1>3, <2>1, <2>2 DEF Above
  <2>3. CASE y >= 4
    BY <1>3, <2>1, <2>3 DEF Below
  <2> QED
    BY <2>1, <2>2, <2>3
<1>4. CASE h = 8
  <2>1. PICK d \in 0 .. 15, y \in 0 .. 15 : i = 16 * d + y
    <3>1. i \div 16 \in 0 .. 15 /\ i % 16 \in 0 .. 15 /\ i = 16 * (i \div 16) + (i % 16)
      BY <1>0
    <3> QED
      BY <3>1
  <2>2. CASE y < 8
    BY <1>4, <2>1, <2>2 DEF Above
  <2>3. CASE y >= 8
    BY <1>4, <2>1, <2>3 DEF Below
  <2> QED
    BY <2>1, <2>2, <2>3
<1>5. CASE h = 16
  <2>1. PICK d \in 0 .. 7, y \in 0 .. 31 : i = 32 * d + y
    <3>1. i \div 32 \in 0 .. 7 /\ i % 32 \in 0 .. 31 /\ i = 32 * (i \div 32) + (i % 32)
      BY <1>0
    <3> QED
      BY <3>1
  <2>2. CASE y < 16
    BY <1>5, <2>1, <2>2 DEF Above
  <2>3. CASE y >= 16
    BY <1>5, <2>1, <2>3 DEF Below
  <2> QED
    BY <2>1, <2>2, <2>3
<1>6. CASE h = 32
  <2>1. PICK d \in 0 .. 3, y \in 0 .. 63 : i = 64 * d + y
    <3>1. i \div 64 \in 0 .. 3 /\ i % 64 \in 0 .. 63 /\ i = 64 * (i \div 64) + (i % 64)
      BY <1>0
    <3> QED
      BY <3>1
  <2>2. CASE y < 32
    BY <1>6, <2>1, <2>2 DEF Above
  <2>3. CASE y >= 32
    BY <1>6, <2>1, <2>3 DEF Below
  <2> QED
    BY <2>1, <2>2, <2>3
<1>7. CASE h = 64
  <2>1. PICK d \in 0 .. 1, y \in 0 .. 127 : i = 128 * d + y
    <3>1. i \div 128 \in 0 .. 1 /\ i % 128 \in 0 .. 127 /\ i = 128 * (i \div 128) + (i % 128)
      BY <1>0
    <3> QED
      BY <3>1
  <2>2. CASE y < 64
    BY <1>7, <2>1, <2>2 DEF Above
  <2>3. CASE y >= 64
    BY <1>7, <2>1, <2>3 DEF Below
  <2> QED
    BY <2>1, <2>2, <2>3
<1>8. CASE h = 128
  <2>1. PICK d \in 0 .. 0, y \in 0 .. 255 : i = 256 * d + y
    <3>1. i \div 256 \in 0 .. 0 /\ i % 256 \in 0 .. 255 /\ i = 256 * (i \div 256) + (i % 256)
      BY <1>0
    <3> QED
      BY <3>1
  <2>2. CASE y < 128
    BY <1>8, <2>1, <2>2 DEF Above
  <2>3. CASE y >= 128
    BY <1>8, <2>1, <2>3 DEF Below
  <2> QED
    BY <2>1, <2>2, <2>3
<1> QED
  BY <1>1, <1>2, <1>3, <1>4, <1>5, <1>6, <1>7, <1>8 DEF Halves

Blocks(a, inverse, n) ==
  [i \in Index |-> Partial(Terms(a, inverse, Mirror(i - (i % Width(n)))), n, i % Width(n))]

\* The roots of a stage: they repeat with the block, with the sign changed halfway.
Factors(inverse, n) == [j \in Index |-> Root(inverse, j * (128 \div Width(n)))]

LEMMA StageRoots ==
  ASSUME NEW inverse \in BOOLEAN, NEW n \in 1 .. 8
  PROVE  /\ 128 \div Width(n) \in 1 .. 128
         /\ Factors(inverse, n) \in Vectors /\ Periodic(Factors(inverse, n), Width(n-1))
         /\ \A x \in 0 .. Width(n)-1 :
              Factors(inverse, n)[x + Width(n)] = Product(Factors(inverse, n)[x], MinusOne)
<1>1. PICK h \in Halves : h = Width(n) /\ Width(n-1) = 2 * h
  BY Widths
<1>2. PICK e \in 1 .. 128 : e = 128 \div h /\ h * e = 128
  <2>1. 128 \div h \in 1 .. 128 /\ h * (128 \div h) = 128
    BY DEF Halves
  <2> QED
    BY <2>1
<1>3. h \in 1 .. 128
  BY DEF Halves
<1> DEFINE c == [j \in Index |-> Root(inverse, j * e)]
<1>4. \A j \in Index : j \in Nat /\ j * e \in Nat
  BY Ranges
<1>5. c \in Vectors /\ \A j \in Index : c[j] = Root(inverse, j * e) /\ c[j] \in Values
  BY <1>4, RootIs DEF Vectors
<1> HIDE DEF c
<1>6. ASSUME NEW y \in Index, y + 2 * h \in Index PROVE c[y + 2 * h] = c[y]
  <2>1. PICK u \in Nat : u = y * e
    BY <1>4
  <2>2. (y + 2 * h) * e = u + 256
    <3>1. (y + 2 * h) * e = y * e + 2 * (h * e)
      BY <1>3, <1>4
    <3> QED
      BY <1>2, <2>1, <3>1
  <2>3. c[y + 2 * h] = Root(inverse, u + 256) /\ c[y] = Root(inverse, u)
    BY <1>5, <1>6, <2>1, <2>2
  <2>4. (u + 256) % 256 = u % 256 /\ u + 256 \in Nat
    OBVIOUS
  <2> QED
    BY <2>3, <2>4, RootIs
<1>7. ASSUME NEW x \in 0 .. h - 1 PROVE c[x + h] = Product(c[x], MinusOne)
  <2>1. x \in Index /\ x + h \in Index
    BY <1>3, Ranges
  <2>2. PICK u \in Nat : u = x * e
    BY <1>4, <2>1
  <2>3. (x + h) * e = u + 128
    <3>1. (x + h) * e = x * e + h * e
      BY <1>3
    <3> QED
      BY <1>2, <2>2, <3>1
  <2>4. c[x + h] = Root(inverse, u + 128) /\ c[x] = Root(inverse, u)
    BY <1>5, <2>1, <2>2, <2>3
  <2>5. Root(inverse, u + 128) = Product(Root(inverse, u), Root(inverse, 128))
    BY RootIs
  <2>6. Root(inverse, 128) = MinusOne
    BY RootIs
  <2> QED
    BY <2>4, <2>5, <2>6
<1>8. Periodic(c, 2 * h)
  BY <1>6 DEF Periodic
<1>9. c = Factors(inverse, n)
  BY <1>1, <1>2 DEF c, Factors
<1> QED
  <2>1. 128 \div Width(n) \in 1 .. 128
    BY <1>1, <1>2
  <2>2. c \in Vectors /\ Periodic(c, Width(n-1))
    BY <1>1, <1>5, <1>8
  <2>3. \A x \in 0 .. Width(n)-1 : c[x + Width(n)] = Product(c[x], MinusOne)
    BY <1>1, <1>7
  <2> QED
    BY <1>9, <2>1, <2>2, <2>3

\* The lower half of a block has the terms of the upper half, times the roots.
LEMMA LowerHalf ==
  ASSUME NEW a \in Vectors, NEW inverse \in BOOLEAN, NEW n \in 1 .. 8, NEW m \in Index,
         m % Width(n-1) = 0, m + Width(n) \in Index, NEW x \in 0 .. Width(n)-1
  PROVE  LET h == Width(n)
             t == Terms(a, inverse, Mirror(m))
         IN  Partial(Terms(a, inverse, Mirror(m + h)), n, x) =
               Product(Plus(Partial(t, n-1, x), Product(Partial(t, n-1, x + h), MinusOne)),
                     Root(inverse, x * (128 \div h)))
<1> DEFINE h == Width(n)
           e == 128 \div h
           c == Factors(inverse, n)
           t == Terms(a, inverse, Mirror(m))
           w == Terms(a, inverse, Mirror(m + h))
<1>1. /\ e \in 1 .. 128 /\ c \in Vectors /\ Periodic(c, Width(n-1))
      /\ c[x + h] = Product(c[x], MinusOne)
  BY StageRoots
<1>2. /\ x \in 0 .. Width(n-1)-1 /\ x + h \in 0 .. Width(n-1)-1
      /\ x \in Index /\ x + h \in Index /\ n - 1 \in 0 .. 8
  BY Folding
<1>3. c[x] = Root(inverse, x * e) /\ c[x] \in Values
  <2>1. c[x] = Root(inverse, x * e)
    BY <1>2 DEF Factors
  <2> HIDE DEF c
  <2> QED
    BY <1>1, <1>2, <2>1 DEF Vectors
<1>4. Mirror(m) \in Nat /\ Mirror(m + h) \in Nat /\ Mirror(m + h) = Mirror(m) + e
  <2>1. h \in Halves /\ Width(n-1) = 2 * h
    BY Widths
  <2> HIDE DEF h
  <2>2. m % (2 * h) = 0
    BY <2>1
  <2> QED
    BY <2>1, <2>2, ReverseIs, ReverseAdds DEF h
<1>5. w = Scale(t, c)
  <2>1. PICK k \in Nat : k = Mirror(m)
    BY <1>4
  <2>2. Mirror(m + h) = k + e
    BY <1>4, <2>1
  <2> HIDE DEF e
  <2>3. ASSUME NEW j \in Index
        PROVE  Product(a[j], Root(inverse, j * (k + e))) = Product(Product(a[j], Root(inverse, j * k)), Root(inverse, j * e))
    <3>1. j \in Nat
      BY Ranges
    <3>2. PICK u \in Nat : u = j * k
      BY <3>1
    <3>3. PICK v \in Nat : v = j * e
      BY <1>1, <3>1
    <3>4. j * (k + e) = u + v
      <4>1. j * (k + e) = j * k + j * e
        BY <1>1, <3>1
      <4> QED
        BY <3>2, <3>3, <4>1
    <3>5. Root(inverse, u + v) = Product(Root(inverse, u), Root(inverse, v))
      BY RootIs
    <3>6. Root(inverse, u) \in Values /\ Root(inverse, v) \in Values /\ a[j] \in Values
      BY RootIs DEF Vectors
    <3>7. Product(Product(a[j], Root(inverse, u)), Root(inverse, v)) = Product(a[j], Product(Root(inverse, u), Root(inverse, v)))
      <4>1. PICK x1 \in Values, x2 \in Values, x3 \in Values :
              x1 = a[j] /\ x2 = Root(inverse, u) /\ x3 = Root(inverse, v)
        BY <3>6
      <4>2. Product(Product(x1, x2), x3) = Product(x1, Product(x2, x3))
        BY ProductIs
      <4> QED
        BY <4>1, <4>2
    <3> QED
      BY <3>2, <3>3, <3>4, <3>5, <3>7
  <2>4. w = [j \in Index |-> Product(a[j], Root(inverse, j * (k + e)))]
    BY <2>2 DEF Terms
  <2>5. \A j \in Index : t[j] = Product(a[j], Root(inverse, j * k)) /\ c[j] = Root(inverse, j * e)
    BY <2>1 DEF Terms, Factors, e
  <2> HIDE DEF t, w, c
  <2> QED
    BY <2>3, <2>4, <2>5 DEF Scale
<1>6. t \in Vectors /\ w \in Vectors
  BY <1>4, TermsAre
<1> HIDE DEF t, w, c, e
<1>7. PICK p \in Values, q \in Values : p = Partial(t, n-1, x) /\ q = Partial(t, n-1, x + h)
  BY <1>6, PartialIs
<1>8. Partial(w, n-1, x) = Product(p, c[x]) /\ Partial(w, n-1, x + h) = Product(q, c[x + h])
  BY <1>1, <1>2, <1>5, <1>6, <1>7, SumScaled
<1>9. Partial(w, n, x) = Plus(Partial(w, n-1, x), Partial(w, n-1, x + h))
  BY <1>6, PartialIs
<1>10. Plus(Product(p, c[x]), Product(q, Product(c[x], MinusOne))) = Product(Plus(p, Product(q, MinusOne)), c[x])
  <2>1. PICK v \in Values : v = c[x]
    BY <1>3
  <2>2. MinusOne \in Values /\ Product(q, MinusOne) \in Values
    BY PlusIs, ProductIs
  <2>3. Product(v, MinusOne) = Product(MinusOne, v)
    BY <2>2, ProductIs
  <2>4. Product(q, Product(MinusOne, v)) = Product(Product(q, MinusOne), v)
    BY <2>2, ProductIs
  <2>5. Product(Plus(p, Product(q, MinusOne)), v) = Plus(Product(p, v), Product(Product(q, MinusOne), v))
    BY <2>2, ProductIs
  <2> QED
    BY <2>1, <2>3, <2>4, <2>5
<1>11. Partial(w, n, x) = Product(Plus(p, Product(q, MinusOne)), Root(inverse, x * e))
  BY <1>1, <1>3, <1>8, <1>9, <1>10
<1> QED
  BY <1>7, <1>11 DEF t, w, e

LEMMA StageSums ==
  ASSUME NEW a \in Vectors, NEW inverse \in BOOLEAN, NEW n \in 1 .. 8
  PROVE  Butterflies(Blocks(a, inverse, n-1), Width(n), inverse) = Blocks(a, inverse, n)
<1>1. PICK h \in Halves : h = Width(n) /\ Width(n-1) = 2 * h
  BY Widths
<1> DEFINE v == Blocks(a, inverse, n-1)
           w == Blocks(a, inverse, n)
           b == Butterflies(v, h, inverse)
<1>2. \A i \in Index : v[i] = Partial(Terms(a, inverse, Mirror(i - (i % (2 * h)))), n-1, i % (2 * h))
  BY <1>1 DEF Blocks
<1>3. \A i \in Index : w[i] = Partial(Terms(a, inverse, Mirror(i - (i % h))), n, i % h)
  BY <1>1 DEF Blocks
<1>4. \A i \in Index : b[i] = IF (i \div h) % 2 = 0 THEN Plus(v[i], v[i + h])
                   ELSE Product(Plus(v[i - h], Product(v[i], MinusOne)), Root(inverse, (i % h) * (128 \div h)))
  BY DEF Butterflies
<1> HIDE DEF v, w
<1>5. ASSUME NEW i \in Index PROVE b[i] = w[i]
  <2> DEFINE x == i % h
             m == i - (i % (2 * h))
             t == Terms(a, inverse, Mirror(m))
  <2>1. i \in 0 .. 255 /\ h \in 1 .. 128
    BY Ranges DEF Halves
  <2>2. CASE Above(h, i)
    <3>1. x \in 0 .. h - 1 /\ m \in 0 .. 255 /\ (i \div h) % 2 = 0 /\ i % (2 * h) = x /\ (i + h) % (2 * h) = x + h
      BY <2>2 DEF Above
    <3>2. m = i - x /\ m = (i + h) - (x + h)
      <4>1. m = i - x /\ x \in Int
        BY <3>1
      <4> HIDE DEF m, x
      <4> QED
        BY <2>1, <4>1
    <3>3. i + h \in Index
      BY <3>1, Partner
    <3>4. m \in Index
      BY <3>1, Ranges
    <3>5. v[i] = Partial(t, n-1, x)
      BY <1>2, <3>1
    <3>6. v[i + h] = Partial(t, n-1, x + h)
      <4>1. v[i + h] = Partial(Terms(a, inverse, Mirror((i + h) - ((i + h) % (2 * h)))), n-1, (i + h) % (2 * h))
        BY <1>2, <3>3
      <4>2. (i + h) - ((i + h) % (2 * h)) = m
        BY <3>1, <3>2
      <4> HIDE DEF m, x
      <4> QED
        BY <3>1, <4>1, <4>2
    <3>7. w[i] = Partial(t, n, x)
      BY <1>3, <3>2
    <3>8. t \in Vectors
      <4> HIDE DEF m
      <4> QED
        BY <3>4, ReverseIs, TermsAre
    <3>9. b[i] = Plus(v[i], v[i + h])
      BY <1>4, <3>1
    <3> HIDE DEF t, x
    <3>10. Partial(t, n, x) = Plus(Partial(t, n-1, x), Partial(t, n-1, x + h))
      BY <1>1, <3>1, <3>8, PartialIs
    <3> QED
      BY <3>5, <3>6, <3>7, <3>9, <3>10
  <2>3. CASE Below(h, i)
    <3>1. /\ x \in 0 .. h - 1 /\ m \in 0 .. 255 /\ m % (2 * h) = 0 /\ m + h \in 0 .. 255
          /\ (i \div h) % 2 # 0 /\ i % (2 * h) = x + h /\ (i - h) % (2 * h) = x
      BY <2>3 DEF Below
    <3>2. m + h = i - x /\ m = (i - h) - x
      <4>1. m = i - (x + h) /\ x \in Int
        BY <3>1
      <4> HIDE DEF m, x
      <4> QED
        BY <2>1, <4>1
    <3>3. i - h \in Index
      BY <3>1, Partner
    <3>4. m \in Index /\ m + h \in Index
      BY <3>1, Ranges
    <3>5. v[i] = Partial(t, n-1, x + h)
      BY <1>2, <3>1
    <3>6. v[i - h] = Partial(t, n-1, x)
      <4>1. v[i - h] = Partial(Terms(a, inverse, Mirror((i - h) - ((i - h) % (2 * h)))), n-1, (i - h) % (2 * h))
        BY <1>2, <3>3
      <4>2. (i - h) - ((i - h) % (2 * h)) = m
        BY <3>1, <3>2
      <4> HIDE DEF m, x
      <4> QED
        BY <3>1, <4>1, <4>2
    <3>7. w[i] = Partial(Terms(a, inverse, Mirror(m + h)), n, x)
      <4>1. w[i] = Partial(Terms(a, inverse, Mirror(i - x)), n, x)
        BY <1>3
      <4> HIDE DEF m, x
      <4> QED
        BY <3>2, <4>1
    <3>8. b[i] = Product(Plus(v[i - h], Product(v[i], MinusOne)), Root(inverse, x * (128 \div h)))
      BY <1>4, <3>1
    <3> HIDE DEF x, m
    <3>9. Partial(Terms(a, inverse, Mirror(m + h)), n, x) =
            Product(Plus(Partial(t, n-1, x), Product(Partial(t, n-1, x + h), MinusOne)),
                  Root(inverse, x * (128 \div h)))
      BY <1>1, <3>1, <3>4, LowerHalf
    <3> HIDE DEF t
    <3> QED
      BY <3>5, <3>6, <3>7, <3>8, <3>9
  <2> QED
    BY <2>2, <2>3, Placed
<1>6. b = w
  <2>1. b = [i \in Index |-> b[i]]
    BY DEF Butterflies
  <2>2. w = [i \in Index |-> w[i]]
    BY DEF w, Blocks
  <2> HIDE DEF b
  <2> QED
    BY <1>5, <2>1, <2>2
<1> QED
  BY <1>1, <1>6 DEF v, w

-----------------------------------------------------------------------------
(***************************************************************************)
(* The stages together.                                                    *)
(***************************************************************************)
LEMMA StageWide ==
  ASSUME NEW st \in Arrays, NEW half, NEW inverse, st.wide
  PROVE  Stage(st, half, inverse).wide
BY DEF Stage

\* The eight stages one by one.
LEMMA StagesAre ==
  ASSUME NEW st \in Arrays, NEW inverse \in BOOLEAN
  PROVE  \E stages : /\ ntt_sw(st, inverse) = Scaled(stages[8], inverse)
                     /\ stages[0] = st /\ \A s \in 0 .. 8 : stages[s] \in Arrays
                     /\ \A s \in 1 .. 8 : stages[s] = Stage(stages[s-1], Width(s), inverse)
<1> DEFINE Step(f, s) == IF s = 0 THEN st ELSE Stage(f[s-1], 2^(8-s), inverse)
           stages     == CHOOSE f : f = [s \in 0 .. 8 |-> Step(f, s)]
<1>1. ntt_sw(st, inverse) = Scaled(stages[8], inverse)
  BY DEF ntt_sw
<1>2. \A v \in Arrays, s \in 1 .. 8 : Stage(v, 2^(8-s), inverse) \in Arrays
  BY StageHalves, StageIs
<1>3. \E f : f = [s \in 0 .. 8 |-> Step(f, s)]
  <2> DEFINE G == [s \in 1 .. 8 |-> [v \in Arrays |-> Stage(v, 2^(8-s), inverse)]]
             S == [s \in 0 .. 8 |-> Arrays]
  <2>1. \A s \in 1 .. 8 : G[s] \in [Arrays -> Arrays]
    BY <1>2
  <2>2. \A s \in 1 .. 8, v \in Arrays : G[s][v] = Stage(v, 2^(8-s), inverse)
    OBVIOUS
  <2>3. \A s \in 0 .. 8 : S[s] = Arrays
    OBVIOUS
  <2> HIDE DEF G, S
  <2>4. PICK f : /\ f = [n \in 0 .. 8 |-> f[n]] /\ f[0] = st
                 /\ \A n \in 0 .. 8 : f[n] \in S[n]
                 /\ \A n \in 1 .. 8 : f[n] = G[n][f[n-1]]
    <3>1. st \in S[0] /\ \A s \in 1 .. 8 : G[s] \in [S[s-1] -> S[s]]
      BY <2>1, <2>3
    <3> QED
      BY <3>1, EightSteps
  <2>5. ASSUME NEW s \in 0 .. 8 PROVE f[s] = Step(f, s)
    <3>1. CASE s = 0
      BY <2>4, <3>1
    <3>2. CASE s # 0
      <4>1. s \in 1 .. 8 /\ s - 1 \in 0 .. 8
        BY <3>2
      <4>2. f[s-1] \in Arrays
        BY <2>3, <2>4, <4>1
      <4>3. f[s] = Stage(f[s-1], 2^(8-s), inverse)
        BY <2>2, <2>4, <4>1, <4>2
      <4> QED
        BY <3>2, <4>3
    <3> QED
      BY <3>1, <3>2
  <2> HIDE DEF Step
  <2>6. f = [s \in 0 .. 8 |-> Step(f, s)]
    BY <2>4, <2>5
  <2> QED
    BY <2>6
<1> HIDE DEF Step
<1>4. stages = [s \in 0 .. 8 |-> Step(stages, s)]
  BY <1>3
<1> HIDE DEF stages
<1>5. \A s \in 0 .. 8 : stages[s] = Step(stages, s)
  BY <1>4
<1>6. stages[0] = st
  BY <1>5 DEF Step
<1>7. ASSUME NEW s \in 1 .. 8 PROVE stages[s] = Stage(stages[s-1], Width(s), inverse)
  <2>1. s \in 0 .. 8 /\ s # 0
    OBVIOUS
  <2> QED
    BY <1>5, <2>1 DEF Step, Width
<1>8. \A s \in 0 .. 8 : stages[s] \in Arrays
  <2> DEFINE S == {s \in 0 .. 8 : stages[s] \in Arrays}
  <2>1. 0 \in S
    BY <1>6
  <2>2. \A s \in 1 .. 8 : s - 1 \in S => s \in S
    <3>1. \A s \in 1 .. 8 : s \in 0 .. 8
      OBVIOUS
    <3> QED
      BY <1>2, <1>7, <3>1 DEF Width
  <2> HIDE DEF S
  <2>3. \A s \in 0 .. 8 : s \in S
    BY <2>1, <2>2, EachLevel
  <2> QED
    BY <2>3 DEF S
<1> QED
  BY <1>1, <1>6, <1>7, <1>8

LEMMA StagesIs ==
  ASSUME NEW st \in Arrays, NEW inverse \in BOOLEAN
  PROVE  ntt_sw(st, inverse) \in Arrays
<1>1. PICK stages : ntt_sw(st, inverse) = Scaled(stages[8], inverse) /\ \A s \in 0 .. 8 : stages[s] \in Arrays
  BY StagesAre
<1>2. stages[8] \in Arrays
  BY <1>1
<1> QED
  BY <1>1, <1>2, ScaledIs

LEMMA AppliedIs ==
  ASSUME NEW st \in Arrays, NEW inverse \in BOOLEAN
  PROVE  Applied(st, inverse) \in Arrays
BY StagesIs, ReversedIs DEF Applied

LEMMA BlocksAre ==
  ASSUME NEW a \in Vectors, NEW inverse \in BOOLEAN
  PROVE  /\ Blocks(a, inverse, 0) = a
         /\ \A i \in Index : Blocks(a, inverse, 8)[i] = Total(Terms(a, inverse, Mirror(i)))
         /\ \A n \in 1 .. 8 : Blocks(a, inverse, n-1) \in Vectors => Blocks(a, inverse, n) \in Vectors
<1>1. ASSUME NEW i \in Index PROVE Blocks(a, inverse, 0)[i] = a[i]
  <2>1. i \in 0 .. 255
    BY Ranges
  <2>2. i % 256 = i /\ i - i = 0
    BY <2>1
  <2>3. Mirror(0) = 0
    BY DEF Mirror
  <2>4. Blocks(a, inverse, 0)[i] = Partial(Terms(a, inverse, 0), 0, i)
    <3>1. Blocks(a, inverse, 0)[i] = Partial(Terms(a, inverse, Mirror(i - (i % 256))), 0, i % 256)
      BY Widths DEF Blocks
    <3> QED
      BY <2>2, <2>3, <3>1
  <2>5. Terms(a, inverse, 0)[i] = Product(a[i], Root(inverse, i * 0)) /\ i * 0 = 0
    BY <2>1 DEF Terms
  <2>6. a[i] \in Values
    BY DEF Vectors
  <2>7. Terms(a, inverse, 0)[i] = a[i]
    <3>1. PICK v \in Values : v = a[i]
      BY <2>6
    <3>2. Root(inverse, 0) = 1
      BY RootIs
    <3>3. Product(v, 1) = v
      BY ProductIs
    <3> QED
      BY <2>5, <3>1, <3>2, <3>3
  <2> QED
    BY <2>4, <2>7, TermsAre, PartialIs
<1>2. Blocks(a, inverse, 0) = a
  <2> DEFINE b == Blocks(a, inverse, 0)
  <2>1. b = [i \in Index |-> b[i]]
    BY DEF Blocks
  <2>2. a = [i \in Index |-> a[i]]
    BY DEF Vectors
  <2> HIDE DEF b
  <2>3. b = a
    BY <1>1, <2>1, <2>2 DEF b
  <2> QED
    BY <2>3 DEF b
<1>3. ASSUME NEW i \in Index PROVE Blocks(a, inverse, 8)[i] = Total(Terms(a, inverse, Mirror(i)))
  <2>1. i \in 0 .. 255
    BY Ranges
  <2>2. i % 1 = 0 /\ i - 0 = i
    BY <2>1
  <2>3. Blocks(a, inverse, 8)[i] = Partial(Terms(a, inverse, Mirror(i)), 8, 0)
    <3>1. Blocks(a, inverse, 8)[i] = Partial(Terms(a, inverse, Mirror(i - (i % 1))), 8, i % 1)
      BY Widths DEF Blocks
    <3> QED
      BY <2>2, <3>1
  <2> QED
    BY <2>3, ReverseIs, TermsAre, PartialIs
<1>4. ASSUME NEW n \in 1 .. 8 PROVE Blocks(a, inverse, n) \in Vectors
  <2>1. PICK h \in Halves : h = Width(n)
    BY Widths
  <2>2. ASSUME NEW i \in Index
        PROVE  Partial(Terms(a, inverse, Mirror(i - (i % h))), n, i % h) \in Values
    <3>1. i % h \in 0 .. h - 1 /\ i - (i % h) \in 0 .. 255
      BY Ranges DEF Halves
    <3>2. i - (i % h) \in Index
      BY <3>1, Ranges
    <3>3. Terms(a, inverse, Mirror(i - (i % h))) \in Vectors
      BY <3>2, ReverseIs, TermsAre
    <3>4. n \in 0 .. 8
      OBVIOUS
    <3> QED
      BY <2>1, <3>1, <3>3, <3>4, PartialIs
  <2> QED
    BY <2>1, <2>2 DEF Blocks, Vectors
<1> QED
  BY <1>2, <1>3, <1>4

LEMMA SwExact ==
  ASSUME NEW st \in Arrays, st.a \in Vectors, NEW inverse \in BOOLEAN, ~ntt_sw(st, inverse).wide
  PROVE  /\ ~st.wide /\ ntt_sw(st, inverse).a \in Vectors
         /\ \A i \in Index : ntt_sw(st, inverse).a[i] = Transform(st.a, inverse)[Mirror(i)]
<1>1. PICK stages : /\ ntt_sw(st, inverse) = Scaled(stages[8], inverse)
                    /\ stages[0] = st /\ \A s \in 0 .. 8 : stages[s] \in Arrays
                    /\ \A s \in 1 .. 8 : stages[s] = Stage(stages[s-1], Width(s), inverse)
  BY StagesAre
<1> DEFINE a == st.a
           S == {s \in 0 .. 8 : ~stages[s].wide => /\ ~st.wide /\ stages[s].a = Blocks(a, inverse, s)
                                                   /\ stages[s].a \in Vectors}
<1>2. 0 \in S
  <2>1. Blocks(a, inverse, 0) = a /\ a \in Vectors
    BY BlocksAre
  <2>2. stages[0] = st
    BY <1>1
  <2>3. PICK first : first = Blocks(a, inverse, 0)
    OBVIOUS
  <2>4. ~stages[0].wide => /\ ~st.wide /\ stages[0].a = first /\ stages[0].a \in Vectors
    BY <2>1, <2>2, <2>3
  <2> QED
    BY <2>3, <2>4
<1>3. ASSUME NEW s \in 1 .. 8, s - 1 \in S PROVE s \in S
  <2> SUFFICES ASSUME ~stages[s].wide
               PROVE  ~st.wide /\ stages[s].a = Blocks(a, inverse, s) /\ stages[s].a \in Vectors
    OBVIOUS
  <2>1. PICK before : before = stages[s-1]
    OBVIOUS
  <2>2. before \in Arrays /\ stages[s] = Stage(before, Width(s), inverse) /\ Width(s) \in Halves
    BY <1>1, <2>1, Widths
  <2>3. ~before.wide
    BY <2>2, StageWide
  <2>4. ~st.wide /\ before.a = Blocks(a, inverse, s-1) /\ before.a \in Vectors
    BY <1>3, <2>1, <2>3
  <2>5. stages[s].a = Butterflies(before.a, Width(s), inverse) /\ stages[s].a \in Vectors
    BY <2>2, <2>4, StageExact
  <2> QED
    BY <2>4, <2>5, StageSums
<1> HIDE DEF S
<1>4. 8 \in S
  BY <1>2, <1>3, EachLevel
<1>5. PICK last : last = stages[8]
  OBVIOUS
<1>6. last \in Arrays /\ ntt_sw(st, inverse) = Scaled(last, inverse)
  BY <1>1, <1>5
<1>7. ~last.wide
  <2>1. last.wide => Scaled(last, inverse).wide
    BY <1>6 DEF Scaled
  <2> QED
    BY <1>6, <2>1
<1>8. ~st.wide /\ last.a = Blocks(a, inverse, 8) /\ last.a \in Vectors
  BY <1>4, <1>5, <1>7 DEF S
<1>9. /\ Scaled(last, inverse).a \in Vectors
      /\ \A i \in Index : Scaled(last, inverse).a[i] = IF inverse THEN Product(last.a[i], NTT_N_INV) ELSE last.a[i]
  BY <1>6, <1>8, ScaledExact
<1>10. ASSUME NEW i \in Index PROVE Scaled(last, inverse).a[i] = Transform(a, inverse)[Mirror(i)]
  <2>1. last.a[i] = Total(Terms(a, inverse, Mirror(i)))
    <3>1. PICK vector \in Vectors : vector = a
      OBVIOUS
    <3>2. Blocks(vector, inverse, 8)[i] = Total(Terms(vector, inverse, Mirror(i)))
      BY BlocksAre
    <3> QED
      BY <1>8, <3>1, <3>2
  <2>2. Mirror(i) \in Index
    BY ReverseIs
  <2> QED
    BY <1>9, <2>1, <2>2, TransformIs
<1> QED
  BY <1>6, <1>8, <1>9, <1>10

LEMMA BitReverse ==
  ASSUME NEW st \in Arrays, st.a \in Vectors
  PROVE  /\ ntt_bit_reverse(st).wide = st.wide /\ ntt_bit_reverse(st).a \in Vectors
         /\ \A i \in Index : ntt_bit_reverse(st).a[i] = st.a[Mirror(i)]
<1> DEFINE bit(i, b)  == (i \div 2^b) % 2
           reverse(i) == bit(i, 0) * 128 + bit(i, 1) * 64 + bit(i, 2) * 32 + bit(i, 3) * 16
                         + bit(i, 4) * 8 + bit(i, 5) * 4 + bit(i, 6) * 2 + bit(i, 7)
           array == [i \in Index |-> st.a[reverse(i)]]
<1>1. ntt_bit_reverse(st) = [st EXCEPT !.a = Stored(array)]
  BY DEF ntt_bit_reverse
<1>2. \A i \in Index : reverse(i) = Mirror(i)
  <2>1. /\ 2^0 = 1 /\ 2^1 = 2 /\ 2^2 = 4 /\ 2^3 = 8 /\ 2^4 = 16 /\ 2^5 = 32 /\ 2^6 = 64 /\ 2^7 = 128
    OBVIOUS
  <2>2. \A i \in Index : i \div 1 = i
    BY Ranges
  <2> QED
    BY <2>1, <2>2 DEF Mirror
<1> HIDE DEF reverse
<1>3. array = [i \in Index |-> st.a[Mirror(i)]]
  BY <1>2
<1>4. array \in [Index -> Values] /\ \A i \in Index : array[i] = st.a[Mirror(i)]
  BY <1>3, ReverseIs DEF Vectors
<1> HIDE DEF array
<1>5. Stored(array) = array
  <2>1. Values \in SUBSET Nat
    BY Ranges
  <2> QED
    BY <1>4, <2>1, StoredIs
<1>6. ntt_bit_reverse(st).wide = st.wide /\ ntt_bit_reverse(st).a = array
  BY <1>1, <1>5 DEF Arrays
<1> QED
  BY <1>4, <1>6 DEF Vectors

\* While no product is too wide, the code computes the transform.
LEMMA AppliedExact ==
  ASSUME NEW st \in Arrays, NEW inverse \in BOOLEAN, st.a \in Vectors, ~Applied(st, inverse).wide
  PROVE  ~st.wide /\ Applied(st, inverse).a = Transform(st.a, inverse)
<1>0. ntt_sw(st, inverse) \in Arrays
  BY StagesIs
<1>1. PICK mid \in Arrays : mid = ntt_sw(st, inverse)
  BY <1>0
<1>2. Applied(st, inverse) = ntt_bit_reverse(mid)
  BY <1>1 DEF Applied
<1>3. ~mid.wide
  <2>1. ntt_bit_reverse(mid).wide = mid.wide
    BY DEF ntt_bit_reverse, Arrays
  <2> QED
    BY <1>2, <2>1
<1>4. ~st.wide /\ mid.a \in Vectors /\ \A i \in Index : mid.a[i] = Transform(st.a, inverse)[Mirror(i)]
  BY <1>1, <1>3, SwExact
<1>5. /\ ntt_bit_reverse(mid).a \in Vectors
      /\ \A i \in Index : ntt_bit_reverse(mid).a[i] = mid.a[Mirror(i)]
  BY <1>4, BitReverse
<1>6. \A i \in Index : ntt_bit_reverse(mid).a[i] = Transform(st.a, inverse)[i]
  BY <1>4, <1>5, ReverseIs, ReverseReverse
<1> DEFINE v == ntt_bit_reverse(mid).a
           w == Transform(st.a, inverse)
<1>7. v \in [Index -> Values] /\ w \in [Index -> Values] /\ \A i \in Index : v[i] = w[i]
  BY <1>5, <1>6, TransformIs DEF Vectors
<1> HIDE DEF v, w
<1>8. v = w
  BY <1>7
<1> QED
  BY <1>2, <1>4, <1>8 DEF v, w

\* A product that was too wide is not forgotten.
LEMMA AppliedWide ==
  ASSUME NEW st \in Arrays, NEW inverse \in BOOLEAN, st.wide
  PROVE  Applied(st, inverse).wide
<1>1. PICK stages : /\ ntt_sw(st, inverse) = Scaled(stages[8], inverse)
                    /\ stages[0] = st /\ \A s \in 0 .. 8 : stages[s] \in Arrays
                    /\ \A s \in 1 .. 8 : stages[s] = Stage(stages[s-1], Width(s), inverse)
  BY StagesAre
<1> DEFINE S == {s \in 0 .. 8 : stages[s].wide}
<1>2. 0 \in S
  BY <1>1
<1>3. ASSUME NEW s \in 1 .. 8, s - 1 \in S PROVE s \in S
  BY <1>1, <1>3, StageWide
<1> HIDE DEF S
<1>4. 8 \in S
  BY <1>2, <1>3, EachLevel
<1>5. stages[8].wide
  BY <1>4 DEF S
<1>6. ntt_sw(st, inverse).wide
  BY <1>1, <1>5 DEF Scaled
<1>7. PICK mid \in Arrays : mid = ntt_sw(st, inverse)
  BY StagesIs
<1>8. ntt_bit_reverse(mid).wide = mid.wide
  BY DEF ntt_bit_reverse, Arrays
<1> QED
  BY <1>6, <1>7, <1>8 DEF Applied

-----------------------------------------------------------------------------
LEMMA NttStateIs ==
  /\ NttState = [a : [Index -> Word16], done : BOOLEAN, verdict : {"", "PASS", "FAIL"},
                 exact : [Index -> Values], wide : BOOLEAN]
  /\ LOADS \subseteq [Index -> Values]
  /\ [Index -> Values] \subseteq [Index -> Word16]
<1>1. Values \subseteq Word16
  <2> SUFFICES ASSUME NEW v \in Values PROVE v \in Word16
    OBVIOUS
  <2>1. v \in Nat /\ v <= 3328
    BY DEF Values, NTT_Q
  <2>2. 3328 <= 2^16 - 1 /\ 2^16 - 1 \in Nat
    OBVIOUS
  <2>3. v \in Nat /\ v <= 2^16 - 1
    BY <2>1, <2>2
  <2> QED
    BY <2>3 DEF Word16
<1> QED
  BY <1>1, NttAssumption DEF NttState, Values

LEMMA NttStatic == NttStatics \in NttState
<1>1. Zeros \in [Index -> Values]
  BY DEF Zeros, Values, NTT_Q
<1>2. Zeros \in [Index -> Word16]
  BY <1>1, NttStateIs
<1> QED
  BY <1>1, <1>2, NttStateIs DEF NttStatics

LEMMA CommandIs ==
  ASSUME NEW n \in NttState, NEW inverse \in BOOLEAN
  PROVE  cmd_ntt(n, inverse) \in NttState
<1> DEFINE st == Applied([a |-> n.a, wide |-> n.wide], inverse)
           e  == Transform(n.exact, inverse)
<1>1. n.a \in [Index -> Word16] /\ n.wide \in BOOLEAN /\ n.exact \in [Index -> Values]
  BY NttStateIs
<1>2. st \in Arrays
  BY <1>1, AppliedIs DEF Arrays
<1>3. e \in [Index -> Values]
  BY <1>1, TransformIs DEF Vectors
<1>4. cmd_ntt(n, inverse) = [n EXCEPT !.a = st.a, !.wide = st.wide, !.exact = e]
  BY DEF cmd_ntt
<1> HIDE DEF st, e
<1>5. st.a \in [Index -> Word16] /\ st.wide \in BOOLEAN
  BY <1>2 DEF Arrays
<1> QED
  BY <1>3, <1>4, <1>5, NttStateIs

LEMMA RoundTripIs ==
  ASSUME NEW n \in NttState
  PROVE  cmd_roundtrip(n) \in NttState
<1> DEFINE there == Applied([a |-> n.a, wide |-> n.wide], FALSE)
           st    == Applied(there, TRUE)
           v     == IF st.a = n.a THEN "PASS" ELSE "FAIL"
<1>1. n.a \in [Index -> Word16] /\ n.wide \in BOOLEAN
  BY NttStateIs
<1>2. there \in Arrays
  BY <1>1, AppliedIs DEF Arrays
<1>3. st \in Arrays
  BY <1>2, AppliedIs
<1>4. cmd_roundtrip(n) = [n EXCEPT !.a = st.a, !.wide = st.wide, !.verdict = v]
  BY DEF cmd_roundtrip
<1>5. v \in {"", "PASS", "FAIL"}
  OBVIOUS
<1> HIDE DEF st, v
<1>6. st.a \in [Index -> Word16] /\ st.wide \in BOOLEAN
  BY <1>3 DEF Arrays
<1> QED
  BY <1>4, <1>5, <1>6, NttStateIs

\* Whatever a command line does to the buffer.
LEMMA NttTyped ==
  ASSUME NEW n \in NttState
  PROVE  /\ Ntt_init(n) \in NttState
         /\ \A c \in NttCommands : Ntt_input(n, c) \in NttState
         /\ \A v \in LOADS : Ntt_load(n, v) \in NttState
<1>1. Ntt_init(n) \in NttState
  BY NttStateIs DEF Ntt_init
<1>2. ASSUME NEW c \in NttCommands PROVE Ntt_input(n, c) \in NttState
  <2>1. c = "ntt" => ntt_dispatch(n, c) = cmd_ntt(n, FALSE)
    BY DEF ntt_dispatch
  <2>2. c = "intt" => ntt_dispatch(n, c) = cmd_ntt(n, TRUE)
    BY DEF ntt_dispatch
  <2>3. c = "roundtrip" => ntt_dispatch(n, c) = cmd_roundtrip(n)
    BY DEF ntt_dispatch
  <2>4. c = "quit" => ntt_dispatch(n, c) = [n EXCEPT !.done = TRUE]
    BY DEF ntt_dispatch
  <2>5. [n EXCEPT !.done = TRUE] \in NttState
    BY NttStateIs
  <2>6. ntt_dispatch(n, c) \in NttState
    BY <2>1, <2>2, <2>3, <2>4, <2>5, CommandIs, RoundTripIs DEF NttCommands
  <2> QED
    BY <2>6 DEF Ntt_input
<1>3. ASSUME NEW v \in LOADS PROVE Ntt_load(n, v) \in NttState
  <2>1. v \in [Index -> Values] /\ v \in [Index -> Word16]
    BY NttStateIs
  <2> QED
    BY <2>1, NttStateIs DEF Ntt_load
<1> QED
  BY <1>1, <1>2, <1>3

LEMMA NttStep == ntt \in NttState /\ [Next]_vars => ntt' \in NttState
<1> SUFFICES ASSUME ntt \in NttState, [Next]_vars PROVE ntt' \in NttState
  OBVIOUS
<1>1. CASE Launch
  <2>1. ntt' = ntt \/ ntt' = Ntt_init(ntt)
    BY <1>1 DEF Launch, Only
  <2> QED
    BY <2>1, NttTyped
<1>2. CASE Input
  <2>1. \/ ntt' = ntt
        \/ \E c \in NttCommands : ntt' = Ntt_input(ntt, c)
        \/ \E v \in LOADS : ntt' = Ntt_load(ntt, v)
    BY <1>2 DEF Input, Only
  <2> QED
    BY <2>1, NttTyped
<1>3. CASE Update
  BY <1>3 DEF Update, Only
<1>4. CASE ExitKey \/ Finish \/ NoInput
  BY <1>4 DEF ExitKey, Finish, exit_active_program, NoInput
<1>5. CASE EngineClock \/ EngineDone \/ RemoteMenu \/ ShellKey \/ ShellPrint \/ StatusBar \/ UNCHANGED vars
  BY <1>5 DEF EngineClock, EngineDone, RemoteMenu, ShellKey, ShellPrint, StatusBar, vars
<1> QED
  BY <1>1, <1>2, <1>3, <1>4, <1>5 DEF Next

-----------------------------------------------------------------------------
(***************************************************************************)
(* The buffer is what the definition says as long as no product was too    *)
(* wide.                                                                   *)
(***************************************************************************)
NttGood(n) == n \in NttState /\ (~n.wide => n.a = n.exact /\ n.verdict # "FAIL")

\* What a command has to reduce.
LEMMA BufferIs ==
  ASSUME NEW n \in NttState, NEW st, st = [a |-> n.a, wide |-> n.wide]
  PROVE  /\ st \in Arrays /\ st.a = n.a /\ st.wide = n.wide
         /\ n.exact \in Vectors
<1>1. n.a \in [Index -> Word16] /\ n.wide \in BOOLEAN /\ n.exact \in [Index -> Values]
  BY NttStateIs
<1> QED
  BY <1>1 DEF Arrays, Vectors

LEMMA CommandExact ==
  ASSUME NEW n, NttGood(n), NEW inverse \in BOOLEAN
  PROVE  NttGood(cmd_ntt(n, inverse))
<1>1. n \in NttState /\ cmd_ntt(n, inverse) \in NttState
  BY CommandIs DEF NttGood
<1>2. PICK st : st = [a |-> n.a, wide |-> n.wide]
  OBVIOUS
<1>3. PICK after : after = Applied(st, inverse)
  OBVIOUS
<1>4. PICK e : e = Transform(n.exact, inverse)
  OBVIOUS
<1>5. cmd_ntt(n, inverse) = [n EXCEPT !.a = after.a, !.wide = after.wide, !.exact = e]
  BY <1>2, <1>3, <1>4 DEF cmd_ntt
<1>6. PICK m : m = cmd_ntt(n, inverse)
  OBVIOUS
<1>7. m.a = after.a /\ m.wide = after.wide /\ m.exact = e /\ m.verdict = n.verdict
  BY <1>1, <1>5, <1>6, NttStateIs
<1>8. ASSUME ~after.wide PROVE after.a = e /\ n.verdict # "FAIL"
  <2>1. st \in Arrays /\ st.a = n.a /\ st.wide = n.wide /\ n.exact \in Vectors
    BY <1>1, <1>2, BufferIs
  <2>2. CASE n.wide
    BY <1>3, <1>8, <2>1, <2>2, AppliedWide
  <2>3. CASE ~n.wide
    <3>1. st.a = n.exact /\ n.verdict # "FAIL" /\ st.a \in Vectors
      BY <2>1, <2>3 DEF NttGood
    <3>2. after.a = Transform(st.a, inverse)
      BY <1>3, <1>8, <2>1, <3>1, AppliedExact
    <3> QED
      BY <1>4, <3>1, <3>2
  <2> QED
    BY <2>2, <2>3
<1> QED
  BY <1>1, <1>6, <1>7, <1>8 DEF NttGood

LEMMA RoundTripExact ==
  ASSUME NEW n, NttGood(n), NEW no \in BOOLEAN, NEW yes \in BOOLEAN, ~no, yes
  PROVE  NttGood(cmd_roundtrip(n))
<1>1. n \in NttState /\ cmd_roundtrip(n) \in NttState
  BY RoundTripIs DEF NttGood
<1>2. PICK st : st = [a |-> n.a, wide |-> n.wide]
  OBVIOUS
<1>3. PICK there : there = Applied(st, no)
  OBVIOUS
<1>4. PICK after : after = Applied(there, yes)
  OBVIOUS
<1>5. PICK v : v = IF after.a = n.a THEN "PASS" ELSE "FAIL"
  OBVIOUS
<1>6. cmd_roundtrip(n) = [n EXCEPT !.a = after.a, !.wide = after.wide, !.verdict = v]
  <2>1. no = FALSE /\ yes = TRUE
    OBVIOUS
  <2> QED
    BY <1>2, <1>3, <1>4, <1>5, <2>1 DEF cmd_roundtrip
<1>7. PICK m : m = cmd_roundtrip(n)
  OBVIOUS
<1>8. m.a = after.a /\ m.wide = after.wide /\ m.exact = n.exact /\ m.verdict = v
  BY <1>1, <1>6, <1>7, NttStateIs
<1>9. ASSUME ~after.wide PROVE after.a = n.exact /\ after.a = n.a
  <2>1. st \in Arrays /\ st.a = n.a /\ st.wide = n.wide /\ n.exact \in Vectors
    BY <1>1, <1>2, BufferIs
  <2>2. there \in Arrays
    BY <1>3, <2>1, AppliedIs
  <2>3. ~there.wide
    BY <1>4, <1>9, <2>2, AppliedWide
  <2>4. ~n.wide
    BY <1>3, <2>1, <2>3, AppliedWide
  <2>5. n.a = n.exact /\ st.a = n.exact
    BY <2>1, <2>4 DEF NttGood
  <2>6. there.a = Transform(n.exact, no)
    BY <1>3, <2>1, <2>3, <2>5, AppliedExact
  <2>7. there.a \in Vectors
    BY <2>1, <2>6, TransformIs
  <2>8. after.a = Transform(there.a, yes)
    BY <1>4, <1>9, <2>2, <2>7, AppliedExact
  <2>9. Transform(Transform(n.exact, no), yes) = n.exact
    BY <2>1, InverseIs
  <2> QED
    BY <2>5, <2>6, <2>8, <2>9
<1>10. ~after.wide => v # "FAIL"
  BY <1>5, <1>9
<1> QED
  BY <1>1, <1>7, <1>8, <1>9, <1>10 DEF NttGood

LEMMA LoadExact ==
  ASSUME NEW n, NttGood(n), NEW v \in LOADS
  PROVE  NttGood(Ntt_load(n, v))
<1>1. n \in NttState /\ Ntt_load(n, v) \in NttState
  BY NttTyped DEF NttGood
<1> QED
  BY <1>1, NttStateIs DEF Ntt_load, NttGood

LEMMA InputExact ==
  ASSUME NEW n, NttGood(n), NEW c \in NttCommands
  PROVE  NttGood(Ntt_input(n, c))
<1>1. PICK no \in BOOLEAN : ~no
  OBVIOUS
<1>2. PICK yes \in BOOLEAN : yes
  OBVIOUS
<1>3. no = FALSE /\ yes = TRUE
  BY <1>1, <1>2
<1>4. CASE c = "ntt"
  <2>1. ntt_dispatch(n, c) = cmd_ntt(n, no)
    BY <1>3, <1>4 DEF ntt_dispatch
  <2> QED
    BY <2>1, CommandExact DEF Ntt_input
<1>5. CASE c = "intt"
  <2>1. ntt_dispatch(n, c) = cmd_ntt(n, yes)
    BY <1>3, <1>5 DEF ntt_dispatch
  <2> QED
    BY <2>1, CommandExact DEF Ntt_input
<1>6. CASE c = "roundtrip"
  <2>1. ntt_dispatch(n, c) = cmd_roundtrip(n)
    BY <1>6 DEF ntt_dispatch
  <2> QED
    BY <1>1, <1>2, <2>1, RoundTripExact DEF Ntt_input
<1>7. CASE c = "quit"
  <2>1. ntt_dispatch(n, c) = [n EXCEPT !.done = TRUE]
    BY <1>7 DEF ntt_dispatch
  <2>2. NttGood([n EXCEPT !.done = TRUE])
    BY NttStateIs DEF NttGood
  <2> QED
    BY <2>1, <2>2 DEF Ntt_input
<1> QED
  BY <1>4, <1>5, <1>6, <1>7 DEF NttCommands

LEMMA NttKept == NttGood(ntt) /\ [Next]_vars => NttGood(ntt)'
<1> SUFFICES ASSUME NttGood(ntt), [Next]_vars PROVE NttGood(ntt')
  OBVIOUS
<1>1. CASE Launch
  <2>1. ntt' = ntt \/ ntt' = Ntt_init(ntt)
    BY <1>1 DEF Launch, Only
  <2>2. NttGood(Ntt_init(ntt))
    BY NttStateIs DEF Ntt_init, NttGood
  <2> QED
    BY <2>1, <2>2
<1>2. CASE Input
  <2>1. \/ ntt' = ntt
        \/ \E c \in NttCommands : ntt' = Ntt_input(ntt, c)
        \/ \E v \in LOADS : ntt' = Ntt_load(ntt, v)
    BY <1>2 DEF Input, Only
  <2> QED
    BY <2>1, InputExact, LoadExact
<1>3. CASE Update
  BY <1>3 DEF Update, Only
<1>4. CASE ExitKey \/ Finish \/ NoInput
  BY <1>4 DEF ExitKey, Finish, exit_active_program, NoInput
<1>5. CASE EngineClock \/ EngineDone \/ RemoteMenu \/ ShellKey \/ ShellPrint \/ StatusBar \/ UNCHANGED vars
  BY <1>5 DEF EngineClock, EngineDone, RemoteMenu, ShellKey, ShellPrint, StatusBar, vars
<1> QED
  BY <1>1, <1>2, <1>3, <1>4, <1>5 DEF Next

\* While no product has passed 32 bits, the eight in-place stages with their
\* Barrett reductions, the inverse factors, the scaling and the bit reversal of
\* ntt.c compute the transform by its definition, and a round trip gives back the
\* buffer: for any vectors loaded and any sequence of commands.
THEOREM NttSafe == Spec => []NttExact
<1> DEFINE Holds == NttGood(ntt)
<1>1. Init => Holds
  <2>1. NttGood(NttStatics)
    BY NttStatic DEF NttStatics, NttGood
  <2> QED
    BY <2>1 DEF Init
<1>2. Holds /\ [Next]_vars => Holds'
  BY NttKept
<1>3. Holds => NttExact
  BY DEF NttGood, NttExact
<1> HIDE DEF Holds
<1> QED
  BY <1>1, <1>2, <1>3, PTL DEF Spec
=============================================================================
