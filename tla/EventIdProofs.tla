---------------------------- MODULE EventIdProofs ----------------------------
(***************************************************************************)
(* Two events never share an id: a proof about EventId, for strings of     *)
(* every content and length, times and ordinals of any size.               *)
(*                                                                         *)
(* The code is two loops, over the fields in encode and over the digits in *)
(* itoa, so the proof rests on two principles: a set of numbers has a      *)
(* least element, and what a loop computes is well defined.                *)
(***************************************************************************)
EXTENDS EventId, FiniteSetTheorems, SequenceTheorems, WellFoundedInduction, TLAPS

-----------------------------------------------------------------------------
(* Loops                                                                   *)

LEMMA LeastNumber ==
    ASSUME NEW T \in SUBSET Nat, T # {}
    PROVE  \E x \in T : \A y \in T : x <= y
  <1> DEFINE R == {ss \in Nat \X Nat : ss[1] < ss[2]}
  <1>1. IsWellFoundedOn(R, Nat)
    BY NatLessThanWellFounded DEF OpToRel
  <1>2. PICK x \in T : \A y \in T : ~(<<y, x>> \in R)
    <2> HIDE DEF R
    <2> QED
      BY <1>1, WFMin
  <1>3. \A y \in T : ~(y < x)
    BY <1>2
  <1> QED
    BY <1>3

\* f is what n rounds of a loop have computed: it starts from a, and round k
\* computes step[<<k, v>>] from the value v of the earlier round back[k].
Computes(f, n, a, back, step) ==
    /\ f[0] = a
    /\ \A k \in 1..n : f[k] = step[<<k, f[back[k]]>>]

\* Rounds are determined by the earlier ones.
LEMMA LoopUnique ==
    ASSUME NEW a, NEW back, NEW step,
           \A k \in Nat \ {0} : back[k] \in 0..(k - 1),
           NEW m \in Nat, NEW n \in Nat, NEW f, NEW g,
           Computes(f, m, a, back, step), Computes(g, n, a, back, step)
    PROVE  \A k \in 0..m : k <= n => f[k] = g[k]
  <1> DEFINE T == {k \in 0..m : k <= n /\ f[k] # g[k]}
  <1> SUFFICES ASSUME T # {} PROVE FALSE
    OBVIOUS
  <1>1. PICK k \in T : \A j \in T : k <= j
    <2>1. T \in SUBSET Nat
      OBVIOUS
    <2> HIDE DEF T
    <2> QED
      BY <2>1, LeastNumber
  <1>2. k \in 1..m /\ k \in 1..n /\ k \in Nat \ {0}
    BY <1>1 DEF Computes
  <1>3. back[k] \in 0..(k - 1) /\ back[k] \notin T
    BY <1>1, <1>2
  <1>4. f[back[k]] = g[back[k]]
    BY <1>2, <1>3
  <1>5. f[k] = step[<<k, f[back[k]]>>] /\ g[k] = step[<<k, g[back[k]]>>]
    BY <1>2 DEF Computes
  <1> QED
    BY <1>1, <1>4, <1>5

\* Any number of rounds can be run.
LEMMA LoopRuns ==
    ASSUME NEW A, NEW a \in A, NEW back, NEW step \in [Nat \X A -> A],
           \A k \in Nat \ {0} : back[k] \in 0..(k - 1),
           NEW n \in Nat
    PROVE  \E f \in [0..n -> A] : Computes(f, n, a, back, step)
  <1> DEFINE Run(i) == \E f \in [0..i -> A] : Computes(f, i, a, back, step)
             T == {i \in Nat : ~Run(i)}
  <1> SUFFICES ASSUME T # {} PROVE FALSE
    OBVIOUS
  <1>1. PICK i \in T : \A j \in T : i <= j
    BY LeastNumber
  <1>2. Run(0)
    <2> DEFINE f == [k \in 0..0 |-> a]
    <2>1. f \in [0..0 -> A] /\ Computes(f, 0, a, back, step)
      BY DEF Computes
    <2> QED
      BY <2>1
  <1>3. i \in Nat \ {0} /\ i - 1 \in Nat /\ Run(i - 1)
    <2>1. i \in Nat \ {0} /\ i - 1 \in Nat
      <3>1. i \in Nat /\ ~Run(i)
        BY <1>1
      <3> HIDE DEF Run
      <3>2. i # 0
        BY <1>2, <3>1
      <3> QED
        BY <3>1, <3>2
    <2>2. i - 1 \notin T
      BY <1>1, <2>1
    <2> QED
      BY <2>1, <2>2
  <1>4. PICK f \in [0..(i - 1) -> A] : Computes(f, i - 1, a, back, step)
    BY <1>3
  <1>5. back[i] \in 0..(i - 1)
    BY <1>3
  <1>6. PICK v \in A : v = step[<<i, f[back[i]]>>]
    <2>1. f[back[i]] \in A
      BY <1>5
    <2> QED
      BY <1>3, <2>1
  <1> DEFINE g == [k \in 0..i |-> IF k < i THEN f[k] ELSE v]
  <1>7. g \in [0..i -> A]
    BY <1>3
  <1>8. \A k \in 0..(i - 1) : g[k] = f[k]
    BY <1>3
  <1>9. Computes(g, i, a, back, step)
    <2>1. g[0] = a
      BY <1>3, <1>4, <1>8 DEF Computes
    <2>2. ASSUME NEW k \in 1..i, k < i
          PROVE  g[k] = step[<<k, g[back[k]]>>]
      <3>1. k \in 1..(i - 1) /\ k \in 0..(i - 1) /\ back[k] \in 0..(i - 1)
        BY <1>3, <2>2
      <3>2. f[k] = step[<<k, f[back[k]]>>]
        BY <1>4, <3>1 DEF Computes
      <3> HIDE DEF g
      <3> QED
        BY <1>8, <3>1, <3>2
    <2>3. g[i] = step[<<i, g[back[i]]>>]
      <3>1. g[i] = v
        BY <1>3
      <3> HIDE DEF g
      <3> QED
        BY <1>5, <1>6, <1>8, <3>1
    <2> HIDE DEF g
    <2>4. \A k \in 1..i : k < i \/ k = i
      BY <1>3
    <2> QED
      BY <2>1, <2>2, <2>3, <2>4 DEF Computes
  <1> HIDE DEF g
  <1>10. Run(i)
    BY <1>7, <1>9
  <1> QED
    BY <1>1, <1>10

\* A loop over values of A.
Loop(A, a, back, step) ==
    /\ a \in A
    /\ step \in [Nat \X A -> A]
    /\ \A k \in Nat \ {0} : back[k] \in 0..(k - 1)

\* What all its rounds compute.
Results(f, A, a, back, step) ==
    /\ f \in [Nat -> A]
    /\ f[0] = a
    /\ \A k \in Nat \ {0} : f[k] = step[<<k, f[back[k]]>>]

\* One function holds the results of all rounds.
LEMMA LoopDefines ==
    ASSUME NEW A, NEW a, NEW back, NEW step, Loop(A, a, back, step)
    PROVE  \E f : Results(f, A, a, back, step)
  <1> USE DEF Loop
  <1> DEFINE run[n \in Nat] == CHOOSE f \in [0..n -> A] : Computes(f, n, a, back, step)
             f == [n \in Nat |-> run[n][n]]
  <1>1. \A n \in Nat : run[n] \in [0..n -> A] /\ Computes(run[n], n, a, back, step)
    BY LoopRuns
  <1> HIDE DEF run
  <1>2. f \in [Nat -> A]
    BY <1>1
  <1>3. f[0] = a
    BY <1>1 DEF Computes
  <1>4. ASSUME NEW k \in Nat \ {0}
        PROVE  f[k] = step[<<k, f[back[k]]>>]
    <2>1. PICK b \in Nat : b = back[k] /\ b <= k
      OBVIOUS
    <2>2. run[b][b] = run[k][b]
      <3>1. Computes(run[b], b, a, back, step) /\ Computes(run[k], k, a, back, step)
        BY <1>1
      <3>2. ASSUME NEW r, NEW s, Computes(r, b, a, back, step), Computes(s, k, a, back, step)
            PROVE  \A j \in 0..b : j <= k => r[j] = s[j]
        <4>1. k \in Nat
          OBVIOUS
        <4> QED
          BY <3>2, <4>1, LoopUnique
      <3> QED
        BY <2>1, <3>1, <3>2
    <2>3. run[k][k] = step[<<k, run[k][b]>>]
      BY <1>1, <2>1 DEF Computes
    <2> QED
      BY <2>1, <2>2, <2>3
  <1> HIDE DEF f
  <1> QED
    BY <1>2, <1>3, <1>4 DEF Results

-----------------------------------------------------------------------------
(* itoa                                                                    *)

Numeral == 48..57

\* The loop of itoa: the last digit is appended to the digits of the quotient.
LEMMA Digits ==
    /\ digits \in [Nat -> Seq(Numeral)]
    /\ digits[0] = <<>>
    /\ \A n \in Nat \ {0} : /\ n \div 10 \in 0..(n - 1)
                            /\ 48 + (n % 10) \in Numeral
                            /\ digits[n] = Append(digits[n \div 10], 48 + (n % 10))
  <1> DEFINE A == Seq(Numeral)
             back == [n \in Nat |-> n \div 10]
             step == [p \in Nat \X A |-> Append(p[2], 48 + (p[1] % 10))]
  <1>1. \A n \in Nat \ {0} : n \div 10 \in 0..(n - 1) /\ back[n] = n \div 10
    OBVIOUS
  <1>2. \A n \in Nat : 48 + (n % 10) \in Numeral
    BY DEF Numeral
  <1>3. <<>> \in A
    OBVIOUS
  <1>4. step \in [Nat \X A -> A]
    <2>1. ASSUME NEW p \in Nat \X A
          PROVE  Append(p[2], 48 + (p[1] % 10)) \in A
      BY <1>2
    <2> QED
      BY <2>1
  <1>5. PICK f : Results(f, A, <<>>, back, step)
    <2> HIDE DEF A, back, step
    <2>1. Loop(A, <<>>, back, step)
      BY <1>1, <1>3, <1>4 DEF Loop
    <2> QED
      BY <2>1, LoopDefines
  <1> USE <1>5 DEF Results
  <1>6. \A n \in Nat \ {0} : f[n] = Append(f[n \div 10], 48 + (n % 10))
    <2> SUFFICES ASSUME NEW n \in Nat \ {0}
                 PROVE  f[n] = Append(f[n \div 10], 48 + (n % 10))
      OBVIOUS
    <2>1. n \in Nat /\ n \div 10 \in Nat
      BY <1>1
    <2>2. <<n, f[n \div 10]>> \in Nat \X A
      <3> HIDE DEF A
      <3> QED
        BY <2>1
    <2>3. f[n] = step[<<n, f[n \div 10]>>]
      BY <1>1, <1>5
    <2> QED
      BY <2>2, <2>3
  <1> HIDE DEF A, step, back
  <1>7. f = [n \in Nat |-> IF n = 0 THEN <<>> ELSE Append(f[n \div 10], 48 + (n % 10))]
    <2>1. f = [n \in Nat |-> f[n]]
      OBVIOUS
    <2>2. \A n \in Nat : f[n] = IF n = 0 THEN <<>> ELSE Append(f[n \div 10], 48 + (n % 10))
      BY <1>5, <1>6
    <2> QED
      BY <2>1, <2>2, Zenon
  <1>8. digits = [n \in Nat |->
                    IF n = 0 THEN <<>> ELSE Append(digits[n \div 10], 48 + (n % 10))]
    BY <1>7, Zenon DEF digits
  <1>9. \A n \in Nat : digits[n] = IF n = 0 THEN <<>>
                                   ELSE Append(digits[n \div 10], 48 + (n % 10))
    BY <1>8, Zenon
  <1>10. \A n \in Nat : digits[n] \in Seq(Numeral)
    <2> DEFINE T == {n \in Nat : digits[n] \notin Seq(Numeral)}
    <2> SUFFICES ASSUME T # {} PROVE FALSE
      OBVIOUS
    <2>1. PICK n \in T : \A m \in T : n <= m
      <3>1. T \in SUBSET Nat
        OBVIOUS
      <3> HIDE DEF T
      <3> QED
        BY <3>1, LeastNumber
    <2>2. n \in Nat \ {0}
      <3>1. digits[0] = <<>> /\ <<>> \in Seq(Numeral)
        BY <1>9
      <3>2. n \in Nat /\ digits[n] \notin Seq(Numeral)
        BY <2>1
      <3>3. n # 0
        BY <3>1, <3>2
      <3> QED
        BY <3>2, <3>3
    <2>3. n \div 10 \in Nat /\ n \div 10 \notin T
      BY <1>1, <2>1, <2>2
    <2>4. digits[n \div 10] \in Seq(Numeral)
      BY <2>3
    <2>5. digits[n] = Append(digits[n \div 10], 48 + (n % 10))
      BY <1>9, <2>2
    <2>6. 48 + (n % 10) \in Numeral /\ digits[n] \notin Seq(Numeral)
      BY <1>2, <2>1, <2>2
    <2> QED
      BY <2>4, <2>5, <2>6
  <1>11. digits = [n \in Nat |-> digits[n]]
    BY <1>8, Zenon
  <1>12. digits \in [Nat -> Seq(Numeral)]
    BY <1>10, <1>11
  <1> QED
    BY <1>1, <1>2, <1>9, <1>12

\* The same without \div and %.
LEMMA DigitsStep ==
    ASSUME NEW n \in Nat \ {0}
    PROVE  \E q \in Nat, d \in 0..9 :
              /\ n = 10 * q + d /\ q < n
              /\ digits[q] \in Seq(Numeral) /\ 48 + d \in Numeral
              /\ digits[n] = Append(digits[q], 48 + d)
  <1>1. PICK q \in Nat, d \in 0..9 : q = n \div 10 /\ d = n % 10 /\ n = 10 * q + d /\ q < n
    OBVIOUS
  <1>2. digits[q] \in Seq(Numeral)
    BY Digits, Zenon
  <1>3. 48 + d \in Numeral
    BY DEF Numeral
  <1>4. digits[n] = Append(digits[n \div 10], 48 + (n % 10))
    BY Digits, Zenon
  <1>5. digits[n] = Append(digits[q], 48 + d)
    BY <1>1, <1>4, Zenon
  <1> QED
    BY <1>1, <1>2, <1>3, <1>5

\* A number has digits, unless it is 0.
LEMMA DigitsOfPositive ==
    /\ digits[0] = <<>>
    /\ \A n \in Nat : digits[n] \in Seq(Numeral) /\ digits[n] \in Seq(Nat)
    /\ \A n \in Nat \ {0} : digits[n] # <<>>
  <1>1. digits[0] = <<>>
    BY Digits, Zenon
  <1>2. ASSUME NEW n \in Nat
        PROVE  digits[n] \in Seq(Numeral) /\ digits[n] \in Seq(Nat)
    <2>1. digits[n] \in Seq(Numeral)
      BY Digits, Zenon
    <2>2. Numeral \subseteq Nat
      BY DEF Numeral
    <2> QED
      BY <2>1, <2>2, SeqMonotonic
  <1>3. ASSUME NEW n \in Nat \ {0}
        PROVE  digits[n] # <<>>
    <2>1. PICK q \in Nat, d \in 0..9 :
            /\ digits[q] \in Seq(Numeral) /\ 48 + d \in Numeral
            /\ digits[n] = Append(digits[q], 48 + d)
      BY DigitsStep
    <2> QED
      BY <2>1, AppendProperties
  <1> QED
    BY <1>1, <1>2, <1>3

\* No two numbers have the same digits.
LEMMA DigitsDiffer ==
    ASSUME NEW m \in Nat, NEW n \in Nat, digits[m] = digits[n]
    PROVE  m = n
  <1> DEFINE T == {i \in Nat : \E k \in Nat : digits[i] = digits[k] /\ i # k}
  <1>1. ASSUME T # {}
        PROVE  FALSE
    <2>1. PICK i \in T : \A j \in T : i <= j
      <3>1. T \in SUBSET Nat
        OBVIOUS
      <3> HIDE DEF T
      <3> QED
        BY <1>1, <3>1, LeastNumber
    <2>2. PICK k \in Nat : digits[i] = digits[k] /\ i # k
      OBVIOUS
    <2>3. i \in Nat /\ k \in T /\ i < k
      <3>1. i \in Nat /\ k \in T
        BY <2>2
      <3> QED
        BY <2>1, <2>2, <3>1
    <2> HIDE DEF T
    <2>4. k \in Nat \ {0}
      BY <2>3
    <2>5. PICK q \in Nat, d \in 0..9 :
              /\ k = 10 * q + d /\ q < k
              /\ digits[q] \in Seq(Numeral) /\ 48 + d \in Numeral
              /\ digits[k] = Append(digits[q], 48 + d)
      BY <2>4, DigitsStep
    <2>6. i \in Nat \ {0}
      BY <2>2, <2>3, <2>4, DigitsOfPositive
    <2>7. PICK r \in Nat, c \in 0..9 :
              /\ i = 10 * r + c /\ r < i
              /\ digits[r] \in Seq(Numeral) /\ 48 + c \in Numeral
              /\ digits[i] = Append(digits[r], 48 + c)
      BY <2>6, DigitsStep
    <2>8. digits[q] = digits[r] /\ 48 + d = 48 + c
      <3>1. PICK s \in Seq(Numeral), x \in Numeral : s = digits[q] /\ x = 48 + d
        BY <2>5
      <3>2. PICK t \in Seq(Numeral), y \in Numeral : t = digits[r] /\ y = 48 + c
        BY <2>7
      <3>3. Append(s, x) = Append(t, y)
        BY <2>2, <2>5, <2>7, <3>1, <3>2
      <3>4. s = t /\ x = y
        BY <3>3, AppendInjective
      <3> QED
        BY <3>1, <3>2, <3>4
    <2>9. q # r
      BY <2>2, <2>5, <2>7, <2>8
    <2>10. r \in T
      BY <2>8, <2>9 DEF T
    <2> QED
      BY <2>1, <2>3, <2>7, <2>10
  <1> QED
    BY <1>1

\* itoa writes two ints alike only if they are equal, the least one included.
LEMMA ItoaDiffers ==
    ASSUME NEW m \in Int, NEW n \in Int, itoa(m) = itoa(n)
    PROVE  m = n
  <1> USE IntAssumption
  <1>1. \A i \in Int :
            /\ i = 0 => itoa(i) = <<48>>
            /\ i > 0 => itoa(i) = digits[i]
            /\ i < 0 /\ i # MinInt => itoa(i) = <<45>> \o digits[-i]
            /\ i = MinInt => itoa(i) = <<45>>
    BY DEF itoa
  <1>2. /\ itoa(0) # <<>> /\ itoa(0)[1] = 48
        /\ itoa(MinInt) # <<>> /\ itoa(MinInt)[1] = 45 /\ Len(itoa(MinInt)) = 1
    BY <1>1
  <1>3. ASSUME NEW i \in Int, i > 0
        PROVE  itoa(i) \in Seq(Numeral) /\ itoa(i)[1] \in Numeral /\ itoa(i) # <<48>>
    <2>1. i \in Nat \ {0} /\ itoa(i) = digits[i]
      BY <1>1, <1>3
    <2>2. digits[i] \in Seq(Numeral) /\ digits[i][1] \in Numeral
      BY <2>1, DigitsOfPositive
    <2>3. digits[i] # <<48>>
      <3>1. PICK q \in Nat, d \in 0..9 :
                /\ i = 10 * q + d
                /\ digits[q] \in Seq(Numeral) /\ 48 + d \in Numeral
                /\ digits[i] = Append(digits[q], 48 + d)
        BY <2>1, DigitsStep
      <3>2. <<48>> = Append(<<>>, 48) /\ <<>> \in Seq(Numeral) /\ 48 \in Numeral
        BY DEF Numeral
      <3>3. digits[i] = <<48>> => digits[q] = <<>> /\ 48 + d = 48
        BY <3>1, <3>2, AppendInjective
      <3>4. digits[q] = <<>> => q = 0
        BY DigitsOfPositive
      <3>5. ~(q = 0 /\ 48 + d = 48)
        BY <2>1, <3>1
      <3> QED
        BY <3>3, <3>4, <3>5
    <2> QED
      BY <2>1, <2>2, <2>3
  <1>4. ASSUME NEW i \in Int, i < 0, i # MinInt
        PROVE  /\ -i \in Nat \ {0}
               /\ itoa(i) = <<45>> \o digits[-i] /\ digits[-i] \in Seq(Nat)
               /\ itoa(i)[1] = 45 /\ Len(itoa(i)) \in Nat /\ Len(itoa(i)) > 1
    <2>1. -i \in Nat \ {0} /\ itoa(i) = <<45>> \o digits[-i]
      BY <1>1, <1>4
    <2>2. digits[-i] \in Seq(Nat) /\ digits[-i] # <<>>
      BY <2>1, DigitsOfPositive
    <2>3. digits[-i] \in Seq(Nat) /\ <<45>> \in Seq(Nat) /\ Len(digits[-i]) > 0
      BY <2>2
    <2> QED
      BY <2>1, <2>3, ConcatProperties
  <1>5. CASE m > 0 /\ n > 0
    BY <1>1, <1>5, DigitsDiffer
  <1>6. CASE m < 0 /\ n < 0 /\ m # MinInt /\ n # MinInt
    <2>1. <<45>> \o digits[-m] = <<45>> \o digits[-n]
      BY <1>4, <1>6
    <2>2. <<45>> \in Seq(Nat) /\ digits[-m] \in Seq(Nat) /\ digits[-n] \in Seq(Nat)
      BY <1>4, <1>6
    <2>3. digits[-m] = digits[-n]
      BY <2>1, <2>2, ConcatSimplifications
    <2>4. -m = -n
      BY <1>4, <1>6, <2>3, DigitsDiffer
    <2> QED
      BY <2>4
  <1>7. \A i \in Int : \/ i = 0 /\ itoa(i) = <<48>>
                       \/ i > 0 /\ itoa(i)[1] \in Numeral /\ itoa(i) # <<48>>
                       \/ i < 0 /\ itoa(i)[1] = 45
    BY <1>1, <1>2, <1>3, <1>4
  <1>8. \A i \in Int : i < 0 => (i = MinInt <=> Len(itoa(i)) = 1)
    <2>1. ASSUME NEW i \in Int, i < 0, i # MinInt
          PROVE  Len(itoa(i)) # 1
      <3>1. PICK l \in Nat : l = Len(itoa(i)) /\ l > 1
        BY <1>4, <2>1
      <3> QED
        BY <3>1
    <2> QED
      BY <1>2, <2>1
  <1> QED
    BY <1>5, <1>6, <1>7, <1>8 DEF Numeral

\* Two instants have two texts.
LEMMA FormatDiffers ==
    ASSUME NEW s \in Nat, NEW t \in Nat, Format(s) = Format(t)
    PROVE  s = t
  <1>1. digits[s] \in Seq(Nat) /\ digits[t] \in Seq(Nat) /\ <<90>> \in Seq(Nat)
    BY DigitsOfPositive
  <1>2. digits[s] = digits[t]
    BY <1>1, ConcatSimplifications DEF Format
  <1> QED
    BY <1>2, DigitsDiffer

-----------------------------------------------------------------------------
(* encode                                                                  *)

\* A field after its length.
Block(s) == PutUint32(Len(s)) \o s

LEMMA PutUint32Type ==
    ASSUME NEW n \in Nat
    PROVE  PutUint32(n) \in Seq(Byte) /\ Len(PutUint32(n)) = 4
  <1>1. /\ (n \div 16777216) % 256 \in Byte /\ (n \div 65536) % 256 \in Byte
        /\ (n \div 256) % 256 \in Byte /\ n % 256 \in Byte
    BY DEF Byte
  <1> QED
    BY <1>1 DEF PutUint32

\* Four bytes are enough for the length of a Text.
LEMMA PutUint32Differs ==
    ASSUME NEW m \in Nat, NEW n \in Nat, m \div 65536 < 65536, n \div 65536 < 65536,
           PutUint32(m) = PutUint32(n)
    PROVE  m = n
  <1>1. /\ (m \div 16777216) % 256 = (n \div 16777216) % 256
        /\ (m \div 65536) % 256 = (n \div 65536) % 256
        /\ (m \div 256) % 256 = (n \div 256) % 256
        /\ m % 256 = n % 256
    BY DEF PutUint32
  <1> QED
    BY <1>1

\* Concatenation as an operator of its own, of which the following is known.
Cat(s, t) == s \o t

LEMMA CatType ==
    ASSUME NEW S, NEW s \in Seq(S), NEW t \in Seq(S)
    PROVE  Cat(s, t) \in Seq(S)
  BY ConcatProperties DEF Cat

LEMMA CatAssociative ==
    ASSUME NEW S, NEW s \in Seq(S), NEW t \in Seq(S), NEW u \in Seq(S)
    PROVE  Cat(Cat(s, t), u) = Cat(s, Cat(t, u))
  BY ConcatAssociative DEF Cat

LEMMA CatEmpty ==
    ASSUME NEW S, NEW s \in Seq(S), NEW t \in Seq(S)
    PROVE  /\ s = Cat(s, t) => t = <<>>
           /\ Cat(s, t) = <<>> => s = <<>>
  BY ConcatEqualIffEmpty DEF Cat

\* Sequences of one length that are followed by something, as a whole the same,
\* are the same.
LEMMA SamePrefix ==
    ASSUME NEW S, NEW s \in Seq(S), NEW t \in Seq(S), NEW u \in Seq(S), NEW v \in Seq(S),
           Len(s) = Len(t), Cat(s, u) = Cat(t, v)
    PROVE  s = t /\ u = v
  <1> USE DEF Cat
  <1>1. ASSUME NEW i \in 1..Len(s)
        PROVE  s[i] = t[i]
    <2>1. (s \o u)[i] = s[i] /\ (t \o v)[i] = t[i]
      OBVIOUS
    <2> QED
      BY <2>1
  <1>2. s = t
    BY <1>1, SeqEqual
  <1> QED
    BY <1>2, ConcatSimplifications

\* If heads of one length determine the length of what they precede, the parts
\* can be told from the whole.
LEMMA HeadedParts ==
    ASSUME NEW S, NEW a \in Seq(S), NEW b \in Seq(S), NEW s \in Seq(S), NEW t \in Seq(S),
           NEW u \in Seq(S), NEW v \in Seq(S),
           Len(a) = Len(b), a = b => Len(s) = Len(t),
           Cat(Cat(a, s), u) = Cat(Cat(b, t), v)
    PROVE  s = t /\ u = v
  <1>1. PICK x \in Seq(S), y \in Seq(S) : x = Cat(s, u) /\ y = Cat(t, v)
    BY CatType
  <1>2. Cat(Cat(a, s), u) = Cat(a, x) /\ Cat(Cat(b, t), v) = Cat(b, y)
    BY <1>1, CatAssociative
  <1>3. Cat(a, x) = Cat(b, y)
    BY <1>2
  <1>4. a = b /\ x = y
    BY <1>3, SamePrefix, Zenon
  <1> QED
    BY <1>1, <1>4, SamePrefix

LEMMA TextIsBytes ==
    ASSUME NEW s \in Text
    PROVE  s \in Seq(Byte) /\ Len(s) \in Nat
  BY DEF Text

LEMMA LengthFits ==
    ASSUME NEW s \in Text, NEW t \in Text, PutUint32(Len(s)) = PutUint32(Len(t))
    PROVE  Len(s) = Len(t)
  <1>1. PICK m \in Nat : m = Len(s) /\ m \div 65536 < 65536
    BY DEF Text
  <1>2. PICK n \in Nat : n = Len(t) /\ n \div 65536 < 65536
    BY DEF Text
  <1>3. PutUint32(m) = PutUint32(n)
    BY <1>1, <1>2
  <1>4. m = n
    BY <1>1, <1>2, <1>3, PutUint32Differs
  <1> QED
    BY <1>1, <1>2, <1>4

\* A field can be told from what follows it: boundaries cannot be forged.
LEMMA BlockParses ==
    ASSUME NEW s \in Text, NEW t \in Text, NEW u \in Seq(Byte), NEW v \in Seq(Byte),
           Cat(Block(s), u) = Cat(Block(t), v)
    PROVE  s = t /\ u = v
  <1>1. s \in Seq(Byte) /\ Len(s) \in Nat /\ t \in Seq(Byte) /\ Len(t) \in Nat
    BY TextIsBytes
  <1>2. PICK a \in Seq(Byte), b \in Seq(Byte) :
            a = PutUint32(Len(s)) /\ b = PutUint32(Len(t)) /\ Len(a) = Len(b)
    BY <1>1, PutUint32Type
  <1>3. a = b => Len(s) = Len(t)
    BY <1>2, LengthFits
  <1>4. Cat(Cat(a, s), u) = Cat(Cat(b, t), v)
    BY <1>2, Zenon DEF Block, Cat
  <1> QED
    BY <1>1, <1>2, <1>3, <1>4, HeadedParts

LEMMA BlockType ==
    ASSUME NEW s \in Text
    PROVE  Block(s) \in Seq(Byte) /\ Block(s) # <<>>
  <1>1. s \in Seq(Byte) /\ Len(s) \in Nat
    BY TextIsBytes
  <1>2. PutUint32(Len(s)) \in Seq(Byte) /\ Len(PutUint32(Len(s))) = 4
    BY <1>1, PutUint32Type
  <1> QED
    BY <1>1, <1>2, ConcatProperties DEF Block

\* The loop of encode: f[i] is the buffer after i fields.
Buffer(f, s) ==
    /\ f \in [0..Len(s) -> Seq(Byte)]
    /\ f[0] = <<>>
    /\ \A i \in 1..Len(s) : f[i] = Cat(f[i - 1], Block(s[i]))
    /\ encode(s) = f[Len(s)]

\* FlattenSeq is its loop, once that is known to have a result.
LEMMA FlattenLoop ==
    ASSUME NEW b, Len(b) # 0,
           NEW f, f = [i \in 1..Len(b) |-> IF i = 1 THEN b[i] ELSE f[i - 1] \o b[i]]
    PROVE  \E g : /\ g = [i \in 1..Len(b) |-> IF i = 1 THEN b[i] ELSE g[i - 1] \o b[i]]
                  /\ FlattenSeq(b) = g[Len(b)]
  BY Zenon DEF FlattenSeq

\* Flattening concatenates one sequence after the other.
LEMMA Flattened ==
    ASSUME NEW S, NEW n \in Nat \ {0}, NEW b \in [1..n -> Seq(S)]
    PROVE  \E f \in [0..n -> Seq(S)] :
              /\ f[0] = <<>>
              /\ \A i \in 1..n : f[i] = Cat(f[i - 1], b[i])
              /\ FlattenSeq(b) = f[n]
  <1> DEFINE A == Seq(S)
             back == [k \in Nat |-> k - 1]
             step == [p \in Nat \X A |-> IF p[1] \in 1..n THEN Cat(p[2], b[p[1]]) ELSE p[2]]
  <1>1. \A k \in Nat \ {0} : back[k] = k - 1 /\ k - 1 \in 0..(k - 1)
    OBVIOUS
  <1>2. Len(b) = n
    OBVIOUS
  <1>3. step \in [Nat \X A -> A]
    <2>1. ASSUME NEW p \in Nat \X A
          PROVE  (IF p[1] \in 1..n THEN Cat(p[2], b[p[1]]) ELSE p[2]) \in A
      BY CatType
    <2> QED
      BY <2>1
  <1>4. <<>> \in A
    OBVIOUS
  <1>5. PICK f : Results(f, A, <<>>, back, step)
    <2> HIDE DEF A, back, step
    <2>1. Loop(A, <<>>, back, step)
      BY <1>1, <1>3, <1>4 DEF Loop
    <2> QED
      BY <2>1, LoopDefines
  <1>6. ASSUME NEW i \in 1..n
        PROVE  f[i] = Cat(f[i - 1], b[i]) /\ f[i - 1] \in A
    <2> HIDE DEF A
    <2>1. i \in Nat \ {0} /\ i \in Nat /\ i - 1 \in Nat /\ back[i] = i - 1
      BY <1>1
    <2>2. f[i] = step[<<i, f[i - 1]>>] /\ f[i - 1] \in A
      <3> HIDE DEF step, back
      <3>1. f[i] = step[<<i, f[back[i]]>>]
        BY <1>5, <2>1 DEF Results
      <3>2. f[i - 1] \in A
        BY <1>5, <2>1 DEF Results
      <3> QED
        BY <2>1, <3>1, <3>2
    <2>3. <<i, f[i - 1]>> \in Nat \X A
      BY <2>1, <2>2
    <2> QED
      BY <2>2, <2>3
  <1> HIDE DEF step, back
  <1>7. f[0] = <<>> /\ f \in [Nat -> Seq(S)]
    BY <1>5 DEF Results
  <1>8. b[1] \in Seq(S) /\ f[1] = b[1]
    <2>1. 1 \in 1..n /\ 1 - 1 = 0
      OBVIOUS
    <2>2. b[1] \in Seq(S) /\ f[1] = Cat(<<>>, b[1])
      BY <1>6, <1>7, <2>1
    <2> QED
      BY <2>2, ConcatEmptySeq DEF Cat
  <1> DEFINE h == [i \in 1..n |-> f[i]]
  <1>9. h = [i \in 1..n |-> IF i = 1 THEN b[i] ELSE h[i - 1] \o b[i]]
    <2>1. ASSUME NEW i \in 1..n
          PROVE  f[i] = IF i = 1 THEN b[i] ELSE h[i - 1] \o b[i]
      <3>1. CASE i = 1
        BY <1>8, <3>1
      <3>2. CASE i # 1
        <4>1. i - 1 \in 1..n
          BY <3>2
        <4>2. h[i - 1] = f[i - 1]
          BY <4>1
        <4>3. f[i] = f[i - 1] \o b[i]
          BY <1>6, Zenon DEF Cat
        <4> HIDE DEF h
        <4> QED
          BY <3>2, <4>2, <4>3, Zenon
      <3> QED
        BY <3>1, <3>2
    <2> QED
      BY <2>1, Zenon
  <1> HIDE DEF h
  <1>10. PICK g : /\ g = [i \in 1..n |-> IF i = 1 THEN b[i] ELSE g[i - 1] \o b[i]]
                  /\ FlattenSeq(b) = g[n]
    BY <1>2, <1>9, FlattenLoop
  <1>11. \A i \in 1..n : g[i] = f[i]
    <2> DEFINE T == {i \in 1..n : g[i] # f[i]}
    <2> SUFFICES ASSUME T # {} PROVE FALSE
      OBVIOUS
    <2>1. PICK i \in T : \A j \in T : i <= j
      <3>1. T \in SUBSET Nat
        OBVIOUS
      <3> HIDE DEF T
      <3> QED
        BY <3>1, LeastNumber
    <2>2. i \in 1..n /\ g[i] # f[i]
      OBVIOUS
    <2>3. g[i] = IF i = 1 THEN b[i] ELSE g[i - 1] \o b[i]
      BY <1>10, <2>2, Zenon
    <2>4. i # 1
      BY <1>8, <2>2, <2>3
    <2>5. i - 1 \in 1..n /\ i - 1 \notin T
      BY <2>1, <2>2, <2>4
    <2>6. g[i - 1] = f[i - 1]
      BY <2>5
    <2>7. f[i] = f[i - 1] \o b[i]
      BY <1>6, <2>2, Zenon DEF Cat
    <2> QED
      BY <2>2, <2>3, <2>4, <2>6, <2>7, Zenon
  <1> DEFINE r == [i \in 0..n |-> f[i]]
  <1>12. r \in [0..n -> Seq(S)] /\ \A i \in 0..n : r[i] = f[i]
    BY <1>7
  <1>13. 0 \in 0..n /\ n \in 0..n /\ n \in 1..n /\ \A i \in 1..n : i \in 0..n /\ i - 1 \in 0..n
    OBVIOUS
  <1> HIDE DEF r
  <1>14. /\ r[0] = <<>>
         /\ \A i \in 1..n : r[i] = Cat(r[i - 1], b[i])
         /\ FlattenSeq(b) = r[n]
    BY <1>6, <1>7, <1>10, <1>11, <1>12, <1>13
  <1> QED
    BY <1>12, <1>14

LEMMA EncodeLoop ==
    ASSUME NEW s \in Seq(Text), Len(s) # 0
    PROVE  \E f : Buffer(f, s)
  <1> DEFINE b == [i \in 1..Len(s) |-> Block(s[i])]
  <1>1. Len(s) \in Nat \ {0} /\ DOMAIN s = 1..Len(s) /\ \A i \in 1..Len(s) : s[i] \in Text
    OBVIOUS
  <1>2. b \in [1..Len(s) -> Seq(Byte)]
    BY <1>1, BlockType
  <1>3. encode(s) = FlattenSeq(b)
    BY <1>1, Zenon DEF encode, Block
  <1>4. \A i \in 1..Len(s) : b[i] = Block(s[i])
    OBVIOUS
  <1> HIDE DEF b
  <1>5. PICK f \in [0..Len(s) -> Seq(Byte)] :
              /\ f[0] = <<>>
              /\ \A i \in 1..Len(s) : f[i] = Cat(f[i - 1], b[i])
              /\ FlattenSeq(b) = f[Len(s)]
    BY <1>1, <1>2, Flattened
  <1> QED
    BY <1>3, <1>4, <1>5 DEF Buffer

\* The buffer only grows: what it holds after i fields is how it ends up starting.
LEMMA BufferGrows ==
    ASSUME NEW s \in Seq(Text), NEW f, Buffer(f, s), NEW i \in 0..Len(s)
    PROVE  \E u \in Seq(Byte) : encode(s) = Cat(f[i], u)
  <1> DEFINE Ends(k) == \E u \in Seq(Byte) : encode(s) = Cat(f[k], u)
             T == {d \in 0..Len(s) : ~Ends(Len(s) - d)}
  <1>1. Len(s) \in Nat /\ \A k \in 1..Len(s) : s[k] \in Text
    OBVIOUS
  <1>2. Ends(Len(s))
    <2>1. f[Len(s)] \in Seq(Byte) /\ <<>> \in Seq(Byte) /\ encode(s) = f[Len(s)]
      BY <1>1 DEF Buffer
    <2>2. Cat(f[Len(s)], <<>>) = f[Len(s)]
      BY <2>1, ConcatEmptySeq DEF Cat
    <2> QED
      BY <2>1, <2>2
  <1>3. ASSUME NEW k \in 1..Len(s), Ends(k)
        PROVE  Ends(k - 1)
    <2>1. PICK u \in Seq(Byte) : encode(s) = Cat(f[k], u)
      BY <1>3
    <2>2. /\ f[k - 1] \in Seq(Byte) /\ Block(s[k]) \in Seq(Byte)
          /\ f[k] = Cat(f[k - 1], Block(s[k]))
      <3>1. k - 1 \in 0..Len(s)
        OBVIOUS
      <3> QED
        BY <1>1, <3>1, BlockType DEF Buffer
    <2>3. encode(s) = Cat(f[k - 1], Cat(Block(s[k]), u))
      BY <2>1, <2>2, CatAssociative
    <2>4. Cat(Block(s[k]), u) \in Seq(Byte)
      BY <2>2, CatType
    <2> QED
      BY <2>3, <2>4
  <1> HIDE DEF Ends
  <1>4. T = {}
    <2> SUFFICES ASSUME T # {} PROVE FALSE
      OBVIOUS
    <2>1. PICK d \in T : \A j \in T : d <= j
      <3>1. T \in SUBSET Nat
        OBVIOUS
      <3> HIDE DEF T
      <3> QED
        BY <3>1, LeastNumber
    <2>2. d \in 0..Len(s) /\ ~Ends(Len(s) - d)
      OBVIOUS
    <2>3. d # 0
      BY <1>1, <1>2, <2>2
    <2>4. d - 1 \in 0..Len(s) /\ d - 1 \notin T
      BY <1>1, <2>1, <2>2, <2>3
    <2>5. PICK k \in 1..Len(s) : k = Len(s) - (d - 1) /\ k - 1 = Len(s) - d
      <3>1. PICK n \in Nat : n = Len(s)
        BY <1>1
      <3>2. d \in 1..n /\ n - (d - 1) \in 1..n /\ n - (d - 1) - 1 = n - d
        BY <2>2, <2>3, <3>1
      <3> QED
        BY <3>1, <3>2
    <2>6. Ends(k)
      BY <2>4, <2>5
    <2> QED
      BY <1>3, <2>2, <2>5, <2>6
  <1>5. Ends(i)
    <2>1. PICK d \in 0..Len(s) : i = Len(s) - d
      BY <1>1
    <2> QED
      BY <1>4, <2>1
  <1> QED
    BY <1>5 DEF Ends

\* Fields can be read back from what encode makes of them: as far as both lists
\* go, they have the same fields.
LEMMA CommonFields ==
    ASSUME NEW s \in Seq(Text), NEW t \in Seq(Text), NEW f, NEW g,
           Buffer(f, s), Buffer(g, t), encode(s) = encode(t)
    PROVE  \A i \in 0..Len(s) : i <= Len(t) => f[i] = g[i] /\ (i > 0 => s[i] = t[i])
  <1> DEFINE T == {i \in 0..Len(s) : i <= Len(t) /\ ~(f[i] = g[i] /\ (i > 0 => s[i] = t[i]))}
  <1> SUFFICES ASSUME T # {} PROVE FALSE
    OBVIOUS
  <1>1. PICK i \in T : \A j \in T : i <= j
    <2>1. T \in SUBSET Nat
      OBVIOUS
    <2> HIDE DEF T
    <2> QED
      BY <2>1, LeastNumber
  <1>2. /\ Len(s) \in Nat /\ \A k \in 1..Len(s) : s[k] \in Text
        /\ Len(t) \in Nat /\ \A k \in 1..Len(t) : t[k] \in Text
    OBVIOUS
  <1>3. i # 0
    BY <1>1 DEF Buffer
  <1>4. i \in 1..Len(s) /\ i \in 1..Len(t) /\ ~(f[i] = g[i] /\ s[i] = t[i])
    BY <1>1, <1>2, <1>3
  <1>5. PICK h : h = i - 1 /\ h \in 0..Len(s) /\ h \in 0..Len(t) /\ h \notin T
    BY <1>1, <1>2, <1>4
  <1>6. f[h] = g[h]
    BY <1>2, <1>5
  <1> HIDE DEF T
  <1>7. PICK c \in Seq(Byte) : c = f[h] /\ c = g[h]
    BY <1>5, <1>6 DEF Buffer
  <1>8. PICK x \in Text, y \in Text : x = s[i] /\ y = t[i]
    BY <1>2, <1>4
  <1>9. f[i] = Cat(c, Block(x)) /\ g[i] = Cat(c, Block(y))
    BY <1>4, <1>5, <1>7, <1>8 DEF Buffer
  <1>10. PICK u \in Seq(Byte) : encode(s) = Cat(f[i], u)
    BY <1>4, BufferGrows
  <1>11. PICK v \in Seq(Byte) : encode(t) = Cat(g[i], v)
    BY <1>4, BufferGrows
  <1>12. Cat(Cat(c, Block(x)), u) = Cat(Cat(c, Block(y)), v)
    BY <1>9, <1>10, <1>11
  <1>13. Block(x) \in Seq(Byte) /\ Block(y) \in Seq(Byte)
    BY BlockType
  <1>14. PICK p \in Seq(Byte), q \in Seq(Byte) : p = Cat(Block(x), u) /\ q = Cat(Block(y), v)
    BY <1>13, CatType
  <1>15. Cat(c, p) = Cat(c, q)
    BY <1>12, <1>13, <1>14, CatAssociative
  <1>16. p = q
    BY <1>15, SamePrefix
  <1>17. x = y
    BY <1>14, <1>16, BlockParses
  <1> QED
    BY <1>4, <1>8, <1>9, <1>17

\* More fields make a longer buffer.
LEMMA NoFewerFields ==
    ASSUME NEW s \in Seq(Text), NEW t \in Seq(Text), NEW f, NEW g,
           Buffer(f, s), Buffer(g, t), encode(s) = encode(t)
    PROVE  ~(Len(s) < Len(t))
  <1> SUFFICES ASSUME Len(s) < Len(t) PROVE FALSE
    OBVIOUS
  <1>1. /\ Len(s) \in Nat /\ Len(t) \in Nat /\ \A k \in 1..Len(t) : t[k] \in Text
    OBVIOUS
  <1>2. PICK i \in Nat : i = Len(s) /\ i \in 0..Len(s) /\ i \in 0..Len(t) /\ i <= Len(t)
                         /\ i + 1 \in 1..Len(t) /\ i + 1 \in 0..Len(t) /\ (i + 1) - 1 = i
    BY <1>1
  <1>3. f[i] = g[i]
    BY <1>2, CommonFields
  <1>4. PICK e \in Seq(Byte) : e = encode(s) /\ e = g[i]
    BY <1>2, <1>3 DEF Buffer
  <1>5. PICK x \in Seq(Byte) : x = Block(t[i + 1]) /\ x # <<>>
    BY <1>1, <1>2, BlockType
  <1>6. g[i + 1] = Cat(e, x)
    BY <1>2, <1>4, <1>5 DEF Buffer
  <1>7. PICK v \in Seq(Byte) : encode(t) = Cat(g[i + 1], v)
    BY <1>2, BufferGrows
  <1>8. PICK w \in Seq(Byte) : w = Cat(x, v)
    BY CatType
  <1>9. e = Cat(e, w)
    <2>1. Cat(Cat(e, x), v) = Cat(e, Cat(x, v))
      BY CatAssociative
    <2>2. e = Cat(Cat(e, x), v)
      BY <1>4, <1>6, <1>7, Zenon
    <2> QED
      BY <1>8, <2>1, <2>2, Zenon
  <1>10. w = <<>>
    BY <1>9, CatEmpty
  <1> QED
    BY <1>5, <1>8, <1>10, CatEmpty

\* eventid.go, "Length prefixes make the boundaries unforgeable": whatever the
\* fields contain and however many there are, lists that encode makes the same
\* of are the same list.
THEOREM EncodeIsInjective ==
    \A s, t \in Seq(Text) : Len(s) # 0 /\ Len(t) # 0 /\ encode(s) = encode(t) => s = t
  <1> SUFFICES ASSUME NEW s \in Seq(Text), NEW t \in Seq(Text), Len(s) # 0, Len(t) # 0,
                      encode(s) = encode(t)
               PROVE  s = t
    OBVIOUS
  <1>1. PICK f : Buffer(f, s)
    BY EncodeLoop
  <1>2. PICK g : Buffer(g, t)
    BY EncodeLoop
  <1>3. ~(Len(s) < Len(t)) /\ ~(Len(t) < Len(s))
    BY <1>1, <1>2, NoFewerFields
  <1>4. Len(s) \in Nat /\ Len(t) \in Nat
    OBVIOUS
  <1>5. Len(s) = Len(t)
    BY <1>3, <1>4
  <1>6. \A i \in 0..Len(s) : i <= Len(t) => f[i] = g[i] /\ (i > 0 => s[i] = t[i])
    BY <1>1, <1>2, CommonFields
  <1>7. \A i \in 1..Len(s) : s[i] = t[i]
    BY <1>4, <1>5, <1>6
  <1> QED
    BY <1>5, <1>7, SeqEqual

-----------------------------------------------------------------------------
(* Ids                                                                     *)

Ids    == [path : {"id"}, id : Text]
Fields == {x \in [path : {"fields"}, type : Text, room : Text, identity : Text,
                  sid : Text, track : Text, at : Nat, ordinal : Int] :
             Format(x.at) \in Text /\ itoa(x.ordinal) \in Text}

\* What encode is given in either derivation.
Listed(x) ==
    IF x.path = "id" THEN <<scheme, backend, x.id>>
    ELSE <<scheme, backend, x.type, x.room, x.identity, x.sid, x.track, Format(x.at),
           itoa(x.ordinal)>>

LEMMA ListsOfTexts ==
    /\ \A x \in Ids : Derive(x) = encode(Listed(x)) /\ Listed(x) \in Seq(Text)
                      /\ Len(Listed(x)) = 3 /\ Listed(x)[3] = x.id
    /\ \A x \in Fields : Derive(x) = encode(Listed(x)) /\ Listed(x) \in Seq(Text)
                         /\ Len(Listed(x)) = 9
                         /\ Listed(x)[3] = x.type /\ Listed(x)[4] = x.room
                         /\ Listed(x)[5] = x.identity /\ Listed(x)[6] = x.sid
                         /\ Listed(x)[7] = x.track /\ Listed(x)[8] = Format(x.at)
                         /\ Listed(x)[9] = itoa(x.ordinal)
  <1>1. scheme \in Text /\ backend \in Text
    <2>1. scheme \in Seq(Byte) /\ Len(scheme) = 2 /\ backend \in Seq(Byte) /\ Len(backend) = 1
      BY DEF scheme, backend, Byte
    <2>2. ASSUME NEW s \in Seq(Byte), Len(s) <= 2
          PROVE  s \in Text
      <3>1. PICK n \in Nat : n = Len(s)
        OBVIOUS
      <3>2. n \div 65536 < 65536
        BY <2>2, <3>1
      <3> QED
        BY <3>1, <3>2 DEF Text
    <2>3. Len(scheme) <= 2 /\ Len(backend) <= 2
      BY <2>1
    <2> QED
      BY <2>1, <2>2, <2>3, Zenon
  <1>2. ASSUME NEW x \in Ids
        PROVE  Derive(x) = encode(Listed(x)) /\ Listed(x) \in Seq(Text)
               /\ Len(Listed(x)) = 3 /\ Listed(x)[3] = x.id
    <2>1. x.path = "id" /\ x.id \in Text
      BY DEF Ids
    <2> QED
      BY <1>1, <2>1 DEF Derive, FromBackendEventID, Listed
  <1>3. ASSUME NEW x \in Fields
        PROVE  /\ Derive(x) = encode(Listed(x)) /\ Listed(x) \in Seq(Text)
               /\ Len(Listed(x)) = 9
               /\ Listed(x)[3] = x.type /\ Listed(x)[4] = x.room
               /\ Listed(x)[5] = x.identity /\ Listed(x)[6] = x.sid
               /\ Listed(x)[7] = x.track /\ Listed(x)[8] = Format(x.at)
               /\ Listed(x)[9] = itoa(x.ordinal)
    <2>1. /\ x.path = "fields" /\ x.type \in Text /\ x.room \in Text /\ x.identity \in Text
          /\ x.sid \in Text /\ x.track \in Text
          /\ Format(x.at) \in Text /\ itoa(x.ordinal) \in Text
      BY DEF Fields
    <2> QED
      BY <1>1, <2>1 DEF Derive, FromFields, Listed
  <1> QED
    BY <1>2, <1>3

\* Two different inputs, each with or without an id of its own, derive two ids.
THEOREM DeriveIsInjective ==
    \A x, y \in Input : Derive(x) = Derive(y) => x = y
  <1> SUFFICES ASSUME NEW x \in Input, NEW y \in Input, Derive(x) = Derive(y)
               PROVE  x = y
    OBVIOUS
  <1>1. /\ x \in Ids \cup Fields
        /\ y \in Ids \cup Fields
    BY InputAssumption DEF Ids, Fields
  <1>2. Listed(x) = Listed(y)
    <2>1. PICK s \in Seq(Text) : s = Listed(x) /\ Len(s) # 0 /\ Derive(x) = encode(s)
      BY <1>1, ListsOfTexts
    <2>2. PICK t \in Seq(Text) : t = Listed(y) /\ Len(t) # 0 /\ Derive(y) = encode(t)
      BY <1>1, ListsOfTexts
    <2>3. encode(s) = encode(t)
      BY <2>1, <2>2
    <2> QED
      BY <2>1, <2>2, <2>3, EncodeIsInjective
  <1>3. ASSUME x \in Ids
        PROVE  x = y
    <2>1. y \in Ids /\ x.id = y.id
      BY <1>1, <1>2, <1>3, ListsOfTexts
    <2> QED
      BY <1>3, <2>1 DEF Ids
  <1>4. ASSUME x \in Fields
        PROVE  x = y
    <2>1. y \in Fields
      BY <1>1, <1>2, <1>4, ListsOfTexts
    <2>2. /\ x.type = y.type /\ x.room = y.room /\ x.identity = y.identity
          /\ x.sid = y.sid /\ x.track = y.track
          /\ Format(x.at) = Format(y.at) /\ itoa(x.ordinal) = itoa(y.ordinal)
      BY <1>2, <1>4, <2>1, ListsOfTexts
    <2>3. x.at = y.at /\ x.ordinal = y.ordinal
      <3>1. /\ x.at \in Nat /\ y.at \in Nat /\ x.ordinal \in Int /\ y.ordinal \in Int
        BY <1>4, <2>1 DEF Fields
      <3> QED
        BY <2>2, <3>1, FormatDiffers, ItoaDiffers
    <2> QED
      BY <1>4, <2>1, <2>2, <2>3 DEF Fields
  <1> QED
    BY <1>1, <1>3, <1>4

\* What has been received, and its ids.
EventIdInv ==
    /\ received \subseteq Input
    /\ IsFiniteSet(received)
    /\ ids = {Derive(x) : x \in received}
    /\ IsFiniteSet(ids)
    /\ NoCollapse

\* eventid.go's two derivations never collapse two events into one id, for all
\* strings and numbers that an event may carry.
THEOREM EventsDoNotCollapse == Spec => []NoCollapse
  <1>1. Init => EventIdInv
    BY FS_EmptySet DEF Init, EventIdInv, NoCollapse
  <1>2. ASSUME EventIdInv, [Next]_<<received, ids>>
        PROVE  EventIdInv'
    <2>1. CASE UNCHANGED <<received, ids>>
      BY <1>2, <2>1 DEF EventIdInv, NoCollapse
    <2>2. ASSUME NEW x \in Input, Receive(x)
          PROVE  EventIdInv'
      <3>1. received' = received \cup {x} /\ ids' = ids \cup {Derive(x)}
        BY <2>2 DEF Receive
      <3>2. Derive(x) \in ids <=> x \in received
        BY <1>2, DeriveIsInjective DEF EventIdInv
      <3>3. /\ IsFiniteSet(received')
            /\ Cardinality(received') = IF x \in received THEN Cardinality(received)
                                        ELSE Cardinality(received) + 1
        BY <1>2, <3>1, FS_AddElement DEF EventIdInv
      <3>4. /\ IsFiniteSet(ids')
            /\ Cardinality(ids') = IF Derive(x) \in ids THEN Cardinality(ids)
                                   ELSE Cardinality(ids) + 1
        BY <1>2, <3>1, FS_AddElement DEF EventIdInv
      <3>5. ids' = {Derive(y) : y \in received'} /\ received' \subseteq Input
        BY <1>2, <3>1 DEF EventIdInv
      <3>6. NoCollapse'
        BY <1>2, <3>2, <3>3, <3>4 DEF EventIdInv, NoCollapse
      <3> QED
        BY <3>3, <3>4, <3>5, <3>6 DEF EventIdInv
    <2> QED
      BY <1>2, <2>1, <2>2 DEF Next
  <1>3. EventIdInv => NoCollapse
    BY DEF EventIdInv
  <1> QED
    BY <1>1, <1>2, <1>3, PTL DEF Spec
=============================================================================
