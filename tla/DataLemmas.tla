----------------------------- MODULE DataLemmas -----------------------------
(***************************************************************************)
(* Facts about the data the models are built from, cited by the proofs of  *)
(* the components: least and greatest elements, induction over a set of    *)
(* naturals, division, sums over finite sets, and what RemoveAt leaves.     *)
(***************************************************************************)
EXTENDS Integers, SequencesExt, FiniteSetTheorems, SequenceTheorems, TLAPS

(* A nonempty set of naturals has a least element, and Min is it.          *)
LEMMA MinOfNats ==
    ASSUME NEW S \in SUBSET Nat, S # {}
    PROVE  Min(S) \in S /\ \A k \in S : Min(S) <= k
<1>1. \E x \in S : \A y \in S : ~ (<<y, x>> \in OpToRel(<, Nat))
  BY NatLessThanWellFounded, WFMin
<1>2. PICK x \in S : \A y \in S : ~ (<<y, x>> \in OpToRel(<, Nat))
  BY <1>1
<1>3. \A y \in S : x <= y
  <2>1. SUFFICES ASSUME NEW y \in S PROVE x <= y
    OBVIOUS
  <2>2. x \in Nat /\ y \in Nat
    OBVIOUS
  <2>3. ~ (y < x)
    BY <1>2, <2>2 DEF OpToRel
  <2> QED
    BY <2>2, <2>3
<1> QED
  BY <1>2, <1>3 DEF Min

(* A nonempty set of naturals with an upper bound has a greatest element,  *)
(* and Max is it: the least upper bound belongs to the set.                *)
LEMMA MaxOfNats ==
    ASSUME NEW S \in SUBSET Nat, S # {},
           NEW b \in Nat, \A k \in S : k <= b
    PROVE  Max(S) \in S /\ \A k \in S : k <= Max(S)
<1> DEFINE Upper == {n \in Nat : \A k \in S : k <= n}
<1>1. Upper \in SUBSET Nat /\ Upper # {}
  OBVIOUS
<1> DEFINE u == Min(Upper)
<1>2. u \in Upper /\ \A n \in Upper : u <= n
  BY <1>1, MinOfNats
<1>3. u \in Nat /\ \A k \in S : k <= u
  BY <1>2
<1> HIDE DEF u
<1>4. u \in S
  <2>1. SUFFICES ASSUME u \notin S PROVE FALSE
    OBVIOUS
  <2>2. \A k \in S : k \in Nat /\ k < u
    BY <1>3, <2>1
  <2>3. u - 1 \in Nat
    <3>1. PICK k \in S : TRUE
      OBVIOUS
    <3>2. k \in Nat /\ k < u
      BY <2>2
    <3> QED
      BY <1>3, <3>2
  <2>4. \A k \in S : k <= u - 1
    BY <1>3, <2>2
  <2> QED
    BY <1>2, <1>3, <2>3, <2>4
<1> QED
  BY <1>3, <1>4 DEF Max

(* Of two numbers.                                                         *)
LEMMA MaxOfTwo ==
    ASSUME NEW a \in Int, NEW b \in Int
    PROVE  Max({a, b}) = IF a >= b THEN a ELSE b
<1>1. CASE a >= b
  <2>1. \A x \in {a, b} : (\A y \in {a, b} : x >= y) <=> x = a
    BY <1>1
  <2>2. a \in {a, b}
    OBVIOUS
  <2> QED
    BY <1>1, <2>1, <2>2 DEF Max
<1>2. CASE ~(a >= b)
  <2>1. \A x \in {a, b} : (\A y \in {a, b} : x >= y) <=> x = b
    BY <1>2
  <2>2. b \in {a, b}
    OBVIOUS
  <2> QED
    BY <1>2, <2>1, <2>2 DEF Max
<1> QED
  BY <1>1, <1>2

(* The least of two integers.                                              *)
LEMMA MinOfTwo ==
    ASSUME NEW a \in Int, NEW b \in Int
    PROVE  Min({a, b}) = IF a <= b THEN a ELSE b
<1>1. CASE a <= b
  <2>1. \A x \in {a, b} : (\A y \in {a, b} : x <= y) <=> x = a
    BY <1>1
  <2>2. a \in {a, b}
    OBVIOUS
  <2> QED
    BY <1>1, <2>1, <2>2 DEF Min
<1>2. CASE ~(a <= b)
  <2>1. \A x \in {a, b} : (\A y \in {a, b} : x <= y) <=> x = b
    BY <1>2
  <2>2. b \in {a, b}
    OBVIOUS
  <2> QED
    BY <1>2, <2>1, <2>2 DEF Min
<1> QED
  BY <1>1, <1>2

(* Induction, for the set of the numbers for which a claim holds.          *)
LEMMA NatSetInduction ==
    ASSUME NEW S, 0 \in S, \A n \in Nat : n \in S => n + 1 \in S
    PROVE  \A n \in Nat : n \in S
<1> DEFINE T == Nat \ S
<1>1. SUFFICES ASSUME T # {} PROVE FALSE
  OBVIOUS
<1>2. Min(T) \in T /\ \A k \in T : Min(T) <= k
  BY <1>1, MinOfNats
<1> DEFINE m == Min(T)
<1>3. m \in Nat /\ m # 0 /\ m - 1 \in Nat /\ m - 1 < m
  BY <1>2
<1>4. m - 1 \in S
  BY <1>2, <1>3
<1>5. m \in S
  BY <1>3, <1>4
<1> QED
  BY <1>2, <1>5

(* The quotient and the remainder are the only ones.                       *)
LEMMA DivMod ==
    ASSUME NEW a \in Int, NEW d \in Nat \ {0}
    PROVE  /\ a \div d \in Int /\ a % d \in 0 .. d - 1
           /\ a = d * (a \div d) + (a % d)
           /\ a \in Nat => a \div d \in Nat
  OBVIOUS

(* Quotient and remainder are the only ones there are.                     *)
LEMMA DivModUnique ==
    ASSUME NEW a \in Int, NEW d \in Nat \ {0},
           NEW q \in Int, NEW r \in 0 .. d - 1, a = d * q + r
    PROVE  q = a \div d /\ r = a % d
  OBVIOUS
(* A product grows with its factor.                                        *)
LEMMA ProductGrows ==
    ASSUME NEW k \in Nat, NEW a \in Int, NEW b \in Int, a <= b
    PROVE  k * a <= k * b
<1>1. k * b = k * a + k * (b - a) /\ b - a \in Nat
  OBVIOUS
<1>2. k * (b - a) \in Nat /\ k * a \in Int
  BY <1>1
<1> QED
  BY <1>1, <1>2

(* A number less than twice the divisor.                                   *)
LEMMA ModOnce ==
    ASSUME NEW a \in Nat, NEW d \in Nat \ {0}, a < d + d
    PROVE  a % d \in 0 .. d - 1 /\ (a % d = a \/ a % d = a - d)
<1>1. CASE a < d
  BY <1>1
<1>2. CASE a >= d
  <2>1. a - d \in 0 .. d - 1 /\ a = d * 1 + (a - d)
    BY <1>2
  <2>2. a - d = a % d
    BY <2>1, DivModUnique
  <2> QED
    BY <2>1, <2>2
<1> QED
  BY <1>1, <1>2

(* A remainder may be taken before an addition.                            *)
LEMMA ModAdd ==
    ASSUME NEW a \in Int, NEW c \in Int, NEW d \in Nat \ {0}
    PROVE  ((a % d) + c) % d = (a + c) % d
<1> DEFINE r == a % d
           q == a \div d
           x == (r + c) \div d
           y == (r + c) % d
<1>1. r \in Int /\ q \in Int /\ a = d * q + r
  BY DivMod
<1>2. r + c \in Int /\ x \in Int /\ y \in 0 .. d - 1 /\ r + c = d * x + y
  BY <1>1, DivMod
<1> HIDE DEF r, q, x, y
<1>3. a + c = d * (q + x) + y
  <2>1. d * (q + x) = d * q + d * x
    BY <1>1, <1>2
  <2>2. d * q \in Int /\ d * x \in Int
    BY <1>1, <1>2
  <2> QED
    BY <1>1, <1>2, <2>1, <2>2
<1>4. q + x \in Int /\ a + c \in Int
  BY <1>1, <1>2
<1>5. y = (a + c) % d
  BY <1>2, <1>3, <1>4, DivModUnique
<1> QED
  BY <1>5 DEF y, r

(* What is below the divisor is its own remainder.                         *)
LEMMA ModBelow ==
    ASSUME NEW a \in Nat, NEW d \in Nat \ {0}, a < d
    PROVE  a % d = a
<1>1. a \in 0 .. d - 1 /\ a = d * 0 + a
  OBVIOUS
<1> QED
  BY <1>1, DivModUnique

(* Multiples add up to multiples.                                          *)
LEMMA ModOfSum ==
    ASSUME NEW a \in Int, NEW c \in Int, NEW d \in Nat \ {0}, a % d = 0, c % d = 0
    PROVE  (a + c) % d = 0
<1>1. ((a % d) + c) % d = (a + c) % d
  BY ModAdd
<1>2. (a % d) + c = c
  OBVIOUS
<1> QED
  BY <1>1, <1>2
-----------------------------------------------------------------------------
(* Sums over finite sets, as the community modules fold them: one element  *)
(* after the other, in the order of CHOOSE.                                *)
Pick(s) == CHOOSE x \in s : TRUE

(* The partial sums of h over the subsets of D.                            *)
ArePartialSums(h, D, sum) ==
    sum = [s \in SUBSET D |-> IF s = {} THEN 0 ELSE h[Pick(s)] + sum[s \ {Pick(s)}]]

(* A non-empty set contains the element a fold takes out of it first.      *)
LEMMA PickIn == ASSUME NEW s, s # {} PROVE Pick(s) \in s
  BY DEF Pick

(* The recursion of the fold has a solution: the sums over sets of at most *)
(* n elements determine those over sets of n + 1.                          *)
LEMMA PartialSumsExist ==
    ASSUME NEW D, IsFiniteSet(D), NEW h
    PROVE  \E sum : ArePartialSums(h, D, sum)
<1> DEFINE Upto(n) == {s \in SUBSET D : Cardinality(s) <= n}
           Sums(n, sum) ==
             sum = [s \in Upto(n) |-> IF s = {} THEN 0 ELSE h[Pick(s)] + sum[s \ {Pick(s)}]]
           Claim == {n \in Nat : \E sum : Sums(n, sum)}
<1>0. \A s \in SUBSET D : IsFiniteSet(s) /\ Cardinality(s) \in Nat
  BY FS_Subset, FS_CardinalityType
<1>00. \A s \in SUBSET D : s # {} => /\ Pick(s) \in s
                                    /\ s \ {Pick(s)} \in SUBSET D
                                    /\ Cardinality(s \ {Pick(s)}) = Cardinality(s) - 1
  BY <1>0, PickIn, FS_RemoveElement
<1>1. 0 \in Claim
  <2> DEFINE zero == [s \in Upto(0) |-> 0]
  <2>1. \A s \in Upto(0) : s = {}
    BY <1>0, FS_EmptySet
  <2>2. Sums(0, zero)
    BY <2>1
  <2> QED
    BY <2>2
<1>2. ASSUME NEW n \in Nat, n \in Claim PROVE n + 1 \in Claim
  <2>1. PICK sum : Sums(n, sum)
    BY <1>2
  <2> DEFINE more == [s \in Upto(n + 1) |->
                        IF s = {} THEN 0 ELSE h[Pick(s)] + sum[s \ {Pick(s)}]]
  <2>2. \A s \in Upto(n) : s \in Upto(n + 1) /\ more[s] = sum[s]
    <3>1. SUFFICES ASSUME NEW s \in Upto(n) PROVE s \in Upto(n + 1) /\ more[s] = sum[s]
      OBVIOUS
    <3>2. s \in Upto(n + 1)
      BY <1>0
    <3>3. sum[s] = IF s = {} THEN 0 ELSE h[Pick(s)] + sum[s \ {Pick(s)}]
      BY <2>1, <3>1
    <3> QED
      BY <3>2, <3>3
  <2>3. \A s \in Upto(n + 1) : s # {} => s \ {Pick(s)} \in Upto(n)
    <3>1. SUFFICES ASSUME NEW s \in SUBSET D, Cardinality(s) <= n + 1, s # {}
                   PROVE  s \ {Pick(s)} \in Upto(n)
      OBVIOUS
    <3>2. /\ s \ {Pick(s)} \in SUBSET D
          /\ Cardinality(s \ {Pick(s)}) = Cardinality(s) - 1 /\ Cardinality(s) \in Nat
      BY <1>0, <1>00, <3>1
    <3> QED
      BY <3>1, <3>2
  <2>4. \A s \in Upto(n + 1) :
          more[s] = IF s = {} THEN 0 ELSE h[Pick(s)] + more[s \ {Pick(s)}]
    BY <2>2, <2>3
  <2>5. Sums(n + 1, more)
    BY <2>4
  <2> HIDE DEF more, Sums
  <2> QED
    BY <2>5
<1> HIDE DEF Claim
<1>3. Cardinality(D) \in Claim
  BY <1>0, <1>1, <1>2, NatSetInduction
<1>4. Upto(Cardinality(D)) = SUBSET D
  BY FS_Subset
<1> USE DEF Claim
<1> QED
  BY <1>3, <1>4 DEF ArePartialSums

(* Sums over a subset are the same whatever the whole set is.              *)
LEMMA PartialSumsAgree ==
    ASSUME NEW D, IsFiniteSet(D), NEW E \in SUBSET D, NEW h, NEW sum, NEW sum2,
           ArePartialSums(h, D, sum), ArePartialSums(h, E, sum2)
    PROVE  \A s \in SUBSET E : sum[s] = sum2[s]
<1> DEFINE Claim == {n \in Nat : \A s \in SUBSET E : Cardinality(s) = n => sum[s] = sum2[s]}
<1>0. \A s \in SUBSET E : IsFiniteSet(s) /\ Cardinality(s) \in Nat /\ s \in SUBSET D
  BY FS_Subset, FS_CardinalityType
<1>00. \A s \in SUBSET E : s # {} => /\ Pick(s) \in s
                                    /\ s \ {Pick(s)} \in SUBSET E
                                    /\ Cardinality(s \ {Pick(s)}) = Cardinality(s) - 1
  BY <1>0, PickIn, FS_RemoveElement
<1>000. /\ \A s \in SUBSET E : sum[s] = IF s = {} THEN 0 ELSE h[Pick(s)] + sum[s \ {Pick(s)}]
        /\ \A s \in SUBSET E : sum2[s] = IF s = {} THEN 0 ELSE h[Pick(s)] + sum2[s \ {Pick(s)}]
  BY <1>0 DEF ArePartialSums
<1>1. 0 \in Claim
  BY <1>0, <1>000, FS_EmptySet
<1>2. ASSUME NEW n \in Nat, n \in Claim PROVE n + 1 \in Claim
  <2>1. SUFFICES ASSUME NEW s \in SUBSET E, Cardinality(s) = n + 1 PROVE sum[s] = sum2[s]
    OBVIOUS
  <2>2. s # {}
    BY <2>1, FS_EmptySet
  <2>3. sum[s \ {Pick(s)}] = sum2[s \ {Pick(s)}]
    BY <1>2, <1>00, <2>1, <2>2
  <2> QED
    BY <1>000, <2>2, <2>3
<1> HIDE DEF Claim
<1>3. \A n \in Nat : n \in Claim
  BY <1>1, <1>2, NatSetInduction
<1> USE DEF Claim
<1> QED
  BY <1>0, <1>3

(* One step of a sum over a finite set: the element taken first, and the   *)
(* rest.                                                                   *)
LEMMA SumStep ==
    ASSUME NEW D, IsFiniteSet(D), NEW h
    PROVE  SumFunctionOnSet(h, D) =
             IF D = {} THEN 0 ELSE h[Pick(D)] + SumFunctionOnSet(h, D \ {Pick(D)})
<1>1. \A E : SumFunctionOnSet(h, E) = (CHOOSE sum : ArePartialSums(h, E, sum))[E]
  BY DEF SumFunctionOnSet, FoldFunctionOnSet, MapThenFoldSet, Pick, ArePartialSums
<1> DEFINE E    == D \ {Pick(D)}
           sum  == CHOOSE sum : ArePartialSums(h, D, sum)
           sum2 == CHOOSE sum2 : ArePartialSums(h, E, sum2)
<1>2. E \in SUBSET D /\ IsFiniteSet(E)
  BY FS_Subset
<1>3. ArePartialSums(h, D, sum) /\ ArePartialSums(h, E, sum2)
  BY <1>2, PartialSumsExist
<1>31. SumFunctionOnSet(h, D) = sum[D] /\ SumFunctionOnSet(h, E) = sum2[E]
  BY <1>1
<1> HIDE DEF sum, sum2
<1>4. sum[E] = sum2[E]
  BY <1>2, <1>3, PartialSumsAgree
<1>5. sum[D] = IF D = {} THEN 0 ELSE h[Pick(D)] + sum[E]
  BY <1>3 DEF ArePartialSums
<1> QED
  BY <1>31, <1>4, <1>5

(* A sum of integers is an integer, one of naturals a natural.             *)
LEMMA SumType ==
    ASSUME NEW D, IsFiniteSet(D), NEW h, \A x \in D : h[x] \in Int
    PROVE  /\ SumFunctionOnSet(h, D) \in Int
           /\ (\A x \in D : h[x] \in Nat) => SumFunctionOnSet(h, D) \in Nat
<1> DEFINE Good(s) == /\ SumFunctionOnSet(h, s) \in Int
                      /\ (\A x \in D : h[x] \in Nat) => SumFunctionOnSet(h, s) \in Nat
           Claim == {n \in Nat : \A s \in SUBSET D : Cardinality(s) = n => Good(s)}
<1>0. \A s \in SUBSET D : IsFiniteSet(s) /\ Cardinality(s) \in Nat
  BY FS_Subset, FS_CardinalityType
<1>00. \A s \in SUBSET D : s # {} => /\ Pick(s) \in s
                                    /\ s \ {Pick(s)} \in SUBSET D
                                    /\ Cardinality(s \ {Pick(s)}) = Cardinality(s) - 1
  BY <1>0, PickIn, FS_RemoveElement
<1>000. \A s \in SUBSET D : SumFunctionOnSet(h, s) =
          IF s = {} THEN 0 ELSE h[Pick(s)] + SumFunctionOnSet(h, s \ {Pick(s)})
  BY <1>0, SumStep
<1>1. 0 \in Claim
  BY <1>0, <1>000, FS_EmptySet
<1>2. ASSUME NEW n \in Nat, n \in Claim PROVE n + 1 \in Claim
  <2>1. SUFFICES ASSUME NEW s \in SUBSET D, Cardinality(s) = n + 1 PROVE Good(s)
    OBVIOUS
  <2>2. s # {}
    BY <2>1, FS_EmptySet
  <2>3. Good(s \ {Pick(s)})
    BY <1>2, <1>00, <2>1, <2>2
  <2>4. h[Pick(s)] \in Int /\ ((\A x \in D : h[x] \in Nat) => h[Pick(s)] \in Nat)
    BY <1>00, <2>2
  <2> QED
    BY <1>000, <2>2, <2>3, <2>4
<1> HIDE DEF Claim
<1>3. \A n \in Nat : n \in Claim
  BY <1>1, <1>2, NatSetInduction
<1> USE DEF Claim
<1> QED
  BY <1>0, <1>3

(* A sum of zeros.                                                         *)
LEMMA SumOfZeros ==
    ASSUME NEW D, IsFiniteSet(D), NEW h, \A x \in D : h[x] = 0
    PROVE  SumFunctionOnSet(h, D) = 0
<1> DEFINE Claim == {n \in Nat : \A s \in SUBSET D : Cardinality(s) = n =>
                       SumFunctionOnSet(h, s) = 0}
<1>0. \A s \in SUBSET D : IsFiniteSet(s) /\ Cardinality(s) \in Nat
  BY FS_Subset, FS_CardinalityType
<1>00. \A s \in SUBSET D : s # {} => /\ Pick(s) \in s
                                    /\ s \ {Pick(s)} \in SUBSET D
                                    /\ Cardinality(s \ {Pick(s)}) = Cardinality(s) - 1
  BY <1>0, PickIn, FS_RemoveElement
<1>000. \A s \in SUBSET D : SumFunctionOnSet(h, s) =
          IF s = {} THEN 0 ELSE h[Pick(s)] + SumFunctionOnSet(h, s \ {Pick(s)})
  BY <1>0, SumStep
<1>1. 0 \in Claim
  BY <1>0, <1>000, FS_EmptySet
<1>2. ASSUME NEW n \in Nat, n \in Claim PROVE n + 1 \in Claim
  <2>1. SUFFICES ASSUME NEW s \in SUBSET D, Cardinality(s) = n + 1
                 PROVE  SumFunctionOnSet(h, s) = 0
    OBVIOUS
  <2>2. s # {}
    BY <2>1, FS_EmptySet
  <2>3. SumFunctionOnSet(h, s \ {Pick(s)}) = 0 /\ h[Pick(s)] = 0
    BY <1>2, <1>00, <2>1, <2>2
  <2> QED
    BY <1>000, <2>2, <2>3
<1> HIDE DEF Claim
<1>3. \A n \in Nat : n \in Claim
  BY <1>1, <1>2, NatSetInduction
<1> USE DEF Claim
<1> QED
  BY <1>0, <1>3

(* Any element may be taken off first.                                     *)
LEMMA SumTakeOne ==
    ASSUME NEW D, IsFiniteSet(D), NEW h, \A x \in D : h[x] \in Int, NEW d \in D
    PROVE  SumFunctionOnSet(h, D) = h[d] + SumFunctionOnSet(h, D \ {d})
<1> DEFINE Good(s) == \A x \in s : SumFunctionOnSet(h, s) = h[x] + SumFunctionOnSet(h, s \ {x})
           Claim == {n \in Nat : \A s \in SUBSET D : Cardinality(s) = n => Good(s)}
<1>0. \A s \in SUBSET D : IsFiniteSet(s) /\ Cardinality(s) \in Nat
  BY FS_Subset, FS_CardinalityType
<1>00. \A s \in SUBSET D : \A x \in s : /\ s \ {x} \in SUBSET D
                                        /\ Cardinality(s \ {x}) = Cardinality(s) - 1
  BY <1>0, FS_RemoveElement
<1>000. \A s \in SUBSET D : SumFunctionOnSet(h, s) =
          IF s = {} THEN 0 ELSE h[Pick(s)] + SumFunctionOnSet(h, s \ {Pick(s)})
  BY <1>0, SumStep
<1>0000. \A s \in SUBSET D : SumFunctionOnSet(h, s) \in Int
  BY <1>0, SumType
<1>1. 0 \in Claim
  BY <1>0, FS_EmptySet
<1>2. ASSUME NEW n \in Nat, n \in Claim PROVE n + 1 \in Claim
  <2>1. SUFFICES ASSUME NEW s \in SUBSET D, Cardinality(s) = n + 1, NEW x \in s
                 PROVE  SumFunctionOnSet(h, s) = h[x] + SumFunctionOnSet(h, s \ {x})
    OBVIOUS
  <2> DEFINE q == Pick(s)
  <2>2. s # {} /\ q \in s
    BY <2>1, PickIn
  <2>3. SumFunctionOnSet(h, s) = h[q] + SumFunctionOnSet(h, s \ {q})
    BY <1>000, <2>2
  <2> HIDE DEF q
  <2>4. CASE x = q
    BY <2>3, <2>4
  <2>5. CASE x # q
    <3>1. Cardinality(s \ {q}) = n /\ Cardinality(s \ {x}) = n
      BY <1>00, <2>1, <2>2
    <3>2. SumFunctionOnSet(h, s \ {q}) = h[x] + SumFunctionOnSet(h, (s \ {q}) \ {x})
      BY <1>2, <1>00, <2>2, <2>5, <3>1
    <3>3. SumFunctionOnSet(h, s \ {x}) = h[q] + SumFunctionOnSet(h, (s \ {x}) \ {q})
      BY <1>2, <1>00, <2>2, <2>5, <3>1
    <3>4. (s \ {q}) \ {x} = (s \ {x}) \ {q} /\ (s \ {q}) \ {x} \in SUBSET D
      BY <2>1
    <3>5. h[x] \in Int /\ h[q] \in Int /\ SumFunctionOnSet(h, (s \ {q}) \ {x}) \in Int
      BY <1>0000, <2>2, <3>4
    <3> DEFINE rest == SumFunctionOnSet(h, (s \ {q}) \ {x})
    <3>6. SumFunctionOnSet(h, s) = h[q] + (h[x] + rest)
      BY <2>3, <3>2
    <3>7. SumFunctionOnSet(h, s \ {x}) = h[q] + rest
      BY <3>3, <3>4
    <3> HIDE DEF rest
    <3> QED
      BY <3>5, <3>6, <3>7 DEF rest
  <2> QED
    BY <2>4, <2>5
<1> HIDE DEF Claim
<1>3. \A n \in Nat : n \in Claim
  BY <1>1, <1>2, NatSetInduction
<1> USE DEF Claim
<1> QED
  BY <1>0, <1>3

(* Only the values on the set count.                                       *)
LEMMA SumSameValues ==
    ASSUME NEW D, IsFiniteSet(D), NEW h, NEW g, \A x \in D : h[x] = g[x]
    PROVE  SumFunctionOnSet(h, D) = SumFunctionOnSet(g, D)
<1> DEFINE Claim == {n \in Nat : \A s \in SUBSET D : Cardinality(s) = n =>
                       SumFunctionOnSet(h, s) = SumFunctionOnSet(g, s)}
<1>0. \A s \in SUBSET D : IsFiniteSet(s) /\ Cardinality(s) \in Nat
  BY FS_Subset, FS_CardinalityType
<1>00. \A s \in SUBSET D : s # {} => /\ Pick(s) \in s
                                    /\ s \ {Pick(s)} \in SUBSET D
                                    /\ Cardinality(s \ {Pick(s)}) = Cardinality(s) - 1
  BY <1>0, PickIn, FS_RemoveElement
<1>000. \A s \in SUBSET D :
          /\ SumFunctionOnSet(h, s) =
               IF s = {} THEN 0 ELSE h[Pick(s)] + SumFunctionOnSet(h, s \ {Pick(s)})
          /\ SumFunctionOnSet(g, s) =
               IF s = {} THEN 0 ELSE g[Pick(s)] + SumFunctionOnSet(g, s \ {Pick(s)})
  BY <1>0, SumStep
<1>1. 0 \in Claim
  BY <1>0, <1>000, FS_EmptySet
<1>2. ASSUME NEW n \in Nat, n \in Claim PROVE n + 1 \in Claim
  <2>1. SUFFICES ASSUME NEW s \in SUBSET D, Cardinality(s) = n + 1
                 PROVE  SumFunctionOnSet(h, s) = SumFunctionOnSet(g, s)
    OBVIOUS
  <2>2. s # {}
    BY <2>1, FS_EmptySet
  <2>3. SumFunctionOnSet(h, s \ {Pick(s)}) = SumFunctionOnSet(g, s \ {Pick(s)})
    BY <1>2, <1>00, <2>1, <2>2
  <2>4. h[Pick(s)] = g[Pick(s)]
    BY <1>00, <2>2
  <2> QED
    BY <1>000, <2>2, <2>3, <2>4
<1> HIDE DEF Claim
<1>3. \A n \in Nat : n \in Claim
  BY <1>1, <1>2, NatSetInduction
<1> USE DEF Claim
<1> QED
  BY <1>0, <1>3

(* Two functions that differ at one point only.                            *)
LEMMA SumOneChanged ==
    ASSUME NEW D, IsFiniteSet(D), NEW h, NEW g, NEW d \in D,
           \A x \in D : h[x] \in Int /\ g[x] \in Int,
           \A x \in D \ {d} : h[x] = g[x]
    PROVE  SumFunctionOnSet(g, D) = SumFunctionOnSet(h, D) - h[d] + g[d]
<1>1. IsFiniteSet(D \ {d})
  BY FS_RemoveElement
<1>2. SumFunctionOnSet(h, D \ {d}) = SumFunctionOnSet(g, D \ {d})
  BY <1>1, SumSameValues
<1>3. /\ SumFunctionOnSet(h, D) = h[d] + SumFunctionOnSet(h, D \ {d})
      /\ SumFunctionOnSet(g, D) = g[d] + SumFunctionOnSet(g, D \ {d})
  BY SumTakeOne
<1>4. SumFunctionOnSet(h, D \ {d}) \in Int
  BY <1>1, SumType
<1> QED
  BY <1>2, <1>3, <1>4
-----------------------------------------------------------------------------
(* A sequence without its kth element.                                     *)
LEMMA RemoveAtEffect ==
    ASSUME NEW S, NEW s \in Seq(S), NEW p \in 1 .. Len(s)
    PROVE  LET rest == RemoveAt(s, p)
           IN  /\ rest \in Seq(S) /\ Len(rest) = Len(s) - 1
               /\ \A i \in 1 .. Len(s) - 1 : rest[i] = s[IF i < p THEN i ELSE i + 1]
<1> DEFINE front == SubSeq(s, 1, p - 1)
           back  == SubSeq(s, p + 1, Len(s))
           rest  == RemoveAt(s, p)
<1>0. Len(s) \in Nat /\ p \in Nat /\ \A i \in 1 .. Len(s) : s[i] \in S
  BY LenProperties, ElementOfSeq
<1>1. rest = front \o back
  BY DEF RemoveAt
<1>2. front \in Seq(S) /\ Len(front) = p - 1 /\ \A i \in 1 .. p - 1 : front[i] = s[i]
  <2>1. \A i \in 1 .. p - 1 : s[i] \in S
    BY <1>0
  <2>2. /\ SubSeq(s, 1, p - 1) \in Seq(S)
        /\ Len(SubSeq(s, 1, p - 1)) = IF 1 <= p - 1 THEN (p - 1) - 1 + 1 ELSE 0
        /\ \A i \in 1 .. (p - 1) - 1 + 1 : SubSeq(s, 1, p - 1)[i] = s[1 + i - 1]
    BY <1>0, <2>1, SubSeqProperties
  <2> QED
    BY <1>0, <2>2
<1>3. /\ back \in Seq(S) /\ Len(back) = Len(s) - p
      /\ \A i \in 1 .. Len(s) - p : back[i] = s[p + i]
  <2>1. \A i \in p + 1 .. Len(s) : s[i] \in S
    BY <1>0
  <2>2. /\ SubSeq(s, p + 1, Len(s)) \in Seq(S)
        /\ Len(SubSeq(s, p + 1, Len(s))) =
             IF p + 1 <= Len(s) THEN Len(s) - (p + 1) + 1 ELSE 0
        /\ \A i \in 1 .. Len(s) - (p + 1) + 1 :
             SubSeq(s, p + 1, Len(s))[i] = s[p + 1 + i - 1]
    BY <1>0, <2>1, SubSeqProperties
  <2> QED
    BY <1>0, <2>2
<1> HIDE DEF front, back, rest
<1>4. /\ rest \in Seq(S) /\ Len(rest) = Len(s) - 1
      /\ \A i \in 1 .. Len(front) + Len(back) :
           rest[i] = IF i <= Len(front) THEN front[i] ELSE back[i - Len(front)]
  <2>1. /\ front \o back \in Seq(S) /\ Len(front \o back) = Len(front) + Len(back)
        /\ \A i \in 1 .. Len(front) + Len(back) :
             (front \o back)[i] = IF i <= Len(front) THEN front[i] ELSE back[i - Len(front)]
    BY <1>2, <1>3, ConcatProperties
  <2> QED
    BY <1>0, <1>1, <1>2, <1>3, <2>1
<1>5. ASSUME NEW i \in 1 .. Len(s) - 1
      PROVE  rest[i] = s[IF i < p THEN i ELSE i + 1]
  <2>1. i \in 1 .. Len(front) + Len(back)
    BY <1>0, <1>2, <1>3
  <2>2. CASE i < p
    BY <1>0, <1>2, <1>4, <2>1, <2>2
  <2>3. CASE ~(i < p)
    <3>1. rest[i] = back[i - (p - 1)] /\ i - (p - 1) \in 1 .. Len(s) - p
      BY <1>0, <1>2, <1>4, <2>1, <2>3
    <3>2. back[i - (p - 1)] = s[p + (i - (p - 1))]
      BY <1>3, <3>1
    <3>3. p + (i - (p - 1)) = i + 1
      BY <1>0
    <3> QED
      BY <2>3, <3>1, <3>2, <3>3
  <2> QED
    BY <2>2, <2>3
<1> QED
  BY <1>4, <1>5 DEF rest
=============================================================================
