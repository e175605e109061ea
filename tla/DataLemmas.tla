----------------------------- MODULE DataLemmas -----------------------------
(***************************************************************************)
(* Induction over finite data, and what it says of folds and sums.  The    *)
(* library's induction theorems take the formula as an operator; here a    *)
(* formula is proved for all members of a set by looking at the least one  *)
(* of those that violate it (LeastOf, SmallestOf).  A fold is a function   *)
(* over the subsets of the positions it has passed, defined by a choice:   *)
(* FoldExists says that there is something to choose, FoldKeeps that what  *)
(* every step keeps holds of the result.  Amounts are fractions: over a    *)
(* denominator they have in common (Over) they add up as integers do.      *)
(***************************************************************************)
EXTENDS Integers, Sequences, Amounts, SequencesExt, FiniteSetTheorems, WellFoundedInduction, TLAPS

\* A set of natural numbers that is not empty has a least member.
LEMMA LeastOf ==
  ASSUME NEW T, T \subseteq Nat, T # {}
  PROVE  \E n \in T : \A m \in T : n <= m
<1>1. PICK n \in T : \A m \in T : ~(<<m, n>> \in OpToRel(<, Nat))
  BY NatLessThanWellFounded, WFMin, Zenon
<1>2. \A m \in T : ~(m < n)
  BY <1>1 DEF OpToRel
<1> QED BY <1>2

\* Among subsets of a finite set there is one that no other is one element short of.
LEMMA SmallestOf ==
  ASSUME NEW D, IsFiniteSet(D), NEW Q, Q \subseteq SUBSET D, Q # {}
  PROVE  \E s \in Q : \A x \in s : s \ {x} \notin Q
<1>1. \A s \in Q : IsFiniteSet(s) /\ Cardinality(s) \in Nat
  BY FS_Subset, FS_CardinalityType
<1> DEFINE Sizes == {Cardinality(s) : s \in Q}
<1>2. PICK n \in Sizes : \A m \in Sizes : n <= m
  <2>1. Sizes \subseteq Nat
    BY <1>1
  <2>2. Sizes # {}
    OBVIOUS
  <2> HIDE DEF Sizes
  <2> QED BY <2>1, <2>2, LeastOf
<1>3. PICK s \in Q : Cardinality(s) = n
  BY <1>2
<1>4. ASSUME NEW x \in s, s \ {x} \in Q PROVE FALSE
  <2>1. Cardinality(s \ {x}) = n - 1
    BY <1>1, <1>3, <1>4, FS_RemoveElement
  <2> QED BY <2>1, <1>1, <1>2, <1>3, <1>4
<1> QED BY <1>4

-----------------------------------------------------------------------------
(* Folds.                                                                  *)

\* What holds before the first step, and after a step if it held before, holds at the end.
LEMMA FoldKeeps ==
  ASSUME NEW D, IsFiniteSet(D), NEW f, NEW good, f[{}] \in good[{}],
         \A s \in SUBSET D : s # {} => \E x \in s : f[s \ {x}] \in good[s \ {x}] => f[s] \in good[s]
  PROVE  \A s \in SUBSET D : f[s] \in good[s]
<1> DEFINE Q == {s \in SUBSET D : f[s] \notin good[s]}
<1>1. SUFFICES ASSUME Q # {} PROVE FALSE
  OBVIOUS
<1>2. PICK s \in Q : \A x \in s : s \ {x} \notin Q
  BY <1>1, SmallestOf
<1>3. s # {}
  OBVIOUS
<1>4. PICK x \in s : f[s \ {x}] \in good[s \ {x}] => f[s] \in good[s]
  BY <1>3
<1>5. f[s \ {x}] \in good[s \ {x}]
  BY <1>2, <1>4
<1> QED BY <1>4, <1>5

Picks(pick, D) == \A s \in SUBSET D : s # {} => pick[s] \in s
FoldedBy(f, D, base, pick, step) ==
  /\ f[{}] = base
  /\ \A s \in SUBSET D : s # {} => f[s] = step[<<f[s \ {pick[s]}], pick[s]>>]

\* A step that stays within a set of states defines a fold.
LEMMA FoldExists ==
  ASSUME NEW D, IsFiniteSet(D), NEW T, NEW base \in T,
         NEW pick, Picks(pick, D),
         NEW step \in [T \X D -> T]
  PROVE  \E f \in [SUBSET D -> T] : FoldedBy(f, D, base, pick, step)
<1> DEFINE Upto(n) == \E f \in [SUBSET D -> T] : \A s \in SUBSET D : Cardinality(s) <= n =>
                        f[s] = IF s = {} THEN base ELSE step[<<f[s \ {pick[s]}], pick[s]>>]
<1>1. \A s \in SUBSET D : IsFiniteSet(s) /\ Cardinality(s) \in Nat /\ Cardinality(s) <= Cardinality(D)
  BY FS_Subset, FS_CardinalityType
<1>2. Cardinality(D) \in Nat
  BY FS_CardinalityType
<1>3. \A s \in SUBSET D : s # {} => /\ s \ {pick[s]} \in SUBSET D
                                    /\ Cardinality(s \ {pick[s]}) = Cardinality(s) - 1
  BY <1>1, FS_RemoveElement DEF Picks
<1>4. Upto(0)
  <2> DEFINE f == [s \in SUBSET D |-> base]
  <2>1. f \in [SUBSET D -> T]
    OBVIOUS
  <2>2. \A s \in SUBSET D : Cardinality(s) <= 0 => s = {}
    BY <1>1, FS_EmptySet
  <2>3. \A s \in SUBSET D : Cardinality(s) <= 0 =>
          f[s] = IF s = {} THEN base ELSE step[<<f[s \ {pick[s]}], pick[s]>>]
    BY <2>2
  <2> QED BY <2>1, <2>3
<1>5. ASSUME NEW n \in Nat, Upto(n) PROVE Upto(n + 1)
  <2>1. PICK f \in [SUBSET D -> T] : \A s \in SUBSET D : Cardinality(s) <= n =>
          f[s] = IF s = {} THEN base ELSE step[<<f[s \ {pick[s]}], pick[s]>>]
    BY <1>5
  <2> DEFINE g == [s \in SUBSET D |-> IF s = {} \/ Cardinality(s) <= n THEN f[s]
                                    ELSE step[<<f[s \ {pick[s]}], pick[s]>>]]
  <2>2. ASSUME NEW s \in SUBSET D PROVE g[s] \in T
    <3>1. CASE s = {} \/ Cardinality(s) <= n
      BY <3>1
    <3>2. CASE ~(s = {} \/ Cardinality(s) <= n)
      <4>1. s \ {pick[s]} \in SUBSET D /\ pick[s] \in D
        BY <3>2 DEF Picks
      <4>2. f[s \ {pick[s]}] \in T
        BY <4>1
      <4>3. step[<<f[s \ {pick[s]}], pick[s]>>] \in T
        BY <4>1, <4>2
      <4>4. g[s] = step[<<f[s \ {pick[s]}], pick[s]>>]
        BY <3>2
      <4> QED BY <4>3, <4>4
    <3> QED BY <3>1, <3>2
  <2>3. g \in [SUBSET D -> T]
    BY <2>2
  <2>4. ASSUME NEW s \in SUBSET D, Cardinality(s) <= n + 1, s # {}
        PROVE  g[s] = step[<<g[s \ {pick[s]}], pick[s]>>]
    <3>1. s \ {pick[s]} \in SUBSET D /\ Cardinality(s \ {pick[s]}) <= n
      BY <2>4, <1>1, <1>3
    <3>2. g[s \ {pick[s]}] = f[s \ {pick[s]}]
      BY <3>1
    <3>3. CASE Cardinality(s) <= n
      BY <3>2, <3>3, <2>1, <2>4
    <3>4. CASE ~(Cardinality(s) <= n)
      BY <3>2, <3>4, <2>4
    <3> QED BY <3>3, <3>4
  <2>5. g[{}] = base
    <3>1. Cardinality({}) <= n
      BY FS_EmptySet
    <3> QED BY <2>1, <3>1
  <2> HIDE DEF g
  <2>6. \A s \in SUBSET D : Cardinality(s) <= n + 1 =>
          g[s] = IF s = {} THEN base ELSE step[<<g[s \ {pick[s]}], pick[s]>>]
    BY <2>4, <2>5
  <2> QED BY <2>3, <2>6
<1> HIDE DEF Upto
<1>6. Upto(Cardinality(D))
  <2> DEFINE Q == {n \in Nat : ~Upto(n)}
  <2>1. SUFFICES ASSUME Q # {} PROVE FALSE
    BY <1>2
  <2>2. PICK n \in Q : \A m \in Q : n <= m
    BY <2>1, LeastOf
  <2>3. n # 0 /\ n - 1 \in Nat
    BY <1>4, <2>2
  <2>4. Upto(n - 1)
    BY <2>2, <2>3
  <2> QED BY <1>5, <2>2, <2>3, <2>4
<1>7. PICK f \in [SUBSET D -> T] : \A s \in SUBSET D : Cardinality(s) <= Cardinality(D) =>
        f[s] = IF s = {} THEN base ELSE step[<<f[s \ {pick[s]}], pick[s]>>]
  BY <1>6 DEF Upto
<1>8. FoldedBy(f, D, base, pick, step)
  BY <1>1, <1>7 DEF FoldedBy
<1> QED BY <1>8
-----------------------------------------------------------------------------
(* Sums over finite sets.                                                  *)

Member(s) == CHOOSE x \in s : TRUE

LEMMA MemberIsIn == ASSUME NEW s, s # {} PROVE Member(s) \in s
BY DEF Member

\* What SumFunctionOnSet chooses.
SumFold(f, D) ==
  CHOOSE sum : sum = [s \in SUBSET D |->
    IF s = {} THEN 0 ELSE f[Member(s)] + sum[s \ {Member(s)}]]

LEMMA SumChosen == ASSUME NEW f, NEW D PROVE SumFunctionOnSet(f, D) = SumFold(f, D)[D]
BY DEF SumFunctionOnSet, FoldFunctionOnSet, MapThenFoldSet, SumFold, Member

LEMMA SumFoldIs ==
  ASSUME NEW D, IsFiniteSet(D), NEW f, \A x \in D : f[x] \in Int
  PROVE  /\ SumFold(f, D)[{}] = 0
         /\ \A s \in SUBSET D : s # {} =>
              SumFold(f, D)[s] = f[Member(s)] + SumFold(f, D)[s \ {Member(s)}]
         /\ \A s \in SUBSET D : SumFold(f, D)[s] \in Int
<1> DEFINE pick == [s \in SUBSET D |-> Member(s)]
           step == [p \in Int \X D |-> f[p[2]] + p[1]]
           IsSum(sum) == sum = [s \in SUBSET D |->
             IF s = {} THEN 0 ELSE f[Member(s)] + sum[s \ {Member(s)}]]
<1>1. \A s \in SUBSET D : s # {} => pick[s] \in s
  BY MemberIsIn
<1>2. \A t \in Int, x \in D : step[<<t, x>>] = f[x] + t /\ step[<<t, x>>] \in Int
  OBVIOUS
<1>3. PICK g \in [SUBSET D -> Int] :
        g[{}] = 0 /\ \A s \in SUBSET D : s # {} => g[s] = step[<<g[s \ {pick[s]}], pick[s]>>]
  <2> DEFINE T == Int
             base == 0
  <2>1. base \in T
    OBVIOUS
  <2>2. step \in [T \X D -> T]
    BY <1>2
  <2> HIDE DEF pick, step, T, base
  <2>3. Picks(pick, D)
    BY <1>1 DEF Picks
  <2>4. \E g \in [SUBSET D -> T] : FoldedBy(g, D, base, pick, step)
    BY <2>1, <2>2, <2>3, FoldExists
  <2> QED BY <2>4 DEF FoldedBy, T, base
<1>4. ASSUME NEW s \in SUBSET D, s # {} PROVE g[s] = f[Member(s)] + g[s \ {Member(s)}]
  <2>1. pick[s] \in D /\ g[s \ {pick[s]}] \in Int /\ g[s] = step[<<g[s \ {pick[s]}], pick[s]>>]
    BY <1>1, <1>3, <1>4
  <2>2. g[s] = f[pick[s]] + g[s \ {pick[s]}]
    <3> HIDE DEF pick, step
    <3> QED BY <1>2, <2>1
  <2> QED BY <2>2
<1>5. IsSum(g)
  BY <1>3, <1>4
<1>6. IsSum(SumFold(f, D))
  BY <1>5 DEF SumFold
<1> DEFINE h == SumFold(f, D)
<1>7. /\ h[{}] = 0
      /\ \A s \in SUBSET D : s # {} => h[s] = f[Member(s)] + h[s \ {Member(s)}]
  BY <1>6
<1>8. \A s \in SUBSET D : h[s] \in Int
  <2> DEFINE good == [s \in SUBSET D |-> Int]
  <2> HIDE DEF h
  <2>1. h[{}] \in good[{}]
    BY <1>7
  <2>2. ASSUME NEW s \in SUBSET D, s # {}
        PROVE  \E x \in s : h[s \ {x}] \in good[s \ {x}] => h[s] \in good[s]
    <3> DEFINE m == Member(s)
    <3>1. m \in s
      BY <2>2, MemberIsIn
    <3>2. h[s] = f[m] + h[s \ {m}]
      BY <1>7, <2>2
    <3>3. f[m] \in Int /\ good[s \ {m}] = Int /\ good[s] = Int
      BY <3>1
    <3> HIDE DEF m, good
    <3>4. h[s \ {m}] \in good[s \ {m}] => h[s] \in good[s]
      BY <3>2, <3>3
    <3> QED BY <3>1, <3>4
  <2>3. \A s \in SUBSET D : h[s] \in good[s]
    <3> HIDE DEF good
    <3> QED BY <2>1, <2>2, FoldKeeps
  <2> QED BY <2>3
<1> QED BY <1>7, <1>8

\* A sum over a part is the same whatever it is a part of.
LEMMA SumOfPart ==
  ASSUME NEW D, IsFiniteSet(D), NEW f, \A x \in D : f[x] \in Int, NEW E \in SUBSET D
  PROVE  \A s \in SUBSET E : SumFold(f, E)[s] = SumFold(f, D)[s]
<1>1. IsFiniteSet(E) /\ \A x \in E : f[x] \in Int
  BY FS_Subset
<1> DEFINE g == SumFold(f, E)
           h == SumFold(f, D)
           good == [s \in SUBSET E |-> {h[s]}]
<1>2. /\ g[{}] = 0
      /\ \A s \in SUBSET E : s # {} => g[s] = f[Member(s)] + g[s \ {Member(s)}]
  BY <1>1, SumFoldIs
<1>3. /\ h[{}] = 0
      /\ \A s \in SUBSET E : s # {} => h[s] = f[Member(s)] + h[s \ {Member(s)}]
  <2>1. \A s \in SUBSET E : s \in SUBSET D
    OBVIOUS
  <2> QED BY <2>1, SumFoldIs
<1> HIDE DEF g, h
<1>4. g[{}] \in good[{}]
  BY <1>2, <1>3
<1>5. ASSUME NEW s \in SUBSET E, s # {}
      PROVE  \E x \in s : g[s \ {x}] \in good[s \ {x}] => g[s] \in good[s]
  <2> DEFINE m == Member(s)
  <2>1. m \in s /\ s \ {m} \in SUBSET E
    BY <1>5, MemberIsIn
  <2>2. g[s] = f[m] + g[s \ {m}] /\ h[s] = f[m] + h[s \ {m}]
    BY <1>2, <1>3, <1>5
  <2> HIDE DEF m
  <2>3. good[s \ {m}] = {h[s \ {m}]} /\ good[s] = {h[s]}
    BY <2>1
  <2> HIDE DEF good
  <2>4. g[s \ {m}] \in good[s \ {m}] => g[s] \in good[s]
    BY <2>2, <2>3
  <2> QED BY <2>1, <2>4
<1>6. \A s \in SUBSET E : g[s] \in good[s]
  <2> HIDE DEF good
  <2> QED BY <1>1, <1>4, <1>5, FoldKeeps
<1> QED BY <1>6 DEF g, h

\* A sum takes its members in any order.
LEMMA SumTakes ==
  ASSUME NEW D, IsFiniteSet(D), NEW f, \A x \in D : f[x] \in Int
  PROVE  \A s \in SUBSET D : \A x \in s : SumFold(f, D)[s] = f[x] + SumFold(f, D)[s \ {x}]
<1> DEFINE h == SumFold(f, D)
           Takes(s) == \A x \in s : h[s] = f[x] + h[s \ {x}]
           Q == {s \in SUBSET D : ~Takes(s)}
<1>1. /\ \A s \in SUBSET D : s # {} => h[s] = f[Member(s)] + h[s \ {Member(s)}]
      /\ \A s \in SUBSET D : h[s] \in Int
  BY SumFoldIs
<1> HIDE DEF h
<1>2. SUFFICES ASSUME Q # {} PROVE FALSE
  BY DEF h
<1>3. PICK s \in Q : \A x \in s : s \ {x} \notin Q
  BY <1>2, SmallestOf
<1>4. PICK x \in s : h[s] # f[x] + h[s \ {x}]
  BY <1>3
<1> DEFINE c == Member(s)
<1>5. c \in s /\ h[s] = f[c] + h[s \ {c}]
  BY <1>1, <1>4, MemberIsIn
<1> HIDE DEF c
<1>6. c # x
  BY <1>4, <1>5
<1>7. Takes(s \ {c}) /\ Takes(s \ {x})
  BY <1>3, <1>4, <1>5
<1>8. /\ h[s \ {c}] = f[x] + h[(s \ {c}) \ {x}]
      /\ h[s \ {x}] = f[c] + h[(s \ {x}) \ {c}]
  BY <1>4, <1>5, <1>6, <1>7
<1>9. (s \ {c}) \ {x} = (s \ {x}) \ {c}
  OBVIOUS
<1>10. f[x] \in Int /\ f[c] \in Int /\ h[(s \ {c}) \ {x}] \in Int
  BY <1>1, <1>4, <1>5
<1> DEFINE rest == h[(s \ {c}) \ {x}]
<1>11. h[s] = f[c] + (f[x] + rest) /\ h[s \ {x}] = f[c] + rest
  BY <1>5, <1>8, <1>9
<1> HIDE DEF rest
<1> QED BY <1>4, <1>10, <1>11 DEF rest

LEMMA SumOfNone == ASSUME NEW f PROVE SumFunctionOnSet(f, {}) = 0
BY SumChosen, SumFoldIs, FS_EmptySet

\* The sum over a set with one member more.
LEMMA SumOfOneMore ==
  ASSUME NEW S, IsFiniteSet(S), NEW x, x \notin S, NEW f, \A y \in S \union {x} : f[y] \in Int
  PROVE  /\ SumFunctionOnSet(f, S) \in Int
         /\ SumFunctionOnSet(f, S \union {x}) = f[x] + SumFunctionOnSet(f, S)
<1> DEFINE D == S \union {x}
<1>1. IsFiniteSet(D) /\ S \in SUBSET D /\ D \ {x} = S
  BY FS_AddElement
<1>2. SumFunctionOnSet(f, D) = SumFold(f, D)[D] /\ SumFunctionOnSet(f, S) = SumFold(f, S)[S]
  BY SumChosen
<1>3. SumFold(f, D)[D] = f[x] + SumFold(f, D)[S]
  <2>1. D \in SUBSET D /\ x \in D
    OBVIOUS
  <2> HIDE DEF D
  <2> QED BY <1>1, <2>1, SumTakes
<1>4. SumFold(f, S)[S] = SumFold(f, D)[S]
  BY <1>1, SumOfPart
<1>5. SumFold(f, S)[S] \in Int
  BY SumFoldIs
<1> QED BY <1>2, <1>3, <1>4, <1>5

\* A sum looks at its members only.
LEMMA SumsAgree ==
  ASSUME NEW S, IsFiniteSet(S), NEW f, NEW g, \A x \in S : f[x] \in Int /\ f[x] = g[x]
  PROVE  SumFunctionOnSet(f, S) = SumFunctionOnSet(g, S)
<1> DEFINE good == [s \in SUBSET S |-> {SumFold(g, S)[s]}]
           h == SumFold(f, S)
           k == SumFold(g, S)
<1>1. /\ h[{}] = 0
      /\ \A s \in SUBSET S : s # {} => h[s] = f[Member(s)] + h[s \ {Member(s)}]
      /\ k[{}] = 0
      /\ \A s \in SUBSET S : s # {} => k[s] = g[Member(s)] + k[s \ {Member(s)}]
  <2>1. (\A x \in S : f[x] \in Int) /\ \A x \in S : g[x] \in Int
    OBVIOUS
  <2> QED BY <2>1, SumFoldIs
<1>2. \A s \in SUBSET S : good[s] = {k[s]}
  OBVIOUS
<1> HIDE DEF good, h, k
<1>3. h[{}] \in good[{}]
  BY <1>1, <1>2
<1>4. ASSUME NEW s \in SUBSET S, s # {}
      PROVE  \E x \in s : h[s \ {x}] \in good[s \ {x}] => h[s] \in good[s]
  <2> DEFINE m == Member(s)
  <2>1. m \in s /\ f[m] = g[m]
    BY <1>4, MemberIsIn
  <2>2. h[s] = f[m] + h[s \ {m}] /\ k[s] = g[m] + k[s \ {m}]
    BY <1>1, <1>4
  <2> HIDE DEF m
  <2>3. h[s \ {m}] \in good[s \ {m}] => h[s] \in good[s]
    BY <1>2, <2>1, <2>2
  <2> QED BY <2>1, <2>3
<1>5. \A s \in SUBSET S : h[s] \in good[s]
  BY <1>3, <1>4, FoldKeeps
<1> QED BY <1>2, <1>5, SumChosen DEF h, k

Longer(f, g, n) ==
  /\ DOMAIN f = 1..n /\ DOMAIN g = 1..(n + 1)
  /\ (\A i \in 1..n : f[i] \in Int /\ g[i] = f[i]) /\ g[n + 1] \in Int

\* The sum over a sequence with one element more.
LEMMA SumOfLonger ==
  ASSUME NEW n \in Nat, NEW f, NEW g, Longer(f, g, n)
  PROVE  SumFunction(f) \in Int /\ SumFunction(g) \in Int /\ SumFunction(g) = SumFunction(f) + g[n + 1]
<1> DEFINE S == 1..n
           x == n + 1
<1>1. IsFiniteSet(S) /\ x \notin S /\ 1..(n + 1) = S \union {x}
  <2>1. IsFiniteSet(S)
    BY FS_Interval
  <2>2. x \notin S /\ 1..(n + 1) = S \union {x}
    OBVIOUS
  <2> QED BY <2>1, <2>2
<1>2. SumFunction(f) = SumFunctionOnSet(f, S) /\ SumFunction(g) = SumFunctionOnSet(g, S \union {x})
  BY <1>1 DEF SumFunction, Longer
<1>3. (\A i \in S : f[i] \in Int /\ f[i] = g[i]) /\ g[x] \in Int
  BY DEF Longer
<1>4. \A i \in S \union {x} : g[i] \in Int
  BY <1>3
<1> HIDE DEF S, x
<1>5. SumFunctionOnSet(f, S) = SumFunctionOnSet(g, S)
  BY <1>1, <1>3, SumsAgree
<1>6. SumFunctionOnSet(g, S) \in Int /\ SumFunctionOnSet(g, S \union {x}) = g[x] + SumFunctionOnSet(g, S)
  BY <1>1, <1>4, SumOfOneMore
<1>7. g[x] \in Int
  BY <1>4
<1> QED BY <1>2, <1>5, <1>6, <1>7 DEF x

-----------------------------------------------------------------------------
(* Finite sets that are numbered.                                          *)

\* The image of a finite set is finite, and no larger.
LEMMA ImageIsFinite ==
  ASSUME NEW S, IsFiniteSet(S), NEW f, DOMAIN f = S, f = [x \in S |-> f[x]]
  PROVE  IsFiniteSet({f[x] : x \in S}) /\ Cardinality({f[x] : x \in S}) <= Cardinality(S)
<1> DEFINE T == {f[x] : x \in S}
<1>1. f \in [S -> T]
  OBVIOUS
<1>2. \A t \in T : \E x \in S : f[x] = t
  OBVIOUS
<1>3. f \in Surjection(S, T)
  BY <1>1, <1>2 DEF Surjection
<1> HIDE DEF T
<1>4. IsFiniteSet(T) /\ Cardinality(T) <= Cardinality(S)
  BY <1>3, FS_Surjection
<1> QED BY <1>4 DEF T

\* Under a function that tells its arguments apart it is as large.
LEMMA ImageIsAsLarge ==
  ASSUME NEW S, IsFiniteSet(S), NEW f, DOMAIN f = S, f = [x \in S |-> f[x]], \A x, y \in S : f[x] = f[y] => x = y
  PROVE  IsFiniteSet({f[x] : x \in S}) /\ Cardinality({f[x] : x \in S}) = Cardinality(S)
<1> DEFINE T == {f[x] : x \in S}
<1>1. f \in [S -> T] /\ IsInjective(f)
  BY DEF IsInjective
<1>2. \A t \in T : \E x \in S : f[x] = t
  OBVIOUS
<1>3. f \in Surjection(S, T) /\ f \in Injection(S, T)
  BY <1>1, <1>2 DEF Surjection, Injection
<1> HIDE DEF T
<1>4. IsFiniteSet(T) /\ Cardinality(T) = Cardinality(S)
  BY <1>3, FS_Surjection
<1> QED BY <1>4 DEF T

NewerOf(R, key, r) == {q \in R : key[q] > key[r]}

LEMMA NewerIsFinite ==
  ASSUME NEW R, IsFiniteSet(R), NEW key \in [R -> Int], NEW r \in R
  PROVE  Cardinality(NewerOf(R, key, r)) \in 0..(Cardinality(R) - 1)
<1>1. NewerOf(R, key, r) \subseteq R /\ r \notin NewerOf(R, key, r)
  BY DEF NewerOf
<1>2. /\ IsFiniteSet(NewerOf(R, key, r)) /\ Cardinality(NewerOf(R, key, r)) <= Cardinality(R)
      /\ Cardinality(NewerOf(R, key, r)) # Cardinality(R)
  BY <1>1, FS_Subset
<1> QED BY <1>2, FS_CardinalityType

\* Of two that differ, the older has more that are newer.
LEMMA RanksDiffer ==
  ASSUME NEW R, IsFiniteSet(R), NEW key \in [R -> Int], \A a, b \in R : key[a] = key[b] => a = b,
         NEW a \in R, NEW b \in R
  PROVE  /\ key[a] < key[b] => Cardinality(NewerOf(R, key, b)) < Cardinality(NewerOf(R, key, a))
         /\ a # b => Cardinality(NewerOf(R, key, a)) # Cardinality(NewerOf(R, key, b))
<1>1. ASSUME NEW c \in R, NEW d \in R, key[c] < key[d]
      PROVE  Cardinality(NewerOf(R, key, d)) < Cardinality(NewerOf(R, key, c))
  <2>1. /\ NewerOf(R, key, d) \subseteq NewerOf(R, key, c) /\ d \in NewerOf(R, key, c) /\ d \notin NewerOf(R, key, d)
        /\ NewerOf(R, key, c) \subseteq R
    BY <1>1 DEF NewerOf
  <2>2. IsFiniteSet(NewerOf(R, key, c))
    BY <2>1, FS_Subset
  <2>3. /\ Cardinality(NewerOf(R, key, d)) <= Cardinality(NewerOf(R, key, c))
        /\ Cardinality(NewerOf(R, key, d)) # Cardinality(NewerOf(R, key, c))
    BY <2>1, <2>2, FS_Subset
  <2> QED BY <2>3, NewerIsFinite
<1>2. a # b => key[a] < key[b] \/ key[b] < key[a]
  OBVIOUS
<1>3. Cardinality(NewerOf(R, key, a)) \in Int /\ Cardinality(NewerOf(R, key, b)) \in Int
  BY NewerIsFinite
<1> QED BY <1>1, <1>2, <1>3

\* To keep those with fewer than n newer is to keep at most n.
LEMMA NewestAreFew ==
  ASSUME NEW R, IsFiniteSet(R), NEW key \in [R -> Int], \A a, b \in R : key[a] = key[b] => a = b,
         NEW n \in Nat, NEW kept, kept \subseteq R, \A r \in kept : Cardinality(NewerOf(R, key, r)) < n
  PROVE  IsFiniteSet(kept) /\ Cardinality(kept) <= n
<1> DEFINE rank == [r \in kept |-> Cardinality(NewerOf(R, key, r))]
<1>1. IsFiniteSet(kept) /\ Cardinality(kept) \in Nat
  BY FS_Subset, FS_CardinalityType
<1>2. rank \in [kept -> 0..(n - 1)]
  BY NewerIsFinite
<1>3. ~ \E a, b \in kept : a # b /\ rank[a] = rank[b]
  BY RanksDiffer
<1>4. IsFiniteSet(0..(n - 1)) /\ Cardinality(0..(n - 1)) = n
  BY FS_Interval
<1> HIDE DEF rank
<1>5. ~ Cardinality(0..(n - 1)) < Cardinality(kept)
  BY <1>1, <1>2, <1>3, <1>4, FS_PigeonHole
<1> QED BY <1>1, <1>4, <1>5

\* A finite set has a newest element: were there always a newer one, there would be fewer
\* numbers of newer ones than elements.
LEMMA NewestExists ==
  ASSUME NEW R, IsFiniteSet(R), R # {}, NEW key \in [R -> Int], \A a, b \in R : key[a] = key[b] => a = b
  PROVE  \E x \in R : \A y \in R : key[y] <= key[x]
<1> DEFINE rank == [r \in R |-> Cardinality(NewerOf(R, key, r))]
           n == Cardinality(R)
<1> SUFFICES ASSUME \A x \in R : \E y \in R : ~(key[y] <= key[x]) PROVE FALSE
  OBVIOUS
<1>1. n \in Nat /\ n # 0
  BY FS_CardinalityType, FS_EmptySet
<1>2. ASSUME NEW r \in R PROVE Cardinality(NewerOf(R, key, r)) \in 1..(n - 1)
  <2>1. NewerOf(R, key, r) # {} /\ NewerOf(R, key, r) \subseteq R
    BY DEF NewerOf
  <2>2. Cardinality(NewerOf(R, key, r)) # 0
    BY <2>1, FS_Subset, FS_EmptySet
  <2> HIDE DEF n
  <2>3. Cardinality(NewerOf(R, key, r)) \in 0..(n - 1)
    BY NewerIsFinite DEF n
  <2> QED BY <2>2, <2>3
<1>3. rank \in [R -> 1..(n - 1)]
  <2> HIDE DEF n
  <2> QED BY <1>2
<1>4. ~ \E a, b \in R : a # b /\ rank[a] = rank[b]
  BY RanksDiffer
<1>5. IsFiniteSet(1..(n - 1)) /\ Cardinality(1..(n - 1)) = n - 1
  <2> HIDE DEF n
  <2>1. 1 \in Int /\ n - 1 \in Int /\ (1 > n - 1 => n - 1 = 0) /\ (n - 1) - 1 + 1 = n - 1
    BY <1>1
  <2>2. Cardinality(1..(n - 1)) = IF 1 > n - 1 THEN 0 ELSE (n - 1) - 1 + 1
    BY <2>1, FS_Interval
  <2>3. IsFiniteSet(1..(n - 1))
    BY <2>1, FS_Interval
  <2> QED BY <2>1, <2>2, <2>3
<1>6. Cardinality(1..(n - 1)) < Cardinality(R)
  BY <1>1, <1>5
<1> HIDE DEF rank, n
<1> QED BY <1>3, <1>4, <1>5, <1>6, FS_PigeonHole

\* Max of a finite set of numbers.
LEMMA LargestExists ==
  ASSUME NEW S, IsFiniteSet(S), S \subseteq Int, S # {}
  PROVE  Max(S) \in S /\ \A x \in S : x <= Max(S)
<1>1. \E key \in [S -> Int] : \A x \in S : key[x] = x
  <2> DEFINE same == [x \in S |-> x]
  <2>1. same \in [S -> Int] /\ \A x \in S : same[x] = x
    OBVIOUS
  <2> HIDE DEF same
  <2> QED BY <2>1
<1>2. PICK key \in [S -> Int] : \A x \in S : key[x] = x
  BY <1>1
<1>3. \E x \in S : \A y \in S : key[y] <= key[x]
  <2>1. \A a, b \in S : key[a] = key[b] => a = b
    BY <1>2
  <2> QED BY <2>1, NewestExists
<1>4. \E x \in S : \A y \in S : x >= y
  BY <1>2, <1>3
<1> QED BY <1>4 DEF Max
-----------------------------------------------------------------------------
(* Folds over sequences.                                                  *)

\* The last position, and those before it.
LEMMA LastPosition ==
  ASSUME NEW k \in Nat
  PROVE  /\ 1..(k + 1) # {} /\ IsFiniteSet(1..(k + 1)) /\ Max(1..(k + 1)) = k + 1
         /\ (1..(k + 1)) \ {k + 1} = 1..k
<1>1. 1..(k + 1) # {} /\ (1..(k + 1)) \ {k + 1} = 1..k /\ 1..(k + 1) \subseteq Int
  OBVIOUS
<1>2. IsFiniteSet(1..(k + 1))
  BY FS_Interval
<1>3. Max(1..(k + 1)) \in 1..(k + 1) /\ \A x \in 1..(k + 1) : x <= Max(1..(k + 1))
  BY <1>1, <1>2, LargestExists
<1>4. Max(1..(k + 1)) = k + 1
  <2> DEFINE m == Max(1..(k + 1))
  <2>1. m \in 1..(k + 1) /\ k + 1 \in 1..(k + 1) /\ \A x \in 1..(k + 1) : x <= m
    BY <1>3
  <2> HIDE DEF m
  <2>2. m = k + 1
    BY <2>1
  <2> QED BY <2>2 DEF m
<1> QED BY <1>1, <1>2, <1>4

\* What holds at 0, and one further whenever it holds, holds all the way.
LEMMA Upward ==
  ASSUME NEW n \in Nat, NEW good, 0 \in good, \A k \in 0..(n - 1) : k \in good => k + 1 \in good
  PROVE  0..n \subseteq good
<1> DEFINE Q == (0..n) \ good
<1>1. SUFFICES ASSUME Q # {} PROVE FALSE
  OBVIOUS
<1>2. Q \subseteq Nat
  OBVIOUS
<1>3. PICK k \in Q : \A m \in Q : k <= m
  <2> HIDE DEF Q
  <2> QED BY <1>1, <1>2, LeastOf
<1>4. k # 0 /\ k - 1 \in 0..(n - 1)
  BY <1>3
<1>5. k - 1 \in good
  BY <1>3, <1>4
<1>6. (k - 1) + 1 = k
  BY <1>4
<1> QED BY <1>3, <1>4, <1>5, <1>6

\* f folds the sequence by steps of op, from the first element to the last.
Folded(f, op, base, seq) ==
  /\ f[{}] = base
  /\ \A p \in SUBSET (DOMAIN seq) : p # {} =>
       /\ Max(p) \in DOMAIN seq /\ p \ {Max(p)} \in SUBSET (DOMAIN seq)
       /\ f[p] = op[<<f[p \ {Max(p)}], seq[Max(p)]>>]

\* Such a fold exists when every step stays within T.
LEMMA FoldOfSeq ==
  ASSUME NEW E, NEW T, NEW seq \in Seq(E), NEW base \in T, NEW op \in [T \X E -> T]
  PROVE  \E f \in [SUBSET (DOMAIN seq) -> T] : Folded(f, op, base, seq)
<1> DEFINE D == DOMAIN seq
           pick == [p \in SUBSET D |-> Max(p)]
           step == [a \in T \X D |-> op[<<a[1], seq[a[2]]>>]]
<1>1. IsFiniteSet(D) /\ D \subseteq Int /\ \A i \in D : seq[i] \in E
  <2>1. D = 1..Len(seq) /\ Len(seq) \in Nat /\ D \subseteq Int /\ \A i \in D : seq[i] \in E
    OBVIOUS
  <2> QED BY <2>1, FS_Interval
<1>2. \A p \in SUBSET D : p # {} => Max(p) \in p
  <2> SUFFICES ASSUME NEW p \in SUBSET D, p # {} PROVE Max(p) \in p
    OBVIOUS
  <2>1. IsFiniteSet(p) /\ p \subseteq Int
    BY <1>1, FS_Subset
  <2> QED BY <2>1, LargestExists
<1> HIDE DEF D
<1>3. Picks(pick, D)
  BY <1>2 DEF Picks
<1>4. \A t \in T, i \in D : step[<<t, i>>] = op[<<t, seq[i]>>] /\ op[<<t, seq[i]>>] \in T
  BY <1>1
<1>5. step \in [T \X D -> T]
  BY <1>4
<1>6. PICK f \in [SUBSET D -> T] : FoldedBy(f, D, base, pick, step)
  <2> HIDE DEF pick, step
  <2> QED BY <1>1, <1>3, <1>5, FoldExists
<1>7. ASSUME NEW p \in SUBSET D, p # {}
      PROVE  /\ Max(p) \in D /\ p \ {Max(p)} \in SUBSET D
             /\ f[p] = op[<<f[p \ {Max(p)}], seq[Max(p)]>>]
  <2>1. pick[p] = Max(p) /\ Max(p) \in D /\ p \ {Max(p)} \in SUBSET D
    BY <1>2, <1>7
  <2>2. f[p \ {Max(p)}] \in T /\ f[p] = step[<<f[p \ {Max(p)}], Max(p)>>]
    BY <1>6, <1>7, <2>1 DEF FoldedBy
  <2> HIDE DEF step
  <2> QED BY <1>4, <2>1, <2>2
<1>8. f[{}] = base
  BY <1>6 DEF FoldedBy
<1> HIDE DEF pick, step
<1> QED BY <1>7, <1>8 DEF D, Folded

\* f folds the sequence by steps of op, as long as the results are in T.
FoldsBy(f, op, base, seq, T) ==
  /\ f[{}] = base
  /\ \A p \in SUBSET (DOMAIN seq) : p # {} /\ f[p \ {Max(p)}] \in T => f[p] = op[<<f[p \ {Max(p)}], seq[Max(p)]>>]

\* The results after each position.
RunsBy(f, op, seq, T) ==
  \A k \in 0..Len(seq) : /\ f[1..k] \in T
                         /\ k < Len(seq) => f[1..(k + 1)] = op[<<f[1..k], seq[k + 1]>>]

\* A fold that has begun in T ends in T.
LEMMA FoldRuns ==
  ASSUME NEW E, NEW T, NEW seq \in Seq(E), NEW base \in T, NEW op \in [T \X E -> T],
         NEW f, FoldsBy(f, op, base, seq, T)
  PROVE  RunsBy(f, op, seq, T)
<1> DEFINE n == Len(seq)
           good == {k \in 0..n : f[1..k] \in T}
<1>1. n \in Nat /\ DOMAIN seq = 1..n /\ \A i \in 1..n : seq[i] \in E
  OBVIOUS
<1>2. ASSUME NEW k \in 0..(n - 1), f[1..k] \in T
      PROVE  f[1..(k + 1)] = op[<<f[1..k], seq[k + 1]>>] /\ f[1..(k + 1)] \in T
  <2>1. k \in Nat /\ k + 1 \in 1..n /\ 1..(k + 1) \in SUBSET (DOMAIN seq)
    BY <1>1
  <2>2. 1..(k + 1) # {} /\ Max(1..(k + 1)) = k + 1 /\ (1..(k + 1)) \ {k + 1} = 1..k
    BY <2>1, LastPosition
  <2>3. f[1..(k + 1)] = op[<<f[1..k], seq[k + 1]>>]
    <3> DEFINE p == 1..(k + 1)
    <3>1. p \in SUBSET (DOMAIN seq) /\ p # {} /\ Max(p) = k + 1 /\ p \ {Max(p)} = 1..k
      BY <2>1, <2>2
    <3> HIDE DEF p
    <3>2. f[p] = op[<<f[1..k], seq[k + 1]>>]
      BY <1>2, <3>1 DEF FoldsBy
    <3> QED BY <3>2 DEF p
  <2>4. seq[k + 1] \in E
    BY <1>1, <2>1
  <2> QED BY <1>2, <2>3, <2>4
<1>3. 0 \in good
  <2>1. 1..0 = {}
    OBVIOUS
  <2> QED BY <1>1, <2>1 DEF FoldsBy
<1>4. ASSUME NEW k \in 0..(n - 1), k \in good PROVE k + 1 \in good
  <2>1. k + 1 \in 0..n
    BY <1>1
  <2> QED BY <1>2, <1>4, <2>1
<1>5. 0..n \subseteq good
  <2> HIDE DEF good, n
  <2> QED BY <1>1, <1>3, <1>4, Upward
<1>6. ASSUME NEW k \in 0..n PROVE f[1..k] \in T /\ (k < n => f[1..(k + 1)] = op[<<f[1..k], seq[k + 1]>>])
  <2>1. f[1..k] \in T
    BY <1>5
  <2>2. k < n => k \in 0..(n - 1)
    BY <1>1
  <2> QED BY <1>2, <2>1, <2>2
<1> QED BY <1>6 DEF RunsBy

StepFrom(f, g, op, seq, e, T) ==
  /\ f[DOMAIN seq] \in T
  /\ g[DOMAIN Append(seq, e)] = op[<<f[DOMAIN seq], e>>]

\* The fold over a sequence with one element more is one step more.
LEMMA FoldOfLonger ==
  ASSUME NEW E, NEW T, NEW seq \in Seq(E), NEW e \in E, NEW base \in T, NEW op \in [T \X E -> T],
         NEW f, FoldsBy(f, op, base, seq, T), NEW g, FoldsBy(g, op, base, Append(seq, e), T)
  PROVE  StepFrom(f, g, op, seq, e, T)
<1> DEFINE n == Len(seq)
           more == Append(seq, e)
           good == {k \in 0..n : f[1..k] = g[1..k]}
<1>1. /\ n \in Nat /\ DOMAIN seq = 1..n /\ more \in Seq(E) /\ Len(more) = n + 1 /\ DOMAIN more = 1..(n + 1)
      /\ more[n + 1] = e /\ \A i \in 1..n : more[i] = seq[i]
  OBVIOUS
<1>2. FoldsBy(g, op, base, more, T)
  OBVIOUS
<1> HIDE DEF more
<1>3. \A k \in 0..n : f[1..k] \in T /\ (k < n => f[1..(k + 1)] = op[<<f[1..k], seq[k + 1]>>])
  <2>1. RunsBy(f, op, seq, T)
    BY FoldRuns
  <2> QED BY <2>1 DEF RunsBy
<1>4. \A k \in 0..(n + 1) : g[1..k] \in T /\ (k < n + 1 => g[1..(k + 1)] = op[<<g[1..k], more[k + 1]>>])
  <2>1. RunsBy(g, op, more, T)
    BY <1>1, <1>2, FoldRuns
  <2> QED BY <1>1, <2>1 DEF RunsBy
<1>5. 0 \in good
  <2>1. 1..0 = {} /\ f[{}] = g[{}]
    BY <1>2 DEF FoldsBy
  <2> QED BY <1>1, <2>1
<1>6. ASSUME NEW k \in 0..(n - 1), k \in good PROVE k + 1 \in good
  <2>1. k \in 0..n /\ k < n /\ k \in 0..(n + 1) /\ k < n + 1 /\ k + 1 \in 1..n /\ k + 1 \in 0..n
    BY <1>1
  <2>2. f[1..k] = g[1..k]
    BY <1>6
  <2>3. f[1..(k + 1)] = op[<<f[1..k], seq[k + 1]>>] /\ g[1..(k + 1)] = op[<<g[1..k], more[k + 1]>>] /\ more[k + 1] = seq[k + 1]
    BY <1>1, <1>3, <1>4, <2>1
  <2> QED BY <2>1, <2>2, <2>3
<1>7. 0..n \subseteq good
  <2> HIDE DEF good, n
  <2> QED BY <1>1, <1>5, <1>6, Upward
<1>8. f[1..n] = g[1..n] /\ f[1..n] \in T
  <2>1. n \in 0..n /\ n \in good
    BY <1>1, <1>7
  <2> QED BY <1>3, <2>1
<1>9. g[1..(n + 1)] = op[<<g[1..n], e>>]
  BY <1>1, <1>4
<1> QED BY <1>1, <1>8, <1>9 DEF more, StepFrom

-----------------------------------------------------------------------------
(* Sequences and their first elements.                                     *)

\* The first of t is s.
Begins(s, t) == Len(s) <= Len(t) /\ \A i \in 1..Len(s) : t[i] = s[i]

LEMMA BeginsAppended ==
  ASSUME NEW T, NEW s, NEW t \in Seq(T), NEW e \in T, s \in Seq(T), Begins(s, t)
  PROVE  Begins(s, Append(t, e))
<1>1. Len(s) \in Nat /\ Len(t) \in Nat /\ Len(s) <= Len(t)
  BY DEF Begins
<1>2. Len(Append(t, e)) = Len(t) + 1 /\ \A i \in 1..Len(t) : Append(t, e)[i] = t[i]
  OBVIOUS
<1> QED BY <1>1, <1>2 DEF Begins

LEMMA BeginsOn ==
  ASSUME NEW r, NEW s, NEW t, Len(r) \in Nat, Len(s) \in Nat, Len(t) \in Nat, Begins(r, s), Begins(s, t)
  PROVE  Begins(r, t)
<1>1. \A i \in 1..Len(r) : i \in 1..Len(s)
  BY DEF Begins
<1> QED BY <1>1 DEF Begins

LEMMA BeginsIsPrefix ==
  ASSUME NEW S, NEW s \in Seq(S), NEW t \in Seq(S), Begins(s, t)
  PROVE  IsPrefix(s, t)
<1>1. Len(s) \in Nat /\ Len(t) \in Nat /\ Len(s) <= Len(t) /\ \A i \in 1..Len(s) : s[i] \in S /\ t[i] = s[i]
  BY DEF Begins
<1>2. SubSeq(s, 1, Len(s)) = [i \in 1..Len(s) |-> s[i]] /\ SubSeq(t, 1, Len(s)) = [i \in 1..Len(s) |-> t[i]]
  <2>1. SubSeq(s, 1, Len(s)) = [i \in 1..((Len(s) - 1) + 1) |-> s[(i + 1) - 1]]
    BY <1>1
  <2>2. SubSeq(t, 1, Len(s)) = [i \in 1..((Len(s) - 1) + 1) |-> t[(i + 1) - 1]]
    BY <1>1
  <2>3. (Len(s) - 1) + 1 = Len(s) /\ \A i \in 1..Len(s) : (i + 1) - 1 = i
    BY <1>1
  <2> QED BY <2>1, <2>2, <2>3
<1> QED BY <1>1, <1>2 DEF IsPrefix

LEMMA PartIs ==
  ASSUME NEW c \in Seq(Nat), NEW i \in 1..Len(c), NEW j \in 1..Len(c)
  PROVE  SubSeq(c, i, j) \in Seq(Nat) /\ (i <= j => Len(SubSeq(c, i, j)) = j - i + 1)
         /\ \A k \in 1..(j - i + 1) : SubSeq(c, i, j)[k] = c[i + k - 1]
<1>1. Len(c) \in Nat /\ \A k \in i..j : c[k] \in Nat
  OBVIOUS
<1> QED BY <1>1

-----------------------------------------------------------------------------
(* Amounts.  Over a common denominator they add up as integers do.         *)

Fractions == Int \X (Nat \ {0})

\* The amount a is n parts of which D make a whole.
Over(a, D, n) == a[1] * D = n * a[2]

\* A factor that is not zero cancels.
LEMMA Cancels ==
  ASSUME NEW a \in Int, NEW b \in Int, NEW d \in Int, d # 0, a * d = b * d
  PROVE  a = b
<1>1. (a - b) * d = 0
  OBVIOUS
<1> QED BY <1>1

\* Amounts over one denominator are the same if their parts are.
LEMMA OverSame ==
  ASSUME NEW a \in Fractions, NEW b \in Fractions, NEW D \in Nat \ {0}, NEW n \in Int, NEW m \in Int,
         Over(a, D, n), Over(b, D, m)
  PROVE  SameAmount(a, b) <=> n = m
<1> DEFINE a1 == a[1]  a2 == a[2]  b1 == b[1]  b2 == b[2]
<1>1. a1 \in Int /\ b1 \in Int /\ a2 \in Int /\ b2 \in Int /\ a2 # 0 /\ b2 # 0 /\ D \in Int /\ D # 0
  BY DEF Fractions
<1>2. a1 * D = n * a2 /\ b1 * D = m * b2
  BY DEF Over
<1>3. SameAmount(a, b) <=> a1 * b2 = b1 * a2
  BY DEF SameAmount
<1> HIDE DEF a1, a2, b1, b2
<1>4. (a1 * b2) * D = (n * a2) * b2
  <2>1. (a1 * b2) * D = (a1 * D) * b2
    BY <1>1
  <2> QED BY <2>1, <1>2
<1>5. (b1 * a2) * D = (m * a2) * b2
  <2>1. (b1 * a2) * D = (b1 * D) * a2
    BY <1>1
  <2>2. (m * b2) * a2 = (m * a2) * b2
    BY <1>1
  <2> QED BY <2>1, <2>2, <1>2
<1>6. CASE n = m
  <2>1. a1 * b2 \in Int /\ b1 * a2 \in Int /\ (a1 * b2) * D = (b1 * a2) * D
    BY <1>1, <1>4, <1>5, <1>6
  <2> HIDE DEF a1
  <2>2. a1 * b2 = b1 * a2
    BY <1>1, <2>1, Cancels
  <2> QED BY <1>3, <1>6, <2>2
<1>7. ASSUME a1 * b2 = b1 * a2 PROVE n = m
  <2>1. (n * a2) * b2 = (m * a2) * b2
    BY <1>4, <1>5, <1>7
  <2>2. n * a2 \in Int /\ m * a2 \in Int
    BY <1>1
  <2>3. n * a2 = m * a2
    BY <1>1, <2>1, <2>2, Cancels
  <2> QED BY <1>1, <2>3, Cancels
<1> QED BY <1>3, <1>6, <1>7

\* Whole amounts, multiples and sums, over any denominator of their parts.
LEMMA OverWhole ==
  ASSUME NEW e \in Int, NEW D \in Nat \ {0}
  PROVE  Whole(e) \in Fractions /\ Over(Whole(e), D, e * D)
BY DEF Whole, Fractions, Over

LEMMA OverTimes ==
  ASSUME NEW a \in Fractions, NEW D \in Nat \ {0}, NEW n \in Int, Over(a, D, n), NEW k \in Int
  PROVE  Times(k, a) \in Fractions /\ Over(Times(k, a), D, k * n)
<1> DEFINE a1 == a[1]  a2 == a[2]
<1>1. a1 \in Int /\ a2 \in Nat \ {0} /\ D \in Int
  BY DEF Fractions
<1>2. Times(k, a) = <<k * a1, a2>> /\ a1 * D = n * a2
  BY DEF Times, Over
<1> HIDE DEF a1, a2
<1>3. (k * a1) * D = (k * n) * a2
  <2>1. (k * a1) * D = k * (a1 * D)
    BY <1>1
  <2>2. (k * n) * a2 = k * (n * a2)
    BY <1>1
  <2> QED BY <2>1, <2>2, <1>2
<1>4. k * a1 \in Int
  BY <1>1
<1> QED BY <1>1, <1>2, <1>3, <1>4 DEF Fractions, Over

LEMMA OverPlus ==
  ASSUME NEW a \in Fractions, NEW b \in Fractions, NEW D \in Nat \ {0}, NEW n \in Int, NEW m \in Int,
         Over(a, D, n), Over(b, D, m)
  PROVE  Plus(a, b) \in Fractions /\ Over(Plus(a, b), D, n + m)
<1> DEFINE a1 == a[1]  a2 == a[2]  b1 == b[1]  b2 == b[2]
<1>1. a1 \in Int /\ b1 \in Int /\ a2 \in Nat \ {0} /\ b2 \in Nat \ {0} /\ a2 \in Int /\ b2 \in Int /\ D \in Int
  BY DEF Fractions
<1>2. a1 * D = n * a2 /\ b1 * D = m * b2
  BY DEF Over
<1>3. Plus(a, b) = IF a2 = b2 THEN <<a1 + b1, a2>> ELSE <<a1 * b2 + b1 * a2, a2 * b2>>
  BY DEF Plus
<1> HIDE DEF a1, a2, b1, b2
<1>4. CASE a2 = b2
  <2>1. (a1 + b1) * D = (n + m) * a2
    BY <1>1, <1>2, <1>4
  <2> QED BY <1>1, <1>3, <1>4, <2>1 DEF Fractions, Over
<1>5. CASE a2 # b2
  <2> DEFINE x == a1 * b2
             y == b1 * a2
             d == a2 * b2
  <2>1. x * D = n * d
    <3>1. x * D = (a1 * D) * b2
      BY <1>1
    <3>2. n * d = (n * a2) * b2
      BY <1>1
    <3> QED BY <3>1, <3>2, <1>2
  <2>2. y * D = m * d
    <3>1. y * D = (b1 * D) * a2
      BY <1>1
    <3>2. m * d = (m * b2) * a2
      BY <1>1
    <3> QED BY <3>1, <3>2, <1>2
  <2>3. x \in Int /\ y \in Int /\ d \in Nat \ {0}
    <3>1. d \in Nat /\ d # 0
      BY <1>1
    <3> QED BY <1>1, <3>1
  <2>4. Plus(a, b) = <<x + y, d>>
    BY <1>3, <1>5
  <2> HIDE DEF x, y, d
  <2>5. (x + y) * D = (n + m) * d
    <3>1. (x + y) * D = x * D + y * D
      BY <1>1, <2>3
    <3>2. (n + m) * d = n * d + m * d
      BY <2>3
    <3> QED BY <3>1, <3>2, <2>1, <2>2
  <2> QED BY <2>3, <2>4, <2>5 DEF Fractions, Over
<1> QED BY <1>4, <1>5

\* One part in k of an amount, and the amount itself over the same parts.
LEMMA OverShare ==
  ASSUME NEW a \in Fractions, NEW D \in Nat \ {0}, NEW n \in Int, Over(a, D, n), NEW k \in Nat \ {0}
  PROVE  /\ D * k \in Nat \ {0}
         /\ <<a[1], a[2] * k>> \in Fractions /\ Over(<<a[1], a[2] * k>>, D * k, n)
         /\ Over(a, D * k, n * k)
<1> DEFINE a1 == a[1]  a2 == a[2]
<1>1. a1 \in Int /\ a2 \in Nat \ {0} /\ D \in Int /\ k \in Int
  BY DEF Fractions
<1>2. a1 * D = n * a2
  BY DEF Over
<1>3. a1 * (D * k) = (a1 * D) * k /\ n * (a2 * k) = (n * a2) * k /\ (n * k) * a2 = (n * a2) * k
  BY <1>1
<1>4. a2 * k \in Nat /\ a2 * k # 0 /\ D * k \in Nat /\ D * k # 0
  BY <1>1
<1>5. Over(a, D * k, n * k)
  BY <1>2, <1>3 DEF Over
<1>6. Over(<<a1, a2 * k>>, D * k, n)
  BY <1>2, <1>3 DEF Over
<1> QED BY <1>1, <1>4, <1>5, <1>6 DEF Fractions

\* Two amounts have a denominator in common.
LEMMA OverCommon ==
  ASSUME NEW a \in Fractions, NEW b \in Fractions
  PROVE  \E D \in Nat \ {0}, n, m \in Int : Over(a, D, n) /\ Over(b, D, m)
<1> DEFINE a1 == a[1]  a2 == a[2]  b1 == b[1]  b2 == b[2]
<1>1. a1 \in Int /\ b1 \in Int /\ a2 \in Nat \ {0} /\ b2 \in Nat \ {0} /\ a2 \in Int /\ b2 \in Int
  BY DEF Fractions
<1> DEFINE D == a2 * b2
           n == a1 * b2
           m == b1 * a2
<1>2. D \in Nat \ {0} /\ n \in Int /\ m \in Int
  <2>1. D \in Nat /\ D # 0
    BY <1>1
  <2> QED BY <1>1, <2>1
<1>3. a1 * D = n * a2 /\ b1 * D = m * b2
  BY <1>1
<1> HIDE DEF D, n, m
<1> QED BY <1>2, <1>3 DEF Over

\* A denominator of its own.
LEMMA OverOwn ==
  ASSUME NEW a \in Fractions
  PROVE  a[1] \in Int /\ a[2] \in Nat \ {0} /\ Over(a, a[2], a[1])
BY DEF Fractions, Over

LEMMA FractionsClosed ==
  ASSUME NEW a \in Fractions, NEW b \in Fractions, NEW k \in Int
  PROVE  Plus(a, b) \in Fractions /\ Times(k, a) \in Fractions
<1>1. PICK D \in Nat \ {0}, n \in Int, m \in Int : Over(a, D, n) /\ Over(b, D, m)
  BY OverCommon
<1> QED BY <1>1, OverPlus, OverTimes

\* The parts of an amount have its sign.
LEMMA OverSign ==
  ASSUME NEW a \in Fractions, NEW D \in Nat \ {0}, NEW n \in Int, Over(a, D, n)
  PROVE  a[1] = 0 <=> n = 0
<1> DEFINE a1 == a[1]  a2 == a[2]
<1>1. a1 \in Int /\ a2 \in Int /\ a2 # 0 /\ D \in Int /\ D # 0
  BY DEF Fractions
<1>2. a1 * D = n * a2
  BY DEF Over
<1> HIDE DEF a1, a2
<1>3. CASE a1 = 0
  <2>1. n * a2 = 0 * a2
    BY <1>1, <1>2, <1>3
  <2>2. n = 0
    BY <1>1, <2>1, Cancels
  <2> QED BY <1>3, <2>2 DEF a1
<1>4. CASE n = 0
  <2>1. a1 * D = 0 * D
    BY <1>1, <1>2, <1>4
  <2>2. a1 = 0
    BY <1>1, <2>1, Cancels
  <2> QED BY <1>4, <2>2 DEF a1
<1>5. CASE a1 # 0 /\ n # 0
  BY <1>5 DEF a1
<1> QED BY <1>3, <1>4, <1>5

\* The amounts of two finite families have a denominator in common.
InCommon(f, g, S) ==
  \E D \in Nat \ {0}, n, m \in [S -> Int] : \A x \in S : Over(f[x], D, n[x]) /\ Over(g[x], D, m[x])

LEMMA OverAll ==
  ASSUME NEW S, IsFiniteSet(S), NEW f \in [S -> Fractions], NEW g \in [S -> Fractions]
  PROVE  InCommon(f, g, S)
<1> DEFINE Has(s) == \E D \in Nat \ {0}, n, m \in [S -> Int] : \A x \in s : Over(f[x], D, n[x]) /\ Over(g[x], D, m[x])
           Q == {s \in SUBSET S : ~Has(s)}
<1>1. SUFFICES ASSUME Q # {} PROVE FALSE
  BY DEF InCommon
<1>2. PICK s \in Q : \A x \in s : s \ {x} \notin Q
  BY <1>1, SmallestOf
<1>3. s # {}
  <2>1. [x \in S |-> 0] \in [S -> Int] /\ 1 \in Nat \ {0}
    OBVIOUS
  <2>2. Has({})
    BY <2>1
  <2> HIDE DEF Has
  <2> QED BY <1>2, <2>2
<1>4. PICK x \in s : Has(s \ {x})
  BY <1>2, <1>3
<1>5. PICK D \in Nat \ {0}, n \in [S -> Int], m \in [S -> Int] :
        \A y \in s \ {x} : Over(f[y], D, n[y]) /\ Over(g[y], D, m[y])
  BY <1>4
<1>6. PICK E \in Nat \ {0}, a \in Int, b \in Int : Over(f[x], E, a) /\ Over(g[x], E, b)
  BY OverCommon
<1> DEFINE n2 == [y \in S |-> IF y = x THEN a * D ELSE n[y] * E]
           m2 == [y \in S |-> IF y = x THEN b * D ELSE m[y] * E]
<1>7. n2 \in [S -> Int] /\ m2 \in [S -> Int]
  OBVIOUS
<1>8. D * E \in Nat \ {0}
  <2>1. f[x] \in Fractions
    OBVIOUS
  <2>2. D * E \in Nat /\ D * E # 0
    BY OverShare, <1>6, <2>1
  <2> QED BY <2>2
<1>9. ASSUME NEW y \in s PROVE Over(f[y], D * E, n2[y]) /\ Over(g[y], D * E, m2[y])
  <2>1. f[y] \in Fractions /\ g[y] \in Fractions /\ n2[y] \in Int /\ m2[y] \in Int
    BY <1>2, <1>7
  <2>2. CASE y = x
    <3>1. Over(f[y], E * D, a * D) /\ Over(g[y], E * D, b * D)
      BY <1>6, <2>1, <2>2, OverShare
    <3>2. E * D = D * E
      OBVIOUS
    <3> QED BY <1>2, <2>2, <3>1, <3>2
  <2>3. CASE y # x
    <3>1. Over(f[y], D, n[y]) /\ Over(g[y], D, m[y]) /\ n[y] \in Int /\ m[y] \in Int
      BY <1>2, <1>5, <2>3
    <3>2. Over(f[y], D * E, n[y] * E) /\ Over(g[y], D * E, m[y] * E)
      BY <2>1, <3>1, OverShare
    <3> QED BY <1>2, <2>3, <3>2
  <2> QED BY <2>2, <2>3
<1> HIDE DEF n2, m2
<1>10. Has(s)
  <2> DEFINE C == D * E
  <2>1. C \in Nat \ {0} /\ \A y \in s : Over(f[y], C, n2[y]) /\ Over(g[y], C, m2[y])
    BY <1>8, <1>9
  <2> HIDE DEF C
  <2> QED BY <1>7, <2>1
<1> HIDE DEF Has
<1> QED BY <1>2, <1>10

\* What FoldSet chooses to add up a family of amounts.
AddsUp(h, f, base, S) ==
  /\ h[{}] = base
  /\ \A p \in SUBSET S : p # {} => h[p] = Plus(h[p \ {Member(p)}], f[Member(p)])

\* There is something to choose.
LEMMA AmountsAdd ==
  ASSUME NEW S, IsFiniteSet(S), NEW f \in [S -> Fractions], NEW base \in Fractions
  PROVE  \E h \in [SUBSET S -> Fractions] : AddsUp(h, f, base, S)
<1> DEFINE pick == [p \in SUBSET S |-> Member(p)]
           step == [a \in Fractions \X S |-> Plus(a[1], f[a[2]])]
<1>1. \A p \in SUBSET S : p # {} => pick[p] = Member(p) /\ Member(p) \in p
  BY MemberIsIn
<1>2. Picks(pick, S)
  BY <1>1 DEF Picks
<1>3. ASSUME NEW t \in Fractions, NEW x \in S PROVE step[<<t, x>>] = Plus(t, f[x]) /\ step[<<t, x>>] \in Fractions
  <2>1. f[x] \in Fractions
    OBVIOUS
  <2>2. Plus(t, f[x]) \in Fractions
    BY <2>1, OverCommon, OverPlus
  <2> QED BY <2>2
<1>4. step \in [Fractions \X S -> Fractions]
  <2>1. \A a \in Fractions \X S : Plus(a[1], f[a[2]]) \in Fractions
    BY <1>3
  <2> QED BY <2>1
<1>5. PICK h \in [SUBSET S -> Fractions] : FoldedBy(h, S, base, pick, step)
  <2> HIDE DEF pick, step
  <2> QED BY <1>2, <1>4, FoldExists
<1>6. ASSUME NEW p \in SUBSET S, p # {} PROVE h[p] = Plus(h[p \ {Member(p)}], f[Member(p)])
  <2>1. pick[p] = Member(p) /\ Member(p) \in S /\ h[p \ {Member(p)}] \in Fractions
    BY <1>1, <1>6
  <2> HIDE DEF pick, step
  <2>2. h[p] = step[<<h[p \ {pick[p]}], pick[p]>>]
    BY <1>5, <1>6 DEF FoldedBy
  <2> QED BY <1>3, <2>1, <2>2
<1>7. h[{}] = base
  BY <1>5 DEF FoldedBy
<1> HIDE DEF pick, step
<1> QED BY <1>6, <1>7 DEF AddsUp

\* Over a common denominator the sum of amounts is a sum of integers.
LEMMA SumOver ==
  ASSUME NEW S, IsFiniteSet(S), NEW f \in [S -> Fractions], NEW base \in Fractions,
         NEW h, AddsUp(h, f, base, S),
         NEW D \in Nat \ {0}, NEW b \in Int, Over(base, D, b),
         NEW n \in [S -> Int], \A x \in S : Over(f[x], D, n[x])
  PROVE  /\ h[S] \in Fractions /\ SumFunctionOnSet(n, S) \in Int
         /\ Over(h[S], D, b + SumFunctionOnSet(n, S))
<1> DEFINE sum == SumFold(n, S)
           good == [p \in SUBSET S |-> {t \in Fractions : Over(t, D, b + sum[p])}]
<1>1. /\ sum[{}] = 0
      /\ \A p \in SUBSET S : p # {} => sum[p] = n[Member(p)] + sum[p \ {Member(p)}]
      /\ \A p \in SUBSET S : sum[p] \in Int
  <2>1. \A x \in S : n[x] \in Int
    OBVIOUS
  <2> QED BY <2>1, SumFoldIs
<1>2. SumFunctionOnSet(n, S) = sum[S]
  BY SumChosen
<1> HIDE DEF sum
<1>3. h[{}] \in good[{}]
  <2>1. h[{}] = base /\ b + sum[{}] = b
    BY <1>1 DEF AddsUp
  <2> QED BY <2>1
<1>4. ASSUME NEW p \in SUBSET S, p # {}
      PROVE  \E x \in p : h[p \ {x}] \in good[p \ {x}] => h[p] \in good[p]
  <2> DEFINE x == Member(p)
             q == p \ {x}
  <2>1. x \in p /\ x \in S /\ q \in SUBSET S
    BY <1>4, MemberIsIn
  <2>2. h[p] = Plus(h[q], f[x]) /\ sum[p] = n[x] + sum[q]
    BY <1>1, <1>4 DEF AddsUp
  <2> HIDE DEF x, q
  <2>3. ASSUME h[q] \in good[q] PROVE h[p] \in good[p]
    <3>1. h[q] \in Fractions /\ Over(h[q], D, b + sum[q])
      BY <2>1, <2>3
    <3>2. b + sum[q] \in Int /\ n[x] \in Int /\ f[x] \in Fractions /\ Over(f[x], D, n[x])
      BY <1>1, <2>1
    <3>3. Plus(h[q], f[x]) \in Fractions /\ Over(Plus(h[q], f[x]), D, (b + sum[q]) + n[x])
      BY <3>1, <3>2, OverPlus
    <3>4. (b + sum[q]) + n[x] = b + sum[p]
      <4>1. b + sum[p] = b + (n[x] + sum[q]) /\ sum[q] \in Int
        BY <1>1, <2>1, <2>2
      <4> QED BY <3>2, <4>1
    <3> QED BY <2>2, <3>3, <3>4
  <2> QED BY <2>1, <2>3 DEF q
<1>5. \A p \in SUBSET S : h[p] \in good[p]
  <2> HIDE DEF good
  <2> QED BY <1>3, <1>4, FoldKeeps
<1>6. h[S] \in good[S]
  BY <1>5
<1> QED BY <1>1, <1>2, <1>6

\* Two sums that differ in one member only.
LEMMA SumOfChange ==
  ASSUME NEW S, IsFiniteSet(S), NEW x \in S, NEW f \in [S -> Int], NEW g \in [S -> Int],
         \A y \in S : y # x => g[y] = f[y]
  PROVE  /\ SumFunctionOnSet(f, S) \in Int
         /\ SumFunctionOnSet(g, S) = SumFunctionOnSet(f, S) + (g[x] - f[x])
<1> DEFINE R == S \ {x}
<1>1. IsFiniteSet(R) /\ x \notin R /\ S = R \union {x}
  BY FS_Subset
<1>2. \A y \in R : f[y] \in Int /\ f[y] = g[y]
  OBVIOUS
<1>3. \A y \in R \union {x} : f[y] \in Int /\ g[y] \in Int
  OBVIOUS
<1>4. f[x] \in Int /\ g[x] \in Int
  OBVIOUS
<1> HIDE DEF R
<1>5. SumFunctionOnSet(f, R) = SumFunctionOnSet(g, R)
  BY <1>1, <1>2, SumsAgree
<1>6. SumFunctionOnSet(f, R) \in Int /\ SumFunctionOnSet(f, S) = f[x] + SumFunctionOnSet(f, R)
  BY <1>1, <1>3, SumOfOneMore
<1>7. SumFunctionOnSet(g, S) = g[x] + SumFunctionOnSet(g, R)
  BY <1>1, <1>3, SumOfOneMore
<1> QED BY <1>4, <1>5, <1>6, <1>7

\* Two sums that make k times a third one, member by member.
Makes(f, g, c, k, S) == \A x \in S : f[x] + g[x] = c[x] * k
SumsMake(f, g, c, k, S) == SumFunctionOnSet(f, S) + SumFunctionOnSet(g, S) = SumFunctionOnSet(c, S) * k

LEMMA SumsTogether ==
  ASSUME NEW S, IsFiniteSet(S), NEW f \in [S -> Int], NEW g \in [S -> Int], NEW c \in [S -> Int], NEW k \in Int,
         Makes(f, g, c, k, S)
  PROVE  SumsMake(f, g, c, k, S)
<1> DEFINE h == SumFold(f, S)
           j == SumFold(g, S)
           l == SumFold(c, S)
           good == [p \in SUBSET S |-> {t \in Int : t + j[p] = l[p] * k}]
<1>1. /\ h[{}] = 0
      /\ \A p \in SUBSET S : p # {} => h[p] = f[Member(p)] + h[p \ {Member(p)}]
      /\ \A p \in SUBSET S : h[p] \in Int
  BY SumFoldIs
<1>2. /\ j[{}] = 0
      /\ \A p \in SUBSET S : p # {} => j[p] = g[Member(p)] + j[p \ {Member(p)}]
      /\ \A p \in SUBSET S : j[p] \in Int
  BY SumFoldIs
<1>3. /\ l[{}] = 0
      /\ \A p \in SUBSET S : p # {} => l[p] = c[Member(p)] + l[p \ {Member(p)}]
      /\ \A p \in SUBSET S : l[p] \in Int
  BY SumFoldIs
<1>4. SumFunctionOnSet(f, S) = h[S] /\ SumFunctionOnSet(g, S) = j[S] /\ SumFunctionOnSet(c, S) = l[S]
  BY SumChosen
<1> HIDE DEF h, j, l
<1>5. h[{}] \in good[{}]
  BY <1>1, <1>2, <1>3
<1>6. ASSUME NEW p \in SUBSET S, p # {}
      PROVE  \E x \in p : h[p \ {x}] \in good[p \ {x}] => h[p] \in good[p]
  <2> DEFINE x == Member(p)
             q == p \ {x}
  <2>1. x \in p /\ x \in S /\ q \in SUBSET S
    BY <1>6, MemberIsIn
  <2>2. h[p] = f[x] + h[q] /\ j[p] = g[x] + j[q] /\ l[p] = c[x] + l[q]
    BY <1>1, <1>2, <1>3, <1>6
  <2>3. h[q] \in Int /\ j[q] \in Int /\ l[q] \in Int /\ h[p] \in Int
    BY <1>1, <1>2, <1>3, <2>1
  <2> HIDE DEF x, q
  <2>4. f[x] \in Int /\ g[x] \in Int /\ c[x] \in Int /\ f[x] + g[x] = c[x] * k
    BY <2>1 DEF Makes
  <2>5. ASSUME h[q] \in good[q] PROVE h[p] \in good[p]
    <3>1. h[q] + j[q] = l[q] * k
      BY <2>1, <2>5
    <3>2. (c[x] + l[q]) * k = c[x] * k + l[q] * k
      BY <2>3, <2>4
    <3>3. c[x] * k \in Int /\ l[q] * k \in Int
      BY <2>3, <2>4
    <3>4. h[p] + j[p] = l[p] * k
      BY <2>2, <2>3, <2>4, <3>1, <3>2, <3>3
    <3> QED BY <2>3, <3>4
  <2> QED BY <2>1, <2>5 DEF q
<1>7. \A p \in SUBSET S : h[p] \in good[p]
  <2> HIDE DEF good
  <2> QED BY <1>5, <1>6, FoldKeeps
<1>8. h[S] \in good[S]
  BY <1>7
<1> QED BY <1>4, <1>8 DEF SumsMake
-----------------------------------------------------------------------------
(* Sums that change at one end.                                            *)

\* The sum over a function with one argument more.
LEMMA SumWithMore ==
  ASSUME NEW S, IsFiniteSet(S), NEW x, x \notin S, NEW f, DOMAIN f = S, NEW g, DOMAIN g = S \union {x},
         \A y \in S : f[y] \in Int /\ f[y] = g[y], g[x] \in Int
  PROVE  SumFunction(f) \in Int /\ SumFunction(g) \in Int /\ SumFunction(g) = SumFunction(f) + g[x]
<1>1. SumFunction(f) = SumFunctionOnSet(f, S) /\ SumFunction(g) = SumFunctionOnSet(g, S \union {x})
  BY DEF SumFunction
<1>2. \A y \in S \union {x} : g[y] \in Int
  OBVIOUS
<1>3. SumFunctionOnSet(f, S) = SumFunctionOnSet(g, S)
  BY SumsAgree
<1>4. SumFunctionOnSet(g, S) \in Int /\ SumFunctionOnSet(g, S \union {x}) = g[x] + SumFunctionOnSet(g, S)
  BY <1>2, SumOfOneMore
<1> QED BY <1>1, <1>3, <1>4

LEMMA SumOfEmpty == ASSUME NEW f, DOMAIN f = {} PROVE SumFunction(f) = 0
BY SumOfNone DEF SumFunction

\* The sum over the first positions.
LEMMA SumOfFirst ==
  ASSUME NEW n \in Nat, NEW f, \A i \in 1..n : f[i] \in Int, NEW k \in 0..n
  PROVE  /\ SumFunctionOnSet(f, 1..k) \in Int
         /\ k < n => SumFunctionOnSet(f, 1..(k + 1)) = f[k + 1] + SumFunctionOnSet(f, 1..k)
<1>1. IsFiniteSet(1..k)
  BY FS_Interval
<1>2. \A i \in 1..k : f[i] \in Int
  OBVIOUS
<1>3. SumFunctionOnSet(f, 1..k) \in Int
  BY <1>1, <1>2, SumFoldIs, SumChosen
<1>4. ASSUME k < n PROVE SumFunctionOnSet(f, 1..(k + 1)) = f[k + 1] + SumFunctionOnSet(f, 1..k)
  <2>1. k + 1 \notin 1..k /\ 1..(k + 1) = (1..k) \union {k + 1} /\ k + 1 \in 1..n
    BY <1>4
  <2>2. \A i \in (1..k) \union {k + 1} : f[i] \in Int
    BY <1>2, <2>1
  <2> QED BY <1>1, <2>1, <2>2, SumOfOneMore
<1> QED BY <1>3, <1>4

Shifted(f, g, n) ==
  /\ DOMAIN f = 1..n /\ DOMAIN g = 1..(n + 1)
  /\ (\A i \in 1..n : f[i] \in Int /\ g[i + 1] = f[i]) /\ g[1] \in Int

\* The sum over a sequence with an element put first.
LEMMA SumOfShifted ==
  ASSUME NEW n \in Nat, NEW f, NEW g, Shifted(f, g, n)
  PROVE  SumFunction(f) \in Int /\ SumFunction(g) = SumFunction(f) + g[1]
<1> DEFINE A(k) == SumFunctionOnSet(f, 1..k)
           B(k) == SumFunctionOnSet(g, 1..(k + 1))
           good == {k \in 0..n : B(k) = A(k) + g[1]}
<1>1. (\A i \in 1..n : f[i] \in Int /\ g[i + 1] = f[i]) /\ \A i \in 1..(n + 1) : g[i] \in Int
  <2>1. \A i \in 1..n : f[i] \in Int /\ g[i + 1] = f[i]
    BY DEF Shifted
  <2>2. ASSUME NEW i \in 1..(n + 1) PROVE g[i] \in Int
    <3>1. CASE i = 1
      BY <3>1 DEF Shifted
    <3>2. CASE i # 1
      <4>1. i - 1 \in 1..n /\ (i - 1) + 1 = i
        BY <3>2
      <4> QED BY <2>1, <4>1
    <3> QED BY <3>1, <3>2
  <2> QED BY <2>1, <2>2
<1>2. ASSUME NEW k \in 0..n
      PROVE  A(k) \in Int /\ B(k) \in Int /\ (k < n => A(k + 1) = f[k + 1] + A(k) /\ B(k + 1) = g[k + 2] + B(k))
  <2>1. A(k) \in Int /\ (k < n => A(k + 1) = f[k + 1] + A(k))
    BY <1>1, SumOfFirst
  <2>2. k + 1 \in 0..(n + 1) /\ n + 1 \in Nat /\ (k < n => k + 1 < n + 1 /\ (k + 1) + 1 = k + 2)
    OBVIOUS
  <2> DEFINE j == k + 1
             m == n + 1
  <2>3. j \in 0..m /\ m \in Nat /\ \A i \in 1..m : g[i] \in Int
    BY <1>1, <2>2
  <2> HIDE DEF j, m
  <2>4. SumFunctionOnSet(g, 1..j) \in Int
        /\ (j < m => SumFunctionOnSet(g, 1..(j + 1)) = g[j + 1] + SumFunctionOnSet(g, 1..j))
    BY <2>3, SumOfFirst
  <2> QED BY <2>1, <2>2, <2>4 DEF j, m
<1>3. 0 \in good
  <2>1. 1..0 = {} /\ 1..1 = {1} /\ 1 \in 1..(n + 1) /\ 0 \in 0..n
    OBVIOUS
  <2>2. A(0) = 0
    BY <2>1, SumOfNone
  <2>3. B(0) = g[1]
    <3>1. 0 \in 0..(n + 1) /\ n + 1 \in Nat /\ 0 < n + 1
      OBVIOUS
    <3>2. SumFunctionOnSet(g, 1..(0 + 1)) = g[0 + 1] + SumFunctionOnSet(g, 1..0)
      BY <1>1, <3>1, SumOfFirst
    <3>3. SumFunctionOnSet(g, 1..0) = 0
      BY <2>1, SumOfNone
    <3> QED BY <1>1, <2>1, <3>2, <3>3
  <2> QED BY <1>1, <2>1, <2>2, <2>3
<1>4. ASSUME NEW k \in 0..(n - 1), k \in good PROVE k + 1 \in good
  <2>1. k \in 0..n /\ k < n /\ k + 1 \in 1..n /\ k + 1 \in 0..n /\ (k + 1) + 1 = k + 2 /\ 1 \in 1..(n + 1)
    OBVIOUS
  <2>2. f[k + 1] \in Int /\ g[k + 2] = f[k + 1] /\ g[1] \in Int
    BY <1>1, <2>1
  <2>3. A(k) \in Int /\ A(k + 1) = f[k + 1] + A(k) /\ B(k + 1) = g[k + 2] + B(k)
    BY <1>2, <2>1
  <2>4. B(k) = A(k) + g[1]
    BY <1>4
  <2> HIDE DEF A, B
  <2> QED BY <2>1, <2>2, <2>3, <2>4
<1>5. n \in good
  <2>1. 0..n \subseteq good
    <3> HIDE DEF good
    <3> QED BY <1>3, <1>4, Upward
  <2> QED BY <2>1
<1>6. SumFunction(f) = A(n) /\ SumFunction(g) = B(n)
  BY DEF SumFunction, Shifted
<1> QED BY <1>2, <1>5, <1>6

LEMMA SumOfNoughts ==
  ASSUME NEW S, IsFiniteSet(S), NEW g, \A x \in S : g[x] = 0
  PROVE  SumFunctionOnSet(g, S) = 0
<1> DEFINE h == SumFold(g, S)
           good == [s \in SUBSET S |-> {0}]
<1>1. h[{}] = 0 /\ \A s \in SUBSET S : s # {} => h[s] = g[Member(s)] + h[s \ {Member(s)}]
  <2>1. \A x \in S : g[x] \in Int
    OBVIOUS
  <2> QED BY <2>1, SumFoldIs
<1>2. SumFunctionOnSet(g, S) = h[S]
  BY SumChosen
<1> HIDE DEF h
<1>3. ASSUME NEW s \in SUBSET S, s # {}
      PROVE  \E x \in s : h[s \ {x}] \in good[s \ {x}] => h[s] \in good[s]
  <2>1. Member(s) \in s /\ h[s] = g[Member(s)] + h[s \ {Member(s)}]
    BY <1>1, <1>3, MemberIsIn
  <2>2. g[Member(s)] = 0 /\ s \ {Member(s)} \in SUBSET S
    BY <2>1
  <2>3. good[s] = {0} /\ good[s \ {Member(s)}] = {0}
    BY <2>2
  <2>4. h[s \ {Member(s)}] = 0 => h[s] = 0
    BY <2>1, <2>2
  <2> HIDE DEF good
  <2> QED BY <2>1, <2>3, <2>4
<1>4. \A s \in SUBSET S : h[s] \in good[s]
  <2>1. h[{}] \in good[{}]
    BY <1>1
  <2> HIDE DEF good
  <2> QED BY <1>3, <2>1, FoldKeeps
<1>5. h[S] \in {0}
  BY <1>4
<1> QED BY <1>2, <1>5
-----------------------------------------------------------------------------
(* Sums in parts, and first members.                                       *)

\* A sum leaves out what is nought.
LEMMA SumOfSome ==
  ASSUME NEW S, IsFiniteSet(S), NEW T \in SUBSET S, NEW f, \A x \in S : f[x] \in Int, \A x \in S \ T : f[x] = 0
  PROVE  SumFunctionOnSet(f, S) = SumFunctionOnSet(f, T)
<1> DEFINE Q == {p \in SUBSET (S \ T) : SumFunctionOnSet(f, T \union p) # SumFunctionOnSet(f, T)}
<1>1. IsFiniteSet(S \ T)
  BY FS_Subset
<1>2. ASSUME Q # {} PROVE FALSE
  <2>1. Q \subseteq SUBSET (S \ T)
    OBVIOUS
  <2>2. PICK p \in Q : \A x \in p : p \ {x} \notin Q
    <3> HIDE DEF Q
    <3> QED BY <1>1, <1>2, <2>1, SmallestOf
  <2>3. PICK x : x \in p
    <3>1. p # {}
      BY <2>2
    <3> QED BY <3>1
  <2> DEFINE R == T \union (p \ {x})
             U == T \union p
  <2>4. R \in SUBSET S /\ x \notin R /\ U = R \union {x} /\ x \in S \ T
    BY <2>1, <2>3
  <2>5. SumFunctionOnSet(f, R) = SumFunctionOnSet(f, T)
    BY <2>1, <2>2, <2>3
  <2>6. IsFiniteSet(R) /\ \A y \in R \union {x} : f[y] \in Int
    BY <2>4, FS_Subset
  <2> HIDE DEF R, U
  <2>7. SumFunctionOnSet(f, R) \in Int /\ SumFunctionOnSet(f, U) = f[x] + SumFunctionOnSet(f, R)
    BY <2>4, <2>6, SumOfOneMore
  <2>8. f[x] = 0
    BY <2>4
  <2>9. SumFunctionOnSet(f, U) = SumFunctionOnSet(f, T)
    BY <2>5, <2>7, <2>8
  <2> QED BY <2>2, <2>9 DEF U
<1>3. S = T \union (S \ T)
  OBVIOUS
<1>4. S \ T \notin Q
  BY <1>2
<1> QED BY <1>3, <1>4

\* A sum of ones counts.
LEMMA SumCounts ==
  ASSUME NEW S, IsFiniteSet(S), NEW T \in SUBSET S, NEW f, \A x \in S : f[x] = IF x \in T THEN 1 ELSE 0
  PROVE  SumFunctionOnSet(f, S) = Cardinality(T)
<1> DEFINE Q == {p \in SUBSET T : SumFunctionOnSet(f, p) # Cardinality(p)}
<1>1. IsFiniteSet(T)
  BY FS_Subset
<1>2. SumFunctionOnSet(f, S) = SumFunctionOnSet(f, T)
  BY SumOfSome
<1>3. ASSUME Q # {} PROVE FALSE
  <2>1. Q \subseteq SUBSET T
    OBVIOUS
  <2>2. PICK p \in Q : \A x \in p : p \ {x} \notin Q
    <3> HIDE DEF Q
    <3> QED BY <1>1, <1>3, <2>1, SmallestOf
  <2>3. PICK x : x \in p
    <3>1. p # {}
      BY <2>2, SumOfNone, FS_EmptySet
    <3> QED BY <3>1
  <2> DEFINE R == p \ {x}
  <2>4. R \in SUBSET T /\ x \notin R /\ p = R \union {x} /\ x \in T
    BY <2>1, <2>3
  <2>5. SumFunctionOnSet(f, R) = Cardinality(R)
    BY <2>1, <2>2, <2>3
  <2>6. IsFiniteSet(R) /\ \A y \in R \union {x} : f[y] \in Int
    BY <1>1, <2>4, FS_Subset
  <2>7. f[x] = 1
    BY <2>4
  <2> HIDE DEF R
  <2>8. SumFunctionOnSet(f, R \union {x}) = 1 + SumFunctionOnSet(f, R)
    BY <2>4, <2>6, <2>7, SumOfOneMore
  <2>9. Cardinality(R) \in Nat /\ Cardinality(R \union {x}) = Cardinality(R) + 1
    BY <2>4, <2>6, FS_AddElement, FS_CardinalityType
  <2> QED BY <2>2, <2>4, <2>5, <2>8, <2>9
<1>4. T \notin Q
  BY <1>3
<1> QED BY <1>2, <1>4

PartOf(p, key, b) == {x \in p : key[x] = b}
PartSums(f, key, B, p) == [b \in B |-> SumFunctionOnSet(f, PartOf(p, key, b))]

\* The sum over the parts of a set of the sums over each.
LEMMA SumOfParts ==
  ASSUME NEW S, IsFiniteSet(S), NEW B, IsFiniteSet(B), NEW key \in [S -> B], NEW f, \A x \in S : f[x] \in Int
  PROVE  SumFunctionOnSet(PartSums(f, key, B, S), B) = SumFunctionOnSet(f, S)
<1> DEFINE Adds(p) == SumFunctionOnSet(PartSums(f, key, B, p), B) = SumFunctionOnSet(f, p)
           Q == {p \in SUBSET S : ~Adds(p)}
<1>1. ASSUME NEW p \in SUBSET S
      PROVE  PartSums(f, key, B, p) \in [B -> Int]
  <2> SUFFICES ASSUME NEW b \in B PROVE SumFunctionOnSet(f, PartOf(p, key, b)) \in Int
    BY DEF PartSums
  <2>1. PartOf(p, key, b) \in SUBSET S
    BY DEF PartOf
  <2>2. IsFiniteSet(PartOf(p, key, b)) /\ \A x \in PartOf(p, key, b) : f[x] \in Int
    BY <2>1, FS_Subset
  <2> QED BY <2>2, SumFoldIs, SumChosen
<1>2. Adds({})
  <2>1. \A b \in B : PartSums(f, key, B, {})[b] = 0
    BY SumOfNone DEF PartSums, PartOf
  <2> QED BY <2>1, SumOfNoughts, SumOfNone
<1>3. ASSUME NEW p \in SUBSET S, NEW x \in p, Adds(p \ {x}) PROVE Adds(p)
  <2> DEFINE R == p \ {x}
             b == key[x]
             before == PartSums(f, key, B, R)
             after == PartSums(f, key, B, p)
  <2>1. R \in SUBSET S /\ x \notin R /\ p = R \union {x} /\ x \in S /\ b \in B
    OBVIOUS
  <2>2. IsFiniteSet(R) /\ \A y \in R \union {x} : f[y] \in Int
    BY <2>1, FS_Subset
  <2>3. SumFunctionOnSet(f, R) \in Int /\ SumFunctionOnSet(f, p) = f[x] + SumFunctionOnSet(f, R)
    BY <2>1, <2>2, SumOfOneMore
  <2>4. \A c \in B : c # b => after[c] = before[c]
    BY DEF PartSums, PartOf
  <2>5. after[b] = f[x] + before[b]
    <3> DEFINE P == PartOf(R, key, b)
    <3>1. x \notin P /\ PartOf(p, key, b) = P \union {x} /\ P \subseteq R
      BY DEF PartOf
    <3>2. IsFiniteSet(P) /\ \A y \in P \union {x} : f[y] \in Int
      BY <2>2, <3>1, FS_Subset
    <3> HIDE DEF P
    <3>3. SumFunctionOnSet(f, P \union {x}) = f[x] + SumFunctionOnSet(f, P)
      BY <3>1, <3>2, SumOfOneMore
    <3> QED BY <2>1, <3>1, <3>3 DEF PartSums, P
  <2>6. before \in [B -> Int] /\ after \in [B -> Int]
    BY <1>1, <2>1
  <2> HIDE DEF R, b, before, after
  <2>7. /\ SumFunctionOnSet(before, B) \in Int
        /\ SumFunctionOnSet(after, B) = SumFunctionOnSet(before, B) + (after[b] - before[b])
    BY <2>1, <2>4, <2>6, SumOfChange
  <2>8. before[b] \in Int /\ after[b] \in Int /\ f[x] \in Int
    BY <2>1, <2>2, <2>6
  <2>9. after[b] - before[b] = f[x]
    BY <2>5, <2>8
  <2>10. SumFunctionOnSet(before, B) = SumFunctionOnSet(f, R)
    BY <1>3 DEF before, R
  <2>11. SumFunctionOnSet(after, B) = SumFunctionOnSet(f, p)
    BY <2>3, <2>7, <2>8, <2>9, <2>10
  <2> QED BY <2>11 DEF after
<1>4. ASSUME Q # {} PROVE FALSE
  <2>1. Q \subseteq SUBSET S
    OBVIOUS
  <2>2. PICK p \in Q : \A x \in p : p \ {x} \notin Q
    <3> HIDE DEF Q
    <3> QED BY <1>4, <2>1, SmallestOf
  <2> HIDE DEF Adds
  <2>3. CASE p = {}
    BY <1>2, <2>2, <2>3
  <2>4. CASE p # {}
    <3>1. PICK x : x \in p
      BY <2>4
    <3>2. Adds(p \ {x})
      BY <2>1, <2>2, <3>1
    <3> QED BY <1>3, <2>1, <2>2, <3>1, <3>2
  <2> QED BY <2>3, <2>4
<1>5. S \notin Q
  BY <1>4
<1> QED BY <1>5

\* A finite set has a member that no other is before, whatever order R is.
LEMMA FirstExists ==
  ASSUME NEW S, IsFiniteSet(S), S # {}, NEW R,
         \A x \in S : <<x, x>> \notin R,
         \A x, y, z \in S : <<x, y>> \in R /\ <<y, z>> \in R => <<x, z>> \in R
  PROVE  \E x \in S : \A y \in S : <<y, x>> \notin R
<1> DEFINE Has(p) == \E x \in p : \A y \in p : <<y, x>> \notin R
           Q == {p \in SUBSET S : p # {} /\ ~Has(p)}
<1>1. ASSUME Q # {} PROVE FALSE
  <2>1. Q \subseteq SUBSET S
    OBVIOUS
  <2>2. PICK p \in Q : \A x \in p : p \ {x} \notin Q
    <3> HIDE DEF Q
    <3> QED BY <1>1, <2>1, SmallestOf
  <2>3. p \in SUBSET S /\ p # {} /\ ~Has(p)
    OBVIOUS
  <2>4. PICK x : x \in p
    BY <2>3
  <2>5. CASE p \ {x} = {}
    <3>1. p = {x}
      BY <2>4, <2>5
    <3> QED BY <2>3, <3>1
  <2>6. CASE p \ {x} # {}
    <3>1. PICK m \in p \ {x} : \A y \in p \ {x} : <<y, m>> \notin R
      BY <2>2, <2>3, <2>4, <2>6
    <3>2. CASE <<x, m>> \notin R
      BY <2>3, <3>1, <3>2
    <3>3. CASE <<x, m>> \in R
      <4>1. ASSUME NEW y \in p PROVE <<y, x>> \notin R
        <5>1. y \in S /\ m \in S /\ x \in S
          BY <2>3, <2>4, <3>1
        <5>2. y # x => <<y, m>> \notin R
          BY <3>1
        <5> QED BY <3>3, <5>1, <5>2
      <4> QED BY <2>3, <2>4, <4>1
    <3> QED BY <3>2, <3>3
  <2> QED BY <2>5, <2>6
<1>2. S \notin Q
  BY <1>1
<1> QED BY <1>2

\* A part and the rest.
LEMMA SplitInTwo ==
  ASSUME NEW S, IsFiniteSet(S), NEW T \in SUBSET S
  PROVE  Cardinality(S) = Cardinality(T) + Cardinality(S \ T)
<1> DEFINE U == S \ T
<1>1. IsFiniteSet(T) /\ IsFiniteSet(U)
  BY FS_Subset
<1> DEFINE V == T \union U
           W == T \intersect U
<1>2. V = S /\ W = {}
  OBVIOUS
<1>3. Cardinality(V) = Cardinality(T) + Cardinality(U) - Cardinality(W)
  <2> HIDE DEF U
  <2> QED BY <1>1, FS_Union
<1>4. Cardinality(T) \in Nat /\ Cardinality(U) \in Nat /\ Cardinality({}) = 0
  BY <1>1, FS_CardinalityType, FS_EmptySet
<1> HIDE DEF U, V, W
<1>5. Cardinality(S) = Cardinality(T) + Cardinality(U)
  BY <1>2, <1>3, <1>4
<1> QED BY <1>5 DEF U

\* Min of a set of numbers.
LEMMA MinIsLeast ==
  ASSUME NEW T, T \subseteq Nat, T # {}
  PROVE  Min(T) \in T /\ \A m \in T : Min(T) <= m
BY LeastOf DEF Min

\* A sum of multiples.
LEMMA SumOfMultiples ==
  ASSUME NEW S, IsFiniteSet(S), NEW f \in [S -> Int], NEW g \in [S -> Int], NEW k \in Int, \A x \in S : g[x] = f[x] * k
  PROVE  /\ SumFunctionOnSet(f, S) \in Int /\ SumFunctionOnSet(g, S) \in Int
         /\ SumFunctionOnSet(g, S) = SumFunctionOnSet(f, S) * k
<1> DEFINE zero == [x \in S |-> 0]
<1>1. zero \in [S -> Int] /\ \A x \in S : zero[x] = 0
  OBVIOUS
<1> HIDE DEF zero
<1>2. Makes(g, zero, f, k, S)
  BY <1>1 DEF Makes
<1>3. SumsMake(g, zero, f, k, S)
  BY <1>1, <1>2, SumsTogether
<1>4. SumFunctionOnSet(zero, S) = 0
  BY <1>1, SumOfNoughts
<1>5. SumFunctionOnSet(f, S) \in Int /\ SumFunctionOnSet(g, S) \in Int
  BY SumFoldIs, SumChosen
<1> QED BY <1>3, <1>4, <1>5 DEF SumsMake

\* The difference of two sums.
LEMMA SumOfDifferences ==
  ASSUME NEW S, IsFiniteSet(S), NEW f \in [S -> Int], NEW g \in [S -> Int], NEW d \in [S -> Int],
         \A x \in S : d[x] = f[x] - g[x]
  PROVE  /\ SumFunctionOnSet(f, S) \in Int /\ SumFunctionOnSet(g, S) \in Int
         /\ SumFunctionOnSet(d, S) = SumFunctionOnSet(f, S) - SumFunctionOnSet(g, S)
<1>1. Makes(d, g, f, 1, S)
  BY DEF Makes
<1>2. SumsMake(d, g, f, 1, S)
  BY <1>1, SumsTogether
<1>3. SumFunctionOnSet(f, S) \in Int /\ SumFunctionOnSet(g, S) \in Int /\ SumFunctionOnSet(d, S) \in Int
  BY SumFoldIs, SumChosen
<1> QED BY <1>2, <1>3 DEF SumsMake
=============================================================================
