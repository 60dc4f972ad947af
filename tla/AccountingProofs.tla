-------------------------- MODULE AccountingProofs ---------------------------
(***************************************************************************)
(* Proofs about what is counted and what is written and read: the attempts *)
(* of a proof-of-work search (PowJobs), the bytes of a server's quota      *)
(* (Environment), the payloads on the wire (Wire) and the bytes of posts,  *)
(* bundles and feedback (PostBytes).  The first three are folds: sums over *)
(* sets, and fields, blobs and entries written or read one after the       *)
(* other.  The laws of sums come first; they follow from the definition of *)
(* the community modules, where a fold is chosen to satisfy a recursive    *)
(* equation.  Those of folds over sequences come before Wire.              *)
(***************************************************************************)
EXTENDS Environment, PowJobs, Wire, PostBytes, FiniteSetTheorems, SequenceTheorems, WellFoundedInduction, TLAPS

-----------------------------------------------------------------------------
\* A set of naturals has a least element.
LEMMA LeastNatural ==
  ASSUME NEW A \in SUBSET Nat, A # {}
  PROVE  \E m \in A : \A k \in A : m <= k
<1>1. \E m \in A : \A k \in A : ~(<<k, m>> \in OpToRel(<, Nat))
  BY NatLessThanWellFounded, WFMin
<1>2. \A k, m \in Nat : <<k, m>> \in OpToRel(<, Nat) <=> k < m
  BY DEF OpToRel
<1>3. PICK m \in A : \A k \in A : ~(<<k, m>> \in OpToRel(<, Nat))
  BY <1>1
<1>4. ASSUME NEW k \in A PROVE m <= k
  <2>1. k \in Nat /\ m \in Nat
    OBVIOUS
  <2>2. ~(k < m)
    BY <1>2, <1>3, <2>1
  <2> QED
    BY <2>1, <2>2
<1> QED
  BY <1>4

\* Induction over the subsets of a finite set: whatever is good when it is good without
\* any one of its elements is good.
LEMMA SubsetInduction ==
  ASSUME NEW S, IsFiniteSet(S), NEW Good,
         \A s \in SUBSET S : (\A x \in s : s \ {x} \in Good) => s \in Good
  PROVE  \A s \in SUBSET S : s \in Good
<1> DEFINE Bad == {n \in Nat : \E s \in SUBSET S : Cardinality(s) = n /\ s \notin Good}
<1>1. \A s \in SUBSET S : IsFiniteSet(s) /\ Cardinality(s) \in Nat
  BY FS_Subset, FS_CardinalityType
<1>2. Bad = {}
  <2> SUFFICES ASSUME Bad # {} PROVE FALSE
    OBVIOUS
  <2>1. PICK m \in Bad : \A k \in Bad : m <= k
    BY LeastNatural
  <2>2. PICK s \in SUBSET S : Cardinality(s) = m /\ s \notin Good
    BY <2>1
  <2>3. ASSUME NEW x \in s PROVE s \ {x} \in Good
    <3>0. IsFiniteSet(s) /\ s \ {x} \in SUBSET S /\ m \in Nat
      BY <1>1, <2>2
    <3>a. Cardinality(s \ {x}) = Cardinality(s) - 1
      BY <3>0, FS_RemoveElement
    <3>b. Cardinality(s \ {x}) \in Nat
      BY <1>1, <3>0
    <3>1. s \ {x} \in SUBSET S /\ Cardinality(s \ {x}) = m - 1 /\ m - 1 \in Nat /\ ~(m <= m - 1)
      BY <2>2, <3>0, <3>a, <3>b
    <3>2. m - 1 \notin Bad
      BY <2>1, <3>1
    <3> QED
      BY <3>1, <3>2
  <2> QED
    BY <2>2, <2>3
<1> QED
  BY <1>1, <1>2

-----------------------------------------------------------------------------
\* A fold that takes the elements out of a set one by one.
Folded(it, S, base, step, c) ==
  it = [s \in SUBSET S |-> IF s = {} THEN base ELSE step[<<c[s], it[s \ {c[s]}]>>]]

LEMMA FoldExists ==
  ASSUME NEW S, IsFiniteSet(S), NEW c, \A s \in (SUBSET S) \ {{}} : c[s] \in s,
         NEW T, NEW base \in T, NEW step \in [S \X T -> T]
  PROVE  \E it \in [SUBSET S -> T] : Folded(it, S, base, step, c)
<1> DEFINE next(g, s) == IF s = {} THEN base ELSE step[<<c[s], g[s \ {c[s]}]>>]
           upTo(n, g) == g \in [SUBSET S -> T] /\ \A s \in SUBSET S : Cardinality(s) <= n => g[s] = next(g, s)
           Bad == {n \in Nat : ~\E g : upTo(n, g)}
<1>1. ASSUME NEW g \in [SUBSET S -> T], NEW s \in SUBSET S PROVE next(g, s) \in T
  <2>1. CASE s = {}
    BY <2>1
  <2>2. CASE s # {}
    <3>1. c[s] \in S /\ s \ {c[s]} \in SUBSET S
      BY <2>2
    <3>2. g[s \ {c[s]}] \in T
      BY <3>1
    <3>3. <<c[s], g[s \ {c[s]}]>> \in S \X T
      BY <3>1, <3>2
    <3>4. step[<<c[s], g[s \ {c[s]}]>>] \in T
      BY <3>3
    <3> QED
      BY <2>2, <3>4
  <2> QED
    BY <2>1, <2>2
<1>2. ASSUME NEW s \in SUBSET S
      PROVE  /\ Cardinality(s) \in Nat /\ (Cardinality(s) = 0 => s = {})
             /\ s # {} => s \ {c[s]} \in SUBSET S /\ Cardinality(s \ {c[s]}) = Cardinality(s) - 1
  <2>1. IsFiniteSet(s)
    BY FS_Subset
  <2> QED
    BY <2>1, FS_CardinalityType, FS_EmptySet, FS_RemoveElement
<1>3. Bad = {}
  <2> SUFFICES ASSUME Bad # {} PROVE FALSE
    OBVIOUS
  <2>1. PICK m \in Bad : \A k \in Bad : m <= k
    BY LeastNatural
  <2>2. CASE m = 0
    <3> DEFINE g == [s \in SUBSET S |-> base]
    <3>1. upTo(0, g)
      <4>1. ASSUME NEW s \in SUBSET S, Cardinality(s) <= 0 PROVE g[s] = next(g, s)
        <5>1. Cardinality(s) \in Nat /\ (Cardinality(s) = 0 => s = {})
          BY <1>2
        <5>2. s = {}
          BY <4>1, <5>1
        <5> QED
          BY <5>2
      <4>2. g \in [SUBSET S -> T]
        OBVIOUS
      <4> HIDE DEF g, next
      <4> QED
        BY <4>1, <4>2
    <3> HIDE DEF upTo, g
    <3>2. m \notin Bad
      BY <2>2, <3>1
    <3> QED
      BY <2>1, <3>2
  <2>3. CASE m # 0
    <3>a. m \in Nat
      BY <2>1
    <3>b. m - 1 \in Nat /\ ~(m <= m - 1)
      BY <2>3, <3>a
    <3>1. m - 1 \in Nat /\ m - 1 \notin Bad
      <4> HIDE DEF Bad
      <4> QED
        BY <2>1, <3>b
    <3>2. PICK g : upTo(m - 1, g)
      <4> HIDE DEF upTo
      <4> QED
        BY <3>1
    <3> DEFINE h == [s \in SUBSET S |-> next(g, s)]
    <3>3. g \in [SUBSET S -> T] /\ \A s \in SUBSET S : Cardinality(s) <= m - 1 => g[s] = next(g, s)
      BY <3>2
    <3> HIDE DEF next
    <3>4. h \in [SUBSET S -> T]
      BY <1>1, <3>3
    <3>5. \A s \in SUBSET S : Cardinality(s) <= m - 1 => h[s] = g[s]
      BY <3>3
    <3>6. ASSUME NEW s \in SUBSET S, Cardinality(s) <= m PROVE h[s] = next(h, s)
      <4>1. h[s] = next(g, s)
        OBVIOUS
      <4>2. s # {} => h[s \ {c[s]}] = g[s \ {c[s]}]
        <5> SUFFICES ASSUME s # {} PROVE h[s \ {c[s]}] = g[s \ {c[s]}]
          OBVIOUS
        <5>1. Cardinality(s) \in Nat /\ s \ {c[s]} \in SUBSET S /\ Cardinality(s \ {c[s]}) = Cardinality(s) - 1
          BY <1>2
        <5>2. Cardinality(s \ {c[s]}) <= m - 1
          BY <3>6, <3>a, <5>1
        <5> HIDE DEF h
        <5> QED
          BY <3>5, <5>1, <5>2
      <4> HIDE DEF h
      <4> QED
        BY <4>1, <4>2 DEF next
    <3>7. upTo(m, h)
      BY <3>4, <3>6
    <3> HIDE DEF upTo
    <3> QED
      BY <2>1, <3>7
  <2> QED
    BY <2>2, <2>3
<1>4. Cardinality(S) \in Nat
  BY FS_CardinalityType
<1>5. PICK g : upTo(Cardinality(S), g)
  BY <1>3, <1>4
<1>6. \A s \in SUBSET S : Cardinality(s) <= Cardinality(S)
  BY FS_Subset
<1>7. g = [s \in SUBSET S |-> next(g, s)]
  <2>1. g \in [SUBSET S -> T] /\ \A s \in SUBSET S : g[s] = next(g, s)
    BY <1>5, <1>6
  <2> HIDE DEF next
  <2> QED
    BY <2>1
<1> QED
  BY <1>5, <1>7 DEF Folded

-----------------------------------------------------------------------------
\* The sums over all subsets of a set, as the community modules define them.
Summed(f, S, it) ==
  it = [s \in SUBSET S |->
          IF s = {} THEN 0 ELSE f[CHOOSE x \in s : TRUE] + it[s \ {CHOOSE x \in s : TRUE}]]

SumsOf(f, S) == CHOOSE it : Summed(f, S, it)

LEMMA SumsDefined ==
  ASSUME NEW f, NEW S
  PROVE  SumFunctionOnSet(f, S) = SumsOf(f, S)[S] /\ SumFunction(f) = SumFunctionOnSet(f, DOMAIN f)
BY DEF SumFunction, SumFunctionOnSet, FoldFunctionOnSet, MapThenFoldSet, SumsOf, Summed

LEMMA SumsExist ==
  ASSUME NEW S, IsFiniteSet(S), NEW f, \A x \in S : f[x] \in Nat
  PROVE  Summed(f, S, SumsOf(f, S))
<1> DEFINE c == [s \in (SUBSET S) \ {{}} |-> CHOOSE x \in s : TRUE]
           step == [p \in S \X Nat |-> f[p[1]] + p[2]]
<1>1. \A s \in (SUBSET S) \ {{}} : c[s] \in s /\ c[s] = CHOOSE x \in s : TRUE
  OBVIOUS
<1>2. step \in [S \X Nat -> Nat] /\ 0 \in Nat
  OBVIOUS
<1>2a. \A x \in S, n \in Nat : step[<<x, n>>] = f[x] + n
  OBVIOUS
<1> HIDE DEF c, step
<1>3. PICK it \in [SUBSET S -> Nat] : Folded(it, S, 0, step, c)
  BY <1>1, <1>2, FoldExists
<1>4. ASSUME NEW s \in SUBSET S
      PROVE  it[s] = IF s = {} THEN 0
                     ELSE f[CHOOSE x \in s : TRUE] + it[s \ {CHOOSE x \in s : TRUE}]
  <2>1. it[s] = IF s = {} THEN 0 ELSE step[<<c[s], it[s \ {c[s]}]>>]
    BY <1>3 DEF Folded
  <2>2. CASE s # {}
    <3>1. c[s] \in S /\ c[s] = CHOOSE x \in s : TRUE
      BY <1>1, <2>2
    <3>2. it[s \ {c[s]}] \in Nat
      BY <1>3
    <3>3. step[<<c[s], it[s \ {c[s]}]>>] = f[c[s]] + it[s \ {c[s]}]
      BY <1>2a, <3>1, <3>2
    <3> QED
      BY <2>1, <2>2, <3>1, <3>3
  <2> QED
    BY <2>1, <2>2
<1>5. Summed(f, S, it)
  BY <1>3, <1>4 DEF Summed
<1> QED
  BY <1>5 DEF SumsOf

\* One step of a sum, of whatever set it is taken out of.
LEMMA SumsStep ==
  ASSUME NEW S, IsFiniteSet(S), NEW f, \A x \in S : f[x] \in Nat
  PROVE  /\ SumsOf(f, S)[{}] = 0
         /\ \A s \in (SUBSET S) \ {{}} : \E x \in s :
              /\ x = CHOOSE y \in s : TRUE
              /\ SumsOf(f, S)[s] = f[x] + SumsOf(f, S)[s \ {x}]
<1> DEFINE it == SumsOf(f, S)
<1>0. Summed(f, S, it)
  BY SumsExist
<1> HIDE DEF it
<1>1. \A s \in SUBSET S : it[s] =
          IF s = {} THEN 0
          ELSE f[CHOOSE x \in s : TRUE] + it[s \ {CHOOSE x \in s : TRUE}]
  BY <1>0 DEF Summed
<1>2. ASSUME NEW s \in (SUBSET S) \ {{}}
      PROVE  \E x \in s : /\ x = CHOOSE y \in s : TRUE
                          /\ it[s] = f[x] + it[s \ {x}]
  <2>1. (CHOOSE y \in s : TRUE) \in s
    OBVIOUS
  <2> QED
    BY <1>1, <2>1
<1>3. it[{}] = 0
  BY <1>1
<1> QED
  BY <1>2, <1>3 DEF it

\* The sum over a subset does not depend on the set it is a subset of.
LEMMA SumsOfSubset ==
  ASSUME NEW S, IsFiniteSet(S), NEW f, \A x \in S : f[x] \in Nat
  PROVE  \A s \in SUBSET S, R \in SUBSET S : s \subseteq R =>
           SumsOf(f, R)[s] \in Nat /\ SumsOf(f, R)[s] = SumFunctionOnSet(f, s)
<1> DEFINE Good == {s \in SUBSET S : \A R \in SUBSET S : s \subseteq R =>
                      SumsOf(f, R)[s] \in Nat /\ SumsOf(f, R)[s] = SumsOf(f, s)[s]}
<1>1. ASSUME NEW s \in SUBSET S, \A x \in s : s \ {x} \in Good PROVE s \in Good
  <2> SUFFICES ASSUME NEW R \in SUBSET S, s \subseteq R
               PROVE  SumsOf(f, R)[s] \in Nat /\ SumsOf(f, R)[s] = SumsOf(f, s)[s]
    OBVIOUS
  <2>1. IsFiniteSet(R) /\ IsFiniteSet(s)
    BY FS_Subset
  <2>2. CASE s = {}
    <3>1. SumsOf(f, R)[{}] = 0 /\ SumsOf(f, s)[{}] = 0
      BY <2>1, SumsStep
    <3> QED
      BY <2>2, <3>1
  <2>3. CASE s # {}
    <3>1. PICK x \in s : x = (CHOOSE y \in s : TRUE) /\ SumsOf(f, R)[s] = f[x] + SumsOf(f, R)[s \ {x}]
      <4>1. s \in (SUBSET R) \ {{}}
        BY <2>3
      <4> QED
        BY <2>1, <4>1, SumsStep
    <3>2. SumsOf(f, s)[s] = f[x] + SumsOf(f, s)[s \ {x}]
      <4>1. s \in (SUBSET s) \ {{}}
        BY <2>3
      <4>2. \A y \in s : f[y] \in Nat
        OBVIOUS
      <4>3. PICK z \in s : z = (CHOOSE y \in s : TRUE) /\ SumsOf(f, s)[s] = f[z] + SumsOf(f, s)[s \ {z}]
        BY <2>1, <4>1, <4>2, SumsStep
      <4>4. z = x
        BY <3>1, <4>3
      <4> QED
        BY <4>3, <4>4
    <3>3. s \ {x} \in Good
      BY <1>1
    <3>4. /\ SumsOf(f, R)[s \ {x}] \in Nat
          /\ SumsOf(f, R)[s \ {x}] = SumsOf(f, s)[s \ {x}]
      BY <3>3
    <3>5. f[x] \in Nat
      OBVIOUS
    <3> QED
      BY <3>1, <3>2, <3>4, <3>5
  <2> QED
    BY <2>2, <2>3
<1> HIDE DEF Good
<1>2. \A s \in SUBSET S : s \in Good
  BY <1>1, SubsetInduction
<1> QED
  BY <1>2, SumsDefined DEF Good

LEMMA SumIsNatural ==
  ASSUME NEW S, IsFiniteSet(S), NEW f, \A x \in S : f[x] \in Nat
  PROVE  SumFunctionOnSet(f, S) \in Nat
BY SumsOfSubset

LEMMA SumOfNone ==
  ASSUME NEW f
  PROVE  SumFunctionOnSet(f, {}) = 0
<1>1. IsFiniteSet({}) /\ \A x \in {} : f[x] \in Nat
  BY FS_EmptySet
<1> QED
  BY <1>1, SumsStep, SumsDefined

\* The sum over a set is one of its values and the sum over the rest.
LEMMA SumTakesOne ==
  ASSUME NEW S, IsFiniteSet(S), S # {}, NEW f, \A x \in S : f[x] \in Nat
  PROVE  \E x \in S : SumFunctionOnSet(f, S) = f[x] + SumFunctionOnSet(f, S \ {x})
<1>1. PICK x \in S : SumsOf(f, S)[S] = f[x] + SumsOf(f, S)[S \ {x}]
  BY SumsStep
<1>2. S \ {x} \in SUBSET S /\ S \in SUBSET S
  OBVIOUS
<1>3. SumsOf(f, S)[S \ {x}] = SumFunctionOnSet(f, S \ {x}) /\ SumsOf(f, S)[S] = SumFunctionOnSet(f, S)
  BY <1>2, SumsOfSubset
<1> QED
  BY <1>1, <1>3

\* ... whichever it is.
LEMMA SumTakesAny ==
  ASSUME NEW S, IsFiniteSet(S), NEW f, \A x \in S : f[x] \in Nat
  PROVE  \A x \in S : SumFunctionOnSet(f, S) = f[x] + SumFunctionOnSet(f, S \ {x})
<1> DEFINE sum(s) == SumFunctionOnSet(f, s)
           Good == {s \in SUBSET S : \A x \in s : sum(s) = f[x] + sum(s \ {x})}
<1>0. \A s \in SUBSET S : IsFiniteSet(s) /\ sum(s) \in Nat
  <2> TAKE s \in SUBSET S
  <2>1. IsFiniteSet(s)
    BY FS_Subset
  <2> QED
    BY <2>1, SumIsNatural
<1>1. ASSUME NEW s \in SUBSET S, \A x \in s : s \ {x} \in Good PROVE s \in Good
  <2> SUFFICES ASSUME NEW x \in s PROVE sum(s) = f[x] + sum(s \ {x})
    OBVIOUS
  <2>1. PICK y \in s : sum(s) = f[y] + sum(s \ {y})
    BY <1>0, SumTakesOne
  <2>2. CASE x # y
    <3>1. s \ {x} \in Good /\ s \ {y} \in Good /\ y \in s \ {x} /\ x \in s \ {y}
      BY <1>1, <2>2
    <3>2. sum(s \ {y}) = f[x] + sum((s \ {y}) \ {x})
      BY <3>1
    <3>3. sum(s \ {x}) = f[y] + sum((s \ {x}) \ {y})
      BY <3>1
    <3>4. (s \ {y}) \ {x} = (s \ {x}) \ {y} /\ (s \ {x}) \ {y} \in SUBSET S
      OBVIOUS
    <3>5. sum((s \ {x}) \ {y}) \in Nat /\ f[x] \in Nat /\ f[y] \in Nat
      BY <1>0, <3>4
    <3> HIDE DEF sum
    <3> QED
      BY <2>1, <3>2, <3>3, <3>4, <3>5
  <2> QED
    BY <2>1, <2>2
<1> HIDE DEF Good
<1>2. \A s \in SUBSET S : s \in Good
  BY <1>1, SubsetInduction
<1> QED
  BY <1>2 DEF Good

\* Two functions that agree have the same sum.
LEMMA SumOfEqual ==
  ASSUME NEW S, IsFiniteSet(S), NEW f, NEW g, \A x \in S : f[x] \in Nat /\ f[x] = g[x]
  PROVE  SumFunctionOnSet(f, S) = SumFunctionOnSet(g, S)
<1> DEFINE Good == {s \in SUBSET S : SumFunctionOnSet(f, s) = SumFunctionOnSet(g, s)}
<1>1. ASSUME NEW s \in SUBSET S, \A x \in s : s \ {x} \in Good PROVE s \in Good
  <2>1. IsFiniteSet(s) /\ \A x \in s : f[x] \in Nat /\ g[x] \in Nat
    BY FS_Subset
  <2>2. CASE s = {}
    BY <2>2, SumOfNone
  <2>3. CASE s # {}
    <3>1. PICK x \in s : SumFunctionOnSet(f, s) = f[x] + SumFunctionOnSet(f, s \ {x})
      BY <2>1, <2>3, SumTakesOne
    <3>2. SumFunctionOnSet(g, s) = g[x] + SumFunctionOnSet(g, s \ {x})
      BY <2>1, SumTakesAny
    <3>3. SumFunctionOnSet(f, s \ {x}) = SumFunctionOnSet(g, s \ {x})
      BY <1>1
    <3> QED
      BY <3>1, <3>2, <3>3
  <2> QED
    BY <2>2, <2>3
<1> HIDE DEF Good
<1>2. \A s \in SUBSET S : s \in Good
  BY <1>1, SubsetInduction
<1> QED
  BY <1>2 DEF Good

\* The sum over a set is that over a part of it and that over the rest.
LEMMA SumSplit ==
  ASSUME NEW S, IsFiniteSet(S), NEW f, \A x \in S : f[x] \in Nat, NEW P \in SUBSET S
  PROVE  SumFunctionOnSet(f, S) = SumFunctionOnSet(f, P) + SumFunctionOnSet(f, S \ P)
<1> DEFINE sum(s) == SumFunctionOnSet(f, s)
           Good == {s \in SUBSET S : sum(S) = sum(s) + sum(S \ s)}
<1>0. \A s \in SUBSET S : IsFiniteSet(s) /\ sum(s) \in Nat
  <2> TAKE s \in SUBSET S
  <2>1. IsFiniteSet(s)
    BY FS_Subset
  <2> QED
    BY <2>1, SumIsNatural
<1>1. ASSUME NEW s \in SUBSET S, \A x \in s : s \ {x} \in Good PROVE s \in Good
  <2>1. CASE s = {}
    <3>1. sum({}) = 0 /\ S \ {} = S /\ sum(S) \in Nat
      BY <1>0, SumOfNone
    <3> HIDE DEF sum
    <3> QED
      BY <2>1, <3>1
  <2>2. CASE s # {}
    <3>1. PICK x \in s : TRUE
      BY <2>2
    <3>2. sum(S) = sum(s \ {x}) + sum(S \ (s \ {x}))
      BY <1>1
    <3>3. sum(s) = f[x] + sum(s \ {x})
      BY <1>0, SumTakesAny
    <3> DEFINE r == S \ (s \ {x})
    <3>4. r \in SUBSET S /\ x \in r /\ r \ {x} = S \ s
      OBVIOUS
    <3>5. sum(r) = f[x] + sum(r \ {x})
      <4> HIDE DEF r
      <4> QED
        BY <1>0, <3>4, SumTakesAny
    <3>6. f[x] \in Nat /\ sum(s \ {x}) \in Nat /\ sum(S \ s) \in Nat
      BY <1>0
    <3>7. sum(S) = sum(s) + sum(S \ s)
      <4>1. sum(r) = f[x] + sum(S \ s)
        BY <3>4, <3>5
      <4>2. sum(S) = sum(s \ {x}) + sum(r)
        BY <3>2
      <4> HIDE DEF sum, r
      <4> QED
        BY <3>3, <3>6, <4>1, <4>2
    <3> QED
      BY <3>7
  <2> QED
    BY <2>1, <2>2
<1> HIDE DEF Good
<1>2. \A s \in SUBSET S : s \in Good
  BY <1>1, SubsetInduction
<1> QED
  BY <1>2 DEF Good

\* A sum of nothings is nothing.
LEMMA SumOfZeros ==
  ASSUME NEW S, IsFiniteSet(S), NEW f, \A x \in S : f[x] = 0
  PROVE  SumFunctionOnSet(f, S) = 0
<1> DEFINE Good == {s \in SUBSET S : SumFunctionOnSet(f, s) = 0}
<1>1. ASSUME NEW s \in SUBSET S, \A x \in s : s \ {x} \in Good PROVE s \in Good
  <2>1. IsFiniteSet(s) /\ \A x \in s : f[x] \in Nat /\ f[x] = 0
    BY FS_Subset
  <2>2. CASE s = {}
    BY <2>2, SumOfNone
  <2>3. CASE s # {}
    <3>1. PICK x \in s : SumFunctionOnSet(f, s) = f[x] + SumFunctionOnSet(f, s \ {x})
      BY <2>1, <2>3, SumTakesOne
    <3>2. SumFunctionOnSet(f, s \ {x}) = 0
      BY <1>1
    <3>3. SumFunctionOnSet(f, s) = 0
      BY <2>1, <3>1, <3>2
    <3> QED
      BY <3>3
  <2> QED
    BY <2>2, <2>3
<1> HIDE DEF Good
<1>2. \A s \in SUBSET S : s \in Good
  BY <1>1, SubsetInduction
<1> QED
  BY <1>2 DEF Good
-----------------------------------------------------------------------------
(***************************************************************************)
(* The searches: chunks.                                                   *)
(***************************************************************************)
LEMMA PowBounds ==
  /\ IsFiniteSet(Slots) /\ Cardinality(Slots) \in Nat /\ Slots = 1 .. Cardinality(Slots)
  /\ \A j \in Jobs : IterationCap[j] \in Nat
  /\ ChunkIterations \in Nat /\ ChunkIterations > 0 /\ MaxPow \in Nat
BY PowJobsAssumption, FS_CardinalityType

\* The smaller and the larger of two numbers.
LEMMA MinMaxOfTwo ==
  ASSUME NEW a \in Nat, NEW b \in Nat
  PROVE  /\ Min({a, b}) = IF a <= b THEN a ELSE b
         /\ Max({a, b}) = IF a <= b THEN b ELSE a
<1>1. Min({a, b}) \in {a, b} /\ \A y \in {a, b} : Min({a, b}) <= y
  <2>1. \E x \in {a, b} : \A y \in {a, b} : x <= y
    OBVIOUS
  <2> QED
    BY <2>1 DEF Min
<1>2. Max({a, b}) \in {a, b} /\ \A y \in {a, b} : Max({a, b}) >= y
  <2>1. \E x \in {a, b} : \A y \in {a, b} : x >= y
    OBVIOUS
  <2> QED
    BY <2>1 DEF Max
<1> QED
  BY <1>1, <1>2

\* A capped search cuts no more off than remains, and nothing only when nothing does; one
\* without a cap always goes on.
LEMMA ChunkLemma ==
  ASSUME NEW j \in Jobs, NEW remaining \in Nat
  PROVE  LET size == PickNextChunkSize(j, remaining)
         IN  /\ size \in Nat /\ LeftOver(j, remaining, size) \in Nat
             /\ Capped(j) => /\ size = IF remaining <= ChunkIterations THEN remaining ELSE ChunkIterations
                             /\ LeftOver(j, remaining, size) + size = remaining
                             /\ size = 0 <=> remaining = 0
             /\ ~Capped(j) => size > 0
<1> DEFINE size == PickNextChunkSize(j, remaining)
<1>1. size = IF Capped(j) THEN IF remaining <= ChunkIterations THEN remaining ELSE ChunkIterations
             ELSE ChunkIterations
  BY PowBounds, MinMaxOfTwo DEF PickNextChunkSize
<1>2. size \in Nat /\ (Capped(j) => size <= remaining)
  BY <1>1, PowBounds
<1> HIDE DEF size
<1>3. LeftOver(j, remaining, size) = IF Capped(j) THEN remaining - size ELSE 0
  BY <1>2 DEF LeftOver
<1> QED
  BY <1>1, <1>2, <1>3, PowBounds DEF size

\* What remains of the cap before each slot is filled.
RemainsBefore(j, before) ==
  before = [s \in Slots \cup {0} |->
              IF s = 0 THEN IterationCap[j]
              ELSE LeftOver(j, before[s - 1], PickNextChunkSize(j, before[s - 1]))]

LEMMA RemainsLemma ==
  ASSUME NEW j \in Jobs
  PROVE  LET before == CHOOSE b : RemainsBefore(j, b)
         IN  /\ RemainsBefore(j, before)
             /\ \A s \in Slots \cup {0} : before[s] \in Nat
<1> DEFINE cap == IterationCap[j]
           C == ChunkIterations
           n == Cardinality(Slots)
           g == [s \in Slots \cup {0} |-> IF Capped(j) /\ cap > s * C THEN cap - s * C ELSE 0]
<1>1. Slots \cup {0} = 0 .. n /\ n \in Nat /\ cap \in Nat /\ C \in Nat /\ C > 0 /\ (Capped(j) <=> cap > 0)
  BY PowBounds DEF Capped
<1>2. \A s \in 0 .. n : s * C \in Nat
  BY <1>1
<1>3. \A s \in 0 .. n : g[s] \in Nat /\ g[s] = IF Capped(j) /\ cap > s * C THEN cap - s * C ELSE 0
  <2> HIDE DEF n, cap
  <2> QED
    BY <1>1, <1>2
<1>4. ASSUME NEW s \in 0 .. n, s # 0
      PROVE  g[s] = LeftOver(j, g[s - 1], PickNextChunkSize(j, g[s - 1]))
  <2>1. s - 1 \in 0 .. n /\ s * C = (s - 1) * C + C /\ (s - 1) * C \in Nat
    <3> HIDE DEF n
    <3> QED
      BY <1>1, <1>4
  <2>2. g[s - 1] \in Nat /\ g[s] \in Nat
    BY <1>3, <2>1
  <2> DEFINE r == g[s - 1]
             size == PickNextChunkSize(j, r)
  <2>3. CASE Capped(j)
    <3>1. LeftOver(j, r, size) + size = r /\ LeftOver(j, r, size) \in Nat /\ size \in Nat
          /\ size = IF r <= C THEN r ELSE C
      BY <2>2, <2>3, ChunkLemma
    <3>2. r = IF cap > (s - 1) * C THEN cap - (s - 1) * C ELSE 0
      <4>1. s - 1 \in 0 .. n
        BY <2>1
      <4> HIDE DEF g, n, cap, C
      <4> QED
        BY <1>3, <2>3, <4>1
    <3>3. g[s] = IF cap > s * C THEN cap - s * C ELSE 0
      BY <1>3, <2>3
    <3> HIDE DEF g, size, r, cap, C
    <3>4. g[s] = LeftOver(j, r, size)
      BY <1>1, <2>1, <3>1, <3>2, <3>3
    <3> QED
      BY <3>4 DEF r, size
  <2>4. CASE ~Capped(j)
    <3>1. g[s] = 0
      BY <1>3, <2>4
    <3>2. LeftOver(j, r, size) = 0
      BY <2>4 DEF LeftOver
    <3> QED
      BY <3>1, <3>2
  <2> QED
    BY <2>3, <2>4
<1>5. g[0] = cap
  BY <1>1, <1>3
<1> DEFINE h == [s \in Slots \cup {0} |->
                   IF s = 0 THEN cap ELSE LeftOver(j, g[s - 1], PickNextChunkSize(j, g[s - 1]))]
<1>6. g = h
  <2>1. DOMAIN g = Slots \cup {0} /\ g = [s \in Slots \cup {0} |-> g[s]]
    OBVIOUS
  <2>2. \A s \in Slots \cup {0} : g[s] = h[s]
    <3> HIDE DEF g
    <3> QED
      BY <1>1, <1>4, <1>5
  <2> HIDE DEF g
  <2> QED
    BY <2>1, <2>2
<1>7. RemainsBefore(j, g)
  BY <1>6 DEF RemainsBefore
<1> DEFINE before == CHOOSE b : RemainsBefore(j, b)
<1>8. RemainsBefore(j, before)
  BY <1>7
<1> HIDE DEF before, g
<1>9. before[0] = cap /\ \A s \in Slots : before[s] = LeftOver(j, before[s - 1], PickNextChunkSize(j, before[s - 1]))
  <2>1. 0 \notin Slots
    BY PowBounds
  <2> QED
    BY <1>8, <2>1 DEF RemainsBefore
<1> DEFINE Bad == {k \in 0 .. n : before[k] \notin Nat}
<1>10. Bad = {}
  <2> SUFFICES ASSUME Bad # {} PROVE FALSE
    OBVIOUS
  <2>1. PICK m \in Bad : \A k \in Bad : m <= k
    <3>1. Bad \in SUBSET Nat
      BY <1>1
    <3> HIDE DEF Bad
    <3> QED
      BY <3>1, LeastNatural
  <2>2. m \in 0 .. n /\ before[m] \notin Nat
    BY <2>1
  <2>3. m # 0
    BY <1>1, <1>9, <2>2
  <2>4. m \in Slots /\ m - 1 \in 0 .. n /\ ~(m <= m - 1)
    BY <1>1, <2>2, <2>3
  <2>5. before[m - 1] \in Nat
    BY <2>1, <2>4
  <2>6. before[m] = LeftOver(j, before[m - 1], PickNextChunkSize(j, before[m - 1]))
    BY <1>9, <2>4
  <2> QED
    BY <2>2, <2>5, <2>6, ChunkLemma
<1>11. \A s \in Slots \cup {0} : before[s] \in Nat
  BY <1>1, <1>10
<1> QED
  BY <1>8, <1>11 DEF before

\* The first fill of the slots hands out the cap: what is in flight and what is left.
LEMMA FirstChunksLemma ==
  ASSUME NEW j \in Jobs
  PROVE  /\ FirstChunks(j).size \in [Slots -> Nat]
         /\ FirstChunks(j).left \in Nat
         /\ Capped(j) => FirstChunks(j).left + SumFunction(FirstChunks(j).size) = IterationCap[j]
<1> DEFINE before == CHOOSE b : RemainsBefore(j, b)
           size == [s \in Slots |-> PickNextChunkSize(j, before[s - 1])]
           n == Cardinality(Slots)
<1>1. FirstChunks(j) = [size |-> size, left |-> before[n]]
  BY DEF FirstChunks, RemainsBefore
<1>2. RemainsBefore(j, before) /\ \A s \in Slots \cup {0} : before[s] \in Nat
  BY RemainsLemma
<1> HIDE DEF before
<1>3. Slots \cup {0} = 0 .. n /\ Slots = 1 .. n /\ n \in Nat /\ IterationCap[j] \in Nat
  BY PowBounds
<1> HIDE DEF n
<1>4. before[0] = IterationCap[j]
      /\ \A s \in Slots : before[s] = LeftOver(j, before[s - 1], PickNextChunkSize(j, before[s - 1]))
  <2>1. 0 \notin Slots
    BY <1>3
  <2> QED
    BY <1>2, <2>1 DEF RemainsBefore
<1>5. \A s \in Slots : s - 1 \in Slots \cup {0} /\ size[s] = PickNextChunkSize(j, before[s - 1])
  BY <1>3
<1> HIDE DEF size
<1>6. \A s \in Slots : before[s - 1] \in Nat /\ size[s] \in Nat
                       /\ (Capped(j) => before[s] + size[s] = before[s - 1])
  BY <1>2, <1>4, <1>5, ChunkLemma
<1>7. size \in [Slots -> Nat]
  BY <1>6 DEF size
<1>8. ASSUME Capped(j) PROVE before[n] + SumFunction(size) = IterationCap[j]
  <2> DEFINE sum(k) == SumFunctionOnSet(size, 1 .. k)
             Bad == {k \in 0 .. n : before[k] + sum(k) # IterationCap[j]}
  <2>1. Bad = {}
    <3> SUFFICES ASSUME Bad # {} PROVE FALSE
      OBVIOUS
    <3>1. PICK m \in Bad : \A k \in Bad : m <= k
      <4>1. Bad \in SUBSET Nat
        BY <1>3
      <4> HIDE DEF Bad
      <4> QED
        BY <4>1, LeastNatural
    <3>2. m \in 0 .. n /\ before[m] + sum(m) # IterationCap[j]
      BY <3>1
    <3>3. m # 0
      <4>1. 1 .. 0 = {}
        OBVIOUS
      <4>2. sum(0) = 0
        BY <4>1, SumOfNone
      <4> HIDE DEF sum
      <4> QED
        BY <1>3, <1>4, <3>2, <4>2
    <3>4. m \in Slots /\ m - 1 \in 0 .. n /\ ~(m <= m - 1) /\ 1 .. m \subseteq Slots /\ m \in 1 .. m
          /\ (1 .. m) \ {m} = 1 .. m - 1
      BY <1>3, <3>2, <3>3
    <3>5. before[m - 1] + sum(m - 1) = IterationCap[j]
      <4> HIDE DEF sum
      <4> QED
        BY <3>1, <3>4
    <3>6. sum(m) = size[m] + sum(m - 1)
      <4>1. IsFiniteSet(1 .. m) /\ \A x \in 1 .. m : size[x] \in Nat
        BY <1>6, <3>4, PowBounds, FS_Subset
      <4>2. sum(m) = size[m] + SumFunctionOnSet(size, (1 .. m) \ {m})
        BY <3>4, <4>1, SumTakesAny
      <4> QED
        BY <3>4, <4>2
    <3>7. sum(m - 1) \in Nat
      <4>1. 1 .. m - 1 \subseteq Slots
        BY <3>4
      <4>2. IsFiniteSet(1 .. m - 1) /\ \A x \in 1 .. m - 1 : size[x] \in Nat
        BY <1>6, <4>1, PowBounds, FS_Subset
      <4> QED
        BY <4>2, SumIsNatural
    <3>8. before[m] + size[m] = before[m - 1] /\ before[m] \in Nat /\ size[m] \in Nat /\ before[m - 1] \in Nat
      BY <1>2, <1>6, <1>8, <3>4
    <3> HIDE DEF sum
    <3> QED
      BY <3>2, <3>5, <3>6, <3>7, <3>8
  <2>2. before[n] + sum(n) = IterationCap[j]
    <3>1. n \in 0 .. n
      BY <1>3
    <3> HIDE DEF sum
    <3> QED
      BY <2>1, <3>1
  <2>3. SumFunction(size) = sum(n)
    BY <1>3, <1>7, SumsDefined
  <2> QED
    BY <2>2, <2>3
<1> QED
  BY <1>1, <1>2, <1>3, <1>7, <1>8
-----------------------------------------------------------------------------
(***************************************************************************)
(* The searches: steps.                                                    *)
(***************************************************************************)
\* When one value changes the sum changes by as much.
LEMMA SumChanged ==
  ASSUME NEW S, IsFiniteSet(S), NEW f \in [S -> Nat], NEW x \in S, NEW v \in Nat
  PROVE  /\ SumFunction(f) \in Nat /\ f[x] <= SumFunction(f)
         /\ SumFunction([f EXCEPT ![x] = v]) = SumFunction(f) - f[x] + v
<1> DEFINE g == [f EXCEPT ![x] = v]
           rest == S \ {x}
<1>1. g \in [S -> Nat] /\ g[x] = v /\ \A y \in rest : g[y] = f[y]
  OBVIOUS
<1> HIDE DEF g
<1>2. SumFunction(f) = SumFunctionOnSet(f, S) /\ SumFunction(g) = SumFunctionOnSet(g, S)
  BY <1>1, SumsDefined
<1>3. /\ SumFunctionOnSet(f, S) = f[x] + SumFunctionOnSet(f, rest)
      /\ SumFunctionOnSet(g, S) = v + SumFunctionOnSet(g, rest)
  BY <1>1, SumTakesAny
<1>4. IsFiniteSet(rest) /\ \A y \in rest : f[y] \in Nat /\ f[y] = g[y]
  BY <1>1, FS_Subset
<1> HIDE DEF rest
<1>5. SumFunctionOnSet(f, rest) = SumFunctionOnSet(g, rest) /\ SumFunctionOnSet(f, rest) \in Nat
  BY <1>4, SumOfEqual, SumIsNatural
<1>6. f[x] \in Nat
  OBVIOUS
<1>7. SumFunction(f) \in Nat /\ f[x] <= SumFunction(f) /\ SumFunction(g) = SumFunction(f) - f[x] + v
  BY <1>2, <1>3, <1>5, <1>6
<1> QED
  BY <1>7 DEF g

Search == [at : {"new", "running", "done", "failed", "cancelled"}, remaining : Nat,
           flight : [Slots -> Nat], total : Nat, best : Nat]

\* What SearchesAddUp says of one search.
AddsUp(j, r) ==
  /\ Capped(j) /\ r.at = "running" => r.total + r.remaining + SumFunction(r.flight) = IterationCap[j]
  /\ r.at = "done" /\ r.best < MaxPow => Capped(j) /\ r.total = IterationCap[j]

SearchesInd == job \in [Jobs -> Search] /\ \A j \in Jobs : AddsUp(j, job[j])

LEMMA SearchesIndAddUp == SearchesInd => SearchesAddUp
BY DEF SearchesInd, AddsUp, SearchesAddUp, AttemptsAddUp, ShortOnlyWhenSpent

\* What changes of a search in one turn of the loop.
LEMMA SearchChanged ==
  ASSUME NEW q \in Search
  PROVE  /\ \A best \in Nat, flight \in [Slots -> Nat] :
              [[q EXCEPT !.best = best] EXCEPT !.flight = flight] \in Search
         /\ \A n \in Nat : [q EXCEPT !.total = n] \in Search /\ [q EXCEPT !.remaining = n] \in Search
         /\ \A at \in {"done", "running"} : [q EXCEPT !.at = at] \in Search
BY DEF Search

\* One search changes, the others do not.
LEMMA OneSearchChanges ==
  ASSUME SearchesInd, NEW j \in Jobs, NEW r \in Search, AddsUp(j, r),
         job' = [job EXCEPT ![j] = r]
  PROVE  SearchesInd'
BY DEF SearchesInd, AddsUp, Capped

\* A search that is not running any more, and did not come to its end.
LEMMA SearchStopped ==
  ASSUME SearchesInd, NEW j, NEW at \in {"failed", "cancelled"}, job' = [job EXCEPT ![j].at = at]
  PROVE  SearchesInd'
<1>1. CASE j \in Jobs
  <2> DEFINE r == [job[j] EXCEPT !.at = at]
  <2>1. job[j] \in Search
    BY <1>1 DEF SearchesInd
  <2>2. r \in Search /\ r.at = at
    BY <2>1 DEF Search
  <2>3. job' = [job EXCEPT ![j] = r]
    OBVIOUS
  <2> HIDE DEF r
  <2>4. AddsUp(j, r)
    BY <2>2 DEF AddsUp
  <2> QED
    BY <1>1, <2>2, <2>3, <2>4, OneSearchChanges
<1>2. CASE j \notin Jobs
  <2>1. job' = job
    BY <1>2 DEF SearchesInd
  <2> QED
    BY <2>1 DEF SearchesInd, AddsUp, Capped
<1> QED
  BY <1>1, <1>2

LEMMA RunPoolAddsUp ==
  ASSUME SearchesInd, NEW j \in Jobs, NEW seed \in 0 .. MaxPow, RunPool(j, seed)
  PROVE  SearchesInd'
<1>1. seed \in Nat /\ MaxPow \in Nat
  BY PowBounds
<1>2. job[j] \in Search
  BY DEF SearchesInd
<1>3. CASE seed >= MaxPow
  <2> DEFINE r == [[job[j] EXCEPT !.at = "done"] EXCEPT !.best = seed]
  <2>1. r \in Search /\ r.best = seed /\ r.at = "done"
    BY <1>1, <1>2 DEF Search
  <2>2. job' = [job EXCEPT ![j] = r]
    BY <1>3 DEF RunPool, SearchesInd
  <2> HIDE DEF r
  <2>3. AddsUp(j, r)
    BY <1>1, <1>3, <2>1 DEF AddsUp
  <2> QED
    BY <2>1, <2>2, <2>3, OneSearchChanges
<1>4. CASE ~(seed >= MaxPow)
  <2> DEFINE r == [at |-> "running", remaining |-> FirstChunks(j).left,
                   flight |-> FirstChunks(j).size, total |-> 0, best |-> seed]
  <2>1. FirstChunks(j).size \in [Slots -> Nat] /\ FirstChunks(j).left \in Nat
    BY FirstChunksLemma
  <2>2. r \in Search
    BY <1>1, <2>1 DEF Search
  <2>3. job' = [job EXCEPT ![j] = r]
    BY <1>4 DEF RunPool
  <2>4. SumFunction(FirstChunks(j).size) \in Nat
    BY <2>1, SumsDefined, SumIsNatural, PowBounds
  <2>5. Capped(j) => FirstChunks(j).left + SumFunction(FirstChunks(j).size) = IterationCap[j]
    BY FirstChunksLemma
  <2>6. r.at = "running" /\ r.total = 0 /\ r.remaining = FirstChunks(j).left /\ r.flight = FirstChunks(j).size
    OBVIOUS
  <2> HIDE DEF r
  <2>7. AddsUp(j, r)
    BY <2>1, <2>4, <2>5, <2>6 DEF AddsUp
  <2> QED
    BY <2>2, <2>3, <2>7, OneSearchChanges
<1> QED
  BY <1>3, <1>4

\* The loop on the answer of a chunk of a search that is running.
LEMMA ChunkAnswersAddsUp ==
  ASSUME SearchesInd, NEW s \in Slots, NEW i, NEW pow \in 0 .. MaxPow, ChunkAnswers(s, i, pow)
  PROVE  SearchesInd'
<1> DEFINE j == posted[s][i]
           best == Max({job[j].best, pow})
           next == PickNextChunkSize(j, job[j].remaining)
           flight == [job[j].flight EXCEPT ![s] = next]
           was == job[j].flight[s]
<1>1. CASE job' = job
  BY <1>1 DEF SearchesInd, AddsUp, Capped
<1>2. CASE j \in Jobs /\ Awaited(j, s)
  <2>1. job[j] \in Search /\ AddsUp(j, job[j]) /\ job[j].at = "running"
    BY <1>2 DEF SearchesInd, Awaited
  <2>2. job[j].best \in Nat /\ job[j].remaining \in Nat /\ job[j].total \in Nat /\ job[j].flight \in [Slots -> Nat]
    BY <2>1 DEF Search
  <2>3. best \in Nat /\ MaxPow \in Nat /\ IterationCap[j] \in Nat
    <3>1. pow \in Nat
      BY PowBounds
    <3> QED
      BY <1>2, <2>2, <3>1, MinMaxOfTwo, PowBounds
  <2>4. /\ next \in Nat /\ LeftOver(j, job[j].remaining, next) \in Nat
        /\ Capped(j) => /\ LeftOver(j, job[j].remaining, next) + next = job[j].remaining
                        /\ next = 0 <=> job[j].remaining = 0
        /\ ~Capped(j) => next > 0
    BY <1>2, <2>2, ChunkLemma
  <2>5. /\ SumFunction(job[j].flight) \in Nat /\ was \in Nat /\ was <= SumFunction(job[j].flight)
        /\ SumFunction(flight) = SumFunction(job[j].flight) - was + next
        /\ flight \in [Slots -> Nat]
    <3>1. flight \in [Slots -> Nat] /\ was \in Nat
      BY <2>2, <2>4
    <3> DEFINE f == job[j].flight
    <3>2. f \in [Slots -> Nat] /\ flight = [f EXCEPT ![s] = next] /\ was = f[s] /\ next \in Nat
      BY <2>2, <2>4
    <3> HIDE DEF next, f, was, flight
    <3>3. /\ SumFunction(f) \in Nat /\ f[s] <= SumFunction(f)
          /\ SumFunction([f EXCEPT ![s] = next]) = SumFunction(f) - f[s] + next
      BY <3>2, PowBounds, SumChanged
    <3>4. SumFunction(f) \in Nat /\ was <= SumFunction(f) /\ SumFunction(flight) = SumFunction(f) - was + next
      BY <3>2, <3>3
    <3> QED
      BY <3>1, <3>4 DEF f
  <2>6. Capped(j) => job[j].total + job[j].remaining + SumFunction(job[j].flight) = IterationCap[j]
    BY <2>1 DEF AddsUp
  <2> HIDE DEF best, next, flight, was
  <2>7. CASE /\ best >= MaxPow
             /\ job' = [job EXCEPT ![j].at = "done", ![j].best = best]
    <3> DEFINE r == [[job[j] EXCEPT !.at = "done"] EXCEPT !.best = best]
    <3>1. r \in Search /\ r.best = best /\ r.at = "done"
      BY <2>1, <2>3 DEF Search
    <3>2. job' = [job EXCEPT ![j] = r]
      BY <2>7 DEF SearchesInd
    <3> HIDE DEF r
    <3>3. AddsUp(j, r)
      BY <2>3, <2>7, <3>1 DEF AddsUp
    <3> HIDE DEF j
    <3> QED
      BY <1>2, <3>1, <3>2, <3>3, OneSearchChanges
  <2>8. CASE /\ next = 0
             /\ job' = [job EXCEPT ![j].best = best, ![j].flight = flight, ![j].total = @ + was,
                                   ![j].at = IF Ends(flight) THEN "done" ELSE "running"]
    <3> DEFINE r == [[[[job[j] EXCEPT !.best = best] EXCEPT !.flight = flight]
                       EXCEPT !.total = job[j].total + was]
                       EXCEPT !.at = IF Ends(flight) THEN "done" ELSE "running"]
    <3>1. r \in Search
      <4> DEFINE q == [[job[j] EXCEPT !.best = best] EXCEPT !.flight = flight]
                 total == job[j].total + was
      <4>0. q \in Search
        BY <2>1, <2>3, <2>5, SearchChanged
      <4>1. q \in Search /\ total \in Nat
        BY <2>2, <2>5, <4>0
      <4> HIDE DEF q, total
      <4>2. [q EXCEPT !.total = total] \in Search
        BY <4>1, SearchChanged
      <4> DEFINE p == [q EXCEPT !.total = total]
      <4> HIDE DEF p
      <4>3. \A at \in {"done", "running"} : [p EXCEPT !.at = at] \in Search
        BY <4>2, SearchChanged DEF p
      <4> QED
        BY <4>3 DEF p, q, total
    <3>2. job' = [job EXCEPT ![j] = r]
      BY <2>8 DEF SearchesInd
    <3>3. Capped(j) /\ job[j].remaining = 0
      BY <2>4, <2>8, SMTT(30)
    <3>4. Ends(flight) => SumFunction(flight) = 0
      BY <2>5, SumsDefined, SumOfZeros, PowBounds DEF Ends
    <3>5. job[j].total + was + SumFunction(flight) = IterationCap[j]
      <4> DEFINE a == job[j].total
                 b == SumFunction(job[j].flight)
                 c == SumFunction(flight)
                 cap == IterationCap[j]
      <4>1. a \in Nat /\ b \in Nat /\ was \in Nat /\ cap \in Nat
        BY <2>2, <2>3, <2>5
      <4>2. c = b - was + 0
        BY <2>5, <2>8
      <4>3. a + 0 + b = cap
        BY <2>6, <3>3
      <4> HIDE DEF a, b, c, cap
      <4>4. a + was + c = cap
        BY <4>1, <4>2, <4>3
      <4> QED
        BY <4>4 DEF a, c, cap
    <3>6. r.total = job[j].total + was /\ r.remaining = 0 /\ r.flight = flight
          /\ (r.at = "done" => Ends(flight))
      BY <2>1, <3>3 DEF Search
    <3> HIDE DEF r
    <3>7. AddsUp(j, r)
      BY <2>2, <2>5, <3>3, <3>4, <3>5, <3>6 DEF AddsUp
    <3> HIDE DEF j
    <3> QED
      BY <1>2, <3>1, <3>2, <3>7, OneSearchChanges
  <2>9. CASE /\ next > 0
             /\ job' = [job EXCEPT ![j].best = best, ![j].flight = flight,
                                   ![j].total = IF Capped(j) THEN @ + was ELSE 0,
                                   ![j].remaining = LeftOver(j, @, next)]
    <3> DEFINE r == [[[[job[j] EXCEPT !.best = best] EXCEPT !.flight = flight]
                       EXCEPT !.total = IF Capped(j) THEN job[j].total + was ELSE 0]
                       EXCEPT !.remaining = LeftOver(j, job[j].remaining, next)]
    <3>1. r \in Search
      <4> DEFINE q == [[job[j] EXCEPT !.best = best] EXCEPT !.flight = flight]
                 total == IF Capped(j) THEN job[j].total + was ELSE 0
                 left == LeftOver(j, job[j].remaining, next)
      <4>0. q \in Search
        BY <2>1, <2>3, <2>5, SearchChanged
      <4>1. q \in Search /\ total \in Nat /\ left \in Nat
        BY <2>2, <2>4, <2>5, <4>0
      <4> HIDE DEF q, total, left
      <4>2. [q EXCEPT !.total = total] \in Search
        BY <4>1, SearchChanged
      <4> DEFINE p == [q EXCEPT !.total = total]
      <4> HIDE DEF p
      <4>3. [p EXCEPT !.remaining = left] \in Search
        BY <4>1, <4>2, SearchChanged DEF p
      <4> QED
        BY <4>3 DEF p, q, total, left
    <3>2. job' = [job EXCEPT ![j] = r]
      BY <2>9 DEF SearchesInd
    <3>3. /\ r.at = "running" /\ r.flight = flight /\ r.remaining = LeftOver(j, job[j].remaining, next)
          /\ Capped(j) => r.total = job[j].total + was
      BY <2>1 DEF Search
    <3> HIDE DEF r
    <3>4. AddsUp(j, r)
      BY <2>2, <2>3, <2>4, <2>5, <2>6, <3>3 DEF AddsUp
    <3> HIDE DEF j
    <3> QED
      BY <1>2, <3>1, <3>2, <3>4, OneSearchChanges
  <2> QED
    BY <1>2, <2>7, <2>8, <2>9 DEF ChunkAnswers, best, next, flight, was
<1>3. CASE j \in Jobs /\ ~Awaited(j, s)
  BY <1>1, <1>3 DEF ChunkAnswers
<1>4. CASE j \notin Jobs
  <2>0. job \in [Jobs -> Search]
    BY DEF SearchesInd
  <2>1. \/ job' = job
        \/ job' = [job EXCEPT ![j].at = "done", ![j].best = best]
        \/ job' = [job EXCEPT ![j].best = best, ![j].flight = flight, ![j].total = @ + was,
                              ![j].at = IF Ends(flight) THEN "done" ELSE "running"]
        \/ job' = [job EXCEPT ![j].best = best, ![j].flight = flight,
                              ![j].total = IF Capped(j) THEN @ + was ELSE 0,
                              ![j].remaining = LeftOver(j, @, next)]
    BY DEF ChunkAnswers
  <2> HIDE DEF best, next, was, flight, j
  <2>2. CASE job' = [job EXCEPT ![j].at = "done", ![j].best = best]
    BY <1>1, <1>4, <2>0, <2>2
  <2>3. CASE job' = [job EXCEPT ![j].best = best, ![j].flight = flight, ![j].total = @ + was,
                                ![j].at = IF Ends(flight) THEN "done" ELSE "running"]
    BY <1>1, <1>4, <2>0, <2>3
  <2>4. CASE job' = [job EXCEPT ![j].best = best, ![j].flight = flight,
                                ![j].total = IF Capped(j) THEN @ + was ELSE 0,
                                ![j].remaining = LeftOver(j, @, next)]
    BY <1>1, <1>4, <2>0, <2>4
  <2> QED
    BY <1>1, <2>1, <2>2, <2>3, <2>4
<1> QED
  BY <1>2, <1>3, <1>4

LEMMA ChunkFailsAddsUp ==
  ASSUME SearchesInd, NEW s \in Slots, NEW i, ChunkFails(s, i)
  PROVE  SearchesInd'
<1> DEFINE h == Handler(s, posted[s][i])
<1>1. \/ job' = [job EXCEPT ![h].at = "failed"]
      \/ job' = job
  BY DEF ChunkFails
<1> HIDE DEF h
<1>2. CASE job' = job
  BY <1>2 DEF SearchesInd, AddsUp, Capped
<1>3. CASE job' = [job EXCEPT ![h].at = "failed"]
  BY <1>3, SearchStopped
<1> QED
  BY <1>1, <1>2, <1>3

\* The invariant of the searches is inductive.
LEMMA SearchesNextStep ==
  ASSUME SearchesInd, [PowJobsNext]_powVars
  PROVE  SearchesInd'
<1>1. ASSUME NEW j \in Jobs, CancelJob(j) PROVE SearchesInd'
  <2>1. job' = [job EXCEPT ![j].at = "cancelled"]
    BY <1>1 DEF CancelJob
  <2> QED
    BY <2>1, SearchStopped
<1>2. ASSUME NEW j \in Jobs, NEW seed \in 0 .. MaxPow, RunPool(j, seed) PROVE SearchesInd'
  BY <1>2, RunPoolAddsUp
<1>3. ASSUME NEW s \in Slots, SlotStep(s) PROVE SearchesInd'
  BY <1>3, ChunkFailsAddsUp, ChunkAnswersAddsUp DEF SlotStep
<1>4. ASSUME UNCHANGED powVars PROVE SearchesInd'
  BY <1>4 DEF powVars, SearchesInd, AddsUp, Capped
<1> QED
  BY <1>1, <1>2, <1>3, <1>4 DEF PowJobsNext, JobsRest

LEMMA SearchesStart == PowJobsInit => SearchesInd
<1> SUFFICES ASSUME PowJobsInit PROVE SearchesInd
  OBVIOUS
<1>1. Idle \in [Slots -> Nat]
  BY DEF Idle
<1>2. \A j \in Jobs : job[j] = [at |-> "new", remaining |-> IterationCap[j], flight |-> Idle, total |-> 0, best |-> 0]
  BY DEF PowJobsInit
<1>3. \A j \in Jobs : job[j] \in Search /\ job[j].at = "new"
  <2> TAKE j \in Jobs
  <2>1. IterationCap[j] \in Nat
    BY PowBounds
  <2>2. [at |-> "new", remaining |-> IterationCap[j], flight |-> Idle, total |-> 0, best |-> 0] \in Search
    BY <1>1, <2>1 DEF Search
  <2> QED
    BY <1>2, <2>2
<1>4. job \in [Jobs -> Search]
  BY <1>3 DEF PowJobsInit
<1> QED
  BY <1>3, <1>4 DEF SearchesInd, AddsUp

\* run_pool (pool_support/pow_run.rs): a search with a cap neither loses nor repeats an
\* attempt, in whatever order its slots answer, fail or are cancelled, and one that ends short
\* of what it was asked for has spent its cap.
THEOREM SearchesAlwaysAddUp == PowJobsSpec => []SearchesAddUp
<1> QED
  BY SearchesStart, SearchesNextStep, SearchesIndAddUp, PTL DEF PowJobsSpec
-----------------------------------------------------------------------------
(***************************************************************************)
(* Decimation: what the heap keeps.                                        *)
(***************************************************************************)
\* A finite set has a greatest element in every total order, given as a set of pairs.
LEMMA GreatestExists ==
  ASSUME NEW S, IsFiniteSet(S), NEW R,
         \A x, y \in S : x # y => <<x, y>> \in R \/ <<y, x>> \in R,
         \A x, y, z \in S : <<x, y>> \in R /\ <<y, z>> \in R => <<x, z>> \in R
  PROVE  \A s \in SUBSET S : s # {} => \E x \in s : \A y \in s \ {x} : <<y, x>> \in R
<1> DEFINE Good == {s \in SUBSET S : s # {} => \E x \in s : \A y \in s \ {x} : <<y, x>> \in R}
<1>1. ASSUME NEW s \in SUBSET S, \A x \in s : s \ {x} \in Good PROVE s \in Good
  <2> SUFFICES ASSUME NEW a \in s PROVE \E x \in s : \A y \in s \ {x} : <<y, x>> \in R
    OBVIOUS
  <2>1. CASE s \ {a} = {}
    BY <2>1
  <2>2. CASE s \ {a} # {}
    <3>1. PICK x \in s \ {a} : \A y \in (s \ {a}) \ {x} : <<y, x>> \in R
      BY <1>1, <2>2
    <3>2. CASE <<a, x>> \in R
      BY <3>1, <3>2
    <3>3. CASE <<x, a>> \in R
      <4>1. ASSUME NEW y \in s \ {a} PROVE <<y, a>> \in R
        BY <3>1, <3>3
      <4> QED
        BY <4>1
    <3> QED
      BY <3>1, <3>2, <3>3
  <2> QED
    BY <2>1, <2>2
<1> HIDE DEF Good
<1>2. \A s \in SUBSET S : s \in Good
  BY <1>1, SubsetInduction
<1> QED
  BY <1>2 DEF Good

LEMMA EnvironmentBounds ==
  /\ \A l \in Location : l \in Nat
  /\ IsFiniteSet(Location)
  /\ MaxSize \in Nat /\ MaxSize > 0 /\ QuotaPct \in Nat /\ QuotaPct > 0
  /\ BatchSize \in Nat /\ BatchSize > 0 /\ SampleFactor \in Nat
  /\ MaxRequests \in Nat /\ USize \in Nat /\ USize > MaxRequests /\ USize > 0
  /\ None \notin Nat
BY EnvironmentAssumption

\* The iteration has a last row, whatever rows it goes through.
LEMMA LastOfLemma ==
  ASSUME NEW start \in Location
  PROVE  \A rows \in SUBSET Location : rows # {} => LastOf(start, rows) \in rows
<1> DEFINE R == {p \in Location \X Location : ComesBefore(start, p[1], p[2])}
<1>1. \A x, y \in Location : <<x, y>> \in R <=> ComesBefore(start, x, y)
  OBVIOUS
<1>2. /\ \A x, y \in Location : x # y => <<x, y>> \in R \/ <<y, x>> \in R
      /\ \A x, y, z \in Location : <<x, y>> \in R /\ <<y, z>> \in R => <<x, z>> \in R
  BY <1>1, EnvironmentBounds DEF ComesBefore
<1> HIDE DEF R
<1>3. \A rows \in SUBSET Location : rows # {} => \E x \in rows : \A y \in rows \ {x} : <<y, x>> \in R
  BY <1>2, EnvironmentBounds, GreatestExists
<1>4. ASSUME NEW rows \in SUBSET Location, rows # {}
      PROVE  \E x \in rows : \A y \in rows \ {x} : ComesBefore(start, y, x)
  BY <1>1, <1>3, <1>4
<1> QED
  BY <1>4 DEF LastOf

\* A heap that is not empty has a most recently accessed row.
LEMMA TopExists ==
  ASSUME NEW S \in SUBSET Location, \A l \in S : lastAccessed[l] \in Nat
  PROVE  \A heap \in SUBSET S : heap # {} =>
           \E h \in heap : \A g \in heap : \/ lastAccessed[g] < lastAccessed[h]
                                           \/ lastAccessed[g] = lastAccessed[h] /\ g <= h
<1> DEFINE After(g, h) == \/ lastAccessed[g] < lastAccessed[h]
                          \/ lastAccessed[g] = lastAccessed[h] /\ g <= h
           R == {p \in S \X S : After(p[1], p[2])}
<1>0. IsFiniteSet(S) /\ \A l \in S : l \in Nat
  BY EnvironmentBounds, FS_Subset
<1>1. \A x, y \in S : <<x, y>> \in R <=> After(x, y)
  OBVIOUS
<1>2. /\ \A x, y \in S : x # y => <<x, y>> \in R \/ <<y, x>> \in R
      /\ \A x, y, z \in S : <<x, y>> \in R /\ <<y, z>> \in R => <<x, z>> \in R
      /\ \A x \in S : After(x, x)
  <2> HIDE DEF R
  <2> QED
    BY <1>0, <1>1
<1> HIDE DEF R
<1>3. \A heap \in SUBSET S : heap # {} => \E x \in heap : \A y \in heap \ {x} : <<y, x>> \in R
  BY <1>0, <1>2, GreatestExists
<1>4. ASSUME NEW heap \in SUBSET S, heap # {} PROVE \E h \in heap : \A g \in heap : After(g, h)
  <2>1. PICK h \in heap : \A y \in heap \ {h} : <<y, h>> \in R
    BY <1>3, <1>4
  <2> HIDE DEF After
  <2>2. \A g \in heap : After(g, h)
    BY <1>1, <1>2, <2>1
  <2> QED
    BY <2>2
<1> QED
  BY <1>4

\* Of the rows seen so far the heap has the coldest, as many as it may.
Coldest(n, heap, seen) ==
  /\ heap \subseteq seen
  /\ Cardinality(heap) = IF Cardinality(seen) <= n THEN Cardinality(seen) ELSE n
  /\ \A v \in heap, l \in seen \ heap : lastAccessed[v] <= lastAccessed[l]

LEMMA HeapPushLemma ==
  ASSUME NEW S \in SUBSET Location, \A l \in S : lastAccessed[l] \in Nat, NEW n \in Nat,
         NEW seen \in SUBSET S, NEW x \in seen, NEW heap \in SUBSET S,
         Coldest(n, heap, seen \ {x})
  PROVE  Coldest(n, HeapPush(n, heap, x), seen)
<1> DEFINE rest == seen \ {x}
<1>1. /\ heap \subseteq rest /\ x \notin heap
      /\ IsFiniteSet(heap) /\ IsFiniteSet(seen) /\ IsFiniteSet(rest)
      /\ Cardinality(heap) \in Nat /\ Cardinality(seen) \in Nat /\ Cardinality(rest) \in Nat
  <2>1. heap \subseteq Location /\ seen \subseteq Location /\ rest \subseteq Location
    OBVIOUS
  <2>2. IsFiniteSet(heap) /\ IsFiniteSet(seen) /\ IsFiniteSet(rest)
    BY <2>1, EnvironmentBounds, FS_Subset
  <2>3. heap \subseteq rest /\ x \notin heap
    BY DEF Coldest
  <2> HIDE DEF rest
  <2> QED
    BY <2>2, <2>3, FS_CardinalityType
<1>2. Cardinality(rest) = Cardinality(seen) - 1
  BY <1>1, FS_RemoveElement
<1>3. /\ Cardinality(heap) = IF Cardinality(rest) <= n THEN Cardinality(rest) ELSE n
      /\ \A v \in heap, l \in rest \ heap : lastAccessed[v] <= lastAccessed[l]
  BY DEF Coldest
<1>4. CASE Cardinality(heap) < n
  <2>1. HeapPush(n, heap, x) = heap \cup {x}
    BY <1>4 DEF HeapPush
  <2>2. Cardinality(heap) = Cardinality(rest)
    <3> HIDE DEF rest
    <3> QED
      BY <1>1, <1>3, <1>4
  <2>3. heap = rest
    <3> HIDE DEF rest
    <3> QED
      BY <1>1, <2>2, FS_Subset
  <2>4. heap \cup {x} = seen
    BY <2>3
  <2>5. Cardinality(seen) <= n
    <3> HIDE DEF rest
    <3> QED
      BY <1>1, <1>2, <1>4, <2>2
  <2> QED
    BY <2>1, <2>4, <2>5 DEF Coldest
<1>5. CASE ~(Cardinality(heap) < n)
  <2>1. Cardinality(heap) = n /\ n <= Cardinality(rest) /\ ~(Cardinality(seen) <= n)
    <3> HIDE DEF rest
    <3> QED
      BY <1>1, <1>2, <1>3, <1>5
  <2>2. CASE heap = {}
    <3>1. HeapPush(n, heap, x) = {}
      BY <1>5, <2>2 DEF HeapPush
    <3> QED
      BY <2>1, <2>2, <3>1 DEF Coldest
  <2>3. CASE heap # {}
    <3> DEFINE top == CHOOSE h \in heap : \A g \in heap :
                        \/ lastAccessed[g] < lastAccessed[h]
                        \/ lastAccessed[g] = lastAccessed[h] /\ g <= h
    <3>1. top \in heap /\ \A g \in heap : lastAccessed[g] <= lastAccessed[top]
      <4>1. \E h \in heap : \A g \in heap : \/ lastAccessed[g] < lastAccessed[h]
                                            \/ lastAccessed[g] = lastAccessed[h] /\ g <= h
        BY <2>3, TopExists
      <4>2. top \in heap /\ \A g \in heap : \/ lastAccessed[g] < lastAccessed[top]
                                            \/ lastAccessed[g] = lastAccessed[top] /\ g <= top
        BY <4>1
      <4>3. \A g \in heap : lastAccessed[g] \in Nat
        OBVIOUS
      <4> HIDE DEF top
      <4> QED
        BY <4>2, <4>3
    <3>2. HeapPush(n, heap, x) = IF lastAccessed[top] > lastAccessed[x] THEN (heap \ {top}) \cup {x} ELSE heap
      BY <1>5, <2>3 DEF HeapPush
    <3> HIDE DEF top
    <3>3. \A l \in seen : lastAccessed[l] \in Nat
      OBVIOUS
    <3>4. top \in seen /\ x \in seen /\ heap \subseteq seen
      BY <1>1, <3>1
    <3>5. CASE lastAccessed[top] > lastAccessed[x]
      <4> DEFINE new == (heap \ {top}) \cup {x}
      <4>1. new \subseteq seen /\ seen \ new = (rest \ heap) \cup {top}
        BY <1>1, <3>1, <3>4
      <4>2. Cardinality(new) = n
        <5>1. IsFiniteSet(heap \ {top}) /\ Cardinality(heap \ {top}) = Cardinality(heap) - 1
          BY <1>1, <3>1, FS_RemoveElement
        <5>2. Cardinality(new) = Cardinality(heap \ {top}) + 1
          BY <1>1, <5>1, FS_AddElement
        <5> HIDE DEF new
        <5> QED
          BY <1>1, <2>1, <5>1, <5>2
      <4>3. ASSUME NEW v \in new, NEW l \in seen \ new PROVE lastAccessed[v] <= lastAccessed[l]
        <5>1. lastAccessed[v] \in Nat /\ lastAccessed[l] \in Nat /\ lastAccessed[top] \in Nat
              /\ lastAccessed[x] \in Nat
          BY <3>3, <3>4, <4>1, <4>3
        <5>2. lastAccessed[v] <= lastAccessed[top]
          BY <3>1, <3>5, <5>1
        <5>3. CASE l = top
          BY <5>2, <5>3
        <5>4. CASE l \in rest \ heap
          <6>1. lastAccessed[top] <= lastAccessed[l]
            BY <1>3, <3>1, <5>4
          <6> QED
            BY <5>1, <5>2, <6>1
        <5> QED
          BY <4>1, <5>3, <5>4
      <4> HIDE DEF new
      <4>4. HeapPush(n, heap, x) = new
        BY <3>2, <3>5 DEF new
      <4> QED
        BY <2>1, <4>1, <4>2, <4>3, <4>4 DEF Coldest
    <3>6. CASE ~(lastAccessed[top] > lastAccessed[x])
      <4>1. HeapPush(n, heap, x) = heap
        BY <3>2, <3>6
      <4>2. seen \ heap = (rest \ heap) \cup {x}
        BY <1>1
      <4>3. ASSUME NEW v \in heap PROVE lastAccessed[v] <= lastAccessed[x]
        <5>1. lastAccessed[v] \in Nat /\ lastAccessed[top] \in Nat /\ lastAccessed[x] \in Nat
          BY <3>3, <3>4
        <5>2. lastAccessed[v] <= lastAccessed[top]
          BY <3>1
        <5> QED
          BY <3>6, <5>1, <5>2
      <4> QED
        BY <1>3, <2>1, <3>4, <4>1, <4>2, <4>3 DEF Coldest
    <3> QED
      BY <3>5, <3>6
  <2> QED
    BY <2>2, <2>3
<1> QED
  BY <1>4, <1>5

\* The sample is of rows that are there.
LEMMA SampleLemma ==
  ASSUME TypeOK, NEW start, NEW n
  PROVE  /\ Sample(start, n) \in SUBSET Location
         /\ \A l \in Sample(start, n) : lastAccessed[l] \in Nat
BY DEF Sample, TypeOK, OptNat

\* The victims of a batch are the coldest of its sample.
LEMMA VictimsLemma ==
  ASSUME TypeOK, NEW start \in Location, NEW n \in Nat
  PROVE  /\ Victims(start, n) \in SUBSET Location
         /\ \A l \in Victims(start, n) : lastAccessed[l] \in Nat
         /\ Coldest(n, Victims(start, n), Sample(start, n))
<1> DEFINE S == Sample(start, n)
           c == [s \in (SUBSET S) \ {{}} |-> LastOf(start, s)]
           step == [p \in S \X SUBSET S |-> HeapPush(n, p[2], p[1])]
           eq(it) == it = [s \in SUBSET S |->
                             IF s = {} THEN {}
                             ELSE LET l == LastOf(start, s) IN HeapPush(n, it[s \ {l}], l)]
           heaps == CHOOSE it : eq(it)
<1>1. Victims(start, n) = heaps[S]
  BY DEF Victims, MapThenFoldSet
<1>2. S \in SUBSET Location /\ \A l \in S : lastAccessed[l] \in Nat
  BY SampleLemma
<1> HIDE DEF S
<1>3. IsFiniteSet(S)
  BY <1>2, EnvironmentBounds, FS_Subset
<1>4. \A s \in (SUBSET S) \ {{}} : c[s] = LastOf(start, s) /\ LastOf(start, s) \in s
  BY <1>2, LastOfLemma
<1>5. ASSUME NEW heap \in SUBSET S, NEW l \in S PROVE HeapPush(n, heap, l) \in SUBSET S
  BY DEF HeapPush
<1>6. step \in [S \X SUBSET S -> SUBSET S] /\ \A heap \in SUBSET S, l \in S : step[<<l, heap>>] = HeapPush(n, heap, l)
  BY <1>5
<1> HIDE DEF c, step
<1>7. PICK it \in [SUBSET S -> SUBSET S] : Folded(it, S, {}, step, c)
  <2>1. \A s \in (SUBSET S) \ {{}} : c[s] \in s
    BY <1>4
  <2>2. {} \in SUBSET S
    OBVIOUS
  <2> QED
    BY <1>3, <1>6, <2>1, <2>2, FoldExists
<1>8. ASSUME NEW s \in SUBSET S
      PROVE  it[s] = IF s = {} THEN {} ELSE LET l == LastOf(start, s) IN HeapPush(n, it[s \ {l}], l)
  <2>1. it[s] = IF s = {} THEN {} ELSE step[<<c[s], it[s \ {c[s]}]>>]
    BY <1>7 DEF Folded
  <2>2. CASE s # {}
    <3>1. c[s] = LastOf(start, s) /\ c[s] \in S
      BY <1>4, <2>2
    <3>2. it[s \ {c[s]}] \in SUBSET S
      BY <1>7
    <3>3. step[<<c[s], it[s \ {c[s]}]>>] = HeapPush(n, it[s \ {c[s]}], c[s])
      BY <1>6, <3>1, <3>2
    <3> QED
      BY <2>1, <2>2, <3>1, <3>3
  <2> QED
    BY <2>1, <2>2
<1>9. eq(it)
  BY <1>7, <1>8
<1>10. eq(heaps)
  BY <1>9
<1> HIDE DEF heaps
<1>11. \A s \in SUBSET S : heaps[s] = IF s = {} THEN {} ELSE LET l == LastOf(start, s) IN HeapPush(n, heaps[s \ {l}], l)
  BY <1>10
<1> DEFINE Good == {s \in SUBSET S : heaps[s] \in SUBSET S /\ Coldest(n, heaps[s], s)}
<1>12. ASSUME NEW s \in SUBSET S, \A x \in s : s \ {x} \in Good PROVE s \in Good
  <2>1. CASE s = {}
    <3>1. heaps[s] = {}
      BY <1>11, <2>1
    <3>2. Cardinality({}) = 0 /\ 0 <= n
      BY FS_EmptySet
    <3>3. Coldest(n, {}, {})
      BY <3>2 DEF Coldest
    <3> QED
      BY <2>1, <3>1, <3>3
  <2>2. CASE s # {}
    <3> DEFINE l == LastOf(start, s)
    <3>1. l \in s /\ heaps[s] = HeapPush(n, heaps[s \ {l}], l)
      BY <1>4, <1>11, <2>2
    <3> HIDE DEF l
    <3>2. heaps[s \ {l}] \in SUBSET S /\ Coldest(n, heaps[s \ {l}], s \ {l})
      BY <1>12, <3>1
    <3> DEFINE heap == heaps[s \ {l}]
    <3> HIDE DEF heap
    <3>3. heap \in SUBSET S /\ Coldest(n, heap, s \ {l}) /\ heaps[s] = HeapPush(n, heap, l)
      BY <3>1, <3>2 DEF heap
    <3>4. HeapPush(n, heap, l) \in SUBSET S
      BY <1>5, <3>1, <3>3
    <3>5. Coldest(n, HeapPush(n, heap, l), s)
      BY <1>2, <3>1, <3>3, HeapPushLemma
    <3> QED
      BY <3>3, <3>4, <3>5
  <2> QED
    BY <2>1, <2>2
<1> HIDE DEF Good
<1>13. \A s \in SUBSET S : s \in Good
  BY <1>3, <1>12, SubsetInduction
<1>14. heaps[S] \in SUBSET S /\ Coldest(n, heaps[S], S)
  BY <1>13 DEF Good
<1>15. Victims(start, n) \in SUBSET S /\ Coldest(n, Victims(start, n), S)
  BY <1>1, <1>14 DEF heaps
<1> QED
  BY <1>2, <1>15 DEF S

-----------------------------------------------------------------------------
(***************************************************************************)
(* The inductive invariant of a server's accounts.                         *)
(***************************************************************************)
Busy == handler # IdleHandler

\* A commit has written its file and not yet added its byte to the counter.
Uncounted == IF handler.step \in {"row", "add"} /\ handler.op = "commit" THEN 1 ELSE 0

\* The counter no longer has the bytes of the victims whose files are about to go.
TakenOff ==
  IF decimation.stage = "files" THEN SumFunctionOnSet(Sizes(row), decimation.victims) ELSE 0

CountKept == counter + Uncounted + TakenOff = FileBytes

\* Every request writes at most one byte.
FewBytes ==
  /\ requests <= MaxRequests
  /\ FileBytes + (IF handler.step = "file" /\ handler.op = "commit" THEN 1 ELSE 0) <= requests

\* A row has the size of its file, except between the two writes of a handler and the two
\* deletions of a batch.
RowsMatch ==
  \A l \in Location :
    \/ OrZero(row[l]) = OrZero(file[l])
    \/ handler.step = "row" /\ l = handler.loc
    \/ decimation.stage = "rows" /\ l \in decimation.victims

\* A batch deletes the rows of victims whose files are gone.
FilesGone == decimation.stage = "rows" => \A l \in decimation.victims : file[l] = None

\* What a handler has loaded is what is stored: its bundle is not a victim.
HandlerCurrent ==
  Busy =>
    /\ handler.op # "heal" /\ handler.loc \notin BeingDeleted
    /\ touched[handler.loc] # None
    /\ handler.step = "file" => handler.row = row[handler.loc] /\ handler.file = file[handler.loc]
    /\ handler.step = "row" => NewRow(handler) = OrZero(file[handler.loc])
    /\ handler.step # "file" /\ handler.op = "commit" => OrZero(file[handler.loc]) >= 1

\* Every row has a time at which it was accessed, and so has every victim.
AllFound ==
  /\ \A l \in Location : row[l] # None => touched[l] # None \/ lastAccessed[l] # None
  /\ \A l \in BeingDeleted : lastAccessed[l] # None

OverWhenBegun == decimation # IdleDecimation => OverQuota(decimation.stored)

Books == CountKept /\ FewBytes /\ RowsMatch /\ FilesGone /\ HandlerCurrent /\ AllFound
         /\ OverWhenBegun

EnvironmentInd == TypeOK /\ VictimsColdest /\ (clean => Books)
-----------------------------------------------------------------------------
\* Sizes are numbers, and so are their sums.
LEMMA SizesLemma ==
  ASSUME NEW stored \in [Location -> OptNat]
  PROVE  /\ DOMAIN Sizes(stored) = Location
         /\ \A l \in Location : Sizes(stored)[l] = OrZero(stored[l]) /\ OrZero(stored[l]) \in Nat
         /\ \A P \in SUBSET Location : SumFunctionOnSet(Sizes(stored), P) \in Nat
         /\ SumFunction(Sizes(stored)) = SumFunctionOnSet(Sizes(stored), Location)
<1>1. DOMAIN Sizes(stored) = Location
      /\ \A l \in Location : Sizes(stored)[l] = OrZero(stored[l]) /\ OrZero(stored[l]) \in Nat
  BY DEF Sizes, OrZero, OptNat
<1> DEFINE f == Sizes(stored)
<1>2. SumFunction(f) = SumFunctionOnSet(f, Location)
  BY <1>1, SumsDefined
<1> HIDE DEF f
<1>3. ASSUME NEW P \in SUBSET Location PROVE SumFunctionOnSet(f, P) \in Nat
  <2>1. IsFiniteSet(P) /\ \A l \in P : f[l] \in Nat
    BY <1>1, EnvironmentBounds, FS_Subset DEF f
  <2> QED
    BY <2>1, SumIsNatural
<1> QED
  BY <1>1, <1>2, <1>3 DEF f

\* The bytes stored in all are those at some places and those at the others.
LEMMA SizesSplit ==
  ASSUME NEW stored \in [Location -> OptNat], NEW P \in SUBSET Location
  PROVE  SumFunction(Sizes(stored)) =
           SumFunctionOnSet(Sizes(stored), P) + SumFunctionOnSet(Sizes(stored), Location \ P)
<1> DEFINE f == Sizes(stored)
<1>1. (\A l \in Location : f[l] \in Nat) /\ SumFunction(f) = SumFunctionOnSet(f, Location)
  BY SizesLemma
<1> HIDE DEF f
<1>2. SumFunctionOnSet(f, Location) = SumFunctionOnSet(f, P) + SumFunctionOnSet(f, Location \ P)
  BY <1>1, EnvironmentBounds, SumSplit
<1> QED
  BY <1>1, <1>2 DEF f

\* What is stored at the same size at some places adds up to the same there.
LEMMA SizesEqual ==
  ASSUME NEW was \in [Location -> OptNat], NEW is \in [Location -> OptNat],
         NEW P \in SUBSET Location, \A l \in P : OrZero(is[l]) = OrZero(was[l])
  PROVE  SumFunctionOnSet(Sizes(is), P) = SumFunctionOnSet(Sizes(was), P)
<1> DEFINE f == Sizes(is)
           g == Sizes(was)
<1>1. IsFiniteSet(P)
  BY EnvironmentBounds, FS_Subset
<1>2. \A l \in P : f[l] \in Nat /\ f[l] = g[l]
  BY SizesLemma
<1> HIDE DEF f, g
<1>3. SumFunctionOnSet(f, P) = SumFunctionOnSet(g, P)
  BY <1>1, <1>2, SumOfEqual
<1> QED
  BY <1>3 DEF f, g

\* What is stored at one place counts once.
LEMMA SizesOne ==
  ASSUME NEW stored \in [Location -> OptNat], NEW P \in SUBSET Location, NEW l \in P
  PROVE  SumFunctionOnSet(Sizes(stored), P) =
           OrZero(stored[l]) + SumFunctionOnSet(Sizes(stored), P \ {l})
<1> DEFINE f == Sizes(stored)
<1>1. IsFiniteSet(P) /\ (\A x \in P : f[x] \in Nat) /\ f[l] = OrZero(stored[l])
  BY SizesLemma, EnvironmentBounds, FS_Subset
<1> HIDE DEF f
<1>2. SumFunctionOnSet(f, P) = f[l] + SumFunctionOnSet(f, P \ {l})
  BY <1>1, SumTakesAny
<1> QED
  BY <1>1, <1>2 DEF f

\* Writing at one place changes the bytes stored by what is written there.
LEMMA SizesWritten ==
  ASSUME NEW was \in [Location -> OptNat], NEW is \in [Location -> OptNat], NEW l \in Location,
         \A g \in Location \ {l} : is[g] = was[g]
  PROVE  /\ SumFunction(Sizes(is)) + OrZero(was[l]) = SumFunction(Sizes(was)) + OrZero(is[l])
         /\ SumFunction(Sizes(is)) \in Nat /\ SumFunction(Sizes(was)) \in Nat
<1> DEFINE f == Sizes(is)
           g == Sizes(was)
           rest == Location \ {l}
<1>1. /\ SumFunction(f) = OrZero(is[l]) + SumFunctionOnSet(f, rest)
      /\ SumFunction(f) \in Nat /\ SumFunctionOnSet(f, rest) \in Nat
  BY SizesLemma, SizesOne
<1>2. /\ SumFunction(g) = OrZero(was[l]) + SumFunctionOnSet(g, rest)
      /\ SumFunction(g) \in Nat /\ SumFunctionOnSet(g, rest) \in Nat
  BY SizesLemma, SizesOne
<1>3. SumFunctionOnSet(f, rest) = SumFunctionOnSet(g, rest)
  <2>1. \A x \in rest : OrZero(is[x]) = OrZero(was[x])
    OBVIOUS
  <2> QED
    BY <2>1, SizesEqual
<1>4. OrZero(is[l]) \in Nat /\ OrZero(was[l]) \in Nat
  BY SizesLemma
<1> HIDE DEF f, g, rest
<1>5. /\ SumFunction(f) + OrZero(was[l]) = SumFunction(g) + OrZero(is[l])
      /\ SumFunction(f) \in Nat /\ SumFunction(g) \in Nat
  BY <1>1, <1>2, <1>3, <1>4
<1> QED
  BY <1>5 DEF f, g

\* A quotient of naturals.
LEMMA Quotient ==
  ASSUME NEW a \in Nat, NEW b \in Nat, b > 0
  PROVE  a \div b \in Nat /\ (a >= b => a \div b >= 1)
OBVIOUS

\* What the counter wraps at.
LEMMA Wrapped ==
  ASSUME NEW x \in Int
  PROVE  (x % USize) \in 0 .. (USize - 1) /\ (x \in 0 .. (USize - 1) => (x % USize) = x)
BY EnvironmentBounds

\* Maintenance begins a decimation only over the quota, and with whole numbers of batches
\* and rows.
LEMMA PlanLemma ==
  ASSUME TypeOK, NEW rows \in [Location -> OptNat]
  PROVE  Plan(rows) # IdleDecimation =>
           /\ OverQuota(counter)
           /\ Plan(rows).batches \in Nat /\ Plan(rows).rows \in Nat
           /\ Plan(rows) = [stage |-> "select", batches |-> Plan(rows).batches,
                            rows |-> Plan(rows).rows, victims |-> {}, stored |-> FileBytes]
<1> DEFINE present == {l \in Location : rows[l] # None}
           total == Cardinality(present)
           n == CountNumerator(total, counter)
           d == CountDenominator(counter)
           full == BatchSize * d
<1>1. total \in Nat
  <2>1. IsFiniteSet(present)
    BY EnvironmentBounds, FS_Subset
  <2> HIDE DEF present
  <2> QED
    BY <2>1, FS_CardinalityType
<1> HIDE DEF total
<1> SUFFICES ASSUME OverQuota(counter), n > 0
             PROVE  NumBatches(total, counter) \in Nat /\ RowsPerBatch(total, counter) \in Nat
  BY DEF Plan, total
<1>2. counter \in Nat /\ counter > 0
  <2>1. QuotaPct * MaxSize \in Nat /\ counter \in Nat
    BY EnvironmentBounds DEF TypeOK
  <2> QED
    BY <2>1 DEF OverQuota
<1>3. n \in Nat /\ d \in Nat /\ d > 0
  <2>1. 98 * QuotaPct * MaxSize \in Nat
    BY EnvironmentBounds
  <2>2. 10000 * counter - 98 * QuotaPct * MaxSize \in Int
    BY <1>2, <2>1
  <2>3. n \in Int
    BY <1>1, <2>2 DEF CountNumerator
  <2> QED
    BY <1>2, <2>3 DEF CountDenominator
<1>4. full \in Nat /\ full > 0
  BY <1>3, EnvironmentBounds
<1>5. NumBatches(total, counter) = IF n <= full THEN 1 ELSE (n + full - 1) \div full
  BY DEF NumBatches
<1>6. RowsPerBatch(total, counter) = (n \div d) \div NumBatches(total, counter)
  BY DEF RowsPerBatch
<1> HIDE DEF n, d, full
<1>7. NumBatches(total, counter) \in Nat /\ NumBatches(total, counter) > 0
  <2>1. CASE n <= full
    BY <1>5, <2>1
  <2>2. CASE ~(n <= full)
    <3>1. n + full - 1 \in Nat /\ n + full - 1 >= full
      BY <1>3, <1>4, <2>2
    <3> DEFINE a == n + full - 1
    <3> HIDE DEF a
    <3>2. a \div full \in Nat /\ a \div full >= 1
      BY <1>4, <3>1, Quotient DEF a
    <3>3. a \div full > 0
      BY <3>2
    <3> QED
      BY <1>5, <2>2, <3>2, <3>3 DEF a
  <2> QED
    BY <2>1, <2>2
<1>8. RowsPerBatch(total, counter) \in Nat
  <2>1. n \div d \in Nat
    BY <1>3, Quotient
  <2> DEFINE q == n \div d
             b == NumBatches(total, counter)
  <2>2. q \in Nat /\ b \in Nat /\ b > 0
    BY <1>7, <2>1
  <2> HIDE DEF q, b
  <2>3. q \div b \in Nat
    BY <2>2, Quotient
  <2> QED
    BY <1>6, <2>3 DEF q, b
<1> QED
  BY <1>7, <1>8

\* A server's types.
Handlers == {IdleHandler} \cup
              [step : {"file", "row", "add"}, op : Operation, loc : Location,
               row : OptNat, file : OptNat]
Decimations == {IdleDecimation} \cup
              [stage : {"select", "files", "rows"}, batches : Nat, rows : Nat,
               victims : SUBSET Location, stored : Nat]

\* What is under way, and what is not.
LEMMA UnderWay ==
  ASSUME TypeOK
  PROVE  /\ Busy <=> handler.step # "idle"
         /\ Busy => /\ handler.step \in {"file", "row", "add"} /\ handler.op \in Operation
                    /\ handler.loc \in Location /\ handler.row \in OptNat /\ handler.file \in OptNat
         /\ decimation # IdleDecimation <=> decimation.stage # "idle"
         /\ decimation # IdleDecimation =>
              /\ decimation.stage \in {"select", "files", "rows"} /\ decimation.batches \in Nat
              /\ decimation.rows \in Nat /\ decimation.victims \in SUBSET Location
              /\ decimation.stored \in Nat
<1>2. handler \in Handlers /\ decimation \in Decimations
  BY DEF TypeOK, Handlers, Decimations
<1>3. /\ Busy <=> handler.step # "idle"
      /\ Busy => /\ handler.step \in {"file", "row", "add"} /\ handler.op \in Operation
                    /\ handler.loc \in Location /\ handler.row \in OptNat /\ handler.file \in OptNat
  BY <1>2 DEF Handlers, Busy, IdleHandler
<1>4. /\ decimation # IdleDecimation <=> decimation.stage # "idle"
      /\ decimation # IdleDecimation =>
           /\ decimation.stage \in {"select", "files", "rows"} /\ decimation.batches \in Nat
           /\ decimation.rows \in Nat /\ decimation.victims \in SUBSET Location
           /\ decimation.stored \in Nat
  BY <1>2 DEF Decimations, IdleDecimation
<1> QED
  BY <1>3, <1>4

\* A handler that goes on, and a decimation that does.
LEMMA Further ==
  ASSUME TypeOK
  PROVE  /\ Busy => \A s \in {"row", "add"} :
              /\ [handler EXCEPT !.step = s] \in Handlers
              /\ [handler EXCEPT !.step = s].step = s
              /\ [handler EXCEPT !.step = s].op = handler.op
              /\ [handler EXCEPT !.step = s].loc = handler.loc
              /\ [handler EXCEPT !.step = s].row = handler.row
              /\ [handler EXCEPT !.step = s].file = handler.file
         /\ decimation.stage # "idle" =>
              /\ [decimation EXCEPT !.stage = "rows"] \in Decimations
              /\ [decimation EXCEPT !.stage = "rows"].stage = "rows"
              /\ [decimation EXCEPT !.stage = "rows"].victims = decimation.victims
              /\ [decimation EXCEPT !.stage = "rows"].stored = decimation.stored
              /\ [decimation EXCEPT !.stage = "select", !.victims = {}] \in Decimations
              /\ [decimation EXCEPT !.stage = "select", !.victims = {}].stage = "select"
              /\ [decimation EXCEPT !.stage = "select", !.victims = {}].stored = decimation.stored
         /\ decimation.stage # "idle" /\ decimation.batches > 0 => \A V \in SUBSET Location :
              /\ NextBatch(V) \in Decimations
              /\ NextBatch(V).stage = "files" /\ NextBatch(V).victims = V
              /\ NextBatch(V).rows = decimation.rows
              /\ NextBatch(V).stored = decimation.stored
<1>2. handler \in Handlers /\ decimation \in Decimations
  BY DEF TypeOK, Handlers, Decimations
<1>3. ASSUME Busy, NEW s \in {"row", "add"}
      PROVE  /\ [handler EXCEPT !.step = s] \in Handlers
              /\ [handler EXCEPT !.step = s].step = s
              /\ [handler EXCEPT !.step = s].op = handler.op
              /\ [handler EXCEPT !.step = s].loc = handler.loc
              /\ [handler EXCEPT !.step = s].row = handler.row
              /\ [handler EXCEPT !.step = s].file = handler.file
  BY <1>2, <1>3 DEF Handlers, Busy
<1>4. ASSUME decimation.stage # "idle"
      PROVE   /\ [decimation EXCEPT !.stage = "rows"] \in Decimations
              /\ [decimation EXCEPT !.stage = "rows"].stage = "rows"
              /\ [decimation EXCEPT !.stage = "rows"].victims = decimation.victims
              /\ [decimation EXCEPT !.stage = "rows"].stored = decimation.stored
              /\ [decimation EXCEPT !.stage = "select", !.victims = {}] \in Decimations
              /\ [decimation EXCEPT !.stage = "select", !.victims = {}].stage = "select"
              /\ [decimation EXCEPT !.stage = "select", !.victims = {}].stored = decimation.stored
  <2>0. decimation \in [stage : {"select", "files", "rows"}, batches : Nat, rows : Nat,
                        victims : SUBSET Location, stored : Nat]
    BY <1>2, <1>4 DEF Decimations, IdleDecimation
  <2>1. [decimation EXCEPT !.stage = "rows"] \in Decimations
    BY <2>0 DEF Decimations
  <2>2. /\ [decimation EXCEPT !.stage = "rows"].stage = "rows"
        /\ [decimation EXCEPT !.stage = "rows"].victims = decimation.victims
        /\ [decimation EXCEPT !.stage = "rows"].stored = decimation.stored
    BY <2>0
  <2>3. [decimation EXCEPT !.stage = "select", !.victims = {}] \in Decimations
    BY <2>0 DEF Decimations
  <2>4. /\ [decimation EXCEPT !.stage = "select", !.victims = {}].stage = "select"
        /\ [decimation EXCEPT !.stage = "select", !.victims = {}].stored = decimation.stored
    BY <2>0
  <2> QED
    BY <2>1, <2>2, <2>3, <2>4
<1>5. ASSUME decimation.stage # "idle", decimation.batches > 0, NEW V \in SUBSET Location
      PROVE   /\ NextBatch(V) \in Decimations
              /\ NextBatch(V).stage = "files" /\ NextBatch(V).victims = V
              /\ NextBatch(V).rows = decimation.rows
              /\ NextBatch(V).stored = decimation.stored
  <2>1. decimation.batches - 1 \in Nat
    BY <1>2, <1>5 DEF Decimations, IdleDecimation
  <2>2. decimation \in [stage : {"select", "files", "rows"}, batches : Nat, rows : Nat,
                        victims : SUBSET Location, stored : Nat]
    BY <1>2, <1>5 DEF Decimations, IdleDecimation
  <2> DEFINE b == decimation.batches - 1
  <2> HIDE DEF b
  <2>3. NextBatch(V) = [decimation EXCEPT !.stage = "files", !.victims = V, !.batches = b]
    BY DEF NextBatch, b
  <2>4. NextBatch(V) \in Decimations
    BY <2>1, <2>2, <2>3 DEF Decimations, b
  <2>5. /\ NextBatch(V).stage = "files" /\ NextBatch(V).victims = V
        /\ NextBatch(V).rows = decimation.rows
        /\ NextBatch(V).stored = decimation.stored
    BY <2>2, <2>3
  <2> QED
    BY <2>4, <2>5
<1> QED
  BY <1>3, <1>4, <1>5

\* What a handler writes is a size.
LEMMA WrittenLemma ==
  ASSUME TypeOK, Busy
  PROVE  NewFile(handler) \in OptNat /\ NewRow(handler) \in Nat
<1>1. handler.file \in OptNat /\ handler.row \in OptNat /\ handler.op \in Operation
  BY UnderWay
<1>2. OrZero(handler.file) \in Nat /\ OrZero(handler.row) \in Nat
  BY <1>1 DEF OrZero, OptNat
<1>3. NewFile(handler) \in OptNat /\ (handler.op \in {"commit", "heal"} => NewFile(handler) \in Nat)
  BY <1>1, <1>2 DEF NewFile, OptNat
<1> QED
  BY <1>2, <1>3 DEF NewRow

LEMMA ReadBundleType ==
  ASSUME TypeOK, NEW l \in Location, ReadBundle(l) PROVE TypeOK'
<1>1. touched' \in [Location -> OptNat]
  BY DEF TypeOK, ReadBundle, Touch, OptNat
<1> QED
  BY <1>1 DEF TypeOK, ReadBundle, store, bounds

LEMMA BeginRequestType ==
  ASSUME TypeOK, NEW l \in Location, NEW op \in Operation, BeginRequest(op, l) PROVE TypeOK'
<1>1. touched' \in [Location -> OptNat]
  BY DEF TypeOK, BeginRequest, Touch, OptNat
<1>2. handler' \in Handlers
  <2>1. row[l] \in OptNat /\ file[l] \in OptNat
    BY DEF TypeOK
  <2> QED
    BY <2>1 DEF BeginRequest, Handlers
<1>3. requests' \in Nat /\ clean' \in BOOLEAN
  BY DEF TypeOK, BeginRequest
<1> QED
  BY <1>1, <1>2, <1>3 DEF TypeOK, BeginRequest, store, Handlers

LEMMA PutFileType ==
  ASSUME TypeOK, PutFile PROVE TypeOK'
<1>1. Busy /\ handler.loc \in Location
  BY UnderWay DEF PutFile
<1>2. touched' \in [Location -> OptNat]
  BY <1>1 DEF TypeOK, PutFile, Touch, OptNat
<1>3. file' \in [Location -> OptNat]
  BY <1>1, WrittenLemma DEF TypeOK, PutFile
<1>4. handler' \in Handlers
  BY <1>1, Further DEF PutFile
<1> QED
  BY <1>2, <1>3, <1>4 DEF TypeOK, PutFile, bounds, Handlers

LEMMA PutRowType ==
  ASSUME TypeOK, PutRow PROVE TypeOK'
<1>1. Busy /\ handler.loc \in Location
  BY UnderWay DEF PutRow
<1>2. row' \in [Location -> OptNat]
  <2>1. NewRow(handler) \in OptNat
    BY <1>1, WrittenLemma DEF OptNat
  <2> QED
    BY <1>1, <2>1 DEF TypeOK, PutRow
<1>3. handler' \in Handlers
  BY <1>1, Further DEF PutRow
<1> QED
  BY <1>2, <1>3 DEF TypeOK, PutRow, bounds, Handlers

LEMMA AddBytesType ==
  ASSUME TypeOK, AddBytes PROVE TypeOK'
<1>1. counter' \in 0 .. (USize - 1)
  <2>1. counter + AdditionalBytes(handler) \in Int
    BY EnvironmentBounds DEF TypeOK, AdditionalBytes
  <2> QED
    BY <2>1, Wrapped DEF AddBytes
<1> QED
  BY <1>1 DEF TypeOK, AddBytes, bounds, store

LEMMA FlushedLemma ==
  ASSUME TypeOK PROVE Flushed \in [Location -> OptNat]
BY DEF TypeOK, Flushed

LEMMA DoMaintenanceType ==
  ASSUME TypeOK, DoMaintenance PROVE TypeOK'
<1>1. lastAccessed' \in [Location -> OptNat]
  BY FlushedLemma DEF DoMaintenance
<1>2. touched' \in [Location -> OptNat]
  BY DEF DoMaintenance, OptNat
<1>3. decimation' \in Decimations
  <2>1. FileBytes \in Nat
    <3>1. file \in [Location -> OptNat] /\ Location \in SUBSET Location
      BY DEF TypeOK
    <3> QED
      BY <3>1, SizesLemma DEF FileBytes
  <2>2. Plan(Flushed) \in Decimations
    BY <2>1, FlushedLemma, PlanLemma DEF Decimations
  <2> QED
    BY <2>2 DEF DoMaintenance
<1> QED
  BY <1>1, <1>2, <1>3 DEF TypeOK, DoMaintenance, bounds, Decimations

\* The batch that is chosen.
LEMMA BatchChosen ==
  ASSUME TypeOK, SelectVictims
  PROVE  \E V \in SUBSET Location, start \in Location :
           /\ Coldest(decimation.rows, V, Sample(start, decimation.rows))
           /\ \A l \in V : lastAccessed[l] \in Nat
           /\ decimation' = NextBatch(V) /\ decimation' \in Decimations
           /\ decimation'.stage = "files" /\ decimation'.victims = V
           /\ decimation'.rows = decimation.rows /\ decimation'.stored = decimation.stored
           /\ touched' = [l \in Location |-> IF l \in V THEN None ELSE touched[l]]
           /\ counter' = FetchSub(SumFunctionOnSet(Sizes(row), V))
           /\ SumFunctionOnSet(Sizes(row), V) \in Nat
           /\ clean' = (clean /\ (handler # IdleHandler => handler.loc \notin V))
<1>1. decimation.stage # "idle" /\ decimation.batches > 0 /\ decimation.rows \in Nat
  BY UnderWay DEF SelectVictims
<1>2. PICK start \in Location :
        LET V == Victims(start, decimation.rows)
        IN  /\ decimation' = NextBatch(V)
            /\ touched' = [l \in Location |-> IF l \in V THEN None ELSE touched[l]]
            /\ counter' = FetchSub(SumFunctionOnSet(Sizes(row), V))
            /\ clean' = (clean /\ (handler # IdleHandler => handler.loc \notin V))
  BY DEF SelectVictims
<1> DEFINE n == decimation.rows
           V == Victims(start, n)
<1>3. /\ V \in SUBSET Location /\ \A l \in V : lastAccessed[l] \in Nat
      /\ Coldest(n, V, Sample(start, n))
  <2> HIDE DEF n
  <2>1. n \in Nat
    BY <1>1 DEF n
  <2> QED
    BY <2>1, VictimsLemma
<1> HIDE DEF V
<1>4. /\ decimation' = NextBatch(V)
      /\ touched' = [l \in Location |-> IF l \in V THEN None ELSE touched[l]]
      /\ counter' = FetchSub(SumFunctionOnSet(Sizes(row), V))
      /\ clean' = (clean /\ (handler # IdleHandler => handler.loc \notin V))
  BY <1>2 DEF V
<1>5. /\ NextBatch(V) \in Decimations
      /\ NextBatch(V).stage = "files" /\ NextBatch(V).victims = V
      /\ NextBatch(V).rows = decimation.rows
      /\ NextBatch(V).stored = decimation.stored
  BY <1>1, <1>3, Further
<1>6. SumFunctionOnSet(Sizes(row), V) \in Nat
  BY <1>3, SizesLemma DEF TypeOK
<1>7. /\ decimation' \in Decimations
      /\ decimation'.stage = "files" /\ decimation'.victims = V
      /\ decimation'.rows = decimation.rows /\ decimation'.stored = decimation.stored
  BY <1>4, <1>5
<1> QED
  BY <1>3, <1>4, <1>6, <1>7

LEMMA SelectVictimsType ==
  ASSUME TypeOK, SelectVictims PROVE TypeOK'
<1>1. PICK V \in SUBSET Location :
        /\ decimation' \in Decimations
        /\ touched' = [l \in Location |-> IF l \in V THEN None ELSE touched[l]]
        /\ counter' = FetchSub(SumFunctionOnSet(Sizes(row), V))
        /\ SumFunctionOnSet(Sizes(row), V) \in Nat
        /\ clean' \in BOOLEAN
  BY BatchChosen DEF TypeOK
<1>2. touched' \in [Location -> OptNat]
  BY <1>1 DEF TypeOK, OptNat
<1>3. counter' \in 0 .. (USize - 1)
  <2> DEFINE b == SumFunctionOnSet(Sizes(row), V)
  <2>1. b \in Nat
    BY <1>1
  <2> HIDE DEF b
  <2>2. counter - b \in Int
    BY <2>1, EnvironmentBounds DEF TypeOK
  <2>3. counter' = (counter - b) % USize
    BY <1>1 DEF FetchSub, b
  <2> QED
    BY <2>2, <2>3, Wrapped
<1> QED
  BY <1>1, <1>2, <1>3 DEF TypeOK, SelectVictims, Decimations, store, bounds

LEMMA DeletionType ==
  ASSUME TypeOK, DeleteFiles \/ DeleteRows \/ EndDecimation PROVE TypeOK'
<1>1. CASE DeleteFiles
  <2>1. decimation' \in Decimations
    BY <1>1, Further DEF DeleteFiles
  <2>2. file' \in [Location -> OptNat]
    BY <1>1 DEF DeleteFiles, TypeOK, OptNat
  <2> QED
    BY <1>1, <2>1, <2>2 DEF TypeOK, DeleteFiles, Decimations, bounds
<1>2. CASE DeleteRows
  <2>1. decimation' \in Decimations
    BY <1>2, Further DEF DeleteRows
  <2>2. row' \in [Location -> OptNat] /\ lastAccessed' \in [Location -> OptNat]
    BY <1>2 DEF DeleteRows, TypeOK, OptNat
  <2> QED
    BY <1>2, <2>1, <2>2 DEF TypeOK, DeleteRows, Decimations, bounds
<1>3. CASE EndDecimation
  BY <1>3 DEF TypeOK, EndDecimation, store, bounds
<1> QED
  BY <1>1, <1>2, <1>3

LEMMA CrashType ==
  ASSUME TypeOK, Crash PROVE TypeOK'
<1>1. touched' \in [Location -> OptNat]
  BY DEF Crash, OptNat
<1>2. clean' \in BOOLEAN /\ crashes' \in Nat
  BY DEF Crash, TypeOK
<1> QED
  BY <1>1, <1>2 DEF TypeOK, Crash, store

LEMMA TypeNext ==
  ASSUME TypeOK, [Next]_vars PROVE TypeOK'
<1>1. CASE Tick
  BY <1>1 DEF Tick, TypeOK, store, bounds
<1>2. CASE UNCHANGED vars
  BY <1>2 DEF vars, TypeOK
<1> QED
  BY <1>1, <1>2, ReadBundleType, BeginRequestType, PutFileType, PutRowType, AddBytesType,
     DoMaintenanceType, SelectVictimsType, DeletionType, CrashType DEF Next

\* The victims stay the coldest as long as neither they nor the times of access change.
LEMMA ColdestUnchanged ==
  ASSUME VictimsColdest, UNCHANGED <<lastAccessed, decimation>> PROVE VictimsColdest'
<1>1. \A start, n : Sample(start, n)' = Sample(start, n)
  BY DEF Sample
<1> QED
  BY <1>1 DEF VictimsColdest

LEMMA ColdestChosen ==
  ASSUME TypeOK, SelectVictims PROVE VictimsColdest'
<1>1. PICK V \in SUBSET Location, start \in Location :
        /\ Coldest(decimation.rows, V, Sample(start, decimation.rows))
        /\ decimation'.victims = V /\ decimation'.rows = decimation.rows
  BY BatchChosen
<1>2. lastAccessed' = lastAccessed /\ decimation.rows \in Nat
  BY UnderWay DEF SelectVictims, store
<1> DEFINE n == decimation.rows
           S == Sample(start, n)
<1>3. S \in SUBSET Location
  BY SampleLemma
<1>4. n \in Nat
  BY <1>2
<1>5. Sample(start, decimation.rows)' = S
  BY <1>1, <1>2 DEF Sample, ComesBefore
<1>6. Coldest(n, V, S)
  BY <1>1
<1> HIDE DEF S, n
<1>7. Cardinality(S) \in Nat
  BY <1>3, EnvironmentBounds, FS_Subset, FS_CardinalityType
<1>8. Cardinality(V) = Min({Cardinality(S), n})
  BY <1>4, <1>6, <1>7, MinMaxOfTwo DEF Coldest
<1>9. /\ V \subseteq S /\ \A v \in V, l \in S \ V : lastAccessed[v] <= lastAccessed[l]
  BY <1>6 DEF Coldest
<1>10. decimation'.rows = n
  BY <1>1 DEF n
<1> QED
  BY <1>1, <1>2, <1>5, <1>8, <1>9, <1>10 DEF VictimsColdest

LEMMA ColdestNext ==
  ASSUME TypeOK, VictimsColdest, [Next]_vars PROVE VictimsColdest'
<1>1. CASE DoMaintenance
  <2>1. decimation' = IdleDecimation \/ decimation'.stage = "select"
    BY <1>1, FlushedLemma, PlanLemma DEF DoMaintenance
  <2>2. decimation'.stage # "files"
    BY <2>1 DEF IdleDecimation
  <2> QED
    BY <2>2 DEF VictimsColdest
<1>2. CASE DeleteFiles
  <2>1. decimation'.stage # "files"
    BY <1>2, Further DEF DeleteFiles
  <2> QED
    BY <2>1 DEF VictimsColdest
<1>3. CASE DeleteRows
  <2>1. decimation'.stage # "files"
    BY <1>3, Further DEF DeleteRows
  <2> QED
    BY <2>1 DEF VictimsColdest
<1>4. CASE EndDecimation \/ Crash
  <2>1. decimation' = IdleDecimation
    BY <1>4 DEF EndDecimation, Crash
  <2>2. decimation'.stage # "files"
    BY <2>1 DEF IdleDecimation
  <2> QED
    BY <2>2 DEF VictimsColdest
<1>5. ASSUME NEW l \in Location, ReadBundle(l) PROVE UNCHANGED <<lastAccessed, decimation>>
  BY <1>5 DEF ReadBundle, store
<1>6. ASSUME NEW l \in Location, NEW op \in Operation, BeginRequest(op, l)
      PROVE  UNCHANGED <<lastAccessed, decimation>>
  BY <1>6 DEF BeginRequest, store
<1>7. ASSUME PutFile \/ PutRow \/ AddBytes \/ Tick \/ UNCHANGED vars
      PROVE  UNCHANGED <<lastAccessed, decimation>>
  BY <1>7 DEF PutFile, PutRow, AddBytes, Tick, vars, store
<1> QED
  BY <1>1, <1>2, <1>3, <1>4, <1>5, <1>6, <1>7, ColdestChosen, ColdestUnchanged DEF Next

-----------------------------------------------------------------------------
(***************************************************************************)
(* The accounts, step by step.                                             *)
(***************************************************************************)
\* What the accounts say in numbers.
LEMMA InBounds ==
  ASSUME TypeOK
  PROVE  /\ counter \in Nat /\ requests \in Nat
         /\ FileBytes \in Nat /\ Uncounted \in {0, 1} /\ TakenOff \in Nat
         /\ RowBytes \in Nat
         /\ FileBytes = SumFunctionOnSet(Sizes(file), Location)
         /\ RowBytes = SumFunctionOnSet(Sizes(row), Location)
<1>1. file \in [Location -> OptNat] /\ row \in [Location -> OptNat] /\ Location \in SUBSET Location
  BY DEF TypeOK
<1>2. /\ FileBytes \in Nat /\ FileBytes = SumFunctionOnSet(Sizes(file), Location)
      /\ RowBytes \in Nat /\ RowBytes = SumFunctionOnSet(Sizes(row), Location)
  BY <1>1, SizesLemma DEF FileBytes, RowBytes
<1>3. TakenOff \in Nat
  <2>1. decimation.stage = "files" => decimation.victims \in SUBSET Location
    BY UnderWay
  <2> QED
    BY <1>1, <2>1, SizesLemma DEF TakenOff
<1> QED
  BY <1>2, <1>3 DEF TypeOK, Uncounted

\* Only the touches of a bundle change, or the clock does.
LEMMA BooksTouched ==
  ASSUME TypeOK, Books, UNCHANGED <<row, file, lastAccessed, counter, handler, decimation, requests>>,
         \A l \in Location : touched[l] # None => touched'[l] # None
  PROVE  Books'
<1>1. (FileBytes)' = FileBytes /\ Uncounted' = Uncounted /\ TakenOff' = TakenOff
      /\ BeingDeleted' = BeingDeleted /\ Busy' = Busy
  BY DEF FileBytes, Sizes, OrZero, Uncounted, TakenOff, BeingDeleted, Busy
<1>2. CountKept' /\ FewBytes'
  BY <1>1 DEF Books, CountKept, FewBytes
<1>3. RowsMatch' /\ OverWhenBegun'
  BY <1>1 DEF Books, RowsMatch, OrZero, OverWhenBegun, OverQuota, IdleDecimation
<1>3a. FilesGone'
  BY DEF Books, FilesGone
<1>4. HandlerCurrent'
  BY <1>1, UnderWay DEF Books, HandlerCurrent, NewRow, NewFile, OrZero
<1>5. AllFound'
  BY <1>1 DEF Books, AllFound
<1> QED
  BY <1>2, <1>3, <1>3a, <1>4, <1>5 DEF Books

LEMMA BooksRead ==
  ASSUME TypeOK, Books, NEW l \in Location, ReadBundle(l) PROVE Books'
<1>1. now # None
  BY EnvironmentBounds DEF TypeOK
<1>2. \A g \in Location : touched[g] # None => touched'[g] # None
  BY <1>1 DEF ReadBundle, Touch, TypeOK
<1>3. UNCHANGED <<row, file, lastAccessed, counter, handler, decimation, requests>>
  BY DEF ReadBundle, store, bounds
<1> QED
  BY <1>2, <1>3, BooksTouched

LEMMA BooksBegin ==
  ASSUME TypeOK, Books, NEW l \in Location, NEW op \in Operation, BeginRequest(op, l), clean'
  PROVE  Books'
<1>1. /\ UNCHANGED <<row, file, lastAccessed, counter, decimation>>
      /\ handler' = [step |-> "file", op |-> op, loc |-> l, row |-> row[l], file |-> file[l]]
      /\ requests' = requests + 1 /\ requests < MaxRequests
      /\ op # "heal" /\ l \notin BeingDeleted
  BY DEF BeginRequest, store
<1>2. /\ handler'.step = "file" /\ handler'.op = op /\ handler'.loc = l
      /\ handler'.row = row[l] /\ handler'.file = file[l]
  BY <1>1
<1>3. handler.step = "idle"
  BY DEF BeginRequest, IdleHandler
<1>4. (FileBytes)' = FileBytes /\ TakenOff' = TakenOff /\ BeingDeleted' = BeingDeleted
  BY <1>1 DEF FileBytes, Sizes, OrZero, TakenOff, BeingDeleted
<1>5. Uncounted = 0 /\ Uncounted' = 0
  BY <1>2, <1>3 DEF Uncounted
<1>6. CountKept'
  BY <1>1, <1>4, <1>5 DEF Books, CountKept
<1>7. FewBytes'
  BY <1>1, <1>2, <1>3, <1>4, InBounds, EnvironmentBounds DEF Books, FewBytes
<1>8. RowsMatch' /\ FilesGone' /\ OverWhenBegun'
  <2>1. RowsMatch'
    BY <1>1, <1>2, <1>3 DEF Books, RowsMatch, OrZero
  <2> QED
    BY <1>1, <2>1 DEF Books, FilesGone, OverWhenBegun, OverQuota
<1>9. /\ touched'[l] # None
      /\ \A g \in Location : touched[g] # None => touched'[g] # None
  <2>1. now # None
    BY EnvironmentBounds DEF TypeOK
  <2> QED
    BY <2>1 DEF BeginRequest, Touch, TypeOK
<1>10. HandlerCurrent'
  BY <1>1, <1>2, <1>4, <1>9 DEF HandlerCurrent
<1>11. AllFound'
  BY <1>1, <1>4, <1>9 DEF Books, AllFound
<1> QED
  BY <1>6, <1>7, <1>8, <1>10, <1>11 DEF Books

\* What the accounts say of the bundle of a handler: it is no victim, and its row agrees with
\* its file unless the row is about to be written.
LEMMA OfHandler ==
  ASSUME TypeOK, Books, Busy
  PROVE  /\ handler.loc \in Location /\ handler.op \in {"commit", "claim", "seal"}
         /\ decimation.stage \in {"files", "rows"} => handler.loc \notin decimation.victims
         /\ handler.step = "file" => /\ OrZero(row[handler.loc]) = OrZero(file[handler.loc])
                                     /\ handler.file = file[handler.loc]
                                     /\ handler.row = row[handler.loc]
<1>1. handler.loc \in Location /\ handler.op \in Operation /\ HandlerCurrent /\ RowsMatch
  BY UnderWay DEF Books
<1>2. handler.op \in {"commit", "claim", "seal"}
  BY <1>1 DEF HandlerCurrent, Operation
<1>3. decimation.stage \in {"files", "rows"} => handler.loc \notin decimation.victims
  BY <1>1 DEF HandlerCurrent, BeingDeleted
<1>4. handler.step = "file" => handler.file = file[handler.loc] /\ handler.row = row[handler.loc]
  BY <1>1 DEF HandlerCurrent
<1>5. handler.step = "file" => OrZero(row[handler.loc]) = OrZero(file[handler.loc])
  BY <1>1, <1>3 DEF RowsMatch
<1> QED
  BY <1>1, <1>2, <1>3, <1>4, <1>5

LEMMA BooksPutFile ==
  ASSUME TypeOK, Books, PutFile PROVE Books'
<1> DEFINE h == handler
           l == handler.loc
<1>1. Busy /\ l \in Location
  BY UnderWay DEF PutFile
<1>2. /\ handler'.step = "row" /\ handler'.op = h.op /\ handler'.loc = l
      /\ handler'.row = h.row /\ handler'.file = h.file
  BY <1>1, Further DEF PutFile
<1>3. /\ h.op \in {"commit", "claim", "seal"}
      /\ decimation.stage \in {"files", "rows"} => l \notin decimation.victims
      /\ OrZero(row[l]) = OrZero(file[l]) /\ h.file = file[l] /\ h.row = row[l]
  BY <1>1, OfHandler DEF PutFile
<1>4. h.step = "file" /\ UNCHANGED <<row, lastAccessed, counter, decimation, requests>>
  BY DEF PutFile, bounds
<1>5. file \in [Location -> OptNat] /\ file' \in [Location -> OptNat] /\ row \in [Location -> OptNat]
  BY PutFileType DEF TypeOK
<1>6. \A g \in Location \ {l} : file'[g] = file[g]
  BY <1>5 DEF PutFile
<1>7. OrZero(file'[l]) = OrZero(file[l]) + (IF h.op = "commit" THEN 1 ELSE 0)
  <2>1. OrZero(file[l]) \in Nat
    BY <1>1, <1>5, SizesLemma
  <2>2. file'[l] = IF h.op = "claim" \/ NewFile(h) = None THEN file[l] ELSE NewFile(h)
    BY <1>1, <1>5 DEF PutFile
  <2>3. NewFile(h) = IF h.op = "commit" THEN OrZero(file[l]) + 1 ELSE file[l]
    BY <1>3 DEF NewFile
  <2>4. CASE h.op = "commit"
    <3>1. OrZero(file[l]) + 1 \in Nat
      BY <2>1
    <3>2. file'[l] = OrZero(file[l]) + 1 /\ file'[l] # None
      BY <2>2, <2>3, <2>4, <3>1, EnvironmentBounds
    <3> QED
      BY <2>4, <3>2 DEF OrZero
  <2>5. CASE h.op # "commit"
    <3>1. file'[l] = file[l]
      BY <2>2, <2>3, <2>5
    <3> QED
      BY <2>1, <2>5, <3>1
  <2> QED
    BY <2>4, <2>5
<1>8. (FileBytes)' = FileBytes + (IF h.op = "commit" THEN 1 ELSE 0)
  <2>1. /\ SumFunction(Sizes(file')) + OrZero(file[l]) = SumFunction(Sizes(file)) + OrZero(file'[l])
        /\ SumFunction(Sizes(file')) \in Nat /\ SumFunction(Sizes(file)) \in Nat
    BY <1>1, <1>5, <1>6, SizesWritten
  <2>2. (FileBytes)' = SumFunction(Sizes(file')) /\ FileBytes = SumFunction(Sizes(file))
    BY DEF FileBytes, Sizes
  <2>3. OrZero(file[l]) \in Nat
    BY <1>1, <1>5, SizesLemma
  <2> DEFINE a == OrZero(file[l])
             b == SumFunction(Sizes(file'))
             c == SumFunction(Sizes(file))
  <2> HIDE DEF a, b, c
  <2>4. b + a = c + (a + (IF h.op = "commit" THEN 1 ELSE 0)) /\ b \in Nat /\ c \in Nat /\ a \in Nat
    BY <1>7, <2>1, <2>3 DEF a, b, c
  <2>5. b = c + (IF h.op = "commit" THEN 1 ELSE 0)
    BY <2>4
  <2> QED
    BY <2>2, <2>5 DEF b, c
<1>9. TakenOff' = TakenOff /\ BeingDeleted' = BeingDeleted
  BY <1>4 DEF TakenOff, BeingDeleted, Sizes, OrZero
<1>10. Uncounted = 0 /\ Uncounted' = IF h.op = "commit" THEN 1 ELSE 0
  BY <1>2, <1>4 DEF Uncounted
<1>11. CountKept'
  BY <1>4, <1>8, <1>9, <1>10, InBounds DEF Books, CountKept
<1>12. FewBytes'
  BY <1>2, <1>4, <1>8, InBounds DEF Books, FewBytes
<1>13. RowsMatch'
  <2> SUFFICES ASSUME NEW g \in Location, g # l
               PROVE  \/ OrZero(row[g]) = OrZero(file[g])
                      \/ decimation.stage = "rows" /\ g \in decimation.victims
    BY <1>2, <1>4, <1>6 DEF RowsMatch, OrZero
  <2> QED
    BY <1>4 DEF Books, RowsMatch
<1>14. FilesGone' /\ OverWhenBegun'
  <2>1. FilesGone'
    <3>1. decimation.stage = "rows" => decimation.victims \subseteq Location \ {l}
      BY <1>3, UnderWay
    <3> QED
      BY <1>4, <1>6, <3>1 DEF Books, FilesGone
  <2> QED
    BY <1>4, <2>1 DEF Books, OverWhenBegun, OverQuota
<1>15. \A g \in Location : touched[g] # None => touched'[g] # None
  <2>1. now # None
    BY EnvironmentBounds DEF TypeOK
  <2> QED
    BY <2>1 DEF PutFile, Touch, TypeOK
<1>16. HandlerCurrent'
  <2>1. touched'[l] # None /\ l \notin BeingDeleted
    BY <1>1, <1>15 DEF Books, HandlerCurrent
  <2>2. NewRow(handler)' = OrZero(file'[l])
    <3>1. NewRow(handler)' = NewRow(h)
      BY <1>2 DEF NewRow, NewFile, OrZero
    <3>2. OrZero(file[l]) \in Nat
      BY <1>1, <1>5, SizesLemma
    <3>3. NewRow(h) = OrZero(file[l]) + (IF h.op = "commit" THEN 1 ELSE 0)
      BY <1>3, <3>2 DEF NewRow, NewFile
    <3> QED
      BY <1>7, <3>1, <3>3
  <2>4. h.op = "commit" => OrZero(file'[l]) >= 1
    <3>1. OrZero(file[l]) \in Nat
      BY <1>1, <1>5, SizesLemma
    <3> QED
      BY <1>7, <3>1
  <2>5. OrZero(file[handler.loc])' = OrZero(file'[l])
    BY <1>2 DEF OrZero
  <2> QED
    BY <1>2, <1>3, <1>9, <2>1, <2>2, <2>4, <2>5 DEF HandlerCurrent
<1>17. AllFound'
  BY <1>4, <1>9, <1>15 DEF Books, AllFound
<1> QED
  BY <1>11, <1>12, <1>13, <1>14, <1>16, <1>17 DEF Books

LEMMA BooksPutRow ==
  ASSUME TypeOK, Books, PutRow PROVE Books'
<1> DEFINE h == handler
           l == handler.loc
<1>1. Busy /\ l \in Location
  BY UnderWay DEF PutRow
<1>2. /\ handler'.step = "add" /\ handler'.op = h.op /\ handler'.loc = l
      /\ handler'.row = h.row /\ handler'.file = h.file
  BY <1>1, Further DEF PutRow
<1>3. /\ h.op \in {"commit", "claim", "seal"}
      /\ decimation.stage \in {"files", "rows"} => l \notin decimation.victims
  BY <1>1, OfHandler
<1>4. h.step = "row" /\ UNCHANGED <<file, lastAccessed, touched, counter, decimation, requests>>
  BY DEF PutRow, bounds
<1>5. row \in [Location -> OptNat] /\ row' \in [Location -> OptNat]
  BY PutRowType DEF TypeOK
<1>6. row'[l] = NewRow(h) /\ \A g \in Location \ {l} : row'[g] = row[g]
  BY <1>1, <1>5 DEF PutRow
<1>7. OrZero(row'[l]) = OrZero(file[l]) /\ touched[l] # None /\ h.op # "heal" /\ l \notin BeingDeleted
      /\ (h.op = "commit" => OrZero(file[l]) >= 1)
  <2>1. NewRow(h) \in Nat
    BY <1>1, WrittenLemma
  <2>2. OrZero(row'[l]) = NewRow(h)
    BY <1>6, <2>1, EnvironmentBounds DEF OrZero
  <2> QED
    BY <1>1, <1>4, <2>2 DEF Books, HandlerCurrent
<1>8. TakenOff' = TakenOff
  <2>1. CASE decimation.stage = "files"
    <3> DEFINE V == decimation.victims
    <3>1. V \in SUBSET Location /\ l \notin V
      BY <1>3, <2>1, UnderWay
    <3>2. \A g \in V : OrZero(row'[g]) = OrZero(row[g])
      BY <1>6, <3>1
    <3> HIDE DEF V
    <3>3. SumFunctionOnSet(Sizes(row'), V) = SumFunctionOnSet(Sizes(row), V)
      BY <1>5, <3>1, <3>2, SizesEqual
    <3>4. Sizes(row)' = Sizes(row')
      BY DEF Sizes
    <3>5. TakenOff = SumFunctionOnSet(Sizes(row), V)
      BY <2>1 DEF TakenOff, V
    <3>6. TakenOff' = SumFunctionOnSet(Sizes(row'), V)
      BY <1>4, <2>1, <3>4 DEF TakenOff, V
    <3> QED
      BY <3>3, <3>5, <3>6
  <2>2. CASE decimation.stage # "files"
    BY <1>4, <2>2 DEF TakenOff
  <2> QED
    BY <2>1, <2>2
<1>9. (FileBytes)' = FileBytes /\ Uncounted' = Uncounted /\ BeingDeleted' = BeingDeleted
  BY <1>2, <1>4 DEF FileBytes, Sizes, Uncounted, BeingDeleted
<1>10. CountKept' /\ FewBytes'
  <2>1. CountKept'
    BY <1>4, <1>8, <1>9 DEF Books, CountKept
  <2> QED
    BY <1>2, <1>4, <1>9, <2>1 DEF Books, FewBytes
<1>11. RowsMatch'
  <2> SUFFICES ASSUME NEW g \in Location
               PROVE  \/ OrZero(row'[g]) = OrZero(file[g])
                      \/ decimation.stage = "rows" /\ g \in decimation.victims
    BY <1>4 DEF RowsMatch, OrZero
  <2>1. CASE g = l
    BY <1>7, <2>1
  <2>2. CASE g # l
    BY <1>4, <1>6, <2>2 DEF Books, RowsMatch
  <2> QED
    BY <2>1, <2>2
<1>12. FilesGone' /\ OverWhenBegun'
  BY <1>4 DEF Books, FilesGone, OverWhenBegun, OverQuota
<1>13. HandlerCurrent'
  <2>1. OrZero(file[handler.loc])' = OrZero(file[l])
    BY <1>2, <1>4 DEF OrZero
  <2> QED
    BY <1>2, <1>4, <1>7, <1>9, <2>1 DEF HandlerCurrent
<1>14. AllFound'
  BY <1>4, <1>6, <1>7, <1>9 DEF Books, AllFound
<1> QED
  BY <1>10, <1>11, <1>12, <1>13, <1>14 DEF Books

LEMMA BooksAdd ==
  ASSUME TypeOK, Books, AddBytes PROVE Books'
<1>1. Busy /\ handler.step = "add" /\ handler' = IdleHandler
      /\ UNCHANGED <<row, file, lastAccessed, touched, decimation, requests>>
  BY UnderWay DEF AddBytes, store, bounds
<1>2. handler'.step = "idle" /\ ~Busy'
  BY <1>1 DEF IdleHandler, Busy
<1>3. (FileBytes)' = FileBytes /\ TakenOff' = TakenOff /\ BeingDeleted' = BeingDeleted /\ Uncounted' = 0
  BY <1>1, <1>2 DEF FileBytes, Sizes, OrZero, TakenOff, BeingDeleted, Uncounted
<1>4. Uncounted = AdditionalBytes(handler)
  BY <1>1 DEF Uncounted, AdditionalBytes
<1>5. counter' = counter + Uncounted
  <2>1. counter + Uncounted \in 0 .. (USize - 1)
    BY <1>1, InBounds, EnvironmentBounds DEF Books, CountKept, FewBytes
  <2>2. counter' = (counter + Uncounted) % USize
    BY <1>4 DEF AddBytes
  <2> DEFINE x == counter + Uncounted
  <2>3. x \in 0 .. (USize - 1) /\ counter' = x % USize
    BY <2>1, <2>2
  <2> HIDE DEF x
  <2>4. counter' = x
    BY <2>3, Wrapped
  <2> QED
    BY <2>4 DEF x
<1>6. CountKept' /\ FewBytes'
  <2>1. CountKept'
    BY <1>3, <1>5, InBounds DEF Books, CountKept
  <2> QED
    BY <1>1, <1>2, <1>3, <2>1 DEF Books, FewBytes
<1>7. RowsMatch' /\ FilesGone' /\ OverWhenBegun'
  <2>1. RowsMatch'
    BY <1>1 DEF Books, RowsMatch, OrZero
  <2> QED
    BY <1>1, <2>1 DEF Books, FilesGone, OverWhenBegun, OverQuota
<1>8. HandlerCurrent' /\ AllFound'
  BY <1>1, <1>2, <1>3 DEF Books, HandlerCurrent, AllFound
<1> QED
  BY <1>6, <1>7, <1>8 DEF Books

LEMMA BooksMaintenance ==
  ASSUME TypeOK, Books, DoMaintenance PROVE Books'
<1>1. /\ handler = IdleHandler /\ decimation = IdleDecimation
      /\ handler.step = "idle" /\ decimation.stage = "idle" /\ ~Busy
      /\ UNCHANGED <<row, file, counter, handler, requests>>
  BY DEF DoMaintenance, IdleHandler, IdleDecimation, Busy, bounds
<1>2. /\ decimation' = IdleDecimation \/ (OverQuota(counter) /\ decimation'.stored = FileBytes)
      /\ decimation'.stage \in {"idle", "select"}
  <2>1. CASE Plan(Flushed) = IdleDecimation
    BY <2>1 DEF DoMaintenance, IdleDecimation
  <2>2. CASE Plan(Flushed) # IdleDecimation
    BY <2>2, FlushedLemma, PlanLemma DEF DoMaintenance
  <2> QED
    BY <2>1, <2>2
<1>3. (FileBytes)' = FileBytes /\ TakenOff = 0 /\ TakenOff' = 0 /\ BeingDeleted' = {}
      /\ Uncounted = 0 /\ Uncounted' = 0
  BY <1>1, <1>2 DEF FileBytes, Sizes, OrZero, TakenOff, BeingDeleted, Uncounted
<1>4. counter = FileBytes
  BY <1>3, InBounds DEF Books, CountKept
<1>5. CountKept' /\ FewBytes'
  BY <1>1, <1>3, <1>4, InBounds DEF Books, CountKept, FewBytes
<1>6. RowsMatch' /\ FilesGone' /\ HandlerCurrent'
  <2>1. RowsMatch'
    BY <1>1 DEF Books, RowsMatch, OrZero
  <2>2. HandlerCurrent' /\ FilesGone'
    BY <1>1, <1>2 DEF HandlerCurrent, Busy, FilesGone
  <2> QED
    BY <2>1, <2>2
<1>7. OverWhenBegun'
  BY <1>2, <1>4 DEF OverWhenBegun, OverQuota, IdleDecimation
<1>8. AllFound'
  <2>1. \A l \in Location : lastAccessed'[l] = IF touched[l] = None THEN lastAccessed[l] ELSE touched[l]
    BY DEF DoMaintenance, Flushed
  <2> QED
    BY <1>1, <1>3, <2>1 DEF Books, AllFound
<1> QED
  BY <1>5, <1>6, <1>7, <1>8 DEF Books

\* The bytes of the victims of a batch: rows and files agree on them, and what a handler has
\* written and not counted is not among them.
LEMMA VictimBytes ==
  ASSUME TypeOK, Books, NEW V \in SUBSET Location,
         Busy => handler.loc \notin V, decimation.stage # "rows"
  PROVE  /\ SumFunctionOnSet(Sizes(row), V) = SumFunctionOnSet(Sizes(file), V)
         /\ SumFunctionOnSet(Sizes(file), V) \in Nat
         /\ SumFunctionOnSet(Sizes(file), Location \ V) \in Nat
         /\ FileBytes = SumFunctionOnSet(Sizes(file), V) + SumFunctionOnSet(Sizes(file), Location \ V)
         /\ Uncounted <= SumFunctionOnSet(Sizes(file), Location \ V)
<1>1. row \in [Location -> OptNat] /\ file \in [Location -> OptNat]
  BY DEF TypeOK
<1>2. \A l \in V : OrZero(row[l]) = OrZero(file[l])
  <2> TAKE l \in V
  <2>1. l \in Location /\ RowsMatch
    BY DEF Books
  <2>2. ~(handler.step = "row" /\ l = handler.loc)
    BY UnderWay
  <2> QED
    BY <2>1, <2>2 DEF RowsMatch
<1>3. SumFunctionOnSet(Sizes(row), V) = SumFunctionOnSet(Sizes(file), V)
  BY <1>1, <1>2, SizesEqual
<1>4. FileBytes = SumFunctionOnSet(Sizes(file), V) + SumFunctionOnSet(Sizes(file), Location \ V)
  BY <1>1, SizesSplit DEF FileBytes
<1>5. /\ SumFunctionOnSet(Sizes(file), V) \in Nat
      /\ SumFunctionOnSet(Sizes(file), Location \ V) \in Nat
  BY <1>1, SizesLemma
<1>6. Uncounted <= SumFunctionOnSet(Sizes(file), Location \ V)
  <2>1. CASE Uncounted = 0
    BY <1>5, <2>1
  <2>2. CASE Uncounted # 0
    <3> DEFINE l == handler.loc
               rest == Location \ V
    <3>1. handler.step \in {"row", "add"} /\ handler.op = "commit" /\ Uncounted = 1
      BY <2>2 DEF Uncounted
    <3>2. Busy /\ l \in rest
      BY <3>1, UnderWay
    <3>3. OrZero(file[l]) >= 1 /\ OrZero(file[l]) \in Nat
      BY <1>1, <3>1, <3>2, SizesLemma DEF Books, HandlerCurrent
    <3> HIDE DEF l, rest
    <3>4. rest \in SUBSET Location
      BY DEF rest
    <3>5. SumFunctionOnSet(Sizes(file), rest) = OrZero(file[l]) + SumFunctionOnSet(Sizes(file), rest \ {l})
      BY <1>1, <3>2, <3>4, SizesOne
    <3>6. SumFunctionOnSet(Sizes(file), rest \ {l}) \in Nat
      <4>1. rest \ {l} \in SUBSET Location
        BY <3>4
      <4> QED
        BY <1>1, <4>1, SizesLemma
    <3>7. SumFunctionOnSet(Sizes(file), rest) >= 1
      BY <3>3, <3>5, <3>6
    <3> QED
      BY <1>5, <3>1, <3>7 DEF rest
  <2> QED
    BY <2>1, <2>2
<1> QED
  BY <1>3, <1>4, <1>5, <1>6

LEMMA BooksSelect ==
  ASSUME TypeOK, Books, SelectVictims, clean' PROVE Books'
<1>1. PICK V \in SUBSET Location :
        /\ \A l \in V : lastAccessed[l] \in Nat
        /\ decimation'.stage = "files" /\ decimation'.victims = V
        /\ decimation'.stored = decimation.stored
        /\ touched' = [l \in Location |-> IF l \in V THEN None ELSE touched[l]]
        /\ counter' = FetchSub(SumFunctionOnSet(Sizes(row), V))
        /\ SumFunctionOnSet(Sizes(row), V) \in Nat
        /\ clean' = (clean /\ (handler # IdleHandler => handler.loc \notin V))
  BY BatchChosen
<1>2. /\ decimation.stage = "select"
      /\ UNCHANGED <<row, file, lastAccessed, handler, requests>>
  BY DEF SelectVictims, store, bounds
<1>3. Busy => handler.loc \notin V
  BY <1>1 DEF Busy
<1> DEFINE b == SumFunctionOnSet(Sizes(row), V)
<1>4. (FileBytes)' = FileBytes /\ Uncounted' = Uncounted /\ Busy' = Busy
  BY <1>2 DEF FileBytes, Sizes, OrZero, Uncounted, Busy
<1>5. TakenOff = 0 /\ TakenOff' = b /\ BeingDeleted' = V
  <2>1. Sizes(row)' = Sizes(row)
    BY <1>2 DEF Sizes, OrZero
  <2>2. BeingDeleted' = V
    BY <1>1 DEF BeingDeleted
  <2> QED
    BY <1>1, <1>2, <2>1, <2>2 DEF TakenOff
<1>6. b <= counter /\ b \in Nat
  <2> DEFINE s == SumFunctionOnSet(Sizes(file), V)
             r == SumFunctionOnSet(Sizes(file), Location \ V)
  <2>1. b = s /\ s \in Nat /\ r \in Nat /\ FileBytes = s + r /\ Uncounted <= r
    BY <1>2, <1>3, VictimBytes
  <2> HIDE DEF s, r, b
  <2>2. counter + Uncounted = FileBytes
    BY <1>5, InBounds DEF Books, CountKept
  <2> QED
    BY <2>1, <2>2, InBounds
<1>7. counter' = counter - b
  <2>1. counter' = (counter - b) % USize
    BY <1>1 DEF FetchSub
  <2> HIDE DEF b
  <2>2. counter - b \in 0 .. (USize - 1)
    BY <1>6, EnvironmentBounds DEF TypeOK
  <2> QED
    BY <2>1, <2>2, Wrapped
<1> HIDE DEF b
<1>8. CountKept'
  BY <1>4, <1>5, <1>6, <1>7, InBounds DEF Books, CountKept
<1>9. FewBytes'
  BY <1>2, <1>4 DEF Books, FewBytes
<1>10. RowsMatch' /\ FilesGone' /\ OverWhenBegun'
  <2>1. RowsMatch'
    BY <1>2 DEF Books, RowsMatch, OrZero
  <2>2. FilesGone'
    BY <1>1 DEF FilesGone
  <2>3. decimation # IdleDecimation
    BY <1>2 DEF IdleDecimation
  <2> QED
    BY <1>1, <2>1, <2>2, <2>3 DEF Books, OverWhenBegun, OverQuota
<1>11. HandlerCurrent'
  <2>1. Busy => touched'[handler.loc] = touched[handler.loc]
    BY <1>1, <1>3, UnderWay
  <2>2. NewRow(handler)' = NewRow(handler) /\ OrZero(file[handler.loc])' = OrZero(file[handler.loc])
    BY <1>2 DEF NewRow, NewFile, OrZero
  <2> QED
    BY <1>2, <1>3, <1>4, <1>5, <2>1, <2>2 DEF Books, HandlerCurrent
<1>12. AllFound'
  <2>1. \A l \in V : lastAccessed[l] # None
    BY <1>1, EnvironmentBounds
  <2>2. \A l \in Location : l \notin V => touched'[l] = touched[l]
    BY <1>1
  <2> QED
    BY <1>2, <1>5, <2>1, <2>2 DEF Books, AllFound
<1> QED
  BY <1>8, <1>9, <1>10, <1>11, <1>12 DEF Books

LEMMA BooksDeleteFiles ==
  ASSUME TypeOK, Books, DeleteFiles PROVE Books'
<1> DEFINE V == decimation.victims
<1>1. /\ decimation.stage = "files" /\ V \in SUBSET Location
      /\ decimation'.stage = "rows" /\ decimation'.victims = V /\ decimation'.stored = decimation.stored
      /\ UNCHANGED <<row, lastAccessed, touched, counter, handler, requests>>
  BY UnderWay, Further DEF DeleteFiles, bounds
<1>2. Busy => handler.loc \notin V
  BY <1>1, OfHandler
<1>3. file \in [Location -> OptNat] /\ file' \in [Location -> OptNat]
  BY DeletionType DEF TypeOK
<1>4. (\A l \in V : file'[l] = None) /\ (\A l \in Location \ V : file'[l] = file[l])
  BY <1>1 DEF DeleteFiles
<1> HIDE DEF V
<1> DEFINE s == SumFunctionOnSet(Sizes(file), V)
           r == SumFunctionOnSet(Sizes(file), Location \ V)
<1>5. TakenOff = s /\ s \in Nat /\ r \in Nat /\ FileBytes = s + r
  <2>1. TakenOff = SumFunctionOnSet(Sizes(row), V)
    BY <1>1 DEF TakenOff, V
  <2> QED
    BY <1>1, <1>2, <2>1, VictimBytes
<1>6. (FileBytes)' = r
  <2>1. (FileBytes)' = SumFunction(Sizes(file'))
    BY DEF FileBytes, Sizes
  <2>2. SumFunction(Sizes(file')) =
          SumFunctionOnSet(Sizes(file'), V) + SumFunctionOnSet(Sizes(file'), Location \ V)
    BY <1>1, <1>3, SizesSplit
  <2>3. SumFunctionOnSet(Sizes(file'), V) = 0
    <3> DEFINE f == Sizes(file')
    <3>1. \A l \in V : f[l] = 0
      BY <1>1, <1>4 DEF Sizes, OrZero
    <3>2. IsFiniteSet(V)
      BY <1>1, EnvironmentBounds, FS_Subset
    <3> HIDE DEF f
    <3>3. SumFunctionOnSet(f, V) = 0
      BY <3>1, <3>2, SumOfZeros
    <3> QED
      BY <3>3 DEF f
  <2>4. SumFunctionOnSet(Sizes(file'), Location \ V) = r
    <3> DEFINE rest == Location \ V
    <3>1. \A l \in rest : OrZero(file'[l]) = OrZero(file[l])
      BY <1>4
    <3>2. rest \in SUBSET Location
      OBVIOUS
    <3> HIDE DEF rest
    <3>3. SumFunctionOnSet(Sizes(file'), rest) = SumFunctionOnSet(Sizes(file), rest)
      BY <1>3, <3>1, <3>2, SizesEqual
    <3> QED
      BY <3>3 DEF rest
  <2> HIDE DEF r
  <2> QED
    BY <1>5, <2>1, <2>2, <2>3, <2>4
<1> HIDE DEF s, r
<1>7. TakenOff' = 0 /\ Uncounted' = Uncounted /\ BeingDeleted' = V /\ BeingDeleted = V /\ Busy' = Busy
  BY <1>1 DEF TakenOff, Uncounted, BeingDeleted, Busy, V
<1>8. CountKept' /\ FewBytes'
  <2>1. CountKept'
    BY <1>1, <1>5, <1>6, <1>7, InBounds DEF Books, CountKept
  <2> QED
    BY <1>1, <1>5, <1>6, <2>1, InBounds DEF Books, FewBytes
<1>9. RowsMatch'
  <2> SUFFICES ASSUME NEW l \in Location, l \notin V
               PROVE  \/ OrZero(row[l]) = OrZero(file'[l])
                      \/ handler.step = "row" /\ l = handler.loc
    BY <1>1 DEF RowsMatch, OrZero, V
  <2> QED
    BY <1>1, <1>4 DEF Books, RowsMatch
<1>10. FilesGone' /\ OverWhenBegun'
  <2>1. FilesGone'
    BY <1>1, <1>4 DEF FilesGone
  <2>2. decimation # IdleDecimation
    BY <1>1 DEF IdleDecimation
  <2> QED
    BY <1>1, <2>1, <2>2 DEF Books, OverWhenBegun, OverQuota
<1>11. HandlerCurrent'
  <2>1. Busy => file'[handler.loc] = file[handler.loc]
    BY <1>2, <1>4, UnderWay
  <2>2. NewRow(handler)' = NewRow(handler) /\ (Busy => OrZero(file[handler.loc])' = OrZero(file[handler.loc]))
    BY <1>1, <2>1 DEF NewRow, NewFile, OrZero
  <2> QED
    BY <1>1, <1>7, <2>1, <2>2 DEF Books, HandlerCurrent
<1>12. AllFound'
  BY <1>1, <1>7 DEF Books, AllFound
<1> QED
  BY <1>8, <1>9, <1>10, <1>11, <1>12 DEF Books

LEMMA BooksDeleteRows ==
  ASSUME TypeOK, Books, DeleteRows PROVE Books'
<1> DEFINE V == decimation.victims
<1>1. /\ decimation.stage = "rows" /\ V \in SUBSET Location
      /\ decimation'.stage = "select" /\ decimation'.stored = decimation.stored
      /\ UNCHANGED <<file, touched, counter, handler, requests>>
  BY UnderWay, Further DEF DeleteRows, bounds
<1>2. /\ \A l \in V : row'[l] = None /\ lastAccessed'[l] = None
      /\ \A l \in Location \ V : row'[l] = row[l] /\ lastAccessed'[l] = lastAccessed[l]
  BY <1>1 DEF DeleteRows
<1>3. Busy => handler.loc \in Location \ V
  BY <1>1, OfHandler
<1>4. \A l \in V : file[l] = None
  BY <1>1 DEF Books, FilesGone
<1>5. RowsMatch'
  <2> SUFFICES ASSUME NEW l \in Location
               PROVE  \/ OrZero(row'[l]) = OrZero(file[l])
                      \/ handler.step = "row" /\ l = handler.loc
    BY <1>1 DEF RowsMatch, OrZero
  <2>1. CASE l \in V
    BY <1>2, <1>4, <2>1
  <2>2. CASE l \notin V
    BY <1>2, <2>2 DEF Books, RowsMatch
  <2> QED
    BY <2>1, <2>2
<1> HIDE DEF V
<1>6. /\ (FileBytes)' = FileBytes /\ TakenOff = 0 /\ TakenOff' = 0 /\ Uncounted' = Uncounted
      /\ BeingDeleted' = {} /\ Busy' = Busy
  BY <1>1 DEF FileBytes, Sizes, OrZero, TakenOff, Uncounted, BeingDeleted, Busy
<1>7. CountKept' /\ FewBytes'
  BY <1>1, <1>6 DEF Books, CountKept, FewBytes
<1>8. FilesGone' /\ OverWhenBegun'
  <2>1. decimation # IdleDecimation
    BY <1>1 DEF IdleDecimation
  <2> QED
    BY <1>1, <2>1 DEF Books, FilesGone, OverWhenBegun, OverQuota
<1>9. HandlerCurrent'
  <2>1. Busy => row'[handler.loc] = row[handler.loc]
    BY <1>2, <1>3
  <2>2. NewRow(handler)' = NewRow(handler) /\ OrZero(file[handler.loc])' = OrZero(file[handler.loc])
    BY <1>1 DEF NewRow, NewFile, OrZero
  <2> QED
    BY <1>1, <1>6, <2>1, <2>2 DEF Books, HandlerCurrent
<1>10. AllFound'
  BY <1>1, <1>2, <1>6 DEF Books, AllFound
<1> QED
  BY <1>5, <1>7, <1>8, <1>9, <1>10 DEF Books

LEMMA BooksEnd ==
  ASSUME TypeOK, Books, EndDecimation PROVE Books'
<1>1. /\ decimation.stage = "select" /\ decimation' = IdleDecimation /\ decimation'.stage = "idle"
      /\ UNCHANGED <<row, file, lastAccessed, touched, counter, handler, requests>>
  BY DEF EndDecimation, IdleDecimation, store, bounds
<1>2. /\ (FileBytes)' = FileBytes /\ TakenOff = 0 /\ TakenOff' = 0 /\ Uncounted' = Uncounted
      /\ BeingDeleted = {} /\ BeingDeleted' = {} /\ Busy' = Busy
  BY <1>1 DEF FileBytes, Sizes, OrZero, TakenOff, Uncounted, BeingDeleted, Busy
<1>3. CountKept' /\ FewBytes'
  BY <1>1, <1>2 DEF Books, CountKept, FewBytes
<1>4. RowsMatch' /\ FilesGone' /\ OverWhenBegun'
  <2>1. RowsMatch'
    BY <1>1 DEF Books, RowsMatch, OrZero
  <2>2. FilesGone' /\ OverWhenBegun'
    BY <1>1 DEF FilesGone, OverWhenBegun, IdleDecimation
  <2> QED
    BY <2>1, <2>2
<1>5. HandlerCurrent'
  <2>1. NewRow(handler)' = NewRow(handler) /\ OrZero(file[handler.loc])' = OrZero(file[handler.loc])
    BY <1>1 DEF NewRow, NewFile, OrZero
  <2> QED
    BY <1>1, <1>2, <2>1 DEF Books, HandlerCurrent
<1>6. AllFound'
  BY <1>1, <1>2 DEF Books, AllFound
<1> QED
  BY <1>3, <1>4, <1>5, <1>6 DEF Books

\* A crash that loses nothing: everything was saved.
LEMMA BooksCrash ==
  ASSUME TypeOK, Books, Crash, clean' PROVE Books'
<1>1. /\ UNCHANGED <<row, file, lastAccessed, counter, handler, decimation, requests>>
      /\ \A l \in Location : touched[l] = None
  BY DEF Crash, store
<1> QED
  BY <1>1, BooksTouched

-----------------------------------------------------------------------------
LEMMA BooksNext ==
  ASSUME TypeOK, Books, [Next]_vars, clean' PROVE Books'
<1>1. CASE Tick \/ UNCHANGED vars
  <2>1. UNCHANGED <<row, file, lastAccessed, touched, counter, handler, decimation, requests>>
    BY <1>1 DEF Tick, vars, store, bounds
  <2> QED
    BY <2>1, BooksTouched
<1> QED
  BY <1>1, BooksRead, BooksBegin, BooksPutFile, BooksPutRow, BooksAdd, BooksMaintenance,
     BooksSelect, BooksDeleteFiles, BooksDeleteRows, BooksEnd, BooksCrash DEF Next

\* What has been spoiled stays spoiled.
LEMMA SpoiledForGood ==
  ASSUME TypeOK, [Next]_vars, clean' PROVE clean
<1>1. SelectVictims => clean
  BY BatchChosen
<1> QED
  BY <1>1 DEF Next, ReadBundle, BeginRequest, PutFile, PutRow, AddBytes, DoMaintenance, DeleteFiles,
     DeleteRows, EndDecimation, Crash, Tick, vars

LEMMA EnvironmentStart == Init => EnvironmentInd
<1> SUFFICES ASSUME Init PROVE EnvironmentInd
  OBVIOUS
<1>1. TypeOK
  BY EnvironmentBounds DEF Init, TypeOK, OptNat
<1>2. handler.step = "idle" /\ decimation.stage = "idle" /\ ~Busy
  BY DEF Init, IdleHandler, IdleDecimation, Busy
<1>3. FileBytes = 0
  <2> DEFINE f == Sizes(file)
  <2>1. \A l \in Location : f[l] = 0
    BY DEF Init, Sizes, OrZero
  <2>2. FileBytes = SumFunctionOnSet(f, Location)
    BY <1>1, InBounds
  <2> HIDE DEF f
  <2> QED
    BY <2>1, <2>2, EnvironmentBounds, SumOfZeros
<1>4. Uncounted = 0 /\ TakenOff = 0 /\ BeingDeleted = {}
  BY <1>2 DEF Uncounted, TakenOff, BeingDeleted
<1>5. CountKept /\ FewBytes
  BY <1>2, <1>3, <1>4, EnvironmentBounds DEF Init, CountKept, FewBytes
<1>6. RowsMatch /\ FilesGone /\ HandlerCurrent /\ AllFound /\ OverWhenBegun
  BY <1>2, <1>4 DEF Init, RowsMatch, FilesGone, HandlerCurrent, AllFound, OverWhenBegun
<1>7. VictimsColdest
  BY <1>2 DEF VictimsColdest
<1> QED
  BY <1>1, <1>5, <1>6, <1>7 DEF EnvironmentInd, Books

LEMMA EnvironmentNext == EnvironmentInd /\ [Next]_vars => EnvironmentInd'
BY TypeNext, ColdestNext, BooksNext, SpoiledForGood DEF EnvironmentInd

LEMMA EnvironmentIndImplies == EnvironmentInd => EnvironmentInv /\ AccountingExact
<1> SUFFICES ASSUME EnvironmentInd PROVE EnvironmentInv /\ AccountingExact
  OBVIOUS
<1>0. TypeOK /\ VictimsColdest /\ (clean => Books)
  BY DEF EnvironmentInd
<1>1. Findable /\ DecimatesOnlyOverQuota
  BY <1>0 DEF Books, AllFound, OverWhenBegun, Findable, DecimatesOnlyOverQuota
<1>2. ASSUME clean, Quiet PROVE counter = FileBytes /\ RowBytes = FileBytes
  <2>1. Books /\ handler.step = "idle" /\ decimation.stage = "idle"
    BY <1>0, <1>2 DEF Quiet, IdleHandler, IdleDecimation
  <2>2. Uncounted = 0 /\ TakenOff = 0
    BY <2>1 DEF Uncounted, TakenOff
  <2>3. counter = FileBytes
    BY <1>0, <2>1, <2>2, InBounds DEF Books, CountKept
  <2>4. RowBytes = FileBytes
    <3>1. \A l \in Location : OrZero(row[l]) = OrZero(file[l])
      BY <2>1 DEF Books, RowsMatch
    <3>2. row \in [Location -> OptNat] /\ file \in [Location -> OptNat] /\ Location \in SUBSET Location
      BY <1>0 DEF TypeOK
    <3>3. SumFunctionOnSet(Sizes(row), Location) = SumFunctionOnSet(Sizes(file), Location)
      BY <3>1, <3>2, SizesEqual
    <3> QED
      BY <1>0, <3>3, InBounds
  <2> QED
    BY <2>3, <2>4
<1> QED
  BY <1>0, <1>1, <1>2 DEF EnvironmentInv, AccountingExact

\* do_maintenance and do_decimation (environment.rs): through every interleaving of a
\* decimation with the handlers' stores and with crashes, what decimation takes are the coldest
\* rows of its sample, and, until one of the events that are known to spoil the accounting, it
\* runs only over the quota and can find every bundle.
THEOREM EnvironmentAlways == Spec => []EnvironmentInv
<1> QED
  BY EnvironmentStart, EnvironmentNext, EnvironmentIndImplies, PTL DEF Spec

\* The counter the quota is enforced with is the bytes of the bundles stored, whenever nothing
\* is under way and none of the events that are known to spoil the accounting has happened.
THEOREM AccountingAlwaysExact == Spec => []AccountingExact
<1> QED
  BY EnvironmentStart, EnvironmentNext, EnvironmentIndImplies, PTL DEF Spec

-----------------------------------------------------------------------------
(***************************************************************************)
(* Folds of sequences.                                                     *)
(***************************************************************************)
\* Induction up to a number.
LEMMA UpTo ==
  ASSUME NEW n \in Nat, NEW Good, 0 \in Good, \A i \in 1 .. n : i - 1 \in Good => i \in Good
  PROVE  \A i \in 0 .. n : i \in Good
<1> DEFINE Bad == {i \in 0 .. n : i \notin Good}
<1>1. Bad = {}
  <2> SUFFICES ASSUME Bad # {} PROVE FALSE
    OBVIOUS
  <2>0. Bad \in SUBSET Nat
    OBVIOUS
  <2>1. PICK m \in Bad : \A k \in Bad : m <= k
    <3> HIDE DEF Bad
    <3> QED
      BY <2>0, LeastNatural
  <2>2. m \in 1 .. n /\ m - 1 \in 0 .. n /\ ~(m <= m - 1)
    BY <2>1
  <2>3. m - 1 \notin Bad
    <3> HIDE DEF Bad
    <3> QED
      BY <2>1, <2>2
  <2> QED
    BY <2>1, <2>2, <2>3
<1> QED
  BY <1>1

\* The stretches of numbers from 1.
LEMMA Stretches ==
  ASSUME NEW n \in Nat
  PROVE  /\ IsFiniteSet(1 .. n)
         /\ \A s \in (SUBSET (1 .. n)) \ {{}} : Max(s) \in s
         /\ \A i \in 1 .. n : /\ 1 .. i \in SUBSET (1 .. n) /\ 1 .. i # {} /\ Max(1 .. i) = i
                              /\ (1 .. i) \ {i} = 1 .. i - 1
         /\ 1 .. 0 = {} /\ 1 .. 0 \in SUBSET (1 .. n)
<1>1. IsFiniteSet(1 .. n)
  <2>1. 1 \in Int /\ n \in Int
    OBVIOUS
  <2> QED
    BY <2>1, FS_Interval
<1>2. ASSUME NEW s \in SUBSET (1 .. n), s # {} PROVE Max(s) \in s
  <2> DEFINE A == {m \in Nat : \A k \in s : k <= m}
  <2>1. n \in A /\ A \in SUBSET Nat
    OBVIOUS
  <2>2. PICK m \in A : \A k \in A : m <= k
    <3> HIDE DEF A
    <3> QED
      BY <2>1, LeastNatural
  <2>3. m \in s
    <3> SUFFICES ASSUME m \notin s PROVE FALSE
      OBVIOUS
    <3>1. PICK k \in s : TRUE
      BY <1>2
    <3>2. \A l \in s : l \in Nat /\ l <= m /\ l # m /\ l >= 1
      BY <2>2
    <3>3. m - 1 \in Nat /\ (\A l \in s : l <= m - 1) /\ ~(m <= m - 1)
      BY <2>2, <3>1, <3>2
    <3>4. m - 1 \in A
      BY <3>3
    <3> HIDE DEF A
    <3> QED
      BY <2>2, <3>3, <3>4
  <2>4. \E x \in s : \A y \in s : x >= y
    BY <2>2, <2>3
  <2> QED
    BY <2>4 DEF Max
<1>3. ASSUME NEW i \in 1 .. n PROVE 1 .. i \in SUBSET (1 .. n) /\ 1 .. i # {} /\ Max(1 .. i) = i /\ (1 .. i) \ {i} = 1 .. i - 1
  <2>1. i \in 1 .. i /\ \A y \in 1 .. i : i >= y
    OBVIOUS
  <2>2. Max(1 .. i) \in 1 .. i /\ \A y \in 1 .. i : Max(1 .. i) >= y
    BY <2>1 DEF Max
  <2>3. Max(1 .. i) = i
    BY <2>1, <2>2
  <2>4. 1 .. i \in SUBSET (1 .. n) /\ (1 .. i) \ {i} = 1 .. i - 1
    OBVIOUS
  <2> QED
    BY <2>1, <2>3, <2>4
<1>4. 1 .. 0 = {} /\ 1 .. 0 \in SUBSET (1 .. n)
  OBVIOUS
<1>5. \A s \in (SUBSET (1 .. n)) \ {{}} : Max(s) \in s
  BY <1>2
<1> QED
  BY <1>1, <1>3, <1>4, <1>5, ZenonT(30)

\* A fold from the left over the numbers up to n, as the community modules define it.
FoldedUp(it, n, base, step) ==
  \A s \in SUBSET (1 .. n) : it[s] = IF s = {} THEN base ELSE step[<<Max(s), it[s \ {Max(s)}]>>]

\* A step of the right type has a fold.
LEMMA FoldSteps ==
  ASSUME NEW n \in Nat, NEW T, NEW base \in T, NEW step \in [(1 .. n) \X T -> T]
  PROVE  \E it \in [SUBSET (1 .. n) -> T] : FoldedUp(it, n, base, step)
<1> DEFINE c == [s \in (SUBSET (1 .. n)) \ {{}} |-> Max(s)]
<1>1. \A s \in (SUBSET (1 .. n)) \ {{}} : c[s] = Max(s) /\ c[s] \in s
  BY Stretches
<1>2. IsFiniteSet(1 .. n)
  BY Stretches
<1> HIDE DEF c
<1>3. PICK it \in [SUBSET (1 .. n) -> T] : Folded(it, 1 .. n, base, step, c)
  BY <1>1, <1>2, FoldExists
<1>4. \A s \in SUBSET (1 .. n) : it[s] = IF s = {} THEN base ELSE step[<<c[s], it[s \ {c[s]}]>>]
  BY <1>3 DEF Folded
<1>5. FoldedUp(it, n, base, step)
  <2> SUFFICES ASSUME NEW s \in SUBSET (1 .. n)
               PROVE  it[s] = IF s = {} THEN base ELSE step[<<Max(s), it[s \ {Max(s)}]>>]
    BY DEF FoldedUp
  <2>1. s # {} => c[s] = Max(s)
    BY <1>1
  <2> QED
    BY <1>4, <2>1
<1> QED
  BY <1>3, <1>5

\* The steps of a fold, one index after the other.
Stepwise(run, n, base, step) == run[0] = base /\ \A i \in 1 .. n : run[i] = step[<<i, run[i - 1]>>]

\* And its values one after the other.
LEMMA RunExists ==
  ASSUME NEW n \in Nat, NEW T, NEW base \in T, NEW step \in [(1 .. n) \X T -> T]
  PROVE  \E run \in [0 .. n -> T] : Stepwise(run, n, base, step)
<1>1. PICK it \in [SUBSET (1 .. n) -> T] : FoldedUp(it, n, base, step)
  BY FoldSteps
<1> DEFINE run == [i \in 0 .. n |-> it[1 .. i]]
<1>2. \A i \in 0 .. n : 1 .. i \in SUBSET (1 .. n)
  OBVIOUS
<1>3. run \in [0 .. n -> T]
  BY <1>1, <1>2
<1>4. run[0] = base
  <2>1. 1 .. 0 = {} /\ 1 .. 0 \in SUBSET (1 .. n) /\ run[0] = it[1 .. 0]
    BY Stretches
  <2> QED
    BY <1>1, <2>1 DEF FoldedUp
<1>5. ASSUME NEW i \in 1 .. n PROVE run[i] = step[<<i, run[i - 1]>>]
  <2>1. run[i] = it[1 .. i] /\ run[i - 1] = it[1 .. i - 1]
    OBVIOUS
  <2>2. /\ 1 .. i \in SUBSET (1 .. n) /\ 1 .. i # {} /\ Max(1 .. i) = i
        /\ (1 .. i) \ {i} = 1 .. i - 1
    BY Stretches
  <2>3. it[1 .. i] = step[<<i, it[1 .. i - 1]>>]
    BY <1>1, <2>2 DEF FoldedUp
  <2> QED
    BY <2>1, <2>3
<1> QED
  BY <1>3, <1>4, <1>5 DEF Stepwise
-----------------------------------------------------------------------------
(***************************************************************************)
(* Bytes, segments and what they are together.                             *)
(***************************************************************************)
Octets == Seq(Nat)

Segments == Seq(Octets)

\* What the segments are up to each of them.
FlatRun(ss, run) ==
  /\ \A i \in 0 .. Len(ss) : run[i] \in Octets
  /\ run[0] = <<>>
  /\ \A i \in 1 .. Len(ss) : run[i] = run[i - 1] \o ss[i]

\* Concatenation of octets.
LEMMA NoOctets == <<>> \in Octets /\ \A s \in Octets : s \o <<>> = s /\ <<>> \o s = s
<1>1. \A s \in Octets : s \o <<>> = s /\ <<>> \o s = s
  BY ConcatEmptySeq DEF Octets
<1>2. <<>> \in Octets
  BY DEF Octets
<1> QED
  BY <1>1, <1>2

\* Octets joined are octets.
LEMMA JoinType ==
  ASSUME NEW s \in Octets, NEW t \in Octets
  PROVE  s \o t \in Octets /\ Len(s) \in Nat /\ Len(s \o t) = Len(s) + Len(t)
BY ConcatProperties DEF Octets

\* In any grouping.
LEMMA JoinThree ==
  ASSUME NEW s \in Octets, NEW t \in Octets, NEW u \in Octets
  PROVE  (s \o t) \o u = s \o (t \o u)
  BY ConcatSimplifications, SMTT(30)

\* What follows the same octets is the same when the whole is.
LEMMA JoinCancels ==
  ASSUME NEW s \in Octets, NEW t \in Octets, NEW u \in Octets, s \o t = s \o u
  PROVE  t = u
<1>1. \A S : \A x, y, v \in Seq(S) : x \o y = x \o v => y = v
  BY ConcatSimplifications
<1> QED
  BY <1>1 DEF Octets

\* Segments one after the other have a run.
LEMMA FlatRunExists ==
  ASSUME NEW ss \in Segments
  PROVE  Len(ss) \in Nat /\ \E run : FlatRun(ss, run)
<1> DEFINE n == Len(ss)
           step == [p \in (1 .. n) \X Octets |-> p[2] \o ss[p[1]]]
<1>1. n \in Nat /\ \A i \in 1 .. n : ss[i] \in Octets
  BY DEF Segments
<1>2. step \in [(1 .. n) \X Octets -> Octets] /\ \A i \in 1 .. n, s \in Octets : step[<<i, s>>] = s \o ss[i]
  BY <1>1, JoinType
<1> HIDE DEF step, n
<1>3. PICK run \in [0 .. n -> Octets] : Stepwise(run, n, <<>>, step)
  BY <1>1, <1>2, NoOctets, RunExists
<1>4. ASSUME NEW i \in 1 .. n PROVE run[i] = run[i - 1] \o ss[i]
  <2>1. i - 1 \in 0 .. n
    BY <1>1
  <2>2. run[i - 1] \in Octets
    BY <1>3, <2>1
  <2> QED
    BY <1>2, <1>3, <2>2 DEF Stepwise
<1>5. FlatRun(ss, run)
  BY <1>3, <1>4 DEF FlatRun, Stepwise, n
<1> QED
  BY <1>1, <1>5 DEF n

\* Which ends in what they are together.
LEMMA FlatIs ==
  ASSUME NEW ss \in Segments, NEW run, FlatRun(ss, run)
  PROVE  FlattenSeq(ss) = run[Len(ss)]
<1> DEFINE n == Len(ss)
           eq(f) == f = [i \in 1 .. n |-> IF i = 1 THEN ss[i] ELSE f[i - 1] \o ss[i]]
           flatten == CHOOSE f : eq(f)
           f0 == [i \in 1 .. n |-> run[i]]
<1>1. n \in Nat /\ \A i \in 1 .. n : ss[i] \in Octets
  BY DEF Segments
<1>2. CASE n = 0
  <2>1. ss = <<>> /\ FlattenSeq(ss) = ss
    BY <1>2 DEF FlattenSeq, Segments
  <2> QED
    BY <1>2, <2>1 DEF FlatRun
<1>3. CASE n # 0
  <2>1. FlattenSeq(ss) = flatten[n]
    BY <1>3 DEF FlattenSeq
  <2>2. ASSUME NEW i \in 1 .. n PROVE f0[i] = IF i = 1 THEN ss[i] ELSE f0[i - 1] \o ss[i]
    <3>1. run[i] = run[i - 1] \o ss[i] /\ f0[i] = run[i]
      BY DEF FlatRun
    <3>2. CASE i = 1
      <4>1. i - 1 = 0 /\ ss[i] \in Octets
        BY <1>1, <3>2
      <4>2. run[i] = <<>> \o ss[i]
        BY <3>1, <4>1 DEF FlatRun
      <4> QED
        BY <3>1, <3>2, <4>1, <4>2, NoOctets
    <3>3. CASE i # 1
      <4>1. i - 1 \in 1 .. n
        BY <1>1, <3>3
      <4> QED
        BY <3>1, <3>3, <4>1
    <3> QED
      BY <3>2, <3>3
  <2>3. eq(f0)
    BY <2>2
  <2>4. eq(flatten)
    BY <2>3
  <2> HIDE DEF flatten
  <2>5. \A i \in 1 .. n : flatten[i] = IF i = 1 THEN ss[i] ELSE flatten[i - 1] \o ss[i]
    BY <2>4
  <2> HIDE DEF eq
  <2> DEFINE Good == {i \in 0 .. n : i # 0 => flatten[i] = run[i]}
  <2>6. ASSUME NEW i \in 1 .. n, i - 1 \in Good PROVE i \in Good
    <3>1. run[i] = run[i - 1] \o ss[i] /\ flatten[i] = IF i = 1 THEN ss[i] ELSE flatten[i - 1] \o ss[i]
      BY <2>5 DEF FlatRun
    <3>2. CASE i = 1
      <4>1. i - 1 = 0 /\ ss[i] \in Octets
        BY <1>1, <3>2
      <4>2. run[i] = <<>> \o ss[i]
        BY <3>1, <4>1 DEF FlatRun
      <4> QED
        BY <3>1, <3>2, <4>1, <4>2, NoOctets
    <3>3. CASE i # 1
      <4>1. i - 1 # 0
        BY <1>1, <3>3
      <4>2. flatten[i - 1] = run[i - 1]
        BY <2>6, <4>1
      <4>3. flatten[i] = flatten[i - 1] \o ss[i]
        BY <3>1, <3>3
      <4>4. flatten[i] = run[i]
        BY <3>1, <4>2, <4>3
      <4> QED
        BY <1>1, <4>4
    <3> QED
      BY <3>2, <3>3
  <2>7. 0 \in Good
    BY <1>1
  <2> HIDE DEF Good
  <2>8. \A i \in 0 .. n : i \in Good
    BY <1>1, <2>6, <2>7, UpTo
  <2>9. n \in 0 .. n
    BY <1>1
  <2> QED
    BY <1>3, <2>1, <2>8, <2>9 DEF Good
<1> QED
  BY <1>2, <1>3

\* The segments that were flattened, one more, and those of another list.
LEMMA FlatOf ==
  /\ FlattenSeq(<<>>) = <<>>
  /\ \A ss \in Segments : FlattenSeq(ss) \in Octets
  /\ \A ss \in Segments, s \in Octets : Append(ss, s) \in Segments /\ FlattenSeq(Append(ss, s)) = FlattenSeq(ss) \o s
  /\ \A s \in Octets : <<s>> \in Segments /\ FlattenSeq(<<s>>) = s
<1>1. FlattenSeq(<<>>) = <<>>
  BY DEF FlattenSeq
<1>2. ASSUME NEW ss \in Segments PROVE FlattenSeq(ss) \in Octets
  <2>1. PICK run : FlatRun(ss, run) /\ Len(ss) \in 0 .. Len(ss)
    BY FlatRunExists
  <2> QED
    BY <2>1, FlatIs DEF FlatRun
<1>3. ASSUME NEW ss \in Segments, NEW s \in Octets
      PROVE  Append(ss, s) \in Segments /\ FlattenSeq(Append(ss, s)) = FlattenSeq(ss) \o s
  <2> DEFINE tt == Append(ss, s)
  <2>1. /\ tt \in Segments /\ Len(tt) = Len(ss) + 1 /\ Len(ss) \in Nat
        /\ \A i \in 1 .. Len(ss) : tt[i] = ss[i]
        /\ tt[Len(ss) + 1] = s
    BY DEF Segments
  <2> HIDE DEF tt
  <2>2. PICK run : FlatRun(tt, run)
    BY <2>1, FlatRunExists
  <2>3. FlatRun(ss, run)
    <3>1. \A i \in 0 .. Len(ss) : i \in 0 .. Len(tt)
      BY <2>1
    <3>2. \A i \in 1 .. Len(ss) : i \in 1 .. Len(tt) /\ tt[i] = ss[i]
      BY <2>1
    <3> QED
      BY <2>2, <3>1, <3>2 DEF FlatRun
  <2>4. FlattenSeq(tt) = run[Len(ss) + 1] /\ FlattenSeq(ss) = run[Len(ss)]
    BY <2>1, <2>2, <2>3, FlatIs
  <2>5. Len(ss) + 1 \in 1 .. Len(tt) /\ (Len(ss) + 1) - 1 = Len(ss)
    BY <2>1
  <2>6. run[Len(ss) + 1] = run[Len(ss)] \o s
    BY <2>1, <2>2, <2>5 DEF FlatRun
  <2> QED
    BY <2>1, <2>4, <2>6 DEF tt
<1>4. ASSUME NEW s \in Octets PROVE <<s>> \in Segments /\ FlattenSeq(<<s>>) = s
  <2>1. <<>> \in Segments /\ Append(<<>>, s) = <<s>>
    BY DEF Segments
  <2> QED
    BY <1>1, <1>3, <2>1, NoOctets
<1> QED
  BY <1>1, <1>2, <1>3, <1>4

\* Two lists of segments, one after the other.
LEMMA FlatConcat ==
  ASSUME NEW ss \in Segments, NEW tt \in Segments
  PROVE  ss \o tt \in Segments /\ FlattenSeq(ss \o tt) = FlattenSeq(ss) \o FlattenSeq(tt)
<1> DEFINE uu == ss \o tt
           m == Len(ss)
           n == Len(tt)
           first == FlattenSeq(ss)
<1>1. /\ uu \in Segments /\ Len(uu) = m + n /\ m \in Nat /\ n \in Nat
      /\ \A i \in 1 .. m + n : uu[i] = IF i <= m THEN ss[i] ELSE tt[i - m]
  BY ConcatProperties DEF Segments
<1> HIDE DEF uu
<1>2. PICK run : FlatRun(uu, run)
  BY <1>1, FlatRunExists
<1>3. PICK more : FlatRun(tt, more)
  BY FlatRunExists
<1>4. FlatRun(ss, run)
  <2>1. \A i \in 0 .. m : i \in 0 .. Len(uu)
    BY <1>1
  <2>2. \A i \in 1 .. m : i \in 1 .. Len(uu) /\ uu[i] = ss[i]
    BY <1>1
  <2> QED
    BY <1>2, <2>1, <2>2 DEF FlatRun
<1>5. first = run[m] /\ first \in Octets
  BY <1>4, FlatIs, FlatOf
<1> HIDE DEF first
<1> DEFINE Good == {j \in 0 .. n : run[m + j] = first \o more[j]}
<1>6. 0 \in Good
  <2>1. m + 0 = m /\ 0 \in 0 .. n
    BY <1>1
  <2>2. more[0] = <<>> /\ first \o <<>> = first
    BY <1>3, <1>5, NoOctets DEF FlatRun
  <2> QED
    BY <1>5, <2>1, <2>2
<1>7. ASSUME NEW j \in 1 .. n, j - 1 \in Good PROVE j \in Good
  <2>1. m + j \in 1 .. m + n /\ ~(m + j <= m) /\ (m + j) - m = j /\ (m + j) - 1 = m + (j - 1) /\ j - 1 \in 0 .. n
    BY <1>1
  <2>2. run[m + j] = run[m + (j - 1)] \o tt[j]
    BY <1>1, <1>2, <2>1 DEF FlatRun
  <2>3. run[m + (j - 1)] = first \o more[j - 1]
    BY <1>7
  <2>4. more[j] = more[j - 1] \o tt[j] /\ more[j - 1] \in Octets /\ tt[j] \in Octets
    <3>1. more[j] = more[j - 1] \o tt[j] /\ more[j - 1] \in Octets
      BY <1>3, <2>1 DEF FlatRun
    <3>2. tt[j] \in Octets
      BY DEF Segments
    <3> QED
      BY <3>1, <3>2
  <2>5. (first \o more[j - 1]) \o tt[j] = first \o (more[j - 1] \o tt[j])
    BY <1>5, <2>4, JoinThree
  <2>6. run[m + j] = first \o more[j]
    BY <2>2, <2>3, <2>4, <2>5
  <2> QED
    BY <1>1, <2>1, <2>6
<1> HIDE DEF Good
<1>8. \A j \in 0 .. n : j \in Good
  BY <1>1, <1>6, <1>7, UpTo
<1>9. n \in 0 .. n
  BY <1>1
<1>10. run[m + n] = first \o more[n]
  BY <1>8, <1>9 DEF Good
<1>11. FlattenSeq(uu) = run[m + n] /\ FlattenSeq(tt) = more[n]
  BY <1>1, <1>2, <1>3, FlatIs
<1> QED
  BY <1>1, <1>10, <1>11 DEF uu, first

\* What comes up to a segment is the beginning of what there is.
LEMMA FlatBegins ==
  ASSUME NEW ss \in Segments, NEW run, FlatRun(ss, run)
  PROVE  \A i \in 0 .. Len(ss) : \E u \in Octets : FlattenSeq(ss) = run[i] \o u
<1> DEFINE n == Len(ss)
           all == FlattenSeq(ss)
           Good == {j \in 0 .. n : \E u \in Octets : all = run[n - j] \o u}
<1>1. n \in Nat /\ all = run[n] /\ (\A i \in 1 .. n : ss[i] \in Octets) /\ \A i \in 0 .. n : run[i] \in Octets
  <2>1. n \in Nat /\ \A i \in 1 .. n : ss[i] \in Octets
    BY DEF Segments
  <2>2. all = run[n]
    BY FlatIs
  <2> QED
    BY <2>1, <2>2 DEF FlatRun
<1> HIDE DEF all
<1>2. 0 \in Good
  <2>1. n - 0 = n /\ 0 \in 0 .. n /\ n \in 0 .. n
    BY <1>1
  <2>2. all = run[n - 0] \o <<>> /\ <<>> \in Octets
    BY <1>1, <2>1, NoOctets
  <2> QED
    BY <2>1, <2>2
<1>3. ASSUME NEW j \in 1 .. n, j - 1 \in Good PROVE j \in Good
  <2>1. PICK u \in Octets : all = run[n - (j - 1)] \o u
    BY <1>3
  <2>2. n - (j - 1) \in 1 .. n /\ (n - (j - 1)) - 1 = n - j /\ n - j \in 0 .. n
    BY <1>1
  <2>3. run[n - (j - 1)] = run[n - j] \o ss[n - (j - 1)]
    BY <2>2 DEF FlatRun
  <2>4. all = run[n - j] \o (ss[n - (j - 1)] \o u) /\ ss[n - (j - 1)] \o u \in Octets
    <3>1. run[n - j] \in Octets /\ ss[n - (j - 1)] \in Octets
      BY <1>1, <2>2
    <3>2. (run[n - j] \o ss[n - (j - 1)]) \o u = run[n - j] \o (ss[n - (j - 1)] \o u)
      BY <3>1, JoinThree
    <3> QED
      BY <2>1, <2>3, <3>1, <3>2, JoinType
  <2>5. j \in 0 .. n
    BY <1>1
  <2> QED
    BY <2>4, <2>5
<1> HIDE DEF Good
<1>4. \A j \in 0 .. n : j \in Good
  BY <1>1, <1>2, <1>3, UpTo
<1>5. ASSUME NEW i \in 0 .. n PROVE \E u \in Octets : all = run[i] \o u
  <2>1. n - i \in 0 .. n /\ n - (n - i) = i
    BY <1>1
  <2>2. n - i \in Good
    BY <1>4, <2>1
  <2> QED
    BY <2>1, <2>2 DEF Good
<1> QED
  BY <1>5 DEF all
-----------------------------------------------------------------------------
(***************************************************************************)
(* Gatherers and what they hold.                                           *)
(***************************************************************************)
Gatherers == [segments : Segments, current : Octets]

Held(g) == FlattenSeq(g.segments) \o g.current

\* What is put is held at the end, flushed or not.
LEMMA Gathering ==
  /\ EmptyGatherer \in Gatherers /\ Held(EmptyGatherer) = <<>>
  /\ \A g \in Gatherers : Held(g) \in Octets
  /\ \A g \in Gatherers : Flush(g) \in Gatherers /\ FlattenSeq(Flush(g).segments) = Held(g) /\ Held(Flush(g)) = Held(g)
  /\ \A g \in Gatherers, s \in Octets : PutSlice(g, s) \in Gatherers /\ Held(PutSlice(g, s)) = Held(g) \o s
  /\ \A g \in Gatherers, s \in Octets : PutBytes(g, s) \in Gatherers /\ Held(PutBytes(g, s)) = Held(g) \o s
<1>1. EmptyGatherer \in Gatherers /\ Held(EmptyGatherer) = <<>>
  <2>1. <<>> \in Segments /\ FlattenSeq(<<>>) = <<>> /\ <<>> \in Octets
    BY NoOctets, FlatOf DEF Segments
  <2>2. <<>> \o <<>> = <<>>
    BY <2>1, NoOctets
  <2> QED
    BY <2>1, <2>2 DEF EmptyGatherer, Gatherers, Held
<1>2. ASSUME NEW g \in Gatherers
      PROVE  /\ g.segments \in Segments /\ g.current \in Octets
             /\ FlattenSeq(g.segments) \in Octets /\ Held(g) \in Octets
  <2>1. g.segments \in Segments /\ g.current \in Octets
    BY DEF Gatherers
  <2>2. FlattenSeq(g.segments) \in Octets
    BY <2>1, FlatOf
  <2> QED
    BY <2>1, <2>2, JoinType DEF Held
<1>3. ASSUME NEW g \in Gatherers
      PROVE  Flush(g) \in Gatherers /\ FlattenSeq(Flush(g).segments) = Held(g) /\ Held(Flush(g)) = Held(g)
  <2>1. CASE g.current = <<>>
    <3>1. Flush(g) = g
      BY <2>1 DEF Flush
    <3>2. FlattenSeq(g.segments) \o <<>> = FlattenSeq(g.segments)
      BY <1>2, NoOctets
    <3> QED
      BY <2>1, <3>1, <3>2 DEF Held
  <2>2. CASE g.current # <<>>
    <3> DEFINE f == [segments |-> Append(g.segments, g.current), current |-> <<>>]
    <3>1. Flush(g) = f /\ f.segments = Append(g.segments, g.current) /\ f.current = <<>>
      BY <2>2 DEF Flush
    <3>2. f.segments \in Segments /\ FlattenSeq(f.segments) = Held(g)
      BY <1>2, <3>1, FlatOf DEF Held
    <3>3. f \in Gatherers
      BY <3>1, <3>2, NoOctets DEF Gatherers
    <3>4. Held(g) \o <<>> = Held(g)
      BY <1>2, NoOctets
    <3>5. Held(f) = Held(g)
      BY <3>1, <3>2, <3>4 DEF Held
    <3> QED
      BY <3>1, <3>2, <3>3, <3>5
  <2> QED
    BY <2>1, <2>2
<1>4. ASSUME NEW g \in Gatherers, NEW s \in Octets
      PROVE  PutSlice(g, s) \in Gatherers /\ Held(PutSlice(g, s)) = Held(g) \o s
  <2>0. g = [segments |-> g.segments, current |-> g.current]
    BY DEF Gatherers
  <2> DEFINE more == g.current \o s
  <2> HIDE DEF more
  <2>4. PutSlice(g, s) = [segments |-> g.segments, current |-> more]
    <3>1. PutSlice(g, s) = [g EXCEPT !.current = more]
      BY DEF PutSlice, more
    <3> QED
      BY <2>0, <3>1
  <2>1. /\ PutSlice(g, s) = [segments |-> g.segments, current |-> g.current \o s]
        /\ PutSlice(g, s).segments = g.segments /\ PutSlice(g, s).current = g.current \o s
    BY <2>4 DEF more
  <2>2. g.current \o s \in Octets /\ PutSlice(g, s) \in Gatherers
    BY <1>2, <2>1, JoinType DEF Gatherers
  <2>3. (FlattenSeq(g.segments) \o g.current) \o s = FlattenSeq(g.segments) \o (g.current \o s)
    BY <1>2, JoinThree
  <2> QED
    BY <2>1, <2>2, <2>3 DEF Held
<1>5. ASSUME NEW g \in Gatherers, NEW s \in Octets
      PROVE  PutBytes(g, s) \in Gatherers /\ Held(PutBytes(g, s)) = Held(g) \o s
  <2>1. CASE s = <<>>
    BY <1>2, <2>1, NoOctets DEF PutBytes
  <2>2. CASE s # <<>>
    <3> DEFINE f == Flush(g)
               h == [segments |-> Append(f.segments, s), current |-> f.current]
    <3>1. f \in Gatherers /\ f.segments \in Segments /\ FlattenSeq(f.segments) = Held(g)
      BY <1>2, <1>3
    <3>2. f.current = <<>>
      BY DEF Flush
    <3>3. PutBytes(g, s) = h
      BY <2>2, <3>1 DEF PutBytes, Gatherers
    <3> HIDE DEF f
    <3>4. h.segments \in Segments /\ FlattenSeq(h.segments) = Held(g) \o s /\ h.current = <<>>
      BY <3>1, <3>2, FlatOf
    <3>5. h \in Gatherers
      BY <3>2, <3>4, NoOctets DEF Gatherers
    <3>6. (Held(g) \o s) \o <<>> = Held(g) \o s
      BY <1>2, JoinType, NoOctets
    <3> HIDE DEF h
    <3>7. Held(h) = Held(g) \o s
      BY <3>4, <3>6 DEF Held
    <3> QED
      BY <3>3, <3>5, <3>7
  <2> QED
    BY <2>1, <2>2
<1> QED
  BY <1>1, <1>2, <1>3, <1>4, <1>5

\* The bytes of a gatherer, and of one with another attached to it.
LEMMA GatheredBytes ==
  ASSUME NEW g \in Gatherers
  PROVE  /\ ToBytes(g) = Held(g)
         /\ \A other \in Gatherers : PutBytesGatherer(g, other) \in Gatherers
                                     /\ Held(PutBytesGatherer(g, other)) = Held(g) \o Held(other)
<1>1. ToBytes(g) = Held(g)
  BY Gathering DEF ToBytes
<1>2. ASSUME NEW other \in Gatherers
      PROVE  PutBytesGatherer(g, other) \in Gatherers /\ Held(PutBytesGatherer(g, other)) = Held(g) \o Held(other)
  <2>1. other.current \in Octets
    BY DEF Gatherers
  <2>2. CASE other.segments = <<>>
    <3>1. Held(other) = <<>> \o other.current /\ <<>> \o other.current = other.current
      BY <2>1, <2>2, FlatOf, NoOctets DEF Held
    <3>2. PutBytesGatherer(g, other) = PutSlice(g, other.current)
      BY <2>2 DEF PutBytesGatherer
    <3>3. PutSlice(g, other.current) \in Gatherers /\ Held(PutSlice(g, other.current)) = Held(g) \o other.current
      BY <2>1, Gathering
    <3> QED
      BY <3>1, <3>2, <3>3
  <2>3. CASE other.segments # <<>>
    <3> DEFINE ss == Flush(g).segments
               tt == Flush(other).segments
               h == [segments |-> ss \o tt, current |-> <<>>]
    <3>1. ss \in Segments /\ tt \in Segments /\ FlattenSeq(ss) = Held(g) /\ FlattenSeq(tt) = Held(other)
      BY Gathering DEF Gatherers
    <3>2. PutBytesGatherer(g, other) = h
      BY <2>3 DEF PutBytesGatherer
    <3> HIDE DEF ss, tt
    <3>3. ss \o tt \in Segments /\ FlattenSeq(ss \o tt) = Held(g) \o Held(other)
      BY <3>1, FlatConcat
    <3>4. h \in Gatherers /\ h.segments = ss \o tt /\ h.current = <<>>
      BY <3>3, NoOctets DEF Gatherers
    <3>5. (Held(g) \o Held(other)) \o <<>> = Held(g) \o Held(other)
      BY Gathering, JoinType, NoOctets
    <3> HIDE DEF h
    <3>6. Held(h) = Held(g) \o Held(other)
      BY <3>3, <3>4, <3>5 DEF Held
    <3> QED
      BY <3>2, <3>4, <3>6
  <2> QED
    BY <2>2, <2>3
<1> QED
  BY <1>1, <1>2

\* A segment on its way through Compact.
Placed(out, s) == IF Len(s) < SmallSegment THEN PutSlice(out, s) ELSE PutBytes(out, s)

Compacted(ss) ==
  FoldLeft(LAMBDA out, s : IF Len(s) < SmallSegment THEN PutSlice(out, s) ELSE PutBytes(out, s), EmptyGatherer, ss)

\* Compact segment by segment.
LEMMA CompactFolds ==
  ASSUME NEW ss \in Segments
  PROVE  \E run : /\ run[0] = EmptyGatherer
                  /\ \A i \in 1 .. Len(ss) : run[i] = Placed(run[i - 1], ss[i])
                  /\ Compacted(ss) = run[Len(ss)]
<1> DEFINE n == Len(ss)
           op(a, i) == Placed(a, ss[i])
           eq(it) == it = [s \in SUBSET DOMAIN ss |-> IF s = {} THEN EmptyGatherer ELSE op(it[s \ {Max(s)}], Max(s))]
           folded == CHOOSE it : eq(it)
<1>1. Compacted(ss) = folded[DOMAIN ss]
  BY DEF Compacted, Placed, FoldLeft, MapThenFoldSet
<1>2. n \in Nat /\ DOMAIN ss = 1 .. n
  BY DEF Segments
<1>3. EmptyGatherer \in Gatherers /\ \A i \in 1 .. n, a \in Gatherers : op(a, i) \in Gatherers
  <2>1. \A i \in 1 .. n : ss[i] \in Octets
    BY DEF Segments
  <2> QED
    BY <2>1, Gathering DEF Placed
<1> DEFINE step == [p \in (1 .. n) \X Gatherers |-> op(p[2], p[1])]
<1> HIDE DEF op, n
<1>4. step \in [(1 .. n) \X Gatherers -> Gatherers] /\ \A i \in 1 .. n, a \in Gatherers : step[<<i, a>>] = op(a, i)
  BY <1>3
<1> HIDE DEF step
<1>5. PICK it \in [SUBSET (1 .. n) -> Gatherers] : FoldedUp(it, n, EmptyGatherer, step)
  BY <1>2, <1>3, <1>4, FoldSteps
<1>6. ASSUME NEW s \in SUBSET (1 .. n)
      PROVE  it[s] = IF s = {} THEN EmptyGatherer ELSE op(it[s \ {Max(s)}], Max(s))
  <2>1. it[s] = IF s = {} THEN EmptyGatherer ELSE step[<<Max(s), it[s \ {Max(s)}]>>]
    BY <1>5 DEF FoldedUp
  <2>2. CASE s # {}
    <3>1. Max(s) \in 1 .. n
      BY <1>2, <2>2, Stretches
    <3>2. it[s \ {Max(s)}] \in Gatherers
      BY <1>5
    <3>3. step[<<Max(s), it[s \ {Max(s)}]>>] = op(it[s \ {Max(s)}], Max(s))
      BY <1>4, <3>1, <3>2
    <3> QED
      BY <2>1, <2>2, <3>3
  <2> QED
    BY <2>1, <2>2
<1>7. eq(it)
  BY <1>2, <1>5, <1>6
<1>8. eq(folded)
  BY <1>7
<1> HIDE DEF folded
<1>9. \A s \in SUBSET (1 .. n) : folded[s] = IF s = {} THEN EmptyGatherer ELSE op(folded[s \ {Max(s)}], Max(s))
  BY <1>2, <1>8
<1> HIDE DEF eq
<1> DEFINE run == [i \in 0 .. n |-> folded[1 .. i]]
<1>10. run[0] = EmptyGatherer
  <2>1. 1 .. 0 = {} /\ 1 .. 0 \in SUBSET (1 .. n) /\ 0 \in 0 .. n
    BY <1>2, Stretches
  <2>2. run[0] = folded[1 .. 0]
    BY <2>1
  <2> QED
    BY <1>9, <2>1, <2>2
<1>11. ASSUME NEW i \in 1 .. n PROVE run[i] = op(run[i - 1], i)
  <2>1. run[i] = folded[1 .. i] /\ run[i - 1] = folded[1 .. i - 1]
    BY <1>2
  <2>2. /\ 1 .. i \in SUBSET (1 .. n) /\ 1 .. i # {} /\ Max(1 .. i) = i
        /\ (1 .. i) \ {i} = 1 .. i - 1
    BY <1>2, Stretches
  <2>3. folded[1 .. i] = op(folded[1 .. i - 1], i)
    BY <1>9, <2>2
  <2> QED
    BY <2>1, <2>3
<1>12. Compacted(ss) = run[n]
  <2>1. n \in 0 .. n
    BY <1>2
  <2>2. run[n] = folded[1 .. n]
    BY <2>1
  <2> HIDE DEF run
  <2> QED
    BY <1>1, <1>2, <2>2
<1> HIDE DEF run
<1>13. \A i \in 1 .. n : run[i] = op(run[i - 1], i)
  BY <1>11
<1> QED
  BY <1>10, <1>12, <1>13 DEF op, n

\* Merging small neighbours changes the segments and not the bytes.
LEMMA CompactHolds ==
  ASSUME NEW g \in Gatherers
  PROVE  Compact(g).segments \in Segments /\ FlattenSeq(Compact(g).segments) = Held(g)
<1> DEFINE ss == Flush(g).segments
           n == Len(ss)
<1>1. ss \in Segments /\ FlattenSeq(ss) = Held(g)
  BY Gathering DEF Gatherers
<1>2. PICK run : /\ run[0] = EmptyGatherer
                 /\ \A i \in 1 .. n : run[i] = Placed(run[i - 1], ss[i])
                 /\ Compact(g) = Flush(run[n])
  <2>1. Compact(g) = Flush(Compacted(ss))
    BY DEF Compact, Compacted
  <2> HIDE DEF ss
  <2> QED
    BY <1>1, <2>1, CompactFolds
<1> HIDE DEF ss
<1>3. PICK flat : FlatRun(ss, flat) /\ n \in Nat
  BY <1>1, FlatRunExists
<1> DEFINE Good == {i \in 0 .. n : run[i] \in Gatherers /\ Held(run[i]) = flat[i]}
<1>4. 0 \in Good
  <2>1. 0 \in 0 .. n /\ flat[0] = <<>>
    BY <1>3 DEF FlatRun
  <2> QED
    BY <1>2, <2>1, Gathering
<1>5. ASSUME NEW i \in 1 .. n, i - 1 \in Good PROVE i \in Good
  <2>1. run[i - 1] \in Gatherers /\ Held(run[i - 1]) = flat[i - 1]
    BY <1>5
  <2>2. run[i] = Placed(run[i - 1], ss[i]) /\ ss[i] \in Octets /\ flat[i] = flat[i - 1] \o ss[i]
    <3>1. run[i] = Placed(run[i - 1], ss[i])
      BY <1>2
    <3>2. ss[i] \in Octets
      BY <1>1 DEF Segments
    <3>3. flat[i] = flat[i - 1] \o ss[i]
      BY <1>3 DEF FlatRun
    <3> QED
      BY <3>1, <3>2, <3>3
  <2>3. run[i] \in Gatherers /\ Held(run[i]) = Held(run[i - 1]) \o ss[i]
    <3> DEFINE p == run[i - 1]
               x == ss[i]
    <3>1. p \in Gatherers /\ x \in Octets
      BY <2>1, <2>2
    <3>2. run[i] = PutSlice(p, x) \/ run[i] = PutBytes(p, x)
      BY <2>2 DEF Placed
    <3> HIDE DEF p, x
    <3>3. PutSlice(p, x) \in Gatherers /\ Held(PutSlice(p, x)) = Held(p) \o x
      BY <3>1, Gathering, ZenonT(30)
    <3>4. PutBytes(p, x) \in Gatherers /\ Held(PutBytes(p, x)) = Held(p) \o x
      BY <3>1, Gathering, ZenonT(30)
    <3>5. run[i] \in Gatherers /\ Held(run[i]) = Held(p) \o x
      BY <3>2, <3>3, <3>4
    <3> QED
      BY <3>5 DEF p, x
  <2>4. Held(run[i]) = flat[i]
    BY <2>1, <2>2, <2>3
  <2>5. i \in 0 .. n
    BY <1>3
  <2> QED
    BY <2>3, <2>4, <2>5
<1> HIDE DEF Good
<1>6. \A i \in 0 .. n : i \in Good
  BY <1>3, <1>4, <1>5, UpTo
<1>7. n \in 0 .. n
  BY <1>3
<1>8. run[n] \in Gatherers /\ Held(run[n]) = flat[n]
  BY <1>6, <1>7 DEF Good
<1>9. flat[n] = Held(g)
  BY <1>1, <1>3, FlatIs
<1>10. Flush(run[n]) \in Gatherers /\ FlattenSeq(Flush(run[n]).segments) = Held(run[n])
  BY <1>8, Gathering
<1> QED
  BY <1>2, <1>8, <1>9, <1>10 DEF Gatherers

-----------------------------------------------------------------------------
(***************************************************************************)
(* What is written of a field.                                             *)
(***************************************************************************)
Sized(x) == [i \in 1 .. Len(x) |-> <<Len(x[i])>> \o x[i]]

Coded(x) == [i \in DOMAIN x |-> AppendEncode(x[i])]

Delimited == {"json", "opt_json", "blobs", "slices", "opt_sized", "id", "entry"}

Trailing == {"tail", "some_tail", "opt_tail", "whole_json", "ignored", "entries"}

EncodedAs(kind, x) ==
  CASE kind = "json" -> <<x>> \o Json(x)
    [] kind = "opt_json" -> IF x = Nothing THEN <<0>> ELSE <<1>> \o (<<x[1]>> \o Json(x[1]))
    [] kind \in {"blobs", "slices"} -> <<Len(x)>> \o FlattenSeq(Sized(x))
    [] kind = "opt_tail" -> IF x = Nothing THEN <<0>> ELSE <<1>> \o x[1]
    [] kind = "opt_sized" -> IF x = Nothing THEN <<0>> ELSE <<Len(x[1])>> \o x[1]
    [] kind \in {"tail", "some_tail"} -> x
    [] kind \in {"whole_json", "ignored"} -> Json(x)
    [] kind = "id" -> <<x>>
    [] kind = "entry" -> AppendEncode(x)
    [] kind = "entries" -> FlattenSeq(Coded(x))

\* A cell.
LEMMA OneOctet == \A n \in Nat : <<n>> \in Octets /\ Len(<<n>>) = 1 /\ <<n>>[1] = n
BY DEF Octets

\* The text of a value.
LEMMA JsonIs ==
  ASSUME NEW v \in Nat
  PROVE  Json(v) \in Octets /\ Len(Json(v)) = v /\ \A i \in 1 .. v : Json(v)[i] = v
BY DEF Json, Octets

\* A list within the bound has a number that fits its count.
LEMMA ListIs ==
  ASSUME NEW S, NEW x \in ListsOf(S)
  PROVE  x \in Seq(S) /\ Len(x) \in Nat /\ DOMAIN x = 1 .. Len(x) /\ Len(x) % CountLimit = Len(x)
<1>1. PICK n \in 0 .. MaxList : x \in [1 .. n -> S]
  BY DEF ListsOf
<1>2. x \in Seq(S) /\ Len(x) = n /\ DOMAIN x = 1 .. n /\ n \in Nat
  <2>1. MaxList \in Nat
    BY WireAssumption
  <2> QED
    BY <1>1, <2>1
<1>3. n % CountLimit = n
  <2>1. n < CountLimit /\ CountLimit \in Nat /\ n \in Nat
    BY <1>1, WireAssumption
  <2> QED
    BY <2>1
<1> QED
  BY <1>2, <1>3

\* An entry has five cells.
LEMMA EntryIs ==
  ASSUME NEW e \in Entries
  PROVE  /\ AppendEncode(e) \in Octets /\ Len(AppendEncode(e)) = 5
         /\ e = [post_id |-> e.post_id, feedback_type |-> e.feedback_type, salt |-> e.salt, pow |-> e.pow]
<1>1. e \in [post_id : Nat, feedback_type : Nat, salt : Nat, pow : Nat]
  BY WireAssumption
<1>2. e.post_id \in Nat /\ e.feedback_type \in Nat /\ e.salt \in Nat /\ e.pow \in Nat
  BY <1>1
<1>3. AppendEncode(e) \in Octets /\ Len(AppendEncode(e)) = 5
  BY <1>2 DEF AppendEncode, Octets
<1> QED
  BY <1>1, <1>3

\* Every blob with its size in front, every entry on its five cells.
LEMMA SizedIs ==
  ASSUME NEW x \in Seq(Octets)
  PROVE  Sized(x) \in Segments /\ Len(Sized(x)) = Len(x) /\ Len(x) \in Nat
         /\ \A i \in 1 .. Len(x) : x[i] \in Octets /\ Len(x[i]) \in Nat /\ Sized(x)[i] = <<Len(x[i])>> \o x[i]
<1>1. \A i \in 1 .. Len(x) : x[i] \in Octets /\ Len(x[i]) \in Nat
  BY DEF Octets
<1>2. \A i \in 1 .. Len(x) : <<Len(x[i])>> \o x[i] \in Octets
  BY <1>1, OneOctet, JoinType
<1> QED
  BY <1>1, <1>2 DEF Sized, Segments

\* Entries are segments of five cells.
LEMMA CodedIs ==
  ASSUME NEW x \in Seq(Entries)
  PROVE  Coded(x) \in Segments /\ Len(Coded(x)) = Len(x) /\ Len(x) \in Nat
         /\ \A i \in 1 .. Len(x) : x[i] \in Entries /\ Coded(x)[i] = AppendEncode(x[i])
<1>1. Len(x) \in Nat /\ DOMAIN x = 1 .. Len(x) /\ \A i \in 1 .. Len(x) : x[i] \in Entries
  OBVIOUS
<1>2. \A i \in 1 .. Len(x) : AppendEncode(x[i]) \in Octets
  BY <1>1, EntryIs
<1> QED
  BY <1>1, <1>2 DEF Coded, Segments

\* The values of the fields, kind by kind.
LEMMA DomainIs ==
  ASSUME NEW kind \in Delimited \cup Trailing, NEW x \in Domain(kind)
  PROVE  /\ kind \in {"json", "whole_json", "id"} => x \in Nat \ {0} /\ x \in JsonValues
         /\ kind = "ignored" => x = 1
         /\ kind = "opt_json" => x = Nothing \/ (x = <<x[1]>> /\ x # Nothing /\ x[1] \in Nat \ {0} /\ x[1] \in JsonValues)
         /\ kind \in {"blobs", "slices"} => x \in Seq(Octets) /\ Len(x) \in Nat /\ Len(x) % CountLimit = Len(x)
         /\ kind \in {"opt_tail", "opt_sized"} => x = Nothing \/ (x = <<x[1]>> /\ x # Nothing /\ x[1] \in Octets)
         /\ kind \in {"tail", "some_tail"} => x \in Octets
         /\ kind = "entry" => x \in Entries
         /\ kind = "entries" => x \in Seq(Entries)
<1>1. JsonValues \subseteq Nat \ {0} /\ Blobs \subseteq Octets
  BY WireAssumption DEF Octets
<1>2. \A v : Some(v) # Nothing /\ Some(v) = <<v>> /\ Some(v)[1] = v
  BY DEF Some, Nothing
<1>3. CASE kind \in {"json", "whole_json", "id"}
  BY <1>1, <1>3 DEF Domain
<1>4. CASE kind = "ignored"
  BY <1>4 DEF Domain
<1>5. CASE kind = "opt_json"
  <2>1. x = Nothing \/ \E v \in JsonValues : x = Some(v)
    BY <1>5 DEF Domain
  <2> QED
    BY <1>1, <1>2, <1>5, <2>1
<1>6. CASE kind \in {"blobs", "slices"}
  <2>1. x \in ListsOf(Blobs)
    BY <1>6 DEF Domain
  <2>2. x \in Seq(Blobs) /\ Len(x) \in Nat /\ Len(x) % CountLimit = Len(x)
    BY <2>1, ListIs
  <2>3. x \in Seq(Octets)
    BY <1>1, <2>2
  <2> QED
    BY <1>6, <2>2, <2>3
<1>7. CASE kind \in {"opt_tail", "opt_sized"}
  <2>1. x = Nothing \/ \E b \in Blobs : x = Some(b)
    BY <1>7 DEF Domain
  <2> QED
    BY <1>1, <1>2, <1>7, <2>1
<1>8. CASE kind \in {"tail", "some_tail"}
  BY <1>1, <1>8 DEF Domain
<1>9. CASE kind = "entry"
  BY <1>9 DEF Domain
<1>10. CASE kind = "entries"
  <2>1. x \in ListsOf(Entries)
    BY <1>10 DEF Domain
  <2> QED
    BY <1>10, <2>1, ListIs
<1> QED
  BY <1>3, <1>4, <1>5, <1>6, <1>7, <1>8, <1>9, <1>10 DEF Delimited, Trailing

\* Blobs on their way into a gatherer, by reference or copied.
PutSized(a, b, byReference) ==
  IF byReference THEN PutBytes(PutSlice(a, <<Len(b)>>), b) ELSE PutSlice(a, <<Len(b)>> \o b)

\* Either way its size and the blob are held.
LEMMA PutSizedHolds ==
  ASSUME NEW a \in Gatherers, NEW b \in Octets, NEW byReference \in BOOLEAN
  PROVE  PutSized(a, b, byReference) \in Gatherers /\ Held(PutSized(a, b, byReference)) = Held(a) \o (<<Len(b)>> \o b)
<1>1. <<Len(b)>> \in Octets /\ <<Len(b)>> \o b \in Octets /\ Held(a) \in Octets
  <2>1. Len(b) \in Nat
    BY DEF Octets
  <2> QED
    BY <2>1, OneOctet, JoinType, Gathering
<1>2. CASE byReference
  <2> DEFINE p == PutSlice(a, <<Len(b)>>)
  <2>1. p \in Gatherers /\ Held(p) = Held(a) \o <<Len(b)>>
    BY <1>1, Gathering
  <2>2. PutBytes(p, b) \in Gatherers /\ Held(PutBytes(p, b)) = Held(p) \o b
    BY <2>1, Gathering
  <2>3. (Held(a) \o <<Len(b)>>) \o b = Held(a) \o (<<Len(b)>> \o b)
    BY <1>1, JoinThree
  <2>4. PutSized(a, b, byReference) = PutBytes(p, b)
    BY <1>2 DEF PutSized
  <2> HIDE DEF p
  <2> QED
    BY <2>1, <2>2, <2>3, <2>4
<1>3. CASE ~byReference
  <2>1. PutSized(a, b, byReference) = PutSlice(a, <<Len(b)>> \o b)
    BY <1>3 DEF PutSized
  <2> QED
    BY <1>1, <2>1, Gathering
<1> QED
  BY <1>2, <1>3

\* WriteSized blob by blob.
LEMMA SizedFolds ==
  ASSUME NEW g \in Gatherers, NEW list \in Seq(Octets), NEW byReference \in BOOLEAN
  PROVE  \E run : /\ run[0] = PutSlice(g, <<Len(list) % CountLimit>>)
                  /\ \A i \in 1 .. Len(list) : run[i] = PutSized(run[i - 1], list[i], byReference)
                  /\ WriteSized(g, list, byReference) = run[Len(list)]
<1> DEFINE n == Len(list)
           op(a, i) == PutSized(a, list[i], byReference)
           eq(it) == it = [s \in SUBSET DOMAIN list |-> IF s = {} THEN PutSlice(g, <<Len(list) % CountLimit>>) ELSE op(it[s \ {Max(s)}], Max(s))]
           folded == CHOOSE it : eq(it)
<1>1. WriteSized(g, list, byReference) = folded[DOMAIN list]
  BY DEF WriteSized, PutSized, FoldLeft, MapThenFoldSet
<1>2. n \in Nat /\ DOMAIN list = 1 .. n
  OBVIOUS
<1>3. /\ PutSlice(g, <<Len(list) % CountLimit>>) \in Gatherers
      /\ \A i \in 1 .. n, a \in Gatherers : op(a, i) \in Gatherers
  <2>1. Len(list) % CountLimit \in Nat
    <3>1. CountLimit \in Nat /\ CountLimit > 0 /\ Len(list) \in Nat
      BY WireAssumption
    <3> QED
      BY <3>1
  <2>2. <<Len(list) % CountLimit>> \in Octets
    BY <2>1, OneOctet
  <2>3. \A i \in 1 .. n : list[i] \in Octets
    OBVIOUS
  <2> QED
    BY <2>2, <2>3, Gathering, PutSizedHolds
<1> DEFINE step == [p \in (1 .. n) \X Gatherers |-> op(p[2], p[1])]
<1> HIDE DEF op, n
<1>4. step \in [(1 .. n) \X Gatherers -> Gatherers] /\ \A i \in 1 .. n, a \in Gatherers : step[<<i, a>>] = op(a, i)
  BY <1>3
<1> HIDE DEF step
<1>5. PICK it \in [SUBSET (1 .. n) -> Gatherers] : FoldedUp(it, n, PutSlice(g, <<Len(list) % CountLimit>>), step)
  BY <1>2, <1>3, <1>4, FoldSteps
<1>6. ASSUME NEW s \in SUBSET (1 .. n)
      PROVE  it[s] = IF s = {} THEN PutSlice(g, <<Len(list) % CountLimit>>) ELSE op(it[s \ {Max(s)}], Max(s))
  <2>1. it[s] = IF s = {} THEN PutSlice(g, <<Len(list) % CountLimit>>) ELSE step[<<Max(s), it[s \ {Max(s)}]>>]
    BY <1>5 DEF FoldedUp
  <2>2. CASE s # {}
    <3>1. Max(s) \in 1 .. n
      BY <1>2, <2>2, Stretches
    <3>2. it[s \ {Max(s)}] \in Gatherers
      BY <1>5
    <3>3. step[<<Max(s), it[s \ {Max(s)}]>>] = op(it[s \ {Max(s)}], Max(s))
      BY <1>4, <3>1, <3>2
    <3> QED
      BY <2>1, <2>2, <3>3
  <2> QED
    BY <2>1, <2>2
<1>7. eq(it)
  BY <1>2, <1>5, <1>6
<1>8. eq(folded)
  BY <1>7
<1> HIDE DEF folded
<1>9. \A s \in SUBSET (1 .. n) : folded[s] = IF s = {} THEN PutSlice(g, <<Len(list) % CountLimit>>) ELSE op(folded[s \ {Max(s)}], Max(s))
  BY <1>2, <1>8
<1> HIDE DEF eq
<1> DEFINE run == [i \in 0 .. n |-> folded[1 .. i]]
<1>10. run[0] = PutSlice(g, <<Len(list) % CountLimit>>)
  <2>1. 1 .. 0 = {} /\ 1 .. 0 \in SUBSET (1 .. n) /\ 0 \in 0 .. n
    BY <1>2, Stretches
  <2>2. run[0] = folded[1 .. 0]
    BY <2>1
  <2> QED
    BY <1>9, <2>1, <2>2
<1>11. ASSUME NEW i \in 1 .. n PROVE run[i] = op(run[i - 1], i)
  <2>1. run[i] = folded[1 .. i] /\ run[i - 1] = folded[1 .. i - 1]
    BY <1>2
  <2>2. /\ 1 .. i \in SUBSET (1 .. n) /\ 1 .. i # {} /\ Max(1 .. i) = i
        /\ (1 .. i) \ {i} = 1 .. i - 1
    BY <1>2, Stretches
  <2>3. folded[1 .. i] = op(folded[1 .. i - 1], i)
    BY <1>9, <2>2
  <2> QED
    BY <2>1, <2>3
<1>12. WriteSized(g, list, byReference) = run[n]
  <2>1. n \in 0 .. n
    BY <1>2
  <2>2. run[n] = folded[1 .. n]
    BY <2>1
  <2> HIDE DEF run
  <2> QED
    BY <1>1, <1>2, <2>2
<1> HIDE DEF run
<1>13. \A i \in 1 .. n : run[i] = op(run[i - 1], i)
  BY <1>11
<1> QED
  BY <1>10, <1>12, <1>13 DEF op, n

\* A list of blobs: their number, then each with its size in front.
LEMMA SizedWritten ==
  ASSUME NEW g \in Gatherers, NEW list \in Seq(Octets), Len(list) % CountLimit = Len(list), NEW byReference \in BOOLEAN
  PROVE  /\ WriteSized(g, list, byReference) \in Gatherers
         /\ Held(WriteSized(g, list, byReference)) = Held(g) \o (<<Len(list)>> \o FlattenSeq(Sized(list)))
<1> DEFINE n == Len(list)
           ss == Sized(list)
           front == Held(g) \o <<n>>
<1>1. n \in Nat /\ ss \in Segments /\ Len(ss) = n
      /\ \A i \in 1 .. n : list[i] \in Octets /\ ss[i] = <<Len(list[i])>> \o list[i]
  BY SizedIs
<1>2. PICK run : /\ run[0] = PutSlice(g, <<n>>)
                 /\ \A i \in 1 .. n : run[i] = PutSized(run[i - 1], list[i], byReference)
                 /\ WriteSized(g, list, byReference) = run[n]
  BY SizedFolds
<1> HIDE DEF ss
<1>3. PICK flat : FlatRun(ss, flat)
  BY <1>1, FlatRunExists
<1>4. <<n>> \in Octets /\ Held(g) \in Octets /\ front \in Octets
  BY <1>1, OneOctet, Gathering, JoinType
<1> HIDE DEF front, n
<1> DEFINE Good == {i \in 0 .. n : run[i] \in Gatherers /\ Held(run[i]) = front \o flat[i]}
<1>5. 0 \in Good
  <2>1. 0 \in 0 .. n /\ flat[0] = <<>> /\ front \o <<>> = front
    BY <1>1, <1>3, <1>4, NoOctets DEF FlatRun
  <2>2. run[0] \in Gatherers /\ Held(run[0]) = front
    BY <1>2, <1>4, Gathering DEF front
  <2> QED
    BY <2>1, <2>2
<1>6. ASSUME NEW i \in 1 .. n, i - 1 \in Good PROVE i \in Good
  <2>1. run[i - 1] \in Gatherers /\ Held(run[i - 1]) = front \o flat[i - 1]
    BY <1>6
  <2>2. run[i] = PutSized(run[i - 1], list[i], byReference) /\ list[i] \in Octets
    BY <1>1, <1>2
  <2>3. flat[i] = flat[i - 1] \o ss[i] /\ flat[i - 1] \in Octets /\ ss[i] \in Octets /\ ss[i] = <<Len(list[i])>> \o list[i]
    <3>1. i - 1 \in 0 .. n
      BY <1>1
    <3>2. flat[i] = flat[i - 1] \o ss[i] /\ flat[i - 1] \in Octets
      BY <1>1, <1>3, <3>1 DEF FlatRun
    <3>3. ss[i] \in Octets
      BY <1>1 DEF Segments
    <3> QED
      BY <1>1, <3>2, <3>3
  <2>4. run[i] \in Gatherers /\ Held(run[i]) = Held(run[i - 1]) \o ss[i]
    <3>1. /\ run[i] \in Gatherers
          /\ Held(run[i]) = Held(run[i - 1]) \o (<<Len(list[i])>> \o list[i])
      <4>1. \A a \in Gatherers, b \in Octets :
              /\ PutSized(a, b, byReference) \in Gatherers
              /\ Held(PutSized(a, b, byReference)) = Held(a) \o (<<Len(b)>> \o b)
        BY PutSizedHolds
      <4> QED
        BY <2>1, <2>2, <4>1
    <3> QED
      BY <2>3, <3>1
  <2>5. (front \o flat[i - 1]) \o ss[i] = front \o (flat[i - 1] \o ss[i])
    BY <1>4, <2>3, JoinThree
  <2>6. Held(run[i]) = front \o flat[i]
    BY <2>1, <2>3, <2>4, <2>5
  <2>7. i \in 0 .. n
    BY <1>1
  <2> QED
    BY <2>4, <2>6, <2>7
<1> HIDE DEF Good
<1>7. \A i \in 0 .. n : i \in Good
  BY <1>1, <1>5, <1>6, UpTo
<1>8. run[n] \in Gatherers /\ Held(run[n]) = front \o flat[n]
  <2>1. n \in 0 .. n
    BY <1>1
  <2>2. n \in Good
    BY <1>7, <2>1
  <2> QED
    BY <2>2 DEF Good
<1>9. flat[n] = FlattenSeq(ss) /\ FlattenSeq(ss) \in Octets
  BY <1>1, <1>3, FlatIs, FlatOf
<1>10. (Held(g) \o <<n>>) \o FlattenSeq(ss) = Held(g) \o (<<n>> \o FlattenSeq(ss))
  BY <1>4, <1>9, JoinThree
<1> QED
  BY <1>2, <1>8, <1>9, <1>10 DEF front, n, ss

-----------------------------------------------------------------------------
(***************************************************************************)
(* Messages as bytes.                                                      *)
(***************************************************************************)
\* Every field is octets.
LEMMA EncodedType ==
  ASSUME NEW kind \in Delimited \cup Trailing, NEW x \in Domain(kind)
  PROVE  EncodedAs(kind, x) \in Octets
<1>1. CASE kind = "json"
  <2>1. x \in Nat
    BY <1>1, DomainIs
  <2> QED
    BY <1>1, <2>1, OneOctet, JsonIs, JoinType DEF EncodedAs
<1>2. CASE kind = "opt_json"
  <2>1. CASE x = Nothing
    BY <1>2, <2>1, OneOctet DEF EncodedAs
  <2>2. CASE x # Nothing
    <3>1. x[1] \in Nat
      BY <1>2, <2>2, DomainIs
    <3>2. <<x[1]>> \o Json(x[1]) \in Octets /\ <<1>> \in Octets
      BY <3>1, OneOctet, JsonIs, JoinType
    <3>3. EncodedAs(kind, x) = <<1>> \o (<<x[1]>> \o Json(x[1]))
      BY <1>2, <2>2 DEF EncodedAs
    <3> QED
      BY <3>2, <3>3, JoinType
  <2> QED
    BY <2>1, <2>2
<1>3. CASE kind \in {"blobs", "slices"}
  <2>1. Len(x) \in Nat /\ Sized(x) \in Segments
    BY <1>3, DomainIs, SizedIs
  <2>2. <<Len(x)>> \in Octets /\ FlattenSeq(Sized(x)) \in Octets
    BY <2>1, OneOctet, FlatOf
  <2>3. EncodedAs(kind, x) = <<Len(x)>> \o FlattenSeq(Sized(x))
    BY <1>3 DEF EncodedAs
  <2> QED
    BY <2>2, <2>3, JoinType
<1>4. CASE kind = "opt_tail"
  <2>1. CASE x = Nothing
    BY <1>4, <2>1, OneOctet DEF EncodedAs
  <2>2. CASE x # Nothing
    <3>1. x[1] \in Octets /\ <<1>> \in Octets
      BY <1>4, <2>2, DomainIs, OneOctet
    <3>2. EncodedAs(kind, x) = <<1>> \o x[1]
      BY <1>4, <2>2 DEF EncodedAs
    <3> QED
      BY <3>1, <3>2, JoinType
  <2> QED
    BY <2>1, <2>2
<1>5. CASE kind = "opt_sized"
  <2>1. CASE x = Nothing
    BY <1>5, <2>1, OneOctet DEF EncodedAs
  <2>2. CASE x # Nothing
    <3>1. x[1] \in Octets
      BY <1>5, <2>2, DomainIs
    <3>2. <<Len(x[1])>> \in Octets
      <4>1. Len(x[1]) \in Nat
        BY <3>1 DEF Octets
      <4> QED
        BY <4>1, OneOctet
    <3>3. EncodedAs(kind, x) = <<Len(x[1])>> \o x[1]
      BY <1>5, <2>2 DEF EncodedAs
    <3> QED
      BY <3>1, <3>2, <3>3, JoinType
  <2> QED
    BY <2>1, <2>2
<1>6. CASE kind \in {"tail", "some_tail"}
  BY <1>6, DomainIs DEF EncodedAs
<1>7. CASE kind \in {"whole_json", "ignored"}
  <2>1. x \in Nat
    BY <1>7, DomainIs
  <2>2. EncodedAs(kind, x) = Json(x)
    BY <1>7 DEF EncodedAs
  <2> QED
    BY <2>1, <2>2, JsonIs
<1>8. CASE kind = "id"
  <2>1. x \in Nat
    BY <1>8, DomainIs
  <2> QED
    BY <1>8, <2>1, OneOctet DEF EncodedAs
<1>9. CASE kind = "entry"
  <2>1. x \in Entries
    BY <1>9, DomainIs
  <2> QED
    BY <1>9, <2>1, EntryIs DEF EncodedAs
<1>10. CASE kind = "entries"
  <2>1. x \in Seq(Entries)
    BY <1>10, DomainIs
  <2>2. Coded(x) \in Segments
    BY <2>1, CodedIs
  <2> QED
    BY <1>10, <2>2, FlatOf DEF EncodedAs
<1> QED
  BY <1>1, <1>2, <1>3, <1>4, <1>5, <1>6, <1>7, <1>8, <1>9, <1>10 DEF Delimited, Trailing

\* A value with its length in front.
LEMMA JsonWritten ==
  ASSUME NEW g \in Gatherers, NEW v \in Nat
  PROVE  /\ WriteLengthPrefixedJson(g, v) \in Gatherers
         /\ Held(WriteLengthPrefixedJson(g, v)) = Held(g) \o (<<v>> \o Json(v))
<1> DEFINE p == PutSlice(g, <<v>>)
<1>1. Json(v) \in Octets /\ <<v>> \in Octets /\ Held(g) \in Octets
  BY JsonIs, OneOctet, Gathering
<1>2. WriteLengthPrefixedJson(g, v) = PutBytes(p, Json(v))
  <2>1. Len(Json(v)) = v
    BY JsonIs
  <2> QED
    BY <2>1 DEF WriteLengthPrefixedJson
<1>3. p \in Gatherers /\ Held(p) = Held(g) \o <<v>>
  BY <1>1, Gathering
<1>4. PutBytes(p, Json(v)) \in Gatherers /\ Held(PutBytes(p, Json(v))) = Held(p) \o Json(v)
  BY <1>1, <1>3, Gathering
<1>5. (Held(g) \o <<v>>) \o Json(v) = Held(g) \o (<<v>> \o Json(v))
  BY <1>1, JoinThree
<1> HIDE DEF p
<1> QED
  BY <1>2, <1>3, <1>4, <1>5

\* Every kind of field adds its bytes.
LEMMA WriteHolds ==
  ASSUME NEW g \in Gatherers, NEW kind \in Delimited \cup Trailing, NEW x \in Domain(kind)
  PROVE  Write(g, kind, x) \in Gatherers /\ Held(Write(g, kind, x)) = Held(g) \o EncodedAs(kind, x)
<1>1. CASE kind = "json"
  <2>1. x \in Nat
    BY <1>1, DomainIs
  <2>2. Write(g, kind, x) = WriteLengthPrefixedJson(g, x) /\ EncodedAs(kind, x) = <<x>> \o Json(x)
    BY <1>1 DEF Write, EncodedAs
  <2> QED
    BY <2>1, <2>2, JsonWritten
<1>2. CASE kind = "opt_json"
  <2>1. CASE x = Nothing
    <3>1. Write(g, kind, x) = PutSlice(g, <<0>>) /\ EncodedAs(kind, x) = <<0>> /\ <<0>> \in Octets
      BY <1>2, <2>1, OneOctet DEF Write, EncodedAs
    <3> QED
      BY <3>1, Gathering, ZenonT(30)
  <2>2. CASE x # Nothing
    <3> DEFINE p == PutSlice(g, <<1>>)
               v == x[1]
    <3>1. v \in Nat
      BY <1>2, <2>2, DomainIs
    <3>2. Write(g, kind, x) = WriteLengthPrefixedJson(p, v) /\ EncodedAs(kind, x) = <<1>> \o (<<v>> \o Json(v))
      BY <1>2, <2>2 DEF Write, EncodedAs
    <3>3. <<1>> \in Octets /\ <<v>> \o Json(v) \in Octets /\ Held(g) \in Octets
      BY <3>1, OneOctet, JsonIs, JoinType, Gathering
    <3>4. p \in Gatherers /\ Held(p) = Held(g) \o <<1>>
      BY <3>3, Gathering
    <3> HIDE DEF p, v
    <3>5. /\ WriteLengthPrefixedJson(p, v) \in Gatherers
          /\ Held(WriteLengthPrefixedJson(p, v)) = Held(p) \o (<<v>> \o Json(v))
      BY <3>1, <3>4, JsonWritten
    <3>6. (Held(g) \o <<1>>) \o (<<v>> \o Json(v)) = Held(g) \o (<<1>> \o (<<v>> \o Json(v)))
      BY <3>3, JoinThree
    <3> QED
      BY <3>2, <3>4, <3>5, <3>6
  <2> QED
    BY <2>1, <2>2
<1>3. CASE kind \in {"blobs", "slices"}
  <2>1. x \in Seq(Octets) /\ Len(x) % CountLimit = Len(x)
    BY <1>3, DomainIs
  <2>2. EncodedAs(kind, x) = <<Len(x)>> \o FlattenSeq(Sized(x))
    BY <1>3 DEF EncodedAs
  <2>3. Write(g, kind, x) = WriteSized(g, x, TRUE) \/ Write(g, kind, x) = WriteSized(g, x, FALSE)
    BY <1>3 DEF Write
  <2>4. \A r \in BOOLEAN : /\ WriteSized(g, x, r) \in Gatherers
                           /\ Held(WriteSized(g, x, r)) = Held(g) \o (<<Len(x)>> \o FlattenSeq(Sized(x)))
    BY <2>1, SizedWritten
  <2>5. /\ WriteSized(g, x, TRUE) \in Gatherers /\ WriteSized(g, x, FALSE) \in Gatherers
        /\ Held(WriteSized(g, x, TRUE)) = Held(g) \o EncodedAs(kind, x)
        /\ Held(WriteSized(g, x, FALSE)) = Held(g) \o EncodedAs(kind, x)
    BY <2>2, <2>4, ZenonT(30)
  <2> QED
    BY <2>3, <2>5, ZenonT(30)
<1>4. CASE kind = "opt_tail"
  <2>1. CASE x = Nothing
    <3>1. Write(g, kind, x) = PutSlice(g, <<0>>) /\ EncodedAs(kind, x) = <<0>> /\ <<0>> \in Octets
      BY <1>4, <2>1, OneOctet DEF Write, EncodedAs
    <3> QED
      BY <3>1, Gathering, ZenonT(30)
  <2>2. CASE x # Nothing
    <3> DEFINE p == PutSlice(g, <<1>>)
               b == x[1]
    <3>1. b \in Octets /\ <<1>> \in Octets /\ Held(g) \in Octets
      BY <1>4, <2>2, DomainIs, OneOctet, Gathering
    <3>2. Write(g, kind, x) = PutBytes(p, b) /\ EncodedAs(kind, x) = <<1>> \o b
      BY <1>4, <2>2 DEF Write, EncodedAs
    <3>3. p \in Gatherers /\ Held(p) = Held(g) \o <<1>>
      BY <3>1, Gathering
    <3> HIDE DEF p, b
    <3>4. PutBytes(p, b) \in Gatherers /\ Held(PutBytes(p, b)) = Held(p) \o b
      BY <3>1, <3>3, Gathering
    <3>5. (Held(g) \o <<1>>) \o b = Held(g) \o (<<1>> \o b)
      BY <3>1, JoinThree
    <3> QED
      BY <3>2, <3>3, <3>4, <3>5
  <2> QED
    BY <2>1, <2>2
<1>5. CASE kind = "opt_sized"
  <2>1. CASE x = Nothing
    <3>1. Write(g, kind, x) = PutSlice(g, <<0>>) /\ EncodedAs(kind, x) = <<0>> /\ <<0>> \in Octets
      BY <1>5, <2>1, OneOctet DEF Write, EncodedAs
    <3> QED
      BY <3>1, Gathering, ZenonT(30)
  <2>2. CASE x # Nothing
    <3>1. Write(g, kind, x) = PutSlice(g, EncodedAs(kind, x))
      BY <1>5, <2>2 DEF Write, EncodedAs
    <3>2. EncodedAs(kind, x) \in Octets
      BY EncodedType
    <3> QED
      BY <3>1, <3>2, Gathering
  <2> QED
    BY <2>1, <2>2
<1>6. CASE kind \in {"tail", "some_tail", "id"}
  <2>1. Write(g, kind, x) = PutSlice(g, EncodedAs(kind, x))
    BY <1>6 DEF Write, EncodedAs
  <2>2. EncodedAs(kind, x) \in Octets
    BY EncodedType
  <2> QED
    BY <2>1, <2>2, Gathering
<1>7. CASE kind \in {"whole_json", "ignored", "entry"}
  <2>1. Write(g, kind, x) = PutBytes(g, EncodedAs(kind, x))
    BY <1>7 DEF Write, EncodedAs
  <2>2. EncodedAs(kind, x) \in Octets
    BY EncodedType
  <2> QED
    BY <2>1, <2>2, Gathering
<1>8. CASE kind = "entries"
  <2>1. Write(g, kind, x) = PutSlice(g, EncodedAs(kind, x))
    BY <1>8 DEF Write, EncodedAs, Coded
  <2>2. EncodedAs(kind, x) \in Octets
    BY EncodedType
  <2> QED
    BY <2>1, <2>2, Gathering
<1> QED
  BY <1>1, <1>2, <1>3, <1>4, <1>5, <1>6, <1>7, <1>8 DEF Delimited, Trailing

\* A message of a format: each field but the last says where it ends.
Format(f) ==
  /\ f \in Seq(Delimited \cup Trailing)
  /\ Len(f) # 0
  /\ \A i \in 1 .. Len(f) - 1 : f[i] \in Delimited

Message(f, msg) == msg \in Seq(UNION {Domain(kind) : kind \in Delimited \cup Trailing})
                   /\ Len(msg) = Len(f) /\ \A i \in 1 .. Len(f) : msg[i] \in Domain(f[i])

EncodedFields(f, msg) == [i \in 1 .. Len(f) |-> EncodedAs(f[i], msg[i])]

\* The fields of a message and what is written of them.
LEMMA FieldsAre ==
  ASSUME NEW f, Format(f), NEW msg, Message(f, msg)
  PROVE  /\ Len(f) \in Nat /\ DOMAIN f = 1 .. Len(f)
         /\ \A i \in 1 .. Len(f) : f[i] \in Delimited \cup Trailing /\ msg[i] \in Domain(f[i])
         /\ EncodedFields(f, msg) \in Segments /\ Len(EncodedFields(f, msg)) = Len(f)
         /\ \A i \in 1 .. Len(f) : EncodedFields(f, msg)[i] = EncodedAs(f[i], msg[i]) /\ EncodedAs(f[i], msg[i]) \in Octets
<1>1. Len(f) \in Nat /\ DOMAIN f = 1 .. Len(f) /\ \A i \in 1 .. Len(f) : f[i] \in Delimited \cup Trailing
  BY DEF Format
<1>2. \A i \in 1 .. Len(f) : msg[i] \in Domain(f[i])
  BY DEF Message
<1>3. \A i \in 1 .. Len(f) : EncodedAs(f[i], msg[i]) \in Octets
  BY <1>1, <1>2, EncodedType
<1> QED
  BY <1>1, <1>2, <1>3 DEF EncodedFields, Segments

\* ToBytesGatherer field by field.
LEMMA WriteFolds ==
  ASSUME NEW f, Format(f), NEW msg, Message(f, msg)
  PROVE  \E run : /\ run[0] = EmptyGatherer
                  /\ \A i \in 1 .. Len(f) : run[i] = Write(run[i - 1], f[[j \in DOMAIN f |-> j][i]], msg[[j \in DOMAIN f |-> j][i]])
                  /\ ToBytesGatherer(f, msg) = run[Len(f)]
<1> DEFINE n == Len(f)
           op(a, i) == Write(a, f[[j \in DOMAIN f |-> j][i]], msg[[j \in DOMAIN f |-> j][i]])
           eq(it) == it = [s \in SUBSET DOMAIN [i \in DOMAIN f |-> i] |-> IF s = {} THEN EmptyGatherer ELSE op(it[s \ {Max(s)}], Max(s))]
           folded == CHOOSE it : eq(it)
<1>1. ToBytesGatherer(f, msg) = folded[DOMAIN [i \in DOMAIN f |-> i]]
  BY DEF ToBytesGatherer, FoldLeft, MapThenFoldSet
<1>2. n \in Nat /\ DOMAIN [i \in DOMAIN f |-> i] = 1 .. n
  BY FieldsAre
<1>3. EmptyGatherer \in Gatherers /\ \A i \in 1 .. n, a \in Gatherers : op(a, i) \in Gatherers
  <2>1. \A i \in 1 .. n : f[i] \in Delimited \cup Trailing /\ msg[i] \in Domain(f[i]) /\ i \in DOMAIN f
    BY FieldsAre
  <2> QED
    BY <2>1, WriteHolds, Gathering
<1> DEFINE step == [p \in (1 .. n) \X Gatherers |-> op(p[2], p[1])]
<1> HIDE DEF op, n
<1>4. step \in [(1 .. n) \X Gatherers -> Gatherers] /\ \A i \in 1 .. n, a \in Gatherers : step[<<i, a>>] = op(a, i)
  BY <1>3
<1> HIDE DEF step
<1>5. PICK it \in [SUBSET (1 .. n) -> Gatherers] : FoldedUp(it, n, EmptyGatherer, step)
  BY <1>2, <1>3, <1>4, FoldSteps
<1>6. ASSUME NEW s \in SUBSET (1 .. n)
      PROVE  it[s] = IF s = {} THEN EmptyGatherer ELSE op(it[s \ {Max(s)}], Max(s))
  <2>1. it[s] = IF s = {} THEN EmptyGatherer ELSE step[<<Max(s), it[s \ {Max(s)}]>>]
    BY <1>5 DEF FoldedUp
  <2>2. CASE s # {}
    <3>1. Max(s) \in 1 .. n
      BY <1>2, <2>2, Stretches
    <3>2. it[s \ {Max(s)}] \in Gatherers
      BY <1>5
    <3>3. step[<<Max(s), it[s \ {Max(s)}]>>] = op(it[s \ {Max(s)}], Max(s))
      BY <1>4, <3>1, <3>2
    <3> QED
      BY <2>1, <2>2, <3>3
  <2> QED
    BY <2>1, <2>2
<1>7. eq(it)
  BY <1>2, <1>5, <1>6
<1>8. eq(folded)
  BY <1>7
<1> HIDE DEF folded
<1>9. \A s \in SUBSET (1 .. n) : folded[s] = IF s = {} THEN EmptyGatherer ELSE op(folded[s \ {Max(s)}], Max(s))
  BY <1>2, <1>8
<1> HIDE DEF eq
<1> DEFINE run == [i \in 0 .. n |-> folded[1 .. i]]
<1>10. run[0] = EmptyGatherer
  <2>1. 1 .. 0 = {} /\ 1 .. 0 \in SUBSET (1 .. n) /\ 0 \in 0 .. n
    BY <1>2, Stretches
  <2>2. run[0] = folded[1 .. 0]
    BY <2>1
  <2> QED
    BY <1>9, <2>1, <2>2
<1>11. ASSUME NEW i \in 1 .. n PROVE run[i] = op(run[i - 1], i)
  <2>1. run[i] = folded[1 .. i] /\ run[i - 1] = folded[1 .. i - 1]
    BY <1>2
  <2>2. /\ 1 .. i \in SUBSET (1 .. n) /\ 1 .. i # {} /\ Max(1 .. i) = i
        /\ (1 .. i) \ {i} = 1 .. i - 1
    BY <1>2, Stretches
  <2>3. folded[1 .. i] = op(folded[1 .. i - 1], i)
    BY <1>9, <2>2
  <2> QED
    BY <2>1, <2>3
<1>12. ToBytesGatherer(f, msg) = run[n]
  <2>1. n \in 0 .. n
    BY <1>2
  <2>2. run[n] = folded[1 .. n]
    BY <2>1
  <2> HIDE DEF run
  <2> QED
    BY <1>1, <1>2, <2>2
<1> HIDE DEF run
<1>13. \A i \in 1 .. n : run[i] = op(run[i - 1], i)
  BY <1>11
<1> QED
  BY <1>10, <1>12, <1>13 DEF op, n

\* The gatherer holds the fields, one after the other.
LEMMA MessageWritten ==
  ASSUME NEW f, Format(f), NEW msg, Message(f, msg)
  PROVE  /\ ToBytesGatherer(f, msg) \in Gatherers
         /\ Held(ToBytesGatherer(f, msg)) = FlattenSeq(EncodedFields(f, msg))
<1> DEFINE n == Len(f)
           ss == EncodedFields(f, msg)
<1>1. /\ n \in Nat /\ ss \in Segments /\ Len(ss) = n /\ DOMAIN f = 1 .. n
      /\ \A i \in 1 .. n : f[i] \in Delimited \cup Trailing /\ msg[i] \in Domain(f[i]) /\ ss[i] = EncodedAs(f[i], msg[i])
  BY FieldsAre
<1>2. PICK run : /\ run[0] = EmptyGatherer
                 /\ \A i \in 1 .. n : run[i] = Write(run[i - 1], f[i], msg[i])
                 /\ ToBytesGatherer(f, msg) = run[n]
  <2>1. PICK run : /\ run[0] = EmptyGatherer
                   /\ \A i \in 1 .. n : run[i] = Write(run[i - 1], f[[j \in DOMAIN f |-> j][i]], msg[[j \in DOMAIN f |-> j][i]])
                   /\ ToBytesGatherer(f, msg) = run[n]
    BY WriteFolds
  <2>2. \A i \in 1 .. n : [j \in DOMAIN f |-> j][i] = i
    BY <1>1
  <2> QED
    BY <2>1, <2>2
<1> HIDE DEF ss, n
<1>3. PICK flat : FlatRun(ss, flat)
  BY <1>1, FlatRunExists
<1> DEFINE Good == {i \in 0 .. n : run[i] \in Gatherers /\ Held(run[i]) = flat[i]}
<1>4. 0 \in Good
  <2>1. 0 \in 0 .. n /\ flat[0] = <<>>
    BY <1>1, <1>3 DEF FlatRun
  <2> QED
    BY <1>2, <2>1, Gathering
<1>5. ASSUME NEW i \in 1 .. n, i - 1 \in Good PROVE i \in Good
  <2>1. run[i - 1] \in Gatherers /\ Held(run[i - 1]) = flat[i - 1]
    BY <1>5
  <2>2. run[i] = Write(run[i - 1], f[i], msg[i])
    BY <1>2
  <2>3. flat[i] = flat[i - 1] \o ss[i]
    BY <1>1, <1>3 DEF FlatRun
  <2>4. run[i] \in Gatherers /\ Held(run[i]) = Held(run[i - 1]) \o EncodedAs(f[i], msg[i])
    BY <1>1, <2>1, <2>2, WriteHolds
  <2>5. Held(run[i]) = flat[i]
    BY <1>1, <2>1, <2>3, <2>4
  <2>6. i \in 0 .. n
    BY <1>1
  <2> QED
    BY <2>4, <2>5, <2>6
<1> HIDE DEF Good
<1>6. \A i \in 0 .. n : i \in Good
  BY <1>1, <1>4, <1>5, UpTo
<1>7. run[n] \in Gatherers /\ Held(run[n]) = flat[n]
  <2>1. n \in 0 .. n
    BY <1>1
  <2>2. n \in Good
    BY <1>6, <2>1
  <2> QED
    BY <2>2 DEF Good
<1>8. flat[n] = FlattenSeq(ss)
  BY <1>1, <1>3, FlatIs
<1> QED
  BY <1>2, <1>7, <1>8 DEF ss

-----------------------------------------------------------------------------
(***************************************************************************)
(* Reading: what is there of a field is all of it, or less.                *)
(***************************************************************************)
\* Octets cut in two.
LEMMA CutAt ==
  ASSUME NEW s \in Octets, NEW k \in 0 .. Len(s)
  PROVE  /\ SubSeq(s, 1, k) \in Octets /\ Len(SubSeq(s, 1, k)) = k
         /\ SubSeq(s, k + 1, Len(s)) \in Octets /\ Len(SubSeq(s, k + 1, Len(s))) = Len(s) - k
         /\ s = SubSeq(s, 1, k) \o SubSeq(s, k + 1, Len(s))
<1>1. Len(s) \in Nat /\ k \in Nat /\ k <= Len(s) /\ s \in Seq(Nat) /\ \A i \in 1 .. Len(s) : s[i] \in Nat
  BY DEF Octets
<1>2. SubSeq(s, 1, k) \in Seq(Nat) /\ Len(SubSeq(s, 1, k)) = k
  <2>1. \A i \in 1 .. k : s[i] \in Nat
    BY <1>1
  <2>2. /\ SubSeq(s, 1, k) \in Seq(Nat)
        /\ Len(SubSeq(s, 1, k)) = IF 1 <= k THEN k - 1 + 1 ELSE 0
    BY <1>1, <2>1, SubSeqProperties
  <2> QED
    BY <1>1, <2>2
<1>3. SubSeq(s, k + 1, Len(s)) \in Seq(Nat) /\ Len(SubSeq(s, k + 1, Len(s))) = Len(s) - k
  <2>1. \A i \in k + 1 .. Len(s) : s[i] \in Nat
    BY <1>1
  <2>2. k + 1 \in Int /\ Len(s) \in Int
    BY <1>1
  <2>3. /\ SubSeq(s, k + 1, Len(s)) \in Seq(Nat)
        /\ Len(SubSeq(s, k + 1, Len(s))) = IF k + 1 <= Len(s) THEN Len(s) - (k + 1) + 1 ELSE 0
    BY <2>1, <2>2, SubSeqProperties
  <2> QED
    BY <1>1, <2>3
<1>4. s = SubSeq(s, 1, k) \o SubSeq(s, k + 1, Len(s))
  <2>1. 1 \in 1 .. Len(s) + 1 /\ k \in 1 - 1 .. Len(s) /\ Len(s) \in k .. Len(s)
    BY <1>1
  <2>2. SubSeq(s, 1, k) \o SubSeq(s, k + 1, Len(s)) = SubSeq(s, 1, Len(s))
    BY <1>1, <2>1, ConcatAdjacentSubSeq
  <2>3. SubSeq(s, 1, Len(s)) = s
    BY <1>1, SubSeqFull
  <2> QED
    BY <2>2, <2>3
<1> QED
  BY <1>2, <1>3, <1>4 DEF Octets

\* Sequences that are together the same and of the same length are the same.
LEMMA SameLength ==
  ASSUME NEW s \in Octets, NEW t \in Octets, NEW a \in Octets, NEW b \in Octets,
         s \o t = a \o b, Len(s) = Len(a)
  PROVE  s = a /\ t = b
<1>1. \A i \in 1 .. Len(s) : s[i] = a[i]
  <2>1. Len(s) \in Nat /\ Len(t) \in Nat /\ Len(b) \in Nat
    BY DEF Octets
  <2>2. ASSUME NEW i \in 1 .. Len(s) PROVE s[i] = a[i]
    <3>1. i \in 1 .. Len(s) + Len(t) /\ i \in 1 .. Len(a) + Len(b) /\ i <= Len(s) /\ i <= Len(a)
      BY <2>1
    <3>2. (s \o t)[i] = s[i]
      BY <3>1, ConcatProperties DEF Octets
    <3>3. (a \o b)[i] = a[i]
      BY <3>1, ConcatProperties DEF Octets
    <3> QED
      BY <3>2, <3>3
  <2> QED
    BY <2>2
<1>2. s = a
  BY <1>1, SeqEqual DEF Octets
<1> QED
  BY <1>2, JoinCancels

\* Of something and what follows it, what there is: all of it and some of the rest, or less.
LEMMA Splits ==
  ASSUME NEW s \in Octets, NEW t \in Octets, NEW e \in Octets, NEW u \in Octets, s \o t = e \o u
  PROVE  \/ \E r \in Octets : s = e \o r /\ r \o t = u
         \/ \E w \in Octets : e = s \o w /\ w # <<>> /\ Len(w) > 0 /\ Len(t) > Len(u)
<1>1. Len(s) \in Nat /\ Len(e) \in Nat /\ Len(t) \in Nat /\ Len(u) \in Nat
  BY JoinType
<1>2. CASE Len(e) <= Len(s)
  <2> DEFINE a == SubSeq(s, 1, Len(e))
             r == SubSeq(s, Len(e) + 1, Len(s))
  <2>1. Len(e) \in 0 .. Len(s)
    BY <1>1, <1>2
  <2>2. a \in Octets /\ Len(a) = Len(e) /\ r \in Octets /\ s = a \o r
    BY <2>1, CutAt
  <2> HIDE DEF a, r
  <2>3. r \o t \in Octets /\ (a \o r) \o t = a \o (r \o t)
    <3>1. r \o t \in Octets
      BY <2>2, JoinType
    <3>2. a \in Octets /\ r \in Octets
      BY <2>2
    <3>3. (a \o r) \o t = a \o (r \o t)
      BY <3>2, JoinThree, ZenonT(30)
    <3> QED
      BY <3>1, <3>3
  <2>4. a \o (r \o t) = e \o u
    BY <2>2, <2>3
  <2>5. a = e /\ r \o t = u
    BY <2>2, <2>3, <2>4, SameLength
  <2> QED
    BY <2>2, <2>5
<1>3. CASE ~(Len(e) <= Len(s))
  <2> DEFINE a == SubSeq(e, 1, Len(s))
             w == SubSeq(e, Len(s) + 1, Len(e))
  <2>1. Len(s) \in 0 .. Len(e)
    BY <1>1, <1>3
  <2>2. a \in Octets /\ Len(a) = Len(s) /\ w \in Octets /\ e = a \o w /\ Len(w) = Len(e) - Len(s)
    BY <2>1, CutAt
  <2> HIDE DEF a, w
  <2>3. w \o u \in Octets /\ (a \o w) \o u = a \o (w \o u)
    <3>1. w \o u \in Octets
      BY <2>2, JoinType
    <3>2. a \in Octets /\ w \in Octets
      BY <2>2
    <3>3. (a \o w) \o u = a \o (w \o u)
      BY <3>2, JoinThree, ZenonT(30)
    <3> QED
      BY <3>1, <3>3
  <2>4. s \o t = a \o (w \o u)
    BY <2>2, <2>3
  <2>5. s = a /\ t = w \o u
    BY <2>2, <2>3, <2>4, SameLength, ZenonT(30)
  <2>6. Len(w) > 0 /\ w # <<>>
    <3>1. Len(w) > 0
      BY <1>1, <1>3, <2>2
    <3> QED
      BY <3>1
  <2>7. Len(t) > Len(u)
    <3>1. Len(t) = Len(w) + Len(u)
      BY <2>2, <2>5, JoinType
    <3> QED
      BY <1>1, <2>2, <2>6, <3>1
  <2> QED
    BY <2>2, <2>5, <2>6, <2>7
<1> QED
  BY <1>2, <1>3

\* A cell and the rest.
LEMMA FirstCell ==
  ASSUME NEW n \in Nat, NEW r \in Octets
  PROVE  /\ <<n>> \o r \in Octets /\ <<n>> \o r # <<>> /\ (<<n>> \o r)[1] = n /\ Left(<<n>> \o r) = r
         /\ Len(<<n>> \o r) = Len(r) + 1 /\ Len(r) \in Nat
<1> DEFINE s == <<n>> \o r
<1>1. <<n>> \in Octets /\ Len(<<n>>) = 1 /\ <<n>>[1] = n
  BY OneOctet
<1>2. s \in Octets /\ Len(r) \in Nat /\ Len(s) = Len(r) + 1
  <2>1. s \in Octets /\ Len(r) \in Nat /\ Len(s) = 1 + Len(r)
    BY <1>1, JoinType
  <2> QED
    BY <2>1
<1>3. s[1] = n
  <2>1. 1 \in 1 .. Len(<<n>>) + Len(r) /\ 1 <= Len(<<n>>)
    BY <1>1, <1>2
  <2> QED
    BY <1>1, <2>1, ConcatProperties DEF Octets
<1>4. s # <<>>
  <2>1. Len(s) # 0
    BY <1>2
  <2> QED
    BY <2>1
<1>5. Left(s) = r
  <2> DEFINE a == SubSeq(s, 1, 1)
             b == SubSeq(s, 1 + 1, Len(s))
  <2>1. 1 \in 0 .. Len(s)
    BY <1>2
  <2>2. a \in Octets /\ Len(a) = 1 /\ b \in Octets /\ s = a \o b
    BY <1>2, <2>1, CutAt
  <2>3. Left(s) = b
    BY DEF Left
  <2> HIDE DEF a, b
  <2>4. <<n>> \o r = a \o b /\ Len(<<n>>) = Len(a)
    BY <1>1, <2>2
  <2>5. r = b
    BY <1>1, <2>2, <2>4, SameLength
  <2> QED
    BY <2>3, <2>5
<1> QED
  BY <1>2, <1>3, <1>4, <1>5

\* What there is of something that begins with a cell: that cell first, or nothing.
LEMMA CellRead ==
  ASSUME NEW s \in Octets, NEW t \in Octets, NEW n \in Nat, NEW u \in Octets, s \o t = <<n>> \o u
  PROVE  \/ \E r \in Octets : s = <<n>> \o r /\ r \o t = u /\ s # <<>> /\ s[1] = n /\ Left(s) = r
         \/ s = <<>> /\ Len(t) > Len(u)
<1>1. <<n>> \in Octets /\ Len(<<n>>) = 1
  BY OneOctet
<1>2. CASE \E r \in Octets : s = <<n>> \o r /\ r \o t = u
  BY <1>2, FirstCell
<1>3. CASE \E v \in Octets : <<n>> = s \o v /\ v # <<>> /\ Len(v) > 0 /\ Len(t) > Len(u)
  <2>1. PICK v \in Octets : <<n>> = s \o v /\ Len(v) > 0 /\ Len(t) > Len(u)
    BY <1>3
  <2>2. Len(<<n>>) = Len(s) + Len(v) /\ Len(v) \in Nat /\ Len(s) \in Nat
    BY <2>1, JoinType
  <2>3. Len(s) = 0
    BY <1>1, <2>1, <2>2
  <2>4. s = <<>>
    BY <2>3, EmptySeq DEF Octets
  <2> QED
    BY <2>1, <2>4
<1>4. \/ \E r \in Octets : s = <<n>> \o r /\ r \o t = u
      \/ \E v \in Octets : <<n>> = s \o v /\ v # <<>> /\ Len(v) > 0 /\ Len(t) > Len(u)
  BY <1>1, Splits
<1> QED
  BY <1>2, <1>3, <1>4

-----------------------------------------------------------------------------
(***************************************************************************)
(* Reading a field: what follows it is left, or it is refused.             *)
(***************************************************************************)
Results(V) == [ok : BOOLEAN, val : V, rest : Octets]

\* What results are made of.
LEMMA GotIs ==
  /\ \A v, r : Got(v, r).ok = TRUE /\ Got(v, r).val = v /\ Got(v, r).rest = r
  /\ Refused.ok = FALSE /\ Refused.val = <<>> /\ Refused.rest = <<>>
BY DEF Got, Refused

\* Results have their type.
LEMMA ResultType ==
  ASSUME NEW V
  PROVE  /\ \A v \in V, r \in Octets : Got(v, r) \in Results(V)
         /\ <<>> \in V => Refused \in Results(V)
BY NoOctets DEF Got, Refused, Results

\* What follows the first cell.
LEMMA LeftType ==
  ASSUME NEW s \in Octets, s # <<>>
  PROVE  Left(s) \in Octets /\ s[1] \in Nat /\ Len(s) \in Nat \ {0}
<1>1. Len(s) \in Nat \ {0} /\ s \in Seq(Nat)
  BY EmptySeq DEF Octets
<1>2. \A i \in 2 .. Len(s) : s[i] \in Nat
  BY <1>1
<1>3. SubSeq(s, 2, Len(s)) \in Seq(Nat)
  BY <1>1, <1>2, SubSeqProperties
<1> QED
  BY <1>1, <1>3 DEF Left, Octets

\* A piece of octets.
LEMMA PieceType ==
  ASSUME NEW s \in Octets, NEW m \in Nat \ {0}, NEW n \in Nat, n <= Len(s)
  PROVE  SubSeq(s, m, n) \in Octets
<1>1. \A i \in m .. n : s[i] \in Nat
  BY DEF Octets
<1>2. SubSeq(s, m, n) \in Seq(Nat)
  BY <1>1, SubSeqProperties
<1> QED
  BY <1>2 DEF Octets

\* The parts of three.
LEMMA PartsOf ==
  ASSUME NEW a \in Octets, NEW b \in Octets, NEW r \in Octets
  PROVE  /\ SubSeq((a \o b) \o r, Len(a) + 1, Len(a) + Len(b)) = b
         /\ SubSeq((a \o b) \o r, Len(a) + Len(b) + 1, Len((a \o b) \o r)) = r
         /\ Len((a \o b) \o r) = Len(a) + Len(b) + Len(r)
         /\ Len(a) \in Nat /\ Len(b) \in Nat /\ Len(r) \in Nat
<1> DEFINE s == (a \o b) \o r
           m == Len(a)
           n == Len(b)
           k == Len(r)
<1>1. a \o b \in Octets /\ s \in Octets /\ Len(a \o b) = m + n /\ Len(s) = (m + n) + k /\ m \in Nat /\ n \in Nat /\ k \in Nat
  <2>1. a \o b \in Octets /\ Len(a \o b) = m + n /\ m \in Nat /\ n \in Nat /\ k \in Nat
    BY JoinType
  <2>2. s \in Octets /\ Len(s) = Len(a \o b) + k
    BY <2>1, JoinType
  <2> QED
    BY <2>1, <2>2
<1>2. \A i \in 1 .. (m + n) + k : s[i] = IF i <= m + n THEN (a \o b)[i] ELSE r[i - (m + n)]
  BY <1>1, ConcatProperties DEF Octets
<1>3. \A i \in 1 .. m + n : (a \o b)[i] = IF i <= m THEN a[i] ELSE b[i - m]
  BY ConcatProperties DEF Octets
<1> HIDE DEF s, m, n, k
<1>4. SubSeq(s, m + 1, m + n) = b
  <2> DEFINE c == SubSeq(s, m + 1, m + n)
  <2>1. \A i \in m + 1 .. m + n : s[i] = b[i - m] /\ b[i - m] \in Nat
    <3>1. ASSUME NEW i \in m + 1 .. m + n PROVE s[i] = b[i - m] /\ b[i - m] \in Nat
      <4>1. i \in 1 .. (m + n) + k /\ i <= m + n /\ i \in 1 .. m + n /\ ~(i <= m) /\ i - m \in 1 .. n
        BY <1>1
      <4>2. s[i] = b[i - m]
        BY <1>2, <1>3, <4>1
      <4>3. b[i - m] \in Nat
        BY <4>1 DEF n, Octets
      <4> QED
        BY <4>2, <4>3
    <3> QED
      BY <3>1
  <2>2. m + 1 \in Int /\ m + n \in Int /\ \A i \in m + 1 .. m + n : s[i] \in Nat
    BY <1>1, <2>1
  <2>3. /\ c \in Seq(Nat) /\ Len(c) = IF m + 1 <= m + n THEN (m + n) - (m + 1) + 1 ELSE 0
        /\ \A i \in 1 .. (m + n) - (m + 1) + 1 : c[i] = s[(m + 1) + i - 1]
    BY <2>2, SubSeqProperties
  <2> HIDE DEF c
  <2>4. Len(c) = n
    BY <1>1, <2>3
  <2>5. ASSUME NEW i \in 1 .. n PROVE c[i] = b[i]
    <3>1. i \in 1 .. (m + n) - (m + 1) + 1 /\ (m + 1) + i - 1 = m + i /\ m + i \in m + 1 .. m + n /\ (m + i) - m = i
      BY <1>1
    <3>2. c[i] = s[m + i]
      BY <2>3, <3>1
    <3>3. s[m + i] = b[i]
      BY <2>1, <3>1
    <3> QED
      BY <3>2, <3>3
  <2>6. c = b
    BY <2>3, <2>4, <2>5, SeqEqual DEF n, Octets
  <2> QED
    BY <2>6 DEF c
<1>5. SubSeq(s, m + n + 1, Len(s)) = r
  <2>1. SubSeq(s, (m + n) + 1, Len(s)) \in Octets /\ s = SubSeq(s, 1, m + n) \o SubSeq(s, (m + n) + 1, Len(s))
        /\ SubSeq(s, 1, m + n) \in Octets /\ Len(SubSeq(s, 1, m + n)) = m + n
    <3>1. m + n \in 0 .. Len(s)
      BY <1>1
    <3> QED
      BY <1>1, <3>1, CutAt
  <2> DEFINE c == SubSeq(s, 1, m + n)
             d == SubSeq(s, (m + n) + 1, Len(s))
  <2>2. c \in Octets /\ d \in Octets /\ s = c \o d /\ Len(c) = m + n
    BY <2>1
  <2> HIDE DEF c, d
  <2>3. (a \o b) \o r = c \o d /\ Len(a \o b) = Len(c)
    BY <1>1, <2>2 DEF s
  <2>4. r = d
    BY <1>1, <2>2, <2>3, SameLength
  <2> QED
    BY <2>4 DEF d
<1> QED
  BY <1>1, <1>4, <1>5 DEF s, m, n, k

\* A blob with its size in front.
LEMMA SizedRead ==
  ASSUME NEW b \in Octets, NEW s \in Octets, NEW t \in Octets, NEW u \in Octets, s \o t = (<<Len(b)>> \o b) \o u, NEW found
  PROVE  \/ \E r \in Octets : r \o t = u /\ ReadSized(s, found) = Got(Append(found, b), r)
         \/ ReadSized(s, found) = Refused /\ Len(t) > Len(u)
<1> DEFINE n == Len(b)
           e == <<n>> \o b
<1>1. n \in Nat /\ <<n>> \in Octets /\ Len(<<n>>) = 1 /\ e \in Octets /\ Len(e) = n + 1
  <2>1. n \in Nat
    BY JoinType
  <2> QED
    BY <2>1, OneOctet, FirstCell
<1>2. CASE \E r \in Octets : s = e \o r /\ r \o t = u
  <2>1. PICK r \in Octets : s = (<<n>> \o b) \o r /\ r \o t = u
    BY <1>2
  <2>2. /\ SubSeq(s, 2, n + 1) = b /\ SubSeq(s, n + 2, Len(s)) = r
        /\ Len(s) = (1 + n) + Len(r) /\ Len(r) \in Nat
    <3>1. /\ SubSeq(s, Len(<<n>>) + 1, Len(<<n>>) + n) = b
          /\ SubSeq(s, Len(<<n>>) + n + 1, Len(s)) = r
          /\ Len(s) = Len(<<n>>) + n + Len(r) /\ Len(r) \in Nat
      BY <1>1, <2>1, PartsOf
    <3>2. Len(<<n>>) + 1 = 2 /\ Len(<<n>>) + n = n + 1 /\ Len(<<n>>) + n + 1 = n + 2
      BY <1>1
    <3> QED
      BY <1>1, <3>1, <3>2
  <2>3. s # <<>> /\ s[1] = n
    <3>1. s = <<n>> \o (b \o r)
      <4>1. <<n>> \in Octets
        BY <1>1
      <4> DEFINE c == <<n>>
      <4> HIDE DEF c
      <4>2. (c \o b) \o r = c \o (b \o r)
        BY <4>1, JoinThree DEF c
      <4> QED
        BY <2>1, <4>2 DEF c
    <3>2. b \o r \in Octets
      BY JoinType
    <3> QED
      BY <1>1, <3>1, <3>2, FirstCell
  <2>4. ~(Len(s) <= s[1])
    BY <1>1, <2>2, <2>3
  <2>5. ReadSized(s, found) = Got(Append(found, b), r)
    BY <2>2, <2>3, <2>4 DEF ReadSized
  <2> QED
    BY <2>1, <2>5
<1>3. CASE \E w \in Octets : e = s \o w /\ w # <<>> /\ Len(w) > 0 /\ Len(t) > Len(u)
  <2>1. PICK w \in Octets : s \o w = <<n>> \o b /\ Len(w) > 0 /\ Len(t) > Len(u)
    BY <1>3
  <2>2. s = <<>> \/ s[1] = n
    BY <1>1, <2>1, CellRead
  <2>3. Len(s) <= n
    <3>1. Len(s \o w) = Len(s) + Len(w) /\ Len(s) \in Nat /\ Len(w) \in Nat
      BY JoinType
    <3>2. Len(s \o w) = n + 1
      BY <1>1, <2>1
    <3> QED
      BY <1>1, <2>1, <3>1, <3>2
  <2>4. ReadSized(s, found) = Refused
    BY <2>2, <2>3 DEF ReadSized
  <2> QED
    BY <2>1, <2>4
<1> HIDE DEF e
<1>4. s \o t = e \o u
  BY DEF e
<1> QED
  BY <1>1, <1>2, <1>3, <1>4, Splits, ZenonT(30)

\* JSON with its length in front.
LEMMA JsonRead ==
  ASSUME NEW v \in JsonValues, NEW s \in Octets, NEW t \in Octets, NEW u \in Octets, s \o t = (<<v>> \o Json(v)) \o u
  PROVE  \/ \E r \in Octets : r \o t = u /\ ReadLengthPrefixedJson(s) = Got(v, r)
         \/ ReadLengthPrefixedJson(s) = Refused /\ Len(t) > Len(u)
<1> DEFINE b == Json(v)
           p == ReadSized(s, <<>>)
<1>1. b \in Octets /\ Len(b) = v
  <2>1. v \in Nat
    BY WireAssumption
  <2> QED
    BY <2>1, JsonIs
<1>2. BytesToStruct(b) = Got(v, <<>>)
  BY <1>1 DEF BytesToStruct
<1>3. \/ \E r \in Octets : r \o t = u /\ p = Got(Append(<<>>, b), r)
      \/ p = Refused /\ Len(t) > Len(u)
  <2>1. s \o t = (<<Len(b)>> \o b) \o u
    BY <1>1
  <2>2. b \in Octets
    BY <1>1
  <2> HIDE DEF b, p
  <2>3. \A found : \/ \E r \in Octets : r \o t = u /\ ReadSized(s, found) = Got(Append(found, b), r)
                   \/ ReadSized(s, found) = Refused /\ Len(t) > Len(u)
    BY <2>1, <2>2, SizedRead
  <2> QED
    BY <2>3 DEF p
<1>4. ReadLengthPrefixedJson(s) =
        IF p.ok /\ BytesToStruct(p.val[1]).ok THEN Got(BytesToStruct(p.val[1]).val, p.rest) ELSE Refused
  BY DEF ReadLengthPrefixedJson
<1> HIDE DEF b, p
<1>5. ASSUME NEW r \in Octets, p = Got(Append(<<>>, b), r) PROVE ReadLengthPrefixedJson(s) = Got(v, r)
  <2>1. p.ok /\ p.val = Append(<<>>, b) /\ p.rest = r
    BY <1>5, GotIs
  <2>2. Append(<<>>, b)[1] = b
    OBVIOUS
  <2>3. BytesToStruct(p.val[1]).ok /\ BytesToStruct(p.val[1]).val = v
    BY <1>2, <2>1, <2>2, GotIs
  <2> QED
    BY <1>4, <2>1, <2>3
<1>6. p = Refused => ReadLengthPrefixedJson(s) = Refused
  BY <1>4, GotIs
<1> QED
  BY <1>3, <1>5, <1>6

\* An entry, or fewer cells than one has.
LEMMA EntryRead ==
  ASSUME NEW s \in Octets
  PROVE  /\ \A e \in Entries, r \in Octets : s = AppendEncode(e) \o r => DecodeEntry(s) = Got(e, r)
         /\ Len(s) < 5 => DecodeEntry(s) = Refused
<1>1. ASSUME NEW e \in Entries, NEW r \in Octets, s = AppendEncode(e) \o r PROVE DecodeEntry(s) = Got(e, r)
  <2> DEFINE a == AppendEncode(e)
  <2>1. a \in Octets /\ Len(a) = 5 /\ e = [post_id |-> e.post_id, feedback_type |-> e.feedback_type, salt |-> e.salt, pow |-> e.pow]
    BY EntryIs
  <2>2. a[1] = 1 /\ a[2] = e.post_id /\ a[3] = e.feedback_type /\ a[4] = e.salt /\ a[5] = e.pow
    BY DEF AppendEncode
  <2> HIDE DEF a
  <2>3. s = a \o r
    BY <1>1 DEF a
  <2>4. Len(s) = 5 + Len(r) /\ Len(r) \in Nat
    BY <2>1, <2>3, JoinType
  <2>5. \A i \in 1 .. 5 : s[i] = a[i]
    <3>1. \A i \in 1 .. Len(a) + Len(r) : s[i] = IF i <= Len(a) THEN a[i] ELSE r[i - Len(a)]
      BY <2>1, <2>3, ConcatProperties DEF Octets
    <3> QED
      BY <2>1, <2>4, <3>1
  <2>6. SubSeq(s, 6, Len(s)) = r
    <3> DEFINE c == SubSeq(s, 1, 5)
               d == SubSeq(s, 5 + 1, Len(s))
    <3>1. 5 \in 0 .. Len(s)
      BY <2>4
    <3>2. c \in Octets /\ Len(c) = 5 /\ d \in Octets /\ s = c \o d
      BY <3>1, CutAt
    <3>3. d = SubSeq(s, 6, Len(s))
      OBVIOUS
    <3> HIDE DEF c, d
    <3>4. a \o r = c \o d /\ Len(a) = Len(c)
      BY <2>1, <2>3, <3>2
    <3>5. r = d
      BY <2>1, <3>2, <3>4, SameLength
    <3> QED
      BY <3>3, <3>5
  <2>7. ~(Len(s) < 5) /\ s[1] = 1 /\ s[2] = e.post_id /\ s[3] = e.feedback_type /\ s[4] = e.salt /\ s[5] = e.pow
    BY <2>2, <2>4, <2>5
  <2>8. DecodeEntry(s) = Got([post_id |-> s[2], feedback_type |-> s[3], salt |-> s[4], pow |-> s[5]], SubSeq(s, 6, Len(s)))
    BY <2>7 DEF DecodeEntry, EntrySize
  <2>9. [post_id |-> s[2], feedback_type |-> s[3], salt |-> s[4], pow |-> s[5]] = e
    BY <2>1, <2>7
  <2> QED
    BY <2>6, <2>8, <2>9
<1>2. Len(s) < 5 => DecodeEntry(s) = Refused
  BY DEF DecodeEntry, EntrySize
<1> QED
  BY <1>1, <1>2

-----------------------------------------------------------------------------
(***************************************************************************)
(* Reading lists.                                                          *)
(***************************************************************************)
\* What is still to read, when the segments up to one have been.
LeftAt(ss, flat, j, p, u) == flat[j] \o p = FlattenSeq(ss) \o u

\* It is the next segment and what comes after that, or what follows the last.
LEMMA NextRead ==
  ASSUME NEW ss \in Segments, NEW flat, FlatRun(ss, flat), NEW j \in 1 .. Len(ss),
         NEW p \in Octets, NEW u \in Octets, LeftAt(ss, flat, j - 1, p, u)
  PROVE  \E v \in Octets : p = ss[j] \o v /\ Len(v) >= Len(u) /\ LeftAt(ss, flat, j, v, u)
<1>1. PICK w \in Octets : FlattenSeq(ss) = flat[j] \o w
  <2>1. j \in 0 .. Len(ss)
    BY FlatRunExists
  <2> QED
    BY <2>1, FlatBegins
<1> DEFINE a == flat[j - 1]
           e == ss[j]
           v == w \o u
<1>2. a \in Octets /\ e \in Octets /\ flat[j] = a \o e
  <2>1. j - 1 \in 0 .. Len(ss)
    BY FlatRunExists
  <2>2. a \in Octets /\ flat[j] = a \o e
    BY <2>1 DEF FlatRun
  <2>3. e \in Octets
    BY DEF Segments
  <2> QED
    BY <2>2, <2>3
<1>3. v \in Octets /\ Len(v) >= Len(u)
  <2>1. v \in Octets /\ Len(v) = Len(w) + Len(u) /\ Len(w) \in Nat /\ Len(u) \in Nat
    BY <1>1, JoinType
  <2> QED
    BY <2>1
<1>4. a \o e \in Octets /\ e \o v \in Octets
  BY <1>2, <1>3, JoinType
<1>5. (flat[j] \o w) \o u = flat[j] \o v
  <2>1. flat[j] \in Octets
    BY <1>2, <1>4
  <2> QED
    BY <2>1, JoinThree
<1>6. flat[j] \o v = FlattenSeq(ss) \o u
  BY <1>1, <1>5
<1>7. (a \o e) \o v = a \o (e \o v)
  <2> HIDE DEF a, e, v
  <2> QED
    BY <1>2, <1>3, JoinThree, ZenonT(30)
<1>8. a \o p = a \o (e \o v)
  BY <1>2, <1>6, <1>7 DEF LeftAt
<1>9. LeftAt(ss, flat, j, v, u)
  BY <1>6 DEF LeftAt
<1> HIDE DEF a, e, v
<1>10. p = e \o v
  BY <1>2, <1>4, <1>8, JoinCancels
<1> QED
  BY <1>3, <1>9, <1>10 DEF e

\* After the last segment, what follows is left.
LEMMA LastRead ==
  ASSUME NEW ss \in Segments, NEW flat, FlatRun(ss, flat), NEW p \in Octets, NEW u \in Octets,
         LeftAt(ss, flat, Len(ss), p, u)
  PROVE  p = u
<1>1. FlattenSeq(ss) = flat[Len(ss)] /\ FlattenSeq(ss) \in Octets
  BY FlatIs, FlatOf
<1>2. FlattenSeq(ss) \o p = FlattenSeq(ss) \o u
  BY <1>1 DEF LeftAt
<1> QED
  BY <1>1, <1>2, JoinCancels

\* Before the first, all of it is.
LEMMA FirstRead ==
  ASSUME NEW ss \in Segments, NEW flat, FlatRun(ss, flat), NEW p \in Octets, NEW u \in Octets, p = FlattenSeq(ss) \o u
  PROVE  LeftAt(ss, flat, 0, p, u)
<1>1. flat[0] = <<>> /\ <<>> \o p = p
  BY NoOctets DEF FlatRun
<1> QED
  BY <1>1 DEF LeftAt

\* The first elements of a list, and one more.
LEMMA FirstOf ==
  ASSUME NEW S, NEW x \in Seq(S)
  PROVE  /\ Len(x) \in Nat /\ SubSeq(x, 1, 0) = <<>> /\ SubSeq(x, 1, Len(x)) = x
         /\ \A j \in 1 .. Len(x) : Append(SubSeq(x, 1, j - 1), x[j]) = SubSeq(x, 1, j) /\ x[j] \in S
         /\ \A j \in 0 .. Len(x) : SubSeq(x, 1, j) \in Seq(S) /\ IsPrefix(SubSeq(x, 1, j), x)
<1>1. Len(x) \in Nat /\ \A i \in 1 .. Len(x) : x[i] \in S
  OBVIOUS
<1>2. SubSeq(x, 1, 0) = <<>> /\ SubSeq(x, 1, Len(x)) = x
  BY SubSeqEmpty, SubSeqFull
<1>3. ASSUME NEW j \in 0 .. Len(x) PROVE SubSeq(x, 1, j) \in Seq(S) /\ IsPrefix(SubSeq(x, 1, j), x)
  <2> DEFINE y == SubSeq(x, 1, j)
  <2>1. 1 \in Int /\ j \in Int /\ \A i \in 1 .. j : x[i] \in S
    BY <1>1
  <2>2. y \in Seq(S) /\ Len(y) = IF 1 <= j THEN j - 1 + 1 ELSE 0
    BY <2>1, SubSeqProperties
  <2>3. y = SubSeq(x, 1, j)
    OBVIOUS
  <2> HIDE DEF y
  <2>4. Len(y) = j
    BY <1>1, <2>2
  <2>5. SubSeq(y, 1, Len(y)) = y
    BY <2>2, SubSeqFull
  <2>6. IsPrefix(y, x)
    BY <1>1, <2>3, <2>4, <2>5 DEF IsPrefix
  <2> QED
    BY <2>2, <2>3, <2>6
<1>4. ASSUME NEW j \in 1 .. Len(x) PROVE Append(SubSeq(x, 1, j - 1), x[j]) = SubSeq(x, 1, j)
  <2>1. 1 \in 1 .. Len(x) /\ j \in 1 .. Len(x) /\ j - 1 \in 0 .. Len(x)
    BY <1>1
  <2>2. SubSeq(x, 1, j) = SubSeq(x, 1, j - 1) \o <<x[j]>>
    BY <2>1, SubSeqRecursiveSecond
  <2>3. SubSeq(x, 1, j - 1) \in Seq(S) /\ x[j] \in S
    BY <1>1, <1>3, <2>1
  <2> QED
    BY <2>2, <2>3, AppendIsConcat
<1> QED
  BY <1>1, <1>2, <1>3, <1>4

\* ReadSized returns octets.
LEMMA SizedType ==
  ASSUME NEW s \in Octets, NEW found \in Seq(Octets)
  PROVE  ReadSized(s, found) \in Results(Seq(Octets))
<1>1. CASE s = <<>> \/ Len(s) <= s[1]
  <2>1. <<>> \in Seq(Octets)
    OBVIOUS
  <2> QED
    BY <1>1, <2>1, ResultType DEF ReadSized
<1>2. CASE ~(s = <<>> \/ Len(s) <= s[1])
  <2>1. s[1] \in Nat /\ Len(s) \in Nat
    BY <1>2, LeftType
  <2>2. SubSeq(s, 2, s[1] + 1) \in Octets
    <3>1. 2 \in Nat \ {0} /\ s[1] + 1 \in Nat /\ s[1] + 1 <= Len(s)
      BY <1>2, <2>1
    <3> QED
      BY <3>1, PieceType
  <2>3. SubSeq(s, s[1] + 2, Len(s)) \in Octets
    <3>1. s[1] + 2 \in Nat \ {0} /\ Len(s) \in Nat /\ Len(s) <= Len(s)
      BY <2>1
    <3> QED
      BY <3>1, PieceType
  <2>4. Append(found, SubSeq(s, 2, s[1] + 1)) \in Seq(Octets)
    BY <2>2, AppendProperties
  <2>5. ReadSized(s, found) = Got(Append(found, SubSeq(s, 2, s[1] + 1)), SubSeq(s, s[1] + 2, Len(s)))
    BY <1>2 DEF ReadSized
  <2> QED
    BY <2>3, <2>4, <2>5, ResultType
<1> QED
  BY <1>1, <1>2

BlobsFolded(s) ==
  FoldLeft(LAMBDA r, i : IF r.ok THEN ReadSized(r.rest, r.val) ELSE r, Got(<<>>, Left(s)), [i \in 1 .. s[1] |-> i])

\* ReadBlobs is that fold, unless there is nothing to read.
LEMMA BlobsFoldedIs == \A s : ReadBlobs(s) = IF s = <<>> THEN Refused ELSE BlobsFolded(s)
BY DEF ReadBlobs, BlobsFolded

\* ReadBlobs blob by blob.
LEMMA BlobsFolds ==
  ASSUME NEW s \in Octets, s # <<>>
  PROVE  \E run : /\ run[0] = Got(<<>>, Left(s))
                  /\ \A i \in 1 .. s[1] : run[i] = (IF run[i - 1].ok THEN ReadSized(run[i - 1].rest, run[i - 1].val) ELSE run[i - 1])
                  /\ BlobsFolded(s) = run[s[1]]
<1> DEFINE n == s[1]
           op(a, i) == (IF a.ok THEN ReadSized(a.rest, a.val) ELSE a)
           eq(it) == it = [z \in SUBSET DOMAIN [i \in 1 .. s[1] |-> i] |-> IF z = {} THEN Got(<<>>, Left(s)) ELSE op(it[z \ {Max(z)}], Max(z))]
           folded == CHOOSE it : eq(it)
<1>1. BlobsFolded(s) = folded[DOMAIN [i \in 1 .. s[1] |-> i]]
  BY DEF BlobsFolded, FoldLeft, MapThenFoldSet
<1>2. n \in Nat /\ DOMAIN [i \in 1 .. s[1] |-> i] = 1 .. n
  BY LeftType
<1>3. /\ Got(<<>>, Left(s)) \in Results(Seq(Octets))
      /\ \A i \in 1 .. n, a \in Results(Seq(Octets)) : op(a, i) \in Results(Seq(Octets))
  <2>1. <<>> \in Seq(Octets) /\ Left(s) \in Octets
    BY LeftType
  <2>2. \A a \in Results(Seq(Octets)) : a.rest \in Octets /\ a.val \in Seq(Octets)
    BY DEF Results
  <2>3. \A a \in Results(Seq(Octets)) : ReadSized(a.rest, a.val) \in Results(Seq(Octets))
    BY <2>2, SizedType
  <2> QED
    BY <2>1, <2>3, ResultType
<1> DEFINE step == [p \in (1 .. n) \X Results(Seq(Octets)) |-> op(p[2], p[1])]
<1> HIDE DEF op, n
<1>4. step \in [(1 .. n) \X Results(Seq(Octets)) -> Results(Seq(Octets))] /\ \A i \in 1 .. n, a \in Results(Seq(Octets)) : step[<<i, a>>] = op(a, i)
  BY <1>3
<1> HIDE DEF step
<1>5. PICK it \in [SUBSET (1 .. n) -> Results(Seq(Octets))] : FoldedUp(it, n, Got(<<>>, Left(s)), step)
  BY <1>2, <1>3, <1>4, FoldSteps
<1>6. ASSUME NEW z \in SUBSET (1 .. n)
      PROVE  it[z] = IF z = {} THEN Got(<<>>, Left(s)) ELSE op(it[z \ {Max(z)}], Max(z))
  <2>1. it[z] = IF z = {} THEN Got(<<>>, Left(s)) ELSE step[<<Max(z), it[z \ {Max(z)}]>>]
    BY <1>5 DEF FoldedUp
  <2>2. CASE z # {}
    <3>1. Max(z) \in 1 .. n
      BY <1>2, <2>2, Stretches
    <3>2. it[z \ {Max(z)}] \in Results(Seq(Octets))
      BY <1>5
    <3>3. step[<<Max(z), it[z \ {Max(z)}]>>] = op(it[z \ {Max(z)}], Max(z))
      BY <1>4, <3>1, <3>2
    <3> QED
      BY <2>1, <2>2, <3>3
  <2> QED
    BY <2>1, <2>2
<1>7. eq(it)
  BY <1>2, <1>5, <1>6
<1>8. eq(folded)
  BY <1>7
<1> HIDE DEF folded
<1>9. \A z \in SUBSET (1 .. n) : folded[z] = IF z = {} THEN Got(<<>>, Left(s)) ELSE op(folded[z \ {Max(z)}], Max(z))
  BY <1>2, <1>8
<1> HIDE DEF eq
<1> DEFINE run == [i \in 0 .. n |-> folded[1 .. i]]
<1>10. run[0] = Got(<<>>, Left(s))
  <2>1. 1 .. 0 = {} /\ 1 .. 0 \in SUBSET (1 .. n) /\ 0 \in 0 .. n
    BY <1>2, Stretches
  <2>2. run[0] = folded[1 .. 0]
    BY <2>1
  <2> QED
    BY <1>9, <2>1, <2>2
<1>11. ASSUME NEW i \in 1 .. n PROVE run[i] = op(run[i - 1], i)
  <2>1. run[i] = folded[1 .. i] /\ run[i - 1] = folded[1 .. i - 1]
    BY <1>2
  <2>2. /\ 1 .. i \in SUBSET (1 .. n) /\ 1 .. i # {} /\ Max(1 .. i) = i
        /\ (1 .. i) \ {i} = 1 .. i - 1
    BY <1>2, Stretches
  <2>3. folded[1 .. i] = op(folded[1 .. i - 1], i)
    BY <1>9, <2>2
  <2> QED
    BY <2>1, <2>3
<1>12. BlobsFolded(s) = run[n]
  <2>1. n \in 0 .. n
    BY <1>2
  <2>2. run[n] = folded[1 .. n]
    BY <2>1
  <2> HIDE DEF run
  <2> QED
    BY <1>1, <1>2, <2>2
<1> HIDE DEF run
<1>13. \A i \in 1 .. n : run[i] = op(run[i - 1], i)
  BY <1>11
<1> QED
  BY <1>10, <1>12, <1>13 DEF op, n

\* It returns octets.
LEMMA BlobsType ==
  ASSUME NEW s \in Octets
  PROVE  ReadBlobs(s) \in Results(Seq(Octets))
<1>1. CASE s = <<>>
  <2>1. <<>> \in Seq(Octets)
    OBVIOUS
  <2> QED
    BY <1>1, <2>1, BlobsFoldedIs, ResultType
<1>2. CASE s # <<>>
  <2> DEFINE n == s[1]
  <2>1. PICK run : /\ run[0] = Got(<<>>, Left(s))
                   /\ \A i \in 1 .. n : run[i] = IF run[i - 1].ok THEN ReadSized(run[i - 1].rest, run[i - 1].val) ELSE run[i - 1]
                   /\ BlobsFolded(s) = run[n]
    BY <1>2, BlobsFolds
  <2>2. n \in Nat /\ Left(s) \in Octets
    BY <1>2, LeftType
  <2> DEFINE Good == {i \in 0 .. n : run[i] \in Results(Seq(Octets))}
  <2>3. 0 \in Good
    <3>1. <<>> \in Seq(Octets) /\ 0 \in 0 .. n
      BY <2>2
    <3> QED
      BY <2>1, <2>2, <3>1, ResultType
  <2>4. ASSUME NEW i \in 1 .. n, i - 1 \in Good PROVE i \in Good
    <3>1. run[i - 1] \in Results(Seq(Octets))
      BY <2>4
    <3>2. run[i - 1].rest \in Octets /\ run[i - 1].val \in Seq(Octets)
      BY <3>1 DEF Results
    <3>3. run[i] \in Results(Seq(Octets))
      BY <2>1, <3>1, <3>2, SizedType
    <3> QED
      BY <2>2, <3>3
  <2> HIDE DEF Good
  <2>5. n \in Good
    <3>1. n \in 0 .. n
      BY <2>2
    <3> QED
      BY <2>2, <2>3, <2>4, <3>1, UpTo
  <2> QED
    BY <1>2, <2>1, <2>5, BlobsFoldedIs DEF Good
<1> QED
  BY <1>1, <1>2

\* A list of blobs.
LEMMA BlobsRead ==
  ASSUME NEW x \in Seq(Octets), NEW s \in Octets, NEW t \in Octets, NEW u \in Octets,
         s \o t = (<<Len(x)>> \o FlattenSeq(Sized(x))) \o u
  PROVE  \/ \E r \in Octets : r \o t = u /\ ReadBlobs(s) = Got(x, r)
         \/ ReadBlobs(s).ok = FALSE /\ Len(t) > Len(u)
<1> DEFINE n == Len(x)
           ss == Sized(x)
           all == FlattenSeq(ss)
<1>1. n \in Nat /\ ss \in Segments /\ Len(ss) = n
      /\ \A i \in 1 .. n : x[i] \in Octets /\ ss[i] = <<Len(x[i])>> \o x[i]
  BY SizedIs
<1> HIDE DEF ss
<1>2. all \in Octets /\ <<n>> \in Octets /\ all \o u \in Octets /\ Len(u) \in Nat /\ Len(t) \in Nat
      /\ Len(all \o u) = Len(all) + Len(u) /\ Len(all) \in Nat
  <2>1. all \in Octets /\ <<n>> \in Octets
    BY <1>1, FlatOf, OneOctet
  <2> QED
    BY <2>1, JoinType
<1> HIDE DEF n
<1>3. s \o t = <<n>> \o (all \o u)
  <2>1. s \o t = (<<n>> \o all) \o u
    BY DEF n, ss
  <2> HIDE DEF all
  <2>2. (<<n>> \o all) \o u = <<n>> \o (all \o u)
    BY <1>2, JoinThree
  <2> QED
    BY <2>1, <2>2
<1> HIDE DEF all
<1>4. CASE s = <<>> /\ Len(t) > Len(all \o u)
  <2>1. ReadBlobs(s) = Refused
    BY <1>4, BlobsFoldedIs
  <2>2. Len(t) > Len(u)
    BY <1>2, <1>4
  <2> QED
    BY <2>1, <2>2, GotIs
<1>5. ASSUME NEW s1 \in Octets, s1 \o t = all \o u, s # <<>>, s[1] = n, Left(s) = s1
      PROVE  \/ \E r \in Octets : r \o t = u /\ ReadBlobs(s) = Got(x, r)
             \/ ReadBlobs(s).ok = FALSE /\ Len(t) > Len(u)
  <2>1. PICK run : /\ run[0] = Got(<<>>, s1)
                   /\ \A i \in 1 .. n : run[i] = IF run[i - 1].ok THEN ReadSized(run[i - 1].rest, run[i - 1].val) ELSE run[i - 1]
                   /\ BlobsFolded(s) = run[n]
    BY <1>5, BlobsFolds
  <2>2. PICK flat : FlatRun(ss, flat)
    BY <1>1, FlatRunExists
  <2> DEFINE Reads(i) == \E r \in Octets : run[i] = Got(SubSeq(x, 1, i), r) /\ LeftAt(ss, flat, i, r \o t, u)
             Stopped(i) == run[i].ok = FALSE /\ Len(t) > Len(u)
             Good == {i \in 0 .. n : Reads(i) \/ Stopped(i)}
  <2>3. 0 \in Good
    <3>1. 0 \in 0 .. n /\ s1 \o t \in Octets
      BY <1>1, JoinType
    <3>2. LeftAt(ss, flat, 0, s1 \o t, u)
      <4> DEFINE p == s1 \o t
      <4>1. p \in Octets /\ p = FlattenSeq(ss) \o u
        BY <1>5, <3>1 DEF all
      <4> HIDE DEF p
      <4>2. LeftAt(ss, flat, 0, p, u)
        BY <1>1, <2>2, <4>1, FirstRead
      <4> QED
        BY <4>2 DEF p
    <3>3. SubSeq(x, 1, 0) = <<>>
      BY FirstOf
    <3> QED
      BY <2>1, <3>1, <3>2, <3>3
  <2>4. ASSUME NEW i \in 1 .. n, i - 1 \in Good PROVE i \in Good
    <3>1. run[i] = IF run[i - 1].ok THEN ReadSized(run[i - 1].rest, run[i - 1].val) ELSE run[i - 1]
      BY <2>1
    <3>2. i \in 0 .. n
      BY <1>1
    <3>3. CASE Stopped(i - 1)
      <4>1. Stopped(i)
        BY <3>1, <3>3
      <4> QED
        BY <3>2, <4>1
    <3>4. CASE Reads(i - 1)
      <4>1. PICK rest \in Octets : run[i - 1] = Got(SubSeq(x, 1, i - 1), rest) /\ LeftAt(ss, flat, i - 1, rest \o t, u)
        BY <3>4
      <4>2. PICK v \in Octets : rest \o t = ss[i] \o v /\ Len(v) >= Len(u) /\ LeftAt(ss, flat, i, v, u)
        <5>1. i \in 1 .. Len(ss) /\ rest \o t \in Octets
          BY <1>1, JoinType
        <5> QED
          BY <1>1, <2>2, <4>1, <5>1, NextRead
      <4>3. rest \o t = (<<Len(x[i])>> \o x[i]) \o v /\ x[i] \in Octets
        BY <1>1, <4>2
      <4> DEFINE found == SubSeq(x, 1, i - 1)
      <4>4. run[i] = ReadSized(rest, found)
        BY <3>1, <4>1, GotIs
      <4>5. Append(found, x[i]) = SubSeq(x, 1, i)
        BY FirstOf DEF n
      <4> HIDE DEF found
      <4>6. \/ \E r \in Octets : r \o t = v /\ ReadSized(rest, found) = Got(Append(found, x[i]), r)
            \/ ReadSized(rest, found) = Refused /\ Len(t) > Len(v)
        <5>1. \A f : \/ \E r \in Octets : r \o t = v /\ ReadSized(rest, f) = Got(Append(f, x[i]), r)
                     \/ ReadSized(rest, f) = Refused /\ Len(t) > Len(v)
          BY <4>3, SizedRead
        <5> QED
          BY <5>1
      <4>7. CASE \E r \in Octets : r \o t = v /\ ReadSized(rest, found) = Got(Append(found, x[i]), r)
        <5>1. PICK r \in Octets : r \o t = v /\ ReadSized(rest, found) = Got(Append(found, x[i]), r)
          BY <4>7
        <5>2. run[i] = Got(SubSeq(x, 1, i), r)
          BY <4>4, <4>5, <5>1
        <5>3. LeftAt(ss, flat, i, r \o t, u)
          BY <4>2, <5>1
        <5>4. Reads(i)
          BY <5>2, <5>3
        <5> QED
          BY <3>2, <5>4
      <4>8. CASE ReadSized(rest, found) = Refused /\ Len(t) > Len(v)
        <5>1. Len(t) > Len(u)
          <6>1. Len(v) \in Nat
            BY JoinType
          <6> QED
            BY <1>2, <4>2, <4>8, <6>1
        <5>2. Stopped(i)
          BY <4>4, <4>8, <5>1, GotIs
        <5> QED
          BY <3>2, <5>2
      <4> QED
        BY <4>6, <4>7, <4>8
    <3> QED
      BY <2>4, <3>3, <3>4
  <2> HIDE DEF Good
  <2>5. n \in Good
    <3>1. n \in 0 .. n
      BY <1>1
    <3> QED
      BY <1>1, <2>3, <2>4, <3>1, UpTo
  <2>6. ReadBlobs(s) = run[n]
    BY <1>5, <2>1, BlobsFoldedIs
  <2>7. CASE Stopped(n)
    BY <2>6, <2>7
  <2>8. CASE Reads(n)
    <3>1. PICK r \in Octets : run[n] = Got(SubSeq(x, 1, n), r) /\ LeftAt(ss, flat, n, r \o t, u)
      BY <2>8
    <3>2. SubSeq(x, 1, n) = x
      BY FirstOf DEF n
    <3>3. r \o t = u
      <4>1. r \o t \in Octets /\ LeftAt(ss, flat, Len(ss), r \o t, u)
        BY <1>1, <3>1, JoinType
      <4> QED
        BY <1>1, <2>2, <4>1, LastRead
    <3> QED
      BY <2>6, <3>1, <3>2, <3>3
  <2>9. Reads(n) \/ Stopped(n)
    BY <2>5 DEF Good
  <2> QED
    BY <2>7, <2>8, <2>9
<1>6. \/ \E r \in Octets : s = <<n>> \o r /\ r \o t = all \o u /\ s # <<>> /\ s[1] = n /\ Left(s) = r
      \/ s = <<>> /\ Len(t) > Len(all \o u)
  <2> DEFINE v == all \o u
  <2>1. n \in Nat /\ v \in Octets /\ s \o t = <<n>> \o v
    BY <1>1, <1>2, <1>3
  <2> HIDE DEF v
  <2>2. \A m \in Nat, w \in Octets : s \o t = <<m>> \o w =>
          \/ \E r \in Octets : s = <<m>> \o r /\ r \o t = w /\ s # <<>> /\ s[1] = m /\ Left(s) = r
          \/ s = <<>> /\ Len(t) > Len(w)
    BY CellRead
  <2>3. \/ \E r \in Octets : s = <<n>> \o r /\ r \o t = v /\ s # <<>> /\ s[1] = n /\ Left(s) = r
        \/ s = <<>> /\ Len(t) > Len(v)
    BY <2>1, <2>2
  <2> QED
    BY <2>3 DEF v
<1> QED
  BY <1>4, <1>5, <1>6

EntryRecords == [post_id : Nat, feedback_type : Nat, salt : Nat, pow : Nat]

\* ReadEntries with what it has read so far.
ReadOn(r) ==
  LET e == DecodeEntry(r.rest)
  IN IF ~r.ok \/ r.rest = <<>> THEN r ELSE IF e.ok THEN Got(Append(r.val, e.val), e.rest) ELSE Refused

\* DecodeEntry returns an entry and octets, or refuses.
LEMMA DecodeType ==
  ASSUME NEW s \in Octets
  PROVE  DecodeEntry(s) = Refused \/ \E e \in EntryRecords, r \in Octets : DecodeEntry(s) = Got(e, r)
<1>1. CASE Len(s) < EntrySize \/ s[1] # 1
  BY <1>1 DEF DecodeEntry
<1>2. CASE ~(Len(s) < EntrySize \/ s[1] # 1)
  <2> DEFINE e == [post_id |-> s[2], feedback_type |-> s[3], salt |-> s[4], pow |-> s[5]]
             r == SubSeq(s, EntrySize + 1, Len(s))
  <2>1. Len(s) \in Nat /\ Len(s) >= 5 /\ \A i \in 1 .. Len(s) : s[i] \in Nat
    BY <1>2 DEF EntrySize, Octets
  <2>2. e \in EntryRecords
    BY <2>1 DEF EntryRecords
  <2>3. r \in Octets
    <3>1. EntrySize + 1 \in Nat \ {0} /\ Len(s) <= Len(s)
      BY <2>1 DEF EntrySize
    <3> QED
      BY <2>1, <3>1, PieceType
  <2>4. DecodeEntry(s) = Got(e, r)
    BY <1>2 DEF DecodeEntry
  <2> QED
    BY <2>2, <2>3, <2>4
<1> QED
  BY <1>1, <1>2

\* Another entry keeps the type.
LEMMA ReadOnType ==
  ASSUME NEW a \in Results(Seq(EntryRecords))
  PROVE  ReadOn(a) \in Results(Seq(EntryRecords))
<1>1. a.rest \in Octets /\ a.val \in Seq(EntryRecords)
  BY DEF Results
<1> DEFINE e == DecodeEntry(a.rest)
<1>2. e = Refused \/ \E v \in EntryRecords, r \in Octets : e = Got(v, r)
  BY <1>1, DecodeType
<1>3. ReadOn(a) = IF ~a.ok \/ a.rest = <<>> THEN a ELSE IF e.ok THEN Got(Append(a.val, e.val), e.rest) ELSE Refused
  BY DEF ReadOn
<1> HIDE DEF e
<1>4. CASE e = Refused
  <2>1. Refused \in Results(Seq(EntryRecords))
    <3>1. <<>> \in Seq(EntryRecords)
      OBVIOUS
    <3> QED
      BY <3>1, ResultType
  <2>2. ReadOn(a) = a \/ ReadOn(a) = Refused
    BY <1>3, <1>4, GotIs
  <2> QED
    BY <2>1, <2>2
<1>5. ASSUME NEW v \in EntryRecords, NEW r \in Octets, e = Got(v, r) PROVE ReadOn(a) \in Results(Seq(EntryRecords))
  <2>1. Append(a.val, v) \in Seq(EntryRecords)
    BY <1>1, AppendProperties
  <2>2. ReadOn(a) = a \/ ReadOn(a) = Got(Append(a.val, v), r)
    BY <1>3, <1>5, GotIs
  <2>3. Got(Append(a.val, v), r) \in Results(Seq(EntryRecords))
    BY <2>1, ResultType
  <2> QED
    BY <2>2, <2>3
<1> QED
  BY <1>2, <1>4, <1>5

\* ReadEntries entry by entry, in as many steps as there are cells.
LEMMA EntriesFolds ==
  ASSUME NEW s \in Octets
  PROVE  \E run : /\ run[0] = Got(<<>>, s)
                  /\ \A i \in 1 .. Len(s) : run[i] = ReadOn(run[i - 1])
                  /\ ReadEntries(s) = run[Len(s)]
<1> DEFINE n == Len(s)
           op(a, i) == ReadOn(a)
           eq(it) == it = [z \in SUBSET DOMAIN s |-> IF z = {} THEN Got(<<>>, s) ELSE op(it[z \ {Max(z)}], Max(z))]
           folded == CHOOSE it : eq(it)
<1>1. ReadEntries(s) = folded[DOMAIN s]
  BY DEF ReadEntries, ReadOn, FoldLeft, MapThenFoldSet
<1>2. n \in Nat /\ DOMAIN s = 1 .. n
  BY DEF Octets
<1>3. /\ Got(<<>>, s) \in Results(Seq(EntryRecords))
      /\ \A i \in 1 .. n, a \in Results(Seq(EntryRecords)) : op(a, i) \in Results(Seq(EntryRecords))
  <2>1. <<>> \in Seq(EntryRecords)
    OBVIOUS
  <2> QED
    BY <2>1, ResultType, ReadOnType
<1> DEFINE step == [p \in (1 .. n) \X Results(Seq(EntryRecords)) |-> op(p[2], p[1])]
<1> HIDE DEF op, n
<1>4. step \in [(1 .. n) \X Results(Seq(EntryRecords)) -> Results(Seq(EntryRecords))] /\ \A i \in 1 .. n, a \in Results(Seq(EntryRecords)) : step[<<i, a>>] = op(a, i)
  BY <1>3
<1> HIDE DEF step
<1>5. PICK it \in [SUBSET (1 .. n) -> Results(Seq(EntryRecords))] : FoldedUp(it, n, Got(<<>>, s), step)
  BY <1>2, <1>3, <1>4, FoldSteps
<1>6. ASSUME NEW z \in SUBSET (1 .. n)
      PROVE  it[z] = IF z = {} THEN Got(<<>>, s) ELSE op(it[z \ {Max(z)}], Max(z))
  <2>1. it[z] = IF z = {} THEN Got(<<>>, s) ELSE step[<<Max(z), it[z \ {Max(z)}]>>]
    BY <1>5 DEF FoldedUp
  <2>2. CASE z # {}
    <3>1. Max(z) \in 1 .. n
      BY <1>2, <2>2, Stretches
    <3>2. it[z \ {Max(z)}] \in Results(Seq(EntryRecords))
      BY <1>5
    <3>3. step[<<Max(z), it[z \ {Max(z)}]>>] = op(it[z \ {Max(z)}], Max(z))
      BY <1>4, <3>1, <3>2
    <3> QED
      BY <2>1, <2>2, <3>3
  <2> QED
    BY <2>1, <2>2
<1>7. eq(it)
  BY <1>2, <1>5, <1>6
<1>8. eq(folded)
  BY <1>7
<1> HIDE DEF folded
<1>9. \A z \in SUBSET (1 .. n) : folded[z] = IF z = {} THEN Got(<<>>, s) ELSE op(folded[z \ {Max(z)}], Max(z))
  BY <1>2, <1>8
<1> HIDE DEF eq
<1> DEFINE run == [i \in 0 .. n |-> folded[1 .. i]]
<1>10. run[0] = Got(<<>>, s)
  <2>1. 1 .. 0 = {} /\ 1 .. 0 \in SUBSET (1 .. n) /\ 0 \in 0 .. n
    BY <1>2, Stretches
  <2>2. run[0] = folded[1 .. 0]
    BY <2>1
  <2> QED
    BY <1>9, <2>1, <2>2
<1>11. ASSUME NEW i \in 1 .. n PROVE run[i] = op(run[i - 1], i)
  <2>1. run[i] = folded[1 .. i] /\ run[i - 1] = folded[1 .. i - 1]
    BY <1>2
  <2>2. /\ 1 .. i \in SUBSET (1 .. n) /\ 1 .. i # {} /\ Max(1 .. i) = i
        /\ (1 .. i) \ {i} = 1 .. i - 1
    BY <1>2, Stretches
  <2>3. folded[1 .. i] = op(folded[1 .. i - 1], i)
    BY <1>9, <2>2
  <2> QED
    BY <2>1, <2>3
<1>12. ReadEntries(s) = run[n]
  <2>1. n \in 0 .. n
    BY <1>2
  <2>2. run[n] = folded[1 .. n]
    BY <2>1
  <2> HIDE DEF run
  <2> QED
    BY <1>1, <1>2, <2>2
<1> HIDE DEF run
<1>13. \A i \in 1 .. n : run[i] = op(run[i - 1], i)
  BY <1>11
<1> QED
  BY <1>10, <1>12, <1>13 DEF op, n

\* ReadEntries returns entries.
LEMMA EntriesType ==
  ASSUME NEW s \in Octets
  PROVE  ReadEntries(s) \in Results(Seq(EntryRecords))
<1> DEFINE n == Len(s)
<1>1. n \in Nat
  BY DEF Octets
<1>2. PICK run : run[0] = Got(<<>>, s) /\ (\A i \in 1 .. n : run[i] = ReadOn(run[i - 1])) /\ ReadEntries(s) = run[n]
  BY EntriesFolds
<1> DEFINE Good == {i \in 0 .. n : run[i] \in Results(Seq(EntryRecords))}
<1>3. 0 \in Good
  <2>1. <<>> \in Seq(EntryRecords) /\ 0 \in 0 .. n
    BY <1>1
  <2> QED
    BY <1>2, <2>1, ResultType
<1>4. ASSUME NEW i \in 1 .. n, i - 1 \in Good PROVE i \in Good
  <2>1. run[i] \in Results(Seq(EntryRecords)) /\ i \in 0 .. n
    BY <1>1, <1>2, <1>4, ReadOnType
  <2> QED
    BY <2>1
<1> HIDE DEF Good
<1>5. n \in Good
  <2>1. n \in 0 .. n
    BY <1>1
  <2> QED
    BY <1>1, <1>3, <1>4, <2>1, UpTo
<1> QED
  BY <1>2, <1>5 DEF Good

\* A list of entries that ends the payload, or the beginning of it: the entries that are whole.
LEMMA EntriesRead ==
  ASSUME NEW x \in Seq(Entries), NEW s \in Octets, NEW t \in Octets, s \o t = FlattenSeq(Coded(x))
  PROVE  LET r == ReadEntries(s)
         IN /\ r.ok => IsPrefix(r.val, x)
            /\ t = <<>> => r.ok /\ r.val = x
<1> DEFINE n == Len(x)
           k == Len(s)
           ss == Coded(x)
<1>1. /\ n \in Nat /\ k \in Nat /\ ss \in Segments /\ Len(ss) = n
      /\ \A i \in 1 .. n : x[i] \in Entries /\ ss[i] = AppendEncode(x[i]) /\ ss[i] \in Octets /\ Len(ss[i]) = 5
  <2>1. \A i \in 1 .. n : AppendEncode(x[i]) \in Octets /\ Len(AppendEncode(x[i])) = 5
    BY CodedIs, EntryIs
  <2>2. k \in Nat
    BY JoinType
  <2> QED
    BY <2>1, <2>2, CodedIs
<1>2. PICK run : run[0] = Got(<<>>, s) /\ (\A i \in 1 .. k : run[i] = ReadOn(run[i - 1])) /\ ReadEntries(s) = run[k]
  BY EntriesFolds
<1>3. s \o t = FlattenSeq(ss)
  OBVIOUS
<1> HIDE DEF ss, n, k
<1>4. PICK flat : FlatRun(ss, flat)
  BY <1>1, FlatRunExists
<1> DEFINE Reads(j, m) == \E rest \in Octets : /\ run[j] = Got(SubSeq(x, 1, m), rest)
                                               /\ LeftAt(ss, flat, m, rest \o t, <<>>)
                                               /\ Len(rest) + m <= k
                                               /\ m = j \/ rest = <<>>
           Stopped(j) == run[j].ok = FALSE /\ t # <<>>
           Good == {j \in 0 .. k : Stopped(j) \/ \E m \in 0 .. n : Reads(j, m)}
<1>5. 0 \in Good
  <2>1. 0 \in 0 .. k /\ 0 \in 0 .. n /\ s \o t \in Octets /\ <<>> \in Octets
    <3>1. s \o t \in Octets
      BY JoinType
    <3>2. <<>> \in Octets
      BY NoOctets
    <3> QED
      BY <1>1, <3>1, <3>2
  <2>5. Len(s) = k
    BY DEF k
  <2>6. Len(s) + 0 <= k
    BY <1>1, <2>5
  <2>2. LeftAt(ss, flat, 0, s \o t, <<>>)
    <3> DEFINE p == s \o t
    <3>1. p \in Octets /\ p = FlattenSeq(ss) \o <<>> /\ <<>> \in Octets
      BY <1>3, <2>1, NoOctets
    <3> HIDE DEF p
    <3>2. LeftAt(ss, flat, 0, p, <<>>)
      BY <1>1, <1>4, <3>1, FirstRead
    <3> QED
      BY <3>2 DEF p
  <2>3. SubSeq(x, 1, 0) = <<>>
    BY FirstOf
  <2>4. Reads(0, 0)
    BY <1>2, <2>1, <2>2, <2>3, <2>6
  <2> QED
    BY <2>1, <2>4
<1>6. ASSUME NEW j \in 1 .. k, j - 1 \in Good PROVE j \in Good
  <2>1. run[j] = ReadOn(run[j - 1]) /\ j \in 0 .. k
    BY <1>1, <1>2
  <2>2. CASE Stopped(j - 1)
    <3>1. run[j] = run[j - 1]
      BY <2>1, <2>2 DEF ReadOn
    <3>2. Stopped(j)
      BY <2>2, <3>1
    <3> QED
      BY <2>1, <3>2
  <2>3. ASSUME NEW m \in 0 .. n, Reads(j - 1, m) PROVE j \in Good
    <3>1. PICK rest \in Octets : /\ run[j - 1] = Got(SubSeq(x, 1, m), rest)
                                 /\ LeftAt(ss, flat, m, rest \o t, <<>>)
                                 /\ Len(rest) + m <= k
                                 /\ m = j - 1 \/ rest = <<>>
      BY <2>3
    <3> DEFINE found == SubSeq(x, 1, m)
               e == DecodeEntry(rest)
    <3>2. run[j] = IF rest = <<>> THEN run[j - 1] ELSE IF e.ok THEN Got(Append(found, e.val), e.rest) ELSE Refused
      BY <2>1, <3>1, GotIs DEF ReadOn
    <3>3. CASE rest = <<>>
      <4>1. Reads(j, m)
        BY <3>1, <3>2, <3>3
      <4> QED
        BY <2>1, <4>1
    <3>4. CASE rest # <<>>
      <4>1. m = j - 1 /\ rest \o t \in Octets /\ <<>> \in Octets /\ Len(rest) \in Nat /\ Len(rest) # 0
        <5>1. Len(rest) # 0
          BY <3>4, EmptySeq DEF Octets
        <5> QED
          BY <3>1, <3>4, <5>1, JoinType, NoOctets
      <4>2. m # n
        <5>1. CASE m = n
          <6>1. LeftAt(ss, flat, Len(ss), rest \o t, <<>>)
            BY <1>1, <3>1, <5>1
          <6>2. rest \o t = <<>>
            BY <1>1, <1>4, <4>1, <6>1, LastRead
          <6>3. Len(rest \o t) = Len(rest) + Len(t) /\ Len(t) \in Nat /\ Len(rest \o t) = 0
            BY <6>2, JoinType
          <6> QED
            BY <4>1, <6>3
        <5> QED
          BY <5>1
      <4>3. j \in 1 .. Len(ss) /\ j \in 1 .. n /\ m = j - 1 /\ j \in 0 .. n
        BY <1>1, <4>1, <4>2
      <4>4. PICK v \in Octets : rest \o t = ss[j] \o v /\ Len(v) >= Len(<<>>) /\ LeftAt(ss, flat, j, v, <<>>)
        <5>1. LeftAt(ss, flat, j - 1, rest \o t, <<>>)
          BY <3>1, <4>3
        <5> QED
          BY <1>1, <1>4, <4>1, <4>3, <5>1, NextRead
      <4>5. x[j] \in Entries /\ ss[j] = AppendEncode(x[j]) /\ ss[j] \in Octets /\ Len(ss[j]) = 5
        BY <1>1, <4>3
      <4>6. Append(found, x[j]) = SubSeq(x, 1, j)
        BY <4>3, FirstOf DEF n
      <4>7. \/ \E r \in Octets : rest = ss[j] \o r /\ r \o t = v
            \/ \E w \in Octets : ss[j] = rest \o w /\ w # <<>> /\ Len(w) > 0 /\ Len(t) > Len(v)
        BY <4>4, <4>5, Splits
      <4>8. CASE \E r \in Octets : rest = ss[j] \o r /\ r \o t = v
        <5>1. PICK r \in Octets : rest = ss[j] \o r /\ r \o t = v
          BY <4>8
        <5>2. e = Got(x[j], r)
          BY <4>5, <5>1, EntryRead
        <5>7. e.ok = TRUE /\ e.val = x[j] /\ e.rest = r
          BY <5>2, GotIs
        <5>8. run[j] = Got(Append(found, e.val), e.rest)
          BY <3>2, <3>4, <5>7
        <5>3. run[j] = Got(SubSeq(x, 1, j), r)
          BY <4>6, <5>7, <5>8
        <5>4. Len(r) + j <= k
          <6>1. Len(ss[j] \o r) = Len(ss[j]) + Len(r) /\ Len(r) \in Nat
            BY <4>5, JoinType
          <6>2. Len(rest) = 5 + Len(r)
            BY <4>5, <5>1, <6>1
          <6> QED
            BY <1>1, <3>1, <4>1, <6>1, <6>2
        <5>5. LeftAt(ss, flat, j, r \o t, <<>>)
          BY <4>4, <5>1
        <5>6. Reads(j, j)
          BY <5>3, <5>4, <5>5
        <5> QED
          BY <2>1, <4>3, <5>6
      <4>9. CASE \E w \in Octets : ss[j] = rest \o w /\ w # <<>> /\ Len(w) > 0 /\ Len(t) > Len(v)
        <5>1. PICK w \in Octets : ss[j] = rest \o w /\ Len(w) > 0 /\ Len(t) > Len(v)
          BY <4>9
        <5>2. Len(rest) < 5 /\ t # <<>>
          <6>1. 5 = Len(rest) + Len(w) /\ Len(w) \in Nat /\ Len(v) \in Nat
            BY <4>5, <5>1, JoinType
          <6>2. Len(t) # 0
            BY <5>1, <6>1
          <6> QED
            BY <4>1, <5>1, <6>1, <6>2
        <5>3. e = Refused
          BY <5>2, EntryRead
        <5>4. Stopped(j)
          BY <3>2, <3>4, <5>2, <5>3, GotIs
        <5> QED
          BY <2>1, <5>4
      <4> QED
        BY <4>7, <4>8, <4>9
    <3> QED
      BY <3>3, <3>4
  <2> QED
    BY <1>6, <2>2, <2>3
<1> HIDE DEF Good
<1>7. k \in Good
  <2>1. k \in 0 .. k
    BY <1>1
  <2> QED
    BY <1>1, <1>5, <1>6, <2>1, UpTo
<1>8. CASE Stopped(k)
  BY <1>2, <1>8
<1>9. ASSUME NEW m \in 0 .. n, Reads(k, m)
      PROVE  LET r == ReadEntries(s) IN (r.ok => IsPrefix(r.val, x)) /\ (t = <<>> => r.ok /\ r.val = x)
  <2>1. PICK rest \in Octets : /\ run[k] = Got(SubSeq(x, 1, m), rest)
                               /\ LeftAt(ss, flat, m, rest \o t, <<>>)
                               /\ Len(rest) + m <= k
                               /\ m = k \/ rest = <<>>
    BY <1>9
  <2>2. ReadEntries(s).ok = TRUE /\ ReadEntries(s).val = SubSeq(x, 1, m)
    <3>1. ReadEntries(s) = Got(SubSeq(x, 1, m), rest)
      BY <1>2, <2>1
    <3> QED
      BY <3>1, GotIs
  <2>3. IsPrefix(SubSeq(x, 1, m), x)
    BY FirstOf DEF n
  <2>4. ASSUME t = <<>> PROVE SubSeq(x, 1, m) = x
    <3>1. rest = <<>>
      <4>1. Len(rest) \in Nat
        BY JoinType
      <4>2. m = k => Len(rest) = 0
        BY <1>1, <2>1, <4>1
      <4>3. Len(rest) = 0 => rest = <<>>
        BY EmptySeq DEF Octets
      <4> QED
        BY <2>1, <4>2, <4>3
    <3>2. LeftAt(ss, flat, m, <<>>, <<>>) /\ <<>> \in Octets
      BY <2>1, <2>4, <3>1, NoOctets
    <3>3. m = n
      <4>1. CASE m # n
        <5> DEFINE j == m + 1
                   p == <<>>
        <5>1. j \in 1 .. n /\ j \in 1 .. Len(ss) /\ j - 1 = m
          BY <1>1, <4>1
        <5>2. LeftAt(ss, flat, j - 1, p, p) /\ Len(p) = 0 /\ p \in Octets
          BY <3>2, <5>1
        <5> HIDE DEF j, p
        <5>3. PICK v \in Octets : p = ss[j] \o v /\ Len(v) >= Len(p) /\ LeftAt(ss, flat, j, v, p)
          <6>1. ss \in Segments /\ FlatRun(ss, flat) /\ p \in Octets
            BY <1>1, <1>4, <5>2
          <6> QED
            BY <5>1, <5>2, <6>1, NextRead
        <5>6. ss[j] \in Octets /\ Len(ss[j]) = 5
          BY <1>1, <5>1
        <5>4. Len(ss[j] \o v) = Len(ss[j]) + Len(v) /\ Len(v) \in Nat
          BY <5>6, JoinType
        <5>5. Len(ss[j] \o v) = 0
          BY <5>2, <5>3
        <5> QED
          BY <5>4, <5>5, <5>6
      <4> QED
        BY <4>1
    <3> QED
      BY <3>3, FirstOf DEF n
  <2> QED
    BY <2>2, <2>3, <2>4
<1>10. Stopped(k) \/ \E m \in 0 .. n : Reads(k, m)
  BY <1>7 DEF Good
<1> QED
  BY <1>8, <1>9, <1>10

-----------------------------------------------------------------------------
(***************************************************************************)
(* Reading fields of every kind.                                           *)
(***************************************************************************)
\* What a field is after the wire: a header of no bytes is no header.
Meant(kind, x) == IF kind = "opt_sized" /\ x = Some(<<>>) THEN Nothing ELSE x

\* What ReadLengthPrefixedJson leaves are octets.
LEMMA JsonRest ==
  ASSUME NEW s \in Octets
  PROVE  ReadLengthPrefixedJson(s).rest \in Octets
<1> DEFINE r == ReadSized(s, <<>>)
           v == BytesToStruct(r.val[1])
<1>1. r.rest \in Octets
  <2>1. <<>> \in Seq(Octets)
    OBVIOUS
  <2>2. r \in Results(Seq(Octets))
    BY <2>1, SizedType
  <2> QED
    BY <2>2 DEF Results
<1>2. ReadLengthPrefixedJson(s) = IF r.ok /\ v.ok THEN Got(v.val, r.rest) ELSE Refused
  BY DEF ReadLengthPrefixedJson
<1> HIDE DEF r, v
<1>3. CASE r.ok /\ v.ok
  BY <1>1, <1>2, <1>3, GotIs
<1>4. CASE ~(r.ok /\ v.ok)
  BY <1>2, <1>4, GotIs, NoOctets
<1> QED
  BY <1>3, <1>4

\* What is left after a field are octets.
LEMMA RestType ==
  ASSUME NEW kind \in Delimited \cup Trailing, NEW s \in Octets
  PROVE  Read(kind, s).rest \in Octets
<1>1. <<>> \in Octets /\ Refused.rest = <<>> /\ \A v, r : Got(v, r).rest = r
  BY GotIs, NoOctets
<1>2. s # <<>> => Left(s) \in Octets
  BY LeftType
<1>3. CASE kind = "json"
  <2>1. Read(kind, s) = ReadLengthPrefixedJson(s)
    BY <1>3 DEF Read
  <2> QED
    BY <2>1, JsonRest
<1>4. CASE kind = "opt_json"
  <2> DEFINE r == ReadLengthPrefixedJson(Left(s))
  <2>1. \/ Read(kind, s) = Refused
        \/ s # <<>> /\ Read(kind, s) = Got(Nothing, Left(s))
        \/ s # <<>> /\ Read(kind, s) = Got(Some(r.val), r.rest)
    BY <1>4 DEF Read
  <2>2. s # <<>> => r.rest \in Octets
    BY <1>2, JsonRest
  <2> HIDE DEF r
  <2> QED
    BY <1>1, <1>2, <2>1, <2>2
<1>5. CASE kind \in {"blobs", "slices"}
  <2>1. Read(kind, s) = ReadBlobs(s)
    BY <1>5 DEF Read
  <2> QED
    BY <2>1, BlobsType DEF Results
<1>6. CASE kind = "opt_sized"
  <2>1. <<>> \in Seq(Octets)
    OBVIOUS
  <2>2. ReadSized(s, <<>>).rest \in Octets
    BY <2>1, SizedType DEF Results
  <2>3. \/ Read(kind, s) = Refused
        \/ s # <<>> /\ Read(kind, s) = Got(Nothing, Left(s))
        \/ Read(kind, s) = ReadSized(s, <<>>)
    BY <1>6 DEF Read
  <2> QED
    BY <1>1, <1>2, <2>2, <2>3
<1>7. CASE kind \in {"opt_tail", "tail", "some_tail", "ignored", "whole_json"}
  <2>1. Read(kind, s).rest = <<>>
    <3>1. CASE kind = "opt_tail"
      <4>1. Read(kind, s) = IF s = <<>> \/ s[1] \notin {0, 1} THEN Refused
                            ELSE Got(IF s[1] = 0 THEN Nothing ELSE Some(Left(s)), <<>>)
        BY <3>1 DEF Read
      <4>2. Read(kind, s) = Refused \/ \E v : Read(kind, s) = Got(v, <<>>)
        BY <4>1
      <4> QED
        BY <1>1, <4>2
    <3>2. CASE kind = "tail"
      <4>1. Read(kind, s) = Got(s, <<>>)
        BY <3>2 DEF Read
      <4> QED
        BY <1>1, <4>1
    <3>3. CASE kind = "some_tail"
      <4>1. Read(kind, s) = Refused \/ Read(kind, s) = Got(s, <<>>)
        BY <3>3 DEF Read
      <4> QED
        BY <1>1, <4>1
    <3>4. CASE kind = "ignored"
      <4>1. Read(kind, s) = Got(1, <<>>)
        BY <3>4 DEF Read
      <4> QED
        BY <1>1, <4>1
    <3>5. CASE kind = "whole_json"
      <4>1. Read(kind, s) = BytesToStruct(s)
        BY <3>5 DEF Read
      <4>2. Read(kind, s) = Refused \/ Read(kind, s) = Got(Len(s), <<>>)
        BY <4>1 DEF BytesToStruct
      <4> QED
        BY <1>1, <4>2
    <3> QED
      BY <1>7, <3>1, <3>2, <3>3, <3>4, <3>5
  <2> QED
    BY <1>1, <2>1
<1>8. CASE kind = "id"
  <2>1. Read(kind, s) = Refused \/ (s # <<>> /\ Read(kind, s) = Got(s[1], Left(s)))
    BY <1>8 DEF Read
  <2> QED
    BY <1>1, <1>2, <2>1
<1>9. CASE kind = "entry"
  <2>1. Read(kind, s) = DecodeEntry(s)
    BY <1>9 DEF Read
  <2>2. Read(kind, s) = Refused \/ \E e \in EntryRecords, r \in Octets : Read(kind, s) = Got(e, r)
    BY <2>1, DecodeType
  <2> QED
    BY <1>1, <2>2
<1>10. CASE kind = "entries"
  <2>1. Read(kind, s) = ReadEntries(s)
    BY <1>10 DEF Read
  <2> QED
    BY <2>1, EntriesType DEF Results
<1> QED
  BY <1>3, <1>4, <1>5, <1>6, <1>7, <1>8, <1>9, <1>10 DEF Delimited, Trailing

\* What begins with a cell, as one fact about it.
StartsWith(s, t, m, w) == s \o t = <<m>> \o w

\* That cell first, or nothing.
LEMMA CellOf ==
  ASSUME NEW s \in Octets, NEW t \in Octets, NEW m \in Nat, NEW w \in Octets, StartsWith(s, t, m, w)
  PROVE  \/ \E r \in Octets : s = <<m>> \o r /\ r \o t = w /\ s # <<>> /\ s[1] = m /\ Left(s) = r
         \/ s = <<>> /\ Len(t) > Len(w)
<1>1. \A n \in Nat, u \in Octets : s \o t = <<n>> \o u =>
        \/ \E r \in Octets : s = <<n>> \o r /\ r \o t = u /\ s # <<>> /\ s[1] = n /\ Left(s) = r
        \/ s = <<>> /\ Len(t) > Len(u)
  BY CellRead
<1> QED
  BY <1>1 DEF StartsWith

\* A field that says where it ends: read whole, what follows it left, or refused.
ReadsOne(kind, x, s, t, u) ==
  \/ \E r \in Octets : r \o t = u /\ Read(kind, s) = Got(Meant(kind, x), r)
  \/ Read(kind, s).ok = FALSE /\ Len(t) > Len(u)

\* Every kind of field but the trailing ones is read as meant, and what follows it is left.
LEMMA DelimitedRead ==
  ASSUME NEW kind \in Delimited, NEW x \in Domain(kind), NEW s \in Octets, NEW t \in Octets, NEW u \in Octets,
         s \o t = EncodedAs(kind, x) \o u
  PROVE  ReadsOne(kind, x, s, t, u)
<1>1. Refused.ok = FALSE /\ \A v, r : Got(v, r).ok = TRUE /\ Got(v, r).val = v /\ Got(v, r).rest = r
  BY GotIs
<1>2. kind \in Delimited \cup Trailing
  OBVIOUS
<1>3. CASE kind = "json"
  <2>1. x \in JsonValues /\ EncodedAs(kind, x) = <<x>> \o Json(x) /\ Meant(kind, x) = x /\ Read(kind, s) = ReadLengthPrefixedJson(s)
    BY <1>2, <1>3, DomainIs DEF EncodedAs, Meant, Read
  <2>2. s \o t = (<<x>> \o Json(x)) \o u
    BY <2>1
  <2>3. \/ \E r \in Octets : r \o t = u /\ ReadLengthPrefixedJson(s) = Got(x, r)
        \/ ReadLengthPrefixedJson(s) = Refused /\ Len(t) > Len(u)
    BY <2>1, <2>2, JsonRead
  <2> QED
    BY <1>1, <2>1, <2>3 DEF ReadsOne
<1>4. CASE kind = "opt_json"
  <2>1. Meant(kind, x) = x
    BY <1>4 DEF Meant
  <2>2. Read(kind, s) = IF s = <<>> \/ s[1] \notin {0, 1} THEN Refused
                        ELSE IF s[1] = 0 THEN Got(Nothing, Left(s))
                        ELSE IF ReadLengthPrefixedJson(Left(s)).ok
                             THEN Got(Some(ReadLengthPrefixedJson(Left(s)).val), ReadLengthPrefixedJson(Left(s)).rest)
                             ELSE Refused
    BY <1>4 DEF Read
  <2>3. CASE x = Nothing
    <3>1. s \o t = <<0>> \o u
      <4>1. EncodedAs(kind, x) = <<0>>
        BY <1>4, <2>3 DEF EncodedAs
      <4> QED
        BY <4>1
    <3>2. \/ \E r \in Octets : s = <<0>> \o r /\ r \o t = u /\ s # <<>> /\ s[1] = 0 /\ Left(s) = r
          \/ s = <<>> /\ Len(t) > Len(u)
      <4>1. StartsWith(s, t, 0, u) /\ 0 \in Nat
        BY <3>1 DEF StartsWith
      <4> QED
        BY <4>1, CellOf, ZenonT(30)
    <3>3. ASSUME NEW r \in Octets, r \o t = u, s # <<>>, s[1] = 0, Left(s) = r PROVE ReadsOne(kind, x, s, t, u)
      <4>1. Read(kind, s) = Got(x, r)
        BY <2>2, <2>3, <3>3
      <4> QED
        BY <2>1, <3>3, <4>1 DEF ReadsOne
    <3>4. CASE s = <<>> /\ Len(t) > Len(u)
      BY <1>1, <2>2, <3>4 DEF ReadsOne
    <3> QED
      BY <3>2, <3>3, <3>4
  <2>4. CASE x # Nothing
    <3> DEFINE v == x[1]
               e == <<v>> \o Json(v)
    <3>1. x = <<v>> /\ v \in JsonValues /\ v \in Nat
      BY <1>2, <1>4, <2>4, DomainIs
    <3>2. e \in Octets
      BY <3>1, OneOctet, JsonIs, JoinType
    <3>3. s \o t = (<<1>> \o e) \o u
      <4>1. EncodedAs(kind, x) = <<1>> \o e
        BY <1>4, <2>4 DEF EncodedAs
      <4> QED
        BY <4>1
    <3> HIDE DEF v
    <3>4. (<<1>> \o e) \o u = <<1>> \o (e \o u)
      <4>1. <<1>> \in Octets
        BY OneOctet
      <4> HIDE DEF e
      <4> QED
        BY <3>2, <4>1, JoinThree
    <3>5. e \o u \in Octets /\ Len(e \o u) = Len(e) + Len(u) /\ Len(e) \in Nat /\ Len(u) \in Nat
      <4> HIDE DEF e
      <4> QED
        BY <3>2, JoinType
    <3> DEFINE w == e \o u
    <3>6. s \o t = <<1>> \o w
      BY <3>3, <3>4
    <3>7. w \in Octets
      BY <3>5
    <3>8. \/ \E r \in Octets : s = <<1>> \o r /\ r \o t = w /\ s # <<>> /\ s[1] = 1 /\ Left(s) = r
          \/ s = <<>> /\ Len(t) > Len(w)
      <4> HIDE DEF w
      <4>1. StartsWith(s, t, 1, w) /\ 1 \in Nat
        BY <3>6 DEF StartsWith
      <4> QED
        BY <3>7, <4>1, CellOf, ZenonT(30)
    <3>9. ASSUME NEW r \in Octets, r \o t = w, s # <<>>, s[1] = 1, Left(s) = r PROVE ReadsOne(kind, x, s, t, u)
      <4>1. r \o t = (<<v>> \o Json(v)) \o u
        BY <3>9
      <4>2. \/ \E q \in Octets : q \o t = u /\ ReadLengthPrefixedJson(r) = Got(v, q)
            \/ ReadLengthPrefixedJson(r) = Refused /\ Len(t) > Len(u)
        BY <3>1, <4>1, JsonRead
      <4>3. Read(kind, s) = IF ReadLengthPrefixedJson(r).ok
                            THEN Got(Some(ReadLengthPrefixedJson(r).val), ReadLengthPrefixedJson(r).rest) ELSE Refused
        BY <2>2, <3>9
      <4>4. ASSUME NEW q \in Octets, q \o t = u, ReadLengthPrefixedJson(r) = Got(v, q) PROVE ReadsOne(kind, x, s, t, u)
        <5>1. ReadLengthPrefixedJson(r).ok = TRUE /\ ReadLengthPrefixedJson(r).val = v /\ ReadLengthPrefixedJson(r).rest = q
          BY <1>1, <4>4
        <5>2. Read(kind, s) = Got(Some(v), q)
          BY <4>3, <5>1
        <5>3. Some(v) = x
          BY <3>1 DEF Some
        <5> QED
          BY <2>1, <4>4, <5>2, <5>3 DEF ReadsOne
      <4>5. CASE ReadLengthPrefixedJson(r) = Refused /\ Len(t) > Len(u)
        BY <1>1, <4>3, <4>5 DEF ReadsOne
      <4> QED
        BY <4>2, <4>4, <4>5
    <3>10. CASE s = <<>> /\ Len(t) > Len(w)
      <4>1. Len(t) \in Nat
        BY JoinType
      <4>2. Len(t) > Len(u)
        BY <3>5, <3>10, <4>1
      <4> QED
        BY <1>1, <2>2, <3>10, <4>2 DEF ReadsOne
    <3> QED
      BY <3>8, <3>9, <3>10
  <2> QED
    BY <2>3, <2>4
<1>5. CASE kind \in {"blobs", "slices"}
  <2>1. x \in Seq(Octets) /\ EncodedAs(kind, x) = <<Len(x)>> \o FlattenSeq(Sized(x)) /\ Meant(kind, x) = x /\ Read(kind, s) = ReadBlobs(s)
    BY <1>2, <1>5, DomainIs DEF EncodedAs, Meant, Read
  <2>2. s \o t = (<<Len(x)>> \o FlattenSeq(Sized(x))) \o u
    BY <2>1
  <2>3. \/ \E r \in Octets : r \o t = u /\ ReadBlobs(s) = Got(x, r)
        \/ ReadBlobs(s).ok = FALSE /\ Len(t) > Len(u)
    BY <2>1, <2>2, BlobsRead
  <2> QED
    BY <2>1, <2>3 DEF ReadsOne
<1>6. CASE kind = "opt_sized"
  <2>1. Read(kind, s) = IF s = <<>> THEN Refused ELSE IF s[1] = 0 THEN Got(Nothing, Left(s)) ELSE ReadSized(s, <<>>)
    BY <1>6 DEF Read
  <2>2. CASE x = Nothing \/ x = Some(<<>>)
    <3>1. s \o t = <<0>> \o u
      <4>1. EncodedAs(kind, x) = <<0>>
        <5>1. CASE x = Nothing
          BY <1>6, <5>1 DEF EncodedAs
        <5>2. CASE x = Some(<<>>)
          <6>1. x # Nothing /\ x[1] = <<>> /\ Len(x[1]) = 0
            BY <5>2 DEF Some, Nothing
          <6>2. EncodedAs(kind, x) = <<0>> \o <<>>
            BY <1>6, <6>1 DEF EncodedAs
          <6> QED
            BY <6>2, OneOctet, NoOctets
        <5> QED
          BY <2>2, <5>1, <5>2
      <4> QED
        BY <4>1
    <3>2. \/ \E r \in Octets : s = <<0>> \o r /\ r \o t = u /\ s # <<>> /\ s[1] = 0 /\ Left(s) = r
          \/ s = <<>> /\ Len(t) > Len(u)
      <4>1. StartsWith(s, t, 0, u) /\ 0 \in Nat
        BY <3>1 DEF StartsWith
      <4> QED
        BY <4>1, CellOf, ZenonT(30)
    <3>3. Meant(kind, x) = Nothing
      BY <1>6, <2>2 DEF Meant
    <3>4. ASSUME NEW r \in Octets, r \o t = u, s # <<>>, s[1] = 0, Left(s) = r PROVE ReadsOne(kind, x, s, t, u)
      <4>1. Read(kind, s) = Got(Nothing, r)
        BY <2>1, <3>4
      <4> QED
        BY <3>3, <3>4, <4>1 DEF ReadsOne
    <3>5. CASE s = <<>> /\ Len(t) > Len(u)
      BY <1>1, <2>1, <3>5 DEF ReadsOne
    <3> QED
      BY <3>2, <3>4, <3>5
  <2>3. CASE x # Nothing /\ x # Some(<<>>)
    <3> DEFINE b == x[1]
               n == Len(b)
               w == b \o u
    <3>1. x = <<b>> /\ b \in Octets
      BY <1>2, <1>6, <2>3, DomainIs
    <3>2. b # <<>>
      BY <2>3, <3>1 DEF Some
    <3>3. s \o t = (<<Len(b)>> \o b) \o u
      <4>1. EncodedAs(kind, x) = <<Len(b)>> \o b
        BY <1>6, <2>3 DEF EncodedAs
      <4> QED
        BY <4>1
    <3>4. Meant(kind, x) = x
      BY <2>3 DEF Meant
    <3> HIDE DEF b
    <3>5. n \in Nat /\ n # 0 /\ w \in Octets /\ Len(w) = n + Len(u) /\ Len(u) \in Nat /\ <<n>> \in Octets
      <4>1. n # 0
        BY <3>1, <3>2, EmptySeq DEF Octets
      <4>2. n \in Nat /\ w \in Octets /\ Len(w) = n + Len(u) /\ Len(u) \in Nat
        BY <3>1, JoinType
      <4>3. <<n>> \in Octets
        BY <4>2, OneOctet
      <4> QED
        BY <4>1, <4>2, <4>3
    <3>6. s \o t = <<n>> \o w
      <4>1. (<<n>> \o b) \o u = <<n>> \o (b \o u)
        BY <3>1, <3>5, JoinThree, SMTT(30)
      <4> QED
        BY <3>3, <4>1
    <3>7. \/ \E q \in Octets : q \o t = u /\ ReadSized(s, <<>>) = Got(Append(<<>>, b), q)
          \/ ReadSized(s, <<>>) = Refused /\ Len(t) > Len(u)
      <4>1. \A found : \/ \E q \in Octets : q \o t = u /\ ReadSized(s, found) = Got(Append(found, b), q)
                       \/ ReadSized(s, found) = Refused /\ Len(t) > Len(u)
        BY <3>1, <3>3, SizedRead
      <4> QED
        BY <4>1
    <3>8. \/ \E r \in Octets : s = <<n>> \o r /\ r \o t = w /\ s # <<>> /\ s[1] = n /\ Left(s) = r
          \/ s = <<>> /\ Len(t) > Len(w)
      <4> HIDE DEF n, w
      <4>1. StartsWith(s, t, n, w) /\ n \in Nat
        BY <3>5, <3>6 DEF StartsWith
      <4> QED
        BY <3>5, <4>1, CellOf, ZenonT(30)
    <3>9. CASE s # <<>> /\ s[1] = n
      <4>1. Read(kind, s) = ReadSized(s, <<>>)
        BY <2>1, <3>5, <3>9
      <4>2. Append(<<>>, b) = x
        BY <3>1
      <4> HIDE DEF n, w
      <4> QED
        BY <1>1, <3>4, <3>7, <4>1, <4>2 DEF ReadsOne
    <3>10. CASE s = <<>> /\ Len(t) > Len(w)
      <4>1. Len(t) \in Nat
        BY JoinType
      <4>2. Len(t) > Len(u)
        BY <3>5, <3>10, <4>1
      <4> QED
        BY <1>1, <2>1, <3>10, <4>2 DEF ReadsOne
    <3> QED
      BY <3>8, <3>9, <3>10
  <2> QED
    BY <2>2, <2>3
<1>7. CASE kind = "id"
  <2>1. x \in Nat /\ EncodedAs(kind, x) = <<x>> /\ Meant(kind, x) = x /\ Read(kind, s) = IF s = <<>> THEN Refused ELSE Got(s[1], Left(s))
    BY <1>2, <1>7, DomainIs DEF EncodedAs, Meant, Read
  <2>2. s \o t = <<x>> \o u
    BY <2>1
  <2>3. \/ \E r \in Octets : s = <<x>> \o r /\ r \o t = u /\ s # <<>> /\ s[1] = x /\ Left(s) = r
        \/ s = <<>> /\ Len(t) > Len(u)
    <3>1. StartsWith(s, t, x, u) /\ x \in Nat
      BY <2>1, <2>2 DEF StartsWith
    <3> QED
      BY <3>1, CellOf
  <2> QED
    BY <1>1, <2>1, <2>3 DEF ReadsOne
<1>8. CASE kind = "entry"
  <2> DEFINE e == AppendEncode(x)
  <2>1. x \in Entries /\ EncodedAs(kind, x) = e /\ Meant(kind, x) = x /\ Read(kind, s) = DecodeEntry(s)
    BY <1>2, <1>8, DomainIs DEF EncodedAs, Meant, Read
  <2>2. e \in Octets /\ Len(e) = 5
    BY <2>1, EntryIs
  <2>3. s \o t = e \o u
    BY <2>1
  <2> HIDE DEF e
  <2>4. \/ \E r \in Octets : s = e \o r /\ r \o t = u
        \/ \E w \in Octets : e = s \o w /\ w # <<>> /\ Len(w) > 0 /\ Len(t) > Len(u)
    BY <2>2, <2>3, Splits
  <2>5. ASSUME NEW r \in Octets, s = e \o r, r \o t = u PROVE ReadsOne(kind, x, s, t, u)
    <3>1. DecodeEntry(s) = Got(x, r)
      BY <2>1, <2>5, EntryRead DEF e
    <3> QED
      BY <2>1, <2>5, <3>1 DEF ReadsOne
  <2>6. ASSUME NEW w \in Octets, e = s \o w, Len(w) > 0, Len(t) > Len(u) PROVE ReadsOne(kind, x, s, t, u)
    <3>1. Len(s \o w) = Len(s) + Len(w) /\ Len(s) \in Nat /\ Len(w) \in Nat
      BY JoinType
    <3>2. Len(s) < 5
      BY <2>2, <2>6, <3>1
    <3>3. DecodeEntry(s) = Refused
      BY <3>2, EntryRead
    <3> QED
      BY <1>1, <2>1, <2>6, <3>3 DEF ReadsOne
  <2> QED
    BY <2>4, <2>5, <2>6
<1> QED
  BY <1>3, <1>4, <1>5, <1>6, <1>7, <1>8 DEF Delimited

\* What comes first is a prefix.
LEMMA PrefixOf ==
  ASSUME NEW s \in Octets, NEW t \in Octets
  PROVE  IsPrefix(s, s \o t)
<1> DEFINE z == s \o t
           k == Len(s)
           a == SubSeq(z, 1, k)
           b == SubSeq(z, k + 1, Len(z))
<1>1. z \in Octets /\ k \in 0 .. Len(z)
  BY JoinType
<1>2. s \o t = z
  OBVIOUS
<1> HIDE DEF z
<1>3. a \in Octets /\ b \in Octets /\ Len(a) = k /\ z = a \o b
  BY <1>1, CutAt
<1>4. s = a
  <2>1. s \o t = a \o b /\ Len(s) = Len(a)
    BY <1>2, <1>3
  <2> HIDE DEF a, b
  <2> QED
    BY <1>3, <2>1, SameLength
<1>5. IsPrefix(a, z)
  <2>1. z \in Seq(Nat)
    BY <1>1 DEF Octets
  <2> QED
    BY <1>1, <2>1, FirstOf
<1> HIDE DEF a
<1> QED
  BY <1>4, <1>5 DEF z

\* The last field: what was meant when all of it is there, refused or shorter when not.
ReadsLast(kind, x, s, t) ==
  LET r == Read(kind, s)
      refused == kind = "some_tail" /\ x = <<>>
  IN /\ t = <<>> /\ ~refused => r.ok = TRUE /\ r.val = Meant(kind, x)
     /\ t = <<>> /\ refused => r.ok = FALSE
     /\ t # <<>> /\ r.ok => Shorter(kind, r.val, Meant(kind, x))

\* The fields that take all there is.
LEMMA TrailingRead ==
  ASSUME NEW kind \in Trailing, NEW x \in Domain(kind), NEW s \in Octets, NEW t \in Octets,
         s \o t = EncodedAs(kind, x)
  PROVE  ReadsLast(kind, x, s, t)
<1>1. Refused.ok = FALSE /\ \A v, r : Got(v, r).ok = TRUE /\ Got(v, r).val = v /\ Got(v, r).rest = r
  BY GotIs
<1>2. kind \in Delimited \cup Trailing
  OBVIOUS
<1>3. Meant(kind, x) = x
  BY DEF Trailing, Meant
<1>4. t = <<>> => s = EncodedAs(kind, x)
  BY NoOctets
<1>5. CASE kind \in {"tail", "some_tail"}
  <2>1. EncodedAs(kind, x) = x
    BY <1>5 DEF EncodedAs
  <2>2. IsPrefix(s, x)
    <3>1. IsPrefix(s, s \o t)
      BY PrefixOf
    <3> QED
      BY <2>1, <3>1
  <2>3. Read(kind, s) = IF kind = "some_tail" /\ s = <<>> THEN Refused ELSE Got(s, <<>>)
    BY <1>5 DEF Read
  <2>4. Shorter(kind, s, x)
    BY <1>5, <2>2 DEF Shorter
  <2>5. CASE kind = "some_tail" /\ s = <<>>
    BY <1>1, <1>4, <2>1, <2>3, <2>5 DEF ReadsLast
  <2>6. CASE ~(kind = "some_tail" /\ s = <<>>)
    <3>1. Read(kind, s).ok = TRUE /\ Read(kind, s).val = s
      BY <1>1, <2>3, <2>6
    <3> QED
      BY <1>3, <1>4, <2>1, <2>4, <2>6, <3>1 DEF ReadsLast
  <2> QED
    BY <2>5, <2>6
<1>6. CASE kind = "whole_json"
  <2>1. x \in Nat \ {0} /\ x \in JsonValues /\ EncodedAs(kind, x) = Json(x) /\ Read(kind, s) = BytesToStruct(s)
    BY <1>2, <1>6, DomainIs DEF EncodedAs, Read
  <2>2. Json(x) \in Octets /\ Len(Json(x)) = x /\ \A i \in 1 .. x : Json(x)[i] = x
    BY <2>1, JsonIs
  <2>3. Len(s) \in Nat /\ Len(t) \in Nat /\ Len(s \o t) = Len(s) + Len(t)
    BY JoinType
  <2>4. ASSUME t = <<>> PROVE Read(kind, s).ok = TRUE /\ Read(kind, s).val = x
    <3>1. s = Json(x) /\ Len(s) = x
      BY <1>4, <2>1, <2>2, <2>4
    <3>2. BytesToStruct(s) = Got(x, <<>>)
      BY <2>1, <3>1 DEF BytesToStruct
    <3> QED
      BY <1>1, <2>1, <3>2
  <2>5. ASSUME Read(kind, s).ok PROVE Read(kind, s).val = x
    <3>1. Len(s) \in JsonValues /\ s = Json(Len(s)) /\ BytesToStruct(s) = Got(Len(s), <<>>)
      BY <1>1, <2>1, <2>5 DEF BytesToStruct
    <3>2. Len(s) \in Nat \ {0}
      BY <3>1, WireAssumption
    <3>3. \A v \in Nat : v # 0 => Json(v)[1] = v
      BY DEF Json
    <3>4. s[1] = Len(s)
      BY <3>1, <3>2, <3>3
    <3>5. (s \o t)[1] = s[1]
      BY <3>2, ConcatProperties DEF Octets
    <3>6. (s \o t)[1] = x
      BY <2>1, <3>3
    <3> QED
      BY <1>1, <2>1, <3>1, <3>4, <3>5, <3>6
  <2>6. Shorter(kind, x, x)
    BY <1>6 DEF Shorter
  <2> QED
    BY <1>3, <1>6, <2>4, <2>5, <2>6 DEF ReadsLast
<1>7. CASE kind = "ignored"
  <2>1. Read(kind, s) = Got(1, <<>>) /\ x = 1
    BY <1>2, <1>7, DomainIs DEF Read
  <2>2. Shorter(kind, x, x)
    BY <1>7 DEF Shorter
  <2>3. Read(kind, s).ok = TRUE /\ Read(kind, s).val = x
    BY <1>1, <2>1
  <2> QED
    BY <1>3, <1>7, <2>2, <2>3 DEF ReadsLast
<1>8. CASE kind = "entries"
  <2>1. x \in Seq(Entries) /\ EncodedAs(kind, x) = FlattenSeq(Coded(x)) /\ Read(kind, s) = ReadEntries(s)
    BY <1>2, <1>8, DomainIs DEF EncodedAs, Read
  <2>2. s \o t = FlattenSeq(Coded(x))
    BY <2>1
  <2>3. /\ ReadEntries(s).ok => IsPrefix(ReadEntries(s).val, x)
        /\ t = <<>> => ReadEntries(s).ok /\ ReadEntries(s).val = x
    BY <2>1, <2>2, EntriesRead
  <2>4. ReadEntries(s).ok \in BOOLEAN
    BY EntriesType DEF Results
  <2>5. ReadEntries(s).ok => Shorter(kind, ReadEntries(s).val, x)
    BY <1>8, <2>3 DEF Shorter
  <2> QED
    BY <1>3, <1>8, <2>1, <2>3, <2>4, <2>5 DEF ReadsLast
<1>9. CASE kind = "opt_tail"
  <2>1. Read(kind, s) = IF s = <<>> \/ s[1] \notin {0, 1} THEN Refused
                        ELSE Got(IF s[1] = 0 THEN Nothing ELSE Some(Left(s)), <<>>)
    BY <1>9 DEF Read
  <2>2. CASE x = Nothing
    <3>1. StartsWith(s, t, 0, <<>>) /\ 0 \in Nat
      <4>1. EncodedAs(kind, x) = <<0>>
        BY <1>9, <2>2 DEF EncodedAs
      <4>2. <<0>> \o <<>> = <<0>>
        BY OneOctet, NoOctets
      <4> QED
        BY <4>1, <4>2 DEF StartsWith
    <3>2. \/ \E r \in Octets : s = <<0>> \o r /\ r \o t = <<>> /\ s # <<>> /\ s[1] = 0 /\ Left(s) = r
          \/ s = <<>> /\ Len(t) > Len(<<>>)
      BY <3>1, NoOctets, CellOf
    <3>3. ASSUME NEW r \in Octets, r \o t = <<>>, s # <<>>, s[1] = 0 PROVE ReadsLast(kind, x, s, t)
      <4>1. Read(kind, s) = Got(x, <<>>)
        BY <2>1, <2>2, <3>3
      <4>2. Len(r \o t) = Len(r) + Len(t) /\ Len(r) \in Nat /\ Len(t) \in Nat
        BY JoinType
      <4>3. Len(r \o t) = 0
        BY <3>3
      <4>4. t = <<>>
        BY <4>2, <4>3, EmptySeq DEF Octets
      <4>5. Read(kind, s).ok = TRUE /\ Read(kind, s).val = x
        BY <1>1, <4>1
      <4> QED
        BY <1>3, <1>9, <4>4, <4>5 DEF ReadsLast
    <3>4. CASE s = <<>> /\ Len(t) > Len(<<>>)
      <4>1. Read(kind, s).ok = FALSE
        BY <1>1, <2>1, <3>4
      <4>2. t # <<>>
        BY <3>4
      <4> QED
        BY <4>1, <4>2 DEF ReadsLast
    <3> QED
      BY <3>2, <3>3, <3>4
  <2>3. CASE x # Nothing
    <3> DEFINE b == x[1]
    <3>1. x = <<b>> /\ b \in Octets
      BY <1>2, <1>9, <2>3, DomainIs
    <3>2. StartsWith(s, t, 1, b) /\ 1 \in Nat
      <4>1. EncodedAs(kind, x) = <<1>> \o b
        BY <1>9, <2>3 DEF EncodedAs
      <4> QED
        BY <4>1 DEF StartsWith
    <3> HIDE DEF b
    <3>3. \/ \E r \in Octets : s = <<1>> \o r /\ r \o t = b /\ s # <<>> /\ s[1] = 1 /\ Left(s) = r
          \/ s = <<>> /\ Len(t) > Len(b)
      BY <3>1, <3>2, CellOf
    <3>4. ASSUME NEW r \in Octets, r \o t = b, s # <<>>, s[1] = 1, Left(s) = r PROVE ReadsLast(kind, x, s, t)
      <4>1. Read(kind, s) = Got(<<r>>, <<>>)
        BY <2>1, <3>4 DEF Some
      <4>2. Read(kind, s).ok = TRUE /\ Read(kind, s).val = <<r>>
        BY <1>1, <4>1
      <4>3. t = <<>> => <<r>> = x
        BY <3>1, <3>4, NoOctets
      <4>4. Shorter(kind, <<r>>, x)
        <5>1. IsPrefix(r, b)
          BY <3>4, PrefixOf
        <5>2. <<r>> # Nothing /\ <<r>>[1] = r /\ x # Nothing /\ x[1] = b
          BY <2>3, <3>1 DEF Nothing
        <5> QED
          BY <1>9, <5>1, <5>2 DEF Shorter
      <4> QED
        BY <1>3, <1>9, <4>2, <4>3, <4>4 DEF ReadsLast
    <3>5. CASE s = <<>> /\ Len(t) > Len(b)
      <4>1. Read(kind, s).ok = FALSE
        BY <1>1, <2>1, <3>5
      <4>2. Len(t) # 0
        <5>1. Len(b) \in Nat /\ Len(t) \in Nat
          BY <3>1, JoinType
        <5> QED
          BY <3>5, <5>1
      <4>3. t # <<>>
        BY <4>2
      <4> QED
        BY <4>1, <4>3 DEF ReadsLast
    <3> QED
      BY <3>3, <3>4, <3>5
  <2> QED
    BY <2>2, <2>3
<1> QED
  BY <1>5, <1>6, <1>7, <1>8, <1>9 DEF Trailing

\* A field that says where it ends, as the last one.
LEMMA LastField ==
  ASSUME NEW kind \in Delimited \cup Trailing, NEW x \in Domain(kind), NEW s \in Octets, NEW t \in Octets,
         s \o t = EncodedAs(kind, x)
  PROVE  ReadsLast(kind, x, s, t)
<1>1. CASE kind \in Delimited
  <2> DEFINE none == <<>>
  <2>1. none \in Octets /\ EncodedAs(kind, x) \o none = EncodedAs(kind, x) /\ Len(none) = 0
    BY EncodedType, NoOctets
  <2>2. s \o t = EncodedAs(kind, x) \o none
    BY <2>1
  <2> HIDE DEF none
  <2>3. ReadsOne(kind, x, s, t, none)
    BY <1>1, <2>1, <2>2, DelimitedRead
  <2>4. kind # "some_tail"
    BY <1>1 DEF Delimited
  <2>5. Len(t) \in Nat
    BY JoinType
  <2>6. ASSUME NEW r \in Octets, r \o t = none, Read(kind, s) = Got(Meant(kind, x), r) PROVE ReadsLast(kind, x, s, t)
    <3>1. Len(r \o t) = Len(r) + Len(t) /\ Len(r) \in Nat
      BY JoinType
    <3>2. Len(r \o t) = 0
      BY <2>1, <2>6
    <3>3. t = <<>>
      BY <2>5, <3>1, <3>2, EmptySeq DEF Octets
    <3>4. Read(kind, s).ok = TRUE /\ Read(kind, s).val = Meant(kind, x)
      BY <2>6, GotIs
    <3> QED
      BY <2>4, <3>3, <3>4 DEF ReadsLast
  <2>7. CASE Read(kind, s).ok = FALSE /\ Len(t) > Len(none)
    <3>1. t # <<>>
      BY <2>1, <2>7
    <3> QED
      BY <2>7, <3>1 DEF ReadsLast
  <2> QED
    BY <2>3, <2>6, <2>7 DEF ReadsOne
<1>2. CASE kind \in Trailing
  BY <1>2, TrailingRead
<1> QED
  BY <1>1, <1>2

-----------------------------------------------------------------------------
(***************************************************************************)
(* Messages read back.                                                     *)
(***************************************************************************)
Readings == {Read(kind, q).val : kind \in Delimited \cup Trailing, q \in Octets}

\* FromBytes with what it has read so far.
ReadField(r, kind) ==
  LET v == Read(kind, r.rest) IN IF r.ok /\ v.ok THEN Got(Append(r.val, v.val), v.rest) ELSE Refused

\* Another field keeps the type.
LEMMA ReadFieldType ==
  ASSUME NEW a \in Results(Seq(Readings)), NEW kind \in Delimited \cup Trailing
  PROVE  ReadField(a, kind) \in Results(Seq(Readings))
<1> DEFINE v == Read(kind, a.rest)
<1>1. a.rest \in Octets /\ a.val \in Seq(Readings)
  BY DEF Results
<1>2. v.rest \in Octets /\ v.val \in Readings
  BY <1>1, RestType DEF Readings
<1>3. ReadField(a, kind) = Got(Append(a.val, v.val), v.rest) \/ ReadField(a, kind) = Refused
  BY DEF ReadField
<1> HIDE DEF v
<1>4. Append(a.val, v.val) \in Seq(Readings)
  BY <1>1, <1>2, AppendProperties
<1>5. Got(Append(a.val, v.val), v.rest) \in Results(Seq(Readings))
  BY <1>2, <1>4, ResultType
<1>6. Refused \in Results(Seq(Readings))
  <2>1. <<>> \in Seq(Readings)
    OBVIOUS
  <2> QED
    BY <2>1, ResultType
<1> QED
  BY <1>3, <1>5, <1>6

\* FromBytes field by field.
LEMMA ReadFolds ==
  ASSUME NEW f, Format(f), NEW s \in Octets
  PROVE  \E run : /\ run[0] = Got(<<>>, s)
                  /\ \A i \in 1 .. Len(f) : run[i] = ReadField(run[i - 1], f[i])
                  /\ FromBytes(f, s) = run[Len(f)]
<1> DEFINE n == Len(f)
           op(a, i) == ReadField(a, f[i])
           eq(it) == it = [z \in SUBSET DOMAIN f |-> IF z = {} THEN Got(<<>>, s) ELSE op(it[z \ {Max(z)}], Max(z))]
           folded == CHOOSE it : eq(it)
<1>1. FromBytes(f, s) = folded[DOMAIN f]
  BY DEF FromBytes, ReadField, FoldLeft, MapThenFoldSet
<1>2. n \in Nat /\ DOMAIN f = 1 .. n
  BY DEF Format
<1>3. /\ Got(<<>>, s) \in Results(Seq(Readings))
      /\ \A i \in 1 .. n, a \in Results(Seq(Readings)) : op(a, i) \in Results(Seq(Readings))
  <2>1. <<>> \in Seq(Readings)
    OBVIOUS
  <2>2. \A i \in 1 .. n : f[i] \in Delimited \cup Trailing
    BY DEF Format
  <2> QED
    BY <2>1, <2>2, ResultType, ReadFieldType
<1> DEFINE step == [p \in (1 .. n) \X Results(Seq(Readings)) |-> op(p[2], p[1])]
<1> HIDE DEF op, n
<1>4. step \in [(1 .. n) \X Results(Seq(Readings)) -> Results(Seq(Readings))] /\ \A i \in 1 .. n, a \in Results(Seq(Readings)) : step[<<i, a>>] = op(a, i)
  BY <1>3
<1> HIDE DEF step
<1>5. PICK it \in [SUBSET (1 .. n) -> Results(Seq(Readings))] : FoldedUp(it, n, Got(<<>>, s), step)
  BY <1>2, <1>3, <1>4, FoldSteps
<1>6. ASSUME NEW z \in SUBSET (1 .. n)
      PROVE  it[z] = IF z = {} THEN Got(<<>>, s) ELSE op(it[z \ {Max(z)}], Max(z))
  <2>1. it[z] = IF z = {} THEN Got(<<>>, s) ELSE step[<<Max(z), it[z \ {Max(z)}]>>]
    BY <1>5 DEF FoldedUp
  <2>2. CASE z # {}
    <3>1. Max(z) \in 1 .. n
      BY <1>2, <2>2, Stretches
    <3>2. it[z \ {Max(z)}] \in Results(Seq(Readings))
      BY <1>5
    <3>3. step[<<Max(z), it[z \ {Max(z)}]>>] = op(it[z \ {Max(z)}], Max(z))
      BY <1>4, <3>1, <3>2
    <3> QED
      BY <2>1, <2>2, <3>3
  <2> QED
    BY <2>1, <2>2
<1>7. eq(it)
  BY <1>2, <1>5, <1>6
<1>8. eq(folded)
  BY <1>7
<1> HIDE DEF folded
<1>9. \A z \in SUBSET (1 .. n) : folded[z] = IF z = {} THEN Got(<<>>, s) ELSE op(folded[z \ {Max(z)}], Max(z))
  BY <1>2, <1>8
<1> HIDE DEF eq
<1> DEFINE run == [i \in 0 .. n |-> folded[1 .. i]]
<1>10. run[0] = Got(<<>>, s)
  <2>1. 1 .. 0 = {} /\ 1 .. 0 \in SUBSET (1 .. n) /\ 0 \in 0 .. n
    BY <1>2, Stretches
  <2>2. run[0] = folded[1 .. 0]
    BY <2>1
  <2> QED
    BY <1>9, <2>1, <2>2
<1>11. ASSUME NEW i \in 1 .. n PROVE run[i] = op(run[i - 1], i)
  <2>1. run[i] = folded[1 .. i] /\ run[i - 1] = folded[1 .. i - 1]
    BY <1>2
  <2>2. /\ 1 .. i \in SUBSET (1 .. n) /\ 1 .. i # {} /\ Max(1 .. i) = i
        /\ (1 .. i) \ {i} = 1 .. i - 1
    BY <1>2, Stretches
  <2>3. folded[1 .. i] = op(folded[1 .. i - 1], i)
    BY <1>9, <2>2
  <2> QED
    BY <2>1, <2>3
<1>12. FromBytes(f, s) = run[n]
  <2>1. n \in 0 .. n
    BY <1>2
  <2>2. run[n] = folded[1 .. n]
    BY <2>1
  <2> HIDE DEF run
  <2> QED
    BY <1>1, <1>2, <2>2
<1> HIDE DEF run
<1>13. \A i \in 1 .. n : run[i] = op(run[i - 1], i)
  BY <1>11
<1> QED
  BY <1>10, <1>12, <1>13 DEF op, n

\* A list and one more element.
LEMMA OneMore ==
  ASSUME NEW S, NEW a \in Seq(S), NEW w
  PROVE  SubSeq(Append(a, w), 1, Len(a)) = a /\ Append(a, w)[Len(a) + 1] = w
<1> DEFINE V == S \cup {w}
           c == Append(a, w)
<1>1. a \in Seq(V) /\ w \in V /\ Len(a) \in Nat
  OBVIOUS
<1>2. c \in Seq(V) /\ Len(c) = Len(a) + 1 /\ (\A i \in 1 .. Len(a) : c[i] = a[i]) /\ c[Len(a) + 1] = w
  BY <1>1, AppendProperties
<1> HIDE DEF c, V
<1>3. SubSeq(c, 1, Len(a)) = a
  <2> DEFINE d == SubSeq(c, 1, Len(a))
  <2>1. 1 \in Int /\ Len(a) \in Int /\ \A i \in 1 .. Len(a) : c[i] \in V
    BY <1>1, <1>2
  <2>2. d \in Seq(V) /\ Len(d) = (IF 1 <= Len(a) THEN Len(a) - 1 + 1 ELSE 0) /\ \A i \in 1 .. Len(a) - 1 + 1 : d[i] = c[1 + i - 1]
    BY <1>2, <2>1, SubSeqProperties
  <2>3. Len(d) = Len(a) /\ \A i \in 1 .. Len(a) : d[i] = a[i]
    BY <1>1, <1>2, <2>2
  <2> HIDE DEF d
  <2> QED
    BY <1>1, <2>2, <2>3
<1> QED
  BY <1>2, <1>3 DEF c

\* A message after the wire, field by field.
LEMMA NormalIs ==
  ASSUME NEW f, Format(f), NEW msg, Message(f, msg)
  PROVE  \E S : /\ Normal(f, msg) \in Seq(S) /\ Len(Normal(f, msg)) = Len(f)
                /\ \A i \in 1 .. Len(f) : Normal(f, msg)[i] = Meant(f[i], msg[i])
<1> DEFINE S == {Meant(f[i], msg[i]) : i \in 1 .. Len(f)}
<1>1. Len(f) \in Nat /\ DOMAIN f = 1 .. Len(f)
  BY FieldsAre
<1>2. Normal(f, msg) = [i \in 1 .. Len(f) |-> Meant(f[i], msg[i])]
  BY <1>1 DEF Normal, Meant
<1>3. \A i \in 1 .. Len(f) : Meant(f[i], msg[i]) \in S
  OBVIOUS
<1> HIDE DEF S
<1>4. [i \in 1 .. Len(f) |-> Meant(f[i], msg[i])] \in Seq(S)
  BY <1>1, <1>3
<1> DEFINE m == Normal(f, msg)
<1>5. m \in Seq(S)
  BY <1>2, <1>4
<1>6. Len(m) = Len(f) /\ \A i \in 1 .. Len(f) : m[i] = Meant(f[i], msg[i])
  BY <1>1, <1>2
<1> HIDE DEF m
<1>7. \E V : m \in Seq(V) /\ Len(m) = Len(f) /\ \A i \in 1 .. Len(f) : m[i] = Meant(f[i], msg[i])
  BY <1>5, <1>6
<1> QED
  BY <1>7 DEF m

\* A message, or the beginning of one, as it is read.
ReadsMessage(f, msg, s, t) ==
  LET r == FromBytes(f, s)
      n == Len(f)
      meant == Normal(f, msg)
      refused == \E i \in DOMAIN f : f[i] = "some_tail" /\ msg[i] = <<>>
  IN /\ t = <<>> /\ ~refused => r.ok = TRUE /\ r.val = meant
     /\ t = <<>> /\ refused => r.ok = FALSE
     /\ t # <<>> /\ r.ok => SubSeq(r.val, 1, n - 1) = SubSeq(meant, 1, n - 1) /\ Shorter(f[n], r.val[n], meant[n])

\* FromBytes gives the message back, or less of its last field, or refuses.
LEMMA ReadBack ==
  ASSUME NEW f, Format(f), NEW msg, Message(f, msg), NEW s \in Octets, NEW t \in Octets,
         s \o t = FlattenSeq(EncodedFields(f, msg))
  PROVE  ReadsMessage(f, msg, s, t)
<1> DEFINE n == Len(f)
           ss == EncodedFields(f, msg)
           meant == Normal(f, msg)
<1>1. /\ n \in Nat /\ n # 0 /\ DOMAIN f = 1 .. n /\ ss \in Segments /\ Len(ss) = n
      /\ \A i \in 1 .. n : f[i] \in Delimited \cup Trailing /\ msg[i] \in Domain(f[i]) /\ ss[i] = EncodedAs(f[i], msg[i]) /\ ss[i] \in Octets
  <2>1. n # 0
    BY DEF Format
  <2>2. /\ Len(f) \in Nat /\ DOMAIN f = 1 .. Len(f) /\ ss \in Segments /\ Len(ss) = Len(f)
        /\ \A i \in 1 .. Len(f) : f[i] \in Delimited \cup Trailing /\ msg[i] \in Domain(f[i])
        /\ \A i \in 1 .. Len(f) : ss[i] = EncodedAs(f[i], msg[i]) /\ EncodedAs(f[i], msg[i]) \in Octets
    BY FieldsAre
  <2> HIDE DEF ss
  <2> QED
    BY <2>1, <2>2
<1>2. \A i \in 1 .. n - 1 : f[i] \in Delimited
  BY DEF Format
<1>3. PICK S : meant \in Seq(S) /\ Len(meant) = n /\ \A i \in 1 .. n : meant[i] = Meant(f[i], msg[i])
  BY NormalIs
<1>4. PICK run : run[0] = Got(<<>>, s) /\ (\A i \in 1 .. n : run[i] = ReadField(run[i - 1], f[i])) /\ FromBytes(f, s) = run[n]
  BY ReadFolds
<1>5. s \o t = FlattenSeq(ss)
  OBVIOUS
<1> HIDE DEF ss, n, meant
<1>6. PICK flat : FlatRun(ss, flat)
  BY <1>1, FlatRunExists
<1> DEFINE none == <<>>
           Reads(j) == \E rest \in Octets : /\ run[j] = Got(SubSeq(meant, 1, j), rest)
                                            /\ LeftAt(ss, flat, j, rest \o t, none)
           Stopped(j) == run[j].ok = FALSE /\ t # <<>>
           Good == {j \in 0 .. n - 1 : Stopped(j) \/ Reads(j)}
<1>7. none \in Octets /\ Len(none) = 0 /\ n - 1 \in Nat
  BY <1>1, NoOctets
<1>8. \A j \in 1 .. n : Append(SubSeq(meant, 1, j - 1), meant[j]) = SubSeq(meant, 1, j)
  BY <1>3, FirstOf
<1>9. 0 \in Good
  <2> DEFINE p == s \o t
  <2>1. p \in Octets /\ p = FlattenSeq(ss) \o none
    <3>1. FlattenSeq(ss) \in Octets
      BY <1>1, FlatOf
    <3>2. FlattenSeq(ss) \o none = FlattenSeq(ss)
      BY <3>1, NoOctets
    <3> QED
      BY <1>5, <3>1, <3>2
  <2> HIDE DEF p, none
  <2>2. LeftAt(ss, flat, 0, p, none)
    BY <1>1, <1>6, <1>7, <2>1, FirstRead
  <2>3. SubSeq(meant, 1, 0) = <<>>
    BY <1>3, FirstOf
  <2>4. Reads(0)
    BY <1>4, <2>2, <2>3 DEF p
  <2>5. 0 \in 0 .. n - 1
    BY <1>7
  <2> QED
    BY <2>4, <2>5
<1> HIDE DEF none
\* What is left before a field begins with it.
<1>10. ASSUME NEW j \in 1 .. n, NEW rest \in Octets, LeftAt(ss, flat, j - 1, rest \o t, none)
       PROVE  \E v \in Octets : rest \o t = EncodedAs(f[j], msg[j]) \o v /\ LeftAt(ss, flat, j, v, none)
  <2> DEFINE p == rest \o t
  <2>1. p \in Octets /\ LeftAt(ss, flat, j - 1, p, none) /\ j \in 1 .. Len(ss)
    BY <1>1, <1>10, JoinType
  <2> HIDE DEF p
  <2>2. \E v \in Octets : p = ss[j] \o v /\ Len(v) >= Len(none) /\ LeftAt(ss, flat, j, v, none)
    BY <1>1, <1>6, <1>7, <2>1, NextRead
  <2>3. ss[j] = EncodedAs(f[j], msg[j])
    BY <1>1
  <2> QED
    BY <2>2, <2>3 DEF p
<1>11. ASSUME NEW j \in 1 .. n - 1, j - 1 \in Good PROVE j \in Good
  <2>1. run[j] = ReadField(run[j - 1], f[j]) /\ j \in 0 .. n - 1 /\ j \in 1 .. n
    BY <1>1, <1>4
  <2>2. CASE Stopped(j - 1)
    <3>1. run[j] = Refused
      BY <2>1, <2>2 DEF ReadField
    <3>2. Stopped(j)
      BY <2>2, <3>1, GotIs
    <3> QED
      BY <2>1, <3>2
  <2>3. CASE Reads(j - 1)
    <3> DEFINE a == SubSeq(meant, 1, j - 1)
    <3>1. PICK rest \in Octets : run[j - 1] = Got(a, rest) /\ LeftAt(ss, flat, j - 1, rest \o t, none)
      BY <2>3
    <3>2. PICK v \in Octets : rest \o t = EncodedAs(f[j], msg[j]) \o v /\ LeftAt(ss, flat, j, v, none)
      BY <1>10, <2>1, <3>1
    <3>3. ReadsOne(f[j], msg[j], rest, t, v)
      BY <1>1, <1>2, <2>1, <3>2, DelimitedRead
    <3> DEFINE o == Read(f[j], rest)
    <3>4. run[j] = IF o.ok THEN Got(Append(a, o.val), o.rest) ELSE Refused
      BY <2>1, <3>1, GotIs DEF ReadField
    <3>5. (\E r \in Octets : r \o t = v /\ o = Got(Meant(f[j], msg[j]), r)) \/ (o.ok = FALSE /\ Len(t) > Len(v))
      BY <3>3 DEF ReadsOne
    <3> HIDE DEF o, a
    <3>6. ASSUME NEW r \in Octets, r \o t = v, o = Got(Meant(f[j], msg[j]), r) PROVE j \in Good
      <4>1. o.ok = TRUE /\ o.val = Meant(f[j], msg[j]) /\ o.rest = r
        BY <3>6, GotIs
      <4>2. run[j] = Got(Append(a, meant[j]), r)
        BY <1>3, <2>1, <3>4, <4>1
      <4>3. run[j] = Got(SubSeq(meant, 1, j), r)
        BY <1>8, <2>1, <4>2 DEF a
      <4>4. Reads(j)
        BY <3>2, <3>6, <4>3
      <4> QED
        BY <2>1, <4>4
    <3>7. CASE o.ok = FALSE /\ Len(t) > Len(v)
      <4>1. Len(t) \in Nat /\ Len(v) \in Nat
        BY JoinType
      <4>2. Len(t) # 0
        BY <3>7, <4>1
      <4>3. t # <<>>
        BY <4>2
      <4>4. Stopped(j)
        BY <3>4, <3>7, <4>3, GotIs
      <4> QED
        BY <2>1, <4>4
    <3> QED
      BY <3>5, <3>6, <3>7
  <2> QED
    BY <1>11, <2>2, <2>3
<1>12. n - 1 \in Good
  <2>1. n - 1 \in 0 .. n - 1
    BY <1>7
  <2> DEFINE m == n - 1
  <2> HIDE DEF Good
  <2>2. m \in Nat /\ m \in 0 .. m /\ 0 \in Good /\ \A j \in 1 .. m : j - 1 \in Good => j \in Good
    BY <1>7, <1>9, <1>11
  <2> HIDE DEF m
  <2>3. m \in Good
    BY <2>2, UpTo
  <2> QED
    BY <2>3 DEF m
<1>13. n \in 1 .. n /\ run[n] = ReadField(run[n - 1], f[n])
  BY <1>1, <1>4
<1> DEFINE refused == \E i \in DOMAIN f : f[i] = "some_tail" /\ msg[i] = <<>>
<1>14. refused <=> f[n] = "some_tail" /\ msg[n] = <<>>
  <2>1. \A i \in 1 .. n : f[i] = "some_tail" => i = n
    <3>1. \A i \in 1 .. n : i = n \/ i \in 1 .. n - 1
      BY <1>1
    <3>2. "some_tail" \notin Delimited
      BY DEF Delimited
    <3> QED
      BY <1>2, <3>1, <3>2
  <2> QED
    BY <1>1, <1>13, <2>1
<1>15. CASE Stopped(n - 1)
  <2>1. FromBytes(f, s).ok = FALSE
    BY <1>4, <1>13, <1>15, GotIs DEF ReadField
  <2> QED
    BY <1>15, <2>1 DEF ReadsMessage
<1>16. CASE Reads(n - 1)
  <2> DEFINE a == SubSeq(meant, 1, n - 1)
  <2>1. PICK rest \in Octets : run[n - 1] = Got(a, rest) /\ LeftAt(ss, flat, n - 1, rest \o t, none)
    BY <1>16
  <2>2. PICK v \in Octets : rest \o t = EncodedAs(f[n], msg[n]) \o v /\ LeftAt(ss, flat, n, v, none)
    BY <1>10, <1>13, <2>1
  <2>3. v = <<>>
    <3>1. LeftAt(ss, flat, Len(ss), v, none)
      BY <1>1, <2>2
    <3> QED
      BY <1>1, <1>6, <1>7, <3>1, LastRead DEF none
  <2>4. rest \o t = EncodedAs(f[n], msg[n])
    <3>1. EncodedAs(f[n], msg[n]) \in Octets
      BY <1>1, <1>13
    <3> QED
      BY <2>2, <2>3, <3>1, NoOctets
  <2>5. ReadsLast(f[n], msg[n], rest, t)
    BY <1>1, <1>13, <2>4, LastField
  <2> DEFINE o == Read(f[n], rest)
             b == meant[n]
  <2>6. run[n] = IF o.ok THEN Got(Append(a, o.val), o.rest) ELSE Refused
    BY <1>13, <2>1, GotIs DEF ReadField
  <2>7. /\ t = <<>> /\ ~refused => o.ok = TRUE /\ o.val = b
        /\ t = <<>> /\ refused => o.ok = FALSE
        /\ t # <<>> /\ o.ok => Shorter(f[n], o.val, b)
    <3>1. b = Meant(f[n], msg[n])
      BY <1>3, <1>13
    <3> HIDE DEF refused
    <3> QED
      BY <1>14, <2>5, <3>1 DEF ReadsLast
  <2>8. a \in Seq(S) /\ Len(a) = n - 1 /\ Append(a, b) = meant
    <3>1. n - 1 \in 0 .. n /\ n \in 1 .. n
      BY <1>1
    <3>2. a \in Seq(S)
      BY <1>3, <3>1, FirstOf
    <3>3. Len(a) = n - 1
      BY <1>1, <1>3
    <3>4. SubSeq(meant, 1, n) = meant
      BY <1>3, FirstOf
    <3>5. Append(a, b) = SubSeq(meant, 1, n)
      BY <1>8, <3>1
    <3> QED
      BY <3>2, <3>3, <3>4, <3>5
  <2> HIDE DEF o, a, b, refused
  <2>9. CASE o.ok
    <3>1. FromBytes(f, s).ok = TRUE /\ FromBytes(f, s).val = Append(a, o.val)
      <4>1. FromBytes(f, s) = Got(Append(a, o.val), o.rest)
        BY <1>4, <2>6, <2>9
      <4> QED
        BY <4>1, GotIs, ZenonT(30)
    <3>2. SubSeq(Append(a, o.val), 1, n - 1) = a /\ Append(a, o.val)[n] = o.val
      <4>1. SubSeq(Append(a, o.val), 1, Len(a)) = a /\ Append(a, o.val)[Len(a) + 1] = o.val
        BY <2>8, OneMore
      <4>2. (n - 1) + 1 = n
        BY <1>1
      <4> QED
        BY <2>8, <4>1, <4>2
    <3>3. /\ t = <<>> /\ ~refused => FromBytes(f, s).ok = TRUE /\ FromBytes(f, s).val = meant
          /\ t = <<>> /\ refused => FromBytes(f, s).ok = FALSE
      BY <2>7, <2>8, <2>9, <3>1
    <3>4. t # <<>> => SubSeq(FromBytes(f, s).val, 1, n - 1) = SubSeq(meant, 1, n - 1) /\ Shorter(f[n], FromBytes(f, s).val[n], meant[n])
      BY <2>7, <2>9, <3>1, <3>2 DEF a, b
    <3> QED
      BY <3>3, <3>4 DEF ReadsMessage, n, meant, refused
  <2>10. CASE ~o.ok
    <3>1. FromBytes(f, s).ok = FALSE
      BY <1>4, <2>6, <2>10, GotIs
    <3>2. ~(t = <<>> /\ ~refused)
      BY <2>7, <2>10
    <3> QED
      BY <3>1, <3>2 DEF ReadsMessage, refused
  <2> QED
    BY <2>9, <2>10
<1> QED
  BY <1>12, <1>15, <1>16

\* The formats of payload.rs.
LEMMA FormatsShape ==
  ASSUME NEW way, NEW code \in 0 .. 17
  PROVE  Len(Kinds(way)) = 18 /\ Format(Kinds(way)[code + 1])
<1> DEFINE F == {JsonMessage, EmptyRequest, GetPostBundleResponseV1, GetPostBundleFeedbackResponseV1,
                 SubmitPostClaimV1, SubmitPostCommitV1, SubmitPostFeedbackV1, HealPostBundleClaimV1,
                 HealPostBundleCommitV1, HealPostBundleFeedbackV1, CachePostBundleV1, CachePostBundleFeedbackV1,
                 FetchUrlPreviewV1, TrendingHashtagsFetchV1}
<1>1. Len(PayloadRequestKind) = 18 /\ PayloadRequestKind[code + 1] \in F
  BY DEF PayloadRequestKind, PeerStatsV1
<1>2. Len(PayloadResponseKind) = 18 /\ PayloadResponseKind[code + 1] \in F
  BY DEF PayloadResponseKind, PeerStatsV1, FetchUrlPreviewResponseV1, TrendingHashtagsFetchResponseV1
<1>3. \A f \in F : Format(f)
  <2>1. Format(JsonMessage)
    BY DEF Format, Delimited, Trailing, JsonMessage
  <2>2. Format(EmptyRequest)
    BY DEF Format, Delimited, Trailing, EmptyRequest
  <2>3. Format(GetPostBundleResponseV1)
    BY DEF Format, Delimited, Trailing, GetPostBundleResponseV1
  <2>4. Format(GetPostBundleFeedbackResponseV1)
    BY DEF Format, Delimited, Trailing, GetPostBundleFeedbackResponseV1
  <2>5. Format(SubmitPostClaimV1)
    BY DEF Format, Delimited, Trailing, SubmitPostClaimV1
  <2>6. Format(SubmitPostCommitV1)
    BY DEF Format, Delimited, Trailing, SubmitPostCommitV1
  <2>7. Format(SubmitPostFeedbackV1)
    BY DEF Format, Delimited, Trailing, SubmitPostFeedbackV1
  <2>8. Format(HealPostBundleClaimV1)
    BY DEF Format, Delimited, Trailing, HealPostBundleClaimV1
  <2>9. Format(HealPostBundleCommitV1)
    BY DEF Format, Delimited, Trailing, HealPostBundleCommitV1
  <2>10. Format(HealPostBundleFeedbackV1)
    BY DEF Format, Delimited, Trailing, HealPostBundleFeedbackV1
  <2>11. Format(CachePostBundleV1)
    BY DEF Format, Delimited, Trailing, CachePostBundleV1
  <2>12. Format(CachePostBundleFeedbackV1)
    BY DEF Format, Delimited, Trailing, CachePostBundleFeedbackV1
  <2>13. Format(FetchUrlPreviewV1)
    BY DEF Format, Delimited, Trailing, FetchUrlPreviewV1
  <2>14. Format(TrendingHashtagsFetchV1)
    BY DEF Format, Delimited, Trailing, TrendingHashtagsFetchV1
  <2> QED
    BY <2>1, <2>2, <2>3, <2>4, <2>5, <2>6, <2>7, <2>8, <2>9, <2>10, <2>11, <2>12, <2>13, <2>14
<1> HIDE DEF F
<1> QED
  BY <1>1, <1>2, <1>3 DEF Kinds

-----------------------------------------------------------------------------
(***************************************************************************)
(* Packets.                                                                *)
(***************************************************************************)
\* Bytes that were not compressed.
LEMMA Stored ==
  ASSUME NEW s \in Octets
  PROVE  <<0>> \o s \in Octets /\ Decompress(<<0>> \o s) = Got(s, <<>>)
<1> DEFINE z == <<0>> \o s
           y == Tail(z)
<1>1. z \in Octets /\ z # <<>> /\ z[1] = 0 /\ Len(z) = Len(s) + 1 /\ Len(s) \in Nat
  BY FirstCell
<1>2. \A i \in 1 .. Len(s) : z[i + 1] = s[i]
  BY OneOctet, ConcatProperties DEF Octets
<1> HIDE DEF z
<1>3. y = s
  <2>1. y \in Seq(Nat) /\ Len(y) = Len(z) - 1 /\ \A i \in 1 .. Len(z) - 1 : y[i] = z[i + 1]
    BY <1>1, HeadTailProperties DEF Octets
  <2>2. Len(y) = Len(s) /\ \A i \in 1 .. Len(s) : y[i] = s[i]
    BY <1>1, <1>2, <2>1
  <2> HIDE DEF y
  <2> QED
    BY <2>1, <2>2 DEF Octets
<1>4. Decompress(z) = Got(y, <<>>)
  BY <1>1 DEF Decompress
<1> QED
  BY <1>1, <1>3, <1>4 DEF z

\* What the compressor makes of octets gives them back.
LEMMA Decompressed ==
  ASSUME NEW s \in Octets
  PROVE  CompressForSpeed(s) \in Octets /\ Decompress(CompressForSpeed(s)) = Got(s, <<>>)
<1> DEFINE z == <<1, Len(s), s[1]>>
<1>1. CompressForSpeed(s) = <<0>> \o s \/ (IsRun(s) /\ CompressForSpeed(s) = z)
  BY DEF CompressForSpeed, CompressLz4
<1>2. ASSUME IsRun(s) PROVE z \in Octets /\ Decompress(z) = Got(s, <<>>)
  <2>1. s # <<>> /\ Len(s) \in Nat /\ s[1] \in Nat /\ \A i \in 1 .. Len(s) : s[i] = s[1]
    <3>1. DOMAIN s = 1 .. Len(s)
      BY DEF Octets
    <3> QED
      BY <1>2, <3>1, LeftType DEF IsRun
  <2>2. z \in Octets /\ z # <<>> /\ z[1] = 1 /\ Len(z) = 3 /\ z[2] = Len(s) /\ z[3] = s[1]
    BY <2>1 DEF Octets
  <2> DEFINE y == [i \in 1 .. Len(s) |-> s[1]]
  <2>3. y = s
    <3>1. y \in Seq(Nat) /\ Len(y) = Len(s) /\ \A i \in 1 .. Len(s) : y[i] = s[i]
      BY <2>1
    <3> HIDE DEF y
    <3> QED
      BY <2>1, <3>1 DEF Octets
  <2> HIDE DEF z
  <2>4. Decompress(z) = Got(y, <<>>)
    BY <2>2 DEF Decompress
  <2> QED
    BY <2>2, <2>3, <2>4
<1> QED
  BY <1>1, <1>2, Stored

\* The cells of the first of two.
LEMMA FirstPart ==
  ASSUME NEW s \in Octets, NEW t \in Octets
  PROVE  \A i \in 1 .. Len(s) : (s \o t)[i] = s[i]
BY ConcatProperties DEF Octets

\* The payload of a packet, and the packet.
Payload(way, code, s) == IF Compresses(way, code) THEN CompressForSpeed(s) ELSE s

Header(way, code, p) == <<1, IF Compresses(way, code) THEN 1 ELSE 0, code, Len(p)>>

Packed(way, code, s) == Header(way, code, Payload(way, code, s)) \o Payload(way, code, s)

\* A packet, its header and its payload.
LEMMA PackedIs ==
  ASSUME NEW way, NEW code \in 0 .. 17, NEW s \in Octets
  PROVE  LET p == Payload(way, code, s)
             h == Header(way, code, p)
             z == Packed(way, code, s)
         IN /\ p \in Octets /\ h \in Octets /\ z \in Octets /\ Len(p) \in Nat
            /\ Len(h) = 4 /\ Len(z) = 4 + Len(p)
            /\ z[1] = 1 /\ z[2] = (IF Compresses(way, code) THEN 1 ELSE 0) /\ z[3] = code /\ z[4] = Len(p)
            /\ SubSeq(z, 5, 4 + Len(p)) = p
<1> DEFINE p == Payload(way, code, s)
           h == Header(way, code, p)
           z == Packed(way, code, s)
           f == IF Compresses(way, code) THEN 1 ELSE 0
<1>1. p \in Octets
  BY Decompressed DEF Payload
<1>2. z = h \o p
  BY DEF Packed
<1>3. h = <<1, f, code, Len(p)>> /\ f \in Nat
  BY DEF Header
<1> HIDE DEF p, h, z, f
<1>4. Len(p) \in Nat
  BY <1>1, JoinType
<1>5. h \in Octets /\ Len(h) = 4 /\ h[1] = 1 /\ h[2] = f /\ h[3] = code /\ h[4] = Len(p)
  BY <1>3, <1>4 DEF Octets
<1>6. z \in Octets /\ Len(z) = 4 + Len(p) /\ \A i \in 1 .. 4 : z[i] = h[i]
  <2>1. z \in Octets /\ Len(z) = Len(h) + Len(p)
    BY <1>1, <1>2, <1>5, JoinType
  <2>2. \A i \in 1 .. Len(h) : z[i] = h[i]
    BY <1>1, <1>2, <1>5, FirstPart
  <2> QED
    BY <1>5, <2>1, <2>2
<1>7. SubSeq(z, 5, 4 + Len(p)) = p
  <2> DEFINE none == <<>>
  <2>1. none \in Octets /\ z \o none = z
    BY <1>6, NoOctets
  <2> HIDE DEF none
  <2>2. SubSeq((h \o p) \o none, Len(h) + 1, Len(h) + Len(p)) = p
    BY <1>1, <1>5, <2>1, PartsOf, ZenonT(30)
  <2>3. (h \o p) \o none = z /\ Len(h) + 1 = 5 /\ Len(h) + Len(p) = 4 + Len(p)
    BY <1>2, <1>5, <2>1
  <2> QED
    BY <2>2, <2>3
<1> QED
  BY <1>1, <1>4, <1>5, <1>6, <1>7 DEF p, h, z, f

\* EncodePacket makes that packet.
LEMMA PacketWritten ==
  ASSUME NEW way, NEW code \in 0 .. 17, NEW g \in Gatherers
  PROVE  EncodePacket(way, code, g) \in Gatherers /\ Held(EncodePacket(way, code, g)) = Packed(way, code, Held(g))
<1> DEFINE s == Held(g)
           payload == IF Compresses(way, code) THEN PutBytes(EmptyGatherer, CompressForSpeed(ToBytes(g))) ELSE g
           p == Payload(way, code, s)
           h == Header(way, code, p)
           front == PutSlice(EmptyGatherer, h)
<1>1. s \in Octets /\ ToBytes(g) = s
  BY Gathering, GatheredBytes
<1>2. payload \in Gatherers /\ Held(payload) = p
  <2>1. CASE Compresses(way, code)
    <3> DEFINE c == CompressForSpeed(s)
    <3>1. c \in Octets /\ EmptyGatherer \in Gatherers /\ Held(EmptyGatherer) = <<>>
      BY <1>1, Decompressed, Gathering
    <3>2. payload = PutBytes(EmptyGatherer, c) /\ p = c
      BY <1>1, <2>1 DEF Payload
    <3> HIDE DEF c, payload
    <3>3. payload \in Gatherers /\ Held(payload) = <<>> \o c
      BY <3>1, <3>2, Gathering, ZenonT(30)
    <3> QED
      BY <3>1, <3>2, <3>3, NoOctets
  <2>2. CASE ~Compresses(way, code)
    BY <2>2 DEF Payload
  <2> QED
    BY <2>1, <2>2
<1> HIDE DEF payload
<1>3. ToBytes(payload) = p
  BY <1>2, GatheredBytes
<1>4. EncodePacket(way, code, g) = PutBytesGatherer(PutSlice(EmptyGatherer, <<1, IF Compresses(way, code) THEN 1 ELSE 0, code, Len(ToBytes(payload))>>), payload)
  BY DEF EncodePacket, payload
<1>5. EncodePacket(way, code, g) = PutBytesGatherer(front, payload)
  BY <1>3, <1>4 DEF Header
<1>6. h \in Octets
  BY <1>1, PackedIs
<1>7. front \in Gatherers /\ Held(front) = h
  <2> HIDE DEF h
  <2>1. front \in Gatherers /\ Held(front) = <<>> \o h
    BY <1>6, Gathering, ZenonT(30)
  <2> QED
    BY <1>6, <2>1, NoOctets
<1> HIDE DEF front
<1>8. EncodePacket(way, code, g) \in Gatherers /\ Held(EncodePacket(way, code, g)) = Held(front) \o Held(payload)
  BY <1>2, <1>5, <1>7, GatheredBytes
<1> QED
  BY <1>2, <1>7, <1>8 DEF Packed

\* A packet that fits is read as its message.
LEMMA PacketRead ==
  ASSUME NEW way, NEW code \in 0 .. 17, NEW s \in Octets, Len(Packed(way, code, s)) - 4 <= MaxBlob(way)
  PROVE  LET r == FromBytes(Kinds(way)[code + 1], s)
         IN DecodePacket(way, Packed(way, code, s)) = IF r.ok THEN Got([code |-> code, msg |-> r.val], <<>>) ELSE Refused
<1> DEFINE z == Packed(way, code, s)
           p == Payload(way, code, s)
           r == FromBytes(Kinds(way)[code + 1], s)
<1>1. /\ z \in Octets /\ p \in Octets /\ Len(p) \in Nat /\ Len(z) = 4 + Len(p)
      /\ z[1] = 1 /\ z[2] = (IF Compresses(way, code) THEN 1 ELSE 0) /\ z[3] = code /\ z[4] = Len(p)
      /\ SubSeq(z, 5, 4 + Len(p)) = p
  BY PackedIs
<1>2. Len(Kinds(way)) = 18
  BY FormatsShape
<1>3. MaxBlob(way) \in Nat
  BY WireAssumption DEF MaxBlob
<1> DEFINE bytes == IF z[2] = 1 THEN Decompress(SubSeq(z, HeaderSize + 1, HeaderSize + z[4]))
                    ELSE Got(SubSeq(z, HeaderSize + 1, HeaderSize + z[4]), <<>>)
<1>4. bytes.ok = TRUE /\ bytes.val = s
  <2>1. SubSeq(z, HeaderSize + 1, HeaderSize + z[4]) = p
    BY <1>1 DEF HeaderSize
  <2>3. bytes = IF z[2] = 1 THEN Decompress(p) ELSE Got(p, <<>>)
    <3> HIDE DEF z, p
    <3> QED
      BY <2>1
  <2> HIDE DEF bytes
  <2>2. bytes = Got(s, <<>>)
    <3>1. CASE Compresses(way, code)
      <4>1. p = CompressForSpeed(s) /\ z[2] = 1
        BY <1>1, <3>1 DEF Payload
      <4> HIDE DEF z, p
      <4> QED
        BY <2>3, <4>1, Decompressed
    <3>2. CASE ~Compresses(way, code)
      <4>1. p = s /\ z[2] = 0
        BY <1>1, <3>2 DEF Payload
      <4> HIDE DEF z, p
      <4> QED
        BY <2>3, <4>1
    <3> QED
      BY <3>1, <3>2
  <2> QED
    BY <2>2, GotIs
<1>5. ~(Len(z) < HeaderSize \/ z[1] # 1 \/ z[2] \notin {0, 1} \/ z[3] >= Len(Kinds(way)) \/ z[4] > MaxBlob(way) \/ ~FillsPacket(z))
  <2>1. Len(z) - 4 <= MaxBlob(way)
    OBVIOUS
  <2> HIDE DEF z, p
  <2> QED
    BY <1>1, <1>2, <1>3, <2>1 DEF HeaderSize, FillsPacket
<1> DEFINE read == FromBytes(Kinds(way)[z[3] + 1], bytes.val)
<1>6. read = r
  <2>1. z[3] + 1 = code + 1
    BY <1>1
  <2> HIDE DEF z, bytes
  <2> QED
    BY <1>4, <2>1
<1> HIDE DEF z
<1>7. DecodePacket(way, z) = IF bytes.ok /\ read.ok THEN Got([code |-> z[3], msg |-> read.val], <<>>) ELSE Refused
  BY <1>5 DEF DecodePacket
<1> HIDE DEF bytes, read
<1> QED
  BY <1>1, <1>4, <1>6, <1>7 DEF z

\* A packet that its header does not describe is refused.
Unfilled(z) == Len(z) < 4 \/ Len(z) - 4 # z[4]

\* Its header is checked against its length.
LEMMA UnfilledRefused ==
  ASSUME NEW way, NEW z, Unfilled(z)
  PROVE  DecodePacket(way, z) = Refused
BY DEF DecodePacket, Unfilled, FillsPacket, HeaderSize

\* One that was cut, or that goes on, is not described by its header.
LEMMA DamageUnfills ==
  ASSUME NEW z \in Octets, Len(z) >= 4, Len(z) - 4 = z[4]
  PROVE  /\ \A n \in 0 .. Len(z) - 1 : SubSeq(z, 1, n) \in Octets /\ Unfilled(SubSeq(z, 1, n))
         /\ \A c \in Nat : z \o <<c>> \in Octets /\ Unfilled(z \o <<c>>)
<1>1. Len(z) \in Nat
  BY JoinType
<1>2. ASSUME NEW n \in 0 .. Len(z) - 1 PROVE SubSeq(z, 1, n) \in Octets /\ Unfilled(SubSeq(z, 1, n))
  <2> DEFINE y == SubSeq(z, 1, n)
             w == SubSeq(z, n + 1, Len(z))
  <2>1. y \in Octets /\ Len(y) = n /\ w \in Octets /\ z = y \o w
    <3>1. n \in 0 .. Len(z)
      BY <1>1
    <3> QED
      BY <3>1, CutAt
  <2> HIDE DEF y, w
  <2>2. CASE n >= 4
    <3>1. 4 \in 1 .. Len(y)
      BY <2>1, <2>2
    <3>2. (y \o w)[4] = y[4]
      BY <2>1, <3>1, ConcatProperties DEF Octets
    <3> QED
      BY <1>1, <2>1, <3>2 DEF Unfilled, y
  <2>3. CASE n < 4
    BY <2>1, <2>3 DEF Unfilled, y
  <2> QED
    BY <2>2, <2>3
<1>3. ASSUME NEW c \in Nat PROVE z \o <<c>> \in Octets /\ Unfilled(z \o <<c>>)
  <2> DEFINE w == <<c>>
             y == z \o w
  <2>1. w \in Octets /\ Len(w) = 1
    BY OneOctet
  <2> HIDE DEF w
  <2>2. y \in Octets /\ Len(y) = Len(z) + 1
    BY <2>1, JoinType
  <2>3. y[4] = z[4]
    <3>1. 4 \in 1 .. Len(z)
      BY <1>1
    <3> QED
      BY <2>1, <3>1, ConcatProperties DEF Octets
  <2> HIDE DEF y
  <2>4. Unfilled(y)
    BY <1>1, <2>2, <2>3 DEF Unfilled
  <2> QED
    BY <2>2, <2>4 DEF w, y
<1> QED
  BY <1>2, <1>3

-----------------------------------------------------------------------------
(***************************************************************************)
(* The wire.                                                               *)
(***************************************************************************)
Ways == {"request", "response"}

FieldValues == UNION {Domain(kind) : kind \in Delimited \cup Trailing}

FormatOf(way, code) == Kinds(way)[code + 1]

\* The first fields of a message.
Beginning(f, msg) ==
  msg \in Seq(FieldValues) /\ Len(msg) \in 1 .. Len(f) /\ \A i \in 1 .. Len(msg) : msg[i] \in Domain(f[i])

\* A stream on its way: the packet of a message or of the beginning of one, or no packet at all.
Travels(way, code, msg, short, damaged, stream) ==
  /\ stream \in Segments
  /\ damaged => Unfilled(FlattenSeq(stream))
  /\ ~damaged => \E s \in Octets, t \in Octets :
                    /\ s \o t = FlattenSeq(EncodedFields(FormatOf(way, code), msg))
                    /\ short <=> t # <<>>
                    /\ FlattenSeq(stream) = Packed(way, code, s)
                    /\ Len(Packed(way, code, s)) - 4 <= MaxBlob(way)

\* What PacketsFaithful says of a packet that was read.
Faithful(way, code, msg, short, damaged, got) ==
  LET f == FormatOf(way, code)
      n == Len(f)
      refused == \E i \in DOMAIN f : f[i] = "some_tail" /\ msg[i] = <<>>
  IN /\ ~short /\ ~damaged /\ refused => ~got.ok
     /\ ~short /\ ~damaged /\ ~refused => got.ok /\ got.val = [code |-> code, msg |-> Normal(f, msg)]
     /\ damaged => ~got.ok
     /\ short /\ got.ok => /\ SubSeq(got.val.msg, 1, n - 1) = SubSeq(Normal(f, msg), 1, n - 1)
                           /\ Shorter(f[n], got.val.msg[n], Normal(f, msg)[n])

AtRest == wire = [at |-> "idle"]

Writing == \E way \in Ways, code \in 0 .. 17, msg \in Seq(FieldValues) :
             wire = [at |-> "writing", way |-> way, code |-> code, msg |-> msg] /\ Beginning(FormatOf(way, code), msg)

Sent == \E way \in Ways, code \in 0 .. 17, msg \in Seq(FieldValues), short \in BOOLEAN, damaged \in BOOLEAN, stream \in Segments :
          /\ wire = [at |-> "sent", way |-> way, code |-> code, msg |-> msg, short |-> short, damaged |-> damaged, stream |-> stream]
          /\ Message(FormatOf(way, code), msg) /\ Travels(way, code, msg, short, damaged, stream)

Replies == {DecodePacket(way, bytes) : way \in Ways, bytes \in Octets}

Received == \E way \in Ways, code \in 0 .. 17, msg \in Seq(FieldValues), short \in BOOLEAN, damaged \in BOOLEAN, got \in Replies :
              /\ wire = [at |-> "read", way |-> way, code |-> code, msg |-> msg, short |-> short, damaged |-> damaged, got |-> got]
              /\ Faithful(way, code, msg, short, damaged, got)

\* The inductive invariant: where the message is, and what of it travels.
WireInd == AtRest \/ Writing \/ Sent \/ Received

\* DecodePacket reads faithfully what travels.
LEMMA WhatTravelsIsRead ==
  ASSUME NEW way \in Ways, NEW code \in 0 .. 17, NEW msg, Message(FormatOf(way, code), msg),
         NEW short \in BOOLEAN, NEW damaged \in BOOLEAN, NEW stream, Travels(way, code, msg, short, damaged, stream)
  PROVE  Faithful(way, code, msg, short, damaged, DecodePacket(way, FlattenSeq(stream)))
<1> DEFINE f == FormatOf(way, code)
           got == DecodePacket(way, FlattenSeq(stream))
<1>1. CASE damaged
  <2>1. got.ok = FALSE
    BY <1>1, UnfilledRefused, GotIs DEF Travels
  <2> HIDE DEF got
  <2> QED
    BY <1>1, <2>1 DEF Faithful, got
<1>2. CASE ~damaged
  <2>1. PICK s \in Octets, t \in Octets : /\ s \o t = FlattenSeq(EncodedFields(f, msg)) /\ (short <=> t # <<>>)
                                          /\ FlattenSeq(stream) = Packed(way, code, s)
                                          /\ Len(Packed(way, code, s)) - 4 <= MaxBlob(way)
    BY <1>2 DEF Travels
  <2> DEFINE r == FromBytes(f, s)
             n == Len(f)
             refused == \E i \in DOMAIN f : f[i] = "some_tail" /\ msg[i] = <<>>
  <2>2. got = IF r.ok THEN Got([code |-> code, msg |-> r.val], <<>>) ELSE Refused
    BY <2>1, PacketRead DEF FormatOf
  <2>3. /\ t = <<>> /\ ~refused => r.ok = TRUE /\ r.val = Normal(f, msg)
        /\ t = <<>> /\ refused => r.ok = FALSE
        /\ t # <<>> /\ r.ok => SubSeq(r.val, 1, n - 1) = SubSeq(Normal(f, msg), 1, n - 1) /\ Shorter(f[n], r.val[n], Normal(f, msg)[n])
    <3>1. Format(f)
      BY FormatsShape DEF FormatOf
    <3>2. ReadsMessage(f, msg, s, t)
      <4>1. Message(f, msg) /\ s \o t = FlattenSeq(EncodedFields(f, msg))
        BY <2>1
      <4> HIDE DEF f
      <4> QED
        BY <3>1, <4>1, ReadBack
    <3> HIDE DEF f
    <3> QED
      BY <3>2 DEF ReadsMessage
  <2> HIDE DEF got, r, f
  <2>4. CASE r.ok
    <3>1. got.ok = TRUE /\ got.val = [code |-> code, msg |-> r.val]
      BY <2>2, <2>4, GotIs
    <3>2. got.val.msg = r.val
      BY <3>1
    <3>3. /\ ~short /\ refused => ~got.ok
          /\ ~short /\ ~refused => got.ok /\ got.val = [code |-> code, msg |-> Normal(f, msg)]
      <4> HIDE DEF refused
      <4> QED
        BY <2>1, <2>3, <2>4, <3>1
    <3>4. short => /\ SubSeq(got.val.msg, 1, n - 1) = SubSeq(Normal(f, msg), 1, n - 1)
                   /\ Shorter(f[n], got.val.msg[n], Normal(f, msg)[n])
      BY <2>1, <2>3, <2>4, <3>2
    <3> QED
      BY <1>2, <3>3, <3>4 DEF Faithful, f, got
  <2>5. CASE ~r.ok
    <3>1. got.ok = FALSE
      BY <2>2, <2>5, GotIs
    <3>2. ~(~short /\ ~refused)
      BY <2>1, <2>3, <2>5
    <3> QED
      BY <1>2, <3>1, <3>2 DEF Faithful, f, got
  <2> QED
    BY <2>4, <2>5
<1> QED
  BY <1>1, <1>2

\* The packet that is made of a message, or of what is kept of it, travels.
LEMMA PacketTravels ==
  ASSUME NEW way \in Ways, NEW code \in 0 .. 17, NEW msg, Message(FormatOf(way, code), msg)
  PROVE  LET whole == ToBytesGatherer(FormatOf(way, code), msg)
             size == Len(ToBytes(whole))
         IN size \in Nat /\ \A keep \in 0 .. size :
              LET g == IF keep = size THEN whole ELSE PutBytes(EmptyGatherer, SubSeq(ToBytes(whole), 1, keep))
                  packet == EncodePacket(way, code, g)
                  stream == IF way = "request" THEN <<ToBytes(packet)>> ELSE Compact(packet).segments
              IN Len(ToBytes(packet)) - 4 <= MaxBlob(way) =>
                   stream \in Segments /\ Travels(way, code, msg, keep < size, FALSE, stream)
<1> DEFINE f == FormatOf(way, code)
           whole == ToBytesGatherer(f, msg)
           all == ToBytes(whole)
           size == Len(all)
           G(keep) == IF keep = size THEN whole ELSE PutBytes(EmptyGatherer, SubSeq(all, 1, keep))
           Packet(keep) == EncodePacket(way, code, G(keep))
           Stream(keep) == IF way = "request" THEN <<ToBytes(Packet(keep))>> ELSE Compact(Packet(keep)).segments
<1>1. whole \in Gatherers /\ Held(whole) = FlattenSeq(EncodedFields(f, msg))
  <2>1. Format(f)
    BY FormatsShape DEF FormatOf
  <2> HIDE DEF f
  <2> QED
    BY <2>1, MessageWritten DEF f
<1> HIDE DEF f, whole
<1>2. all = Held(whole) /\ all \in Octets
  BY <1>1, Gathering, GatheredBytes
<1> HIDE DEF all
<1>3. size \in Nat
  BY <1>2, JoinType
<1>4. ASSUME NEW keep \in 0 .. size, Len(ToBytes(Packet(keep))) - 4 <= MaxBlob(way)
      PROVE  Stream(keep) \in Segments /\ Travels(way, code, msg, keep < size, FALSE, Stream(keep))
  <2> DEFINE g == G(keep)
             packet == Packet(keep)
             stream == Stream(keep)
  <2>1. PICK s \in Octets, t \in Octets : g \in Gatherers /\ Held(g) = s /\ s \o t = all /\ (keep < size <=> t # <<>>)
    <3>1. CASE keep = size
      <4> DEFINE none == <<>>
      <4>1. none \in Octets /\ all \o none = all
        BY <1>2, NoOctets
      <4>2. g = whole
        BY <3>1
      <4>3. g \in Gatherers /\ Held(g) = all /\ ~(keep < size)
        BY <1>1, <1>2, <1>3, <3>1, <4>2
      <4> HIDE DEF g
      <4> QED
        BY <1>2, <4>1, <4>3
    <3>2. CASE keep # size
      <4> DEFINE s == SubSeq(all, 1, keep)
                 t == SubSeq(all, keep + 1, Len(all))
      <4>1. s \in Octets /\ t \in Octets /\ all = s \o t /\ Len(t) = size - keep
        BY <1>2, CutAt
      <4>2. g = PutBytes(EmptyGatherer, s)
        BY <3>2
      <4> HIDE DEF s, t, g
      <4>3. g \in Gatherers /\ Held(g) = s
        <5>1. g \in Gatherers /\ Held(g) = <<>> \o s
          BY <4>1, <4>2, Gathering
        <5> QED
          BY <4>1, <5>1, NoOctets
      <4>4. Len(t) # 0 /\ keep < size
        BY <1>3, <3>2, <4>1
      <4>5. t # <<>>
        BY <4>4
      <4> QED
        BY <4>1, <4>3, <4>4, <4>5
    <3> QED
      BY <3>1, <3>2
  <2>2. packet \in Gatherers /\ Held(packet) = Packed(way, code, s) /\ packet = EncodePacket(way, code, g)
    <3> HIDE DEF g
    <3>1. EncodePacket(way, code, g) \in Gatherers /\ Held(EncodePacket(way, code, g)) = Packed(way, code, Held(g))
      BY <2>1, PacketWritten
    <3>2. packet = EncodePacket(way, code, g)
      BY DEF g
    <3> QED
      BY <2>1, <3>1, <3>2
  <2>3. stream = IF way = "request" THEN <<ToBytes(packet)>> ELSE Compact(packet).segments
    OBVIOUS
  <2>4. Len(ToBytes(packet)) - 4 <= MaxBlob(way)
    BY <1>4
  <2> HIDE DEF packet, stream, g
  <2>5. ToBytes(packet) = Held(packet) /\ Held(packet) \in Octets
    BY <2>2, GatheredBytes, Gathering
  <2>6. stream \in Segments /\ FlattenSeq(stream) = Held(packet)
    <3>1. CASE way = "request"
      BY <2>3, <2>5, <3>1, FlatOf
    <3>2. CASE way # "request"
      BY <2>2, <2>3, <3>2, CompactHolds
    <3> QED
      BY <3>1, <3>2
  <2>7. s \o t = FlattenSeq(EncodedFields(FormatOf(way, code), msg))
    BY <1>1, <1>2, <2>1 DEF f
  <2>8. Travels(way, code, msg, keep < size, FALSE, stream)
    <3>1. FlattenSeq(stream) = Packed(way, code, s) /\ Len(Packed(way, code, s)) - 4 <= MaxBlob(way)
      BY <2>2, <2>4, <2>5, <2>6
    <3> QED
      BY <2>1, <2>6, <2>7, <3>1 DEF Travels
  <2> QED
    BY <2>6, <2>8 DEF stream
<1>5. size \in Nat /\ \A keep \in 0 .. size : Len(ToBytes(Packet(keep))) - 4 <= MaxBlob(way) =>
        Stream(keep) \in Segments /\ Travels(way, code, msg, keep < size, FALSE, Stream(keep))
  <2> HIDE DEF Packet, Stream
  <2> QED
    BY <1>3, <1>4
<1> QED
  BY <1>5 DEF f, whole, all

\* One lemma per action.  A message is begun.
LEMMA SendWrites ==
  ASSUME NEW way \in Ways, NEW code \in 0 .. 17, WireSend(way, code)
  PROVE  Writing'
<1> DEFINE f == FormatOf(way, code)
<1>1. PICK first \in Domain(f[1]) : wire' = [at |-> "writing", way |-> way, code |-> code, msg |-> <<first>>]
  BY DEF WireSend, FormatOf
<1>2. Len(f) \in Nat /\ Len(f) # 0 /\ f[1] \in Delimited \cup Trailing
  <2>1. Format(f)
    BY FormatsShape DEF FormatOf
  <2> HIDE DEF f
  <2>2. Len(f) \in Nat /\ Len(f) # 0 /\ f \in Seq(Delimited \cup Trailing)
    BY <2>1 DEF Format
  <2> QED
    BY <2>2
<1> DEFINE msg == <<first>>
<1>3. first \in FieldValues
  BY <1>2 DEF FieldValues
<1> HIDE DEF f
<1>4. msg \in Seq(FieldValues) /\ Len(msg) = 1 /\ msg[1] = first
  BY <1>3
<1> HIDE DEF msg
<1>5. Beginning(f, msg)
  BY <1>2, <1>4 DEF Beginning
<1> QED
  BY <1>1, <1>4, <1>5 DEF Writing, f, msg

\* Another field.
LEMMA FieldWrites ==
  ASSUME Writing, WireField
  PROVE  Writing'
<1>1. PICK way \in Ways, code \in 0 .. 17, msg \in Seq(FieldValues) :
        wire = [at |-> "writing", way |-> way, code |-> code, msg |-> msg] /\ Beginning(FormatOf(way, code), msg)
  BY DEF Writing
<1> DEFINE f == FormatOf(way, code)
<1>2. wire.way = way /\ wire.code = code /\ wire.msg = msg
  BY <1>1
<1>3. PICK x \in Domain(f[Len(msg) + 1]) : Len(msg) < Len(f) /\ wire' = [wire EXCEPT !.msg = Append(@, x)]
  BY <1>2 DEF WireField, FormatOf
<1>4. wire' = [at |-> "writing", way |-> way, code |-> code, msg |-> Append(msg, x)]
  BY <1>1, <1>3
<1>5. Format(f)
  BY FormatsShape DEF FormatOf
<1> DEFINE n == Len(msg)
           more == Append(msg, x)
<1>6. n \in Nat /\ Len(f) \in Nat /\ n < Len(f) /\ n + 1 \in 1 .. Len(f)
  <2> HIDE DEF f
  <2> QED
    BY <1>3, <1>5 DEF Format
<1>7. x \in FieldValues
  <2>1. f[n + 1] \in Delimited \cup Trailing
    <3> HIDE DEF f
    <3> QED
      BY <1>5, <1>6 DEF Format
  <2> QED
    BY <2>1 DEF FieldValues
<1> HIDE DEF f
<1>8. more \in Seq(FieldValues) /\ Len(more) = n + 1 /\ more[n + 1] = x /\ \A i \in 1 .. n : more[i] = msg[i]
  BY <1>7, AppendProperties
<1>9. \A i \in 1 .. n : msg[i] \in Domain(f[i])
  BY <1>1 DEF Beginning, f
<1> HIDE DEF n, more
<1>10. \A i \in 1 .. n + 1 : more[i] \in Domain(f[i])
  <2>1. \A i \in 1 .. n + 1 : i = n + 1 \/ i \in 1 .. n
    BY <1>6
  <2>2. x \in Domain(f[n + 1])
    BY <1>3 DEF n
  <2> QED
    BY <1>8, <1>9, <2>1, <2>2
<1>11. Beginning(f, more)
  BY <1>6, <1>8, <1>10 DEF Beginning
<1> QED
  BY <1>4, <1>8, <1>11 DEF Writing, f, more

\* The packet is sent, or too large.
LEMMA PacketSends ==
  ASSUME Writing, WirePacket
  PROVE  AtRest' \/ Sent'
<1>1. PICK way \in Ways, code \in 0 .. 17, msg \in Seq(FieldValues) :
        wire = [at |-> "writing", way |-> way, code |-> code, msg |-> msg] /\ Beginning(FormatOf(way, code), msg)
  BY DEF Writing
<1> DEFINE f == FormatOf(way, code)
           whole == ToBytesGatherer(f, msg)
           size == Len(ToBytes(whole))
           g(keep) == IF keep = size THEN whole ELSE PutBytes(EmptyGatherer, SubSeq(ToBytes(whole), 1, keep))
           packet(keep) == EncodePacket(way, code, g(keep))
           stream(keep) == IF way = "request" THEN <<ToBytes(packet(keep))>> ELSE Compact(packet(keep)).segments
<1>2. wire.way = way /\ wire.code = code /\ wire.msg = msg
  BY <1>1
<1>3. PICK keep \in 0 .. size :
        /\ Len(msg) = Len(f)
        /\ wire' = IF Len(ToBytes(packet(keep))) - HeaderSize > MaxBlob(way) THEN [at |-> "idle"]
                   ELSE [at |-> "sent", way |-> way, code |-> code, msg |-> msg, short |-> keep < size,
                         damaged |-> FALSE, stream |-> stream(keep)]
  BY <1>2 DEF WirePacket, FormatOf
<1>4. Message(f, msg)
  <2>1. msg \in Seq(FieldValues) /\ \A i \in 1 .. Len(msg) : msg[i] \in Domain(f[i])
    BY <1>1 DEF Beginning
  <2> HIDE DEF f
  <2> QED
    BY <1>3, <2>1 DEF Message, FieldValues
<1>5. size \in Nat /\ (Len(ToBytes(packet(keep))) - 4 <= MaxBlob(way) =>
                         stream(keep) \in Segments /\ Travels(way, code, msg, keep < size, FALSE, stream(keep)))
  BY <1>3, <1>4, PacketTravels
<1> DEFINE z == Len(ToBytes(packet(keep)))
           ss == stream(keep)
           short == keep < size
<1>6. z \in Int /\ MaxBlob(way) \in Nat
  <2>1. MaxBlob(way) \in Nat
    BY WireAssumption DEF MaxBlob
  <2>2. packet(keep) \in Gatherers
    <3>1. Format(f)
      BY FormatsShape DEF FormatOf
    <3>2. whole \in Gatherers /\ ToBytes(whole) \in Octets
      <4> HIDE DEF f
      <4>1. whole \in Gatherers
        BY <1>4, <3>1, MessageWritten
      <4> HIDE DEF whole
      <4> QED
        BY <4>1, GatheredBytes, Gathering
    <3> HIDE DEF whole
    <3>3. g(keep) \in Gatherers
      <4>1. SubSeq(ToBytes(whole), 1, keep) \in Octets
        BY <3>2, CutAt
      <4> QED
        BY <3>2, <4>1, Gathering
    <3> HIDE DEF g
    <3> QED
      BY <3>3, PacketWritten
  <2> HIDE DEF packet
  <2>3. ToBytes(packet(keep)) \in Octets
    BY <2>2, GatheredBytes, Gathering
  <2> QED
    BY <2>1, <2>3, JoinType
<1>7. wire' = IF z - 4 > MaxBlob(way) THEN [at |-> "idle"]
              ELSE [at |-> "sent", way |-> way, code |-> code, msg |-> msg, short |-> short, damaged |-> FALSE, stream |-> ss]
  BY <1>3 DEF HeaderSize
<1>8. z - 4 <= MaxBlob(way) => ss \in Segments /\ Travels(way, code, msg, short, FALSE, ss)
  BY <1>5
<1>9. short \in BOOLEAN
  OBVIOUS
<1> HIDE DEF z, ss, short
<1>10. CASE z - 4 > MaxBlob(way)
  BY <1>7, <1>10 DEF AtRest
<1>11. CASE ~(z - 4 > MaxBlob(way))
  <2>1. z - 4 <= MaxBlob(way)
    BY <1>6, <1>11
  <2>2. ss \in Segments /\ Travels(way, code, msg, short, FALSE, ss)
    BY <1>8, <2>1
  <2>3. wire' = [at |-> "sent", way |-> way, code |-> code, msg |-> msg, short |-> short, damaged |-> FALSE, stream |-> ss]
    BY <1>7, <1>11
  <2>4. Message(FormatOf(way, code), msg)
    BY <1>4
  <2> QED
    BY <1>9, <2>2, <2>3, <2>4 DEF Sent
<1> QED
  BY <1>10, <1>11

\* A damaged packet is one that its header does not describe.
LEMMA DamageKeeps ==
  ASSUME Sent, WireDamage
  PROVE  Sent'
<1>1. PICK way \in Ways, code \in 0 .. 17, msg \in Seq(FieldValues), short \in BOOLEAN, damaged \in BOOLEAN, stream \in Segments :
        /\ wire = [at |-> "sent", way |-> way, code |-> code, msg |-> msg, short |-> short, damaged |-> damaged, stream |-> stream]
        /\ Message(FormatOf(way, code), msg) /\ Travels(way, code, msg, short, damaged, stream)
  BY DEF Sent
<1> DEFINE bytes == FlattenSeq(stream)
<1>2. wire.damaged = damaged /\ wire.stream = stream
  BY <1>1
<1>3. /\ damaged = FALSE
      /\ \/ \E n \in 0 .. Len(bytes) - 1 : wire' = [wire EXCEPT !.damaged = TRUE, !.stream = <<SubSeq(bytes, 1, n)>>]
         \/ \E c \in {0, 1} : wire' = [wire EXCEPT !.damaged = TRUE, !.stream = Append(stream, <<c>>)]
  BY <1>2 DEF WireDamage
<1>4. bytes \in Octets /\ Len(bytes) >= 4 /\ Len(bytes) - 4 = bytes[4]
  <2>1. PICK s \in Octets : bytes = Packed(way, code, s)
    BY <1>1, <1>3 DEF Travels
  <2> HIDE DEF bytes
  <2> DEFINE p == Payload(way, code, s)
  <2>2. bytes \in Octets /\ Len(p) \in Nat /\ Len(bytes) = 4 + Len(p) /\ bytes[4] = Len(p)
    BY <2>1, PackedIs
  <2> HIDE DEF p
  <2> QED
    BY <2>2
<1>5. ASSUME NEW ss \in Segments, Unfilled(FlattenSeq(ss)), wire' = [wire EXCEPT !.damaged = TRUE, !.stream = ss] PROVE Sent'
  <2>1. wire' = [at |-> "sent", way |-> way, code |-> code, msg |-> msg, short |-> short, damaged |-> TRUE, stream |-> ss]
    BY <1>1, <1>5
  <2>2. Travels(way, code, msg, short, TRUE, ss)
    BY <1>5 DEF Travels
  <2> QED
    BY <1>1, <2>1, <2>2 DEF Sent
<1>6. ASSUME NEW n \in 0 .. Len(bytes) - 1, wire' = [wire EXCEPT !.damaged = TRUE, !.stream = <<SubSeq(bytes, 1, n)>>] PROVE Sent'
  <2> DEFINE y == SubSeq(bytes, 1, n)
             ss == <<y>>
  <2>1. y \in Octets /\ Unfilled(y)
    <3> HIDE DEF bytes
    <3> QED
      BY <1>4, DamageUnfills
  <2>2. wire' = [wire EXCEPT !.damaged = TRUE, !.stream = ss]
    BY <1>6
  <2> HIDE DEF y
  <2>3. ss \in Segments /\ FlattenSeq(ss) = y
    BY <2>1, FlatOf
  <2> HIDE DEF ss
  <2> QED
    BY <1>5, <2>1, <2>2, <2>3
<1>7. ASSUME NEW c \in {0, 1}, wire' = [wire EXCEPT !.damaged = TRUE, !.stream = Append(stream, <<c>>)] PROVE Sent'
  <2> DEFINE w == <<c>>
             ss == Append(stream, w)
  <2>1. c \in Nat /\ w \in Octets
    BY OneOctet
  <2>2. Unfilled(bytes \o w)
    <3> HIDE DEF bytes
    <3> QED
      BY <1>4, <2>1, DamageUnfills
  <2>3. wire' = [wire EXCEPT !.damaged = TRUE, !.stream = ss]
    BY <1>7
  <2> HIDE DEF w
  <2>4. ss \in Segments /\ FlattenSeq(ss) = bytes \o w
    BY <2>1, FlatOf
  <2> HIDE DEF ss, bytes
  <2> QED
    BY <1>5, <2>2, <2>3, <2>4
<1> HIDE DEF bytes
<1> QED
  BY <1>3, <1>6, <1>7

\* What is received is read faithfully.
LEMMA ReceiveReads ==
  ASSUME Sent, WireReceive
  PROVE  Received'
<1>1. PICK way \in Ways, code \in 0 .. 17, msg \in Seq(FieldValues), short \in BOOLEAN, damaged \in BOOLEAN, stream \in Segments :
        /\ wire = [at |-> "sent", way |-> way, code |-> code, msg |-> msg, short |-> short, damaged |-> damaged, stream |-> stream]
        /\ Message(FormatOf(way, code), msg) /\ Travels(way, code, msg, short, damaged, stream)
  BY DEF Sent
<1> DEFINE r == DecodePacket(way, FlattenSeq(stream))
<1>2. wire' = [at |-> "read", way |-> way, code |-> code, msg |-> msg, short |-> short, damaged |-> damaged, got |-> r]
  BY <1>1 DEF WireReceive
<1>3. Faithful(way, code, msg, short, damaged, r)
  BY <1>1, WhatTravelsIsRead
<1>4. r \in Replies
  <2>1. FlattenSeq(stream) \in Octets
    BY FlatOf
  <2> QED
    BY <2>1 DEF Replies
<1> HIDE DEF r
<1> QED
  BY <1>2, <1>3, <1>4 DEF Received

\* The invariant says what PacketsFaithful says.
LEMMA WireIndFaithful ==
  ASSUME WireInd
  PROVE  PacketsFaithful
<1>1. CASE wire.at # "read"
  BY <1>1 DEF PacketsFaithful, RoundTrip, ReadWhole, DamagedRefused, ShortIsPrefix
<1>2. CASE wire.at = "read"
  <2>1. Received
    BY <1>2 DEF WireInd, AtRest, Writing, Sent
  <2>2. PICK way \in Ways, code \in 0 .. 17, msg \in Seq(FieldValues), short \in BOOLEAN, damaged \in BOOLEAN, got \in Replies :
          /\ wire = [at |-> "read", way |-> way, code |-> code, msg |-> msg, short |-> short, damaged |-> damaged, got |-> got]
          /\ Faithful(way, code, msg, short, damaged, got)
    BY <2>1 DEF Received
  <2>3. /\ wire.way = way /\ wire.code = code /\ wire.msg = msg /\ wire.short = short /\ wire.damaged = damaged /\ wire.got = got
    BY <2>2
  <2> DEFINE f == Kinds(way)[code + 1]
  <2>4. RoundTrip
    <3>1. CASE \E i \in DOMAIN f : f[i] = "some_tail" /\ msg[i] = <<>>
      <4>1. ~short /\ ~damaged => ~got.ok
        BY <2>2, <3>1 DEF Faithful, FormatOf
      <4> QED
        BY <2>3, <3>1, <4>1 DEF RoundTrip, ReadWhole
    <3>2. CASE ~\E i \in DOMAIN f : f[i] = "some_tail" /\ msg[i] = <<>>
      <4>1. ~short /\ ~damaged => got.ok /\ got.val = [code |-> code, msg |-> Normal(f, msg)]
        BY <2>2, <3>2 DEF Faithful, FormatOf
      <4> QED
        BY <2>3, <3>2, <4>1 DEF RoundTrip, ReadWhole
    <3> QED
      BY <3>1, <3>2
  <2>5. DamagedRefused
    BY <2>2, <2>3 DEF DamagedRefused, Faithful
  <2>6. ShortIsPrefix
    <3>1. short /\ got.ok => /\ SubSeq(got.val.msg, 1, Len(f) - 1) = SubSeq(Normal(f, msg), 1, Len(f) - 1)
                             /\ Shorter(f[Len(f)], got.val.msg[Len(f)], Normal(f, msg)[Len(f)])
      BY <2>2 DEF Faithful, FormatOf
    <3> QED
      BY <2>3, <3>1 DEF ShortIsPrefix
  <2> QED
    BY <2>4, <2>5, <2>6 DEF PacketsFaithful
<1> QED
  BY <1>1, <1>2

\* Whatever is written and however much of it arrives (payload.rs, rpc_packet.rs, bytes_gatherer.rs,
\* compression.rs): what is read is what was meant, or less of its last field, and a packet whose
\* length is not the one its header gives is refused.
THEOREM PacketsAlwaysFaithful == WireSpec => []PacketsFaithful
<1>1. WireInit => WireInd
  BY DEF WireInit, WireInd, AtRest
<1>2. ASSUME WireInd, [WireNext]_wireVars PROVE WireInd'
  <2>1. CASE UNCHANGED wireVars
    <3>1. wire' = wire
      BY <2>1 DEF wireVars
    <3> QED
      BY <1>2, <3>1 DEF WireInd, AtRest, Writing, Sent, Received
  <2>2. ASSUME NEW way \in {"request", "response"}, NEW code \in 0 .. 17, WireSend(way, code) PROVE WireInd'
    BY <2>2, SendWrites DEF WireInd, Ways
  <2>3. CASE WireField
    <3>1. Writing
      BY <1>2, <2>3 DEF WireInd, AtRest, Sent, Received, WireField
    <3> QED
      BY <2>3, <3>1, FieldWrites DEF WireInd
  <2>4. CASE WirePacket
    <3>1. Writing
      BY <1>2, <2>4 DEF WireInd, AtRest, Sent, Received, WirePacket
    <3> QED
      BY <2>4, <3>1, PacketSends DEF WireInd
  <2>5. CASE WireDamage
    <3>1. Sent
      <4>1. wire.at = "sent"
        BY <2>5 DEF WireDamage
      <4> QED
        BY <1>2, <4>1 DEF WireInd, AtRest, Writing, Received
    <3> QED
      BY <2>5, <3>1, DamageKeeps DEF WireInd
  <2>6. CASE WireReceive
    <3>1. Sent
      <4>1. wire.at = "sent"
        BY <2>6 DEF WireReceive
      <4> QED
        BY <1>2, <4>1 DEF WireInd, AtRest, Writing, Received
    <3> QED
      BY <2>6, <3>1, ReceiveReads DEF WireInd
  <2>7. CASE WireAgain
    BY <2>7 DEF WireAgain, WireInd, AtRest
  <2> QED
    BY <1>2, <2>1, <2>2, <2>3, <2>4, <2>5, <2>6, <2>7 DEF WireNext
<1>3. WireInd => PacketsFaithful
  BY WireIndFaithful
<1> QED
  BY <1>1, <1>2, <1>3, PTL DEF WireSpec

-----------------------------------------------------------------------------
(***************************************************************************)
(* The bytes of posts, bundles and feedback (PostBytes).                   *)
(***************************************************************************)
Links == {<<>>} \cup {<<t>> : t \in Themes}

Posts == {NewPost(p[1], p[2], p[3]) : p \in Writers \X Links \X Texts}

\* Header, body and signature of a post, as its author made them.
HeadOf(n) == Encrypt("header", written[n].header, Passwords(written[n]), PostHeaderSize)

TextOf(n) == Encrypt("body", written[n].text, Passwords(written[n]), Len(written[n].text) + 1)

SigOf(n) == SignedBy(written[n].author, <<Digest(HeadOf(n)), Digest(TextOf(n))>>)

\* Every cell of the posts written, and the one a bundle may run on with.
Pool == (UNION {ToSet(Encoded(n)) : n \in DOMAIN written}) \cup {Num(1)}

\* Two sequences, one after the other.
AreJoined(u, s, t, S) ==
  /\ u \in Seq(S) /\ Len(u) = Len(s) + Len(t) /\ Len(s) \in Nat /\ Len(t) \in Nat
  /\ \A i \in 1 .. Len(s) : u[i] = s[i]
  /\ \A i \in 1 .. Len(t) : u[Len(s) + i] = t[i]

\* A concatenation is its parts joined.
LEMMA Joined == ASSUME NEW S, NEW s \in Seq(S), NEW t \in Seq(S) PROVE AreJoined(s \o t, s, t, S)
<1>1. /\ s \o t \in Seq(S)
      /\ Len(s \o t) = Len(s) + Len(t)
      /\ \A i \in 1 .. Len(s) + Len(t) : (s \o t)[i] = IF i <= Len(s) THEN s[i] ELSE t[i - Len(s)]
  BY ConcatProperties
<1>2. Len(s) \in Nat /\ Len(t) \in Nat
  OBVIOUS
<1> DEFINE u == s \o t
           m == Len(s)
           n == Len(t)
<1>3. \A i \in 1 .. m + n : u[i] = IF i <= m THEN s[i] ELSE t[i - m]
  BY <1>1
<1>4. m \in Nat /\ n \in Nat
  BY <1>2
<1> HIDE DEF u, m, n
<1>5. \A i \in 1 .. m : u[i] = s[i]
  BY <1>3, <1>4
<1>6. ASSUME NEW i \in 1 .. n PROVE u[m + i] = t[i]
  <2>1. m + i \in 1 .. m + n /\ ~(m + i <= m) /\ (m + i) - m = i
    BY <1>4
  <2> QED
    BY <1>3, <2>1
<1> QED
  BY <1>1, <1>2, <1>5, <1>6 DEF u, m, n, AreJoined

\* A part of a sequence.
IsPart(u, s, a, b, S) == u \in Seq(S) /\ Len(u) = b - a /\ \A i \in 1 .. b - a : u[i] = s[a + i]

\* SubSeq cuts out a part.
LEMMA Parted ==
  ASSUME NEW S, NEW s \in Seq(S), NEW a \in Nat, NEW b \in Nat, a <= b, b <= Len(s)
  PROVE  IsPart(SubSeq(s, a + 1, b), s, a, b, S)
<1> DEFINE m == a + 1
<1>1. m \in Int /\ b \in Int /\ \A i \in m .. b : s[i] \in S
  BY ElementOfSeq
<1>2. /\ SubSeq(s, m, b) \in Seq(S)
      /\ Len(SubSeq(s, m, b)) = IF m <= b THEN b - m + 1 ELSE 0
      /\ \A i \in 1 .. b - m + 1 : SubSeq(s, m, b)[i] = s[m + i - 1]
  <2> HIDE DEF m
  <2> QED
    BY <1>1, SubSeqProperties
<1>3. ASSUME NEW i \in 1 .. b - a PROVE SubSeq(s, m, b)[i] = s[a + i]
  <2>1. i \in 1 .. b - m + 1 /\ m + i - 1 = a + i
    OBVIOUS
  <2> HIDE DEF m
  <2> QED
    BY <1>2, <2>1
<1>4. Len(SubSeq(s, m, b)) = b - a
  <2> DEFINE u == SubSeq(s, m, b)
  <2>1. Len(u) = IF m <= b THEN b - m + 1 ELSE 0
    BY <1>2
  <2> HIDE DEF u
  <2>2. Len(u) = b - a
    BY <2>1
  <2> QED
    BY <2>2 DEF u
<1> HIDE DEF m
<1>5. IsPart(SubSeq(s, m, b), s, a, b, S)
  BY <1>2, <1>3, <1>4 DEF IsPart
<1> QED
  BY <1>5 DEF m

\* One element of a sequence replaced.
IsReplaced(u, s, i, x, S) ==
  u \in Seq(S) /\ Len(u) = Len(s) /\ \A j \in 1 .. Len(s) : u[j] = IF j = i THEN x ELSE s[j]

\* Replaced takes one element of another.
LEMMA ReplacedIs ==
  ASSUME NEW S, NEW s \in Seq(S), NEW t, NEW i \in 1 .. Len(s), t[i] \in S
  PROVE  IsReplaced(Replaced(s, t, i), s, i, t[i], S)
<1> DEFINE x == t[i]
<1>1. /\ [s EXCEPT ![i] = x] \in Seq(S)
      /\ Len([s EXCEPT ![i] = x]) = Len(s)
      /\ \A j \in 1 .. Len(s) : [s EXCEPT ![i] = x][j] = IF j = i THEN x ELSE s[j]
  OBVIOUS
<1> QED
  BY <1>1 DEF IsReplaced, Replaced

\* A sequence of any kind of cells.
LEMMA SeqOver ==
  ASSUME NEW T, NEW s \in Seq(T), NEW S, \A i \in 1 .. Len(s) : s[i] \in S
  PROVE  s \in Seq(S)
<1>1. Len(s) \in Nat /\ s = [i \in 1 .. Len(s) |-> s[i]]
  OBVIOUS
<1>2. s \in [1 .. Len(s) -> S]
  BY <1>1
<1> QED
  BY <1>1, <1>2, SeqDef

\* The fields of a post.
LEMMA PostFields ==
  ASSUME written \in Seq(Posts), NEW n \in DOMAIN written
  PROVE  /\ Len(written[n].text) \in Nat
         /\ written[n].header = [author |-> written[n].author, linked |-> written[n].linked,
                                 post_length |-> Len(written[n].text), mechanism |-> "direct"]
<1>1. PICK a \in Writers, l \in Links, t \in Texts : written[n] = NewPost(a, l, t)
  <2>1. written[n] \in Posts
    OBVIOUS
  <2> QED
    BY <2>1 DEF Posts
<1>2. Len(t) \in Nat
  BY PostBytesAssumption
<1> QED
  BY <1>1, <1>2 DEF NewPost

\* What encrypts a post.
LEMMA Encrypted ==
  ASSUME NEW what, NEW plain, NEW pws, NEW size \in Nat
  PROVE  /\ \E X : Encrypt(what, plain, pws, size) \in Seq(X)
         /\ Len(Encrypt(what, plain, pws, size)) = size
         /\ \A i \in 1 .. size : Encrypt(what, plain, pws, size)[i] = <<what, plain, pws, i>>
<1> DEFINE X == {<<what, plain, pws, i>> : i \in 1 .. size}
<1>1. Encrypt(what, plain, pws, size) \in Seq(X)
  BY DEF Encrypt
<1>2. /\ Len(Encrypt(what, plain, pws, size)) = size
      /\ \A i \in 1 .. size : Encrypt(what, plain, pws, size)[i] = <<what, plain, pws, i>>
  BY DEF Encrypt
<1> QED
  BY <1>1, <1>2, ZenonT(30)

\* The header and the body of a post.
LEMMA HeadCells ==
  ASSUME NEW n
  PROVE  Len(HeadOf(n)) = 2 /\ \E X : HeadOf(n) \in Seq(X)
<1> DEFINE p == written[n].header
           q == Passwords(written[n])
           size == 2
<1>1. HeadOf(n) = Encrypt("header", p, q, size) /\ size \in Nat
  BY DEF HeadOf, PostHeaderSize
<1> HIDE DEF p, q, size
<1>2. Len(HeadOf(n)) = size /\ \E X : HeadOf(n) \in Seq(X)
  BY <1>1, Encrypted
<1> QED
  BY <1>2 DEF size

\* So many cells has the body of a post.
LEMMA TextCells ==
  ASSUME written \in Seq(Posts), NEW n \in DOMAIN written
  PROVE  Len(TextOf(n)) = Len(written[n].text) + 1 /\ \E X : TextOf(n) \in Seq(X)
<1> DEFINE p == written[n].text
           q == Passwords(written[n])
           size == Len(written[n].text) + 1
<1>1. TextOf(n) = Encrypt("body", p, q, size) /\ size \in Nat
  BY PostFields DEF TextOf
<1> HIDE DEF p, q, size
<1>2. Len(TextOf(n)) = size /\ \E X : TextOf(n) \in Seq(X)
  BY <1>1, Encrypted
<1> QED
  BY <1>2 DEF size

\* The cells of a post, one by one.
LEMMA EncodedCells ==
  ASSUME written \in Seq(Posts), NEW n \in DOMAIN written
  PROVE  LET e == Encoded(n)
             size == Len(written[n].text) + 1
         IN /\ size \in Nat /\ size >= 1 /\ Len(e) = 9 + size
            /\ \E S : e \in Seq(S)
            /\ e[1] = IdOf(SigOf(n)) /\ e[2] = SigOf(n) /\ e[3] = Num(1)
            /\ e[4] = Digest(HeadOf(n)) /\ e[5] = Digest(TextOf(n)) /\ e[6] = Num(2) /\ e[7] = Num(size)
            /\ \A i \in 1 .. 2 : e[7 + i] = HeadOf(n)[i]
            /\ \A i \in 1 .. size : e[9 + i] = TextOf(n)[i]
<1> DEFINE size == Len(written[n].text) + 1
           fixed == <<IdOf(SigOf(n)), SigOf(n), Num(1), Digest(HeadOf(n)), Digest(TextOf(n)), Num(2), Num(size)>>
           head == HeadOf(n)
           text == TextOf(n)
           S == {fixed[i] : i \in 1 .. 7} \cup {head[i] : i \in 1 .. 2} \cup {text[i] : i \in 1 .. size}
<1>1. size \in Nat /\ size >= 1
  BY PostFields
<1>2. Len(head) = 2 /\ \E X : head \in Seq(X)
  BY HeadCells
<1>3. Len(text) = size /\ \E X : text \in Seq(X)
  BY TextCells
<1>4. Encoded(n) = fixed \o head \o text
  <2>1. Encoded(n) = <<IdOf(SigOf(n)), SigOf(n), Num(1), Digest(head), Digest(text), Num(Len(head)), Num(Len(text))>> \o head \o text
    BY DEF Encoded, EncodeToBytesDirect, HeadOf, TextOf, SigOf
  <2> QED
    BY <2>1, <1>2, <1>3
<1> HIDE DEF head, text, size
<1>5. fixed \in Seq(S) /\ Len(fixed) = 7
  OBVIOUS
<1>6. head \in Seq(S) /\ text \in Seq(S)
  <2>1. /\ \A i \in 1 .. Len(head) : head[i] \in S
        /\ \A i \in 1 .. Len(text) : text[i] \in S
    BY <1>2, <1>3
  <2> HIDE DEF S
  <2> QED
    BY <1>2, <1>3, <2>1, SeqOver
<1>7. /\ fixed[1] = IdOf(SigOf(n)) /\ fixed[2] = SigOf(n) /\ fixed[3] = Num(1)
      /\ fixed[4] = Digest(HeadOf(n)) /\ fixed[5] = Digest(TextOf(n)) /\ fixed[6] = Num(2) /\ fixed[7] = Num(size)
  OBVIOUS
<1> HIDE DEF fixed, S
<1> HIDE DEF head
<1> DEFINE front == fixed \o head
           e == front \o text
<1>8. /\ front \in Seq(S) /\ Len(front) = 9
      /\ \A i \in 1 .. 7 : front[i] = fixed[i]
      /\ \A i \in 1 .. 2 : front[7 + i] = head[i]
  <2>1. AreJoined(front, fixed, head, S)
    BY <1>5, <1>6, Joined
  <2> HIDE DEF front
  <2> QED
    BY <1>2, <1>5, <2>1 DEF AreJoined
<1> HIDE DEF front
<1>10. /\ e \in Seq(S) /\ Len(e) = 9 + size
       /\ \A i \in 1 .. 9 : e[i] = front[i]
       /\ \A i \in 1 .. size : e[9 + i] = text[i]
  <2>1. AreJoined(e, front, text, S)
    BY <1>6, <1>8, Joined
  <2> HIDE DEF e
  <2> QED
    BY <1>3, <1>8, <2>1 DEF AreJoined
<1> HIDE DEF e
<1>14. /\ size \in Nat /\ size >= 1 /\ Len(e) = 9 + size
       /\ \E X : e \in Seq(X)
       /\ e[1] = IdOf(SigOf(n)) /\ e[2] = SigOf(n) /\ e[3] = Num(1)
       /\ e[4] = Digest(HeadOf(n)) /\ e[5] = Digest(TextOf(n)) /\ e[6] = Num(2) /\ e[7] = Num(size)
       /\ \A i \in 1 .. 2 : e[7 + i] = head[i]
       /\ \A i \in 1 .. size : e[9 + i] = text[i]
  <2>1. \A i \in 1 .. 7 : e[i] = fixed[i]
    BY <1>8, <1>10
  <2>2. \A i \in 1 .. 2 : e[7 + i] = head[i]
    <3>1. \A i \in 1 .. 2 : 7 + i \in 1 .. 9
      OBVIOUS
    <3> QED
      BY <1>8, <1>10, <3>1
  <2> QED
    BY <1>1, <1>7, <1>10, <2>1, <2>2
<1> QED
  BY <1>4, <1>14 DEF e, front, head, text, size

\* Those of its head.
LEMMA EncodedHead ==
  ASSUME written \in Seq(Posts), NEW n \in DOMAIN written
  PROVE  LET e == Encoded(n)
         IN /\ e[1] = IdOf(SigOf(n)) /\ e[2] = SigOf(n) /\ e[3] = Num(1)
            /\ e[4] = Digest(HeadOf(n)) /\ e[5] = Digest(TextOf(n)) /\ e[6] = Num(2)
            /\ e[8] = HeadOf(n)[1] /\ e[9] = HeadOf(n)[2]
<1> DEFINE e == Encoded(n)
<1>1. /\ e[1] = IdOf(SigOf(n)) /\ e[2] = SigOf(n) /\ e[3] = Num(1)
      /\ e[4] = Digest(HeadOf(n)) /\ e[5] = Digest(TextOf(n)) /\ e[6] = Num(2)
      /\ \A i \in 1 .. 2 : e[7 + i] = HeadOf(n)[i]
  BY EncodedCells
<1> HIDE DEF e
<1>2. e[8] = HeadOf(n)[1] /\ e[9] = HeadOf(n)[2]
  BY <1>1
<1> QED
  BY <1>1, <1>2 DEF e

\* What a cell's tag says of it.
TellsItself(c) ==
  /\ c[1] = "signature" => \E k \in DOMAIN written : c = SigOf(k)
  /\ IsNum(c) => c[2] \in Nat /\ c = Num(c[2])

\* A signature among the cells is that of a post, a number is a number.
LEMMA PoolCells ==
  ASSUME written \in Seq(Posts)
  PROVE  \A c \in Pool : TellsItself(c)
<1>1. TellsItself(Num(1))
  BY DEF TellsItself, Num, IsNum
<1>2. ASSUME NEW n \in DOMAIN written, NEW i \in 1 .. Len(Encoded(n)) PROVE TellsItself(Encoded(n)[i])
  <2> DEFINE e == Encoded(n)
             size == Len(written[n].text) + 1
  <2>1. /\ size \in Nat /\ Len(e) = 9 + size
        /\ e[1] = IdOf(SigOf(n)) /\ e[2] = SigOf(n) /\ e[3] = Num(1)
        /\ e[4] = Digest(HeadOf(n)) /\ e[5] = Digest(TextOf(n)) /\ e[6] = Num(2) /\ e[7] = Num(size)
        /\ \A j \in 1 .. 2 : e[7 + j] = HeadOf(n)[j]
        /\ \A j \in 1 .. size : e[9 + j] = TextOf(n)[j]
    BY EncodedCells
  <2>2. \A j \in 1 .. 2 : HeadOf(n)[j][1] = "header"
    BY DEF HeadOf, Encrypt, PostHeaderSize
  <2>3. \A j \in 1 .. size : TextOf(n)[j][1] = "body"
    BY DEF TextOf, Encrypt
  <2> HIDE DEF e, size
  <2>4. CASE i \in {1, 4, 5}
    BY <2>1, <2>4 DEF TellsItself, IdOf, Digest, IsNum, e
  <2>5. CASE i = 2
    BY <2>1, <2>5 DEF TellsItself, SigOf, SignedBy, IsNum, e
  <2>6. CASE i \in {3, 6, 7}
    BY <2>1, <2>6 DEF TellsItself, Num, IsNum, e
  <2>7. CASE i \in {8, 9}
    <3>1. e[8] = HeadOf(n)[1] /\ e[9] = HeadOf(n)[2]
      BY <2>1
    <3>2. e[i][1] = "header"
      BY <2>2, <2>7, <3>1
    <3> QED
      BY <3>2 DEF TellsItself, IsNum, e
  <2>8. CASE i > 9
    <3>1. i - 9 \in 1 .. size /\ 9 + (i - 9) = i
      BY <2>1, <2>8 DEF e
    <3>2. e[i] = TextOf(n)[i - 9]
      BY <2>1, <3>1
    <3>3. e[i][1] = "body"
      BY <2>3, <3>1, <3>2
    <3> QED
      BY <3>3 DEF TellsItself, IsNum, e
  <2>9. i \in {1, 4, 5} \/ i = 2 \/ i \in {3, 6, 7} \/ i \in {8, 9} \/ i > 9
    OBVIOUS
  <2> QED
    BY <2>4, <2>5, <2>6, <2>7, <2>8, <2>9
<1>3. ASSUME NEW n \in DOMAIN written, NEW c \in ToSet(Encoded(n)) PROVE TellsItself(c)
  <2>1. DOMAIN Encoded(n) = 1 .. Len(Encoded(n))
    BY EncodedCells
  <2>2. PICK i \in DOMAIN Encoded(n) : c = Encoded(n)[i]
    BY DEF ToSet
  <2> QED
    BY <1>2, <2>1, <2>2
<1>4. ASSUME NEW c \in Pool PROVE c = Num(1) \/ \E n \in DOMAIN written : c \in ToSet(Encoded(n))
  <2> DEFINE A == UNION {ToSet(Encoded(n)) : n \in DOMAIN written}
             one == Num(1)
  <2>1. c \in A \cup {one}
    BY DEF Pool
  <2>2. c \in A => \E n \in DOMAIN written : c \in ToSet(Encoded(n))
    BY Zenon
  <2> HIDE DEF A, one
  <2>3. c \in A \/ c = one
    BY <2>1
  <2> QED
    BY <2>2, <2>3 DEF one
<1> QED
  BY <1>1, <1>3, <1>4

\* A post is made of cells of the pool.
LEMMA EncodedInPool ==
  ASSUME written \in Seq(Posts), NEW n \in DOMAIN written
  PROVE  Encoded(n) \in Seq(Pool)
<1>1. PICK S : Encoded(n) \in Seq(S)
  BY EncodedCells
<1>2. \A i \in 1 .. Len(Encoded(n)) : Encoded(n)[i] \in Pool
  <2>1. \A i \in 1 .. Len(Encoded(n)) : Encoded(n)[i] \in ToSet(Encoded(n))
    BY <1>1 DEF ToSet
  <2>2. \A c \in ToSet(Encoded(n)) : c \in Pool
    BY DEF Pool
  <2> QED
    BY <2>1, <2>2
<1> QED
  BY <1>1, <1>2, SeqOver

\* The bytes of which the head is that of a post, up to the length of the body.
IsHeadOf(bytes, n) ==
  /\ Len(bytes) >= 9
  /\ \A i \in {1, 2, 3, 4, 5, 6, 8, 9} : bytes[i] = Encoded(n)[i]

\* A decoded post is its author's.
IsDecodedOf(r, n, password) ==
  /\ r.post_id = Encoded(n)[1] /\ r.header = written[n].header
  /\ password \in ToSet(Passwords(written[n]))

\* Bytes that decode have the head of a post, and the digest of its body.
LEMMA HeadDecodes ==
  ASSUME written \in Seq(Posts), NEW bytes \in Seq(Pool), NEW password, NEW expectBody \in BOOLEAN, NEW decodeBody \in BOOLEAN,
         DecodeFromBytes(bytes, password, expectBody, decodeBody).ok
  PROVE  \E n \in DOMAIN written :
           /\ IsHeadOf(bytes, n)
           /\ IsDecodedOf(DecodeFromBytes(bytes, password, expectBody, decodeBody), n, password)
           /\ ~expectBody => Len(bytes) = 9
           /\ expectBody =>
                /\ IsNum(bytes[7]) /\ Len(bytes) = 9 + bytes[7][2]
                /\ SubSeq(bytes, 10, Len(bytes)) = TextOf(n)
                /\ decodeBody => DecodeFromBytes(bytes, password, expectBody, decodeBody).post = TextOf(n)[1][2]
<1> DEFINE r == DecodeFromBytes(bytes, password, expectBody, decodeBody)
           bodyLength == IF expectBody THEN bytes[7][2] ELSE 0
           head == SubSeq(bytes, FixedPrefix + 1, FixedPrefix + bytes[6][2])
           body == SubSeq(bytes, FixedPrefix + bytes[6][2] + 1, Len(bytes))
<1>1. /\ Len(bytes) >= 7 /\ bytes[3] = Num(1) /\ IsNum(bytes[6]) /\ IsNum(bytes[7])
      /\ Len(bytes) = 7 + bytes[6][2] + bodyLength
      /\ Decrypts(head, "header", password)
      /\ Len(head) = 2
      /\ bytes[4] = Digest(head)
      /\ expectBody => bytes[5] = Digest(body)
      /\ bytes[2] = SignedBy(head[1][2].author, <<bytes[4], bytes[5]>>)
      /\ bytes[1] = IdOf(bytes[2])
      /\ r = [ok |-> TRUE, post_id |-> bytes[1], header |-> head[1][2],
              post |-> IF expectBody /\ decodeBody THEN body[1][2] ELSE <<>>]
  <2> DEFINE refused == Len(bytes) < FixedPrefix \/ bytes[3] # Num(1) \/ ~IsNum(bytes[6]) \/ ~IsNum(bytes[7])
             accepted ==
               /\ Len(bytes) = FixedPrefix + bytes[6][2] + bodyLength
               /\ Decrypts(head, "header", password)
               /\ Len(head) = PostHeaderSize
               /\ HashesMatch(bytes, head, body, expectBody)
               /\ head[1][2].mechanism = "direct"
               /\ bytes[2] = SignedBy(head[1][2].author, <<bytes[4], bytes[5]>>)
               /\ bytes[1] = IdOf(bytes[2])
               /\ expectBody /\ decodeBody =>
                    Decrypts(body, "body", password) /\ Len(body[1][2]) = head[1][2].post_length
             out == [ok |-> TRUE, post_id |-> bytes[1], header |-> head[1][2],
                     post |-> IF expectBody /\ decodeBody THEN body[1][2] ELSE <<>>]
  <2>1. r = IF refused THEN Unreadable ELSE IF accepted THEN out ELSE Unreadable
    BY DEF DecodeFromBytes
  <2>2. ~Unreadable.ok
    BY DEF Unreadable
  <2> HIDE DEF refused, accepted, out, r
  <2>3. ~refused /\ accepted /\ r = out
    <3>1. r # Unreadable
      BY <2>2 DEF r
    <3> QED
      BY <2>1, <3>1
  <2> HIDE DEF head, body, bodyLength
  <2> QED
    BY <2>3 DEF refused, accepted, out, FixedPrefix, PostHeaderSize, HashesMatch
<1> HIDE DEF r, head, body
<1>2. \A i \in 1 .. 7 : bytes[i] \in Pool
  BY <1>1
<1>3. bytes[6][2] \in Nat /\ bytes[6] = Num(bytes[6][2]) /\ bytes[7][2] \in Nat /\ bytes[7] = Num(bytes[7][2])
  <2>1. TellsItself(bytes[6]) /\ TellsItself(bytes[7])
    BY <1>2, PoolCells
  <2> QED
    BY <1>1, <2>1 DEF TellsItself
<1>4. PICK n \in DOMAIN written : bytes[2] = SigOf(n)
  <2>1. TellsItself(bytes[2])
    BY <1>2, PoolCells
  <2>2. bytes[2][1] = "signature"
    BY <1>1 DEF SignedBy
  <2> QED
    BY <2>1, <2>2 DEF TellsItself
<1>5. bytes[4] = Digest(HeadOf(n)) /\ bytes[5] = Digest(TextOf(n))
  <2>1. SignedBy(head[1][2].author, <<bytes[4], bytes[5]>>) = SignedBy(written[n].author, <<Digest(HeadOf(n)), Digest(TextOf(n))>>)
    BY <1>1, <1>4 DEF SigOf
  <2> QED
    BY <2>1 DEF SignedBy
<1>6. head = HeadOf(n) /\ (expectBody => body = TextOf(n))
  BY <1>1, <1>5 DEF Digest
<1>7. bytes[6] = Num(2) /\ Len(bytes) = 9 + bodyLength
  <2>1. Len(SubSeq(bytes, 8, 7 + bytes[6][2])) = bytes[6][2]
    BY <1>3
  <2>3. head = SubSeq(bytes, 8, 7 + bytes[6][2])
    BY DEF FixedPrefix, head
  <2>2. bytes[6][2] = 2
    BY <1>1, <2>1, <2>3
  <2> QED
    BY <1>1, <1>3, <2>2
<1>8. bytes[8] = HeadOf(n)[1] /\ bytes[9] = HeadOf(n)[2]
  <2>1. head = SubSeq(bytes, 8, 9)
    BY <1>7 DEF FixedPrefix, Num, head
  <2>2. SubSeq(bytes, 8, 9)[1] = bytes[8] /\ SubSeq(bytes, 8, 9)[2] = bytes[9]
    BY <1>7
  <2> QED
    BY <1>6, <2>1, <2>2
<1>9. IsHeadOf(bytes, n)
  <2>1. LET e == Encoded(n)
        IN /\ e[1] = IdOf(SigOf(n)) /\ e[2] = SigOf(n) /\ e[3] = Num(1)
           /\ e[4] = Digest(HeadOf(n)) /\ e[5] = Digest(TextOf(n)) /\ e[6] = Num(2)
           /\ e[8] = HeadOf(n)[1] /\ e[9] = HeadOf(n)[2]
    BY EncodedHead
  <2>2. Len(bytes) >= 9
    BY <1>3, <1>7
  <2> QED
    BY <1>1, <1>4, <1>5, <1>7, <1>8, <2>1, <2>2 DEF IsHeadOf
<1>10. HeadOf(n)[1] = <<"header", written[n].header, Passwords(written[n]), 1>>
  BY DEF HeadOf, Encrypt, PostHeaderSize
<1>11. IsDecodedOf(r, n, password)
  <2>1. password \in ToSet(Passwords(written[n]))
    BY <1>1, <1>6, <1>10 DEF Decrypts
  <2>2. r.header = written[n].header
    BY <1>1, <1>6, <1>10
  <2>3. r.post_id = Encoded(n)[1]
    BY <1>1, <1>9 DEF IsHeadOf
  <2> QED
    BY <2>1, <2>2, <2>3 DEF IsDecodedOf
<1>12. ASSUME expectBody PROVE SubSeq(bytes, 10, Len(bytes)) = TextOf(n)
  <2>1. FixedPrefix + bytes[6][2] + 1 = 10
    BY <1>7 DEF FixedPrefix, Num
  <2>2. body = SubSeq(bytes, 10, Len(bytes))
    BY <2>1, Zenon DEF body
  <2> QED
    BY <1>6, <1>12, <2>2
<1>13. expectBody /\ decodeBody => r.post = TextOf(n)[1][2]
  BY <1>1, <1>6
<1>14. /\ ~expectBody => Len(bytes) = 9
       /\ expectBody => Len(bytes) = 9 + bytes[7][2]
  BY <1>7
<1>15. /\ IsHeadOf(bytes, n)
       /\ IsDecodedOf(r, n, password)
       /\ ~expectBody => Len(bytes) = 9
       /\ expectBody =>
            /\ IsNum(bytes[7]) /\ Len(bytes) = 9 + bytes[7][2]
            /\ SubSeq(bytes, 10, Len(bytes)) = TextOf(n)
            /\ decodeBody => r.post = TextOf(n)[1][2]
  <2> HIDE DEF bodyLength
  <2> QED
    BY <1>1, <1>9, <1>11, <1>12, <1>13, <1>14
<1> QED
  BY <1>15, ZenonT(30) DEF r

\* Bytes that decode with their body are those of a post.
LEMMA WholeDecodes ==
  ASSUME written \in Seq(Posts), NEW bytes \in Seq(Pool), NEW password, NEW decodeBody \in BOOLEAN,
         DecodeFromBytes(bytes, password, TRUE, decodeBody).ok
  PROVE  \E n \in DOMAIN written :
           /\ bytes = Encoded(n)
           /\ IsDecodedOf(DecodeFromBytes(bytes, password, TRUE, decodeBody), n, password)
           /\ decodeBody => DecodeFromBytes(bytes, password, TRUE, decodeBody).post = written[n].text
<1> DEFINE r == DecodeFromBytes(bytes, password, TRUE, decodeBody)
<1>1. PICK n \in DOMAIN written :
           /\ IsHeadOf(bytes, n)
           /\ IsDecodedOf(r, n, password)
           /\ IsNum(bytes[7]) /\ Len(bytes) = 9 + bytes[7][2]
           /\ SubSeq(bytes, 10, Len(bytes)) = TextOf(n)
           /\ decodeBody => r.post = TextOf(n)[1][2]
  BY HeadDecodes
<1> HIDE DEF r
<1> DEFINE size == Len(written[n].text) + 1
           e == Encoded(n)
<1>2. /\ size \in Nat /\ size >= 1 /\ Len(e) = 9 + size /\ e[7] = Num(size)
      /\ \A i \in 1 .. size : e[9 + i] = TextOf(n)[i]
      /\ e \in Seq(Pool)
      /\ Len(TextOf(n)) = size
  BY EncodedCells, EncodedInPool, TextCells
<1> HIDE DEF size, e
<1>3. Len(bytes) \in Nat /\ Len(bytes) >= 9
  BY <1>1 DEF IsHeadOf
<1>4. IsPart(TextOf(n), bytes, 9, Len(bytes), Pool)
  <2> DEFINE a == 9
             b == Len(bytes)
  <2>1. a \in Nat /\ b \in Nat /\ a <= b /\ a + 1 = 10
    BY <1>3
  <2> HIDE DEF a
  <2>2. IsPart(SubSeq(bytes, a + 1, b), bytes, a, b, Pool)
    BY <2>1, Parted
  <2> QED
    BY <1>1, <2>1, <2>2 DEF a
<1>5. Len(bytes) = 9 + size /\ \A i \in 1 .. size : bytes[9 + i] = TextOf(n)[i]
  BY <1>2, <1>3, <1>4 DEF IsPart
<1>6. bytes[7] = e[7]
  <2>1. bytes[7] \in Pool
    BY <1>3
  <2>2. bytes[7][2] \in Nat /\ bytes[7] = Num(bytes[7][2])
    BY <1>1, <2>1, PoolCells DEF TellsItself
  <2>3. bytes[7][2] = size
    BY <1>1, <1>2, <1>5, <2>2
  <2> QED
    BY <1>2, <2>2, <2>3
<1>7. ASSUME NEW i \in 1 .. Len(bytes) PROVE bytes[i] = e[i]
  <2>1. CASE i <= 9
    <3>1. i = 7 \/ i \in {1, 2, 3, 4, 5, 6, 8, 9}
      BY <1>3, <2>1
    <3> QED
      BY <1>1, <1>6, <3>1 DEF IsHeadOf, e
  <2>2. CASE i > 9
    <3>1. i - 9 \in 1 .. size /\ 9 + (i - 9) = i
      BY <1>2, <1>3, <1>5, <2>2
    <3> QED
      BY <1>2, <1>5, <3>1
  <2> QED
    BY <1>3, <2>1, <2>2
<1>8. bytes = e
  BY <1>2, <1>5, <1>7, SeqEqual
<1>9. TextOf(n)[1][2] = written[n].text
  <2>1. TextOf(n)[1] = <<"body", written[n].text, Passwords(written[n]), 1>>
    BY <1>2 DEF TextOf, Encrypt, size
  <2> QED
    BY <2>1
<1>10. bytes = Encoded(n) /\ IsDecodedOf(r, n, password) /\ (decodeBody => r.post = written[n].text)
  BY <1>1, <1>8, <1>9 DEF e
<1> QED
  BY <1>10, ZenonT(30) DEF r

\* Bytes that decode without their body are the head of a post, but for the length of the body.
LEMMA HeaderDecodes ==
  ASSUME written \in Seq(Posts), NEW bytes \in Seq(Pool), NEW n \in DOMAIN written, IsHeadOf(bytes, n), Len(bytes) = 9
  PROVE  Replaced(bytes, Encoded(n), 7) = BytesWithoutBody(Encoded(n)).bytes
<1> DEFINE e == Encoded(n)
           left == Replaced(bytes, e, 7)
           right == SubSeq(e, 1, 9)
<1>1. e \in Seq(Pool) /\ Len(e) >= 10 /\ Len(e) \in Nat /\ e[6] = Num(2)
  <2> DEFINE size == Len(written[n].text) + 1
  <2>1. size \in Nat /\ size >= 1 /\ Len(e) = 9 + size /\ e[6] = Num(2)
    BY EncodedCells
  <2>2. e \in Seq(Pool)
    BY EncodedInPool
  <2> HIDE DEF e, size
  <2> QED
    BY <2>1, <2>2
<1>2. BytesWithoutBody(e).bytes = right
  <2> HIDE DEF e
  <2>1. IsNum(e[6]) /\ e[6][2] = 2
    BY <1>1 DEF IsNum, Num
  <2>2. FixedPrefix + e[6][2] = 9 /\ ~(Len(e) < FixedPrefix) /\ ~(Len(e) < FixedPrefix + e[6][2])
    BY <1>1, <2>1 DEF FixedPrefix
  <2> DEFINE s == SubSeq(e, 1, FixedPrefix + e[6][2])
             r == BytesWithoutBody(e)
  <2>3. r = [ok |-> TRUE, bytes |-> s]
    BY <2>1, <2>2 DEF BytesWithoutBody
  <2>4. s = right
    BY <2>2
  <2> HIDE DEF s, r
  <2>5. r.bytes = s
    BY <2>3
  <2> QED
    BY <2>4, <2>5 DEF r
<1> HIDE DEF e
<1>3. right \in Seq(Pool) /\ Len(right) = 9 /\ \A i \in 1 .. 9 : right[i] = e[i]
  BY <1>1
<1>4. left \in Seq(Pool) /\ Len(left) = 9 /\ \A i \in 1 .. 9 : left[i] = IF i = 7 THEN e[7] ELSE bytes[i]
  <2>1. e[7] \in Pool
    BY <1>1
  <2>2. 7 \in 1 .. Len(bytes)
    OBVIOUS
  <2> DEFINE i == 7
  <2>3. i \in 1 .. Len(bytes) /\ left = Replaced(bytes, e, i)
    BY <2>2
  <2> HIDE DEF i, left
  <2>4. IsReplaced(left, bytes, i, e[i], Pool)
    <3>1. e[i] \in Pool
      BY <2>1 DEF i
    <3> QED
      BY <2>3, <3>1, ReplacedIs
  <2> QED
    BY <2>4 DEF IsReplaced, i
<1> HIDE DEF left, right
<1>5. ASSUME NEW i \in 1 .. 9 PROVE left[i] = right[i]
  <2>1. i = 7 \/ i \in {1, 2, 3, 4, 5, 6, 8, 9}
    OBVIOUS
  <2>2. i # 7 => bytes[i] = e[i]
    BY <2>1 DEF IsHeadOf, e
  <2> QED
    BY <1>3, <1>4, <2>2
<1>6. left = right
  <2>1. Len(left) = Len(right) /\ \A i \in 1 .. Len(left) : left[i] = right[i]
    BY <1>3, <1>4, <1>5
  <2> QED
    BY <1>3, <1>4, <2>1, SeqEqual
<1> QED
  BY <1>2, <1>6 DEF e, left

\* Whoever may decode a post without its body may decode it with it.
LEMMA Reopened ==
  ASSUME written \in Seq(Posts), NEW n \in DOMAIN written, NEW password,
         DecodeFromBytes(Encoded(n), password, TRUE, FALSE).ok
  PROVE  DecodeFromBytes(Encoded(n), password, TRUE, TRUE).ok
<1> DEFINE bytes == Encoded(n)
           size == Len(written[n].text) + 1
           head == SubSeq(bytes, FixedPrefix + 1, FixedPrefix + bytes[6][2])
           body == SubSeq(bytes, FixedPrefix + bytes[6][2] + 1, Len(bytes))
<1>1. /\ size \in Nat /\ size >= 1 /\ Len(bytes) = 9 + size /\ bytes[6] = Num(2)
      /\ bytes[8] = HeadOf(n)[1]
      /\ \A i \in 1 .. size : bytes[9 + i] = TextOf(n)[i]
  BY EncodedCells, EncodedHead
<1>2. bytes \in Seq(Pool) /\ Len(TextOf(n)) = size /\ \E X : TextOf(n) \in Seq(X)
  BY EncodedInPool, TextCells
<1>3. PICK k \in DOMAIN written : IsHeadOf(bytes, k) /\ password \in ToSet(Passwords(written[k])) /\ SubSeq(bytes, 10, Len(bytes)) = TextOf(k)
  BY <1>2, HeadDecodes DEF IsDecodedOf
<1>4. IF \/ Len(bytes) < FixedPrefix \/ bytes[3] # Num(1) \/ ~IsNum(bytes[6]) \/ ~IsNum(bytes[7]) THEN FALSE
      ELSE /\ Len(bytes) = FixedPrefix + bytes[6][2] + bytes[7][2]
           /\ Decrypts(head, "header", password)
           /\ Len(head) = PostHeaderSize
           /\ HashesMatch(bytes, head, body, TRUE)
           /\ head[1][2].mechanism = "direct"
           /\ bytes[2] = SignedBy(head[1][2].author, <<bytes[4], bytes[5]>>)
           /\ bytes[1] = IdOf(bytes[2])
  BY DEF DecodeFromBytes, Unreadable
<1>5. Decrypts(body, "body", password) /\ Len(body[1][2]) = head[1][2].post_length
  <2> HIDE DEF bytes, size
  <2>1. body = SubSeq(bytes, 10, Len(bytes)) /\ head = SubSeq(bytes, 8, 9)
    BY <1>1 DEF FixedPrefix, Num
  <2>2. body = TextOf(k) /\ head[1] = bytes[8]
    <3>1. SubSeq(bytes, 8, 9)[1] = bytes[8]
      BY <1>2
    <3> QED
      BY <1>3, <2>1, <3>1
  <2>3. bytes[8] = HeadOf(k)[1]
    <3>1. Encoded(k)[8] = HeadOf(k)[1]
      BY EncodedHead
    <3> QED
      BY <1>3, <3>1 DEF IsHeadOf
  <2>4. HeadOf(k)[1] = <<"header", written[k].header, Passwords(written[k]), 1>>
    BY DEF HeadOf, Encrypt, PostHeaderSize
  <2>5. Len(TextOf(k)) = Len(written[k].text) + 1 /\ Len(written[k].text) \in Nat /\ written[k].header.post_length = Len(written[k].text)
    <3>1. Len(TextOf(k)) = Len(written[k].text) + 1
      BY TextCells
    <3>2. /\ Len(written[k].text) \in Nat
          /\ written[k].header = [author |-> written[k].author, linked |-> written[k].linked,
                                  post_length |-> Len(written[k].text), mechanism |-> "direct"]
      BY PostFields
    <3> QED
      BY <3>1, <3>2
  <2>6. TextOf(k)[1] = <<"body", written[k].text, Passwords(written[k]), 1>>
    BY <2>5 DEF TextOf, Encrypt
  <2>7. TextOf(k) # <<>> /\ TextOf(k) = Encrypt("body", written[k].text, Passwords(written[k]), Len(TextOf(k)))
    BY <2>5 DEF TextOf
  <2> HIDE DEF head, body
  <2>8. Decrypts(body, "body", password)
    BY <1>3, <2>2, <2>6, <2>7 DEF Decrypts
  <2> QED
    BY <2>2, <2>3, <2>4, <2>5, <2>6, <2>8
<1> HIDE DEF head, body, bytes
<1> DEFINE r == DecodeFromBytes(bytes, password, TRUE, TRUE)
           a == bytes[1]
           b == head[1][2]
           c == body[1][2]
<1>6. r = [ok |-> TRUE, post_id |-> a, header |-> b, post |-> c]
  BY <1>4, <1>5 DEF DecodeFromBytes, head, body
<1> HIDE DEF r, a, b, c
<1>7. r.ok
  BY <1>6
<1> QED
  BY <1>7 DEF bytes, r

\* Few sequences, one after the other.
LEMMA FlatShort ==
  ASSUME NEW ss, NEW n \in 0 .. 2, Len(ss) = n
  PROVE  /\ n = 0 => FlattenSeq(ss) = ss
         /\ n = 1 => FlattenSeq(ss) = ss[1]
         /\ n = 2 => FlattenSeq(ss) = ss[1] \o ss[2]
<1> DEFINE eq(f) == f = [i \in 1 .. n |-> IF i = 1 THEN ss[i] ELSE f[i - 1] \o ss[i]]
           flatten == CHOOSE f : eq(f)
           f0 == [i \in 1 .. n |-> IF i = 1 THEN ss[i] ELSE ss[1] \o ss[i]]
<1>1. n = 0 => FlattenSeq(ss) = ss
  BY DEF FlattenSeq
<1>2. n # 0 => FlattenSeq(ss) = flatten[n]
  BY DEF FlattenSeq
<1>3. ASSUME NEW i \in 1 .. n PROVE f0[i] = IF i = 1 THEN ss[i] ELSE f0[i - 1] \o ss[i]
  <2>1. i = 1 \/ (i = 2 /\ i - 1 \in 1 .. n /\ i - 1 = 1)
    OBVIOUS
  <2> QED
    BY <2>1
<1>4. eq(f0)
  BY <1>3
<1>5. eq(flatten)
  BY <1>4
<1> HIDE DEF flatten
<1>6. \A i \in 1 .. n : flatten[i] = IF i = 1 THEN ss[i] ELSE flatten[i - 1] \o ss[i]
  BY <1>5
<1> HIDE DEF eq
<1>7. n = 1 => flatten[n] = ss[1]
  BY <1>6
<1>8. n = 2 => flatten[n] = ss[1] \o ss[2]
  <2>1. ASSUME n = 2 PROVE flatten[1] = ss[1] /\ flatten[2] = flatten[1] \o ss[2]
    BY <1>6, <2>1
  <2> QED
    BY <2>1
<1>9. (n = 1 => n # 0) /\ (n = 2 => n # 0)
  OBVIOUS
<1> QED
  BY <1>1, <1>2, <1>7, <1>8, <1>9, ZenonT(30)

\* The posts of a short list, one after the other.
LEMMA BodyIs ==
  ASSUME NEW n \in 0 .. 2, NEW list \in [1 .. n -> DOMAIN written]
  PROVE  /\ n = 0 => BodyOf(list) = <<>>
         /\ n = 1 => BodyOf(list) = Encoded(list[1])
         /\ n = 2 => BodyOf(list) = Encoded(list[1]) \o Encoded(list[2])
<1> DEFINE ss == [i \in DOMAIN list |-> Encoded(list[i])]
<1>1. /\ Len(ss) = n /\ (n = 0 => ss = <<>>)
      /\ (n >= 1 => ss[1] = Encoded(list[1])) /\ (n = 2 => ss[2] = Encoded(list[2]))
  OBVIOUS
<1>2. BodyOf(list) = FlattenSeq(ss)
  BY DEF BodyOf
<1> HIDE DEF ss
<1>3. /\ n = 0 => FlattenSeq(ss) = ss
      /\ n = 1 => FlattenSeq(ss) = ss[1]
      /\ n = 2 => FlattenSeq(ss) = ss[1] \o ss[2]
  BY <1>1, FlatShort
<1>4. (n = 1 => n >= 1) /\ (n = 2 => n >= 1)
  OBVIOUS
<1> QED
  BY <1>1, <1>2, <1>3, <1>4, ZenonT(30)

\* What a list makes of the posts is of their cells.
LEMMA BodyInPool ==
  ASSUME written \in Seq(Posts), NEW n \in 0 .. 2, NEW list \in [1 .. n -> DOMAIN written]
  PROVE  BodyOf(list) \in Seq(Pool)
<1>1. \A i \in 1 .. n : Encoded(list[i]) \in Seq(Pool)
  BY EncodedInPool
<1>2. CASE n = 0
  BY <1>2, BodyIs, EmptySeq
<1>3. CASE n = 1
  BY <1>1, <1>3, BodyIs
<1>4. CASE n = 2
  <2>1. Encoded(list[1]) \in Seq(Pool) /\ Encoded(list[2]) \in Seq(Pool)
    BY <1>1, <1>4
  <2>2. Encoded(list[1]) \o Encoded(list[2]) \in Seq(Pool)
    BY <2>1, Joined DEF AreJoined
  <2> QED
    BY <1>4, <2>2, BodyIs
<1> QED
  BY <1>2, <1>3, <1>4

\* The cells of a bundle's bytes.
IsBundle(t, h, body, S) ==
  /\ \E X : t \in Seq(X)
  /\ Len(body) \in Nat /\ Len(t) = 5 + Len(body)
  /\ t[1] = Num(1) /\ t[2] = Num(2) /\ t[3] = Num(Len(body))
  /\ t[4] = <<"json", h, <<>>, 1>> /\ t[5] = <<"json", h, <<>>, 2>>
  /\ \A i \in 1 .. Len(body) : t[5 + i] = body[i]

\* to_bytes writes these cells.
LEMMA BundleBytes ==
  ASSUME NEW h, NEW S, NEW body \in Seq(S)
  PROVE  IsBundle(BundleToBytes([header |-> h, body |-> body]), h, body, S)
<1> DEFINE fixed == <<Num(1), Num(2), Num(Len(body))>>
           json == <<<<"json", h, <<>>, 1>>, <<"json", h, <<>>, 2>>>>
           X == {fixed[i] : i \in 1 .. 3} \cup {json[i] : i \in 1 .. 2} \cup S
           front == fixed \o json
           t == front \o body
<1>1. Encrypt("json", h, <<>>, PostHeaderSize) = json
  BY DEF Encrypt, PostHeaderSize
<1>2. BundleToBytes([header |-> h, body |-> body]) = t
  <2>1. BundleToBytes([header |-> h, body |-> body]) = <<Num(1), Num(2), Num(Len(body))>> \o Encrypt("json", h, <<>>, PostHeaderSize) \o body
    BY DEF BundleToBytes, PostHeaderSize
  <2> HIDE DEF json
  <2> QED
    BY <1>1, <2>1
<1>3. fixed \in Seq(X) /\ Len(fixed) = 3 /\ fixed[1] = Num(1) /\ fixed[2] = Num(2) /\ fixed[3] = Num(Len(body))
  OBVIOUS
<1>4. json \in Seq(X) /\ Len(json) = 2 /\ json[1] = <<"json", h, <<>>, 1>> /\ json[2] = <<"json", h, <<>>, 2>>
  OBVIOUS
<1>5. body \in Seq(X) /\ Len(body) \in Nat
  OBVIOUS
<1> HIDE DEF fixed, json, X
<1>6. AreJoined(front, fixed, json, X)
  BY <1>3, <1>4, Joined
<1> HIDE DEF front
<1>7. /\ front \in Seq(X) /\ Len(front) = 5
      /\ front[1] = Num(1) /\ front[2] = Num(2) /\ front[3] = Num(Len(body))
      /\ front[4] = json[1] /\ front[5] = json[2]
  <2>1. /\ \A i \in 1 .. 3 : front[i] = fixed[i]
        /\ \A i \in 1 .. 2 : front[3 + i] = json[i]
    BY <1>3, <1>4, <1>6 DEF AreJoined
  <2>2. front[4] = json[1] /\ front[5] = json[2]
    BY <2>1
  <2> QED
    BY <1>3, <1>4, <1>6, <2>1, <2>2 DEF AreJoined
<1>8. AreJoined(t, front, body, X)
  BY <1>5, <1>7, Joined
<1> HIDE DEF t
<1>9. /\ t \in Seq(X) /\ Len(t) = 5 + Len(body)
      /\ \A i \in 1 .. 5 : t[i] = front[i]
      /\ \A i \in 1 .. Len(body) : t[5 + i] = body[i]
  BY <1>5, <1>7, <1>8 DEF AreJoined
<1>10. t[1] = Num(1) /\ t[2] = Num(2) /\ t[3] = Num(Len(body)) /\ t[4] = json[1] /\ t[5] = json[2]
  BY <1>7, <1>9
<1>11. IsBundle(t, h, body, S)
  BY <1>4, <1>5, <1>9, <1>10 DEF IsBundle
<1> QED
  BY <1>2, <1>11

\* Bytes that begin as others, cut short or run on.
IsStart(u, t) == Len(u) \in Nat /\ Len(u) >= 4 /\ \A i \in 1 .. Len(u) : i <= Len(t) => u[i] = t[i]

\* The bytes of a bundle on arrival.
Arrives(u, t, h, body, S, exactly) ==
  /\ body \in Seq(S) /\ exactly \in BOOLEAN
  /\ IsBundle(t, h, body, S) /\ IsStart(u, t) /\ (exactly \/ Len(u) <= Len(t))

ReadsBack(u, h, body, exactly) ==
  LET r == BundleFromBytes(u, TRUE, exactly) IN r.ok => r.header = h /\ r.body = body

\* Of bytes that begin as those of a bundle, read as a bundle, nothing else can come.
LEMMA BundleReads ==
  ASSUME NEW h, NEW S, NEW body, NEW t, NEW u, NEW exactly, Arrives(u, t, h, body, S, exactly)
  PROVE  ReadsBack(u, h, body, exactly)
<1> SUFFICES ASSUME BundleFromBytes(u, TRUE, exactly).ok
             PROVE  BundleFromBytes(u, TRUE, exactly).header = h /\ BundleFromBytes(u, TRUE, exactly).body = body
  BY DEF ReadsBack
<1>b. body \in Seq(S) /\ exactly \in BOOLEAN /\ IsBundle(t, h, body, S) /\ IsStart(u, t) /\ (exactly \/ Len(u) <= Len(t))
  BY DEF Arrives
<1> DEFINE r == BundleFromBytes(u, TRUE, exactly)
<1>1. /\ Len(body) \in Nat /\ Len(t) = 5 + Len(body) /\ \E X : t \in Seq(X)
      /\ t[2] = Num(2) /\ t[3] = Num(Len(body)) /\ t[4] = <<"json", h, <<>>, 1>>
      /\ \A i \in 1 .. Len(body) : t[5 + i] = body[i]
  BY <1>b DEF IsBundle
<1>a. Len(u) \in Nat /\ Len(u) >= 4 /\ \A i \in 1 .. Len(u) : i <= Len(t) => u[i] = t[i]
  BY <1>b DEF IsStart
<1>2. u[2] = Num(2) /\ u[3] = Num(Len(body)) /\ u[4] = <<"json", h, <<>>, 1>>
  BY <1>1, <1>a
<1>3. u[2][2] = 2 /\ u[3][2] = Len(body) /\ u[4][2] = h
  BY <1>2 DEF Num
<1> DEFINE rest == SubSeq(u, 6, 5 + u[3][2])
           out == [ok |-> TRUE, header |-> u[4][2], body |-> rest]
           refused ==
             \/ Len(u) < 3
             \/ u[1] # Num(1)
             \/ ~IsNum(u[2]) \/ ~IsNum(u[3])
             \/ Len(u) < 3 + u[2][2] + u[3][2]
             \/ u[2][2] # PostHeaderSize
             \/ u[4][1] # "json"
             \/ SubSeq(u, 4, 5) # Encrypt("json", u[4][2], <<>>, PostHeaderSize)
             \/ exactly /\ Len(u) # 3 + u[2][2] + u[3][2]
<1>4. r = IF refused THEN Unreadable ELSE out
  BY DEF BundleFromBytes
<1>5. ~Unreadable.ok
  BY DEF Unreadable
<1> HIDE DEF r
<1>6. ~refused /\ r = out
  <2>1. r # Unreadable
    BY <1>5 DEF r
  <2> HIDE DEF refused, out
  <2> QED
    BY <1>4, <2>1
<1>7. Len(u) = 5 + Len(body)
  <2>1. ~(Len(u) < 3 + u[2][2] + u[3][2]) /\ ~(exactly /\ Len(u) # 3 + u[2][2] + u[3][2])
    BY <1>6
  <2> HIDE DEF refused, out
  <2> QED
    BY <1>1, <1>3, <1>a, <1>b, <2>1
<1>8. rest = body
  <2> DEFINE n == Len(body)
             X == {body[i] : i \in 1 .. n}
             a == 5
             b == 5 + n
  <2>1. n \in Nat /\ a \in Nat /\ b \in Nat /\ a <= b /\ b - a = n /\ a + 1 = 6 /\ rest = SubSeq(u, 6, b)
    BY <1>1, <1>3
  <2>2. \A i \in 1 .. n : u[5 + i] = body[i]
    <3>1. \A i \in 1 .. n : 5 + i \in 1 .. Len(u) /\ 5 + i <= Len(t)
      BY <1>1, <1>7
    <3> QED
      BY <1>1, <1>a, <3>1
  <2> HIDE DEF rest, n, out, refused
  <2>3. /\ SubSeq(u, 6, b) \in Seq(X) /\ Len(SubSeq(u, 6, b)) = n
        /\ \A i \in 1 .. n : SubSeq(u, 6, b)[i] = u[5 + i]
    <3>1. 6 \in Int /\ b \in Int /\ \A i \in 6 .. b : u[i] \in X
      <4>1. ASSUME NEW i \in 6 .. b PROVE u[i] \in X
        <5>1. i - 5 \in 1 .. n /\ 5 + (i - 5) = i
          BY <2>1
        <5> QED
          BY <2>2, <5>1
      <4> QED
        BY <2>1, <4>1
    <3> DEFINE m == 6
    <3>2. m \in Int /\ b \in Int /\ \A i \in m .. b : u[i] \in X
      BY <3>1
    <3> HIDE DEF m, X, b
    <3>3. /\ SubSeq(u, m, b) \in Seq(X)
          /\ Len(SubSeq(u, m, b)) = IF m <= b THEN b - m + 1 ELSE 0
          /\ \A i \in 1 .. b - m + 1 : SubSeq(u, m, b)[i] = u[m + i - 1]
      BY <3>2, SubSeqProperties
    <3> DEFINE w == SubSeq(u, m, b)
    <3>4. /\ w \in Seq(X) /\ Len(w) = (IF m <= b THEN b - m + 1 ELSE 0)
          /\ \A i \in 1 .. b - m + 1 : w[i] = u[m + i - 1]
      BY <3>3
    <3> HIDE DEF w
    <3>5. m = 6 /\ b = 5 + n
      BY DEF m, b
    <3>6. Len(w) = n /\ \A i \in 1 .. n : w[i] = u[5 + i]
      <4>1. Len(w) = n
        BY <2>1, <3>4, <3>5
      <4>2. ASSUME NEW i \in 1 .. n PROVE w[i] = u[5 + i]
        <5>1. i \in 1 .. b - m + 1 /\ m + i - 1 = 5 + i
          BY <2>1, <3>5
        <5> QED
          BY <3>4, <5>1
      <4> QED
        BY <4>1, <4>2
    <3> QED
      BY <3>4, <3>6 DEF w, m
  <2>4. body \in Seq(X)
    <3>1. \A i \in 1 .. Len(body) : body[i] \in X
      BY DEF n
    <3> QED
      BY <1>b, <3>1, SeqOver
  <2>5. \A i \in 1 .. n : SubSeq(u, 6, b)[i] = body[i]
    BY <2>2, <2>3
  <2> QED
    BY <2>1, <2>3, <2>4, <2>5, SeqEqual DEF n
<1> HIDE DEF rest, refused
<1>9. r.header = u[4][2] /\ r.body = rest
  BY <1>6
<1> QED
  BY <1>3, <1>8, <1>9 DEF r

\* The header of a bundle of two posts at most.
HeaderFits(h) ==
  /\ \E X : h.ids \in Seq(X)
  /\ Len(h.ids) \in 0 .. 2
  /\ h.lengths \in Seq(Nat) /\ Len(h.lengths) \in 0 .. 2

\* Where the posts of a bundle start.
LEMMA OffsetIs ==
  ASSUME NEW h, HeaderFits(h)
  PROVE  LET n == Len(h.lengths)
         IN /\ Offset(h, 1) = 0
            /\ n >= 1 => Offset(h, 2) = h.lengths[1]
            /\ n = 2 => Offset(h, 3) = h.lengths[1] + h.lengths[2]
            /\ \A i \in 1 .. n : h.lengths[i] \in Nat
<1> DEFINE n == Len(h.lengths)
           l == h.lengths
           eq(f) == f = [i \in 1 .. n + 1 |-> IF i = 1 THEN 0 ELSE f[i - 1] + l[i - 1]]
           start == CHOOSE f : eq(f)
           f0 == [i \in 1 .. n + 1 |-> IF i = 1 THEN 0 ELSE IF i = 2 THEN 0 + l[1] ELSE (0 + l[1]) + l[2]]
<1>1. n \in 0 .. 2 /\ \A i \in 1 .. n : l[i] \in Nat
  BY DEF HeaderFits
<1>2. \A i : Offset(h, i) = start[i]
  BY DEF Offset
<1> HIDE DEF n, l
<1>3. ASSUME NEW i \in 1 .. n + 1 PROVE f0[i] = IF i = 1 THEN 0 ELSE f0[i - 1] + l[i - 1]
  <2>1. i = 1 \/ (i = 2 /\ i - 1 \in 1 .. n + 1 /\ i - 1 = 1) \/ (i = 3 /\ i - 1 \in 1 .. n + 1 /\ i - 1 = 2)
    BY <1>1
  <2> QED
    BY <2>1
<1>4. eq(f0)
  BY <1>3
<1>5. eq(start)
  BY <1>4
<1> HIDE DEF start
<1>6. \A i \in 1 .. n + 1 : start[i] = IF i = 1 THEN 0 ELSE start[i - 1] + l[i - 1]
  BY <1>5
<1> HIDE DEF eq
<1>7. start[1] = 0
  BY <1>1, <1>6
<1>8. n >= 1 => start[2] = l[1]
  <2>1. ASSUME n >= 1 PROVE start[2] = start[1] + l[1]
    BY <1>1, <1>6, <2>1
  <2> QED
    BY <1>1, <1>7, <2>1
<1>9. n = 2 => start[3] = l[1] + l[2]
  <2>1. ASSUME n = 2 PROVE start[3] = start[2] + l[2]
    BY <1>6, <2>1
  <2> QED
    BY <1>1, <1>8, <2>1
<1>10. /\ Offset(h, 1) = 0
       /\ n >= 1 => Offset(h, 2) = l[1]
       /\ n = 2 => Offset(h, 3) = l[1] + l[2]
       /\ \A i \in 1 .. n : l[i] \in Nat
  BY <1>1, <1>2, <1>7, <1>8, <1>9
<1> QED
  BY <1>10 DEF n, l

\* A bundle that verified holds the posts of a list.
BundleHolds(b, base, list) ==
  /\ Len(b.header.ids) \in 0 .. 2 /\ list \in [1 .. Len(b.header.ids) -> DOMAIN written]
  /\ b.header.num_posts = Len(b.header.ids)
  /\ \E X : b.header.ids \in Seq(X)
  /\ \A i \in 1 .. Len(b.header.ids) :
       /\ b.header.ids[i] = Encoded(list[i])[1]
       /\ Slice(b, i) = Encoded(list[i])
       /\ DecodeFromBytes(Slice(b, i), base, TRUE, FALSE).ok
  /\ b.body = BodyOf(list)
  /\ b.header.healed \subseteq ToSet(b.header.ids)

\* Lists of two at most are counted without wrapping.
LEMMA CountsFew == \A n \in 0 .. 2 : n % CountWidth = n
<1>1. MaxWritten \in Nat /\ CountWidth \in Nat /\ MaxWritten # 0 /\ MaxWritten + 1 < CountWidth
  BY PostBytesAssumption
<1>2. CountWidth \in Nat /\ CountWidth > 2
  BY <1>1
<1> QED
  BY <1>2

\* The posts of a bundle that verifies.
LEMMA Verified ==
  ASSUME written \in Seq(Posts), NEW b, NEW base, HeaderFits(b.header), b.body \in Seq(Pool), VerifyBundle(b, base)
  PROVE  \E list : BundleHolds(b, base, list)
<1> DEFINE h == b.header
           n == Len(h.ids)
           l == h.lengths
<1>1. /\ n \in 0 .. 2 /\ Len(l) = n /\ h.num_posts = n /\ h.healed \subseteq ToSet(h.ids)
      /\ \E X : h.ids \in Seq(X)
  <2>1. /\ h.num_posts = Len(h.lengths) % CountWidth /\ h.num_posts = Len(h.ids) % CountWidth
        /\ h.healed \subseteq ToSet(h.ids)
    BY DEF VerifyBundle, VerifyHeader
  <2>2. Len(h.ids) \in 0 .. 2 /\ Len(h.lengths) \in 0 .. 2 /\ \E X : h.ids \in Seq(X)
    BY DEF HeaderFits
  <2>3. Len(h.lengths) % CountWidth = Len(h.lengths) /\ Len(h.ids) % CountWidth = Len(h.ids)
    BY <2>2, CountsFew
  <2> QED
    BY <2>1, <2>2, <2>3
<1>2. Offset(h, n + 1) = Len(b.body) /\ Len(b.body) \in Nat
  <2>1. Offset(b.header, Len(b.header.lengths) + 1) = Len(b.body)
    BY DEF VerifyBundle, LengthsSpan
  <2> QED
    BY <1>1, <2>1
<1>3. \A i \in 1 .. n : Slice(b, i)[1] = h.ids[i] /\ DecodeFromBytes(Slice(b, i), base, TRUE, FALSE).ok
  <2>1. Smallest(Len(b.header.lengths), Len(b.header.ids)) = n
    BY <1>1 DEF Smallest
  <2> QED
    BY <2>1 DEF VerifyBundle
<1>4. /\ Offset(h, 1) = 0
      /\ n >= 1 => Offset(h, 2) = l[1]
      /\ n = 2 => Offset(h, 3) = l[1] + l[2]
      /\ \A i \in 1 .. n : l[i] \in Nat
  BY <1>1, OffsetIs
<1>5. \A i \in 1 .. n : /\ Offset(h, i) \in Nat /\ Offset(h, i) + l[i] \in Nat /\ Offset(h, i) <= Offset(h, i) + l[i]
                        /\ Offset(h, i) + l[i] <= Len(b.body)
                        /\ Slice(b, i) = SubSeq(b.body, Offset(h, i) + 1, Offset(h, i) + l[i])
  <2>1. ASSUME NEW i \in 1 .. n PROVE Slice(b, i) = SubSeq(b.body, Offset(h, i) + 1, Offset(h, i) + l[i])
    BY DEF Slice
  <2> HIDE DEF h, n, l
  <2>2. ASSUME NEW i \in 1 .. n
        PROVE  Offset(h, i) \in Nat /\ Offset(h, i) + l[i] \in Nat /\ Offset(h, i) <= Offset(h, i) + l[i] /\ Offset(h, i) + l[i] <= Len(b.body)
    <3>1. CASE n = 1
      BY <1>2, <1>4, <3>1
    <3>2. CASE n = 2
      BY <1>2, <1>4, <3>2
    <3> QED
      BY <1>1, <3>1, <3>2
  <2> QED
    BY <2>1, <2>2
<1>6. \A i \in 1 .. n : Slice(b, i) \in Seq(Pool)
  <2>1. ASSUME NEW i \in 1 .. n PROVE Slice(b, i) \in Seq(Pool)
    <3> DEFINE x == Offset(h, i)
               y == Offset(h, i) + l[i]
    <3>1. x \in Nat /\ y \in Nat /\ x <= y /\ y <= Len(b.body) /\ Slice(b, i) = SubSeq(b.body, x + 1, y)
      BY <1>5
    <3> HIDE DEF x, y
    <3>2. IsPart(SubSeq(b.body, x + 1, y), b.body, x, y, Pool)
      BY <3>1, Parted
    <3> QED
      BY <3>1, <3>2 DEF IsPart
  <2> QED
    BY <2>1
<1> DEFINE list == [i \in 1 .. n |-> CHOOSE m \in DOMAIN written : Slice(b, i) = Encoded(m)]
<1>7. \A i \in 1 .. n : \E m \in DOMAIN written : Slice(b, i) = Encoded(m)
  BY <1>3, <1>6, WholeDecodes
<1> HIDE DEF h, n, l
<1>8. list \in [1 .. n -> DOMAIN written] /\ \A i \in 1 .. n : Slice(b, i) = Encoded(list[i])
  BY <1>7
<1> HIDE DEF list
<1>9. b.body = BodyOf(list)
  <2>1. CASE n = 0
    <3>1. Len(b.body) = 0
      BY <1>2, <1>4, <2>1
    <3>2. b.body = <<>>
      BY <3>1, EmptySeq
    <3> QED
      BY <1>1, <1>8, <2>1, <3>2, BodyIs
  <2>2. CASE n = 1
    <3>1. 1 \in 1 .. n /\ Len(b.body) = l[1] /\ 0 + 1 = 1 /\ 0 + l[1] = l[1]
      BY <1>2, <1>4, <2>2
    <3>2. Slice(b, 1) = SubSeq(b.body, 1, Len(b.body))
      BY <1>4, <1>5, <3>1
    <3>3. SubSeq(b.body, 1, Len(b.body)) = b.body
      BY SubSeqFull
    <3>4. b.body = Encoded(list[1])
      BY <1>8, <3>1, <3>2, <3>3
    <3> QED
      BY <1>1, <1>8, <2>2, <3>4, BodyIs
  <2>3. CASE n = 2
    <3>1. /\ 1 \in 1 .. n /\ 2 \in 1 .. n /\ l[1] \in Nat /\ l[2] \in Nat /\ Len(b.body) = l[1] + l[2]
          /\ 0 + 1 = 1 /\ 0 + l[1] = l[1]
      BY <1>2, <1>4, <2>3
    <3>2. Slice(b, 1) = SubSeq(b.body, 1, l[1])
      <4>1. Slice(b, 1) = SubSeq(b.body, Offset(h, 1) + 1, Offset(h, 1) + l[1])
        BY <1>5, <3>1, Zenon
      <4> QED
        BY <1>4, <3>1, <4>1
    <3>3. Slice(b, 2) = SubSeq(b.body, l[1] + 1, Len(b.body))
      <4>1. Slice(b, 2) = SubSeq(b.body, Offset(h, 2) + 1, Offset(h, 2) + l[2])
        BY <1>5, <3>1, Zenon
      <4>2. Offset(h, 2) = l[1]
        BY <1>4, <2>3
      <4> QED
        BY <3>1, <4>1, <4>2
    <3>4. SubSeq(b.body, 1, l[1]) \o SubSeq(b.body, l[1] + 1, Len(b.body)) = SubSeq(b.body, 1, Len(b.body))
      <4> DEFINE m == 1
                 k == l[1]
                 z == Len(b.body)
      <4>1. m \in 1 .. z + 1 /\ k \in m - 1 .. z /\ z \in k .. z
        BY <3>1
      <4> HIDE DEF m, k
      <4>2. SubSeq(b.body, m, k) \o SubSeq(b.body, k + 1, z) = SubSeq(b.body, m, z)
        BY <4>1, ConcatAdjacentSubSeq
      <4> QED
        BY <4>2 DEF m, k
    <3>5. SubSeq(b.body, 1, Len(b.body)) = b.body
      BY SubSeqFull
    <3>6. b.body = Encoded(list[1]) \o Encoded(list[2])
      BY <1>8, <3>1, <3>2, <3>3, <3>4, <3>5
    <3> QED
      BY <1>1, <1>8, <2>3, <3>6, BodyIs
  <2> QED
    BY <1>1, <2>1, <2>2, <2>3
<1>10. \A i \in 1 .. n : h.ids[i] = Encoded(list[i])[1]
  BY <1>3, <1>8
<1>11. BundleHolds(b, base, list)
  BY <1>1, <1>3, <1>8, <1>9, <1>10 DEF BundleHolds, h, n
<1> QED
  BY <1>11

\* The lists of posts a host may hold.
LEMMA ListsAre ==
  ASSUME NEW list \in Lists
  PROVE  \E n \in 0 .. 2 : list \in [1 .. n -> DOMAIN written]
<1>1. CASE list = <<>>
  <2>1. list \in [1 .. 0 -> DOMAIN written]
    BY <1>1
  <2> QED
    BY <2>1
<1>2. CASE \E m \in DOMAIN written : list = <<m>>
  <2>1. list \in [1 .. 1 -> DOMAIN written]
    BY <1>2
  <2> QED
    BY <2>1
<1>3. CASE \E m, k \in DOMAIN written : list = <<m, k>>
  <2>1. list \in [1 .. 2 -> DOMAIN written]
    BY <1>3
  <2> QED
    BY <2>1
<1> QED
  BY <1>1, <1>2, <1>3 DEF Lists

\* The fields of the header of a bundle.
HeaderNames == {"ts", "location_id", "overflowed", "sealed", "num_posts", "ids", "lengths", "healed", "peer", "signature"}

\* A host's header fits its posts.
LEMMA HeaderOfIs ==
  ASSUME written \in Seq(Posts), NEW k, NEW list \in Lists, NEW healed
  PROVE  LET h == HeaderOf(k, list, healed)
         IN h = [f \in HeaderNames |-> h[f]] /\ HeaderFits(h)
<1> DEFINE h == HeaderOf(k, list, healed)
           ids == [i \in DOMAIN list |-> Encoded(list[i])[1]]
           lengths == [i \in DOMAIN list |-> Len(Encoded(list[i]))]
           back == {Encoded(list[i])[1] : i \in healed}
           plain == [ts |-> Len(list), location_id |-> "location", overflowed |-> FALSE, sealed |-> FALSE,
                     num_posts |-> Len(list) % CountWidth, ids |-> ids, lengths |-> lengths,
                     healed |-> back, peer |-> k, signature |-> <<>>]
<1>1. PICK n \in 0 .. 2 : list \in [1 .. n -> DOMAIN written]
  BY ListsAre
<1>2. ids \in Seq({ids[i] : i \in 1 .. n}) /\ Len(ids) = n
  BY <1>1
<1>3. lengths \in Seq(Nat) /\ Len(lengths) = n
  <2>1. ASSUME NEW i \in 1 .. n PROVE Len(Encoded(list[i])) \in Nat
    <3>1. Encoded(list[i]) \in Seq(Pool)
      BY <1>1, EncodedInPool
    <3> QED
      BY <3>1
  <2> QED
    BY <1>1, <2>1
<1>4. h = SignBundle(plain, k)
  BY DEF HeaderOf
<1> HIDE DEF ids, lengths, back
<1> DEFINE signed == [plain EXCEPT !.signature = SignedBy(k, HashForSigning(plain))]
<1>5. h = signed
  BY <1>4 DEF SignBundle
<1>6. \A w : LET s == [ts |-> Len(list), location_id |-> "location", overflowed |-> FALSE, sealed |-> FALSE,
                       num_posts |-> Len(list) % CountWidth, ids |-> ids, lengths |-> lengths,
                       healed |-> back, peer |-> k, signature |-> w]
             IN s = [f \in HeaderNames |-> s[f]] /\ s.ids = ids /\ s.lengths = lengths
  BY DEF HeaderNames
<1>7. \E w : h = [ts |-> Len(list), location_id |-> "location", overflowed |-> FALSE, sealed |-> FALSE,
                  num_posts |-> Len(list) % CountWidth, ids |-> ids, lengths |-> lengths,
                  healed |-> back, peer |-> k, signature |-> w]
  <2> DEFINE w == SignedBy(k, HashForSigning(plain))
  <2>1. h = [plain EXCEPT !.signature = w]
    BY <1>5
  <2> HIDE DEF w, h
  <2>2. h = [ts |-> Len(list), location_id |-> "location", overflowed |-> FALSE, sealed |-> FALSE,
             num_posts |-> Len(list) % CountWidth, ids |-> ids, lengths |-> lengths,
             healed |-> back, peer |-> k, signature |-> w]
    BY <2>1
  <2> QED
    BY <2>2
<1> HIDE DEF h, signed, plain
<1>8. h = [f \in HeaderNames |-> h[f]] /\ h.ids = ids /\ h.lengths = lengths
  BY <1>6, <1>7
<1>9. HeaderFits(h)
  <2>1. \E X : ids \in Seq(X)
    BY <1>2
  <2> QED
    BY <1>2, <1>3, <1>8, <2>1 DEF HeaderFits
<1> QED
  BY <1>8, <1>9 DEF h

\* One field taken from another header that fits, and signing, leave a header that fits.
LEMMA MixedFits ==
  ASSUME NEW h, h = [f \in HeaderNames |-> h[f]], HeaderFits(h), NEW g, HeaderFits(g),
         NEW field \in {"ts", "ids", "lengths", "healed", "num_posts"}, NEW k
  PROVE  HeaderFits([h EXCEPT ![field] = g[field]]) /\ HeaderFits(SignBundle([h EXCEPT ![field] = g[field]], k))
<1> DEFINE m == [h EXCEPT ![field] = g[field]]
           s == SignBundle(m, k)
<1>1. /\ m = [f \in HeaderNames |-> m[f]]
      /\ m["ids"] = IF field = "ids" THEN g["ids"] ELSE h["ids"]
      /\ m["lengths"] = IF field = "lengths" THEN g["lengths"] ELSE h["lengths"]
  BY DEF HeaderNames
<1> HIDE DEF m
<1>2. s["ids"] = m["ids"] /\ s["lengths"] = m["lengths"]
  BY <1>1 DEF SignBundle, HeaderNames
<1> HIDE DEF s
<1>3. HeaderFits(m)
  BY <1>1 DEF HeaderFits
<1>4. HeaderFits(s)
  BY <1>2, <1>3 DEF HeaderFits
<1> QED
  BY <1>3, <1>4 DEF m, s

\* The least of a few.
LEMMA MinOf ==
  ASSUME NEW A \in SUBSET Nat, A # {}
  PROVE  Min(A) \in A
<1>1. PICK m \in A : \A k \in A : m <= k
  BY LeastNatural
<1> QED
  BY <1>1 DEF Min

\* What get_post returns from a bundle that holds the posts of a list.
GotIsAsked(b, id, out) ==
  /\ out.ok <=> \E i \in DOMAIN b.header.ids : b.header.ids[i] = id
  /\ out.ok => /\ out.post_id = id
               /\ \E n \in DOMAIN written : Encoded(n)[1] = id /\ out.post = written[n].text

\* get_post finds what the header names, and only that.
LEMMA GotFrom ==
  ASSUME written \in Seq(Posts), NEW b, NEW base, NEW list, BundleHolds(b, base, list), NEW id
  PROVE  GotIsAsked(b, id, GetPost(b, id, base))
<1> DEFINE n == Len(b.header.ids)
           at == IndicesOf(b, id)
           out == GetPost(b, id, base)
<1>1. /\ n \in 0 .. 2 /\ DOMAIN b.header.ids = 1 .. n /\ list \in [1 .. n -> DOMAIN written]
      /\ at = {i \in 1 .. n : b.header.ids[i] = id}
  BY DEF BundleHolds, IndicesOf
<1>2. \A i \in 1 .. n : /\ b.header.ids[i] = Encoded(list[i])[1]
                        /\ Slice(b, i) = Encoded(list[i])
                        /\ DecodeFromBytes(Slice(b, i), base, TRUE, FALSE).ok
  BY DEF BundleHolds
<1> HIDE DEF n
<1>3. CASE at = {}
  <2>1. out = Unreadable
    BY <1>3 DEF GetPost
  <2> HIDE DEF out
  <2>2. ~out.ok
    BY <2>1 DEF Unreadable
  <2>3. ~\E i \in DOMAIN b.header.ids : b.header.ids[i] = id
    BY <1>1, <1>3
  <2>4. GotIsAsked(b, id, out)
    BY <2>2, <2>3 DEF GotIsAsked
  <2> QED
    BY <2>4 DEF out
<1>4. CASE at # {}
  <2> DEFINE i == Min(at)
             e == Encoded(list[i])
  <2>1. i \in at
    <3>1. at \in SUBSET Nat
      BY <1>1
    <3> HIDE DEF at
    <3> QED
      BY <1>4, <3>1, MinOf
  <2>2. out = DecodeFromBytes(Slice(b, i), base, TRUE, TRUE)
    BY <1>4 DEF GetPost
  <2> HIDE DEF at, i, out
  <2>3. i \in 1 .. n /\ b.header.ids[i] = id /\ list[i] \in DOMAIN written
    BY <1>1, <2>1
  <2>4. Slice(b, i) = e /\ id = e[1] /\ DecodeFromBytes(e, base, TRUE, FALSE).ok
    BY <1>2, <2>3
  <2>5. out = DecodeFromBytes(e, base, TRUE, TRUE)
    BY <2>2, <2>4
  <2>6. DecodeFromBytes(e, base, TRUE, TRUE).ok /\ e \in Seq(Pool)
    BY <2>3, <2>4, Reopened, EncodedInPool
  <2> HIDE DEF e
  <2>7. PICK m \in DOMAIN written :
           /\ e = Encoded(m)
           /\ IsDecodedOf(DecodeFromBytes(e, base, TRUE, TRUE), m, base)
           /\ TRUE => DecodeFromBytes(e, base, TRUE, TRUE).post = written[m].text
    BY <2>6, WholeDecodes
  <2>8. out.ok /\ out.post_id = id /\ Encoded(m)[1] = id /\ out.post = written[m].text
    BY <2>4, <2>5, <2>6, <2>7 DEF IsDecodedOf
  <2>9. \E j \in DOMAIN b.header.ids : b.header.ids[j] = id
    BY <1>1, <2>3
  <2>10. GotIsAsked(b, id, out)
    BY <2>8, <2>9 DEF GotIsAsked
  <2> QED
    BY <2>10 DEF out
<1> QED
  BY <1>3, <1>4

\* The cells of two entries of feedback.
TwoEntries(e, f) == EncodeFeedback(e) \o EncodeFeedback(f)

\* Cut at the size of an entry they are the two entries.
LEMMA TwoEntriesAre ==
  ASSUME NEW e, NEW f
  PROVE  LET cells == TwoEntries(e, f)
         IN /\ \E X : cells \in Seq(X)
            /\ Len(cells) = 4 /\ Len(cells) \div FeedbackSize = 2
            /\ FeedbackAt(cells, 1) = EncodeFeedback(e) /\ FeedbackAt(cells, 2) = EncodeFeedback(f)
<1> DEFINE s == EncodeFeedback(e)
           t == EncodeFeedback(f)
           X == {s[i] : i \in 1 .. 2} \cup {t[i] : i \in 1 .. 2}
           cells == s \o t
<1>1. s \in Seq(X) /\ Len(s) = 2 /\ t \in Seq(X) /\ Len(t) = 2
  <2>1. /\ s = [i \in 1 .. 2 |-> s[i]]
        /\ t = [i \in 1 .. 2 |-> t[i]]
    BY DEF EncodeFeedback, FeedbackSize
  <2> HIDE DEF s, t
  <2> QED
    BY <2>1
<1> HIDE DEF s, t, X
<1>2. AreJoined(cells, s, t, X)
  BY <1>1, Joined
<1> HIDE DEF cells
<1>3. /\ cells \in Seq(X) /\ Len(cells) = 4
      /\ \A i \in 1 .. 2 : cells[i] = s[i] /\ cells[2 + i] = t[i]
  BY <1>1, <1>2 DEF AreJoined
<1>4. FeedbackAt(cells, 1) = s
  <2>1. FeedbackAt(cells, 1) = SubSeq(cells, 1, 2)
    BY DEF FeedbackAt, FeedbackSize
  <2> DEFINE a == 0
             b == 2
  <2>2. a \in Nat /\ b \in Nat /\ a <= b /\ b <= Len(cells) /\ a + 1 = 1
    BY <1>3
  <2> HIDE DEF a, b
  <2>3. IsPart(SubSeq(cells, a + 1, b), cells, a, b, X)
    BY <1>3, <2>2, Parted
  <2>4. IsPart(FeedbackAt(cells, 1), cells, 0, 2, X)
    BY <2>1, <2>2, <2>3 DEF a, b
  <2>5. FeedbackAt(cells, 1) \in Seq(X) /\ Len(FeedbackAt(cells, 1)) = 2 /\ \A i \in 1 .. 2 : FeedbackAt(cells, 1)[i] = s[i]
    BY <1>3, <2>4 DEF IsPart
  <2> QED
    BY <1>1, <2>5, SeqEqual
<1>5. FeedbackAt(cells, 2) = t
  <2>1. FeedbackAt(cells, 2) = SubSeq(cells, 3, 4)
    BY DEF FeedbackAt, FeedbackSize
  <2> DEFINE a == 2
             b == 4
  <2>2. a \in Nat /\ b \in Nat /\ a <= b /\ b <= Len(cells) /\ a + 1 = 3
    BY <1>3
  <2> HIDE DEF a, b
  <2>3. IsPart(SubSeq(cells, a + 1, b), cells, a, b, X)
    BY <1>3, <2>2, Parted
  <2>4. IsPart(FeedbackAt(cells, 2), cells, 2, 4, X)
    BY <2>1, <2>2, <2>3 DEF a, b
  <2>5. FeedbackAt(cells, 2) \in Seq(X) /\ Len(FeedbackAt(cells, 2)) = 2 /\ \A i \in 1 .. 2 : FeedbackAt(cells, 2)[i] = t[i]
    BY <1>3, <2>4 DEF IsPart
  <2> QED
    BY <1>1, <2>5, SeqEqual
<1>6. Len(cells) \div FeedbackSize = 2
  BY <1>3 DEF FeedbackSize
<1>7. \E Y : cells \in Seq(Y)
  BY <1>3
<1>8. TwoEntries(e, f) = cells
  BY DEF TwoEntries, cells, s, t
<1> QED
  BY <1>3, <1>4, <1>5, <1>6, <1>7, <1>8 DEF s, t

\* Appending makes a pair of one.
LEMMA PairAppended == \A e, f : Append(<<e>>, f) = <<e, f>>
<1> SUFFICES ASSUME NEW e, NEW f PROVE Append(<<e>>, f) = <<e, f>>
  OBVIOUS
<1> DEFINE S == {e, f}
           s == <<e>>
           u == <<e, f>>
           t == Append(s, f)
<1>1. s \in Seq(S) /\ u \in Seq(S) /\ Len(u) = 2 /\ Len(s) = 1 /\ s[1] = e /\ u[1] = e /\ u[2] = f /\ f \in S
  OBVIOUS
<1> HIDE DEF s, u, S
<1> DEFINE r == <<f>>
<1>2. r \in Seq(S) /\ Len(r) = 1 /\ r[1] = f
  BY <1>1
<1>3. t = s \o r
  BY <1>1, AppendIsConcat
<1> HIDE DEF r, t
<1>4. AreJoined(t, s, r, S)
  BY <1>1, <1>2, <1>3, Joined
<1>5. t \in Seq(S) /\ Len(t) = 2 /\ \A i \in 1 .. 1 : t[i] = s[i] /\ t[1 + i] = r[i]
  BY <1>1, <1>2, <1>4 DEF AreJoined
<1>6. Len(t) = 2 /\ \A i \in 1 .. 2 : t[i] = u[i]
  BY <1>1, <1>2, <1>5
<1>7. t = u
  BY <1>1, <1>5, <1>6, SeqEqual
<1> QED
  BY <1>7 DEF s, t, u

\* The view of two entries.
LEMMA FeedbackViewIs ==
  ASSUME NEW e, NEW f
  PROVE  FeedbackView(TwoEntries(e, f)) = <<e, f>>
<1> DEFINE cells == TwoEntries(e, f)
           chunks == Len(cells) \div FeedbackSize
           entry(i) == FeedbackAt(cells, i)
           eq(v) == v = [i \in 0 .. chunks |->
                           IF i = 0 THEN <<>>
                           ELSE IF IsFeedback(entry(i)) THEN Append(v[i - 1], entry(i)[1][2]) ELSE v[i - 1]]
           view == CHOOSE v : eq(v)
<1>1. FeedbackView(cells) = view[chunks]
  BY DEF FeedbackView
<1>2. chunks = 2 /\ entry(1) = EncodeFeedback(e) /\ entry(2) = EncodeFeedback(f)
  BY TwoEntriesAre
<1>3. \A x : IsFeedback(EncodeFeedback(x)) /\ EncodeFeedback(x)[1][2] = x
  <2>1. \A x : EncodeFeedback(x)[1] = <<"feedback", x, 1>>
    BY DEF EncodeFeedback, FeedbackSize
  <2> QED
    BY <2>1 DEF IsFeedback
<1>4. IsFeedback(entry(1)) /\ entry(1)[1][2] = e /\ IsFeedback(entry(2)) /\ entry(2)[1][2] = f
  BY <1>2, <1>3
<1> HIDE DEF chunks, entry, cells
<1> DEFINE one == Append(<<>>, e)
           two == Append(one, f)
<1>a. one = <<e>> /\ two = <<e, f>>
  <2>1. one = <<e>>
    OBVIOUS
  <2> HIDE DEF one
  <2> QED
    BY <2>1, PairAppended
<1> HIDE DEF two
<1>b. two = Append(one, f)
  BY DEF two
<1> HIDE DEF one
<1>c. one = Append(<<>>, e)
  BY DEF one
<1> DEFINE v0 == [i \in 0 .. 2 |-> IF i = 0 THEN <<>> ELSE IF i = 1 THEN one ELSE two]
<1>5. ASSUME NEW i \in 0 .. 2
      PROVE  v0[i] = IF i = 0 THEN <<>> ELSE IF IsFeedback(entry(i)) THEN Append(v0[i - 1], entry(i)[1][2]) ELSE v0[i - 1]
  <2>1. i = 0 \/ (i = 1 /\ i - 1 = 0 /\ i - 1 \in 0 .. 2) \/ (i = 2 /\ i - 1 = 1 /\ i - 1 \in 0 .. 2)
    OBVIOUS
  <2>2. v0[0] = <<>> /\ v0[1] = one /\ v0[2] = two
    OBVIOUS
  <2> HIDE DEF v0
  <2> QED
    BY <1>4, <1>b, <1>c, <2>1, <2>2
<1>6. eq(v0)
  BY <1>2, <1>5
<1>7. eq(view)
  BY <1>6
<1> HIDE DEF view
<1>8. \A i \in 0 .. 2 : view[i] = IF i = 0 THEN <<>> ELSE IF IsFeedback(entry(i)) THEN Append(view[i - 1], entry(i)[1][2]) ELSE view[i - 1]
  BY <1>2, <1>7
<1> HIDE DEF eq
<1>9. view[0] = <<>>
  BY <1>8
<1>10. view[1] = Append(view[0], e)
  <2>1. 1 \in 0 .. 2 /\ 1 # 0 /\ 1 - 1 = 0
    OBVIOUS
  <2> QED
    BY <1>4, <1>8, <2>1
<1>11. view[2] = Append(view[1], f)
  <2>1. 2 \in 0 .. 2 /\ 2 # 0 /\ 2 - 1 = 1
    OBVIOUS
  <2> QED
    BY <1>4, <1>8, <2>1
<1>12. view[2] = <<e, f>>
  BY <1>9, <1>10, <1>11, <1>a, <1>b, <1>c
<1> QED
  BY <1>1, <1>2, <1>12 DEF cells

\* The powers of two.
LEMMA PowersOfTwo ==
  /\ AttemptsWidth \in Nat \ {0}
  /\ \A n \in 0 .. AttemptsWidth : TwoTo[n] \in Nat
  /\ TwoTo[0] = 1
  /\ \A n \in 1 .. AttemptsWidth : TwoTo[n] = 2 * TwoTo[n - 1]
<1> DEFINE w == AttemptsWidth
           eq(f) == f = [n \in 0 .. w |-> IF n = 0 THEN 1 ELSE 2 * f[n - 1]]
           twice == CHOOSE f : eq(f)
           step == [p \in (1 .. w) \X Nat |-> 2 * p[2]]
<1>1. w \in Nat \ {0}
  BY PostBytesAssumption
<1>2. TwoTo = twice
  BY DEF TwoTo
<1> HIDE DEF w
<1>3. 1 \in Nat /\ step \in [(1 .. w) \X Nat -> Nat] /\ \A i \in 1 .. w, x \in Nat : step[<<i, x>>] = 2 * x
  OBVIOUS
<1> HIDE DEF step
<1>4. PICK run \in [0 .. w -> Nat] : Stepwise(run, w, 1, step)
  BY <1>1, <1>3, RunExists
<1>5. \A i \in 1 .. w : run[i] = 2 * run[i - 1]
  <2>1. \A i \in 1 .. w : run[i] = step[<<i, run[i - 1]>>] /\ run[i - 1] \in Nat
    BY <1>1, <1>4 DEF Stepwise
  <2> QED
    BY <1>3, <2>1
<1>6. run[0] = 1
  BY <1>4 DEF Stepwise
<1>7. eq(run)
  BY <1>1, <1>4, <1>5, <1>6
<1>8. eq(twice)
  BY <1>7
<1> HIDE DEF twice
<1>9. \A n \in 0 .. w : twice[n] = IF n = 0 THEN 1 ELSE 2 * twice[n - 1]
  BY <1>8
<1> HIDE DEF eq
<1> DEFINE Good == {i \in 0 .. w : twice[i] = run[i]}
<1>10. 0 \in Good
  BY <1>1, <1>6, <1>9
<1>11. ASSUME NEW i \in 1 .. w, i - 1 \in Good PROVE i \in Good
  <2>1. twice[i] = 2 * twice[i - 1] /\ i \in 0 .. w
    BY <1>1, <1>9
  <2> QED
    BY <1>5, <1>11, <2>1
<1> HIDE DEF Good
<1>12. \A i \in 0 .. w : i \in Good
  BY <1>1, <1>10, <1>11, UpTo
<1>13. \A i \in 0 .. w : twice[i] = run[i]
  BY <1>12 DEF Good
<1>14. \A i \in 1 .. w : i - 1 \in 0 .. w
  BY <1>1
<1>15. /\ \A n \in 0 .. w : twice[n] \in Nat
       /\ twice[0] = 1
       /\ \A n \in 1 .. w : twice[n] = 2 * twice[n - 1]
  BY <1>1, <1>4, <1>5, <1>6, <1>13, <1>14
<1> QED
  BY <1>1, <1>2, <1>15 DEF w

\* A higher power of two is no less.
LEMMA PowersGrow == \A b \in 0 .. AttemptsWidth : TwoTo[b] >= 1 /\ \A a \in 0 .. b : TwoTo[a] <= TwoTo[b]
<1> DEFINE w == AttemptsWidth
           p == TwoTo
           Good == {b \in 0 .. w : p[b] >= 1 /\ \A a \in 0 .. b : p[a] <= p[b]}
<1>1. /\ w \in Nat
      /\ \A n \in 0 .. w : p[n] \in Nat
      /\ p[0] = 1
      /\ \A n \in 1 .. w : p[n] = 2 * p[n - 1]
  BY PowersOfTwo
<1> HIDE DEF w, p
<1>2. 0 \in Good
  BY <1>1
<1>3. ASSUME NEW b \in 1 .. w, b - 1 \in Good PROVE b \in Good
  <2>1. b \in 0 .. w /\ b - 1 \in 0 .. w /\ p[b] = 2 * p[b - 1] /\ p[b - 1] >= 1 /\ p[b - 1] \in Nat /\ p[b] \in Nat
    BY <1>1, <1>3
  <2>2. p[b] >= 1 /\ p[b - 1] <= p[b]
    BY <2>1
  <2>3. ASSUME NEW a \in 0 .. b PROVE p[a] <= p[b]
    <3>1. a = b \/ a \in 0 .. b - 1
      OBVIOUS
    <3>2. a \in 0 .. w
      BY <1>1
    <3>3. a \in 0 .. b - 1 => p[a] <= p[b - 1]
      BY <1>3
    <3> QED
      BY <1>1, <2>1, <2>2, <3>1, <3>2, <3>3
  <2> QED
    BY <2>1, <2>2, <2>3
<1> HIDE DEF Good
<1>4. \A b \in 0 .. w : b \in Good
  BY <1>1, <1>2, <1>3, UpTo
<1>5. \A b \in 0 .. w : p[b] >= 1 /\ \A a \in 0 .. b : p[a] <= p[b]
  BY <1>4 DEF Good
<1> QED
  BY <1>5 DEF w, p

\* The more work, the more attempts are counted.
LEMMA AttemptsGrow ==
  ASSUME NEW d \in Nat, NEW m \in Nat, d <= m
  PROVE  Attempts(d) \in Nat /\ Attempts(m) \in Nat /\ Attempts(d) <= Attempts(m)
<1> DEFINE w == AttemptsWidth
           p == TwoTo
<1>1. /\ w \in Nat \ {0}
      /\ \A n \in 0 .. w : p[n] \in Nat
      /\ \A n \in 1 .. w : p[n] = 2 * p[n - 1]
      /\ \A b \in 0 .. w : p[b] >= 1 /\ \A a \in 0 .. b : p[a] <= p[b]
  BY PowersOfTwo, PowersGrow
<1>2. \A n : Attempts(n) = IF n >= w THEN p[w] - 1 ELSE p[n]
  BY DEF Attempts
<1> HIDE DEF w, p
<1>3. w \in 0 .. w /\ w - 1 \in 0 .. w /\ w \in 1 .. w /\ p[w] \in Nat /\ p[w - 1] \in Nat /\ p[w] = 2 * p[w - 1] /\ p[w - 1] >= 1
  BY <1>1
<1>4. CASE d >= w
  BY <1>2, <1>3, <1>4
<1>5. CASE d < w /\ m >= w
  <2>1. d \in 0 .. w - 1 /\ d \in 0 .. w
    BY <1>3, <1>5
  <2>2. p[d] \in Nat /\ p[d] <= p[w - 1]
    BY <1>1, <1>3, <2>1
  <2>3. p[d] <= p[w] - 1 /\ p[w] - 1 \in Nat
    BY <1>3, <2>2
  <2> QED
    BY <1>2, <1>3, <1>5, <2>2, <2>3
<1>6. CASE m < w
  <2>1. d \in 0 .. m /\ d \in 0 .. w /\ m \in 0 .. w
    BY <1>3, <1>6
  <2>2. p[d] \in Nat /\ p[m] \in Nat /\ p[d] <= p[m]
    BY <1>1, <2>1
  <2> QED
    BY <1>2, <1>3, <1>6, <2>2
<1> QED
  BY <1>1, <1>4, <1>5, <1>6

\* Division keeps the order.
LEMMA QuotientsGrow ==
  ASSUME NEW a \in Nat, NEW b \in Nat, a <= b, NEW q \in Nat \ {0}
  PROVE  a \div q <= b \div q
<1> DEFINE x == a \div q
           y == b \div q
<1>1. /\ x \in Int /\ y \in Int
      /\ a = q * x + (a % q) /\ b = q * y + (b % q)
      /\ 0 <= a % q /\ a % q < q /\ 0 <= b % q /\ b % q < q
      /\ a % q \in Int /\ b % q \in Int
  OBVIOUS
<1> HIDE DEF x, y
<1> DEFINE i == a % q
           j == b % q
<1>2. i \in Int /\ j \in Int /\ a = q * x + i /\ b = q * y + j /\ 0 <= i /\ i < q /\ 0 <= j /\ j < q
  BY <1>1
<1> HIDE DEF i, j
<1>3. ASSUME x > y PROVE FALSE
  <2>1. x - y - 1 \in Nat
    BY <1>1, <1>3
  <2>2. q * (x - y - 1) >= 0
    BY <2>1
  <2>3. q * (x - y - 1) = q * x - q * y - q
    BY <1>1
  <2>4. q * x \in Int /\ q * y \in Int
    BY <1>1
  <2> QED
    BY <1>2, <2>2, <2>3, <2>4
<1>4. x <= y
  BY <1>1, <1>3
<1> QED
  BY <1>4 DEF x, y


\* The two ways bytes are damaged.
LEMMA CutShort ==
  ASSUME NEW X, NEW t \in Seq(X), Len(t) >= 5, NEW cut \in 0 .. 1
  PROVE  LET u == SubSeq(t, 1, Len(t) - cut) IN u \in Seq(X) /\ Len(u) = Len(t) - cut /\ IsStart(u, t)
<1> DEFINE a == 0
           b == Len(t) - cut
           u == SubSeq(t, 1, b)
<1>1. a \in Nat /\ b \in Nat /\ a <= b /\ b <= Len(t) /\ a + 1 = 1 /\ b >= 4 /\ Len(t) \in Nat
  OBVIOUS
<1> HIDE DEF a
<1>2. IsPart(SubSeq(t, a + 1, b), t, a, b, X)
  BY <1>1, Parted
<1>3. IsPart(u, t, 0, b, X)
  BY <1>1, <1>2 DEF a
<1> HIDE DEF u, b
<1>4. u \in Seq(X) /\ Len(u) = b /\ \A i \in 1 .. b : u[i] = t[i]
  BY <1>1, <1>3 DEF IsPart
<1>5. IsStart(u, t)
  BY <1>1, <1>4 DEF IsStart
<1> QED
  BY <1>4, <1>5 DEF u, b

\* Bytes run on begin as before.
LEMMA RunsOn ==
  ASSUME NEW X, NEW t \in Seq(X), Len(t) >= 5, NEW cut \in 0 .. 1, NEW more \in {<<>>, <<Num(1)>>}, cut = 0 \/ more = <<>>
  PROVE  IsStart(SubSeq(t, 1, Len(t) - cut) \o more, t)
<1> DEFINE s == SubSeq(t, 1, Len(t) - cut)
           Y == X \cup {Num(1)}
           u == s \o more
<1>1. s \in Seq(X) /\ Len(s) = Len(t) - cut /\ IsStart(s, t) /\ Len(t) \in Nat
  BY CutShort
<1> HIDE DEF s
<1>2. s \in Seq(Y) /\ more \in Seq(Y) /\ Len(more) \in 0 .. 1 /\ (more = <<>> => Len(more) = 0)
  <2>1. s \in Seq(Y)
    <3>1. \A i \in 1 .. Len(s) : s[i] \in Y
      BY <1>1
    <3> HIDE DEF Y
    <3> QED
      BY <1>1, <3>1, SeqOver
  <2> DEFINE one == Num(1)
  <2>2. more \in {<<>>, <<one>>} /\ one \in Y
    OBVIOUS
  <2> HIDE DEF one, Y
  <2>3. <<>> \in Seq(Y) /\ Len(<<>>) = 0 /\ <<one>> \in Seq(Y) /\ Len(<<one>>) = 1 /\ <<one>> # <<>>
    BY <2>2
  <2>4. more = <<>> \/ more = <<one>>
    BY <2>2
  <2>5. CASE more = <<>>
    <3>1. Len(more) = 0 /\ more \in Seq(Y)
      BY <2>3, <2>5
    <3> QED
      BY <2>1, <3>1
  <2>6. CASE more = <<one>>
    <3>1. Len(more) = 1 /\ more \in Seq(Y) /\ more # <<>>
      BY <2>3, <2>6
    <3> QED
      BY <2>1, <3>1
  <2> QED
    BY <2>4, <2>5, <2>6
<1> HIDE DEF Y
<1>3. AreJoined(u, s, more, Y)
  BY <1>2, Joined
<1> HIDE DEF u
<1>4. Len(u) = Len(s) + Len(more) /\ \A i \in 1 .. Len(s) : u[i] = s[i]
  BY <1>3 DEF AreJoined
<1>5. ASSUME NEW i \in 1 .. Len(u), i <= Len(t) PROVE u[i] = t[i]
  <2>1. i \in 1 .. Len(s)
    BY <1>1, <1>2, <1>4, <1>5
  <2>2. u[i] = s[i] /\ s[i] = t[i]
    BY <1>1, <1>4, <1>5, <2>1 DEF IsStart
  <2> QED
    BY <2>2
<1>6. IsStart(u, t)
  BY <1>1, <1>2, <1>4, <1>5 DEF IsStart
<1> QED
  BY <1>6 DEF u, s

\* Feedback of two entries, as bytes and read again.
FeedbackBack(k, e, f, resigned, cut) ==
  LET bytes == BundleToBytes(FeedbackBundle(k, <<e, f>>, resigned))
  IN BundleFromBytes(SubSeq(bytes, 1, Len(bytes) - cut), TRUE, FALSE)

\* What is read is what was written, if anything is.
LEMMA FeedbackReads ==
  ASSUME NEW k, NEW e, NEW f, NEW resigned, NEW cut \in 0 .. 1, FeedbackBack(k, e, f, resigned, cut).ok
  PROVE  FeedbackBack(k, e, f, resigned, cut).body = TwoEntries(e, f)
<1> DEFINE both == FeedbackBundle(k, <<e, f>>, resigned)
           h == both.header
           body == TwoEntries(e, f)
           bytes == BundleToBytes(both)
           u == SubSeq(bytes, 1, Len(bytes) - cut)
           r == BundleFromBytes(u, TRUE, FALSE)
<1>0. FeedbackBack(k, e, f, resigned, cut) = r
  BY DEF FeedbackBack
<1>1. PICK X : body \in Seq(X)
  BY TwoEntriesAre
<1>2. both = [header |-> h, body |-> body]
  <2> DEFINE list == <<e, f>>
             ss == [i \in DOMAIN list |-> EncodeFeedback(list[i])]
             n == 2
  <2>1. Len(ss) = n /\ ss[1] = EncodeFeedback(e) /\ ss[2] = EncodeFeedback(f) /\ n \in 0 .. 2 /\ n = 2
    OBVIOUS
  <2>2. FlattenSeq(ss) = body
    <3> HIDE DEF ss, n
    <3>1. FlattenSeq(ss) = ss[1] \o ss[2]
      BY <2>1, FlatShort
    <3> QED
      BY <2>1, <3>1 DEF TwoEntries
  <2> DEFINE g == SignFeedback([ts |-> 0, location_id |-> "location", body_hash |-> IF resigned THEN Digest(FlattenSeq(ss)) ELSE Digest(<<>>),
                                peer |-> k, peer_signature |-> <<k>>, signature |-> <<>>], k)
  <2>3. both = [header |-> g, body |-> FlattenSeq(ss)]
    BY DEF FeedbackBundle
  <2> HIDE DEF g, ss, body, both
  <2>4. both = [header |-> g, body |-> body]
    BY <2>2, <2>3
  <2> QED
    BY <2>4
<1> HIDE DEF both, h, body
<1>3. IsBundle(bytes, h, body, X)
  BY <1>1, <1>2, BundleBytes
<1>4. PICK Y : bytes \in Seq(Y)
  BY <1>3 DEF IsBundle
<1>5. Len(bytes) >= 5 /\ Len(bytes) \in Nat
  BY <1>3 DEF IsBundle
<1> HIDE DEF bytes
<1>6. IsStart(u, bytes) /\ Len(u) = Len(bytes) - cut
  BY <1>4, <1>5, CutShort
<1>7. Len(u) <= Len(bytes)
  BY <1>5, <1>6
<1> HIDE DEF u, r
<1>8. r.ok => r.body = body
  <2> DEFINE exactly == FALSE
  <2>1. Arrives(u, bytes, h, body, X, exactly)
    BY <1>1, <1>3, <1>6, <1>7 DEF Arrives
  <2> HIDE DEF exactly
  <2>2. ReadsBack(u, h, body, exactly)
    BY <2>1, BundleReads
  <2> QED
    BY <2>2 DEF r, exactly, ReadsBack
<1> QED
  BY <1>0, <1>8 DEF body

\* Entries that verify took their work.
EntriesWorked(cells) ==
  LET v == FeedbackView(cells)
  IN Len(v) * FeedbackSize = Len(cells) /\ \A i \in DOMAIN v : v[i].pow = v[i].salt

\* verify looks at the work of both entries.
LEMMA VerifiedWorked ==
  ASSUME NEW e, NEW f, NEW b, b.body = TwoEntries(e, f), VerifyFeedback(b)
  PROVE  EntriesWorked(b.body)
<1> DEFINE cells == TwoEntries(e, f)
<1>1. FeedbackView(cells) = <<e, f>>
  BY FeedbackViewIs
<1>2. /\ Len(cells) = 4 /\ Len(cells) \div FeedbackSize = 2
      /\ FeedbackAt(cells, 1) = EncodeFeedback(e) /\ FeedbackAt(cells, 2) = EncodeFeedback(f)
  BY TwoEntriesAre
<1>3. b.body = cells
  OBVIOUS
<1> HIDE DEF cells
<1>4. \A i \in 1 .. 2 : PowVerify(FeedbackAt(cells, i)[1][2])
  BY <1>2, <1>3 DEF VerifyFeedback
<1>5. \A x : EncodeFeedback(x)[1][2] = x
  <2>1. \A x : EncodeFeedback(x)[1] = <<"feedback", x, 1>>
    BY DEF EncodeFeedback, FeedbackSize
  <2> QED
    BY <2>1
<1>6. PowVerify(e) /\ PowVerify(f)
  <2>1. PowVerify(FeedbackAt(cells, 1)[1][2]) /\ PowVerify(FeedbackAt(cells, 2)[1][2])
    BY <1>4
  <2> QED
    BY <1>2, <1>5, <2>1
<1>7. Len(<<e, f>>) * FeedbackSize = Len(cells) /\ \A i \in DOMAIN <<e, f>> : <<e, f>>[i].pow = <<e, f>>[i].salt
  BY <1>2, <1>6 DEF PowVerify, FeedbackSize
<1> QED
  BY <1>1, <1>3, <1>7 DEF EntriesWorked

\* What is counted of the work of two entries.
CountsGrow(cells, counts) ==
  \A d \in 1 .. GetPostPows(cells, "x", 0) :
    counts >= (IF d >= AttemptsWidth THEN TwoTo[AttemptsWidth] - 1 ELSE TwoTo[d]) \div PowNumeraire

KnowsBetter(cells, pow) ==
  \/ SubmitsFeedback(cells, "x", 0, pow) \/ pow = 0
  \/ \E i \in PowsOf(cells, "x", 0) : FeedbackView(cells)[i].pow >= pow

\* The last entry for a post is counted, the first is compared with new work.
LEMMA EntriesCounted ==
  ASSUME NEW e \in Feedbacks, NEW f \in Feedbacks, NEW pow \in Salts
  PROVE  /\ CountsGrow(TwoEntries(e, f), GetPostFeedbacks(TwoEntries(e, f), "x", 0))
         /\ KnowsBetter(TwoEntries(e, f), pow)
<1> DEFINE cells == TwoEntries(e, f)
           v == FeedbackView(cells)
           at == PowsOf(cells, "x", 0)
           best == GetPostPows(cells, "x", 0)
           first == GetPostPowForFeedbackType(cells, "x", 0)
           n == 2
<1>1. Salts \subseteq Nat /\ PowNumeraire \in Nat \ {0}
  BY PostBytesAssumption
<1>2. e.pow \in Nat /\ f.pow \in Nat /\ pow \in Nat
  BY <1>1 DEF Feedbacks
<1>3. v = <<e, f>>
  BY FeedbackViewIs
<1>4. DOMAIN v = 1 .. n /\ \A i \in 1 .. n : v[i].pow \in Nat
  BY <1>2, <1>3
<1>5. at \subseteq 1 .. n
  BY <1>4 DEF PowsOf
<1>6. /\ best = IF at = {} THEN 0 ELSE v[Max(at)].pow
      /\ first = IF at = {} THEN 0 ELSE v[Min(at)].pow
  BY DEF GetPostPows, GetPostPowForFeedbackType
<1> HIDE DEF n, at, v, best, first, cells
<1>7. n \in Nat
  BY DEF n
<1>8. best \in Nat
  <2>1. at # {} => Max(at) \in at
    <3>1. \A s \in (SUBSET (1 .. n)) \ {{}} : Max(s) \in s
      BY <1>7, Stretches
    <3> QED
      BY <1>5, <3>1
  <2> QED
    BY <1>4, <1>5, <1>6, <2>1
<1>9. at # {} => Min(at) \in at
  <2>1. at \in SUBSET Nat
    BY <1>5
  <2> QED
    BY <2>1, MinOf
<1>10. ASSUME NEW d \in 1 .. best
       PROVE  GetPostFeedbacks(cells, "x", 0) >= Attempts(d) \div PowNumeraire
  <2> DEFINE lo == Attempts(d)
             hi == Attempts(best)
  <2>1. d \in Nat /\ d <= best /\ best > 0
    BY <1>8
  <2>2. lo \in Nat /\ hi \in Nat /\ lo <= hi
    BY <1>8, <2>1, AttemptsGrow
  <2>3. GetPostFeedbacks(cells, "x", 0) = hi \div PowNumeraire
    BY <2>1 DEF GetPostFeedbacks, best
  <2> HIDE DEF lo, hi
  <2>4. lo \div PowNumeraire <= hi \div PowNumeraire
    BY <1>1, <2>2, QuotientsGrow
  <2>5. lo \div PowNumeraire \in Int /\ hi \div PowNumeraire \in Int
    BY <1>1, <2>2
  <2>6. GetPostFeedbacks(cells, "x", 0) >= lo \div PowNumeraire
    BY <2>3, <2>4, <2>5
  <2> QED
    BY <2>6 DEF lo
<1>11. CountsGrow(cells, GetPostFeedbacks(cells, "x", 0))
  BY <1>10, Zenon DEF CountsGrow, Attempts, best
<1>12. KnowsBetter(cells, pow)
  <2>1. SubmitsFeedback(cells, "x", 0, pow) <=> pow > first
    BY DEF SubmitsFeedback, first
  <2>2. CASE at = {}
    <3>1. first = 0
      BY <1>6, <2>2
    <3>2. pow > first \/ pow = 0
      BY <1>2, <3>1
    <3> QED
      BY <2>1, <3>2 DEF KnowsBetter
  <2>3. CASE at # {}
    <3>1. Min(at) \in at /\ first = v[Min(at)].pow /\ first \in Nat
      BY <1>4, <1>5, <1>6, <1>9, <2>3
    <3>2. pow > first \/ v[Min(at)].pow >= pow
      BY <1>2, <3>1
    <3> QED
      BY <2>1, <3>1, <3>2, Zenon DEF KnowsBetter, at, v
  <2> QED
    BY <2>2, <2>3
<1> QED
  BY <1>11, <1>12 DEF cells

\* What reading the bytes of a post comes to.
IsGenuine(bytes, password, expectBody, decodeBody, out) ==
  out.ok =>
    \E n \in DOMAIN written :
      /\ IsDecodedOf(out, n, password)
      /\ expectBody => bytes = Encoded(n)
      /\ ~expectBody => Replaced(bytes, Encoded(n), 7) = BytesWithoutBody(Encoded(n)).bytes
      /\ expectBody /\ decodeBody => out.post = written[n].text

\* Bytes of cells of posts decode to a post or not at all.
LEMMA PostRead ==
  ASSUME written \in Seq(Posts), NEW bytes \in Seq(Pool), NEW password, NEW expectBody \in BOOLEAN, NEW decodeBody \in BOOLEAN
  PROVE  IsGenuine(bytes, password, expectBody, decodeBody, DecodeFromBytes(bytes, password, expectBody, decodeBody))
<1> DEFINE out == DecodeFromBytes(bytes, password, expectBody, decodeBody)
<1>1. ASSUME out.ok, expectBody PROVE IsGenuine(bytes, password, expectBody, decodeBody, out)
  <2>1. expectBody = TRUE
    BY <1>1
  <2>2. PICK n \in DOMAIN written :
           /\ bytes = Encoded(n)
           /\ IsDecodedOf(DecodeFromBytes(bytes, password, TRUE, decodeBody), n, password)
           /\ decodeBody => DecodeFromBytes(bytes, password, TRUE, decodeBody).post = written[n].text
    BY <1>1, <2>1, WholeDecodes
  <2>3. bytes = Encoded(n) /\ IsDecodedOf(out, n, password) /\ (decodeBody => out.post = written[n].text)
    BY <2>1, <2>2
  <2> HIDE DEF out
  <2> QED
    BY <1>1, <2>3, Zenon DEF IsGenuine
<1>2. ASSUME out.ok, ~expectBody PROVE IsGenuine(bytes, password, expectBody, decodeBody, out)
  <2>1. PICK n \in DOMAIN written : IsHeadOf(bytes, n) /\ IsDecodedOf(out, n, password) /\ Len(bytes) = 9
    BY <1>2, HeadDecodes
  <2>2. Replaced(bytes, Encoded(n), 7) = BytesWithoutBody(Encoded(n)).bytes
    BY <2>1, HeaderDecodes
  <2> HIDE DEF out
  <2> QED
    BY <1>2, <2>1, <2>2, Zenon DEF IsGenuine
<1>3. ~out.ok => IsGenuine(bytes, password, expectBody, decodeBody, out)
  BY DEF IsGenuine
<1> QED
  BY <1>1, <1>2, <1>3

\* The bytes that are read are made of cells of the posts.
LEMMA SplicedIn ==
  ASSUME NEW S, NEW s \in Seq(S), NEW t \in Seq(S), NEW i \in 0 .. Len(s), NEW j \in 1 .. Len(t) + 1
  PROVE  Spliced(s, t, i, j) \in Seq(S)
<1>1. SubSeq(s, 1, i) \in Seq(S)
  <2> DEFINE a == 0
  <2>1. a \in Nat /\ i \in Nat /\ a <= i /\ i <= Len(s) /\ a + 1 = 1
    OBVIOUS
  <2> HIDE DEF a
  <2>2. IsPart(SubSeq(s, a + 1, i), s, a, i, S)
    BY <2>1, Parted
  <2> QED
    BY <2>1, <2>2 DEF IsPart
<1>2. SubSeq(t, j, Len(t)) \in Seq(S)
  <2> DEFINE a == j - 1
             b == Len(t)
  <2>1. a \in Nat /\ b \in Nat /\ a <= b /\ b <= Len(t) /\ a + 1 = j
    OBVIOUS
  <2> HIDE DEF a, b
  <2>2. IsPart(SubSeq(t, a + 1, b), t, a, b, S)
    BY <2>1, Parted
  <2> QED
    BY <2>1, <2>2 DEF IsPart, b
<1> DEFINE u == SubSeq(s, 1, i)
           v == SubSeq(t, j, Len(t))
<1> HIDE DEF u, v
<1>3. AreJoined(u \o v, u, v, S)
  BY <1>1, <1>2, Joined DEF u, v
<1> QED
  BY <1>3 DEF AreJoined, Spliced, u, v

\* One field taken from another post.
LEMMA ReplacedIn ==
  ASSUME written \in Seq(Posts), NEW n \in DOMAIN written, NEW m \in DOMAIN written, NEW i \in 1 .. FixedPrefix + PostHeaderSize
  PROVE  Replaced(Encoded(n), Encoded(m), i) \in Seq(Pool)
<1> DEFINE s == Encoded(n)
           t == Encoded(m)
<1>1. s \in Seq(Pool) /\ t \in Seq(Pool)
  BY EncodedInPool
<1>2. Len(s) >= 10 /\ Len(t) >= 10
  <2>1. \A k \in DOMAIN written : Len(written[k].text) + 1 \in Nat /\ Len(written[k].text) + 1 >= 1 /\ Len(Encoded(k)) = 9 + (Len(written[k].text) + 1)
    BY EncodedCells
  <2> QED
    BY <2>1
<1>3. i \in 1 .. 9
  BY DEF FixedPrefix, PostHeaderSize
<1> HIDE DEF s, t
<1>4. i \in 1 .. Len(s) /\ t[i] \in Pool
  BY <1>1, <1>2, <1>3
<1>5. IsReplaced(Replaced(s, t, i), s, i, t[i], Pool)
  BY <1>1, <1>4, ReplacedIs
<1> QED
  BY <1>5 DEF IsReplaced, s, t

\* The head that a sender leaves of a post.
LEMMA CutIn ==
  ASSUME written \in Seq(Posts), NEW r \in Seq(Pool), BytesWithoutBody(r).ok
  PROVE  BytesWithoutBody(r).bytes \in Seq(Pool)
<1> DEFINE c == BytesWithoutBody(r)
           k == FixedPrefix + r[6][2]
           u == SubSeq(r, 1, k)
           refused == Len(r) < FixedPrefix \/ ~IsNum(r[6]) \/ Len(r) < k
<1>1. c = IF refused THEN Unreadable ELSE [ok |-> TRUE, bytes |-> u]
  BY DEF BytesWithoutBody
<1>2. ~Unreadable.ok
  BY DEF Unreadable
<1> HIDE DEF c, refused, u
<1>3. ~refused /\ c = [ok |-> TRUE, bytes |-> u]
  <2>1. c # Unreadable
    BY <1>2 DEF c
  <2> QED
    BY <1>1, <2>1
<1>4. c.bytes = u
  BY <1>3
<1>5. k \in Nat /\ k <= Len(r)
  <2>1. Len(r) >= 7 /\ IsNum(r[6]) /\ ~(Len(r) < k) /\ Len(r) \in Nat
    BY <1>3 DEF refused, FixedPrefix
  <2>2. TellsItself(r[6])
    BY <2>1, PoolCells
  <2>3. r[6][2] \in Nat
    BY <2>1, <2>2 DEF TellsItself
  <2> QED
    BY <2>1, <2>3 DEF FixedPrefix
<1>6. u \in Seq(Pool)
  <2> DEFINE a == 0
  <2>1. a \in Nat /\ a <= k /\ a + 1 = 1
    BY <1>5
  <2> HIDE DEF a, k
  <2>2. IsPart(SubSeq(r, a + 1, k), r, a, k, Pool)
    BY <1>5, <2>1, Parted
  <2> QED
    BY <2>1, <2>2 DEF IsPart, u
<1> QED
  BY <1>4, <1>6 DEF c

\* A bundle that is read and verifies holds the posts of a list.
LEMMA BundleRead ==
  ASSUME written \in Seq(Posts), NEW h, HeaderFits(h), NEW list \in Lists, NEW base,
         NEW cut \in 0 .. 1, NEW more \in {<<>>, <<Num(1)>>}, cut = 0 \/ more = <<>>
  PROVE  LET bytes == BundleToBytes([header |-> h, body |-> BodyOf(list)])
             b == BundleFromBytes(SubSeq(bytes, 1, Len(bytes) - cut) \o more, TRUE, TRUE)
         IN b.ok /\ VerifyBundle(b, base) => \E l : BundleHolds(b, base, l)
<1> DEFINE body == BodyOf(list)
           bytes == BundleToBytes([header |-> h, body |-> body])
           u == SubSeq(bytes, 1, Len(bytes) - cut) \o more
           b == BundleFromBytes(u, TRUE, TRUE)
<1>1. body \in Seq(Pool)
  <2>1. PICK n \in 0 .. 2 : list \in [1 .. n -> DOMAIN written]
    BY ListsAre
  <2> QED
    BY <2>1, BodyInPool
<1> HIDE DEF body
<1>2. IsBundle(bytes, h, body, Pool)
  BY <1>1, BundleBytes
<1>3. PICK Y : bytes \in Seq(Y)
  BY <1>2 DEF IsBundle
<1>4. Len(bytes) >= 5 /\ Len(bytes) \in Nat
  BY <1>2 DEF IsBundle
<1> HIDE DEF bytes
<1>5. IsStart(u, bytes)
  BY <1>3, <1>4, RunsOn
<1> HIDE DEF u, b
<1>6. ASSUME b.ok, VerifyBundle(b, base) PROVE \E l : BundleHolds(b, base, l)
  <2> DEFINE exactly == TRUE
  <2>1. Arrives(u, bytes, h, body, Pool, exactly)
    BY <1>1, <1>2, <1>5 DEF Arrives
  <2> HIDE DEF exactly
  <2>2. ReadsBack(u, h, body, exactly)
    BY <2>1, BundleReads
  <2>3. b.header = h /\ b.body = body
    BY <1>6, <2>2 DEF b, exactly, ReadsBack
  <2> QED
    BY <1>1, <1>6, <2>3, Verified
<1> QED
  BY <1>6 DEF b, u, bytes, body

\* The bundle that verified holds the posts of a list.
BundleHeld ==
  reading.what = "bundle" /\ reading.verified => \E list : BundleHolds(reading.bundle, reading.base, list)

PostBytesInd ==
  /\ written \in Seq(Posts)
  /\ PostGenuine /\ BundleHeld /\ GotAsked /\ FeedbackWorked /\ WorkCounted

\* Writing a post.
LEMMA WritePostStep ==
  ASSUME PostBytesInd, NEW a \in Writers, NEW l \in Links, NEW t \in Texts, WritePost(a, l, t)
  PROVE  PostBytesInd'
<1>1. NewPost(a, l, t) \in Posts
  <2>1. <<a, l, t>> \in Writers \X Links \X Texts /\ NewPost(<<a, l, t>>[1], <<a, l, t>>[2], <<a, l, t>>[3]) = NewPost(a, l, t)
    OBVIOUS
  <2> QED
    BY <2>1, Zenon DEF Posts
<1>2. written' \in Seq(Posts)
  <2> DEFINE p == NewPost(a, l, t)
  <2>1. p \in Posts /\ written' = Append(written, p) /\ written \in Seq(Posts)
    BY <1>1 DEF WritePost, PostBytesInd
  <2> HIDE DEF p
  <2> QED
    BY <2>1
<1>3. reading'.what = "nothing"
  BY DEF WritePost, NothingRead
<1> QED
  BY <1>2, <1>3 DEF PostBytesInd, PostGenuine, BundleHeld, GotAsked, FeedbackWorked, WorkCounted

\* Reading the bytes of a post.
LEMMA ReadPostStep ==
  ASSUME PostBytesInd, NEW bytes \in Seq(Pool), NEW password, NEW expectBody \in BOOLEAN, NEW decodeBody \in BOOLEAN,
         ReadPostBytes(bytes, password, expectBody, decodeBody)
  PROVE  PostBytesInd'
<1> DEFINE out == DecodeFromBytes(bytes, password, expectBody, decodeBody)
<1>1. written' = written /\ written \in Seq(Posts)
  BY DEF ReadPostBytes, PostBytesInd
<1>2. IsGenuine(bytes, password, expectBody, decodeBody, out)
  BY <1>1, PostRead
<1> HIDE DEF out
<1>3. reading' = [what |-> "post", bytes |-> bytes, password |-> password, expectBody |-> expectBody, out |-> out, decodeBody |-> decodeBody]
  BY DEF ReadPostBytes, out
<1>4. /\ reading'.what = "post" /\ reading'.bytes = bytes /\ reading'.password = password
      /\ reading'.expectBody = expectBody /\ reading'.decodeBody = decodeBody /\ reading'.out = out
  BY <1>3
<1>5. PostGenuine'
  BY <1>1, <1>2, <1>4 DEF PostGenuine, IsGenuine, IsDecodedOf, Encoded
<1> QED
  BY <1>1, <1>4, <1>5 DEF PostBytesInd, BundleHeld, GotAsked, FeedbackWorked, WorkCounted

\* Reading the bytes of a bundle.
LEMMA ReadBundleStep ==
  ASSUME PostBytesInd, NEW h, HeaderFits(h), NEW list \in Lists, NEW base,
         NEW cut \in 0 .. 1, NEW more \in {<<>>, <<Num(1)>>}, cut = 0 \/ more = <<>>,
         ReadBundleBytes(h, BodyOf(list), cut, more, base)
  PROVE  PostBytesInd'
<1> DEFINE bytes == BundleToBytes([header |-> h, body |-> BodyOf(list)])
           b == BundleFromBytes(SubSeq(bytes, 1, Len(bytes) - cut) \o more, TRUE, TRUE)
           verified == b.ok /\ VerifyBundle(b, base)
<1>1. written' = written /\ written \in Seq(Posts)
  BY DEF ReadBundleBytes, PostBytesInd
<1>2. verified => \E l : BundleHolds(b, base, l)
  BY <1>1, BundleRead
<1>3. reading' = [what |-> "bundle", bundle |-> b, base |-> base, verified |-> verified]
  BY DEF ReadBundleBytes
<1> HIDE DEF b, verified
<1>4. reading'.what = "bundle" /\ reading'.bundle = b /\ reading'.base = base /\ (reading'.verified <=> verified)
  BY <1>3
<1>5. BundleHeld'
  BY <1>1, <1>2, <1>4 DEF BundleHeld, BundleHolds, BodyOf, Encoded
<1> QED
  BY <1>1, <1>4, <1>5 DEF PostBytesInd, PostGenuine, GotAsked, FeedbackWorked, WorkCounted

\* Getting a post from a bundle.
LEMMA ReadOneStep ==
  ASSUME PostBytesInd, NEW id, ReadOne(id)
  PROVE  PostBytesInd'
<1> DEFINE b == reading.bundle
           base == reading.base
           out == GetPost(b, id, base)
<1>1. written' = written /\ written \in Seq(Posts)
  BY DEF ReadOne, PostBytesInd
<1>2. PICK list : BundleHolds(b, base, list)
  BY DEF ReadOne, PostBytesInd, BundleHeld
<1>3. GotIsAsked(b, id, out)
  BY <1>1, <1>2, GotFrom
<1>4. reading' = [what |-> "got", bundle |-> b, base |-> base, id |-> id, out |-> out]
  BY DEF ReadOne
<1> HIDE DEF b, base, out
<1>5. reading'.what = "got" /\ reading'.bundle = b /\ reading'.id = id /\ reading'.out = out
  BY <1>4
<1>6. GotAsked'
  BY <1>1, <1>3, <1>5 DEF GotAsked, GotIsAsked, Encoded
<1> QED
  BY <1>1, <1>5, <1>6 DEF PostBytesInd, PostGenuine, BundleHeld, FeedbackWorked, WorkCounted

\* Reading feedback.
LEMMA ReadFeedbackStep ==
  ASSUME PostBytesInd, NEW k, NEW e \in Feedbacks, NEW f \in Feedbacks, NEW resigned, NEW cut \in 0 .. 1, NEW pow \in Salts,
         ReadFeedback(k, <<e, f>>, resigned, cut, pow)
  PROVE  PostBytesInd'
<1> DEFINE bytes == BundleToBytes(FeedbackBundle(k, <<e, f>>, resigned))
           b == BundleFromBytes(SubSeq(bytes, 1, Len(bytes) - cut), TRUE, FALSE)
           cells == TwoEntries(e, f)
           verified == b.ok /\ VerifyFeedback(b)
           counts == IF b.ok THEN GetPostFeedbacks(b.body, "x", 0) ELSE 0
           submits == b.ok /\ SubmitsFeedback(b.body, "x", 0, pow)
<1>1. written' = written /\ written \in Seq(Posts)
  BY DEF ReadFeedback, PostBytesInd
<1>2. b.ok => b.body = cells
  <2>1. b = FeedbackBack(k, e, f, resigned, cut)
    BY DEF FeedbackBack
  <2> HIDE DEF b
  <2> QED
    BY <2>1, FeedbackReads
<1>3. reading' = [what |-> "feedback", bundle |-> b, verified |-> verified, counts |-> counts, pow |-> pow, submits |-> submits]
  BY DEF ReadFeedback
<1> HIDE DEF bytes, b
<1>4. verified => EntriesWorked(b.body)
  BY <1>2, VerifiedWorked
<1>5. ASSUME b.ok
      PROVE  CountsGrow(b.body, counts) /\ (submits \/ pow = 0 \/ \E i \in PowsOf(b.body, "x", 0) : FeedbackView(b.body)[i].pow >= pow)
  <2>1. CountsGrow(cells, GetPostFeedbacks(cells, "x", 0)) /\ KnowsBetter(cells, pow)
    BY EntriesCounted
  <2> HIDE DEF cells
  <2>2. b.body = cells
    BY <1>2, <1>5
  <2> QED
    BY <1>5, <2>1, <2>2 DEF KnowsBetter
<1> HIDE DEF verified, counts, submits
<1>6. /\ reading'.what = "feedback" /\ reading'.bundle = b /\ (reading'.verified <=> verified)
      /\ reading'.counts = counts /\ reading'.pow = pow /\ (reading'.submits <=> submits)
  BY <1>3
<1>7. FeedbackWorked'
  BY <1>4, <1>6 DEF FeedbackWorked, EntriesWorked
<1>8. WorkCounted'
  BY <1>5, <1>6 DEF WorkCounted, CountsGrow
<1> QED
  BY <1>1, <1>6, <1>7, <1>8 DEF PostBytesInd, PostGenuine, BundleHeld, GotAsked

\* Reading a post: its parts spliced, or one field replaced.
LEMMA NextPostStep ==
  ASSUME PostBytesInd, NextPostRead
  PROVE  PostBytesInd'
<1>1. written \in Seq(Posts)
  BY DEF PostBytesInd
<1>2. PICK n \in DOMAIN written, m \in DOMAIN written, password \in Writers \cup Themes, decodeBody \in BOOLEAN :
        \/ \E i \in 0 .. Len(Encoded(n)), j \in 1 .. Len(Encoded(m)) + 1 : ReadSpliced(n, m, i, j, password, decodeBody)
        \/ \E i \in 1 .. FixedPrefix + PostHeaderSize : ReadReplaced(n, m, i, password, decodeBody)
        \/ \E i \in 1 .. FixedPrefix + PostHeaderSize : ReadHeader(n, m, i, password)
  BY Zenon DEF NextPostRead
<1>3. Encoded(n) \in Seq(Pool) /\ Encoded(m) \in Seq(Pool)
  BY <1>1, EncodedInPool
<1> DEFINE no == FALSE
           yes == TRUE
<1>4. yes \in BOOLEAN /\ no \in BOOLEAN
  OBVIOUS
<1>5. ASSUME NEW i \in 0 .. Len(Encoded(n)), NEW j \in 1 .. Len(Encoded(m)) + 1, ReadSpliced(n, m, i, j, password, decodeBody)
      PROVE  PostBytesInd'
  <2>1. Spliced(Encoded(n), Encoded(m), i, j) \in Seq(Pool)
    BY <1>3, SplicedIn
  <2>2. ReadPostBytes(Spliced(Encoded(n), Encoded(m), i, j), password, yes, decodeBody)
    BY <1>5 DEF ReadSpliced
  <2> HIDE DEF yes
  <2> QED
    BY <1>4, <2>1, <2>2, ReadPostStep
<1>6. ASSUME NEW i \in 1 .. FixedPrefix + PostHeaderSize, ReadReplaced(n, m, i, password, decodeBody)
      PROVE  PostBytesInd'
  <2>1. Replaced(Encoded(n), Encoded(m), i) \in Seq(Pool)
    BY <1>1, ReplacedIn
  <2>2. ReadPostBytes(Replaced(Encoded(n), Encoded(m), i), password, yes, decodeBody)
    BY <1>6 DEF ReadReplaced
  <2> HIDE DEF yes
  <2> QED
    BY <1>4, <2>1, <2>2, ReadPostStep
<1>7. ASSUME NEW i \in 1 .. FixedPrefix + PostHeaderSize, ReadHeader(n, m, i, password)
      PROVE  PostBytesInd'
  <2> DEFINE r == Replaced(Encoded(n), Encoded(m), i)
             bytes == BytesWithoutBody(r).bytes
  <2>1. r \in Seq(Pool)
    BY <1>1, ReplacedIn
  <2>2. BytesWithoutBody(r).ok /\ ReadPostBytes(bytes, password, no, no)
    BY <1>7 DEF ReadHeader
  <2>3. bytes \in Seq(Pool)
    BY <1>1, <2>1, <2>2, CutIn
  <2> HIDE DEF no, bytes
  <2> QED
    BY <1>4, <2>2, <2>3, ReadPostStep
<1> QED
  BY <1>2, <1>5, <1>6, <1>7

\* Reading a bundle: parts of two mixed, cut short or run on.
LEMMA NextBundleStep ==
  ASSUME PostBytesInd, NextBundleRead
  PROVE  PostBytesInd'
<1>1. written \in Seq(Posts)
  BY DEF PostBytesInd
<1>2. PICK k \in Hosts, list \in Lists, other \in Lists, resigned \in BOOLEAN, base \in Themes :
        \/ \E healed \in SUBSET DOMAIN list, field \in {"ts", "ids", "lengths", "healed", "num_posts"} :
             ReadMixedBundle(k, list, other, field, resigned, healed, 0, <<>>, base)
        \/ ReadBundleBytes(HeaderOf(k, other, {}), BodyOf(list), 0, <<>>, base)
        \/ ReadMixedBundle(k, list, other, "ts", resigned, {}, 1, <<>>, base)
        \/ ReadMixedBundle(k, list, other, "ts", resigned, {}, 0, <<Num(1)>>, base)
  BY Zenon DEF NextBundleRead
<1>3. ASSUME NEW field \in {"ts", "ids", "lengths", "healed", "num_posts"}, NEW healed,
             NEW cut \in 0 .. 1, NEW more \in {<<>>, <<Num(1)>>}, cut = 0 \/ more = <<>>,
             ReadMixedBundle(k, list, other, field, resigned, healed, cut, more, base)
      PROVE  PostBytesInd'
  <2> DEFINE h == HeaderOf(k, list, healed)
             g == HeaderOf(k, other, {})
             mixed == [h EXCEPT ![field] = g[field]]
             header == IF resigned THEN SignBundle(mixed, k) ELSE mixed
  <2>1. h = [f \in HeaderNames |-> h[f]] /\ HeaderFits(h) /\ HeaderFits(g)
    BY <1>1, HeaderOfIs
  <2>2. ReadBundleBytes(header, BodyOf(list), cut, more, base)
    BY <1>3 DEF ReadMixedBundle
  <2> HIDE DEF h, g
  <2>3. HeaderFits(mixed) /\ HeaderFits(SignBundle(mixed, k))
    BY <2>1, MixedFits
  <2> HIDE DEF mixed
  <2>4. HeaderFits(header)
    BY <2>3
  <2> HIDE DEF header
  <2> QED
    BY <1>3, <2>2, <2>4, ReadBundleStep
<1> DEFINE none == <<>>
           zero == 0
           one == 1
           rest == <<Num(1)>>
<1>4. none \in {<<>>, <<Num(1)>>} /\ rest \in {<<>>, <<Num(1)>>} /\ zero \in 0 .. 1 /\ one \in 0 .. 1 /\ zero = 0 /\ none = <<>>
  OBVIOUS
<1>5. ASSUME NEW healed \in SUBSET DOMAIN list, NEW field \in {"ts", "ids", "lengths", "healed", "num_posts"},
             ReadMixedBundle(k, list, other, field, resigned, healed, zero, none, base)
      PROVE  PostBytesInd'
  <2> HIDE DEF zero, none
  <2> QED
    BY <1>3, <1>4, <1>5
<1>6. ASSUME ReadBundleBytes(HeaderOf(k, other, {}), BodyOf(list), zero, none, base) PROVE PostBytesInd'
  <2> DEFINE h == HeaderOf(k, other, {})
  <2>1. HeaderFits(h)
    BY <1>1, HeaderOfIs
  <2> HIDE DEF zero, none, h
  <2> QED
    BY <1>4, <1>6, <2>1, ReadBundleStep DEF h
<1>7. ASSUME ReadMixedBundle(k, list, other, "ts", resigned, {}, one, none, base) PROVE PostBytesInd'
  <2> HIDE DEF one, none
  <2> QED
    BY <1>3, <1>4, <1>7
<1>8. ASSUME ReadMixedBundle(k, list, other, "ts", resigned, {}, zero, rest, base) PROVE PostBytesInd'
  <2> HIDE DEF zero, rest
  <2> QED
    BY <1>3, <1>4, <1>8
<1> QED
  BY <1>2, <1>5, <1>6, <1>7, <1>8, Zenon

\* Every step of readers and writers.
LEMMA PostBytesStep ==
  ASSUME PostBytesInd, [PostBytesNext]_postBytesVars
  PROVE  PostBytesInd'
<1>1. ASSUME NEW a \in Writers, NEW l \in Links, NEW t \in Texts, WritePost(a, l, t) PROVE PostBytesInd'
  BY <1>1, WritePostStep
<1>2. CASE NextPostRead
  BY <1>2, NextPostStep
<1>3. CASE NextBundleRead
  BY <1>3, NextBundleStep
<1>4. CASE NextFeedbackRead
  <2>1. PICK k \in Hosts, e \in Feedbacks, f \in Feedbacks, resigned \in BOOLEAN, cut \in 0 .. 1, pow \in Salts :
          ReadFeedback(k, <<e, f>>, resigned, cut, pow)
    BY <1>4, Zenon DEF NextFeedbackRead
  <2> QED
    BY <2>1, ReadFeedbackStep
<1>5. ASSUME NEW n \in DOMAIN written, ReadOne(Encoded(n)[1]) PROVE PostBytesInd'
  BY <1>5, ReadOneStep
<1>6. CASE PostBytesAgain
  <2>1. written' = written /\ reading'.what = "nothing"
    BY <1>6 DEF PostBytesAgain, NothingRead
  <2> QED
    BY <2>1 DEF PostBytesInd, PostGenuine, BundleHeld, GotAsked, FeedbackWorked, WorkCounted
<1>7. CASE UNCHANGED postBytesVars
  <2>1. written' = written /\ reading' = reading
    BY <1>7 DEF postBytesVars
  <2>2. PostGenuine' /\ GotAsked'
    BY <2>1 DEF PostBytesInd, PostGenuine, GotAsked, Encoded
  <2>3. BundleHeld'
    BY <2>1 DEF PostBytesInd, BundleHeld, BundleHolds, BodyOf, Encoded
  <2>4. FeedbackWorked' /\ WorkCounted'
    BY <2>1 DEF PostBytesInd, FeedbackWorked, WorkCounted
  <2> QED
    BY <2>1, <2>2, <2>3, <2>4 DEF PostBytesInd
<1>8. PostBytesNext => \/ \E a \in Writers, l \in Links, t \in Texts : WritePost(a, l, t)
                       \/ NextPostRead \/ NextBundleRead \/ NextFeedbackRead
                       \/ \E n \in DOMAIN written : ReadOne(Encoded(n)[1])
                       \/ PostBytesAgain
  BY DEF PostBytesNext, Links
<1> QED
  BY <1>1, <1>2, <1>3, <1>4, <1>5, <1>6, <1>7, <1>8, Zenon

\* A bundle that verifies is made of posts, whoever signed its header.
LEMMA HeldIsGenuine == BundleHeld => BundleGenuine
<1> SUFFICES ASSUME BundleHeld, reading.what = "bundle", reading.verified
             PROVE  \E list \in UNION {[1 .. len -> DOMAIN written] : len \in 0 .. 2} :
                      /\ reading.bundle.body = BodyOf(list)
                      /\ reading.bundle.header.ids = [i \in DOMAIN list |-> Encoded(list[i])[1]]
                      /\ reading.bundle.header.healed \subseteq ToSet(reading.bundle.header.ids)
  BY DEF BundleGenuine
<1> DEFINE b == reading.bundle
           ids == b.header.ids
           n == Len(ids)
<1>1. PICK list : BundleHolds(b, reading.base, list)
  BY DEF BundleHeld
<1>2. /\ n \in 0 .. 2 /\ list \in [1 .. n -> DOMAIN written] /\ \E X : ids \in Seq(X)
      /\ \A i \in 1 .. n : ids[i] = Encoded(list[i])[1]
      /\ b.body = BodyOf(list) /\ b.header.healed \subseteq ToSet(ids)
  BY <1>1 DEF BundleHolds
<1> HIDE DEF ids, b
<1>3. ids = [i \in DOMAIN list |-> Encoded(list[i])[1]]
  <2>1. ids = [i \in 1 .. n |-> ids[i]] /\ DOMAIN list = 1 .. n
    BY <1>2
  <2> QED
    BY <1>2, <2>1
<1>4. list \in UNION {[1 .. len -> DOMAIN written] : len \in 0 .. 2}
  BY <1>2
<1> QED
  BY <1>2, <1>3, <1>4 DEF b, ids

\* What a client or server accepts of the bytes of posts, bundles and feedback (PostBytes' ReadIsWritten:
\* EncodedPostV1::decode_from_bytes, EncodedPostBundleV1::verify, get_post, EncodedPostBundleFeedbackV1::verify,
\* get_post_feedbacks) was written by their authors, is what was asked for, and took the work it claims.
THEOREM PostsAlwaysAsWritten == PostBytesSpec => []ReadIsWritten
<1>1. PostBytesInit => PostBytesInd
  BY DEF PostBytesInit, PostBytesInd, NothingRead, PostGenuine, BundleHeld, GotAsked, FeedbackWorked, WorkCounted
<1>2. PostBytesInd /\ [PostBytesNext]_postBytesVars => PostBytesInd'
  BY PostBytesStep
<1>3. PostBytesInd => ReadIsWritten
  BY HeldIsGenuine DEF PostBytesInd, ReadIsWritten
<1> QED
  BY <1>1, <1>2, <1>3, PTL DEF PostBytesSpec
=============================================================================
