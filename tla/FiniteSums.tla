----------------------------- MODULE FiniteSums -----------------------------
(***************************************************************************)
(* Facts about sums over finite sets, for theorems about models that       *)
(* compute them with MapThenSumSet.                                        *)
(***************************************************************************)
EXTENDS Integers, FiniteSetsExt, FiniteSetTheorems, WellFoundedInduction, TLAPS

-----------------------------------------------------------------------------
(* Induction, over sets rather than predicates                             *)

\* A set of naturals has a least element.
LEMMA LeastNumber ==
    ASSUME NEW T \in SUBSET Nat, T # {}
    PROVE  \E n \in T : \A m \in T : n <= m
<1> DEFINE R == OpToRel(<, Nat)
<1>1. IsWellFoundedOn(R, Nat)
  BY NatLessThanWellFounded
<1>2. PICK n \in T : \A m \in T : ~ (<<m, n>> \in R)
  <2> HIDE DEF R
  <2> QED BY <1>1, WFMin
<1>3. \A m \in T : m < n => <<m, n>> \in R
  BY DEF OpToRel
<1>4. \A m \in T : n <= m
  <2> HIDE DEF R
  <2>1. \A m \in T : ~ (m < n)
    BY <1>2, <1>3
  <2> QED BY <2>1
<1> QED
  BY <1>4

\* A bounded set of naturals has a greatest element.
LEMMA GreatestNumber ==
    ASSUME NEW T \in SUBSET Nat, T # {}, NEW n \in Nat, \A v \in T : v <= n
    PROVE  \E m \in T : \A v \in T : v <= m
<1> DEFINE B == {m \in Nat : \A v \in T : v <= m}
<1>1. B \in SUBSET Nat /\ B # {}
  OBVIOUS
<1>2. PICK m \in B : \A k \in B : m <= k
  <2> HIDE DEF B
  <2> QED BY <1>1, LeastNumber
<1>3. m \in Nat /\ \A v \in T : v <= m
  BY <1>2
<1>4. m \in T
  <2> SUFFICES ASSUME m \notin T PROVE FALSE
    OBVIOUS
  <2>1. \A v \in T : v \in Nat /\ v < m
    BY <1>3
  <2>2. m - 1 \in Nat
    <3>1. PICK v \in T : v \in Nat /\ v < m
      BY <2>1
    <3> QED BY <3>1, <1>3
  <2>3. m - 1 \in B
    BY <2>1, <2>2
  <2> QED BY <1>2, <1>3, <2>3
<1> QED BY <1>3, <1>4

\* Induction over the naturals, for a set of them.
LEMMA EveryNumber ==
    ASSUME NEW G \in SUBSET Nat, 0 \in G, \A n \in G : n + 1 \in G
    PROVE  G = Nat
<1> SUFFICES ASSUME Nat \ G # {} PROVE FALSE
  OBVIOUS
<1>1. PICK n \in Nat \ G : \A m \in Nat \ G : n <= m
  BY LeastNumber
<1>2. n # 0 /\ n - 1 \in Nat
  BY <1>1
<1>3. n - 1 \in G
  BY <1>1, <1>2
<1> QED
  BY <1>3, <1>1, <1>2

\* A property of subsets of a finite set that a further element keeps.
LEMMA EverySubset ==
    ASSUME NEW S, IsFiniteSet(S),
           NEW Good \in SUBSET SUBSET S, {} \in Good,
           \A s \in Good : \A x \in S \ s : s \union {x} \in Good
    PROVE  Good = SUBSET S
<1> DEFINE G == {n \in Nat : \A s \in SUBSET S : Cardinality(s) = n => s \in Good}
<1>1. \A s \in SUBSET S : IsFiniteSet(s) /\ Cardinality(s) \in Nat
  BY FS_Subset, FS_CardinalityType
<1>2. 0 \in G
  BY <1>1, FS_EmptySet
<1>3. ASSUME NEW n \in G PROVE n + 1 \in G
  <2> SUFFICES ASSUME NEW s \in SUBSET S, Cardinality(s) = n + 1 PROVE s \in Good
    BY <1>3
  <2>0. n \in Nat
    BY <1>3
  <2>n. \A u \in SUBSET S : Cardinality(u) = n => u \in Good
    BY <1>3
  <2> HIDE DEF G
  <2>1. s # {}
    <3>1. Cardinality({}) = 0
      BY FS_EmptySet
    <3> QED BY <3>1, <2>0
  <2>2. PICK x \in s : TRUE
    BY <2>1
  <2>3. s \ {x} \in SUBSET S /\ Cardinality(s \ {x}) = n
    <3>1. IsFiniteSet(s)
      BY <1>1
    <3>2. Cardinality(s \ {x}) = Cardinality(s) - 1
      BY <3>1, <2>2, FS_RemoveElement
    <3> QED BY <3>2, <2>0
  <2>4. s \ {x} \in Good
    BY <2>3, <2>n
  <2>5. (s \ {x}) \union {x} = s /\ x \in S \ (s \ {x})
    BY <2>2
  <2> QED
    BY <2>4, <2>5
<1>4. G = Nat
  <2> HIDE DEF G
  <2>1. G \in SUBSET Nat
    BY DEF G
  <2> QED BY <1>2, <1>3, <2>1, EveryNumber
<1> QED
  BY <1>1, <1>4
\* A property that a set has when all smaller ones have it.
LEMMA EverySize ==
    ASSUME NEW S, IsFiniteSet(S), NEW Good,
           \A s \in SUBSET S :
               (\A u \in SUBSET S : Cardinality(u) < Cardinality(s) => u \in Good) => s \in Good
    PROVE  \A s \in SUBSET S : s \in Good
<1> DEFINE T == {Cardinality(s) : s \in (SUBSET S) \ Good}
<1>1. T \in SUBSET Nat
  BY FS_Subset, FS_CardinalityType
<1> SUFFICES ASSUME T # {} PROVE FALSE
  OBVIOUS
<1>2. PICK n \in T : \A m \in T : n <= m
  <2> HIDE DEF T
  <2> QED BY <1>1, LeastNumber
<1>3. PICK s \in (SUBSET S) \ Good : Cardinality(s) = n
  BY <1>2
<1>4. \A u \in SUBSET S : Cardinality(u) < Cardinality(s) => u \in Good
  <2> SUFFICES ASSUME NEW u \in (SUBSET S) \ Good, Cardinality(u) < Cardinality(s) PROVE FALSE
    OBVIOUS
  <2>1. Cardinality(u) \in T /\ Cardinality(s) \in T
    OBVIOUS
  <2> HIDE DEF T
  <2>2. n <= Cardinality(u)
    BY <2>1, <1>2
  <2>3. Cardinality(u) \in Nat /\ Cardinality(s) \in Nat
    BY <2>1, <1>1
  <2> QED BY <2>2, <2>3, <1>3
<1> QED
  BY <1>3, <1>4

-----------------------------------------------------------------------------
(* Sums.  SumOver(f, S) is what MapThenSumSet computes, one element after  *)
(* the other as CHOOSE picks them.                                         *)

\* g is the recursion of the sum: the sums of f over all subsets of S.
SumsUp(g, f, S) ==
    g = [s \in SUBSET S |->
           IF s = {} THEN 0 ELSE f[CHOOSE x \in s : TRUE] + g[s \ {CHOOSE x \in s : TRUE}]]

SumOver(f, S) == (CHOOSE g : SumsUp(g, f, S))[S]

\* The recursion has a solution: subsets of n + 1 elements refer to such of n.
LEMMA SumsExist ==
    ASSUME NEW f, NEW S, IsFiniteSet(S)
    PROVE  \E g : SumsUp(g, f, S)
<1> DEFINE Pick(s) == CHOOSE x \in s : TRUE
           Next1(g, s) == IF s = {} THEN 0 ELSE f[Pick(s)] + g[s \ {Pick(s)}]
           Upto(g, n) == \A s \in SUBSET S : Cardinality(s) <= n => g[s] = Next1(g, s)
           G == {n \in Nat : \E g : Upto(g, n)}
<1>1. \A s \in SUBSET S : IsFiniteSet(s) /\ Cardinality(s) \in Nat
  BY FS_Subset, FS_CardinalityType
<1>2. \A s \in SUBSET S : s # {} =>
          /\ Pick(s) \in s /\ s \ {Pick(s)} \in SUBSET S
          /\ Cardinality(s \ {Pick(s)}) = Cardinality(s) - 1
  BY <1>1, FS_RemoveElement
<1> HIDE DEF Pick
<1>3. 0 \in G
  <2> DEFINE g == [s \in SUBSET S |-> 0]
  <2>1. \A s \in SUBSET S : Cardinality(s) <= 0 => s = {}
    BY <1>1, FS_EmptySet
  <2>2. Upto(g, 0)
    BY <2>1
  <2> QED BY <2>2
<1>4. ASSUME NEW n \in G PROVE n + 1 \in G
  <2>1. n \in Nat
    OBVIOUS
  <2>2. PICK g : Upto(g, n)
    OBVIOUS
  <2> DEFINE h == [s \in SUBSET S |-> IF Cardinality(s) <= n THEN g[s] ELSE Next1(g, s)]
  <2>3. ASSUME NEW s \in SUBSET S, Cardinality(s) <= n + 1
        PROVE  h[s] = Next1(g, s)
    BY <2>2
  <2>4. ASSUME NEW s \in SUBSET S, Cardinality(s) <= n + 1
        PROVE  Next1(h, s) = Next1(g, s)
    <3>1. CASE s = {}
      BY <3>1
    <3>2. CASE s # {}
      <4>1. s \ {Pick(s)} \in SUBSET S /\ Cardinality(s \ {Pick(s)}) = Cardinality(s) - 1
        BY <1>2, <3>2
      <4>2. Cardinality(s \ {Pick(s)}) <= n
        BY <4>1, <2>1, <2>4, <1>1
      <4>3. h[s \ {Pick(s)}] = g[s \ {Pick(s)}]
        BY <4>1, <4>2
      <4> QED
        BY <4>3, <3>2
    <3> QED
      BY <3>1, <3>2
  <2>5. Upto(h, n + 1)
    <3> HIDE DEF h, Next1
    <3> QED BY <2>3, <2>4
  <2>6. \E k : Upto(k, n + 1)
    <3> HIDE DEF h, Upto
    <3> QED BY <2>5
  <2>7. n + 1 \in Nat
    BY <2>1
  <2> QED
    <3> HIDE DEF Upto
    <3> QED BY <2>6, <2>7
<1>5. G = Nat
  <2> HIDE DEF G
  <2>1. G \in SUBSET Nat
    BY DEF G
  <2> QED BY <1>3, <1>4, <2>1, EveryNumber
<1>6. PICK g : Upto(g, Cardinality(S))
  <2>1. Cardinality(S) \in G
    BY <1>5, FS_CardinalityType
  <2> QED BY <2>1
<1> DEFINE h == [s \in SUBSET S |-> g[s]]
<1>7. ASSUME NEW s \in SUBSET S PROVE h[s] = Next1(g, s)
  <2>1. Cardinality(s) <= Cardinality(S)
    BY FS_Subset
  <2> QED BY <2>1, <1>6
<1>8. ASSUME NEW s \in SUBSET S PROVE Next1(h, s) = Next1(g, s)
  <2>1. CASE s = {}
    BY <2>1
  <2>2. CASE s # {}
    <3>1. s \ {Pick(s)} \in SUBSET S
      BY <1>2, <2>2
    <3> QED BY <3>1, <2>2
  <2> QED BY <2>1, <2>2
<1>9. h = [s \in SUBSET S |-> Next1(h, s)]
  <2>1. \A s \in SUBSET S : h[s] = Next1(h, s)
    <3> HIDE DEF h, Next1
    <3> QED BY <1>7, <1>8
  <2> QED
    <3> DEFINE F == [s \in SUBSET S |-> Next1(h, s)]
    <3>1. \A s \in SUBSET S : F[s] = Next1(h, s)
      <4> HIDE DEF h, Next1
      <4> QED OBVIOUS
    <3>2. F = [s \in SUBSET S |-> F[s]] /\ h = [s \in SUBSET S |-> h[s]]
      OBVIOUS
    <3> HIDE DEF h, F, Next1
    <3>3. \A s \in SUBSET S : F[s] = h[s]
      BY <2>1, <3>1
    <3> QED BY <3>2, <3>3 DEF F
<1>10. SumsUp(h, f, S)
  BY <1>9 DEF SumsUp, Pick
<1> QED
  <2> HIDE DEF h
  <2> QED BY <1>10

\* Its value at one set.
LEMMA SumsStep ==
    ASSUME NEW f, NEW S, NEW g, SumsUp(g, f, S), NEW s \in SUBSET S
    PROVE  /\ s = {} => g[s] = 0
           /\ s # {} => \E x \in s : g[s] = f[x] + g[s \ {x}]
<1> DEFINE F(h, u) == IF u = {} THEN 0
                      ELSE f[CHOOSE x \in u : TRUE] + h[u \ {CHOOSE x \in u : TRUE}]
<1>1. g[s] = F(g, s)
  <2>1. g = [u \in SUBSET S |-> F(g, u)]
    BY DEF SumsUp
  <2> HIDE DEF F
  <2> QED BY <2>1
<1>2. s # {} => (CHOOSE x \in s : TRUE) \in s
  OBVIOUS
<1> QED
  BY <1>1, <1>2

\* The order in which CHOOSE picks the elements does not matter.
LEMMA SumsAny ==
    ASSUME NEW f, NEW S, NEW g, SumsUp(g, f, S), IsFiniteSet(S), \A x \in S : f[x] \in Int
    PROVE  \A s \in SUBSET S : g[s] \in Int /\ \A x \in s : g[s] = f[x] + g[s \ {x}]
<1> DEFINE Good == {s \in SUBSET S : g[s] \in Int /\ \A x \in s : g[s] = f[x] + g[s \ {x}]}
<1>1. ASSUME NEW s \in SUBSET S,
             \A u \in SUBSET S : Cardinality(u) < Cardinality(s) => u \in Good
      PROVE  s \in Good
  <2>1. CASE s = {}
    BY <2>1, SumsStep
  <2>2. CASE s # {}
    <3>1. PICK y \in s : g[s] = f[y] + g[s \ {y}]
      BY <2>2, SumsStep
    <3>2. ASSUME NEW x \in s PROVE s \ {x} \in Good
      <4>1. IsFiniteSet(s) /\ Cardinality(s) \in Nat
        BY FS_Subset, FS_CardinalityType
      <4>2. Cardinality(s \ {x}) = Cardinality(s) - 1
        BY <4>1, FS_RemoveElement
      <4>3. Cardinality(s \ {x}) < Cardinality(s) /\ s \ {x} \in SUBSET S
        BY <4>1, <4>2
      <4> HIDE DEF Good
      <4> QED BY <4>3, <1>1
    <3>3. g[s \ {y}] \in Int /\ f[y] \in Int
      BY <3>2
    <3>4. ASSUME NEW x \in s, x # y PROVE g[s] = f[x] + g[s \ {x}]
      <4>1. x \in s \ {y} /\ y \in s \ {x} /\ (s \ {y}) \ {x} = (s \ {x}) \ {y}
        BY <3>4
      <4> DEFINE u == (s \ {x}) \ {y}
      <4>2. g[s \ {y}] = f[x] + g[u]
        BY <3>2, <4>1
      <4>3. g[s \ {x}] = f[y] + g[u] /\ g[s \ {x}] \in Int
        BY <3>2, <4>1
      <4>4. u \in Good
        <5>1. Cardinality(u) < Cardinality(s) /\ u \in SUBSET S
          <6>1. IsFiniteSet(s) /\ Cardinality(s) \in Nat
            BY FS_Subset, FS_CardinalityType
          <6>2. IsFiniteSet(s \ {x}) /\ Cardinality(s \ {x}) = Cardinality(s) - 1
            BY <6>1, FS_RemoveElement
          <6>3. Cardinality(u) = Cardinality(s \ {x}) - 1
            BY <6>2, <4>1, FS_RemoveElement
          <6> QED BY <6>1, <6>2, <6>3
        <5> HIDE DEF Good, u
        <5> QED BY <5>1, <1>1
      <4>5. g[u] \in Int /\ f[x] \in Int
        BY <4>4
      <4> HIDE DEF u
      <4> QED BY <4>2, <4>3, <4>5, <3>1, <3>3
    <3>5. g[s] \in Int
      BY <3>1, <3>3
    <3> QED BY <3>1, <3>4, <3>5
  <2> QED BY <2>1, <2>2
<1>2. \A s \in SUBSET S : s \in Good
  <2> HIDE DEF Good
  <2> QED BY <1>1, EverySize
<1> QED BY <1>2

\* Two recursions agree on a set on which their functions do.
LEMMA SumsAgree ==
    ASSUME NEW f, NEW S, NEW g, SumsUp(g, f, S), IsFiniteSet(S), \A x \in S : f[x] \in Int,
           NEW k, NEW T, NEW h, SumsUp(h, k, T), IsFiniteSet(T), \A x \in T : k[x] \in Int,
           NEW U, U \subseteq S, U \subseteq T, \A x \in U : f[x] = k[x]
    PROVE  g[U] = h[U]
<1> DEFINE Good == {s \in SUBSET U : g[s] = h[s]}
<1>1. {} \in Good
  BY SumsStep
<1>2. ASSUME NEW s \in Good, NEW x \in U \ s PROVE s \union {x} \in Good
  <2>1. s \union {x} \in SUBSET S /\ s \union {x} \in SUBSET T /\ (s \union {x}) \ {x} = s
    OBVIOUS
  <2>2. g[s \union {x}] = f[x] + g[(s \union {x}) \ {x}]
    BY <2>1, SumsAny
  <2>3. h[s \union {x}] = k[x] + h[(s \union {x}) \ {x}]
    BY <2>1, SumsAny
  <2> QED BY <2>1, <2>2, <2>3
<1>3. IsFiniteSet(U)
  BY FS_Subset
<1>4. Good = SUBSET U
  <2> HIDE DEF Good
  <2>1. Good \in SUBSET SUBSET U
    BY DEF Good
  <2> QED BY <1>1, <1>2, <1>3, <2>1, EverySubset
<1> QED BY <1>4

\* The recursion over a set computes the sums over its subsets.
LEMMA SumsAtTop ==
    ASSUME NEW f, NEW S, NEW g, SumsUp(g, f, S), IsFiniteSet(S), \A x \in S : f[x] \in Int,
           NEW U, U \subseteq S
    PROVE  g[U] = SumOver(f, U)
<1> DEFINE h == CHOOSE h : SumsUp(h, f, U)
<1>1. IsFiniteSet(U)
  BY FS_Subset
<1>2. SumsUp(h, f, U)
  BY <1>1, SumsExist
<1>3. g[U] = h[U]
  <2> HIDE DEF h
  <2> QED BY <1>1, <1>2, SumsAgree
<1> QED BY <1>3 DEF SumOver

\* The empty sum.
LEMMA SumEmpty ==
    ASSUME NEW f
    PROVE  SumOver(f, {}) = 0
<1>1. PICK g : SumsUp(g, f, {})
  BY SumsExist, FS_EmptySet
<1>2. g[{}] = 0
  BY <1>1, SumsStep
<1> QED BY <1>1, <1>2, SumsAtTop, FS_EmptySet

\* A sum of integers is an integer.
LEMMA SumType ==
    ASSUME NEW f, NEW S, IsFiniteSet(S), \A x \in S : f[x] \in Int
    PROVE  SumOver(f, S) \in Int
<1>1. PICK g : SumsUp(g, f, S)
  BY SumsExist
<1>2. g[S] = SumOver(f, S)
  BY <1>1, SumsAtTop
<1>3. g[S] \in Int
  BY <1>1, SumsAny
<1> QED BY <1>2, <1>3

\* One element leaves the sum.
LEMMA SumRemove ==
    ASSUME NEW f, NEW S, IsFiniteSet(S), \A x \in S : f[x] \in Int, NEW x \in S
    PROVE  SumOver(f, S) = f[x] + SumOver(f, S \ {x})
<1>1. PICK g : SumsUp(g, f, S)
  BY SumsExist
<1>2. g[S] = SumOver(f, S) /\ g[S \ {x}] = SumOver(f, S \ {x})
  BY <1>1, SumsAtTop
<1>3. g[S] = f[x] + g[S \ {x}]
  BY <1>1, SumsAny
<1> QED BY <1>2, <1>3

\* One element joins the sum.
LEMMA SumAdd ==
    ASSUME NEW f, NEW S, IsFiniteSet(S), NEW x, x \notin S, \A y \in S \union {x} : f[y] \in Int
    PROVE  SumOver(f, S \union {x}) = f[x] + SumOver(f, S)
<1>1. IsFiniteSet(S \union {x}) /\ x \in S \union {x} /\ (S \union {x}) \ {x} = S
  BY FS_AddElement
<1> QED BY <1>1, SumRemove

\* Only the values on the set matter.
LEMMA SumSame ==
    ASSUME NEW f, NEW h, NEW S, IsFiniteSet(S), \A x \in S : f[x] \in Int /\ f[x] = h[x]
    PROVE  SumOver(f, S) = SumOver(h, S)
<1>1. PICK g : SumsUp(g, f, S)
  BY SumsExist
<1>2. PICK k : SumsUp(k, h, S)
  BY SumsExist
<1>3. g[S] = k[S]
  BY <1>1, <1>2, SumsAgree
<1> QED BY <1>1, <1>2, <1>3, SumsAtTop

\* One value changes.
LEMMA SumChange ==
    ASSUME NEW f, NEW h, NEW S, IsFiniteSet(S), NEW x \in S,
           \A y \in S : f[y] \in Int /\ h[y] \in Int, \A y \in S \ {x} : f[y] = h[y]
    PROVE  SumOver(h, S) = SumOver(f, S) - f[x] + h[x]
<1>1. SumOver(f, S) = f[x] + SumOver(f, S \ {x})
  BY SumRemove
<1>2. SumOver(h, S) = h[x] + SumOver(h, S \ {x})
  BY SumRemove
<1>3. IsFiniteSet(S \ {x})
  BY FS_Subset
<1>4. SumOver(f, S \ {x}) = SumOver(h, S \ {x}) /\ SumOver(f, S \ {x}) \in Int
  BY <1>3, SumSame, SumType
<1> QED BY <1>1, <1>2, <1>4

\* A sum lies between as many times the least and the greatest value.
LEMMA SumBounds ==
    ASSUME NEW f, NEW S, IsFiniteSet(S), NEW low \in Int, NEW high \in Int,
           \A x \in S : f[x] \in Int /\ low <= f[x] /\ f[x] <= high
    PROVE  /\ Cardinality(S) * low <= SumOver(f, S)
           /\ SumOver(f, S) <= Cardinality(S) * high
<1> DEFINE Good == {s \in SUBSET S : /\ Cardinality(s) * low <= SumOver(f, s)
                                     /\ SumOver(f, s) <= Cardinality(s) * high}
<1>1. {} \in Good
  BY SumEmpty, FS_EmptySet
<1>2. ASSUME NEW s \in Good, NEW x \in S \ s PROVE s \union {x} \in Good
  <2>1. IsFiniteSet(s) /\ Cardinality(s) \in Nat
    BY FS_Subset, FS_CardinalityType
  <2>2. Cardinality(s \union {x}) = Cardinality(s) + 1
    BY <2>1, FS_AddElement
  <2>3. SumOver(f, s \union {x}) = f[x] + SumOver(f, s)
    BY <2>1, SumAdd
  <2>4. SumOver(f, s) \in Int
    BY <2>1, SumType
  <2>5. (Cardinality(s) + 1) * low = Cardinality(s) * low + low
    BY <2>1
  <2>6. (Cardinality(s) + 1) * high = Cardinality(s) * high + high
    BY <2>1
  <2>7. Cardinality(s) * low \in Int /\ Cardinality(s) * high \in Int
    BY <2>1
  <2>8. Cardinality(s) * low <= SumOver(f, s) /\ SumOver(f, s) <= Cardinality(s) * high
    OBVIOUS
  <2>9. f[x] \in Int /\ low <= f[x] /\ f[x] <= high
    OBVIOUS
  <2>10. /\ Cardinality(s) * low + low <= f[x] + SumOver(f, s)
         /\ f[x] + SumOver(f, s) <= Cardinality(s) * high + high
    <3> DEFINE a == Cardinality(s) * low
               b == Cardinality(s) * high
               c == SumOver(f, s)
    <3> HIDE DEF a, b, c, Good
    <3>1. a + low <= f[x] + c /\ f[x] + c <= b + high
      BY <2>4, <2>7, <2>8, <2>9 DEF a, b, c
    <3> QED BY <3>1 DEF a, b, c
  <2> QED BY <2>2, <2>3, <2>5, <2>6, <2>10
<1>3. Good = SUBSET S
  <2> HIDE DEF Good
  <2>1. Good \in SUBSET SUBSET S
    BY DEF Good
  <2> QED BY <1>1, <1>2, <2>1, EverySubset
<1> QED BY <1>3

\* The elements are named anew, one by one.
LEMMA SumRenamed ==
    ASSUME NEW f, NEW S, IsFiniteSet(S), \A x \in S : f[x] \in Int,
           NEW p, \A x, y \in S : p[x] = p[y] => x = y,
           NEW h, \A x \in S : h[p[x]] = f[x],
           NEW T, \A x \in S : p[x] \in T, \A y \in T : \E x \in S : y = p[x]
    PROVE  /\ IsFiniteSet(T) /\ Cardinality(T) = Cardinality(S)
           /\ SumOver(h, T) = SumOver(f, S)
<1> DEFINE Image(s) == {p[x] : x \in s}
           Good == {s \in SUBSET S : /\ IsFiniteSet(Image(s))
                                     /\ Cardinality(Image(s)) = Cardinality(s)
                                     /\ SumOver(h, Image(s)) = SumOver(f, s)}
<1>1. {} \in Good
  <2>1. Image({}) = {}
    OBVIOUS
  <2> QED BY <2>1, SumEmpty, FS_EmptySet
<1>2. ASSUME NEW s \in Good, NEW x \in S \ s PROVE s \union {x} \in Good
  <2>1. IsFiniteSet(s)
    BY FS_Subset
  <2>2. Image(s \union {x}) = Image(s) \union {p[x]} /\ p[x] \notin Image(s)
    OBVIOUS
  <2>3. \A y \in Image(s) \union {p[x]} : h[y] \in Int
    OBVIOUS
  <2>4. IsFiniteSet(Image(s)) /\ Cardinality(Image(s)) = Cardinality(s)
        /\ SumOver(h, Image(s)) = SumOver(f, s)
    OBVIOUS
  <2> HIDE DEF Image
  <2>5. SumOver(h, Image(s) \union {p[x]}) = h[p[x]] + SumOver(h, Image(s))
    <3> HIDE DEF Good
    <3> QED BY <2>2, <2>3, <2>4, SumAdd
  <2>6. SumOver(f, s \union {x}) = f[x] + SumOver(f, s)
    BY <2>1, SumAdd
  <2>7. /\ IsFiniteSet(Image(s) \union {p[x]})
        /\ Cardinality(Image(s) \union {p[x]}) = Cardinality(Image(s)) + 1
    <3> HIDE DEF Good
    <3> QED BY <2>2, <2>4, FS_AddElement
  <2>8. Cardinality(s \union {x}) = Cardinality(s) + 1
    BY <2>1, FS_AddElement
  <2> QED BY <2>2, <2>4, <2>5, <2>6, <2>7, <2>8
<1>3. Good = SUBSET S
  <2> HIDE DEF Good
  <2>1. Good \in SUBSET SUBSET S
    BY DEF Good
  <2> QED BY <1>1, <1>2, <2>1, EverySubset
<1>4. T = Image(S)
  OBVIOUS
<1>5. IsFiniteSet(Image(S)) /\ Cardinality(Image(S)) = Cardinality(S)
      /\ SumOver(h, Image(S)) = SumOver(f, S)
  <2>1. S \in Good
    BY <1>3
  <2> HIDE DEF Image
  <2> QED BY <2>1
<1> HIDE DEF Image
<1> QED BY <1>4, <1>5

\* One value is put, over an old one or as a new one.
LEMMA SumPut ==
    ASSUME NEW f, NEW h, NEW S, IsFiniteSet(S), NEW x,
           \A y \in S : f[y] \in Int, \A y \in S \union {x} : h[y] \in Int,
           \A y \in S \ {x} : h[y] = f[y]
    PROVE  SumOver(h, S \union {x}) = SumOver(f, S) - (IF x \in S THEN f[x] ELSE 0) + h[x]
<1>1. CASE x \in S
  <2>1. S \union {x} = S
    BY <1>1
  <2> QED BY <1>1, <2>1, SumChange
<1>2. CASE x \notin S
  <2>1. SumOver(h, S \union {x}) = h[x] + SumOver(h, S)
    BY <1>2, SumAdd
  <2>2. SumOver(f, S) = SumOver(h, S) /\ SumOver(f, S) \in Int
    BY <1>2, SumSame, SumType
  <2> QED BY <1>2, <2>1, <2>2
<1> QED BY <1>1, <1>2

\* Nothing but zeros.
LEMMA SumZero ==
    ASSUME NEW f, NEW S, IsFiniteSet(S), \A x \in S : f[x] = 0
    PROVE  SumOver(f, S) = 0
<1>1. Cardinality(S) * 0 <= SumOver(f, S) /\ SumOver(f, S) <= Cardinality(S) * 0
  BY SumBounds
<1>2. Cardinality(S) \in Nat /\ SumOver(f, S) \in Int
  BY FS_CardinalityType, SumType
<1> QED BY <1>1, <1>2
=============================================================================
