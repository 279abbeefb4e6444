--------------------------- MODULE CollectionLemmas ---------------------------
(***************************************************************************)
(* Facts about the collections that the components share: SumFunction(f),  *)
(* the sum of a function's values over its finite domain, for the          *)
(* conservation laws of the ledger, the budget and the metrics, and        *)
(* Only(s, S), what of a sequence belongs to a set.                        *)
(*                                                                         *)
(* Both are defined by a recursive function.  That the function exists,    *)
(* and that elements may be removed from a sum in any order, are shown     *)
(* with least counterexamples: the induction theorems of the library take  *)
(* a predicate, which the provers cannot instantiate.                      *)
(***************************************************************************)
EXTENDS Integers, Functions, Selection, FiniteSetTheorems, WellFoundedInduction, TLAPS

\* A non-empty set of naturals has a least element.
LEMMA LeastNat ==
  ASSUME NEW N \in SUBSET Nat, N # {}
  PROVE  \E n \in N : \A m \in N : n <= m
<1>1. PICK n \in N : \A m \in N : ~(<<m, n>> \in OpToRel(<, Nat))
  BY NatLessThanWellFounded, WFMin
<1>2. ASSUME NEW m \in N, m < n PROVE FALSE
  <2>1. <<m, n>> \in OpToRel(<, Nat)
    BY <1>2 DEF OpToRel
  <2>2. QED BY <1>1, <2>1
<1>3. QED BY <1>2

\* A non-empty family of finite sets has a member of least cardinality: none of its
\* proper subsets is in the family.
LEMMA SmallestSet ==
  ASSUME NEW S, IsFiniteSet(S), NEW F \in SUBSET (SUBSET S), F # {}
  PROVE  \E T \in F : \A x \in T : T \ {x} \notin F
<1> DEFINE N == {Cardinality(T) : T \in F}
<1>1. \A T \in F : IsFiniteSet(T) /\ Cardinality(T) \in Nat
  BY FS_Subset, FS_CardinalityType
<1>2. N \in SUBSET Nat /\ N # {}
  BY <1>1
<1>3. PICK n \in N : \A m \in N : n <= m
  BY <1>2, LeastNat
<1>4. PICK T \in F : n = Cardinality(T)
  OBVIOUS
<1>5. ASSUME NEW x \in T, T \ {x} \in F PROVE FALSE
  <2>1. Cardinality(T \ {x}) = n - 1 /\ n \in Nat
    BY <1>1, <1>4, FS_RemoveElement
  <2>2. n <= n - 1
    BY <1>3, <1>5, <2>1
  <2>3. QED BY <2>1, <2>2
<1>6. QED BY <1>5

\* The recursion of the sum, over the subsets of S in the family D.
Recurs(g, f, D) ==
  \A T \in D : g[T] = IF T = {} THEN 0
                      ELSE LET x == CHOOSE x \in T : TRUE IN f[x] + g[T \ {x}]

\* Functions that satisfy the recursion on subsets of at most n elements.
LEMMA BoundedRecursion ==
  ASSUME NEW S, IsFiniteSet(S), NEW f, NEW n \in Nat
  PROVE  \E g : Recurs(g, f, {T \in SUBSET S : Cardinality(T) <= n})
<1> DEFINE Up(k) == {T \in SUBSET S : Cardinality(T) <= k}
           Bad == {k \in Nat : ~\E g : Recurs(g, f, Up(k))}
<1> SUFFICES ASSUME Bad # {} PROVE FALSE
  OBVIOUS
<1>0. \A T \in SUBSET S : IsFiniteSet(T) /\ Cardinality(T) \in Nat
  BY FS_Subset, FS_CardinalityType
<1>1. PICK k \in Bad : \A m \in Bad : k <= m
  <2>1. Bad \in SUBSET Nat
    OBVIOUS
  <2> HIDE DEF Bad
  <2>2. QED BY <2>1, LeastNat
<1>2. CASE k = 0
  <2> DEFINE g == [T \in SUBSET S |-> 0]
  <2>1. \A T \in Up(0) : T = {} /\ g[T] = 0
    BY <1>0, FS_EmptySet
  <2>2. Recurs(g, f, Up(0))
    BY <2>1 DEF Recurs
  <2>3. QED BY <1>2, <2>2
<1>3. CASE k # 0
  <2>1. k - 1 \in Nat /\ k - 1 \notin Bad
    <3>1. k \in Nat /\ k - 1 \in Nat /\ ~(k <= k - 1)
      BY <1>3
    <3> HIDE DEF Bad
    <3>2. QED BY <1>1, <3>1
  <2>2. PICK g : Recurs(g, f, Up(k - 1))
    BY <2>1
  <2> DEFINE h == [T \in SUBSET S |-> IF T = {} THEN 0
                     ELSE LET x == CHOOSE x \in T : TRUE IN f[x] + g[T \ {x}]]
  <2>3. \A T \in Up(k - 1) : h[T] = g[T]
    BY <2>2 DEF Recurs
  <2>4. ASSUME NEW T \in Up(k), T # {} PROVE h[T \ {CHOOSE x \in T : TRUE}] = g[T \ {CHOOSE x \in T : TRUE}]
    <3>1. PICK x \in T : x = CHOOSE y \in T : TRUE
      BY <2>4
    <3>2. Cardinality(T \ {x}) = Cardinality(T) - 1 /\ T \ {x} \in SUBSET S
      BY <1>0, FS_RemoveElement
    <3>3. T \ {x} \in Up(k - 1)
      BY <1>0, <3>2
    <3>4. QED BY <2>3, <3>1, <3>3
  <2>5. ASSUME NEW T \in Up(k)
        PROVE  h[T] = IF T = {} THEN 0 ELSE LET x == CHOOSE x \in T : TRUE IN f[x] + h[T \ {x}]
    <3>1. h[T] = IF T = {} THEN 0 ELSE LET x == CHOOSE x \in T : TRUE IN f[x] + g[T \ {x}]
      OBVIOUS
    <3> HIDE DEF h
    <3>2. QED BY <2>4, <3>1
  <2>6. Recurs(h, f, Up(k))
    BY <2>5 DEF Recurs
  <2>7. QED BY <1>1, <2>6
<1>4. QED BY <1>2, <1>3

\* The sum is the value at S of a function that satisfies the recursion everywhere.
LEMMA SumRecursion ==
  ASSUME NEW S, IsFiniteSet(S), NEW f
  PROVE  \E g : g = [T \in SUBSET S |-> g[T]] /\ Recurs(g, f, SUBSET S) /\ SumFunctionOnSet(f, S) = g[S]
<1> DEFINE R(g) == g = [T \in SUBSET S |-> IF T = {} THEN 0
                          ELSE LET x == CHOOSE x \in T : TRUE IN f[x] + g[T \ {x}]]
           it == CHOOSE g : R(g)
<1>1. PICK g : Recurs(g, f, {T \in SUBSET S : Cardinality(T) <= Cardinality(S)})
  BY BoundedRecursion, FS_CardinalityType
<1>2. Recurs(g, f, SUBSET S)
  BY <1>1, FS_Subset DEF Recurs
<1> DEFINE h == [T \in SUBSET S |-> g[T]]
<1>3. R(h)
  <2>1. \A T \in SUBSET S : T # {} => h[T \ {CHOOSE x \in T : TRUE}] = g[T \ {CHOOSE x \in T : TRUE}]
    OBVIOUS
  <2>2. \A T \in SUBSET S : h[T] = IF T = {} THEN 0
                      ELSE LET x == CHOOSE x \in T : TRUE IN f[x] + h[T \ {x}]
    BY <1>2, <2>1 DEF Recurs
  <2> HIDE DEF h
  <2>3. h = [T \in SUBSET S |-> h[T]]
    BY DEF h
  <2>4. QED BY <2>2, <2>3
<1>4. R(it)
  BY <1>3
<1>5. SumFunctionOnSet(f, S) = it[S]
  BY DEF SumFunctionOnSet, FoldFunctionOnSet, MapThenFoldSet
<1> HIDE DEF it
<1>6. it = [T \in SUBSET S |-> it[T]] /\ Recurs(it, f, SUBSET S)
  BY <1>4 DEF Recurs
<1>7. QED BY <1>5, <1>6

-----------------------------------------------------------------------------
\* g adds up f over the subsets of S, whatever element is taken away first.
AddsUp(g, f, S) ==
  /\ g \in [SUBSET S -> Int]
  /\ g[{}] = 0
  /\ \A T \in SUBSET S : \A x \in T : g[T] = f[x] + g[T \ {x}]

\* Sums of integers are integers, and elements can be removed in any order.
LEMMA PartialSums ==
  ASSUME NEW S, IsFiniteSet(S), NEW f \in [S -> Int]
  PROVE  \E g : AddsUp(g, f, S) /\ SumFunctionOnSet(f, S) = g[S]
<1>1. PICK g : g = [T \in SUBSET S |-> g[T]] /\ Recurs(g, f, SUBSET S) /\ SumFunctionOnSet(f, S) = g[S]
  BY SumRecursion
<1>2. ASSUME NEW T \in SUBSET S, T # {}
      PROVE  \E x \in T : T \ {x} \in SUBSET S /\ g[T] = f[x] + g[T \ {x}]
  <2>1. (CHOOSE x \in T : TRUE) \in T
    BY <1>2
  <2>2. QED BY <1>1, <1>2, <2>1 DEF Recurs
<1>3. \A T \in SUBSET S : g[T] \in Int
  <2> DEFINE F == {T \in SUBSET S : g[T] \notin Int}
  <2> SUFFICES ASSUME F # {} PROVE FALSE
    OBVIOUS
  <2>1. PICK T \in F : \A x \in T : T \ {x} \notin F
    <3>1. F \in SUBSET (SUBSET S)
      OBVIOUS
    <3> HIDE DEF F
    <3>2. QED BY <3>1, SmallestSet
  <2>2. T # {}
    <3>1. g[{}] = 0
      BY <1>1 DEF Recurs
    <3>2. QED BY <3>1
  <2>3. PICK x \in T : T \ {x} \in SUBSET S /\ g[T] = f[x] + g[T \ {x}]
    BY <1>2, <2>2
  <2>4. g[T \ {x}] \in Int /\ f[x] \in Int
    BY <2>1, <2>3
  <2>5. QED BY <2>3, <2>4
<1>4. \A T \in SUBSET S : \A x \in T : g[T] = f[x] + g[T \ {x}]
  <2> DEFINE Any(T) == \A x \in T : g[T] = f[x] + g[T \ {x}]
             F == {T \in SUBSET S : ~Any(T)}
  <2> SUFFICES ASSUME F # {} PROVE FALSE
    OBVIOUS
  <2>1. PICK T \in F : \A x \in T : T \ {x} \notin F
    <3>1. F \in SUBSET (SUBSET S)
      OBVIOUS
    <3> HIDE DEF F
    <3>2. QED BY <3>1, SmallestSet
  <2>2. PICK x \in T : g[T] # f[x] + g[T \ {x}]
    OBVIOUS
  <2>3. PICK y \in T : T \ {y} \in SUBSET S /\ g[T] = f[y] + g[T \ {y}]
    BY <1>2, <2>2
  <2>4. x # y
    BY <2>2, <2>3
  <2>5. g[T \ {y}] = f[x] + g[(T \ {y}) \ {x}] /\ g[T \ {x}] = f[y] + g[(T \ {x}) \ {y}]
    <3>1. Any(T \ {y}) /\ Any(T \ {x})
      BY <2>1
    <3>2. x \in T \ {y} /\ y \in T \ {x}
      BY <2>4
    <3>3. QED BY <3>1, <3>2
  <2>6. (T \ {y}) \ {x} = (T \ {x}) \ {y}
    OBVIOUS
  <2> DEFINE u == g[(T \ {x}) \ {y}]
  <2>7. u \in Int /\ f[x] \in Int /\ f[y] \in Int
    BY <1>3
  <2>8. g[T] = f[y] + (f[x] + u) /\ g[T \ {x}] = f[y] + u
    BY <2>3, <2>5, <2>6
  <2> HIDE DEF u
  <2>9. QED BY <2>2, <2>7, <2>8
<1>5. g[{}] = 0
  BY <1>1 DEF Recurs
<1>6. QED BY <1>1, <1>3, <1>4, <1>5 DEF AddsUp

\* SumFunction is the sum over the domain.
LEMMA SumOf ==
  ASSUME NEW S, IsFiniteSet(S), NEW f \in [S -> Int]
  PROVE  \E g : AddsUp(g, f, S) /\ SumFunction(f) = g[S]
<1>1. DOMAIN f = S
  OBVIOUS
<1>2. QED BY <1>1, PartialSums DEF SumFunction

\* The sum of integers is an integer.
LEMMA SumType ==
  ASSUME NEW S, IsFiniteSet(S), NEW f \in [S -> Int]
  PROVE  SumFunction(f) \in Int
<1>1. PICK g : AddsUp(g, f, S) /\ SumFunction(f) = g[S]
  BY SumOf
<1>2. QED BY <1>1 DEF AddsUp

\* Pointwise smaller functions have smaller partial sums.
LEMMA PartialSumsMonotone ==
  ASSUME NEW S, IsFiniteSet(S), NEW f \in [S -> Int], NEW h \in [S -> Int],
         NEW T \in SUBSET S, \A x \in T : f[x] <= h[x],
         NEW a, NEW b, AddsUp(a, f, S), AddsUp(b, h, S)
  PROVE  a[T] <= b[T]
<1> DEFINE F == {U \in SUBSET T : ~(a[U] <= b[U])}
<1> SUFFICES ASSUME F # {} PROVE FALSE
  OBVIOUS
<1>1. PICK U \in F : \A x \in U : U \ {x} \notin F
  <2>1. F \in SUBSET (SUBSET T) /\ IsFiniteSet(T)
    BY FS_Subset
  <2> HIDE DEF F
  <2>2. QED BY <2>1, SmallestSet
<1>2. PICK x \in U : TRUE
  <2>1. a[{}] = 0 /\ b[{}] = 0
    BY DEF AddsUp
  <2>2. a[U] # b[U] \/ a[U] \notin Int
    BY <1>1 DEF AddsUp
  <2>3. QED BY <2>1, <2>2
<1>3. a[U \ {x}] <= b[U \ {x}] /\ f[x] <= h[x]
  BY <1>1, <1>2
<1>4. a[U] = f[x] + a[U \ {x}] /\ b[U] = h[x] + b[U \ {x}]
  BY <1>1, <1>2 DEF AddsUp
<1>5. /\ f[x] \in Int /\ h[x] \in Int /\ U \ {x} \in SUBSET S
      /\ a[U \ {x}] \in Int /\ b[U \ {x}] \in Int
  BY <1>1, <1>2 DEF AddsUp
<1>6. QED BY <1>1, <1>3, <1>4, <1>5

\* A sum of naturals is a natural, and no term or pair of terms exceeds it.
LEMMA SumNat ==
  ASSUME NEW S, IsFiniteSet(S), NEW f \in [S -> Nat]
  PROVE  /\ SumFunction(f) \in Nat
         /\ \A x \in S : f[x] <= SumFunction(f)
         /\ (\A x \in S : f[x] = 0) => SumFunction(f) = 0
<1> DEFINE z == [x \in S |-> 0]
<1>1. f \in [S -> Int] /\ z \in [S -> Int]
  OBVIOUS
<1>2. PICK g : AddsUp(g, f, S) /\ SumFunction(f) = g[S]
  BY <1>1, SumOf
<1>3. AddsUp([T \in SUBSET S |-> 0], z, S)
  <2> DEFINE o == [T \in SUBSET S |-> 0]
  <2>1. \A T \in SUBSET S : \A x \in T : o[T] = z[x] + o[T \ {x}]
    OBVIOUS
  <2>2. o \in [SUBSET S -> Int] /\ o[{}] = 0
    OBVIOUS
  <2> HIDE DEF o
  <2>3. AddsUp(o, z, S)
    <3> HIDE DEF z
    <3>1. QED BY <2>1, <2>2 DEF AddsUp
  <2>4. QED BY <2>3 DEF o
<1>4. \A T \in SUBSET S : g[T] >= 0 /\ g[T] \in Int
  <2> SUFFICES ASSUME NEW T \in SUBSET S PROVE g[T] >= 0 /\ g[T] \in Int
    OBVIOUS
  <2>1. \A x \in T : z[x] <= f[x]
    OBVIOUS
  <2>2. [U \in SUBSET S |-> 0][T] <= g[T]
    BY <1>1, <1>2, <1>3, <2>1, PartialSumsMonotone
  <2>3. QED BY <1>2, <2>2 DEF AddsUp
<1>5. \A x \in S : f[x] <= g[S]
  <2> SUFFICES ASSUME NEW x \in S PROVE f[x] <= g[S]
    OBVIOUS
  <2>1. g[S] = f[x] + g[S \ {x}]
    BY <1>2 DEF AddsUp
  <2>2. g[S \ {x}] \in Int /\ g[S \ {x}] >= 0
    BY <1>4
  <2>3. QED BY <2>1, <2>2
<1>6. ASSUME \A x \in S : f[x] = 0 PROVE g[S] <= 0
  <2>1. \A x \in S : f[x] <= z[x]
    BY <1>6
  <2>2. g[S] <= [U \in SUBSET S |-> 0][S]
    BY <1>1, <1>2, <1>3, <2>1, PartialSumsMonotone
  <2>3. QED BY <2>2
<1>7. QED BY <1>2, <1>4, <1>5, <1>6

\* Changing one value changes the sum by as much.
LEMMA SumChange ==
  ASSUME NEW S, IsFiniteSet(S), NEW f \in [S -> Int], NEW h \in [S -> Int],
         NEW x \in S, \A y \in S \ {x} : h[y] = f[y]
  PROVE  SumFunction(h) = SumFunction(f) - f[x] + h[x]
<1>1. PICK a : AddsUp(a, f, S) /\ SumFunction(f) = a[S]
  BY SumOf
<1>2. PICK b : AddsUp(b, h, S) /\ SumFunction(h) = b[S]
  BY SumOf
<1>3. a[S \ {x}] = b[S \ {x}]
  <2>1. \A y \in S \ {x} : f[y] \in Int /\ h[y] <= f[y] /\ f[y] <= h[y]
    OBVIOUS
  <2>2. a[S \ {x}] <= b[S \ {x}] /\ b[S \ {x}] <= a[S \ {x}]
    BY <1>1, <1>2, <2>1, PartialSumsMonotone
  <2>3. a[S \ {x}] \in Int /\ b[S \ {x}] \in Int
    BY <1>1, <1>2 DEF AddsUp
  <2>4. QED BY <2>2, <2>3
<1>4. a[S] = f[x] + a[S \ {x}] /\ b[S] = h[x] + b[S \ {x}] /\ a[S \ {x}] \in Int
  BY <1>1, <1>2 DEF AddsUp
<1>5. QED BY <1>1, <1>2, <1>3, <1>4

\* Sums of functions add up pointwise.
LEMMA SumPlus ==
  ASSUME NEW S, IsFiniteSet(S), NEW f \in [S -> Int], NEW g \in [S -> Int], NEW h \in [S -> Int],
         \A x \in S : h[x] = f[x] + g[x]
  PROVE  SumFunction(h) = SumFunction(f) + SumFunction(g)
<1>1. PICK a : AddsUp(a, f, S) /\ SumFunction(f) = a[S]
  BY SumOf
<1>2. PICK b : AddsUp(b, g, S) /\ SumFunction(g) = b[S]
  BY SumOf
<1>3. PICK c : AddsUp(c, h, S) /\ SumFunction(h) = c[S]
  BY SumOf
<1> DEFINE F == {T \in SUBSET S : c[T] # a[T] + b[T]}
<1>4. F = {}
  <2> SUFFICES ASSUME F # {} PROVE FALSE
    OBVIOUS
  <2>1. PICK T \in F : \A x \in T : T \ {x} \notin F
    <3>1. F \in SUBSET (SUBSET S)
      OBVIOUS
    <3> HIDE DEF F
    <3>2. QED BY <3>1, SmallestSet
  <2>2. PICK x \in T : TRUE
    <3>1. a[{}] = 0 /\ b[{}] = 0 /\ c[{}] = 0
      BY <1>1, <1>2, <1>3 DEF AddsUp
    <3>2. c[{}] = a[{}] + b[{}]
      BY <3>1
    <3>3. T # {}
      BY <2>1, <3>2
    <3>4. QED BY <3>3
  <2>3. T \in SUBSET S /\ T \ {x} \in SUBSET S /\ x \in S
    BY <2>1
  <2>4. c[T \ {x}] = a[T \ {x}] + b[T \ {x}]
    BY <2>1, <2>2, <2>3
  <2>5. /\ a[T] = f[x] + a[T \ {x}] /\ b[T] = g[x] + b[T \ {x}] /\ c[T] = h[x] + c[T \ {x}]
        /\ a[T \ {x}] \in Int /\ b[T \ {x}] \in Int
    BY <1>1, <1>2, <1>3, <2>2, <2>3 DEF AddsUp
  <2>6. c[T] = a[T] + b[T]
    <3>1. h[x] = f[x] + g[x] /\ f[x] \in Int /\ g[x] \in Int
      BY <2>3
    <3>2. QED BY <2>4, <2>5, <3>1
  <2>7. QED BY <2>1, <2>6
<1>5. QED BY <1>1, <1>2, <1>3, <1>4

(***************************************************************************)
(* What is taken from a sequence.                                          *)
(***************************************************************************)
\* One more element of a sequence, and one less.
LEMMA Lengthened ==
  ASSUME NEW E, NEW s \in Seq(E), NEW e \in E
  PROVE  /\ Append(s, e) \in Seq(E) /\ Range(Append(s, e)) = Range(s) \cup {e}
         /\ IsInjective(s) /\ e \notin Range(s) => IsInjective(Append(s, e))
<1> DEFINE n == Len(s)
           t == Append(s, e)
<1>1. /\ t \in Seq(E) /\ n \in Nat /\ DOMAIN t = 1 .. n + 1 /\ DOMAIN s = 1 .. n
      /\ t[n + 1] = e /\ \A i \in 1 .. n : t[i] = s[i]
  OBVIOUS
<1> HIDE DEF t, n
<1>2. Range(t) = Range(s) \cup {e}
  <2>1. \A i \in DOMAIN t : t[i] \in Range(s) \cup {e}
    <3>1. \A i \in 1 .. n + 1 : i \in 1 .. n \/ i = n + 1
      BY <1>1
    <3>2. QED BY <1>1, <3>1 DEF Range
  <2>2. \A i \in DOMAIN s : i \in DOMAIN t /\ t[i] = s[i]
    BY <1>1
  <2>3. n + 1 \in DOMAIN t
    BY <1>1
  <2>4. QED BY <1>1, <2>1, <2>2, <2>3 DEF Range
<1>3. ASSUME IsInjective(s), e \notin Range(s) PROVE IsInjective(t)
  <2>1. \A i \in 1 .. n : s[i] # e
    BY <1>1, <1>3 DEF Range
  <2>2. ASSUME NEW i \in 1 .. n + 1, NEW j \in 1 .. n + 1, t[i] = t[j] PROVE i = j
    <3>1. CASE i \in 1 .. n /\ j \in 1 .. n
      BY <1>1, <1>3, <2>2, <3>1 DEF IsInjective
    <3>2. CASE i = n + 1 \/ j = n + 1
      BY <1>1, <2>1, <2>2, <3>2
    <3>3. QED BY <1>1, <3>1, <3>2
  <2>3. QED BY <1>1, <2>2 DEF IsInjective
<1>4. QED BY <1>1, <1>2, <1>3 DEF t

\* One step of taking, and what takes the first m elements.
Takes(g, s, S, n) == IF n = 0 THEN <<>> ELSE IF s[n] \in S THEN Append(g[n - 1], s[n]) ELSE g[n - 1]

LEMMA TakingExists ==
  ASSUME NEW E, NEW s \in Seq(E), NEW S, NEW m \in Nat
  PROVE  \E g : \A n \in 0 .. m : g[n] = Takes(g, s, S, n)
<1> DEFINE P(k) == \E g : \A n \in 0 .. k : g[n] = Takes(g, s, S, n)
           Bad == {k \in Nat : ~P(k)}
<1> SUFFICES ASSUME Bad # {} PROVE FALSE
  OBVIOUS
<1>1. PICK k \in Bad : \A j \in Bad : k <= j
  <2>1. Bad \in SUBSET Nat
    OBVIOUS
  <2> HIDE DEF Bad
  <2>2. QED BY <2>1, LeastNat
<1>2. k \in Nat /\ ~P(k)
  OBVIOUS
<1>3. CASE k = 0
  <2> DEFINE g == [n \in {0} |-> <<>>]
  <2>1. \A n \in 0 .. 0 : n = 0 /\ g[n] = <<>>
    OBVIOUS
  <2>2. \A n \in 0 .. 0 : g[n] = Takes(g, s, S, n)
    BY <2>1 DEF Takes
  <2>3. P(0)
    BY <2>2
  <2>4. QED BY <1>2, <1>3, <2>3
<1>4. CASE k # 0
  <2>1. k - 1 \in Nat /\ k - 1 \notin Bad
    <3>1. k - 1 \in Nat /\ ~(k <= k - 1)
      BY <1>2, <1>4
    <3> HIDE DEF Bad
    <3>2. QED BY <1>1, <3>1
  <2>2. PICK g : \A n \in 0 .. k - 1 : g[n] = Takes(g, s, S, n)
    BY <2>1
  <2> DEFINE h == [n \in 0 .. k |-> IF n = k THEN Takes(g, s, S, k) ELSE g[n]]
  <2>3. \A n \in 0 .. k - 1 : n \in 0 .. k /\ n # k /\ h[n] = g[n]
    BY <1>2
  <2>4. ASSUME NEW n \in 0 .. k PROVE h[n] = Takes(h, s, S, n)
    <3>1. n # 0 => n - 1 \in 0 .. k - 1 /\ h[n - 1] = g[n - 1]
      BY <1>2, <2>3
    <3>2. Takes(h, s, S, n) = Takes(g, s, S, n)
      <4> HIDE DEF h
      <4>1. QED BY <3>1 DEF Takes
    <3>3. h[n] = Takes(g, s, S, n)
      <4>1. n = k \/ n \in 0 .. k - 1
        BY <1>2
      <4>2. QED BY <2>2, <4>1
    <3>4. QED BY <3>2, <3>3
  <2> HIDE DEF h
  <2>5. P(k)
    BY <2>4
  <2>6. QED BY <1>2, <2>5
<1>5. QED BY <1>3, <1>4

LEMMA TakenSteps ==
  ASSUME NEW E, NEW s \in Seq(E), NEW S
  PROVE  \A n \in 0 .. Len(s) : Taken(s, S)[n] = Takes(Taken(s, S), s, S, n)
<1> DEFINE R(g) == g = [n \in 0 .. Len(s) |-> IF n = 0 THEN <<>>
                          ELSE IF s[n] \in S THEN Append(g[n - 1], s[n]) ELSE g[n - 1]]
           it == CHOOSE g : R(g)
<1>1. Len(s) \in Nat
  OBVIOUS
<1>2. PICK g : \A n \in 0 .. Len(s) : g[n] = Takes(g, s, S, n)
  BY <1>1, TakingExists
<1> DEFINE h == [n \in 0 .. Len(s) |-> g[n]]
<1>3. \A n \in 0 .. Len(s) : n # 0 => n - 1 \in 0 .. Len(s) /\ h[n - 1] = g[n - 1]
  BY <1>1
<1>4. R(h)
  BY <1>2, <1>3 DEF Takes
<1> HIDE DEF h
<1>5. R(it)
  BY <1>4
<1>6. Taken(s, S) = it
  BY DEF Taken
<1> HIDE DEF it
<1>7. QED BY <1>5, <1>6 DEF Takes

\* What is taken is what belongs to the set, and nothing is taken twice.
LEMMA OnlyThese ==
  ASSUME NEW E, NEW s \in Seq(E), NEW S
  PROVE  /\ Only(s, S) \in Seq(E) /\ Range(Only(s, S)) = Range(s) \cap S
         /\ IsInjective(s) => IsInjective(Only(s, S))
<1> DEFINE g == Taken(s, S)
           Upto(n) == {s[i] : i \in 1 .. n}
           Right(n) == /\ g[n] \in Seq(E) /\ Range(g[n]) = Upto(n) \cap S
                       /\ IsInjective(s) => IsInjective(g[n])
           Bad == {n \in 0 .. Len(s) : ~Right(n)}
<1>1. Len(s) \in Nat /\ DOMAIN s = 1 .. Len(s) /\ \A n \in 1 .. Len(s) : s[n] \in E
  OBVIOUS
<1>2. \A n \in 0 .. Len(s) : g[n] = Takes(g, s, S, n)
  BY TakenSteps
<1> HIDE DEF g
<1>3. Right(0)
  <2>1. g[0] = <<>> /\ <<>> \in Seq(E) /\ Range(<<>>) = {} /\ Upto(0) = {} /\ IsInjective(<<>>)
    BY <1>1, <1>2 DEF Takes, Range, IsInjective
  <2>2. QED BY <2>1
<1>4. ASSUME NEW n \in 1 .. Len(s), Right(n - 1) PROVE Right(n)
  <2>1. n - 1 \in 0 .. Len(s) /\ n \in 0 .. Len(s) /\ n # 0 /\ s[n] \in E
    BY <1>1
  <2>2. Upto(n) = Upto(n - 1) \cup {s[n]}
    <3>1. \A i \in 1 .. n : i \in 1 .. n - 1 \/ i = n
      BY <1>1
    <3>2. n \in 1 .. n /\ \A i \in 1 .. n - 1 : i \in 1 .. n
      BY <1>1
    <3>3. QED BY <3>1, <3>2
  <2>3. g[n] = IF s[n] \in S THEN Append(g[n - 1], s[n]) ELSE g[n - 1]
    BY <1>2, <2>1 DEF Takes
  <2>4. CASE s[n] \notin S
    BY <1>4, <2>2, <2>3, <2>4
  <2>5. CASE s[n] \in S
    <3>1. /\ g[n] \in Seq(E) /\ Range(g[n]) = Range(g[n - 1]) \cup {s[n]}
          /\ IsInjective(g[n - 1]) /\ s[n] \notin Range(g[n - 1]) => IsInjective(g[n])
      BY <1>4, <2>1, <2>3, <2>5, Lengthened
    <3>2. IsInjective(s) => s[n] \notin Upto(n - 1)
      <4>1. \A i \in 1 .. n - 1 : i \in 1 .. Len(s) /\ i # n
        BY <1>1
      <4>2. QED BY <1>1, <4>1 DEF IsInjective
    <3>3. QED BY <1>4, <2>2, <2>5, <3>1, <3>2
  <2>6. QED BY <2>4, <2>5
<1>5. Bad = {}
  <2> SUFFICES ASSUME Bad # {} PROVE FALSE
    OBVIOUS
  <2>1. Bad \in SUBSET Nat /\ \A n \in Bad : n \in 0 .. Len(s) /\ ~Right(n)
    BY <1>1
  <2>2. \A n \in 0 .. Len(s) : n \notin Bad => Right(n)
    OBVIOUS
  <2> HIDE DEF Bad, Right
  <2>3. PICK n \in Bad : \A k \in Bad : n <= k
    BY <2>1, LeastNat
  <2>4. n \in 1 .. Len(s)
    BY <1>1, <1>3, <2>1
  <2>5. n - 1 \in 0 .. Len(s) /\ ~(n <= n - 1)
    BY <1>1, <2>4
  <2>6. Right(n - 1)
    BY <2>2, <2>3, <2>5
  <2>7. QED BY <1>4, <2>1, <2>4, <2>6
<1>6. Right(Len(s)) /\ Upto(Len(s)) = Range(s) /\ Only(s, S) = g[Len(s)]
  <2>1. Len(s) \in 0 .. Len(s)
    BY <1>1
  <2>2. Right(Len(s))
    BY <1>5, <2>1
  <2>3. Upto(Len(s)) = Range(s)
    BY <1>1 DEF Range
  <2> HIDE DEF Right, Upto
  <2>4. QED BY <2>2, <2>3 DEF Only, g
<1>7. QED BY <1>6
===============================================================================
