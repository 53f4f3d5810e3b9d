-------------------------------- MODULE Sums --------------------------------
(***************************************************************************)
(* What the proofs need to know of SumFunction, Max and functions defined  *)
(* by recursion.  The library's induction theorems take an operator, which *)
(* the provers cannot instantiate; the ones below take the set of what the *)
(* claim holds of in its place.                                            *)
(***************************************************************************)
EXTENDS Integers, Sequences, FiniteSets, FiniteSetsExt, Functions, FiniteSetTheorems, SequenceTheorems,
        WellFoundedInduction, TLAPS

-----------------------------------------------------------------------------
\* Induction, with a set in the place of the predicate

\* Any set of naturals has a least one.
LEMMA LeastNatural ==
    ASSUME NEW T \in SUBSET Nat, T # {}
    PROVE  \E n \in T : \A m \in T : n <= m
<1> DEFINE R == {ss \in Nat \X Nat : ss[1] < ss[2]}
<1>1. IsWellFoundedOn(R, Nat)
    BY NatLessThanWellFounded DEF OpToRel
<1>2. PICK n \in T : \A m \in T : ~ (<<m, n>> \in R)
  <2> HIDE DEF R
  <2> QED
      BY <1>1, WFMin
<1>3. ASSUME NEW m \in T, m < n PROVE FALSE
  <2>1. <<m, n>> \in Nat \X Nat /\ <<m, n>>[1] < <<m, n>>[2]
      BY <1>3
  <2>2. <<m, n>> \in R
      BY <2>1
  <2> QED
      BY <2>2, <1>2
<1> QED
    BY <1>2, <1>3

\* A set with 0 that has n + 1 with n has all naturals.
LEMMA NatSetInduction ==
    ASSUME NEW G, 0 \in G, \A n \in Nat : n \in G => n + 1 \in G
    PROVE  Nat \subseteq G
<1> SUFFICES ASSUME Nat \ G # {} PROVE FALSE
    OBVIOUS
<1>1. PICK n \in Nat \ G : \A m \in Nat \ G : n <= m
    BY LeastNatural
<1>2. n # 0 /\ n - 1 \in Nat
    BY <1>1
<1>3. n - 1 \in G
    BY <1>1, <1>2
<1> QED
    BY <1>1, <1>2, <1>3

\* What holds of {} and goes on when an element joins holds of S.
LEMMA FiniteSetInduction ==
    ASSUME NEW S, IsFiniteSet(S), NEW G, {} \in G,
           \A s \in SUBSET S, x \in S : s \in G /\ x \notin s => s \union {x} \in G
    PROVE  S \in G
<1> DEFINE C == {n \in Nat : \A s \in SUBSET S : Cardinality(s) = n => s \in G}
<1>1. \A s \in SUBSET S : IsFiniteSet(s) /\ Cardinality(s) \in Nat
    BY FS_Subset, FS_CardinalityType
<1>2. 0 \in C
    BY <1>1, FS_EmptySet
<1>3. ASSUME NEW n \in Nat, n \in C PROVE n + 1 \in C
  <2> SUFFICES ASSUME NEW s \in SUBSET S, Cardinality(s) = n + 1 PROVE s \in G
      OBVIOUS
  <2>1. s # {}
      BY FS_EmptySet
  <2>2. PICK x : x \in s
      BY <2>1
  <2>3. Cardinality(s \ {x}) = n
    <3>1. Cardinality(s \ {x}) = Cardinality(s) - 1
        BY <1>1, <2>2, FS_RemoveElement
    <3> QED
        BY <3>1
  <2>4. s \ {x} \in G
      BY <1>3, <2>3
  <2>5. s = (s \ {x}) \union {x}
      BY <2>2
  <2> QED
      BY <2>2, <2>4, <2>5
<1>4. Nat \subseteq C
  <2> HIDE DEF C
  <2> QED
      BY <1>2, <1>3, NatSetInduction
<1> QED
    BY <1>1, <1>4

\* What holds of <<>> and goes on when an element is appended holds of each
\* sequence.
LEMMA SequenceInduction ==
    ASSUME NEW X, NEW G, <<>> \in G,
           \A s \in Seq(X), x \in X : s \in G => Append(s, x) \in G
    PROVE  Seq(X) \subseteq G
<1> DEFINE C == {n \in Nat : \A s \in Seq(X) : Len(s) = n => s \in G}
<1>1. 0 \in C
    BY EmptySeq
<1>2. ASSUME NEW n \in Nat, n \in C PROVE n + 1 \in C
  <2> SUFFICES ASSUME NEW s \in Seq(X), Len(s) = n + 1 PROVE s \in G
      OBVIOUS
  <2>1. s # <<>>
      BY EmptySeq
  <2>2. PICK r \in Seq(X), x \in X : s = Append(r, x)
      BY <2>1, SequenceEmptyOrAppend
  <2>3. Len(r) = n
      BY <2>2, AppendProperties
  <2>4. r \in G
      BY <2>3, <1>2
  <2> QED
      BY <2>2, <2>4
<1>3. Nat \subseteq C
  <2> HIDE DEF C
  <2> QED
      BY <1>1, <1>2, NatSetInduction
<1> QED
    BY <1>3, LenProperties

\* What holds of a set when it holds of its proper parts holds of all parts of S.
LEMMA SubsetInduction ==
    ASSUME NEW S, IsFiniteSet(S), NEW G,
           \A s \in SUBSET S : (\A t \in SUBSET s : t # s => t \in G) => s \in G
    PROVE  SUBSET S \subseteq G
<1> DEFINE C == {n \in Nat : \A s \in SUBSET S : Cardinality(s) <= n => s \in G}
<1>1. \A s \in SUBSET S : IsFiniteSet(s) /\ Cardinality(s) \in Nat
    BY FS_Subset, FS_CardinalityType
<1>2. 0 \in C
  <2> SUFFICES ASSUME NEW s \in SUBSET S, Cardinality(s) <= 0 PROVE s \in G
      OBVIOUS
  <2>1. s = {}
    <3>1. Cardinality(s) = 0
        BY <1>1
    <3> QED
        BY <1>1, <3>1, FS_EmptySet
  <2> QED
      BY <2>1
<1>3. ASSUME NEW n \in Nat, n \in C PROVE n + 1 \in C
  <2> SUFFICES ASSUME NEW s \in SUBSET S, Cardinality(s) <= n + 1 PROVE s \in G
      OBVIOUS
  <2>1. ASSUME NEW t \in SUBSET s, t # s PROVE t \in G
    <3>1. t \subseteq s /\ t \in SUBSET S
        OBVIOUS
    <3>2. Cardinality(t) <= Cardinality(s) /\ Cardinality(t) # Cardinality(s)
        BY <1>1, <2>1, <3>1, FS_Subset
    <3>3. Cardinality(t) <= n
        BY <1>1, <3>1, <3>2
    <3> QED
        BY <1>3, <3>1, <3>3
  <2> QED
      BY <2>1
<1>4. Nat \subseteq C
  <2> HIDE DEF C
  <2> QED
      BY <1>2, <1>3, NatSetInduction
<1> QED
    BY <1>1, <1>4

-----------------------------------------------------------------------------
\* SumFunction, of the community modules, is a fold: the function it iterates

IterOn(f, D, g) ==
    g = [s \in D |-> IF s = {} THEN 0
                     ELSE f[CHOOSE x \in s : TRUE] + g[s \ {CHOOSE x \in s : TRUE}]]

\* The function that SumFunction chooses exists.
LEMMA IterExists ==
    ASSUME NEW f, NEW S, IsFiniteSet(S)
    PROVE  \E g : IterOn(f, SUBSET S, g)
<1> DEFINE Upto(n) == {s \in SUBSET S : Cardinality(s) <= n}
           C == {n \in Nat : \E g : IterOn(f, Upto(n), g)}
           c(s) == CHOOSE x \in s : TRUE
<1>1. \A s \in SUBSET S : IsFiniteSet(s) /\ Cardinality(s) \in Nat
    BY FS_Subset, FS_CardinalityType
<1>2. \A s \in SUBSET S : s # {} =>
          c(s) \in s /\ s \ {c(s)} \in SUBSET S /\ Cardinality(s \ {c(s)}) = Cardinality(s) - 1
    BY <1>1, FS_RemoveElement
<1>3. 0 \in C
  <2>1. Upto(0) = {{}}
      BY <1>1, FS_EmptySet
  <2>2. IterOn(f, Upto(0), [s \in Upto(0) |-> 0])
      BY <2>1 DEF IterOn
  <2> QED
      BY <2>2
<1>4. ASSUME NEW n \in Nat, n \in C PROVE n + 1 \in C
  <2>1. PICK g : IterOn(f, Upto(n), g)
      BY <1>4
  <2> DEFINE h == [s \in Upto(n + 1) |-> IF s = {} THEN 0 ELSE f[c(s)] + g[s \ {c(s)}]]
  <2>2. \A s \in Upto(n) : g[s] = IF s = {} THEN 0 ELSE f[c(s)] + g[s \ {c(s)}]
      BY <2>1 DEF IterOn
  <2>3. Upto(n) \subseteq Upto(n + 1)
      BY <1>1
  <2>4. \A s \in Upto(n) : h[s] = g[s]
      BY <2>2, <2>3
  <2>5. \A s \in Upto(n + 1) : s # {} => s \ {c(s)} \in Upto(n)
      BY <1>1, <1>2
  <2>6. h = [s \in Upto(n + 1) |-> IF s = {} THEN 0 ELSE f[c(s)] + h[s \ {c(s)}]]
    <3> HIDE DEF Upto
    <3> QED
        BY <2>4, <2>5
  <2>7. IterOn(f, Upto(n + 1), h)
      BY <2>6 DEF IterOn
  <2> HIDE DEF h, Upto
  <2> QED
      BY <2>7
<1>5. Cardinality(S) \in C
  <2>1. Nat \subseteq C
    <3> HIDE DEF C
    <3> QED
        BY <1>3, <1>4, NatSetInduction
  <2> QED
      BY <2>1, FS_CardinalityType
<1>6. Upto(Cardinality(S)) = SUBSET S
  <2>1. \A s \in SUBSET S : Cardinality(s) <= Cardinality(S)
      BY FS_Subset
  <2> QED
      BY <2>1
<1> QED
    BY <1>5, <1>6

\* What such a function does with the subsets of S.
Iterates(f, S, g) ==
    \A s \in SUBSET S :
        g[s] = IF s = {} THEN 0
               ELSE f[CHOOSE x \in s : TRUE] + g[s \ {CHOOSE x \in s : TRUE}]

\* It takes one element off at a time.
LEMMA IterStep ==
    ASSUME NEW f, NEW S, NEW g, Iterates(f, S, g), NEW s \in SUBSET S, s # {}
    PROVE  \E c \in s : /\ c = CHOOSE x \in s : TRUE
                        /\ s \ {c} \in SUBSET s /\ s \ {c} # s
                        /\ g[s] = f[c] + g[s \ {c}]
<1>1. g[s] = IF s = {} THEN 0 ELSE f[CHOOSE x \in s : TRUE] + g[s \ {CHOOSE x \in s : TRUE}]
    BY DEF Iterates
<1>2. (CHOOSE x \in s : TRUE) \in s
    OBVIOUS
<1> QED
    BY <1>1, <1>2

\* Two such functions agree on a set where their terms do.
LEMMA IterAgree ==
    ASSUME NEW f, NEW h, NEW D, NEW E, NEW g, NEW k,
           Iterates(f, D, g), Iterates(h, E, k),
           NEW S \in SUBSET D, S \in SUBSET E, IsFiniteSet(S), \A x \in S : f[x] = h[x]
    PROVE  g[S] = k[S]
<1> DEFINE G == {s \in SUBSET S : g[s] = k[s]}
<1>1. ASSUME NEW s \in SUBSET S, \A t \in SUBSET s : t # s => t \in G PROVE s \in G
  <2>1. CASE s = {}
      BY <2>1 DEF Iterates
  <2>2. CASE s # {}
    <3>1. PICK c \in s : /\ c = CHOOSE x \in s : TRUE
                         /\ s \ {c} \in SUBSET s /\ s \ {c} # s
                         /\ g[s] = f[c] + g[s \ {c}]
        BY <2>2, IterStep
    <3>2. k[s] = h[c] + k[s \ {c}]
      <4>1. PICK d \in s : d = (CHOOSE x \in s : TRUE) /\ k[s] = h[d] + k[s \ {d}]
          BY <2>2, IterStep
      <4> QED
          BY <3>1, <4>1
    <3>3. g[s \ {c}] = k[s \ {c}]
        BY <1>1, <3>1
    <3> QED
        BY <3>1, <3>2, <3>3
  <2> QED
      BY <2>1, <2>2
<1>2. SUBSET S \subseteq G
  <2> HIDE DEF G
  <2> QED
      BY <1>1, SubsetInduction
<1> QED
    BY <1>2

\* Sums of integers are integers.
LEMMA IterInt ==
    ASSUME NEW D, IsFiniteSet(D), NEW f \in [D -> Int], NEW g, Iterates(f, D, g),
           NEW S \in SUBSET D
    PROVE  g[S] \in Int
<1> DEFINE G == {s \in SUBSET D : g[s] \in Int}
<1>1. ASSUME NEW s \in SUBSET D, \A t \in SUBSET s : t # s => t \in G PROVE s \in G
  <2>1. CASE s = {}
    <3>1. g[{}] = 0
        BY DEF Iterates
    <3> QED
        BY <2>1, <3>1
  <2>2. CASE s # {}
    <3>1. PICK c \in s : /\ s \ {c} \in SUBSET s /\ s \ {c} # s
                         /\ g[s] = f[c] + g[s \ {c}]
        BY <2>2, IterStep
    <3>2. g[s \ {c}] \in Int /\ f[c] \in Int
        BY <1>1, <3>1
    <3>3. g[s] \in Int
        BY <3>1, <3>2
    <3> QED
        BY <3>3
  <2> QED
      BY <2>1, <2>2
<1>2. SUBSET D \subseteq G
  <2> HIDE DEF G
  <2> QED
      BY <1>1, SubsetInduction
<1> QED
    BY <1>2

\* Which element is taken off first does not matter.
LEMMA IterRemove ==
    ASSUME NEW D, IsFiniteSet(D), NEW f \in [D -> Int], NEW g, Iterates(f, D, g),
           NEW S \in SUBSET D, NEW x \in S
    PROVE  g[S] = f[x] + g[S \ {x}]
<1> DEFINE G == {s \in SUBSET D : \A y \in s : g[s] = f[y] + g[s \ {y}]}
<1>1. ASSUME NEW s \in SUBSET D, \A t \in SUBSET s : t # s => t \in G PROVE s \in G
  <2> SUFFICES ASSUME NEW y \in s PROVE g[s] = f[y] + g[s \ {y}]
      OBVIOUS
  <2>1. PICK c \in s : g[s] = f[c] + g[s \ {c}]
      BY IterStep
  <2>2. CASE y # c
    <3>1. s \ {c} \in G /\ s \ {y} \in G
        BY <1>1, <2>1
    <3>2. g[s \ {c}] = f[y] + g[(s \ {c}) \ {y}] /\ g[s \ {y}] = f[c] + g[(s \ {y}) \ {c}]
        BY <2>1, <2>2, <3>1
    <3>3. (s \ {c}) \ {y} = (s \ {y}) \ {c}
        OBVIOUS
    <3>4. f[c] \in Int /\ f[y] \in Int /\ g[(s \ {y}) \ {c}] \in Int
        BY <2>1, IterInt
    <3>5. g[s] = f[c] + (f[y] + g[(s \ {y}) \ {c}])
        BY <2>1, <3>2, <3>3
    <3>6. f[y] + g[s \ {y}] = f[y] + (f[c] + g[(s \ {y}) \ {c}])
        BY <3>2
    <3>7. \A i, j, k \in Int : i + (j + k) = j + (i + k)
        OBVIOUS
    <3> QED
        BY <3>4, <3>5, <3>6, <3>7
  <2> QED
      BY <2>1, <2>2
<1>2. SUBSET D \subseteq G
  <2> HIDE DEF G
  <2> QED
      BY <1>1, SubsetInduction
<1> QED
    BY <1>2

-----------------------------------------------------------------------------
\* SumFunction: what its users need to know

\* SumFunction is the value of such a function at the whole domain.
LEMMA SumIter ==
    ASSUME NEW f, IsFiniteSet(DOMAIN f)
    PROVE  \E g : Iterates(f, DOMAIN f, g) /\ SumFunction(f) = g[DOMAIN f]
<1> DEFINE g == CHOOSE h : IterOn(f, SUBSET DOMAIN f, h)
<1>1. SumFunction(f) = g[DOMAIN f]
    BY DEF SumFunction, SumFunctionOnSet, FoldFunctionOnSet, MapThenFoldSet, IterOn
<1>2. Iterates(f, DOMAIN f, g)
  <2>1. IterOn(f, SUBSET DOMAIN f, g)
      BY IterExists
  <2> HIDE DEF g
  <2> QED
      BY <2>1 DEF IterOn, Iterates
<1> QED
    BY <1>1, <1>2

\* The empty sum.
LEMMA SumEmpty ==
    ASSUME NEW f, DOMAIN f = {}
    PROVE  SumFunction(f) = 0
<1>1. PICK g : Iterates(f, DOMAIN f, g) /\ SumFunction(f) = g[DOMAIN f]
    BY SumIter, FS_EmptySet
<1> QED
    BY <1>1 DEF Iterates

\* A sum of integers, one term of it and the sum of the others.
LEMMA SumRemove ==
    ASSUME NEW S, IsFiniteSet(S), NEW f \in [S -> Int], NEW x \in S,
           NEW r, r = [y \in S \ {x} |-> f[y]]
    PROVE  SumFunction(f) \in Int /\ SumFunction(f) = f[x] + SumFunction(r)
<1>1. PICK g : Iterates(f, S, g) /\ SumFunction(f) = g[S]
    BY SumIter
<1>2. IsFiniteSet(S \ {x}) /\ DOMAIN r = S \ {x}
    BY FS_Subset
<1>3. PICK k : Iterates(r, S \ {x}, k) /\ SumFunction(r) = k[S \ {x}]
    BY <1>2, SumIter
<1>4. g[S \ {x}] = k[S \ {x}]
  <2>1. \A y \in S \ {x} : f[y] = r[y]
      OBVIOUS
  <2>2. S \ {x} \in SUBSET S /\ S \ {x} \in SUBSET (S \ {x})
      OBVIOUS
  <2> QED
      BY <1>1, <1>2, <1>3, <2>1, <2>2, IterAgree
<1>5. g[S] \in Int /\ g[S] = f[x] + g[S \ {x}]
  <2>1. S \in SUBSET S
      OBVIOUS
  <2> QED
    <3>1. g[S] \in Int
        BY <1>1, <2>1, IterInt
    <3>2. g[S] = f[x] + g[S \ {x}]
        BY <1>1, <2>1, IterRemove
    <3> QED
        BY <3>1, <3>2
<1> QED
    BY <1>1, <1>3, <1>4, <1>5

\* The sum over a part of the domain.
SumOn(f, T) == SumFunction([x \in T |-> f[x]])

\* The sum over the whole domain.
LEMMA SumAll == ASSUME NEW S, NEW f \in [S -> Int] PROVE SumOn(f, S) = SumFunction(f)
<1>1. [x \in S |-> f[x]] = f
    OBVIOUS
<1> QED
    BY <1>1 DEF SumOn

\* One term more.
LEMMA SumInsert ==
    ASSUME NEW S, IsFiniteSet(S), NEW f \in [S -> Int],
           NEW T \in SUBSET S, NEW x \in S, x \notin T
    PROVE  SumOn(f, T \union {x}) = f[x] + SumOn(f, T)
<1> DEFINE g == [y \in T \union {x} |-> f[y]]
<1>1. IsFiniteSet(T \union {x}) /\ g \in [T \union {x} -> Int] /\ x \in T \union {x} /\ g[x] = f[x]
    BY FS_Subset
<1> DEFINE r == [y \in T |-> f[y]]
<1>2. r = [y \in (T \union {x}) \ {x} |-> g[y]]
    OBVIOUS
<1>3. SumFunction(g) = g[x] + SumFunction(r)
  <2> HIDE DEF g, r
  <2> QED
      BY <1>1, <1>2, SumRemove
<1> QED
    BY <1>1, <1>2, <1>3 DEF SumOn

\* The empty part of a sum.
LEMMA SumOnEmpty == ASSUME NEW f PROVE SumOn(f, {}) = 0
<1> DEFINE g == [x \in {} |-> f[x]]
<1>1. DOMAIN g = {}
    OBVIOUS
<1>2. SumFunction(g) = 0
  <2> HIDE DEF g
  <2> QED
      BY <1>1, SumEmpty
<1> QED
    BY <1>2 DEF SumOn

\* A part of a sum of integers is an integer.
LEMMA SumOnInt ==
    ASSUME NEW S, IsFiniteSet(S), NEW f \in [S -> Int], NEW T \in SUBSET S
    PROVE  SumOn(f, T) \in Int
<1> DEFINE g == [x \in T |-> f[x]]
<1>1. g \in [T -> Int] /\ IsFiniteSet(T) /\ DOMAIN g = T
    BY FS_Subset
<1>2. CASE T = {}
    BY <1>2, SumOnEmpty
<1>3. CASE T # {}
  <2>1. PICK x : x \in T
      BY <1>3
  <2>2. SumFunction(g) \in Int
    <3> DEFINE r == [y \in T \ {x} |-> g[y]]
    <3> HIDE DEF g
    <3>1. r = [y \in T \ {x} |-> g[y]]
        OBVIOUS
    <3> HIDE DEF r
    <3> QED
        BY <1>1, <2>1, <3>1, SumRemove
  <2> QED
      BY <2>2 DEF SumOn
<1> QED
    BY <1>2, <1>3

\* A sum of integers is an integer.
LEMMA SumInt ==
    ASSUME NEW S, IsFiniteSet(S), NEW f \in [S -> Int]
    PROVE  SumFunction(f) \in Int
<1>1. S \in SUBSET S
    OBVIOUS
<1> QED
    BY <1>1, SumOnInt, SumAll

\* A sum of one term.
LEMMA SumOfOne ==
    ASSUME NEW x, NEW f \in [{x} -> Int]
    PROVE  SumFunction(f) = f[x]
<1>1. IsFiniteSet({x}) /\ {} \in SUBSET {x} /\ x \in {x} /\ x \notin {}
    BY FS_Singleton
<1>2. SumOn(f, {} \union {x}) = f[x] + SumOn(f, {})
    BY <1>1, SumInsert
<1>3. {} \union {x} = {x}
    OBVIOUS
<1> QED
    BY <1>2, <1>3, SumOnEmpty, SumAll

\* Sums compare as their terms do.
LEMMA SumLeq ==
    ASSUME NEW S, IsFiniteSet(S), NEW f \in [S -> Int], NEW g \in [S -> Int],
           \A x \in S : f[x] <= g[x]
    PROVE  SumFunction(f) <= SumFunction(g)
<1> DEFINE G == {s \in SUBSET S : SumOn(f, s) <= SumOn(g, s)}
<1>1. {} \in G
    BY SumOnEmpty
<1>2. ASSUME NEW s \in SUBSET S, NEW x \in S, s \in G, x \notin s PROVE s \union {x} \in G
  <2>1. SumOn(f, s \union {x}) = f[x] + SumOn(f, s) /\ SumOn(g, s \union {x}) = g[x] + SumOn(g, s)
      BY <1>2, SumInsert
  <2>2. SumOn(f, s) \in Int /\ SumOn(g, s) \in Int
      BY SumOnInt
  <2>3. SumOn(f, s) <= SumOn(g, s) /\ f[x] <= g[x] /\ f[x] \in Int /\ g[x] \in Int
      BY <1>2
  <2>4. SumOn(f, s \union {x}) <= SumOn(g, s \union {x})
      BY <2>1, <2>2, <2>3
  <2> QED
      BY <2>4
<1>3. S \in G
  <2> HIDE DEF G
  <2> QED
      BY <1>1, <1>2, FiniteSetInduction
<1> QED
    BY <1>3, SumAll

\* The sum of a sum of terms.
LEMMA SumPlus ==
    ASSUME NEW S, IsFiniteSet(S), NEW f \in [S -> Int], NEW g \in [S -> Int], NEW h \in [S -> Int],
           \A x \in S : h[x] = f[x] + g[x]
    PROVE  SumFunction(h) = SumFunction(f) + SumFunction(g)
<1> DEFINE G == {s \in SUBSET S : SumOn(h, s) = SumOn(f, s) + SumOn(g, s)}
<1>1. {} \in G
    BY SumOnEmpty
<1>2. ASSUME NEW s \in SUBSET S, NEW x \in S, s \in G, x \notin s PROVE s \union {x} \in G
  <2>1. /\ SumOn(f, s \union {x}) = f[x] + SumOn(f, s) /\ SumOn(g, s \union {x}) = g[x] + SumOn(g, s)
        /\ SumOn(h, s \union {x}) = h[x] + SumOn(h, s)
      BY <1>2, SumInsert
  <2>2. SumOn(f, s) \in Int /\ SumOn(g, s) \in Int
      BY SumOnInt
  <2>3. SumOn(h, s) = SumOn(f, s) + SumOn(g, s) /\ h[x] = f[x] + g[x] /\ f[x] \in Int /\ g[x] \in Int
      BY <1>2
  <2>4. SumOn(h, s \union {x}) = SumOn(f, s \union {x}) + SumOn(g, s \union {x})
      BY <2>1, <2>2, <2>3
  <2> QED
      BY <2>4
<1>3. S \in G
  <2> HIDE DEF G
  <2> QED
      BY <1>1, <1>2, FiniteSetInduction
<1> QED
    BY <1>3, SumAll

\* A sum over a set is that over a part of it and that over the rest.
LEMMA SumParts ==
    ASSUME NEW S, IsFiniteSet(S), NEW f \in [S -> Int], NEW T \in SUBSET S
    PROVE  SumFunction(f) = SumOn(f, T) + SumOn(f, S \ T)
<1> DEFINE G == {s \in SUBSET S : SumOn(f, s) = SumOn(f, s \intersect T) + SumOn(f, s \ T)}
<1>1. {} \in G
  <2>1. {} \intersect T = {} /\ {} \ T = {}
      OBVIOUS
  <2> QED
      BY <2>1, SumOnEmpty
<1>2. ASSUME NEW s \in SUBSET S, NEW x \in S, s \in G, x \notin s PROVE s \union {x} \in G
  <2>1. SumOn(f, s \union {x}) = f[x] + SumOn(f, s)
      BY <1>2, SumInsert
  <2>2. s \intersect T \in SUBSET S /\ s \ T \in SUBSET S /\ x \notin s \intersect T /\ x \notin s \ T
      BY <1>2
  <2>3. SumOn(f, s) \in Int /\ SumOn(f, s \intersect T) \in Int /\ SumOn(f, s \ T) \in Int /\ f[x] \in Int
      BY <2>2, SumOnInt
  <2>4. SumOn(f, s) = SumOn(f, s \intersect T) + SumOn(f, s \ T)
      BY <1>2
  <2>5. CASE x \in T
    <3>1. (s \union {x}) \intersect T = (s \intersect T) \union {x} /\ (s \union {x}) \ T = s \ T
        BY <2>5
    <3>2. SumOn(f, (s \intersect T) \union {x}) = f[x] + SumOn(f, s \intersect T)
        BY <2>2, SumInsert
    <3>3. SumOn(f, s \union {x}) = SumOn(f, (s \union {x}) \intersect T) + SumOn(f, (s \union {x}) \ T)
      <4>1. SumOn(f, (s \union {x}) \intersect T) = f[x] + SumOn(f, s \intersect T)
          BY <3>1, <3>2
      <4>2. SumOn(f, (s \union {x}) \ T) = SumOn(f, s \ T)
          BY <3>1
      <4> QED
          BY <2>1, <2>3, <2>4, <4>1, <4>2
    <3> QED
        BY <3>3
  <2>6. CASE x \notin T
    <3>1. (s \union {x}) \intersect T = s \intersect T /\ (s \union {x}) \ T = (s \ T) \union {x}
        BY <2>6
    <3>2. SumOn(f, (s \ T) \union {x}) = f[x] + SumOn(f, s \ T)
        BY <2>2, SumInsert
    <3>3. SumOn(f, s \union {x}) = SumOn(f, (s \union {x}) \intersect T) + SumOn(f, (s \union {x}) \ T)
      <4>1. SumOn(f, (s \union {x}) \intersect T) = SumOn(f, s \intersect T)
          BY <3>1
      <4>2. SumOn(f, (s \union {x}) \ T) = f[x] + SumOn(f, s \ T)
          BY <3>1, <3>2
      <4> QED
          BY <2>1, <2>3, <2>4, <4>1, <4>2
    <3> QED
        BY <3>3
  <2> QED
      BY <2>5, <2>6
<1>3. S \in G
  <2> HIDE DEF G
  <2> QED
      BY <1>1, <1>2, FiniteSetInduction
<1>4. S \intersect T = T
    OBVIOUS
<1> QED
    BY <1>3, <1>4, SumAll

\* A sum of zeros.
LEMMA SumZero ==
    ASSUME NEW S, IsFiniteSet(S), NEW f \in [S -> Int], \A x \in S : f[x] = 0
    PROVE  SumFunction(f) = 0
<1>1. \A x \in S : f[x] = f[x] + f[x]
    OBVIOUS
<1>2. SumFunction(f) = SumFunction(f) + SumFunction(f)
    BY <1>1, SumPlus
<1> QED
    BY <1>2, SumInt

\* A sum of naturals is a natural.
LEMMA SumNat ==
    ASSUME NEW S, IsFiniteSet(S), NEW f \in [S -> Nat]
    PROVE  SumFunction(f) \in Nat
<1> DEFINE z == [x \in S |-> 0]
<1>1. z \in [S -> Int] /\ f \in [S -> Int] /\ \A x \in S : z[x] = 0 /\ z[x] <= f[x]
    OBVIOUS
<1> HIDE DEF z
<1>2. SumFunction(z) = 0 /\ SumFunction(z) <= SumFunction(f) /\ SumFunction(f) \in Int
    BY <1>1, SumZero, SumLeq, SumInt
<1> QED
    BY <1>2

\* A part of a sum of naturals is not above it.
LEMMA SumPart ==
    ASSUME NEW S, IsFiniteSet(S), NEW f \in [S -> Nat], NEW T \in SUBSET S
    PROVE  SumOn(f, T) \in Nat /\ SumOn(f, T) <= SumFunction(f)
<1>1. ASSUME NEW U \in SUBSET S PROVE SumOn(f, U) \in Nat
  <2> DEFINE g == [x \in U |-> f[x]]
  <2>1. g \in [U -> Nat] /\ IsFiniteSet(U)
      BY FS_Subset
  <2> HIDE DEF g
  <2>2. SumFunction(g) \in Nat
      BY <2>1, SumNat
  <2> QED
      BY <2>2 DEF SumOn, g
<1>2. f \in [S -> Int] /\ S \ T \in SUBSET S
    OBVIOUS
<1>3. SumFunction(f) = SumOn(f, T) + SumOn(f, S \ T)
    BY <1>2, SumParts
<1> QED
    BY <1>1, <1>2, <1>3

-----------------------------------------------------------------------------
\* Sums of sums

\* Terms that are differences, or multiples, of terms.
Difference(S, h, f, g) ==
    /\ IsFiniteSet(S) /\ h \in [S -> Int] /\ f \in [S -> Int] /\ g \in [S -> Int]
    /\ \A x \in S : h[x] = f[x] - g[x]
Multiple(S, h, c, f) ==
    /\ IsFiniteSet(S) /\ h \in [S -> Int] /\ f \in [S -> Int] /\ c \in Int
    /\ \A x \in S : h[x] = c * f[x]

\* The sum of a difference of terms.
LEMMA SumMinus ==
    ASSUME NEW S, NEW f, NEW g, NEW h, Difference(S, h, f, g)
    PROVE  SumFunction(h) = SumFunction(f) - SumFunction(g)
<1> USE DEF Difference
<1>1. \A x \in S : f[x] = h[x] + g[x]
    OBVIOUS
<1>2. SumFunction(f) = SumFunction(h) + SumFunction(g)
    BY <1>1, SumPlus
<1>3. SumFunction(f) \in Int /\ SumFunction(g) \in Int /\ SumFunction(h) \in Int
    BY SumInt
<1> QED
    BY <1>2, <1>3

\* The sum of a multiple of each term.
LEMMA SumScale ==
    ASSUME NEW S, NEW f, NEW h, NEW c, Multiple(S, h, c, f)
    PROVE  SumFunction(h) = c * SumFunction(f)
<1> USE DEF Multiple
<1> DEFINE G == {s \in SUBSET S : SumOn(h, s) = c * SumOn(f, s)}
<1>1. {} \in G
  <2>1. SumOn(h, {}) = 0 /\ SumOn(f, {}) = 0
      BY SumOnEmpty
  <2> QED
      BY <2>1
<1>2. ASSUME NEW s \in SUBSET S, NEW x \in S, s \in G, x \notin s PROVE s \union {x} \in G
  <2>1. SumOn(f, s \union {x}) = f[x] + SumOn(f, s) /\ SumOn(h, s \union {x}) = h[x] + SumOn(h, s)
      BY <1>2, SumInsert
  <2>2. SumOn(f, s) \in Int /\ f[x] \in Int
      BY SumOnInt
  <2>3. SumOn(h, s) = c * SumOn(f, s) /\ h[x] = c * f[x]
      BY <1>2
  <2>4. ASSUME NEW a \in Int, NEW b \in Int PROVE c * (a + b) = c * a + c * b
      OBVIOUS
  <2>5. c * (f[x] + SumOn(f, s)) = c * f[x] + c * SumOn(f, s)
      BY <2>2, <2>4
  <2>6. SumOn(h, s \union {x}) = c * SumOn(f, s \union {x})
      BY <2>1, <2>3, <2>5
  <2> QED
      BY <2>6
<1>3. S \in G
  <2> HIDE DEF G
  <2> QED
      BY <1>1, <1>2, FiniteSetInduction
<1> QED
    BY <1>3, SumAll

\* Terms that are zero can be left out.
LEMMA SumOnly ==
    ASSUME NEW S, IsFiniteSet(S), NEW f \in [S -> Int], NEW T \in SUBSET S,
           \A x \in S \ T : f[x] = 0
    PROVE  SumFunction(f) = SumOn(f, T)
<1> DEFINE g == [x \in S \ T |-> f[x]]
<1>1. g \in [S \ T -> Int] /\ IsFiniteSet(S \ T) /\ \A x \in S \ T : g[x] = 0
    BY FS_Subset
<1> HIDE DEF g
<1>2. SumFunction(g) = 0
    BY <1>1, SumZero
<1>3. SumOn(f, S \ T) = 0
    BY <1>2 DEF SumOn, g
<1>4. SumFunction(f) = SumOn(f, T) + SumOn(f, S \ T) /\ SumOn(f, T) \in Int
    BY SumParts, SumOnInt
<1> QED
    BY <1>3, <1>4

\* A table, by its rows and by its columns, and the sums of these.
Table(D, S, F, C, A, B) ==
    /\ \A d \in D : F[d] \in [S -> Int]
    /\ \A x \in S : C[x] \in [D -> Int] /\ \A d \in D : C[x][d] = F[d][x]
    /\ A \in [D -> Int] /\ \A d \in D : A[d] = SumFunction(F[d])
    /\ B \in [S -> Int] /\ \A x \in S : B[x] = SumFunction(C[x])

\* They add up to the same.
LEMMA SumSwap ==
    ASSUME NEW D, IsFiniteSet(D), NEW S, IsFiniteSet(S), NEW F, NEW C, NEW A, NEW B,
           Table(D, S, F, C, A, B)
    PROVE  SumFunction(A) = SumFunction(B)
<1> DEFINE At(T) == [d \in D |-> SumOn(F[d], T)]
           G == {T \in SUBSET S : SumFunction(At(T)) = SumOn(B, T)}
<1>0. /\ \A d \in D : F[d] \in [S -> Int]
      /\ \A x \in S : C[x] \in [D -> Int] /\ \A d \in D : C[x][d] = F[d][x]
      /\ A \in [D -> Int] /\ \A d \in D : A[d] = SumFunction(F[d])
      /\ B \in [S -> Int] /\ \A x \in S : B[x] = SumFunction(C[x])
    BY DEF Table
<1> USE <1>0
<1>1. ASSUME NEW T \in SUBSET S PROVE At(T) \in [D -> Int]
    BY SumOnInt
<1>2. {} \in G
  <2>1. At({}) \in [D -> Int] /\ \A d \in D : At({})[d] = 0
      BY <1>1, SumOnEmpty
  <2> HIDE DEF At
  <2>2. SumFunction(At({})) = 0
      BY <2>1, SumZero
  <2> QED
      BY <2>2, SumOnEmpty
<1>3. ASSUME NEW T \in SUBSET S, NEW x \in S, T \in G, x \notin T PROVE T \union {x} \in G
  <2> DEFINE more == At(T \union {x})
             less == At(T)
             added == C[x]
  <2>1. SumFunction(more) = SumFunction(added) + SumFunction(less)
    <3>1. more \in [D -> Int] /\ less \in [D -> Int] /\ added \in [D -> Int]
        BY <1>1
    <3>2. ASSUME NEW d \in D PROVE more[d] = added[d] + less[d]
      <4> DEFINE f == F[d]
      <4>1. f \in [S -> Int] /\ more[d] = SumOn(f, T \union {x}) /\ less[d] = SumOn(f, T) /\ added[d] = f[x]
          OBVIOUS
      <4> HIDE DEF f, more, less, added
      <4>2. SumOn(f, T \union {x}) = f[x] + SumOn(f, T)
          BY <1>3, <4>1, SumInsert
      <4> QED
          BY <4>1, <4>2
    <3> HIDE DEF more, less, added
    <3> QED
        BY <3>1, <3>2, SumPlus
  <2>2. SumOn(B, T \union {x}) = B[x] + SumOn(B, T)
      BY <1>3, SumInsert
  <2>3. SumFunction(less) = SumOn(B, T) /\ B[x] = SumFunction(added)
      BY <1>3
  <2> HIDE DEF less, added
  <2>4. SumFunction(more) = SumOn(B, T \union {x}) /\ T \union {x} \in SUBSET S
      BY <2>1, <2>2, <2>3
  <2> QED
      BY <2>4
<1>4. S \in G
  <2> HIDE DEF G
  <2> QED
      BY <1>2, <1>3, FiniteSetInduction
<1>5. At(S) = A
  <2>1. ASSUME NEW d \in D PROVE SumOn(F[d], S) = A[d]
      BY SumAll
  <2> QED
      BY <2>1
<1> QED
    BY <1>4, <1>5, SumAll

\* A sum over a set is the sum of those over the groups it is divided into.
LEMMA SumGroups ==
    ASSUME NEW S, IsFiniteSet(S), NEW D, IsFiniteSet(D), NEW h \in [S -> Int], NEW e \in [S -> D],
           NEW A, A = [d \in D |-> SumOn(h, {x \in S : e[x] = d})]
    PROVE  A \in [D -> Int] /\ SumFunction(A) = SumFunction(h)
<1> DEFINE F == [d \in D |-> [x \in S |-> IF e[x] = d THEN h[x] ELSE 0]]
           part(d) == {x \in S : e[x] = d}
           col(x) == [d \in D |-> F[d][x]]
<1>1. ASSUME NEW d \in D PROVE F[d] \in [S -> Int] /\ SumFunction(F[d]) = A[d]
  <2> DEFINE f == F[d]
             T == part(d)
  <2>1. f \in [S -> Int] /\ T \in SUBSET S /\ \A x \in S \ T : f[x] = 0
      OBVIOUS
  <2>2. [x \in T |-> f[x]] = [x \in T |-> h[x]]
      OBVIOUS
  <2>3. A[d] = SumOn(h, T)
      OBVIOUS
  <2> HIDE DEF f, T
  <2>4. SumFunction(f) = SumOn(f, T)
      BY <2>1, SumOnly
  <2>5. SumOn(f, T) = SumOn(h, T)
      BY <2>2 DEF SumOn
  <2>6. f \in [S -> Int] /\ SumFunction(f) = A[d]
      BY <2>1, <2>3, <2>4, <2>5
  <2> QED
      BY <2>6 DEF f
<1>2. ASSUME NEW x \in S PROVE SumFunction(col(x)) = h[x]
  <2> DEFINE f == col(x)
             g == [d \in {e[x]} |-> f[d]]
  <2>1. f \in [D -> Int] /\ {e[x]} \in SUBSET D /\ \A d \in D \ {e[x]} : f[d] = 0
      OBVIOUS
  <2>2. g \in [{e[x]} -> Int] /\ g[e[x]] = h[x]
      OBVIOUS
  <2>3. SumOn(f, {e[x]}) = SumFunction(g)
      BY DEF SumOn
  <2> HIDE DEF f, g
  <2>4. SumFunction(f) = SumOn(f, {e[x]})
      BY <2>1, SumOnly
  <2>5. SumFunction(g) = g[e[x]]
      BY <2>2, SumOfOne
  <2>6. SumFunction(f) = h[x]
      BY <2>2, <2>3, <2>4, <2>5
  <2> QED
      BY <2>6 DEF f
<1>3. \A x \in S : col(x) \in [D -> Int] /\ \A d \in D : col(x)[d] = F[d][x]
    OBVIOUS
<1>4. \A d \in D : F[d] \in [S -> Int] /\ SumFunction(F[d]) \in Int
    BY <1>1, SumInt
<1> DEFINE a == [d \in D |-> SumFunction(F[d])]
           C == [x \in S |-> col(x)]
<1>5. A = a
    BY <1>1
<1>6. a \in [D -> Int] /\ \A d \in D : a[d] = SumFunction(F[d])
    BY <1>4
<1>7. \A x \in S : /\ C[x] \in [D -> Int] /\ \A d \in D : C[x][d] = F[d][x]
                   /\ h[x] = SumFunction(C[x])
    BY <1>2, <1>3
<1>8. SumFunction(a) = SumFunction(h)
  <2>1. \A d \in D : F[d] \in [S -> Int]
      BY <1>4
  <2>2. \A x \in S : C[x] \in [D -> Int] /\ \A d \in D : C[x][d] = F[d][x]
      BY <1>7
  <2>3. \A x \in S : h[x] = SumFunction(C[x])
      BY <1>7
  <2>4. a \in [D -> Int] /\ \A d \in D : a[d] = SumFunction(F[d])
      BY <1>6
  <2> HIDE DEF F, C, a
  <2>5. Table(D, S, F, C, a, h)
      BY <2>1, <2>2, <2>3, <2>4 DEF Table
  <2> QED
      BY <2>5, SumSwap
<1> QED
    BY <1>5, <1>6, <1>8

-----------------------------------------------------------------------------
\* Max and Min, of the community modules

\* The maximum of a finite set is its element, and an upper bound.
LEMMA MaxIsIn ==
    ASSUME NEW S \in SUBSET Int, IsFiniteSet(S), S # {}
    PROVE  Max(S) \in S /\ \A y \in S : y <= Max(S)
<1> DEFINE G == {s \in SUBSET S : s # {} => \E x \in s : \A y \in s : x >= y}
<1>1. {} \in G
    OBVIOUS
<1>2. ASSUME NEW s \in SUBSET S, NEW z \in S, s \in G, z \notin s PROVE s \union {z} \in G
  <2>1. CASE s = {}
      BY <2>1
  <2>2. CASE s # {}
    <3>1. PICK x \in s : \A y \in s : x >= y
        BY <1>2, <2>2
    <3>2. CASE z >= x
      <4>1. \A y \in s \union {z} : z >= y
          BY <3>1, <3>2
      <4> QED
          BY <4>1
    <3>3. CASE z < x
      <4>1. \A y \in s \union {z} : x >= y
          BY <3>1, <3>3
      <4> QED
          BY <3>1, <4>1
    <3> QED
        BY <3>1, <3>2, <3>3
  <2> QED
      BY <2>1, <2>2
<1>3. S \in G
  <2> HIDE DEF G
  <2> QED
      BY <1>1, <1>2, FiniteSetInduction
<1>4. PICK x \in S : \A y \in S : x >= y
    BY <1>3
<1>5. Max(S) \in S /\ \A y \in S : Max(S) >= y
    BY <1>4 DEF Max
<1> QED
    BY <1>5

-----------------------------------------------------------------------------
\* Sums of sequences, and functions defined by recursion along them

\* A sum from 1 to 0 is empty.
LEMMA SumOfNone == ASSUME NEW n \in Nat, NEW f \in [1..n -> Int] PROVE SumOn(f, 1..0) = 0
<1>1. 1..0 = {}
    OBVIOUS
<1> QED
    BY <1>1, SumOnEmpty

\* A sum from 1 to i has one term more than that from 1 to i - 1.
LEMMA SumStep ==
    ASSUME NEW n \in Nat, NEW f \in [1..n -> Int], NEW i \in 1..n
    PROVE  /\ SumOn(f, 1..i) \in Int /\ SumOn(f, 1..(i - 1)) \in Int
           /\ SumOn(f, 1..i) = f[i] + SumOn(f, 1..(i - 1))
<1>1. /\ 1..i = (1..(i - 1)) \union {i} /\ i \notin 1..(i - 1)
      /\ 1..(i - 1) \in SUBSET (1..n) /\ 1..i \in SUBSET (1..n)
    OBVIOUS
<1>2. IsFiniteSet(1..n)
    BY FS_Interval
<1>3. SumOn(f, 1..i) \in Int /\ SumOn(f, 1..(i - 1)) \in Int
    BY <1>1, <1>2, SumOnInt
<1>4. SumOn(f, (1..(i - 1)) \union {i}) = f[i] + SumOn(f, 1..(i - 1))
  <2> DEFINE D == 1..n
             T == 1..(i - 1)
             x == i
             g == f
  <2>1. IsFiniteSet(D) /\ g \in [D -> Int] /\ T \in SUBSET D /\ x \in D /\ x \notin T
      BY <1>1, <1>2
  <2> HIDE DEF D, T, x, g
  <2>2. SumOn(g, T \union {x}) = g[x] + SumOn(g, T)
      BY <2>1, SumInsert
  <2> QED
      BY <2>2 DEF T, g, x
<1> QED
    BY <1>1, <1>3, <1>4

\* A function over 0..n that each step takes on from its value before.
Steps(n, V) == [1..n -> [V -> V]]
Recursion(V, n, base, step) ==
    \E g \in [0..n -> V] : g[0] = base /\ \A i \in 1..n : g[i] = step[i][g[i - 1]]

\* There is such a function.
LEMMA RecursionExists ==
    ASSUME NEW V, NEW n \in Nat, NEW base \in V, NEW step \in Steps(n, V)
    PROVE  Recursion(V, n, base, step)
<1> DEFINE G == {k \in Nat : k <= n =>
                   \E g \in [0..k -> V] : g[0] = base /\ \A i \in 1..k : g[i] = step[i][g[i - 1]]}
<1>1. 0 \in G
  <2> DEFINE g == [i \in 0..0 |-> base]
  <2>1. g \in [0..0 -> V] /\ g[0] = base /\ \A i \in 1..0 : g[i] = step[i][g[i - 1]]
      OBVIOUS
  <2> QED
      BY <2>1
<1>2. ASSUME NEW k \in Nat, k \in G PROVE k + 1 \in G
  <2> SUFFICES ASSUME k + 1 <= n
               PROVE  \E h \in [0..(k + 1) -> V] :
                        h[0] = base /\ \A i \in 1..(k + 1) : h[i] = step[i][h[i - 1]]
      OBVIOUS
  <2>1. PICK g \in [0..k -> V] : g[0] = base /\ \A i \in 1..k : g[i] = step[i][g[i - 1]]
      BY <1>2
  <2> DEFINE h == [i \in 0..(k + 1) |-> IF i = k + 1 THEN step[k + 1][g[k]] ELSE g[i]]
  <2>2. step[k + 1] \in [V -> V] /\ g[k] \in V
      BY DEF Steps
  <2>3. h \in [0..(k + 1) -> V]
      BY <2>2
  <2>4. h[0] = base /\ \A i \in 1..(k + 1) : h[i] = step[i][h[i - 1]]
    <3>1. \A i \in 0..k : h[i] = g[i]
        OBVIOUS
    <3>2. h[k + 1] = step[k + 1][g[k]] /\ (k + 1) - 1 = k
        OBVIOUS
    <3>3. ASSUME NEW i \in 1..(k + 1) PROVE h[i] = step[i][h[i - 1]]
      <4>1. CASE i = k + 1
          BY <3>1, <3>2, <4>1
      <4>2. CASE i # k + 1
        <5>1. i \in 1..k /\ i \in 0..k /\ i - 1 \in 0..k
            BY <4>2
        <5> HIDE DEF h
        <5> QED
            BY <2>1, <3>1, <5>1
      <4> QED
          BY <4>1, <4>2
    <3> QED
        BY <2>1, <3>1, <3>3
  <2> QED
      BY <2>3, <2>4
<1>3. Nat \subseteq G
  <2> HIDE DEF G
  <2> QED
      BY <1>1, <1>2, NatSetInduction
<1> QED
    BY <1>3 DEF Recursion

=============================================================================
