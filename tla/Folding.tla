------------------------------- MODULE Folding -------------------------------
(***************************************************************************)
(* Induction, and the folds of the models by induction: facts about the    *)
(* operators of the community modules that the proofs about scores and     *)
(* frames rest on.  An induction theorem that takes a predicate cannot be  *)
(* used by the provers; one that takes the set of what is good can, and    *)
(* follows from the well-foundedness of the strict subset ordering.        *)
(***************************************************************************)
EXTENDS Integers, FiniteSets, Functions, SequencesExt, WellFoundedInduction,
        FiniteSetTheorems, TLAPS

\* Induction over the subsets of a finite set, for a set of good subsets.
LEMMA SubsetInduction ==
  ASSUME NEW S, IsFiniteSet(S), NEW Good,
         \A T \in SUBSET S : (\A U \in SUBSET T : U # T => U \in Good) => T \in Good
  PROVE  \A T \in SUBSET S : T \in Good
<1> DEFINE bad == {T \in SUBSET S : T \notin Good}
           R == StrictSubsetOrdering(S)
<1> SUFFICES ASSUME bad # {} PROVE FALSE
  OBVIOUS
<1>1. bad \subseteq FiniteSubsetsOf(S)
  BY FS_FiniteSubsetsOfFinite
<1>2. IsWellFoundedOn(R, FiniteSubsetsOf(S))
  BY FS_StrictSubsetOrderingWellFounded
<1>3. PICK x \in bad : \A y \in bad : ~(<<y, x>> \in R)
  <2> HIDE DEF bad, R
  <2> QED BY <1>1, <1>2, WFMin
<1>4. \A y \in bad : y \subseteq x => y = x
  BY <1>3, Zenon DEF StrictSubsetOrdering
<1>5. \A U \in SUBSET x : U # x => U \in Good
  BY <1>4
<1> QED
  BY <1>5

\* Induction over the natural numbers, for a set of good numbers.
LEMMA NumberInduction ==
  ASSUME NEW Good, 0 \in Good, \A n \in Nat : n \in Good => n + 1 \in Good
  PROVE  \A n \in Nat : n \in Good
<1> SUFFICES ASSUME NEW x \in Nat, x \notin Good PROVE FALSE
  OBVIOUS
<1> DEFINE G == {T \in SUBSET (0..x) : \A n \in Nat : n \notin Good => T # 0..n}
<1>1. IsFiniteSet(0..x)
  BY FS_Interval
<1>2. ASSUME NEW T \in SUBSET (0..x), \A U \in SUBSET T : U # T => U \in G
      PROVE  T \in G
  <2> SUFFICES ASSUME NEW n \in Nat, n \notin Good, T = 0..n PROVE FALSE
    OBVIOUS
  <2>1. n # 0 /\ n - 1 \in Nat
    OBVIOUS
  <2>2. n - 1 \notin Good
    BY <2>1
  <2>3. 0..(n - 1) \in SUBSET T /\ n \in T /\ n \notin 0..(n-1)
    OBVIOUS
  <2>4. 0..(n - 1) \in G
    BY <1>2, <2>3
  <2> QED
    BY <2>1, <2>2, <2>4
<1>3. \A T \in SUBSET (0..x) : T \in G
  <2> DEFINE I == 0..x
  <2>1. \A T \in SUBSET I : (\A U \in SUBSET T : U # T => U \in G) => T \in G
    BY <1>2
  <2>2. IsFiniteSet(I)
    BY <1>1
  <2>3. SUFFICES \A T \in SUBSET I : T \in G
    OBVIOUS
  <2> HIDE DEF G, I
  <2> QED BY <2>1, <2>2, SubsetInduction
<1> QED
  BY <1>3

\* An order of taking the elements of a set one by one, and the recursion of a
\* fold in that order.
Picks(pick, S) == \A s \in SUBSET S : s # {} => pick[s] \in s

Recurses(f, S, base, op, pick) ==
  \A s \in SUBSET S :
    f[s] = IF s = {} THEN base ELSE op[pick[s]][f[s \ {pick[s]}]]

\* A fold over a finite set exists: a function of the subsets that satisfies
\* the recursion, whatever the operation and the order of picking.
LEMMA FoldExists ==
  ASSUME NEW S, IsFiniteSet(S), NEW A, NEW base \in A,
         NEW op \in [S -> [A -> A]],
         NEW pick, Picks(pick, S)
  PROVE  \E f \in [SUBSET S -> A] : Recurses(f, S, base, op, pick)
<1> DEFINE Body(f, s) == IF s = {} THEN base ELSE op[pick[s]][f[s \ {pick[s]}]]
           Partial(f, n) == \A s \in SUBSET S :
                              Cardinality(s) <= n => f[s] = Body(f, s)
           Good == {n \in Nat : \E f \in [SUBSET S -> A] : Partial(f, n)}
<1>0. \A s \in SUBSET S : IsFiniteSet(s) /\ Cardinality(s) \in Nat
                            /\ Cardinality(s) <= Cardinality(S)
  BY FS_Subset, FS_CardinalityType
<1>a. \A s \in SUBSET S : s # {} =>
        /\ s \ {pick[s]} \in SUBSET S
        /\ Cardinality(s \ {pick[s]}) = Cardinality(s) - 1
  BY <1>0, FS_RemoveElement DEF Picks
<1>b. \A f \in [SUBSET S -> A], s \in SUBSET S : Body(f, s) \in A
  BY <1>a DEF Picks
<1>1. 0 \in Good
  <2> DEFINE f == [s \in SUBSET S |-> base]
  <2>1. f \in [SUBSET S -> A] 
    OBVIOUS
  <2>2. ASSUME NEW s \in SUBSET S, Cardinality(s) <= 0
        PROVE f[s] = Body(f, s)
    <3>1. s = {}
      BY <2>2, <1>0, FS_EmptySet
    <3> QED BY <3>1
  <2> QED
    BY <2>1, <2>2
<1>2. ASSUME NEW n \in Nat, n \in Good PROVE n + 1 \in Good
  <2>1. PICK f \in [SUBSET S -> A] : Partial(f, n)
    BY <1>2
  <2> DEFINE g == [s \in SUBSET S |-> IF Cardinality(s) <= n THEN f[s]
                                      ELSE Body(f, s)]
  <2>2. g \in [SUBSET S -> A]
    BY <1>b
  <2>3. ASSUME NEW s \in SUBSET S, Cardinality(s) <= n + 1
        PROVE  g[s] = Body(g, s)
    <3>1. g[s] = Body(f, s)
      BY <2>1
    <3>2. CASE s = {}
      BY <3>1, <3>2
    <3>3. CASE s # {}
      <4> DEFINE q == s \ {pick[s]}
      <4>1. q \in SUBSET S /\ Cardinality(q) <= n
        BY <1>a, <1>0, <2>3, <3>3
      <4>2. g[q] = f[q]
        BY <4>1
      <4> QED
        BY <3>1, <3>3, <4>2
    <3> QED BY <3>2, <3>3
  <2>4. Partial(g, n + 1)
    BY <2>3
  <2>5. \E h \in [SUBSET S -> A] : Partial(h, n + 1)
    <3> HIDE DEF g, Partial
    <3> QED BY <2>2, <2>4
  <2> HIDE DEF Partial, g
  <2> QED
    BY <2>5
<1>3. \A n \in Nat : n \in Good
  <2> HIDE DEF Good
  <2> QED BY <1>1, <1>2, NumberInduction
<1>4. PICK f \in [SUBSET S -> A] : Partial(f, Cardinality(S))
  BY <1>0, <1>3
<1> QED
  BY <1>0, <1>4 DEF Recurses

\* Two functions of the subsets are equal when they are so at the empty set
\* and each time an element is put back.
StepsAgree(f, g, S, pick) ==
  /\ f[{}] = g[{}]
  /\ \A s \in SUBSET S : s # {} =>
       (f[s \ {pick[s]}] = g[s \ {pick[s]}] => f[s] = g[s])

LEMMA FoldsAgree ==
  ASSUME NEW S, IsFiniteSet(S), NEW pick, Picks(pick, S), NEW f, NEW g,
         StepsAgree(f, g, S, pick)
  PROVE  \A s \in SUBSET S : f[s] = g[s]
<1> DEFINE Good == {s \in SUBSET S : f[s] = g[s]}
<1>1. ASSUME NEW s \in SUBSET S, \A U \in SUBSET s : U # s => U \in Good
      PROVE  s \in Good
  <2>1. CASE s = {}
    BY <2>1 DEF StepsAgree
  <2>2. CASE s # {}
    <3>1. s \ {pick[s]} \in SUBSET s /\ s \ {pick[s]} # s
      BY <2>2 DEF Picks
    <3> QED
      BY <1>1, <2>2, <3>1 DEF StepsAgree
  <2> QED BY <2>1, <2>2
<1>2. \A s \in SUBSET S : s \in Good
  <2> HIDE DEF Good
  <2> QED BY <1>1, SubsetInduction
<1> QED
  BY <1>2

\* Every finite set of integers has a greatest element.
LEMMA GreatestExists ==
  ASSUME NEW S, IsFiniteSet(S), S \subseteq Int, S # {}
  PROVE  \E x \in S : \A y \in S : x >= y
<1> DEFINE Good == {T \in SUBSET S : T # {} =>
                      \E x \in T : \A y \in T : x >= y}
<1>1. ASSUME NEW T \in SUBSET S, \A U \in SUBSET T : U # T => U \in Good
      PROVE  T \in Good
  <2> SUFFICES ASSUME NEW a \in T
               PROVE  \E x \in T : \A y \in T : x >= y
    OBVIOUS
  <2>1. CASE T \ {a} = {}
    BY <2>1
  <2>2. CASE T \ {a} # {}
    <3> DEFINE U == T \ {a}
    <3>0. U \in Good
      BY <1>1
    <3>1. PICK b \in U : \A y \in U : b >= y
      BY <2>2, <3>0
    <3>2. CASE a >= b
      BY <3>1, <3>2
    <3>3. CASE ~(a >= b)
      BY <3>1, <3>3
    <3> QED BY <3>2, <3>3
  <2> QED BY <2>1, <2>2
<1>2. \A T \in SUBSET S : T \in Good
  <2> HIDE DEF Good
  <2> QED BY <1>1, SubsetInduction
<1> QED
  BY <1>2

LEMMA MaxIsGreatest ==
  ASSUME NEW S, IsFiniteSet(S), S \subseteq Int, S # {}
  PROVE  Max(S) \in S /\ \A y \in S : Max(S) >= y
BY GreatestExists DEF Max

\* The image of a finite set is finite.
LEMMA ImageFinite ==
  ASSUME NEW S, IsFiniteSet(S), NEW f, DOMAIN f = S
  PROVE  IsFiniteSet({f[x] : x \in S})
<1> DEFINE T == {f[x] : x \in S}
           g == [x \in S |-> f[x]]
<1>1. g \in Surjection(S, T)
  BY DEF Surjection
<1> HIDE DEF T, g
<1>2. IsFiniteSet(T)
  BY <1>1, FS_Surjection
<1> QED
  BY <1>2 DEF T

\* Max picks an element of every set of indices.
Top(n) == [s \in SUBSET (1..n) |-> Max(s)]

LEMMA TopPicks ==
  ASSUME NEW n \in Nat
  PROVE  Picks(Top(n), 1..n) /\ IsFiniteSet(1..n)
<1> DEFINE I == 1..n
<1>0. IsFiniteSet(I) /\ I \subseteq Int
  BY FS_Interval
<1>1. ASSUME NEW s \in SUBSET I, s # {} PROVE Max(s) \in s
  <2>1. IsFiniteSet(s) /\ s \subseteq Int
    <3> HIDE DEF I
    <3> QED BY <1>0, FS_Subset
  <2>2. \E x \in s : \A y \in s : x >= y
    <3> HIDE DEF I
    <3> QED BY <1>1, <2>1, GreatestExists
  <2> QED BY <2>2 DEF Max
<1> QED
  BY <1>0, <1>1 DEF Picks, Top

\* What a step of a sum does: it adds the value picked.
Adding(v) == [i \in DOMAIN v |-> [a \in Int |-> v[i] + a]]

Sums(f, S, v, pick) ==
  \A s \in SUBSET S :
    f[s] = IF s = {} THEN 0 ELSE v[pick[s]] + f[s \ {pick[s]}]

\* There is a recursion that adds one value after the other.
LEMMA SumExists ==
  ASSUME NEW S, IsFiniteSet(S), NEW v \in [S -> Int],
         NEW pick, Picks(pick, S)
  PROVE  \E f \in [SUBSET S -> Int] : Sums(f, S, v, pick)
<1>1. Adding(v) \in [S -> [Int -> Int]] /\ 0 \in Int
  BY DEF Adding
<1>2. PICK f \in [SUBSET S -> Int] : Recurses(f, S, 0, Adding(v), pick)
  BY <1>1, FoldExists
<1>3. ASSUME NEW s \in SUBSET S, s # {}
      PROVE  f[s] = v[pick[s]] + f[s \ {pick[s]}]
  <2>1. pick[s] \in S /\ f[s \ {pick[s]}] \in Int
    BY <1>3 DEF Picks
  <2>2. f[s] = Adding(v)[pick[s]][f[s \ {pick[s]}]]
    BY <1>2, <1>3 DEF Recurses
  <2> QED
    BY <2>1, <2>2 DEF Adding
<1>4. f[{}] = 0
  BY <1>2 DEF Recurses
<1> QED
  BY <1>3, <1>4 DEF Sums

\* SumFunction is such a recursion.
LEMMA SumRecursion ==
  ASSUME NEW S, IsFiniteSet(S), NEW v \in [S -> Int]
  PROVE  \E f \in [SUBSET S -> Int] : \E pick :
           /\ SumFunction(v) = f[S]
           /\ Picks(pick, S) /\ Sums(f, S, v, pick)
<1> DEFINE pick == [s \in SUBSET S |-> CHOOSE x \in s : TRUE]
           Recursion(f) ==
             f = [s \in SUBSET S |->
                    IF s = {} THEN 0
                    ELSE v[CHOOSE x \in s : TRUE]
                           + f[s \ {CHOOSE x \in s : TRUE}]]
           it == CHOOSE f : Recursion(f)
<1>1. Picks(pick, S)
  BY DEF Picks
<1>2. PICK f \in [SUBSET S -> Int] : Sums(f, S, v, pick)
  <2> HIDE DEF pick
  <2> QED BY <1>1, SumExists
<1>3. Recursion(f)
  BY <1>2 DEF Sums
<1>4. Recursion(it)
  BY <1>3
<1>5. \A s \in SUBSET S : it[s] = f[s]
  <2>1. it[{}] = f[{}]
    BY <1>4, <1>2 DEF Sums
  <2>2. ASSUME NEW s \in SUBSET S, s # {},
               it[s \ {pick[s]}] = f[s \ {pick[s]}]
        PROVE  it[s] = f[s]
    <3>1. f[s] = v[pick[s]] + f[s \ {pick[s]}]
      BY <1>2, <2>2 DEF Sums
    <3>2. it[s] = v[pick[s]] + it[s \ {pick[s]}]
      <4> HIDE DEF it
      <4> QED BY <1>4, <2>2
    <3> QED
      BY <2>2, <3>1, <3>2
  <2>3. StepsAgree(it, f, S, pick)
    BY <2>1, <2>2 DEF StepsAgree
  <2> HIDE DEF it, pick
  <2> QED
    BY <1>1, <2>3, FoldsAgree
<1>6. SumFunction(v) = it[S]
  BY DEF SumFunction, SumFunctionOnSet, FoldFunctionOnSet, MapThenFoldSet
<1> QED
  <2> HIDE DEF it, pick
  <2> QED BY <1>1, <1>2, <1>5, <1>6

\* The recursion FoldLeft makes of a sum over the indices 1..n.
Accumulates(g, n, v) ==
  g = [s \in SUBSET (1..n) |->
         IF s = {} THEN 0 ELSE g[s \ {Max(s)}] + v[Max(s)]]

\* It has a solution, and the sum it ends with is the same for all of them.
LEMMA Accumulation ==
  ASSUME NEW n \in Nat, NEW v \in [1..n -> Int]
  PROVE  /\ \A s \in SUBSET (1..n) : s # {} => Max(s) \in 1..n
         /\ \E f \in [SUBSET (1..n) -> Int] :
              /\ Sums(f, 1..n, v, Top(n)) /\ Accumulates(f, n, v)
              /\ \A g : Accumulates(g, n, v) => g[1..n] = f[1..n]
<1> DEFINE I == 1..n
           pick == Top(n)
<1>1. Picks(pick, I) /\ IsFiniteSet(I)
  BY TopPicks
<1>2. PICK f \in [SUBSET I -> Int] : Sums(f, I, v, pick)
  <2> HIDE DEF pick, I
  <2> QED BY <1>1, SumExists DEF I
<1>3. \A s \in SUBSET I : s # {} => pick[s] = Max(s) /\ Max(s) \in I
  BY <1>1 DEF Top, Picks
<1>4. ASSUME NEW s \in SUBSET I, s # {}
      PROVE  f[s] = f[s \ {Max(s)}] + v[Max(s)]
  <2>1. f[s] = v[Max(s)] + f[s \ {Max(s)}]
    BY <1>2, <1>3, <1>4 DEF Sums
  <2>2. v[Max(s)] \in Int /\ f[s \ {Max(s)}] \in Int
    BY <1>3, <1>4
  <2> QED BY <2>1, <2>2
<1>5. f[{}] = 0
  BY <1>2 DEF Sums
<1>6. Accumulates(f, n, v)
  BY <1>4, <1>5 DEF Accumulates
<1>7. ASSUME NEW g, Accumulates(g, n, v) PROVE g[I] = f[I]
  <2>1. g[{}] = f[{}]
    BY <1>5, <1>7 DEF Accumulates
  <2>2. ASSUME NEW s \in SUBSET I, s # {},
               g[s \ {pick[s]}] = f[s \ {pick[s]}]
        PROVE  g[s] = f[s]
    <3>1. g[s] = g[s \ {Max(s)}] + v[Max(s)]
      BY <1>7, <2>2 DEF Accumulates
    <3> QED
      BY <1>3, <1>4, <2>2, <3>1
  <2>3. StepsAgree(g, f, I, pick)
    BY <2>1, <2>2 DEF StepsAgree
  <2> HIDE DEF pick, I
  <2> QED
    BY <1>1, <2>3, FoldsAgree
<1> QED
  BY <1>2, <1>3, <1>6, <1>7

\* Taking an element away leaves one less.
Shrinks(S, pick) ==
  \A s \in SUBSET S : s # {} =>
    /\ pick[s] \in s /\ pick[s] \in S /\ s \ {pick[s]} \in SUBSET S
    /\ Cardinality(s \ {pick[s]}) \in Nat
    /\ Cardinality(s) = Cardinality(s \ {pick[s]}) + 1

LEMMA PicksShrink ==
  ASSUME NEW S, IsFiniteSet(S), NEW pick, Picks(pick, S)
  PROVE  Shrinks(S, pick)
<1> SUFFICES ASSUME NEW s \in SUBSET S, s # {}
             PROVE  /\ pick[s] \in s /\ pick[s] \in S
                    /\ s \ {pick[s]} \in SUBSET S
                    /\ Cardinality(s \ {pick[s]}) \in Nat
                    /\ Cardinality(s) = Cardinality(s \ {pick[s]}) + 1
  BY DEF Shrinks
<1> DEFINE q == s \ {pick[s]}
<1>1. pick[s] \in s
  BY DEF Picks
<1>2. IsFiniteSet(s) /\ Cardinality(s) \in Nat
  BY FS_Subset, FS_CardinalityType
<1>3. IsFiniteSet(q) /\ Cardinality(q) = Cardinality(s) - 1
  BY <1>1, <1>2, FS_RemoveElement
<1>4. Cardinality(q) \in Nat
  <2> HIDE DEF q
  <2> QED BY <1>3, FS_CardinalityType
<1> QED
  BY <1>1, <1>2, <1>3, <1>4

FoldsBack(f, n, base, op) ==
  /\ f[{}] = base
  /\ \A s \in SUBSET (1..n) : s # {} =>
       /\ Max(s) \in 1..n /\ f[s \ {Max(s)}] \in DOMAIN op[Max(s)]
       /\ f[s] = op[Max(s)][f[s \ {Max(s)}]]

\* A fold of typed steps over the indices 1..n, the last one first, exists ...
LEMMA IndexFoldExists ==
  ASSUME NEW n \in Nat, NEW A, NEW base \in A, NEW op \in [1..n -> [A -> A]]
  PROVE  \E f \in [SUBSET (1..n) -> A] : FoldsBack(f, n, base, op)
<1>1. Picks(Top(n), 1..n) /\ IsFiniteSet(1..n)
  BY TopPicks
<1>2. PICK f \in [SUBSET (1..n) -> A] : Recurses(f, 1..n, base, op, Top(n))
  BY <1>1, FoldExists
<1>3. \A s \in SUBSET (1..n) : s # {} => Top(n)[s] = Max(s) /\ Max(s) \in s
  BY <1>1 DEF Top, Picks
<1>4. f[{}] = base
  BY <1>2 DEF Recurses
<1>5. ASSUME NEW s \in SUBSET (1..n), s # {}
      PROVE  /\ Max(s) \in 1..n /\ f[s \ {Max(s)}] \in DOMAIN op[Max(s)]
             /\ f[s] = op[Max(s)][f[s \ {Max(s)}]]
  <2>1. /\ Max(s) \in 1..n /\ f[s \ {Max(s)}] \in A
        /\ f[s] = op[Max(s)][f[s \ {Max(s)}]]
    BY <1>2, <1>3, <1>5 DEF Recurses
  <2>2. DOMAIN op[Max(s)] = A
    BY <2>1
  <2> QED
    BY <2>1, <2>2
<1> QED
  BY <1>4, <1>5 DEF FoldsBack

\* ... and it goes through the prefixes of the indices.
LEMMA InitialIndices ==
  ASSUME NEW n \in Nat, NEW i \in 1..n
  PROVE  /\ 1..i \in SUBSET (1..n) /\ 1..i # {}
         /\ Max(1..i) = i /\ (1..i) \ {i} = 1..(i - 1)
<1>1. i \in 1..i /\ \A y \in 1..i : i >= y
  OBVIOUS
<1>2. \A x \in 1..i : (\A y \in 1..i : x >= y) => x = i
  BY <1>1
<1>3. Max(1..i) = i
  BY <1>1, <1>2 DEF Max
<1>4. 1..i \in SUBSET (1..n) /\ 1..i # {}
  BY <1>1
<1>5. (1..i) \ {i} = 1..(i - 1)
  OBVIOUS
<1> QED
  BY <1>3, <1>4, <1>5

\* The results of a fold's steps, one after the other.
Chain(g, n, base, op) ==
  g[0] = base /\ \A i \in 1..n : g[i] = op[i][g[i - 1]]

Ends(f, g, n, A, base, op) ==
  /\ f \in [SUBSET (1..n) -> A] /\ g \in [0..n -> A]
  /\ FoldsBack(f, n, base, op) /\ Chain(g, n, base, op)
  /\ f[1..n] = g[n]

\* A fold of typed steps over the indices 1..n, the last one first, exists, and
\* goes through the prefixes of the indices: it ends where the chain of its
\* steps does.
LEMMA ChainExists ==
  ASSUME NEW n \in Nat, NEW A, NEW base \in A, NEW op \in [1..n -> [A -> A]]
  PROVE  \E f, g : Ends(f, g, n, A, base, op)
<1>1. PICK f \in [SUBSET (1..n) -> A] : FoldsBack(f, n, base, op)
  BY IndexFoldExists
<1> DEFINE g == [i \in 0..n |-> f[1..i]]
<1>2. \A i \in 0..n : 1..i \in SUBSET (1..n)
  OBVIOUS
<1>3. g \in [0..n -> A]
  BY <1>2
<1>4. g[0] = base
  BY <1>1 DEF FoldsBack
<1>5. ASSUME NEW i \in 1..n PROVE g[i] = op[i][g[i - 1]]
  <2>1. /\ 1..i \in SUBSET (1..n) /\ 1..i # {}
        /\ Max(1..i) = i /\ (1..i) \ {i} = 1..(i - 1)
    BY InitialIndices
  <2>2. f[1..i] = op[i][f[1..(i - 1)]]
    BY <1>1, <2>1 DEF FoldsBack
  <2>3. i \in 0..n /\ i - 1 \in 0..n
    OBVIOUS
  <2> QED
    BY <2>2, <2>3
<1>6. Chain(g, n, base, op)
  BY <1>4, <1>5 DEF Chain
<1>8. f[1..n] = g[n]
  OBVIOUS
<1> QED
  <2> HIDE DEF g
  <2> QED BY <1>1, <1>3, <1>6, <1>8 DEF Ends

\* Two functions that satisfy the same recursion, one of them step by step,
\* end the same.
LEMMA SameEnd ==
  ASSUME NEW n \in Nat, NEW f, NEW h, StepsAgree(h, f, 1..n, Top(n))
  PROVE  h[1..n] = f[1..n]
<1> DEFINE I == 1..n
<1>1. Picks(Top(n), I) /\ IsFiniteSet(I)
  BY TopPicks
<1>2. \A s \in SUBSET I : h[s] = f[s]
  <2>1. StepsAgree(h, f, I, Top(n))
    OBVIOUS
  <2> HIDE DEF I
  <2> QED BY <1>1, <2>1, FoldsAgree
<1> QED
  BY <1>2

\* A sequence is two others put together.
IsJoin(u, s, t, L) ==
  /\ u \in Seq(L) /\ s \in Seq(L) /\ t \in Seq(L)
  /\ Len(s) \in Nat /\ Len(t) \in Nat
  /\ Len(u) = Len(s) + Len(t) /\ DOMAIN u = 1..(Len(s) + Len(t))
  /\ \A j \in 1..Len(s) : u[j] = s[j]
  /\ \A j \in 1..Len(t) : u[Len(s) + j] = t[j]

LEMMA Joined ==
  ASSUME NEW L, NEW s \in Seq(L), NEW t \in Seq(L)
  PROVE  IsJoin(s \o t, s, t, L)
<1>1. s \o t \in Seq(L) /\ Len(s \o t) = Len(s) + Len(t)
  OBVIOUS
<1>2. Len(s) \in Nat /\ Len(t) \in Nat
  OBVIOUS
<1>3. DOMAIN (s \o t) = 1..(Len(s) + Len(t))
  BY <1>1
<1>4. ASSUME NEW j \in 1..Len(s) PROVE (s \o t)[j] = s[j]
  BY <1>2
<1>5. ASSUME NEW j \in 1..Len(t) PROVE (s \o t)[Len(s) + j] = t[j]
  BY <1>2
<1> QED
  BY <1>1, <1>2, <1>3, <1>4, <1>5 DEF IsJoin
=============================================================================
