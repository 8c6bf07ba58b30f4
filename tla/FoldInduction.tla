---------------------------- MODULE FoldInduction ----------------------------
(***************************************************************************)
(* Induction over the natural numbers, folds of sequences and sums over    *)
(* finite sets, stated of sets and functions: whoever uses a lemma names   *)
(* the set of what is good, the function of a fold's step or the values.   *)
(***************************************************************************)
EXTENDS Integers, Sequences, FiniteSets, FiniteSetTheorems, WellFoundedInduction, TLAPS

\* A set of natural numbers that is not empty has a least element.
LEMMA LeastNat ==
  ASSUME NEW T \in SUBSET Nat, T # {}
  PROVE  \E x \in T : \A y \in T : x <= y
<1>1. PICK x \in T : \A y \in T : ~(<<y, x>> \in OpToRel(<, Nat))
  BY NatLessThanWellFounded, WFMin, Zenon
<1>2. \A y \in T : ~(y < x)
  BY <1>1, Zenon DEF OpToRel
<1> QED
  BY <1>2

\* What holds of 0, and of the next number below n whenever of this, holds up to n.
LEMMA SetInduction ==
  ASSUME NEW G \in SUBSET Nat, NEW n \in Nat, 0 \in G,
         \A i \in 0 .. (n-1) : i \in G => i + 1 \in G
  PROVE  \A i \in 0 .. n : i \in G
<1> SUFFICES ASSUME NEW j \in 0 .. n, j \notin G PROVE FALSE
  OBVIOUS
<1> DEFINE T == {i \in 0 .. n : i \notin G}
<1>1. T \in SUBSET Nat /\ j \in T
  OBVIOUS
<1>2. PICK m \in T : \A k \in T : m <= k
  BY <1>1, LeastNat
<1>3. m # 0 /\ m \in 0 .. n /\ m \notin G
  BY <1>2
<1>4. m - 1 \in 0 .. (n - 1) /\ m - 1 \notin T
  BY <1>2, <1>3
<1> QED
  BY <1>3, <1>4

\* f holds the results of folding the prefixes of s.
IsFold(f, V, v0, step, s) ==
  /\ f \in [0 .. Len(s) -> V]
  /\ f[0] = v0
  /\ \A i \in 1 .. Len(s) : f[i] = step[f[i-1]][s[i]]

\* A sequence can be folded by any step on the values of a set.
LEMMA FoldExists ==
  ASSUME NEW V, NEW D, NEW v0 \in V, NEW step \in [V -> [D -> V]], NEW s \in Seq(D)
  PROVE  \E f : IsFold(f, V, v0, step, s)
<1> DEFINE Good(f, n) == /\ f \in [0 .. n -> V]
                         /\ f[0] = v0
                         /\ \A i \in 1 .. n : f[i] = step[f[i-1]][s[i]]
           G == {n \in Nat : \E f \in [0 .. n -> V] : Good(f, n)}
<1>1. 0 \in G
  <2>1. Good([i \in 0 .. 0 |-> v0], 0)
    OBVIOUS
  <2> QED
    BY <2>1
<1>2. ASSUME NEW i \in 0 .. (Len(s) - 1), i \in G PROVE i + 1 \in G
  <2>1. PICK f \in [0 .. i -> V] : Good(f, i)
    BY <1>2
  <2> DEFINE g == [k \in 0 .. (i + 1) |-> IF k = i + 1 THEN step[f[i]][s[i+1]] ELSE f[k]]
  <2>2. s[i+1] \in D /\ f[i] \in V
    BY <1>2, <2>1
  <2>3. g \in [0 .. (i + 1) -> V]
    BY <1>2, <2>1, <2>2
  <2>4. g[0] = v0
    BY <1>2, <2>1
  <2>5. ASSUME NEW k \in 1 .. (i + 1) PROVE g[k] = step[g[k-1]][s[k]]
    <3>1. CASE k = i + 1
      <4>1. g[k] = step[f[i]][s[i+1]] /\ k - 1 = i /\ g[i] = f[i]
        BY <1>2, <3>1
      <4> QED
        BY <3>1, <4>1
    <3>2. CASE k # i + 1
      <4>1. k \in 1 .. i /\ k - 1 \in 0 .. i
        BY <1>2, <3>2
      <4>2. k \in 0 .. (i + 1) /\ k - 1 \in 0 .. (i + 1) /\ k - 1 # i + 1
        BY <1>2, <3>2
      <4>3. g[k] = f[k] /\ g[k-1] = f[k-1]
        BY <3>2, <4>2
      <4>4. f[k] = step[f[k-1]][s[k]]
        BY <2>1, <4>1
      <4> QED
        BY <4>3, <4>4
    <3> QED
      BY <3>1, <3>2
  <2>6. Good(g, i + 1)
    BY <2>3, <2>4, <2>5
  <2> HIDE DEF g
  <2>7. i + 1 \in Nat
    BY <1>2
  <2>8. \E h \in [0 .. (i + 1) -> V] : Good(h, i + 1)
    BY <2>3, <2>6
  <2> HIDE DEF Good
  <2> QED
    BY <2>7, <2>8
<1>3. Len(s) \in Nat /\ G \in SUBSET Nat
  OBVIOUS
<1> HIDE DEF G
<1>4. \A i \in 0 .. Len(s) : i \in G
  BY <1>1, <1>2, <1>3, SetInduction
<1>5. Len(s) \in G
  BY <1>3, <1>4
<1>6. PICK f \in [0 .. Len(s) -> V] : Good(f, Len(s))
  BY <1>5 DEF G
<1>7. IsFold(f, V, v0, step, s)
  BY <1>6 DEF IsFold
<1> QED
  BY <1>7

\* What holds of the empty set, and of a set with one element more whenever of the set,
\* holds of every finite set.
LEMMA FiniteInduction ==
  ASSUME NEW S, IsFiniteSet(S), NEW G \in SUBSET (SUBSET S), {} \in G,
         \A s \in G : \A x \in S \ s : s \cup {x} \in G
  PROVE  \A s \in SUBSET S : s \in G
<1> DEFINE C == {n \in Nat : \A s \in SUBSET S : Cardinality(s) = n => s \in G}
<1>1. \A s \in SUBSET S : IsFiniteSet(s) /\ Cardinality(s) \in Nat
  BY FS_Subset, FS_CardinalityType
<1>2. 0 \in C
  BY <1>1, FS_EmptySet
<1>3. ASSUME NEW n \in Nat, n \in C PROVE n + 1 \in C
  <2> SUFFICES ASSUME NEW s \in SUBSET S, Cardinality(s) = n + 1 PROVE s \in G
    OBVIOUS
  <2>1. PICK x \in s : TRUE
    <3>1. Cardinality(s) # 0
      BY <1>1
    <3> QED
      BY <3>1, FS_EmptySet
  <2>2. Cardinality(s \ {x}) = n
    BY <1>1, <2>1, FS_RemoveElement
  <2>3. s \ {x} \in G
    BY <1>3, <2>2
  <2>4. x \in S \ (s \ {x}) /\ (s \ {x}) \cup {x} = s
    BY <2>1
  <2> QED
    BY <2>3, <2>4
<1>4. SUFFICES ASSUME NEW s \in SUBSET S PROVE s \in G
  OBVIOUS
<1> DEFINE n == Cardinality(s)
<1>5. n \in Nat /\ n \in 0 .. n /\ C \in SUBSET Nat /\ \A i \in 0 .. (n - 1) : i \in Nat
  BY <1>1
<1> HIDE DEF C, n
<1>6. n \in C
  BY <1>2, <1>3, <1>5, SetInduction
<1> QED
  BY <1>6 DEF C, n

\* g holds the sums of w over the subsets of S.
IsSum(g, w, S) ==
  /\ g \in [SUBSET S -> Nat]
  /\ g[{}] = 0
  /\ \A s \in SUBSET S : \A x \in s : g[s] = w[x] + g[s \ {x}]

\* There are such sums of the values of every finite set.
LEMMA SumExists ==
  ASSUME NEW S, IsFiniteSet(S), NEW w, \A x \in S : w[x] \in Nat
  PROVE  \E g : IsSum(g, w, S)
<1> DEFINE G == {s \in SUBSET S : \E g : IsSum(g, w, s)}
<1>1. {} \in G
  <2> DEFINE g == [s \in SUBSET {} |-> 0]
  <2>1. IsSum(g, w, {})
    BY DEF IsSum
  <2> QED
    BY <2>1
<1>2. ASSUME NEW s \in G, NEW x \in S \ s PROVE s \cup {x} \in G
  <2>1. PICK g : IsSum(g, w, s)
    OBVIOUS
  <2>2. g \in [SUBSET s -> Nat] /\ w[x] \in Nat /\ g[{}] = 0 /\ {} \in SUBSET s
    BY <2>1 DEF IsSum
  <2>3. \A u \in SUBSET s : g[u] \in Nat /\ \A y \in u : g[u] = w[y] + g[u \ {y}]
    BY <2>1 DEF IsSum
  <2> DEFINE T == s \cup {x}
             h == [u \in SUBSET T |-> IF x \in u THEN w[x] + g[u \ {x}] ELSE g[u]]
  <2>4. \A u \in SUBSET T : u \ {x} \in SUBSET s /\ (x \notin u => u \in SUBSET s)
    OBVIOUS
  <2>5. h \in [SUBSET T -> Nat]
    <3> HIDE DEF T
    <3> QED
      BY <2>2, <2>4
  <2>6. h[{}] = 0
    BY <2>2
  <2>7. ASSUME NEW u \in SUBSET T, NEW y \in u PROVE h[u] = w[y] + h[u \ {y}]
    <3>1. /\ h[u] = IF x \in u THEN w[x] + g[u \ {x}] ELSE g[u]
          /\ h[u \ {y}] = IF x \in u \ {y} THEN w[x] + g[(u \ {y}) \ {x}] ELSE g[u \ {y}]
      OBVIOUS
    <3>2. CASE x \notin u
      BY <2>3, <2>4, <3>1, <3>2
    <3>3. CASE x \in u /\ y = x
      BY <3>1, <3>3
    <3>4. CASE x \in u /\ y # x
      <4>1. (u \ {y}) \ {x} = (u \ {x}) \ {y} /\ y \in u \ {x} /\ u \ {x} \in SUBSET s
        BY <2>4, <3>4
      <4>2. g[u \ {x}] = w[y] + g[(u \ {x}) \ {y}]
        BY <2>3, <4>1
      <4>3. (u \ {x}) \ {y} \in SUBSET s /\ w[y] \in Nat
        BY <4>1
      <4>4. g[(u \ {x}) \ {y}] \in Nat
        BY <2>3, <4>3
      <4> HIDE DEF h, T
      <4>5. h[u] = w[x] + (w[y] + g[(u \ {x}) \ {y}])
        BY <3>1, <3>4, <4>2
      <4>6. h[u \ {y}] = w[x] + g[(u \ {x}) \ {y}]
        BY <3>1, <3>4, <4>1
      <4> QED
        BY <2>2, <4>3, <4>4, <4>5, <4>6
    <3> QED
      BY <3>2, <3>3, <3>4
  <2> HIDE DEF h
  <2>8. IsSum(h, w, T)
    BY <2>5, <2>6, <2>7 DEF IsSum
  <2> QED
    BY <2>8
<1>3. G \in SUBSET (SUBSET S) /\ S \in SUBSET S
  OBVIOUS
<1> HIDE DEF G
<1>4. S \in G
  BY <1>1, <1>2, <1>3, FiniteInduction
<1> QED
  BY <1>4 DEF G

\* Adding up one chosen element after the other comes to the same.
LEMMA SumChosen ==
  ASSUME NEW S, IsFiniteSet(S), NEW w, NEW g, IsSum(g, w, S), NEW h,
         \A s \in SUBSET S : h[s] = IF s = {} THEN 0
                                    ELSE w[CHOOSE x \in s : TRUE] + h[s \ {CHOOSE x \in s : TRUE}]
  PROVE  h[S] = g[S]
<1> DEFINE C == {n \in Nat : \A s \in SUBSET S : Cardinality(s) = n => h[s] = g[s]}
<1>1. \A s \in SUBSET S : IsFiniteSet(s) /\ Cardinality(s) \in Nat
  BY FS_Subset, FS_CardinalityType
<1>2. 0 \in C
  BY <1>1, FS_EmptySet DEF IsSum
<1>3. ASSUME NEW n \in Nat, n \in C PROVE n + 1 \in C
  <2> SUFFICES ASSUME NEW s \in SUBSET S, Cardinality(s) = n + 1 PROVE h[s] = g[s]
    OBVIOUS
  <2>1. s # {}
    BY <1>1, FS_EmptySet
  <2> DEFINE x == CHOOSE x \in s : TRUE
  <2>2. x \in s
    BY <2>1
  <2>3. h[s] = w[x] + h[s \ {x}]
    BY <2>1
  <2> HIDE DEF x
  <2>4. Cardinality(s \ {x}) = n
    <3>1. IsFiniteSet(s) /\ Cardinality(s) = n + 1
      BY <1>1
    <3>2. Cardinality(s \ {x}) = Cardinality(s) - 1
      BY <2>2, <3>1, FS_RemoveElement
    <3> QED
      BY <3>1, <3>2
  <2>5. h[s \ {x}] = g[s \ {x}]
    BY <1>3, <2>4
  <2>6. g[s] = w[x] + g[s \ {x}]
    BY <2>2 DEF IsSum
  <2> QED
    BY <2>3, <2>5, <2>6
<1> DEFINE n == Cardinality(S)
<1>5. n \in Nat /\ n \in 0 .. n /\ C \in SUBSET Nat /\ \A i \in 0 .. (n - 1) : i \in Nat
  BY <1>1
<1> HIDE DEF C, n
<1>6. n \in C
  BY <1>2, <1>3, <1>5, SetInduction
<1> QED
  BY <1>6 DEF C, n

\* Sums of smaller values over fewer elements are smaller.
LEMMA SumBound ==
  ASSUME NEW A, NEW g, NEW w, IsSum(g, w, A), NEW B, NEW h, NEW v, IsSum(h, v, B), IsFiniteSet(B),
         NEW S \in SUBSET A, S \subseteq B, NEW k \in Nat,
         \A x \in B : v[x] \in Nat, \A x \in S : w[x] \in Nat /\ w[x] <= k * v[x]
  PROVE  g[S] \in Nat /\ h[B] \in Nat /\ g[S] <= k * h[B]
<1>1. /\ \A s \in SUBSET A : g[s] \in Nat /\ \A x \in s : g[s] = w[x] + g[s \ {x}]
      /\ \A s \in SUBSET B : h[s] \in Nat /\ \A x \in s : h[s] = v[x] + h[s \ {x}]
      /\ g[{}] = 0 /\ h[{}] = 0
  BY DEF IsSum
<1> DEFINE G == {u \in SUBSET B : g[u \cap S] <= k * h[u]}
<1>2. {} \in G
  <2>1. {} \cap S = {} /\ k * 0 = 0
    OBVIOUS
  <2> QED
    BY <1>1, <2>1
<1>3. ASSUME NEW u \in G, NEW x \in B \ u PROVE u \cup {x} \in G
  <2>1. g[u \cap S] <= k * h[u] /\ u \in SUBSET B /\ u \cup {x} \in SUBSET B /\ v[x] \in Nat
    OBVIOUS
  <2>2. h[u] \in Nat /\ h[u \cup {x}] = v[x] + h[u]
    <3>1. x \in u \cup {x} /\ (u \cup {x}) \ {x} = u
      OBVIOUS
    <3> QED
      BY <1>1, <2>1, <3>1
  <2>3. /\ k * (v[x] + h[u]) = k * v[x] + k * h[u]
        /\ k * v[x] \in Nat /\ k * h[u] \in Nat
    BY <2>1, <2>2
  <2>4. g[u \cap S] \in Nat
    BY <1>1
  <2>5. CASE x \notin S
    <3>1. (u \cup {x}) \cap S = u \cap S
      BY <2>5
    <3>2. g[u \cap S] <= k * h[u \cup {x}]
      BY <2>1, <2>2, <2>3, <2>4
    <3> QED
      BY <2>1, <3>1, <3>2
  <2>6. CASE x \in S
    <3>1. /\ x \in (u \cup {x}) \cap S /\ ((u \cup {x}) \cap S) \ {x} = u \cap S
          /\ (u \cup {x}) \cap S \in SUBSET A
      BY <2>6
    <3>2. g[(u \cup {x}) \cap S] = w[x] + g[u \cap S]
      BY <1>1, <3>1
    <3>3. w[x] \in Nat /\ w[x] <= k * v[x]
      BY <2>6
    <3>4. g[(u \cup {x}) \cap S] <= k * h[u \cup {x}]
      BY <2>1, <2>2, <2>3, <2>4, <3>2, <3>3
    <3> QED
      BY <2>1, <3>4
  <2> QED
    BY <2>5, <2>6
<1>4. G \in SUBSET (SUBSET B) /\ B \in SUBSET B
  OBVIOUS
<1> HIDE DEF G
<1>5. B \in G
  BY <1>2, <1>3, <1>4, FiniteInduction
<1>6. B \cap S = S
  OBVIOUS
<1> QED
  BY <1>1, <1>5, <1>6 DEF G
=============================================================================
