----------------------------- MODULE SequenceLaws -----------------------------
(***************************************************************************)
(* Laws of folds over sequences and of selections from them, on which the  *)
(* proofs about what is computed from a log rest. No induction theorem of  *)
(* the library can be instantiated for an operator: a property is given as *)
(* a set, and the operator of a fold as a function of functions, G[v][e].  *)
(***************************************************************************)
EXTENDS Selections, FiniteSets, SequencesExt, SequenceTheorems, FiniteSetTheorems,
        WellFoundedInduction, TLAPS

-----------------------------------------------------------------------------
(* Folds. *)

\* Every set of naturals that is not empty has a least element.
LEMMA LeastNat ==
  ASSUME NEW S \in SUBSET Nat, S # {}
  PROVE  \E m \in S : \A k \in S : m <= k
<1>1. \E m \in S : \A k \in S : <<k, m>> \notin OpToRel(<, Nat)
  BY NatLessThanWellFounded, WFMin, Zenon
<1>2. \A k, m \in Nat : k < m => <<k, m>> \in OpToRel(<, Nat)
  BY DEF OpToRel
<1>3. \E m \in S : \A k \in S : ~(k < m)
  BY <1>1, <1>2, Zenon
<1> QED BY <1>3

\* Induction over 0..n, for a property given as a set.
LEMMA Induct ==
  ASSUME NEW n \in Nat, NEW P, 0 \in P, \A m \in 1..n : m - 1 \in P => m \in P
  PROVE  0..n \subseteq P
<1>1. SUFFICES ASSUME (0..n) \ P # {} PROVE FALSE
  BY Zenon
<1> DEFINE B == (0..n) \ P
<1>2. B \in SUBSET Nat /\ B # {}
  BY <1>1
<1>3. \E m \in B : \A k \in B : m <= k
  <2> HIDE DEF B
  <2> QED BY <1>2, LeastNat
<1>4. PICK m \in B : \A k \in B : m <= k
  BY <1>3
<1>5. m # 0 /\ m \in 1..n /\ m - 1 \in 0..n
  BY <1>4
<1>6. m - 1 \in P
  BY <1>4, <1>5
<1> QED BY <1>4, <1>5, <1>6

\* The greatest element of a set of positions that is not empty.
LEMMA MaxPosition ==
  ASSUME NEW n \in Nat, NEW T \in SUBSET (1..n), T # {}
  PROVE  Max(T) \in T /\ \A k \in T : k <= Max(T)
<1> DEFINE D == {n - k : k \in T}
<1>1. D \in SUBSET Nat /\ D # {}
  <2>1. \A k \in T : n - k \in Nat
    OBVIOUS
  <2> QED BY <2>1
<1> HIDE DEF D
<1>2. PICK d \in D : \A k \in D : d <= k
  BY <1>1, LeastNat
<1>3. PICK m \in T : d = n - m
  BY DEF D
<1>4. ASSUME NEW k \in T PROVE k <= m
  <2>1. n - k \in D
    BY DEF D
  <2> QED BY <1>2, <1>3, <2>1
<1>5. \E x \in T : \A y \in T : x >= y
  BY <1>4
<1>6. Max(T) = CHOOSE x \in T : \A y \in T : x >= y
  BY DEF Max
<1>7. Max(T) \in T /\ \A y \in T : Max(T) >= y
  BY <1>5, <1>6, Zenon
<1> QED BY <1>7

\* The greatest element of an initial segment, and what is left without it.
LEMMA MaxSegment ==
  ASSUME NEW n \in Nat, NEW m \in 1..n
  PROVE  Max(1..m) = m /\ (1..m) \ {Max(1..m)} = 1..(m - 1) /\ 1..m \in SUBSET (1..n) /\ 1..m # {}
<1>1. 1..m \in SUBSET (1..m) /\ 1..m # {} /\ m \in 1..m /\ m \in Nat
  OBVIOUS
<1>2. Max(1..m) \in 1..m /\ \A k \in 1..m : k <= Max(1..m)
  BY <1>1, MaxPosition
<1>3. Max(1..m) = m
  BY <1>1, <1>2
<1> QED BY <1>3

\* G, a function of functions, does not leave V on elements of E.
Closed(G, V, E) == \A v \in V, e \in E : G[v][e] \in V

\* The equation of a fold: over the sets of positions, the greatest one last.
Solves(h, n, b, G, s) ==
  h = [T \in SUBSET (1..n) |-> IF T = {} THEN b ELSE G[h[T \ {Max(T)}]][s[Max(T)]]]

\* The equation has a solution.
LEMMA SolutionExists ==
  ASSUME NEW V, NEW b \in V, NEW n \in Nat, NEW E,
         NEW s \in [1..n -> E], NEW G, Closed(G, V, E)
  PROVE  \E h \in [SUBSET (1..n) -> V] : Solves(h, n, b, G, s)
<1> DEFINE Fine(h, m) == \A T \in SUBSET (1..m) : h[T] = IF T = {} THEN b ELSE G[h[T \ {Max(T)}]][s[Max(T)]]
           P == {m \in 0..n : \E h \in [SUBSET (1..m) -> V] : Fine(h, m)}
<1>1. 0 \in P
  <2> DEFINE h0 == [T \in SUBSET (1..0) |-> b]
  <2>1. \A T \in SUBSET (1..0) : T = {}
    OBVIOUS
  <2>2. Fine(h0, 0)
    BY <2>1
  <2>3. h0 \in [SUBSET (1..0) -> V]
    OBVIOUS
  <2> HIDE DEF Fine, h0
  <2>4. \E h \in [SUBSET (1..0) -> V] : Fine(h, 0)
    BY <2>2, <2>3, Zenon
  <2>5. 0 \in 0..n
    OBVIOUS
  <2> QED BY <2>4, <2>5, Zenon
<1>2. ASSUME NEW m \in 1..n, m - 1 \in P PROVE m \in P
  <2>1. PICK h \in [SUBSET (1..(m - 1)) -> V] : Fine(h, m - 1)
    BY <1>2
  <2> DEFINE g == [T \in SUBSET (1..m) |-> IF m \in T THEN G[h[T \ {m}]][s[m]] ELSE h[T]]
  <2>2. \A T \in SUBSET (1..m) : T \ {m} \in SUBSET (1..(m - 1))
    OBVIOUS
  <2>3. \A T \in SUBSET (1..m) : m \notin T => T \in SUBSET (1..(m - 1))
    OBVIOUS
  <2>4. g \in [SUBSET (1..m) -> V]
    BY <2>2, <2>3 DEF Closed
  <2>a. \A T \in SUBSET (1..m) : m \in T => g[T] = G[h[T \ {m}]][s[m]]
    OBVIOUS
  <2>b. \A T \in SUBSET (1..m) : m \notin T => g[T] = h[T]
    OBVIOUS
  <2>c. \A T \in SUBSET (1..(m - 1)) : h[T] = IF T = {} THEN b ELSE G[h[T \ {Max(T)}]][s[Max(T)]]
    BY <2>1
  <2>5. ASSUME NEW T \in SUBSET (1..m)
        PROVE  g[T] = IF T = {} THEN b ELSE G[g[T \ {Max(T)}]][s[Max(T)]]
    <3> HIDE DEF g, Fine, P
    <3>1. CASE T = {}
      <4>1. g[T] = h[T] /\ T \in SUBSET (1..(m - 1))
        BY <3>1, <2>b
      <4> QED BY <4>1, <3>1, <2>c
    <3>2. CASE T # {} /\ m \in T
      <4>1. Max(T) = m
        <5>1. m \in Nat
          OBVIOUS
        <5>2. Max(T) \in T /\ \A k \in T : k <= Max(T)
          BY <3>2, <5>1, MaxPosition
        <5>3. Max(T) \in 1..m
          BY <5>2
        <5> QED BY <3>2, <5>2, <5>3
      <4>2. g[T \ {m}] = h[T \ {m}]
        BY <2>2, <2>b
      <4> QED BY <3>2, <4>1, <4>2, <2>a
    <3>3. CASE T # {} /\ m \notin T
      <4> DEFINE U == T \ {Max(T)}
      <4>1. T \in SUBSET (1..(m - 1)) /\ U \in SUBSET (1..m) /\ m \notin U
        BY <3>3, <2>3
      <4>2. g[T] = h[T] /\ g[U] = h[U]
        <5> HIDE DEF U
        <5> QED BY <3>3, <4>1, <2>b
      <4>3. h[T] = G[h[U]][s[Max(T)]]
        BY <2>c, <3>3, <4>1
      <4> QED BY <3>3, <4>2, <4>3
    <3> QED BY <3>1, <3>2, <3>3
  <2>6. Fine(g, m)
    BY <2>5
  <2> HIDE DEF g, Fine
  <2> QED BY <2>4, <2>6
<1> HIDE DEF Fine
<1>3. 0..n \subseteq P
  <2> HIDE DEF P
  <2> QED BY <1>1, <1>2, Induct
<1>4. PICK h \in [SUBSET (1..n) -> V] : Fine(h, n)
  <2>1. n \in P
    <3>1. n \in 0..n
      OBVIOUS
    <3> HIDE DEF P
    <3> QED BY <1>3, <3>1
  <2> QED BY <2>1
<1>5. Solves(h, n, b, G, s)
  BY <1>4 DEF Fine, Solves
<1> QED BY <1>5

\* f computes, position by position, what folding b with G over n positions does.
Run(f, n, b, G, s) == f[0] = b /\ \A i \in 1..n : f[i] = G[f[i - 1]][s[i]]

\* There is a run for every function that stays within a set.
LEMMA RunExists ==
  ASSUME NEW V, NEW b \in V, NEW n \in Nat, NEW E,
         NEW s \in [1..n -> E], NEW G, Closed(G, V, E)
  PROVE  \E f \in [0..n -> V] : Run(f, n, b, G, s)
<1>1. PICK h \in [SUBSET (1..n) -> V] : Solves(h, n, b, G, s)
  BY SolutionExists
<1>2. \A T \in SUBSET (1..n) : h[T] = IF T = {} THEN b ELSE G[h[T \ {Max(T)}]][s[Max(T)]]
  BY <1>1 DEF Solves
<1> DEFINE f == [i \in 0..n |-> h[1..i]]
<1>3. \A i \in 0..n : 1..i \in SUBSET (1..n)
  OBVIOUS
<1>4. f \in [0..n -> V] /\ \A i \in 0..n : f[i] = h[1..i]
  BY <1>3
<1>5. f[0] = b
  <2>1. 1..0 = {} /\ 0 \in 0..n
    OBVIOUS
  <2>2. f[0] = h[1..0]
    BY <1>4, <2>1
  <2> HIDE DEF f
  <2> QED BY <1>2, <2>1, <2>2
<1>6. ASSUME NEW i \in 1..n PROVE f[i] = G[f[i - 1]][s[i]]
  <2>1. i \in 0..n /\ i - 1 \in 0..n
    OBVIOUS
  <2>2. f[i] = h[1..i] /\ f[i - 1] = h[1..(i - 1)]
    BY <1>4, <2>1
  <2> HIDE DEF f
  <2>3. h[1..i] = G[h[(1..i) \ {Max(1..i)}]][s[Max(1..i)]]
    BY <1>2, MaxSegment
  <2>4. h[1..i] = G[h[1..(i - 1)]][s[i]]
    BY <2>3, MaxSegment
  <2> QED BY <2>2, <2>4
<1> HIDE DEF f
<1> QED BY <1>4, <1>5, <1>6 DEF Run

\* Two runs agree.
LEMMA RunUnique ==
  ASSUME NEW n \in Nat, NEW b, NEW G, NEW s, NEW f, NEW g, Run(f, n, b, G, s), Run(g, n, b, G, s), NEW m \in 0..n
  PROVE  f[m] = g[m]
<1> DEFINE P == {i \in 0..n : f[i] = g[i]}
<1>1. 0 \in P
  BY DEF Run
<1>2. ASSUME NEW i \in 1..n, i - 1 \in P PROVE i \in P
  <2>1. f[i - 1] = g[i - 1]
    BY <1>2
  <2>2. f[i] = G[f[i - 1]][s[i]] /\ g[i] = G[g[i - 1]][s[i]]
    BY DEF Run
  <2> QED BY <2>1, <2>2
<1>3. 0..n \subseteq P
  <2> HIDE DEF P
  <2> QED BY <1>1, <1>2, Induct
<1> QED BY <1>3

\* A fold whose operator is the function G.
Folded(G, b, s) == (CHOOSE f : Run(f, Len(s), b, G, s))[Len(s)]

\* The fold is the last value of any run.
LEMMA FoldedIs ==
  ASSUME NEW E, NEW s \in Seq(E), NEW b, NEW G, NEW f, Run(f, Len(s), b, G, s)
  PROVE  Folded(G, b, s) = f[Len(s)]
<1> DEFINE g == CHOOSE g : Run(g, Len(s), b, G, s)
<1>1. Run(g, Len(s), b, G, s)
  BY Zenon
<1>2. Folded(G, b, s) = g[Len(s)]
  BY DEF Folded
<1> HIDE DEF g
<1>3. Len(s) \in Nat /\ Len(s) \in 0..Len(s)
  OBVIOUS
<1>4. g[Len(s)] = f[Len(s)]
  BY <1>1, <1>3, RunUnique
<1> QED BY <1>2, <1>4

\* What a fold needs: a start in V, elements in E, a function that keeps to V.
Folding(V, E, G, b, s) == b \in V /\ s \in Seq(E) /\ Closed(G, V, E)

\* A fold stays within the set its function stays within.
LEMMA FoldedType ==
  ASSUME NEW V, NEW E, NEW G, NEW b, NEW s, Folding(V, E, G, b, s)
  PROVE  Folded(G, b, s) \in V
<1>0. b \in V /\ s \in Seq(E) /\ Closed(G, V, E)
  BY DEF Folding
<1> USE <1>0
<1>1. s \in [1..Len(s) -> E] /\ Len(s) \in Nat /\ Len(s) \in 0..Len(s)
  OBVIOUS
<1>2. PICK f \in [0..Len(s) -> V] : Run(f, Len(s), b, G, s)
  BY <1>1, RunExists
<1>3. Folded(G, b, s) = f[Len(s)]
  BY <1>2, FoldedIs
<1> QED BY <1>1, <1>3

\* A fold over nothing, and over one element more.
LEMMA FoldedEmpty ==
  ASSUME NEW b, NEW G
  PROVE  Folded(G, b, <<>>) = b
<1> DEFINE f == [i \in 0..0 |-> b]
<1>1. Run(f, Len(<<>>), b, G, <<>>)
  BY DEF Run
<1>2. <<>> \in Seq({}) /\ Len(<<>>) = 0 /\ f[0] = b
  OBVIOUS
<1> HIDE DEF f
<1>3. Folded(G, b, <<>>) = f[Len(<<>>)]
  BY <1>1, <1>2, FoldedIs
<1> QED BY <1>2, <1>3

\* A fold over one element more is one step more.
LEMMA FoldedAppend ==
  ASSUME NEW V, NEW E, NEW G, NEW b, NEW s, Folding(V, E, G, b, s), NEW e \in E
  PROVE  Folded(G, b, Append(s, e)) = G[Folded(G, b, s)][e]
<1>0. b \in V /\ s \in Seq(E) /\ Closed(G, V, E)
  BY DEF Folding
<1> USE <1>0
<1> DEFINE t == Append(s, e)
<1>1. t \in Seq(E) /\ t \in [1..Len(t) -> E] /\ Len(t) \in Nat /\ Len(t) = Len(s) + 1 /\ Len(s) \in Nat
  <2>1. t \in Seq(E) /\ Len(t) = Len(s) + 1
    OBVIOUS
  <2> HIDE DEF t
  <2> QED BY <2>1, LenProperties
<1>2. t[Len(t)] = e /\ \A i \in 1..Len(s) : t[i] = s[i]
  OBVIOUS
<1> HIDE DEF t
<1>3. PICK f \in [0..Len(t) -> V] : Run(f, Len(t), b, G, t)
  BY <1>1, RunExists
<1>4. Run(f, Len(s), b, G, s)
  <2>1. f[0] = b
    BY <1>3 DEF Run
  <2>2. ASSUME NEW i \in 1..Len(s) PROVE f[i] = G[f[i - 1]][s[i]]
    <3>1. i \in 1..Len(t) /\ t[i] = s[i]
      BY <1>1, <1>2
    <3>2. f[i] = G[f[i - 1]][t[i]]
      BY <1>3, <3>1 DEF Run
    <3> QED BY <3>1, <3>2
  <2> QED BY <2>1, <2>2 DEF Run
<1>5. Folded(G, b, t) = f[Len(t)]
  BY <1>1, <1>3, FoldedIs
<1>6. Folded(G, b, s) = f[Len(s)]
  BY <1>4, FoldedIs
<1>7. f[Len(t)] = G[f[Len(t) - 1]][t[Len(t)]]
  <2>1. Len(t) \in 1..Len(t)
    BY <1>1
  <2> QED BY <1>3, <2>1 DEF Run
<1> QED BY <1>1, <1>2, <1>5, <1>6, <1>7 DEF t

\* g satisfies the equation of the fold on the initial segments, as long as it
\* stays within V.
Segments(g, V, b, G, s) ==
  /\ g[{}] = b
  /\ \A m \in 1..Len(s) : g[1..(m - 1)] \in V => g[1..m] = G[g[1..(m - 1)]][s[m]]

\* What the recursive function of a fold over sets of positions returns, once
\* its equation is known to hold on the initial segments.
LEMMA FoldedSegments ==
  ASSUME NEW V, NEW E, NEW G, NEW b, NEW s, Folding(V, E, G, b, s), NEW g,
         Segments(g, V, b, G, s)
  PROVE  g[1..Len(s)] = Folded(G, b, s)
<1>0. b \in V /\ s \in Seq(E) /\ Closed(G, V, E)
  BY DEF Folding
<1> USE <1>0
<1> USE DEF Segments
<1> DEFINE n == Len(s)
           P == {m \in 0..n : g[1..m] \in V}
           f == [m \in 0..n |-> g[1..m]]
<1>1. 0 \in P
  <2>1. 1..0 = {} /\ 0 \in 0..n
    OBVIOUS
  <2>2. g[1..0] \in V
    BY <2>1
  <2> QED BY <2>1, <2>2
<1>2. ASSUME NEW m \in 1..n, m - 1 \in P PROVE m \in P
  <2>1. g[1..(m - 1)] \in V /\ s[m] \in E /\ m \in 0..n
    BY <1>2
  <2>2. g[1..m] = G[g[1..(m - 1)]][s[m]]
    BY <2>1
  <2>3. g[1..m] \in V
    BY <2>1, <2>2 DEF Closed
  <2> QED BY <2>1, <2>3
<1>3. 0..n \subseteq P
  <2>1. n \in Nat
    OBVIOUS
  <2> HIDE DEF P, n
  <2> QED BY <1>1, <1>2, <2>1, Induct
<1>4. ASSUME NEW m \in 1..n PROVE f[m] = G[f[m - 1]][s[m]]
  <2>1. m \in 0..n /\ m - 1 \in 0..n
    OBVIOUS
  <2>2. g[1..(m - 1)] \in V
    <3>1. m - 1 \in P
      <4> HIDE DEF P
      <4> QED BY <1>3, <2>1
    <3> QED BY <3>1
  <2> QED BY <2>1, <2>2
<1>5. f[0] = b
  <2>1. 1..0 = {} /\ 0 \in 0..n
    OBVIOUS
  <2>2. f[0] = g[1..0]
    BY <2>1
  <2> HIDE DEF f
  <2> QED BY <2>1, <2>2
<1>6. Run(f, n, b, G, s)
  <2> HIDE DEF f, n
  <2> QED BY <1>4, <1>5 DEF Run
<1>7. f[n] = g[1..n]
  OBVIOUS
<1> HIDE DEF f
<1>8. Folded(G, b, s) = f[n]
  BY <1>6, FoldedIs
<1> QED BY <1>7, <1>8

-----------------------------------------------------------------------------
(* Selections. *)

\* Induction over sequences, for a property given as a set.
LEMMA SeqInduct ==
  ASSUME NEW S, NEW P, <<>> \in P, \A s \in Seq(S) : \A x \in S : s \in P => Append(s, x) \in P
  PROVE  Seq(S) \subseteq P
<1>1. SUFFICES ASSUME NEW bad \in Seq(S), bad \notin P PROVE FALSE
  OBVIOUS
<1> DEFINE L == {Len(s) : s \in {r \in Seq(S) : r \notin P}}
<1>2. L \in SUBSET Nat /\ L # {}
  <2>1. \A s \in Seq(S) : Len(s) \in Nat
    OBVIOUS
  <2> QED BY <1>1, <2>1
<1>3. PICK n \in L : \A k \in L : n <= k
  <2> HIDE DEF L
  <2> QED BY <1>2, LeastNat
<1>4. PICK s \in Seq(S) : s \notin P /\ n = Len(s)
  OBVIOUS
<1>5. PICK r \in Seq(S), x \in S : s = Append(r, x)
  <2>1. s # <<>>
    BY <1>4
  <2> QED BY <1>4, <2>1, SequenceEmptyOrAppend
<1>6. r \notin P
  BY <1>4, <1>5
<1>7. Len(r) \in L
  BY <1>6
<1>8. Len(s) = Len(r) + 1 /\ Len(r) \in Nat
  BY <1>5
<1>9. n <= Len(r)
  <2> HIDE DEF L
  <2> QED BY <1>3, <1>7
<1> QED BY <1>4, <1>8, <1>9

\* How Keep goes through a sequence.
Keeping(f, s, I) ==
  /\ f[0] = <<>>
  /\ \A n \in 1..Len(s) : f[n] = IF n \in I THEN Append(f[n - 1], s[n]) ELSE f[n - 1]

\* The recursion of Keep has a solution, and Keep is its last value.
LEMMA KeepRun ==
  ASSUME NEW S, NEW s \in Seq(S), NEW I
  PROVE  \E f \in [0..Len(s) -> Seq(S)] : Keeping(f, s, I) /\ Keep(s, I) = f[Len(s)]
<1> DEFINE N == Len(s)
           G == [v \in Seq(S) |-> [i \in 1..N |-> IF i \in I THEN Append(v, s[i]) ELSE v]]
           ids == [i \in 1..N |-> i]
           Eq(f) == f = [n \in 0..N |-> IF n = 0 THEN <<>>
                                        ELSE IF n \in I THEN Append(f[n - 1], s[n]) ELSE f[n - 1]]
<1>1. N \in Nat /\ ids \in [1..N -> 1..N] /\ <<>> \in Seq(S)
  OBVIOUS
<1>2. \A v \in Seq(S), i \in 1..N : G[v][i] = IF i \in I THEN Append(v, s[i]) ELSE v
  OBVIOUS
<1>3. \A v \in Seq(S), i \in 1..N : Append(v, s[i]) \in Seq(S)
  OBVIOUS
<1>4. Closed(G, Seq(S), 1..N)
  <2> HIDE DEF G
  <2> QED BY <1>2, <1>3 DEF Closed
<1>5. PICK f \in [0..N -> Seq(S)] : Run(f, N, <<>>, G, ids)
  <2> HIDE DEF G, ids, N
  <2> QED BY <1>1, <1>4, RunExists
<1>6. f[0] = <<>> /\ \A n \in 1..N : f[n] = G[f[n - 1]][n]
  BY <1>5 DEF Run
<1>7. ASSUME NEW n \in 1..N PROVE f[n] = IF n \in I THEN Append(f[n - 1], s[n]) ELSE f[n - 1]
  <2>1. f[n - 1] \in Seq(S)
    OBVIOUS
  <2> HIDE DEF G
  <2> QED BY <1>2, <1>6, <2>1
<1>8. Eq(f)
  <2>1. ASSUME NEW n \in 0..N
        PROVE  f[n] = IF n = 0 THEN <<>> ELSE IF n \in I THEN Append(f[n - 1], s[n]) ELSE f[n - 1]
    <3>1. CASE n = 0
      BY <1>6, <3>1
    <3>2. CASE n # 0
      <4>1. n \in 1..N
        BY <3>2
      <4> QED BY <1>7, <3>2, <4>1
    <3> QED BY <3>1, <3>2
  <2> HIDE DEF N, G, ids
  <2> QED BY <2>1
<1>9. Eq(CHOOSE g : Eq(g))
  <2> HIDE DEF Eq
  <2> QED BY <1>8, Zenon
<1>10. PICK g : Eq(g) /\ Keep(s, I) = g[N]
  <2>1. Keep(s, I) = (CHOOSE g : Eq(g))[N]
    BY DEF Keep
  <2> HIDE DEF Eq
  <2> QED BY <1>9, <2>1
<1>11. g[0] = <<>> /\ \A n \in 1..N : g[n] = IF n \in I THEN Append(g[n - 1], s[n]) ELSE g[n - 1]
  <2>1. \A n \in 0..N : g[n] = IF n = 0 THEN <<>> ELSE IF n \in I THEN Append(g[n - 1], s[n]) ELSE g[n - 1]
    BY <1>10
  <2>2. 0 \in 0..N /\ \A n \in 1..N : n \in 0..N /\ n # 0
    OBVIOUS
  <2> HIDE DEF N, Eq
  <2> QED BY <2>1, <2>2
<1> DEFINE P == {n \in 0..N : f[n] = g[n]}
<1>12. 0 \in P
  BY <1>6, <1>11
<1>13. ASSUME NEW n \in 1..N, n - 1 \in P PROVE n \in P
  <2>1. f[n - 1] = g[n - 1] /\ n \in 0..N
    BY <1>13
  <2>2. f[n] = g[n]
    BY <1>7, <1>11, <2>1
  <2> QED BY <2>1, <2>2
<1>14. N \in P
  <2>1. 0..N \subseteq P
    <3> HIDE DEF P, N
    <3> QED BY <1>1, <1>12, <1>13, Induct
  <2>2. N \in 0..N
    OBVIOUS
  <2> HIDE DEF P, N
  <2> QED BY <2>1, <2>2
<1>15. Keep(s, I) = f[N]
  BY <1>10, <1>14
<1>16. Keeping(f, s, I)
  <2> HIDE DEF G, ids
  <2> QED BY <1>6, <1>7 DEF Keeping
<1> QED BY <1>15, <1>16

\* A selection is a sequence over the same set.
LEMMA KeepType ==
  ASSUME NEW S, NEW s \in Seq(S), NEW I
  PROVE  Keep(s, I) \in Seq(S)
<1>1. PICK f \in [0..Len(s) -> Seq(S)] : Keep(s, I) = f[Len(s)]
  BY KeepRun
<1> QED BY <1>1

\* Two sequences of a length that agree where they are selected from.
LEMMA KeepSame ==
  ASSUME NEW S, NEW s \in Seq(S), NEW t \in Seq(S), Len(s) = Len(t), NEW I, NEW J,
         \A i \in 1..Len(s) : (i \in I <=> i \in J) /\ (i \in I => s[i] = t[i])
  PROVE  Keep(s, I) = Keep(t, J)
<1>1. PICK f \in [0..Len(s) -> Seq(S)] : Keeping(f, s, I) /\ Keep(s, I) = f[Len(s)]
  BY KeepRun
<1>2. PICK g \in [0..Len(t) -> Seq(S)] : Keeping(g, t, J) /\ Keep(t, J) = g[Len(t)]
  BY KeepRun
<1> DEFINE N == Len(s)
           P == {n \in 0..N : f[n] = g[n]}
<1>3. 0 \in P
  BY <1>1, <1>2 DEF Keeping
<1>4. ASSUME NEW n \in 1..N, n - 1 \in P PROVE n \in P
  <2>1. f[n - 1] = g[n - 1] /\ n \in 0..N
    BY <1>4
  <2>2. f[n] = IF n \in I THEN Append(f[n - 1], s[n]) ELSE f[n - 1]
    BY <1>1 DEF Keeping
  <2>3. g[n] = IF n \in J THEN Append(g[n - 1], t[n]) ELSE g[n - 1]
    BY <1>2 DEF Keeping
  <2>4. f[n] = g[n]
    BY <2>1, <2>2, <2>3
  <2> QED BY <2>1, <2>4
<1>5. N \in P
  <2>1. N \in Nat /\ N \in 0..N
    OBVIOUS
  <2> HIDE DEF P, N
  <2> QED BY <1>3, <1>4, <2>1, Induct
<1> QED BY <1>1, <1>2, <1>5

\* A selection from nothing, and from one element more.
LEMMA KeepEmpty ==
  ASSUME NEW I
  PROVE  Keep(<<>>, I) = <<>>
<1>1. <<>> \in Seq({}) /\ Len(<<>>) = 0
  OBVIOUS
<1>2. PICK f : Keeping(f, <<>>, I) /\ Keep(<<>>, I) = f[Len(<<>>)]
  BY <1>1, KeepRun
<1> QED BY <1>1, <1>2 DEF Keeping

\* A selection from a sequence with one element more.
LEMMA KeepAppend ==
  ASSUME NEW S, NEW s \in Seq(S), NEW x \in S, NEW I
  PROVE  Keep(Append(s, x), I) = IF Len(s) + 1 \in I THEN Append(Keep(s, I), x) ELSE Keep(s, I)
<1> DEFINE t == Append(s, x)
           N == Len(s)
<1>1. t \in Seq(S) /\ Len(t) = N + 1 /\ N \in Nat /\ t[N + 1] = x /\ \A i \in 1..N : t[i] = s[i]
  OBVIOUS
<1> HIDE DEF t
<1>2. PICK f \in [0..Len(t) -> Seq(S)] : Keeping(f, t, I) /\ Keep(t, I) = f[Len(t)]
  BY <1>1, KeepRun
<1>3. PICK g \in [0..Len(s) -> Seq(S)] : Keeping(g, s, I) /\ Keep(s, I) = g[Len(s)]
  BY KeepRun
<1> DEFINE P == {n \in 0..N : f[n] = g[n]}
<1>4. 0 \in P
  BY <1>1, <1>2, <1>3 DEF Keeping
<1>5. ASSUME NEW n \in 1..N, n - 1 \in P PROVE n \in P
  <2>1. f[n - 1] = g[n - 1] /\ n \in 0..N /\ n \in 1..Len(t) /\ t[n] = s[n]
    BY <1>1, <1>5
  <2>2. f[n] = IF n \in I THEN Append(f[n - 1], t[n]) ELSE f[n - 1]
    BY <1>2, <2>1 DEF Keeping
  <2>3. g[n] = IF n \in I THEN Append(g[n - 1], s[n]) ELSE g[n - 1]
    BY <1>3 DEF Keeping
  <2>4. f[n] = g[n]
    BY <2>1, <2>2, <2>3
  <2> QED BY <2>1, <2>4
<1>6. f[N] = g[N]
  <2>1. N \in 0..N
    BY <1>1
  <2>2. 0..N \subseteq P
    <3> HIDE DEF P, N
    <3> QED BY <1>1, <1>4, <1>5, Induct
  <2> QED BY <2>1, <2>2
<1>7. f[N + 1] = IF N + 1 \in I THEN Append(f[N], t[N + 1]) ELSE f[N]
  <2>1. N + 1 \in 1..Len(t) /\ (N + 1) - 1 = N
    BY <1>1
  <2> HIDE DEF N
  <2> QED BY <1>2, <2>1 DEF Keeping
<1>8. Keep(t, I) = f[N + 1] /\ Keep(s, I) = g[N]
  BY <1>1, <1>2, <1>3
<1>9. Keep(t, I) = IF N + 1 \in I THEN Append(Keep(s, I), x) ELSE Keep(s, I)
  <2> HIDE DEF N, P
  <2> QED BY <1>1, <1>6, <1>7, <1>8
<1> QED BY <1>9 DEF t

\* m names, in order, the positions in I that Keep selects from s.
Selects(m, s, I) ==
  /\ m \in [1..Len(Keep(s, I)) -> 1..Len(s)]
  /\ \A j \in 1..Len(Keep(s, I)) : m[j] \in I /\ Keep(s, I)[j] = s[m[j]]
  /\ \A i, j \in 1..Len(Keep(s, I)) : i < j => m[i] < m[j]
  /\ \A i \in 1..Len(s) : i \in I => \E j \in 1..Len(Keep(s, I)) : m[j] = i

\* There is such a naming, and no more is selected than there is.
LEMMA KeepMap ==
  ASSUME NEW S, NEW s \in Seq(S), NEW I
  PROVE  (\E m : Selects(m, s, I)) /\ Len(Keep(s, I)) <= Len(s)
<1> DEFINE P == {r \in Seq(S) : (\E m : Selects(m, r, I)) /\ Len(Keep(r, I)) <= Len(r)}
<1>1. <<>> \in P
  <2>1. Keep(<<>>, I) = <<>> /\ Len(<<>>) = 0 /\ <<>> \in Seq(S)
    BY KeepEmpty
  <2> DEFINE m == [j \in 1..0 |-> 0]
  <2>2. Selects(m, <<>>, I)
    BY <2>1 DEF Selects
  <2> HIDE DEF m
  <2> QED BY <2>1, <2>2
<1>2. ASSUME NEW r \in Seq(S), NEW x \in S, r \in P PROVE Append(r, x) \in P
  <2> DEFINE t == Append(r, x)
             k == Keep(r, I)
             l == Keep(t, I)
             N == Len(r)
             K == Len(k)
  <2>1. PICK m : Selects(m, r, I)
    BY <1>2
  <2>2. K <= N /\ k \in Seq(S) /\ K \in Nat /\ N \in Nat
    <3>1. k \in Seq(S)
      BY KeepType
    <3>2. \A q \in Seq(S) : Len(q) \in Nat
      OBVIOUS
    <3>3. K <= N
      BY <1>2
    <3> HIDE DEF k
    <3> QED BY <3>1, <3>2, <3>3
  <2>3. t \in Seq(S) /\ Len(t) = N + 1 /\ t[N + 1] = x /\ \A i \in 1..N : t[i] = r[i]
    OBVIOUS
  <2>4. l = IF N + 1 \in I THEN Append(k, x) ELSE k
    BY KeepAppend
  <2>5. /\ m \in [1..K -> 1..N]
        /\ \A j \in 1..K : m[j] \in I /\ k[j] = r[m[j]]
        /\ \A i, j \in 1..K : i < j => m[i] < m[j]
        /\ \A i \in 1..N : i \in I => \E j \in 1..K : m[j] = i
    BY <2>1 DEF Selects
  <2> HIDE DEF t, k, l, N, P, K
  <2>6. CASE N + 1 \notin I
    <3>1. Selects(m, t, I)
      <4>1. l = k /\ Len(l) = K
        BY <2>4, <2>6 DEF K
      <4>2. m \in [1..K -> 1..(N + 1)]
        BY <2>2, <2>5
      <4>3. \A j \in 1..K : m[j] \in I /\ k[j] = t[m[j]]
        BY <2>3, <2>5
      <4>4. \A i \in 1..(N + 1) : i \in I => \E j \in 1..K : m[j] = i
        BY <2>2, <2>5, <2>6
      <4> QED BY <2>3, <2>5, <4>1, <4>2, <4>3, <4>4 DEF Selects, l
    <3> QED BY <2>2, <2>3, <2>4, <2>6, <3>1 DEF P, t, l, K
  <2>7. CASE N + 1 \in I
    <3> DEFINE q == [j \in 1..(K + 1) |-> IF j = K + 1 THEN N + 1 ELSE m[j]]
    <3>1. l \in Seq(S) /\ Len(l) = K + 1 /\ l[K + 1] = x /\ \A j \in 1..K : l[j] = k[j]
      BY <2>2, <2>4, <2>7 DEF K
    <3>2. q[K + 1] = N + 1 /\ (\A j \in 1..K : q[j] = m[j]) /\ q \in [1..(K + 1) -> 1..(N + 1)]
      BY <2>2, <2>5
    <3> HIDE DEF q
    <3>3. ASSUME NEW j \in 1..(K + 1) PROVE q[j] \in I /\ l[j] = t[q[j]]
      <4>1. CASE j = K + 1
        BY <2>3, <2>7, <3>1, <3>2, <4>1
      <4>2. CASE j # K + 1
        <5>1. j \in 1..K
          BY <2>2, <4>2
        <5>2. q[j] = m[j] /\ m[j] \in I /\ l[j] = r[m[j]] /\ m[j] \in 1..N
          BY <2>5, <3>1, <3>2, <5>1
        <5> QED BY <2>3, <5>2
      <4> QED BY <4>1, <4>2
    <3>4. ASSUME NEW i \in 1..(K + 1), NEW j \in 1..(K + 1), i < j PROVE q[i] < q[j]
      <4>1. i \in 1..K
        BY <2>2, <3>4
      <4>2. q[i] = m[i] /\ m[i] \in 1..N
        BY <2>5, <3>2, <4>1
      <4>3. CASE j = K + 1
        BY <2>2, <3>2, <4>2, <4>3
      <4>4. CASE j # K + 1
        <5>1. j \in 1..K
          BY <2>2, <4>4
        <5> QED BY <2>5, <3>2, <3>4, <4>1, <5>1
      <4> QED BY <4>3, <4>4
    <3>5. ASSUME NEW i \in 1..(N + 1), i \in I PROVE \E j \in 1..(K + 1) : q[j] = i
      <4>1. CASE i = N + 1
        BY <2>2, <3>2, <4>1
      <4>2. CASE i # N + 1
        <5>1. i \in 1..N
          BY <2>2, <4>2
        <5>2. PICK j \in 1..K : m[j] = i
          BY <2>5, <3>5, <5>1
        <5> QED BY <2>2, <3>2, <5>2
      <4> QED BY <4>1, <4>2
    <3>6. Selects(q, t, I)
      BY <2>3, <3>1, <3>2, <3>3, <3>4, <3>5 DEF Selects, l
    <3>7. Len(l) <= Len(t)
      BY <2>2, <2>3, <3>1
    <3> QED BY <2>3, <3>6, <3>7 DEF P, t, l
  <2> QED BY <2>6, <2>7
<1>3. Seq(S) \subseteq P
  <2> HIDE DEF P
  <2> QED BY <1>1, <1>2, SeqInduct
<1> QED BY <1>3

\* A fold gathers what its steps add: F says what a value holds, O what an
\* element adds to it.
LEMMA FoldedGathers ==
  ASSUME NEW V, NEW E, NEW G, NEW b, NEW s, Folding(V, E, G, b, s), NEW F, NEW O,
         \A v \in V, e \in E : F[G[v][e]] = F[v] \cup O[e]
  PROVE  F[Folded(G, b, s)] = F[b] \cup UNION {O[s[i]] : i \in DOMAIN s}
<1>0. b \in V /\ s \in Seq(E) /\ Closed(G, V, E)
  BY DEF Folding
<1> DEFINE All(r) == UNION {O[r[i]] : i \in DOMAIN r}
           P == {r \in Seq(E) : F[Folded(G, b, r)] = F[b] \cup All(r)}
<1>1. <<>> \in P
  <2>1. Folded(G, b, <<>>) = b /\ <<>> \in Seq(E)
    BY FoldedEmpty
  <2>2. All(<<>>) = {}
    OBVIOUS
  <2> HIDE DEF All
  <2> QED BY <2>1, <2>2
<1>2. ASSUME NEW r \in Seq(E), NEW x \in E, r \in P PROVE Append(r, x) \in P
  <2>1. Folding(V, E, G, b, r)
    BY <1>0 DEF Folding
  <2>2. Folded(G, b, Append(r, x)) = G[Folded(G, b, r)][x] /\ Folded(G, b, r) \in V
    BY <2>1, FoldedAppend, FoldedType
  <2>3. F[Folded(G, b, Append(r, x))] = F[Folded(G, b, r)] \cup O[x]
    BY <2>2
  <2>4. All(Append(r, x)) = All(r) \cup O[x]
    <3> DEFINE q == Append(r, x)
               n == Len(r)
    <3>1. n \in Nat /\ DOMAIN r = 1..n /\ DOMAIN q = 1..(n + 1) /\ q[n + 1] = x /\ \A i \in 1..n : q[i] = r[i]
      <4>1. q \in Seq(E) /\ Len(q) = n + 1
        OBVIOUS
      <4>2. DOMAIN q = 1..(n + 1)
        BY <4>1
      <4> QED BY <4>2
    <3> HIDE DEF q, n
    <3>2. \A i \in 1..(n + 1) : i \in 1..n \/ i = n + 1
      BY <3>1
    <3>3. \A i \in 1..n : i \in 1..(n + 1)
      BY <3>1
    <3>4. n + 1 \in 1..(n + 1)
      BY <3>1
    <3>5. ASSUME NEW y PROVE y \in All(q) <=> y \in All(r) \/ y \in O[x]
      <4>1. y \in All(q) <=> \E i \in 1..(n + 1) : y \in O[q[i]]
        BY <3>1
      <4>2. y \in All(r) <=> \E i \in 1..n : y \in O[r[i]]
        BY <3>1
      <4> HIDE DEF All
      <4> QED BY <3>1, <3>2, <3>3, <3>4, <4>1, <4>2
    <3>6. All(q) = All(r) \cup O[x]
      <4> HIDE DEF All
      <4> QED BY <3>5
    <3> QED BY <3>6 DEF q
  <2>5. Append(r, x) \in Seq(E)
    OBVIOUS
  <2> HIDE DEF All
  <2> QED BY <1>2, <2>3, <2>4, <2>5
<1>3. Seq(E) \subseteq P
  <2> HIDE DEF P
  <2> QED BY <1>1, <1>2, SeqInduct
<1> QED BY <1>0, <1>3

-----------------------------------------------------------------------------
(* Selections that keep everything, or the beginning. *)

\* A selection of everything is the sequence.
LEMMA KeepAll ==
  ASSUME NEW S, NEW s \in Seq(S), NEW I, 1..Len(s) \subseteq I
  PROVE  Keep(s, I) = s
<1> DEFINE P == {r \in Seq(S) : Keep(r, Nat) = r}
<1>1. <<>> \in P
  BY KeepEmpty
<1>2. ASSUME NEW r \in Seq(S), NEW x \in S, r \in P PROVE Append(r, x) \in P
  <2>1. Keep(Append(r, x), Nat) = IF Len(r) + 1 \in Nat THEN Append(Keep(r, Nat), x) ELSE Keep(r, Nat)
    BY KeepAppend
  <2>2. Len(r) + 1 \in Nat /\ Append(r, x) \in Seq(S)
    OBVIOUS
  <2> QED BY <1>2, <2>1, <2>2
<1> HIDE DEF P
<1>3. Seq(S) \subseteq P
  BY <1>1, <1>2, SeqInduct
<1>4. Keep(s, Nat) = s
  BY <1>3 DEF P
<1>5. \A i \in 1..Len(s) : (i \in I <=> i \in Nat) /\ (i \in I => s[i] = s[i])
  OBVIOUS
<1>6. Keep(s, I) = Keep(s, Nat)
  BY <1>5, KeepSame
<1> QED BY <1>4, <1>6

\* What is selected is what is there and passes.
LEMMA KeepElements ==
  ASSUME NEW S, NEW s \in Seq(S), NEW I
  PROVE  \A x : x \in ToSet(Keep(s, I)) <=> \E i \in DOMAIN s : i \in I /\ s[i] = x
<1> DEFINE k == Keep(s, I)
<1>1. k \in Seq(S)
  BY KeepType
<1>2. PICK m : Selects(m, s, I)
  BY KeepMap
<1>3. /\ m \in [1..Len(k) -> 1..Len(s)]
      /\ \A j \in 1..Len(k) : m[j] \in I /\ k[j] = s[m[j]]
      /\ \A i \in 1..Len(s) : i \in I => \E j \in 1..Len(k) : m[j] = i
  BY <1>2 DEF Selects
<1> HIDE DEF k
<1>4. DOMAIN k = 1..Len(k) /\ DOMAIN s = 1..Len(s)
  BY <1>1
<1>5. \A x : x \in ToSet(k) <=> \E j \in 1..Len(k) : k[j] = x
  BY <1>4 DEF ToSet
<1>6. ASSUME NEW x, NEW j \in 1..Len(k), k[j] = x PROVE \E i \in DOMAIN s : i \in I /\ s[i] = x
  BY <1>3, <1>4, <1>6
<1>7. ASSUME NEW x, NEW i \in DOMAIN s, i \in I, s[i] = x PROVE \E j \in 1..Len(k) : k[j] = x
  BY <1>3, <1>4, <1>7
<1> QED BY <1>5, <1>6, <1>7 DEF k

\* The positions in I come first among those in J.
Leads(I, J) == I \subseteq J /\ J \subseteq Nat /\ \A i \in J, k \in I : i <= k => i \in I
Begins(r, s) == Len(r) <= Len(s) /\ \A i \in 1..Len(r) : r[i] = s[i]

\* Then what is selected by I is the beginning of what is selected by J.
LEMMA KeepBegins ==
  ASSUME NEW S, NEW s \in Seq(S), NEW I, NEW J, Leads(I, J)
  PROVE  Begins(Keep(s, I), Keep(s, J))
<1> DEFINE P == {r \in Seq(S) : Begins(Keep(r, I), Keep(r, J))}
<1>1. <<>> \in P
  <2>1. Keep(<<>>, I) = <<>> /\ Keep(<<>>, J) = <<>> /\ <<>> \in Seq(S)
    BY KeepEmpty
  <2> QED BY <2>1 DEF Begins
<1>2. ASSUME NEW r \in Seq(S), NEW x \in S, r \in P PROVE Append(r, x) \in P
  <2> DEFINE u == Append(r, x)
             n == Len(r) + 1
             a == Keep(r, I)
             b == Keep(r, J)
  <2>1. /\ Keep(u, I) = IF n \in I THEN Append(a, x) ELSE a
        /\ Keep(u, J) = IF n \in J THEN Append(b, x) ELSE b
    BY KeepAppend
  <2>2. u \in Seq(S) /\ Len(u) = n /\ n \in Nat
    OBVIOUS
  <2>3. a \in Seq(S) /\ b \in Seq(S) /\ Begins(a, b)
    BY <1>2, KeepType
  <2> HIDE DEF u, n, a, b
  <2>4. CASE n \in I
    <3>1. \A i \in 1..Len(u) : i \in I <=> i \in J
      BY <2>2, <2>4 DEF Leads
    <3>2. Keep(u, I) = Keep(u, J)
      BY <2>2, <3>1, KeepSame
    <3>3. Keep(u, I) \in Seq(S)
      BY <2>2, KeepType
    <3>4. Begins(Keep(u, I), Keep(u, J))
      BY <3>2, <3>3 DEF Begins
    <3> QED BY <2>2, <3>4 DEF u
  <2>5. CASE n \notin I
    <3>1. Len(a) \in Nat /\ Len(b) \in Nat /\ Len(Append(b, x)) = Len(b) + 1
          /\ \A i \in 1..Len(b) : Append(b, x)[i] = b[i]
      BY <2>3
    <3>2. Begins(a, Append(b, x))
      BY <2>3, <3>1 DEF Begins
    <3>3. Begins(Keep(u, I), Keep(u, J))
      BY <2>1, <2>3, <2>5, <3>2
    <3> QED BY <2>2, <3>3 DEF u
  <2> QED BY <2>4, <2>5
<1> HIDE DEF P
<1>3. Seq(S) \subseteq P
  BY <1>1, <1>2, SeqInduct
<1> QED BY <1>3 DEF P

-----------------------------------------------------------------------------
(* Sequences and counting. *)

\* The first of some positions is one of them.
LEMMA FirstPosition ==
  ASSUME NEW n \in Nat, NEW I \in SUBSET (1..n), I # {}
  PROVE  Min(I) \in I
<1>1. I \in SUBSET Nat
  OBVIOUS
<1>2. \E m \in I : \A k \in I : m <= k
  BY <1>1, LeastNat
<1>3. Min(I) = CHOOSE x \in I : \A y \in I : x =< y
  BY DEF Min
<1> QED BY <1>2, <1>3, Zenon

\* The positions of two sequences one after the other.
LEMMA Concatenated ==
  ASSUME NEW S, NEW s \in Seq(S), NEW t \in Seq(S)
  PROVE  /\ s \o t \in Seq(S)
         /\ \A i \in DOMAIN (s \o t) : \/ i \in DOMAIN s /\ (s \o t)[i] = s[i]
                                       \/ \E j \in DOMAIN t : (s \o t)[i] = t[j]
         /\ \A i \in DOMAIN s : i \in DOMAIN (s \o t) /\ (s \o t)[i] = s[i]
         /\ \A j \in DOMAIN t : \E i \in DOMAIN (s \o t) : (s \o t)[i] = t[j]
<1> DEFINE m == Len(s)
           n == Len(t)
           u == s \o t
<1>1. m \in Nat /\ n \in Nat /\ DOMAIN s = 1..m /\ DOMAIN t = 1..n
  OBVIOUS
<1>2. u \in Seq(S) /\ Len(u) = m + n
  OBVIOUS
<1>3. DOMAIN u = 1..(m + n)
  BY <1>2
<1>4. \A i \in 1..(m + n) : u[i] = IF i <= m THEN s[i] ELSE t[i - m]
  BY ConcatProperties
<1> HIDE DEF u, m, n
<1>5. ASSUME NEW i \in DOMAIN u
      PROVE  (i \in DOMAIN s /\ u[i] = s[i]) \/ \E j \in DOMAIN t : u[i] = t[j]
  <2>1. CASE i <= m
    BY <1>1, <1>3, <1>4, <2>1
  <2>2. CASE ~(i <= m)
    <3>1. i - m \in 1..n
      BY <1>1, <1>3, <2>2
    <3> QED BY <1>1, <1>3, <1>4, <2>2, <3>1
  <2> QED BY <2>1, <2>2
<1>6. ASSUME NEW i \in DOMAIN s PROVE i \in DOMAIN u /\ u[i] = s[i]
  <2>1. i \in 1..(m + n) /\ i <= m
    BY <1>1
  <2> QED BY <1>3, <1>4, <2>1
<1>7. ASSUME NEW j \in DOMAIN t PROVE \E i \in DOMAIN u : u[i] = t[j]
  <2>1. m + j \in 1..(m + n) /\ ~(m + j <= m) /\ (m + j) - m = j
    BY <1>1
  <2> QED BY <1>3, <1>4, <2>1
<1> QED BY <1>2, <1>5, <1>6, <1>7 DEF u

\* No set, no sequence.
LEMMA NothingInOrder == SetToSeq({}) = <<>>
<1>1. Cardinality({}) = 0
  BY FS_EmptySet
<1>2. SetToSeq({}) = CHOOSE f \in [1..0 -> {}] : IsInjective(f)
  BY <1>1 DEF SetToSeq
<1>3. \A f \in [1..0 -> {}] : f = <<>>
  OBVIOUS
<1>4. <<>> \in [1..0 -> {}] /\ IsInjective(<<>>)
  BY DEF IsInjective
<1> QED BY <1>2, <1>3, <1>4

\* The head of a queue is taken away.
LEMMA HeadRemoved ==
  ASSUME NEW S, NEW q \in Seq(S), q # <<>>
  PROVE  RemoveAt(q, 1) = [j \in 1..(Len(q) - 1) |-> q[j + 1]]
<1> DEFINE n == Len(q)
           a == SubSeq(q, 1, 0)
           b == SubSeq(q, 2, n)
           r == [j \in 1..(n - 1) |-> q[j + 1]]
<1>1. n \in Nat /\ n >= 1
  OBVIOUS
<1>2. RemoveAt(q, 1) = a \o b
  BY DEF RemoveAt
<1>3. a = <<>>
  BY <1>1
<1>4. b \in Seq(S) /\ Len(b) = n - 1 /\ \A j \in 1..(n - 1) : b[j] = q[j + 1]
  <2>1. \A i \in 2..n : q[i] \in S
    OBVIOUS
  <2>2. 2 \in Int /\ n \in Int
    BY <1>1
  <2>3. /\ b \in Seq(S) /\ Len(b) = (IF 2 <= n THEN n - 2 + 1 ELSE 0)
        /\ \A j \in 1..(n - 2 + 1) : b[j] = q[2 + j - 1]
    <3> HIDE DEF n
    <3> QED BY <2>1, <2>2, SubSeqProperties
  <2> HIDE DEF n, b
  <2> QED BY <1>1, <2>3
<1>5. r \in Seq(S) /\ Len(r) = n - 1 /\ \A j \in 1..(n - 1) : r[j] = q[j + 1]
  <2>1. r \in [1..(n - 1) -> S] /\ n - 1 \in Nat
    BY <1>1
  <2> QED BY <2>1
<1> HIDE DEF a, b, r, n
<1>6. a \o b = b
  BY <1>3, <1>4
<1>7. b = r
  BY <1>1, <1>4, <1>5, SeqEqual
<1> QED BY <1>2, <1>6, <1>7 DEF r, n

\* f takes each value in T once.
Counts(f, n, T) ==
  /\ DOMAIN f = 1..n /\ f = [i \in 1..n |-> f[i]]
  /\ \A i, j \in 1..n : f[i] = f[j] => i = j
  /\ \A y : y \in T <=> \E i \in 1..n : f[i] = y

\* There are as many values as arguments.
LEMMA Counted ==
  ASSUME NEW n \in Nat, NEW f, NEW T, Counts(f, n, T)
  PROVE  Cardinality(T) = n
<1>1. f \in [1..n -> T] /\ (\A y \in T : \E i \in 1..n : f[i] = y) /\ \A i, j \in 1..n : f[i] = f[j] => i = j
  BY DEF Counts
<1>2. f \in Bijection(1..n, T)
  BY <1>1 DEF Bijection, Injection, Surjection, IsInjective
<1>3. ExistsBijection(1..n, T)
  BY <1>2 DEF ExistsBijection
<1>4. IsFiniteSet(1..n) /\ Cardinality(1..n) = n
  BY FS_Interval
<1> QED BY <1>3, <1>4, FS_Bijection
=============================================================================
