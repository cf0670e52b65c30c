------------------------ MODULE GraphAdmissionProofs ------------------------
(***************************************************************************)
(* Admission is exact and its order is right, for every graph.             *)
(*                                                                         *)
(* The searches along dependencies are recursive functions.  What they     *)
(* compute is proved with the least element of a set of natural numbers in *)
(* the place of an induction: the smallest counterexample.                 *)
(***************************************************************************)
EXTENDS GraphAdmission, FiniteSetTheorems, SequenceTheorems, TLAPS

(* A set of natural numbers that has an element has a least one.           *)
LEMMA LeastNat ==
    ASSUME NEW T, T \subseteq Nat, T # {}
    PROVE  \E n \in T : \A m \in T : n <= m
<1> DEFINE R == OpToRel(<, Nat)
<1>1. IsWellFoundedOn(R, Nat)
  BY NatLessThanWellFounded
<1>2. PICK n \in T : \A m \in T : <<m, n>> \notin R
  <2> HIDE DEF R
  <2> QED
    BY <1>1, WFMin
<1>3. ASSUME NEW m \in T PROVE n <= m
  <2>1. ~(m < n)
    BY <1>2 DEF OpToRel
  <2> QED
    BY <2>1
<1> QED
  BY <1>3

-----------------------------------------------------------------------------
(* What a set of nodes reaches in k steps.                                 *)

Onward(T) == T \cup UNION {deps[c] : c \in T}

Level(S, f) ==
    f = [k \in Nat |-> IF k = 0 THEN S
                       ELSE f[k-1] \cup UNION {deps[c] : c \in f[k-1]}]

(* The levels up to n, as a function that exists without recursion.        *)
Upto(S, n) ==
    {g \in [0..n -> SUBSET Index] :
        g[0] = S /\ \A k \in 1..n : g[k] = Onward(g[k-1])}

LEMMA OnwardStays ==
    ASSUME deps \in [Index -> SUBSET Index], NEW T \in SUBSET Index
    PROVE  Onward(T) \in SUBSET Index /\ T \subseteq Onward(T)
  BY DEF Onward

LEMMA UptoExists ==
    ASSUME deps \in [Index -> SUBSET Index], NEW S \in SUBSET Index,
           NEW n \in Nat
    PROVE  Upto(S, n) # {}
<1> DEFINE T == {k \in Nat : Upto(S, k) = {}}
<1> SUFFICES ASSUME T # {} PROVE FALSE
  OBVIOUS
<1>1. PICK k \in T : \A m \in T : k <= m
  BY LeastNat, T \subseteq Nat
<1>2. CASE k = 0
  <2>1. [j \in 0..0 |-> S] \in Upto(S, 0)
    BY DEF Upto
  <2> QED
    BY <1>1, <1>2, <2>1
<1>3. CASE k # 0
  <2>1. k - 1 \in Nat /\ k - 1 \notin T
    BY <1>1, <1>3
  <2>2. PICK g : g \in Upto(S, k - 1)
    BY <2>1
  <2>3. g[k - 1] \in SUBSET Index
    BY <2>1, <2>2 DEF Upto
  <2> DEFINE h == [j \in 0..k |-> IF j = k THEN Onward(g[k - 1]) ELSE g[j]]
  <2>4. h \in [0..k -> SUBSET Index]
    BY <2>2, <2>3, OnwardStays, <1>1 DEF Upto
  <2>5. h[0] = S
    BY <1>3, <1>1, <2>2 DEF Upto
  <2>6. ASSUME NEW j \in 1..k PROVE h[j] = Onward(h[j - 1])
    <3>1. h[j - 1] = g[j - 1]
      BY <1>1, <1>3
    <3>2. CASE j = k
      BY <3>1, <3>2
    <3>3. CASE j # k
      <4>1. g[j] = Onward(g[j - 1]) /\ h[j] = g[j]
        BY <1>1, <2>2, <3>3 DEF Upto
      <4> QED
        BY <3>1, <4>1
    <3> QED
      BY <3>2, <3>3
  <2>7. h \in Upto(S, k)
    <3> HIDE DEF h
    <3> QED
      BY <2>4, <2>5, <2>6 DEF Upto
  <2> QED
    BY <1>1, <2>7
<1> QED
  BY <1>2, <1>3

LEMMA UptoUnique ==
    ASSUME NEW S, NEW m \in Nat, NEW n \in Nat,
           NEW g \in Upto(S, m), NEW h \in Upto(S, n),
           NEW k \in 0..m, k \in 0..n
    PROVE  g[k] = h[k]
<1> DEFINE T == {j \in Nat : j <= m /\ j <= n /\ g[j] # h[j]}
<1> SUFFICES ASSUME T # {} PROVE FALSE
  OBVIOUS
<1>1. PICK j \in T : \A i \in T : j <= i
  BY LeastNat, T \subseteq Nat
<1>2. j # 0
  BY <1>1 DEF Upto
<1>3. j - 1 \in Nat /\ j - 1 \notin T
  BY <1>1, <1>2
<1>4. g[j - 1] = h[j - 1]
  BY <1>1, <1>3
<1>5. g[j] = Onward(g[j - 1]) /\ h[j] = Onward(h[j - 1])
  BY <1>1, <1>2 DEF Upto
<1> QED
  BY <1>1, <1>4, <1>5

(* The recursion of Within defines a function.                             *)
LEMMA LevelExists ==
    ASSUME deps \in [Index -> SUBSET Index], NEW S \in SUBSET Index
    PROVE  \E f : Level(S, f)
<1> DEFINE G(n) == CHOOSE g : g \in Upto(S, n)
           f == [n \in Nat |-> G(n)[n]]
<1>1. ASSUME NEW n \in Nat PROVE G(n) \in Upto(S, n)
  BY UptoExists
<1> HIDE DEF G
<1>2. f[0] = S
  BY <1>1 DEF Upto
<1>3. ASSUME NEW n \in Nat, n # 0
      PROVE  f[n] = f[n-1] \cup UNION {deps[c] : c \in f[n-1]}
  <2>1. n - 1 \in Nat /\ n - 1 \in 0..n /\ n - 1 \in 0..(n - 1)
    BY <1>3
  <2>2. G(n)[n - 1] = G(n - 1)[n - 1]
    BY <1>1, <2>1, UptoUnique
  <2>3. G(n)[n] = Onward(G(n)[n - 1])
    BY <1>1, <1>3 DEF Upto
  <2>4. f[n - 1] = G(n - 1)[n - 1] /\ f[n] = G(n)[n]
    BY <2>1
  <2> HIDE DEF f
  <2> QED
    BY <2>2, <2>3, <2>4 DEF Onward
<1> DEFINE F == [k \in Nat |-> IF k = 0 THEN S
                               ELSE f[k-1] \cup UNION {deps[c] : c \in f[k-1]}]
<1>4. f = F
  <2>1. ASSUME NEW k \in Nat PROVE f[k] = F[k]
    <3> HIDE DEF f
    <3> QED
      BY <1>2, <1>3
  <2> HIDE DEF G
  <2> QED
    BY <2>1
<1>5. Level(S, f)
  <2> HIDE DEF f
  <2> QED
    BY <1>4 DEF Level
<1> QED
  BY <1>5

LEMMA WithinIsLevel ==
    ASSUME deps \in [Index -> SUBSET Index], NEW S \in SUBSET Index
    PROVE  \E f : Level(S, f) /\ Within(S) = f[N]
<1> DEFINE f == CHOOSE g : Level(S, g)
<1>1. Level(S, f)
  BY LevelExists
<1>2. Within(S) = f[N]
  BY DEF Within, Level
<1> QED
  BY <1>1, <1>2

LEMMA LevelSteps ==
    ASSUME deps \in [Index -> SUBSET Index], NEW S \in SUBSET Index,
           NEW f, Level(S, f)
    PROVE  /\ f[0] = S
           /\ \A k \in Nat : f[k] \in SUBSET Index
           /\ \A k \in Nat : f[k + 1] = Onward(f[k]) /\ f[k] \subseteq f[k + 1]
<1>1. f[0] = S
  BY DEF Level
<1>2. ASSUME NEW k \in Nat PROVE f[k + 1] = Onward(f[k])
  <2>1. k + 1 \in Nat /\ k + 1 # 0 /\ (k + 1) - 1 = k
    OBVIOUS
  <2> QED
    BY <2>1 DEF Level, Onward
<1> DEFINE T == {k \in Nat : f[k] \notin SUBSET Index}
<1>3. T = {}
  <2> SUFFICES ASSUME T # {} PROVE FALSE
    OBVIOUS
  <2>1. PICK k \in T : \A m \in T : k <= m
    BY LeastNat, T \subseteq Nat
  <2>2. k # 0
    BY <1>1, <2>1
  <2>3. k - 1 \in Nat /\ k - 1 \notin T
    BY <2>1, <2>2
  <2>4. f[(k - 1) + 1] = Onward(f[k - 1]) /\ f[k - 1] \in SUBSET Index
    BY <1>2, <2>3
  <2>5. f[k] \in SUBSET Index
    BY <2>1, <2>4, OnwardStays
  <2> QED
    BY <2>1, <2>5
<1> QED
  BY <1>1, <1>2, <1>3 DEF Onward

-----------------------------------------------------------------------------
(* Levels are reached by walks.                                            *)

IsWalk(len, s) ==
    /\ s \in [1..(len + 1) -> Index]
    /\ \A k \in 1..len : s[k + 1] \in deps[s[k]]

ReachedIn(S, k, p) ==
    \E len \in 0..k : \E s \in [1..(len + 1) -> Index] :
        IsWalk(len, s) /\ s[1] \in S /\ s[len + 1] = p

(* A walk with one more node at its end.                                   *)
LEMMA WalkOn ==
    ASSUME deps \in [Index -> SUBSET Index], NEW len \in Nat, NEW s,
           IsWalk(len, s), NEW p \in deps[s[len + 1]]
    PROVE  \E w \in [1..(len + 2) -> Index] :
               IsWalk(len + 1, w) /\ w[1] = s[1] /\ w[len + 2] = p
<1> DEFINE w == [k \in 1..(len + 2) |-> IF k = len + 2 THEN p ELSE s[k]]
<1>1. s[len + 1] \in Index /\ p \in Index
  BY DEF IsWalk
<1>2. w \in [1..(len + 2) -> Index]
  BY <1>1 DEF IsWalk
<1>3. ASSUME NEW k \in 1..(len + 1) PROVE w[k + 1] \in deps[w[k]]
  <2>1. w[k] = s[k]
    OBVIOUS
  <2>2. CASE k = len + 1
    BY <2>1, <2>2
  <2>3. CASE k # len + 1
    <3>1. k \in 1..len /\ w[k + 1] = s[k + 1]
      BY <2>3
    <3> QED
      BY <2>1, <3>1 DEF IsWalk
  <2> QED
    BY <2>2, <2>3
<1>4. w[1] = s[1] /\ w[len + 2] = p
  OBVIOUS
<1>5. (len + 1) + 1 = len + 2
  OBVIOUS
<1> HIDE DEF w
<1>6. IsWalk(len + 1, w)
  BY <1>2, <1>3, <1>5 DEF IsWalk
<1> QED
  BY <1>2, <1>4, <1>6

(* The same without its last node.                                         *)
LEMMA WalkShort ==
    ASSUME NEW len \in Nat, NEW s, IsWalk(len + 1, s)
    PROVE  LET w == [k \in 1..(len + 1) |-> s[k]] IN
           /\ w \in [1..(len + 1) -> Index]
           /\ IsWalk(len, w) /\ w[1] = s[1] /\ s[len + 2] \in deps[w[len + 1]]
<1> DEFINE w == [k \in 1..(len + 1) |-> s[k]]
<1>1. /\ s \in [1..(len + 2) -> Index]
      /\ \A k \in 1..(len + 1) : s[k + 1] \in deps[s[k]]
  <2>1. (len + 1) + 1 = len + 2
    OBVIOUS
  <2> QED
    BY <2>1 DEF IsWalk
<1>2. w \in [1..(len + 1) -> Index]
  BY <1>1
<1>3. ASSUME NEW k \in 1..len PROVE w[k + 1] \in deps[w[k]]
  <2>1. w[k] = s[k] /\ w[k + 1] = s[k + 1] /\ k \in 1..(len + 1)
    OBVIOUS
  <2> QED
    BY <1>1, <2>1
<1>4. w[1] = s[1] /\ w[len + 1] = s[len + 1]
  OBVIOUS
<1>5. s[len + 2] \in deps[s[len + 1]]
  <2>1. len + 1 \in 1..(len + 1) /\ (len + 1) + 1 = len + 2
    OBVIOUS
  <2> QED
    BY <1>1, <2>1
<1> HIDE DEF w
<1>6. IsWalk(len, w)
  BY <1>2, <1>3 DEF IsWalk
<1>7. /\ w \in [1..(len + 1) -> Index]
      /\ IsWalk(len, w) /\ w[1] = s[1] /\ s[len + 2] \in deps[w[len + 1]]
  BY <1>2, <1>4, <1>5, <1>6
<1> QED
  BY <1>7 DEF w

LEMMA LevelIsReach ==
    ASSUME deps \in [Index -> SUBSET Index], NEW S \in SUBSET Index,
           NEW f, Level(S, f)
    PROVE  \A k \in Nat : \A p : p \in f[k] <=> ReachedIn(S, k, p)
<1> DEFINE Agrees(k) == \A p : p \in f[k] <=> ReachedIn(S, k, p)
           T == {k \in Nat : ~Agrees(k)}
<1> SUFFICES ASSUME T # {} PROVE FALSE
  OBVIOUS
<1>1. PICK k \in T : \A m \in T : k <= m
  <2>1. T \subseteq Nat
    OBVIOUS
  <2> HIDE DEF T
  <2> QED
    BY <2>1, LeastNat
<1>2. CASE k = 0
  <2>1. ASSUME NEW p \in S PROVE ReachedIn(S, 0, p)
    <3> DEFINE s == [j \in 1..(0 + 1) |-> p]
    <3>1. s \in [1..(0 + 1) -> Index] /\ s[1] = p /\ s[0 + 1] = p
      OBVIOUS
    <3> HIDE DEF s
    <3>2. IsWalk(0, s)
      BY <3>1 DEF IsWalk
    <3> QED
      BY <3>1, <3>2 DEF ReachedIn
  <2>2. ASSUME NEW p, ReachedIn(S, 0, p) PROVE p \in S
    BY <2>2 DEF ReachedIn
  <2>3. Agrees(0)
    BY <2>1, <2>2, LevelSteps
  <2> QED
    BY <1>1, <1>2, <2>3
<1>3. CASE k # 0
  <2>1. k - 1 \in Nat /\ Agrees(k - 1)
    BY <1>1, <1>3
  <2>2. PICK j \in Nat : j = k - 1
    BY <2>1
  <2>3. k = j + 1 /\ f[k] = Onward(f[j]) /\ f[j] \subseteq f[k] /\ f[j] \in SUBSET Index
    <3>1. k \in Nat
      BY <1>1
    <3>2. k = j + 1
      BY <2>2, <3>1
    <3> HIDE DEF T
    <3>3. f[j + 1] = Onward(f[j]) /\ f[j] \subseteq f[j + 1] /\ f[j] \in SUBSET Index
      BY LevelSteps
    <3> QED
      BY <3>2, <3>3
  <2> HIDE DEF T
  <2>4. ASSUME NEW p \in f[k] PROVE ReachedIn(S, k, p)
    <3>1. CASE p \in f[j]
      <4>1. ReachedIn(S, j, p)
        BY <2>1, <2>2, <3>1
      <4> QED
        BY <2>3, <4>1 DEF ReachedIn
    <3>2. CASE p \notin f[j]
      <4>1. PICK c \in f[j] : p \in deps[c]
        BY <2>3, <3>2 DEF Onward
      <4>2. ReachedIn(S, j, c)
        BY <2>1, <2>2, <4>1
      <4>3. PICK len \in 0..j : \E s \in [1..(len + 1) -> Index] :
                IsWalk(len, s) /\ s[1] \in S /\ s[len + 1] = c
        BY <4>2 DEF ReachedIn
      <4>6. PICK s \in [1..(len + 1) -> Index] :
                IsWalk(len, s) /\ s[1] \in S /\ s[len + 1] = c
        BY <4>3
      <4>4. PICK w \in [1..(len + 2) -> Index] :
                IsWalk(len + 1, w) /\ w[1] = s[1] /\ w[len + 2] = p
        BY <4>1, <4>6, WalkOn
      <4>5. len + 1 \in 0..k /\ (len + 1) + 1 = len + 2
        BY <2>3
      <4> QED
        BY <4>6, <4>4, <4>5 DEF ReachedIn
    <3> QED
      BY <3>1, <3>2
  <2>5. ASSUME NEW p, ReachedIn(S, k, p) PROVE p \in f[k]
    <3>0. PICK len \in 0..k : \E s \in [1..(len + 1) -> Index] :
              IsWalk(len, s) /\ s[1] \in S /\ s[len + 1] = p
      BY <2>5 DEF ReachedIn
    <3>1. PICK s \in [1..(len + 1) -> Index] :
              IsWalk(len, s) /\ s[1] \in S /\ s[len + 1] = p
      BY <3>0
    <3>2. CASE len <= j
      <4>1. len \in 0..j
        BY <3>2
      <4>2. ReachedIn(S, j, p)
        BY <3>1, <4>1 DEF ReachedIn
      <4> QED
        BY <2>1, <2>2, <2>3, <4>2
    <3>3. CASE ~(len <= j)
      <4>1. len = j + 1
        BY <2>3, <3>3
      <4>2. IsWalk(j + 1, s) /\ s[j + 2] = p
        BY <3>1, <4>1
      <4> DEFINE w == [i \in 1..(j + 1) |-> s[i]]
      <4>3. /\ w \in [1..(j + 1) -> Index]
            /\ IsWalk(j, w) /\ w[1] = s[1] /\ p \in deps[w[j + 1]]
        BY <4>2, WalkShort
      <4> HIDE DEF w
      <4>4. ReachedIn(S, j, w[j + 1])
        BY <3>1, <4>3 DEF ReachedIn
      <4>5. w[j + 1] \in f[j]
        BY <2>1, <2>2, <4>4
      <4> QED
        BY <2>3, <4>3, <4>5 DEF Onward
    <3> QED
      BY <3>2, <3>3
  <2>6. Agrees(k)
    BY <2>4, <2>5
  <2> QED
    BY <1>1, <2>6 DEF T
<1> QED
  BY <1>2, <1>3

(* There are N nodes, so the N-th level adds nothing to the one before: as *)
(* long as levels grow, the k-th has more than k elements.                 *)
LEMMA LevelsSettle ==
    ASSUME deps \in [Index -> SUBSET Index], NEW S \in SUBSET Index,
           NEW f, Level(S, f), N # 0
    PROVE  f[N] = f[N - 1]
<1> DEFINE Grown(k) == f[k + 1] = f[k] \/ Cardinality(f[k]) >= k + 1
           T == {k \in Nat : ~Grown(k)}
<1>1. /\ f[0] = S
      /\ \A k \in Nat : /\ f[k] \in SUBSET Index /\ f[k + 1] = Onward(f[k])
                        /\ f[k] \subseteq f[k + 1]
  BY LevelSteps
<1>2. IsFiniteSet(Index) /\ Cardinality(Index) = N /\ N \in Nat
  BY FS_Interval, AdmissionAssumption DEF Index
<1>3. \A A \in SUBSET Index : IsFiniteSet(A) /\ Cardinality(A) \in Nat
                              /\ Cardinality(A) <= N
  BY <1>2, FS_Subset, FS_CardinalityType
<1>4. T = {}
  <2> SUFFICES ASSUME T # {} PROVE FALSE
    OBVIOUS
  <2>1. PICK k \in T : \A m \in T : k <= m
    <3>1. T \subseteq Nat
      OBVIOUS
    <3> HIDE DEF T
    <3> QED
      BY <3>1, LeastNat
  <2>2. k \in Nat /\ ~Grown(k)
    BY <2>1
  <2>3. CASE k = 0
    <3>1. CASE S = {}
      <4>1. f[0 + 1] = f[0]
        BY <1>1, <3>1 DEF Onward
      <4> QED
        BY <2>2, <2>3, <4>1
    <3>2. CASE S # {}
      <4>1. Cardinality(S) # 0 /\ Cardinality(S) \in Nat
        BY <1>3, <3>2, FS_EmptySet
      <4> QED
        BY <1>1, <2>2, <2>3, <4>1
    <3> QED
      BY <3>1, <3>2
  <2>4. CASE k # 0
    <3>1. PICK j \in Nat : k = j + 1
      <4>1. k - 1 \in Nat /\ k = (k - 1) + 1
        BY <2>2, <2>4
      <4> QED
        BY <4>1
    <3>2. Grown(j)
      BY <2>1, <3>1
    <3> HIDE DEF T
    <3>3. CASE f[j + 1] = f[j]
      <4>1. f[k + 1] = Onward(f[k]) /\ f[k] = Onward(f[j])
        BY <1>1, <2>2, <3>1
      <4>2. f[k] = f[j]
        BY <3>1, <3>3
      <4> QED
        BY <2>2, <4>1, <4>2
    <3>4. CASE f[j + 1] # f[j]
      <4>1. f[j] \in SUBSET f[k] /\ f[j] # f[k] /\ f[k] \in SUBSET Index
        BY <1>1, <2>2, <3>1, <3>4
      <4>2. IsFiniteSet(f[k]) /\ Cardinality(f[k]) \in Nat /\ Cardinality(f[j]) \in Nat
        BY <1>1, <1>3, <4>1
      <4>3. Cardinality(f[j]) <= Cardinality(f[k]) /\ Cardinality(f[j]) # Cardinality(f[k])
        BY <4>1, <4>2, FS_Subset
      <4>4. Cardinality(f[j]) >= j + 1
        BY <3>2, <3>4
      <4>5. Cardinality(f[k]) >= k + 1
        BY <3>1, <4>2, <4>3, <4>4
      <4> QED
        BY <2>2, <4>5
    <3> QED
      BY <3>3, <3>4
  <2> QED
    BY <2>3, <2>4
<1>5. N - 1 \in Nat /\ (N - 1) + 1 = N
  BY <1>2
<1>6. Grown(N - 1)
  BY <1>4, <1>5
<1> HIDE DEF T
<1>7. CASE Cardinality(f[N - 1]) >= N
  <2>1. f[N - 1] \in SUBSET Index /\ f[N] \in SUBSET Index /\ f[N - 1] \subseteq f[N]
    BY <1>1, <1>2, <1>5
  <2>2. Cardinality(f[N - 1]) = Cardinality(Index)
    BY <1>2, <1>3, <1>7, <2>1
  <2>3. f[N - 1] = Index
    BY <1>2, <2>1, <2>2, FS_Subset
  <2> QED
    BY <2>1, <2>3
<1> QED
  BY <1>5, <1>6, <1>7

-----------------------------------------------------------------------------
(* Chains of dependencies, and walks along resolved ones.                  *)

(* The graph the searches see is the one that was written, without the     *)
(* nodes that depend on themselves and the names of nothing.               *)
Resolved == deps = [c \in Index |-> Producers(c)]

NoSelf == \A c \in Index : c \notin declared[c]

LEMMA ResolvedTypes == Resolved => deps \in [Index -> SUBSET Index]
  BY DEF Resolved, Producers

LEMMA WalkIsChain ==
    ASSUME Resolved, NEW len \in 1..N, NEW s, IsWalk(len, s)
    PROVE  Chains(s[1], s[len + 1])
<1>1. s \in [1..(len + 1) -> Index]
  BY DEF IsWalk
<1>2. ASSUME NEW k \in 1..len PROVE Edge(s[k], s[k + 1])
  <2>1. s[k] \in Index /\ s[k + 1] \in deps[s[k]]
    BY <1>1, AdmissionAssumption DEF IsWalk
  <2> QED
    BY <2>1 DEF Edge, Resolved, Producers
<1> QED
  BY <1>1, <1>2 DEF Chains

LEMMA ChainIsWalk ==
    ASSUME Resolved, NoSelf, NEW c, NEW p, Chains(c, p)
    PROVE  \E len \in 1..N : \E s \in [1..(len + 1) -> Index] :
               IsWalk(len, s) /\ s[1] = c /\ s[len + 1] = p
<1>1. PICK len \in 1..N : \E s \in [1..(len + 1) -> Index] :
          /\ s[1] = c /\ s[len + 1] = p
          /\ \A k \in 1..len : Edge(s[k], s[k + 1])
  BY DEF Chains
<1>2. PICK s \in [1..(len + 1) -> Index] :
          /\ s[1] = c /\ s[len + 1] = p
          /\ \A k \in 1..len : Edge(s[k], s[k + 1])
  BY <1>1
<1>3. ASSUME NEW k \in 1..len PROVE s[k + 1] \in deps[s[k]]
  <2>1. s[k] \in Index /\ Edge(s[k], s[k + 1])
    BY <1>2, AdmissionAssumption
  <2> QED
    BY <2>1 DEF Edge, Resolved, Producers, NoSelf
<1> QED
  BY <1>2, <1>3 DEF IsWalk

(* A walk with one more node at its beginning, and without its first.      *)
LEMMA WalkFrom ==
    ASSUME deps \in [Index -> SUBSET Index], NEW len \in Nat, NEW s,
           IsWalk(len, s), NEW a \in Index, s[1] \in deps[a]
    PROVE  \E w \in [1..(len + 2) -> Index] :
               IsWalk(len + 1, w) /\ w[1] = a /\ w[len + 2] = s[len + 1]
<1> DEFINE w == [k \in 1..(len + 2) |-> IF k = 1 THEN a ELSE s[k - 1]]
<1>1. w \in [1..(len + 2) -> Index]
  BY DEF IsWalk
<1>2. ASSUME NEW k \in 1..(len + 1) PROVE w[k + 1] \in deps[w[k]]
  <2>1. w[k + 1] = s[k]
    OBVIOUS
  <2>2. CASE k = 1
    BY <2>1, <2>2
  <2>3. CASE k # 1
    <3>1. k - 1 \in 1..len /\ (k - 1) + 1 = k /\ w[k] = s[k - 1]
      BY <2>3
    <3>2. s[(k - 1) + 1] \in deps[s[k - 1]]
      BY <3>1 DEF IsWalk
    <3> QED
      BY <2>1, <3>1, <3>2
  <2> QED
    BY <2>2, <2>3
<1>3. w[1] = a /\ w[len + 2] = s[len + 1] /\ (len + 1) + 1 = len + 2
  OBVIOUS
<1> HIDE DEF w
<1>4. IsWalk(len + 1, w)
  BY <1>1, <1>2, <1>3 DEF IsWalk
<1> QED
  BY <1>1, <1>3, <1>4

LEMMA WalkRest ==
    ASSUME NEW len \in Nat, NEW s, IsWalk(len + 1, s)
    PROVE  \E w \in [1..(len + 1) -> Index] :
               IsWalk(len, w) /\ w[1] \in deps[s[1]] /\ w[len + 1] = s[len + 2]
<1> DEFINE w == [k \in 1..(len + 1) |-> s[k + 1]]
<1>1. /\ s \in [1..(len + 2) -> Index]
      /\ \A k \in 1..(len + 1) : s[k + 1] \in deps[s[k]]
  <2>1. (len + 1) + 1 = len + 2
    OBVIOUS
  <2> QED
    BY <2>1 DEF IsWalk
<1>2. w \in [1..(len + 1) -> Index]
  BY <1>1
<1>3. ASSUME NEW k \in 1..len PROVE w[k + 1] \in deps[w[k]]
  <2>1. w[k] = s[k + 1] /\ w[k + 1] = s[(k + 1) + 1] /\ k + 1 \in 1..(len + 1)
    OBVIOUS
  <2> QED
    BY <1>1, <2>1
<1>4. w[1] \in deps[s[1]] /\ w[len + 1] = s[len + 2]
  <2>1. w[1] = s[1 + 1] /\ w[len + 1] = s[(len + 1) + 1] /\ 1 \in 1..(len + 1)
    OBVIOUS
  <2> QED
    BY <1>1, <2>1
<1> HIDE DEF w
<1> QED
  BY <1>2, <1>3, <1>4 DEF IsWalk

(* dependency_path finds exactly the chains of the written graph, once no  *)
(* node depends on itself.                                                 *)
LEMMA DependsIsChain ==
    ASSUME Resolved, NEW a \in Index, NEW b, DependsOn(a, b)
    PROVE  Chains(a, b)
<1>1. deps \in [Index -> SUBSET Index] /\ deps[a] \in SUBSET Index
  BY ResolvedTypes
<1>2. N \in Nat /\ N # 0 /\ N - 1 \in Nat
  BY AdmissionAssumption DEF Index
<1>3. PICK f : Level(deps[a], f) /\ Within(deps[a]) = f[N]
  BY <1>1, WithinIsLevel
<1>4. b \in f[N - 1]
  BY <1>1, <1>2, <1>3, LevelsSettle DEF DependsOn
<1>5. ReachedIn(deps[a], N - 1, b)
  BY <1>1, <1>2, <1>3, <1>4, LevelIsReach
<1>6. PICK len \in 0..(N - 1) : \E s \in [1..(len + 1) -> Index] :
          IsWalk(len, s) /\ s[1] \in deps[a] /\ s[len + 1] = b
  BY <1>5 DEF ReachedIn
<1>7. PICK s \in [1..(len + 1) -> Index] :
          IsWalk(len, s) /\ s[1] \in deps[a] /\ s[len + 1] = b
  BY <1>6
<1>8. len \in Nat /\ len + 1 \in 1..N /\ (len + 1) + 1 = len + 2
  BY <1>2
<1>9. PICK w \in [1..(len + 2) -> Index] :
          IsWalk(len + 1, w) /\ w[1] = a /\ w[len + 2] = b
  BY <1>1, <1>7, <1>8, WalkFrom
<1> QED
  BY <1>8, <1>9, WalkIsChain

LEMMA ChainIsDepends ==
    ASSUME Resolved, NoSelf, NEW a \in Index, NEW b, Chains(a, b)
    PROVE  DependsOn(a, b)
<1>1. deps \in [Index -> SUBSET Index] /\ deps[a] \in SUBSET Index
  BY ResolvedTypes
<1>2. N \in Nat /\ N # 0 /\ N - 1 \in Nat
  BY AdmissionAssumption DEF Index
<1>3. PICK f : Level(deps[a], f) /\ Within(deps[a]) = f[N]
  BY <1>1, WithinIsLevel
<1>4. PICK len \in 1..N : \E s \in [1..(len + 1) -> Index] :
          IsWalk(len, s) /\ s[1] = a /\ s[len + 1] = b
  BY ChainIsWalk
<1>5. PICK s \in [1..(len + 1) -> Index] :
          IsWalk(len, s) /\ s[1] = a /\ s[len + 1] = b
  BY <1>4
<1>6. PICK m \in Nat : len = m + 1 /\ m \in 0..N
  <2>1. len - 1 \in Nat /\ len = (len - 1) + 1 /\ len - 1 \in 0..N
    BY <1>2
  <2> QED
    BY <2>1
<1>7. IsWalk(m + 1, s) /\ s[m + 2] = b /\ s[1] = a
  <2>1. len + 1 = m + 2
    BY <1>6
  <2> QED
    BY <1>5, <1>6, <2>1
<1>8. PICK w \in [1..(m + 1) -> Index] :
          IsWalk(m, w) /\ w[1] \in deps[s[1]] /\ w[m + 1] = s[m + 2]
  BY <1>7, WalkRest
<1>9. ReachedIn(deps[a], N, b)
  BY <1>6, <1>7, <1>8 DEF ReachedIn
<1>10. \A p : p \in f[N] <=> ReachedIn(deps[a], N, p)
  BY <1>1, <1>2, <1>3, LevelIsReach
<1> QED
  BY <1>3, <1>9, <1>10 DEF DependsOn

(* What is required is the targets and what they depend on.                *)
LEMMA NeededIsReached ==
    ASSUME Resolved, NoSelf, targets \in SUBSET Index
    PROVE  Needed = targets \cup {p \in Index : \E t \in targets : Chains(t, p)}
<1>1. deps \in [Index -> SUBSET Index] /\ N \in Nat
  BY ResolvedTypes, AdmissionAssumption
<1>2. PICK f : Level(targets, f) /\ Within(targets) = f[N]
  BY <1>1, WithinIsLevel
<1>3. \A p : p \in Needed <=> ReachedIn(targets, N, p)
  BY <1>1, <1>2, LevelIsReach DEF Needed
<1>4. ASSUME NEW p, ReachedIn(targets, N, p)
      PROVE  p \in targets \cup {q \in Index : \E t \in targets : Chains(t, q)}
  <2>1. PICK len \in 0..N : \E s \in [1..(len + 1) -> Index] :
            IsWalk(len, s) /\ s[1] \in targets /\ s[len + 1] = p
    BY <1>4 DEF ReachedIn
  <2>2. PICK s \in [1..(len + 1) -> Index] :
            IsWalk(len, s) /\ s[1] \in targets /\ s[len + 1] = p
    BY <2>1
  <2>3. p \in Index
    BY <2>2
  <2>4. CASE len = 0
    BY <2>2, <2>4
  <2>5. CASE len # 0
    <3>1. len \in 1..N
      BY <1>1, <2>5
    <3>2. Chains(s[1], p)
      BY <2>2, <3>1, WalkIsChain
    <3> QED
      BY <2>2, <2>3, <3>2
  <2> QED
    BY <2>4, <2>5
<1>5. ASSUME NEW p \in targets PROVE ReachedIn(targets, N, p)
  <2> DEFINE s == [j \in 1..(0 + 1) |-> p]
  <2>1. s \in [1..(0 + 1) -> Index] /\ s[1] = p /\ s[0 + 1] = p /\ 0 \in 0..N
    BY <1>1
  <2> HIDE DEF s
  <2>2. IsWalk(0, s)
    BY <2>1 DEF IsWalk
  <2> QED
    BY <2>1, <2>2 DEF ReachedIn
<1>6. ASSUME NEW p \in Index, NEW t \in targets, Chains(t, p)
      PROVE  ReachedIn(targets, N, p)
  <2>1. PICK len \in 1..N : \E s \in [1..(len + 1) -> Index] :
            IsWalk(len, s) /\ s[1] = t /\ s[len + 1] = p
    BY <1>6, ChainIsWalk
  <2>2. len \in 0..N
    BY <1>1
  <2> QED
    BY <2>1, <2>2 DEF ReachedIn
<1> QED
  BY <1>3, <1>4, <1>5, <1>6

(* Whatever is written, only nodes of the graph are searched.              *)
LEMMA NeededTypes ==
    ASSUME deps \in [Index -> SUBSET Index], targets \in SUBSET Index
    PROVE  Needed \in SUBSET Index
<1>1. PICK f : Level(targets, f) /\ Within(targets) = f[N]
  BY WithinIsLevel
<1>2. \A k \in Nat : f[k] \in SUBSET Index
  BY <1>1, LevelSteps
<1> QED
  BY <1>1, <1>2, AdmissionAssumption DEF Needed

-----------------------------------------------------------------------------
(* The inductive invariant.                                                *)

GraphTypes ==
    /\ declared \in [Index -> SUBSET Dependable]
    /\ proofs \subseteq Index \X Names /\ gates \subseteq Index \X Names
    /\ targets \subseteq Index

(* Kahn's algorithm has its producers and knows who is ready.              *)
Kahn ==
    /\ stage = "resolve" => errors = {} /\ order = <<>>
    /\ stage # "resolve" =>
          Resolved /\ ready = {c \in Index : indegree[c] = 0} \ Ordered

(* The walk follows producers and comes nowhere twice, so it is no longer  *)
(* than the graph has nodes, and neither is the lap it ends with.          *)
Wandering ==
    /\ stage \in {"resolve", "order"} => path = <<>>
    /\ \A j, k \in 1..Len(path) : path[j] = path[k] => j = k
    /\ \A k \in 1..(Len(path) - 1) : path[k + 1] \in deps[path[k]]
    /\ stage \in {"resolve", "order", "walk", "gates"} => "cycle" \notin errors
    /\ "cycle" \in errors => Len(cycle) <= N

(* Every error says what it says of the written graph.                     *)
NamesJudged ==
    /\ "self" \in errors <=> \E c \in Index : c \in declared[c]
    /\ "unresolved" \in errors <=> \E c \in Index : Outside \in declared[c]
    /\ "unresolved_proof" \in errors <=> \E p \in proofs : p[2] = Outside
    /\ "hidden_proof" \in errors <=>
          \E p \in proofs : p[2] # Outside /\ p[2] \notin Producers(p[1])
    /\ "gate_target" \in errors <=> \E p \in gates : p[2] = Outside

Waiting(p) ==
    p[2] # Outside /\ (p[1] = p[2] \/ Chains(p[1], p[2]) \/ Chains(p[2], p[1]))

GatesJudged ==
    /\ "gate_wait" \in errors => \E p \in gates : Waiting(p)
    /\ NoSelf /\ (\E p \in gates : Waiting(p)) => "gate_wait" \in errors

Judged ==
    /\ stage # "resolve" => NamesJudged
    /\ stage \in {"order", "walk", "gates"} => "gate_wait" \notin errors
    /\ stage = "gates" => Len(order) >= N
    /\ stage \in {"conclude", "admitted", "refused"} =>
          "cycle" \in errors \/ (Len(order) >= N /\ GatesJudged)
    /\ stage = "admitted" =>
          /\ errors = {}
          /\ required = targets \cup {p \in Index : \E t \in targets : Chains(t, p)}
    /\ stage = "refused" => errors # {}

AdmissionInv ==
    /\ GraphTypes /\ TypeOK /\ Kahn /\ ProducersFirst /\ Wandering
    /\ CycleIsReal /\ Judged

LEMMA AdmissionInit == Init => AdmissionInv
<1> SUFFICES ASSUME Init PROVE AdmissionInv
  OBVIOUS
<1> USE DEF Init
<1>1. <<>> \in Seq(Index) /\ Len(<<>>) = 0
  OBVIOUS
<1>2. GraphTypes
  BY AdmissionAssumption DEF GraphTypes
<1>3. TypeOK
  BY <1>1 DEF TypeOK
<1>4. Kahn /\ ProducersFirst /\ Wandering /\ CycleIsReal /\ Judged
  BY <1>1 DEF Kahn, ProducersFirst, Wandering, CycleIsReal, Judged
<1> QED
  BY <1>2, <1>3, <1>4 DEF AdmissionInv

LEMMA IndexFinite ==
    ASSUME NEW A \in SUBSET Index
    PROVE  IsFiniteSet(A) /\ Cardinality(A) \in Nat /\ Cardinality(A) <= N
<1>1. IsFiniteSet(Index) /\ Cardinality(Index) = N /\ N \in Nat
  BY FS_Interval, AdmissionAssumption DEF Index
<1> QED
  BY <1>1, FS_Subset, FS_CardinalityType

(* The errors found in the names say what they should.                     *)
LEMMA NameErrorsSay ==
    ASSUME errors = {}, errors' = errors \cup NameErrors, UNCHANGED graph
    PROVE  /\ NamesJudged' /\ errors' \subseteq Errors
           /\ "cycle" \notin errors' /\ "gate_wait" \notin errors'
<1> DEFINE Self == {x \in Index : x \in declared[x]}
           Unresolved == {x \in Index : Outside \in declared[x]}
           Nowhere == {x \in proofs : x[2] = Outside}
           Hidden == {x \in proofs : x[2] # Outside /\ x[2] \notin Producers(x[1])}
           Lost == {x \in gates : x[2] = Outside}
<1>1. errors' = {"self" : c \in Self} \cup {"unresolved" : c \in Unresolved}
                \cup {"unresolved_proof" : p \in Nowhere}
                \cup {"hidden_proof" : p \in Hidden}
                \cup {"gate_target" : p \in Lost}
  BY DEF NameErrors
<1> HIDE DEF Self, Unresolved, Nowhere, Hidden, Lost
<1>2. /\ "self" \in errors' <=> Self # {}
      /\ "unresolved" \in errors' <=> Unresolved # {}
      /\ "unresolved_proof" \in errors' <=> Nowhere # {}
      /\ "hidden_proof" \in errors' <=> Hidden # {}
      /\ "gate_target" \in errors' <=> Lost # {}
      /\ errors' \subseteq Errors /\ "cycle" \notin errors' /\ "gate_wait" \notin errors'
  BY <1>1 DEF Errors
<1>3. /\ Self # {} <=> (\E c \in Index : c \in declared[c])'
      /\ Unresolved # {} <=> (\E c \in Index : Outside \in declared[c])'
      /\ Nowhere # {} <=> (\E p \in proofs : p[2] = Outside)'
      /\ Hidden # {} <=>
            (\E p \in proofs : p[2] # Outside /\ p[2] \notin Producers(p[1]))'
      /\ Lost # {} <=> (\E p \in gates : p[2] = Outside)'
  BY DEF graph, Self, Unresolved, Nowhere, Hidden, Lost, Producers
<1> QED
  BY <1>2, <1>3 DEF NamesJudged

LEMMA ResolveKeeps ==
    ASSUME AdmissionInv, Resolve
    PROVE  AdmissionInv'
<1>1. /\ stage = "resolve" /\ stage' = "order" /\ errors = {} /\ order = <<>>
      /\ path = <<>> /\ errors' = errors \cup NameErrors
      /\ deps' = [c \in Index |-> Producers(c)]
      /\ indegree' = [c \in Index |-> Cardinality(Producers(c))]
      /\ ready' = {c \in Index : Producers(c) = {}}
      /\ UNCHANGED <<graph, order, path, cycle, required>>
      /\ GraphTypes /\ TypeOK
  BY DEF Resolve, AdmissionInv, Kahn, Wandering
<1>2. /\ NamesJudged' /\ errors' \subseteq Errors
      /\ "cycle" \notin errors' /\ "gate_wait" \notin errors'
  BY <1>1, NameErrorsSay
<1>3. \A c \in Index : /\ Producers(c) \in SUBSET Index
                       /\ Producers(c)' = Producers(c)
                       /\ Cardinality(Producers(c)) \in Nat
                       /\ Cardinality(Producers(c)) = 0 <=> Producers(c) = {}
  <2>1. \A c \in Index : Producers(c) \in SUBSET Index /\ Producers(c)' = Producers(c)
    BY <1>1 DEF Producers, graph
  <2> QED
    BY <2>1, IndexFinite, FS_EmptySet
<1>4. Ordered' = {} /\ order' = <<>> /\ path' = <<>>
  BY <1>1 DEF Ordered
<1>5. GraphTypes'
  BY <1>1 DEF GraphTypes, graph
<1>6. TypeOK'
  <2>1. \A c \in Index : indegree'[c] = Cardinality(deps'[c] \ Ordered')
    BY <1>1, <1>3, <1>4
  <2>2. deps' \in [Index -> SUBSET Index] /\ indegree' \in [Index -> Nat]
    BY <1>1, <1>3
  <2>3. ready' \subseteq Index
    BY <1>1
  <2> QED
    BY <1>1, <1>2, <2>1, <2>2, <2>3 DEF TypeOK
<1>7. Kahn'
  <2>1. Resolved'
    BY <1>1, <1>3 DEF Resolved
  <2>2. ready' = {c \in Index : indegree'[c] = 0} \ Ordered'
    BY <1>1, <1>3, <1>4
  <2> QED
    BY <1>1, <2>1, <2>2 DEF Kahn
<1>8. ProducersFirst' /\ Wandering' /\ CycleIsReal'
  BY <1>1, <1>2, <1>4 DEF ProducersFirst, Wandering, CycleIsReal
<1>9. Judged'
  BY <1>1, <1>2 DEF Judged
<1> QED
  BY <1>5, <1>6, <1>7, <1>8, <1>9 DEF AdmissionInv

(* What is judged of the written graph stays judged while nothing is found.*)
LEMMA JudgedStays ==
    ASSUME UNCHANGED graph, UNCHANGED errors
    PROVE  /\ NamesJudged => NamesJudged'
           /\ GatesJudged => GatesJudged'
           /\ \A c, p : Edge(c, p)' <=> Edge(c, p)
           /\ \A c, p : Chains(c, p)' <=> Chains(c, p)
<1>1. NamesJudged => NamesJudged'
  BY DEF NamesJudged, graph, Producers
<1>2. \A c, p : Edge(c, p)' <=> Edge(c, p)
  BY DEF Edge, graph
<1>3. \A c, p : Chains(c, p)' <=> Chains(c, p)
  BY <1>2 DEF Chains
<1>4. GatesJudged => GatesJudged'
  BY <1>3 DEF GatesJudged, Waiting, NoSelf, graph
<1> QED
  BY <1>1, <1>2, <1>3, <1>4

(* The next node of the order has all its producers before it, and every   *)
(* node before it in the document still waits for one.                     *)
LEMMA PopOrders ==
    ASSUME AdmissionInv, stage = "order", NEW i \in Index, FirstReady(i)
    PROVE  /\ i \notin Ordered /\ i \notin deps[i]
           /\ deps[i] \subseteq Ordered
           /\ \A j \in 1..(i - 1) : j \in Ordered \/ \E p \in deps[j] : p \notin Ordered
<1>1. /\ TypeOK /\ ready = {c \in Index : indegree[c] = 0} \ Ordered
      /\ \A c \in Index : indegree[c] = Cardinality(deps[c] \ Ordered)
      /\ \A c \in Index : deps[c] \in SUBSET Index
  BY DEF AdmissionInv, Kahn, TypeOK
<1>2. \A c \in Index : indegree[c] = 0 <=> deps[c] \subseteq Ordered
  <2> SUFFICES ASSUME NEW c \in Index PROVE indegree[c] = 0 <=> deps[c] \subseteq Ordered
    OBVIOUS
  <2>1. deps[c] \ Ordered \in SUBSET Index
    BY <1>1
  <2>2. indegree[c] = 0 <=> deps[c] \ Ordered = {}
    BY <1>1, <2>1, IndexFinite, FS_EmptySet
  <2> QED
    BY <2>2
<1>3. i \in ready /\ \A j \in ready : i <= j
  BY DEF FirstReady
<1>4. i \notin Ordered /\ deps[i] \subseteq Ordered
  BY <1>1, <1>2, <1>3
<1>5. ASSUME NEW j \in 1..(i - 1)
      PROVE  j \in Ordered \/ \E p \in deps[j] : p \notin Ordered
  <2>1. j \in Index /\ j < i
    BY AdmissionAssumption DEF Index
  <2>2. j \notin ready
    BY <1>3, <2>1 DEF Index
  <2> QED
    BY <1>1, <1>2, <2>1, <2>2
<1> QED
  BY <1>4, <1>5

LEMMA PopKeeps ==
    ASSUME AdmissionInv, Pop
    PROVE  AdmissionInv'
<1>1. PICK i \in Index :
         /\ FirstReady(i)
         /\ order' = Append(order, i)
         /\ indegree' = CountDown(i)
         /\ ready' = (ready \ {i}) \cup {c \in Index : Releases(c, i)}
  BY DEF Pop
<1>2. /\ stage = "order" /\ GraphTypes /\ TypeOK /\ Resolved /\ ProducersFirst
      /\ ready = {c \in Index : indegree[c] = 0} \ Ordered
      /\ \A c \in Index : indegree[c] = Cardinality(deps[c] \ Ordered)
      /\ deps \in [Index -> SUBSET Index] /\ indegree \in [Index -> Nat]
      /\ order \in Seq(Index)
      /\ UNCHANGED <<graph, stage, errors, deps, path, cycle, required>>
  BY DEF Pop, AdmissionInv, Kahn, TypeOK
<1>3. /\ i \notin Ordered /\ i \notin deps[i] /\ deps[i] \subseteq Ordered
      /\ \A j \in 1..(i - 1) : j \in Ordered \/ \E p \in deps[j] : p \notin Ordered
  BY <1>1, <1>2, PopOrders
<1>4. /\ order' \in Seq(Index) /\ Len(order') = Len(order) + 1
      /\ Len(order) \in Nat
      /\ order'[Len(order) + 1] = i
      /\ \A k \in 1..Len(order) : order'[k] = order[k]
  BY <1>1, <1>2, AppendProperties
<1>5. Ordered' = Ordered \cup {i}
  BY <1>4 DEF Ordered
<1>6. ASSUME NEW c \in Index
      PROVE  /\ indegree'[c] \in Nat
             /\ indegree'[c] = Cardinality(deps'[c] \ Ordered')
             /\ c \in ready' <=> indegree'[c] = 0 /\ c \notin Ordered'
  <2> DEFINE open == deps[c] \ Ordered
  <2>1. open \in SUBSET Index /\ IsFiniteSet(open) /\ Cardinality(open) \in Nat
    BY <1>2, IndexFinite
  <2>2. deps'[c] \ Ordered' = open \ {i}
    BY <1>2, <1>5
  <2>3. Cardinality(open \ {i}) = IF i \in deps[c] THEN Cardinality(open) - 1
                                                   ELSE Cardinality(open)
    <3>1. i \in open <=> i \in deps[c]
      BY <1>3
    <3> HIDE DEF open
    <3> QED
      BY <2>1, <3>1, FS_RemoveElement
  <2>4. i \in deps[c] => Cardinality(open) # 0
    <3>1. i \in deps[c] => open # {}
      BY <1>3
    <3> HIDE DEF open
    <3> QED
      BY <2>1, <3>1, FS_EmptySet
  <2>5. indegree'[c] = IF i \in deps[c] THEN indegree[c] - 1 ELSE indegree[c]
    BY <1>1 DEF CountDown
  <2>6. indegree[c] = Cardinality(open)
    BY <1>2
  <2> HIDE DEF open
  <2>7. indegree'[c] \in Nat /\ indegree'[c] = Cardinality(deps'[c] \ Ordered')
    <3>1. Cardinality(deps'[c] \ Ordered') = Cardinality(open \ {i})
      BY <2>2
    <3>2. PICK m \in Nat : m = Cardinality(open)
      BY <2>1
    <3>3. CASE i \in deps[c]
      BY <2>3, <2>4, <2>5, <2>6, <3>1, <3>2, <3>3
    <3>4. CASE i \notin deps[c]
      BY <2>3, <2>5, <2>6, <3>1, <3>2, <3>4
    <3> QED
      BY <3>3, <3>4
  <2>8. c \in Ordered => i \notin deps[c]
    <3> SUFFICES ASSUME c \in Ordered, i \in deps[c] PROVE FALSE
      OBVIOUS
    <3>1. PICK k \in 1..Len(order) : order[k] = c
      BY DEF Ordered
    <3>2. PICK j \in 1..(k - 1) : order[j] = i
      BY <1>2, <3>1 DEF ProducersFirst
    <3>3. j \in 1..Len(order)
      BY <1>4
    <3> QED
      BY <1>3, <3>2, <3>3 DEF Ordered
  <2>9. c \in ready' <=> indegree'[c] = 0 /\ c \notin Ordered'
    <3>1. c \in ready' <=> (c \in ready /\ c # i) \/ Releases(c, i)
      BY <1>1
    <3>2. c \in ready <=> indegree[c] = 0 /\ c \notin Ordered
      BY <1>2
    <3>3. Releases(c, i) <=> i \in deps[c] /\ indegree[c] = 1
      BY DEF Releases
    <3>4. c = i => i \notin deps[c]
      BY <1>3
    <3>5. i \in deps[c] => indegree[c] # 0
      BY <2>4, <2>6
    <3> QED
      BY <1>5, <2>1, <2>5, <2>6, <2>8, <3>1, <3>2, <3>3, <3>4, <3>5
  <2> QED
    BY <2>7, <2>9
<1>7. GraphTypes'
  BY <1>2 DEF GraphTypes, graph
<1>8. TypeOK'
  <2>1. indegree' \in [Index -> Nat]
    <3>1. indegree' = [c \in Index |-> indegree'[c]]
      BY <1>1 DEF CountDown
    <3> QED
      BY <1>6, <3>1
  <2>2. ready' \subseteq Index
    BY <1>1, <1>2
  <2> QED
    BY <1>2, <1>4, <1>6, <2>1, <2>2 DEF TypeOK
<1>9. Kahn'
  <2>1. Resolved'
    BY <1>2 DEF Resolved, Producers, graph
  <2>2. ready' \subseteq Index
    BY <1>1, <1>2
  <2>3. ready' = {c \in Index : indegree'[c] = 0} \ Ordered'
    BY <1>6, <2>2
  <2> QED
    BY <1>2, <2>1, <2>3 DEF Kahn
<1>10. ProducersFirst'
  <2> DEFINE n == Len(order)
  <2>1. \A p : p \in Ordered <=> \E j \in 1..n : order[j] = p
    BY DEF Ordered
  <2>2. n \in Nat /\ Len(order') = n + 1 /\ order'[n + 1] = i
        /\ \A k \in 1..n : order'[k] = order[k]
    BY <1>4
  <2> HIDE DEF n
  <2>3. ASSUME NEW j \in 1..(n + 1), NEW k \in 1..(n + 1), order'[j] = order'[k]
        PROVE  j = k
    <3>1. \A a \in 1..n : order[a] # i
      BY <1>3, <2>1
    <3>2. \A a, b \in 1..n : order[a] = order[b] => a = b
      BY <1>2 DEF ProducersFirst, n
    <3> QED
      BY <2>2, <2>3, <3>1, <3>2
  <2>4. ASSUME NEW k \in 1..(n + 1), NEW p \in deps[order'[k]]
        PROVE  \E j \in 1..(k - 1) : order'[j] = p
    <3>1. CASE k = n + 1
      <4>1. \E j \in 1..n : order[j] = p
        BY <1>3, <2>1, <2>2, <2>4, <3>1
      <4> QED
        BY <2>2, <3>1, <4>1
    <3>2. CASE k # n + 1
      <4>1. k \in 1..n /\ p \in deps[order[k]]
        BY <2>2, <2>4, <3>2
      <4>2. \E j \in 1..(k - 1) : order[j] = p
        BY <1>2, <4>1 DEF ProducersFirst, n
      <4> QED
        BY <2>2, <4>1, <4>2
    <3> QED
      BY <3>1, <3>2
  <2>5. ASSUME NEW k \in 1..(n + 1), NEW m \in 1..(order'[k] - 1)
        PROVE  \/ \E j \in 1..(k - 1) : order'[j] = m
               \/ \E p \in deps[m] : \A j \in 1..(k - 1) : order'[j] # p
    <3>1. CASE k = n + 1
      <4>1. m \in Ordered \/ \E p \in deps[m] : p \notin Ordered
        BY <1>3, <2>2, <2>5, <3>1
      <4>2. k - 1 = n /\ \A j \in 1..n : order'[j] = order[j]
        BY <2>2, <3>1
      <4> QED
        BY <2>1, <4>1, <4>2
    <3>2. CASE k # n + 1
      <4>1. k \in 1..n /\ m \in 1..(order[k] - 1)
        BY <2>2, <2>5, <3>2
      <4>2. \/ \E j \in 1..(k - 1) : order[j] = m
            \/ \E p \in deps[m] : \A j \in 1..(k - 1) : order[j] # p
        BY <1>2, <4>1 DEF ProducersFirst, n
      <4>3. \A j \in 1..(k - 1) : order'[j] = order[j]
        BY <2>2, <4>1
      <4> QED
        BY <4>2, <4>3
    <3> QED
      BY <3>1, <3>2
  <2>6. deps' = deps /\ Len(order') = n + 1
    BY <1>2, <2>2
  <2> QED
    BY <2>3, <2>4, <2>5, <2>6 DEF ProducersFirst
<1>11. Wandering' /\ CycleIsReal'
  BY <1>2 DEF AdmissionInv, Wandering, CycleIsReal, Edge
<1>12. Judged'
  BY <1>2, JudgedStays DEF AdmissionInv, Judged
<1> QED
  BY <1>7, <1>8, <1>9, <1>10, <1>11, <1>12 DEF AdmissionInv

(* A sequence of nodes that names none twice is no longer than the graph,  *)
(* and names all of them when it is as long.                               *)
LEMMA NoneTwice ==
    ASSUME NEW s \in Seq(Index),
           \A j, k \in 1..Len(s) : s[j] = s[k] => j = k
    PROVE  /\ Len(s) <= N
           /\ Len(s) = N => \A c \in Index : \E k \in 1..Len(s) : s[k] = c
<1>1. IsFiniteSet(Index) /\ Cardinality(Index) = N /\ N \in Nat
  BY FS_Interval, AdmissionAssumption DEF Index
<1>2. Len(s) \in Nat /\ Cardinality(1..Len(s)) = Len(s)
  BY FS_Interval
<1>3. s \in Injection(1..Len(s), Index)
  BY DEF Injection, IsInjective
<1>4. Len(s) <= N /\ (Len(s) = N => s \in Surjection(1..Len(s), Index))
  BY <1>1, <1>2, <1>3, FS_Injection
<1>5. s \in Surjection(1..Len(s), Index) =>
         \A c \in Index : \E k \in 1..Len(s) : s[k] = c
  BY DEF Surjection
<1> QED
  BY <1>4, <1>5

LEMMA ExhaustKeeps ==
    ASSUME AdmissionInv, Exhaust
    PROVE  AdmissionInv'
<1>1. /\ stage = "order" /\ stage' \in {"walk", "gates"}
      /\ stage' = "gates" => Len(order) >= N
      /\ UNCHANGED <<graph, errors, deps, path, cycle, required>>
      /\ UNCHANGED <<indegree, ready, order>> /\ Ordered' = Ordered
  <2>1. order \in Seq(Index) /\ N \in Nat
    BY AdmissionAssumption DEF AdmissionInv, TypeOK
  <2> QED
    BY <2>1 DEF Exhaust, kahn, Ordered
<1>2. GraphTypes' /\ TypeOK'
  BY <1>1 DEF AdmissionInv, GraphTypes, TypeOK, graph
<1>3. Kahn'
  BY <1>1 DEF AdmissionInv, Kahn, Resolved, Producers, graph
<1>4. ProducersFirst' /\ Wandering' /\ CycleIsReal'
  BY <1>1 DEF AdmissionInv, ProducersFirst, Wandering, CycleIsReal, Edge
<1>5. Judged'
  BY <1>1, JudgedStays DEF AdmissionInv, Judged
<1> QED
  BY <1>2, <1>3, <1>4, <1>5 DEF AdmissionInv

(* A step of the walk to a producer it has not been to.                    *)
LEMMA WalkGoesOn ==
    ASSUME AdmissionInv, stage = "walk", NEW p \in Index,
           path # <<>> => p \in deps[path[Len(path)]],
           \A k \in 1..Len(path) : path[k] # p,
           path' = Append(path, p),
           UNCHANGED <<cycle, stage, errors>>,
           UNCHANGED <<graph, deps, kahn, required>>
    PROVE  AdmissionInv'
<1>1. path \in Seq(Index) /\ UNCHANGED <<indegree, ready, order>> /\ Ordered' = Ordered
  BY DEF AdmissionInv, TypeOK, kahn, Ordered
<1>2. /\ path' \in Seq(Index) /\ Len(path') = Len(path) + 1 /\ Len(path) \in Nat
      /\ path'[Len(path) + 1] = p
      /\ \A k \in 1..Len(path) : path'[k] = path[k]
  BY <1>1, AppendProperties
<1>3. GraphTypes' /\ TypeOK'
  BY <1>1, <1>2 DEF AdmissionInv, GraphTypes, TypeOK, graph
<1>4. Kahn'
  BY <1>1 DEF AdmissionInv, Kahn, Resolved, Producers, graph
<1>5. ProducersFirst' /\ CycleIsReal'
  BY <1>1 DEF AdmissionInv, ProducersFirst, CycleIsReal, Edge, graph
<1>6. Wandering'
  <2> DEFINE n == Len(path)
  <2>1. /\ n \in Nat /\ Len(path') = n + 1 /\ path'[n + 1] = p
        /\ \A k \in 1..n : path'[k] = path[k] /\ path[k] # p
        /\ n # 0 => p \in deps[path[n]]
        /\ \A j, k \in 1..n : path[j] = path[k] => j = k
        /\ \A k \in 1..(n - 1) : path[k + 1] \in deps[path[k]]
    <3>1. n # 0 => path # <<>>
      OBVIOUS
    <3> QED
      BY <1>2, <3>1 DEF AdmissionInv, Wandering
  <2> HIDE DEF n
  <2>2. \A j, k \in 1..(n + 1) : path'[j] = path'[k] => j = k
    BY <2>1
  <2>3. ASSUME NEW k \in 1..n PROVE path'[k + 1] \in deps[path'[k]]
    <3>1. CASE k = n
      BY <2>1, <3>1
    <3>2. CASE k # n
      <4>1. k \in 1..(n - 1) /\ k + 1 \in 1..n
        BY <2>1, <3>2
      <4> QED
        BY <2>1, <4>1
    <3> QED
      BY <3>1, <3>2
  <2>4. Len(path') = n + 1 /\ Len(path') - 1 = n /\ deps' = deps
    BY <2>1
  <2>5. /\ \A j, k \in 1..Len(path') : path'[j] = path'[k] => j = k
        /\ \A k \in 1..(Len(path') - 1) : path'[k + 1] \in deps'[path'[k]]
    BY <2>2, <2>3, <2>4
  <2> QED
    BY <2>5 DEF AdmissionInv, Wandering
<1>7. Judged'
  BY <1>1, JudgedStays DEF AdmissionInv, Judged
<1> QED
  BY <1>3, <1>4, <1>5, <1>6, <1>7 DEF AdmissionInv

(* The walk is back where it was: the lap is a cycle of the written graph. *)
LEMMA WalkCloses ==
    ASSUME AdmissionInv, stage = "walk", path # <<>>,
           NEW k \in 1..Len(path), path[k] \in deps[path[Len(path)]],
           cycle' = Lap(k), errors' = errors \cup {"cycle"},
           stage' = "conclude", UNCHANGED path,
           UNCHANGED <<graph, deps, kahn, required>>
    PROVE  AdmissionInv'
<1> DEFINE n == Len(path)
<1>1. /\ path \in Seq(Index) /\ n \in Nat /\ n <= N /\ k \in 1..n
      /\ UNCHANGED <<indegree, ready, order>> /\ Ordered' = Ordered
  <2>1. path \in Seq(Index) /\ \A j, i \in 1..Len(path) : path[j] = path[i] => j = i
    BY DEF AdmissionInv, TypeOK, Wandering
  <2>2. Len(path) <= N /\ Len(path) \in Nat
    BY <2>1, NoneTwice
  <2> QED
    BY <2>1, <2>2 DEF kahn, Ordered
<1>2. /\ cycle' \in Seq(Index) /\ Len(cycle') = n - k + 1
      /\ \A j \in 1..(n - k + 1) : cycle'[j] = path[k + j - 1]
  <2>1. \A j \in k..n : path[j] \in Index
    BY <1>1
  <2> HIDE DEF n
  <2> QED
    BY <1>1, <2>1, SubSeqProperties DEF Lap, n
<1>3. \A c, p : c \in Index /\ p \in deps[c] => Edge(c, p)
  <2>1. Resolved
    BY DEF AdmissionInv, Kahn
  <2> QED
    BY <2>1 DEF Resolved, Producers, Edge
<1>4. GraphTypes' /\ TypeOK'
  BY <1>1, <1>2 DEF AdmissionInv, GraphTypes, TypeOK, graph, Errors
<1>5. Kahn'
  BY <1>1 DEF AdmissionInv, Kahn, Resolved, Producers, graph
<1>6. ProducersFirst'
  BY <1>1 DEF AdmissionInv, ProducersFirst
<1>7. \A j \in 1..(n - 1) : path[j + 1] \in deps[path[j]]
  BY DEF AdmissionInv, Wandering
<1>8. CycleIsReal'
  <2>1. PICK lap, m : lap = cycle' /\ m = n - k + 1
    OBVIOUS
  <2>2. /\ m \in Nat /\ m # 0 /\ Len(lap) = m /\ lap \in Seq(Index)
        /\ \A j \in 1..m : lap[j] = path[k + j - 1]
    BY <1>1, <1>2, <2>1
  <2>3. ASSUME NEW j \in 1..m
        PROVE  Edge(lap[j], lap[IF j = m THEN 1 ELSE j + 1])
    <3>1. lap[j] = path[k + j - 1] /\ path[k + j - 1] \in Index
      BY <1>1, <2>1, <2>2
    <3>2. CASE j = m
      <4>1. k + j - 1 = n /\ 1 \in 1..m /\ k + 1 - 1 = k
        BY <1>1, <2>1, <2>2, <3>2
      <4>2. lap[1] = path[k] /\ lap[j] = path[n]
        BY <2>2, <3>1, <4>1
      <4>3. Edge(lap[j], lap[1])
        BY <1>3, <3>1, <4>1, <4>2
      <4> QED
        BY <3>2, <4>3
    <3>3. CASE j # m
      <4>1. j + 1 \in 1..m /\ k + (j + 1) - 1 = k + j
        BY <1>1, <2>2, <3>3
      <4>2. lap[j + 1] = path[k + j]
        BY <2>2, <4>1
      <4>3. k + j - 1 \in 1..(n - 1) /\ (k + j - 1) + 1 = k + j
        <5>1. ASSUME NEW a \in Nat, NEW b \in 1..a, NEW c \in 1..(a - b + 1),
                     c # a - b + 1
              PROVE  b + c - 1 \in 1..(a - 1) /\ (b + c - 1) + 1 = b + c
          BY <5>1
        <5>2. n \in Nat /\ k \in 1..n /\ j \in 1..(n - k + 1) /\ j # n - k + 1
          BY <1>1, <2>1, <3>3
        <5> HIDE DEF n
        <5> QED
          BY <5>1, <5>2
      <4>4. path[k + j] \in deps[path[k + j - 1]]
        BY <1>7, <4>3
      <4>5. Edge(lap[j], lap[j + 1])
        BY <1>3, <3>1, <4>2, <4>4
      <4> QED
        BY <3>3, <4>5
    <3> QED
      BY <3>2, <3>3
  <2>4. lap # <<>>
    BY <2>2
  <2>5. \A c, p : Edge(c, p)' <=> Edge(c, p)
    BY DEF Edge, graph
  <2>6. cycle' = lap /\ Len(cycle') = m
    BY <2>1, <2>2
  <2> QED
    BY <2>3, <2>4, <2>5, <2>6 DEF CycleIsReal
<1>9. Wandering'
  <2>1. Len(cycle') <= N
    BY <1>1, <1>2, AdmissionAssumption
  <2>2. path' = path /\ deps' = deps
    OBVIOUS
  <2> QED
    BY <1>1, <2>1, <2>2 DEF AdmissionInv, Wandering
<1>10. NamesJudged'
  BY DEF AdmissionInv, Judged, NamesJudged, graph, Producers
<1>11. Judged'
  BY <1>10 DEF Judged
<1> QED
  BY <1>4, <1>5, <1>6, <1>8, <1>9, <1>11 DEF AdmissionInv

LEMMA WalkKeeps ==
    ASSUME AdmissionInv, Walk
    PROVE  AdmissionInv'
<1>1. stage = "walk" /\ UNCHANGED <<graph, deps, kahn, required>>
  BY DEF Walk
<1>2. path \in Seq(Index) /\ deps \in [Index -> SUBSET Index]
  BY DEF AdmissionInv, TypeOK
<1>3. CASE /\ path = <<>> /\ UNCHANGED <<cycle, stage, errors>>
           /\ \E i \in Remaining : path' = <<i>>
  <2>1. PICK i \in Index : path' = <<i>>
    BY <1>3 DEF Remaining
  <2>2. path' = Append(path, i) /\ \A k \in 1..Len(path) : path[k] # i
    BY <1>3, <2>1
  <2> QED
    BY <1>1, <1>3, <2>2, WalkGoesOn
<1>4. CASE /\ path # <<>> /\ UNCHANGED <<cycle, stage, errors>>
           /\ \E p \in LeftProducers(path[Len(path)]) :
                 (\A k \in 1..Len(path) : path[k] # p) /\ path' = Append(path, p)
  <2>1. PICK p \in LeftProducers(path[Len(path)]) :
            (\A k \in 1..Len(path) : path[k] # p) /\ path' = Append(path, p)
    BY <1>4
  <2>2. p \in Index /\ p \in deps[path[Len(path)]]
    BY DEF LeftProducers, Remaining
  <2> QED
    BY <1>1, <1>4, <2>1, <2>2, WalkGoesOn
<1>5. CASE /\ path # <<>> /\ errors' = errors \cup {"cycle"}
           /\ stage' = "conclude" /\ UNCHANGED path
           /\ \E k \in 1..Len(path) :
                 path[k] \in LeftProducers(path[Len(path)]) /\ cycle' = Lap(k)
  <2>1. PICK k \in 1..Len(path) :
            path[k] \in LeftProducers(path[Len(path)]) /\ cycle' = Lap(k)
    BY <1>5
  <2>2. path[k] \in deps[path[Len(path)]]
    BY <2>1 DEF LeftProducers
  <2> QED
    BY <1>1, <1>5, <2>1, <2>2, WalkCloses
<1> QED
  BY <1>3, <1>4, <1>5 DEF Walk

(* The gates that wait on what they resolve, found by dependency_path.     *)
LEMMA CheckGatesKeeps ==
    ASSUME AdmissionInv, CheckGates
    PROVE  AdmissionInv'
<1> DEFINE Bad == {x \in gates : x[2] # Outside /\ WaitsFor(x[1], x[2])}
<1>1. /\ stage = "gates" /\ stage' = "conclude" /\ GraphTypes /\ Resolved
      /\ errors' = errors \cup {"gate_wait" : p \in Bad}
      /\ UNCHANGED <<graph, deps, path, cycle, required>>
      /\ UNCHANGED <<indegree, ready, order>> /\ Ordered' = Ordered
  BY DEF CheckGates, AdmissionInv, Kahn, kahn, Ordered
<1>2. ASSUME NEW p \in gates
      PROVE  /\ p \in Bad => Waiting(p)
             /\ NoSelf /\ Waiting(p) => p \in Bad
  <2>1. p[2] # Outside => p[1] \in Index /\ p[2] \in Index
    BY <1>1 DEF GraphTypes, Names
  <2>2. CASE p[2] = Outside
    BY <2>2 DEF Waiting
  <2>3. CASE p[2] # Outside
    <3>1. /\ DependsOn(p[1], p[2]) => Chains(p[1], p[2])
          /\ DependsOn(p[2], p[1]) => Chains(p[2], p[1])
      BY <1>1, <2>1, <2>3, DependsIsChain
    <3>2. NoSelf => /\ Chains(p[1], p[2]) => DependsOn(p[1], p[2])
                    /\ Chains(p[2], p[1]) => DependsOn(p[2], p[1])
      BY <1>1, <2>1, <2>3, ChainIsDepends
    <3> QED
      BY <2>3, <3>1, <3>2 DEF Waiting, WaitsFor
  <2> QED
    BY <2>2, <2>3
<1>3. Bad \subseteq gates
  OBVIOUS
<1> HIDE DEF Bad
<1>4. "gate_wait" \in errors' <=> Bad # {}
  BY <1>1 DEF AdmissionInv, Judged
<1>5. \A p : Waiting(p)' <=> Waiting(p)
  <2>1. \A c, p : Chains(c, p)' <=> Chains(c, p)
    BY <1>1 DEF Chains, Edge, graph
  <2> QED
    BY <2>1 DEF Waiting
<1>6. GatesJudged'
  <2>1. NoSelf' <=> NoSelf
    BY <1>1 DEF NoSelf, graph
  <2>2. gates' = gates
    BY <1>1 DEF graph
  <2>3. "gate_wait" \in errors' => \E p \in gates : Waiting(p)
    BY <1>2, <1>3, <1>4
  <2>4. NoSelf /\ (\E p \in gates : Waiting(p)) => "gate_wait" \in errors'
    BY <1>2, <1>3, <1>4
  <2> QED
    BY <1>5, <2>1, <2>2, <2>3, <2>4 DEF GatesJudged
<1>7. GraphTypes' /\ TypeOK'
  BY <1>1 DEF AdmissionInv, GraphTypes, TypeOK, graph, Errors
<1>8. Kahn'
  BY <1>1 DEF AdmissionInv, Kahn, Resolved, Producers, graph
<1>9. ProducersFirst' /\ CycleIsReal' /\ Wandering'
  <2>1. "cycle" \notin errors /\ "cycle" \notin errors'
    BY <1>1 DEF AdmissionInv, Wandering
  <2>2. ProducersFirst'
    BY <1>1 DEF AdmissionInv, ProducersFirst
  <2> QED
    BY <1>1, <2>1, <2>2 DEF AdmissionInv, CycleIsReal, Wandering
<1>10. NamesJudged'
  BY <1>1 DEF AdmissionInv, Judged, NamesJudged, graph, Producers
<1>11. Judged'
  BY <1>1, <1>6, <1>10 DEF AdmissionInv, Judged
<1> QED
  BY <1>7, <1>8, <1>9, <1>11 DEF AdmissionInv

LEMMA ConcludeKeeps ==
    ASSUME AdmissionInv, Conclude
    PROVE  AdmissionInv'
<1> DEFINE Reached == targets \cup {p \in Index : \E t \in targets : Chains(t, p)}
<1>1. /\ stage = "conclude" /\ GraphTypes /\ Resolved /\ NamesJudged
      /\ UNCHANGED <<graph, errors, deps, path, cycle>>
      /\ UNCHANGED <<indegree, ready, order>> /\ Ordered' = Ordered
      /\ "cycle" \in errors \/ (Len(order) >= N /\ GatesJudged)
  BY DEF Conclude, AdmissionInv, Kahn, kahn, Ordered, Judged
<1>2. \/ errors = {} /\ stage' = "admitted" /\ required' = Reached
      \/ errors # {} /\ stage' = "refused" /\ required' = required
  <2>1. errors = {} => NoSelf
    BY <1>1 DEF NamesJudged, NoSelf
  <2>2. errors = {} => Needed = Reached
    BY <1>1, <2>1, NeededIsReached DEF GraphTypes
  <2> QED
    BY <2>2 DEF Conclude
<1>3. Reached \subseteq Index
  BY <1>1 DEF GraphTypes
<1>4. Reached' = Reached
  <2>1. \A c, p : Chains(c, p)' <=> Chains(c, p)
    BY <1>1, JudgedStays
  <2>2. targets' = targets
    BY <1>1 DEF graph
  <2> QED
    BY <2>1, <2>2
<1> HIDE DEF Reached
<1>5. GraphTypes' /\ TypeOK'
  <2>1. required' \subseteq Index
    BY <1>2, <1>3 DEF AdmissionInv, TypeOK
  <2> QED
    BY <1>1, <1>2, <2>1 DEF AdmissionInv, GraphTypes, TypeOK, graph
<1>6. Kahn'
  BY <1>1, <1>2 DEF AdmissionInv, Kahn, Resolved, Producers, graph
<1>7. ProducersFirst' /\ CycleIsReal' /\ Wandering'
  <2>1. ProducersFirst'
    <3>1. order' = order /\ deps' = deps
      BY <1>1
    <3> QED
      BY <3>1 DEF AdmissionInv, ProducersFirst
  <2>2. CycleIsReal'
    BY <1>1 DEF AdmissionInv, CycleIsReal, Edge, graph
  <2> QED
    BY <1>1, <1>2, <2>1, <2>2 DEF AdmissionInv, Wandering
<1>8. Judged'
  <2>1. NamesJudged' /\ ("cycle" \in errors' \/ (Len(order') >= N /\ GatesJudged'))
    BY <1>1, JudgedStays
  <2>2. stage' = "admitted" => errors' = {} /\ required' = Reached'
    BY <1>1, <1>2, <1>4
  <2>3. stage' = "refused" => errors' # {}
    BY <1>1, <1>2
  <2> QED
    BY <1>2, <2>1, <2>2, <2>3 DEF Judged, Reached
<1> QED
  BY <1>5, <1>6, <1>7, <1>8 DEF AdmissionInv

LEMMA AdmissionKept == AdmissionInv /\ [Next]_vars => AdmissionInv'
<1> SUFFICES ASSUME AdmissionInv, [Next]_vars
             PROVE  AdmissionInv'
  OBVIOUS
<1>1. CASE UNCHANGED vars
  <2>1. /\ UNCHANGED <<graph, stage, errors, deps, path, cycle, required>>
        /\ UNCHANGED <<indegree, ready, order>> /\ Ordered' = Ordered
    BY <1>1 DEF vars, kahn, Ordered
  <2>2. GraphTypes' /\ TypeOK'
    BY <2>1 DEF AdmissionInv, GraphTypes, TypeOK, graph
  <2>3. Kahn'
    BY <2>1 DEF AdmissionInv, Kahn, Resolved, Producers, graph
  <2>4. ProducersFirst' /\ Wandering'
    BY <2>1 DEF AdmissionInv, ProducersFirst, Wandering
  <2>5. CycleIsReal'
    BY <2>1 DEF AdmissionInv, CycleIsReal, Edge, graph
  <2>6. Judged'
    <3>1. targets' = targets /\ \A c, p : Chains(c, p)' <=> Chains(c, p)
      BY <2>1, JudgedStays DEF graph
    <3> QED
      BY <2>1, <3>1, JudgedStays DEF AdmissionInv, Judged
  <2> QED
    BY <2>2, <2>3, <2>4, <2>5, <2>6 DEF AdmissionInv
<1> QED
  BY <1>1, ResolveKeeps, PopKeeps, ExhaustKeeps, WalkKeeps, CheckGatesKeeps,
     ConcludeKeeps DEF Next

(* The search has its types at every moment; in particular a node counts   *)
(* exactly the producers that were not ordered, so no count of the code's  *)
(* unsigned indegree ever wraps.                                           *)
THEOREM AdmissionTyped == Spec => []TypeOK
<1>1. AdmissionInv => TypeOK
  BY DEF AdmissionInv
<1> QED
  BY AdmissionInit, AdmissionKept, <1>1, PTL DEF Spec

(* The order `admit` computes is the dependency order the documentation    *)
(* promises, for every graph.                                              *)
THEOREM OrderIsTopological == Spec => []ProducersFirst
<1>1. AdmissionInv => ProducersFirst
  BY DEF AdmissionInv
<1> QED
  BY AdmissionInit, AdmissionKept, <1>1, PTL DEF Spec

(* The cycle an error of `admit` reports is one of the written graph.      *)
THEOREM ReportedCycleIsReal == Spec => []CycleIsReal
<1>1. AdmissionInv => CycleIsReal
  BY DEF AdmissionInv
<1> QED
  BY AdmissionInit, AdmissionKept, <1>1, PTL DEF Spec

-----------------------------------------------------------------------------
(* What is admitted.                                                       *)

Place(c) == CHOOSE k \in 1..N : order[k] = c

(* Every node of a graph that could be ordered has one place, and its      *)
(* producers have earlier ones.                                            *)
LEMMA Places ==
    ASSUME AdmissionInv, stage # "resolve", Len(order) >= N
    PROVE  /\ Len(order) = N /\ N \in Nat
           /\ \A c \in Index : Place(c) \in 1..N /\ order[Place(c)] = c
           /\ \A c \in Index : \A p \in deps[c] : p \in Index /\ Place(p) < Place(c)
<1>1. /\ order \in Seq(Index) /\ ProducersFirst /\ Resolved /\ N \in Nat
      /\ \A j, k \in 1..Len(order) : order[j] = order[k] => j = k
  BY AdmissionAssumption DEF AdmissionInv, TypeOK, Kahn, ProducersFirst
<1>2. Len(order) = N /\ \A c \in Index : \E k \in 1..N : order[k] = c
  <2>1. Len(order) <= N /\ Len(order) \in Nat
    BY <1>1, NoneTwice
  <2>2. Len(order) = N
    BY <1>1, <2>1
  <2> QED
    BY <1>1, <2>2, NoneTwice
<1>3. \A c \in Index : Place(c) \in 1..N /\ order[Place(c)] = c
  BY <1>2 DEF Place
<1>4. ASSUME NEW c \in Index, NEW p \in deps[c]
      PROVE  p \in Index /\ Place(p) < Place(c)
  <2>1. p \in Index
    BY <1>1 DEF Resolved, Producers
  <2>2. PICK j \in 1..(Place(c) - 1) : order[j] = p
    BY <1>1, <1>2, <1>3 DEF ProducersFirst
  <2>3. j \in 1..N /\ Place(c) \in 1..N
    BY <1>1, <1>3
  <2>4. Place(p) = j
    BY <1>1, <1>2, <1>3, <2>1, <2>2, <2>3
  <2> QED
    BY <2>1, <2>3, <2>4
<1> QED
  BY <1>1, <1>2, <1>3, <1>4

(* A graph that could be ordered has no cycle: along a chain the place in  *)
(* the order goes down, so that no chain comes back.                       *)
LEMMA OrderedIsAcyclic ==
    ASSUME AdmissionInv, stage # "resolve", Len(order) >= N, NoSelf
    PROVE  Len(order) = N /\ ~Cyclic
<1>1. Resolved /\ N \in Nat
  BY AdmissionAssumption DEF AdmissionInv, Kahn
<1>2. Len(order) = N
  BY Places
<1>3. \A c \in Index : Place(c) \in 1..N
  BY Places
<1>4. \A c \in Index : \A p \in deps[c] : Place(p) < Place(c)
  BY Places
<1>5. ~Cyclic
  <2> SUFFICES ASSUME NEW c \in Index, Chains(c, c) PROVE FALSE
    BY DEF Cyclic
  <2>1. PICK len \in 1..N : \E s \in [1..(len + 1) -> Index] :
            IsWalk(len, s) /\ s[1] = c /\ s[len + 1] = c
    BY <1>1, ChainIsWalk
  <2>2. PICK s \in [1..(len + 1) -> Index] :
            IsWalk(len, s) /\ s[1] = c /\ s[len + 1] = c
    BY <2>1
  <2> DEFINE T == {k \in Nat : k \in 2..(len + 1) /\ ~(Place(s[k]) < Place(c))}
  <2>3. len + 1 \in T
    <3>1. len \in Nat /\ len + 1 \in Nat /\ len + 1 \in 2..(len + 1)
      BY <1>1
    <3>2. ~(Place(s[len + 1]) < Place(c))
      BY <1>3, <2>2
    <3> QED
      BY <3>1, <3>2
  <2>4. PICK k \in T : \A m \in T : k <= m
    <3>1. T \subseteq Nat
      OBVIOUS
    <3> HIDE DEF T
    <3> QED
      BY <2>3, <3>1, LeastNat
  <2>5. PICK j \in 1..len : k = j + 1
    <3>1. k - 1 \in 1..len /\ k = (k - 1) + 1
      BY <2>4
    <3> QED
      BY <3>1
  <2>6. /\ s[j] \in Index /\ s[k] \in Index /\ Place(s[j]) \in Nat
        /\ Place(s[k]) \in Nat /\ Place(c) \in Nat
    <3>1. j \in 1..(len + 1) /\ j + 1 \in 1..(len + 1)
      BY <1>1
    <3> QED
      BY <1>3, <2>2, <2>5, <3>1
  <2>7. Place(s[k]) < Place(s[j])
    BY <1>4, <2>2, <2>5, <2>6 DEF IsWalk
  <2>8. j = 1 \/ Place(s[j]) < Place(c)
    <3>1. j \in Nat /\ j < k
      BY <1>1, <2>5
    <3>2. j # 1 => j \in 2..(len + 1)
      BY <1>1
    <3>3. j \notin T
      BY <2>4, <3>1
    <3> QED
      BY <3>1, <3>2, <3>3
  <2>9. Place(s[k]) < Place(c)
    BY <2>2, <2>6, <2>7, <2>8
  <2> QED
    BY <2>4, <2>9
<1> QED
  BY <1>2, <1>5

(* A cycle an error shows is a chain that comes back.                      *)
LEMMA CycleIsCyclic ==
    ASSUME AdmissionInv, "cycle" \in errors
    PROVE  Cyclic
<1> DEFINE n == Len(cycle)
<1>1. /\ cycle \in Seq(Index) /\ cycle # <<>> /\ n <= N
      /\ \A k \in 1..n : Edge(cycle[k], cycle[IF k = n THEN 1 ELSE k + 1])
  BY DEF AdmissionInv, TypeOK, Wandering, CycleIsReal
<1>2. n \in 1..N /\ N \in Nat
  BY <1>1, AdmissionAssumption
<1> DEFINE s == [k \in 1..(n + 1) |-> IF k = n + 1 THEN cycle[1] ELSE cycle[k]]
<1>3. s \in [1..(n + 1) -> Index] /\ s[1] = cycle[1] /\ s[n + 1] = cycle[1]
  <2>1. \A k \in 1..n : cycle[k] \in Index
    BY <1>1
  <2> HIDE DEF n
  <2> QED
    BY <1>2, <2>1
<1>4. ASSUME NEW k \in 1..n PROVE Edge(s[k], s[k + 1])
  <2>1. s[k] = cycle[k] /\ s[k + 1] = cycle[IF k = n THEN 1 ELSE k + 1]
    <3> HIDE DEF n
    <3> QED
      BY <1>2
  <2> HIDE DEF s, n
  <2> QED
    BY <1>1, <2>1
<1>5. cycle[1] \in Index
  BY <1>1, <1>2
<1> HIDE DEF s, n
<1>6. Chains(cycle[1], cycle[1])
  BY <1>2, <1>3, <1>4 DEF Chains
<1> QED
  BY <1>5, <1>6 DEF Cyclic

(* One name is enough for a chain.                                         *)
LEMMA EdgeIsChain ==
    ASSUME NEW c \in Index, NEW p \in Index, Edge(c, p)
    PROVE  Chains(c, p)
<1> DEFINE s == [k \in 1..(1 + 1) |-> IF k = 1 THEN c ELSE p]
<1>1. /\ s \in [1..(1 + 1) -> Index] /\ s[1] = c /\ s[1 + 1] = p
      /\ \A k \in 1..1 : s[k] = c /\ s[k + 1] = p
  OBVIOUS
<1>2. 1 \in 1..N
  BY AdmissionAssumption DEF Index
<1> HIDE DEF s
<1> QED
  BY <1>1, <1>2 DEF Chains

(* What AdmitsExactly asks of a graph.                                     *)
Sound ==
    /\ ~Cyclic
    /\ \A c \in Index : Outside \notin declared[c]
    /\ \A p \in proofs : p[2] # Outside /\ Edge(p[1], p[2])
    /\ \A p \in gates :
         /\ p[2] # Outside /\ p[1] # p[2]
         /\ ~Chains(p[1], p[2]) /\ ~Chains(p[2], p[1])

LEMMA CleanIsSound ==
    ASSUME AdmissionInv, stage = "admitted"
    PROVE  Sound /\ Len(order) = N
<1>1. /\ errors = {} /\ NamesJudged /\ GraphTypes
      /\ Len(order) >= N /\ GatesJudged
  BY DEF AdmissionInv, Judged
<1>2. NoSelf
  BY <1>1 DEF NamesJudged, NoSelf
<1>3. ~Cyclic /\ Len(order) = N
  BY <1>1, <1>2, OrderedIsAcyclic
<1>4. \A c \in Index : Outside \notin declared[c]
  BY <1>1 DEF NamesJudged
<1>5. \A p \in proofs : p[2] # Outside /\ Edge(p[1], p[2])
  <2> SUFFICES ASSUME NEW p \in proofs PROVE p[2] # Outside /\ Edge(p[1], p[2])
    OBVIOUS
  <2>1. p[2] # Outside /\ p[2] \in Producers(p[1])
    BY <1>1 DEF NamesJudged
  <2> QED
    BY <2>1 DEF Producers, Edge
<1>6. ASSUME NEW p \in gates
      PROVE  /\ p[2] # Outside /\ p[1] # p[2]
             /\ ~Chains(p[1], p[2]) /\ ~Chains(p[2], p[1])
  <2>1. p[2] # Outside
    BY <1>1 DEF NamesJudged
  <2>2. ~Waiting(p)
    BY <1>1, <1>2 DEF GatesJudged
  <2> QED
    BY <2>1, <2>2 DEF Waiting
<1> QED
  BY <1>3, <1>4, <1>5, <1>6 DEF Sound

LEMMA SoundIsClean ==
    ASSUME AdmissionInv, stage = "refused"
    PROVE  ~Sound
<1> SUFFICES ASSUME Sound PROVE FALSE
  OBVIOUS
<1>1. /\ errors # {} /\ errors \subseteq Errors /\ NamesJudged /\ GraphTypes
      /\ "cycle" \in errors \/ GatesJudged
  BY DEF AdmissionInv, Judged, TypeOK
<1>2. "cycle" \notin errors
  BY CycleIsCyclic DEF Sound
<1>3. NoSelf
  <2> SUFFICES ASSUME NEW c \in Index, c \in declared[c] PROVE FALSE
    BY DEF NoSelf
  <2>1. Chains(c, c)
    BY EdgeIsChain DEF Edge
  <2> QED
    BY <2>1 DEF Sound, Cyclic
<1>4. "self" \notin errors /\ "unresolved" \notin errors
      /\ "unresolved_proof" \notin errors /\ "gate_target" \notin errors
  <2>1. "self" \notin errors
    BY <1>1, <1>3 DEF NamesJudged, NoSelf
  <2>2. "unresolved" \notin errors
    BY <1>1 DEF NamesJudged, Sound
  <2>3. "unresolved_proof" \notin errors
    BY <1>1 DEF NamesJudged, Sound
  <2>4. "gate_target" \notin errors
    BY <1>1 DEF NamesJudged, Sound
  <2> QED
    BY <2>1, <2>2, <2>3, <2>4
<1>5. "hidden_proof" \notin errors
  <2> SUFFICES ASSUME NEW p \in proofs, p[2] \notin Producers(p[1]) PROVE FALSE
    BY <1>1 DEF NamesJudged
  <2>1. Edge(p[1], p[2]) /\ p[1] \in Index
    BY <1>1 DEF Sound, GraphTypes
  <2> QED
    BY <1>3, <2>1 DEF Producers, Edge, NoSelf
<1>6. "gate_wait" \notin errors
  <2> SUFFICES ASSUME NEW p \in gates, Waiting(p) PROVE FALSE
    BY <1>1, <1>2 DEF GatesJudged
  <2> QED
    BY DEF Waiting, Sound
<1> QED
  BY <1>1, <1>2, <1>4, <1>5, <1>6 DEF Errors

(* `admit` admits a graph exactly when nothing in it waits for itself, for *)
(* every number of nodes and every way to write the graph; what it orders  *)
(* is then all of it, and what it requires is what the targets depend on.  *)
THEOREM AdmissionIsExact == Spec => []AdmitsExactly
<1>1. AdmissionInv => AdmitsExactly
  <2> SUFFICES ASSUME AdmissionInv PROVE AdmitsExactly
    OBVIOUS
  <2>1. ASSUME stage = "admitted"
        PROVE  /\ Sound /\ Len(order) = N
               /\ required = targets \cup {p \in Index : \E t \in targets : Chains(t, p)}
    BY <2>1, CleanIsSound DEF AdmissionInv, Judged
  <2>2. ASSUME stage = "refused"
        PROVE  ~Sound
    BY <2>2, SoundIsClean
  <2>3. stage = "admitted" => ~Cyclic
    BY <2>1 DEF Sound
  <2>4. stage \in {"admitted", "refused"} => (stage = "admitted" <=> Sound)
    BY <2>1, <2>2
  <2> QED
    BY <2>1, <2>3, <2>4 DEF AdmitsExactly, Sound
<1> QED
  BY AdmissionInit, AdmissionKept, <1>1, PTL DEF Spec

(* Nodes can be numbered so that each comes after all it declares to       *)
(* depend on: what Ledger assumes of the graph of a run.                   *)
Ranked ==
    \E rank \in [Index -> Nat] :
        /\ \A m, n \in Index : rank[m] = rank[n] => m = n
        /\ \A n \in Index : \A d \in declared[n] : d \in Index /\ rank[d] < rank[n]

(* A graph that `admit` admits can be ranked, so a run that was created    *)
(* from it satisfies what the scheduler's theorems assume.                 *)
THEOREM AdmittedIsRanked == Spec => [](stage = "admitted" => Ranked)
<1>1. AdmissionInv => (stage = "admitted" => Ranked)
  <2> SUFFICES ASSUME AdmissionInv, stage = "admitted" PROVE Ranked
    OBVIOUS
  <2>1. Len(order) >= N /\ stage # "resolve" /\ errors = {} /\ NamesJudged /\ Resolved
    BY DEF AdmissionInv, Judged, Kahn
  <2>2. /\ N \in Nat
        /\ \A c \in Index : Place(c) \in 1..N /\ order[Place(c)] = c
        /\ \A c \in Index : \A p \in deps[c] : p \in Index /\ Place(p) < Place(c)
    BY <2>1, Places
  <2>3. \A c \in Index : declared[c] = deps[c]
    <3>1. declared \in [Index -> SUBSET Dependable]
      BY DEF AdmissionInv, GraphTypes
    <3>2. \A c \in Index : declared[c] \subseteq Index /\ c \notin declared[c]
      BY <2>1, <3>1, AdmissionAssumption DEF NamesJudged, Names
    <3> QED
      BY <2>1, <3>2 DEF Resolved, Producers
  <2> DEFINE rank == [c \in Index |-> Place(c)]
  <2>4. rank \in [Index -> Nat] /\ \A c \in Index : rank[c] = Place(c)
    BY <2>2
  <2> HIDE DEF rank
  <2>5. \A m, n \in Index : rank[m] = rank[n] => m = n
    BY <2>2, <2>4
  <2>6. \A n \in Index : \A d \in declared[n] : d \in Index /\ rank[d] < rank[n]
    BY <2>2, <2>3, <2>4
  <2> QED
    BY <2>4, <2>5, <2>6 DEF Ranked
<1> QED
  BY AdmissionInit, AdmissionKept, <1>1, PTL DEF Spec
=============================================================================
