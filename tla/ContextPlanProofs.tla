--------------------------- MODULE ContextPlanProofs ---------------------------
(***************************************************************************)
(* What the planner promises for any units, questions, candidates, weights *)
(* and limit: the groups are the components of the grouping edges, first   *)
(* fit leaves no two bins that fit into one, no candidate is lost, a       *)
(* bundle may be dispatched exactly if its context is sufficient, and the  *)
(* checks of a result accept the plan and nothing else that is nearly one. *)
(* Before that, sorting by keys and folding, which retrieval does as well. *)
(***************************************************************************)
EXTENDS ContextPlan, SequenceTheorems, FiniteSetTheorems, WellFoundedInduction, TLAPS

-----------------------------------------------------------------------------
(* Numbers.                                                                *)

\* A set of numbers that is not empty has a least one.
LEMMA LeastNumber ==
  ASSUME NEW S, S \subseteq Nat, S # {}
  PROVE  \E x \in S : \A y \in S : x <= y
<1>1. PICK x \in S : \A y \in S : ~ (<<y, x>> \in OpToRel(<, Nat))
  BY NatLessThanWellFounded, WFMin
<1>2. \A y \in S : ~ (y < x)
  BY <1>1, Zenon DEF OpToRel
<1> QED BY <1>2

\* One that has a bound has a greatest one.
LEMMA GreatestNumber ==
  ASSUME NEW n \in Nat, NEW S, S \subseteq 0 .. n, S # {}
  PROVE  \E x \in S : \A y \in S : y <= x
<1> DEFINE T == {n - x : x \in S}
<1>1. T \subseteq Nat /\ T # {}
  <2>1. \A x \in S : x \in 0 .. n /\ n - x \in Nat
    OBVIOUS
  <2>2. PICK x \in S : TRUE
    OBVIOUS
  <2>3. n - x \in T
    OBVIOUS
  <2> QED BY <2>1, <2>3
<1>2. PICK t \in T : \A y \in T : t <= y
  <2> HIDE DEF T
  <2> QED BY <1>1, LeastNumber
<1>3. PICK x \in S : t = n - x
  OBVIOUS
<1>4. \A y \in S : n - x <= n - y
  BY <1>2, <1>3
<1> QED BY <1>3, <1>4

-----------------------------------------------------------------------------
(* Sorting by keys that are lists of numbers.                              *)

\* n numbers
IsKey(s, n) == DOMAIN s = 1 .. n /\ \A i \in 1 .. n : s[i] \in Int

\* Keys that differ are in one order or the other, and the order is one.
LEMMA KeysAreOrdered ==
  ASSUME NEW n \in Nat, NEW s, NEW t, IsKey(s, n), IsKey(t, n), \E i \in 1 .. n : s[i] # t[i]
  PROVE  Precedes(s, t) \/ Precedes(t, s)
<1>1. PICK i \in 1 .. n : s[i] # t[i] /\ \A j \in 1 .. n : s[j] # t[j] => i <= j
  <2> DEFINE P == {k \in 1 .. n : s[k] # t[k]}
  <2>1. P \subseteq Nat /\ P # {}
    OBVIOUS
  <2>2. PICK i \in P : \A j \in P : i <= j
    BY <2>1, LeastNumber
  <2> QED BY <2>2
<1>2. \A j \in 1 .. i - 1 : s[j] = t[j]
  BY <1>1
<1>3. s[i] \in Int /\ t[i] \in Int /\ i \in DOMAIN s /\ i \in DOMAIN t
  BY DEF IsKey
<1>4. s[i] < t[i] \/ t[i] < s[i]
  BY <1>1, <1>3
<1> QED BY <1>2, <1>3, <1>4 DEF Precedes

\* The order of keys is transitive.
LEMMA KeysAreTransitive ==
  ASSUME NEW n \in Nat, NEW s, NEW t, NEW u, IsKey(s, n), IsKey(t, n), IsKey(u, n),
         Precedes(s, t), Precedes(t, u)
  PROVE  Precedes(s, u)
<1>1. PICK i \in 1 .. n : s[i] < t[i] /\ \A m \in 1 .. i - 1 : s[m] = t[m]
  BY DEF Precedes, IsKey
<1>2. PICK j \in 1 .. n : t[j] < u[j] /\ \A m \in 1 .. j - 1 : t[m] = u[m]
  BY DEF Precedes, IsKey
<1>3. \A m \in 1 .. n : s[m] \in Int /\ t[m] \in Int /\ u[m] \in Int
  BY DEF IsKey
<1>4. PICK k \in {i, j} : k <= i /\ k <= j
  OBVIOUS
<1>5. s[k] < u[k]
  BY <1>1, <1>2, <1>3, <1>4
<1>6. \A m \in 1 .. k - 1 : s[m] = u[m]
  BY <1>1, <1>2, <1>4
<1>7. k \in DOMAIN s
  BY DEF IsKey
<1> QED BY <1>5, <1>6, <1>7 DEF Precedes

\* No key precedes itself.
LEMMA KeysAreStrict ==
  ASSUME NEW n \in Nat, NEW s, IsKey(s, n)
  PROVE  ~Precedes(s, s)
BY DEF Precedes, IsKey

\* keys of one length, no two of which are equal
Keyed(key) ==
  /\ IsFiniteSet(DOMAIN key)
  /\ \E n \in Nat : /\ \A x \in DOMAIN key : IsKey(key[x], n)
                    /\ \A x, y \in DOMAIN key : x # y => \E i \in 1 .. n : key[x][i] # key[y][i]

\* Positions are numbers from 1, and each is that of one element.
LEMMA PositionsList ==
  ASSUME NEW key, Keyed(key)
  PROVE  /\ DOMAIN Positions(key) = DOMAIN key
         /\ Cardinality(DOMAIN key) \in Nat
         /\ \A x \in DOMAIN key : Positions(key)[x] \in 1 .. Cardinality(DOMAIN key)
         /\ \A x, y \in DOMAIN key : Positions(key)[x] = Positions(key)[y] => x = y
         /\ \A k \in 1 .. Cardinality(DOMAIN key) : \E x \in DOMAIN key : Positions(key)[x] = k
<1> DEFINE D == DOMAIN key
           Below(x) == {y \in D : Precedes(key[y], key[x])}
           rank == Positions(key)
           N == Cardinality(D)
<1>1. PICK n \in Nat : /\ \A x \in D : IsKey(key[x], n)
                       /\ \A x, y \in D : x # y => \E i \in 1 .. n : key[x][i] # key[y][i]
  BY DEF Keyed
<1>2. IsFiniteSet(D) /\ N \in Nat
  BY FS_CardinalityType DEF Keyed
<1>3. DOMAIN rank = D /\ \A x \in D : rank[x] = 1 + Cardinality(Below(x))
  BY DEF Positions
<1>4. ASSUME NEW x \in D
      PROVE  /\ IsFiniteSet(Below(x)) /\ Cardinality(Below(x)) \in Nat /\ Cardinality(Below(x)) < N
  <2>1. x \notin Below(x)
    BY <1>1, KeysAreStrict
  <2>2. Below(x) \in SUBSET D /\ Below(x) # D
    BY <2>1
  <2> HIDE DEF D, Below
  <2>3. IsFiniteSet(Below(x)) /\ Cardinality(Below(x)) <= Cardinality(D)
        /\ (Cardinality(Below(x)) = Cardinality(D) => Below(x) = D)
    BY <1>2, <2>2, FS_Subset
  <2> QED BY <1>2, <2>2, <2>3, FS_CardinalityType
<1>5. \A x \in D : rank[x] \in 1 .. N
  <2> SUFFICES ASSUME NEW x \in D PROVE rank[x] \in 1 .. N
    OBVIOUS
  <2> HIDE DEF D, Below, rank, N
  <2> QED BY <1>2, <1>3, <1>4
<1>6. ASSUME NEW x \in D, NEW y \in D, Precedes(key[x], key[y]) PROVE rank[x] # rank[y]
  <2>1. Below(x) \subseteq Below(y)
    <3> SUFFICES ASSUME NEW z \in D, Precedes(key[z], key[x]) PROVE Precedes(key[z], key[y])
      OBVIOUS
    <3> QED BY <1>1, <1>6, KeysAreTransitive
  <2>2. x \in Below(y) /\ x \notin Below(x)
    BY <1>1, <1>6, KeysAreStrict
  <2> HIDE DEF Below, D, rank
  <2>3. Cardinality(Below(x)) # Cardinality(Below(y))
    BY <1>4, <2>1, <2>2, FS_Subset
  <2> QED BY <1>3, <1>4, <2>3
<1>7. ASSUME NEW x \in D, NEW y \in D, rank[x] = rank[y] PROVE x = y
  <2> SUFFICES ASSUME x # y PROVE FALSE
    OBVIOUS
  <2>1. Precedes(key[x], key[y]) \/ Precedes(key[y], key[x])
    BY <1>1, KeysAreOrdered
  <2> QED BY <1>6, <1>7, <2>1
<1>8. \A k \in 1 .. N : \E x \in D : rank[x] = k
  <2> HIDE DEF D, rank, N
  <2>1. rank = [x \in D |-> rank[x]]
    BY DEF rank, Positions, D
  <2>2. rank \in [D -> 1 .. N]
    BY <1>3, <1>5, <2>1
  <2>3. rank \in Injection(D, 1 .. N)
    BY <1>7, <2>2 DEF Injection, IsInjective
  <2>4. IsFiniteSet(1 .. N) /\ Cardinality(1 .. N) = N
    BY <1>2, FS_Interval
  <2>5. rank \in Surjection(D, 1 .. N)
    BY <2>3, <2>4, FS_Injection DEF N
  <2> QED BY <2>5 DEF Surjection
<1> HIDE DEF N, rank, D
<1> QED BY <1>2, <1>3, <1>5, <1>7, <1>8 DEF N, rank, D

\* a rank that numbers the elements of a set
Numbers(rank) ==
  /\ IsFiniteSet(DOMAIN rank) /\ Cardinality(DOMAIN rank) \in Nat
  /\ \A x \in DOMAIN rank : rank[x] \in 1 .. Cardinality(DOMAIN rank)
  /\ \A x, y \in DOMAIN rank : rank[x] = rank[y] => x = y
  /\ \A k \in 1 .. Cardinality(DOMAIN rank) : \E x \in DOMAIN rank : rank[x] = k

\* Sorting by keys numbers what has a key, each with a number of its own.
LEMMA PositionsNumber ==
  ASSUME NEW key, Keyed(key)
  PROVE  Numbers(Positions(key)) /\ DOMAIN Positions(key) = DOMAIN key
BY PositionsList DEF Numbers, Keyed

\* In the order of a rank every element stands once, in its place.
LEMMA OrderLists ==
  ASSUME NEW rank, Numbers(rank)
  PROVE  /\ Len(InOrder(rank)) = Cardinality(DOMAIN rank)
         /\ DOMAIN InOrder(rank) = 1 .. Cardinality(DOMAIN rank)
         /\ \A k \in 1 .. Cardinality(DOMAIN rank) :
              InOrder(rank)[k] \in DOMAIN rank /\ rank[InOrder(rank)[k]] = k
         /\ \A x \in DOMAIN rank : InOrder(rank)[rank[x]] = x
<1> DEFINE N == Cardinality(DOMAIN rank)
           placed(k) == CHOOSE x \in DOMAIN rank : rank[x] = k
<1>1. N \in Nat /\ \A k \in 1 .. N : placed(k) \in DOMAIN rank /\ rank[placed(k)] = k
  BY DEF Numbers
<1>2. InOrder(rank) = [k \in 1 .. N |-> placed(k)]
  BY DEF InOrder
<1> HIDE DEF placed, N
<1>3. Len(InOrder(rank)) = N
  BY <1>1, <1>2
<1>4. \A x \in DOMAIN rank : rank[x] \in 1 .. N /\ InOrder(rank)[rank[x]] = x
  BY <1>1, <1>2 DEF Numbers, N
<1> QED BY <1>1, <1>2, <1>3, <1>4 DEF N

\* A key that precedes another has the earlier position.
LEMMA PrecedingIsEarlier ==
  ASSUME NEW key, Keyed(key), NEW x \in DOMAIN key, NEW y \in DOMAIN key, Precedes(key[x], key[y])
  PROVE  Positions(key)[x] < Positions(key)[y]
<1> DEFINE D == DOMAIN key
           Below(z) == {y1 \in D : Precedes(key[y1], key[z])}
<1>1. PICK n \in Nat : /\ \A z \in D : IsKey(key[z], n)
                       /\ \A y1, z \in D : y1 # z => \E i \in 1 .. n : key[y1][i] # key[z][i]
  BY DEF Keyed
<1>2. Positions(key)[x] = 1 + Cardinality(Below(x)) /\ Positions(key)[y] = 1 + Cardinality(Below(y))
  BY DEF Positions
<1>3. Below(x) \subseteq Below(y)
  <2> SUFFICES ASSUME NEW z \in D, Precedes(key[z], key[x]) PROVE Precedes(key[z], key[y])
    OBVIOUS
  <2> QED BY <1>1, KeysAreTransitive
<1>4. x \in Below(y) /\ x \notin Below(x)
  BY <1>1, KeysAreStrict
<1>5. IsFiniteSet(Below(y))
  <2>1. IsFiniteSet(D) /\ Below(y) \subseteq D
    BY DEF Keyed
  <2> HIDE DEF D, Below
  <2> QED BY <2>1, FS_Subset
<1> HIDE DEF D, Below
<1>6. Cardinality(Below(x)) <= Cardinality(Below(y)) /\ Cardinality(Below(x)) # Cardinality(Below(y))
  BY <1>3, <1>4, <1>5, FS_Subset
<1>7. Cardinality(Below(x)) \in Nat /\ Cardinality(Below(y)) \in Nat
  BY <1>3, <1>5, FS_Subset, FS_CardinalityType
<1> QED BY <1>2, <1>6, <1>7

\* And only such a key has.
LEMMA EarlierPrecedes ==
  ASSUME NEW key, Keyed(key), NEW x \in DOMAIN key, NEW y \in DOMAIN key
  PROVE  Positions(key)[x] < Positions(key)[y] <=> Precedes(key[x], key[y])
<1>1. PICK n \in Nat : /\ \A z \in DOMAIN key : IsKey(key[z], n)
                       /\ \A y1, z \in DOMAIN key : y1 # z => \E i \in 1 .. n : key[y1][i] # key[z][i]
  BY DEF Keyed
<1>2. Positions(key)[x] \in Int /\ Positions(key)[y] \in Int
  BY PositionsList
<1>3. CASE x = y
  BY <1>1, <1>2, <1>3, KeysAreStrict
<1>4. CASE x # y
  <2>1. Precedes(key[x], key[y]) \/ Precedes(key[y], key[x])
    BY <1>1, <1>4, KeysAreOrdered
  <2>2. Precedes(key[x], key[y]) => Positions(key)[x] < Positions(key)[y]
    BY PrecedingIsEarlier
  <2>3. Precedes(key[y], key[x]) => Positions(key)[y] < Positions(key)[x]
    BY PrecedingIsEarlier
  <2>4. ~(Positions(key)[x] < Positions(key)[y] /\ Positions(key)[y] < Positions(key)[x])
    BY <1>2
  <2> QED BY <2>1, <2>2, <2>3, <2>4
<1> QED BY <1>3, <1>4

-----------------------------------------------------------------------------
(* Folding over the numbers from 1.                                        *)

\* f is the fold of w, a step for each of the numbers from 1 to n
IsFold(w, base, n, f) ==
  \A s \in SUBSET (1 .. n) : f[s] = IF s = {} THEN base ELSE w[Max(s)][f[s \ {Max(s)}]]

\* The greatest of some numbers is one of them.
LEMMA MaxIn ==
  ASSUME NEW n \in Nat, NEW s \in SUBSET (1 .. n), s # {}
  PROVE  Max(s) \in s /\ (n \in s => Max(s) = n)
<1>1. s \subseteq 0 .. n
  OBVIOUS
<1>2. PICK x \in s : \A y \in s : y <= x
  BY <1>1, GreatestNumber
<1>3. x \in s /\ \A y \in s : x >= y
  BY <1>1, <1>2
<1>4. \E z \in s : \A y \in s : z >= y
  BY <1>3
<1> DEFINE m == CHOOSE z \in s : \A y \in s : z >= y
<1>5. m \in s /\ \A y \in s : m >= y
  BY <1>4, Zenon
<1>6. Max(s) = m
  BY DEF Max
<1> HIDE DEF m
<1>7. m \in 1 .. n /\ (n \in s => m >= n)
  BY <1>5
<1> QED BY <1>5, <1>6, <1>7

\* The numbers up to n without the greatest are those up to n - 1.
LEMMA UpTo ==
  ASSUME NEW n \in Nat \ {0}
  PROVE  1 .. n # {} /\ Max(1 .. n) = n /\ (1 .. n) \ {n} = 1 .. n - 1
<1>1. n \in 1 .. n /\ (1 .. n) \ {n} = 1 .. n - 1
  OBVIOUS
<1> QED BY <1>1, MaxIn

\* There is a fold: it is found by induction on how far the steps go.
LEMMA FoldExists ==
  ASSUME NEW N \in Nat, NEW V, NEW base \in V, NEW w \in [1 .. N -> [V -> V]]
  PROVE  \E f \in [SUBSET (1 .. N) -> V] : IsFold(w, base, N, f)
<1> DEFINE Some(n) == \E f \in [SUBSET (1 .. n) -> V] : IsFold(w, base, n, f)
           B == {n \in 0 .. N : ~Some(n)}
<1> SUFFICES ASSUME B # {} PROVE FALSE
  <2>1. N \in 0 .. N
    OBVIOUS
  <2> HIDE DEF Some
  <2>2. B = {} => Some(N)
    BY <2>1
  <2> QED BY <2>2 DEF Some
<1>1. PICK n \in B : \A m \in B : n <= m
  <2>1. B \subseteq Nat
    OBVIOUS
  <2> HIDE DEF B
  <2> QED BY <2>1, LeastNumber
<1>2. n \in 0 .. N /\ ~ \E f \in [SUBSET (1 .. n) -> V] : IsFold(w, base, n, f)
  OBVIOUS
<1> HIDE DEF B
<1>3. n # 0
  <2> DEFINE f == [s \in SUBSET (1 .. 0) |-> base]
  <2>1. f \in [SUBSET (1 .. 0) -> V]
    OBVIOUS
  <2>2. IsFold(w, base, 0, f)
    <3>1. \A s \in SUBSET (1 .. 0) : s = {}
      OBVIOUS
    <3> QED BY <3>1 DEF IsFold
  <2> QED BY <1>2, <2>1, <2>2
<1>4. n - 1 \in 0 .. N /\ n - 1 \notin B
  <2>1. n - 1 \in 0 .. N /\ ~(n <= n - 1)
    BY <1>2, <1>3
  <2> QED BY <1>1, <2>1
<1>5. PICK f \in [SUBSET (1 .. n - 1) -> V] : IsFold(w, base, n - 1, f)
  BY <1>4 DEF B
<1> DEFINE h == [s \in SUBSET (1 .. n) |-> IF n \in s THEN w[n][f[s \ {n}]] ELSE f[s]]
<1>6. ASSUME NEW s \in SUBSET (1 .. n)
      PROVE  /\ s \ {n} \in SUBSET (1 .. n - 1)
             /\ n \notin s => s \in SUBSET (1 .. n - 1)
  BY <1>2
<1>7. ASSUME NEW s \in SUBSET (1 .. n) PROVE h[s] \in V
  BY <1>2, <1>3, <1>6
<1>8. h \in [SUBSET (1 .. n) -> V]
  BY <1>7
<1>9. ASSUME NEW s \in SUBSET (1 .. n)
      PROVE  h[s] = IF s = {} THEN base ELSE w[Max(s)][h[s \ {Max(s)}]]
  <2>1. CASE n \in s
    <3>1. Max(s) = n /\ s # {}
      BY <1>2, <2>1, MaxIn
    <3>2. h[s] = w[n][f[s \ {n}]] /\ h[s \ {n}] = f[s \ {n}]
      BY <2>1
    <3> QED BY <3>1, <3>2
  <2>2. CASE n \notin s /\ s # {}
    <3>1. s \in SUBSET (1 .. n - 1) /\ n - 1 \in Nat /\ n \in Nat
      BY <1>2, <1>3, <1>6, <2>2
    <3>2. Max(s) \in s
      BY <2>2, <3>1, MaxIn
    <3>3. f[s] = w[Max(s)][f[s \ {Max(s)}]]
      BY <1>5, <2>2, <3>1 DEF IsFold
    <3>4. h[s] = f[s] /\ h[s \ {Max(s)}] = f[s \ {Max(s)}]
      BY <2>2
    <3> QED BY <2>2, <3>3, <3>4
  <2>3. CASE s = {}
    <3>1. h[{}] = f[{}] /\ f[{}] = base
      BY <1>5 DEF IsFold
    <3> QED BY <2>3, <3>1
  <2> QED BY <2>1, <2>2, <2>3
<1> HIDE DEF h
<1>10. IsFold(w, base, n, h)
  BY <1>9 DEF IsFold
<1> QED BY <1>2, <1>8, <1>10

\* What holds at the beginning and after each step holds throughout.
LEMMA StepByStep ==
  ASSUME NEW n \in Nat, NEW P, 0 \in P, \A k \in 1 .. n : k - 1 \in P => k \in P
  PROVE  \A k \in 0 .. n : k \in P
<1> DEFINE B == {k \in 0 .. n : k \notin P}
<1> SUFFICES ASSUME B # {} PROVE FALSE
  OBVIOUS
<1>1. PICK k \in B : \A j \in B : k <= j
  <2>1. B \subseteq Nat
    OBVIOUS
  <2> HIDE DEF B
  <2> QED BY <2>1, LeastNumber
<1>2. k \in 0 .. n /\ k \notin P /\ k # 0
  OBVIOUS
<1>3. k - 1 \in 0 .. n /\ ~(k <= k - 1) /\ k \in 1 .. n
  BY <1>2
<1>4. k - 1 \in P
  BY <1>1, <1>3
<1> QED BY <1>2, <1>3, <1>4

\* g folds w as long as it stays in V
Folds(g, V, w, base, N) ==
  /\ g[{}] = base
  /\ \A s \in SUBSET (1 .. N) :
       s # {} /\ g[s \ {Max(s)}] \in V => g[s] = w[Max(s)][g[s \ {Max(s)}]]

\* the values of a fold, one after the other
Steps(v, g, w, base, N) ==
  v[0] = base /\ v[N] = g[1 .. N] /\ \A k \in 1 .. N : v[k] = w[k][v[k - 1]]

\* A fold has values in between, one for each step.
LEMMA FoldSteps ==
  ASSUME NEW N \in Nat, NEW V, NEW base \in V, NEW w \in [1 .. N -> [V -> V]],
         NEW g, Folds(g, V, w, base, N)
  PROVE  \E v \in [0 .. N -> V] : Steps(v, g, w, base, N)
<1> USE DEF Folds, Steps
<1> DEFINE v == [k \in 0 .. N |-> g[1 .. k]]
<1>1. v[0] = base
  <2>1. 1 .. 0 = {} /\ v[0] = g[1 .. 0]
    OBVIOUS
  <2> QED BY <2>1
<1>2. ASSUME NEW k \in 1 .. N, v[k - 1] \in V PROVE v[k] = w[k][v[k - 1]]
  <2>1. k \in Nat \ {0} /\ 1 .. k \in SUBSET (1 .. N) /\ k - 1 \in 0 .. N
    OBVIOUS
  <2>2. 1 .. k # {} /\ Max(1 .. k) = k /\ (1 .. k) \ {k} = 1 .. k - 1
    BY <2>1, UpTo
  <2>3. v[k] = g[1 .. k] /\ v[k - 1] = g[1 .. k - 1]
    BY <2>1
  <2> DEFINE t == 1 .. k
  <2>4. t \in SUBSET (1 .. N) /\ t # {} /\ Max(t) = k /\ t \ {Max(t)} = 1 .. k - 1
    BY <2>1, <2>2
  <2>5. v[k] = g[t] /\ v[k - 1] = g[t \ {Max(t)}]
    BY <2>3, <2>4
  <2> HIDE DEF v, t
  <2>6. g[t] = w[Max(t)][g[t \ {Max(t)}]]
    BY <1>2, <2>4, <2>5
  <2> QED BY <2>4, <2>5, <2>6
<1>3. v[N] = g[1 .. N]
  OBVIOUS
<1> HIDE DEF v
<1> DEFINE P == {k \in 0 .. N : v[k] \in V}
<1>4. 0 \in P
  BY <1>1
<1>5. \A k \in 1 .. N : k - 1 \in P => k \in P
  BY <1>2
<1>6. \A k \in 0 .. N : v[k] \in V
  <2> HIDE DEF P
  <2>1. \A k \in 0 .. N : k \in P
    BY <1>4, <1>5, StepByStep
  <2> QED BY <2>1 DEF P
<1>7. v \in [0 .. N -> V]
  BY <1>6 DEF v
<1>8. \A k \in 1 .. N : v[k] = w[k][v[k - 1]]
  BY <1>2, <1>6
<1> QED BY <1>1, <1>3, <1>7, <1>8

-----------------------------------------------------------------------------
(* The beginning of a plan.                                                *)

\* the planner has been given its arguments
Begins ==
  /\ WellFormed(input)
  /\ phase = "group"
  /\ root = [p \in Primary |-> p]
  /\ edges = GroupingEdges(input)
  /\ pairs = {}
  /\ at = <<>>
  /\ queue = {} /\ required = {} /\ helpful = {}
  /\ taken = {} /\ used = 0 /\ missing = {} /\ degraded = {}
  /\ bins = <<[members |-> {}, used |-> 0]>>
  /\ omissions = <<>>
  /\ bundles = <<>>

\* Init gives them to it.
LEMMA InitBegins == Init => Begins
BY InputAssumption DEF Init, Begins

-----------------------------------------------------------------------------
(* The groups.                                                             *)

\* Every class of the forest is connected; an edge that was unioned lies
\* within one class.
ForestOK ==
  /\ root \in [Primary -> Primary]
  /\ edges \subseteq GroupingEdges(input)
  /\ phase # "group" => edges = {}
  /\ \A e \in GroupingEdges(input) \ edges : root[e.from] = root[e.to]
  /\ \A p, q \in Primary : root[p] = root[q] => Connected(GroupingEdges(input), p, q)

GroupInv == WellFormed(input) /\ ForestOK

\* The grouping edges join Primaries.
LEMMA GroupingTyped ==
  ASSUME NEW in, WellFormed(in), NEW e \in GroupingEdges(in)
  PROVE  e.from \in Primary /\ e.to \in Primary
<1>1. CASE e \in in.edges
  BY <1>1 DEF WellFormed, Edge
<1>2. CASE e \in Correspondence(in)
  BY <1>2 DEF Correspondence
<1> QED BY <1>1, <1>2 DEF GroupingEdges

\* An end of an edge is connected with the other one.
LEMMA EdgeConnects ==
  ASSUME NEW E, NEW e \in E
  PROVE  Connected(E, e.from, e.to)
BY DEF Connected

\* Connected is transitive.
LEMMA ConnectedTransitive ==
  ASSUME NEW E, NEW p, NEW q, NEW s, Connected(E, p, q), Connected(E, q, s)
  PROVE  Connected(E, p, s)
BY DEF Connected

\* Connected is symmetric: the complement of a closed set is closed.
LEMMA ConnectedSymmetric ==
  ASSUME NEW E, \A e \in E : e.from \in Primary /\ e.to \in Primary,
         NEW p \in Primary, NEW q \in Primary, Connected(E, p, q)
  PROVE  Connected(E, q, p)
<1> SUFFICES ASSUME NEW S \in SUBSET Primary, q \in S, \A e \in E : e.from \in S <=> e.to \in S,
                    p \notin S
             PROVE  FALSE
  BY DEF Connected
<1> DEFINE T == Primary \ S
<1>1. p \in T /\ T \in SUBSET Primary
  OBVIOUS
<1>2. \A e \in E : e.from \in T <=> e.to \in T
  OBVIOUS
<1>3. q \in T
  BY <1>1, <1>2 DEF Connected
<1> QED BY <1>3

\* The lesser and the greater of two numbers are the two numbers.
LEMMA MinMaxOfTwo ==
  ASSUME NEW a \in Nat, NEW b \in Nat
  PROVE  \/ Min({a, b}) = a /\ Max({a, b}) = b
         \/ Min({a, b}) = b /\ Max({a, b}) = a
<1>1. CASE a < b
  <2>1. Min({a, b}) = a
    BY <1>1 DEF Min
  <2>2. Max({a, b}) = b
    BY <1>1 DEF Max
  <2> QED BY <2>1, <2>2
<1>2. CASE b < a
  <2>1. Min({a, b}) = b
    BY <1>2 DEF Min
  <2>2. Max({a, b}) = a
    BY <1>2 DEF Max
  <2> QED BY <2>1, <2>2
<1>3. CASE a = b
  BY <1>3 DEF Min, Max
<1> QED BY <1>1, <1>2, <1>3

\* A union makes one class of the classes of both ends and leaves the others.
LEMMA JoinedClasses ==
  ASSUME NEW r \in [Primary -> Primary], NEW e, e.from \in Primary, e.to \in Primary,
         NEW j, j = Joined(r, e)
  PROVE  /\ j \in [Primary -> Primary]
         /\ j[e.from] = j[e.to]
         /\ \A p, q \in Primary : r[p] = r[q] => j[p] = j[q]
         /\ \A p, q \in Primary :
              j[p] = j[q] => \/ r[p] = r[q]
                             \/ r[p] = r[e.from] /\ r[q] = r[e.to]
                             \/ r[p] = r[e.to] /\ r[q] = r[e.from]
<1> DEFINE low == Min({r[e.from], r[e.to]})
           high == Max({r[e.from], r[e.to]})
<1>1. j = [p \in Primary |-> IF r[p] = high THEN low ELSE r[p]]
  BY DEF Joined
<1>2. \/ low = r[e.from] /\ high = r[e.to]
      \/ low = r[e.to] /\ high = r[e.from]
  <2>1. r[e.from] \in Nat /\ r[e.to] \in Nat
    BY InputAssumption
  <2> QED BY <2>1, MinMaxOfTwo
<1> HIDE DEF low, high
<1>3. low \in Primary
  BY <1>2
<1> QED BY <1>1, <1>2, <1>3

\* In the beginning every Primary is a class of its own.
LEMMA InitGroups == Begins => GroupInv
<1> SUFFICES ASSUME Begins PROVE GroupInv
  OBVIOUS
<1>1. WellFormed(input)
  BY DEF Begins
<1>2. ForestOK
  BY DEF Begins, ForestOK, Connected
<1> QED BY <1>1, <1>2 DEF GroupInv

\* Union() keeps the classes connected.
LEMMA UnionKeepsGroups ==
  ASSUME GroupInv, NEW e \in edges, Union(e)
  PROVE  GroupInv'
<1> DEFINE E == GroupingEdges(input)
<1> USE DEF GroupInv, ForestOK
<1>1. input' = input /\ phase' = phase /\ root' = Joined(root, e) /\ edges' = edges \ {e}
      /\ phase = "group"
  BY DEF Union
<1>2. e \in E /\ \A x \in E : x.from \in Primary /\ x.to \in Primary
  BY GroupingTyped
<1>3. /\ root' \in [Primary -> Primary]
      /\ root'[e.from] = root'[e.to]
      /\ \A p, q \in Primary : root[p] = root[q] => root'[p] = root'[q]
      /\ \A p, q \in Primary :
           root'[p] = root'[q] => \/ root[p] = root[q]
                                  \/ root[p] = root[e.from] /\ root[q] = root[e.to]
                                  \/ root[p] = root[e.to] /\ root[q] = root[e.from]
  BY <1>1, <1>2, JoinedClasses
<1>4. \A x \in E \ edges' : root'[x.from] = root'[x.to]
  BY <1>1, <1>2, <1>3
<1>5. Connected(E, e.from, e.to) /\ Connected(E, e.to, e.from)
  BY <1>2, EdgeConnects, ConnectedSymmetric
<1>6. \A p, q \in Primary : root'[p] = root'[q] => Connected(E, p, q)
  <2> SUFFICES ASSUME NEW p \in Primary, NEW q \in Primary, root'[p] = root'[q]
               PROVE  Connected(E, p, q)
    OBVIOUS
  <2>1. CASE root[p] = root[q]
    BY <2>1
  <2>2. CASE root[p] = root[e.from] /\ root[q] = root[e.to]
    <3>1. Connected(E, p, e.from) /\ Connected(E, e.to, q)
      BY <2>2, <1>2
    <3> QED BY <3>1, <1>5, ConnectedTransitive
  <2>3. CASE root[p] = root[e.to] /\ root[q] = root[e.from]
    <3>1. Connected(E, p, e.to) /\ Connected(E, e.from, q)
      BY <2>3, <1>2
    <3> QED BY <3>1, <1>5, ConnectedTransitive
  <2> QED BY <1>3, <2>1, <2>2, <2>3
<1> QED BY <1>1, <1>3, <1>4, <1>6

\* Steps after the grouping leave the forest alone.
LEMMA ForestAlone ==
  ASSUME GroupInv, UNCHANGED <<input, root, edges>>, phase' = "group" => phase = "group",
         phase # "group" \/ phase' = phase \/ edges = {}
  PROVE  GroupInv'
BY DEF GroupInv, ForestOK

\* Every step keeps GroupInv.
LEMMA NextKeepsGroups == GroupInv /\ [Next]_vars => GroupInv'
<1> SUFFICES ASSUME GroupInv, [Next]_vars PROVE GroupInv'
  OBVIOUS
<1>1. ASSUME NEW e \in edges, Union(e) PROVE GroupInv'
  BY <1>1, UnionKeepsGroups
<1>2. CASE Grouped
  BY <1>2, ForestAlone DEF Grouped, grouping
<1>3. ASSUME NEW pair \in pairs, BeginQuestion(pair[1], pair[2]) PROVE GroupInv'
  BY <1>3, ForestAlone DEF BeginQuestion, grouping
<1>4. ASSUME NEW c \in Candidate, Classify(c) PROVE GroupInv'
  BY <1>4, ForestAlone DEF Classify, grouping
<1>5. ASSUME NEW c \in Candidate, TakeRequired(c) PROVE GroupInv'
  BY <1>5, ForestAlone DEF TakeRequired, grouping
<1>6. ASSUME NEW c \in Candidate, PlaceHelpful(c) PROVE GroupInv'
  BY <1>6, ForestAlone DEF PlaceHelpful, grouping
<1>7. CASE EmitBundles
  BY <1>7, ForestAlone DEF EmitBundles, grouping
<1>8. CASE Create
  BY <1>8, ForestAlone DEF Create, grouping
<1>9. CASE Finished \/ UNCHANGED vars
  BY <1>9, ForestAlone DEF Finished, vars, grouping
<1> QED
  BY <1>1, <1>2, <1>3, <1>4, <1>5, <1>6, <1>7, <1>8, <1>9 DEF Next

\* With every edge unioned, the set of a class is closed under the edges.
LEMMA GroupsFromForest == GroupInv => GroupsAreComponents
<1> SUFFICES ASSUME GroupInv, phase # "group", NEW p \in Primary, NEW q \in Primary,
                    Connected(GroupingEdges(input), p, q)
             PROVE  root[p] = root[q]
  BY DEF GroupsAreComponents, GroupInv, ForestOK
<1> DEFINE S == {x \in Primary : root[x] = root[p]}
<1>1. S \in SUBSET Primary /\ p \in S
  OBVIOUS
<1>2. \A e \in GroupingEdges(input) : e.from \in S <=> e.to \in S
  BY GroupingTyped DEF GroupInv, ForestOK
<1>3. q \in S
  BY <1>1, <1>2 DEF Connected
<1> QED BY <1>3

\* The groups are the components of the strong exact relations, for any
\* change and any order of the edges.
THEOREM GroupsCorrect == Spec => []GroupsAreComponents
<1>1. Spec => []GroupInv
  BY InitBegins, InitGroups, NextKeepsGroups, PTL DEF Spec
<1> QED BY <1>1, GroupsFromForest, PTL

-----------------------------------------------------------------------------
(* Typing.                                                                 *)

Bin == [members : SUBSET DOMAIN input.candidates, used : Nat]
Omission == [candidate : DOMAIN input.candidates, reason : Reason]

\* A set of numbers that is not empty has a least one.
LEMMA MinIn ==
  ASSUME NEW S, S \subseteq Nat, S # {}
  PROVE  Min(S) \in S
<1>1. PICK x \in S : \A y \in S : ~ (<<y, x>> \in OpToRel(<, Nat))
  BY NatLessThanWellFounded, WFMin
<1>2. \A y \in S : ~ (y < x)
  BY <1>1, Zenon DEF OpToRel
<1>3. \A y \in S : x <= y
  BY <1>2
<1> QED BY <1>3 DEF Min

\* What a candidate of the arguments looks like.
LEMMA CandidateTyped ==
  ASSUME NEW in, WellFormed(in), NEW c \in DOMAIN in.candidates
  PROVE  /\ in.candidates[c].tokens \in Nat \ {0}
         /\ in.candidates[c].primary \in Primary
         /\ in.candidates[c].question \in Question
         /\ in.candidates[c].necessity \in Necessity
BY DEF WellFormed, CandidateInfo

\* A candidate that is placed joins a bin with room for it or, if there is
\* none, gets a bin of its own.
LEMMA PlacedShape ==
  ASSUME TypeOK, NEW c \in DOMAIN input.candidates, NEW tokens \in Nat
  PROVE  /\ Placed(c, tokens) \in Seq(Bin) /\ Placed(c, tokens) # <<>>
         /\ \/ \E k \in DOMAIN bins :
                 /\ Fits(tokens, bins[k].used)
                 /\ DOMAIN Placed(c, tokens) = DOMAIN bins
                 /\ Placed(c, tokens)[k] =
                      [members |-> bins[k].members \cup {c}, used |-> bins[k].used + tokens]
                 /\ \A j \in DOMAIN bins \ {k} : Placed(c, tokens)[j] = bins[j]
            \/ /\ \A k \in DOMAIN bins : ~Fits(tokens, bins[k].used)
               /\ DOMAIN Placed(c, tokens) = DOMAIN bins \cup {Len(bins) + 1}
               /\ Placed(c, tokens)[Len(bins) + 1] = [members |-> {c}, used |-> tokens]
               /\ \A j \in DOMAIN bins : Placed(c, tokens)[j] = bins[j]
<1> DEFINE room == {k \in DOMAIN bins : Fits(tokens, bins[k].used)}
           P == Placed(c, tokens)
<1>1. bins \in Seq(Bin) /\ bins # <<>>
  BY DEF TypeOK, Bin
<1>2. Len(bins) \in Nat /\ DOMAIN bins = 1..Len(bins) /\ \A k \in DOMAIN bins : bins[k] \in Bin
  BY <1>1
<1>3. CASE room # {}
  <2> DEFINE k == Min(room)
             new == [members |-> bins[k].members \cup {c}, used |-> bins[k].used + tokens]
  <2>1. k \in room
    <3>1. room \subseteq Nat
      BY <1>2
    <3> QED BY <1>3, <3>1, MinIn
  <2>2. P = [bins EXCEPT ![k] = new]
    BY <1>3 DEF Placed
  <2> HIDE DEF k
  <2>3. new \in Bin
    BY <1>2, <2>1 DEF Bin
  <2> HIDE DEF new, P
  <2>4. /\ P \in Seq(Bin) /\ Len(P) = Len(bins)
        /\ \A j \in 1..Len(bins) : P[j] = IF j = k THEN new ELSE bins[j]
    BY <1>1, <1>2, <2>1, <2>2, <2>3, ExceptSeq
  <2>5. P # <<>> /\ DOMAIN P = DOMAIN bins
    BY <1>1, <1>2, <2>4
  <2>6. Fits(tokens, bins[k].used) /\ k \in DOMAIN bins
    BY <2>1
  <2> HIDE DEF room
  <2>7. P[k] = [members |-> bins[k].members \cup {c}, used |-> bins[k].used + tokens]
    BY <1>2, <2>4, <2>6 DEF new
  <2>8. \A j \in DOMAIN bins \ {k} : P[j] = bins[j]
    BY <1>2, <2>4
  <2>9. P \in Seq(Bin)
    BY <2>4
  <2> QED BY <2>5, <2>6, <2>7, <2>8, <2>9 DEF P
<1>4. CASE room = {}
  <2> DEFINE new == [members |-> {c}, used |-> tokens]
  <2>1. new \in Bin
    BY DEF Bin
  <2>2. P = Append(bins, new)
    BY <1>4 DEF Placed
  <2>3. \A k \in DOMAIN bins : ~Fits(tokens, bins[k].used)
    BY <1>4
  <2> HIDE DEF new, P, room
  <2>4. /\ P \in Seq(Bin) /\ P # <<>>
        /\ DOMAIN P = DOMAIN bins \cup {Len(bins) + 1}
        /\ P[Len(bins) + 1] = new
        /\ \A j \in DOMAIN bins : P[j] = bins[j]
    BY <1>1, <1>2, <2>1, <2>2
  <2> QED BY <2>3, <2>4 DEF P, new
<1> QED BY <1>3, <1>4

\* An omission is recorded behind those there are.
LEMMA OmitShape ==
  ASSUME TypeOK, NEW c \in DOMAIN input.candidates, NEW reason \in Reason, Omit(c, reason)
  PROVE  /\ omissions' \in Seq(Omission)
         /\ DOMAIN omissions' = DOMAIN omissions \cup {Len(omissions) + 1}
         /\ Len(omissions) + 1 \notin DOMAIN omissions
         /\ omissions'[Len(omissions) + 1].candidate = c
         /\ \A k \in DOMAIN omissions : omissions'[k] = omissions[k]
<1>1. omissions \in Seq(Omission)
  BY DEF TypeOK, Omission
<1>2. [candidate |-> c, reason |-> reason] \in Omission
  BY DEF Omission
<1> QED BY <1>1, <1>2 DEF Omit

\* A refusal has one of the reasons.
LEMMA RefusalTyped ==
  ASSUME NEW in, NEW g, NEW c, Refusal(in, g, c) # "none"
  PROVE  Refusal(in, g, c) \in Reason
BY DEF Refusal, Reason

\* Types in the beginning.
LEMMA InitTyped == Begins => TypeOK
<1> SUFFICES ASSUME Begins PROVE TypeOK
  OBVIOUS
<1>1. bins = <<[members |-> {}, used |-> 0]>> /\ [members |-> {}, used |-> 0] \in Bin
  BY DEF Begins, Bin
<1>2. bins \in Seq(Bin) /\ bins # <<>>
  BY <1>1
<1> QED BY <1>2 DEF Begins, TypeOK, Bin

\* Every step keeps the type invariant.
LEMMA NextTyped == GroupInv /\ TypeOK /\ [Next]_vars => TypeOK'
<1> SUFFICES ASSUME GroupInv, TypeOK, [Next]_vars PROVE TypeOK'
  OBVIOUS
<1>1. ASSUME NEW e \in edges, Union(e) PROVE TypeOK'
  <2>1. root' \in [Primary -> Primary]
    BY <1>1, GroupingTyped, JoinedClasses DEF Union, TypeOK
  <2> QED BY <1>1, <2>1 DEF Union, TypeOK, filling
<1>2. CASE Grouped
  <2>1. Groups(root) \subseteq SUBSET Primary
    BY DEF Groups
  <2> QED BY <1>2, <2>1 DEF Grouped, TypeOK, grouping, filling
<1>3. ASSUME NEW pair \in pairs, BeginQuestion(pair[1], pair[2]) PROVE TypeOK'
  <2>1. at' \in (SUBSET Primary) \X Question /\ at' # <<>>
    BY <1>3 DEF BeginQuestion, TypeOK
  <2>2. CandidatesOf(input, pair[1], pair[2]) \subseteq DOMAIN input.candidates
    BY DEF CandidatesOf
  <2>3. bins' = <<[members |-> {}, used |-> 0]>> /\ [members |-> {}, used |-> 0] \in Bin
    BY <1>3 DEF BeginQuestion, Bin
  <2>4. bins' \in Seq(Bin) /\ bins' # <<>>
    BY <2>3
  <2> QED BY <1>3, <2>1, <2>2, <2>4 DEF BeginQuestion, TypeOK, grouping, Bin
<1>4. ASSUME NEW c \in Candidate, Classify(c) PROVE TypeOK'
  <2>1. c \in queue /\ c \in DOMAIN input.candidates
    BY <1>4 DEF Classify, IsFirst, TypeOK
  <2>2. omissions' \in Seq(Omission)
    <3>1. CASE Refusal(input, at[1], c) # "none"
      BY <1>4, <2>1, <3>1, RefusalTyped, OmitShape DEF Classify
    <3>2. CASE Refusal(input, at[1], c) = "none"
      BY <1>4, <3>2 DEF Classify, TypeOK, Omission
    <3> QED BY <3>1, <3>2
  <2>3. /\ required' \subseteq DOMAIN input.candidates /\ helpful' \subseteq DOMAIN input.candidates
        /\ missing' \subseteq DOMAIN input.candidates /\ degraded' \subseteq DOMAIN input.candidates
    BY <1>4, <2>1 DEF Classify, TypeOK
  <2> QED BY <1>4, <2>2, <2>3 DEF Classify, TypeOK, grouping, Omission
<1>5. ASSUME NEW c \in Candidate, TakeRequired(c) PROVE TypeOK'
  <2>1. c \in required /\ c \in DOMAIN input.candidates
    BY <1>5 DEF TakeRequired, IsFirst, TypeOK
  <2>2. input.candidates[c].tokens \in Nat
    BY <2>1, CandidateTyped DEF TypeOK
  <2>3. CASE Omit(c, "budget_exceeded") /\ taken' = taken /\ used' = used /\ missing' = missing \cup {c}
    <3>1. omissions' \in Seq(Omission)
      BY <2>1, <2>3, OmitShape DEF Reason
    <3> QED BY <1>5, <2>1, <2>3, <3>1 DEF TakeRequired, TypeOK, grouping, Omission
  <2>4. CASE /\ taken' = taken \cup {c} /\ used' = used + input.candidates[c].tokens
             /\ UNCHANGED <<missing, omissions>>
    BY <1>5, <2>1, <2>2, <2>4 DEF TakeRequired, TypeOK, grouping
  <2> QED BY <1>5, <2>3, <2>4 DEF TakeRequired
<1>6. ASSUME NEW c \in Candidate, PlaceHelpful(c) PROVE TypeOK'
  <2>1. c \in helpful /\ c \in DOMAIN input.candidates
    BY <1>6 DEF PlaceHelpful, IsFirst, TypeOK
  <2>2. input.candidates[c].tokens \in Nat
    BY <2>1, CandidateTyped DEF TypeOK
  <2>3. CASE (Omit(c, "context_blocked") \/ Omit(c, "budget_exceeded")) /\ bins' = bins
    <3>1. omissions' \in Seq(Omission)
      BY <2>1, <2>3, OmitShape DEF Reason
    <3> QED BY <1>6, <2>3, <3>1 DEF PlaceHelpful, TypeOK, grouping, Omission
  <2>4. CASE bins' = Placed(c, input.candidates[c].tokens) /\ omissions' = omissions
    <3>1. bins' \in Seq(Bin) /\ bins' # <<>>
      BY <2>1, <2>2, <2>4, PlacedShape
    <3> QED BY <1>6, <2>4, <3>1 DEF PlaceHelpful, TypeOK, grouping, Bin
  <2> QED BY <1>6, <2>3, <2>4 DEF PlaceHelpful
<1>7. CASE EmitBundles
  BY <1>7 DEF EmitBundles, TypeOK, grouping, filling
<1>8. CASE Create
  BY <1>8 DEF Create, TypeOK, grouping, filling
<1>9. CASE Finished \/ UNCHANGED vars
  BY <1>9 DEF Finished, vars, TypeOK, grouping, filling
<1> QED
  BY <1>1, <1>2, <1>3, <1>4, <1>5, <1>6, <1>7, <1>8, <1>9 DEF Next

\* The type invariant holds for all arguments.
THEOREM PlanTyped == Spec => []TypeOK
<1>1. Spec => [](GroupInv /\ TypeOK)
  BY InitBegins, InitGroups, NextKeepsGroups, InitTyped, NextTyped, PTL DEF Spec
<1> QED BY <1>1, PTL

-----------------------------------------------------------------------------
(* First fit.                                                              *)

\* Every step keeps any two bins too full for one: what is selected only
\* grows, and a bin is opened only if there is no room in those there are.
LEMMA NextPacks == TypeOK /\ NoTwoBinsFitOne /\ [Next]_vars => NoTwoBinsFitOne'
<1> SUFFICES ASSUME TypeOK, NoTwoBinsFitOne, [Next]_vars PROVE NoTwoBinsFitOne'
  OBVIOUS
<1>1. CASE phase' # "fill"
  BY <1>1 DEF NoTwoBinsFitOne
<1>2. CASE UNCHANGED <<input, phase, at, used, bins>>
  BY <1>2 DEF NoTwoBinsFitOne, Fits
<1>3. ASSUME NEW pair \in pairs, BeginQuestion(pair[1], pair[2]) PROVE NoTwoBinsFitOne'
  BY <1>3 DEF BeginQuestion, NoTwoBinsFitOne
<1>4. \A k \in DOMAIN bins : bins[k].used \in Nat
  <2>1. bins \in Seq(Bin)
    BY DEF TypeOK, Bin
  <2>2. \A k \in DOMAIN bins : bins[k] \in Bin
    BY <2>1
  <2> QED BY <2>2 DEF Bin
<1>5. phase = "fill" => input.weight[at[1]] \in Nat /\ input.limit \in Nat /\ used \in Nat
  BY DEF TypeOK, WellFormed
<1>6. ASSUME NEW c \in Candidate, TakeRequired(c) PROVE NoTwoBinsFitOne'
  <2>1. c \in DOMAIN input.candidates
    BY <1>6 DEF TakeRequired, IsFirst, TypeOK
  <2>2. input.candidates[c].tokens \in Nat
    BY <2>1, CandidateTyped DEF TypeOK
  <2>3. used' \in Nat /\ used' >= used
    BY <1>5, <1>6, <2>2 DEF TakeRequired
  <2>4. input' = input /\ at' = at /\ bins' = bins /\ phase' = phase /\ phase = "fill"
    BY <1>6 DEF TakeRequired
  <2> QED BY <1>4, <1>5, <2>3, <2>4 DEF NoTwoBinsFitOne, Fits
<1>7. ASSUME NEW c \in Candidate, PlaceHelpful(c) PROVE NoTwoBinsFitOne'
  <2> DEFINE tokens == input.candidates[c].tokens
  <2>1. c \in DOMAIN input.candidates
    BY <1>7 DEF PlaceHelpful, IsFirst, TypeOK
  <2>2. tokens \in Nat
    BY <2>1, CandidateTyped DEF TypeOK
  <2>3. input' = input /\ at' = at /\ used' = used /\ phase' = phase /\ phase = "fill"
    BY <1>7 DEF PlaceHelpful
  <2>4. CASE bins' = bins
    BY <1>2, <2>3, <2>4
  <2>5. CASE bins' = Placed(c, tokens)
    <3> HIDE DEF tokens
    <3>3. \/ \E k \in DOMAIN bins :
                /\ Fits(tokens, bins[k].used)
                /\ DOMAIN bins' = DOMAIN bins
                /\ bins'[k] = [members |-> bins[k].members \cup {c}, used |-> bins[k].used + tokens]
                /\ \A j \in DOMAIN bins \ {k} : bins'[j] = bins[j]
          \/ /\ \A k \in DOMAIN bins : ~Fits(tokens, bins[k].used)
             /\ DOMAIN bins' = DOMAIN bins \cup {Len(bins) + 1}
             /\ bins'[Len(bins) + 1] = [members |-> {c}, used |-> tokens]
             /\ \A j \in DOMAIN bins : bins'[j] = bins[j]
      <4> DEFINE P == Placed(c, tokens)
      <4>1. \/ \E k \in DOMAIN bins :
                 /\ Fits(tokens, bins[k].used)
                 /\ DOMAIN P = DOMAIN bins
                 /\ P[k] = [members |-> bins[k].members \cup {c}, used |-> bins[k].used + tokens]
                 /\ \A j \in DOMAIN bins \ {k} : P[j] = bins[j]
            \/ /\ \A k \in DOMAIN bins : ~Fits(tokens, bins[k].used)
               /\ DOMAIN P = DOMAIN bins \cup {Len(bins) + 1}
               /\ P[Len(bins) + 1] = [members |-> {c}, used |-> tokens]
               /\ \A j \in DOMAIN bins : P[j] = bins[j]
        BY <2>1, <2>2, PlacedShape
      <4>2. bins' = P
        BY <2>5
      <4> HIDE DEF P
      <4> QED BY <4>1, <4>2
    <3> USE <1>4, <1>5, <2>2, <2>3 DEF NoTwoBinsFitOne, Fits
    <3>1. CASE \E k \in DOMAIN bins :
                 /\ DOMAIN bins' = DOMAIN bins
                 /\ bins'[k] = [members |-> bins[k].members \cup {c}, used |-> bins[k].used + tokens]
                 /\ \A j \in DOMAIN bins \ {k} : bins'[j] = bins[j]
      <4> PICK k \in DOMAIN bins :
                 /\ DOMAIN bins' = DOMAIN bins
                 /\ bins'[k] = [members |-> bins[k].members \cup {c}, used |-> bins[k].used + tokens]
                 /\ \A j \in DOMAIN bins \ {k} : bins'[j] = bins[j]
        BY <3>1
      <4>1. \A j \in DOMAIN bins : bins'[j].used \in Nat /\ bins'[j].used >= bins[j].used
        OBVIOUS
      <4> QED BY <4>1
    <3>2. CASE /\ \A k \in DOMAIN bins : ~Fits(tokens, bins[k].used)
               /\ DOMAIN bins' = DOMAIN bins \cup {Len(bins) + 1}
               /\ bins'[Len(bins) + 1] = [members |-> {c}, used |-> tokens]
               /\ \A j \in DOMAIN bins : bins'[j] = bins[j]
      <4>1. bins'[Len(bins) + 1].used = tokens
        BY <3>2
      <4> QED BY <3>2, <4>1
    <3> QED BY <3>1, <3>2, <3>3
  <2> QED BY <1>7, <2>4, <2>5 DEF PlaceHelpful
<1>8. ASSUME NEW e \in edges, Union(e) PROVE NoTwoBinsFitOne'
  BY <1>2, <1>8 DEF Union, filling
<1>9. ASSUME NEW c \in Candidate, Classify(c) PROVE NoTwoBinsFitOne'
  BY <1>2, <1>9 DEF Classify
<1>10. CASE Grouped \/ EmitBundles \/ Create
  BY <1>1, <1>10 DEF Grouped, EmitBundles, Create
<1>11. CASE Finished \/ UNCHANGED vars
  BY <1>2, <1>11 DEF Finished, vars, filling
<1> QED
  BY <1>3, <1>6, <1>7, <1>8, <1>9, <1>10, <1>11 DEF Next

\* First fit never leaves two bins that would fit into one bundle, whatever
\* the sizes and the limit.
THEOREM PackingIsTight == Spec => []NoTwoBinsFitOne
<1>1. Begins => NoTwoBinsFitOne
  BY DEF Begins, NoTwoBinsFitOne
<1> QED
  BY <1>1, InitBegins, InitGroups, NextKeepsGroups, InitTyped, NextTyped, NextPacks, PTL DEF Spec

-----------------------------------------------------------------------------
(* Nothing is lost.                                                        *)

\* the candidates of questions that are still to come
Waiting ==
  {c \in DOMAIN input.candidates :
     phase = "group" \/ \E pair \in pairs : c \in CandidatesOf(input, pair[1], pair[2])}

InBins == UNION {bins[k].members : k \in DOMAIN bins}

\* the candidates of the question in hand
Held == IF phase = "fill" THEN queue \cup required \cup helpful \cup taken \cup InBins ELSE {}

InBundles == UNION {bundles[k].support : k \in DOMAIN bundles}
Omitted == {omissions[k].candidate : k \in DOMAIN omissions}

\* a candidate is held in one place
HeldOnce ==
  phase = "fill" =>
    /\ queue \cap (required \cup helpful \cup taken \cup InBins) = {}
    /\ required \cap (helpful \cup taken \cup InBins) = {}
    /\ helpful \cap (taken \cup InBins) = {}

\* no candidate belongs to two pairs
PairsOK ==
  phase # "group" =>
    \A x, y \in pairs :
      CandidatesOf(input, x[1], x[2]) \cap CandidatesOf(input, y[1], y[2]) # {} => x = y

\* every candidate is somewhere, and only there
Whereabouts ==
  /\ DOMAIN input.candidates = Waiting \cup Held \cup InBundles \cup Omitted
  /\ Waiting \cap (Held \cup InBundles \cup Omitted) = {}
  /\ Held \cap (InBundles \cup Omitted) = {}
  /\ InBundles \cap Omitted = {}
  /\ \A j, k \in DOMAIN omissions : omissions[j].candidate = omissions[k].candidate => j = k
  /\ phase = "done" => pairs = {}
  /\ \E S : bundles \in Seq(S)

LossInv == TypeOK /\ HeldOnce /\ PairsOK /\ Whereabouts

\* no candidate was omitted twice
OmittedOnce == \A j, k \in DOMAIN omissions : omissions[j].candidate = omissions[k].candidate => j = k

\* Omit() adds its candidate to the omitted ones.
LEMMA OmitGrows ==
  ASSUME TypeOK, OmittedOnce, NEW c \in DOMAIN input.candidates, NEW reason \in Reason,
         Omit(c, reason), c \notin Omitted
  PROVE  Omitted' = Omitted \cup {c} /\ OmittedOnce'
<1>1. /\ DOMAIN omissions' = DOMAIN omissions \cup {Len(omissions) + 1}
      /\ Len(omissions) + 1 \notin DOMAIN omissions
      /\ omissions'[Len(omissions) + 1].candidate = c
      /\ \A k \in DOMAIN omissions : omissions'[k] = omissions[k]
  BY OmitShape
<1>2. Omitted' = Omitted \cup {c}
  BY <1>1 DEF Omitted
<1>3. OmittedOnce'
  BY <1>1 DEF Omitted, OmittedOnce
<1> QED BY <1>2, <1>3

\* A candidate that is placed is the only one that joins the bins.
LEMMA PlacedMembers ==
  ASSUME TypeOK, NEW c \in DOMAIN input.candidates, NEW tokens \in Nat, bins' = Placed(c, tokens)
  PROVE  InBins' = InBins \cup {c}
<1> DEFINE P == Placed(c, tokens)
<1>1. \/ \E k \in DOMAIN bins :
           /\ DOMAIN P = DOMAIN bins
           /\ P[k] = [members |-> bins[k].members \cup {c}, used |-> bins[k].used + tokens]
           /\ \A j \in DOMAIN bins \ {k} : P[j] = bins[j]
      \/ /\ DOMAIN P = DOMAIN bins \cup {Len(bins) + 1}
         /\ P[Len(bins) + 1] = [members |-> {c}, used |-> tokens]
         /\ \A j \in DOMAIN bins : P[j] = bins[j]
  BY PlacedShape, ZenonT(30)
<1>2. bins' = P
  OBVIOUS
<1> HIDE DEF P
<1>3. CASE \E k \in DOMAIN bins :
             /\ DOMAIN P = DOMAIN bins
             /\ P[k] = [members |-> bins[k].members \cup {c}, used |-> bins[k].used + tokens]
             /\ \A j \in DOMAIN bins \ {k} : P[j] = bins[j]
  <2> PICK k \in DOMAIN bins :
             /\ DOMAIN P = DOMAIN bins
             /\ P[k] = [members |-> bins[k].members \cup {c}, used |-> bins[k].used + tokens]
             /\ \A j \in DOMAIN bins \ {k} : P[j] = bins[j]
    BY <1>3
  <2>1. P[k].members = bins[k].members \cup {c}
    OBVIOUS
  <2> QED BY <1>2, <2>1 DEF InBins
<1>4. CASE /\ DOMAIN P = DOMAIN bins \cup {Len(bins) + 1}
           /\ P[Len(bins) + 1] = [members |-> {c}, used |-> tokens]
           /\ \A j \in DOMAIN bins : P[j] = bins[j]
  <2>1. P[Len(bins) + 1].members = {c}
    BY <1>4
  <2> QED BY <1>2, <1>4, <2>1 DEF InBins
<1> QED BY <1>1, <1>3, <1>4

\* Steps that leave the candidates where they are.
LEMMA LossAlone ==
  ASSUME LossInv, TypeOK',
         UNCHANGED <<input, phase, pairs, queue, required, helpful, taken, bins, omissions, bundles>>
  PROVE  LossInv'
<1>1. /\ Waiting' = Waiting /\ InBins' = InBins /\ InBundles' = InBundles /\ Omitted' = Omitted
  BY DEF Waiting, InBins, InBundles, Omitted, CandidatesOf
<1>2. Held' = Held /\ HeldOnce'
  BY <1>1 DEF LossInv, Held, HeldOnce
<1>3. PairsOK'
  BY DEF LossInv, PairsOK, CandidatesOf
<1> QED BY <1>1, <1>2, <1>3 DEF LossInv, Whereabouts

\* In the beginning all candidates wait.
LEMMA InitLoss == Begins => LossInv
<1> SUFFICES ASSUME Begins PROVE LossInv
  OBVIOUS
<1>1. TypeOK
  BY InitTyped
<1>2. Waiting = DOMAIN input.candidates /\ Held = {} /\ InBundles = {} /\ Omitted = {}
  BY DEF Begins, Waiting, Held, InBundles, Omitted
<1>3. bundles \in Seq({})
  BY DEF Begins
<1>4. \A j, k \in DOMAIN omissions : omissions[j].candidate = omissions[k].candidate => j = k
  BY DEF Begins
<1> QED BY <1>1, <1>2, <1>3, <1>4 DEF Begins, LossInv, HeldOnce, PairsOK, Whereabouts

\* Grouped() gives every candidate a pair of its own.
LEMMA GroupedKeepsLoss ==
  ASSUME LossInv, TypeOK', Grouped
  PROVE  LossInv'
<1> DEFINE Cands == DOMAIN input.candidates
<1>1. /\ UNCHANGED <<input, root, queue, required, helpful, taken, bins, omissions, bundles>>
      /\ phase = "group" /\ phase' = "choose"
      /\ pairs' = {pair \in Groups(root) \X Question : pair[2] \in Asked(input, pair[1])}
  BY DEF Grouped, grouping, filling
<1>2. Held = {} /\ Held' = {} /\ InBundles' = InBundles /\ Omitted' = Omitted
  BY <1>1 DEF Held, InBundles, Omitted
<1>3. Waiting = Cands
  BY <1>1 DEF Waiting
<1>4. ASSUME NEW c \in Cands PROVE c \in Waiting'
  <2> DEFINE p == input.candidates[c].primary
             q == input.candidates[c].question
             g == {x \in Primary : root[x] = root[p]}
  <2>1. p \in Primary /\ q \in Question /\ <<p, q>> \in input.bindings
    BY CandidateTyped DEF LossInv, TypeOK, WellFormed
  <2>2. g \in Groups(root) /\ p \in g
    BY <2>1 DEF Groups
  <2>3. q \in Asked(input, g)
    BY <2>1, <2>2 DEF Asked
  <2>4. <<g, q>> \in pairs'
    BY <1>1, <2>1, <2>2, <2>3
  <2>5. c \in CandidatesOf(input, g, q)
    BY <2>2 DEF CandidatesOf
  <2> HIDE DEF g, q
  <2> QED BY <1>1, <2>4, <2>5 DEF Waiting
<1>5. Waiting' = Cands
  BY <1>1, <1>4 DEF Waiting
<1>6. PairsOK'
  <2> SUFFICES ASSUME NEW x \in pairs', NEW y \in pairs', NEW c,
                      c \in CandidatesOf(input, x[1], x[2]), c \in CandidatesOf(input, y[1], y[2])
               PROVE  x = y
    BY <1>1 DEF PairsOK
  <2>1. x \in Groups(root) \X Question /\ y \in Groups(root) \X Question
    BY <1>1
  <2>2. x[2] = y[2]
    BY DEF CandidatesOf
  <2>3. input.candidates[c].primary \in x[1] /\ input.candidates[c].primary \in y[1]
    BY DEF CandidatesOf
  <2>4. x[1] = y[1]
    BY <2>1, <2>3 DEF Groups
  <2> QED BY <2>1, <2>2, <2>4
<1> QED BY <1>1, <1>2, <1>3, <1>5, <1>6 DEF LossInv, HeldOnce, Whereabouts

\* BeginQuestion() takes the candidates of its pair in hand.
LEMMA BeginKeepsLoss ==
  ASSUME LossInv, TypeOK', NEW pair \in pairs, BeginQuestion(pair[1], pair[2])
  PROVE  LossInv'
<1> DEFINE mine == CandidatesOf(input, pair[1], pair[2])
<1>1. /\ UNCHANGED <<input, omissions, bundles>> /\ phase = "choose" /\ phase' = "fill"
      /\ queue' = mine /\ required' = {} /\ helpful' = {} /\ taken' = {}
      /\ bins' = <<[members |-> {}, used |-> 0]>>
  BY DEF BeginQuestion, grouping
<1>2. pairs' = pairs \ {pair}
  <2>1. pair = <<pair[1], pair[2]>>
    BY DEF LossInv, TypeOK
  <2> QED BY <2>1 DEF BeginQuestion
<1>3. InBins' = {}
  BY <1>1 DEF InBins
<1>4. Held = {} /\ Held' = mine /\ HeldOnce'
  BY <1>1, <1>3 DEF Held, HeldOnce
<1>5. PairsOK'
  BY <1>1, <1>2 DEF LossInv, PairsOK
<1>6. mine \subseteq Waiting /\ Waiting' = Waiting \ mine
  <2>1. mine \subseteq DOMAIN input.candidates
    BY DEF CandidatesOf
  <2>2. \A other \in pairs' : CandidatesOf(input, other[1], other[2]) \cap mine = {}
    BY <1>1, <1>2 DEF LossInv, PairsOK
  <2> QED BY <1>1, <1>2, <2>1, <2>2 DEF Waiting
<1>7. InBundles' = InBundles /\ Omitted' = Omitted
  BY <1>1 DEF InBundles, Omitted
<1> HIDE DEF mine
<1> QED BY <1>1, <1>4, <1>5, <1>6, <1>7 DEF LossInv, Whereabouts

\* While a question is in hand a candidate moves within what is held, or from
\* there to the omitted ones.
LEMMA MoveKeepsLoss ==
  ASSUME LossInv, TypeOK', NEW c \in Held,
         UNCHANGED <<input, phase, pairs, bundles>>, HeldOnce', OmittedOnce',
         \/ Held' = Held /\ Omitted' = Omitted
         \/ Held' = Held \ {c} /\ Omitted' = Omitted \cup {c}
  PROVE  LossInv'
<1>1. Waiting' = Waiting /\ InBundles' = InBundles /\ PairsOK'
  BY DEF LossInv, Waiting, InBundles, PairsOK, CandidatesOf
<1>2. c \in DOMAIN input.candidates /\ c \notin Waiting \cup InBundles \cup Omitted
  BY DEF LossInv, Whereabouts
<1> QED BY <1>1, <1>2 DEF LossInv, Whereabouts, OmittedOnce

\* Classify() puts a candidate among the required or helpful ones, or omits it.
LEMMA ClassifyKeepsLoss ==
  ASSUME LossInv, TypeOK', NEW c \in Candidate, Classify(c)
  PROVE  LossInv'
<1>1. /\ UNCHANGED <<input, phase, pairs, taken, bins, bundles>> /\ phase = "fill"
      /\ c \in queue /\ queue' = queue \ {c}
  BY DEF Classify, IsFirst, grouping
<1>2. /\ c \in Held /\ c \in DOMAIN input.candidates /\ c \notin Omitted /\ OmittedOnce
      /\ c \notin required \cup helpful \cup taken \cup InBins
  BY <1>1 DEF LossInv, Whereabouts, HeldOnce, Held, OmittedOnce
<1>3. InBins' = InBins
  BY <1>1 DEF InBins
<1>4. CASE Refusal(input, at[1], c) # "none"
  <2>1. required' = required /\ helpful' = helpful /\ Omit(c, Refusal(input, at[1], c))
    BY <1>4 DEF Classify
  <2>2. Omitted' = Omitted \cup {c} /\ OmittedOnce'
    BY <1>2, <1>4, <2>1, RefusalTyped, OmitGrows DEF LossInv
  <2>3. Held' = Held \ {c} /\ HeldOnce'
    BY <1>1, <1>2, <1>3, <2>1 DEF LossInv, HeldOnce, Held
  <2> QED BY <1>1, <1>2, <2>2, <2>3, MoveKeepsLoss
<1>5. CASE Refusal(input, at[1], c) = "none"
  <2>1. /\ \/ required' = required \cup {c} /\ helpful' = helpful
           \/ helpful' = helpful \cup {c} /\ required' = required
        /\ omissions' = omissions
    BY <1>5 DEF Classify
  <2>2. Omitted' = Omitted /\ OmittedOnce'
    BY <1>2, <2>1 DEF Omitted, OmittedOnce
  <2>3. Held' = Held /\ HeldOnce'
    BY <1>1, <1>2, <1>3, <2>1 DEF LossInv, HeldOnce, Held
  <2> QED BY <1>1, <1>2, <2>2, <2>3, MoveKeepsLoss
<1> QED BY <1>4, <1>5

\* TakeRequired() takes a required candidate, or omits it.
LEMMA TakeKeepsLoss ==
  ASSUME LossInv, TypeOK', NEW c \in Candidate, TakeRequired(c)
  PROVE  LossInv'
<1>1. /\ UNCHANGED <<input, phase, pairs, queue, helpful, bins, bundles>> /\ phase = "fill"
      /\ c \in required /\ required' = required \ {c}
  BY DEF TakeRequired, IsFirst, grouping
<1>2. /\ c \in Held /\ c \in DOMAIN input.candidates /\ c \notin Omitted /\ OmittedOnce
      /\ c \notin queue \cup helpful \cup taken \cup InBins
  BY <1>1 DEF LossInv, Whereabouts, HeldOnce, Held, OmittedOnce
<1>3. InBins' = InBins
  BY <1>1 DEF InBins
<1>4. CASE taken' = taken /\ Omit(c, "budget_exceeded")
  <2>1. Omitted' = Omitted \cup {c} /\ OmittedOnce'
    BY <1>2, <1>4, OmitGrows DEF LossInv, Reason
  <2>2. Held' = Held \ {c} /\ HeldOnce'
    BY <1>1, <1>2, <1>3, <1>4 DEF LossInv, HeldOnce, Held
  <2> QED BY <1>1, <1>2, <2>1, <2>2, MoveKeepsLoss
<1>5. CASE taken' = taken \cup {c} /\ omissions' = omissions
  <2>1. Omitted' = Omitted /\ OmittedOnce'
    BY <1>2, <1>5 DEF Omitted, OmittedOnce
  <2>2. Held' = Held /\ HeldOnce'
    BY <1>1, <1>2, <1>3, <1>5 DEF LossInv, HeldOnce, Held
  <2> QED BY <1>1, <1>2, <2>1, <2>2, MoveKeepsLoss
<1> QED BY <1>4, <1>5 DEF TakeRequired

\* PlaceHelpful() puts a helpful candidate into a bin, or omits it.
LEMMA PlaceKeepsLoss ==
  ASSUME LossInv, TypeOK', NEW c \in Candidate, PlaceHelpful(c)
  PROVE  LossInv'
<1>1. /\ UNCHANGED <<input, phase, pairs, queue, required, taken, bundles>> /\ phase = "fill"
      /\ c \in helpful /\ helpful' = helpful \ {c}
  BY DEF PlaceHelpful, IsFirst, grouping
<1>2. /\ c \in Held /\ c \in DOMAIN input.candidates /\ c \notin Omitted /\ OmittedOnce
      /\ c \notin queue \cup required \cup taken \cup InBins
  BY <1>1 DEF LossInv, Whereabouts, HeldOnce, Held, OmittedOnce
<1>3. CASE bins' = bins /\ (Omit(c, "budget_exceeded") \/ Omit(c, "context_blocked"))
  <2>1. Omitted' = Omitted \cup {c} /\ OmittedOnce'
    BY <1>2, <1>3, OmitGrows DEF LossInv, Reason
  <2>2. InBins' = InBins
    BY <1>3 DEF InBins
  <2>3. Held' = Held \ {c} /\ HeldOnce'
    BY <1>1, <1>2, <2>2 DEF LossInv, HeldOnce, Held
  <2> QED BY <1>1, <1>2, <2>1, <2>3, MoveKeepsLoss
<1>4. CASE bins' = Placed(c, input.candidates[c].tokens) /\ omissions' = omissions
  <2>1. Omitted' = Omitted /\ OmittedOnce'
    BY <1>2, <1>4 DEF Omitted, OmittedOnce
  <2>2. input.candidates[c].tokens \in Nat
    BY <1>2, CandidateTyped DEF LossInv, TypeOK
  <2>3. InBins' = InBins \cup {c}
    BY <1>2, <1>4, <2>2, PlacedMembers DEF LossInv
  <2>4. Held' = Held /\ HeldOnce'
    BY <1>1, <1>2, <2>3 DEF LossInv, HeldOnce, Held
  <2> QED BY <1>1, <1>2, <2>1, <2>4, MoveKeepsLoss
<1> QED BY <1>3, <1>4 DEF PlaceHelpful

\* A bundle carries the support it is made with.
LEMMA BundleSupport ==
  ASSUME NEW in, NEW g, NEW q, NEW support, NEW weak, NEW lost
  PROVE  Bundle(in, g, q, support, weak, lost).support = support
BY DEF Bundle

\* EmitBundles() hands all that is held over to the bundles.
LEMMA EmitKeepsLoss ==
  ASSUME LossInv, TypeOK', EmitBundles
  PROVE  LossInv'
<1> DEFINE B(k) == Bundle(input, at[1], at[2], taken \cup bins[k].members, degraded, missing)
           new == [k \in DOMAIN bins |-> B(k)]
<1>1. /\ UNCHANGED <<input, pairs, queue, required, helpful, taken, bins, omissions>>
      /\ phase = "fill" /\ phase' = "choose" /\ queue = {} /\ required = {} /\ helpful = {}
      /\ bundles' = bundles \o new
  BY DEF EmitBundles, filling
<1>2. bins \in Seq(Bin) /\ bins # <<>>
  BY DEF LossInv, TypeOK, Bin
<1>3. \A k \in DOMAIN bins : B(k).support = taken \cup bins[k].members
  BY BundleSupport
<1>4. DOMAIN bins = 1..Len(bins) /\ Len(bins) \in Nat /\ Len(bins) >= 1
  BY <1>2
<1>5. PICK S : bundles \in Seq(S)
  BY DEF LossInv, Whereabouts
<1> DEFINE T == S \cup {B(k) : k \in DOMAIN bins}
<1>6. new \in Seq(T) /\ Len(new) = Len(bins) /\ \A k \in 1..Len(bins) : new[k] = B(k)
  <2>1. \A k \in DOMAIN bins : B(k) \in T
    OBVIOUS
  <2> HIDE DEF B, T
  <2> QED BY <1>4, <2>1
<1>7. bundles \in Seq(T)
  BY <1>5, SeqMonotonic
<1> HIDE DEF T, new
<1>8. /\ bundles' \in Seq(T)
      /\ Len(bundles') = Len(bundles) + Len(bins)
      /\ \A k \in 1..Len(bundles) : bundles'[k] = bundles[k]
      /\ \A k \in 1..Len(bins) : bundles'[Len(bundles) + k] = B(k)
  <2> HIDE DEF B
  <2>1. /\ bundles' \in Seq(T) /\ Len(bundles') = Len(bundles) + Len(new)
        /\ \A i \in 1..(Len(bundles) + Len(new)) :
             bundles'[i] = IF i <= Len(bundles) THEN bundles[i] ELSE new[i - Len(bundles)]
    <3>1. bundles' = bundles \o new
      BY <1>1
    <3>2. new \in Seq(T) /\ bundles \in Seq(T)
      BY <1>6, <1>7
    <3> QED BY ONLY <3>1, <3>2, ConcatProperties
  <2>2. Len(bundles) \in Nat
    BY <1>7
  <2>3. \A k \in 1..Len(bins) : bundles'[Len(bundles) + k] = new[k]
    BY <1>4, <1>6, <2>1, <2>2
  <2>4. \A k \in 1..Len(bundles) : bundles'[k] = bundles[k]
    BY <1>4, <1>6, <2>1, <2>2
  <2> QED BY <1>6, <2>1, <2>3, <2>4
<1>9. InBundles' = InBundles \cup taken \cup InBins
  <2>1. DOMAIN bundles = 1..Len(bundles) /\ DOMAIN bundles' = 1..Len(bundles') /\ Len(bundles) \in Nat
    BY <1>7, <1>8
  <2>2. ASSUME NEW c \in InBundles' PROVE c \in InBundles \cup taken \cup InBins
    <3>1. PICK i \in DOMAIN bundles' : c \in bundles'[i].support
      BY <2>2 DEF InBundles
    <3>2. CASE i \in 1..Len(bundles)
      BY <1>8, <2>1, <3>1, <3>2 DEF InBundles
    <3>3. CASE i \notin 1..Len(bundles)
      <4>1. i - Len(bundles) \in 1..Len(bins) /\ i = Len(bundles) + (i - Len(bundles))
        BY <1>4, <1>8, <2>1, <3>3
      <4>2. bundles'[i] = B(i - Len(bundles))
        BY <1>8, <4>1
      <4> QED BY <1>3, <1>4, <3>1, <4>1, <4>2 DEF InBins
    <3> QED BY <3>2, <3>3
  <2>3. InBundles \subseteq InBundles'
    BY <1>4, <1>8, <2>1 DEF InBundles
  <2>4. ASSUME NEW k \in DOMAIN bins PROVE taken \cup bins[k].members \subseteq InBundles'
    <3>1. Len(bundles) + k \in DOMAIN bundles' /\ bundles'[Len(bundles) + k].support = taken \cup bins[k].members
      <4> HIDE DEF B
      <4> QED BY <1>3, <1>4, <1>8, <2>1
    <3> QED BY <3>1 DEF InBundles
  <2>5. taken \cup InBins \subseteq InBundles'
    BY <1>4, <2>4 DEF InBins
  <2> QED BY <2>2, <2>3, <2>5
<1>10. Held = taken \cup InBins /\ Held' = {} /\ HeldOnce'
  BY <1>1 DEF Held, HeldOnce
<1>11. Waiting' = Waiting /\ Omitted' = Omitted /\ PairsOK'
  BY <1>1 DEF LossInv, Waiting, Omitted, PairsOK, CandidatesOf
<1>12. \E U : bundles' \in Seq(U)
  BY <1>8
<1> QED BY <1>1, <1>9, <1>10, <1>11, <1>12 DEF LossInv, Whereabouts

\* Every step keeps the whereabouts of all candidates.
LEMMA NextKeepsLoss == LossInv /\ TypeOK' /\ [Next]_vars => LossInv'
<1> SUFFICES ASSUME LossInv, TypeOK', [Next]_vars PROVE LossInv'
  OBVIOUS
<1>1. ASSUME NEW e \in edges, Union(e) PROVE LossInv'
  BY <1>1, LossAlone DEF Union, filling
<1>2. CASE Create
  <2>1. /\ UNCHANGED <<input, pairs, queue, required, helpful, taken, bins, omissions, bundles>>
        /\ phase = "choose" /\ phase' = "done" /\ pairs = {}
    BY <1>2 DEF Create, filling
  <2>2. /\ Waiting' = Waiting /\ InBundles' = InBundles /\ Omitted' = Omitted
        /\ Held = {} /\ Held' = {} /\ HeldOnce' /\ PairsOK'
    BY <2>1 DEF Waiting, Held, InBundles, Omitted, HeldOnce, PairsOK
  <2> QED BY <2>1, <2>2 DEF LossInv, Whereabouts
<1>3. CASE Finished \/ UNCHANGED vars
  BY <1>3, LossAlone DEF Finished, vars, filling
<1> QED
  BY <1>1, <1>2, <1>3, GroupedKeepsLoss, BeginKeepsLoss, ClassifyKeepsLoss, TakeKeepsLoss,
     PlaceKeepsLoss, EmitKeepsLoss DEF Next

\* No candidate is lost, selected and omitted, or omitted twice, whatever the
\* candidates and the budget.
THEOREM EveryCandidateIsAccountedFor == Spec => []NothingIsLost
<1>1. LossInv => NothingIsLost
  <2> SUFFICES ASSUME LossInv, phase = "done" PROVE NothingIsLost
    BY DEF NothingIsLost
  <2>1. Waiting = {} /\ Held = {}
    BY DEF LossInv, Whereabouts, Waiting, Held
  <2>2. Result.segments = InBundles /\ OmittedIn(Result) = Omitted
    BY DEF Result, InBundles, OmittedIn, Omitted
  <2> QED BY <2>1, <2>2 DEF LossInv, Whereabouts, NothingIsLost
<1> QED
  BY <1>1, InitBegins, InitGroups, NextKeepsGroups, InitTyped, NextTyped, InitLoss, NextKeepsLoss, PTL DEF Spec

\* Every plan is made in full, for any units, candidates, sizes and limit.
THEOREM PlansAreMadeInFull == Spec => []PlannedInFull
<1>1. Spec => [](GroupsAreComponents /\ NothingIsLost /\ NoTwoBinsFitOne)
  BY GroupsCorrect, EveryCandidateIsAccountedFor, PackingIsTight, PTL
<1> QED
  BY <1>1, PTL DEF PlannedInFull

-----------------------------------------------------------------------------
(* Sizes.                                                                  *)

\* Sets whose elements correspond one to one have the same size.
LEMMA SameSize ==
  ASSUME NEW S, IsFiniteSet(S), NEW T, NEW f \in [S -> T],
         \A x, y \in S : f[x] = f[y] => x = y, \A t \in T : \E x \in S : f[x] = t
  PROVE  IsFiniteSet(T) /\ Cardinality(T) = Cardinality(S)
<1>1. f \in Surjection(S, T) /\ f \in Injection(S, T)
  BY DEF Surjection, Injection, IsInjective
<1> QED BY <1>1, FS_Surjection

\* Numbers that are shifted are as many.
LEMMA ShiftedSize ==
  ASSUME NEW n \in Nat, NEW m \in Nat, NEW J \in SUBSET (1 .. m)
  PROVE  /\ IsFiniteSet(J)
         /\ IsFiniteSet({n + j : j \in J})
         /\ Cardinality({n + j : j \in J}) = Cardinality(J)
<1> DEFINE f == [j \in J |-> n + j]
           T == {n + j : j \in J}
<1>1. IsFiniteSet(J)
  <2>1. IsFiniteSet(1 .. m)
    BY FS_Interval
  <2> QED BY <2>1, FS_Subset
<1>2. f \in [J -> T] /\ (\A t \in T : \E j \in J : f[j] = t) /\ \A i, j \in J : f[i] = f[j] => i = j
  OBVIOUS
<1> HIDE DEF f, T
<1>3. IsFiniteSet(T) /\ Cardinality(T) = Cardinality(J)
  BY <1>1, <1>2, SameSize
<1> QED BY <1>1, <1>3 DEF T

-----------------------------------------------------------------------------
(* Sums over finite sets.  A proof by induction on a set considers a least   *)
(* subset for which the claim fails.                                         *)

\* A collection of subsets of a finite set has one that contains no other.
LEMMA LeastSubset ==
  ASSUME NEW S, IsFiniteSet(S), NEW B, B \subseteq SUBSET S, B # {}
  PROVE  \E t \in B : \A u \in B : u \subseteq t => u = t
<1> DEFINE R == StrictSubsetOrdering(S)
<1>1. IsWellFoundedOn(R, SUBSET S)
  BY FS_StrictSubsetOrderingWellFounded, FS_FiniteSubsetsOfFinite
<1> HIDE DEF R
<1>2. PICK t \in B : \A u \in B : ~ (<<u, t>> \in R)
  BY <1>1, WFMin
<1>3. \A u \in B : u \subseteq t /\ u # t => <<u, t>> \in R
  BY DEF R, StrictSubsetOrdering
<1>4. \A u \in B : u \subseteq t => u = t
  BY <1>2, <1>3
<1> QED
  BY <1>4

\* an element of a set, the same whenever it is asked for
Pick(s) == CHOOSE x \in s : TRUE

\* f is the sum of w on every subset of S, made as the fold makes it
IsSum(w, S, f) ==
  f = [s \in SUBSET S |-> IF s = {} THEN 0 ELSE w[Pick(s)] + f[s \ {Pick(s)}]]

Total(w, S) == (CHOOSE f : IsSum(w, S, f))[S]

\* Pick() picks an element.
LEMMA PickIn ==
  ASSUME NEW s, s # {}
  PROVE  Pick(s) \in s
BY DEF Pick

\* one step of the sum
LEMMA SumStep ==
  ASSUME NEW w, NEW S, NEW f, IsSum(w, S, f), NEW s \in SUBSET S
  PROVE  f[s] = IF s = {} THEN 0 ELSE w[Pick(s)] + f[s \ {Pick(s)}]
BY DEF IsSum

\* The sum of a set does not depend on what it is a subset of.
LEMMA SumUnique ==
  ASSUME NEW w, NEW S, IsFiniteSet(S), NEW T, NEW f, NEW g, IsSum(w, S, f), IsSum(w, T, g),
         NEW s \in SUBSET S, s \in SUBSET T
  PROVE  f[s] = g[s]
<1> DEFINE B == {t \in SUBSET S : t \subseteq T /\ f[t] # g[t]}
<1> SUFFICES ASSUME B # {} PROVE FALSE
  OBVIOUS
<1>1. PICK t \in B : \A u \in B : u \subseteq t => u = t
  <2> HIDE DEF B
  <2>1. B \subseteq SUBSET S
    BY DEF B
  <2> QED
    BY <2>1, LeastSubset
<1>2. t \in SUBSET S /\ t \in SUBSET T /\ f[t] # g[t]
  OBVIOUS
<1>3. t # {}
  BY <1>2, SumStep
<1> DEFINE u == t \ {Pick(t)}
<1>4. f[u] = g[u]
  BY <1>1, <1>2, <1>3, PickIn
<1>5. f[t] = w[Pick(t)] + f[u]
  BY <1>2, <1>3, SumStep
<1>6. g[t] = w[Pick(t)] + g[u]
  BY <1>2, <1>3 DEF IsSum
<1> QED
  BY <1>2, <1>4, <1>5, <1>6

\* A sum on the subsets of S is one on the subsets of a part of S.
LEMMA SumOfPart ==
  ASSUME NEW w, NEW S, NEW f, IsSum(w, S, f), NEW T \in SUBSET S
  PROVE  IsSum(w, T, [s \in SUBSET T |-> f[s]])
<1> DEFINE g == [s \in SUBSET T |-> f[s]]
<1>1. ASSUME NEW s \in SUBSET T
      PROVE  g[s] = IF s = {} THEN 0 ELSE w[Pick(s)] + g[s \ {Pick(s)}]
  <2>1. g[s] = f[s] /\ g[s \ {Pick(s)}] = f[s \ {Pick(s)}]
    OBVIOUS
  <2>2. s \in SUBSET S
    OBVIOUS
  <2> QED
    BY <2>1, <2>2, SumStep
<1>2. g = [s \in SUBSET T |-> g[s]]
  OBVIOUS
<1> HIDE DEF g
<1>3. g = [s \in SUBSET T |-> IF s = {} THEN 0 ELSE w[Pick(s)] + g[s \ {Pick(s)}]]
  BY <1>1, <1>2
<1> QED
  BY <1>3 DEF IsSum, g

\* Every solution says of a part of a set the same.
LEMMA TotalIsSum ==
  ASSUME NEW w, NEW S, IsFiniteSet(S), NEW f, IsSum(w, S, f), NEW T \in SUBSET S
  PROVE  Total(w, T) = f[T]
<1>1. IsFiniteSet(T)
  BY FS_Subset
<1>2. IsSum(w, T, CHOOSE g : IsSum(w, T, g))
  <2>1. \E g : IsSum(w, T, g)
    BY SumOfPart
  <2> QED
    BY <2>1
<1> QED
  BY <1>1, <1>2, SumUnique DEF Total

\* The recursion has a solution.
LEMMA SumExists ==
  ASSUME NEW w, NEW S, IsFiniteSet(S)
  PROVE  \E f : IsSum(w, S, f)
<1> DEFINE B == {t \in SUBSET S : ~ \E f : IsSum(w, t, f)}
<1> SUFFICES ASSUME B # {} PROVE FALSE
  OBVIOUS
<1>1. PICK t \in B : \A u \in B : u \subseteq t => u = t
  <2> HIDE DEF B
  <2>1. B \subseteq SUBSET S
    BY DEF B
  <2> QED
    BY <2>1, LeastSubset
<1>2. t \in SUBSET S /\ ~ \E f : IsSum(w, t, f)
  OBVIOUS
<1>3. ASSUME NEW u \in SUBSET t, u # t PROVE IsFiniteSet(u) /\ \E f : IsSum(w, u, f)
  BY <1>1, <1>2, <1>3, FS_Subset
<1> DEFINE top == IF t = {} THEN 0 ELSE w[Pick(t)] + Total(w, t \ {Pick(t)})
           h == [u \in SUBSET t |-> IF u = t THEN top ELSE Total(w, u)]
<1>4. ASSUME NEW u \in SUBSET t
      PROVE  h[u] = IF u = {} THEN 0 ELSE w[Pick(u)] + h[u \ {Pick(u)}]
  <2>1. u # {} => Pick(u) \in u
    BY PickIn
  <2>2. CASE u = t
    <3>1. h[t] = top
      OBVIOUS
    <3>2. t # {} => h[t \ {Pick(t)}] = Total(w, t \ {Pick(t)})
      BY <2>1, <2>2
    <3> QED
      BY <2>2, <3>1, <3>2
  <2>3. CASE u # t
    <3>1. PICK f : IsSum(w, u, f)
      BY <1>3, <2>3
    <3>2. Total(w, u) = f[u] /\ Total(w, u \ {Pick(u)}) = f[u \ {Pick(u)}]
      BY <1>3, <2>3, <3>1, TotalIsSum
    <3>3. f[u] = IF u = {} THEN 0 ELSE w[Pick(u)] + f[u \ {Pick(u)}]
      BY <3>1, SumStep
    <3>4. h[u] = Total(w, u) /\ (u # {} => h[u \ {Pick(u)}] = Total(w, u \ {Pick(u)}))
      BY <2>1, <2>3
    <3> QED
      BY <3>2, <3>3, <3>4
  <2> QED
    BY <2>2, <2>3
<1>5. h = [u \in SUBSET t |-> h[u]]
  OBVIOUS
<1> HIDE DEF h
<1>6. h = [u \in SUBSET t |-> IF u = {} THEN 0 ELSE w[Pick(u)] + h[u \ {Pick(u)}]]
  BY <1>4, <1>5
<1> QED
  BY <1>2, <1>6 DEF IsSum

\* The total of a set is that of one element and the rest.
LEMMA TotalStep ==
  ASSUME NEW w, NEW S, IsFiniteSet(S)
  PROVE  Total(w, S) = IF S = {} THEN 0 ELSE w[Pick(S)] + Total(w, S \ {Pick(S)})
<1>1. PICK f : IsSum(w, S, f)
  BY SumExists
<1>2. Total(w, S) = f[S] /\ Total(w, S \ {Pick(S)}) = f[S \ {Pick(S)}]
  BY <1>1, TotalIsSum
<1> QED
  BY <1>1, <1>2, SumStep

\* A sum of numbers is a number.
LEMMA TotalTyped ==
  ASSUME NEW D, NEW w \in [D -> Nat], NEW S \in SUBSET D, IsFiniteSet(S)
  PROVE  Total(w, S) \in Nat
<1> DEFINE B == {t \in SUBSET S : Total(w, t) \notin Nat}
<1> SUFFICES ASSUME B # {} PROVE FALSE
  OBVIOUS
<1>1. PICK t \in B : \A u \in B : u \subseteq t => u = t
  <2> HIDE DEF B
  <2>1. B \subseteq SUBSET S
    BY DEF B
  <2> QED
    BY <2>1, LeastSubset
<1>2. IsFiniteSet(t) /\ t \in SUBSET S /\ Total(w, t) \notin Nat
  BY FS_Subset
<1>3. t # {} /\ Total(w, t) = w[Pick(t)] + Total(w, t \ {Pick(t)})
  BY <1>2, TotalStep
<1>4. Total(w, t \ {Pick(t)}) \in Nat /\ Pick(t) \in t
  BY <1>1, <1>2, <1>3, PickIn
<1> QED
  BY <1>2, <1>3, <1>4

\* The order of the terms does not matter.
LEMMA TotalWithout ==
  ASSUME NEW D, NEW w \in [D -> Nat], NEW S \in SUBSET D, IsFiniteSet(S), NEW c \in S
  PROVE  Total(w, S) = w[c] + Total(w, S \ {c})
<1> DEFINE B == {t \in SUBSET S : \E x \in t : Total(w, t) # w[x] + Total(w, t \ {x})}
<1> SUFFICES ASSUME B # {} PROVE FALSE
  OBVIOUS
<1>1. PICK t \in B : \A u \in B : u \subseteq t => u = t
  <2> HIDE DEF B
  <2>1. B \subseteq SUBSET S
    BY DEF B
  <2> QED
    BY <2>1, LeastSubset
<1>2. IsFiniteSet(t) /\ t \in SUBSET S
  BY FS_Subset
<1>3. PICK x \in t : Total(w, t) # w[x] + Total(w, t \ {x})
  OBVIOUS
<1> DEFINE y == Pick(t)
<1>4. y \in t /\ Total(w, t) = w[y] + Total(w, t \ {y})
  BY <1>2, <1>3, TotalStep, PickIn
<1>5. x # y
  BY <1>3, <1>4
<1>6. \A u \in SUBSET t : u # t => \A z \in u : Total(w, u) = w[z] + Total(w, u \ {z})
  BY <1>1, <1>2
<1> HIDE DEF B, y
<1>7. Total(w, t \ {y}) = w[x] + Total(w, (t \ {y}) \ {x})
  BY <1>4, <1>5, <1>6
<1>8. Total(w, t \ {x}) = w[y] + Total(w, (t \ {x}) \ {y})
  BY <1>4, <1>5, <1>6
<1> DEFINE rest == Total(w, (t \ {x}) \ {y})
<1>9. Total(w, (t \ {y}) \ {x}) = rest
  <2>1. (t \ {y}) \ {x} = (t \ {x}) \ {y}
    OBVIOUS
  <2> QED
    BY <2>1
<1>10. w[x] \in Nat /\ w[y] \in Nat /\ rest \in Nat
  <2>1. (t \ {x}) \ {y} \in SUBSET D /\ IsFiniteSet((t \ {x}) \ {y})
    BY <1>2, FS_Subset
  <2> QED
    BY <1>2, <1>4, <2>1, TotalTyped
<1> HIDE DEF rest
<1>11. Total(w, t) = w[y] + (w[x] + rest)
  BY <1>4, <1>7, <1>9
<1>12. w[x] + Total(w, t \ {x}) = w[x] + (w[y] + rest)
  BY <1>8 DEF rest
<1> QED
  BY <1>3, <1>10, <1>11, <1>12

\* And by adding one.
LEMMA TotalWith ==
  ASSUME NEW D, NEW w \in [D -> Nat], NEW S \in SUBSET D, IsFiniteSet(S), NEW c \in D, c \notin S
  PROVE  Total(w, S \cup {c}) = Total(w, S) + w[c]
<1> DEFINE T == S \cup {c}
<1>1. IsFiniteSet(T) /\ T \in SUBSET D /\ c \in T /\ T \ {c} = S
  BY FS_AddElement
<1>2. Total(w, T) = w[c] + Total(w, T \ {c})
  <2> HIDE DEF T
  <2> QED
    BY <1>1, TotalWithout
<1>3. Total(w, S) \in Nat /\ w[c] \in Nat
  BY TotalTyped
<1>4. Total(w, T) = w[c] + Total(w, S)
  BY <1>1, <1>2
<1> QED
  BY <1>3, <1>4

\* More is not less.
LEMMA TotalGrows ==
  ASSUME NEW D, NEW w \in [D -> Nat], NEW S \in SUBSET D, IsFiniteSet(S), NEW T \in SUBSET S
  PROVE  Total(w, T) <= Total(w, S)
<1> DEFINE B == {t \in SUBSET S : T \subseteq t /\ ~(Total(w, T) <= Total(w, t))}
<1> SUFFICES ASSUME B # {} PROVE FALSE
  OBVIOUS
<1>1. PICK t \in B : \A u \in B : u \subseteq t => u = t
  <2> HIDE DEF B
  <2>1. B \subseteq SUBSET S
    BY DEF B
  <2> QED
    BY <2>1, LeastSubset
<1>2. IsFiniteSet(t) /\ t \in SUBSET S /\ T \subseteq t /\ ~(Total(w, T) <= Total(w, t))
  BY FS_Subset
<1>3. Total(w, t) \in Nat /\ Total(w, T) \in Nat
  BY <1>2, FS_Subset, TotalTyped
<1>4. PICK x \in t : x \notin T
  BY <1>2, <1>3
<1>5. Total(w, T) <= Total(w, t \ {x})
  BY <1>1, <1>2, <1>4
<1>6. Total(w, t) = w[x] + Total(w, t \ {x}) /\ w[x] \in Nat /\ Total(w, t \ {x}) \in Nat
  <2>1. t \ {x} \in SUBSET D /\ IsFiniteSet(t \ {x})
    BY <1>2, FS_Subset
  <2> QED
    BY <1>2, <1>4, <2>1, TotalWithout, TotalTyped
<1> QED
  BY <1>2, <1>3, <1>5, <1>6

-----------------------------------------------------------------------------
(* Dispatch.                                                               *)

\* the tokens of each candidate
CandidateTokens(in) == [c \in DOMAIN in.candidates |-> in.candidates[c].tokens]

\* the required candidates of a group and question
Needed(g, q) == {c \in CandidatesOf(input, g, q) : input.candidates[c].necessity = "required"}

\* what DispatchIffSufficient asks of the bundles of a group and question
Sufficient(g, q) ==
  /\ ~input.blocked
  /\ \A c \in Needed(g, q) : Eligible(input, c)
  /\ input.weight[g] + TokensOf(input, Needed(g, q)) <= input.limit

\* Within a question every required candidate is queued, waiting to be taken,
\* taken or missing; the budget in use is that of what was taken, which fits;
\* and if one is missing, the context of the question is not sufficient.
FillOK ==
  LET g == at[1]
      q == at[2]
  IN /\ g \in SUBSET Primary /\ g # {}
     /\ queue \subseteq CandidatesOf(input, g, q)
     /\ required \subseteq Needed(g, q) /\ taken \subseteq Needed(g, q) /\ missing \subseteq Needed(g, q)
     /\ Needed(g, q) \subseteq queue \cup required \cup taken \cup missing
     /\ \A c \in required \cup taken : Refusal(input, g, c) = "none"
     /\ used = TokensOf(input, taken)
     /\ taken # {} => input.weight[g] + used <= input.limit
     /\ missing # {} => ~Sufficient(g, q)

PairsAreGroups == \A pair \in pairs : pair[1] # {}

DispatchInv ==
  /\ PairsAreGroups
  /\ phase = "fill" => FillOK
  /\ DispatchIffSufficient

\* TokensOf is the sum of the tokens.
LEMMA TokensAreTotal ==
  ASSUME NEW in, NEW S \in SUBSET DOMAIN in.candidates
  PROVE  TokensOf(in, S) = Total(CandidateTokens(in), S)
<1> DEFINE F(f) == f = [s \in SUBSET S |->
                          IF s = {} THEN 0 ELSE in.candidates[Pick(s)].tokens + f[s \ {Pick(s)}]]
<1>1. TokensOf(in, S) = (CHOOSE f : F(f))[S]
  BY DEF TokensOf, MapThenSumSet, MapThenFoldSet, Pick
<1>2. ASSUME NEW s \in SUBSET S, s # {}
      PROVE  CandidateTokens(in)[Pick(s)] = in.candidates[Pick(s)].tokens
  BY <1>2, PickIn DEF CandidateTokens
<1>3. ASSUME NEW f
      PROVE  [s \in SUBSET S |->
                IF s = {} THEN 0 ELSE in.candidates[Pick(s)].tokens + f[s \ {Pick(s)}]]
             = [s \in SUBSET S |->
                  IF s = {} THEN 0 ELSE CandidateTokens(in)[Pick(s)] + f[s \ {Pick(s)}]]
  BY <1>2
<1>4. \A f : F(f) <=> IsSum(CandidateTokens(in), S, f)
  BY <1>3 DEF IsSum
<1>5. (CHOOSE f : F(f)) = (CHOOSE f : IsSum(CandidateTokens(in), S, f))
  <2> HIDE DEF F
  <2> QED
    BY <1>4
<1> QED
  BY <1>1, <1>5 DEF Total

\* What the sums of tokens have in common with all sums.
LEMMA TokensSum ==
  ASSUME NEW in, WellFormed(in), NEW S \in SUBSET DOMAIN in.candidates
  PROVE  /\ TokensOf(in, {}) = 0
         /\ TokensOf(in, S) \in Nat
         /\ \A T \in SUBSET S : TokensOf(in, T) <= TokensOf(in, S)
         /\ \A c \in DOMAIN in.candidates \ S :
              TokensOf(in, S \cup {c}) = TokensOf(in, S) + in.candidates[c].tokens
<1> DEFINE D == DOMAIN in.candidates
           w == CandidateTokens(in)
<1>1. w \in [D -> Nat] /\ \A c \in D : w[c] = in.candidates[c].tokens
  BY CandidateTyped DEF CandidateTokens
<1>2. IsFiniteSet(D) /\ IsFiniteSet(S)
  BY FS_Subset DEF WellFormed
<1>3. TokensOf(in, {}) = 0
  <2>1. TokensOf(in, {}) = Total(w, {})
    BY TokensAreTotal
  <2>2. Total(w, {}) = 0
    BY TotalStep, FS_EmptySet
  <2> QED
    BY <2>1, <2>2
<1>4. \A T \in SUBSET D : TokensOf(in, T) = Total(w, T)
  BY TokensAreTotal
<1> HIDE DEF D, w
<1>5. S \in SUBSET D
  BY DEF D
<1>6. Total(w, S) \in Nat
  BY <1>1, <1>2, <1>5, TotalTyped
<1>7. \A T \in SUBSET S : Total(w, T) <= Total(w, S)
  BY <1>1, <1>2, <1>5, TotalGrows
<1>8. \A c \in D \ S : Total(w, S \cup {c}) = Total(w, S) + w[c]
  BY <1>1, <1>2, <1>5, TotalWith
<1>9. \A c \in D \ S : TokensOf(in, S \cup {c}) = TokensOf(in, S) + in.candidates[c].tokens
  <2> TAKE c \in D \ S
  <2>1. S \cup {c} \in SUBSET D
    BY <1>5
  <2> QED
    BY <1>1, <1>4, <1>5, <1>8, <2>1
<1>10. \A T \in SUBSET S : TokensOf(in, T) <= TokensOf(in, S)
  <2> TAKE T \in SUBSET S
  <2>1. T \in SUBSET D
    BY <1>5
  <2> QED
    BY <1>4, <1>5, <1>7, <2>1
<1> QED
  BY <1>3, <1>4, <1>5, <1>6, <1>9, <1>10 DEF D

\* The required candidates of a question are candidates, and without any the
\* budget is the one of the Primaries.
LEMMA NeededTyped ==
  ASSUME WellFormed(input), NEW g \in SUBSET Primary, NEW q
  PROVE  /\ Needed(g, q) \subseteq CandidatesOf(input, g, q)
         /\ CandidatesOf(input, g, q) \subseteq DOMAIN input.candidates
         /\ input.weight[g] \in Nat /\ input.limit \in Nat
BY DEF Needed, CandidatesOf, WellFormed

\* A required candidate that is refused is a reason not to dispatch.
LEMMA RefusedIsInsufficient ==
  ASSUME WellFormed(input), NEW g \in SUBSET Primary, NEW q, NEW c \in Needed(g, q),
         Refusal(input, g, c) # "none"
  PROVE  ~Sufficient(g, q)
<1>1. Needed(g, q) \subseteq DOMAIN input.candidates
  BY NeededTyped
<1>2. input.candidates[c].necessity = "required"
  BY DEF Needed
<1>3. \/ ~Eligible(input, c)
      \/ input.blocked
      \/ Overflows(input, g)
  BY <1>2 DEF Refusal, Eligible, Proper
<1>4. TokensOf(input, Needed(g, q)) \in Nat
  BY <1>1, TokensSum
<1>5. Overflows(input, g) => ~(input.weight[g] + TokensOf(input, Needed(g, q)) <= input.limit)
  BY <1>4, NeededTyped DEF Overflows
<1> QED
  BY <1>3, <1>5 DEF Sufficient

\* Steps that leave a question's required candidates alone.
LEMMA DispatchAlone ==
  ASSUME DispatchInv,
         UNCHANGED <<input, pairs, at, queue, required, taken, used, missing, bundles>>,
         phase' = "fill" => phase = "fill"
  PROVE  DispatchInv'
<1>1. PairsAreGroups'
  BY DEF DispatchInv, PairsAreGroups
<1>2. phase' = "fill" => FillOK'
  BY DEF DispatchInv, FillOK, Needed, Sufficient
<1>3. DispatchIffSufficient'
  BY DEF DispatchInv, DispatchIffSufficient
<1> QED
  BY <1>1, <1>2, <1>3 DEF DispatchInv

\* In the beginning there is no bundle.
LEMMA InitDispatch == Begins => DispatchInv
<1> SUFFICES ASSUME Begins PROVE DispatchInv
  OBVIOUS
<1>1. pairs = {} /\ phase = "group" /\ bundles = <<>>
  BY DEF Begins
<1>2. DispatchIffSufficient
  BY <1>1 DEF DispatchIffSufficient
<1> QED
  BY <1>1, <1>2 DEF DispatchInv, PairsAreGroups

\* The bundles there are stay as they are.
LEMMA DispatchedAlone ==
  ASSUME DispatchIffSufficient, UNCHANGED <<input, bundles>>
  PROVE  DispatchIffSufficient'
BY DEF DispatchIffSufficient

\* No group is empty.
LEMMA GroupedKeepsDispatch ==
  ASSUME DispatchInv, Grouped
  PROVE  DispatchInv'
<1>1. \A g \in Groups(root) : g # {}
  BY DEF Groups
<1>2. PairsAreGroups'
  BY <1>1 DEF Grouped, PairsAreGroups
<1>3. phase' = "choose" /\ UNCHANGED <<input, bundles>>
  BY DEF Grouped
<1> QED
  BY <1>2, <1>3, DispatchedAlone DEF DispatchInv

\* BeginQuestion() makes none.
LEMMA BeginKeepsDispatch ==
  ASSUME DispatchInv, TypeOK, NEW pair \in pairs, BeginQuestion(pair[1], pair[2])
  PROVE  DispatchInv'
<1>1. /\ pair[1] \in SUBSET Primary /\ pair[1] # {} /\ pair \in (SUBSET Primary) \X Question
      /\ WellFormed(input)
  BY DEF DispatchInv, PairsAreGroups, TypeOK
<1>2. /\ UNCHANGED <<input, bundles>> /\ pairs' \subseteq pairs
      /\ at' = <<pair[1], pair[2]>> /\ queue' = CandidatesOf(input, pair[1], pair[2])
      /\ required' = {} /\ taken' = {} /\ missing' = {} /\ used' = 0
  BY DEF BeginQuestion
<1>3. Needed(pair[1], pair[2]) \subseteq CandidatesOf(input, pair[1], pair[2])
  BY <1>1, NeededTyped
<1>4. TokensOf(input, {}) = 0
  BY <1>1, TokensSum
<1>5. FillOK'
  BY <1>1, <1>2, <1>3, <1>4 DEF FillOK, Needed
<1> QED
  BY <1>2, <1>5, DispatchedAlone DEF DispatchInv, PairsAreGroups

\* A candidate that is not required does not count; a required one is either
\* good so far or a reason not to dispatch.
LEMMA ClassifyKeepsDispatch ==
  ASSUME DispatchInv, TypeOK, NEW c \in Candidate, Classify(c)
  PROVE  DispatchInv'
<1> DEFINE g == at[1]
           q == at[2]
<1>1. /\ UNCHANGED <<input, pairs, phase, at, taken, used, bundles>> /\ phase = "fill"
      /\ queue' = queue \ {c} /\ c \in queue
  BY DEF Classify, IsFirst
<1>2. FillOK /\ WellFormed(input)
  BY <1>1 DEF DispatchInv, TypeOK
<1>3. /\ g \in SUBSET Primary /\ c \in CandidatesOf(input, g, q)
      /\ c \in Needed(g, q) <=> input.candidates[c].necessity = "required"
  BY <1>1, <1>2 DEF FillOK, Needed
<1>4. CASE Refusal(input, g, c) # "none"
  <2>1. /\ UNCHANGED required
        /\ missing' = IF c \in Needed(g, q) THEN missing \cup {c} ELSE missing
    BY <1>3, <1>4 DEF Classify
  <2>2. c \in Needed(g, q) => ~Sufficient(g, q)
    BY <1>2, <1>3, <1>4, RefusedIsInsufficient
  <2>3. missing' # {} => ~Sufficient(g, q)
    BY <1>2, <2>1, <2>2 DEF FillOK
  <2>4. FillOK'
    BY <1>1, <1>2, <1>3, <2>1, <2>3 DEF FillOK, Needed, Sufficient
  <2> QED
    BY <1>1, <2>4, DispatchedAlone DEF DispatchInv, PairsAreGroups
<1>5. CASE Refusal(input, g, c) = "none"
  <2>1. /\ UNCHANGED missing
        /\ required' = IF c \in Needed(g, q) THEN required \cup {c} ELSE required
    BY <1>3, <1>5 DEF Classify
  <2>2. FillOK'
    BY <1>1, <1>2, <1>3, <1>5, <2>1 DEF FillOK, Needed, Sufficient
  <2> QED
    BY <1>1, <2>2, DispatchedAlone DEF DispatchInv, PairsAreGroups
<1> QED
  BY <1>4, <1>5

\* What does not fit beside the required candidates taken so far does not fit
\* beside all of them.
LEMMA TakeKeepsDispatch ==
  ASSUME DispatchInv, TypeOK, HeldOnce, NEW c \in Candidate, TakeRequired(c)
  PROVE  DispatchInv'
<1> DEFINE g == at[1]
           q == at[2]
           tokens == input.candidates[c].tokens
<1>1. /\ UNCHANGED <<input, pairs, phase, at, queue, bundles>> /\ phase = "fill"
      /\ required' = required \ {c} /\ c \in required
  BY DEF TakeRequired, IsFirst
<1>2. FillOK /\ WellFormed(input) /\ c \notin taken
  BY <1>1 DEF DispatchInv, TypeOK, HeldOnce
<1>3. /\ g \in SUBSET Primary /\ c \in Needed(g, q) /\ taken \subseteq Needed(g, q)
      /\ Needed(g, q) \subseteq DOMAIN input.candidates
  BY <1>1, <1>2, NeededTyped DEF FillOK
<1>4. /\ tokens \in Nat /\ TokensOf(input, taken) \in Nat
      /\ TokensOf(input, taken \cup {c}) = TokensOf(input, taken) + tokens
      /\ TokensOf(input, taken \cup {c}) <= TokensOf(input, Needed(g, q))
      /\ TokensOf(input, Needed(g, q)) \in Nat
  <2>1. tokens \in Nat
    BY <1>2, <1>3, CandidateTyped
  <2>2. taken \in SUBSET DOMAIN input.candidates /\ c \in DOMAIN input.candidates \ taken
    BY <1>2, <1>3
  <2>3. taken \cup {c} \in SUBSET Needed(g, q)
    BY <1>3
  <2> HIDE DEF tokens, g, q
  <2>4. /\ TokensOf(input, taken) \in Nat
        /\ TokensOf(input, taken \cup {c}) = TokensOf(input, taken) + input.candidates[c].tokens
    BY <1>2, <2>2, TokensSum
  <2>5. /\ TokensOf(input, Needed(g, q)) \in Nat
        /\ TokensOf(input, taken \cup {c}) <= TokensOf(input, Needed(g, q))
    BY <1>2, <1>3, <2>3, TokensSum
  <2> QED
    BY <2>1, <2>4, <2>5 DEF tokens
<1>5. /\ input.weight[g] \in Nat /\ input.limit \in Nat
      /\ used = TokensOf(input, taken)
  BY <1>2, <1>3, NeededTyped DEF FillOK
<1>6. Fits(tokens, 0) <=> input.weight[g] + (used + tokens) <= input.limit
  BY <1>4, <1>5 DEF Fits
<1>7. CASE Fits(tokens, 0)
  <2>1. taken' = taken \cup {c} /\ used' = used + tokens /\ UNCHANGED missing
    BY <1>7 DEF TakeRequired
  <2>2. input.weight[g] + used' <= input.limit /\ used' = TokensOf(input, taken')
    BY <1>4, <1>5, <1>6, <1>7, <2>1
  <2> HIDE DEF tokens
  <2>3. FillOK'
    BY <1>1, <1>2, <1>3, <2>1, <2>2 DEF FillOK, Needed, Sufficient
  <2> QED
    BY <1>1, <2>3, DispatchedAlone DEF DispatchInv, PairsAreGroups
<1>8. CASE ~Fits(tokens, 0)
  <2>1. missing' = missing \cup {c} /\ UNCHANGED <<taken, used>>
    BY <1>8 DEF TakeRequired
  <2>2. ~(input.weight[g] + TokensOf(input, Needed(g, q)) <= input.limit)
    <3> HIDE DEF tokens, g, q
    <3> QED
      BY <1>4, <1>5, <1>6, <1>8
  <2>3. ~Sufficient(g, q)
    BY <2>2 DEF Sufficient
  <2>4. FillOK'
    BY <1>1, <1>2, <1>3, <2>1, <2>3 DEF FillOK, Needed, Sufficient
  <2> QED
    BY <1>1, <2>4, DispatchedAlone DEF DispatchInv, PairsAreGroups
<1> QED
  BY <1>7, <1>8

\* With nothing queued, a question has no blocker exactly if its context is
\* sufficient.
LEMMA BlockersAreInsufficiency ==
  ASSUME TypeOK, FillOK, queue = {}, required = {}
  PROVE  Insufficient(input, at[1], missing) = {} <=> Sufficient(at[1], at[2])
<1> DEFINE g == at[1]
           q == at[2]
<1>1. /\ WellFormed(input) /\ g \in SUBSET Primary /\ g # {}
      /\ input.weight[g] \in Nat /\ input.limit \in Nat
      /\ taken \subseteq Needed(g, q) /\ Needed(g, q) \subseteq taken \cup missing
      /\ Needed(g, q) \subseteq DOMAIN input.candidates
  BY NeededTyped DEF TypeOK, FillOK
<1>2. Insufficient(input, g, missing) = {} <=> ~input.blocked /\ ~Overflows(input, g) /\ missing = {}
  <2> HIDE DEF g
  <2>1. {<<"primary", p>> : p \in g} # {}
    BY <1>1
  <2>2. {<<"candidate", c>> : c \in missing} = {} <=> missing = {}
    OBVIOUS
  <2> QED
    BY <2>1, <2>2 DEF Insufficient
<1>3. TokensOf(input, Needed(g, q)) \in Nat /\ TokensOf(input, {}) = 0
  <2> HIDE DEF g, q
  <2> QED
    BY <1>1, TokensSum
<1>4. ASSUME ~input.blocked, ~Overflows(input, g), missing = {}
      PROVE  Sufficient(g, q)
  <2>1. taken = Needed(g, q)
    BY <1>1, <1>4
  <2>2. \A c \in Needed(g, q) : Eligible(input, c)
    BY <2>1 DEF FillOK, Refusal, Eligible, Proper
  <2>3. input.weight[g] <= input.limit
    <3> HIDE DEF g
    <3> QED
      BY <1>1, <1>4 DEF Overflows
  <2>4. input.weight[g] + TokensOf(input, Needed(g, q)) <= input.limit
    <3>1. CASE taken = {}
      <4> HIDE DEF g, q
      <4> QED
        BY <1>1, <1>3, <2>1, <2>3, <3>1
    <3>2. CASE taken # {}
      BY <2>1, <3>2 DEF FillOK
    <3> QED
      BY <3>1, <3>2
  <2> QED
    BY <1>4, <2>2, <2>4 DEF Sufficient
<1>5. ASSUME Sufficient(g, q)
      PROVE  ~input.blocked /\ ~Overflows(input, g) /\ missing = {}
  <2>1. missing = {} /\ ~input.blocked
    BY <1>5 DEF FillOK, Sufficient
  <2>2. input.weight[g] + TokensOf(input, Needed(g, q)) <= input.limit
    BY <1>5 DEF Sufficient
  <2> HIDE DEF g, q
  <2>3. ~Overflows(input, g)
    BY <1>1, <1>3, <2>2 DEF Overflows
  <2> QED
    BY <2>1, <2>3
<1> QED
  BY <1>2, <1>4, <1>5

\* EmitBundles() adds one bundle for each bin.
LEMMA Emitted ==
  ASSUME LossInv, EmitBundles, NEW i \in DOMAIN bundles'
  PROVE  \/ \E k \in DOMAIN bundles : bundles'[i] = bundles[k]
         \/ \E k \in DOMAIN bins :
              bundles'[i] = Bundle(input, at[1], at[2], taken \cup bins[k].members, degraded, missing)
<1> DEFINE B(k) == Bundle(input, at[1], at[2], taken \cup bins[k].members, degraded, missing)
           new == [k \in DOMAIN bins |-> B(k)]
<1>1. bins \in Seq(Bin) /\ bundles' = bundles \o new
  BY DEF EmitBundles, LossInv, TypeOK, Bin
<1>2. DOMAIN bins = 1..Len(bins) /\ Len(bins) \in Nat
  BY <1>1
<1>3. PICK S : bundles \in Seq(S)
  BY DEF LossInv, Whereabouts
<1> DEFINE T == S \cup {B(k) : k \in DOMAIN bins}
<1>4. new \in Seq(T) /\ Len(new) = Len(bins) /\ \A k \in 1..Len(bins) : new[k] = B(k)
  <2>1. \A k \in DOMAIN bins : B(k) \in T
    OBVIOUS
  <2> HIDE DEF B, T
  <2> QED
    BY <1>2, <2>1
<1>5. bundles \in Seq(T)
  BY <1>3, SeqMonotonic
<1> HIDE DEF B, T, new
<1>6. /\ bundles' \in Seq(T) /\ Len(bundles') = Len(bundles) + Len(new)
      /\ \A j \in 1..(Len(bundles) + Len(new)) :
           bundles'[j] = IF j <= Len(bundles) THEN bundles[j] ELSE new[j - Len(bundles)]
  <2>1. bundles' = bundles \o new
    BY <1>1
  <2>2. new \in Seq(T) /\ bundles \in Seq(T)
    BY <1>4, <1>5
  <2> QED
    BY ONLY <2>1, <2>2, ConcatProperties
<1>7. /\ DOMAIN bundles = 1..Len(bundles) /\ DOMAIN bundles' = 1..Len(bundles')
      /\ Len(bundles) \in Nat
  BY <1>5, <1>6
<1>8. CASE i <= Len(bundles)
  BY <1>6, <1>7, <1>8
<1>9. CASE ~(i <= Len(bundles))
  <2>1. i - Len(bundles) \in DOMAIN bins /\ bundles'[i] = new[i - Len(bundles)]
    BY <1>2, <1>4, <1>6, <1>7, <1>9
  <2> QED
    BY <1>2, <1>4, <2>1 DEF B
<1> QED
  BY <1>8, <1>9

\* The bundles of a question may be dispatched exactly if its context is
\* sufficient.
LEMMA EmitKeepsDispatch ==
  ASSUME DispatchInv, LossInv, EmitBundles
  PROVE  DispatchInv'
<1> DEFINE B(k) == Bundle(input, at[1], at[2], taken \cup bins[k].members, degraded, missing)
           new == [k \in DOMAIN bins |-> B(k)]
<1>1. /\ UNCHANGED <<input, pairs>> /\ phase = "fill" /\ phase' = "choose"
      /\ queue = {} /\ required = {} /\ bundles' = bundles \o new
  BY DEF EmitBundles
<1>2. TypeOK /\ FillOK
  BY <1>1 DEF DispatchInv, LossInv
<1>3. \A k \in DOMAIN bins :
        B(k).group = at[1] /\ B(k).question = at[2]
          /\ B(k).dispatch_allowed = (Insufficient(input, at[1], missing) = {})
  BY DEF Bundle
<1>4. \A k \in DOMAIN bins : B(k).dispatch_allowed <=> Sufficient(B(k).group, B(k).question)
  BY <1>1, <1>2, <1>3, BlockersAreInsufficiency
<1>5. \A k \in DOMAIN bundles :
        bundles[k].dispatch_allowed <=> Sufficient(bundles[k].group, bundles[k].question)
  BY DEF DispatchInv, DispatchIffSufficient, Sufficient, Needed
<1>6. ASSUME NEW i \in DOMAIN bundles'
      PROVE  \/ \E k \in DOMAIN bundles : bundles'[i] = bundles[k]
             \/ \E k \in DOMAIN bins : bundles'[i] = B(k)
  BY Emitted
<1>7. \A i \in DOMAIN bundles' :
        bundles'[i].dispatch_allowed <=> Sufficient(bundles'[i].group, bundles'[i].question)
  <2> HIDE DEF B
  <2> QED
    BY <1>4, <1>5, <1>6
<1>8. DispatchIffSufficient'
  <2>1. ASSUME NEW i \in DOMAIN bundles'
        PROVE  LET b == bundles'[i]
                   needed == {c \in CandidatesOf(input', b.group, b.question) :
                                input'.candidates[c].necessity = "required"}
               IN b.dispatch_allowed <=>
                    /\ ~input'.blocked
                    /\ \A c \in needed : Eligible(input', c)
                    /\ input'.weight[b.group] + TokensOf(input', needed) <= input'.limit
    <3>1. bundles'[i].dispatch_allowed <=> Sufficient(bundles'[i].group, bundles'[i].question)
      BY <1>7
    <3>2. input' = input
      BY <1>1
    <3> HIDE DEF B, new
    <3> QED BY ONLY <3>1, <3>2 DEF Sufficient, Needed
  <2> HIDE DEF B, new
  <2> QED BY ONLY <2>1 DEF DispatchIffSufficient
<1> QED
  BY <1>1, <1>8 DEF DispatchInv, PairsAreGroups

\* Every step keeps DispatchInv.
LEMMA NextKeepsDispatch == LossInv /\ DispatchInv /\ [Next]_vars => DispatchInv'
<1> SUFFICES ASSUME LossInv, DispatchInv, [Next]_vars PROVE DispatchInv'
  OBVIOUS
<1> USE DEF LossInv
<1>1. ASSUME NEW e \in edges, Union(e) PROVE DispatchInv'
  BY <1>1, DispatchAlone DEF Union, filling
<1>2. CASE Grouped
  BY <1>2, GroupedKeepsDispatch
<1>3. ASSUME NEW pair \in pairs, BeginQuestion(pair[1], pair[2]) PROVE DispatchInv'
  BY <1>3, BeginKeepsDispatch
<1>4. ASSUME NEW c \in Candidate, Classify(c) PROVE DispatchInv'
  BY <1>4, ClassifyKeepsDispatch
<1>5. ASSUME NEW c \in Candidate, TakeRequired(c) PROVE DispatchInv'
  BY <1>5, TakeKeepsDispatch
<1>6. ASSUME NEW c \in Candidate, PlaceHelpful(c) PROVE DispatchInv'
  BY <1>6, DispatchAlone DEF PlaceHelpful
<1>7. CASE EmitBundles
  BY <1>7, EmitKeepsDispatch
<1>8. CASE Create
  BY <1>8, DispatchAlone DEF Create, filling
<1>9. CASE Finished \/ UNCHANGED vars
  BY <1>9, DispatchAlone DEF Finished, vars, filling
<1> QED
  BY <1>1, <1>2, <1>3, <1>4, <1>5, <1>6, <1>7, <1>8, <1>9 DEF Next

\* A bundle may be dispatched exactly if its change is not blocked and its
\* Primaries and all required candidates of its question are usable and fit
\* the budget together, whatever the candidates, their sizes and the limit.
THEOREM DispatchIsEarned == Spec => []DispatchIffSufficient
<1>1. DispatchInv => DispatchIffSufficient
  BY DEF DispatchInv
<1> QED
  BY <1>1, InitBegins, InitGroups, NextKeepsGroups, InitTyped, NextTyped, InitLoss, NextKeepsLoss,
     InitDispatch, NextKeepsDispatch, PTL DEF Spec

-----------------------------------------------------------------------------
(* What the replay makes of one question, part by part.                    *)

\* the candidates of a question that nothing speaks against, and those of them
\* that are required
Usable(in, g, q) == {c \in CandidatesOf(in, g, q) : Refusal(in, g, c) = "none"}
Wanted(in, g, q) == {c \in Usable(in, g, q) : in.candidates[c].necessity = "required"}

\* some candidates in the order of their keys
Sorted(in, S) == InOrder(Positions([c \in S |-> SortKey(in, c)]))

\* one step of taking the required ones
TakeNext(in, g, acc, c) ==
  IF in.weight[g] + TokensOf(in, acc) + in.candidates[c].tokens <= in.limit THEN acc \cup {c} ELSE acc

Got(in, g, q) == FoldLeft(LAMBDA acc, c : TakeNext(in, g, acc, c), {}, Sorted(in, Wanted(in, g, q)))

Lost(in, g, q) ==
  {c \in CandidatesOf(in, g, q) : in.candidates[c].necessity = "required"} \ Got(in, g, q)

\* is there room for c beside what was taken and S?
RoomFor(in, g, q, c, S) ==
  in.weight[g] + TokensOf(in, Got(in, g, q) \cup S) + in.candidates[c].tokens <= in.limit

Small(in, g, q) ==
  {c \in Usable(in, g, q) \ Wanted(in, g, q) : Lost(in, g, q) = {} /\ RoomFor(in, g, q, c, {})}

\* one step of first fit
PlaceNext(in, g, q, acc, c) ==
  LET room == {k \in DOMAIN acc : RoomFor(in, g, q, c, acc[k])}
  IN IF room # {} THEN [acc EXCEPT ![Min(room)] = @ \cup {c}] ELSE Append(acc, {c})

Binned(in, g, q) ==
  FoldLeft(LAMBDA acc, c : PlaceNext(in, g, q, acc, c), <<{}>>, Sorted(in, Small(in, g, q)))

\* why a candidate was left out
WhyLeftOut(in, g, q, c) ==
  IF c \notin Usable(in, g, q) THEN Refusal(in, g, c)
  ELSE IF c \notin Wanted(in, g, q) /\ Lost(in, g, q) # {} THEN "context_blocked"
  ELSE "budget_exceeded"

\* The selection that checks.py makes consists of these.
LEMMA SelectionParts ==
  ASSUME NEW in, NEW g, NEW q
  PROVE  Selection(in, g, q) =
           [taken |-> Got(in, g, q), lost |-> Lost(in, g, q), bins |-> Binned(in, g, q),
            reasons |-> [c \in CandidatesOf(in, g, q) \ (Got(in, g, q) \cup Small(in, g, q)) |->
                           WhyLeftOut(in, g, q, c)]]
BY DEF Selection, Got, Lost, Binned, WhyLeftOut, Small, RoomFor, PlaceNext, TakeNext, Sorted, Wanted, Usable

-----------------------------------------------------------------------------
(* The order of candidates.                                                *)

\* A candidate's key is three numbers, the last of which is its own.
LEMMA KeyShape ==
  ASSUME NEW in, WellFormed(in), NEW c \in DOMAIN in.candidates
  PROVE  IsKey(SortKey(in, c), 3) /\ SortKey(in, c)[3] = c
<1> DEFINE key == SortKey(in, c)
<1>1. c \in Nat /\ in.candidates[c].primary \in Nat /\ in.candidates[c].necessity \in Necessity
  BY InputAssumption, CandidateTyped DEF WellFormed
<1>2. Rank[in.candidates[c].necessity] \in Nat
  BY <1>1 DEF Rank, Necessity
<1>3. /\ DOMAIN key = 1 .. 3 /\ key[1] = Rank[in.candidates[c].necessity]
      /\ key[2] = in.candidates[c].primary /\ key[3] = c
  BY DEF SortKey
<1> HIDE DEF key
<1>4. \A i \in 1 .. 3 : key[i] \in Int
  <2> SUFFICES ASSUME NEW i \in 1 .. 3 PROVE key[i] \in Int
    OBVIOUS
  <2>1. i = 1 \/ i = 2 \/ i = 3
    OBVIOUS
  <2> QED BY <1>1, <1>2, <1>3, <2>1
<1>5. IsKey(key, 3)
  BY <1>3, <1>4 DEF IsKey
<1> QED BY <1>3, <1>5 DEF key

\* No two candidates have the same key.
LEMMA CandidatesAreKeyed ==
  ASSUME NEW in, WellFormed(in), NEW S \in SUBSET DOMAIN in.candidates
  PROVE  Keyed([c \in S |-> SortKey(in, c)])
<1> DEFINE key == [c \in S |-> SortKey(in, c)]
<1>1. DOMAIN key = S /\ \A c \in S : key[c] = SortKey(in, c)
  OBVIOUS
<1>2. IsFiniteSet(S)
  BY FS_Subset DEF WellFormed
<1>3. \A c \in S : IsKey(key[c], 3) /\ key[c][3] = c
  BY <1>1, KeyShape
<1> HIDE DEF key
<1>4. \A c, d \in S : c # d => \E i \in 1 .. 3 : key[c][i] # key[d][i]
  <2>1. 3 \in 1 .. 3
    OBVIOUS
  <2> QED BY <1>3, <2>1
<1>5. \E n \in Nat : /\ \A x \in DOMAIN key : IsKey(key[x], n)
                     /\ \A x, y \in DOMAIN key : x # y => \E i \in 1 .. n : key[x][i] # key[y][i]
  <2>1. 3 \in Nat
    OBVIOUS
  <2> QED BY <1>1, <1>3, <1>4, <2>1
<1> QED BY <1>1, <1>2, <1>5 DEF Keyed, key

\* o lists S, every element once and in order
InTurn(in, o, S) ==
  /\ IsFiniteSet(S) /\ Cardinality(S) \in Nat
  /\ DOMAIN o = 1 .. Cardinality(S)
  /\ \A k \in DOMAIN o : o[k] \in S
  /\ \A c \in S : \E k \in DOMAIN o : o[k] = c
  /\ \A j, k \in DOMAIN o : o[j] = o[k] => j = k
  /\ \A j, k \in DOMAIN o : j < k => Before(in, o[j], o[k])

\* Sorting does that.
LEMMA SortedInTurn ==
  ASSUME NEW in, WellFormed(in), NEW S \in SUBSET DOMAIN in.candidates
  PROVE  InTurn(in, Sorted(in, S), S)
<1> DEFINE key == [c \in S |-> SortKey(in, c)]
           rank == Positions(key)
           o == InOrder(rank)
<1>1. Keyed(key)
  BY CandidatesAreKeyed
<1>2. DOMAIN key = S /\ \A c \in S : key[c] = SortKey(in, c)
  OBVIOUS
<1>3. Sorted(in, S) = o
  BY DEF Sorted
<1> HIDE DEF key
<1>4. Numbers(rank) /\ DOMAIN rank = S
  BY <1>1, <1>2, PositionsNumber
<1>5. \A x, y \in S : rank[x] < rank[y] <=> Before(in, x, y)
  BY <1>1, <1>2, EarlierPrecedes DEF Before
<1> HIDE DEF rank
<1>6. /\ DOMAIN o = 1 .. Cardinality(S)
      /\ \A k \in 1 .. Cardinality(S) : o[k] \in S /\ rank[o[k]] = k
      /\ \A x \in S : o[rank[x]] = x
  BY <1>4, OrderLists
<1>7. IsFiniteSet(S) /\ Cardinality(S) \in Nat /\ \A x \in S : rank[x] \in 1 .. Cardinality(S)
  BY <1>4 DEF Numbers
<1> HIDE DEF o
<1>8. \A j, k \in DOMAIN o : o[j] = o[k] => j = k
  BY <1>6
<1>9. \A j, k \in DOMAIN o : j < k => Before(in, o[j], o[k])
  BY <1>5, <1>6
<1> QED BY <1>3, <1>6, <1>7, <1>8, <1>9 DEF InTurn

\* Of two candidates only one comes before the other.
LEMMA BeforeIsStrict ==
  ASSUME NEW in, WellFormed(in), NEW c \in DOMAIN in.candidates, NEW d \in DOMAIN in.candidates,
         Before(in, c, d)
  PROVE  ~Before(in, d, c)
<1> SUFFICES ASSUME Before(in, d, c) PROVE FALSE
  OBVIOUS
<1>1. IsKey(SortKey(in, c), 3) /\ IsKey(SortKey(in, d), 3)
  BY KeyShape
<1>2. Precedes(SortKey(in, c), SortKey(in, c))
  BY <1>1, KeysAreTransitive DEF Before
<1> QED BY <1>1, <1>2, KeysAreStrict

\* what is left of a list behind its place k
Behind(o, k) == {o[i] : i \in {n \in DOMAIN o : n > k}}

\* At the beginning it is everything, and at the end nothing.
LEMMA BehindEnds ==
  ASSUME NEW in, NEW o, NEW S, InTurn(in, o, S)
  PROVE  /\ Behind(o, 0) = S
         /\ \A k \in 0 .. Cardinality(S) : Behind(o, k) = {} => k = Cardinality(S)
         /\ Behind(o, Cardinality(S)) = {}
<1> USE DEF InTurn
<1>1. Behind(o, 0) = S
  BY DEF Behind
<1>2. ASSUME NEW k \in 0 .. Cardinality(S), k # Cardinality(S) PROVE Behind(o, k) # {}
  <2>1. k + 1 \in DOMAIN o /\ k + 1 > k
    BY <1>2
  <2> QED BY <2>1 DEF Behind
<1>3. Behind(o, Cardinality(S)) = {}
  BY DEF Behind
<1> QED BY <1>1, <1>2, <1>3

\* The first of what is left is the next of the list.
LEMMA NextInTurn ==
  ASSUME NEW in, WellFormed(in), NEW S \in SUBSET DOMAIN in.candidates, NEW o, InTurn(in, o, S),
         NEW k \in 0 .. Cardinality(S), NEW c, IsFirst(in, c, Behind(o, k))
  PROVE  /\ k + 1 \in DOMAIN o /\ k + 1 \in 0 .. Cardinality(S)
         /\ c = o[k + 1]
         /\ Behind(o, k) \ {c} = Behind(o, k + 1)
<1> USE DEF InTurn
<1>1. PICK i \in DOMAIN o : i > k /\ c = o[i]
  BY DEF IsFirst, Behind
<1>2. k + 1 \in DOMAIN o /\ k + 1 \in 0 .. Cardinality(S) /\ k + 1 > k /\ k + 1 <= i
  BY <1>1
<1>3. i = k + 1
  <2> SUFFICES ASSUME i # k + 1 PROVE FALSE
    OBVIOUS
  <2>1. o[k + 1] \in Behind(o, k) /\ o[k + 1] # c
    BY <1>1, <1>2 DEF Behind
  <2>2. Before(in, c, o[k + 1])
    BY <2>1 DEF IsFirst
  <2>3. Before(in, o[k + 1], c)
    BY <1>1, <1>2
  <2>4. c \in DOMAIN in.candidates /\ o[k + 1] \in DOMAIN in.candidates
    BY <1>1, <1>2
  <2> QED BY <2>2, <2>3, <2>4, BeforeIsStrict
<1>4. Behind(o, k) \ {c} = Behind(o, k + 1)
  <2>1. ASSUME NEW n \in DOMAIN o, n > k, o[n] # c PROVE n > k + 1
    BY <1>1, <1>2, <1>3, <2>1
  <2>2. ASSUME NEW n \in DOMAIN o, n > k + 1 PROVE n > k /\ o[n] # c
    BY <1>1, <1>2, <1>3, <2>2
  <2> QED BY <2>1, <2>2 DEF Behind
<1> QED BY <1>1, <1>2, <1>3, <1>4

-----------------------------------------------------------------------------
(* The loops of the replay, step by step.                                  *)

\* The candidates of a question and those of each kind are candidates.
LEMMA QuestionParts ==
  ASSUME NEW in, NEW g, NEW q
  PROVE  /\ CandidatesOf(in, g, q) \subseteq DOMAIN in.candidates
         /\ Usable(in, g, q) \subseteq CandidatesOf(in, g, q)
         /\ Wanted(in, g, q) \subseteq Usable(in, g, q)
         /\ Small(in, g, q) \subseteq Usable(in, g, q) \ Wanted(in, g, q)
         /\ Wanted(in, g, q) \in SUBSET DOMAIN in.candidates
         /\ Small(in, g, q) \in SUBSET DOMAIN in.candidates
<1>1. CandidatesOf(in, g, q) \subseteq DOMAIN in.candidates
  BY DEF CandidatesOf
<1>2. Usable(in, g, q) \subseteq CandidatesOf(in, g, q)
  BY DEF Usable
<1>3. Wanted(in, g, q) \subseteq Usable(in, g, q)
  BY DEF Wanted
<1>4. Small(in, g, q) \subseteq Usable(in, g, q) \ Wanted(in, g, q)
  BY DEF Small
<1> QED BY <1>1, <1>2, <1>3, <1>4

\* what was taken of the required candidates, one after the other
Takes(in, g, q, v) ==
  /\ v[0] = {}
  /\ v[Cardinality(Wanted(in, g, q))] = Got(in, g, q)
  /\ \A k \in 1 .. Cardinality(Wanted(in, g, q)) :
       v[k] = TakeNext(in, g, v[k - 1], Sorted(in, Wanted(in, g, q))[k])

\* Taking adds the candidate or nothing.
LEMMA TakeShape ==
  ASSUME NEW in, NEW g, NEW W, NEW s \in SUBSET W, NEW c \in W
  PROVE  TakeNext(in, g, s, c) \in SUBSET W
BY DEF TakeNext

\* The first loop has such values.
LEMMA TakesExist ==
  ASSUME NEW in, WellFormed(in), NEW g \in SUBSET Primary, NEW q
  PROVE  \E v \in [0 .. Cardinality(Wanted(in, g, q)) -> SUBSET Wanted(in, g, q)] : Takes(in, g, q, v)
<1> DEFINE V == SUBSET Wanted(in, g, q)
           order == Sorted(in, Wanted(in, g, q))
           N == Cardinality(Wanted(in, g, q))
           step(k, s) == TakeNext(in, g, s, order[k])
           F(f) == f = [s \in SUBSET (1 .. N) |->
                          IF s = {} THEN {} ELSE step(Max(s), f[s \ {Max(s)}])]
           h == CHOOSE f : F(f)
           w == [k \in 1 .. N |-> [s \in V |-> step(k, s)]]
<1>1. InTurn(in, order, Wanted(in, g, q))
  BY QuestionParts, SortedInTurn
<1>2. DOMAIN order = 1 .. N /\ N \in Nat /\ \A k \in 1 .. N : order[k] \in Wanted(in, g, q)
  BY <1>1 DEF InTurn
<1>3. Got(in, g, q) = h[1 .. N]
  <2>1. DOMAIN order = 1 .. N
    BY <1>2
  <2> QED BY <2>1 DEF Got, FoldLeft, MapThenFoldSet
<1>4. \A k \in 1 .. N : \A s \in V : step(k, s) \in V
  <2> HIDE DEF order, N
  <2> QED BY <1>2, TakeShape
<1>5. {} \in V
  OBVIOUS
<1> HIDE DEF step, V, N, order
<1>6. w \in [1 .. N -> [V -> V]]
  BY <1>4
<1>7. F(h)
  <2>1. PICK f \in [SUBSET (1 .. N) -> V] : IsFold(w, {}, N, f)
    <3> HIDE DEF w
    <3> QED BY <1>2, <1>5, <1>6, FoldExists
  <2>2. ASSUME NEW s \in SUBSET (1 .. N)
        PROVE  f[s] = IF s = {} THEN {} ELSE step(Max(s), f[s \ {Max(s)}])
    <3>1. s # {} => Max(s) \in 1 .. N
      BY <1>2, MaxIn
    <3>2. s \ {Max(s)} \in SUBSET (1 .. N)
      OBVIOUS
    <3> QED BY <2>1, <3>1, <3>2 DEF IsFold
  <2>3. f = [s \in SUBSET (1 .. N) |-> f[s]]
    OBVIOUS
  <2>4. F(f)
    BY <2>2, <2>3
  <2> HIDE DEF F
  <2> QED BY <2>4
<1>8. \A s \in SUBSET (1 .. N) : h[s] = IF s = {} THEN {} ELSE step(Max(s), h[s \ {Max(s)}])
  BY <1>7
<1> HIDE DEF h, F
<1>9. ASSUME NEW s \in SUBSET (1 .. N), s # {}, h[s \ {Max(s)}] \in V
      PROVE  h[s] = w[Max(s)][h[s \ {Max(s)}]]
  <2>1. Max(s) \in 1 .. N
    BY <1>2, <1>9, MaxIn
  <2> QED BY <1>8, <1>9, <2>1
<1>10. h[{}] = {}
  BY <1>8
<1>11. PICK v \in [0 .. N -> V] : Steps(v, h, w, {}, N)
  <2>1. Folds(h, V, w, {}, N)
    BY <1>9, <1>10 DEF Folds
  <2> HIDE DEF w
  <2> QED BY <1>2, <1>5, <1>6, <2>1, FoldSteps
<1>12. ASSUME NEW k \in 1 .. N PROVE v[k] = step(k, v[k - 1])
  <2>1. k - 1 \in 0 .. N
    BY <1>2
  <2> QED BY <1>11, <2>1 DEF Steps
<1>13. Takes(in, g, q, v)
  BY <1>3, <1>11, <1>12 DEF Takes, Steps, step, N, order
<1> QED BY <1>13 DEF V, N

\* the bins, one helpful candidate after the other
Places(in, g, q, v) ==
  /\ v[0] = <<{}>>
  /\ v[Cardinality(Small(in, g, q))] = Binned(in, g, q)
  /\ \A k \in 1 .. Cardinality(Small(in, g, q)) :
       v[k] = PlaceNext(in, g, q, v[k - 1], Sorted(in, Small(in, g, q))[k])

\* t is s with c in the first of some places or, if there are none, behind them
Fitted(room, c, s, t) ==
  \/ /\ room # {} /\ Min(room) \in room
     /\ Len(t) = Len(s)
     /\ t[Min(room)] = s[Min(room)] \cup {c}
     /\ \A j \in DOMAIN s \ {Min(room)} : t[j] = s[j]
  \/ /\ room = {}
     /\ Len(t) = Len(s) + 1
     /\ t[Len(s) + 1] = {c}
     /\ \A j \in DOMAIN s : t[j] = s[j]

\* the bins with room for a candidate
RoomLeft(in, g, q, c, s) == {n \in DOMAIN s : RoomFor(in, g, q, c, s[n])}

\* A candidate goes into the first bin with room for it or a new one.
LEMMA PlaceShape ==
  ASSUME NEW in, NEW g, NEW q, NEW W, NEW s \in Seq(SUBSET W), NEW c \in W
  PROVE  /\ PlaceNext(in, g, q, s, c) \in Seq(SUBSET W)
         /\ Fitted(RoomLeft(in, g, q, c, s), c, s, PlaceNext(in, g, q, s, c))
<1> DEFINE room == RoomLeft(in, g, q, c, s)
           P == PlaceNext(in, g, q, s, c)
<1>1. Len(s) \in Nat /\ DOMAIN s = 1 .. Len(s) /\ \A k \in DOMAIN s : s[k] \in SUBSET W
  OBVIOUS
<1>2. P = IF room # {} THEN [s EXCEPT ![Min(room)] = @ \cup {c}] ELSE Append(s, {c})
  BY DEF PlaceNext, RoomLeft
<1>3. room \subseteq 1 .. Len(s)
  BY <1>1 DEF RoomLeft
<1> HIDE DEF room, P
<1>4. CASE room # {}
  <2> DEFINE k == Min(room)
             new == s[k] \cup {c}
  <2>1. k \in room
    <3>1. room \subseteq Nat
      BY <1>1, <1>3
    <3> QED BY <1>4, <3>1, MinIn
  <2>2. P = [s EXCEPT ![k] = new]
    BY <1>2, <1>4
  <2> HIDE DEF k
  <2>3. new \in SUBSET W /\ new = s[k] \cup {c} /\ k \in 1 .. Len(s)
    BY <1>1, <1>3, <2>1
  <2> HIDE DEF new
  <2>4. /\ P \in Seq(SUBSET W) /\ Len(P) = Len(s)
        /\ \A j \in 1 .. Len(s) : P[j] = IF j = k THEN new ELSE s[j]
    BY <2>2, <2>3, ExceptSeq
  <2>5. P[k] = s[k] \cup {c} /\ \A j \in DOMAIN s \ {k} : P[j] = s[j]
    BY <1>1, <2>3, <2>4
  <2> QED BY <1>4, <2>1, <2>4, <2>5 DEF P, room, k, Fitted
<1>5. CASE room = {}
  <2>1. P = Append(s, {c})
    BY <1>2, <1>5
  <2>2. {c} \in SUBSET W
    OBVIOUS
  <2>3. /\ P \in Seq(SUBSET W) /\ Len(P) = Len(s) + 1 /\ P[Len(s) + 1] = {c}
        /\ \A j \in DOMAIN s : P[j] = s[j]
    BY <1>1, <2>1, <2>2, AppendProperties
  <2> QED BY <1>5, <2>3 DEF P, room, Fitted
<1> QED BY <1>4, <1>5

\* And so has the second.
LEMMA PlacesExist ==
  ASSUME NEW in, WellFormed(in), NEW g \in SUBSET Primary, NEW q
  PROVE  \E v \in [0 .. Cardinality(Small(in, g, q)) -> Seq(SUBSET Small(in, g, q))] : Places(in, g, q, v)
<1> DEFINE V == Seq(SUBSET Small(in, g, q))
           order == Sorted(in, Small(in, g, q))
           N == Cardinality(Small(in, g, q))
           step(k, s) == PlaceNext(in, g, q, s, order[k])
           F(f) == f = [s \in SUBSET (1 .. N) |->
                          IF s = {} THEN <<{}>> ELSE step(Max(s), f[s \ {Max(s)}])]
           h == CHOOSE f : F(f)
           w == [k \in 1 .. N |-> [s \in V |-> step(k, s)]]
<1>1. InTurn(in, order, Small(in, g, q))
  BY QuestionParts, SortedInTurn
<1>2. DOMAIN order = 1 .. N /\ N \in Nat /\ \A k \in 1 .. N : order[k] \in Small(in, g, q)
  BY <1>1 DEF InTurn
<1>3. Binned(in, g, q) = h[1 .. N]
  <2>1. DOMAIN order = 1 .. N
    BY <1>2
  <2> QED BY <2>1 DEF Binned, FoldLeft, MapThenFoldSet
<1>4. \A k \in 1 .. N : \A s \in V : step(k, s) \in V
  <2> HIDE DEF order, N
  <2> QED BY <1>2, PlaceShape
<1>5. <<{}>> \in V
  OBVIOUS
<1> HIDE DEF step, V, N, order
<1>6. w \in [1 .. N -> [V -> V]]
  BY <1>4
<1>7. F(h)
  <2>1. PICK f \in [SUBSET (1 .. N) -> V] : IsFold(w, <<{}>>, N, f)
    <3> HIDE DEF w
    <3> QED BY <1>2, <1>5, <1>6, FoldExists
  <2>2. ASSUME NEW s \in SUBSET (1 .. N)
        PROVE  f[s] = IF s = {} THEN <<{}>> ELSE step(Max(s), f[s \ {Max(s)}])
    <3>1. s # {} => Max(s) \in 1 .. N
      BY <1>2, MaxIn
    <3>2. s \ {Max(s)} \in SUBSET (1 .. N)
      OBVIOUS
    <3> QED BY <2>1, <3>1, <3>2 DEF IsFold
  <2>3. f = [s \in SUBSET (1 .. N) |-> f[s]]
    OBVIOUS
  <2>4. F(f)
    BY <2>2, <2>3
  <2> HIDE DEF F
  <2> QED BY <2>4
<1>8. \A s \in SUBSET (1 .. N) : h[s] = IF s = {} THEN <<{}>> ELSE step(Max(s), h[s \ {Max(s)}])
  BY <1>7
<1> HIDE DEF h, F
<1>9. ASSUME NEW s \in SUBSET (1 .. N), s # {}, h[s \ {Max(s)}] \in V
      PROVE  h[s] = w[Max(s)][h[s \ {Max(s)}]]
  <2>1. Max(s) \in 1 .. N
    BY <1>2, <1>9, MaxIn
  <2> QED BY <1>8, <1>9, <2>1
<1>10. h[{}] = <<{}>>
  BY <1>8
<1>11. PICK v \in [0 .. N -> V] : Steps(v, h, w, <<{}>>, N)
  <2>1. Folds(h, V, w, <<{}>>, N)
    BY <1>9, <1>10 DEF Folds
  <2> HIDE DEF w
  <2> QED BY <1>2, <1>5, <1>6, <2>1, FoldSteps
<1>12. ASSUME NEW k \in 1 .. N PROVE v[k] = step(k, v[k - 1])
  <2>1. k - 1 \in 0 .. N
    BY <1>2
  <2> QED BY <1>11, <2>1 DEF Steps
<1>13. Places(in, g, q, v)
  BY <1>3, <1>11, <1>12 DEF Places, Steps, step, N, order
<1> QED BY <1>13 DEF V, N

-----------------------------------------------------------------------------
(* What the two loops take.                                                *)

\* The first loop takes required candidates, as many as fit the budget.
LEMMA GotFits ==
  ASSUME NEW in, WellFormed(in), NEW g \in SUBSET Primary, NEW q
  PROVE  /\ Got(in, g, q) \subseteq Wanted(in, g, q)
         /\ Got(in, g, q) = {} \/ in.weight[g] + TokensOf(in, Got(in, g, q)) <= in.limit
<1> DEFINE W == Wanted(in, g, q)
           N == Cardinality(W)
           o == Sorted(in, W)
           fits(s) == s = {} \/ in.weight[g] + TokensOf(in, s) <= in.limit
<1>1. W \in SUBSET DOMAIN in.candidates
  BY QuestionParts
<1>2. InTurn(in, o, W)
  <2> HIDE DEF W
  <2> QED BY <1>1, SortedInTurn
<1>3. PICK v \in [0 .. N -> SUBSET W] : Takes(in, g, q, v)
  BY TakesExist
<1>4. N \in Nat /\ \A k \in 1 .. N : o[k] \in W
  BY <1>2 DEF InTurn
<1>5. v[0] = {} /\ v[N] = Got(in, g, q) /\ \A k \in 1 .. N : v[k] = TakeNext(in, g, v[k - 1], o[k])
  BY <1>3 DEF Takes
<1> HIDE DEF W, N, o
<1> DEFINE P == {k \in 0 .. N : fits(v[k])}
<1>6. 0 \in P
  BY <1>4, <1>5
<1>7. ASSUME NEW k \in 1 .. N, k - 1 \in P PROVE k \in P
  <2> DEFINE s == v[k - 1]
             c == o[k]
  <2>1. k - 1 \in 0 .. N /\ k \in 0 .. N
    BY <1>4
  <2>2. s \in SUBSET DOMAIN in.candidates /\ c \in DOMAIN in.candidates /\ fits(s)
    BY <1>1, <1>4, <1>7, <2>1
  <2>3. v[k] = TakeNext(in, g, s, c)
    BY <1>5
  <2> HIDE DEF s, c
  <2>4. CASE v[k] = s
    BY <2>1, <2>2, <2>4
  <2>5. CASE v[k] # s
    <3>1. v[k] = s \cup {c} /\ in.weight[g] + TokensOf(in, s) + in.candidates[c].tokens <= in.limit
      BY <2>3, <2>5 DEF TakeNext
    <3>2. c \in DOMAIN in.candidates \ s
      BY <2>2, <2>5, <3>1
    <3>3. /\ TokensOf(in, s \cup {c}) = TokensOf(in, s) + in.candidates[c].tokens
          /\ TokensOf(in, s) \in Nat
      BY <2>2, <3>2, TokensSum
    <3>4. in.candidates[c].tokens \in Nat
      BY <2>2, CandidateTyped
    <3>5. in.weight[g] \in Nat /\ in.limit \in Nat
      BY DEF WellFormed
    <3> DEFINE a == in.weight[g]
               t == TokensOf(in, s)
               u == TokensOf(in, s \cup {c})
               i == in.candidates[c].tokens
               l == in.limit
    <3>6. a + u <= l
      <4>1. a + t + i <= l /\ u = t + i /\ a \in Nat /\ t \in Nat /\ i \in Nat /\ l \in Nat
        BY <3>1, <3>3, <3>4, <3>5
      <4> HIDE DEF a, t, u, i, l
      <4> QED BY <4>1
    <3> QED BY <2>1, <3>1, <3>6
  <2> QED BY <2>4, <2>5
<1>8. \A k \in 0 .. N : k \in P
  <2> HIDE DEF P
  <2> QED BY <1>4, <1>6, <1>7, StepByStep
<1>9. N \in 0 .. N
  BY <1>4
<1>10. fits(v[N]) /\ v[N] \in SUBSET W
  BY <1>3, <1>8, <1>9
<1> QED BY <1>5, <1>10 DEF W

\* There is room for a candidate exactly if the bin with it fits the budget.
LEMMA RoomIsRoom ==
  ASSUME NEW in, WellFormed(in), NEW g \in SUBSET Primary, NEW q,
         NEW s \in SUBSET Small(in, g, q), NEW c \in Small(in, g, q), c \notin s
  PROVE  /\ RoomFor(in, g, q, c, s) <=>
              in.weight[g] + TokensOf(in, Got(in, g, q) \cup (s \cup {c})) <= in.limit
         /\ in.weight[g] + TokensOf(in, Got(in, g, q) \cup {c}) <= in.limit
         /\ RoomFor(in, g, q, c, {})
<1> DEFINE G == Got(in, g, q)
<1>1. G \subseteq Wanted(in, g, q) /\ Wanted(in, g, q) \subseteq DOMAIN in.candidates
      /\ Small(in, g, q) \subseteq DOMAIN in.candidates
      /\ Small(in, g, q) \cap Wanted(in, g, q) = {}
  BY QuestionParts, GotFits
<1>2. RoomFor(in, g, q, c, {})
  BY DEF Small
<1>3. c \in DOMAIN in.candidates /\ c \notin G
  BY <1>1
<1>4. ASSUME NEW t \in SUBSET Small(in, g, q), c \notin t
      PROVE  RoomFor(in, g, q, c, t) <=> in.weight[g] + TokensOf(in, G \cup (t \cup {c})) <= in.limit
  <2> DEFINE u == G \cup t
  <2>1. u \in SUBSET DOMAIN in.candidates /\ c \in DOMAIN in.candidates \ u
        /\ G \cup (t \cup {c}) = u \cup {c}
    BY <1>1, <1>3, <1>4
  <2>2. RoomFor(in, g, q, c, t) <=> in.weight[g] + TokensOf(in, u) + in.candidates[c].tokens <= in.limit
    BY DEF RoomFor
  <2> HIDE DEF u
  <2>3. /\ TokensOf(in, u \cup {c}) = TokensOf(in, u) + in.candidates[c].tokens
        /\ TokensOf(in, u) \in Nat
    BY <2>1, TokensSum
  <2>4. in.candidates[c].tokens \in Nat
    BY <1>3, CandidateTyped
  <2>5. in.weight[g] \in Nat /\ in.limit \in Nat
    BY DEF WellFormed
  <2> DEFINE a == in.weight[g]
             b == TokensOf(in, u)
             d == TokensOf(in, u \cup {c})
             i == in.candidates[c].tokens
             l == in.limit
  <2>6. (a + b + i <= l) <=> (a + d <= l)
    <3>1. d = b + i /\ a \in Nat /\ b \in Nat /\ i \in Nat /\ l \in Nat
      BY <2>3, <2>4, <2>5
    <3> HIDE DEF a, b, d, i, l
    <3> QED BY <3>1
  <2> QED BY <2>1, <2>2, <2>6
<1>5. in.weight[g] + TokensOf(in, G \cup {c}) <= in.limit
  <2>1. {} \in SUBSET Small(in, g, q) /\ {} \cup {c} = {c}
    OBVIOUS
  <2> QED BY <1>2, <1>4, <2>1
<1> QED BY <1>2, <1>4, <1>5

\* bins of which each fits, no two share a candidate, and all hold those of M
Packed(in, g, q, b, M) ==
  /\ b \in Seq(SUBSET Small(in, g, q))
  /\ Len(b) \in Nat \ {0}
  /\ \A k \in 1 .. Len(b) : b[k] \subseteq M
  /\ \A c \in M : \E k \in 1 .. Len(b) : c \in b[k]
  /\ \A j, k \in 1 .. Len(b) : j # k => b[j] \cap b[k] = {}
  /\ \A k \in 1 .. Len(b) :
       b[k] = {} \/ in.weight[g] + TokensOf(in, Got(in, g, q) \cup b[k]) <= in.limit
  /\ M = {} => Len(b) = 1
  /\ M # {} => \A k \in 1 .. Len(b) : b[k] # {}

\* One more candidate keeps them so.
LEMMA PlaceKeepsPacked ==
  ASSUME NEW in, WellFormed(in), NEW g \in SUBSET Primary, NEW q, NEW b, NEW M,
         Packed(in, g, q, b, M), NEW c \in Small(in, g, q), c \notin M
  PROVE  Packed(in, g, q, PlaceNext(in, g, q, b, c), M \cup {c})
<1> DEFINE W == Small(in, g, q)
           P == PlaceNext(in, g, q, b, c)
<1>1. b \in Seq(SUBSET W) /\ Len(b) \in Nat \ {0} /\ DOMAIN b = 1 .. Len(b)
      /\ \A k \in 1 .. Len(b) : b[k] \in SUBSET W /\ c \notin b[k]
  BY DEF Packed
<1>2. P \in Seq(SUBSET W)
  BY <1>1, PlaceShape
<1>3. Fitted(RoomLeft(in, g, q, c, b), c, b, P)
  BY <1>1, PlaceShape
<1>4. \A s \in SUBSET W : c \notin s =>
        /\ RoomFor(in, g, q, c, s) <=> in.weight[g] + TokensOf(in, Got(in, g, q) \cup (s \cup {c})) <= in.limit
        /\ in.weight[g] + TokensOf(in, Got(in, g, q) \cup {c}) <= in.limit
        /\ RoomFor(in, g, q, c, {})
  BY RoomIsRoom
<1> HIDE DEF P, W
<1>5. CASE \E k \in DOMAIN b :
             /\ RoomFor(in, g, q, c, b[k])
             /\ Len(P) = Len(b)
             /\ P[k] = b[k] \cup {c}
             /\ \A j \in DOMAIN b \ {k} : P[j] = b[j]
  <2> PICK k \in DOMAIN b :
             /\ RoomFor(in, g, q, c, b[k])
             /\ Len(P) = Len(b)
             /\ P[k] = b[k] \cup {c}
             /\ \A j \in DOMAIN b \ {k} : P[j] = b[j]
    BY <1>5
  <2>1. in.weight[g] + TokensOf(in, Got(in, g, q) \cup P[k]) <= in.limit
    BY <1>1, <1>4
  <2>2. Len(P) \in Nat \ {0} /\ \A j \in 1 .. Len(P) : P[j] \subseteq M \cup {c}
    BY <1>1 DEF Packed
  <2>3. \A d \in M \cup {c} : \E j \in 1 .. Len(P) : d \in P[j]
    <3>1. c \in P[k] /\ k \in 1 .. Len(P)
      BY <1>1
    <3>2. \A j \in 1 .. Len(P) : b[j] \subseteq P[j]
      BY <1>1
    <3> QED BY <3>1, <3>2 DEF Packed
  <2>4. \A i, j \in 1 .. Len(P) : i # j => P[i] \cap P[j] = {}
    <3> SUFFICES ASSUME NEW i \in 1 .. Len(b), NEW j \in 1 .. Len(b), i # j
                 PROVE  P[i] \cap P[j] = {}
      OBVIOUS
    <3>1. b[i] \cap b[j] = {} /\ c \notin b[i] /\ c \notin b[j]
      BY <1>1 DEF Packed
    <3>2. /\ i = k \/ P[i] = b[i]
          /\ j = k \/ P[j] = b[j]
      BY <1>1
    <3> QED BY <3>1, <3>2
  <2>5. \A j \in 1 .. Len(P) :
          P[j] = {} \/ in.weight[g] + TokensOf(in, Got(in, g, q) \cup P[j]) <= in.limit
    BY <1>1, <2>1 DEF Packed
  <2>6. \A j \in 1 .. Len(P) : P[j] # {}
    <3>1. CASE M = {}
      <4>1. \A j \in 1 .. Len(P) : j = k
        BY <1>1, <3>1 DEF Packed
      <4> QED BY <4>1
    <3>2. CASE M # {}
      BY <1>1, <3>2 DEF Packed
    <3> QED BY <3>1, <3>2
  <2>7. M \cup {c} # {} /\ P \in Seq(SUBSET Small(in, g, q))
    BY <1>2 DEF W
  <2> DEFINE new == M \cup {c}
  <2> HIDE DEF new
  <2>8. Packed(in, g, q, P, new)
    <3>1. /\ \A j \in 1 .. Len(P) : P[j] \subseteq new
          /\ \A d \in new : \E j \in 1 .. Len(P) : d \in P[j]
          /\ new # {} /\ Len(P) \in Nat \ {0} /\ \A j \in 1 .. Len(P) : P[j] # {}
      BY <2>2, <2>3, <2>4, <2>5, <2>6, <2>7 DEF new
    <3> QED BY <3>1, <2>4, <2>5, <2>7 DEF Packed
  <2> QED BY <2>8 DEF new, P
<1>6. CASE /\ \A k \in DOMAIN b : ~RoomFor(in, g, q, c, b[k])
           /\ Len(P) = Len(b) + 1
           /\ P[Len(b) + 1] = {c}
           /\ \A j \in DOMAIN b : P[j] = b[j]
  <2>1. M # {}
    <3> SUFFICES ASSUME M = {} PROVE FALSE
      OBVIOUS
    <3>1. 1 \in DOMAIN b /\ b[1] = {}
      BY <1>1 DEF Packed
    <3>2. {} \in SUBSET W
      OBVIOUS
    <3> QED BY <1>4, <1>6, <3>1, <3>2
  <2>2. \A j \in 1 .. Len(P) : j = Len(b) + 1 \/ j \in DOMAIN b
    BY <1>1, <1>6
  <2>3. {c} \in SUBSET W /\ {} \in SUBSET W
    BY DEF W
  <2>4. in.weight[g] + TokensOf(in, Got(in, g, q) \cup {c}) <= in.limit
    BY <1>4, <2>3
  <2>5. Len(P) \in Nat \ {0} /\ \A j \in 1 .. Len(P) : P[j] \subseteq M \cup {c} /\ P[j] # {}
    <3>1. Len(P) \in Nat \ {0}
      BY <1>1, <1>6
    <3>2. \A j \in 1 .. Len(b) : b[j] \subseteq M /\ b[j] # {}
      BY <2>1 DEF Packed
    <3>3. ASSUME NEW j \in 1 .. Len(P) PROVE P[j] \subseteq M \cup {c} /\ P[j] # {}
      <4>1. CASE j = Len(b) + 1
        BY <1>6, <4>1
      <4>2. CASE j \in DOMAIN b
        BY <1>1, <1>6, <3>2, <4>2
      <4> QED BY <2>2, <4>1, <4>2
    <3> QED BY <3>1, <3>3
  <2>6. \A d \in M \cup {c} : \E j \in 1 .. Len(P) : d \in P[j]
    <3>1. Len(b) + 1 \in 1 .. Len(P) /\ c \in P[Len(b) + 1]
      BY <1>1, <1>6
    <3>2. \A j \in 1 .. Len(b) : j \in 1 .. Len(P) /\ P[j] = b[j]
      BY <1>1, <1>6
    <3> QED BY <3>1, <3>2 DEF Packed
  <2>7. \A i, j \in 1 .. Len(P) : i # j => P[i] \cap P[j] = {}
    <3> SUFFICES ASSUME NEW i \in 1 .. Len(P), NEW j \in 1 .. Len(P), i # j
                 PROVE  P[i] \cap P[j] = {}
      OBVIOUS
    <3>1. \A n \in DOMAIN b : P[n] = b[n] /\ c \notin b[n]
      BY <1>1, <1>6
    <3>2. CASE i = Len(b) + 1
      <4>1. j \in DOMAIN b
        BY <2>2, <3>2
      <4> QED BY <1>6, <3>1, <3>2, <4>1
    <3>3. CASE j = Len(b) + 1
      <4>1. i \in DOMAIN b
        BY <2>2, <3>3
      <4> QED BY <1>6, <3>1, <3>3, <4>1
    <3>4. CASE i \in DOMAIN b /\ j \in DOMAIN b
      BY <1>1, <3>1, <3>4 DEF Packed
    <3> QED BY <2>2, <3>2, <3>3, <3>4
  <2>8. \A j \in 1 .. Len(P) :
          P[j] = {} \/ in.weight[g] + TokensOf(in, Got(in, g, q) \cup P[j]) <= in.limit
    <3> SUFFICES ASSUME NEW j \in 1 .. Len(P)
                 PROVE  P[j] = {} \/ in.weight[g] + TokensOf(in, Got(in, g, q) \cup P[j]) <= in.limit
      OBVIOUS
    <3>1. CASE j = Len(b) + 1
      BY <1>6, <2>4, <3>1
    <3>2. CASE j \in DOMAIN b
      BY <1>1, <1>6, <3>2 DEF Packed
    <3> QED BY <2>2, <3>1, <3>2
  <2>9. M \cup {c} # {} /\ P \in Seq(SUBSET Small(in, g, q))
    BY <1>2 DEF W
  <2> DEFINE new == M \cup {c}
  <2> HIDE DEF new
  <2>10. Packed(in, g, q, P, new)
    <3>1. /\ \A j \in 1 .. Len(P) : P[j] \subseteq new
          /\ \A d \in new : \E j \in 1 .. Len(P) : d \in P[j]
          /\ new # {} /\ Len(P) \in Nat \ {0} /\ \A j \in 1 .. Len(P) : P[j] # {}
      BY <2>5, <2>6, <2>7, <2>8, <2>9 DEF new
    <3> QED BY <3>1, <2>7, <2>8, <2>9 DEF Packed
  <2> QED BY <2>10 DEF new, P
<1> QED BY <1>3, <1>5, <1>6 DEF P, Fitted, RoomLeft

\* First fit packs all small candidates.
LEMMA BinnedPacked ==
  ASSUME NEW in, WellFormed(in), NEW g \in SUBSET Primary, NEW q
  PROVE  Packed(in, g, q, Binned(in, g, q), Small(in, g, q))
<1> DEFINE W == Small(in, g, q)
           N == Cardinality(W)
           o == Sorted(in, W)
           upto(k) == {o[i] : i \in 1 .. k}
<1>1. W \in SUBSET DOMAIN in.candidates
  BY QuestionParts
<1>2. InTurn(in, o, W)
  <2> HIDE DEF W
  <2> QED BY <1>1, SortedInTurn
<1>3. PICK v \in [0 .. N -> Seq(SUBSET W)] : Places(in, g, q, v)
  BY PlacesExist
<1>4. /\ N \in Nat /\ DOMAIN o = 1 .. N /\ \A k \in 1 .. N : o[k] \in W
      /\ \A c \in W : \E k \in 1 .. N : o[k] = c
      /\ \A j, k \in 1 .. N : o[j] = o[k] => j = k
  BY <1>2 DEF InTurn
<1>5. v[0] = <<{}>> /\ v[N] = Binned(in, g, q) /\ \A k \in 1 .. N : v[k] = PlaceNext(in, g, q, v[k - 1], o[k])
  BY <1>3 DEF Places
<1> HIDE DEF N, o
<1> DEFINE P == {k \in 0 .. N : Packed(in, g, q, v[k], upto(k))}
<1>6. 0 \in P
  <2>1. upto(0) = {}
    OBVIOUS
  <2>2. <<{}>> \in Seq(SUBSET W) /\ Len(<<{}>>) = 1 /\ \A k \in 1 .. 1 : <<{}>>[k] = {}
    OBVIOUS
  <2> HIDE DEF upto
  <2>3. Packed(in, g, q, <<{}>>, {})
    BY <2>2 DEF Packed
  <2>4. 0 \in 0 .. N
    BY <1>4
  <2> QED BY <1>5, <2>1, <2>3, <2>4
<1>7. ASSUME NEW k \in 1 .. N, k - 1 \in P PROVE k \in P
  <2>1. k - 1 \in 0 .. N /\ k \in 0 .. N /\ o[k] \in W /\ o[k] \notin upto(k - 1)
    BY <1>4
  <2>2. upto(k) = upto(k - 1) \cup {o[k]}
    BY <1>4
  <2> HIDE DEF upto
  <2>3. Packed(in, g, q, v[k - 1], upto(k - 1))
    BY <1>7
  <2>4. Packed(in, g, q, PlaceNext(in, g, q, v[k - 1], o[k]), upto(k - 1) \cup {o[k]})
    BY <2>1, <2>3, PlaceKeepsPacked
  <2> QED BY <1>5, <2>1, <2>2, <2>4
<1>8. \A k \in 0 .. N : k \in P
  <2> HIDE DEF P
  <2> QED BY <1>4, <1>6, <1>7, StepByStep
<1>9. N \in 0 .. N /\ upto(N) = W
  BY <1>4
<1> HIDE DEF upto
<1>10. Packed(in, g, q, v[N], upto(N))
  BY <1>8, <1>9
<1> QED BY <1>5, <1>9, <1>10

-----------------------------------------------------------------------------
(* The planner goes the way of the replay.                                 *)

\* the first loop has come to got, with rest still to go
TakenBy(in, g, q, rest, got) ==
  \E v \in [0 .. Cardinality(Wanted(in, g, q)) -> SUBSET Wanted(in, g, q)] :
    /\ Takes(in, g, q, v)
    /\ \E k \in 0 .. Cardinality(Wanted(in, g, q)) :
         rest = Behind(Sorted(in, Wanted(in, g, q)), k) /\ got = v[k]

\* It begins with nothing, takes one candidate after the other, and ends with
\* what the replay takes.
LEMMA TakingBegins ==
  ASSUME NEW in, WellFormed(in), NEW g \in SUBSET Primary, NEW q
  PROVE  TakenBy(in, g, q, Wanted(in, g, q), {})
<1>1. PICK v \in [0 .. Cardinality(Wanted(in, g, q)) -> SUBSET Wanted(in, g, q)] : Takes(in, g, q, v)
  BY TakesExist
<1>2. InTurn(in, Sorted(in, Wanted(in, g, q)), Wanted(in, g, q))
  BY QuestionParts, SortedInTurn
<1>3. Behind(Sorted(in, Wanted(in, g, q)), 0) = Wanted(in, g, q)
  BY <1>2, BehindEnds
<1>4. 0 \in 0 .. Cardinality(Wanted(in, g, q))
  BY <1>2 DEF InTurn
<1>5. v[0] = {}
  BY <1>1 DEF Takes
<1> QED BY <1>1, <1>3, <1>4, <1>5 DEF TakenBy

\* It goes on with the first of what is still to go.
LEMMA TakingGoesOn ==
  ASSUME NEW in, WellFormed(in), NEW g, NEW q, NEW rest, NEW got, TakenBy(in, g, q, rest, got),
         NEW c, IsFirst(in, c, rest)
  PROVE  TakenBy(in, g, q, rest \ {c}, TakeNext(in, g, got, c))
<1> DEFINE W == Wanted(in, g, q)
           o == Sorted(in, W)
           N == Cardinality(W)
<1>1. W \in SUBSET DOMAIN in.candidates
  BY QuestionParts
<1>2. InTurn(in, o, W)
  <2> HIDE DEF W
  <2> QED BY <1>1, SortedInTurn
<1>3. PICK v \in [0 .. N -> SUBSET W] :
        Takes(in, g, q, v) /\ \E k \in 0 .. N : rest = Behind(o, k) /\ got = v[k]
  BY DEF TakenBy
<1>4. PICK k \in 0 .. N : rest = Behind(o, k) /\ got = v[k]
  BY <1>3
<1>5. \A i \in 1 .. N : v[i] = TakeNext(in, g, v[i - 1], o[i])
  BY <1>3 DEF Takes
<1> HIDE DEF W, o
<1>6. /\ k + 1 \in DOMAIN o /\ k + 1 \in 0 .. N
      /\ c = o[k + 1]
      /\ Behind(o, k) \ {c} = Behind(o, k + 1)
  BY <1>1, <1>2, <1>4, NextInTurn
<1>7. N \in Nat /\ k \in Nat
  BY <1>2, <1>4 DEF InTurn
<1>8. k + 1 \in 1 .. N /\ (k + 1) - 1 = k
  BY <1>6, <1>7
<1>9. v[k + 1] = TakeNext(in, g, got, c)
  BY <1>4, <1>5, <1>6, <1>8
<1>10. rest \ {c} = Behind(o, k + 1)
  BY <1>4, <1>6
<1> QED BY <1>3, <1>6, <1>9, <1>10 DEF TakenBy, W, o

\* When nothing is left, it has taken everything it takes.
LEMMA TakingEnds ==
  ASSUME NEW in, WellFormed(in), NEW g, NEW q, NEW got, TakenBy(in, g, q, {}, got)
  PROVE  got = Got(in, g, q)
<1> DEFINE W == Wanted(in, g, q)
           o == Sorted(in, W)
           N == Cardinality(W)
<1>1. W \in SUBSET DOMAIN in.candidates
  BY QuestionParts
<1>2. InTurn(in, o, W)
  <2> HIDE DEF W
  <2> QED BY <1>1, SortedInTurn
<1>3. PICK v \in [0 .. N -> SUBSET W] :
        Takes(in, g, q, v) /\ \E k \in 0 .. N : {} = Behind(o, k) /\ got = v[k]
  BY DEF TakenBy
<1>4. PICK k \in 0 .. N : {} = Behind(o, k) /\ got = v[k]
  BY <1>3
<1>5. v[N] = Got(in, g, q)
  BY <1>3 DEF Takes
<1>6. k = N
  <2> HIDE DEF W, o
  <2> QED BY <1>2, <1>4, BehindEnds
<1> QED BY <1>4, <1>5, <1>6

\* the third loop has come to the bins b, with rest still to go
PlacedBy(in, g, q, rest, b) ==
  \E v \in [0 .. Cardinality(Small(in, g, q)) -> Seq(SUBSET Small(in, g, q))] :
    /\ Places(in, g, q, v)
    /\ \E k \in 0 .. Cardinality(Small(in, g, q)) :
         rest = Behind(Sorted(in, Small(in, g, q)), k) /\ b = v[k]

\* It begins with one empty bin, places one candidate after the other, and
\* ends with the bins of the replay.
LEMMA PlacingBegins ==
  ASSUME NEW in, WellFormed(in), NEW g \in SUBSET Primary, NEW q
  PROVE  PlacedBy(in, g, q, Small(in, g, q), <<{}>>)
<1>1. PICK v \in [0 .. Cardinality(Small(in, g, q)) -> Seq(SUBSET Small(in, g, q))] : Places(in, g, q, v)
  BY PlacesExist
<1>2. InTurn(in, Sorted(in, Small(in, g, q)), Small(in, g, q))
  BY QuestionParts, SortedInTurn
<1>3. Behind(Sorted(in, Small(in, g, q)), 0) = Small(in, g, q)
  BY <1>2, BehindEnds
<1>4. 0 \in 0 .. Cardinality(Small(in, g, q))
  BY <1>2 DEF InTurn
<1>5. v[0] = <<{}>>
  BY <1>1 DEF Places
<1> QED BY <1>1, <1>3, <1>4, <1>5 DEF PlacedBy

\* The second loop goes on likewise, ...
LEMMA PlacingGoesOn ==
  ASSUME NEW in, WellFormed(in), NEW g, NEW q, NEW rest, NEW b, PlacedBy(in, g, q, rest, b),
         NEW c, IsFirst(in, c, rest)
  PROVE  /\ PlacedBy(in, g, q, rest \ {c}, PlaceNext(in, g, q, b, c))
         /\ b \in Seq(SUBSET Small(in, g, q)) /\ c \in Small(in, g, q)
<1> DEFINE W == Small(in, g, q)
           o == Sorted(in, W)
           N == Cardinality(W)
<1>1. W \in SUBSET DOMAIN in.candidates
  BY QuestionParts
<1>2. InTurn(in, o, W)
  <2> HIDE DEF W
  <2> QED BY <1>1, SortedInTurn
<1>3. PICK v \in [0 .. N -> Seq(SUBSET W)] :
        Places(in, g, q, v) /\ \E k \in 0 .. N : rest = Behind(o, k) /\ b = v[k]
  BY DEF PlacedBy
<1>4. PICK k \in 0 .. N : rest = Behind(o, k) /\ b = v[k]
  BY <1>3
<1>5. \A i \in 1 .. N : v[i] = PlaceNext(in, g, q, v[i - 1], o[i])
  BY <1>3 DEF Places
<1> HIDE DEF W, o
<1>6. /\ k + 1 \in DOMAIN o /\ k + 1 \in 0 .. N
      /\ c = o[k + 1]
      /\ Behind(o, k) \ {c} = Behind(o, k + 1)
  BY <1>1, <1>2, <1>4, NextInTurn
<1>7. N \in Nat /\ k \in Nat /\ o[k + 1] \in W
  BY <1>2, <1>4, <1>6 DEF InTurn
<1>8. k + 1 \in 1 .. N /\ (k + 1) - 1 = k
  BY <1>6, <1>7
<1>9. v[k + 1] = PlaceNext(in, g, q, b, c)
  BY <1>4, <1>5, <1>6, <1>8
<1>10. rest \ {c} = Behind(o, k + 1)
  BY <1>4, <1>6
<1>11. b \in Seq(SUBSET W) /\ c \in W
  BY <1>3, <1>4, <1>6, <1>7
<1> QED BY <1>3, <1>6, <1>9, <1>10, <1>11 DEF PlacedBy, W, o

\* ... and ends with its bins.
LEMMA PlacingEnds ==
  ASSUME NEW in, WellFormed(in), NEW g, NEW q, NEW b, PlacedBy(in, g, q, {}, b)
  PROVE  b = Binned(in, g, q)
<1> DEFINE W == Small(in, g, q)
           o == Sorted(in, W)
           N == Cardinality(W)
<1>1. W \in SUBSET DOMAIN in.candidates
  BY QuestionParts
<1>2. InTurn(in, o, W)
  <2> HIDE DEF W
  <2> QED BY <1>1, SortedInTurn
<1>3. PICK v \in [0 .. N -> Seq(SUBSET W)] :
        Places(in, g, q, v) /\ \E k \in 0 .. N : {} = Behind(o, k) /\ b = v[k]
  BY DEF PlacedBy
<1>4. PICK k \in 0 .. N : {} = Behind(o, k) /\ b = v[k]
  BY <1>3
<1>5. v[N] = Binned(in, g, q)
  BY <1>3 DEF Places
<1>6. k = N
  <2> HIDE DEF W, o
  <2> QED BY <1>2, <1>4, BehindEnds
<1> QED BY <1>4, <1>5, <1>6

\* The tokens of what is taken and more are those of both.
LEMMA MoreTokens ==
  ASSUME NEW in, WellFormed(in), NEW s \in SUBSET DOMAIN in.candidates,
         NEW c \in DOMAIN in.candidates, c \notin s
  PROVE  /\ TokensOf(in, s \cup {c}) = TokensOf(in, s) + in.candidates[c].tokens
         /\ TokensOf(in, s) \in Nat /\ in.candidates[c].tokens \in Nat
BY TokensSum, CandidateTyped

\* the planner's bins hold what those of the replay hold
Holds(in, g, q, mine, b) ==
  /\ Len(mine) = Len(b) /\ DOMAIN mine = 1 .. Len(b) /\ Len(b) \in Nat
  /\ \A k \in 1 .. Len(b) :
       /\ mine[k].members = b[k] /\ mine[k].used \in Nat
       /\ TokensOf(in, Got(in, g, q) \cup b[k]) = TokensOf(in, Got(in, g, q)) + mine[k].used

\* They still do with one candidate more.
LEMMA PlacedHolds ==
  ASSUME TypeOK, NEW g, NEW q, g = at[1], g \in SUBSET Primary, used = TokensOf(input, Got(input, g, q)),
         NEW b \in Seq(SUBSET Small(input, g, q)), Holds(input, g, q, bins, b),
         NEW c \in Small(input, g, q), c \notin InBins
  PROVE  Holds(input, g, q, Placed(c, input.candidates[c].tokens), PlaceNext(input, g, q, b, c))
<1> DEFINE W == Small(input, g, q)
           G == Got(input, g, q)
           t == input.candidates[c].tokens
           P == PlaceNext(input, g, q, b, c)
           room == {k \in DOMAIN bins : Fits(t, bins[k].used)}
           mine == Placed(c, t)
<1>1. WellFormed(input)
  BY DEF TypeOK
<1>2. /\ G \subseteq Wanted(input, g, q) /\ Wanted(input, g, q) \subseteq DOMAIN input.candidates
      /\ W \subseteq DOMAIN input.candidates /\ W \cap Wanted(input, g, q) = {}
  BY <1>1, QuestionParts, GotFits
<1>3. t \in Nat /\ input.weight[g] \in Nat /\ input.limit \in Nat /\ used \in Nat
  BY <1>1, <1>2, CandidateTyped DEF TypeOK, WellFormed
<1>4. /\ Len(bins) = Len(b) /\ DOMAIN bins = 1 .. Len(b) /\ Len(b) \in Nat /\ DOMAIN b = 1 .. Len(b)
      /\ \A k \in 1 .. Len(b) :
           /\ bins[k].members = b[k] /\ bins[k].used \in Nat /\ c \notin b[k] /\ b[k] \in SUBSET W
           /\ TokensOf(input, G \cup b[k]) = used + bins[k].used
  BY DEF Holds, InBins
<1>5. \A k \in 1 .. Len(b) : Fits(t, bins[k].used) <=> RoomFor(input, g, q, c, b[k])
  <2> SUFFICES ASSUME NEW k \in 1 .. Len(b)
               PROVE  Fits(t, bins[k].used) <=> RoomFor(input, g, q, c, b[k])
    OBVIOUS
  <2> DEFINE a == input.weight[g]
             m == bins[k].used
             u == TokensOf(input, G \cup b[k])
  <2>1. Fits(t, m) <=> a + used + m + t <= input.limit
    BY DEF Fits
  <2>2. RoomFor(input, g, q, c, b[k]) <=> a + u + t <= input.limit
    BY DEF RoomFor
  <2>3. u = used + m /\ m \in Nat /\ a \in Nat /\ t \in Nat /\ used \in Nat /\ input.limit \in Nat
    BY <1>3, <1>4
  <2> HIDE DEF a, m, u, t, G
  <2>4. a + used + m + t = a + u + t
    BY <2>3
  <2> QED BY <2>1, <2>2, <2>4 DEF m, G
<1>6. room = RoomLeft(input, g, q, c, b)
  BY <1>4, <1>5 DEF RoomLeft
<1>7. Fitted(room, c, b, P)
  <2> HIDE DEF room
  <2> QED BY <1>6, PlaceShape
<1>8. \A k \in 1 .. Len(b) : TokensOf(input, G \cup (b[k] \cup {c})) = used + (bins[k].used + t)
  <2> SUFFICES ASSUME NEW k \in 1 .. Len(b)
               PROVE  TokensOf(input, G \cup (b[k] \cup {c})) = used + (bins[k].used + t)
    OBVIOUS
  <2> DEFINE s == G \cup b[k]
  <2>1. s \in SUBSET DOMAIN input.candidates /\ c \notin s /\ c \in DOMAIN input.candidates
        /\ G \cup (b[k] \cup {c}) = s \cup {c}
    BY <1>2, <1>4
  <2>2. TokensOf(input, s) = used + bins[k].used /\ bins[k].used \in Nat
    BY <1>4
  <2> HIDE DEF s, G
  <2>3. TokensOf(input, s \cup {c}) = TokensOf(input, s) + t
    BY <1>1, <2>1, MoreTokens
  <2> DEFINE m == bins[k].used
             u == TokensOf(input, s)
             n == TokensOf(input, s \cup {c})
  <2>4. n = used + (m + t)
    <3>1. n = u + t /\ u = used + m /\ m \in Nat /\ t \in Nat /\ used \in Nat
      BY <1>3, <2>2, <2>3
    <3> HIDE DEF m, u, n, t
    <3> QED BY <3>1
  <2> QED BY <2>1, <2>4
<1>9. TokensOf(input, G \cup {c}) = used + t
  <2>1. G \in SUBSET DOMAIN input.candidates /\ c \notin G /\ c \in DOMAIN input.candidates
    BY <1>2
  <2> HIDE DEF G
  <2> QED BY <1>1, <2>1, MoreTokens DEF G
<1>10. CASE room # {}
  <2> DEFINE k == Min(room)
             new == [members |-> bins[k].members \cup {c}, used |-> bins[k].used + t]
  <2>1. /\ k \in room /\ Len(P) = Len(b) /\ P[k] = b[k] \cup {c}
        /\ \A j \in DOMAIN b \ {k} : P[j] = b[j]
    <3> HIDE DEF room, P
    <3> QED BY <1>7, <1>10 DEF Fitted
  <2>2. k \in 1 .. Len(b)
    BY <1>4, <2>1
  <2>3. mine = [bins EXCEPT ![k] = new]
    BY <1>10 DEF Placed
  <2> HIDE DEF k, room, P, mine, t
  <2>9. bins[k].members = b[k] /\ bins[k].used \in Nat
    BY <1>4, <2>2
  <2>4. new.members = b[k] \cup {c} /\ new.used = bins[k].used + t /\ new.used \in Nat
    BY <1>3, <2>9
  <2> HIDE DEF new
  <2>5. /\ DOMAIN mine = 1 .. Len(b) /\ mine[k] = new
        /\ \A j \in 1 .. Len(b) \ {k} : mine[j] = bins[j]
    BY <1>4, <2>2, <2>3
  <2>6. Len(mine) = Len(b)
    BY <1>4, <2>5
  <2>7. TokensOf(input, G \cup P[k]) = used + new.used
    BY <1>8, <2>1, <2>2, <2>4
  <2>8. \A j \in 1 .. Len(P) :
          /\ mine[j].members = P[j] /\ mine[j].used \in Nat
          /\ TokensOf(input, G \cup P[j]) = used + mine[j].used
    <3> SUFFICES ASSUME NEW j \in 1 .. Len(b)
                 PROVE  /\ mine[j].members = P[j] /\ mine[j].used \in Nat
                        /\ TokensOf(input, G \cup P[j]) = used + mine[j].used
      BY <2>1
    <3>1. CASE j = k
      BY <2>1, <2>4, <2>5, <2>7, <3>1
    <3>2. CASE j # k
      BY <1>4, <2>1, <2>5, <3>2
    <3> QED BY <3>1, <3>2
  <2> QED BY <1>4, <2>1, <2>5, <2>6, <2>8 DEF Holds, mine, P, t
<1>11. CASE room = {}
  <2> DEFINE new == [members |-> {c}, used |-> t]
             n == Len(b) + 1
  <2>1. mine = Append(bins, new)
    BY <1>11 DEF Placed
  <2>2. Len(P) = n /\ P[n] = {c} /\ \A j \in DOMAIN b : P[j] = b[j]
    <3> HIDE DEF room, P
    <3> QED BY <1>7, <1>11 DEF Fitted
  <2>3. bins \in Seq(Bin) /\ new \in Bin
    BY <1>2, <1>3 DEF TypeOK, Bin
  <2>4. new.members = {c} /\ new.used = t
    OBVIOUS
  <2> HIDE DEF new, room, P, mine
  <2>5. Len(mine) = n /\ DOMAIN mine = 1 .. n /\ mine[n] = new /\ \A j \in 1 .. Len(b) : mine[j] = bins[j]
    BY <1>4, <2>1, <2>3
  <2>6. \A j \in 1 .. n :
          /\ mine[j].members = P[j] /\ mine[j].used \in Nat
          /\ TokensOf(input, G \cup P[j]) = used + mine[j].used
    <3> SUFFICES ASSUME NEW j \in 1 .. n
                 PROVE  /\ mine[j].members = P[j] /\ mine[j].used \in Nat
                        /\ TokensOf(input, G \cup P[j]) = used + mine[j].used
      OBVIOUS
    <3>1. CASE j = n
      BY <1>3, <1>9, <2>2, <2>4, <2>5, <3>1
    <3>2. CASE j # n
      <4>1. j \in 1 .. Len(b)
        BY <1>4, <3>2
      <4> QED BY <1>4, <2>2, <2>5, <4>1
    <3> QED BY <3>1, <3>2
  <2> QED BY <1>4, <2>2, <2>5, <2>6 DEF Holds, mine, P
<1> QED BY <1>10, <1>11

\* some omission gives a candidate this reason
ReasonGiven(om, c, reason) == \E k \in DOMAIN om : om[k].candidate = c /\ om[k].reason = reason

\* the candidates of S were left out for the cause the replay finds
Explained(in, g, q, S, om) == \A c \in S : ReasonGiven(om, c, WhyLeftOut(in, g, q, c))

\* the planner is on the way of the replay with the question q of group g
InReplay(g, q) ==
  /\ g \in SUBSET Primary
  /\ queue \subseteq CandidatesOf(input, g, q)
  /\ required \cup taken \subseteq Wanted(input, g, q)
  /\ helpful \subseteq Usable(input, g, q) \ Wanted(input, g, q)
  /\ degraded = {c \in CandidatesOf(input, g, q) \ queue : Refusal(input, g, c) = "relation_degraded"}
  /\ missing = {c \in CandidatesOf(input, g, q) \ (queue \cup required \cup taken) :
                  input.candidates[c].necessity = "required"}
  /\ Explained(input, g, q,
       CandidatesOf(input, g, q) \ (queue \cup required \cup helpful \cup taken \cup Small(input, g, q)),
       omissions)
  /\ TakenBy(input, g, q, required \cup (queue \cap Wanted(input, g, q)), taken)
  /\ \E b : /\ PlacedBy(input, g, q, (helpful \cup queue) \cap Small(input, g, q), b)
            /\ Holds(input, g, q, bins, b)

\* Omit() gives its candidate a reason and takes none back.
LEMMA OmitGives ==
  ASSUME TypeOK, NEW c \in DOMAIN input.candidates, NEW reason \in Reason, Omit(c, reason)
  PROVE  /\ ReasonGiven(omissions', c, reason)
         /\ \A d, other : ReasonGiven(omissions, d, other) => ReasonGiven(omissions', d, other)
<1> DEFINE new == [candidate |-> c, reason |-> reason]
<1>1. omissions \in Seq(Omission) /\ new \in Omission
  BY DEF TypeOK, Omission
<1>2. omissions' = Append(omissions, new)
  BY DEF Omit
<1>3. new.candidate = c /\ new.reason = reason
  OBVIOUS
<1> HIDE DEF new
<1>4. /\ DOMAIN omissions' = DOMAIN omissions \cup {Len(omissions) + 1}
      /\ omissions'[Len(omissions) + 1] = new
      /\ \A k \in DOMAIN omissions : omissions'[k] = omissions[k]
  BY <1>1, <1>2
<1>5. ReasonGiven(omissions', c, reason)
  BY <1>3, <1>4 DEF ReasonGiven
<1>6. \A d, other : ReasonGiven(omissions, d, other) => ReasonGiven(omissions', d, other)
  BY <1>4 DEF ReasonGiven
<1> QED BY <1>5, <1>6

\* An explanation stays one, and one omission explains one candidate more.
LEMMA ExplainedStill ==
  ASSUME NEW in, NEW g, NEW q, NEW S, NEW om, Explained(in, g, q, S, om), NEW T \in SUBSET S
  PROVE  Explained(in, g, q, T, om)
BY DEF Explained

\* With one omission more, one candidate more may be explained.
LEMMA OmitExplains ==
  ASSUME TypeOK, NEW c \in DOMAIN input.candidates, NEW reason \in Reason, Omit(c, reason),
         NEW g, NEW q, NEW S, Explained(input, g, q, S, omissions), reason = WhyLeftOut(input, g, q, c),
         NEW T, T \subseteq S \cup {c}
  PROVE  Explained(input, g, q, T, omissions')
<1>1. /\ ReasonGiven(omissions', c, reason)
      /\ \A d, other : ReasonGiven(omissions, d, other) => ReasonGiven(omissions', d, other)
  BY OmitGives
<1> QED BY <1>1 DEF Explained

\* BeginQuestion() sets out on it.
LEMMA BeginReplays ==
  ASSUME TypeOK, NEW pair \in pairs, BeginQuestion(pair[1], pair[2])
  PROVE  InReplay(pair[1], pair[2])'
<1> DEFINE g == pair[1]
           q == pair[2]
           mine == CandidatesOf(input, g, q)
<1>1. WellFormed(input) /\ g \in SUBSET Primary
  BY DEF TypeOK
<1>2. /\ input' = input /\ omissions' = omissions
      /\ queue' = mine /\ required' = {} /\ helpful' = {} /\ taken' = {}
      /\ missing' = {} /\ degraded' = {}
      /\ bins' = <<[members |-> {}, used |-> 0]>>
  BY DEF BeginQuestion
<1> HIDE DEF g, q
<1>3. TakenBy(input, g, q, Wanted(input, g, q), {}) /\ PlacedBy(input, g, q, Small(input, g, q), <<{}>>)
  BY <1>1, TakingBegins, PlacingBegins
<1>4. mine \cap Wanted(input, g, q) = Wanted(input, g, q) /\ mine \cap Small(input, g, q) = Small(input, g, q)
  BY QuestionParts
<1>5. Holds(input, g, q, <<[members |-> {}, used |-> 0]>>, <<{}>>)
  <2> DEFINE one == <<[members |-> {}, used |-> 0]>>
             b == <<{}>>
             t == TokensOf(input, Got(input, g, q))
  <2>1. Len(one) = 1 /\ DOMAIN one = 1 .. 1 /\ Len(b) = 1 /\ b[1] = {}
        /\ one[1].members = {} /\ one[1].used = 0
    OBVIOUS
  <2>2. t \in Nat
    BY <1>1, QuestionParts, GotFits, TokensSum
  <2>3. Got(input, g, q) \cup {} = Got(input, g, q)
    OBVIOUS
  <2>4. t = t + 0
    <3> HIDE DEF t
    <3> QED BY <2>2
  <2> HIDE DEF one, b
  <2>5. \A k \in 1 .. 1 :
          /\ one[k].members = b[k] /\ one[k].used \in Nat
          /\ TokensOf(input, Got(input, g, q) \cup b[k]) = t + one[k].used
    <3> SUFFICES /\ one[1].members = b[1] /\ one[1].used \in Nat
                 /\ TokensOf(input, Got(input, g, q) \cup b[1]) = t + one[1].used
      OBVIOUS
    <3> QED BY <2>1, <2>3, <2>4
  <2>6. Holds(input, g, q, one, b)
    BY <2>1, <2>5 DEF Holds
  <2> QED BY <2>6 DEF one, b
<1>6. TakenBy(input', g, q, required' \cup (queue' \cap Wanted(input', g, q)), taken')
  <2>1. required' \cup (queue' \cap Wanted(input, g, q)) = Wanted(input, g, q)
    BY <1>2, <1>4
  <2> HIDE DEF mine
  <2> QED BY <1>2, <1>3, <2>1
<1>7. \E b : /\ PlacedBy(input', g, q, (helpful' \cup queue') \cap Small(input', g, q), b)
             /\ Holds(input', g, q, bins', b)
  <2>1. (helpful' \cup queue') \cap Small(input, g, q) = Small(input, g, q)
    BY <1>2, <1>4
  <2> HIDE DEF mine
  <2> QED BY <1>2, <1>3, <1>5, <2>1
<1>8. /\ queue' \subseteq CandidatesOf(input', g, q)
      /\ degraded' = {c \in CandidatesOf(input', g, q) \ queue' : Refusal(input', g, c) = "relation_degraded"}
      /\ missing' = {c \in CandidatesOf(input', g, q) \ (queue' \cup required' \cup taken') :
                       input'.candidates[c].necessity = "required"}
  BY <1>2
<1>9. Explained(input', g, q,
        CandidatesOf(input', g, q) \ (queue' \cup required' \cup helpful' \cup taken' \cup Small(input', g, q)),
        omissions')
  BY <1>2 DEF Explained
<1> HIDE DEF mine
<1>10. InReplay(g, q)'
  BY <1>1, <1>2, <1>6, <1>7, <1>8, <1>9 DEF InReplay
<1> QED BY <1>10 DEF g, q

\* Classify() leaves what the replay has still to take and to place as it is.
LEMMA ClassifyReplays ==
  ASSUME TypeOK, HeldOnce, NEW g, NEW q, at = <<g, q>>, InReplay(g, q), NEW c \in Candidate, Classify(c)
  PROVE  InReplay(g, q)'
<1> DEFINE mine == CandidatesOf(input, g, q)
           usable == Usable(input, g, q)
           wanted == Wanted(input, g, q)
           small == Small(input, g, q)
<1>1. /\ WellFormed(input) /\ phase = "fill" /\ at[1] = g
      /\ UNCHANGED <<input, taken, used, bins>>
      /\ c \in queue /\ queue' = queue \ {c}
  BY DEF TypeOK, Classify, IsFirst
<1>2. /\ queue \subseteq mine /\ required \cup taken \subseteq wanted /\ helpful \subseteq usable \ wanted
      /\ degraded = {d \in mine \ queue : Refusal(input, g, d) = "relation_degraded"}
      /\ missing = {d \in mine \ (queue \cup required \cup taken) :
                      input.candidates[d].necessity = "required"}
      /\ TakenBy(input, g, q, required \cup (queue \cap wanted), taken)
  BY DEF InReplay
<1>3. PICK b : PlacedBy(input, g, q, (helpful \cup queue) \cap small, b) /\ Holds(input, g, q, bins, b)
  BY DEF InReplay
<1>4. Explained(input, g, q, mine \ (queue \cup required \cup helpful \cup taken \cup small), omissions)
  BY DEF InReplay
<1>5. /\ usable \subseteq mine /\ wanted \subseteq usable /\ small \subseteq usable \ wanted
      /\ mine \subseteq DOMAIN input.candidates
  BY QuestionParts
<1>6. c \notin required \cup helpful \cup taken
  BY <1>1 DEF HeldOnce
<1>7. CASE Refusal(input, g, c) # "none"
  <2>1. /\ UNCHANGED <<required, helpful>> /\ Omit(c, Refusal(input, g, c))
        /\ degraded' = IF Refusal(input, g, c) = "relation_degraded" THEN degraded \cup {c} ELSE degraded
        /\ missing' = IF input.candidates[c].necessity = "required" THEN missing \cup {c} ELSE missing
    BY <1>1, <1>7 DEF Classify
  <2>2. c \notin usable /\ Refusal(input, g, c) = WhyLeftOut(input, g, q, c)
    BY <1>7 DEF Usable, WhyLeftOut
  <2>3. /\ required' \cup (queue' \cap wanted) = required \cup (queue \cap wanted)
        /\ (helpful' \cup queue') \cap small = (helpful \cup queue) \cap small
    BY <1>1, <1>5, <2>1, <2>2
  <2>4. mine \ (queue' \cup required' \cup helpful' \cup taken' \cup small)
          \subseteq (mine \ (queue \cup required \cup helpful \cup taken \cup small)) \cup {c}
    BY <1>1, <2>1
  <2>5. c \in DOMAIN input.candidates /\ Refusal(input, g, c) \in Reason
    BY <1>1, <1>2, <1>5, <1>7, RefusalTyped
  <2>6. degraded' = {d \in mine \ queue' : Refusal(input, g, d) = "relation_degraded"}
    BY <1>1, <1>2, <2>1
  <2>7. missing' = {d \in mine \ (queue' \cup required' \cup taken') :
                      input.candidates[d].necessity = "required"}
    BY <1>1, <1>2, <1>6, <2>1
  <2> HIDE DEF mine, usable, wanted, small
  <2>8. Explained(input, g, q, mine \ (queue' \cup required' \cup helpful' \cup taken' \cup small), omissions')
    BY <1>4, <2>1, <2>2, <2>4, <2>5, OmitExplains
  <2>9. TakenBy(input, g, q, required' \cup (queue' \cap wanted), taken')
    BY <1>1, <1>2, <2>3
  <2>10. PlacedBy(input, g, q, (helpful' \cup queue') \cap small, b) /\ Holds(input, g, q, bins', b)
    BY <1>1, <1>3, <2>3
  <2>11. queue' \subseteq mine /\ required' \cup taken' \subseteq wanted /\ helpful' \subseteq usable \ wanted
    BY <1>1, <1>2, <2>1
  <2>12. g \in SUBSET Primary /\ input' = input
    BY <1>1 DEF InReplay
  <2> QED
    BY <2>6, <2>7, <2>8, <2>9, <2>10, <2>11, <2>12 DEF InReplay, mine, usable, wanted, small
<1>8. CASE Refusal(input, g, c) = "none"
  <2>1. /\ UNCHANGED <<omissions, degraded, missing>>
        /\ IF input.candidates[c].necessity = "required"
             THEN required' = required \cup {c} /\ UNCHANGED helpful
             ELSE helpful' = helpful \cup {c} /\ UNCHANGED required
    BY <1>1, <1>8 DEF Classify
  <2>2. c \in usable /\ (c \in wanted <=> input.candidates[c].necessity = "required")
    BY <1>1, <1>2, <1>8 DEF Usable, Wanted
  <2>3. /\ required' \cup (queue' \cap wanted) = required \cup (queue \cap wanted)
        /\ (helpful' \cup queue') \cap small = (helpful \cup queue) \cap small
    BY <1>1, <1>5, <2>1, <2>2
  <2>4. mine \ (queue' \cup required' \cup helpful' \cup taken' \cup small)
          \subseteq mine \ (queue \cup required \cup helpful \cup taken \cup small)
    BY <1>1, <2>1
  <2>6. degraded' = {d \in mine \ queue' : Refusal(input, g, d) = "relation_degraded"}
    BY <1>1, <1>2, <1>8, <2>1
  <2>7. missing' = {d \in mine \ (queue' \cup required' \cup taken') :
                      input.candidates[d].necessity = "required"}
    BY <1>1, <1>2, <1>6, <2>1
  <2>11. queue' \subseteq mine /\ required' \cup taken' \subseteq wanted /\ helpful' \subseteq usable \ wanted
    BY <1>1, <1>2, <2>1, <2>2
  <2> HIDE DEF mine, usable, wanted, small
  <2>8. Explained(input, g, q, mine \ (queue' \cup required' \cup helpful' \cup taken' \cup small), omissions')
    BY <1>4, <2>1, <2>4, ExplainedStill
  <2>9. TakenBy(input, g, q, required' \cup (queue' \cap wanted), taken')
    BY <1>1, <1>2, <2>3
  <2>10. PlacedBy(input, g, q, (helpful' \cup queue') \cap small, b) /\ Holds(input, g, q, bins', b)
    BY <1>1, <1>3, <2>3
  <2>12. g \in SUBSET Primary /\ input' = input
    BY <1>1 DEF InReplay
  <2> QED
    BY <2>6, <2>7, <2>8, <2>9, <2>10, <2>11, <2>12 DEF InReplay, mine, usable, wanted, small
<1> QED BY <1>7, <1>8

\* TakeRequired() makes one step of the first loop.
LEMMA TakeReplays ==
  ASSUME TypeOK, HeldOnce, FillOK, NEW g, NEW q, at = <<g, q>>, InReplay(g, q),
         NEW c \in Candidate, TakeRequired(c)
  PROVE  InReplay(g, q)'
<1> DEFINE mine == CandidatesOf(input, g, q)
           usable == Usable(input, g, q)
           wanted == Wanted(input, g, q)
           small == Small(input, g, q)
           t == input.candidates[c].tokens
<1>1. /\ WellFormed(input) /\ phase = "fill" /\ at[1] = g /\ g \in SUBSET Primary
      /\ UNCHANGED <<input, queue, helpful, degraded, bins>> /\ queue = {}
      /\ IsFirst(input, c, required) /\ c \in required /\ required' = required \ {c}
  BY DEF TypeOK, TakeRequired, IsFirst, InReplay
<1>2. /\ required \cup taken \subseteq wanted /\ helpful \subseteq usable \ wanted
      /\ degraded = {d \in mine \ queue : Refusal(input, g, d) = "relation_degraded"}
      /\ missing = {d \in mine \ (queue \cup required \cup taken) :
                      input.candidates[d].necessity = "required"}
      /\ TakenBy(input, g, q, required \cup (queue \cap wanted), taken)
  BY DEF InReplay
<1>3. PICK b : PlacedBy(input, g, q, (helpful \cup queue) \cap small, b) /\ Holds(input, g, q, bins, b)
  BY DEF InReplay
<1>4. Explained(input, g, q, mine \ (queue \cup required \cup helpful \cup taken \cup small), omissions)
  BY DEF InReplay
<1>5. /\ usable \subseteq mine /\ wanted \subseteq usable /\ small \subseteq usable \ wanted
      /\ mine \subseteq DOMAIN input.candidates
  BY QuestionParts
<1>6. c \notin helpful \cup taken /\ c \in wanted /\ c \in usable /\ c \notin small /\ c \in mine
      /\ c \in DOMAIN input.candidates /\ input.candidates[c].necessity = "required"
  BY <1>1, <1>2, <1>5 DEF HeldOnce, Wanted
<1>7. used = TokensOf(input, taken) /\ TokensOf(input, taken) \in Nat /\ t \in Nat
      /\ input.weight[g] \in Nat /\ input.limit \in Nat
  <2>1. used = TokensOf(input, taken)
    BY DEF FillOK
  <2>2. taken \in SUBSET DOMAIN input.candidates
    BY DEF TypeOK
  <2> QED BY <1>1, <1>6, <2>1, <2>2, TokensSum, CandidateTyped DEF WellFormed
<1>8. Fits(t, 0) <=> input.weight[g] + TokensOf(input, taken) + t <= input.limit
  <2> DEFINE a == input.weight[g]
  <2>1. Fits(t, 0) <=> a + used + 0 + t <= input.limit
    BY <1>1 DEF Fits
  <2>2. a \in Nat /\ used \in Nat /\ t \in Nat
    BY <1>7
  <2> HIDE DEF a, t
  <2>3. a + used + 0 + t = a + used + t
    BY <2>2
  <2> QED BY <1>7, <2>1, <2>3 DEF a
<1>9. TakenBy(input, g, q, required', TakeNext(input, g, taken, c))
  <2>1. required \cup (queue \cap wanted) = required
    BY <1>1
  <2> HIDE DEF wanted
  <2>2. TakenBy(input, g, q, required, taken)
    BY <1>2, <2>1
  <2> QED BY <1>1, <2>2, TakingGoesOn
<1>10. taken' = TakeNext(input, g, taken, c)
  BY <1>8 DEF TakeRequired, TakeNext
<1>11. TakenBy(input, g, q, required' \cup (queue' \cap wanted), taken')
  <2>1. required' \cup (queue' \cap wanted) = required'
    BY <1>1
  <2> HIDE DEF wanted
  <2> QED BY <1>9, <1>10, <2>1
<1>12. PlacedBy(input, g, q, (helpful' \cup queue') \cap small, b) /\ Holds(input, g, q, bins', b)
  BY <1>1, <1>3
<1>13. /\ queue' \subseteq mine
       /\ degraded' = {d \in mine \ queue' : Refusal(input, g, d) = "relation_degraded"}
       /\ helpful' \subseteq usable \ wanted
  BY <1>1, <1>2
<1>14. CASE taken' = taken \cup {c} /\ UNCHANGED <<missing, omissions>>
  <2>1. required' \cup taken' = required \cup taken
    BY <1>1, <1>14
  <2>2. missing' = {d \in mine \ (queue' \cup required' \cup taken') :
                      input.candidates[d].necessity = "required"}
    BY <1>1, <1>2, <1>14, <2>1
  <2>3. queue' \cup required' \cup helpful' \cup taken' \cup small
          = queue \cup required \cup helpful \cup taken \cup small
    BY <1>1, <2>1
  <2> HIDE DEF mine, usable, wanted, small
  <2>4. Explained(input, g, q, mine \ (queue' \cup required' \cup helpful' \cup taken' \cup small), omissions')
    BY <1>4, <1>14, <2>3
  <2>5. required' \cup taken' \subseteq wanted
    BY <1>2, <2>1
  <2> QED
    BY <1>1, <1>11, <1>12, <1>13, <2>2, <2>4, <2>5 DEF InReplay, mine, usable, wanted, small
<1>15. CASE taken' = taken /\ missing' = missing \cup {c} /\ Omit(c, "budget_exceeded")
  <2>1. missing' = {d \in mine \ (queue' \cup required' \cup taken') :
                      input.candidates[d].necessity = "required"}
    BY <1>1, <1>2, <1>6, <1>15
  <2>2. mine \ (queue' \cup required' \cup helpful' \cup taken' \cup small)
          \subseteq (mine \ (queue \cup required \cup helpful \cup taken \cup small)) \cup {c}
    BY <1>1, <1>15
  <2>3. "budget_exceeded" = WhyLeftOut(input, g, q, c) /\ "budget_exceeded" \in Reason
    BY <1>6 DEF WhyLeftOut, Reason
  <2> HIDE DEF mine, usable, wanted, small
  <2>4. Explained(input, g, q, mine \ (queue' \cup required' \cup helpful' \cup taken' \cup small), omissions')
    BY <1>4, <1>6, <1>15, <2>2, <2>3, OmitExplains
  <2>5. required' \cup taken' \subseteq wanted
    BY <1>1, <1>2, <1>15
  <2> QED
    BY <1>1, <1>11, <1>12, <1>13, <2>1, <2>4, <2>5 DEF InReplay, mine, usable, wanted, small
<1> QED BY <1>14, <1>15 DEF TakeRequired

\* When the first loop is over, the planner has taken and misses what the
\* replay does.
LEMMA TakenIsGot ==
  ASSUME TypeOK, NEW g, NEW q, InReplay(g, q), queue = {}, required = {}
  PROVE  taken = Got(input, g, q) /\ missing = Lost(input, g, q)
<1>1. WellFormed(input)
  BY DEF TypeOK
<1>2. required \cup (queue \cap Wanted(input, g, q)) = {}
  OBVIOUS
<1>3. TakenBy(input, g, q, {}, taken)
  BY <1>2 DEF InReplay
<1>4. taken = Got(input, g, q)
  BY <1>1, <1>3, TakingEnds
<1>5. missing = {d \in CandidatesOf(input, g, q) \ (queue \cup required \cup taken) :
                   input.candidates[d].necessity = "required"}
  BY DEF InReplay
<1>6. missing = Lost(input, g, q)
  BY <1>4, <1>5 DEF Lost
<1> QED BY <1>4, <1>6

\* PlaceHelpful() makes one step of first fit or gives the cause of the replay.
LEMMA PlaceReplays ==
  ASSUME TypeOK, HeldOnce, FillOK, NEW g, NEW q, at = <<g, q>>, InReplay(g, q),
         NEW c \in Candidate, PlaceHelpful(c)
  PROVE  InReplay(g, q)'
<1> DEFINE mine == CandidatesOf(input, g, q)
           usable == Usable(input, g, q)
           wanted == Wanted(input, g, q)
           small == Small(input, g, q)
           t == input.candidates[c].tokens
           left == mine \ (queue \cup required \cup helpful \cup taken \cup small)
           left1 == mine \ (queue' \cup required' \cup helpful' \cup taken' \cup small)
<1>1. /\ WellFormed(input) /\ phase = "fill" /\ at[1] = g /\ g \in SUBSET Primary
      /\ UNCHANGED <<input, queue, required, taken, used, missing, degraded>>
      /\ queue = {} /\ required = {}
      /\ IsFirst(input, c, helpful) /\ c \in helpful /\ helpful' = helpful \ {c}
  BY DEF TypeOK, PlaceHelpful, IsFirst, InReplay
<1>2. /\ required \cup taken \subseteq wanted /\ helpful \subseteq usable \ wanted
      /\ degraded = {d \in mine \ queue : Refusal(input, g, d) = "relation_degraded"}
      /\ missing = {d \in mine \ (queue \cup required \cup taken) :
                      input.candidates[d].necessity = "required"}
      /\ TakenBy(input, g, q, required \cup (queue \cap wanted), taken)
      /\ queue \subseteq mine
  BY DEF InReplay
<1>3. PICK b : PlacedBy(input, g, q, (helpful \cup queue) \cap small, b) /\ Holds(input, g, q, bins, b)
  BY DEF InReplay
<1>4. Explained(input, g, q, left, omissions)
  BY DEF InReplay
<1>5. /\ usable \subseteq mine /\ wanted \subseteq usable /\ small \subseteq usable \ wanted
      /\ mine \subseteq DOMAIN input.candidates
  BY QuestionParts
<1>6. /\ c \notin taken /\ c \notin InBins /\ c \notin wanted /\ c \in usable /\ c \in mine
      /\ c \in DOMAIN input.candidates
  BY <1>1, <1>2, <1>5 DEF HeldOnce
<1>7. taken = Got(input, g, q) /\ missing = Lost(input, g, q)
  BY <1>1, TakenIsGot
<1>8. used = TokensOf(input, Got(input, g, q)) /\ used \in Nat /\ t \in Nat
      /\ input.weight[g] \in Nat /\ input.limit \in Nat
  <2>1. used = TokensOf(input, taken)
    BY DEF FillOK
  <2>2. used \in Nat
    BY DEF TypeOK
  <2> QED BY <1>1, <1>6, <1>7, <2>1, <2>2, CandidateTyped DEF WellFormed
<1>9. Fits(t, 0) <=> RoomFor(input, g, q, c, {})
  <2> DEFINE a == input.weight[g]
             u == TokensOf(input, Got(input, g, q) \cup {})
  <2>1. Fits(t, 0) <=> a + used + 0 + t <= input.limit
    BY <1>1 DEF Fits
  <2>2. RoomFor(input, g, q, c, {}) <=> a + u + t <= input.limit
    BY DEF RoomFor
  <2>3. u = used /\ a \in Nat /\ used \in Nat /\ t \in Nat
    <3>1. Got(input, g, q) \cup {} = Got(input, g, q)
      OBVIOUS
    <3> QED BY <1>8, <3>1
  <2> HIDE DEF a, t, u
  <2>4. a + used + 0 + t = a + u + t
    BY <2>3
  <2> QED BY <2>1, <2>2, <2>4
<1>10. c \in small <=> missing = {} /\ Fits(t, 0)
  BY <1>6, <1>7, <1>9 DEF Small
<1>11. TakenBy(input, g, q, required' \cup (queue' \cap wanted), taken')
  BY <1>1, <1>2
<1>12. /\ queue' \subseteq mine /\ required' \cup taken' \subseteq wanted
       /\ degraded' = {d \in mine \ queue' : Refusal(input, g, d) = "relation_degraded"}
       /\ missing' = {d \in mine \ (queue' \cup required' \cup taken') :
                        input.candidates[d].necessity = "required"}
       /\ helpful' \subseteq usable \ wanted
  BY <1>1, <1>2
<1>13. CASE c \notin small
  <2> DEFINE reason == IF missing # {} THEN "context_blocked" ELSE "budget_exceeded"
  <2>1. Omit(c, reason) /\ UNCHANGED bins
    BY <1>10, <1>13 DEF PlaceHelpful
  <2>2. reason = WhyLeftOut(input, g, q, c) /\ reason \in Reason
    BY <1>6, <1>7 DEF WhyLeftOut, Reason
  <2>3. left1 \subseteq left \cup {c}
    BY <1>1
  <2>4. (helpful' \cup queue') \cap small = (helpful \cup queue) \cap small
    BY <1>1, <1>13
  <2> HIDE DEF mine, usable, wanted, small, left, left1, reason
  <2>5. Explained(input, g, q, left1, omissions')
    BY <1>4, <1>6, <2>1, <2>2, <2>3, OmitExplains
  <2>6. PlacedBy(input, g, q, (helpful' \cup queue') \cap small, b) /\ Holds(input, g, q, bins', b)
    BY <1>3, <2>1, <2>4
  <2> QED
    BY <1>1, <1>11, <1>12, <2>5, <2>6 DEF InReplay, mine, usable, wanted, small, left1
<1>14. CASE c \in small
  <2> DEFINE rest == helpful \cap small
             b1 == PlaceNext(input, g, q, b, c)
  <2>1. bins' = Placed(c, t) /\ UNCHANGED omissions
    BY <1>10, <1>14 DEF PlaceHelpful
  <2>2. (helpful \cup queue) \cap small = rest /\ (helpful' \cup queue') \cap small = rest \ {c}
    BY <1>1
  <2>3. IsFirst(input, c, rest)
    BY <1>1, <1>14 DEF IsFirst
  <2>4. left1 \subseteq left
    BY <1>1, <1>14
  <2> HIDE DEF mine, usable, wanted, rest, left, left1
  <2>5. PlacedBy(input, g, q, rest, b)
    BY <1>3, <2>2
  <2>6. PlacedBy(input, g, q, rest \ {c}, b1) /\ b \in Seq(SUBSET small)
    BY <1>1, <2>3, <2>5, PlacingGoesOn
  <2>7. Holds(input, g, q, bins', b1)
    BY <1>1, <1>3, <1>6, <1>8, <1>14, <2>1, <2>6, PlacedHolds
  <2>8. Explained(input, g, q, left1, omissions')
    BY <1>4, <2>1, <2>4, ExplainedStill
  <2> HIDE DEF b1
  <2>9. PlacedBy(input, g, q, (helpful' \cup queue') \cap small, b1)
    BY <2>2, <2>6
  <2> QED
    BY <1>1, <1>11, <1>12, <2>7, <2>8, <2>9 DEF InReplay, mine, usable, wanted, left1
<1> QED BY <1>13, <1>14

-----------------------------------------------------------------------------
(* What the plan has come to is what the replay makes.                     *)

\* EmitBundles() puts one bundle for each bin behind those there are.
LEMMA EmitShape ==
  ASSUME LossInv, EmitBundles
  PROVE  /\ Len(bundles) \in Nat /\ DOMAIN bundles = 1 .. Len(bundles)
         /\ Len(bins) \in Nat /\ DOMAIN bins = 1 .. Len(bins)
         /\ DOMAIN bundles' = 1 .. (Len(bundles) + Len(bins))
         /\ \A k \in 1 .. Len(bundles) : bundles'[k] = bundles[k]
         /\ \A k \in 1 .. Len(bins) :
              bundles'[Len(bundles) + k] =
                Bundle(input, at[1], at[2], taken \cup bins[k].members, degraded, missing)
<1> DEFINE B(k) == Bundle(input, at[1], at[2], taken \cup bins[k].members, degraded, missing)
           new == [k \in DOMAIN bins |-> B(k)]
<1>1. bins \in Seq(Bin) /\ bundles' = bundles \o new
  BY DEF EmitBundles, LossInv, TypeOK, Bin
<1>2. DOMAIN bins = 1 .. Len(bins) /\ Len(bins) \in Nat
  BY <1>1
<1>3. PICK S : bundles \in Seq(S)
  BY DEF LossInv, Whereabouts
<1> DEFINE T == S \cup {B(k) : k \in DOMAIN bins}
<1>4. new \in Seq(T) /\ Len(new) = Len(bins) /\ \A k \in 1 .. Len(bins) : new[k] = B(k)
  <2>1. \A k \in DOMAIN bins : B(k) \in T
    OBVIOUS
  <2> HIDE DEF B, T
  <2> QED BY <1>2, <2>1
<1>5. bundles \in Seq(T)
  BY <1>3, SeqMonotonic
<1> HIDE DEF B, T, new
<1>6. /\ bundles' \in Seq(T) /\ Len(bundles') = Len(bundles) + Len(new)
      /\ \A j \in 1 .. (Len(bundles) + Len(new)) :
           bundles'[j] = IF j <= Len(bundles) THEN bundles[j] ELSE new[j - Len(bundles)]
  <2>1. bundles' = bundles \o new
    BY <1>1
  <2>2. new \in Seq(T) /\ bundles \in Seq(T)
    BY <1>4, <1>5
  <2> QED BY ONLY <2>1, <2>2, ConcatProperties
<1>7. /\ DOMAIN bundles = 1 .. Len(bundles) /\ DOMAIN bundles' = 1 .. (Len(bundles) + Len(bins))
      /\ Len(bundles) \in Nat
  BY <1>4, <1>5, <1>6
<1>8. \A k \in 1 .. Len(bundles) : bundles'[k] = bundles[k]
  BY <1>2, <1>4, <1>6, <1>7
<1>9. \A k \in 1 .. Len(bins) : bundles'[Len(bundles) + k] = new[k]
  BY <1>2, <1>4, <1>6, <1>7
<1>10. \A k \in 1 .. Len(bins) : bundles'[Len(bundles) + k] = B(k)
  BY <1>4, <1>9
<1> QED BY <1>2, <1>7, <1>8, <1>10 DEF B

\* the bundles of a question in a list of bundles
OfPair(bs, g, q) == {k \in DOMAIN bs : bs[k].group = g /\ bs[k].question = q}

\* the candidates of a question with a degraded edge
Weak(in, g, q) == {c \in CandidatesOf(in, g, q) : Refusal(in, g, c) = "relation_degraded"}

\* the bundle of the replay for its bin j
Replay(in, g, q, j) ==
  Bundle(in, g, q, Got(in, g, q) \cup Binned(in, g, q)[j], Weak(in, g, q), Lost(in, g, q))

\* the bundles of a question are those of the replay, one behind the other, and
\* the candidates in none of them are explained as by the replay
MadeInFull(in, g, q, bs, om) ==
  /\ \E n \in Nat :
       /\ OfPair(bs, g, q) = {n + j : j \in 1 .. Len(Binned(in, g, q))}
       /\ \A j \in 1 .. Len(Binned(in, g, q)) : bs[n + j] = Replay(in, g, q, j)
  /\ Explained(in, g, q, CandidatesOf(in, g, q) \ (Got(in, g, q) \cup Small(in, g, q)), om)

\* the groups and questions to be planned
ToPlan == {pair \in Groups(root) \X Question : pair[2] \in Asked(input, pair[1])}

\* is a question in hand, and this one?
OnTheWay(now, here, pair) == now = "fill" /\ here = pair

\* the question a bundle belongs to
PairOf(b) == <<b.group, b.question>>

\* What is to be planned waits, is in hand or is made; each bundle belongs to
\* something that was made.
ReplayInv ==
  /\ phase = "group" => bundles = <<>>
  /\ phase # "group" => pairs \subseteq ToPlan
  /\ phase = "fill" => at \in ToPlan \ pairs /\ InReplay(at[1], at[2])
  /\ \A k \in DOMAIN bundles :
       PairOf(bundles[k]) \in ToPlan \ pairs /\ ~OnTheWay(phase, at, PairOf(bundles[k]))
  /\ phase # "group" =>
       \A pair \in ToPlan \ pairs :
         OnTheWay(phase, at, pair) \/ MadeInFull(input, pair[1], pair[2], bundles, omissions)

\* What is made stays as it is, whatever else is omitted.
LEMMA MadeStill ==
  ASSUME NEW in, NEW g, NEW q, NEW bs, NEW om, MadeInFull(in, g, q, bs, om), NEW other,
         \A d, reason : ReasonGiven(om, d, reason) => ReasonGiven(other, d, reason)
  PROVE  MadeInFull(in, g, q, bs, other)
BY DEF MadeInFull, Explained

\* Steps with the question in hand.
LEMMA FillKeepsReplay ==
  ASSUME ReplayInv, phase = "fill", UNCHANGED <<input, phase, root, pairs, at, bundles>>,
         InReplay(at[1], at[2])',
         \A d, reason : ReasonGiven(omissions, d, reason) => ReasonGiven(omissions', d, reason)
  PROVE  ReplayInv'
<1>1. ToPlan' = ToPlan
  BY DEF ToPlan, Groups, Asked
<1>2. \A pair : OnTheWay(phase', at', pair) <=> OnTheWay(phase, at, pair)
  BY DEF OnTheWay
<1>3. ASSUME NEW pair \in ToPlan \ pairs, ~OnTheWay(phase, at, pair)
      PROVE  MadeInFull(input, pair[1], pair[2], bundles, omissions')
  <2>1. MadeInFull(input, pair[1], pair[2], bundles, omissions)
    BY <1>3 DEF ReplayInv
  <2> QED BY <2>1, MadeStill
<1>4. at' \in ToPlan' \ pairs' /\ InReplay(at[1], at[2])'
  BY <1>1 DEF ReplayInv
<1>5. \A k \in DOMAIN bundles' :
        PairOf(bundles'[k]) \in ToPlan' \ pairs' /\ ~OnTheWay(phase', at', PairOf(bundles'[k]))
  BY <1>1, <1>2 DEF ReplayInv
<1>6. \A pair \in ToPlan' \ pairs' :
        OnTheWay(phase', at', pair) \/ MadeInFull(input', pair[1], pair[2], bundles', omissions')
  BY <1>1, <1>2, <1>3
<1>7. pairs' \subseteq ToPlan'
  BY <1>1 DEF ReplayInv
<1> QED BY <1>4, <1>5, <1>6, <1>7 DEF ReplayInv

\* Steps without one.
LEMMA ReplayAlone ==
  ASSUME ReplayInv, UNCHANGED <<input, root, pairs, at, bundles, omissions>>,
         phase # "fill", phase # "group", phase' # "fill", phase' # "group"
  PROVE  ReplayInv'
<1>1. ToPlan' = ToPlan
  BY DEF ToPlan, Groups, Asked
<1>2. \A pair : ~OnTheWay(phase', at', pair) /\ ~OnTheWay(phase, at, pair)
  BY DEF OnTheWay
<1> QED BY <1>1, <1>2 DEF ReplayInv

\* In the beginning nothing has been made.
LEMMA InitReplay == Begins => ReplayInv
<1> SUFFICES ASSUME Begins PROVE ReplayInv
  OBVIOUS
<1>1. phase = "group" /\ bundles = <<>>
  BY DEF Begins
<1> QED BY <1>1 DEF ReplayInv

\* Grouped() makes everything wait.
LEMMA GroupedKeepsReplay ==
  ASSUME ReplayInv, Grouped
  PROVE  ReplayInv'
<1>1. phase' = "choose" /\ UNCHANGED <<input, root, bundles>> /\ bundles = <<>> /\ pairs' = ToPlan
  BY DEF Grouped, grouping, ReplayInv, ToPlan
<1>2. ToPlan' = ToPlan
  BY <1>1 DEF ToPlan, Groups, Asked
<1> QED BY <1>1, <1>2 DEF ReplayInv

\* BeginQuestion() takes in hand what no bundle belongs to.
LEMMA BeginKeepsReplay ==
  ASSUME TypeOK, ReplayInv, NEW pair \in pairs, BeginQuestion(pair[1], pair[2])
  PROVE  ReplayInv'
<1>1. /\ UNCHANGED <<input, root, bundles, omissions>> /\ phase = "choose" /\ phase' = "fill"
  BY DEF BeginQuestion, grouping
<1>2. pair = <<pair[1], pair[2]>>
  BY DEF TypeOK
<1>3. at' = pair /\ pairs' = pairs \ {pair}
  BY <1>2 DEF BeginQuestion
<1>4. ToPlan' = ToPlan
  BY <1>1 DEF ToPlan, Groups, Asked
<1>5. \A other : ~OnTheWay(phase, at, other) /\ (OnTheWay(phase', at', other) <=> other = pair)
  BY <1>1, <1>3 DEF OnTheWay
<1>6. InReplay(pair[1], pair[2])'
  BY BeginReplays
<1>7. pairs \subseteq ToPlan
  BY <1>1 DEF ReplayInv
<1>8. InReplay(at[1], at[2])'
  BY <1>3, <1>6
<1>9. \A k \in DOMAIN bundles' :
        PairOf(bundles'[k]) \in ToPlan' \ pairs' /\ ~OnTheWay(phase', at', PairOf(bundles'[k]))
  BY <1>1, <1>3, <1>4, <1>5 DEF ReplayInv
<1>10. \A other \in ToPlan' \ pairs' :
         OnTheWay(phase', at', other) \/ MadeInFull(input', other[1], other[2], bundles', omissions')
  BY <1>1, <1>3, <1>4, <1>5 DEF ReplayInv
<1> QED BY <1>1, <1>3, <1>4, <1>7, <1>8, <1>9, <1>10 DEF ReplayInv

\* With everything classified, taken and placed, EmitBundles() makes what the
\* replay makes.
LEMMA HandIsReplay ==
  ASSUME TypeOK, NEW g, NEW q, InReplay(g, q), queue = {}, required = {}, helpful = {}
  PROVE  /\ Len(bins) = Len(Binned(input, g, q))
         /\ \A k \in 1 .. Len(bins) :
              Bundle(input, g, q, taken \cup bins[k].members, degraded, missing) = Replay(input, g, q, k)
         /\ Explained(input, g, q,
              CandidatesOf(input, g, q) \ (Got(input, g, q) \cup Small(input, g, q)), omissions)
<1>1. taken = Got(input, g, q) /\ missing = Lost(input, g, q) /\ WellFormed(input)
  BY TakenIsGot DEF TypeOK
<1>2. degraded = Weak(input, g, q)
  BY DEF InReplay, Weak
<1>3. PICK b : /\ PlacedBy(input, g, q, (helpful \cup queue) \cap Small(input, g, q), b)
               /\ Holds(input, g, q, bins, b)
  BY DEF InReplay
<1>4. (helpful \cup queue) \cap Small(input, g, q) = {}
  OBVIOUS
<1>5. PlacedBy(input, g, q, {}, b)
  BY <1>3, <1>4
<1>6. b = Binned(input, g, q)
  BY <1>1, <1>5, PlacingEnds
<1>7. Len(bins) = Len(b) /\ \A k \in 1 .. Len(b) : bins[k].members = b[k]
  BY <1>3 DEF Holds
<1>8. \A k \in 1 .. Len(bins) :
        Bundle(input, g, q, taken \cup bins[k].members, degraded, missing) = Replay(input, g, q, k)
  BY <1>1, <1>2, <1>6, <1>7 DEF Replay
<1>9. CandidatesOf(input, g, q) \ (queue \cup required \cup helpful \cup taken \cup Small(input, g, q))
        = CandidatesOf(input, g, q) \ (Got(input, g, q) \cup Small(input, g, q))
  BY <1>1
<1>10. Explained(input, g, q,
         CandidatesOf(input, g, q) \ (queue \cup required \cup helpful \cup taken \cup Small(input, g, q)),
         omissions)
  BY DEF InReplay
<1>11. Explained(input, g, q,
         CandidatesOf(input, g, q) \ (Got(input, g, q) \cup Small(input, g, q)), omissions)
  BY <1>9, <1>10
<1> QED BY <1>6, <1>7, <1>8, <1>11

\* EmitBundles() makes what was in hand, and nothing else.
LEMMA EmitKeepsReplay ==
  ASSUME LossInv, ReplayInv, EmitBundles
  PROVE  ReplayInv'
<1> DEFINE n == Len(bundles)
           m == Len(bins)
           g == at[1]
           q == at[2]
<1>1. /\ UNCHANGED <<input, root, pairs, at, omissions>> /\ phase = "fill" /\ phase' = "choose"
      /\ queue = {} /\ required = {} /\ helpful = {}
  BY DEF EmitBundles, grouping, filling
<1>2. at \in ToPlan \ pairs /\ InReplay(g, q) /\ at = <<g, q>> /\ TypeOK
  BY <1>1 DEF ReplayInv, LossInv, ToPlan
<1>3. /\ m = Len(Binned(input, g, q))
      /\ \A k \in 1 .. m :
           Bundle(input, g, q, taken \cup bins[k].members, degraded, missing) = Replay(input, g, q, k)
      /\ Explained(input, g, q,
           CandidatesOf(input, g, q) \ (Got(input, g, q) \cup Small(input, g, q)), omissions)
  <2> HIDE DEF g, q
  <2> QED BY <1>1, <1>2, HandIsReplay
<1>4. /\ n \in Nat /\ DOMAIN bundles = 1 .. n /\ m \in Nat /\ DOMAIN bundles' = 1 .. (n + m)
      /\ \A k \in 1 .. n : bundles'[k] = bundles[k]
      /\ \A k \in 1 .. m :
           bundles'[n + k] = Bundle(input, g, q, taken \cup bins[k].members, degraded, missing)
  BY EmitShape
<1>5. \A k \in 1 .. m : bundles'[n + k] = Replay(input, g, q, k)
  BY <1>3, <1>4
<1> HIDE DEF g, q, n, m
<1>6. \A k \in 1 .. m : bundles'[n + k].group = g /\ bundles'[n + k].question = q
  <2>1. \A k \in 1 .. m : Replay(input, g, q, k).group = g /\ Replay(input, g, q, k).question = q
    BY DEF Replay, Bundle
  <2> QED BY <1>5, <2>1
<1>7. \A i \in DOMAIN bundles' : i \in 1 .. n \/ \E k \in 1 .. m : i = n + k
  <2> SUFFICES ASSUME NEW i \in 1 .. (n + m), i \notin 1 .. n PROVE i - n \in 1 .. m /\ i = n + (i - n)
    BY <1>4
  <2> QED BY <1>4
<1>8. \A k \in 1 .. n : PairOf(bundles[k]) \in ToPlan \ pairs /\ PairOf(bundles[k]) # at
  BY <1>1, <1>4 DEF ReplayInv, OnTheWay
<1>9. OfPair(bundles', g, q) = {n + j : j \in 1 .. m}
  <2>1. \A k \in 1 .. n : ~(bundles[k].group = g /\ bundles[k].question = q)
    BY <1>2, <1>8 DEF PairOf
  <2>2. \A j \in 1 .. m : n + j \in DOMAIN bundles'
    BY <1>4
  <2>3. ASSUME NEW i \in OfPair(bundles', g, q) PROVE \E j \in 1 .. m : i = n + j
    <3>1. i \in DOMAIN bundles' /\ bundles'[i].group = g /\ bundles'[i].question = q
      BY <2>3 DEF OfPair
    <3>2. i \notin 1 .. n
      BY <1>4, <2>1, <3>1
    <3> QED BY <1>7, <3>1, <3>2
  <2>4. \A j \in 1 .. m : n + j \in OfPair(bundles', g, q)
    BY <1>6, <2>2 DEF OfPair
  <2> QED BY <2>3, <2>4
<1>10. MadeInFull(input, g, q, bundles', omissions)
  BY <1>3, <1>4, <1>5, <1>9 DEF MadeInFull
<1>11. ASSUME NEW pair \in ToPlan \ pairs, pair # at
       PROVE  MadeInFull(input, pair[1], pair[2], bundles', omissions)
  <2>1. MadeInFull(input, pair[1], pair[2], bundles, omissions)
    BY <1>1, <1>11 DEF ReplayInv, OnTheWay
  <2>2. pair = <<pair[1], pair[2]>>
    BY DEF ToPlan
  <2>3. OfPair(bundles', pair[1], pair[2]) = OfPair(bundles, pair[1], pair[2])
    <3>1. \A j \in 1 .. m : ~(bundles'[n + j].group = pair[1] /\ bundles'[n + j].question = pair[2])
      BY <1>2, <1>6, <1>11, <2>2
    <3>2. \A k \in 1 .. n : k \in DOMAIN bundles'
      BY <1>4
    <3>3. ASSUME NEW i \in OfPair(bundles', pair[1], pair[2])
          PROVE  i \in OfPair(bundles, pair[1], pair[2])
      <4>1. /\ i \in DOMAIN bundles'
            /\ bundles'[i].group = pair[1] /\ bundles'[i].question = pair[2]
        BY <3>3 DEF OfPair
      <4>2. i \in 1 .. n
        BY <1>7, <3>1, <4>1
      <4> QED BY <1>4, <4>1, <4>2 DEF OfPair
    <3>4. ASSUME NEW i \in OfPair(bundles, pair[1], pair[2])
          PROVE  i \in OfPair(bundles', pair[1], pair[2])
      BY <1>4, <3>2, <3>4 DEF OfPair
    <3> QED BY <3>3, <3>4
  <2>4. PICK o \in Nat :
          /\ OfPair(bundles, pair[1], pair[2]) = {o + j : j \in 1 .. Len(Binned(input, pair[1], pair[2]))}
          /\ \A j \in 1 .. Len(Binned(input, pair[1], pair[2])) :
               bundles[o + j] = Replay(input, pair[1], pair[2], j)
    BY <2>1 DEF MadeInFull
  <2>5. \A j \in 1 .. Len(Binned(input, pair[1], pair[2])) : o + j \in 1 .. n
    BY <1>4, <2>4 DEF OfPair
  <2>6. \A j \in 1 .. Len(Binned(input, pair[1], pair[2])) :
          bundles'[o + j] = Replay(input, pair[1], pair[2], j)
    BY <1>4, <2>4, <2>5
  <2> QED BY <2>1, <2>3, <2>4, <2>6 DEF MadeInFull
<1>12. ToPlan' = ToPlan /\ \A pair : ~OnTheWay(phase', at', pair)
  BY <1>1 DEF ToPlan, Groups, Asked, OnTheWay
<1>13. \A k \in DOMAIN bundles' :
         PairOf(bundles'[k]) \in ToPlan' \ pairs' /\ ~OnTheWay(phase', at', PairOf(bundles'[k]))
  <2> SUFFICES ASSUME NEW k \in DOMAIN bundles' PROVE PairOf(bundles'[k]) \in ToPlan \ pairs
    BY <1>1, <1>12
  <2>1. CASE k \in 1 .. n
    BY <1>4, <1>8, <2>1
  <2>2. CASE \E j \in 1 .. m : k = n + j
    BY <1>2, <1>6, <2>2 DEF PairOf
  <2> QED BY <1>7, <2>1, <2>2
<1>14. \A pair \in ToPlan' \ pairs' :
         OnTheWay(phase', at', pair) \/ MadeInFull(input', pair[1], pair[2], bundles', omissions')
  <2>1. MadeInFull(input, at[1], at[2], bundles', omissions)
    BY <1>10 DEF g, q
  <2> QED BY <1>1, <1>11, <1>12, <2>1
<1>15. pairs' \subseteq ToPlan'
  BY <1>1, <1>12 DEF ReplayInv
<1> QED BY <1>1, <1>13, <1>14, <1>15 DEF ReplayInv

\* Every step keeps ReplayInv.
LEMMA NextKeepsReplay == LossInv /\ DispatchInv /\ ReplayInv /\ [Next]_vars => ReplayInv'
<1> SUFFICES ASSUME LossInv, DispatchInv, ReplayInv, [Next]_vars PROVE ReplayInv'
  OBVIOUS
<1>1. TypeOK /\ HeldOnce
  BY DEF LossInv
<1>2. phase = "fill" => FillOK /\ InReplay(at[1], at[2]) /\ at = <<at[1], at[2]>>
  BY DEF DispatchInv, ReplayInv, ToPlan
<1>3. ASSUME phase = "group", phase' = "group", bundles' = bundles PROVE ReplayInv'
  BY <1>3 DEF ReplayInv
<1>4. ASSUME NEW e \in edges, Union(e) PROVE ReplayInv'
  BY <1>3, <1>4 DEF Union
<1>5. CASE Grouped
  BY <1>5, GroupedKeepsReplay
<1>6. ASSUME NEW pair \in pairs, BeginQuestion(pair[1], pair[2]) PROVE ReplayInv'
  BY <1>1, <1>6, BeginKeepsReplay
<1>7. ASSUME NEW c \in DOMAIN input.candidates, NEW reason \in Reason,
             Omit(c, reason) \/ UNCHANGED omissions
      PROVE  \A d, other : ReasonGiven(omissions, d, other) => ReasonGiven(omissions', d, other)
  BY <1>1, <1>7, OmitGives
<1>8. ASSUME NEW c \in Candidate, Classify(c) PROVE ReplayInv'
  <2>1. /\ phase = "fill" /\ c \in DOMAIN input.candidates
        /\ UNCHANGED <<input, phase, root, pairs, at, bundles>>
    BY <1>1, <1>8 DEF Classify, grouping, IsFirst, TypeOK
  <2>2. InReplay(at[1], at[2])'
    <3> DEFINE g == at[1]
               q == at[2]
    <3>1. at = <<g, q>> /\ InReplay(g, q)
      BY <1>2, <2>1
    <3>2. g' = g /\ q' = q
      BY <2>1
    <3> QED BY <1>1, <1>8, <3>1, <3>2, ClassifyReplays
  <2>3. \/ Refusal(input, at[1], c) \in Reason /\ Omit(c, Refusal(input, at[1], c))
        \/ UNCHANGED omissions
    BY <1>8, RefusalTyped DEF Classify
  <2>4. "budget_exceeded" \in Reason
    BY DEF Reason
  <2> QED BY <1>7, <2>1, <2>2, <2>3, <2>4, FillKeepsReplay
<1>9. ASSUME NEW c \in Candidate, TakeRequired(c) PROVE ReplayInv'
  <2>1. /\ phase = "fill" /\ c \in DOMAIN input.candidates
        /\ UNCHANGED <<input, phase, root, pairs, at, bundles>>
    BY <1>1, <1>9 DEF TakeRequired, grouping, IsFirst, TypeOK
  <2>2. InReplay(at[1], at[2])'
    BY <1>1, <1>2, <1>9, <2>1, TakeReplays
  <2>3. "budget_exceeded" \in Reason /\ (Omit(c, "budget_exceeded") \/ UNCHANGED omissions)
    BY <1>9 DEF TakeRequired, Reason
  <2> QED BY <1>7, <2>1, <2>2, <2>3, FillKeepsReplay
<1>10. ASSUME NEW c \in Candidate, PlaceHelpful(c) PROVE ReplayInv'
  <2>1. /\ phase = "fill" /\ c \in DOMAIN input.candidates
        /\ UNCHANGED <<input, phase, root, pairs, at, bundles>>
    BY <1>1, <1>10 DEF PlaceHelpful, grouping, IsFirst, TypeOK
  <2>2. InReplay(at[1], at[2])'
    BY <1>1, <1>2, <1>10, <2>1, PlaceReplays
  <2>3. /\ "budget_exceeded" \in Reason /\ "context_blocked" \in Reason
        /\ Omit(c, "budget_exceeded") \/ Omit(c, "context_blocked") \/ UNCHANGED omissions
    BY <1>10 DEF PlaceHelpful, Reason
  <2> QED BY <1>7, <2>1, <2>2, <2>3, FillKeepsReplay
<1>11. CASE EmitBundles
  BY <1>11, EmitKeepsReplay
<1>12. CASE Create
  BY <1>12, ReplayAlone DEF Create, grouping
<1>13. CASE Finished \/ UNCHANGED vars
  <2>1. UNCHANGED <<input, phase, root, pairs, at, queue, required, helpful, taken, missing,
                    degraded, bins, bundles, omissions>>
    BY <1>13 DEF Finished, vars, grouping, filling
  <2>2. ToPlan' = ToPlan /\ \A g, q : InReplay(g, q)' <=> InReplay(g, q)
    BY <2>1 DEF ToPlan, Groups, Asked, InReplay
  <2> QED BY <2>1, <2>2 DEF ReplayInv
<1> QED
  BY <1>4, <1>5, <1>6, <1>8, <1>9, <1>10, <1>11, <1>12, <1>13 DEF Next

-----------------------------------------------------------------------------
(* The replay of the groups.                                               *)

\* f[s] is the forest in which the edges of s were unioned, made as the fold
\* makes it
IsGrown(S, f) ==
  f = [s \in SUBSET S |->
         IF s = {} THEN [p \in Primary |-> p] ELSE Joined(f[s \ {Pick(s)}], Pick(s))]

Grown(S) == (CHOOSE f : IsGrown(S, f))[S]

\* one step of it
LEMMA GrownAt ==
  ASSUME NEW S, NEW f, IsGrown(S, f), NEW s \in SUBSET S
  PROVE  f[s] = IF s = {} THEN [p \in Primary |-> p] ELSE Joined(f[s \ {Pick(s)}], Pick(s))
BY DEF IsGrown

\* The forest of a set of edges does not depend on what it is a subset of.
LEMMA GrownUnique ==
  ASSUME NEW S, IsFiniteSet(S), NEW T, NEW f, NEW g, IsGrown(S, f), IsGrown(T, g),
         NEW s \in SUBSET S, s \in SUBSET T
  PROVE  f[s] = g[s]
<1> DEFINE B == {t \in SUBSET S : t \subseteq T /\ f[t] # g[t]}
<1> SUFFICES ASSUME B # {} PROVE FALSE
  OBVIOUS
<1>1. PICK t \in B : \A u \in B : u \subseteq t => u = t
  <2> HIDE DEF B
  <2>1. B \subseteq SUBSET S
    BY DEF B
  <2> QED BY <2>1, LeastSubset
<1>2. t \in SUBSET S /\ t \in SUBSET T /\ f[t] # g[t]
  OBVIOUS
<1>3. t # {}
  BY <1>2, GrownAt
<1> DEFINE u == t \ {Pick(t)}
<1>4. f[u] = g[u]
  BY <1>1, <1>2, <1>3, PickIn
<1> HIDE DEF B
<1>5. f[t] = Joined(f[u], Pick(t))
  BY <1>2, <1>3 DEF IsGrown
<1>6. g[t] = Joined(g[u], Pick(t))
  BY <1>2, <1>3 DEF IsGrown
<1> QED BY <1>2, <1>4, <1>5, <1>6

\* The forests of the subsets of S are among them those of a part of S.
LEMMA GrownOfPart ==
  ASSUME NEW S, NEW f, IsGrown(S, f), NEW T \in SUBSET S
  PROVE  IsGrown(T, [s \in SUBSET T |-> f[s]])
<1> DEFINE g == [s \in SUBSET T |-> f[s]]
<1>1. ASSUME NEW s \in SUBSET T
      PROVE  g[s] = IF s = {} THEN [p \in Primary |-> p] ELSE Joined(g[s \ {Pick(s)}], Pick(s))
  <2>1. g[s] = f[s] /\ g[s \ {Pick(s)}] = f[s \ {Pick(s)}] /\ s \in SUBSET S
    OBVIOUS
  <2> QED BY <2>1, GrownAt
<1>2. g = [s \in SUBSET T |-> g[s]]
  OBVIOUS
<1> HIDE DEF g
<1>3. g = [s \in SUBSET T |->
             IF s = {} THEN [p \in Primary |-> p] ELSE Joined(g[s \ {Pick(s)}], Pick(s))]
  BY <1>1, <1>2
<1> QED BY <1>3 DEF IsGrown, g

\* Every solution says of a part of the edges the same.
LEMMA GrownIs ==
  ASSUME NEW S, IsFiniteSet(S), NEW f, IsGrown(S, f), NEW T \in SUBSET S
  PROVE  Grown(T) = f[T]
<1>1. IsFiniteSet(T)
  BY FS_Subset
<1>2. IsGrown(T, CHOOSE g : IsGrown(T, g))
  <2>1. \E g : IsGrown(T, g)
    BY GrownOfPart
  <2> QED BY <2>1
<1> QED BY <1>1, <1>2, GrownUnique DEF Grown

\* The recursion has a solution.
LEMMA GrownExists ==
  ASSUME NEW S, IsFiniteSet(S)
  PROVE  \E f : IsGrown(S, f)
<1> DEFINE B == {t \in SUBSET S : ~ \E f : IsGrown(t, f)}
<1> SUFFICES ASSUME B # {} PROVE FALSE
  OBVIOUS
<1>1. PICK t \in B : \A u \in B : u \subseteq t => u = t
  <2> HIDE DEF B
  <2>1. B \subseteq SUBSET S
    BY DEF B
  <2> QED BY <2>1, LeastSubset
<1>2. t \in SUBSET S /\ ~ \E f : IsGrown(t, f)
  OBVIOUS
<1>3. ASSUME NEW u \in SUBSET t, u # t PROVE IsFiniteSet(u) /\ \E f : IsGrown(u, f)
  BY <1>1, <1>2, <1>3, FS_Subset
<1> DEFINE top == IF t = {} THEN [p \in Primary |-> p] ELSE Joined(Grown(t \ {Pick(t)}), Pick(t))
           h == [u \in SUBSET t |-> IF u = t THEN top ELSE Grown(u)]
<1>4. ASSUME NEW u \in SUBSET t
      PROVE  h[u] = IF u = {} THEN [p \in Primary |-> p] ELSE Joined(h[u \ {Pick(u)}], Pick(u))
  <2>1. u # {} => Pick(u) \in u
    BY PickIn
  <2>2. CASE u = t
    <3>1. h[t] = top
      OBVIOUS
    <3>2. t # {} => h[t \ {Pick(t)}] = Grown(t \ {Pick(t)})
      BY <2>1, <2>2
    <3> QED BY <2>2, <3>1, <3>2
  <2>3. CASE u # t
    <3>1. PICK f : IsGrown(u, f)
      BY <1>3, <2>3
    <3>2. Grown(u) = f[u] /\ Grown(u \ {Pick(u)}) = f[u \ {Pick(u)}]
      BY <1>3, <2>3, <3>1, GrownIs
    <3>3. f[u] = IF u = {} THEN [p \in Primary |-> p] ELSE Joined(f[u \ {Pick(u)}], Pick(u))
      BY <3>1, GrownAt
    <3>4. h[u] = Grown(u) /\ (u # {} => h[u \ {Pick(u)}] = Grown(u \ {Pick(u)}))
      BY <2>1, <2>3
    <3> QED BY <3>2, <3>3, <3>4
  <2> QED BY <2>2, <2>3
<1>5. h = [u \in SUBSET t |-> h[u]]
  OBVIOUS
<1> HIDE DEF h
<1>6. h = [u \in SUBSET t |->
             IF u = {} THEN [p \in Primary |-> p] ELSE Joined(h[u \ {Pick(u)}], Pick(u))]
  BY <1>4, <1>5
<1> QED BY <1>2, <1>6 DEF IsGrown

\* The forest grows by one edge at a time.
LEMMA GrownStep ==
  ASSUME NEW S, IsFiniteSet(S)
  PROVE  Grown(S) = IF S = {} THEN [p \in Primary |-> p] ELSE Joined(Grown(S \ {Pick(S)}), Pick(S))
<1>1. PICK f : IsGrown(S, f)
  BY GrownExists
<1>2. Grown(S) = f[S] /\ Grown(S \ {Pick(S)}) = f[S \ {Pick(S)}]
  BY <1>1, GrownIs
<1> QED BY <1>1, <1>2, GrownAt

\* what the forest of some edges should be like
Groves(E, r) ==
  /\ r \in [Primary -> Primary]
  /\ \A e \in E : r[e.from] = r[e.to]
  /\ \A p, q \in Primary : r[p] = r[q] => Connected(E, p, q)

\* More edges connect more.
LEMMA ConnectedMore ==
  ASSUME NEW E, NEW F \in SUBSET E, NEW p, NEW q, Connected(F, p, q)
  PROVE  Connected(E, p, q)
BY DEF Connected

\* One more edge keeps it like that.
LEMMA JoinedGroves ==
  ASSUME NEW E, \A x \in E : x.from \in Primary /\ x.to \in Primary, NEW e \in E,
         NEW r, Groves(E \ {e}, r), NEW j, j = Joined(r, e)
  PROVE  Groves(E, j)
<1> USE DEF Groves
<1>1. /\ j \in [Primary -> Primary]
      /\ j[e.from] = j[e.to]
      /\ \A p, q \in Primary : r[p] = r[q] => j[p] = j[q]
      /\ \A p, q \in Primary :
           j[p] = j[q] => \/ r[p] = r[q]
                          \/ r[p] = r[e.from] /\ r[q] = r[e.to]
                          \/ r[p] = r[e.to] /\ r[q] = r[e.from]
  BY JoinedClasses
<1>2. \A x \in E : j[x.from] = j[x.to]
  BY <1>1
<1>3. Connected(E, e.from, e.to) /\ Connected(E, e.to, e.from)
  BY EdgeConnects, ConnectedSymmetric
<1>4. \A p, q \in Primary : r[p] = r[q] => Connected(E, p, q)
  <2>1. E \ {e} \in SUBSET E
    OBVIOUS
  <2> QED BY <2>1, ConnectedMore
<1>5. \A p, q \in Primary : j[p] = j[q] => Connected(E, p, q)
  <2> SUFFICES ASSUME NEW p \in Primary, NEW q \in Primary, j[p] = j[q]
               PROVE  Connected(E, p, q)
    OBVIOUS
  <2>1. CASE r[p] = r[q]
    BY <1>4, <2>1
  <2>2. CASE r[p] = r[e.from] /\ r[q] = r[e.to]
    <3>1. Connected(E, p, e.from) /\ Connected(E, e.to, q)
      BY <1>4, <2>2
    <3> QED BY <3>1, <1>3, ConnectedTransitive
  <2>3. CASE r[p] = r[e.to] /\ r[q] = r[e.from]
    <3>1. Connected(E, p, e.to) /\ Connected(E, e.from, q)
      BY <1>4, <2>3
    <3> QED BY <3>1, <1>3, ConnectedTransitive
  <2> QED BY <1>1, <2>1, <2>2, <2>3
<1> QED BY <1>1, <1>2, <1>5

\* The fold over the edges makes such a forest.
LEMMA GrownGroves ==
  ASSUME NEW E, IsFiniteSet(E), \A x \in E : x.from \in Primary /\ x.to \in Primary
  PROVE  Groves(E, Grown(E))
<1> DEFINE B == {t \in SUBSET E : ~Groves(t, Grown(t))}
<1> SUFFICES ASSUME B # {} PROVE FALSE
  OBVIOUS
<1>1. PICK t \in B : \A u \in B : u \subseteq t => u = t
  <2> HIDE DEF B
  <2>1. B \subseteq SUBSET E
    BY DEF B
  <2> QED BY <2>1, LeastSubset
<1>2. IsFiniteSet(t) /\ t \in SUBSET E /\ ~Groves(t, Grown(t))
  BY FS_Subset
<1>3. Grown(t) = IF t = {} THEN [p \in Primary |-> p] ELSE Joined(Grown(t \ {Pick(t)}), Pick(t))
  BY <1>2, GrownStep
<1>4. CASE t = {}
  <2> DEFINE r == [p \in Primary |-> p]
  <2>1. \A p, q \in Primary : r[p] = r[q] => Connected({}, p, q)
    BY DEF Connected
  <2>2. Groves({}, r)
    BY <2>1 DEF Groves
  <2> HIDE DEF r
  <2> QED BY <1>2, <1>3, <1>4, <2>2 DEF r
<1>5. CASE t # {}
  <2> DEFINE e == Pick(t)
             u == t \ {e}
  <2>1. e \in t
    BY <1>5, PickIn
  <2>2. Groves(u, Grown(u))
    BY <1>1, <1>2, <2>1
  <2>3. Grown(t) = Joined(Grown(u), e)
    BY <1>3, <1>5
  <2>4. \A x \in t : x.from \in Primary /\ x.to \in Primary
    BY <1>2
  <2> HIDE DEF e, B
  <2> QED BY <1>2, <2>1, <2>2, <2>3, <2>4, JoinedGroves
<1> QED BY <1>4, <1>5

\* All such forests have the components as their classes, thus the same groups.
LEMMA GrovesAlike ==
  ASSUME NEW E, \A x \in E : x.from \in Primary /\ x.to \in Primary,
         NEW r, Groves(E, r), NEW s, Groves(E, s)
  PROVE  Groups(r) = Groups(s)
<1>1. ASSUME NEW f, Groves(E, f), NEW p \in Primary, NEW q \in Primary, Connected(E, p, q)
      PROVE  f[p] = f[q]
  <2> DEFINE S == {x \in Primary : f[x] = f[p]}
  <2>1. S \in SUBSET Primary /\ p \in S /\ \A e \in E : e.from \in S <=> e.to \in S
    BY <1>1 DEF Groves
  <2>2. q \in S
    BY <1>1, <2>1 DEF Connected
  <2> QED BY <2>2
<1>2. \A p, q \in Primary : r[p] = r[q] <=> s[p] = s[q]
  BY <1>1 DEF Groves
<1>3. \A q \in Primary : {p \in Primary : r[p] = r[q]} = {p \in Primary : s[p] = s[q]}
  BY <1>2
<1> QED BY <1>3 DEF Groups

\* The fold of the acceptance is that one.
LEMMA GrownIsFold ==
  ASSUME NEW E
  PROVE  FoldSet(LAMBDA e, f : Joined(f, e), [p \in Primary |-> p], E) = Grown(E)
BY DEF FoldSet, MapThenFoldSet, Grown, IsGrown, Pick

\* finitely many edges have been unioned
UnionedFinite == IsFiniteSet(GroupingEdges(input) \ edges)

\* In the beginning none has been.
LEMMA InitFinite == Begins => UnionedFinite
<1> SUFFICES ASSUME Begins PROVE UnionedFinite
  OBVIOUS
<1>1. GroupingEdges(input) \ edges = {}
  BY DEF Begins
<1> QED BY <1>1, FS_EmptySet DEF UnionedFinite

\* A step unions one edge or none.
LEMMA NextKeepsFinite == UnionedFinite /\ [Next]_vars => UnionedFinite'
<1> SUFFICES ASSUME UnionedFinite, [Next]_vars PROVE UnionedFinite'
  OBVIOUS
<1>1. ASSUME NEW e \in edges, Union(e) PROVE UnionedFinite'
  <2> DEFINE E == GroupingEdges(input)
             S == E \ edges
             T == S \cup {e}
  <2>1. input' = input /\ edges' = edges \ {e}
    BY <1>1 DEF Union
  <2>2. GroupingEdges(input)' = E
    BY <2>1
  <2>3. (GroupingEdges(input) \ edges)' \subseteq T
    BY <2>1, <2>2
  <2>4. IsFiniteSet(T)
    BY FS_AddElement DEF UnionedFinite
  <2> QED BY <2>3, <2>4, FS_Subset DEF UnionedFinite
<1>2. ASSUME UNCHANGED <<input, edges>> PROVE UnionedFinite'
  BY <1>2 DEF UnionedFinite
<1> QED
  BY <1>1, <1>2 DEF Next, Grouped, BeginQuestion, Classify, TakeRequired, PlaceHelpful, EmitBundles,
     Create, Finished, vars, grouping

\* the groups and questions of a result
Planned(in, r) == {pair \in r.groups \X Question : pair[2] \in Asked(in, pair[1])}

\* no candidate is omitted twice in om
Once(om) == \A j, k \in DOMAIN om : om[j].candidate = om[k].candidate => j = k

\* the result r was made as the replay makes it
IsPlan(in, r) ==
  /\ WellFormed(in)
  /\ r = [groups |-> r.groups, segments |-> r.segments, omissions |-> r.omissions,
          bundles |-> r.bundles]
  /\ r.groups = Groups(Grown(GroupingEdges(in)))
  /\ \E f \in [Primary -> Primary] : r.groups = Groups(f)
  /\ \E S : r.bundles \in Seq(S)
  /\ r.omissions \in Seq([candidate : DOMAIN in.candidates, reason : Reason])
  /\ r.segments = UNION {r.bundles[k].support : k \in DOMAIN r.bundles}
  /\ r.segments \cup OmittedIn(r) = DOMAIN in.candidates
  /\ r.segments \cap OmittedIn(r) = {}
  /\ Once(r.omissions)
  /\ \A k \in DOMAIN r.bundles : PairOf(r.bundles[k]) \in Planned(in, r)
  /\ \A pair \in Planned(in, r) : MadeInFull(in, pair[1], pair[2], r.bundles, r.omissions)

\* The planner's result is.
LEMMA FinishedIsPlan ==
  ASSUME GroupInv, LossInv, ReplayInv, UnionedFinite, phase = "done"
  PROVE  IsPlan(input, Result)
<1> DEFINE E == GroupingEdges(input)
           r == Result
<1>1. /\ r.groups = Groups(root) /\ r.omissions = omissions /\ r.bundles = bundles
      /\ r.segments = InBundles /\ OmittedIn(r) = Omitted
      /\ r = [groups |-> r.groups, segments |-> r.segments, omissions |-> r.omissions,
              bundles |-> r.bundles]
  BY DEF Result, InBundles, OmittedIn, Omitted
<1> HIDE DEF r
<1>2. WellFormed(input) /\ omissions \in Seq([candidate : DOMAIN input.candidates, reason : Reason])
  BY DEF LossInv, TypeOK
<1>3. root \in [Primary -> Primary] /\ Groups(root) = Groups(Grown(E))
  <2>1. edges = {}
    BY DEF GroupInv, ForestOK
  <2>2. E \ edges = E
    BY <2>1
  <2>3. IsFiniteSet(E)
    BY <2>2 DEF UnionedFinite
  <2>4. \A x \in E : x.from \in Primary /\ x.to \in Primary
    BY <1>2, GroupingTyped
  <2>5. Groves(E, root)
    BY <2>2 DEF GroupInv, ForestOK, Groves
  <2> HIDE DEF E
  <2>6. Groves(E, Grown(E))
    BY <2>3, <2>4, GrownGroves
  <2>7. Groups(root) = Groups(Grown(E))
    BY <2>4, <2>5, <2>6, GrovesAlike
  <2> QED BY <2>5, <2>7 DEF Groves
<1>4. /\ pairs = {} /\ (\E S : bundles \in Seq(S)) /\ InBundles \cap Omitted = {}
      /\ DOMAIN input.candidates = InBundles \cup Omitted
      /\ Once(omissions)
  <2>1. Waiting = {} /\ Held = {}
    BY DEF LossInv, Whereabouts, Waiting, Held
  <2> QED BY <2>1 DEF LossInv, Whereabouts, Once
<1>5. Planned(input, r) = ToPlan
  BY <1>1 DEF Planned, ToPlan
<1>6. /\ \A k \in DOMAIN bundles : PairOf(bundles[k]) \in ToPlan
      /\ \A pair \in ToPlan : MadeInFull(input, pair[1], pair[2], bundles, omissions)
  BY <1>4 DEF ReplayInv, OnTheWay
<1>7. InBundles = UNION {bundles[k].support : k \in DOMAIN bundles}
  BY DEF InBundles
<1>8. IsPlan(input, r)
  BY <1>1, <1>2, <1>3, <1>4, <1>5, <1>6, <1>7 DEF IsPlan
<1> QED BY <1>8 DEF r

-----------------------------------------------------------------------------
(* What a plan made like that is like.                                     *)

\* The groups divide the Primaries.
LEMMA PlanGroups ==
  ASSUME NEW in, NEW r, IsPlan(in, r)
  PROVE  /\ UNION r.groups = Primary
         /\ \A g, h \in r.groups : g = h \/ g \cap h = {}
         /\ \A g \in r.groups : g \in SUBSET Primary /\ g # {}
<1>1. PICK f \in [Primary -> Primary] : r.groups = Groups(f)
  BY DEF IsPlan
<1>2. \A g \in r.groups : \E q \in Primary : g = {p \in Primary : f[p] = f[q]}
  BY <1>1 DEF Groups
<1>3. \A q \in Primary : {p \in Primary : f[p] = f[q]} \in r.groups
  BY <1>1 DEF Groups
<1>4. \A g \in r.groups : g \in SUBSET Primary /\ g # {}
  BY <1>2
<1>5. \A p \in Primary : \E g \in r.groups : p \in g
  <2> TAKE p \in Primary
  <2>1. p \in {x \in Primary : f[x] = f[p]}
    OBVIOUS
  <2> QED BY <1>3, <2>1
<1>6. \A g, h \in r.groups : g = h \/ g \cap h = {}
  <2> SUFFICES ASSUME NEW g \in r.groups, NEW h \in r.groups, NEW x, x \in g, x \in h
               PROVE  g = h
    OBVIOUS
  <2>1. PICK a \in Primary : g = {p \in Primary : f[p] = f[a]}
    BY <1>2
  <2>2. PICK b \in Primary : h = {p \in Primary : f[p] = f[b]}
    BY <1>2
  <2>3. f[a] = f[b]
    BY <2>1, <2>2
  <2> QED BY <2>1, <2>2, <2>3
<1>7. UNION r.groups = Primary
  BY <1>4, <1>5
<1> QED BY <1>4, <1>6, <1>7

\* Every candidate has a group and a question, and only one.
LEMMA PlanHomes ==
  ASSUME NEW in, NEW r, IsPlan(in, r)
  PROVE  /\ \A c \in DOMAIN in.candidates : \E pair \in Planned(in, r) :
              c \in CandidatesOf(in, pair[1], pair[2])
         /\ \A x, y \in Planned(in, r) :
              CandidatesOf(in, x[1], x[2]) \cap CandidatesOf(in, y[1], y[2]) # {} => x = y
<1>1. ASSUME NEW c \in DOMAIN in.candidates
      PROVE  \E pair \in Planned(in, r) : c \in CandidatesOf(in, pair[1], pair[2])
  <2> DEFINE p == in.candidates[c].primary
             q == in.candidates[c].question
  <2>1. <<p, q>> \in in.bindings /\ in.bindings \subseteq Primary \X Question
    BY DEF IsPlan, WellFormed
  <2> HIDE DEF p, q
  <2>2. p \in Primary /\ q \in Question
    BY <2>1
  <2>3. PICK g \in r.groups : p \in g
    BY <2>2, PlanGroups
  <2>4. q \in Asked(in, g)
    BY <2>1, <2>2, <2>3 DEF Asked
  <2>5. <<g, q>> \in Planned(in, r)
    BY <2>2, <2>4 DEF Planned
  <2>6. c \in CandidatesOf(in, g, q)
    BY <2>3 DEF CandidatesOf, p, q
  <2> QED BY <2>5, <2>6
<1>2. ASSUME NEW x \in Planned(in, r), NEW y \in Planned(in, r), NEW c,
             c \in CandidatesOf(in, x[1], x[2]), c \in CandidatesOf(in, y[1], y[2])
      PROVE  x = y
  <2>1. x \in r.groups \X Question /\ y \in r.groups \X Question
    BY DEF Planned
  <2>2. x[2] = y[2] /\ in.candidates[c].primary \in x[1] /\ in.candidates[c].primary \in y[1]
    BY <1>2 DEF CandidatesOf
  <2>3. x[1] = y[1]
    BY <2>1, <2>2, PlanGroups
  <2> QED BY <2>1, <2>2, <2>3
<1> QED BY <1>1, <1>2

\* Every group asks something.
LEMMA PlanAsks ==
  ASSUME NEW in, NEW r, IsPlan(in, r), NEW g \in r.groups
  PROVE  \E q \in Question : <<g, q>> \in Planned(in, r)
<1>1. PICK p \in g : p \in Primary
  BY PlanGroups
<1>2. PICK b \in in.bindings : b[1] = p /\ b \in Primary \X Question
  <2>1. WellFormed(in)
    BY DEF IsPlan
  <2>2. {b[1] : b \in in.bindings} = Primary /\ in.bindings \subseteq Primary \X Question
    BY <2>1 DEF WellFormed
  <2> QED BY <1>1, <2>2
<1>3. b[2] \in Question /\ b[2] \in Asked(in, g)
  <2>1. b = <<p, b[2]>>
    BY <1>2
  <2> QED BY <1>2, <2>1 DEF Asked
<1>4. <<g, b[2]>> \in Planned(in, r)
  BY <1>3 DEF Planned
<1> QED BY <1>3, <1>4

\* What a bundle of the replay consists of.
LEMMA ReplayShape ==
  ASSUME NEW in, NEW g, NEW q, NEW j
  PROVE  LET b == Replay(in, g, q, j)
             lost == Lost(in, g, q)
         IN /\ b = Bundle(in, g, q, b.support, Weak(in, g, q), lost)
            /\ b.group = g /\ b.question = q
            /\ b.support = Got(in, g, q) \cup Binned(in, g, q)[j]
            /\ b.edges = {e \in GroupingEdges(in) : e.from \in g /\ e.to \in g}
            /\ b.primary_tokens = in.weight[g]
            /\ b.supporting_tokens = TokensOf(in, b.support)
            /\ b.dispatch_allowed = (Insufficient(in, g, lost) = {})
            /\ b.insufficient = Insufficient(in, g, lost)
            /\ b.degraded = Weak(in, g, q)
BY DEF Replay, Bundle

\* The bins hold the small candidates, and those only.
LEMMA BinsHoldSmall ==
  ASSUME NEW in, WellFormed(in), NEW g \in SUBSET Primary, NEW q
  PROVE  LET b == Binned(in, g, q) IN
         /\ Len(b) \in Nat \ {0} /\ DOMAIN b = 1 .. Len(b)
         /\ \A j \in 1 .. Len(b) : b[j] \subseteq Small(in, g, q)
         /\ \A c \in Small(in, g, q) : \E j \in 1 .. Len(b) : c \in b[j]
         /\ UNION Range(b) = Small(in, g, q)
         /\ Got(in, g, q) \subseteq Wanted(in, g, q)
         /\ Got(in, g, q) \cup Small(in, g, q) \subseteq Usable(in, g, q)
         /\ Got(in, g, q) \cap Small(in, g, q) = {}
         /\ Usable(in, g, q) \subseteq CandidatesOf(in, g, q)
<1> DEFINE b == Binned(in, g, q)
           M == Small(in, g, q)
<1>1. Packed(in, g, q, b, M)
  BY BinnedPacked
<1>2. /\ b \in Seq(SUBSET M) /\ Len(b) \in Nat \ {0}
      /\ \A j \in 1 .. Len(b) : b[j] \subseteq M
      /\ \A c \in M : \E j \in 1 .. Len(b) : c \in b[j]
  <2> HIDE DEF b
  <2> QED BY <1>1 DEF Packed
<1>3. Got(in, g, q) \subseteq Wanted(in, g, q)
  BY GotFits
<1>4. /\ Got(in, g, q) \cup M \subseteq Usable(in, g, q) /\ Got(in, g, q) \cap M = {}
      /\ Usable(in, g, q) \subseteq CandidatesOf(in, g, q)
  BY <1>3, QuestionParts
<1> HIDE DEF b, M
<1>5. DOMAIN b = 1 .. Len(b)
  BY <1>2
<1>6. UNION Range(b) = M
  BY <1>2, <1>5 DEF Range
<1> QED BY <1>2, <1>3, <1>4, <1>5, <1>6 DEF b, M

\* Every bundle of a plan is one of the replay of its question.
LEMMA PlanBundle ==
  ASSUME NEW in, NEW r, IsPlan(in, r), NEW k \in DOMAIN r.bundles
  PROVE  \E pair \in Planned(in, r) : \E j \in 1 .. Len(Binned(in, pair[1], pair[2])) :
           r.bundles[k] = Replay(in, pair[1], pair[2], j)
<1> DEFINE g == r.bundles[k].group
           q == r.bundles[k].question
<1>1. <<g, q>> \in Planned(in, r)
  BY DEF IsPlan, PairOf
<1>2. k \in OfPair(r.bundles, g, q)
  BY DEF OfPair
<1> HIDE DEF g, q
<1>3. MadeInFull(in, g, q, r.bundles, r.omissions)
  BY <1>1 DEF IsPlan
<1>4. PICK n \in Nat :
        /\ OfPair(r.bundles, g, q) = {n + j : j \in 1 .. Len(Binned(in, g, q))}
        /\ \A j \in 1 .. Len(Binned(in, g, q)) : r.bundles[n + j] = Replay(in, g, q, j)
  BY <1>3 DEF MadeInFull
<1>5. PICK j \in 1 .. Len(Binned(in, g, q)) : k = n + j
  BY <1>2, <1>4
<1>6. r.bundles[k] = Replay(in, g, q, j)
  BY <1>4, <1>5
<1> QED BY <1>1, <1>6

\* the bundles of a question, the candidates selected for it and the reasons
\* for the others are those of the replay
AsReplayed(in, r, g, q) ==
  LET mine == CandidatesOf(in, g, q)
      got == Got(in, g, q) \cup Small(in, g, q)
      b == Binned(in, g, q)
  IN /\ \E n \in Nat :
          /\ BundlesOf(r, g, q) = {n + j : j \in 1 .. Len(b)}
          /\ \A j \in 1 .. Len(b) : r.bundles[n + j] = Replay(in, g, q, j)
     /\ r.segments \cap mine = got
     /\ OmittedIn(r) \cap mine = mine \ got
     /\ \A c \in mine \ got : ReasonIn(r, c) = {WhyLeftOut(in, g, q, c)}

\* A finished plan has made every question like that.
LEMMA PlanQuestion ==
  ASSUME NEW in, NEW r, IsPlan(in, r), NEW g, NEW q, <<g, q>> \in Planned(in, r)
  PROVE  AsReplayed(in, r, g, q)
<1> DEFINE mine == CandidatesOf(in, g, q)
           got == Got(in, g, q) \cup Small(in, g, q)
           b == Binned(in, g, q)
<1>1. WellFormed(in) /\ g \in SUBSET Primary /\ g \in r.groups
  BY PlanGroups DEF IsPlan, Planned
<1>2. MadeInFull(in, g, q, r.bundles, r.omissions)
  BY DEF IsPlan
<1>3. PICK n \in Nat : /\ OfPair(r.bundles, g, q) = {n + j : j \in 1 .. Len(b)}
                       /\ \A j \in 1 .. Len(b) : r.bundles[n + j] = Replay(in, g, q, j)
  BY <1>2 DEF MadeInFull
<1>4. BundlesOf(r, g, q) = OfPair(r.bundles, g, q)
  BY DEF BundlesOf, OfPair
<1>5. /\ Len(b) \in Nat \ {0} /\ \A j \in 1 .. Len(b) : b[j] \subseteq Small(in, g, q)
      /\ \A c \in Small(in, g, q) : \E j \in 1 .. Len(b) : c \in b[j]
      /\ got \subseteq mine
  BY <1>1, BinsHoldSmall
<1>6. \A j \in 1 .. Len(b) : /\ Replay(in, g, q, j).support = Got(in, g, q) \cup b[j]
                             /\ n + j \in DOMAIN r.bundles
  BY <1>3, ReplayShape DEF OfPair
<1>7. got \subseteq r.segments
  <2> SUFFICES ASSUME NEW c \in got PROVE \E j \in 1 .. Len(b) : c \in r.bundles[n + j].support
    BY <1>6 DEF IsPlan
  <2>1. CASE c \in Small(in, g, q)
    BY <1>3, <1>5, <1>6, <2>1
  <2>2. CASE c \in Got(in, g, q)
    <3>1. 1 \in 1 .. Len(b)
      BY <1>5
    <3> QED BY <1>3, <1>6, <2>2, <3>1
  <2> QED BY <2>1, <2>2
<1>8. ASSUME NEW c \in r.segments, c \in mine PROVE c \in got
  <2>1. PICK k \in DOMAIN r.bundles : c \in r.bundles[k].support
    BY DEF IsPlan
  <2>2. PICK pair \in Planned(in, r) : \E j \in 1 .. Len(Binned(in, pair[1], pair[2])) :
                                         r.bundles[k] = Replay(in, pair[1], pair[2], j)
    BY PlanBundle
  <2>3. PICK j \in 1 .. Len(Binned(in, pair[1], pair[2])) : r.bundles[k] = Replay(in, pair[1], pair[2], j)
    BY <2>2
  <2>4. c \in Got(in, pair[1], pair[2]) \cup Binned(in, pair[1], pair[2])[j]
    BY <2>1, <2>3, ReplayShape
  <2>5. pair[1] \in SUBSET Primary
    BY PlanGroups DEF Planned
  <2>6. /\ Binned(in, pair[1], pair[2])[j] \subseteq Small(in, pair[1], pair[2])
        /\ Got(in, pair[1], pair[2]) \cup Small(in, pair[1], pair[2])
             \subseteq CandidatesOf(in, pair[1], pair[2])
    <3>1. WellFormed(in)
      BY <1>1
    <3> DEFINE h == pair[1]
               p == pair[2]
    <3>2. h \in SUBSET Primary
      BY <2>5
    <3> HIDE DEF h, p
    <3>3. /\ \A i \in 1 .. Len(Binned(in, h, p)) : Binned(in, h, p)[i] \subseteq Small(in, h, p)
          /\ Got(in, h, p) \cup Small(in, h, p) \subseteq CandidatesOf(in, h, p)
      BY <3>1, <3>2, BinsHoldSmall
    <3> QED BY <3>3 DEF h, p
  <2>7. c \in CandidatesOf(in, pair[1], pair[2])
    BY <2>4, <2>6
  <2>8. pair = <<g, q>>
    <3>1. CandidatesOf(in, pair[1], pair[2]) \cap CandidatesOf(in, <<g, q>>[1], <<g, q>>[2]) # {}
      BY <1>8, <2>7
    <3> QED BY <3>1, PlanHomes
  <2>9. c \in Got(in, g, q) \cup Small(in, g, q)
    BY <2>4, <2>6, <2>8
  <2> QED BY <2>9
<1>9. r.segments \cap mine = got
  BY <1>5, <1>7, <1>8
<1>10. OmittedIn(r) \cap mine = mine \ got
  <2>1. r.segments \cup OmittedIn(r) = DOMAIN in.candidates /\ r.segments \cap OmittedIn(r) = {}
    BY DEF IsPlan
  <2>2. mine \subseteq DOMAIN in.candidates
    BY QuestionParts
  <2> QED BY <1>9, <2>1, <2>2
<1>11. ASSUME NEW c \in mine \ got PROVE ReasonIn(r, c) = {WhyLeftOut(in, g, q, c)}
  <2>1. PICK k \in DOMAIN r.omissions :
          r.omissions[k].candidate = c /\ r.omissions[k].reason = WhyLeftOut(in, g, q, c)
    BY <1>2 DEF MadeInFull, Explained, ReasonGiven
  <2>2. \A i \in DOMAIN r.omissions : r.omissions[i].candidate = c => i = k
    BY <2>1 DEF IsPlan, Once
  <2>3. {i \in DOMAIN r.omissions : r.omissions[i].candidate = c} = {k}
    BY <2>1, <2>2
  <2> QED BY <2>1, <2>3 DEF ReasonIn
<1>12. /\ BundlesOf(r, g, q) = {n + j : j \in 1 .. Len(b)}
       /\ \A j \in 1 .. Len(b) : r.bundles[n + j] = Replay(in, g, q, j)
  BY <1>3, <1>4
<1> QED BY <1>9, <1>10, <1>11, <1>12 DEF AsReplayed

\* the bundle is one of the replay of its question
Stems(in, b, g, q) == \E j \in 1 .. Len(Binned(in, g, q)) : b = Replay(in, g, q, j)

\* A bundle says whose it is.
LEMMA PlanBundleAt ==
  ASSUME NEW in, NEW r, IsPlan(in, r), NEW k \in DOMAIN r.bundles,
         NEW g, NEW q, g = r.bundles[k].group, q = r.bundles[k].question
  PROVE  /\ g \in r.groups /\ q \in Asked(in, g) /\ <<g, q>> \in Planned(in, r)
         /\ Stems(in, r.bundles[k], g, q)
<1>1. PICK pair \in Planned(in, r) : \E j \in 1 .. Len(Binned(in, pair[1], pair[2])) :
                                       r.bundles[k] = Replay(in, pair[1], pair[2], j)
  BY PlanBundle
<1> DEFINE h == pair[1]
           p == pair[2]
<1>2. pair = <<h, p>> /\ h \in r.groups /\ p \in Asked(in, h)
  BY DEF Planned
<1> HIDE DEF h, p
<1>3. PICK j \in 1 .. Len(Binned(in, h, p)) : r.bundles[k] = Replay(in, h, p, j)
  BY <1>1 DEF h, p
<1>4. g = h /\ q = p
  BY <1>3, ReplayShape
<1>5. <<h, p>> \in Planned(in, r)
  BY <1>2
<1> QED BY <1>2, <1>3, <1>4, <1>5 DEF Stems

\* A question of a group has a bundle.
LEMMA PlanAnswers ==
  ASSUME NEW in, NEW r, IsPlan(in, r), NEW g, NEW q, <<g, q>> \in Planned(in, r)
  PROVE  \E k \in DOMAIN r.bundles : r.bundles[k].group = g /\ r.bundles[k].question = q
<1>1. g \in SUBSET Primary /\ WellFormed(in)
  BY PlanGroups DEF IsPlan, Planned
<1>2. 1 \in 1 .. Len(Binned(in, g, q))
  <2>1. Len(Binned(in, g, q)) \in Nat \ {0}
    BY <1>1, BinsHoldSmall
  <2> QED BY <2>1
<1>3. PICK n \in Nat : BundlesOf(r, g, q) = {n + j : j \in 1 .. Len(Binned(in, g, q))}
  <2>1. AsReplayed(in, r, g, q)
    BY PlanQuestion
  <2> QED BY <2>1 DEF AsReplayed
<1>4. n + 1 \in BundlesOf(r, g, q)
  BY <1>2, <1>3
<1> QED BY <1>4 DEF BundlesOf

\* Every group has a bundle, and every bundle a group.
LEMMA PlanGroupsHold ==
  ASSUME NEW in, NEW r, IsPlan(in, r)
  PROVE  GroupsHold(in, r)
<1>1. \A k \in DOMAIN r.bundles : r.bundles[k].group \in r.groups
  BY PlanBundleAt
<1>2. ASSUME NEW g \in r.groups PROVE \E k \in DOMAIN r.bundles : r.bundles[k].group = g
  <2>1. PICK q \in Question : <<g, q>> \in Planned(in, r)
    BY PlanAsks
  <2> QED BY <2>1, PlanAnswers
<1> QED BY <1>1, <1>2, PlanGroups DEF GroupsHold

\* Where a candidate is: selected if the replay selects it, and otherwise
\* omitted for the replay's reason.
LEMMA PlanCandidate ==
  ASSUME NEW in, NEW r, IsPlan(in, r), NEW c \in DOMAIN in.candidates
  PROVE  \E g \in r.groups : \E q \in Asked(in, g) :
           /\ <<g, q>> \in Planned(in, r) /\ c \in CandidatesOf(in, g, q)
           /\ c \in r.segments <=> c \in Got(in, g, q) \cup Small(in, g, q)
           /\ c \in OmittedIn(r) <=> c \notin r.segments
           /\ c \in OmittedIn(r) => ReasonIn(r, c) = {WhyLeftOut(in, g, q, c)}
<1>1. PICK pair \in Planned(in, r) : c \in CandidatesOf(in, pair[1], pair[2])
  BY PlanHomes
<1> DEFINE g == pair[1]
           q == pair[2]
<1>2. pair = <<g, q>> /\ g \in r.groups /\ q \in Asked(in, g)
  BY DEF Planned
<1>3. c \in CandidatesOf(in, g, q) /\ <<g, q>> \in Planned(in, r)
  BY <1>1, <1>2
<1> HIDE DEF g, q
<1>4. AsReplayed(in, r, g, q)
  BY <1>3, PlanQuestion
<1>5. c \in r.segments <=> c \in Got(in, g, q) \cup Small(in, g, q)
  BY <1>3, <1>4 DEF AsReplayed
<1>6. c \in OmittedIn(r) <=> c \notin r.segments
  BY DEF IsPlan
<1>7. c \in OmittedIn(r) => ReasonIn(r, c) = {WhyLeftOut(in, g, q, c)}
  BY <1>3, <1>4, <1>5, <1>6 DEF AsReplayed
<1> QED BY <1>2, <1>3, <1>5, <1>6, <1>7

\* What is used is eligible, and what is left out is so for one of the reasons.
LEMMA CauseMeans ==
  ASSUME NEW in, NEW g, NEW q, NEW c \in CandidatesOf(in, g, q)
  PROVE  /\ c \in Usable(in, g, q) => Eligible(in, c)
         /\ WhyLeftOut(in, g, q, c) = "distractor_rejected" => ~Proper(in, c)
         /\ WhyLeftOut(in, g, q, c) = "relation_degraded" => ~in.candidates[c].exact
         /\ WhyLeftOut(in, g, q, c) \notin {"distractor_rejected", "relation_degraded"} => Eligible(in, c)
         /\ WhyLeftOut(in, g, q, c) = "context_blocked" => in.blocked \/ Lost(in, g, q) # {}
<1>1. /\ Refusal(in, g, c) = "distractor_rejected" => ~Proper(in, c)
      /\ Refusal(in, g, c) = "relation_degraded" => ~in.candidates[c].exact
      /\ Refusal(in, g, c) \notin {"distractor_rejected", "relation_degraded"} => Eligible(in, c)
      /\ Refusal(in, g, c) = "context_blocked" => in.blocked
  BY DEF Refusal, Eligible, Proper
<1>2. c \in Usable(in, g, q) => Refusal(in, g, c) = "none"
  BY DEF Usable
<1>3. c \in Usable(in, g, q) => Eligible(in, c)
  BY <1>1, <1>2
<1>4. CASE c \notin Usable(in, g, q)
  <2>1. WhyLeftOut(in, g, q, c) = Refusal(in, g, c)
    BY <1>4 DEF WhyLeftOut
  <2> QED BY <1>1, <1>4, <2>1
<1>5. CASE c \in Usable(in, g, q)
  <2>1. \/ WhyLeftOut(in, g, q, c) = "context_blocked" /\ Lost(in, g, q) # {}
        \/ WhyLeftOut(in, g, q, c) = "budget_exceeded"
    BY <1>5 DEF WhyLeftOut
  <2> QED BY <1>3, <1>5, <2>1
<1> QED BY <1>4, <1>5

\* What is selected may be selected and is in a bundle, and what is omitted is
\* neither.
LEMMA PlanSelectionHolds ==
  ASSUME NEW in, NEW r, IsPlan(in, r)
  PROVE  SelectionHolds(in, r)
<1>1. ASSUME NEW c \in r.segments PROVE Eligible(in, c)
  <2>1. c \in DOMAIN in.candidates
    BY DEF IsPlan
  <2>2. PICK g \in r.groups : \E q \in Asked(in, g) :
          /\ <<g, q>> \in Planned(in, r) /\ c \in CandidatesOf(in, g, q)
          /\ c \in r.segments <=> c \in Got(in, g, q) \cup Small(in, g, q)
    BY <2>1, PlanCandidate
  <2>3. PICK q \in Asked(in, g) : /\ c \in CandidatesOf(in, g, q)
                                  /\ c \in Got(in, g, q) \cup Small(in, g, q)
    BY <2>2
  <2>4. WellFormed(in) /\ g \in SUBSET Primary
    BY PlanGroups DEF IsPlan
  <2>5. c \in Usable(in, g, q)
    BY <2>3, <2>4, BinsHoldSmall
  <2> QED BY <2>3, <2>5, CauseMeans
<1>2. Cardinality(OmittedIn(r)) = Len(r.omissions)
  <2> DEFINE om == r.omissions
             N == Len(om)
  <2>1. N \in Nat /\ DOMAIN om = 1 .. N /\ \A j, k \in 1 .. N : om[j].candidate = om[k].candidate => j = k
    BY DEF IsPlan, Once
  <2> DEFINE f == [k \in 1 .. N |-> om[k].candidate]
  <2>2. OmittedIn(r) = {om[k].candidate : k \in 1 .. N}
    BY <2>1 DEF OmittedIn
  <2> HIDE DEF om, N
  <2>3. /\ f \in [1 .. N -> OmittedIn(r)]
        /\ \A j, k \in 1 .. N : f[j] = f[k] => j = k
        /\ \A c \in OmittedIn(r) : \E k \in 1 .. N : f[k] = c
    BY <2>1, <2>2
  <2>4. IsFiniteSet(1 .. N) /\ Cardinality(1 .. N) = N
    BY <2>1, FS_Interval
  <2> HIDE DEF f
  <2>5. Cardinality(OmittedIn(r)) = Cardinality(1 .. N)
    BY <2>3, <2>4, SameSize
  <2> QED BY <2>4, <2>5 DEF om, N
<1>3. r.segments \cap OmittedIn(r) = {} /\ r.segments \cup OmittedIn(r) = DOMAIN in.candidates
  BY DEF IsPlan
<1>4. ASSUME NEW k \in DOMAIN r.omissions
      PROVE  LET c == r.omissions[k].candidate IN
             CASE r.omissions[k].reason = "distractor_rejected" -> ~Proper(in, c)
               [] r.omissions[k].reason = "relation_degraded" -> ~in.candidates[c].exact
               [] OTHER -> Eligible(in, c)
  <2> DEFINE c == r.omissions[k].candidate
             why == r.omissions[k].reason
  <2>1. c \in OmittedIn(r) /\ why \in ReasonIn(r, c)
    BY DEF OmittedIn, ReasonIn
  <2>2. c \in DOMAIN in.candidates
    BY <2>1 DEF IsPlan
  <2> HIDE DEF c, why
  <2>3. PICK g \in r.groups : \E q \in Asked(in, g) :
          /\ c \in CandidatesOf(in, g, q)
          /\ c \in OmittedIn(r) => ReasonIn(r, c) = {WhyLeftOut(in, g, q, c)}
    BY <2>2, PlanCandidate
  <2>4. PICK q \in Asked(in, g) : c \in CandidatesOf(in, g, q) /\ why = WhyLeftOut(in, g, q, c)
    BY <2>1, <2>3
  <2>5. /\ why = "distractor_rejected" => ~Proper(in, c)
        /\ why = "relation_degraded" => ~in.candidates[c].exact
        /\ why \notin {"distractor_rejected", "relation_degraded"} => Eligible(in, c)
    BY <2>4, CauseMeans
  <2> QED BY <2>5 DEF c, why
<1> QED BY <1>1, <1>2, <1>3, <1>4 DEF SelectionHolds

-----------------------------------------------------------------------------
(* Every check accepts it.                                                 *)

\* A bundle with nothing against it fits the budget.
LEMMA DispatchedFits ==
  ASSUME NEW in, WellFormed(in), NEW g \in SUBSET Primary, g # {}, NEW q,
         NEW j \in 1 .. Len(Binned(in, g, q)), Insufficient(in, g, Lost(in, g, q)) = {}
  PROVE  in.weight[g] + TokensOf(in, Got(in, g, q) \cup Binned(in, g, q)[j]) <= in.limit
<1> DEFINE G == Got(in, g, q)
           b == Binned(in, g, q)
<1>1. in.weight[g] \in Nat /\ in.limit \in Nat
  BY DEF WellFormed
<1>2. ~Overflows(in, g)
  <2>1. PICK p \in g : TRUE
    OBVIOUS
  <2>2. Overflows(in, g) => <<"primary", p>> \in Insufficient(in, g, Lost(in, g, q))
    BY <2>1 DEF Insufficient
  <2> QED BY <2>2
<1>3. TokensOf(in, {}) = 0
  BY TokensSum
<1>4. G = {} \/ in.weight[g] + TokensOf(in, G) <= in.limit
  BY GotFits
<1>5. b[j] = {} \/ in.weight[g] + TokensOf(in, G \cup b[j]) <= in.limit
  <2>1. Packed(in, g, q, b, Small(in, g, q))
    BY BinnedPacked
  <2> HIDE DEF G, b
  <2>2. b[j] = {} \/ in.weight[g] + TokensOf(in, Got(in, g, q) \cup b[j]) <= in.limit
    BY <2>1 DEF Packed, b
  <2> QED BY <2>2 DEF G
<1>6. CASE b[j] = {} /\ G = {}
  <2>1. G \cup b[j] = {}
    BY <1>6
  <2>2. in.weight[g] + 0 <= in.limit
    BY <1>1, <1>2 DEF Overflows
  <2> QED BY <1>3, <2>1, <2>2
<1>7. CASE b[j] = {} /\ G # {}
  <2>1. G \cup b[j] = G
    BY <1>7
  <2> QED BY <1>4, <1>7, <2>1
<1> QED BY <1>5, <1>6, <1>7

\* A bundle's tokens, support and permission are what its group and question
\* make them.
LEMMA PlanBundleHolds ==
  ASSUME NEW in, NEW r, IsPlan(in, r), NEW k \in DOMAIN r.bundles
  PROVE  BundleHolds(in, r, r.bundles[k])
<1> DEFINE b == r.bundles[k]
           g == b.group
           q == b.question
<1>3. b.group = g /\ b.question = q
  OBVIOUS
<1> HIDE DEF g, q
<1>1. g \in r.groups
  BY <1>3, PlanBundleAt
<1>2. PICK j \in 1 .. Len(Binned(in, g, q)) : r.bundles[k] = Replay(in, g, q, j)
  <2>1. Stems(in, r.bundles[k], g, q)
    BY <1>3, PlanBundleAt
  <2> QED BY <2>1 DEF Stems
<1>4. WellFormed(in) /\ g \in SUBSET Primary /\ g # {}
  BY <1>1, PlanGroups DEF IsPlan
<1>5. b.support \subseteq r.segments
  BY DEF IsPlan
<1>7. b = Replay(in, g, q, j)
  BY <1>2
<1> HIDE DEF b
<1>6. /\ b.support = Got(in, g, q) \cup Binned(in, g, q)[j]
      /\ b.edges = {e \in GroupingEdges(in) : e.from \in g /\ e.to \in g}
      /\ b.primary_tokens = in.weight[g]
      /\ b.supporting_tokens = TokensOf(in, b.support)
      /\ b.dispatch_allowed = (Insufficient(in, g, Lost(in, g, q)) = {})
      /\ b.insufficient = Insufficient(in, g, Lost(in, g, q))
  BY <1>7, ReplayShape
<1>10. b.dispatch_allowed => b.primary_tokens + b.supporting_tokens <= in.limit
  <2> SUFFICES ASSUME Insufficient(in, g, Lost(in, g, q)) = {}
               PROVE  in.weight[g] + TokensOf(in, Got(in, g, q) \cup Binned(in, g, q)[j]) <= in.limit
    BY <1>6
  <2> QED BY <1>4, DispatchedFits
<1>8. b.support \subseteq CandidatesOf(in, g, q)
  <2>1. /\ \A i \in 1 .. Len(Binned(in, g, q)) : Binned(in, g, q)[i] \subseteq Small(in, g, q)
        /\ Got(in, g, q) \cup Small(in, g, q) \subseteq CandidatesOf(in, g, q)
    BY <1>4, BinsHoldSmall
  <2> QED BY <1>6, <2>1
<1>9. BundleHolds(in, r, b)
  BY <1>3, <1>5, <1>6, <1>10, <1>8 DEF BundleHolds
<1> QED BY <1>9 DEF b

\* A candidate is refused only for a reason that holds.
LEMMA PlanCandidateHolds ==
  ASSUME NEW in, NEW r, IsPlan(in, r), NEW h \in r.groups, NEW c \in DOMAIN in.candidates,
         in.candidates[c].primary \in h
  PROVE  CandidateHolds(in, r, h, c)
<1>1. PICK g \in r.groups : \E q \in Asked(in, g) :
        /\ <<g, q>> \in Planned(in, r) /\ c \in CandidatesOf(in, g, q)
        /\ c \in r.segments <=> c \in Got(in, g, q) \cup Small(in, g, q)
        /\ c \in OmittedIn(r) <=> c \notin r.segments
        /\ c \in OmittedIn(r) => ReasonIn(r, c) = {WhyLeftOut(in, g, q, c)}
  BY PlanCandidate
<1>2. PICK q \in Asked(in, g) :
        /\ <<g, q>> \in Planned(in, r) /\ c \in CandidatesOf(in, g, q)
        /\ c \in r.segments <=> c \in Got(in, g, q) \cup Small(in, g, q)
        /\ c \in OmittedIn(r) <=> c \notin r.segments
        /\ c \in OmittedIn(r) => ReasonIn(r, c) = {WhyLeftOut(in, g, q, c)}
  BY <1>1
<1>3. g = h /\ in.candidates[c].question = q
  BY <1>2, PlanGroups DEF CandidatesOf
<1>4. WellFormed(in) /\ g \in SUBSET Primary
  BY PlanGroups DEF IsPlan
<1>5. AsReplayed(in, r, g, q)
  BY <1>2, PlanQuestion
<1>6. ASSUME NEW k \in BundlesOf(r, g, q)
      PROVE  LET b == r.bundles[k] IN
             /\ "context_blocked" \in ReasonIn(r, c) => ~b.dispatch_allowed
             /\ in.candidates[c].necessity = "required" =>
                  IF c \in OmittedIn(r)
                    THEN ~b.dispatch_allowed /\ <<"candidate", c>> \in b.insufficient
                    ELSE b.dispatch_allowed => c \in b.support
  <2> DEFINE b == r.bundles[k]
             lost == Lost(in, g, q)
  <2>1. PICK j \in 1 .. Len(Binned(in, g, q)) : b = Replay(in, g, q, j)
    BY <1>5, <1>6 DEF AsReplayed
  <2> HIDE DEF b
  <2>2. /\ b.support = Got(in, g, q) \cup Binned(in, g, q)[j]
        /\ b.dispatch_allowed = (Insufficient(in, g, lost) = {})
        /\ b.insufficient = Insufficient(in, g, lost)
    BY <2>1, ReplayShape
  <2> HIDE DEF lost
  <2>3. \A d \in lost : <<"candidate", d>> \in Insufficient(in, g, lost)
    BY DEF Insufficient
  <2>4. in.blocked => Insufficient(in, g, lost) # {}
    BY DEF Insufficient
  <2>5. ASSUME "context_blocked" \in ReasonIn(r, c) PROVE ~b.dispatch_allowed
    <3>1. c \in OmittedIn(r)
      BY <2>5 DEF ReasonIn, OmittedIn
    <3>2. WhyLeftOut(in, g, q, c) = "context_blocked"
      BY <1>2, <2>5, <3>1
    <3>3. in.blocked \/ lost # {}
      BY <1>2, <3>2, CauseMeans DEF lost
    <3> QED BY <2>2, <2>3, <2>4, <3>3
  <2>6. ASSUME in.candidates[c].necessity = "required", c \in OmittedIn(r)
        PROVE  ~b.dispatch_allowed /\ <<"candidate", c>> \in b.insufficient
    <3>1. c \in lost
      BY <1>2, <2>6 DEF Lost, lost
    <3> QED BY <2>2, <2>3, <3>1
  <2>7. ASSUME in.candidates[c].necessity = "required", c \notin OmittedIn(r)
        PROVE  c \in b.support
    <3>1. c \in Got(in, g, q) \cup Small(in, g, q) /\ c \in CandidatesOf(in, g, q)
      BY <1>2, <2>7
    <3>2. c \notin Small(in, g, q)
      BY <2>7 DEF Small, Wanted
    <3> QED BY <2>2, <3>1, <3>2
  <2> QED BY <2>5, <2>6, <2>7 DEF b
<1> QED BY <1>3, <1>6 DEF CandidateHolds

\* A candidate that is selected without being required is in one bundle.
LEMMA PlanOwners ==
  ASSUME NEW in, NEW r, IsPlan(in, r), NEW c \in r.segments,
         NEW owners, owners = {k \in DOMAIN r.bundles : c \in r.bundles[k].support}
  PROVE  /\ owners # {}
         /\ in.candidates[c].necessity # "required" => \A k, l \in owners : k = l
<1>1. owners # {}
  BY DEF IsPlan
<1>2. ASSUME NEW k \in owners, NEW l \in owners, in.candidates[c].necessity # "required"
      PROVE  k = l
  <2> DEFINE g == r.bundles[k].group
             q == r.bundles[k].question
  <2>9. r.bundles[k].group = g /\ r.bundles[k].question = q
    OBVIOUS
  <2> HIDE DEF g, q
  <2>1. g \in r.groups /\ <<g, q>> \in Planned(in, r)
    BY <2>9, PlanBundleAt
  <2>2. \E j \in 1 .. Len(Binned(in, g, q)) : r.bundles[k] = Replay(in, g, q, j)
    <3>1. Stems(in, r.bundles[k], g, q)
      BY <2>9, PlanBundleAt
    <3> QED BY <3>1 DEF Stems
  <2>3. WellFormed(in) /\ g \in SUBSET Primary /\ <<g, q>> \in Planned(in, r)
    BY <2>1, PlanGroups DEF IsPlan
  <2>4. /\ \A i \in 1 .. Len(Binned(in, g, q)) : Binned(in, g, q)[i] \subseteq Small(in, g, q)
        /\ Got(in, g, q) \cup Small(in, g, q) \subseteq CandidatesOf(in, g, q)
        /\ Got(in, g, q) \subseteq Wanted(in, g, q)
    BY <2>3, BinsHoldSmall
  <2>5. c \in CandidatesOf(in, g, q)
    BY <1>2, <2>2, <2>4, ReplayShape
  <2>6. PICK n \in Nat : /\ BundlesOf(r, g, q) = {n + j : j \in 1 .. Len(Binned(in, g, q))}
                         /\ \A j \in 1 .. Len(Binned(in, g, q)) : r.bundles[n + j] = Replay(in, g, q, j)
    <3>1. AsReplayed(in, r, g, q)
      BY <2>3, PlanQuestion
    <3> QED BY <3>1 DEF AsReplayed
  <2>7. ASSUME NEW m \in owners
        PROVE  \E j \in 1 .. Len(Binned(in, g, q)) : m = n + j /\ c \in Binned(in, g, q)[j]
    <3> DEFINE g1 == r.bundles[m].group
               q1 == r.bundles[m].question
    <3>10. r.bundles[m].group = g1 /\ r.bundles[m].question = q1
      OBVIOUS
    <3> HIDE DEF g1, q1
    <3>1. g1 \in r.groups /\ <<g1, q1>> \in Planned(in, r)
      BY <3>10, PlanBundleAt
    <3>2. \E i \in 1 .. Len(Binned(in, g1, q1)) : r.bundles[m] = Replay(in, g1, q1, i)
      <4>1. Stems(in, r.bundles[m], g1, q1)
        BY <3>10, PlanBundleAt
      <4> QED BY <4>1 DEF Stems
    <3>3. /\ \A i \in 1 .. Len(Binned(in, g1, q1)) : Binned(in, g1, q1)[i] \subseteq Small(in, g1, q1)
          /\ Got(in, g1, q1) \cup Small(in, g1, q1) \subseteq CandidatesOf(in, g1, q1)
      <4>1. g1 \in SUBSET Primary
        BY <3>1, PlanGroups
      <4> QED BY <2>3, <4>1, BinsHoldSmall
    <3>4. c \in CandidatesOf(in, g1, q1)
      BY <2>7, <3>2, <3>3, ReplayShape
    <3>5. g1 = g /\ q1 = q
      <4>1. CandidatesOf(in, <<g, q>>[1], <<g, q>>[2]) \cap CandidatesOf(in, <<g1, q1>>[1], <<g1, q1>>[2]) # {}
        BY <2>5, <3>4
      <4>2. <<g, q>> = <<g1, q1>>
        BY <2>3, <3>1, <4>1, PlanHomes
      <4> QED BY <4>2
    <3>6. m \in BundlesOf(r, g, q)
      BY <3>5, <3>10 DEF BundlesOf
    <3>7. PICK j \in 1 .. Len(Binned(in, g, q)) : m = n + j
      BY <2>6, <3>6
    <3>8. r.bundles[m].support = Got(in, g, q) \cup Binned(in, g, q)[j]
      BY <2>6, <3>7, ReplayShape
    <3>9. c \notin Got(in, g, q)
      BY <1>2, <2>4 DEF Wanted
    <3> QED BY <3>7, <3>8, <3>9
  <2>8. \A i, j \in 1 .. Len(Binned(in, g, q)) : i # j => Binned(in, g, q)[i] \cap Binned(in, g, q)[j] = {}
    <3>1. Packed(in, g, q, Binned(in, g, q), Small(in, g, q))
      BY <2>3, BinnedPacked
    <3> DEFINE b == Binned(in, g, q)
    <3> HIDE DEF b
    <3>2. Packed(in, g, q, b, Small(in, g, q))
      BY <3>1 DEF b
    <3>3. \A i, j \in 1 .. Len(b) : i # j => b[i] \cap b[j] = {}
      BY <3>2 DEF Packed
    <3> QED BY <3>3 DEF b
  <2> QED BY <2>7, <2>8
<1> QED BY <1>1, <1>2

\* Bundles have the weight of their groups.
LEMMA PlanWeights ==
  ASSUME NEW in, NEW r, IsPlan(in, r), NEW k \in DOMAIN r.bundles
  PROVE  r.bundles[k].primary_tokens = in.weight[r.bundles[k].group]
<1> DEFINE g == r.bundles[k].group
           q == r.bundles[k].question
<1>3. r.bundles[k].group = g /\ r.bundles[k].question = q
  OBVIOUS
<1> HIDE DEF g, q
<1>1. PICK j \in 1 .. Len(Binned(in, g, q)) : r.bundles[k] = Replay(in, g, q, j)
  <2>1. Stems(in, r.bundles[k], g, q)
    BY <1>3, PlanBundleAt
  <2> QED BY <2>1 DEF Stems
<1>2. r.bundles[k].primary_tokens = in.weight[g]
  BY <1>1, ReplayShape
<1> QED BY <1>2 DEF g

\* The bundles of a group ask exactly the questions of its units.
LEMMA PlanGraphHolds ==
  ASSUME NEW in, NEW r, IsPlan(in, r)
  PROVE  GraphHolds(in, r)
<1>1. ASSUME NEW g \in r.groups
      PROVE  {r.bundles[k].question : k \in {n \in DOMAIN r.bundles : r.bundles[n].group = g}}
               = Asked(in, g)
  <2>1. ASSUME NEW k \in DOMAIN r.bundles, r.bundles[k].group = g
        PROVE  r.bundles[k].question \in Asked(in, g)
    BY <2>1, PlanBundleAt
  <2>2. ASSUME NEW q \in Asked(in, g)
        PROVE  \E k \in DOMAIN r.bundles : r.bundles[k].group = g /\ r.bundles[k].question = q
    <3>1. <<g, q>> \in Planned(in, r)
      BY DEF Planned, Asked
    <3> QED BY <3>1, PlanAnswers
  <2> QED BY <2>1, <2>2
<1>2. ASSUME NEW k \in DOMAIN r.bundles
      PROVE  r.bundles[k].primary_tokens = in.weight[r.bundles[k].group]
  BY PlanWeights
<1>3. ASSUME NEW g \in r.groups
      PROVE  Cardinality({r.bundles[k].primary_tokens :
                            k \in {n \in DOMAIN r.bundles : r.bundles[n].group = g}}) = 1
  <2>1. PICK k \in DOMAIN r.bundles : r.bundles[k].group = g
    <3>1. PICK q \in Question : <<g, q>> \in Planned(in, r)
      BY PlanAsks
    <3> QED BY <3>1, PlanAnswers
  <2>2. {r.bundles[n].primary_tokens : n \in {n \in DOMAIN r.bundles : r.bundles[n].group = g}}
          = {in.weight[g]}
    BY <1>2, <2>1
  <2> QED BY <2>2, FS_Singleton
<1>4. ASSUME NEW c \in r.segments
      PROVE  LET owners == {k \in DOMAIN r.bundles : c \in r.bundles[k].support} IN
             /\ owners # {}
             /\ in.candidates[c].necessity # "required" => Cardinality(owners) = 1
  <2> DEFINE owners == {k \in DOMAIN r.bundles : c \in r.bundles[k].support}
  <2>3. owners = {k \in DOMAIN r.bundles : c \in r.bundles[k].support}
    OBVIOUS
  <2> HIDE DEF owners
  <2>1. owners # {} /\ (in.candidates[c].necessity # "required" => \A k, l \in owners : k = l)
    BY <2>3, PlanOwners
  <2>4. in.candidates[c].necessity # "required" => \E k : owners = {k}
    <3>1. PICK k \in owners : TRUE
      BY <2>1
    <3>2. in.candidates[c].necessity # "required" => owners = {k}
      BY <2>1
    <3> QED BY <3>2
  <2>2. owners # {} /\ (in.candidates[c].necessity # "required" => Cardinality(owners) = 1)
    BY <2>1, <2>4, FS_Singleton
  <2> QED BY <2>2 DEF owners
<1> QED
  BY <1>1, <1>3, <1>4, PlanGroupsHold, PlanSelectionHolds, PlanBundleHolds, PlanCandidateHolds
  DEF GraphHolds

\* Bundles with the weights of their groups weigh the input as it is.
LEMMA WeighedAsGiven ==
  ASSUME NEW in, WellFormed(in), NEW r,
         \A g \in r.groups : \E k \in DOMAIN r.bundles : r.bundles[k].group = g,
         \A k \in DOMAIN r.bundles : r.bundles[k].primary_tokens = in.weight[r.bundles[k].group]
  PROVE  AsWeighed(in, r) = in
<1> DEFINE weigh(g) == IF g \in r.groups
                         THEN (CHOOSE b \in Range(r.bundles) : b.group = g).primary_tokens
                         ELSE in.weight[g]
           W == [g \in DOMAIN in.weight |-> weigh(g)]
<1>1. ASSUME NEW g \in r.groups
      PROVE  (CHOOSE b \in Range(r.bundles) : b.group = g).primary_tokens = in.weight[g]
  <2>1. \E b \in Range(r.bundles) : b.group = g
    BY DEF Range
  <2> DEFINE b == CHOOSE b \in Range(r.bundles) : b.group = g
  <2>2. b \in Range(r.bundles) /\ b.group = g
    BY <2>1
  <2> HIDE DEF b
  <2>3. PICK k \in DOMAIN r.bundles : b = r.bundles[k]
    BY <2>2 DEF Range
  <2>4. b.primary_tokens = in.weight[g]
    BY <2>2, <2>3
  <2> QED BY <2>4 DEF b
<1>2. \A g : weigh(g) = in.weight[g]
  BY <1>1
<1>3. in.weight = [g \in DOMAIN in.weight |-> in.weight[g]]
  BY DEF WellFormed
<1>4. AsWeighed(in, r) = [in EXCEPT !.weight = W]
  BY DEF AsWeighed
<1> HIDE DEF weigh
<1>5. W = in.weight
  BY <1>2, <1>3
<1> HIDE DEF W
<1>6. in = [field \in Field |-> in[field]]
  BY DEF WellFormed
<1>7. [in EXCEPT !.weight = in.weight] = in
  BY <1>6
<1> QED BY <1>4, <1>5, <1>7

\* The weights read off the bundles are those that were given.
LEMMA PlanWeighs ==
  ASSUME NEW in, NEW r, IsPlan(in, r)
  PROVE  AsWeighed(in, r) = in
<1>1. WellFormed(in)
  BY DEF IsPlan
<1>2. \A g \in r.groups : \E k \in DOMAIN r.bundles : r.bundles[k].group = g
  BY PlanGroupsHold DEF GroupsHold
<1>3. \A k \in DOMAIN r.bundles : r.bundles[k].primary_tokens = in.weight[r.bundles[k].group]
  BY PlanWeights
<1> QED BY <1>1, <1>2, <1>3, WeighedAsGiven

\* the bundles of a question with this support
Supported(r, g, q, x) == {k \in BundlesOf(r, g, q) : r.bundles[k].support = x}

\* the bins of the replay that make it
Supporting(in, g, q, x) == {j \in 1 .. Len(Binned(in, g, q)) : Got(in, g, q) \cup Binned(in, g, q)[j] = x}

\* In a plan these are as many.
LEMMA PlanSupports ==
  ASSUME NEW in, NEW r, IsPlan(in, r), NEW g, NEW q, <<g, q>> \in Planned(in, r), NEW x
  PROVE  /\ IsFiniteSet(Supported(r, g, q, x))
         /\ Cardinality(Supported(r, g, q, x)) = Cardinality(Supporting(in, g, q, x))
<1> DEFINE b == Binned(in, g, q)
           J == Supporting(in, g, q, x)
<1>1. Len(b) \in Nat
  <2>1. g \in SUBSET Primary /\ WellFormed(in)
    BY PlanGroups DEF IsPlan, Planned
  <2>2. Len(b) \in Nat \ {0}
    BY <2>1, BinsHoldSmall
  <2> QED BY <2>2
<1>2. PICK n \in Nat : /\ BundlesOf(r, g, q) = {n + j : j \in 1 .. Len(b)}
                       /\ \A j \in 1 .. Len(b) : r.bundles[n + j] = Replay(in, g, q, j)
  <2>1. AsReplayed(in, r, g, q)
    BY PlanQuestion
  <2> QED BY <2>1 DEF AsReplayed
<1>3. \A j \in 1 .. Len(b) : r.bundles[n + j].support = Got(in, g, q) \cup b[j]
  BY <1>2, ReplayShape
<1>4. Supported(r, g, q, x) = {n + j : j \in J}
  BY <1>2, <1>3 DEF Supported, Supporting
<1>5. J \in SUBSET (1 .. Len(b))
  BY DEF Supporting
<1> HIDE DEF J, b
<1>6. /\ IsFiniteSet({n + j : j \in J})
      /\ Cardinality({n + j : j \in J}) = Cardinality(J)
  BY <1>1, <1>5, ShiftedSize
<1> QED BY <1>4, <1>6 DEF J

\* What the check of a question says, in the parts of the replay.
QuestionReplayed(in, r, g, q) ==
  LET mine == CandidatesOf(in, g, q)
      got == Got(in, g, q) \cup Small(in, g, q)
      lost == Lost(in, g, q)
  IN /\ r.segments \cap mine = got
     /\ OmittedIn(r) \cap mine = mine \ got
     /\ \A c \in mine \ got : ReasonIn(r, c) = {WhyLeftOut(in, g, q, c)}
     /\ \A x \in {r.bundles[k].support : k \in BundlesOf(r, g, q)}
                   \cup {Got(in, g, q) \cup y : y \in Range(Binned(in, g, q))} :
          Cardinality(Supported(r, g, q, x)) = Cardinality(Supporting(in, g, q, x))
     /\ \A k \in BundlesOf(r, g, q) :
          LET b == r.bundles[k] IN
          /\ b.insufficient = Insufficient(in, g, lost)
          /\ b.degraded = Weak(in, g, q)
          /\ b.dispatch_allowed = (Insufficient(in, g, lost) = {})

\* It is what the checks ask of a question.
LEMMA QuestionMeans ==
  ASSUME NEW in, WellFormed(in), NEW r, NEW g \in SUBSET Primary, NEW q
  PROVE  QuestionHolds(in, r, g, q) <=> QuestionReplayed(in, r, g, q)
<1> DEFINE s == Selection(in, g, q)
           mine == CandidatesOf(in, g, q)
           got == Got(in, g, q) \cup Small(in, g, q)
<1>1. /\ s.taken = Got(in, g, q) /\ s.lost = Lost(in, g, q) /\ s.bins = Binned(in, g, q)
      /\ DOMAIN s.reasons = mine \ got
      /\ \A c \in mine \ got : s.reasons[c] = WhyLeftOut(in, g, q, c)
  <2>1. s = [taken |-> Got(in, g, q), lost |-> Lost(in, g, q), bins |-> Binned(in, g, q),
             reasons |-> [c \in mine \ got |-> WhyLeftOut(in, g, q, c)]]
    BY SelectionParts
  <2> QED BY <2>1
<1>2. UNION Range(s.bins) = Small(in, g, q) /\ DOMAIN s.bins = 1 .. Len(Binned(in, g, q))
  BY <1>1, BinsHoldSmall
<1>3. \A x : {k \in BundlesOf(r, g, q) : r.bundles[k].support = x} = Supported(r, g, q, x)
  BY DEF Supported
<1>4. \A x : {k \in DOMAIN s.bins : s.taken \cup s.bins[k] = x} = Supporting(in, g, q, x)
  BY <1>1, <1>2 DEF Supporting
<1>5. {c \in mine : Refusal(in, g, c) = "relation_degraded"} = Weak(in, g, q)
  BY DEF Weak
<1> HIDE DEF s
<1> DEFINE P1 == r.segments \cap mine = got
           P2 == OmittedIn(r) \cap mine = mine \ got
           P3 == \A c \in mine \ got : ReasonIn(r, c) = {WhyLeftOut(in, g, q, c)}
           P4 == \A x \in {r.bundles[k].support : k \in BundlesOf(r, g, q)}
                            \cup {Got(in, g, q) \cup y : y \in Range(Binned(in, g, q))} :
                   Cardinality(Supported(r, g, q, x)) = Cardinality(Supporting(in, g, q, x))
           P5 == \A k \in BundlesOf(r, g, q) :
                   LET b == r.bundles[k] IN
                   /\ b.insufficient = Insufficient(in, g, Lost(in, g, q))
                   /\ b.degraded = Weak(in, g, q)
                   /\ b.dispatch_allowed = (Insufficient(in, g, Lost(in, g, q)) = {})
<1>6. r.segments \cap mine = s.taken \cup UNION Range(s.bins) <=> P1
  BY <1>1, <1>2
<1>7. OmittedIn(r) \cap mine = DOMAIN s.reasons <=> P2
  BY <1>1
<1>8. (\A c \in DOMAIN s.reasons : ReasonIn(r, c) = {s.reasons[c]}) <=> P3
  BY <1>1
<1>9. (\A x \in {r.bundles[k].support : k \in BundlesOf(r, g, q)}
                  \cup {s.taken \cup y : y \in Range(s.bins)} :
          Cardinality({k \in BundlesOf(r, g, q) : r.bundles[k].support = x})
            = Cardinality({k \in DOMAIN s.bins : s.taken \cup s.bins[k] = x})) <=> P4
  <2>1. {s.taken \cup y : y \in Range(s.bins)} = {Got(in, g, q) \cup y : y \in Range(Binned(in, g, q))}
    BY <1>1
  <2> QED BY <1>3, <1>4, <2>1
<1>10. (\A k \in BundlesOf(r, g, q) :
          LET b == r.bundles[k] IN
          /\ b.insufficient = Insufficient(in, g, s.lost)
          /\ b.degraded = {c \in mine : Refusal(in, g, c) = "relation_degraded"}
          /\ b.dispatch_allowed = (Insufficient(in, g, s.lost) = {})) <=> P5
  BY <1>1, <1>5
<1> HIDE DEF P1, P2, P3, P4, P5
<1>11. QuestionHolds(in, r, g, q) <=> P1 /\ P2 /\ P3 /\ P4 /\ P5
  BY <1>6, <1>7, <1>8, <1>9, <1>10 DEF QuestionHolds, s
<1> QED BY <1>11 DEF P1, P2, P3, P4, P5, QuestionReplayed

\* A plan passes them.
LEMMA PlanQuestionHolds ==
  ASSUME NEW in, NEW r, IsPlan(in, r), NEW g, NEW q, <<g, q>> \in Planned(in, r)
  PROVE  QuestionHolds(in, r, g, q)
<1> DEFINE mine == CandidatesOf(in, g, q)
           got == Got(in, g, q) \cup Small(in, g, q)
           lost == Lost(in, g, q)
<1>1. WellFormed(in) /\ g \in SUBSET Primary
  BY PlanGroups DEF IsPlan, Planned
<1>2. AsReplayed(in, r, g, q)
  BY PlanQuestion
<1>3. /\ r.segments \cap mine = got
      /\ OmittedIn(r) \cap mine = mine \ got
      /\ \A c \in mine \ got : ReasonIn(r, c) = {WhyLeftOut(in, g, q, c)}
  BY <1>2 DEF AsReplayed
<1>4. \A x : Cardinality(Supported(r, g, q, x)) = Cardinality(Supporting(in, g, q, x))
  BY PlanSupports
<1>5. ASSUME NEW k \in BundlesOf(r, g, q)
      PROVE  /\ r.bundles[k].insufficient = Insufficient(in, g, lost)
             /\ r.bundles[k].degraded = Weak(in, g, q)
             /\ r.bundles[k].dispatch_allowed = (Insufficient(in, g, lost) = {})
  <2>1. PICK j \in 1 .. Len(Binned(in, g, q)) : r.bundles[k] = Replay(in, g, q, j)
    BY <1>2 DEF AsReplayed
  <2> QED BY <2>1, ReplayShape
<1>6. QuestionReplayed(in, r, g, q)
  BY <1>3, <1>4, <1>5 DEF QuestionReplayed
<1> QED BY <1>1, <1>6, QuestionMeans

\* What plan() makes is accepted.
LEMMA PlanAccepted ==
  ASSUME NEW in, NEW r, IsPlan(in, r)
  PROVE  Accepts(in, r)
<1>1. GraphHolds(in, r)
  BY PlanGraphHolds
<1>2. r.groups = Groups(FoldSet(LAMBDA e, f : Joined(f, e), [p \in Primary |-> p], GroupingEdges(in)))
  BY GrownIsFold DEF IsPlan
<1>3. ASSUME NEW g \in r.groups, NEW q \in Asked(in, g) PROVE QuestionHolds(AsWeighed(in, r), r, g, q)
  <2>1. <<g, q>> \in Planned(in, r)
    BY DEF Planned, Asked
  <2>2. QuestionHolds(in, r, g, q)
    BY <2>1, PlanQuestionHolds
  <2> QED BY <2>2, PlanWeighs
<1> QED BY <1>1, <1>2, <1>3 DEF Accepts, TruthHolds

-----------------------------------------------------------------------------
(* What differs from the plan is refused.                                  *)

\* A result with the groups of the plan and their weights that is accepted
\* passes the checks of the questions for the input as it is.
LEMMA AcceptedMeans ==
  ASSUME NEW in, NEW r, IsPlan(in, r), NEW s, s.groups = r.groups,
         \A k \in DOMAIN s.bundles : s.bundles[k].primary_tokens = in.weight[s.bundles[k].group],
         Accepts(in, s)
  PROVE  /\ \A g, q : <<g, q>> \in Planned(in, r) => QuestionHolds(in, s, g, q)
         /\ \A k \in DOMAIN s.bundles : BundleHolds(in, s, s.bundles[k])
<1>1. WellFormed(in)
  BY DEF IsPlan
<1>2. GraphHolds(in, s) /\ TruthHolds(in, s)
  BY DEF Accepts
<1>3. \A g \in s.groups : \E k \in DOMAIN s.bundles : s.bundles[k].group = g
  BY <1>2 DEF GraphHolds, GroupsHold
<1>4. AsWeighed(in, s) = in
  BY <1>1, <1>3, WeighedAsGiven
<1>5. ASSUME NEW g, NEW q, <<g, q>> \in Planned(in, r) PROVE QuestionHolds(in, s, g, q)
  <2>1. g \in s.groups /\ q \in Asked(in, g)
    BY <1>5 DEF Planned
  <2> QED BY <1>2, <1>4, <2>1 DEF TruthHolds
<1> QED BY <1>2, <1>5 DEF GraphHolds

\* The bundles of a question that passes have the supports of the replay.
LEMMA SupportIsReplayed ==
  ASSUME NEW in, WellFormed(in), NEW g \in SUBSET Primary, NEW q, NEW s,
         QuestionHolds(in, s, g, q), IsFiniteSet(BundlesOf(s, g, q)), NEW n \in BundlesOf(s, g, q)
  PROVE  Supporting(in, g, q, s.bundles[n].support) # {}
<1> DEFINE x == s.bundles[n].support
<1>1. Cardinality(Supported(s, g, q, x)) = Cardinality(Supporting(in, g, q, x))
  <2>1. \A y \in {s.bundles[k].support : k \in BundlesOf(s, g, q)}
                   \cup {Got(in, g, q) \cup z : z \in Range(Binned(in, g, q))} :
          Cardinality(Supported(s, g, q, y)) = Cardinality(Supporting(in, g, q, y))
    <3>1. QuestionReplayed(in, s, g, q)
      BY QuestionMeans
    <3> QED BY <3>1 DEF QuestionReplayed
  <2>2. x \in {s.bundles[k].support : k \in BundlesOf(s, g, q)}
    OBVIOUS
  <2> HIDE DEF x
  <2> QED BY <2>1, <2>2
<1>2. n \in Supported(s, g, q, x) /\ Supported(s, g, q, x) \subseteq BundlesOf(s, g, q)
  BY DEF Supported
<1> HIDE DEF x
<1>3. IsFiniteSet(Supported(s, g, q, x))
  BY <1>2, FS_Subset
<1>4. Cardinality(Supported(s, g, q, x)) # 0
  BY <1>2, <1>3, FS_EmptySet
<1>5. Supporting(in, g, q, x) # {}
  BY <1>1, <1>4, FS_EmptySet
<1> QED BY <1>5 DEF x

\* What a bundle is with another support.
LEMMA PlanResupported ==
  ASSUME NEW in, NEW r, IsPlan(in, r), NEW k \in DOMAIN r.bundles, NEW S,
         NEW b, b = r.bundles[k], NEW d, d = Resupport(in, b, S)
  PROVE  /\ d.support = S /\ d.group = b.group /\ d.question = b.question
         /\ d.primary_tokens = in.weight[d.group]
         /\ S = b.support => d = b
<1>1. b.primary_tokens = in.weight[b.group]
  BY PlanWeights
<1> DEFINE g == b.group
           q == b.question
<1>2. Stems(in, b, g, q)
  BY PlanBundleAt
<1> HIDE DEF g, q
<1>3. PICK j \in 1 .. Len(Binned(in, g, q)) : b = Replay(in, g, q, j)
  BY <1>2 DEF Stems
<1>4. /\ b = Bundle(in, g, q, b.support, Weak(in, g, q), Lost(in, g, q))
      /\ b.supporting_tokens = TokensOf(in, b.support)
  BY <1>3, ReplayShape
<1>5. /\ d.support = S /\ d.group = b.group /\ d.question = b.question
      /\ d.primary_tokens = b.primary_tokens
  BY <1>4 DEF Resupport, Bundle
<1>6. S = b.support => d = b
  BY <1>4 DEF Resupport, Bundle
<1> QED BY <1>1, <1>5, <1>6

\* What a sequence is without one of its elements.
LEMMA Removed ==
  ASSUME NEW S, NEW s \in Seq(S), NEW k \in 1 .. Len(s), NEW t, t = RemoveAt(s, k)
  PROVE  /\ Len(s) \in Nat /\ DOMAIN s = 1 .. Len(s) /\ DOMAIN t = 1 .. (Len(s) - 1)
         /\ \A i \in 1 .. (Len(s) - 1) : t[i] = IF i < k THEN s[i] ELSE s[i + 1]
<1> DEFINE N == Len(s)
           a == SubSeq(s, 1, k - 1)
           b == SubSeq(s, k + 1, N)
<1>1. N \in Nat /\ DOMAIN s = 1 .. N /\ k \in 1 .. N
  OBVIOUS
<1>2. /\ a \in Seq(S) /\ Len(a) = k - 1
      /\ \A i \in 1 .. (k - 1) : a[i] = s[i]
  BY <1>1, SubSeqProperties
<1>3. /\ b \in Seq(S) /\ Len(b) = N - k
      /\ \A i \in 1 .. (N - k) : b[i] = s[k + i]
  <2>1. k + 1 \in Int /\ N \in Int /\ \A i \in k + 1 .. N : s[i] \in S
    BY <1>1
  <2>2. /\ b \in Seq(S) /\ Len(b) = IF k + 1 <= N THEN N - (k + 1) + 1 ELSE 0
        /\ \A i \in 1 .. N - (k + 1) + 1 : b[i] = s[(k + 1) + i - 1]
    BY <2>1, SubSeqProperties
  <2> HIDE DEF b, N
  <2>3. Len(b) = N - k /\ N - (k + 1) + 1 = N - k
    BY <1>1, <2>2
  <2>4. ASSUME NEW i \in 1 .. (N - k) PROVE b[i] = s[k + i]
    <3>1. (k + 1) + i - 1 = k + i /\ i \in 1 .. N - (k + 1) + 1
      BY <1>1
    <3> QED BY <2>2, <3>1
  <2> QED BY <2>2, <2>3, <2>4
<1>4. t = a \o b
  BY DEF RemoveAt
<1> HIDE DEF N, a, b
<1>5. /\ t \in Seq(S) /\ Len(t) = N - 1
      /\ \A i \in 1 .. (N - 1) : t[i] = IF i <= k - 1 THEN a[i] ELSE b[i - (k - 1)]
  <2>1. /\ t \in Seq(S) /\ Len(t) = Len(a) + Len(b)
        /\ \A i \in 1 .. Len(a) + Len(b) : t[i] = IF i <= Len(a) THEN a[i] ELSE b[i - Len(a)]
    <3>1. a \in Seq(S) /\ b \in Seq(S)
      BY <1>2, <1>3
    <3> QED BY <1>4, <3>1, ConcatProperties
  <2>2. Len(a) = k - 1 /\ Len(a) + Len(b) = N - 1
    BY <1>1, <1>2, <1>3
  <2> QED BY <2>1, <2>2
<1>6. ASSUME NEW i \in 1 .. (N - 1) PROVE t[i] = IF i < k THEN s[i] ELSE s[i + 1]
  <2>1. CASE i < k
    BY <1>1, <1>2, <1>5, <2>1
  <2>2. CASE ~(i < k)
    <3>1. i - (k - 1) \in 1 .. (N - k) /\ k + (i - (k - 1)) = i + 1 /\ ~(i <= k - 1)
      BY <1>1, <2>2
    <3> QED BY <1>3, <1>5, <2>2, <3>1
  <2> QED BY <2>1, <2>2
<1>7. DOMAIN t = 1 .. (N - 1)
  BY <1>5
<1> QED BY <1>1, <1>6, <1>7 DEF N

\* the group and the question of a bundle, and what is known of it
LEMMA PlanBundleParts ==
  ASSUME NEW in, NEW r, IsPlan(in, r), NEW k \in DOMAIN r.bundles,
         NEW g, NEW q, g = r.bundles[k].group, q = r.bundles[k].question
  PROVE  /\ WellFormed(in) /\ g \in SUBSET Primary /\ <<g, q>> \in Planned(in, r)
         /\ k \in BundlesOf(r, g, q) /\ AsReplayed(in, r, g, q)
<1>1. g \in r.groups /\ <<g, q>> \in Planned(in, r)
  BY PlanBundleAt
<1>2. WellFormed(in) /\ g \in SUBSET Primary
  <2>1. g \in SUBSET Primary
    BY <1>1, PlanGroups
  <2> QED BY <2>1 DEF IsPlan
<1>3. AsReplayed(in, r, g, q)
  BY <1>1, PlanQuestion
<1> QED BY <1>1, <1>2, <1>3 DEF BundlesOf

\* Single things the check of a question says: the selected candidates, ...
LEMMA QuestionSelects ==
  ASSUME NEW in, WellFormed(in), NEW s, NEW g \in SUBSET Primary, NEW q, QuestionHolds(in, s, g, q)
  PROVE  s.segments \cap CandidatesOf(in, g, q) = Got(in, g, q) \cup Small(in, g, q)
<1>1. QuestionReplayed(in, s, g, q)
  BY QuestionMeans
<1> QED BY <1>1 DEF QuestionReplayed

\* ... the reasons of the others, ...
LEMMA QuestionReasons ==
  ASSUME NEW in, WellFormed(in), NEW s, NEW g \in SUBSET Primary, NEW q, QuestionHolds(in, s, g, q),
         NEW c \in CandidatesOf(in, g, q), c \notin Got(in, g, q) \cup Small(in, g, q)
  PROVE  ReasonIn(s, c) = {WhyLeftOut(in, g, q, c)}
<1>1. QuestionReplayed(in, s, g, q)
  BY QuestionMeans
<1> QED BY <1>1 DEF QuestionReplayed

\* ... how many bundles have the support of a bin, ...
LEMMA QuestionCounts ==
  ASSUME NEW in, WellFormed(in), NEW s, NEW g \in SUBSET Primary, NEW q, QuestionHolds(in, s, g, q),
         NEW z \in Range(Binned(in, g, q)), NEW y, y = Got(in, g, q) \cup z
  PROVE  Cardinality(Supported(s, g, q, y)) = Cardinality(Supporting(in, g, q, y))
<1>1. QuestionReplayed(in, s, g, q)
  BY QuestionMeans
<1> QED BY <1>1 DEF QuestionReplayed

\* ... and what is insufficient.
LEMMA QuestionFinds ==
  ASSUME NEW in, WellFormed(in), NEW s, NEW g \in SUBSET Primary, NEW q, QuestionHolds(in, s, g, q),
         NEW k \in BundlesOf(s, g, q)
  PROVE  s.bundles[k].insufficient = Insufficient(in, g, Lost(in, g, q))
<1>1. QuestionReplayed(in, s, g, q)
  BY QuestionMeans
<1> QED BY <1>1 DEF QuestionReplayed

\* A bundle is missing: fewer have its support than the replay makes.
LEMMA DroppedRefused ==
  ASSUME NEW in, NEW r, IsPlan(in, r), NEW k \in DOMAIN r.bundles, NEW s,
         s = Shortened(r, k)
  PROVE  ~Accepts(in, s)
<1> SUFFICES ASSUME Accepts(in, s) PROVE FALSE
  OBVIOUS
<1> DEFINE N == Len(r.bundles)
           g == r.bundles[k].group
           q == r.bundles[k].question
           x == r.bundles[k].support
<1>1. PICK S : r.bundles \in Seq(S)
  BY DEF IsPlan
<1>2. s.groups = r.groups /\ s.bundles = RemoveAt(r.bundles, k)
  BY DEF IsPlan, Shortened
<1>3. N \in Nat /\ DOMAIN r.bundles = 1 .. N /\ k \in 1 .. N
  BY <1>1
<1>4. DOMAIN s.bundles = 1 .. (N - 1)
      /\ \A i \in 1 .. (N - 1) : s.bundles[i] = IF i < k THEN r.bundles[i] ELSE r.bundles[i + 1]
  BY <1>1, <1>2, <1>3, Removed
<1>5. \A i \in 1 .. (N - 1) : i + 1 \in 1 .. N /\ i \in 1 .. N
  BY <1>3
<1>6. \A i \in DOMAIN s.bundles : s.bundles[i].primary_tokens = in.weight[s.bundles[i].group]
  <2>1. \A n \in DOMAIN r.bundles : r.bundles[n].primary_tokens = in.weight[r.bundles[n].group]
    BY PlanWeights
  <2>2. \A i \in 1 .. (N - 1) : s.bundles[i] = r.bundles[i] \/ s.bundles[i] = r.bundles[i + 1]
    BY <1>4
  <2> HIDE DEF N
  <2>3. ASSUME NEW i \in 1 .. (N - 1) PROVE s.bundles[i].primary_tokens = in.weight[s.bundles[i].group]
    <3>1. i \in DOMAIN r.bundles /\ i + 1 \in DOMAIN r.bundles
      BY <1>3, <1>5
    <3>2. /\ r.bundles[i].primary_tokens = in.weight[r.bundles[i].group]
          /\ r.bundles[i + 1].primary_tokens = in.weight[r.bundles[i + 1].group]
      BY <2>1, <3>1
    <3>3. CASE s.bundles[i] = r.bundles[i]
      BY <3>2, <3>3
    <3>4. CASE s.bundles[i] = r.bundles[i + 1]
      BY <3>2, <3>4
    <3> QED BY <2>2, <3>3, <3>4
  <2> QED BY <1>4, <2>3
<1>7. /\ WellFormed(in) /\ g \in SUBSET Primary /\ <<g, q>> \in Planned(in, r)
      /\ k \in BundlesOf(r, g, q) /\ AsReplayed(in, r, g, q)
  <2>1. g = r.bundles[k].group /\ q = r.bundles[k].question
    OBVIOUS
  <2> HIDE DEF g, q
  <2> QED BY <2>1, PlanBundleParts
<1>8. k \in Supported(r, g, q, x)
  BY <1>7 DEF Supported
<1>9. \A i : /\ i \in Supported(s, g, q, x) <=>
                  i \in 1 .. (N - 1) /\ s.bundles[i].group = g /\ s.bundles[i].question = q
                    /\ s.bundles[i].support = x
             /\ i \in Supported(r, g, q, x) <=>
                  i \in 1 .. N /\ r.bundles[i].group = g /\ r.bundles[i].question = q
                    /\ r.bundles[i].support = x
  BY <1>3, <1>4 DEF Supported, BundlesOf
<1>10. x \in {Got(in, g, q) \cup y : y \in Range(Binned(in, g, q))}
  <2>1. Stems(in, r.bundles[k], g, q)
    <3>1. g = r.bundles[k].group /\ q = r.bundles[k].question
      OBVIOUS
    <3> HIDE DEF g, q
    <3> QED BY <3>1, PlanBundleAt
  <2> HIDE DEF g, q
  <2>2. PICK j \in 1 .. Len(Binned(in, g, q)) : r.bundles[k] = Replay(in, g, q, j)
    BY <2>1 DEF Stems
  <2>3. x = Got(in, g, q) \cup Binned(in, g, q)[j]
    BY <2>2, ReplayShape
  <2>4. DOMAIN Binned(in, g, q) = 1 .. Len(Binned(in, g, q))
    BY <1>7, BinsHoldSmall
  <2> HIDE DEF x
  <2> QED BY <2>3, <2>4 DEF Range
<1> HIDE DEF N, g, q, x
<1>11. QuestionHolds(in, s, g, q)
  BY <1>2, <1>6, <1>7, AcceptedMeans
<1>12. Cardinality(Supported(s, g, q, x)) = Cardinality(Supporting(in, g, q, x))
  <2>1. PICK z \in Range(Binned(in, g, q)) : x = Got(in, g, q) \cup z
    BY <1>10
  <2> QED BY <1>7, <1>11, <2>1, QuestionCounts
<1>13. /\ IsFiniteSet(Supported(r, g, q, x))
       /\ Cardinality(Supported(r, g, q, x)) = Cardinality(Supporting(in, g, q, x))
  BY <1>7, PlanSupports
<1> DEFINE A == Supported(s, g, q, x)
           B == Supported(r, g, q, x) \ {k}
           f == [i \in A |-> IF i < k THEN i ELSE i + 1]
<1>14. f \in [A -> B] /\ \A i, j \in A : f[i] = f[j] => i = j
  <2>1. \A i \in A : i \in 1 .. (N - 1) /\ f[i] = IF i < k THEN i ELSE i + 1
    BY <1>9
  <2>2. ASSUME NEW i \in A PROVE f[i] \in B
    <3>1. i \in 1 .. (N - 1) /\ s.bundles[i].group = g /\ s.bundles[i].question = q
            /\ s.bundles[i].support = x
      BY <1>9
    <3>2. CASE i < k
      <4>1. i \in Supported(r, g, q, x) /\ i # k
        BY <1>3, <1>4, <1>5, <1>9, <3>1, <3>2
      <4> QED BY <2>1, <3>2, <4>1
    <3>3. CASE ~(i < k)
      <4>1. s.bundles[i] = r.bundles[i + 1] /\ i + 1 \in 1 .. N /\ i + 1 # k
        BY <1>3, <1>4, <1>5, <3>1, <3>3
      <4>3. i + 1 \in Supported(r, g, q, x)
        BY <1>9, <3>1, <4>1
      <4> QED BY <2>1, <3>3, <4>1, <4>3
    <3> QED BY <3>2, <3>3
  <2>3. \A i, j \in A : f[i] = f[j] => i = j
    BY <1>3, <2>1
  <2> QED BY <2>2, <2>3
<1>15. \A m \in B : \E i \in A : f[i] = m
  <2> TAKE m \in B
  <2>1. m \in 1 .. N /\ m # k /\ r.bundles[m].group = g /\ r.bundles[m].question = q
          /\ r.bundles[m].support = x
    BY <1>9
  <2>2. CASE m < k
    <3>1. m \in 1 .. (N - 1) /\ s.bundles[m] = r.bundles[m]
      BY <1>3, <1>4, <2>1, <2>2
    <3>2. m \in A
      BY <1>9, <2>1, <3>1
    <3> QED BY <2>2, <3>2
  <2>3. CASE ~(m < k)
    <3>1. m - 1 \in 1 .. (N - 1) /\ ~(m - 1 < k) /\ (m - 1) + 1 = m
      BY <1>3, <2>1, <2>3
    <3>2. s.bundles[m - 1] = r.bundles[m]
      BY <1>4, <3>1
    <3>3. m - 1 \in A
      BY <1>9, <2>1, <3>1, <3>2
    <3> QED BY <3>1, <3>3
  <2> QED BY <2>2, <2>3
<1>16. IsFiniteSet(A)
  <2>1. A \subseteq 1 .. (N - 1)
    BY <1>9
  <2>2. IsFiniteSet(1 .. (N - 1))
    BY <1>3, FS_Interval
  <2> QED BY <2>1, <2>2, FS_Subset
<1> HIDE DEF f
<1>17. Cardinality(B) = Cardinality(A)
  <2> HIDE DEF A, B
  <2> QED BY <1>14, <1>15, <1>16, SameSize
<1>18. Cardinality(B) = Cardinality(Supported(r, g, q, x)) - 1
  BY <1>8, <1>13, FS_RemoveElement
<1>19. Cardinality(Supported(r, g, q, x)) \in Nat
  BY <1>13, FS_CardinalityType
<1> QED BY <1>12, <1>13, <1>17, <1>18, <1>19

\* A bundle is released or held back against what the replay finds.
LEMMA ForcedRefused ==
  ASSUME NEW in, NEW r, IsPlan(in, r), NEW k \in DOMAIN r.bundles, NEW b, b = r.bundles[k],
         NEW s, s.groups = r.groups, DOMAIN s.bundles = DOMAIN r.bundles,
         \A n \in DOMAIN r.bundles : n # k => s.bundles[n] = r.bundles[n],
         NEW d, s.bundles[k] = d, d.insufficient = {}, d.dispatch_allowed = ~b.dispatch_allowed,
         d.group = b.group, d.question = b.question, d.primary_tokens = b.primary_tokens
  PROVE  ~Accepts(in, s)
<1> SUFFICES ASSUME Accepts(in, s) PROVE FALSE
  OBVIOUS
<1> DEFINE g == b.group
           q == b.question
<1>3. g = r.bundles[k].group /\ q = r.bundles[k].question /\ g = b.group /\ q = b.question
  OBVIOUS
<1> HIDE DEF g, q
<1>1. /\ WellFormed(in) /\ g \in SUBSET Primary /\ <<g, q>> \in Planned(in, r)
      /\ k \in BundlesOf(r, g, q) /\ AsReplayed(in, r, g, q)
  BY <1>3, PlanBundleParts
<1>2. PICK j \in 1 .. Len(Binned(in, g, q)) : b = Replay(in, g, q, j)
  BY <1>1 DEF AsReplayed
<1>4. b.dispatch_allowed = (Insufficient(in, g, Lost(in, g, q)) = {})
  BY <1>2, ReplayShape
<1>5. \A n \in DOMAIN s.bundles : s.bundles[n].primary_tokens = in.weight[s.bundles[n].group]
  <2>1. \A n \in DOMAIN r.bundles : r.bundles[n].primary_tokens = in.weight[r.bundles[n].group]
    BY PlanWeights
  <2>2. d.primary_tokens = in.weight[d.group]
    BY <2>1
  <2> QED BY <2>1, <2>2
<1>6. QuestionHolds(in, s, g, q) /\ BundleHolds(in, s, d)
  <2>1. QuestionHolds(in, s, g, q)
    BY <1>1, <1>5, AcceptedMeans
  <2>2. \A n \in DOMAIN s.bundles : BundleHolds(in, s, s.bundles[n])
    BY <1>5, AcceptedMeans
  <2> QED BY <2>1, <2>2
<1>7. k \in BundlesOf(s, g, q)
  BY <1>3 DEF BundlesOf
<1>8. d.insufficient = Insufficient(in, g, Lost(in, g, q))
  <2>1. s.bundles[k].insufficient = Insufficient(in, g, Lost(in, g, q))
    BY <1>1, <1>6, <1>7, QuestionFinds
  <2> QED BY <2>1
<1>9. d.dispatch_allowed <=> d.insufficient = {}
  BY <1>6 DEF BundleHolds
<1> QED BY <1>4, <1>8, <1>9

\* Two bundles with a common candidate belong to one question.
LEMMA PlanSupportHome ==
  ASSUME NEW in, NEW r, IsPlan(in, r), NEW k \in DOMAIN r.bundles, NEW c \in r.bundles[k].support,
         NEW g, NEW q, <<g, q>> \in Planned(in, r), c \in CandidatesOf(in, g, q)
  PROVE  k \in BundlesOf(r, g, q)
<1> DEFINE h == r.bundles[k].group
           p == r.bundles[k].question
<1>1. h = r.bundles[k].group /\ p = r.bundles[k].question
  OBVIOUS
<1> HIDE DEF h, p
<1>2. <<h, p>> \in Planned(in, r)
  BY <1>1, PlanBundleAt
<1>3. c \in CandidatesOf(in, h, p)
  <2>1. BundleHolds(in, r, r.bundles[k])
    BY PlanBundleHolds
  <2> QED BY <1>1, <2>1 DEF BundleHolds
<1>4. <<h, p>> = <<g, q>>
  <2>1. CandidatesOf(in, <<h, p>>[1], <<h, p>>[2]) \cap CandidatesOf(in, <<g, q>>[1], <<g, q>>[2]) # {}
    BY <1>3
  <2> QED BY <1>2, <2>1, PlanHomes
<1>5. h = g /\ p = q
  BY <1>4
<1> QED BY <1>1, <1>5 DEF BundlesOf

\* A small candidate is not required.
LEMMA SmallIsHelpful ==
  ASSUME NEW in, NEW g, NEW q, NEW c \in Small(in, g, q)
  PROVE  in.candidates[c].necessity # "required"
BY DEF Small, Wanted

\* A candidate is moved to another bundle: that is refused, unless it is where
\* it was.
LEMMA MovedRefused ==
  ASSUME NEW in, NEW r, IsPlan(in, r), NEW c \in r.segments, NEW k \in DOMAIN r.bundles,
         NEW s, s.groups = r.groups, s.bundles = MovedTo(in, r, c, k), Accepts(in, s)
  PROVE  s.bundles = r.bundles
<1> DEFINE g == r.bundles[k].group
           q == r.bundles[k].question
           G == Got(in, g, q)
           b == Binned(in, g, q)
           S(n) == IF n = k THEN r.bundles[n].support \cup {c} ELSE r.bundles[n].support \ {c}
<1>1. g = r.bundles[k].group /\ q = r.bundles[k].question
  OBVIOUS
<1> HIDE DEF g, q
<1>2. /\ WellFormed(in) /\ g \in SUBSET Primary /\ <<g, q>> \in Planned(in, r)
      /\ k \in BundlesOf(r, g, q) /\ AsReplayed(in, r, g, q)
  BY <1>1, PlanBundleParts
<1>3. ASSUME NEW n \in DOMAIN r.bundles
      PROVE  /\ s.bundles[n].support = S(n)
             /\ s.bundles[n].group = r.bundles[n].group /\ s.bundles[n].question = r.bundles[n].question
             /\ s.bundles[n].primary_tokens = in.weight[s.bundles[n].group]
             /\ S(n) = r.bundles[n].support => s.bundles[n] = r.bundles[n]
  <2>1. s.bundles[n] = Resupport(in, r.bundles[n], S(n))
    BY DEF MovedTo
  <2> HIDE DEF S
  <2> QED BY <2>1, PlanResupported
<1> SUFFICES /\ c \in r.bundles[k].support
             /\ \A n \in DOMAIN r.bundles : n # k => c \notin r.bundles[n].support
  <2>1. \A n \in DOMAIN r.bundles : S(n) = r.bundles[n].support
    OBVIOUS
  <2> HIDE DEF S
  <2>2. \A n \in DOMAIN r.bundles : s.bundles[n] = r.bundles[n]
    BY <1>3, <2>1
  <2>3. r.bundles = [n \in DOMAIN r.bundles |-> r.bundles[n]]
    BY DEF IsPlan
  <2>4. s.bundles = [n \in DOMAIN r.bundles |-> s.bundles[n]]
    BY DEF MovedTo
  <2> QED BY <2>2, <2>3, <2>4
<1>17. DOMAIN s.bundles = DOMAIN r.bundles
  BY DEF MovedTo
<1>4. \A n \in DOMAIN s.bundles : s.bundles[n].primary_tokens = in.weight[s.bundles[n].group]
  BY <1>3, <1>17
<1>5. QuestionHolds(in, s, g, q)
  BY <1>2, <1>4, AcceptedMeans
<1>6. c \in CandidatesOf(in, g, q)
  <2>1. BundleHolds(in, s, s.bundles[k])
    BY <1>4, <1>17, AcceptedMeans
  <2>2. c \in s.bundles[k].support /\ s.bundles[k].group = g /\ s.bundles[k].question = q
    BY <1>1, <1>3
  <2> QED BY <2>1, <2>2 DEF BundleHolds
<1>7. c \in G \cup Small(in, g, q)
  BY <1>2, <1>6 DEF AsReplayed
<1>8. BundlesOf(s, g, q) = BundlesOf(r, g, q)
  BY <1>3, <1>17 DEF BundlesOf
<1>9. /\ Len(b) \in Nat \ {0} /\ \A j \in 1 .. Len(b) : b[j] \subseteq Small(in, g, q)
      /\ G \cap Small(in, g, q) = {}
  BY <1>2, BinsHoldSmall
<1>10. /\ \A i, j \in 1 .. Len(b) : i # j => b[i] \cap b[j] = {}
       /\ Small(in, g, q) # {} => \A j \in 1 .. Len(b) : b[j] # {}
  <2>1. Packed(in, g, q, b, Small(in, g, q))
    BY <1>2, BinnedPacked
  <2> HIDE DEF b
  <2> QED BY <2>1 DEF Packed
<1>11. PICK n0 \in Nat : /\ BundlesOf(r, g, q) = {n0 + j : j \in 1 .. Len(b)}
                         /\ \A j \in 1 .. Len(b) : r.bundles[n0 + j] = Replay(in, g, q, j)
  BY <1>2 DEF AsReplayed
<1>12. IsFiniteSet(BundlesOf(s, g, q))
  <2> DEFINE J == 1 .. Len(b)
  <2>1. J \in SUBSET (1 .. Len(b)) /\ Len(b) \in Nat
    BY <1>9
  <2>2. IsFiniteSet({n0 + j : j \in J})
    <3> HIDE DEF J, b
    <3> QED BY <2>1, ShiftedSize
  <2> QED BY <1>8, <1>11, <2>2
<1>13. ASSUME NEW n \in BundlesOf(r, g, q)
       PROVE  /\ \E j \in 1 .. Len(b) : S(n) = G \cup b[j]
              /\ \E j \in 1 .. Len(b) : r.bundles[n].support = G \cup b[j]
  <2>1. n \in BundlesOf(s, g, q) /\ n \in DOMAIN r.bundles
    BY <1>8 DEF BundlesOf
  <2>2. s.bundles[n].support = S(n)
    BY <1>3, <2>1
  <2> HIDE DEF S
  <2>3. PICK j \in 1 .. Len(Binned(in, g, q)) :
          s.bundles[n].support = Got(in, g, q) \cup Binned(in, g, q)[j]
    <3>1. Supporting(in, g, q, s.bundles[n].support) # {}
      BY <1>2, <1>5, <1>12, <2>1, SupportIsReplayed
    <3> QED BY <3>1 DEF Supporting
  <2>4. \E i \in 1 .. Len(b) : r.bundles[n].support = G \cup b[i]
    <3>1. PICK i \in 1 .. Len(b) : r.bundles[n] = Replay(in, g, q, i)
      BY <1>11
    <3>2. r.bundles[n].support = G \cup b[i]
      BY <3>1, ReplayShape
    <3> QED BY <3>2
  <2> QED BY <2>2, <2>3, <2>4
<1>14. ASSUME NEW n \in DOMAIN r.bundles, c \in r.bundles[n].support PROVE n \in BundlesOf(r, g, q)
  BY <1>2, <1>6, <1>14, PlanSupportHome
<1> HIDE DEF G, b
<1>15. CASE c \in G
  <2>1. c \in r.bundles[k].support
    BY <1>2, <1>13, <1>15
  <2>2. ASSUME NEW n \in DOMAIN r.bundles, n # k, c \in r.bundles[n].support PROVE FALSE
    <3>1. S(n) = r.bundles[n].support \ {c} /\ n \in BundlesOf(r, g, q)
      BY <1>14, <2>2
    <3>2. PICK j \in 1 .. Len(b) : S(n) = G \cup b[j]
      BY <1>13, <3>1
    <3> QED BY <1>15, <3>1, <3>2
  <2> QED BY <2>1, <2>2
<1>16. CASE c \notin G
  <2>1. c \in Small(in, g, q)
    BY <1>7, <1>16
  <2>2. PICK j \in 1 .. Len(b) : r.bundles[k].support \cup {c} = G \cup b[j]
    BY <1>2, <1>13
  <2>3. PICK i \in 1 .. Len(b) : r.bundles[k].support = G \cup b[i]
    BY <1>2, <1>13
  <2>4. PICK d \in b[i] : d \in Small(in, g, q)
    BY <1>9, <1>10, <2>1
  <2>5. d \in b[j]
    BY <1>9, <2>2, <2>3, <2>4
  <2>6. i = j
    BY <1>10, <2>4, <2>5
  <2>7. c \in r.bundles[k].support
    BY <1>16, <2>2, <2>3, <2>6
  <2>8. in.candidates[c].necessity # "required"
    BY <2>1, SmallIsHelpful
  <2> DEFINE owners == {n \in DOMAIN r.bundles : c \in r.bundles[n].support}
  <2>9. \A m, n \in owners : m = n
    <3>1. owners = {n \in DOMAIN r.bundles : c \in r.bundles[n].support}
      OBVIOUS
    <3> HIDE DEF owners
    <3> QED BY <2>8, <3>1, PlanOwners
  <2> QED BY <2>7, <2>9
<1> QED BY <1>15, <1>16

\* A selected candidate is left out.
LEMMA DroppedCandidateRefused ==
  ASSUME NEW in, NEW r, IsPlan(in, r), NEW c \in r.segments,
         NEW s, s.groups = r.groups, s.bundles = LeftOut(in, r, c), c \notin s.segments
  PROVE  ~Accepts(in, s)
<1> SUFFICES ASSUME Accepts(in, s) PROVE FALSE
  OBVIOUS
<1>1. c \in DOMAIN in.candidates /\ WellFormed(in)
  BY DEF IsPlan
<1>2. PICK g \in r.groups : \E q \in Asked(in, g) :
        /\ <<g, q>> \in Planned(in, r) /\ c \in CandidatesOf(in, g, q)
        /\ c \in r.segments <=> c \in Got(in, g, q) \cup Small(in, g, q)
        /\ c \in OmittedIn(r) <=> c \notin r.segments
        /\ c \in OmittedIn(r) => ReasonIn(r, c) = {WhyLeftOut(in, g, q, c)}
  BY <1>1, PlanCandidate
<1>3. PICK q \in Asked(in, g) : /\ <<g, q>> \in Planned(in, r) /\ c \in CandidatesOf(in, g, q)
                                /\ c \in Got(in, g, q) \cup Small(in, g, q)
  BY <1>2
<1>4. ASSUME NEW n \in DOMAIN s.bundles PROVE s.bundles[n].primary_tokens = in.weight[s.bundles[n].group]
  <2>1. s.bundles[n] = Resupport(in, r.bundles[n], r.bundles[n].support \ {c}) /\ n \in DOMAIN r.bundles
    BY DEF LeftOut
  <2> QED BY <2>1, PlanResupported
<1>5. QuestionHolds(in, s, g, q)
  BY <1>3, <1>4, AcceptedMeans
<1>6. g \in SUBSET Primary
  BY PlanGroups
<1>7. s.segments \cap CandidatesOf(in, g, q) = Got(in, g, q) \cup Small(in, g, q)
  BY <1>1, <1>5, <1>6, QuestionSelects
<1> QED BY <1>3, <1>7

\* An omission has another reason.
LEMMA ReasonRefused ==
  ASSUME NEW in, NEW r, IsPlan(in, r), NEW k \in DOMAIN r.omissions,
         NEW s, s.groups = r.groups, s.bundles = r.bundles,
         NEW reason, ReasonGiven(s.omissions, r.omissions[k].candidate, reason), Accepts(in, s)
  PROVE  reason = r.omissions[k].reason
<1> DEFINE c == r.omissions[k].candidate
<1>1. /\ c \in OmittedIn(r) /\ r.omissions[k].reason \in ReasonIn(r, c) /\ reason \in ReasonIn(s, c)
  BY DEF OmittedIn, ReasonIn, ReasonGiven
<1>2. c \in DOMAIN in.candidates /\ WellFormed(in)
  BY <1>1 DEF IsPlan
<1> HIDE DEF c
<1>3. PICK g \in r.groups : \E q \in Asked(in, g) :
        /\ <<g, q>> \in Planned(in, r) /\ c \in CandidatesOf(in, g, q)
        /\ c \in r.segments <=> c \in Got(in, g, q) \cup Small(in, g, q)
        /\ c \in OmittedIn(r) <=> c \notin r.segments
        /\ c \in OmittedIn(r) => ReasonIn(r, c) = {WhyLeftOut(in, g, q, c)}
  BY <1>2, PlanCandidate
<1>4. PICK q \in Asked(in, g) : /\ <<g, q>> \in Planned(in, r) /\ c \in CandidatesOf(in, g, q)
                                /\ c \notin Got(in, g, q) \cup Small(in, g, q)
                                /\ ReasonIn(r, c) = {WhyLeftOut(in, g, q, c)}
  BY <1>1, <1>3
<1>5. \A n \in DOMAIN s.bundles : s.bundles[n].primary_tokens = in.weight[s.bundles[n].group]
  BY PlanWeights
<1>6. QuestionHolds(in, s, g, q)
  BY <1>4, <1>5, AcceptedMeans
<1>7. g \in SUBSET Primary
  BY PlanGroups
<1>8. ReasonIn(s, c) = {WhyLeftOut(in, g, q, c)}
  BY <1>2, <1>4, <1>6, <1>7, QuestionReasons
<1> QED BY <1>1, <1>4, <1>8

\* All of them are refused.
LEMMA AlteredRefused ==
  ASSUME NEW in, NEW r, IsPlan(in, r), NEW s \in Altered(in, r), Accepts(in, s)
  PROVE  s = r
<1>1. \E S : r.bundles \in Seq(S)
  BY DEF IsPlan
<1>2. r = [groups |-> r.groups, segments |-> r.segments, omissions |-> r.omissions,
           bundles |-> r.bundles]
  BY DEF IsPlan
<1>3. r.omissions \in Seq([candidate : DOMAIN in.candidates, reason : Reason])
  BY DEF IsPlan
<1>4. ASSUME NEW k \in DOMAIN r.bundles, s = Shortened(r, k)
      PROVE  s = r
  BY <1>4, DroppedRefused
<1>5. ASSUME NEW k \in DOMAIN r.bundles, s = Forced(r, k)
      PROVE  s = r
  <2> DEFINE b == r.bundles[k]
             d == Turned(b)
  <2>1. /\ s.groups = r.groups /\ DOMAIN s.bundles = DOMAIN r.bundles
        /\ \A n \in DOMAIN r.bundles : n # k => s.bundles[n] = r.bundles[n]
        /\ s.bundles[k] = d
    <3>1. s = [r EXCEPT !.bundles[k] = d]
      BY <1>5 DEF Forced
    <3> HIDE DEF d
    <3> QED BY <1>1, <1>2, <3>1
  <2>2. Stems(in, b, b.group, b.question)
    BY PlanBundleAt
  <2>3. PICK j \in 1 .. Len(Binned(in, b.group, b.question)) : b = Replay(in, b.group, b.question, j)
    BY <2>2 DEF Stems
  <2>4. b = Bundle(in, b.group, b.question, b.support, Weak(in, b.group, b.question),
                   Lost(in, b.group, b.question))
    BY <2>3, ReplayShape
  <2>5. /\ d.insufficient = {} /\ d.dispatch_allowed = ~b.dispatch_allowed
        /\ d.group = b.group /\ d.question = b.question /\ d.primary_tokens = b.primary_tokens
    BY <2>4 DEF Bundle, Turned
  <2>6. b = r.bundles[k]
    OBVIOUS
  <2> HIDE DEF b, d
  <2> QED BY <2>1, <2>5, <2>6, ForcedRefused
<1>6. ASSUME NEW c \in r.segments, NEW k \in DOMAIN r.bundles, s = Displaced(in, r, c, k)
      PROVE  s = r
  <2>1. s.groups = r.groups /\ s.bundles = MovedTo(in, r, c, k)
    BY <1>2, <1>6 DEF Displaced
  <2>2. MovedTo(in, r, c, k) = r.bundles
    BY <2>1, MovedRefused
  <2> QED BY <1>2, <1>6, <2>2 DEF Displaced
<1>7. ASSUME NEW c \in r.segments, NEW reason \in Reason, s = Less(in, r, c, reason)
      PROVE  s = r
  <2>1. s.groups = r.groups /\ s.bundles = LeftOut(in, r, c) /\ c \notin s.segments
    BY <1>2, <1>7 DEF Less
  <2> QED BY <2>1, DroppedCandidateRefused
<1>8. ASSUME NEW k \in DOMAIN r.omissions, NEW reason \in Reason, s = Reworded(r, k, reason)
      PROVE  s = r
  <2> DEFINE o == r.omissions[k]
             om == [r.omissions EXCEPT ![k] = [o EXCEPT !.reason = reason]]
  <2>1. s.groups = r.groups /\ s.bundles = r.bundles /\ s.omissions = om /\ s = [r EXCEPT !.omissions = om]
    BY <1>2, <1>8 DEF Reworded
  <2>2. o \in [candidate : DOMAIN in.candidates, reason : Reason]
    <3> DEFINE T == [candidate : DOMAIN in.candidates, reason : Reason]
    <3>1. r.omissions \in Seq(T)
      BY <1>3
    <3> HIDE DEF T
    <3>2. r.omissions[k] \in T
      BY <3>1
    <3> QED BY <3>2 DEF T
  <2>3. k \in DOMAIN om /\ om[k].candidate = o.candidate /\ om[k].reason = reason
    BY <2>2
  <2>4. reason = o.reason
    <3>1. ReasonGiven(s.omissions, r.omissions[k].candidate, reason)
      BY <2>1, <2>3 DEF ReasonGiven
    <3>2. s.groups = r.groups /\ s.bundles = r.bundles
      BY <2>1
    <3>3. reason = r.omissions[k].reason
      <4> HIDE DEF o, om
      <4> QED BY <3>1, <3>2, ReasonRefused
    <3> QED BY <3>3
  <2>5. [o EXCEPT !.reason = reason] = o
    BY <2>2, <2>4
  <2>6. om = r.omissions
    <3>1. r.omissions = [n \in DOMAIN r.omissions |-> r.omissions[n]]
      BY <1>3
    <3> QED BY <2>5, <3>1
  <2> QED BY <1>2, <2>1, <2>6
<1> QED BY <1>4, <1>5, <1>6, <1>7, <1>8 DEF Altered

\* The checks of a ContextPlanResult accept what plan() makes, and nothing that
\* differs from it in one thing, for any units, edges, candidates, sizes and limit.
THEOREM OnlyPlansPass == Spec => []OnlyThePlanIsAccepted
<1>1. GroupInv /\ LossInv /\ ReplayInv /\ UnionedFinite => OnlyThePlanIsAccepted
  <2> SUFFICES ASSUME GroupInv, LossInv, ReplayInv, UnionedFinite, phase = "done"
               PROVE  /\ Accepts(input, Result)
                      /\ \A r \in Altered(input, Result) : r # Result => ~Accepts(input, r)
    BY DEF OnlyThePlanIsAccepted
  <2>1. IsPlan(input, Result)
    BY FinishedIsPlan
  <2> QED BY <2>1, PlanAccepted, AlteredRefused
<1> QED
  BY <1>1, InitBegins, InitGroups, NextKeepsGroups, InitTyped, NextTyped, InitLoss, NextKeepsLoss,
     InitDispatch, NextKeepsDispatch, InitReplay, NextKeepsReplay, InitFinite, NextKeepsFinite,
     PTL DEF Spec

=============================================================================
