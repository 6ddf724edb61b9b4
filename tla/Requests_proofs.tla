---------------------------- MODULE Requests_proofs ----------------------------
(***************************************************************************)
(* What holds of the requests the process serves, for every value of their *)
(* constants: what model requests cost and the models that are selected,   *)
(* the queries of the package graph, the requests and commands of the API  *)
(* server, what the models are shown, and how tasks enter the database.    *)
(***************************************************************************)
EXTENDS
  RequestsInv, TLAPS, FiniteSetTheorems, WellFoundedInduction, SequenceTheorems

-----------------------------------------------------------------------------
(***************************************************************************)
(* INDUCTION AND SUMS.                                                     *)
(***************************************************************************)
(* Induction, for a set of numbers instead of a predicate. *)
LEMMA Induction ==
  ASSUME NEW A, 0 \in A, \A n \in Nat : n \in A => n + 1 \in A
  PROVE  Nat \subseteq A
<1> DEFINE R == OpToRel(<, Nat)
           T == {n \in Nat : n \notin A}
<1> SUFFICES ASSUME T # {} PROVE FALSE
  OBVIOUS
<1>1. IsWellFoundedOn(R, Nat) /\ \A x, y \in Nat : y < x => <<y, x>> \in R
  BY NatLessThanWellFounded, Zenon DEF OpToRel
<1> HIDE DEF R
<1>2. PICK n \in T : \A k \in T : ~(<<k, n>> \in R)
  BY <1>1, WFMin, Zenon
<1>3. n \in Nat /\ n # 0 /\ n - 1 \in Nat /\ n - 1 < n /\ n - 1 + 1 = n
  OBVIOUS
<1>4. n - 1 \notin T
  <2> HIDE DEF T
  <2>1. T \subseteq Nat
    BY DEF T
  <2> QED
    BY <1>1, <1>2, <1>3
<1> QED
  BY <1>3, <1>4

(* A finite set of numbers has a largest. *)
LEMMA LargestExists ==
  ASSUME NEW S \in SUBSET Nat, IsFiniteSet(S), S # {}
  PROVE  \E m \in S : \A x \in S : m >= x
<1> DEFINE Good(B) == B = {} \/ \E m \in B : \A x \in B : m >= x
           A == {n \in Nat : \A B \in SUBSET S : Cardinality(B) = n => Good(B)}
<1>1. 0 \in A
  <2> SUFFICES ASSUME NEW B \in SUBSET S, Cardinality(B) = 0 PROVE B = {}
    OBVIOUS
  <2> QED
    BY FS_Subset, FS_EmptySet
<1>2. ASSUME NEW n \in Nat, n \in A
      PROVE  n + 1 \in A
  <2> SUFFICES ASSUME NEW B \in SUBSET S, Cardinality(B) = n + 1
               PROVE  Good(B)
    OBVIOUS
  <2>1. PICK b \in B : TRUE
    <3> HIDE DEF A, Good
    <3>1. Cardinality({}) = 0 /\ n + 1 # 0
      BY FS_EmptySet
    <3> QED
      BY <3>1
  <2>2. IsFiniteSet(B) /\ Cardinality(B \ {b}) = Cardinality(B) - 1
    BY <2>1, FS_Subset, FS_RemoveElement
  <2>3. Good(B \ {b})
    BY <1>2, <2>2
  <2>4. CASE B = {b}
    BY <2>4
  <2>5. CASE B # {b}
    <3>1. PICK m \in B \ {b} : \A x \in B \ {b} : m >= x
      BY <2>1, <2>3, <2>5
    <3>2. m \in Nat /\ b \in Nat /\ B \subseteq Nat
      BY <2>1
    <3>3. CASE m >= b
      BY <3>1, <3>3
    <3>4. CASE b >= m
      <4>1. \A x \in B : b >= x
        BY <3>1, <3>2, <3>4
      <4> QED
        BY <2>1, <4>1
    <3> QED
      BY <3>2, <3>3, <3>4
  <2> QED
    BY <2>4, <2>5
<1>3. Nat \subseteq A
  <2> HIDE DEF A
  <2> QED
    BY <1>1, <1>2, Induction
<1> QED
  BY <1>3, FS_CardinalityType

(* The function a sum over a set is computed by, on some of its subsets. *)
Picked(s) == CHOOSE x \in s : TRUE
Adds(it, f, D) == it = [s \in D |-> IF s = {} THEN 0 ELSE f[Picked(s)] + it[s \ {Picked(s)}]]
Adding(f, S) == CHOOSE it : Adds(it, f, SUBSET S)

LEMMA SumUnfolds ==
  ASSUME NEW f, NEW S
  PROVE  SumFunctionOnSet(f, S) = Adding(f, S)[S]
BY DEF SumFunctionOnSet, FoldFunctionOnSet, MapThenFoldSet, Adding, Adds, Picked

LEMMA PickedIsIn ==
  ASSUME NEW s, s # {}
  PROVE  Picked(s) \in s
BY DEF Picked

(* There is such a function: one subset after the other, by their sizes. *)
LEMMA AddingExists ==
  ASSUME NEW f, NEW S, IsFiniteSet(S)
  PROVE  Adds(Adding(f, S), f, SUBSET S)
<1> DEFINE D(n) == {s \in SUBSET S : Cardinality(s) <= n}
           A == {n \in Nat : \E it : Adds(it, f, D(n))}
<1>1. 0 \in A
  <2>1. D(0) = {{}}
    BY FS_Subset, FS_EmptySet, FS_CardinalityType
  <2>2. Adds([s \in {{}} |-> 0], f, {{}})
    BY DEF Adds
  <2> QED
    BY <2>1, <2>2
<1>2. ASSUME NEW n \in Nat, n \in A
      PROVE  n + 1 \in A
  <2>1. PICK g : Adds(g, f, D(n))
    BY <1>2
  <2> DEFINE h == [s \in D(n + 1) |-> IF s = {} THEN 0 ELSE f[Picked(s)] + g[s \ {Picked(s)}]]
  <2>2. ASSUME NEW s \in D(n + 1), s # {}
        PROVE  s \ {Picked(s)} \in D(n)
    <3>1. Picked(s) \in s /\ IsFiniteSet(s) /\ Cardinality(s) \in Nat
      BY <2>2, PickedIsIn, FS_Subset, FS_CardinalityType
    <3>2. Cardinality(s \ {Picked(s)}) = Cardinality(s) - 1
      BY <3>1, FS_RemoveElement
    <3> QED
      BY <2>2, <3>1, <3>2
  <2>3. D(n) \subseteq D(n + 1)
    BY FS_Subset, FS_CardinalityType
  <2> HIDE DEF D
  <2>4. \A s \in D(n) : h[s] = g[s]
    BY <2>1, <2>3 DEF Adds
  <2>5. Adds(h, f, D(n + 1))
    BY <2>2, <2>4 DEF Adds
  <2> QED
    BY <2>5
<1>3. Nat \subseteq A
  <2> HIDE DEF A
  <2> QED
    BY <1>1, <1>2, Induction
<1>4. Cardinality(S) \in Nat /\ D(Cardinality(S)) = SUBSET S
  BY FS_Subset, FS_CardinalityType
<1>5. \E it : Adds(it, f, SUBSET S)
  <2> HIDE DEF D
  <2> QED
    BY <1>3, <1>4
<1> QED
  BY <1>5 DEF Adding

LEMMA SumOfParts ==
  ASSUME NEW f, NEW S, IsFiniteSet(S)
  PROVE  /\ Adding(f, S)[{}] = 0
         /\ \A s \in SUBSET S : s # {} =>
              /\ Picked(s) \in s
              /\ Adding(f, S)[s] = f[Picked(s)] + Adding(f, S)[s \ {Picked(s)}]
<1> DEFINE F == Adding(f, S)
<1>1. F = [s \in SUBSET S |->
             IF s = {} THEN 0 ELSE f[Picked(s)] + F[s \ {Picked(s)}]]
  <2>1. Adds(F, f, SUBSET S)
    BY AddingExists
  <2> HIDE DEF F
  <2> QED
    BY <2>1 DEF Adds
<1> HIDE DEF F
<1>2. F[{}] = 0
  BY <1>1
<1>3. \A s \in SUBSET S : s # {} => F[s] = f[Picked(s)] + F[s \ {Picked(s)}]
  BY <1>1
<1> QED
  BY <1>2, <1>3, PickedIsIn DEF F

(* Sums of numbers are numbers; one summand more or less changes the sum by *)
(* as much.                                                                 *)
LEMMA SumChanges ==
  ASSUME NEW S, IsFiniteSet(S), NEW f, NEW g, NEW a \in S,
         \A x \in S : f[x] \in Int /\ g[x] \in Int, \A x \in S \ {a} : g[x] = f[x]
  PROVE  /\ SumFunctionOnSet(f, S) \in Int /\ SumFunctionOnSet(g, S) \in Int
         /\ SumFunctionOnSet(g, S) = SumFunctionOnSet(f, S) - f[a] + g[a]
<1> DEFINE F == Adding(f, S)
           G == Adding(g, S)
           Good(s) == /\ F[s] \in Int /\ G[s] \in Int
                      /\ G[s] = IF a \in s THEN F[s] - f[a] + g[a] ELSE F[s]
           A == {n \in Nat : \A s \in SUBSET S : Cardinality(s) = n => Good(s)}
<1> HIDE DEF F, G
<1>1. 0 \in A
  <2>1. F[{}] = 0 /\ G[{}] = 0
    BY SumOfParts DEF F, G
  <2>2. ASSUME NEW s \in SUBSET S, Cardinality(s) = 0
        PROVE  s = {}
    BY <2>2, FS_Subset, FS_EmptySet
  <2> QED
    BY <2>1, <2>2
<1>2. ASSUME NEW n \in Nat, n \in A
      PROVE  n + 1 \in A
  <2> SUFFICES ASSUME NEW s \in SUBSET S, Cardinality(s) = n + 1
               PROVE  Good(s)
    BY <1>2
  <2> DEFINE x == Picked(s)
             r == s \ {x}
  <2>1. IsFiniteSet(s) /\ s # {}
    BY FS_Subset, FS_EmptySet
  <2>2. x \in s /\ F[s] = f[x] + F[r] /\ G[s] = g[x] + G[r]
    <3>1. F[s] = f[x] + F[r]
      BY <2>1, SumOfParts DEF F
    <3>2. G[s] = g[x] + G[r]
      BY <2>1, SumOfParts DEF G
    <3>3. x \in s
      BY <2>1, PickedIsIn
    <3> QED
      BY <3>1, <3>2, <3>3
  <2> HIDE DEF x
  <2>3. Cardinality(r) = n /\ r \in SUBSET S
    <3>1. Cardinality(s \ {x}) = Cardinality(s) - 1
      BY <2>1, <2>2, FS_RemoveElement
    <3> QED
      BY <3>1
  <2>4. Good(r)
    BY <1>2, <2>3
  <2>5. f[x] \in Int /\ g[x] \in Int /\ f[a] \in Int /\ g[a] \in Int
    BY <2>2
  <2>6. CASE x = a
    BY <2>2, <2>4, <2>5, <2>6
  <2>7. CASE x # a
    <3>1. g[x] = f[x] /\ (a \in s <=> a \in r)
      BY <2>2, <2>7
    <3> QED
      BY <2>2, <2>4, <2>5, <3>1
  <2> QED
    BY <2>6, <2>7
<1>3. Nat \subseteq A
  <2> HIDE DEF A
  <2> QED
    BY <1>1, <1>2, Induction
<1>4. Good(S)
  BY <1>3, FS_CardinalityType
<1> QED
  BY <1>4, SumUnfolds DEF F, G

LEMMA SumOfNothing ==
  ASSUME NEW S, IsFiniteSet(S), NEW f, \A x \in S : f[x] = 0
  PROVE  SumFunctionOnSet(f, S) = 0
<1> DEFINE F == Adding(f, S)
           A == {n \in Nat : \A s \in SUBSET S : Cardinality(s) = n => F[s] = 0}
<1> HIDE DEF F
<1>1. 0 \in A
  <2>1. F[{}] = 0
    BY SumOfParts DEF F
  <2>2. ASSUME NEW s \in SUBSET S, Cardinality(s) = 0
        PROVE  s = {}
    BY <2>2, FS_Subset, FS_EmptySet
  <2> QED
    BY <2>1, <2>2
<1>2. ASSUME NEW n \in Nat, n \in A
      PROVE  n + 1 \in A
  <2> SUFFICES ASSUME NEW s \in SUBSET S, Cardinality(s) = n + 1
               PROVE  F[s] = 0
    BY <1>2
  <2> DEFINE x == Picked(s)
             r == s \ {x}
  <2>1. IsFiniteSet(s) /\ s # {}
    BY FS_Subset, FS_EmptySet
  <2>2. x \in s /\ F[s] = f[x] + F[r]
    BY <2>1, SumOfParts DEF F
  <2> HIDE DEF x
  <2>3. Cardinality(r) = n /\ r \in SUBSET S
    <3>1. Cardinality(s \ {x}) = Cardinality(s) - 1
      BY <2>1, <2>2, FS_RemoveElement
    <3> QED
      BY <3>1
  <2>4. F[r] = 0 /\ f[x] = 0
    BY <1>2, <2>2, <2>3
  <2> QED
    BY <2>2, <2>4
<1>3. Nat \subseteq A
  <2> HIDE DEF A
  <2> QED
    BY <1>1, <1>2, Induction
<1> QED
  BY <1>3, FS_CardinalityType, SumUnfolds DEF F

-----------------------------------------------------------------------------
(***************************************************************************)
(* LOOPS.  A recursive function is what each of its steps computes: that  *)
(* the function exists is what a proof about it begins with.               *)
(***************************************************************************)
(* Induction over sequences. *)
LEMMA InductionOnSeq ==
  ASSUME NEW S, NEW A, <<>> \in A, \A s \in Seq(S), e \in S : s \in A => Append(s, e) \in A
  PROVE  Seq(S) \subseteq A
<1> DEFINE B == {n \in Nat : \A s \in Seq(S) : Len(s) = n => s \in A}
<1>1. 0 \in B
  BY EmptySeq
<1>2. ASSUME NEW n \in Nat, n \in B
      PROVE  n + 1 \in B
  <2> SUFFICES ASSUME NEW s \in Seq(S), Len(s) = n + 1
               PROVE  s \in A
    OBVIOUS
  <2>1. s # <<>>
    OBVIOUS
  <2>2. PICK t \in Seq(S), e \in S : s = Append(t, e)
    BY <2>1, SequenceEmptyOrAppend
  <2>3. Len(t) = n
    BY <2>2, AppendProperties, LenProperties
  <2> QED
    BY <1>2, <2>2, <2>3
<1>3. Nat \subseteq B
  <2> HIDE DEF B
  <2> QED
    BY <1>1, <1>2, Induction
<1> QED
  BY <1>3

(* What a step computes from a number and the value before it can be        *)
(* computed again and again: the value after each number of steps exists.   *)
Computable(D, step, a) ==
  \E f \in [Nat -> D] : f[0] = a /\ \A n \in Nat : f[n + 1] = step[n][f[n]]

LEMMA Recursion ==
  ASSUME NEW D, NEW step \in [Nat -> [D -> D]], NEW a \in D
  PROVE  Computable(D, step, a)
<1> DEFINE Good(n) == {f \in [0..n -> D] : f[0] = a /\ \A i \in 0..(n - 1) : f[i + 1] = step[i][f[i]]}
           A == {n \in Nat : \E f \in Good(n) : TRUE}
           B == {i \in Nat : \A n, m \in Nat : i <= n /\ i <= m =>
                   \A f \in Good(n), g \in Good(m) : f[i] = g[i]}
<1>0. \A n \in Nat, d \in D : step[n][d] \in D
  OBVIOUS
<1>1. Nat \subseteq A
  <2>1. 0 \in A
    <3>1. [i \in 0..0 |-> a] \in Good(0)
      OBVIOUS
    <3> QED
      BY <3>1
  <2>2. ASSUME NEW n \in Nat, n \in A
        PROVE  n + 1 \in A
    <3>1. PICK f \in Good(n) : TRUE
      BY <2>2
    <3> DEFINE g == [i \in 0..(n + 1) |-> IF i <= n THEN f[i] ELSE step[n][f[n]]]
    <3>2. f \in [0..n -> D] /\ f[0] = a /\ \A i \in 0..(n - 1) : f[i + 1] = step[i][f[i]]
      BY <3>1
    <3>3. g \in [0..(n + 1) -> D] /\ g[0] = a
      BY <1>0, <3>2
    <3>4. ASSUME NEW i \in 0..n
          PROVE  g[i + 1] = step[i][g[i]]
      BY <3>2
    <3>5. n + 1 - 1 = n
      OBVIOUS
    <3>6. g \in Good(n + 1)
      <4> HIDE DEF g
      <4> QED
        BY <3>3, <3>4, <3>5
    <3> HIDE DEF Good, g
    <3> QED
      BY <3>6
  <2> HIDE DEF A
  <2> QED
    BY <2>1, <2>2, Induction
<1>2. Nat \subseteq B
  <2>1. 0 \in B
    OBVIOUS
  <2>2. ASSUME NEW i \in Nat, i \in B
        PROVE  i + 1 \in B
    <3> SUFFICES ASSUME NEW n \in Nat, NEW m \in Nat, i + 1 <= n, i + 1 <= m,
                        NEW f \in Good(n), NEW g \in Good(m)
                 PROVE  f[i + 1] = g[i + 1]
      <4> HIDE DEF Good
      <4> QED
        OBVIOUS
    <3>1. f[i] = g[i]
      <4>1. i <= n /\ i <= m
        OBVIOUS
      <4> HIDE DEF Good
      <4> QED
        BY <2>2, <4>1
    <3>2. i \in 0..(n - 1) /\ i \in 0..(m - 1)
      OBVIOUS
    <3> QED
      BY <3>1, <3>2
  <2> HIDE DEF B
  <2> QED
    BY <2>1, <2>2, Induction
<1> DEFINE H == [n \in Nat |-> CHOOSE f \in Good(n) : TRUE]
           F == [n \in Nat |-> H[n][n]]
<1>3. ASSUME NEW n \in Nat
      PROVE  H[n] \in Good(n)
  BY <1>1
<1> HIDE DEF H, A
<1>4. F \in [Nat -> D]
  BY <1>3
<1>5. F[0] = a
  BY <1>3
<1>6. ASSUME NEW n \in Nat
      PROVE  F[n + 1] = step[n][F[n]]
  <2>1. H[n] \in Good(n) /\ H[n + 1] \in Good(n + 1) /\ n + 1 \in Nat
    BY <1>3
  <2>2. n \in B /\ n <= n /\ n <= n + 1
    <3> HIDE DEF B
    <3> QED
      BY <1>2
  <2>3. H[n][n] = H[n + 1][n]
    <3> HIDE DEF Good
    <3> QED
      BY <2>1, <2>2
  <2>4. n \in 0..(n + 1 - 1)
    OBVIOUS
  <2>5. H[n + 1][n + 1] = step[n][H[n + 1][n]]
    BY <2>1, <2>4
  <2> QED
    BY <2>3, <2>5
<1> QED
  <2> HIDE DEF F
  <2> QED
    BY <1>4, <1>5, <1>6 DEF Computable

(* So are the values of a loop over 1..N. *)
Loops(D, N, step, a) ==
  \E f \in [0..N -> D] :
    f = [i \in 0..N |-> IF i = 0 THEN a ELSE step[i][f[i - 1]]]

LEMMA Loop ==
  ASSUME NEW D, NEW N \in Nat, NEW step \in [1..N -> [D -> D]], NEW a \in D
  PROVE  Loops(D, N, step, a)
<1> DEFINE next == [n \in Nat |-> [d \in D |-> IF n + 1 <= N THEN step[n + 1][d] ELSE d]]
<1>1. next \in [Nat -> [D -> D]]
  <2>1. \A n \in Nat, d \in D : n + 1 <= N => step[n + 1][d] \in D
    OBVIOUS
  <2> QED
    BY <2>1
<1>2. Computable(D, next, a)
  <2> HIDE DEF next
  <2> QED
    BY <1>1, Recursion
<1>3. PICK g \in [Nat -> D] : g[0] = a /\ \A n \in Nat : g[n + 1] = next[n][g[n]]
  BY <1>2 DEF Computable
<1> DEFINE f == [i \in 0..N |-> g[i]]
<1>4. ASSUME NEW i \in 1..N
      PROVE  f[i] = step[i][f[i - 1]]
  <2>1. i - 1 \in Nat /\ i - 1 + 1 = i /\ i - 1 \in 0..N /\ i \in 0..N
    OBVIOUS
  <2>2. g[i] = next[i - 1][g[i - 1]] /\ g[i - 1] \in D
    BY <1>3, <2>1
  <2>3. next[i - 1][g[i - 1]] = step[i][g[i - 1]]
    BY <2>1, <2>2
  <2> QED
    BY <2>1, <2>2, <2>3
<1>5. f \in [0..N -> D] /\ f[0] = a
  BY <1>3
<1>6. f = [i \in 0..N |-> IF i = 0 THEN a ELSE step[i][f[i - 1]]]
  <2>1. \A i \in 0..N : i = 0 \/ i \in 1..N
    OBVIOUS
  <2> HIDE DEF f
  <2>2. f = [i \in 0..N |-> f[i]]
    BY <1>5
  <2> QED
    BY <1>4, <1>5, <2>1, <2>2
<1> QED
  <2> HIDE DEF f
  <2> QED
    BY <1>5, <1>6 DEF Loops

(* Two loops that start and go on alike compute the same. *)
Alike(N, f, g) == f[0] = g[0] /\ \A i \in 1..N : f[i - 1] = g[i - 1] => f[i] = g[i]

LEMMA SameLoop ==
  ASSUME NEW N \in Nat, NEW f, NEW g, Alike(N, f, g)
  PROVE  \A i \in 0..N : f[i] = g[i]
<1> USE DEF Alike
<1> DEFINE A == {i \in Nat : i <= N => f[i] = g[i]}
<1>1. 0 \in A
  OBVIOUS
<1>2. ASSUME NEW i \in Nat, i \in A
      PROVE  i + 1 \in A
  <2>1. i + 1 <= N => i + 1 \in 1..N /\ i + 1 - 1 = i /\ i <= N
    OBVIOUS
  <2> QED
    BY <1>2, <2>1
<1>3. Nat \subseteq A
  <2> HIDE DEF A
  <2> QED
    BY <1>1, <1>2, Induction
<1> QED
  BY <1>3

-----------------------------------------------------------------------------
(***************************************************************************)
(* THE INFERENCE BROKER.                                                   *)
(***************************************************************************)

(***************************************************************************)
(* Prices and shares.                                                      *)
(***************************************************************************)
LEMMA DearestPrice ==
  Dearest \in Nat /\ \A m \in Affordable : Price[m] \in Nat /\ Price[m] <= Dearest
<1> DEFINE S == {Price[m] : m \in Affordable}
<1>1. IsFiniteSet(Affordable) /\ Affordable # {} /\ Affordable \subseteq Models
  BY BrokerAssumption, FS_Subset DEF Affordable
<1>2. IsFiniteSet(S) /\ S # {} /\ S \in SUBSET Nat
  <2>1. IsFiniteSet(S)
    <3> DEFINE f == [m \in Affordable |-> Price[m]]
    <3>1. f \in Surjection(Affordable, S)
      BY DEF Surjection
    <3> QED
      BY <1>1, <3>1, FS_Surjection
  <2> QED
    BY <1>1, <2>1, BrokerAssumption
<1>3. \E m \in S : \A x \in S : m >= x
  BY <1>2, LargestExists
<1>4. Dearest \in S /\ \A x \in S : Dearest >= x
  BY <1>3 DEF Dearest, Max
<1> QED
  BY <1>2, <1>4

LEMMA Shares ==
  /\ Share \in Nat /\ Cardinality(Tasks) \in Nat \ {0} /\ Bound \in Nat
  /\ Bound = MaxUSD + Dearest * Prompt + (Cardinality(Tasks) - 1) * Share
<1> DEFINE n == Cardinality(Tasks) - 1
           d == Dearest
<1>1. Cardinality(Tasks) = n + 1 /\ n \in Nat
  <2>1. Cardinality(Tasks) \in Nat /\ Cardinality(Tasks) # 0
    BY BrokerAssumption, FS_CardinalityType, FS_EmptySet
  <2> QED
    BY <2>1
<1>2. d \in Nat /\ TokenCap \in Nat /\ Prompt \in Nat /\ MaxUSD \in Nat
  BY DearestPrice, BrokerAssumption
<1> HIDE DEF n, d
<1>3. \A x, y, k, p, c \in Nat : x * (k * c + (k + 1) * p) = x * p + k * (x * (p + c))
  OBVIOUS
<1>4. Share = d * (Prompt + TokenCap) /\ Bound = MaxUSD + d * (n * TokenCap + (n + 1) * Prompt)
  BY <1>1, <1>2 DEF Share, Bound, d
<1>5. d * (n * TokenCap + (n + 1) * Prompt) = d * Prompt + n * (d * (Prompt + TokenCap))
  BY <1>1, <1>2, <1>3
<1>6. \A x, y \in Nat : x * y \in Nat
  OBVIOUS
<1>7. Share \in Nat /\ d * Prompt \in Nat /\ n * Share \in Nat
  BY <1>1, <1>2, <1>4, <1>6
<1> QED
  BY <1>1, <1>2, <1>4, <1>5, <1>7 DEF d, n

LEMMA Times ==
  \A x, y, z \in Nat : /\ x * y \in Nat /\ x * y = y * x
                       /\ x <= y => x * z <= y * z
                       /\ (x + 1) * z = x * z + z
OBVIOUS

-----------------------------------------------------------------------------
(***************************************************************************)
(* What the requests under way owe.                                        *)
(***************************************************************************)
LEMMA DueTyped ==
  ASSUME NEW c \in ModelRequest
  PROVE  Due(c) \in Nat
<1>1. CASE c.step \in {"allow", "complete"}
  <2>1. c.model \in Affordable /\ c.tokens \in Nat
    BY <1>1, BrokerAssumption DEF ModelRequest, NoCall
  <2>2. Prompt + c.tokens \in Nat /\ Price[c.model] \in Nat
    BY <2>1, BrokerAssumption, DearestPrice
  <2> QED
    BY <1>1, <2>2, Times DEF Due
<1>2. CASE c.step \notin {"allow", "complete"}
  BY <1>2 DEF Due, ModelRequest, NoCall
<1> QED
  BY <1>1, <1>2

LEMMA SomeTasks ==
  ASSUME NEW S \in SUBSET Tasks
  PROVE  /\ IsFiniteSet(S) /\ Cardinality(S) \in Nat /\ Cardinality(S) <= Cardinality(Tasks)
         /\ \A t \in S : Cardinality(S \ {t}) = Cardinality(S) - 1 /\ Cardinality(S) >= 1
<1>1. IsFiniteSet(S) /\ Cardinality(S) <= Cardinality(Tasks)
  BY BrokerAssumption, FS_Subset
<1>2. Cardinality(S) \in Nat
  BY <1>1, FS_CardinalityType
<1>3. ASSUME NEW t \in S
      PROVE  Cardinality(S \ {t}) = Cardinality(S) - 1 /\ Cardinality(S) >= 1
  <2>1. Cardinality(S \ {t}) = Cardinality(S) - 1
    BY <1>1, FS_RemoveElement
  <2>2. Cardinality(S) # 0
    BY <1>1, <1>3, FS_EmptySet
  <2> QED
    BY <1>2, <2>1, <2>2
<1> QED
  BY <1>1, <1>2, <1>3

Room == RoomForAll \/ RoomForLast

(* Nothing is paid and nobody owes more than before. *)
LEMMA RoomKept ==
  ASSUME BrokerTyped, BrokerTyped', Room, UNCHANGED spent,
         \A t \in Tasks : Owes(t)' <= Owes(t)
  PROVE  Room'
<1> DEFINE n == Cardinality(Owing)
           k == Cardinality(Owing')
<1>1. \A t \in Tasks : Owes(t) \in Nat /\ Owes(t)' \in Nat
  BY DueTyped DEF Owes, BrokerTyped
<1>2. Owing' \subseteq Owing /\ Owing \subseteq Tasks
  BY <1>1 DEF Owing
<1>3. n \in Nat /\ k \in Nat /\ k <= n
  BY <1>2, SomeTasks, FS_Subset
<1>4. Share \in Nat /\ Bound \in Nat /\ spent \in Nat
  BY Shares DEF BrokerTyped
<1>5. k * Share <= n * Share /\ k * Share \in Nat /\ n * Share \in Nat
  BY <1>3, <1>4, Times
<1>6. CASE RoomForAll
  <2>1. spent + k * Share <= Bound
    <3> HIDE DEF n, k
    <3> QED
      BY <1>4, <1>5, <1>6 DEF RoomForAll, n
  <2> QED
    BY <2>1 DEF Room, RoomForAll
<1>7. ASSUME NEW t \in Owing, spent + Owes(t) + (n - 1) * Share <= Bound
      PROVE  Room'
  <2>1. n >= 1 /\ t \in Tasks
    BY <1>2, SomeTasks
  <2>2. CASE t \in Owing'
    <3>1. k >= 1
      BY <1>2, <2>2, SomeTasks
    <3>2. k - 1 \in Nat /\ n - 1 \in Nat /\ k - 1 <= n - 1
      BY <1>3, <2>1, <3>1
    <3>3. (k - 1) * Share <= (n - 1) * Share /\ (k - 1) * Share \in Nat /\ (n - 1) * Share \in Nat
      BY <1>4, <3>2, Times
    <3> HIDE DEF n, k
    <3>4. spent + Owes(t)' + (k - 1) * Share <= Bound
      BY <1>1, <1>4, <1>7, <2>1, <3>3
    <3> QED
      BY <2>2, <3>4 DEF Room, RoomForLast, k
  <2>3. CASE t \notin Owing'
    <3>1. Owing' \subseteq Owing \ {t} /\ IsFiniteSet(Owing \ {t}) /\ Cardinality(Owing \ {t}) = n - 1
      BY <1>2, <2>3, SomeTasks
    <3>2. k <= n - 1 /\ n - 1 \in Nat
      BY <1>3, <2>1, <3>1, FS_Subset
    <3>3. k * Share <= (n - 1) * Share /\ k * Share \in Nat /\ (n - 1) * Share \in Nat
      BY <1>3, <1>4, <3>2, Times
    <3> HIDE DEF n, k
    <3>4. spent + k * Share <= Bound
      BY <1>1, <1>4, <1>7, <2>1, <3>3
    <3> QED
      BY <3>4 DEF Room, RoomForAll, k
  <2> QED
    BY <2>2, <2>3
<1> QED
  BY <1>6, <1>7 DEF Room, RoomForLast

(* One request pays what it owes. *)
LEMMA RoomPaid ==
  ASSUME BrokerTyped, Room, \A u \in Tasks : Owes(u) <= Share, NEW t \in Tasks,
         spent' = spent + Owes(t), Owes(t)' = 0, \A u \in Tasks \ {t} : Owes(u)' = Owes(u)
  PROVE  Room'
<1> DEFINE n == Cardinality(Owing)
           k == Cardinality(Owing')
<1>1. \A u \in Tasks : Owes(u) \in Nat
  BY DueTyped DEF Owes, BrokerTyped
<1>2. Owing' = Owing \ {t} /\ Owing \subseteq Tasks
  BY DEF Owing
<1>3. n \in Nat /\ Share \in Nat /\ Bound \in Nat /\ spent \in Nat
  BY <1>2, SomeTasks, Shares DEF BrokerTyped
<1>4. CASE t \notin Owing
  <2>1. Owing' = Owing /\ Owes(t) = 0 /\ spent' = spent
    BY <1>2, <1>3, <1>4 DEF Owing
  <2>2. \A u \in Owing : Owes(u)' = Owes(u)
    BY <1>2, <1>4
  <2> QED
    BY <2>1, <2>2 DEF Room, RoomForAll, RoomForLast
<1>5. CASE t \in Owing
  <2>1. k = n - 1 /\ n >= 1 /\ Owes(t) <= Share /\ Owes(t) \in Nat
    BY <1>1, <1>2, <1>5, SomeTasks
  <2>2. k \in Nat /\ k * Share \in Nat /\ n * Share = k * Share + Share
    <3> HIDE DEF n, k
    <3>1. k \in Nat /\ n = k + 1
      BY <1>3, <2>1
    <3> QED
      BY <1>3, <3>1, Times
  <2>3. CASE RoomForAll \/ spent + Owes(t) + (n - 1) * Share <= Bound
    <3>1. RoomForAll => spent + n * Share <= Bound
      BY DEF RoomForAll
    <3> HIDE DEF n, k
    <3>2. spent' + k * Share <= Bound
      BY <1>3, <2>1, <2>2, <2>3, <3>1
    <3> QED
      BY <3>2 DEF Room, RoomForAll, k
  <2>4. ASSUME NEW u \in Owing \ {t}, spent + Owes(u) + (n - 1) * Share <= Bound
        PROVE  Room'
    <3>1. u \in Tasks /\ Owes(u)' = Owes(u) /\ Owes(u) \in Nat /\ u \in Owing'
      BY <1>1, <1>2, <2>4
    <3>2. k >= 1
      BY <1>2, <3>1, SomeTasks
    <3>3. (k - 1) * Share \in Nat /\ k * Share = (k - 1) * Share + Share
      <4> HIDE DEF n, k
      <4>1. k - 1 \in Nat /\ k = (k - 1) + 1
        BY <2>2, <3>2
      <4> QED
        BY <1>3, <4>1, Times
    <3> HIDE DEF n, k
    <3>4. spent' + Owes(u)' + (k - 1) * Share <= Bound
      BY <1>3, <2>1, <2>2, <2>4, <3>1, <3>3
    <3> QED
      BY <3>1, <3>4 DEF Room, RoomForLast, k
  <2> QED
    BY <2>3, <2>4 DEF Room, RoomForLast
<1> QED
  BY <1>4, <1>5

(* A request is admitted: what is left covers the tokens it may use. *)
LEMMA RoomAdmitted ==
  ASSUME BrokerTyped, BrokerTyped', UNCHANGED spent, NEW t \in Tasks,
         NEW price \in Nat, price <= Dearest, NEW tokens \in Nat,
         tokens * price <= MaxUSD - spent, Owes(t)' = (Prompt + tokens) * price, Owes(t)' # 0
  PROVE  Room'
<1> DEFINE n == Cardinality(Tasks)
           k == Cardinality(Owing')
<1>1. t \in Owing' /\ Owing' \subseteq Tasks
  BY DEF Owing
<1>2. /\ Share \in Nat /\ Bound \in Nat /\ spent \in Nat /\ MaxUSD \in Nat /\ Prompt \in Nat
      /\ Dearest \in Nat /\ n \in Nat \ {0} /\ Bound = MaxUSD + Dearest * Prompt + (n - 1) * Share
  BY Shares, DearestPrice, BrokerAssumption DEF BrokerTyped
<1>3. k \in Nat /\ k >= 1 /\ k <= n
  BY <1>1, SomeTasks
<1>4. (k - 1) * Share <= (n - 1) * Share /\ (k - 1) * Share \in Nat /\ (n - 1) * Share \in Nat
  <2> HIDE DEF n, k
  <2>1. k - 1 \in Nat /\ n - 1 \in Nat /\ k - 1 <= n - 1
    BY <1>2, <1>3
  <2> QED
    BY <1>2, <2>1, Times
<1>5. price * Prompt <= Dearest * Prompt /\ price * Prompt \in Nat /\ Dearest * Prompt \in Nat
  BY <1>2, Times
<1>6. (Prompt + tokens) * price = price * Prompt + tokens * price /\ tokens * price \in Nat
  <2>1. \A x, y, z \in Nat : (x + y) * z = z * x + y * z
    OBVIOUS
  <2> QED
    BY <1>2, <2>1, Times
<1>7. spent' + Owes(t)' + (k - 1) * Share <= Bound
  <2> HIDE DEF n, k
  <2> QED
    BY <1>2, <1>4, <1>5, <1>6
<1> QED
  BY <1>1, <1>7 DEF Room, RoomForLast

-----------------------------------------------------------------------------
(***************************************************************************)
(* The steps.                                                              *)
(***************************************************************************)
LEMMA RequestMade ==
  ASSUME BrokerTyped, NEW t \in Tasks, NEW c \in ModelRequest,
         inflight' = [inflight EXCEPT ![t] = c]
  PROVE  /\ inflight' \in [Tasks -> ModelRequest] /\ Owes(t)' = Due(c) /\ inflight'[t] = c
         /\ \A u \in Tasks \ {t} : Owes(u)' = Owes(u) /\ inflight'[u] = inflight[u]
BY DEF BrokerTyped, Owes

LEMMA NoneDue ==
  /\ NoCall \in ModelRequest /\ Due(NoCall) = 0
  /\ \A c : c.step \in {"log", "idle"} => Due(c) = 0
BY DEF ModelRequest, NoCall, Due

(* Nobody owes more than a share: the part of OwesShare for one request. *)
Shared(c) ==
  /\ Due(c) <= Share
  /\ c.step \in {"allow", "complete"} /\ c.tokens = 0 => Price[c.model] = 0

LEMMA SharedIdle == Shared(NoCall)
<1>1. Share \in Nat /\ Due(NoCall) = 0
  BY Shares, NoneDue
<1> QED
  BY <1>1 DEF Shared, NoCall

(* A step in which the request of t becomes c and owes no more, unpaid. *)
LEMMA GoesOn ==
  ASSUME BrokerTyped, BrokerTyped', OwesShare, Room, UNCHANGED spent,
         NEW t \in Tasks, NEW c \in ModelRequest, inflight' = [inflight EXCEPT ![t] = c],
         Due(c) <= Owes(t), Shared(c)
  PROVE  OwesShare' /\ Room'
<1>1. /\ Owes(t)' = Due(c) /\ inflight'[t] = c
      /\ \A u \in Tasks \ {t} : Owes(u)' = Owes(u) /\ inflight'[u] = inflight[u]
  BY RequestMade
<1>2. \A u \in Tasks : Owes(u) \in Nat
  BY DueTyped DEF Owes, BrokerTyped
<1>3. \A u \in Tasks : Owes(u)' <= Owes(u)
  BY <1>1, <1>2
<1>4. OwesShare'
  BY <1>1 DEF OwesShare, Shared
<1> QED
  BY <1>3, <1>4, RoomKept

LEMMA BudgetKept ==
  ASSUME BudgetInv, [BrokerNext]_brokerVars
  PROVE  BudgetInv'
<1>1. BrokerTyped /\ spent \in Nat /\ uncapped \in BOOLEAN
  BY DEF BudgetInv, BrokerTyped
<1>2. ~uncapped => OwesShare /\ Room
  BY DEF BudgetInv, Room
<1>3. SUFFICES BrokerTyped' /\ (~uncapped' => OwesShare' /\ Room')
  BY DEF BudgetInv, Room
<1>4. \A u \in Tasks : inflight[u] \in ModelRequest
  BY <1>1 DEF BrokerTyped
<1>5. ASSUME NEW t \in Tasks, NEW c \in ModelRequest, inflight' = [inflight EXCEPT ![t] = c],
             UNCHANGED <<spent, uncapped>>,
             ~uncapped /\ OwesShare => Due(c) <= Owes(t) /\ Shared(c)
      PROVE  BrokerTyped' /\ (~uncapped' => OwesShare' /\ Room')
  <2>1. BrokerTyped'
    BY <1>1, <1>5, RequestMade DEF BrokerTyped
  <2>2. CASE ~uncapped
    BY <1>1, <1>2, <1>5, <2>1, <2>2, GoesOn
  <2> QED
    BY <1>5, <2>1, <2>2
<1>6. \A u \in Tasks : 0 <= Owes(u) /\ Owes(u) \in Nat
  BY <1>4, DueTyped DEF Owes
<1>7. ASSUME NEW t \in Tasks, End(t), UNCHANGED <<spent, uncapped>>
      PROVE  BrokerTyped' /\ (~uncapped' => OwesShare' /\ Room')
  BY <1>5, <1>6, <1>7, NoneDue, SharedIdle DEF End
<1>8. ASSUME NEW t \in Tasks, Infer(t)
      PROVE  BrokerTyped' /\ (~uncapped' => OwesShare' /\ Room')
  <2>1. PICK m \in Models, tokens \in 0..TokenCap, secret \in BOOLEAN :
          \E routed \in Route(m, secret) :
            /\ Tier[routed] <= RouteTier(secret)
            /\ Authorize(tokens, routed)
            /\ inflight' = [inflight EXCEPT ![t] =
                              [step |-> "allow", model |-> routed, tokens |-> tokens]]
            /\ uncapped' = (uncapped \/ (tokens = 0 /\ Price[routed] # 0))
    BY <1>8 DEF Infer
  <2>2. PICK routed \in Route(m, secret) :
            /\ Tier[routed] <= RouteTier(secret)
            /\ Authorize(tokens, routed)
            /\ inflight' = [inflight EXCEPT ![t] =
                              [step |-> "allow", model |-> routed, tokens |-> tokens]]
            /\ uncapped' = (uncapped \/ (tokens = 0 /\ Price[routed] # 0))
    BY <2>1
  <2> DEFINE c == [step |-> "allow", model |-> routed, tokens |-> tokens]
             price == Price[routed]
  <2>3. routed \in Affordable
    BY <2>2, BrokerAssumption DEF Route, LocalModels, RouteTier, Affordable
  <2>4. price \in Nat /\ price <= Dearest /\ tokens \in Nat /\ tokens <= TokenCap /\ Prompt \in Nat
        /\ TokenCap \in Nat /\ MaxUSD \in Nat /\ Dearest \in Nat
    BY <2>3, DearestPrice, BrokerAssumption
  <2>5. c \in ModelRequest
    BY <2>3 DEF ModelRequest
  <2>6. Due(c) = (Prompt + tokens) * price
    BY DEF Due
  <2>7. BrokerTyped'
    <3>1. uncapped' \in BOOLEAN
      BY <1>1, <2>2
    <3>2. spent' = spent
      BY <1>8 DEF Infer
    <3> QED
      BY <1>1, <2>2, <2>5, <3>1, <3>2, RequestMade DEF BrokerTyped
  <2>8. ASSUME ~uncapped'
        PROVE  OwesShare' /\ Room'
    <3>1. ~uncapped /\ (tokens = 0 => price = 0) /\ UNCHANGED spent /\ OwesShare /\ Room
      BY <1>2, <1>8, <2>2, <2>8 DEF Infer
    <3>2. Due(c) <= Share
      <4>1. (Prompt + tokens) * price <= (Prompt + TokenCap) * price
        BY <2>4, Times
      <4>2. price * (Prompt + TokenCap) <= Dearest * (Prompt + TokenCap)
        BY <2>4, Times
      <4>3. (Prompt + TokenCap) * price = price * (Prompt + TokenCap)
        BY <2>4, Times
      <4>4. (Prompt + tokens) * price \in Nat /\ (Prompt + TokenCap) * price \in Nat
        BY <2>4, Times
      <4> QED
        BY <2>6, <4>1, <4>2, <4>3, <4>4, Shares DEF Share
    <3>3. Shared(c)
      BY <3>1, <3>2 DEF Shared
    <3>4. /\ Owes(t)' = Due(c) /\ inflight'[t] = c
          /\ \A u \in Tasks \ {t} : Owes(u)' = Owes(u) /\ inflight'[u] = inflight[u]
      BY <1>1, <2>2, <2>5, RequestMade
    <3>5. OwesShare'
      BY <3>1, <3>3, <3>4 DEF OwesShare, Shared
    <3>6. CASE Due(c) = 0
      BY <1>1, <1>6, <2>2, <2>5, <2>7, <3>1, <3>3, <3>6, GoesOn
    <3>7. CASE Due(c) # 0
      <4>1. tokens * price # 0
        <5>1. tokens # 0 /\ price # 0
          BY <2>4, <2>6, <3>1, <3>7
        <5>2. \A x, y \in Nat : x # 0 /\ y # 0 => x * y # 0
          OBVIOUS
        <5> QED
          BY <2>4, <5>1, <5>2
      <4>2. tokens * price <= MaxUSD - spent
        BY <2>2, <4>1 DEF Authorize
      <4> HIDE DEF c, price
      <4> QED
        BY <1>1, <2>4, <2>6, <2>7, <3>1, <3>4, <3>7, <4>2, <3>5, RoomAdmitted
    <3> QED
      BY <3>5, <3>6, <3>7
  <2> QED
    BY <2>7, <2>8
<1>9. ASSUME NEW t \in Tasks, Allow(t)
      PROVE  BrokerTyped' /\ (~uncapped' => OwesShare' /\ Room')
  <2>1. CASE End(t)
    BY <1>7, <1>9, <2>1 DEF Allow
  <2>2. CASE Go(t, "complete")
    <3> DEFINE c == [inflight[t] EXCEPT !.step = "complete"]
    <3>1. c \in ModelRequest /\ Due(c) = Owes(t)
      BY <1>4, <1>9 DEF Allow, ModelRequest, NoCall, Due, Owes
    <3>2. inflight' = [inflight EXCEPT ![t] = c]
      BY <1>1, <2>2 DEF Go, BrokerTyped
    <3>3. OwesShare => Shared(c)
      BY <1>4, <1>9, <3>1 DEF Allow, ModelRequest, NoCall, OwesShare, Shared
    <3>4. Due(c) <= Owes(t)
      BY <1>6, <3>1
    <3>5. UNCHANGED <<spent, uncapped>>
      BY <1>9 DEF Allow
    <3> HIDE DEF c
    <3> QED
      BY <1>5, <3>1, <3>2, <3>3, <3>4, <3>5
  <2> QED
    BY <1>9, <2>1, <2>2 DEF Allow
<1>10. ASSUME NEW t \in Tasks, Complete(t)
       PROVE  BrokerTyped' /\ (~uncapped' => OwesShare' /\ Room')
  <2> DEFINE price == Price[inflight[t].model]
             tokens == inflight[t].tokens
  <2>1. PICK input \in 0..Prompt, reply \in 0..(IF tokens = 0 THEN Endless ELSE tokens) :
          inflight' = [inflight EXCEPT ![t] = [step |-> "record", cost |-> (input + reply) * price]]
    BY <1>10 DEF Complete
  <2> DEFINE c == [step |-> "record", cost |-> (input + reply) * price]
  <2>2. price \in Nat /\ tokens \in Nat /\ input \in Nat /\ reply \in Nat /\ Prompt \in Nat
        /\ input <= Prompt
    BY <1>4, <1>10, DearestPrice, BrokerAssumption DEF Complete, ModelRequest, NoCall
  <2>3. c \in ModelRequest /\ Due(c) = (input + reply) * price
    <3>1. (input + reply) * price \in Nat
      <4> HIDE DEF price
      <4>1. input + reply \in Nat
        BY <2>2
      <4> QED
        BY <2>2, <4>1, Times
    <3> QED
      BY <3>1 DEF ModelRequest, Due
  <2>4. Owes(t) = (Prompt + tokens) * price
    BY <1>10 DEF Owes, Due, Complete
  <2>5. OwesShare => Due(c) <= Owes(t)
    <3>1. CASE price = 0
      <4>1. \A x \in Nat : x * 0 = 0
        OBVIOUS
      <4> QED
        BY <2>2, <2>3, <2>4, <3>1, <4>1
    <3>2. CASE tokens # 0
      <4>1. input + reply <= Prompt + tokens
        BY <2>2, <3>2
      <4>2. (input + reply) * price <= (Prompt + tokens) * price
        <5> HIDE DEF price, tokens
        <5>1. input + reply \in Nat /\ Prompt + tokens \in Nat
          BY <2>2
        <5> QED
          BY <2>2, <4>1, <5>1, Times
      <4> QED
        BY <2>3, <2>4, <4>2
    <3>3. OwesShare /\ tokens = 0 => price = 0
      BY <1>10 DEF OwesShare, Complete
    <3> QED
      BY <3>1, <3>2, <3>3
  <2>6. OwesShare => Shared(c)
    <3>1. OwesShare => Owes(t) <= Share
      BY DEF OwesShare
    <3>2. Due(c) \in Nat /\ Share \in Nat
      BY <2>3, DueTyped, Shares
    <3> QED
      BY <1>6, <2>5, <3>1, <3>2 DEF Shared
  <2> HIDE DEF c
  <2> QED
    BY <1>5, <1>10, <2>1, <2>3, <2>5, <2>6 DEF Complete, c
<1>11. ASSUME NEW t \in Tasks, Record(t)
       PROVE  BrokerTyped' /\ (~uncapped' => OwesShare' /\ Room')
  <2> DEFINE c == [inflight[t] EXCEPT !.step = "log"]
  <2>1. c \in ModelRequest /\ Due(c) = 0 /\ Owes(t) = inflight[t].cost
    BY <1>4, <1>11 DEF Record, ModelRequest, NoCall, Due, Owes
  <2>2. inflight' = [inflight EXCEPT ![t] = c] /\ spent' = spent + Owes(t) /\ UNCHANGED uncapped
    BY <1>1, <1>11, <2>1 DEF Record, Go, BrokerTyped
  <2>3. BrokerTyped'
    BY <1>1, <1>6, <2>1, <2>2, RequestMade DEF BrokerTyped
  <2>4. /\ Owes(t)' = 0 /\ inflight'[t] = c
        /\ \A u \in Tasks \ {t} : Owes(u)' = Owes(u) /\ inflight'[u] = inflight[u]
    BY <1>1, <2>1, <2>2, RequestMade
  <2>5. c.step = "log"
    BY <1>4, <1>11 DEF Record, ModelRequest, NoCall
  <2> HIDE DEF c
  <2>6. OwesShare => OwesShare'
    BY <2>4, <2>5, Shares DEF OwesShare
  <2>7. OwesShare /\ Room => Room'
    BY <1>1, <2>2, <2>4, RoomPaid DEF OwesShare
  <2> QED
    BY <1>2, <2>2, <2>3, <2>6, <2>7
<1>12. CASE Restart
  <2>1. inflight' = [u \in Tasks |-> NoCall] /\ spent' = 0 /\ uncapped' = FALSE
    BY <1>12 DEF Restart
  <2>2. BrokerTyped'
    BY <2>1, NoneDue DEF BrokerTyped
  <2>3. \A u \in Tasks : Owes(u)' = 0 /\ inflight'[u] = NoCall
    BY <2>1, NoneDue DEF Owes
  <2>4. OwesShare'
    BY <2>3, SharedIdle, NoneDue, Shares DEF OwesShare, NoCall
  <2>5. Owing' = {}
    BY <2>3 DEF Owing
  <2>6. RoomForAll'
    BY <2>1, <2>5, FS_EmptySet, Shares DEF RoomForAll
  <2> QED
    BY <2>2, <2>4, <2>6 DEF Room
<1>13. ASSUME UNCHANGED <<spent, inflight, uncapped>>
       PROVE  BrokerTyped' /\ (~uncapped' => OwesShare' /\ Room')
  <2>1. \A u \in Tasks : Owes(u)' = Owes(u)
    BY <1>13 DEF Owes
  <2>2. Owing' = Owing
    BY <2>1 DEF Owing
  <2>3. BrokerTyped'
    BY <1>1, <1>13 DEF BrokerTyped
  <2>4. OwesShare => OwesShare'
    BY <1>13, <2>1 DEF OwesShare
  <2>5. Room => Room'
    BY <1>13, <2>1, <2>2 DEF Room, RoomForAll, RoomForLast, Owing
  <2> QED
    BY <1>2, <1>13, <2>3, <2>4, <2>5
<1> QED
  BY <1>7, <1>8, <1>9, <1>10, <1>11, <1>12, <1>13
  DEF BrokerNext, ProviderFails, LogCost, Retry, brokerVars

LEMMA BudgetStarts ==
  ASSUME BrokerInit
  PROVE  BudgetInv
<1>1. BrokerTyped
  BY NoneDue DEF BrokerInit, BrokerTyped
<1>2. \A t \in Tasks : inflight[t] = NoCall /\ Owes(t) = 0
  BY NoneDue DEF BrokerInit, Owes
<1>3. OwesShare
  BY <1>2, SharedIdle, Shares DEF OwesShare, NoCall
<1>4. Owing = {}
  BY <1>2 DEF Owing
<1>5. RoomForAll
  BY <1>4, FS_EmptySet, Shares DEF RoomForAll, BrokerInit
<1> QED
  BY <1>1, <1>3, <1>5 DEF BudgetInv

(* What one process spends stays below the ceiling and what the             *)
(* pre-authorization does not see: the requests of the other monitors that  *)
(* are under way, and the prompts, at the dearest price a task may pay.     *)
THEOREM BudgetCorrect == BrokerSpec => []BudgetBound
<1>1. BrokerInit => BudgetInv
  BY BudgetStarts
<1>2. BudgetInv /\ [BrokerNext]_brokerVars => BudgetInv'
  BY BudgetKept
<1>3. BudgetInv => BudgetBound
  <2> SUFFICES ASSUME BudgetInv, ~uncapped
               PROVE  spent <= Bound
    BY DEF BudgetBound, Bound
  <2>1. BrokerTyped /\ (\A t \in Tasks : Owes(t) \in Nat) /\ spent \in Nat
    BY DueTyped DEF BudgetInv, BrokerTyped, Owes
  <2>2. Owing \subseteq Tasks /\ Share \in Nat /\ Bound \in Nat
    BY Shares DEF Owing
  <2>3. CASE RoomForAll
    <3>1. Cardinality(Owing) * Share \in Nat
      BY <2>2, SomeTasks, Times
    <3> QED
      BY <2>1, <2>2, <2>3, <3>1 DEF RoomForAll
  <2>4. CASE RoomForLast
    <3>1. PICK t \in Owing : spent + Owes(t) + (Cardinality(Owing) - 1) * Share <= Bound
      BY <2>4 DEF RoomForLast
    <3>2. Cardinality(Owing) - 1 \in Nat /\ Owes(t) \in Nat
      BY <2>1, <2>2, <3>1, SomeTasks
    <3>3. (Cardinality(Owing) - 1) * Share \in Nat
      BY <2>2, <3>2, Times
    <3> QED
      BY <2>1, <2>2, <3>1, <3>2, <3>3
  <2> QED
    BY <2>3, <2>4 DEF BudgetInv
<1> QED
  BY <1>1, <1>2, <1>3, PTL DEF BrokerSpec

(***************************************************************************)
(* The ledger.                                                             *)
(***************************************************************************)
LEMMA CostKnown ==
  ASSUME NEW c \in ModelRequest
  PROVE  /\ c.step \in {"idle", "allow", "complete", "record", "log"}
         /\ c.step \in {"record", "log"} => c.cost \in Nat
BY DEF ModelRequest, NoCall

(* A step of one request changes the sum by what it changes for that one.   *)
LEMMA SumMoved ==
  ASSUME BrokerTyped, BrokerTyped', NEW t \in Tasks,
         \A u \in Tasks \ {t} : inflight'[u] = inflight[u]
  PROVE  /\ {SumFunctionOnSet(Unlogged, Tasks), SumFunctionOnSet(Unlogged', Tasks)} \subseteq Int
         /\ {Unlogged[t], Unlogged'[t]} \subseteq Nat
         /\ SumFunctionOnSet(Unlogged', Tasks) =
              SumFunctionOnSet(Unlogged, Tasks) - Unlogged[t] + Unlogged'[t]
<1>1. \A u \in Tasks : Unlogged[u] \in Nat
  BY CostKnown DEF Unlogged, BrokerTyped
<1>2. \A u \in Tasks : Unlogged'[u] \in Nat
  BY CostKnown DEF Unlogged, BrokerTyped
<1>3. \A u \in Tasks \ {t} : Unlogged'[u] = Unlogged[u]
  BY DEF Unlogged
<1>4. ASSUME NEW f, NEW g, \A u \in Tasks : f[u] \in Nat /\ g[u] \in Nat,
             \A u \in Tasks \ {t} : g[u] = f[u]
      PROVE  /\ {SumFunctionOnSet(f, Tasks), SumFunctionOnSet(g, Tasks)} \subseteq Int
             /\ SumFunctionOnSet(g, Tasks) = SumFunctionOnSet(f, Tasks) - f[t] + g[t]
  <2>1. IsFiniteSet(Tasks)
    BY BrokerAssumption
  <2>2. \A x \in Tasks : f[x] \in Int /\ g[x] \in Int
    BY <1>4
  <2>3. /\ SumFunctionOnSet(f, Tasks) \in Int /\ SumFunctionOnSet(g, Tasks) \in Int
        /\ SumFunctionOnSet(g, Tasks) = SumFunctionOnSet(f, Tasks) - f[t] + g[t]
    BY <1>4, <2>1, <2>2, SumChanges
  <2> QED
    BY <2>3
<1> QED
  BY <1>1, <1>2, <1>3, <1>4

(* A step that neither makes nor ends a request between the two writes.     *)
LEMMA NothingMoved ==
  ASSUME LedgerInv, BrokerTyped, BrokerTyped', UNCHANGED <<spent, ledger, opening, unlogged>>,
         NEW t \in Tasks, Unlogged'[t] = Unlogged[t],
         \A u \in Tasks \ {t} : inflight'[u] = inflight[u]
  PROVE  LedgerInv'
<1>1. SumFunctionOnSet(Unlogged', Tasks) = SumFunctionOnSet(Unlogged, Tasks)
  BY SumMoved
<1> QED
  BY <1>1 DEF LedgerInv, LedgerAgrees

LEMMA LedgerKept ==
  ASSUME LedgerInv, BrokerTyped, BrokerTyped', [BrokerNext]_brokerVars
  PROVE  LedgerInv'
<1>1. /\ spent \in Nat /\ inflight \in [Tasks -> ModelRequest]
      /\ ledger \in Nat /\ opening \in Nat /\ unlogged \in BOOLEAN
  BY DEF BrokerTyped, LedgerInv
<1>2. CASE UNCHANGED brokerVars
  <2>1. Unlogged' = Unlogged
    BY <1>2 DEF brokerVars, Unlogged
  <2> QED
    BY <1>2, <2>1 DEF brokerVars, LedgerInv, LedgerAgrees
<1>3. ASSUME NEW t \in Tasks, NEW c, inflight' = [inflight EXCEPT ![t] = c], c.step # "log",
             inflight[t].step # "log", UNCHANGED <<spent, ledger, opening, unlogged>>
      PROVE  LedgerInv'
  <2>1. Unlogged'[t] = 0 /\ Unlogged[t] = 0 /\ \A u \in Tasks \ {t} : inflight'[u] = inflight[u]
    BY <1>1, <1>3 DEF Unlogged
  <2> QED
    BY <1>3, <2>1, NothingMoved
<1>4. ASSUME NEW t \in Tasks, Infer(t) PROVE LedgerInv'
  BY <1>3, <1>4 DEF Infer
<1>5. ASSUME NEW t \in Tasks, Allow(t) PROVE LedgerInv'
  <2>1. CASE counts[t] >= MaxRequestsTask
    BY <1>3, <1>5, <2>1 DEF Allow, End, NoCall
  <2>2. CASE ~(counts[t] >= MaxRequestsTask)
    <3>1. inflight' = [inflight EXCEPT ![t] = [inflight[t] EXCEPT !.step = "complete"]]
      BY <1>1, <1>5, <2>2 DEF Allow, Go
    <3>2. [inflight[t] EXCEPT !.step = "complete"].step # "log"
      BY <1>1, <1>5, CostKnown DEF Allow, ModelRequest
    <3> QED
      BY <1>3, <1>5, <3>1, <3>2 DEF Allow
  <2> QED
    BY <2>1, <2>2
<1>6. ASSUME NEW t \in Tasks, Complete(t) PROVE LedgerInv'
  BY <1>3, <1>6 DEF Complete
<1>7. ASSUME NEW t \in Tasks, ProviderFails(t) PROVE LedgerInv'
  <2>1. inflight' = [inflight EXCEPT ![t] = NoCall] /\ inflight[t].step = "complete"
    BY <1>7 DEF ProviderFails, End
  <2>2. NoCall.step # "log"
    BY DEF NoCall
  <2> QED
    BY <1>3, <1>7, <2>1, <2>2 DEF ProviderFails
<1>8. ASSUME NEW t \in Tasks, Record(t) PROVE LedgerInv'
  <2> DEFINE cost == inflight[t].cost
  <2>1. /\ inflight[t] \in ModelRequest /\ inflight[t].step = "record"
        /\ inflight' = [inflight EXCEPT ![t].step = "log"]
        /\ spent' = spent + cost /\ UNCHANGED <<ledger, opening, unlogged>>
    BY <1>1, <1>8 DEF Record, Go
  <2>2. inflight[t] \in [step : {"record", "log"}, cost : Nat]
    BY <2>1 DEF ModelRequest, NoCall
  <2>3. /\ inflight'[t] = [step |-> "log", cost |-> cost]
        /\ \A u \in Tasks \ {t} : inflight'[u] = inflight[u]
    BY <1>1, <2>1, <2>2
  <2>4. Unlogged[t] = 0 /\ Unlogged'[t] = cost /\ cost \in Nat
    BY <2>1, <2>2, <2>3 DEF Unlogged
  <2>5. /\ {SumFunctionOnSet(Unlogged, Tasks), SumFunctionOnSet(Unlogged', Tasks)} \subseteq Int
        /\ SumFunctionOnSet(Unlogged', Tasks) = SumFunctionOnSet(Unlogged, Tasks) + cost
    BY <2>3, <2>4, SumMoved
  <2> QED
    BY <1>1, <2>1, <2>4, <2>5 DEF LedgerInv, LedgerAgrees
<1>9. ASSUME NEW t \in Tasks, LogCost(t) PROVE LedgerInv'
  <2> DEFINE cost == inflight[t].cost
  <2>1. /\ inflight[t] \in ModelRequest /\ inflight[t].step = "log"
        /\ inflight' = [inflight EXCEPT ![t] = NoCall] /\ UNCHANGED <<spent, opening>>
        /\ \/ ledger' = ledger + cost /\ UNCHANGED unlogged
           \/ unlogged' = TRUE /\ UNCHANGED ledger
    BY <1>1, <1>9 DEF LogCost, End
  <2>2. inflight'[t] = NoCall /\ \A u \in Tasks \ {t} : inflight'[u] = inflight[u]
    BY <1>1, <2>1
  <2>3. Unlogged[t] = cost /\ Unlogged'[t] = 0 /\ cost \in Nat
    BY <2>1, <2>2, CostKnown DEF Unlogged, NoCall
  <2>4. /\ {SumFunctionOnSet(Unlogged, Tasks), SumFunctionOnSet(Unlogged', Tasks)} \subseteq Int
        /\ SumFunctionOnSet(Unlogged', Tasks) = SumFunctionOnSet(Unlogged, Tasks) - cost
    BY <2>2, <2>3, SumMoved
  <2>5. CASE unlogged' = TRUE /\ UNCHANGED ledger
    BY <1>1, <2>1, <2>5 DEF LedgerInv, LedgerAgrees
  <2>6. CASE ledger' = ledger + cost /\ UNCHANGED unlogged
    <3> HIDE DEF cost
    <3>1. ledger' \in Nat /\ opening' \in Nat /\ unlogged' \in BOOLEAN
      BY <1>1, <2>1, <2>3, <2>6
    <3>2. ~unlogged => ledger - opening + SumFunctionOnSet(Unlogged, Tasks) = spent
      BY DEF LedgerInv, LedgerAgrees
    <3>3. ~unlogged' => ledger' - opening' + SumFunctionOnSet(Unlogged', Tasks) = spent'
      BY <1>1, <2>1, <2>3, <2>4, <2>6, <3>2
    <3> QED
      BY <3>1, <3>3 DEF LedgerInv, LedgerAgrees
  <2> QED
    BY <2>1, <2>5, <2>6
<1>10. ASSUME NEW t \in Tasks, Retry(t) PROVE LedgerInv'
  <2>1. Unlogged' = Unlogged
    BY <1>10 DEF Retry, Unlogged
  <2> QED
    BY <1>10, <2>1 DEF Retry, LedgerInv, LedgerAgrees
<1>11. CASE Restart
  <2>1. \A u \in Tasks : Unlogged'[u] = 0
    BY <1>11 DEF Restart, Unlogged, NoCall
  <2>2. SumFunctionOnSet(Unlogged', Tasks) = 0
    BY <2>1, SumOfNothing, BrokerAssumption
  <2>3. spent' = 0 /\ opening' = ledger /\ ledger' = ledger /\ unlogged' = FALSE
    BY <1>11 DEF Restart
  <2>4. ledger' - opening' + SumFunctionOnSet(Unlogged', Tasks) = spent'
    BY <1>1, <2>2, <2>3
  <2>5. LedgerAgrees'
    BY <2>4 DEF LedgerAgrees
  <2> QED
    BY <1>1, <2>3, <2>5 DEF LedgerInv
<1> QED
  BY <1>2, <1>4, <1>5, <1>6, <1>7, <1>8, <1>9, <1>10, <1>11 DEF BrokerNext

LEMMA LedgerAlways == BrokerSpec => []LedgerInv
<1>1. BrokerInit => BudgetInv /\ LedgerInv
  <2> SUFFICES ASSUME BrokerInit PROVE LedgerInv
    BY BudgetStarts
  <2>1. \A t \in Tasks : Unlogged[t] = 0
    BY DEF BrokerInit, Unlogged, NoCall
  <2>2. SumFunctionOnSet(Unlogged, Tasks) = 0
    BY <2>1, SumOfNothing, BrokerAssumption
  <2>3. spent = 0 /\ ledger = 0 /\ opening = 0 /\ unlogged = FALSE
    BY DEF BrokerInit
  <2>4. ledger - opening + SumFunctionOnSet(Unlogged, Tasks) = spent
    BY <2>2, <2>3
  <2>5. LedgerAgrees
    BY <2>4 DEF LedgerAgrees
  <2> QED
    BY <2>3, <2>5 DEF LedgerInv
<1>2. BudgetInv /\ LedgerInv /\ [BrokerNext]_brokerVars => BudgetInv' /\ LedgerInv'
  <2> SUFFICES ASSUME BudgetInv, LedgerInv, [BrokerNext]_brokerVars
               PROVE  BudgetInv' /\ LedgerInv'
    OBVIOUS
  <2>1. BudgetInv'
    BY BudgetKept
  <2>2. BrokerTyped /\ BrokerTyped'
    BY <2>1 DEF BudgetInv
  <2> QED
    BY <2>1, <2>2, LedgerKept
<1> QED
  BY <1>1, <1>2, PTL DEF BrokerSpec

(* What the process has spent is in the cost log of the run, but for the    *)
(* requests between the two writes, as long as no insert fails.             *)
THEOREM LedgerCorrect == BrokerSpec => []LedgerAgrees
<1>1. LedgerInv => LedgerAgrees
  BY DEF LedgerInv
<1> QED
  BY <1>1, LedgerAlways, PTL

LEMMA CountsKept ==
  ASSUME CountsInv, [BrokerNext]_brokerVars
  PROVE  CountsInv'
<1> USE DEF CountsInv
<1>1. MaxRequestsTask \in Nat /\ MaxAttempts \in Nat
  BY BrokerAssumption
<1>2. CASE UNCHANGED <<counts, attempted>>
  BY <1>2
<1>3. ASSUME NEW t \in Tasks, Allow(t)
      PROVE  CountsInv'
  <2>1. /\ UNCHANGED attempted
        /\ \/ UNCHANGED counts
           \/ counts[t] < MaxRequestsTask /\ counts' = [counts EXCEPT ![t] = counts[t] + 1]
    <3>1. counts[t] \in Nat
      OBVIOUS
    <3> QED
      BY <1>1, <1>3, <3>1 DEF Allow
  <2>2. counts[t] \in 0..MaxRequestsTask
    OBVIOUS
  <2>3. counts[t] < MaxRequestsTask => counts[t] + 1 \in 0..MaxRequestsTask
    BY <1>1, <2>2
  <2> DEFINE n == counts[t] + 1
  <2>4. \/ counts' = counts
        \/ n \in 0..MaxRequestsTask /\ counts' = [counts EXCEPT ![t] = n]
    BY <2>1, <2>3
  <2> HIDE DEF n
  <2> QED
    BY <2>1, <2>4
<1>4. ASSUME NEW t \in Tasks, Retry(t)
      PROVE  CountsInv'
  <2>1. /\ UNCHANGED counts /\ attempted[t] < MaxAttempts
        /\ attempted' = [attempted EXCEPT ![t] = attempted[t] + 1]
    BY <1>4 DEF Retry
  <2>2. attempted[t] \in 1..MaxAttempts
    OBVIOUS
  <2>3. attempted[t] + 1 \in 1..MaxAttempts
    BY <1>1, <2>1, <2>2
  <2> DEFINE n == attempted[t] + 1
  <2>4. n \in 1..MaxAttempts /\ attempted' = [attempted EXCEPT ![t] = n]
    BY <2>1, <2>3
  <2> HIDE DEF n
  <2> QED
    BY <2>1, <2>4
<1>5. CASE Restart
  <2>1. /\ \A t \in Tasks : attempted[t] < MaxAttempts /\ attempted[t] \in 1..MaxAttempts
        /\ counts' = [t \in Tasks |-> 0] /\ attempted' = [t \in Tasks |-> attempted[t] + 1]
    BY <1>5 DEF Restart
  <2>2. \A t \in Tasks : attempted[t] + 1 \in 1..MaxAttempts
    BY <1>1, <2>1
  <2> QED
    BY <1>1, <2>1, <2>2
<1>6. ASSUME NEW t \in Tasks,
             Infer(t) \/ Complete(t) \/ ProviderFails(t) \/ Record(t) \/ LogCost(t)
      PROVE  UNCHANGED <<counts, attempted>>
  BY <1>6 DEF Infer, Complete, ProviderFails, Record, LogCost
<1>7. UNCHANGED brokerVars => UNCHANGED <<counts, attempted>>
  BY DEF brokerVars
<1> QED
  BY <1>2, <1>3, <1>4, <1>5, <1>6, <1>7 DEF BrokerNext

LEMMA BrokerTypes == BrokerSpec => []BrokerTypeOK
<1>1. BrokerInit => BudgetInv /\ CountsInv
  <2>1. BrokerInit => CountsInv
    BY BrokerAssumption DEF BrokerInit, CountsInv
  <2> QED
    BY <2>1, BudgetStarts
<1>2. BudgetInv /\ CountsInv /\ [BrokerNext]_brokerVars => BudgetInv' /\ CountsInv'
  BY BudgetKept, CountsKept
<1>3. BrokerSpec => [](ledger \in Nat /\ opening \in Nat /\ unlogged \in BOOLEAN)
  BY LedgerAlways, PTL DEF LedgerInv
<1>4. ASSUME BudgetInv, CountsInv, ledger \in Nat /\ opening \in Nat /\ unlogged \in BOOLEAN
      PROVE  BrokerTypeOK
  <2>1. \A t \in Tasks : inflight[t].step \in {"idle", "allow", "complete", "record", "log"}
    BY <1>4 DEF BudgetInv, BrokerTyped, ModelRequest, NoCall
  <2> QED
    BY <1>4, <2>1 DEF BudgetInv, BrokerTyped, CountsInv, BrokerTypeOK
<1> QED
  BY <1>1, <1>2, <1>3, <1>4, PTL DEF BrokerSpec

-----------------------------------------------------------------------------
(***************************************************************************)
(* THE MODEL REGISTRY.                                                     *)
(***************************************************************************)
IsEntries(table) == table = [id \in Listed(table) |-> table[id]]

LEMMA Upserted ==
  ASSUME NEW new, NEW old
  PROVE  /\ Listed(Upsert(new, old)) = Listed(new) \cup Listed(old)
         /\ IsEntries(Upsert(new, old))
         /\ \A id \in Listed(new) : Upsert(new, old)[id] = new[id]
         /\ \A id \in Listed(old) \ Listed(new) : Upsert(new, old)[id] = old[id]
BY DEF Upsert, Listed, IsEntries

LEMMA UpsertedTable ==
  ASSUME NEW new, NEW old, IsTable(new), IsTable(old)
  PROVE  IsTable(Upsert(new, old))
<1>1. \A id \in Listed(Upsert(new, old)) : id \in Listed(new) \/ id \in Listed(old) \ Listed(new)
  BY Upserted
<1> QED
  BY <1>1, Upserted DEF IsTable

(* A process that loads the shipped models again leaves a table that has    *)
(* them as it was.                                                          *)
LEMMA LoadedAgain ==
  ASSUME NEW table, IsTable(table), IsEntries(table)
  PROVE  /\ IsTable(Upsert(Shipped, table)) /\ IsEntries(Upsert(Shipped, table))
         /\ \A id \in Listed(Shipped) :
              id \in Listed(Upsert(Shipped, table)) /\ Upsert(Shipped, table)[id] = Shipped[id]
         /\ (\A id \in Listed(Shipped) : id \in Listed(table) /\ table[id] = Shipped[id])
              => Upsert(Shipped, table) = table
<1>1. IsTable(Shipped)
  BY RegistryAssumption DEF IsTable
<1>2. IsTable(Upsert(Shipped, table))
  BY <1>1, UpsertedTable
<1>3. ASSUME \A id \in Listed(Shipped) : id \in Listed(table) /\ table[id] = Shipped[id]
      PROVE  Upsert(Shipped, table) = table
  <2> DEFINE new == Upsert(Shipped, table)
  <2>1. Listed(new) = Listed(table)
    BY <1>3, Upserted
  <2>2. \A id \in Listed(table) : new[id] = table[id]
    BY <1>3, Upserted
  <2>3. IsEntries(new)
    BY Upserted
  <2> HIDE DEF new
  <2>4. new = [id \in Listed(table) |-> table[id]]
    BY <2>1, <2>2, <2>3 DEF IsEntries
  <2> QED
    BY <2>4 DEF IsEntries, new
<1> QED
  BY <1>2, <1>3, Upserted

(* A load that stops half way leaves a table, and one that writes them all  *)
(* loads the shipped models.                                                *)
LEMMA LoadedSome ==
  ASSUME NEW rows \in SUBSET Listed(Shipped), IsTable(registry), IsEntries(registry)
  PROVE  /\ IsTable(RefreshShipped(rows)) /\ IsEntries(RefreshShipped(rows))
         /\ rows = Listed(Shipped) => RefreshShipped(rows) = Upsert(Shipped, registry)
         /\ ShippedIn => RefreshShipped(rows) = registry
<1> DEFINE new == [id \in rows |-> Shipped[id]]
           old == Upsert(new, registry)
<1>1. Listed(new) = rows /\ \A id \in rows : new[id] = Shipped[id]
  BY DEF Listed
<1> HIDE DEF new
<1>2. IsTable(new)
  BY <1>1, RegistryAssumption DEF IsTable
<1>3. IsTable(old) /\ IsEntries(old)
  BY <1>2, Upserted, UpsertedTable
<1>4. rows = Listed(Shipped) => old = Upsert(Shipped, registry)
  BY <1>1 DEF Upsert
<1>5. ASSUME ShippedIn
      PROVE  old = registry
  <2>1. Listed(old) = Listed(registry) /\ \A id \in Listed(registry) : old[id] = registry[id]
    BY <1>1, <1>5, Upserted DEF ShippedIn
  <2> QED
    BY <1>3, <2>1 DEF IsEntries
<1> QED
  BY <1>3, <1>4, <1>5 DEF RefreshShipped, new

(* What a refresh writes are entries.                                       *)
LEMMA RefreshWrites ==
  ASSUME RegTypeOK, IsEntries(registry), RefreshOpenRouter \/ RefreshBitNet
  PROVE  IsTable(registry') /\ IsEntries(registry')
<1>1. IsTable(registry)
  BY DEF RegTypeOK
<1>2. ASSUME NEW new, IsTable(new), registry' = Upsert(new, registry)
      PROVE  IsTable(registry') /\ IsEntries(registry')
  BY <1>1, <1>2, Upserted, UpsertedTable
<1>3. CASE RefreshBitNet
  <2>1. PICK listed \in SUBSET LocalIds :
          registry' = Upsert([id \in listed |-> Entry(0, 0)], registry)
    BY <1>3 DEF RefreshBitNet
  <2> DEFINE new == [id \in listed |-> Entry(0, 0)]
  <2>2. IsTable(new)
    BY RegistryAssumption DEF IsTable, Listed, Entry
  <2> QED
    BY <1>2, <2>1, <2>2
<1>4. CASE RefreshOpenRouter
  <2> DEFINE written(listed, price) ==
               registry' = Upsert([id \in listed |->
                                     Entry(IF id \in Listed(Shipped) THEN Shipped[id].tier
                                           ELSE ClassifyTier(price[id]), price[id])], registry)
  <2>0. PICK listed \in SUBSET (Ids \ LocalIds) :
          \E price \in [listed -> Prices] : written(listed, price)
    BY <1>4 DEF RefreshOpenRouter
  <2>1. PICK price \in [listed -> Prices] : written(listed, price)
    BY <2>0
  <2> DEFINE tier(id) == IF id \in Listed(Shipped) THEN Shipped[id].tier
                         ELSE ClassifyTier(price[id])
             new == [id \in listed |-> Entry(tier(id), price[id])]
  <2>2. \A id \in listed : tier(id) \in Tiers
    BY RegistryAssumption DEF ClassifyTier
  <2>3. Listed(new) = listed /\ \A id \in listed : new[id].tier = tier(id)
    BY DEF Listed, Entry
  <2>4. registry' = Upsert(new, registry)
    BY <2>1
  <2> HIDE DEF new, tier
  <2>5. IsTable(new)
    BY <2>2, <2>3 DEF IsTable
  <2> QED
    BY <1>2, <2>4, <2>5
<1> QED
  BY <1>3, <1>4

LEMMA RegStarts ==
  ASSUME RegInit
  PROVE  RegInv
<1>1. Listed(registry) = {} /\ Listed(maps) = {} /\ IsEntries(registry)
  BY DEF RegInit, NoModels, Listed, IsEntries
<1>2. RegTypeOK
  <2>1. IsTable(registry) /\ IsTable(maps)
    BY <1>1 DEF IsTable
  <2>2. opens \in 0..MaxOpens /\ serving = FALSE /\ refreshed = FALSE /\ cut = FALSE
        /\ attempt = NoModel
    BY RegistryAssumption DEF RegInit
  <2> QED
    BY <2>1, <2>2 DEF RegTypeOK
<1> QED
  BY <1>1, <1>2 DEF RegInit, RegInv, IsEntries

LEMMA RegKept ==
  ASSUME RegInv, [RegNext]_regVars
  PROVE  RegInv'
<1>1. /\ RegTypeOK /\ IsTable(registry) /\ IsTable(maps) /\ IsEntries(registry)
      /\ answer # NoModel => attempt # NoModel
  BY DEF RegInv, RegTypeOK, IsEntries
<1>2. serving /\ ~refreshed /\ ~cut => CopyCurrent /\ ShippedIn /\ SelectedListed /\ AnswerDue
  BY DEF RegInv
<1>3. ASSUME CountOpen PROVE opens' \in 0..MaxOpens
  BY <1>1, <1>3, RegistryAssumption DEF CountOpen, RegTypeOK
<1>4. CASE OpenEngine
  <2>1. PICK rows \in SUBSET Listed(Shipped), read \in BOOLEAN :
          /\ registry' = RefreshShipped(rows)
          /\ maps' = IF read THEN RefreshShipped(rows) ELSE NoModels
          /\ cut' = (rows # Listed(Shipped) \/ ~read)
    BY <1>4 DEF OpenEngine, BrokerMaps
  <2>2. /\ serving' = TRUE /\ refreshed' = FALSE /\ attempt' = NoModel /\ answer' = NoModel
        /\ opens' \in 0..MaxOpens /\ cut' \in BOOLEAN
    BY <1>3, <1>4, <2>1 DEF OpenEngine
  <2>3. IsTable(registry') /\ IsEntries(registry') /\ IsTable(NoModels)
    BY <1>1, <2>1, LoadedSome DEF IsTable, NoModels, Listed
  <2>4. RegTypeOK'
    BY <2>1, <2>2, <2>3 DEF RegTypeOK
  <2>5. ASSUME ~cut'
        PROVE  CopyCurrent' /\ ShippedIn' /\ SelectedListed' /\ AnswerDue'
    <3>1. registry' = Upsert(Shipped, registry) /\ maps' = registry'
      BY <1>1, <2>1, <2>5, LoadedSome
    <3>2. \A id \in Listed(Shipped) : id \in Listed(registry') /\ registry'[id] = Shipped[id]
      BY <1>1, <3>1, LoadedAgain
    <3> QED
      BY <2>2, <3>1, <3>2 DEF CopyCurrent, ShippedIn, SelectedListed, AnswerDue, Selected, Listed
  <2> QED
    BY <2>2, <2>3, <2>4, <2>5 DEF RegInv, IsEntries, Listed
<1>5. CASE CloseEngine
  BY <1>1, <1>5 DEF CloseEngine, RegInv, RegTypeOK, IsEntries, IsTable, Listed
<1>6. CASE OpenOther
  <2>1. /\ UNCHANGED <<maps, serving, attempt, answer, refreshed, cut>>
        /\ opens' \in 0..MaxOpens
    BY <1>3, <1>6 DEF OpenOther
  <2>2. /\ IsTable(registry') /\ IsEntries(registry')
        /\ ShippedIn => registry' = registry
    BY <1>1, <1>6, LoadedSome DEF OpenOther
  <2>3. RegTypeOK'
    BY <1>1, <2>1, <2>2 DEF RegTypeOK
  <2>4. serving /\ ~refreshed /\ ~cut => CopyCurrent' /\ ShippedIn' /\ SelectedListed' /\ AnswerDue'
    BY <1>2, <2>1, <2>2
    DEF CopyCurrent, ShippedIn, SelectedListed, AnswerDue, Selected, Listed
  <2> QED
    BY <1>1, <2>1, <2>2, <2>3, <2>4 DEF RegInv, IsEntries, Listed
<1>7. CASE ModelsRefresh
  <2>1. /\ refreshed' = TRUE /\ UNCHANGED <<maps, serving, attempt, answer, cut>>
        /\ opens' \in 0..MaxOpens /\ IsTable(registry') /\ IsEntries(registry')
    BY <1>1, <1>3, <1>7, RefreshWrites DEF ModelsRefresh
  <2>2. RegTypeOK'
    BY <1>1, <2>1 DEF RegTypeOK
  <2> QED
    BY <1>1, <2>1, <2>2 DEF RegInv, IsEntries, Listed
<1>8. ASSUME NEW tier \in Tiers, NEW f, SelectModel(tier, f) PROVE RegInv'
  <2>1. UNCHANGED <<registry, maps, serving, refreshed, cut, opens>> /\ answer' = NoModel
    BY <1>8 DEF SelectModel
  <2>2. \E id \in Ids \cup {NoModel} :
          /\ attempt' = [id |-> id, tier |-> tier]
          /\ id # NoModel => id \in Listed(registry) /\ registry[id].tier = tier
    <3> DEFINE models == {id \in Listed(registry) : registry[id].tier = tier}
               others == {id \in models : Family[id] # f}
    <3>1. \/ attempt' = [id |-> NoModel, tier |-> tier]
          \/ \E id \in models : attempt' = [id |-> id, tier |-> tier]
      BY <1>8 DEF SelectModel
    <3>2. models \subseteq Ids
      BY <1>1 DEF IsTable
    <3> QED
      BY <3>1, <3>2
  <2>3. PICK id \in Ids \cup {NoModel} :
          /\ attempt' = [id |-> id, tier |-> tier]
          /\ id # NoModel => id \in Listed(registry) /\ registry[id].tier = tier
    BY <2>2
  <2>4. attempt'.id = id /\ attempt'.tier = tier
    BY <2>3
  <2>5. RegTypeOK'
    BY <1>1, <2>1, <2>4 DEF RegTypeOK, IsTable, Listed
  <2>6. SelectedListed' /\ AnswerDue'
    BY <2>1, <2>3, <2>4 DEF SelectedListed, AnswerDue, Selected, Listed
  <2>7. serving /\ ~refreshed /\ ~cut => CopyCurrent' /\ ShippedIn'
    BY <1>2, <2>1 DEF CopyCurrent, ShippedIn, Listed
  <2> QED
    BY <1>1, <2>1, <2>5, <2>6, <2>7 DEF RegInv, IsEntries, Listed
<1>9. CASE InferPrice
  <2>1. /\ serving /\ attempt # NoModel
        /\ UNCHANGED <<registry, maps, serving, attempt, refreshed, cut, opens>>
        /\ answer' = IF attempt.id \in Listed(maps) /\ TierAllowed(attempt.tier, maps[attempt.id].tier)
                     THEN [ok |-> TRUE, price |-> maps[attempt.id].price]
                     ELSE [ok |-> FALSE, price |-> 0]
    BY <1>9 DEF InferPrice
  <2>2. RegTypeOK'
    BY <1>1, <2>1 DEF RegTypeOK, IsTable, Listed
  <2>3. ASSUME ~refreshed, ~cut, Selected
        PROVE  answer' = [ok |-> TRUE, price |-> registry[attempt.id].price]
    <3>1. /\ maps = registry /\ attempt.id \in Listed(registry)
          /\ registry[attempt.id].tier = attempt.tier
      BY <1>2, <2>1, <2>3 DEF CopyCurrent, SelectedListed
    <3>2. attempt.tier \in Nat
      BY <1>1, <2>1, RegistryAssumption DEF RegTypeOK
    <3>3. TierAllowed(attempt.tier, maps[attempt.id].tier)
      BY <3>1, <3>2 DEF TierAllowed
    <3> QED
      BY <2>1, <3>1, <3>3
  <2>4. ~refreshed /\ ~cut => AnswerDue'
    BY <2>1, <2>3 DEF AnswerDue, Selected
  <2>5. ~refreshed /\ ~cut => CopyCurrent' /\ ShippedIn' /\ SelectedListed'
    BY <1>2, <2>1 DEF CopyCurrent, ShippedIn, SelectedListed, Selected, Listed
  <2> QED
    BY <1>1, <2>1, <2>2, <2>4, <2>5 DEF RegInv, IsEntries, Listed
<1>10. CASE UNCHANGED regVars
  BY <1>1, <1>2, <1>10 DEF regVars, RegInv, RegTypeOK, IsEntries, IsTable, Listed, CopyCurrent,
    ShippedIn, SelectedListed, AnswerDue, Selected
<1> QED
  BY <1>4, <1>5, <1>6, <1>7, <1>8, <1>9, <1>10 DEF RegNext

(* A model selected for an attempt is served by the broker of the same      *)
(* process at the price on file, however often other commands load the      *)
(* shipped models again, until the registry is refreshed.                   *)
THEOREM SelectionServed == RegSpec => []SelectedIsServed
<1>1. RegInv => SelectedIsServed
  BY DEF RegInv, SelectedIsServed, AnswerDue, Selected
<1> QED
  BY <1>1, RegStarts, RegKept, PTL DEF RegSpec

LEMMA RegTypes == RegSpec => []RegTypeOK
<1>1. RegInv => RegTypeOK
  BY DEF RegInv
<1> QED
  BY <1>1, RegStarts, RegKept, PTL DEF RegSpec

(* What is charged is right: the cost log agrees with what was spent, and a *)
(* model selected for an attempt has the price it was selected at.          *)
THEOREM ChargesCorrect == BrokerSpec /\ RegSpec => []ChargesAgree
BY LedgerCorrect, SelectionServed, PTL DEF ChargesAgree

-----------------------------------------------------------------------------
(***************************************************************************)
(* THE PACKAGE GRAPH.                                                      *)
(***************************************************************************)
LEMMA GraphStarts ==
  ASSUME GraphInit
  PROVE  GraphInv
<1> USE DEF GraphInit, Resting, InStep
<1>1. GraphTyped
  <2>1. \A f \in GoFiles : source[f] \in Contents \cup {NoRow} /\ facts[f] \in Contents \cup {NoRow}
    OBVIOUS
  <2>2. GraphTypeOK
    BY <2>1 DEF GraphTypeOK
  <2> QED
    BY <2>2 DEF GraphTyped
<1>2. Current = {} /\ packages = {} /\ rebuild.step = "rest"
  BY DEF Current
<1> QED
  BY <1>1, <1>2 DEF GraphInv, FoundCurrent, FactsCurrent, ImplementsCurrent, PackagesCurrent,
     EdgesCurrent

(* A package has files. *)
LEMMA NoneFresh ==
  ASSUME GraphTypeOK, NEW p \in packages, Fresh(p)
  PROVE  stale # GoFiles
BY DEF GraphTypeOK, Fresh, Packages

(* The actions keep the types. *)
LEMMA GraphTypesKept ==
  ASSUME GraphTyped, FoundCurrent, [GraphNext]_graphVars
  PROVE  GraphTyped'
<1> USE DEF InStep
<1>1. GraphTypeOK /\ implements \in [GoFiles -> SUBSET GoFiles] /\ stale \subseteq GoFiles
      /\ packages \subseteq Packages /\ edges \subseteq packages \X packages
      /\ rebuild.todo \subseteq rebuild.found /\ rebuild.found \subseteq GoFiles
      /\ rebuild.step \in {"rest", "walk", "files", "packages", "edges"}
  BY DEF GraphTyped, GraphTypeOK
<1> DEFINE Row == Contents \cup {NoRow}
           Rows ==
             /\ source \in [GoFiles -> Row] /\ facts \in [GoFiles -> Row]
             /\ implements \in [GoFiles -> SUBSET GoFiles] /\ stale \subseteq GoFiles
           Drawing ==
             /\ packages \subseteq Packages /\ edges \subseteq packages \X packages
             /\ rebuild.step \in {"rest", "walk", "files", "packages", "edges"}
             /\ rebuild.todo \subseteq rebuild.found /\ rebuild.found \subseteq GoFiles
             /\ rebuild = [step |-> rebuild.step, found |-> rebuild.found, todo |-> rebuild.todo]
             /\ rebuild.step = "rest" => rebuild = Resting
             /\ rebuild.step \in {"walk", "files", "packages"} => packages = {} /\ edges = {}
             /\ rebuild.step = "edges" => \A f \in rebuild.found : Dir[f] \in packages
<1>2. Rows /\ Drawing
  BY <1>1 DEF GraphTyped
<1> SUFFICES Rows' /\ Drawing'
  <2>1. Rows' => \A f \in GoFiles : source'[f] \in Row /\ facts'[f] \in Row
    OBVIOUS
  <2>2. Rows' => \A f \in GoFiles : {source'[f], facts'[f]} \subseteq Row
    <3> HIDE DEF Row
    <3> QED
      BY <2>1
  <2>3. GraphTypeOK'
    BY <2>2 DEF GraphTypeOK
  <2> QED
    BY <2>3 DEF GraphTyped
<1> HIDE DEF Row
<1>3. CASE UNCHANGED graphVars
  BY <1>2, <1>3 DEF graphVars
<1>4. ASSUME NEW f \in GoFiles, CommitFile(f)
      PROVE  Rows' /\ Drawing'
  BY <1>2, <1>4 DEF CommitFile, Row, graphRows
<1>5. CASE ClearGraph
  BY <1>2, <1>5 DEF ClearGraph, Rebuild, Row, Resting
<1>6. CASE WalkTree
  BY <1>2, <1>6 DEF WalkTree, graphRows, graphCounts
<1>7. ASSUME NEW f \in GoFiles, IndexFile(f)
      PROVE  Rows' /\ Drawing'
  <2>1. rebuild' = [step |-> "files", found |-> rebuild.found, todo |-> rebuild.todo \ {f}]
    BY <1>2, <1>7 DEF IndexFile, Rebuild
  <2>2. Rows'
    BY <1>2, <1>7 DEF IndexFile
  <2> QED
    BY <1>2, <1>7, <2>1, <2>2 DEF IndexFile, graphRows
<1>8. CASE detectGoImplementations
  <2>1. rebuild' = [step |-> "packages", found |-> rebuild.found, todo |-> {}]
    BY <1>2, <1>8 DEF detectGoImplementations, Rebuild
  <2>2. Rows'
    BY <1>2, <1>8 DEF detectGoImplementations
  <2> QED
    BY <1>2, <1>8, <2>1, <2>2 DEF detectGoImplementations, graphRows
<1>9. CASE CreateIndexPackages
  <2>1. rebuild' = [step |-> "edges", found |-> rebuild.found, todo |-> rebuild.found]
    BY <1>2, <1>9 DEF CreateIndexPackages, Rebuild
  <2>2. packages' = {Dir[f] : f \in rebuild.found} /\ edges' = edges /\ edges = {}
    BY <1>2, <1>9 DEF CreateIndexPackages
  <2>3. packages' \subseteq Packages
    BY <1>2, <2>2 DEF Packages
  <2>4. Rows'
    BY <1>2, <1>9 DEF CreateIndexPackages
  <2> QED
    BY <1>2, <2>1, <2>2, <2>3, <2>4
<1>10. ASSUME NEW f \in GoFiles, AddPackageDeps(f)
       PROVE  Rows' /\ Drawing'
  <2>1. rebuild' = [step |-> "edges", found |-> rebuild.found, todo |-> rebuild.todo \ {f}]
    BY <1>2, <1>10 DEF AddPackageDeps, Rebuild
  <2>2. Rows' /\ packages' = packages
    BY <1>2, <1>10 DEF AddPackageDeps, graphCounts
  <2>3. Dir[f] \in packages /\ ImportsOf(f) \subseteq packages
    BY <1>2, <1>10 DEF AddPackageDeps, ImportsOf
  <2>4. edges' \subseteq packages \X packages
    <3>1. edges' \subseteq edges \cup ({Dir[f]} \X ImportsOf(f))
      BY <1>10 DEF AddPackageDeps
    <3>2. {Dir[f]} \X ImportsOf(f) \subseteq packages \X packages
      BY <2>3
    <3> QED
      BY <1>2, <3>1, <3>2
  <2>5. rebuild'.step = "edges" /\ rebuild'.found = rebuild.found
        /\ rebuild'.todo \subseteq rebuild'.found /\ rebuild'.found \subseteq GoFiles
        /\ rebuild' = [step |-> rebuild'.step, found |-> rebuild'.found, todo |-> rebuild'.todo]
    BY <1>2, <2>1
  <2>6. \A g \in rebuild'.found : Dir[g] \in packages'
    BY <1>2, <1>10, <2>2, <2>5 DEF AddPackageDeps
  <2> QED
    BY <1>2, <2>2, <2>4, <2>5, <2>6
<1>11. CASE EndRebuild
  BY <1>2, <1>11 DEF EndRebuild, graphRows, graphCounts, Resting
<1>12. CASE RebuildDies
  BY <1>2, <1>12 DEF RebuildDies, graphRows, graphCounts, Resting
<1> QED
  BY <1>3, <1>4, <1>5, <1>6, <1>7, <1>8, <1>9, <1>10, <1>11, <1>12 DEF GraphNext

LEMMA GraphKept ==
  ASSUME GraphInv, [GraphNext]_graphVars
  PROVE  GraphInv'
<1>1. GraphTyped'
  BY GraphTypesKept DEF GraphInv
<1> DEFINE Rest ==
      FoundCurrent /\ FactsCurrent /\ ImplementsCurrent /\ PackagesCurrent /\ EdgesCurrent
<1> SUFFICES Rest'
  BY <1>1 DEF GraphInv
<1>2. Rest /\ GraphTypeOK /\ implements \in [GoFiles -> SUBSET GoFiles] /\ stale \subseteq GoFiles
      /\ source \in [GoFiles -> Contents \cup {NoRow}] /\ facts \in [GoFiles -> Contents \cup {NoRow}]
      /\ rebuild.todo \subseteq rebuild.found /\ rebuild.found \subseteq GoFiles
      /\ rebuild.step \in {"rest", "walk", "files", "packages", "edges"}
      /\ rebuild = [step |-> rebuild.step, found |-> rebuild.found, todo |-> rebuild.todo]
      /\ packages \subseteq Packages /\ edges \subseteq packages \X packages
      /\ (rebuild.step = "rest" => rebuild = Resting)
      /\ (rebuild.step \in {"walk", "files", "packages"} => packages = {} /\ edges = {})
      /\ (rebuild.step = "edges" => \A f \in rebuild.found : Dir[f] \in packages)
  BY DEF GraphInv, GraphTyped, GraphTypeOK, InStep
<1> HIDE DEF Rest
<1>3. CASE UNCHANGED graphVars
  BY <1>2, <1>3 DEF graphVars, Rest, FoundCurrent, FactsCurrent, ImplementsCurrent, PackagesCurrent,
     EdgesCurrent, InStep, Current, ToIndex, Matches, Fresh, ListPackageDeps, Drawn
<1>4. ASSUME NEW f \in GoFiles, CommitFile(f)
      PROVE  Rest'
  <2>1. /\ rebuild' = rebuild /\ packages' = packages /\ edges' = edges /\ Current' = Current \ {f}
        /\ \A g \in Current' : /\ source'[g] = source[g] /\ facts'[g] = facts[g]
                               /\ implements'[g] = implements[g] /\ g \in Current /\ g \in GoFiles
    BY <1>2, <1>4 DEF CommitFile, graphRows, Current
  <2>2. FoundCurrent'
    BY <1>2, <2>1 DEF Rest, FoundCurrent, InStep
  <2>3. FactsCurrent'
    BY <1>2, <2>1 DEF Rest, FactsCurrent, ToIndex, InStep
  <2>4. ImplementsCurrent'
    BY <1>2, <2>1 DEF Rest, ImplementsCurrent, Matches, InStep
  <2>5. PackagesCurrent'
    BY <1>2, <2>1 DEF Rest, PackagesCurrent, InStep
  <2>6. ASSUME NEW p \in packages, Fresh(p)'
        PROVE  /\ Fresh(p) /\ ListPackageDeps(p)' = ListPackageDeps(p) /\ Drawn(p)' = Drawn(p)
    <3>1. Fresh(p) /\ \A g \in GoFiles : Dir[g] = p => source'[g] = source[g]
      BY <1>2, <1>4, <2>6 DEF CommitFile, Fresh
    <3> QED
      BY <2>1, <3>1 DEF ListPackageDeps, Drawn
  <2>7. EdgesCurrent'
    BY <1>2, <2>1, <2>6 DEF Rest, EdgesCurrent, InStep
  <2> QED
    BY <2>2, <2>3, <2>4, <2>5, <2>7 DEF Rest
<1>5. CASE ClearGraph
  BY <1>2, <1>5 DEF ClearGraph, Rebuild, Rest, FoundCurrent, FactsCurrent, ImplementsCurrent,
     PackagesCurrent, EdgesCurrent, InStep, Current, ToIndex
<1>6. CASE WalkTree
  BY <1>2, <1>6 DEF WalkTree, graphRows, graphCounts, Rest, FoundCurrent, FactsCurrent,
     ImplementsCurrent, PackagesCurrent, EdgesCurrent, InStep, Current, ToIndex
<1>7. ASSUME NEW f \in GoFiles, IndexFile(f)
      PROVE  Rest'
  <2>1. /\ rebuild' = [step |-> "files", found |-> rebuild.found, todo |-> rebuild.todo \ {f}]
        /\ rebuild.step = "files" /\ f \in rebuild.todo
        /\ source' = source /\ stale' = stale
    BY <1>2, <1>7 DEF IndexFile, Rebuild
  <2>2. FoundCurrent'
    BY <1>2, <2>1 DEF Rest, FoundCurrent, InStep, Current
  <2>3. FactsCurrent'
    BY <1>2, <1>7, <2>1 DEF IndexFile, Rest, FactsCurrent, ToIndex, InStep, Current
  <2> QED
    BY <2>1, <2>2, <2>3 DEF Rest, ImplementsCurrent, PackagesCurrent, EdgesCurrent, InStep
<1>8. CASE detectGoImplementations
  <2>1. /\ rebuild' = [step |-> "packages", found |-> rebuild.found, todo |-> {}]
        /\ rebuild.step = "files" /\ rebuild.todo = {}
        /\ source' = source /\ stale' = stale /\ facts' = facts
        /\ implements' = [f \in GoFiles |-> {g \in GoFiles : Matches(g, f)}]
    BY <1>2, <1>8 DEF detectGoImplementations, Rebuild
  <2>2. FoundCurrent'
    BY <1>2, <2>1 DEF Rest, FoundCurrent, InStep, Current
  <2>3. FactsCurrent'
    BY <1>2, <2>1 DEF Rest, FactsCurrent, ToIndex, InStep, Current
  <2>4. ImplementsCurrent'
    BY <2>1 DEF ImplementsCurrent, Current, Matches
  <2> QED
    BY <2>1, <2>2, <2>3, <2>4 DEF Rest, PackagesCurrent, EdgesCurrent, InStep
<1>9. CASE CreateIndexPackages
  <2>1. /\ rebuild' = [step |-> "edges", found |-> rebuild.found, todo |-> rebuild.found]
        /\ rebuild.step = "packages" /\ packages' = {Dir[f] : f \in rebuild.found}
        /\ source' = source /\ stale' = stale /\ facts' = facts /\ implements' = implements
        /\ edges' = {}
    BY <1>2, <1>9 DEF CreateIndexPackages, Rebuild
  <2>2. FoundCurrent' /\ \A f \in Current : f \in rebuild.found <=> source[f] # NoRow
    BY <1>2, <2>1 DEF Rest, FoundCurrent, InStep, Current
  <2>3. FactsCurrent'
    BY <1>2, <2>1 DEF Rest, FactsCurrent, ToIndex, InStep, Current
  <2>4. ImplementsCurrent'
    BY <1>2, <2>1 DEF Rest, ImplementsCurrent, InStep, Current, Matches
  <2>5. PackagesCurrent'
    BY <2>1, <2>2 DEF PackagesCurrent, Current
  <2>6. EdgesCurrent'
    <3> SUFFICES ASSUME NEW p \in packages', Fresh(p)'
                 PROVE  ListPackageDeps(p)' = {} /\ Drawn(p)' = {}
      BY DEF EdgesCurrent
    <3>1. \A f \in GoFiles : Dir[f] = p => f \in Current
      BY <2>1 DEF Fresh, Current
    <3>2. \A f \in GoFiles \ rebuild'.todo : Dir[f] = p => source'[f] = NoRow
      BY <2>1, <2>2, <3>1
    <3> QED
      BY <2>1, <3>2 DEF ListPackageDeps, Drawn
  <2> QED
    BY <2>2, <2>3, <2>4, <2>5, <2>6 DEF Rest
<1>10. ASSUME NEW f \in GoFiles, AddPackageDeps(f)
       PROVE  Rest'
  <2>1. /\ rebuild' = [step |-> "edges", found |-> rebuild.found, todo |-> rebuild.todo \ {f}]
        /\ rebuild.step = "edges" /\ packages' = packages /\ f \in rebuild.todo
        /\ source' = source /\ stale' = stale /\ facts' = facts /\ implements' = implements
    BY <1>2, <1>10 DEF AddPackageDeps, Rebuild
  <2>2. FoundCurrent'
    BY <1>2, <2>1 DEF Rest, FoundCurrent, InStep, Current
  <2>3. FactsCurrent'
    BY <1>2, <2>1 DEF Rest, FactsCurrent, ToIndex, InStep, Current
  <2>4. ImplementsCurrent'
    BY <1>2, <2>1 DEF Rest, ImplementsCurrent, InStep, Current, Matches
  <2>5. PackagesCurrent'
    BY <1>2, <2>1 DEF Rest, PackagesCurrent, InStep, Current
  <2>6. EdgesCurrent'
    <3> SUFFICES ASSUME NEW p \in packages, Fresh(p)
                 PROVE  ListPackageDeps(p)' = Drawn(p)'
      BY <2>1 DEF EdgesCurrent, Fresh
    <3>1. ListPackageDeps(p) = Drawn(p)
      BY <1>2, <2>1 DEF Rest, EdgesCurrent, InStep
    <3> DEFINE New == IF Dir[f] = p /\ facts[f] # NoRow THEN ImportsOf(f) ELSE {}
    <3>2. ListPackageDeps(p)' = ListPackageDeps(p) \cup New
      <4>1. edges' = IF facts[f] = NoRow THEN edges ELSE edges \cup ({Dir[f]} \X ImportsOf(f))
        BY <1>10 DEF AddPackageDeps
      <4>2. ListPackageDeps(p)' = {q \in packages : <<p, q>> \in edges'}
        BY <2>1 DEF ListPackageDeps
      <4>3. ImportsOf(f) \subseteq packages
        BY DEF ImportsOf
      <4>4. \A q : <<p, q>> \in {Dir[f]} \X ImportsOf(f) <=> Dir[f] = p /\ q \in ImportsOf(f)
        OBVIOUS
      <4> QED
        BY <4>1, <4>2, <4>3, <4>4 DEF ListPackageDeps
    <3>3. Drawn(p)' = Drawn(p) \cup New
      <4>1. Dir[f] = p => facts[f] = source[f]
        BY <1>2, <2>1 DEF Rest, FactsCurrent, Fresh, Current, ToIndex, InStep
      <4>2. Drawn(p)' = {q \in packages \ {p} : \E g \in GoFiles \ (rebuild.todo \ {f}) :
              Dir[g] = p /\ source[g] # NoRow /\ \E i \in source[g].imports : Named(i, q)}
        BY <2>1 DEF Drawn
      <4> QED
        BY <2>1, <4>1, <4>2 DEF Drawn, ImportsOf
    <3> QED
      BY <3>1, <3>2, <3>3
  <2> QED
    BY <2>2, <2>3, <2>4, <2>5, <2>6 DEF Rest
<1>11. CASE EndRebuild
  <2>1. /\ rebuild' = Resting /\ rebuild.step = "edges" /\ rebuild.todo = {}
        /\ packages' = packages /\ edges' = edges
        /\ source' = source /\ stale' = stale /\ facts' = facts /\ implements' = implements
    BY <1>11 DEF EndRebuild, graphRows
  <2>2. FoundCurrent' /\ PackagesCurrent' /\ ImplementsCurrent' /\ FactsCurrent'
    BY <1>2, <2>1 DEF Rest, FoundCurrent, PackagesCurrent, ImplementsCurrent, FactsCurrent, InStep,
       Current, Matches, ToIndex, Resting
  <2>3. \A p : Drawn(p)' = Drawn(p) /\ ListPackageDeps(p)' = ListPackageDeps(p)
    BY <2>1 DEF Drawn, ListPackageDeps, Resting
  <2>4. EdgesCurrent'
    BY <1>2, <2>1, <2>3 DEF Rest, EdgesCurrent, InStep, Fresh
  <2> QED
    BY <2>2, <2>4 DEF Rest
<1>12. CASE RebuildDies
  <2>1. stale' = GoFiles /\ rebuild' = Resting /\ Current' = {}
    BY <1>12 DEF RebuildDies, Current
  <2>2. \A p \in packages' : ~Fresh(p)'
    BY <1>2, <1>12, <2>1 DEF RebuildDies, graphRows, Fresh, Packages
  <2> QED
    BY <2>1, <2>2 DEF Rest, FoundCurrent, FactsCurrent, ImplementsCurrent, PackagesCurrent,
       EdgesCurrent, InStep, Resting
<1> QED
  BY <1>3, <1>4, <1>5, <1>6, <1>7, <1>8, <1>9, <1>10, <1>11, <1>12 DEF GraphNext

(* When no refresh is under way, what the index holds is the tree's. *)
LEMMA GraphIsTrees ==
  ASSUME GraphInv
  PROVE  GraphOfRebuild
<1> SUFFICES ASSUME rebuild = Resting PROVE GraphOfRebuild
  BY DEF GraphOfRebuild
<1>1. rebuild.step = "rest" /\ rebuild.todo = {}
  BY DEF Resting
<1>2. \A f \in GoFiles \ stale :
        facts[f] = source[f] /\ (source[f] # NoRow => Dir[f] \in packages)
  BY <1>1 DEF GraphInv, FactsCurrent, PackagesCurrent, ToIndex, InStep, Current
<1>3. \A p : Drawn(p) = Imported(p)
  BY <1>1 DEF Drawn, Imported
<1>4. \A p \in packages : Fresh(p) => ListPackageDeps(p) = Imported(p)
  BY <1>1, <1>3 DEF GraphInv, EdgesCurrent, InStep
<1>5. \A f, g \in GoFiles \ stale : g \in implements[f] <=> Matches(g, f)
  BY <1>1 DEF GraphInv, ImplementsCurrent, InStep, Current
<1> QED
  BY <1>2, <1>4, <1>5 DEF GraphOfRebuild

(* The iterates of a function exist. *)
Iterable(D, next, a) ==
  \E f \in [Nat -> D] : f[0] = a /\ \A n \in Nat : f[n + 1] = next[f[n]]

LEMMA Iterates ==
  ASSUME NEW D, NEW next \in [D -> D], NEW a \in D
  PROVE  Iterable(D, next, a)
<1> DEFINE step == [n \in Nat |-> next]
<1>1. step \in [Nat -> [D -> D]] /\ \A n \in Nat : step[n] = next
  OBVIOUS
<1> HIDE DEF step
<1>2. Computable(D, step, a)
  BY <1>1, Recursion
<1> QED
  BY <1>1, <1>2 DEF Computable, Iterable

(* A breadth-first search from a node of a finite graph ends with all that  *)
(* can be reached from it.                                                  *)
Searches(P, E, root, f) ==
  /\ f \in [Nat -> SUBSET P] /\ f[0] = {root}
  /\ \A n \in Nat : f[n + 1] = f[n] \cup {q \in P : \E p \in f[n] : <<p, q>> \in E}
Reaches(P, E, root, part) ==
  /\ root \in part /\ \A e \in E : e[1] \in part => e[2] \in part
  /\ \A S \in SUBSET P :
       root \in S /\ (\A e \in E : e[1] \in S => e[2] \in S) => part \subseteq S

LEMMA SearchEnds ==
  ASSUME NEW P, IsFiniteSet(P), NEW E \in SUBSET (P \X P), NEW root \in P,
         NEW f, Searches(P, E, root, f)
  PROVE  Reaches(P, E, root, f[Cardinality(P)])
<1> USE DEF Searches
<1> DEFINE N == Cardinality(P)
           A == {n \in Nat : root \in f[n]}
           B == {n \in Nat : f[n + 1] = f[n] \/ Cardinality(f[n]) >= n + 1}
<1>1. N \in Nat
  BY FS_CardinalityType
<1>2. Nat \subseteq A
  <2>1. 0 \in A /\ \A n \in Nat : n \in A => n + 1 \in A
    OBVIOUS
  <2> HIDE DEF A
  <2> QED
    BY <2>1, Induction
<1>3. Nat \subseteq B
  <2>1. 0 \in B
    <3>1. Cardinality({root}) = 1
      BY FS_Singleton
    <3>2. f[0] = {root} /\ 0 + 1 = 1 /\ 0 \in Nat
      OBVIOUS
    <3>3. Cardinality(f[0]) >= 0 + 1
      BY <3>1, <3>2
    <3> QED
      BY <3>3
  <2>2. ASSUME NEW n \in Nat, n \in B
        PROVE  n + 1 \in B
    <3>1. CASE f[n + 1] = f[n]
      <4>1. f[n + 1] = f[n] \cup {q \in P : \E p \in f[n] : <<p, q>> \in E}
        OBVIOUS
      <4>2. f[n + 1 + 1] = f[n + 1] \cup {q \in P : \E p \in f[n + 1] : <<p, q>> \in E}
        <5> DEFINE m == n + 1
        <5>1. m \in Nat
          OBVIOUS
        <5> HIDE DEF m
        <5>2. f[m + 1] = f[m] \cup {q \in P : \E p \in f[m] : <<p, q>> \in E}
          BY <5>1
        <5> QED
          BY <5>2 DEF m
      <4>3. f[n + 1 + 1] = f[n + 1]
        BY <3>1, <4>1, <4>2, Zenon
      <4> QED
        BY <4>3
    <3>2. CASE f[n + 1] # f[n]
      <4>1. f[n] \subseteq f[n + 1] /\ f[n + 1] \subseteq P /\ Cardinality(f[n]) >= n + 1
        BY <2>2, <3>2
      <4>2. IsFiniteSet(f[n + 1])
        BY <4>1, FS_Subset
      <4>3. /\ Cardinality(f[n]) \in Nat /\ Cardinality(f[n + 1]) \in Nat
            /\ Cardinality(f[n]) < Cardinality(f[n + 1])
        <5>1. IsFiniteSet(f[n]) /\ Cardinality(f[n]) <= Cardinality(f[n + 1])
              /\ (Cardinality(f[n]) = Cardinality(f[n + 1]) => f[n] = f[n + 1])
          BY <4>1, <4>2, FS_Subset
        <5>2. Cardinality(f[n]) \in Nat /\ Cardinality(f[n + 1]) \in Nat
          BY <4>2, <5>1, FS_CardinalityType
        <5> QED
          BY <3>2, <5>1, <5>2
      <4>4. Cardinality(f[n + 1]) >= n + 1 + 1
        BY <4>1, <4>3
      <4> QED
        BY <4>4
    <3> QED
      BY <3>1, <3>2
  <2> HIDE DEF B
  <2> QED
    BY <2>1, <2>2, Induction
<1>4. f[N + 1] = f[N]
  <2>1. f[N] \subseteq P /\ N \in B
    BY <1>1, <1>3
  <2>2. Cardinality(f[N]) <= N /\ Cardinality(f[N]) \in Nat
    <3> HIDE DEF B
    <3> QED
      BY <2>1, FS_Subset, FS_CardinalityType
  <2>3. f[N + 1] = f[N] \/ Cardinality(f[N]) >= N + 1
    BY <2>1
  <2> HIDE DEF N, B
  <2> QED
    BY <1>1, <2>2, <2>3
<1>5. root \in f[N]
  BY <1>1, <1>2
<1>6. ASSUME NEW e \in E, e[1] \in f[N]
      PROVE  e[2] \in f[N]
  <2>1. e = <<e[1], e[2]>> /\ e[2] \in P
    OBVIOUS
  <2>2. f[N + 1] = f[N] \cup {q \in P : \E p \in f[N] : <<p, q>> \in E}
    BY <1>1
  <2> HIDE DEF N
  <2> QED
    BY <1>4, <1>6, <2>1, <2>2
<1>7. ASSUME NEW S \in SUBSET P, root \in S, \A e \in E : e[1] \in S => e[2] \in S
      PROVE  f[N] \subseteq S
  <2> DEFINE C == {n \in Nat : f[n] \subseteq S}
  <2>1. 0 \in C
    BY <1>7
  <2>2. ASSUME NEW n \in Nat, n \in C
        PROVE  n + 1 \in C
    <3>1. ASSUME NEW p, NEW q, <<p, q>> \in E, p \in S
          PROVE  q \in S
      <4> DEFINE e == <<p, q>>
      <4>1. e \in E /\ e[1] = p /\ e[2] = q
        BY <3>1
      <4> HIDE DEF e
      <4> QED
        BY <1>7, <3>1, <4>1
    <3>2. f[n + 1] = f[n] \cup {q \in P : \E p \in f[n] : <<p, q>> \in E} /\ f[n] \subseteq S
      BY <2>2
    <3>3. f[n + 1] \subseteq S
      BY <3>1, <3>2
    <3> QED
      BY <3>3
  <2>3. Nat \subseteq C
    <3> HIDE DEF C
    <3> QED
      BY <2>1, <2>2, Induction
  <2> QED
    BY <1>1, <2>3
<1> QED
  BY <1>5, <1>6, <1>7 DEF Reaches

(* What Visited computes. *)
LEMMA VisitedIs ==
  ASSUME NEW root \in packages
  PROVE  \E f : Searches(packages, edges, root, f) /\ Visited(root) = f[Cardinality(packages)]
<1> DEFINE Wider(S) == S \cup UNION {ListPackageDeps(p) : p \in S}
           Wide(S) == S \cup {q \in packages : \E p \in S : <<p, q>> \in edges}
           Body(f) == [n \in Nat |-> IF n = 0 THEN {root} ELSE Wider(f[n - 1])]
           next == [S \in SUBSET packages |-> Wide(S)]
           W == CHOOSE f : f = Body(f)
<1>1. ASSUME NEW S
      PROVE  Wider(S) = Wide(S)
  <2>1. \A q : q \in UNION {ListPackageDeps(p) : p \in S} <=> \E p \in S : q \in ListPackageDeps(p)
    BY Zenon
  <2>2. \A p, q : q \in ListPackageDeps(p) <=> q \in packages /\ <<p, q>> \in edges
    BY DEF ListPackageDeps
  <2>3. \A q : q \in UNION {ListPackageDeps(p) : p \in S}
              <=> q \in {r \in packages : \E p \in S : <<p, r>> \in edges}
    BY <2>1, <2>2, Zenon
  <2> QED
    BY <2>3
<1>2. next \in [SUBSET packages -> SUBSET packages] /\ {root} \in SUBSET packages
  OBVIOUS
<1>3. PICK f \in [Nat -> SUBSET packages] :
        f[0] = {root} /\ \A n \in Nat : f[n + 1] = next[f[n]]
  <2> HIDE DEF next
  <2>1. Iterable(SUBSET packages, next, {root})
    BY <1>2, Iterates
  <2> QED
    BY <2>1 DEF Iterable
<1> HIDE DEF Wider
<1>4. f = Body(f)
  <2>1. \A n \in Nat : n # 0 => n - 1 \in Nat /\ n - 1 + 1 = n
    OBVIOUS
  <2>2. \A n \in Nat : next[f[n]] = Wider(f[n])
    BY <1>1, <1>3
  <2>3. \A n \in Nat : f[n] = IF n = 0 THEN {root} ELSE Wider(f[n - 1])
    BY <1>3, <2>1, <2>2
  <2> QED
    BY <1>3, <2>3
<1>5. W = Body(W)
  <2> HIDE DEF Body
  <2> QED
    BY <1>4
<1> HIDE DEF W
<1>6. W[0] = {root} /\ \A n \in Nat : W[n + 1] = Wide(W[n])
  <2>2. \A n \in Nat : W[n] = IF n = 0 THEN {root} ELSE Wider(W[n - 1])
    BY <1>5
  <2>3. ASSUME NEW n \in Nat
        PROVE  W[n + 1] = Wide(W[n])
    <3>1. n + 1 # 0 /\ n + 1 - 1 = n /\ n + 1 \in Nat
      OBVIOUS
    <3>2. W[n + 1] = Wider(W[n])
      <4> HIDE DEF Wide
      <4> QED
        BY <2>2, <3>1
    <3> QED
      BY <1>1, <3>2
  <2> QED
    BY <2>2, <2>3
<1>7. W \in [Nat -> SUBSET packages]
  <2> DEFINE A == {n \in Nat : W[n] \subseteq packages}
  <2>1. 0 \in A /\ \A n \in Nat : n \in A => n + 1 \in A
    BY <1>6
  <2>2. Nat \subseteq A
    <3> HIDE DEF A
    <3> QED
      BY <2>1, Induction
  <2>3. W = [n \in Nat |-> W[n]]
    BY <1>5
  <2> QED
    BY <2>2, <2>3
<1>8. Visited(root) = W[Cardinality(packages)]
  BY DEF Visited, W, Wider
<1> QED
  BY <1>6, <1>7, <1>8 DEF Searches

LEMMA PackagesFinite ==
  ASSUME GraphTypeOK
  PROVE  IsFiniteSet(packages)
<1>1. [f \in GoFiles |-> Dir[f]] \in Surjection(GoFiles, Packages)
  BY DEF Surjection, Packages
<1>2. IsFiniteSet(Packages)
  BY <1>1, GraphAssumption, FS_Surjection
<1> QED
  BY <1>2, FS_Subset DEF GraphTypeOK

LEMMA SearchFinds ==
  ASSUME GraphTypeOK
  PROVE  GraphReachable
<1> SUFFICES ASSUME NEW root \in packages
    PROVE  LET part == ModuleGraphFrom(root)
               closed(S) == root \in S /\ \A e \in edges : e[1] \in S => e[2] \in S
           IN  /\ closed(part.nodes)
               /\ \A S \in SUBSET packages : closed(S) => part.nodes \subseteq S
               /\ part.arrows = {e \in edges : e[1] \in part.nodes}
  BY DEF GraphReachable
<1>1. PICK f : Searches(packages, edges, root, f) /\ Visited(root) = f[Cardinality(packages)]
  BY VisitedIs
<1>2. IsFiniteSet(packages) /\ edges \in SUBSET (packages \X packages)
  BY PackagesFinite DEF GraphTypeOK
<1> DEFINE part == f[Cardinality(packages)]
<1>3. Reaches(packages, edges, root, part)
  BY <1>1, <1>2, SearchEnds
<1>4. ModuleGraphFrom(root) = [nodes |-> part, arrows |-> {e \in edges : e[1] \in part}]
  BY <1>1 DEF ModuleGraphFrom
<1> HIDE DEF part
<1> QED
  BY <1>3, <1>4 DEF Reaches

(* The package graph is the one of the last rebuild. *)
THEOREM GraphCorrect == GraphSpec => []GraphFaithful
<1>1. GraphInit => GraphInv
  BY GraphStarts
<1>2. GraphInv /\ [GraphNext]_graphVars => GraphInv'
  BY GraphKept
<1>3. GraphInv => GraphFaithful
  BY GraphIsTrees, SearchFinds DEF GraphInv, GraphTyped, GraphFaithful
<1> QED
  BY <1>1, <1>2, <1>3, PTL DEF GraphSpec

LEMMA GraphTypes == GraphSpec => []GraphTypeOK
<1>1. GraphInit => GraphInv
  BY GraphStarts
<1>2. GraphInv /\ [GraphNext]_graphVars => GraphInv'
  BY GraphKept
<1>3. GraphInv => GraphTypeOK
  BY DEF GraphInv, GraphTyped
<1> QED
  BY <1>1, <1>2, <1>3, PTL DEF GraphSpec

-----------------------------------------------------------------------------
(***************************************************************************)
(* THE API SERVER.                                                         *)
(***************************************************************************)
(* What InWindow computes, time by time. *)
Keeps(times, at, kept) ==
  /\ kept \in [0..Len(times) -> Seq(Nat)]
  /\ kept[0] = <<>> /\ InWindow(times, at) = kept[Len(times)]
  /\ \A i \in 1..Len(times) :
       kept[i] = IF times[i] + Window > at THEN Append(kept[i - 1], times[i]) ELSE kept[i - 1]

LEMMA WindowSteps ==
  ASSUME NEW times \in Seq(Nat), NEW at \in Nat
  PROVE  \E kept : Keeps(times, at, kept)
<1> DEFINE N == Len(times)
           After(i, s) == IF times[i] + Window > at THEN Append(s, times[i]) ELSE s
           step == [i \in 1..N |-> [s \in Seq(Nat) |-> After(i, s)]]
           Body(f) == [i \in 0..N |-> IF i = 0 THEN <<>> ELSE After(i, f[i - 1])]
           W == CHOOSE f : f = Body(f)
<1>1. N \in Nat /\ \A i \in 1..N : times[i] \in Nat
  OBVIOUS
<1>2. step \in [1..N -> [Seq(Nat) -> Seq(Nat)]] /\ <<>> \in Seq(Nat)
  BY <1>1
<1>3. PICK f \in [0..N -> Seq(Nat)] : f = [i \in 0..N |-> IF i = 0 THEN <<>> ELSE step[i][f[i - 1]]]
  <2> HIDE DEF step, N
  <2>1. Loops(Seq(Nat), N, step, <<>>)
    BY <1>1, <1>2, Loop
  <2> QED
    BY <2>1 DEF Loops
<1>4. f = Body(f)
  <2>1. ASSUME NEW i \in 0..N
        PROVE  f[i] = IF i = 0 THEN <<>> ELSE After(i, f[i - 1])
    <3>1. CASE i = 0
      BY <1>3, <3>1
    <3>2. CASE i # 0
      <4>1. i \in 1..N /\ i - 1 \in 0..N
        BY <1>1, <3>2
      <4>2. f[i] = step[i][f[i - 1]] /\ f[i - 1] \in Seq(Nat)
        <5> HIDE DEF step
        <5> QED
          BY <1>3, <3>2, <4>1
      <4> QED
        BY <3>2, <4>1, <4>2
    <3> QED
      BY <3>1, <3>2
  <2> HIDE DEF After
  <2> QED
    BY <1>3, <2>1
<1>5. W = Body(W)
  <2> HIDE DEF Body
  <2> QED
    BY <1>4
<1>6. InWindow(times, at) = W[N]
  BY DEF InWindow
<1> HIDE DEF W
<1>7. \A i \in 0..N : W[i] = IF i = 0 THEN <<>> ELSE After(i, W[i - 1])
  <2> HIDE DEF After
  <2> QED
    BY <1>5
<1>8. W[0] = <<>> /\ \A i \in 1..N : W[i] = After(i, W[i - 1])
  <2> HIDE DEF After
  <2>1. 0 \in 0..N /\ \A i \in 1..N : i \in 0..N /\ i # 0
    BY <1>1
  <2> QED
    BY <1>7, <2>1
<1>9. f[0] = <<>> /\ \A i \in 1..N : f[i] = After(i, f[i - 1])
  <2> HIDE DEF After
  <2>1. \A i \in 0..N : f[i] = IF i = 0 THEN <<>> ELSE After(i, f[i - 1])
    BY <1>4
  <2>2. 0 \in 0..N /\ \A i \in 1..N : i \in 0..N /\ i # 0
    BY <1>1
  <2> QED
    BY <2>1, <2>2
<1>10. \A i \in 0..N : W[i] = f[i]
  <2> HIDE DEF N
  <2>1. \A i \in 1..N : W[i - 1] = f[i - 1] => W[i] = f[i]
    BY <1>8, <1>9
  <2>2. Alike(N, W, f)
    BY <1>8, <1>9, <2>1 DEF Alike
  <2> QED
    BY <1>1, <2>2, SameLoop
<1>11. Keeps(times, at, f)
  <2>1. N \in 0..N
    BY <1>1
  <2>2. InWindow(times, at) = f[N]
    BY <1>6, <1>10, <2>1
  <2> QED
    BY <1>3, <1>9, <2>2 DEF Keeps
<1> QED
  BY <1>11

LEMMA WindowEmpty ==
  ASSUME NEW at \in Nat
  PROVE  InWindow(<<>>, at) = <<>>
<1>1. <<>> \in Seq(Nat) /\ Len(<<>>) = 0
  OBVIOUS
<1> QED
  BY <1>1, WindowSteps DEF Keeps

LEMMA WindowTyped ==
  ASSUME NEW times \in Seq(Nat), NEW at \in Nat
  PROVE  InWindow(times, at) \in Seq(Nat)
<1>1. Len(times) \in 0..Len(times)
  OBVIOUS
<1> QED
  BY <1>1, WindowSteps DEF Keeps

LEMMA WindowAppend ==
  ASSUME NEW times \in Seq(Nat), NEW at \in Nat, NEW e \in Nat
  PROVE  InWindow(Append(times, e), at) =
           IF e + Window > at THEN Append(InWindow(times, at), e) ELSE InWindow(times, at)
<1> DEFINE N == Len(times)
           longer == Append(times, e)
           After(s, i, k) == IF s[i] + Window > at THEN Append(k, s[i]) ELSE k
<1>1. longer \in Seq(Nat) /\ Len(longer) = N + 1 /\ longer[N + 1] = e /\ N \in Nat
      /\ \A i \in 1..N : longer[i] = times[i]
  OBVIOUS
<1>2. PICK f : /\ f[0] = <<>> /\ InWindow(times, at) = f[N]
               /\ \A i \in 1..N : f[i] = After(times, i, f[i - 1])
  <2>1. PICK f : Keeps(times, at, f)
    BY WindowSteps
  <2> QED
    BY <2>1 DEF Keeps
<1>3. PICK g : /\ g[0] = <<>> /\ InWindow(longer, at) = g[N + 1]
               /\ \A i \in 1..(N + 1) : g[i] = After(longer, i, g[i - 1])
  <2> HIDE DEF longer, N
  <2>1. PICK g : Keeps(longer, at, g)
    BY <1>1, WindowSteps
  <2> QED
    BY <1>1, <2>1 DEF Keeps
<1> HIDE DEF longer, N
<1>4. f[N] = g[N]
  <2>1. ASSUME NEW i \in 1..N, f[i - 1] = g[i - 1]
        PROVE  f[i] = g[i]
    <3>1. i \in 1..(N + 1) /\ longer[i] = times[i]
      BY <1>1
    <3> QED
      BY <1>2, <1>3, <2>1, <3>1
  <2>2. Alike(N, f, g)
    BY <1>2, <1>3, <2>1 DEF Alike
  <2>3. N \in 0..N
    BY <1>1
  <2> QED
    BY <1>1, <2>2, <2>3, SameLoop
<1>5. g[N + 1] = After(longer, N + 1, g[N])
  <2> DEFINE i == N + 1
  <2>1. i \in 1..(N + 1) /\ i - 1 = N
    BY <1>1
  <2> HIDE DEF i
  <2>2. g[i] = After(longer, i, g[N])
    BY <1>3, <2>1
  <2> QED
    BY <2>2 DEF i
<1> QED
  BY <1>1, <1>2, <1>3, <1>4, <1>5 DEF longer

(* What is looked for at one time and what is left of it later are what is   *)
(* looked for later.                                                         *)
LEMMA WindowAgain ==
  ASSUME NEW at \in Nat, NEW later \in Nat, at <= later, Window \in Nat
  PROVE  \A times \in Seq(Nat) : InWindow(InWindow(times, at), later) = InWindow(times, later)
<1> DEFINE A == {times \in Seq(Nat) : InWindow(InWindow(times, at), later) = InWindow(times, later)}
<1>1. <<>> \in A
  BY WindowEmpty
<1>2. ASSUME NEW s \in Seq(Nat), NEW e \in Nat, s \in A
      PROVE  Append(s, e) \in A
  <2>1. InWindow(InWindow(s, at), later) = InWindow(s, later) /\ InWindow(s, at) \in Seq(Nat)
    BY <1>2, WindowTyped
  <2>2. InWindow(Append(s, e), at) =
          IF e + Window > at THEN Append(InWindow(s, at), e) ELSE InWindow(s, at)
    BY WindowAppend
  <2>3. InWindow(Append(s, e), later) =
          IF e + Window > later THEN Append(InWindow(s, later), e) ELSE InWindow(s, later)
    BY WindowAppend
  <2>4. InWindow(Append(InWindow(s, at), e), later) =
          IF e + Window > later THEN Append(InWindow(InWindow(s, at), later), e)
          ELSE InWindow(InWindow(s, at), later)
    BY <2>1, WindowAppend
  <2>5. e + Window > later => e + Window > at
    OBVIOUS
  <2>6. Append(s, e) \in Seq(Nat)
    OBVIOUS
  <2> QED
    BY <2>1, <2>2, <2>3, <2>4, <2>5, <2>6
<1> HIDE DEF A
<1>3. Seq(Nat) \subseteq A
  BY <1>1, <1>2, InductionOnSeq
<1> QED
  BY <1>3 DEF A

LEMMA WindowShorter ==
  ASSUME NEW at \in Nat
  PROVE  \A times \in Seq(Nat) : Len(InWindow(times, at)) <= Len(times)
<1> DEFINE A == {times \in Seq(Nat) : Len(InWindow(times, at)) <= Len(times)}
<1>1. <<>> \in A
  BY WindowEmpty
<1>2. ASSUME NEW s \in Seq(Nat), NEW e \in Nat, s \in A
      PROVE  Append(s, e) \in A
  <2>1. InWindow(s, at) \in Seq(Nat) /\ Len(InWindow(s, at)) <= Len(s)
    BY <1>2, WindowTyped
  <2>2. InWindow(Append(s, e), at) =
          IF e + Window > at THEN Append(InWindow(s, at), e) ELSE InWindow(s, at)
    BY WindowAppend
  <2>3. /\ Append(s, e) \in Seq(Nat) /\ Len(Append(s, e)) = Len(s) + 1 /\ Len(s) \in Nat
        /\ Len(Append(InWindow(s, at), e)) = Len(InWindow(s, at)) + 1 /\ Len(InWindow(s, at)) \in Nat
    BY <2>1
  <2>4. Len(InWindow(Append(s, e), at)) <= Len(Append(s, e))
    BY <2>1, <2>2, <2>3
  <2> QED
    BY <2>3, <2>4
<1> HIDE DEF A
<1>3. Seq(Nat) \subseteq A
  BY <1>1, <1>2, InductionOnSeq
<1> QED
  BY <1>3 DEF A

LEMMA ControlStarts ==
  ASSUME ControlInit
  PROVE  ControlInv
<1> USE DEF ControlInit, Closed
<1>1. LimiterInv
  BY ControlAssumption, WindowEmpty DEF LimiterInv
<1>2. SocketsTyped
  BY DEF SocketsTyped
<1>3. \A k : Dispatching(k) = {}
  BY DEF Dispatching
<1>4. Cardinality({}) = 0 /\ 0 + 0 = 0 /\ 0 \in 0..MaxEffects
  BY FS_EmptySet, ControlAssumption
<1>5. \A k \in ApiKeys : executed[k] = 0 /\ sent[k] = 0 /\ Cardinality(Dispatching(k)) = 0
  BY <1>3, <1>4
<1>6. executed \in [ApiKeys -> 0..MaxEffects] /\ sent \in [ApiKeys -> 0..MaxEffects]
  BY <1>4
<1> QED
  BY <1>1, <1>2, <1>4, <1>5, <1>6 DEF ControlInv, SocketsInv

(* The bucket of a token, cleaned or not, holds the requests that count. *)
LEMMA CleanKeeps ==
  ASSUME LimiterInv, NEW t \in Tokens
  PROVE  Clean(t) \in Seq(Nat) /\ InWindow(Clean(t), now) = passed[t]
<1>1. now \in Nat /\ buckets[t] \in Seq(Nat) /\ passed[t] = InWindow(buckets[t], now)
  BY ControlAssumption DEF LimiterInv
<1>2. /\ InWindow(buckets[t], now) \in Seq(Nat)
      /\ InWindow(InWindow(buckets[t], now), now) = InWindow(buckets[t], now)
  BY <1>1, WindowTyped, WindowAgain, ControlAssumption
<1> QED
  BY <1>1, <1>2 DEF Clean

LEMMA LimiterKept ==
  ASSUME LimiterInv, [ControlNext]_controlVars
  PROVE  LimiterInv'
<1>1. /\ now \in 0..MaxTime /\ now \in Nat /\ MaxTime \in Nat /\ RPM \in Nat /\ Window \in Nat \ {0}
      /\ buckets \in [Tokens -> Seq(Nat)] /\ passed \in [Tokens -> Seq(Nat)]
      /\ lastClean \in [Tokens -> Nat]
      /\ standing \in [Tokens -> {"valid", "revoked", "expired"}]
  BY ControlAssumption DEF LimiterInv
<1>2. ASSUME UNCHANGED <<now, buckets, lastClean, passed>>,
             standing' \in [Tokens -> {"valid", "revoked", "expired"}]
      PROVE  LimiterInv'
  BY <1>2 DEF LimiterInv
<1>3. CASE UNCHANGED controlVars
  BY <1>1, <1>2, <1>3 DEF controlVars
<1>4. CASE Tick
  <2>1. /\ now' = now + 1 /\ now' \in 0..MaxTime /\ now' \in Nat /\ now <= now'
        /\ passed' = [t \in Tokens |-> InWindow(passed[t], now')]
        /\ UNCHANGED <<standing, buckets, lastClean>>
    BY <1>1, <1>4 DEF Tick
  <2>2. ASSUME NEW t \in Tokens
        PROVE  /\ passed'[t] = InWindow(buckets[t], now') /\ passed'[t] \in Seq(Nat)
               /\ Len(passed'[t]) <= RPM /\ lastClean[t] <= now'
    <3>1. passed[t] = InWindow(buckets[t], now) /\ buckets[t] \in Seq(Nat) /\ Len(passed[t]) <= RPM
          /\ passed[t] \in Seq(Nat) /\ lastClean[t] <= now /\ lastClean[t] \in Nat
      BY <1>1 DEF LimiterInv
    <3>2. passed'[t] = InWindow(passed[t], now') /\ passed'[t] \in Seq(Nat)
      BY <2>1, <3>1, WindowTyped
    <3>3. passed'[t] = InWindow(buckets[t], now')
      BY <1>1, <2>1, <3>1, <3>2, WindowAgain
    <3>4. Len(passed'[t]) <= Len(passed[t])
      BY <2>1, <3>1, <3>2, WindowShorter
    <3>5. Len(passed'[t]) \in Nat /\ Len(passed[t]) \in Nat
      BY <3>1, <3>2
    <3> QED
      BY <1>1, <2>1, <3>1, <3>2, <3>3, <3>4, <3>5
  <2>3. passed' \in [Tokens -> Seq(Nat)]
    BY <2>1, <2>2
  <2> QED
    BY <1>1, <2>1, <2>2, <2>3 DEF LimiterInv
<1>5. ASSUME NEW t \in Tokens, TokenEnds(t)
      PROVE  LimiterInv'
  BY <1>1, <1>2, <1>5 DEF TokenEnds, limits
<1>6. ASSUME NEW c \in Conns, NEW t \in Tokens, NEW kind, Request(c, t, kind)
      PROVE  LimiterInv'
  <2>1. now' = now /\ standing' = standing /\ allow(t)
    BY <1>6 DEF Request
  <2>2. /\ lastClean' \in [Tokens -> Nat]
        /\ \A u \in Tokens : lastClean'[u] <= now
    BY <1>1, <2>1 DEF allow, LimiterInv
  <2>3. Clean(t) \in Seq(Nat) /\ InWindow(Clean(t), now) = passed[t] /\ passed[t] \in Seq(Nat)
    BY <1>1, CleanKeeps
  <2>4. CASE Len(passed[t]) >= RPM
    <3>1. buckets' = [buckets EXCEPT ![t] = Clean(t)] /\ passed' = passed
      BY <2>1, <2>3, <2>4 DEF allow
    <3> QED
      BY <1>1, <2>1, <2>2, <2>3, <3>1 DEF LimiterInv
  <2>5. CASE ~(Len(passed[t]) >= RPM)
    <3>1. /\ buckets' = [buckets EXCEPT ![t] = Append(Clean(t), now)]
          /\ passed' = [passed EXCEPT ![t] = Append(passed[t], now)]
      BY <2>1, <2>3, <2>5 DEF allow
    <3>2. InWindow(Append(Clean(t), now), now) = Append(passed[t], now)
      BY <1>1, <2>3, WindowAppend
    <3>3. Append(Clean(t), now) \in Seq(Nat) /\ Append(passed[t], now) \in Seq(Nat)
          /\ Len(Append(passed[t], now)) <= RPM
      BY <1>1, <2>3, <2>5
    <3> QED
      BY <1>1, <2>1, <2>2, <3>1, <3>2, <3>3 DEF LimiterInv
  <2> QED
    BY <2>4, <2>5
<1>7. ASSUME NEW c \in Conns, AuthMiddleware(c)
      PROVE  LimiterInv'
  BY <1>1, <1>2, <1>7 DEF AuthMiddleware, limits
<1>8. ASSUME NEW c \in Conns, Handle(c)
      PROVE  LimiterInv'
  <2>1. standing' \in [Tokens -> {"valid", "revoked", "expired"}]
    BY <1>1, <1>8 DEF Handle
  <2> QED
    BY <1>2, <1>8, <2>1 DEF Handle, limits
<1>9. ASSUME NEW c \in Conns, NEW k \in ApiKeys, ReadRequest(c, k)
      PROVE  LimiterInv'
  BY <1>1, <1>2, <1>9 DEF ReadRequest, limits
<1>10. ASSUME NEW c \in Conns,
              dispatchControlRequest(c) \/ SetAndAnswer(c) \/ Break(c)
       PROVE  LimiterInv'
  BY <1>1, <1>2, <1>10 DEF dispatchControlRequest, SetAndAnswer, Break, limits
<1> QED
  BY <1>3, <1>4, <1>5, <1>6, <1>7, <1>8, <1>9, <1>10 DEF ControlNext

(* A connection that goes on with a request leaves the others alone. *)
LEMMA Turned ==
  ASSUME SocketsInv, NEW c \in Conns, NEW r, Turn(c, r)
  PROVE  /\ conn' = [d \in Conns |-> conn'[d]] /\ conn'[c] = r
         /\ \A d \in Conns : d # c => conn'[d] = conn[d]
         /\ \A k : Dispatching(k)' = (Dispatching(k) \ {c})
                     \cup (IF r.step = "dispatch" /\ r.key = k THEN {c} ELSE {})
<1>1. conn = [d \in Conns |-> conn[d]]
  BY DEF SocketsInv, SocketsTyped
<1>2. conn' = [d \in Conns |-> IF d = c THEN r ELSE conn[d]]
  BY <1>1 DEF Turn
<1>3. conn' = [d \in Conns |-> conn'[d]] /\ conn'[c] = r /\ \A d \in Conns : d # c => conn'[d] = conn[d]
  BY <1>2
<1>4. ASSUME NEW k
      PROVE  Dispatching(k)' = (Dispatching(k) \ {c})
                     \cup (IF r.step = "dispatch" /\ r.key = k THEN {c} ELSE {})
  BY <1>3 DEF Dispatching
<1> QED
  BY <1>3, <1>4

(* One that neither waits to execute a key nor comes to, counts for none. *)
LEMMA CountKept ==
  ASSUME SocketsInv, NEW c \in Conns, NEW r, Turn(c, r),
         conn[c].step # "dispatch", r.step # "dispatch"
  PROVE  \A k : Dispatching(k)' = Dispatching(k)
<1>1. \A k : Dispatching(k)' = (Dispatching(k) \ {c})
                     \cup (IF r.step = "dispatch" /\ r.key = k THEN {c} ELSE {})
  BY Turned
<1>2. \A k : c \notin Dispatching(k)
  BY DEF Dispatching
<1> QED
  BY <1>1, <1>2

(* The sockets stay well formed when one of them turns to a state that is.  *)
LEMMA TurnedTyped ==
  ASSUME SocketsInv, NEW c \in Conns, NEW r, Turn(c, r),
         r.step \in {"closed", "auth", "rest", "open", "dispatch", "set"},
         r.step = "open" => r.cache \subseteq ApiKeys /\ r.came = r.cache,
         r.step \in {"dispatch", "set"} => r \in Serving /\ r.came = r.cache \cup {r.key},
         r.step = "dispatch" => r.key \notin r.cache
  PROVE  SocketsTyped'
<1>1. /\ conn' = [d \in Conns |-> conn'[d]] /\ conn'[c] = r
      /\ \A d \in Conns : d # c => conn'[d] = conn[d]
  BY Turned
<1> QED
  BY <1>1 DEF SocketsInv, SocketsTyped, Serving

LEMMA SocketsKept ==
  ASSUME SocketsInv, [ControlNext]_controlVars
  PROVE  SocketsInv'
<1>1. /\ SocketsTyped /\ conn = [c \in Conns |-> conn[c]] /\ MaxEffects \in Nat
      /\ executed \in [ApiKeys -> 0..MaxEffects] /\ sent \in [ApiKeys -> 0..MaxEffects]
      /\ \A k \in ApiKeys : executed[k] + Cardinality(Dispatching(k)) = sent[k]
  BY ControlAssumption DEF SocketsInv, SocketsTyped
<1>2. ASSUME NEW k
      PROVE  IsFiniteSet(Dispatching(k)) /\ Cardinality(Dispatching(k)) \in Nat
  BY ControlAssumption, FS_Subset, FS_CardinalityType DEF Dispatching
<1>3. ASSUME UNCHANGED <<conn, sent, executed>>
      PROVE  SocketsInv'
  BY <1>3 DEF SocketsInv, SocketsTyped, Dispatching
<1>4. ASSUME NEW c \in Conns, NEW r, Turn(c, r), UNCHANGED <<sent, executed>>,
             conn[c].step # "dispatch", r.step # "dispatch", SocketsTyped'
      PROVE  SocketsInv'
  <2>1. \A k \in ApiKeys : Dispatching(k)' = Dispatching(k)
    BY <1>4, CountKept
  <2> QED
    BY <1>1, <1>4, <2>1 DEF SocketsInv
<1>5. CASE UNCHANGED controlVars
  BY <1>3, <1>5 DEF controlVars
<1>6. CASE Tick
  BY <1>3, <1>6 DEF Tick
<1>7. ASSUME NEW t \in Tokens, TokenEnds(t)
      PROVE  SocketsInv'
  BY <1>3, <1>7 DEF TokenEnds
<1>8. ASSUME NEW c \in Conns, NEW t \in Tokens, NEW kind, Request(c, t, kind)
      PROVE  SocketsInv'
  <2>1. CASE UNCHANGED conn
    BY <1>3, <1>8, <2>1 DEF Request
  <2>2. CASE ~UNCHANGED conn
    <3> DEFINE r == [step |-> "auth", kind |-> kind, token |-> t]
    <3>1. Turn(c, r) /\ conn[c].step = "closed" /\ UNCHANGED <<sent, executed>>
      BY <1>8, <2>2 DEF Request
    <3>2. r.step = "auth"
      OBVIOUS
    <3> HIDE DEF r
    <3>3. SocketsTyped'
      BY <3>1, <3>2, TurnedTyped
    <3> QED
      BY <1>4, <3>1, <3>2, <3>3
  <2> QED
    BY <2>1, <2>2
<1>9. ASSUME NEW c \in Conns, AuthMiddleware(c)
      PROVE  SocketsInv'
  <2> DEFINE r == IF standing[conn[c].token] # "valid" \/ conn[c].token \in ReadOnly THEN Closed
           ELSE IF conn[c].kind = "rest" THEN [step |-> "rest"]
           ELSE [step |-> "open", cache |-> {}, came |-> {}, lost |-> FALSE]
  <2>1. Turn(c, r) /\ conn[c].step = "auth" /\ UNCHANGED <<sent, executed>>
    BY <1>9 DEF AuthMiddleware
  <2>2. /\ r.step \in {"closed", "rest", "open"}
        /\ r.step = "open" => r.cache \subseteq ApiKeys /\ r.came = r.cache
    BY DEF Closed
  <2> HIDE DEF r
  <2>3. SocketsTyped'
    BY <2>1, <2>2, TurnedTyped
  <2> QED
    BY <1>4, <2>1, <2>2, <2>3
<1>10. ASSUME NEW c \in Conns, Handle(c)
       PROVE  SocketsInv'
  <2>1. Turn(c, Closed) /\ conn[c].step = "rest" /\ UNCHANGED <<sent, executed>>
    BY <1>10 DEF Handle
  <2>2. Closed.step = "closed"
    BY DEF Closed
  <2>3. SocketsTyped'
    BY <2>1, <2>2, TurnedTyped
  <2> QED
    BY <1>4, <2>1, <2>2, <2>3
<1>11. ASSUME NEW c \in Conns, NEW k \in ApiKeys, ReadRequest(c, k)
       PROVE  SocketsInv'
  <2> DEFINE r == [step |-> IF k \in conn[c].cache THEN "open" ELSE "dispatch", key |-> k,
            cache |-> conn[c].cache, came |-> conn[c].came \cup {k}, lost |-> FALSE]
  <2>1. /\ Turn(c, r) /\ conn[c].step = "open" /\ sent[k] < MaxEffects /\ executed' = executed
        /\ sent' = IF k \in conn[c].came THEN sent ELSE [sent EXCEPT ![k] = @ + 1]
    BY <1>11 DEF ReadRequest
  <2>2. conn[c].cache \subseteq ApiKeys /\ conn[c].came = conn[c].cache
    BY <1>1, <2>1 DEF SocketsTyped
  <2>3. /\ r.step = IF k \in conn[c].cache THEN "open" ELSE "dispatch"
        /\ r.key = k /\ r.cache = conn[c].cache /\ r.came = r.cache \cup {k}
        /\ r.step = "dispatch" => r \in Serving
    BY <2>2 DEF Serving
  <2> HIDE DEF r
  <2>4. SocketsTyped'
    BY <2>1, <2>2, <2>3, TurnedTyped
  <2>5. CASE k \in conn[c].cache
    <3>1. r.step = "open" /\ UNCHANGED <<sent, executed>>
      BY <2>1, <2>2, <2>3, <2>5
    <3> QED
      BY <1>4, <2>1, <2>4, <3>1
  <2>6. CASE k \notin conn[c].cache
    <3>1. r.step = "dispatch" /\ sent' = [sent EXCEPT ![k] = @ + 1]
      BY <2>1, <2>2, <2>3, <2>6
    <3>2. \A m : Dispatching(m)' = (Dispatching(m) \ {c}) \cup (IF r.key = m THEN {c} ELSE {})
      BY <2>1, <3>1, Turned
    <3>3. \A m : c \notin Dispatching(m)
      BY <2>1 DEF Dispatching
    <3>4. \A m \in ApiKeys : m # k => Dispatching(m)' = Dispatching(m)
      BY <2>3, <3>2, <3>3
    <3>5. Dispatching(k)' = Dispatching(k) \cup {c}
      BY <2>3, <3>2, <3>3
    <3>6. Cardinality(Dispatching(k)') = Cardinality(Dispatching(k)) + 1
      BY <1>2, <3>3, <3>5, FS_AddElement
    <3>7. sent'[k] = sent[k] + 1 /\ sent' \in [ApiKeys -> 0..MaxEffects]
          /\ \A m \in ApiKeys : m # k => sent'[m] = sent[m]
      BY <1>1, <2>1, <3>1
    <3>8. ASSUME NEW m \in ApiKeys
          PROVE  executed'[m] + Cardinality(Dispatching(m)') = sent'[m]
      <4>1. CASE m = k
        <5>1. executed[k] + Cardinality(Dispatching(k)) = sent[k] /\ executed[k] \in Nat
          BY <1>1
        <5>2. executed[k] + (Cardinality(Dispatching(k)) + 1) = sent[k] + 1
          BY <1>2, <5>1
        <5> QED
          BY <2>1, <3>6, <3>7, <4>1, <5>2
      <4>2. CASE m # k
        BY <1>1, <2>1, <3>4, <3>7, <4>2
      <4> QED
        BY <4>1, <4>2
    <3> QED
      BY <1>1, <2>1, <2>4, <3>7, <3>8 DEF SocketsInv
  <2> QED
    BY <2>5, <2>6
<1>12. ASSUME NEW c \in Conns, dispatchControlRequest(c)
       PROVE  SocketsInv'
  <2> DEFINE r == [conn[c] EXCEPT !.step = "set"]
  <2>0. /\ Turn(c, r) /\ conn[c].step = "dispatch" /\ executed[conn[c].key] < MaxEffects
        /\ sent' = sent /\ executed' = [executed EXCEPT ![conn[c].key] = @ + 1]
    BY <1>12 DEF dispatchControlRequest
  <2>1. /\ conn[c] \in Serving /\ conn[c].came = conn[c].cache \cup {conn[c].key}
        /\ conn[c].key \in ApiKeys
    BY <1>1, <2>0 DEF SocketsTyped, Serving
  <2>2. PICK k \in ApiKeys : k = conn[c].key
    BY <2>1
  <2>3. r.step = "set" /\ r \in Serving /\ r.came = r.cache \cup {r.key}
    BY <2>1 DEF Serving
  <2> HIDE DEF r
  <2>4. SocketsTyped'
    BY <2>0, <2>3, TurnedTyped
  <2>5. \A m : Dispatching(m)' = Dispatching(m) \ {c}
    BY <2>0, <2>3, Turned
  <2>6. c \in Dispatching(k) /\ \A m \in ApiKeys : m # k => c \notin Dispatching(m)
    BY <2>0, <2>2 DEF Dispatching
  <2>7. Cardinality(Dispatching(k)') = Cardinality(Dispatching(k)) - 1
    <3>1. IsFiniteSet(Dispatching(k))
      BY <1>2
    <3>2. Dispatching(k)' = Dispatching(k) \ {c}
      BY <2>5
    <3> QED
      BY <2>6, <3>1, <3>2, FS_RemoveElement
  <2>8. \A m \in ApiKeys : m # k => Dispatching(m)' = Dispatching(m)
    BY <2>5, <2>6
  <2>9. executed'[k] = executed[k] + 1 /\ executed' \in [ApiKeys -> 0..MaxEffects]
        /\ \A m \in ApiKeys : m # k => executed'[m] = executed[m]
    BY <1>1, <2>0, <2>2, ControlAssumption
  <2>10. ASSUME NEW m \in ApiKeys
         PROVE  executed'[m] + Cardinality(Dispatching(m)') = sent'[m]
    <3>1. CASE m = k
      <4>1. executed[k] + Cardinality(Dispatching(k)) = sent[k] /\ executed[k] \in Nat
        BY <1>1
      <4>2. executed[k] + 1 + (Cardinality(Dispatching(k)) - 1) = sent[k]
        BY <1>2, <4>1
      <4> QED
        BY <2>0, <2>7, <2>9, <3>1, <4>2
    <3>2. CASE m # k
      BY <1>1, <2>0, <2>8, <2>9, <3>2
    <3> QED
      BY <3>1, <3>2
  <2> QED
    BY <1>1, <2>0, <2>4, <2>9, <2>10 DEF SocketsInv
<1>13. ASSUME NEW c \in Conns, SetAndAnswer(c)
       PROVE  SocketsInv'
  <2> DEFINE r == IF conn[c].lost THEN Closed
           ELSE [conn[c] EXCEPT !.step = "open", !.cache = @ \cup {conn[c].key}]
  <2>1. Turn(c, r) /\ conn[c].step = "set" /\ UNCHANGED <<sent, executed>>
    BY <1>13 DEF SetAndAnswer
  <2>2. conn[c] \in Serving /\ conn[c].came = conn[c].cache \cup {conn[c].key}
    BY <1>1, <2>1 DEF SocketsTyped
  <2>3. /\ r.step \in {"closed", "open"}
        /\ r.step = "open" => r.cache \subseteq ApiKeys /\ r.came = r.cache
    BY <2>2 DEF Closed, Serving
  <2> HIDE DEF r
  <2>4. SocketsTyped'
    BY <2>1, <2>3, TurnedTyped
  <2> QED
    BY <1>4, <2>1, <2>3, <2>4
<1>14. ASSUME NEW c \in Conns, Break(c)
       PROVE  SocketsInv'
  <2> DEFINE r == IF conn[c].step = "open" THEN Closed ELSE [conn[c] EXCEPT !.lost = TRUE]
  <2>1. Turn(c, r) /\ conn[c].step \in {"open", "dispatch", "set"} /\ UNCHANGED <<sent, executed>>
    BY <1>14 DEF Break
  <2>2. CASE conn[c].step = "open"
    <3>1. r.step = "closed"
      BY <2>2 DEF Closed
    <3> HIDE DEF r
    <3>2. SocketsTyped'
      BY <2>1, <3>1, TurnedTyped
    <3> QED
      BY <1>4, <2>1, <2>2, <3>1, <3>2
  <2>3. CASE conn[c].step # "open"
    <3>1. conn[c] \in Serving /\ conn[c].came = conn[c].cache \cup {conn[c].key}
          /\ (conn[c].step = "dispatch" => conn[c].key \notin conn[c].cache)
      BY <1>1, <2>1, <2>3 DEF SocketsTyped
    <3>2. /\ r.step = conn[c].step /\ r.key = conn[c].key /\ r \in Serving
          /\ r.came = r.cache \cup {r.key} /\ r.cache = conn[c].cache
      BY <2>3, <3>1 DEF Serving
    <3> HIDE DEF r
    <3>3. SocketsTyped'
      BY <2>1, <2>3, <3>1, <3>2, TurnedTyped
    <3>4. \A k : Dispatching(k)' = Dispatching(k)
      <4>1. \A k : Dispatching(k)' = (Dispatching(k) \ {c})
                     \cup (IF r.step = "dispatch" /\ r.key = k THEN {c} ELSE {})
        BY <2>1, Turned
      <4>2. \A k : c \in Dispatching(k) <=> r.step = "dispatch" /\ r.key = k
        BY <3>2 DEF Dispatching
      <4> QED
        BY <4>1, <4>2
    <3> QED
      BY <1>1, <2>1, <3>3, <3>4 DEF SocketsInv
  <2> QED
    BY <2>2, <2>3
<1> QED
  BY <1>5, <1>6, <1>7, <1>8, <1>9, <1>10, <1>11, <1>12, <1>13, <1>14 DEF ControlNext

(* No minute holds more requests of a token than its limit, and a key is    *)
(* executed at most once for each socket it came in by.                     *)
THEOREM ControlCorrect == ControlSpec => [](ControlTypeOK /\ WindowBound /\ OncePerSocket)
<1>1. ControlInit => ControlInv
  BY ControlStarts
<1>2. ControlInv /\ [ControlNext]_controlVars => ControlInv'
  BY LimiterKept, SocketsKept DEF ControlInv
<1>3. ASSUME ControlInv
      PROVE  ControlTypeOK /\ WindowBound /\ OncePerSocket
  <2>1. WindowBound
    BY <1>3 DEF ControlInv, LimiterInv, WindowBound
  <2>2. ASSUME NEW k \in ApiKeys
        PROVE  executed[k] <= sent[k]
    <3>1. Dispatching(k) \subseteq Conns
      BY DEF Dispatching
    <3>2. Cardinality(Dispatching(k)) \in Nat
      BY <3>1, ControlAssumption, FS_Subset, FS_CardinalityType
    <3> QED
      BY <1>3, <3>2, ControlAssumption DEF ControlInv, SocketsInv
  <2>3. ControlTypeOK
    BY <1>3 DEF ControlInv, LimiterInv, SocketsInv, SocketsTyped, ControlTypeOK
  <2> QED
    BY <2>1, <2>2, <2>3 DEF OncePerSocket
<1> QED
  BY <1>1, <1>2, <1>3, PTL DEF ControlSpec

LEMMA ControlTypes == ControlSpec => []ControlTypeOK
BY ControlCorrect, PTL

-----------------------------------------------------------------------------
(***************************************************************************)
(* WHAT THE MODELS ARE SHOWN.                                              *)
(***************************************************************************)
(* What Total computes, number by number. *)
Sums(number, n, sum) ==
  /\ sum \in [0..n -> Nat] /\ sum[0] = 0 /\ Total(number, n) = sum[n]
  /\ \A i \in 1..n : sum[i] = sum[i - 1] + number[i]

LEMMA TotalSteps ==
  ASSUME NEW n \in Nat, NEW number, \A i \in 1..n : number[i] \in Nat
  PROVE  \E sum : Sums(number, n, sum)
<1> DEFINE After(i, s) == s + number[i]
           step == [i \in 1..n |-> [s \in Nat |-> After(i, s)]]
           Body(f) == [i \in 0..n |-> IF i = 0 THEN 0 ELSE After(i, f[i - 1])]
           W == CHOOSE f : f = Body(f)
<1>1. step \in [1..n -> [Nat -> Nat]]
  OBVIOUS
<1>2. Loops(Nat, n, step, 0)
  <2> HIDE DEF step
  <2> QED
    BY <1>1, Loop
<1>3. PICK f \in [0..n -> Nat] : f = [i \in 0..n |-> IF i = 0 THEN 0 ELSE step[i][f[i - 1]]]
  <2> HIDE DEF step
  <2> QED
    BY <1>2 DEF Loops
<1>4. f[0] = 0 /\ \A i \in 1..n : f[i] = After(i, f[i - 1])
  <2>1. ASSUME NEW i \in 1..n
        PROVE  f[i] = After(i, f[i - 1])
    <3>1. i \in 0..n /\ i # 0 /\ i - 1 \in 0..n
      OBVIOUS
    <3>2. f[i] = step[i][f[i - 1]] /\ f[i - 1] \in Nat
      <4> HIDE DEF step
      <4> QED
        BY <1>3, <3>1
    <3> QED
      BY <3>2
  <2>2. 0 \in 0..n
    OBVIOUS
  <2> HIDE DEF step
  <2> QED
    BY <1>3, <2>1, <2>2
<1>5. f = Body(f)
  <2>1. \A i \in 0..n : i # 0 => i \in 1..n
    OBVIOUS
  <2> HIDE DEF After
  <2> QED
    BY <1>3, <1>4, <2>1
<1>6. W = Body(W)
  <2> HIDE DEF Body
  <2> QED
    BY <1>5
<1>7. Total(number, n) = W[n]
  BY DEF Total
<1> HIDE DEF W
<1>8. W[0] = 0 /\ \A i \in 1..n : W[i] = After(i, W[i - 1])
  <2>1. 0 \in 0..n /\ \A i \in 1..n : i \in 0..n /\ i # 0
    OBVIOUS
  <2> HIDE DEF After
  <2> QED
    BY <1>6, <2>1
<1>9. \A i \in 0..n : W[i] = f[i]
  <2>1. \A i \in 1..n : W[i - 1] = f[i - 1] => W[i] = f[i]
    BY <1>4, <1>8
  <2>2. Alike(n, W, f)
    BY <1>4, <1>8, <2>1 DEF Alike
  <2> QED
    BY <2>2, SameLoop
<1>10. Sums(number, n, f)
  <2>1. n \in 0..n
    OBVIOUS
  <2>2. Total(number, n) = f[n]
    BY <1>7, <1>9, <2>1
  <2> QED
    BY <1>3, <1>4, <2>2 DEF Sums
<1> QED
  BY <1>10

LEMMA TotalIsNat ==
  ASSUME NEW n \in Nat, NEW number, \A i \in 1..n : number[i] \in Nat
  PROVE  Total(number, n) \in Nat
<1>1. PICK sum : Sums(number, n, sum)
  BY TotalSteps
<1>2. n \in 0..n
  OBVIOUS
<1> QED
  BY <1>1, <1>2 DEF Sums

LEMMA TotalOfNone ==
  ASSUME NEW number
  PROVE  Total(number, 0) = 0
<1>1. PICK sum : Sums(number, 0, sum)
  <2>1. \A i \in 1..0 : number[i] \in Nat
    OBVIOUS
  <2> QED
    BY <2>1, TotalSteps
<1> QED
  BY <1>1 DEF Sums

(* The sum depends on the numbers summed only. *)
LEMMA TotalSame ==
  ASSUME NEW n \in Nat, NEW h, NEW g, \A i \in 1..n : h[i] \in Nat /\ g[i] = h[i]
  PROVE  Total(g, n) = Total(h, n)
<1>1. PICK f : Sums(h, n, f)
  BY TotalSteps
<1>2. PICK e : Sums(g, n, e)
  BY TotalSteps
<1>3. Alike(n, e, f)
  BY <1>1, <1>2 DEF Sums, Alike
<1>4. n \in 0..n
  OBVIOUS
<1> QED
  BY <1>1, <1>2, <1>3, <1>4, SameLoop DEF Sums

LEMMA TotalNext ==
  ASSUME NEW n \in Nat, NEW number, \A i \in 1..(n + 1) : number[i] \in Nat
  PROVE  Total(number, n + 1) = Total(number, n) + number[n + 1]
<1> DEFINE m == n + 1
<1>1. m \in Nat /\ m \in 1..m /\ m - 1 = n /\ n \in 0..n /\ \A i \in 1..n : i \in 1..m
  OBVIOUS
<1> HIDE DEF m
<1>2. \A i \in 1..m : number[i] \in Nat
  BY DEF m
<1>3. PICK g : Sums(number, m, g)
  BY <1>1, <1>2, TotalSteps
<1>4. PICK f : Sums(number, n, f)
  BY <1>1, <1>2, TotalSteps
<1>5. Alike(n, g, f)
  BY <1>1, <1>3, <1>4 DEF Sums, Alike
<1>6. g[n] = f[n]
  BY <1>1, <1>5, SameLoop
<1>7. Total(number, m) = Total(number, n) + number[m]
  BY <1>1, <1>3, <1>4, <1>6 DEF Sums
<1> QED
  BY <1>7 DEF m

-----------------------------------------------------------------------------
(* The secrets found in some lines, line by line. *)
LEMMA RedactionsAreNat ==
  ASSUME NEW lines \in Seq(Line)
  PROVE  \A i \in 1..Len(lines) : Redactions(lines[i]) \in Nat
<1> SUFFICES ASSUME NEW i \in 1..Len(lines)
             PROVE  Redactions(lines[i]) \in Nat
  OBVIOUS
<1>1. lines[i] \in Line
  OBVIOUS
<1> QED
  BY <1>1 DEF Line, Redactions

LEMMA FoundIsNat ==
  ASSUME NEW lines \in Seq(Line)
  PROVE  Found(lines) \in Nat
<1> DEFINE h == [i \in DOMAIN lines |-> Redactions(lines[i])]
           n == Len(lines)
<1>1. n \in Nat /\ \A i \in 1..n : h[i] \in Nat
  BY RedactionsAreNat
<1>2. Found(lines) = Total(h, n)
  BY DEF Found
<1> HIDE DEF h, n
<1> QED
  BY <1>1, <1>2, TotalIsNat

LEMMA FoundInNone == Found(<<>>) = 0
<1> DEFINE h == [i \in DOMAIN <<>> |-> Redactions(<<>>[i])]
<1>1. Len(<<>>) = 0
  OBVIOUS
<1>2. Found(<<>>) = Total(h, Len(<<>>))
  BY DEF Found
<1> HIDE DEF h
<1>3. Found(<<>>) = Total(h, 0)
  BY <1>1, <1>2
<1> QED
  BY <1>3, TotalOfNone

LEMMA FoundInAppend ==
  ASSUME NEW lines \in Seq(Line), NEW line \in Line
  PROVE  Found(Append(lines, line)) = Found(lines) + Redactions(line)
<1> DEFINE n == Len(lines)
           m == n + 1
           longer == Append(lines, line)
           h == [i \in DOMAIN lines |-> Redactions(lines[i])]
           g == [i \in DOMAIN longer |-> Redactions(longer[i])]
<1>1. /\ longer \in Seq(Line) /\ Len(longer) = m /\ longer[m] = line /\ n \in Nat
      /\ DOMAIN longer = 1..m /\ DOMAIN lines = 1..n /\ m \in 1..m
      /\ \A i \in 1..n : i \in 1..m /\ longer[i] = lines[i]
  OBVIOUS
<1>2. Found(lines) = Total(h, n) /\ Found(longer) = Total(g, m)
  BY <1>1 DEF Found
<1>3. \A i \in 1..m : g[i] \in Nat /\ g[i] = Redactions(longer[i])
  <2>1. \A i \in 1..m : Redactions(longer[i]) \in Nat
    <3> HIDE DEF longer
    <3> QED
      BY <1>1, RedactionsAreNat
  <2> QED
    BY <1>1, <2>1
<1>4. \A i \in 1..n : h[i] \in Nat /\ g[i] = h[i]
  <2> HIDE DEF longer, m
  <2> QED
    BY <1>1, RedactionsAreNat
<1> HIDE DEF g, h, longer, n
<1>5. Total(g, n + 1) = Total(g, n) + g[n + 1]
  BY <1>1, <1>3, TotalNext
<1>6. Total(g, n) = Total(h, n)
  BY <1>1, <1>4, TotalSame
<1>7. g[n + 1] = Redactions(line)
  BY <1>1, <1>3
<1>8. Found(longer) = Found(lines) + Redactions(line)
  BY <1>2, <1>5, <1>6, <1>7
<1> QED
  BY <1>8 DEF longer

LEMMA FoundInBoth ==
  ASSUME NEW lines \in Seq(Line)
  PROVE  \A more \in Seq(Line) : Found(lines \o more) = Found(lines) + Found(more)
<1> DEFINE A == {more \in Seq(Line) : Found(lines \o more) = Found(lines) + Found(more)}
<1>1. <<>> \in A
  <2>1. <<>> \in Seq(Line) /\ lines \o <<>> = lines
    OBVIOUS
  <2>2. Found(lines \o <<>>) = Found(lines) + Found(<<>>)
    BY <2>1, FoundIsNat, FoundInNone
  <2> QED
    BY <2>1, <2>2
<1>2. ASSUME NEW more \in Seq(Line), NEW line \in Line, more \in A
      PROVE  Append(more, line) \in A
  <2>1. /\ lines \o more \in Seq(Line) /\ Append(more, line) \in Seq(Line)
        /\ lines \o Append(more, line) = Append(lines \o more, line)
    OBVIOUS
  <2>2. Found(lines \o Append(more, line)) = Found(lines \o more) + Redactions(line)
    BY <2>1, FoundInAppend
  <2>3. Found(Append(more, line)) = Found(more) + Redactions(line)
    BY FoundInAppend
  <2>4. Found(lines \o more) = Found(lines) + Found(more)
    BY <1>2
  <2>5. Found(lines) \in Nat /\ Found(more) \in Nat /\ Redactions(line) \in Nat
    BY FoundIsNat DEF Redactions, Line
  <2>6. Found(lines \o Append(more, line)) = Found(lines) + Found(Append(more, line))
    BY <2>2, <2>3, <2>4, <2>5
  <2> QED
    BY <2>1, <2>6
<1>3. Seq(Line) \subseteq A
  <2> HIDE DEF A
  <2> QED
    BY <1>1, <1>2, InductionOnSeq
<1> QED
  BY <1>3

(* Each line with a secret counts for at least one. *)
Bad(lines) == {i \in DOMAIN lines : Redactions(lines[i]) > 0}

LEMMA FewerBad ==
  \A lines \in Seq(Line) : IsFiniteSet(Bad(lines)) /\ Cardinality(Bad(lines)) <= Found(lines)
<1> DEFINE A == {lines \in Seq(Line) :
                   IsFiniteSet(Bad(lines)) /\ Cardinality(Bad(lines)) <= Found(lines)}
<1>1. <<>> \in A
  <2>1. Bad(<<>>) = {} /\ <<>> \in Seq(Line)
    BY DEF Bad
  <2> QED
    BY <2>1, FoundInNone, FS_EmptySet
<1>2. ASSUME NEW lines \in Seq(Line), NEW line \in Line, lines \in A
      PROVE  Append(lines, line) \in A
  <2> DEFINE longer == Append(lines, line)
             n == Len(lines) + 1
  <2>1. /\ longer \in Seq(Line) /\ DOMAIN longer = DOMAIN lines \cup {n} /\ longer[n] = line
        /\ n \notin DOMAIN lines /\ \A i \in DOMAIN lines : longer[i] = lines[i]
    OBVIOUS
  <2>2. Found(longer) = Found(lines) + Redactions(line)
    BY FoundInAppend
  <2> HIDE DEF longer, n
  <2>3. Bad(longer) = IF Redactions(line) > 0 THEN Bad(lines) \cup {n} ELSE Bad(lines)
    BY <2>1 DEF Bad
  <2>4. IsFiniteSet(Bad(lines)) /\ Cardinality(Bad(lines)) <= Found(lines) /\ n \notin Bad(lines)
    BY <1>2, <2>1 DEF Bad
  <2>5. Found(lines) \in Nat /\ Redactions(line) \in Nat /\ Cardinality(Bad(lines)) \in Nat
    BY <2>4, FoundIsNat, FS_CardinalityType DEF Redactions, Line
  <2>6. IsFiniteSet(Bad(longer)) /\ Cardinality(Bad(longer)) <= Found(longer)
    <3>1. CASE Redactions(line) > 0
      <4>1. Bad(longer) = Bad(lines) \cup {n}
        BY <2>3, <3>1
      <4>2. IsFiniteSet(Bad(longer)) /\ Cardinality(Bad(longer)) = Cardinality(Bad(lines)) + 1
        BY <2>4, <4>1, FS_AddElement
      <4> QED
        BY <2>2, <2>4, <2>5, <3>1, <4>2
    <3>2. CASE ~(Redactions(line) > 0)
      BY <2>2, <2>3, <2>4, <2>5, <3>2
    <3> QED
      BY <3>1, <3>2
  <2>7. longer \in A
    BY <2>1, <2>6
  <2> QED
    BY <2>7 DEF longer
<1>3. Seq(Line) \subseteq A
  <2> HIDE DEF A
  <2> QED
    BY <1>1, <1>2, InductionOnSeq
<1> QED
  BY <1>3

LEMMA DensityIsOfTwo ==
  ASSUME NEW lines \in Seq(Line), HighDensity(lines)
  PROVE  Found(lines) >= 2
<1>1. Found(lines) >= 3 \/ Cardinality(Bad(lines)) >= 2
  BY DEF HighDensity, Bad
<1>2. Cardinality(Bad(lines)) <= Found(lines) /\ Cardinality(Bad(lines)) \in Nat
  BY FewerBad, FS_CardinalityType
<1> QED
  BY <1>1, <1>2, FoundIsNat

-----------------------------------------------------------------------------
(* What is quoted of a reason on file. *)
LEMMA ReasonTextIs ==
  ASSUME NEW reason \in Reason
  PROVE  /\ ReasonText(reason) \in Seq(Line)
         /\ Len(ReasonText(reason)) =
              IF reason.twice THEN 2 * Len(reason.why) - 1 ELSE Len(reason.why)
         /\ Len(reason.why) \in Nat /\ Len(reason.why) >= 1
<1> DEFINE n == Len(reason.why)
           why == [reason.why EXCEPT ![1].order = FALSE]
           seam == [Last(why) EXCEPT !.secrets = @ + why[1].secrets]
<1>1. reason.why \in Seq(Line) /\ reason.why # <<>>
  <2>1. reason.why \in Texts \cup {<<Plain>>}
    BY DEF Reason
  <2>2. Plain \in Line
    BY DEF Plain, Line
  <2>3. <<Plain>> \in Seq(Line) /\ <<Plain>> # <<>>
    BY <2>2
  <2> QED
    BY <2>1, <2>3, PromptAssumption DEF Line
<1>2. n \in Nat /\ n >= 1
  BY <1>1
<1>3. why \in Seq(Line) /\ Len(why) = n
  <2>1. reason.why[1] \in Line /\ 1 \in DOMAIN reason.why
    BY <1>1, <1>2
  <2>2. [reason.why[1] EXCEPT !.order = FALSE] \in Line
    BY <2>1 DEF Line
  <2>3. why = [reason.why EXCEPT ![1] = [reason.why[1] EXCEPT !.order = FALSE]]
    OBVIOUS
  <2> HIDE DEF why
  <2> QED
    BY <1>1, <1>2, <2>1, <2>2, <2>3
<1>4. ReasonText(reason) = IF reason.twice THEN Front(why) \o <<seam>> \o Tail(why) ELSE why
  BY DEF ReasonText
<1> HIDE DEF why
<1>5. Last(why) \in Line /\ why[1] \in Line
  BY <1>2, <1>3 DEF Last
<1>6. seam \in Line
  BY <1>5 DEF Line
<1> HIDE DEF seam
<1>7. Front(why) \in Seq(Line) /\ Len(Front(why)) = n - 1
  BY <1>2, <1>3 DEF Front
<1>8. Tail(why) \in Seq(Line) /\ Len(Tail(why)) = n - 1
  BY <1>2, <1>3
<1>9. /\ Front(why) \o <<seam>> \o Tail(why) \in Seq(Line)
      /\ Len(Front(why) \o <<seam>> \o Tail(why)) = (n - 1) + 1 + (n - 1)
  <2>1. <<seam>> \in Seq(Line) /\ Len(<<seam>>) = 1
    BY <1>6
  <2> HIDE DEF n
  <2>2. Front(why) \o <<seam>> \in Seq(Line) /\ Len(Front(why) \o <<seam>>) = (n - 1) + 1
    BY <1>2, <1>7, <2>1
  <2> QED
    BY <1>2, <1>8, <2>2
<1>10. (n - 1) + 1 + (n - 1) = 2 * n - 1
  BY <1>2
<1> HIDE DEF n
<1>11. ReasonText(reason) \in Seq(Line)
       /\ Len(ReasonText(reason)) = IF reason.twice THEN 2 * n - 1 ELSE n
  BY <1>3, <1>4, <1>9, <1>10
<1> QED
  BY <1>2, <1>11 DEF n

(* What buildPriorFeedback computes, attempt by attempt. *)
ReasonsTyped == reasons \in Seq(Reason \cup {NoText})
Quotes(entries) ==
  /\ entries \in [0..Len(reasons) -> Seq(Line)]
  /\ entries[0] = <<>> /\ buildPriorFeedback = entries[Len(reasons)]
  /\ \A i \in 1..Len(reasons) :
       entries[i] = IF reasons[i] = NoText THEN entries[i - 1]
                    ELSE entries[i - 1] \o ReasonText(reasons[i])

LEMMA FeedbackSteps ==
  ASSUME ReasonsTyped
  PROVE  \E entries : Quotes(entries)
<1> DEFINE n == Len(reasons)
           After(i, s) == IF reasons[i] = NoText THEN s ELSE s \o ReasonText(reasons[i])
           step == [i \in 1..n |-> [s \in Seq(Line) |-> After(i, s)]]
           Old(f) == [i \in 0..n |-> IF i = 0 THEN <<>>
                        ELSE IF reasons[i] = NoText THEN f[i - 1]
                        ELSE f[i - 1] \o ReasonText(reasons[i])]
           Body(f) == [i \in 0..n |-> IF i = 0 THEN <<>> ELSE After(i, f[i - 1])]
           W == CHOOSE f : f = Old(f)
<1>1. n \in Nat /\ \A i \in 1..n : reasons[i] # NoText => ReasonText(reasons[i]) \in Seq(Line)
  <2>1. \A i \in 1..n : reasons[i] \in Reason \cup {NoText}
    BY DEF ReasonsTyped
  <2>2. n \in Nat
    BY DEF ReasonsTyped
  <2> HIDE DEF n
  <2> QED
    BY <2>1, <2>2, ReasonTextIs
<1> HIDE DEF n
<1>2. step \in [1..n -> [Seq(Line) -> Seq(Line)]] /\ <<>> \in Seq(Line)
  <2>1. ASSUME NEW i \in 1..n, NEW s \in Seq(Line)
        PROVE  After(i, s) \in Seq(Line)
    <3>1. CASE reasons[i] = NoText
      BY <3>1
    <3>2. CASE reasons[i] # NoText
      <4>1. ReasonText(reasons[i]) \in Seq(Line)
        BY <1>1, <3>2
      <4> DEFINE t == ReasonText(reasons[i])
      <4> HIDE DEF t
      <4>2. t \in Seq(Line) => s \o t \in Seq(Line)
        OBVIOUS
      <4> QED
        BY <3>2, <4>1, <4>2 DEF t
    <3> QED
      BY <3>1, <3>2
  <2> HIDE DEF After
  <2> QED
    BY <2>1
<1>3. Loops(Seq(Line), n, step, <<>>)
  <2> HIDE DEF step
  <2> QED
    BY <1>1, <1>2, Loop
<1>4. PICK f \in [0..n -> Seq(Line)] :
        f = [i \in 0..n |-> IF i = 0 THEN <<>> ELSE step[i][f[i - 1]]]
  <2> HIDE DEF step
  <2> QED
    BY <1>3 DEF Loops
<1>5. f[0] = <<>> /\ \A i \in 1..n : f[i] = After(i, f[i - 1])
  <2>1. ASSUME NEW i \in 1..n
        PROVE  f[i] = After(i, f[i - 1])
    <3>1. i \in 0..n /\ i # 0 /\ i - 1 \in 0..n
      BY <1>1
    <3>2. f[i] = step[i][f[i - 1]] /\ f[i - 1] \in Seq(Line)
      <4> HIDE DEF step
      <4> QED
        BY <1>4, <3>1
    <3> HIDE DEF After
    <3> QED
      BY <3>2
  <2>2. 0 \in 0..n
    BY <1>1
  <2> HIDE DEF step
  <2>3. f[0] = <<>>
    BY <1>4, <2>2
  <2> HIDE DEF After
  <2> QED
    BY <2>1, <2>3
<1>6. f = Body(f)
  <2>1. \A i \in 0..n : i # 0 => i \in 1..n
    BY <1>1
  <2>2. f = [i \in 0..n |-> f[i]]
    BY <1>4
  <2> HIDE DEF After
  <2> QED
    BY <1>5, <2>1, <2>2
<1>7. \A h : Old(h) = Body(h)
  OBVIOUS
<1>8. W = Old(W)
  <2> HIDE DEF Body, Old
  <2>1. f = Old(f)
    BY <1>6, <1>7
  <2> QED
    BY <2>1
<1>9. buildPriorFeedback = W[n]
  BY DEF buildPriorFeedback, n
<1> HIDE DEF W
<1>10. W = Body(W)
  <2> HIDE DEF Body, Old
  <2> QED
    BY <1>7, <1>8
<1> HIDE DEF After
<1>11. W[0] = <<>> /\ \A i \in 1..n : W[i] = After(i, W[i - 1])
  <2>1. 0 \in 0..n /\ \A i \in 1..n : i \in 0..n /\ i # 0
    BY <1>1
  <2>2. \A i \in 0..n : W[i] = IF i = 0 THEN <<>> ELSE After(i, W[i - 1])
    BY <1>10
  <2> QED
    BY <2>1, <2>2
<1>12. \A i \in 0..n : W[i] = f[i]
  <2>1. \A i \in 1..n : W[i - 1] = f[i - 1] => W[i] = f[i]
    BY <1>5, <1>11
  <2>2. Alike(n, W, f)
    BY <1>5, <1>11, <2>1 DEF Alike
  <2> QED
    BY <1>1, <2>2, SameLoop
<1>13. Quotes(f)
  <2>1. n \in 0..n
    BY <1>1
  <2>2. buildPriorFeedback = f[n]
    BY <1>9, <1>12, <2>1
  <2> QED
    BY <1>4, <1>5, <2>2 DEF Quotes, n, After
<1> QED
  BY <1>13

(* It holds every line of every reason, and every secret of them. *)
Given == {i \in DOMAIN reasons : reasons[i] # NoText}
SizeOf(r) == IF r.twice THEN 2 * Len(r.why) - 1 ELSE Len(r.why)
LinesOf == [i \in DOMAIN reasons |-> IF i \in Given THEN SizeOf(reasons[i]) ELSE 0]
SecretsOf == [i \in DOMAIN reasons |-> IF i \in Given THEN Found(ReasonText(reasons[i])) ELSE 0]

LEMMA FeedbackHolds ==
  ASSUME ReasonsTyped
  PROVE  /\ buildPriorFeedback \in Seq(Line)
         /\ Len(buildPriorFeedback) = Total(LinesOf, Len(reasons))
         /\ Found(buildPriorFeedback) = Total(SecretsOf, Len(reasons))
         /\ Given # {} => buildPriorFeedback # <<>>
<1> DEFINE n == Len(reasons)
<1>1. n \in Nat /\ DOMAIN reasons = 1..n /\ \A i \in 1..n : reasons[i] \in Reason \cup {NoText}
  BY DEF ReasonsTyped
<1>2. PICK e : Quotes(e)
  BY FeedbackSteps
<1>3. /\ e \in [0..n -> Seq(Line)] /\ e[0] = <<>> /\ buildPriorFeedback = e[n]
      /\ \A i \in 1..n : e[i] = IF reasons[i] = NoText THEN e[i - 1]
                                ELSE e[i - 1] \o ReasonText(reasons[i])
  BY <1>2 DEF Quotes
<1> HIDE DEF n
<1>4. ASSUME NEW i \in 1..n, reasons[i] # NoText
      PROVE  /\ ReasonText(reasons[i]) \in Seq(Line)
             /\ Len(ReasonText(reasons[i])) = LinesOf[i] /\ LinesOf[i] \in Nat /\ LinesOf[i] >= 1
             /\ Found(ReasonText(reasons[i])) = SecretsOf[i] /\ SecretsOf[i] \in Nat
  <2>1. reasons[i] \in Reason /\ i \in Given /\ i \in DOMAIN reasons
    BY <1>1, <1>4 DEF Given
  <2>2. LinesOf[i] = SizeOf(reasons[i]) /\ SecretsOf[i] = Found(ReasonText(reasons[i]))
    BY <2>1 DEF LinesOf, SecretsOf
  <2> DEFINE r == reasons[i]
  <2>3. /\ ReasonText(r) \in Seq(Line) /\ Len(ReasonText(r)) = SizeOf(r)
        /\ Len(r.why) \in Nat /\ Len(r.why) >= 1
    BY <2>1, ReasonTextIs DEF SizeOf
  <2>4. SizeOf(r) \in Nat /\ SizeOf(r) >= 1
    <3> HIDE DEF r
    <3>1. CASE r.twice
      BY <2>3, <3>1 DEF SizeOf
    <3>2. CASE ~r.twice
      BY <2>3, <3>2 DEF SizeOf
    <3> QED
      BY <3>1, <3>2
  <2> QED
    BY <2>2, <2>3, <2>4, FoundIsNat
<1>5. ASSUME NEW i \in 1..n, reasons[i] = NoText
      PROVE  LinesOf[i] = 0 /\ SecretsOf[i] = 0
  BY <1>1, <1>5 DEF LinesOf, SecretsOf, Given
<1>6. \A i \in 1..n : LinesOf[i] \in Nat /\ SecretsOf[i] \in Nat
  BY <1>4, <1>5
<1> DEFINE A == {i \in Nat : i <= n =>
                   /\ Len(e[i]) = Total(LinesOf, i) /\ Found(e[i]) = Total(SecretsOf, i)
                   /\ (\E k \in 1..i : reasons[k] # NoText) => e[i] # <<>>}
<1>7. 0 \in A
  <2>1. Len(<<>>) = 0
    OBVIOUS
  <2> QED
    BY <1>3, <2>1, TotalOfNone, FoundInNone
<1>8. ASSUME NEW j \in Nat, j \in A
      PROVE  j + 1 \in A
  <2> DEFINE i == j + 1
  <2> SUFFICES ASSUME i <= n
               PROVE  /\ Len(e[i]) = Total(LinesOf, i) /\ Found(e[i]) = Total(SecretsOf, i)
                      /\ (\E k \in 1..i : reasons[k] # NoText) => e[i] # <<>>
    OBVIOUS
  <2>1. i \in 1..n /\ j \in 0..n /\ j <= n /\ i - 1 = j
        /\ \A k \in 1..i : k \in 1..n /\ (k = i \/ k \in 1..j)
    BY <1>1
  <2>2. \A k \in 1..(j + 1) : LinesOf[k] \in Nat /\ SecretsOf[k] \in Nat
    BY <1>6, <2>1
  <2>3. /\ Total(LinesOf, i) = Total(LinesOf, j) + LinesOf[i]
        /\ Total(SecretsOf, i) = Total(SecretsOf, j) + SecretsOf[i]
    BY <2>2, TotalNext
  <2>4. /\ Len(e[j]) = Total(LinesOf, j) /\ Found(e[j]) = Total(SecretsOf, j)
        /\ (\E k \in 1..j : reasons[k] # NoText) => e[j] # <<>>
    BY <1>8, <2>1
  <2> HIDE DEF A, i
  <2>5. e[j] \in Seq(Line) /\ Len(e[j]) \in Nat /\ Found(e[j]) \in Nat
    BY <1>3, <2>1, FoundIsNat
  <2>6. CASE reasons[i] = NoText
    <3>1. e[i] = e[j]
      BY <1>3, <2>1, <2>6
    <3>2. Total(LinesOf, i) = Total(LinesOf, j) /\ Total(SecretsOf, i) = Total(SecretsOf, j)
      BY <1>5, <2>1, <2>3, <2>4, <2>5, <2>6
    <3> QED
      BY <2>1, <2>4, <2>6, <3>1, <3>2
  <2>7. CASE reasons[i] # NoText
    <3> DEFINE t == ReasonText(reasons[i])
    <3>1. e[i] = e[j] \o t
      BY <1>3, <2>1, <2>7
    <3>2. t \in Seq(Line) /\ Len(t) = LinesOf[i] /\ LinesOf[i] >= 1 /\ Found(t) = SecretsOf[i]
      BY <1>4, <2>1, <2>7
    <3> HIDE DEF t
    <3>3. Len(e[j] \o t) = Len(e[j]) + Len(t) /\ Len(t) \in Nat
      BY <2>5, <3>2
    <3>4. e[j] \o t # <<>>
      BY <2>5, <3>2
    <3>5. Found(e[j] \o t) = Found(e[j]) + Found(t)
      BY <2>5, <3>2, FoundInBoth
    <3> QED
      BY <2>3, <2>4, <3>1, <3>2, <3>3, <3>4, <3>5
  <2> QED
    BY <2>6, <2>7
<1>9. Nat \subseteq A
  <2> HIDE DEF A
  <2> QED
    BY <1>7, <1>8, Induction
<1>10. n \in A /\ n <= n /\ n \in 0..n
  <2> HIDE DEF A
  <2> QED
    BY <1>1, <1>9
<1>11. Given # {} => \E k \in 1..n : reasons[k] # NoText
  BY <1>1 DEF Given
<1>12. e[n] \in Seq(Line)
  BY <1>3, <1>10
<1> QED
  BY <1>3, <1>10, <1>11, <1>12 DEF n

-----------------------------------------------------------------------------
LEMMA PromptStarts ==
  ASSUME PromptInit
  PROVE  PromptInv
<1>0. MaxRequests \in Nat
  BY PromptAssumption
<1>1. objective \in Objectives /\ phase = "spec" /\ reasons = <<>> /\ output = NoText
  BY DEF PromptInit
<1>2. requests \in 0..MaxRequests
  BY <1>0 DEF PromptInit
<1>3. blind \in BOOLEAN
  BY Zenon DEF PromptInit
<1>4. PromptTypeOK
  BY <1>1, <1>2, <1>3 DEF PromptTypeOK
<1> QED
  BY <1>1, <1>4 DEF PromptInv

LEMMA ReasonsAreTyped ==
  ASSUME PromptTypeOK
  PROVE  ReasonsTyped
BY DEF PromptTypeOK, ReasonsTyped, Reason

(* The reasons on file are quoted in a block of the spec. *)
LEMMA FeedbackQuoted ==
  ASSUME PromptTypeOK, WriteTaskSpec, ~blind', \E i \in DOMAIN reasons : reasons[i] # NoText
  PROVE  BuildPromptBlock(<<"task_attempts">>, buildPriorFeedback) \in spec'
<1>1. buildPriorFeedback # <<>>
  BY ReasonsAreTyped, FeedbackHolds DEF Given
<1>2. PICK tree :
        spec' = {BuildPromptBlock(b[1], b[2]) :
                   b \in buildTaskContextBlocks(tree, buildPriorFeedback)}
  BY DEF WriteTaskSpec
<1> DEFINE block == <<<<"task_attempts">>, buildPriorFeedback>>
<1>3. block \in buildTaskContextBlocks(tree, buildPriorFeedback)
  BY <1>1 DEF buildTaskContextBlocks
<1>4. block[1] = <<"task_attempts">> /\ block[2] = buildPriorFeedback
  OBVIOUS
<1> HIDE DEF block
<1> QED
  BY <1>2, <1>3, <1>4

LEMMA PromptKept ==
  ASSUME PromptInv, [PromptNext]_promptVars
  PROVE  PromptInv'
<1>1. PromptTypeOK
  BY DEF PromptInv
<1>2. /\ objective \in Objectives /\ phase \in {"spec", "work", "review", "over"}
      /\ reasons \in Seq(Reason \cup {NoText}) /\ output \in Texts \cup {NoText}
      /\ blind \in BOOLEAN /\ requests \in 0..MaxRequests
  BY <1>1 DEF PromptTypeOK, Reason
<1>3. ASSUME UNCHANGED promptVars
      PROVE  PromptInv'
  <2>1. PromptTypeOK'
    BY <1>1, <1>3 DEF promptVars, PromptTypeOK
  <2>2. buildPriorFeedback' = buildPriorFeedback
    BY <1>3 DEF promptVars, buildPriorFeedback
  <2> QED
    BY <1>3, <2>1, <2>2 DEF promptVars, PromptInv
<1>4. ASSUME WriteTaskSpec
      PROVE  PromptInv'
  <2>1. /\ phase' = "work" /\ blind' \in BOOLEAN
        /\ UNCHANGED <<objective, reasons, output, review, promptSent, logged, requests>>
    BY <1>4 DEF WriteTaskSpec
  <2>2. PromptTypeOK'
    BY <1>1, <2>1 DEF PromptTypeOK
  <2>3. ~blind' /\ (\E i \in DOMAIN reasons : reasons[i] # NoText) =>
          BuildPromptBlock(<<"task_attempts">>, buildPriorFeedback) \in spec'
    BY <1>1, <1>4, FeedbackQuoted
  <2>4. buildPriorFeedback' = buildPriorFeedback
    BY <2>1 DEF buildPriorFeedback
  <2>5. BuildPromptBlock(<<"task_attempts">>, buildPriorFeedback)' =
          BuildPromptBlock(<<"task_attempts">>, buildPriorFeedback)
    BY <2>4 DEF BuildPromptBlock, ClassifyPath, Below, UnderDir, HighDensity, Found, Total,
                Redactions, Redacted, Plain
  <2> QED
    BY <2>1, <2>2, <2>3, <2>5 DEF PromptInv
<1>5. ASSUME UNCHANGED <<reasons, spec, blind>>, phase' = phase \/ (phase = "work" /\ phase' = "review")
                                               \/ phase' = "over",
             PromptTypeOK'
      PROVE  PromptInv'
  <2>1. buildPriorFeedback' = buildPriorFeedback
    BY <1>5 DEF buildPriorFeedback
  <2>2. BuildPromptBlock(<<"task_attempts">>, buildPriorFeedback)' =
          BuildPromptBlock(<<"task_attempts">>, buildPriorFeedback)
    BY <2>1 DEF BuildPromptBlock, ClassifyPath, Below, UnderDir, HighDensity, Found, Total,
                Redactions, Redacted, Plain
  <2> QED
    BY <1>5, <2>2 DEF PromptInv
<1>6. ASSUME SendPrompt
      PROVE  PromptInv'
  <2>1. /\ phase = "work" /\ requests < MaxRequests /\ requests' = requests + 1
        /\ UNCHANGED <<objective, phase, reasons, spec, blind, output, review>>
    BY <1>6 DEF SendPrompt
  <2>2. PromptTypeOK'
    BY <1>2, <2>1, PromptAssumption DEF PromptTypeOK, Reason
  <2> QED
    BY <1>5, <2>1, <2>2
<1>7. ASSUME WriteReviewSpec
      PROVE  PromptInv'
  <2>1. /\ phase = "work" /\ phase' = "review" /\ output' \in Texts
        /\ UNCHANGED <<objective, reasons, spec, blind, promptSent, logged, requests>>
    BY <1>7 DEF WriteReviewSpec
  <2>2. PromptTypeOK'
    BY <1>2, <2>1 DEF PromptTypeOK, Reason
  <2> QED
    BY <1>5, <2>1, <2>2
<1>8. ASSUME NEW reason \in Reason \cup {NoText}, Ends(reason)
      PROVE  PromptInv'
  <2>1. /\ reasons' = Append(reasons, reason) /\ phase' \in {"spec", "over"}
        /\ spec' = {} /\ blind' = FALSE /\ output' = NoText
        /\ UNCHANGED <<objective, requests>>
    BY <1>8 DEF Ends
  <2>2. reasons' \in Seq(Reason \cup {NoText})
    BY <1>2, <2>1
  <2>3. PromptTypeOK'
    BY <1>2, <2>1, <2>2 DEF PromptTypeOK, Reason
  <2> QED
    BY <2>1, <2>3 DEF PromptInv
<1>9. ASSUME failAttempt
      PROVE  PromptInv'
  <2>1. PICK why \in Texts : Ends([why |-> why, twice |-> TRUE])
    BY <1>9 DEF failAttempt
  <2>2. [why |-> why, twice |-> TRUE] \in Reason
    BY DEF Reason
  <2> QED
    BY <1>8, <2>1, <2>2
<1>10. ASSUME AttemptDies
       PROVE  PromptInv'
  <2>1. PICK reason \in {NoText, [why |-> <<Plain>>, twice |-> FALSE]} : Ends(reason)
    BY <1>10 DEF AttemptDies
  <2>2. [why |-> <<Plain>>, twice |-> FALSE] \in Reason
    BY DEF Reason
  <2> QED
    BY <1>8, <2>1, <2>2
<1>11. ASSUME Approve
       PROVE  PromptInv'
  <2>1. /\ phase' = "over"
        /\ UNCHANGED <<objective, reasons, spec, blind, output, review, promptSent, logged,
                       requests>>
    BY <1>11 DEF Approve
  <2>2. PromptTypeOK'
    BY <1>1, <2>1 DEF PromptTypeOK
  <2> QED
    BY <1>5, <2>1, <2>2
<1> QED
  BY <1>3, <1>4, <1>6, <1>7, <1>9, <1>10, <1>11 DEF PromptNext

(* What is quoted is told: every line, or that there are too many secrets. *)
LEMMA QuotedIsTold ==
  ASSUME PromptInv
  PROVE  RetryToldWhy
<1> DEFINE quote == buildPriorFeedback
           block == BuildPromptBlock(<<"task_attempts">>, quote)
           n == Len(reasons)
<1>1. ReasonsTyped
  BY ReasonsAreTyped DEF PromptInv
<1>2. /\ quote \in Seq(Line) /\ Len(quote) = Total(LinesOf, n)
      /\ Found(quote) = Total(SecretsOf, n)
  BY <1>1, FeedbackHolds
<1> SUFFICES ASSUME phase \in {"work", "review"}, ~blind, Given # {}
             PROVE  \E b \in spec :
                      /\ b.source = <<"task_attempts">>
                      /\ IF b.payload = NoText THEN Total(SecretsOf, n) >= 2
                         ELSE Len(b.payload) = Total(LinesOf, n)
  BY DEF RetryToldWhy, LinesOf, SecretsOf, Given, SizeOf
<1>3. block \in spec
  BY DEF PromptInv, Given
<1> HIDE DEF quote
<1>4. ~ClassifyPath(<<"task_attempts">>).excluded
  <2> DEFINE path == <<"task_attempts">>
  <2>1. Len(path) = 1 /\ path[1] = "task_attempts"
    OBVIOUS
  <2> HIDE DEF path
  <2>2. Last(path) = "task_attempts" /\ \A dir : ~Below(dir, path) /\ ~UnderDir(dir, path)
    BY <2>1 DEF Last, Below, UnderDir
  <2>3. ~ClassifyPath(path).excluded
    BY <2>2, PromptAssumption DEF ClassifyPath
  <2> QED
    BY <2>3 DEF path
<1>5. block = [source |-> <<"task_attempts">>,
               payload |-> IF HighDensity(quote) THEN NoText ELSE Redacted(quote)]
  BY <1>4 DEF BuildPromptBlock
<1>6. HighDensity(quote) => Total(SecretsOf, n) >= 2
  BY <1>2, DensityIsOfTwo
<1>7. Redacted(quote) \in Seq(Line) /\ Len(Redacted(quote)) = Total(LinesOf, n)
  <2>1. Plain \in Line
    BY DEF Plain, Line
  <2>2. Redacted(quote) \in Seq(Line) /\ Len(Redacted(quote)) = Len(quote)
    BY <1>2, <2>1 DEF Redacted
  <2> QED
    BY <1>2, <2>2
<1>8. Redacted(quote) # NoText
  BY <1>7, PromptAssumption DEF Line
<1> QED
  BY <1>3, <1>5, <1>6, <1>7, <1>8

(* Whatever failed and whoever died before it, a retry whose earlier        *)
(* attempts could be listed is told why each of them ended.                 *)
THEOREM PromptsCorrect == PromptSpec => [](PromptTypeOK /\ RetryToldWhy)
<1>1. PromptInit => PromptInv
  BY PromptStarts
<1>2. PromptInv /\ [PromptNext]_promptVars => PromptInv'
  BY PromptKept
<1>3. PromptInv => PromptTypeOK /\ RetryToldWhy
  BY QuotedIsTold DEF PromptInv
<1> QED
  BY <1>1, <1>2, <1>3, PTL DEF PromptSpec

LEMMA PromptTypes == PromptSpec => []PromptTypeOK
BY PromptsCorrect, PTL

-----------------------------------------------------------------------------
(***************************************************************************)
(* HOW TASKS ENTER THE DATABASE.                                           *)
(***************************************************************************)
(* An order goes on with nodes that need earlier ones, and one another in   *)
(* some order.                                                              *)
LEMMA OrderGrows ==
  ASSUME NEW V, NEW W, NEW needs, Grounded(V, needs), Grounded(W, needs),
         \A t \in V : needs[t] \subseteq V
  PROVE  Grounded(V \cup W, needs)
<1> SUFFICES ASSUME NEW S \in SUBSET (V \cup W), S # {}
             PROVE  \E t \in S : needs[t] \cap S = {}
  BY DEF Grounded
<1>1. CASE S \cap V # {}
  <2>1. PICK t \in S \cap V : needs[t] \cap (S \cap V) = {}
    BY <1>1 DEF Grounded
  <2> QED
    BY <2>1
<1>2. CASE S \cap V = {}
  BY <1>2 DEF Grounded
<1> QED
  BY <1>1, <1>2

(* Whether nodes are in order depends on what they need only. *)
LEMMA OrderSame ==
  ASSUME NEW V, NEW f, NEW g, Grounded(V, f), \A t \in V : g[t] \cap V \subseteq f[t]
  PROVE  Grounded(V, g)
<1> SUFFICES ASSUME NEW S \in SUBSET V, S # {}
             PROVE  \E t \in S : g[t] \cap S = {}
  BY DEF Grounded
<1>1. PICK t \in S : f[t] \cap S = {}
  BY DEF Grounded
<1> QED
  BY <1>1

(* A node that does not need itself is in order. *)
LEMMA OrderOfOne ==
  ASSUME NEW t, NEW needs, t \notin needs[t]
  PROVE  Grounded({t}, needs)
BY DEF Grounded

-----------------------------------------------------------------------------
(* Layer by layer, what is in order comes to hold every task.               *)
Layers(n, layer) ==
  /\ layer \in [0..n -> SUBSET DOMAIN tasks] /\ layer[0] = {}
  /\ \A i \in 1..n : layer[i] = {t \in DOMAIN tasks : tasks[t].dependsOn \subseteq layer[i - 1]}
TopLayer ==
  LET Layer[n \in 0..Cardinality(DOMAIN tasks)] ==
        IF n = 0 THEN {}
        ELSE {t \in DOMAIN tasks : tasks[t].dependsOn \subseteq Layer[n - 1]}
  IN  Layer[Cardinality(DOMAIN tasks)]

LEMMA LayerSteps ==
  ASSUME NEW n \in Nat, n = Cardinality(DOMAIN tasks)
  PROVE  \E layer : Layers(n, layer) /\ TopLayer = layer[n]
<1> DEFINE D == SUBSET DOMAIN tasks
           After(s) == {t \in DOMAIN tasks : tasks[t].dependsOn \subseteq s}
           step == [i \in 1..n |-> [s \in D |-> After(s)]]
           Body(f) == [i \in 0..n |-> IF i = 0 THEN {} ELSE After(f[i - 1])]
           W == CHOOSE f : f = Body(f)
<1>1. step \in [1..n -> [D -> D]] /\ {} \in D
  OBVIOUS
<1>2. Loops(D, n, step, {})
  <2> HIDE DEF step, D
  <2> QED
    BY <1>1, Loop
<1>3. PICK f \in [0..n -> D] : f = [i \in 0..n |-> IF i = 0 THEN {} ELSE step[i][f[i - 1]]]
  <2> HIDE DEF step, D
  <2> QED
    BY <1>2 DEF Loops
<1>4. f[0] = {} /\ \A i \in 1..n : f[i] = After(f[i - 1])
  <2>1. ASSUME NEW i \in 1..n
        PROVE  f[i] = After(f[i - 1])
    <3>1. i \in 0..n /\ i # 0 /\ i - 1 \in 0..n
      OBVIOUS
    <3>2. f[i] = step[i][f[i - 1]] /\ f[i - 1] \in D
      <4> HIDE DEF step, D
      <4> QED
        BY <1>3, <3>1
    <3> HIDE DEF After, D
    <3> QED
      BY <3>2
  <2>2. 0 \in 0..n
    OBVIOUS
  <2> HIDE DEF step, D
  <2>3. f[0] = {}
    BY <1>3, <2>2
  <2> HIDE DEF After
  <2> QED
    BY <2>1, <2>3
<1>5. f = Body(f)
  <2>1. \A i \in 0..n : i # 0 => i \in 1..n
    OBVIOUS
  <2>2. f = [i \in 0..n |-> f[i]]
    BY <1>3
  <2> HIDE DEF After
  <2> QED
    BY <1>4, <2>1, <2>2
<1>6. W = Body(W)
  <2> HIDE DEF Body
  <2> QED
    BY <1>5
<1>7. TopLayer = W[n]
  BY DEF TopLayer
<1> HIDE DEF W, After
<1>8. W[0] = {} /\ \A i \in 1..n : W[i] = After(W[i - 1])
  <2>1. 0 \in 0..n /\ \A i \in 1..n : i \in 0..n /\ i # 0
    OBVIOUS
  <2> QED
    BY <1>6, <2>1
<1>9. \A i \in 0..n : W[i] = f[i]
  <2>1. \A i \in 1..n : W[i - 1] = f[i - 1] => W[i] = f[i]
    BY <1>4, <1>8
  <2>2. Alike(n, W, f)
    BY <1>4, <1>8, <2>1 DEF Alike
  <2> QED
    BY <2>2, SameLoop
<1>10. n \in 0..n
  OBVIOUS
<1> QED
  BY <1>3, <1>4, <1>7, <1>9, <1>10 DEF Layers, After

LEMMA GroundedOrderable ==
  ASSUME IsFiniteSet(DOMAIN tasks), Grounded(DOMAIN tasks, Needs),
         \A t \in DOMAIN tasks : Needs[t] \subseteq DOMAIN tasks
  PROVE  TopLayer = DOMAIN tasks
<1> DEFINE T == DOMAIN tasks
           n == Cardinality(T)
<1>1. n \in Nat
  BY FS_CardinalityType
<1>2. PICK layer : Layers(n, layer) /\ TopLayer = layer[n]
  <2> HIDE DEF n
  <2> QED
    BY <1>1, LayerSteps DEF n
<1>3. /\ layer \in [0..n -> SUBSET T] /\ layer[0] = {}
      /\ \A i \in 1..n : layer[i] = {t \in T : Needs[t] \subseteq layer[i - 1]}
  BY <1>2 DEF Layers, Needs
<1>4. /\ \A t \in T : Needs[t] \subseteq T
      /\ \A S \in SUBSET T : S # {} => \E t \in S : Needs[t] \cap S = {}
      /\ IsFiniteSet(T)
  BY DEF Grounded
<1> HIDE DEF T, n
<1> DEFINE A == {i \in Nat : i <= n => layer[i] = T \/ Cardinality(layer[i]) >= i}
           B == {i \in Nat : i < n => layer[i] \subseteq layer[i + 1]}
<1>5. Nat \subseteq B
  <2>1. 0 \in B
    BY <1>3
  <2>2. ASSUME NEW j \in Nat, j \in B
        PROVE  j + 1 \in B
    <3> DEFINE i == j + 1
    <3> SUFFICES ASSUME i < n PROVE layer[i] \subseteq layer[i + 1]
      OBVIOUS
    <3>1. i \in 1..n /\ i + 1 \in 1..n /\ i - 1 = j /\ i + 1 - 1 = i /\ j < n
      BY <1>1
    <3>2. layer[j] \subseteq layer[i]
      BY <2>2, <3>1
    <3> HIDE DEF i, B
    <3>3. layer[i] = {t \in T : Needs[t] \subseteq layer[j]}
      BY <1>3, <3>1
    <3>4. layer[i + 1] = {t \in T : Needs[t] \subseteq layer[i]}
      BY <1>3, <3>1
    <3> QED
      BY <3>2, <3>3, <3>4
  <2> HIDE DEF B
  <2> QED
    BY <2>1, <2>2, Induction
<1>6. 0 \in A
  <2>1. Cardinality(layer[0]) = 0
    BY <1>3, FS_EmptySet
  <2> QED
    BY <2>1
<1>7. ASSUME NEW j \in Nat, j \in A
      PROVE  j + 1 \in A
  <2> DEFINE i == j + 1
  <2> SUFFICES ASSUME i <= n PROVE layer[i] = T \/ Cardinality(layer[i]) >= i
    OBVIOUS
  <2>1. i \in 1..n /\ j \in 0..n /\ i - 1 = j /\ j < n /\ j <= n /\ i \in 0..n
    BY <1>1
  <2>2. layer[j] \subseteq layer[i]
    <3>1. j \in B
      <4> HIDE DEF B
      <4> QED
        BY <1>5
    <3> QED
      BY <2>1, <3>1
  <2>3. layer[j] = T \/ Cardinality(layer[j]) >= j
    BY <1>7, <2>1
  <2>i. i = j + 1
    OBVIOUS
  <2> HIDE DEF i, A, B
  <2>4. layer[i] = {t \in T : Needs[t] \subseteq layer[j]} /\ layer[i] \subseteq T /\ layer[j] \subseteq T
    BY <1>3, <2>1
  <2>5. CASE layer[j] = T
    BY <2>2, <2>4, <2>5
  <2>6. CASE layer[j] # T /\ Cardinality(layer[j]) >= j
    <3>1. PICK t \in T \ layer[j] : Needs[t] \cap (T \ layer[j]) = {}
      <4> DEFINE S == T \ layer[j]
      <4>1. S # {} /\ S \in SUBSET T
        BY <2>4, <2>6
      <4> HIDE DEF S
      <4>2. \E t \in S : Needs[t] \cap S = {}
        BY <1>4, <4>1
      <4> QED
        BY <4>2 DEF S
    <3>2. t \in layer[i] /\ t \notin layer[j]
      BY <1>4, <2>4, <3>1
    <3>3. IsFiniteSet(layer[i]) /\ IsFiniteSet(layer[j])
      BY <1>4, <2>4, FS_Subset
    <3>4. layer[j] \cup {t} \subseteq layer[i]
      BY <2>2, <3>2
    <3>5. Cardinality(layer[j] \cup {t}) = Cardinality(layer[j]) + 1
      BY <3>2, <3>3, FS_AddElement
    <3>6. Cardinality(layer[j] \cup {t}) <= Cardinality(layer[i])
      BY <3>3, <3>4, FS_Subset
    <3>7. Cardinality(layer[j]) \in Nat /\ Cardinality(layer[i]) \in Nat
      BY <3>3, FS_CardinalityType
    <3> QED
      BY <2>6, <2>i, <3>5, <3>6, <3>7
  <2> QED
    BY <2>3, <2>5, <2>6
<1>8. Nat \subseteq A
  <2> HIDE DEF A
  <2> QED
    BY <1>6, <1>7, Induction
<1>9. n \in A /\ n <= n /\ n \in 0..n
  <2> HIDE DEF A
  <2> QED
    BY <1>1, <1>8
<1>10. layer[n] = T \/ Cardinality(layer[n]) >= n
  BY <1>9
<1>11. layer[n] \subseteq T
  BY <1>3, <1>9
<1>12. layer[n] = T
  <2>1. /\ Cardinality(layer[n]) <= Cardinality(T) /\ Cardinality(layer[n]) \in Nat
        /\ Cardinality(T) = Cardinality(layer[n]) => T = layer[n]
    BY <1>4, <1>11, FS_Subset, FS_CardinalityType
  <2>2. n = Cardinality(T)
    BY DEF n
  <2> QED
    BY <1>1, <1>10, <2>1, <2>2
<1> QED
  BY <1>2, <1>12 DEF T

-----------------------------------------------------------------------------
(* Rows that are added, and the clients' numbers. *)
LEMMA RowAdded ==
  ASSUME NEW table, NEW id, NEW row
  PROVE  /\ DOMAIN WithRow(table, id, row) = DOMAIN table \cup {id}
         /\ \A t \in DOMAIN table : WithRow(table, id, row)[t] = table[t]
         /\ id \notin DOMAIN table => WithRow(table, id, row)[id] = row
BY DEF WithRow

LEMMA NumbersKept ==
  ASSUME NEW c, Numbered(c),
         {t \in DOMAIN tasks' : t[1] = c} = {t \in DOMAIN tasks : t[1] = c}
  PROVE  Numbered(c)' /\ Number(c)' = Number(c)
<1>1. Number(c)' = Number(c)
  BY DEF Number
<1>2. \A t : t \in DOMAIN tasks' /\ t[1] = c <=> t \in DOMAIN tasks /\ t[1] = c
  OBVIOUS
<1>3. ASSUME NEW t \in DOMAIN tasks'
      PROVE  t[1] = c <=> \E k \in 1..Number(c) : t = <<c, k>>
  <2>1. ASSUME NEW k \in 1..Number(c), t = <<c, k>>
        PROVE  t[1] = c
    BY <2>1
  <2> QED
    BY <1>2, <2>1 DEF Numbered
<1>4. ASSUME NEW k \in 1..Number(c)
      PROVE  <<c, k>> \in DOMAIN tasks'
  <2>1. <<c, k>> \in DOMAIN tasks /\ <<c, k>>[1] = c
    BY DEF Numbered
  <2> QED
    BY <1>2, <2>1
<1> QED
  BY <1>1, <1>3, <1>4 DEF Numbered

(* What the service adds is none of a client's. *)
LEMMA ServiceKeepsClients ==
  ASSUME ClientsInv, client' = client, DOMAIN tasks \subseteq DOMAIN tasks',
         \A t \in DOMAIN tasks : tasks'[t] = tasks[t],
         \A t \in DOMAIN tasks' : t \in DOMAIN tasks \/ t[1] \notin Clients
  PROVE  ClientsInv'
<1>1. ASSUME NEW c \in Clients
      PROVE  ClientTyped(c)' /\ Numbered(c)' /\ (~client'[c].deaf => InOrder(c)')
  <2>1. ClientTyped(c) /\ Numbered(c) /\ (~client[c].deaf => InOrder(c))
    BY DEF ClientsInv
  <2>2. ClientTyped(c)'
    BY <2>1 DEF ClientTyped
  <2>3. Numbered(c)' /\ Number(c)' = Number(c)
    BY <2>1, NumbersKept
  <2>4. ~client'[c].deaf => InOrder(c)'
    BY <2>1, <2>3 DEF InOrder, Numbered
  <2> QED
    BY <2>2, <2>3, <2>4
<1> QED
  BY <1>1 DEF ClientsInv

(* A client whose rows are left alone turns to a state that fits them.      *)
LEMMA ClientTurns ==
  ASSUME ClientsInv, NEW c \in Clients, client' = [client EXCEPT ![c] = client'[c]],
         DOMAIN tasks' = DOMAIN tasks, \A t \in DOMAIN tasks : tasks'[t].spec = tasks[t].spec,
         ClientTyped(c)', ~client'[c].deaf => InOrder(c)'
  PROVE  ClientsInv'
<1>1. client' = [d \in Clients |-> client'[d]] /\ \A d \in Clients : d # c => client'[d] = client[d]
  BY DEF ClientsInv
<1>2. ASSUME NEW d \in Clients
      PROVE  ClientTyped(d)' /\ Numbered(d)' /\ (~client'[d].deaf => InOrder(d)')
  <2>1. ClientTyped(d) /\ Numbered(d) /\ (~client[d].deaf => InOrder(d))
    BY DEF ClientsInv
  <2>2. Numbered(d)' /\ Number(d)' = Number(d)
    BY <2>1, NumbersKept
  <2>3. CASE d = c
    BY <2>2, <2>3
  <2>4. CASE d # c
    <3>1. client'[d] = client[d]
      BY <1>1, <2>4
    <3>2. ClientTyped(d)'
      BY <2>1, <3>1 DEF ClientTyped
    <3>3. ~client'[d].deaf => InOrder(d)'
      BY <2>1, <2>2, <3>1 DEF InOrder, Numbered
    <3> QED
      BY <2>2, <3>2, <3>3
  <2> QED
    BY <2>3, <2>4
<1> QED
  BY <1>1, <1>2 DEF ClientsInv

-----------------------------------------------------------------------------
(* A batch is inserted row by row. *)
RowFor(in) == [run |-> in.run, dependsOn |-> Range(in.dependsOn), files |-> {}, spec |-> 0]
InsertAll(batch, fk) ==
  LET table[i \in 0..Len(batch)] ==
        IF i = 0 THEN tasks ELSE InsertTask(table[i - 1], batch[i], fk)
  IN  table[Len(batch)]
Inserts(batch, fk, table) ==
  /\ table[0] = tasks /\ InsertAll(batch, fk) = table[Len(batch)]
  /\ \A i \in 1..Len(batch) : table[i] = InsertTask(table[i - 1], batch[i], fk)

LEMMA InsertSteps ==
  ASSUME NEW batch, Len(batch) \in Nat, NEW fk
  PROVE  \E table : Inserts(batch, fk, table)
<1> DEFINE n == Len(batch)
           Ids0 == DOMAIN tasks \cup {batch[i].id : i \in 1..n}
           Rows == {tasks[t] : t \in DOMAIN tasks} \cup {RowFor(batch[i]) : i \in 1..n}
           D == {NoTask, tasks} \cup UNION {[S -> Rows] : S \in SUBSET Ids0}
           After(i, s) == InsertTask(s, batch[i], fk)
           step == [i \in 1..n |-> [s \in D |-> After(i, s)]]
           Body(f) == [i \in 0..n |-> IF i = 0 THEN tasks ELSE After(i, f[i - 1])]
           W == CHOOSE f : f = Body(f)
<1>1. n \in Nat
  OBVIOUS
<1>2. ASSUME NEW i \in 1..n, NEW s \in D
      PROVE  After(i, s) \in D
  <2>1. After(i, s) = NoTask \/ (s # NoTask /\ After(i, s) = WithRow(s, batch[i].id, RowFor(batch[i])))
    BY DEF InsertTask, RowFor
  <2>2. CASE s # NoTask /\ After(i, s) = WithRow(s, batch[i].id, RowFor(batch[i]))
    <3> DEFINE id == batch[i].id
               row == RowFor(batch[i])
               S == DOMAIN s \cup {id}
    <3>1. id \in Ids0 /\ row \in Rows
      OBVIOUS
    <3>2. DOMAIN s \subseteq Ids0 /\ \A t \in DOMAIN s : s[t] \in Rows
      BY <2>2
    <3> HIDE DEF id, row, Ids0, Rows
    <3>3. WithRow(s, id, row) \in [S -> Rows]
      BY <3>1, <3>2 DEF WithRow
    <3>4. S \in SUBSET Ids0
      BY <3>1, <3>2
    <3> QED
      BY <2>2, <3>3, <3>4 DEF id, row
  <2> HIDE DEF After
  <2> QED
    BY <2>1, <2>2
<1> HIDE DEF n
<1>3. step \in [1..n -> [D -> D]] /\ tasks \in D
  <2> HIDE DEF After
  <2>1. tasks \in D
    OBVIOUS
  <2> HIDE DEF D
  <2> QED
    BY <1>2, <2>1
<1> HIDE DEF D
<1>4. Loops(D, n, step, tasks)
  <2> HIDE DEF step
  <2> QED
    BY <1>1, <1>3, Loop
<1>5. PICK f \in [0..n -> D] : f = [i \in 0..n |-> IF i = 0 THEN tasks ELSE step[i][f[i - 1]]]
  <2> HIDE DEF step
  <2> QED
    BY <1>4 DEF Loops
<1>6. InsertAll(batch, fk) = W[n]
  BY DEF InsertAll, n
<1> HIDE DEF After
<1>7. f[0] = tasks /\ \A i \in 1..n : f[i] = After(i, f[i - 1])
  <2>1. ASSUME NEW i \in 1..n
        PROVE  f[i] = After(i, f[i - 1])
    <3>1. i \in 0..n /\ i # 0 /\ i - 1 \in 0..n
      BY <1>1
    <3>2. f[i] = step[i][f[i - 1]] /\ f[i - 1] \in D
      <4> HIDE DEF step
      <4> QED
        BY <1>5, <3>1
    <3> QED
      BY <3>2
  <2>2. 0 \in 0..n
    BY <1>1
  <2> HIDE DEF step
  <2>3. f[0] = tasks
    BY <1>5, <2>2
  <2> QED
    BY <2>1, <2>3
<1>8. f = Body(f)
  <2>1. \A i \in 0..n : i # 0 => i \in 1..n
    BY <1>1
  <2>2. f = [i \in 0..n |-> f[i]]
    BY <1>5
  <2> QED
    BY <1>7, <2>1, <2>2
<1>9. W = Body(W)
  <2> HIDE DEF Body
  <2> QED
    BY <1>8
<1> HIDE DEF W
<1>10. W[0] = tasks /\ \A i \in 1..n : W[i] = After(i, W[i - 1])
  <2>1. 0 \in 0..n /\ \A i \in 1..n : i \in 0..n /\ i # 0
    BY <1>1
  <2>2. \A i \in 0..n : W[i] = IF i = 0 THEN tasks ELSE After(i, W[i - 1])
    BY <1>9
  <2> QED
    BY <2>1, <2>2
<1>11. Inserts(batch, fk, W)
  BY <1>6, <1>10 DEF Inserts, n, After
<1> QED
  BY <1>11

(* A batch that is inserted adds a row for each of its tasks, each new.     *)
LEMMA BatchRows ==
  ASSUME NEW batch, Len(batch) \in Nat, NEW fk,
         tasks' = InsertAll(batch, fk), tasks' # NoTask
  PROVE  /\ DOMAIN tasks' = DOMAIN tasks \cup {batch[i].id : i \in 1..Len(batch)}
         /\ \A t \in DOMAIN tasks : tasks'[t] = tasks[t]
         /\ \A i \in 1..Len(batch) :
              batch[i].id \notin DOMAIN tasks /\ tasks'[batch[i].id] = RowFor(batch[i])
         /\ \A i, j \in 1..Len(batch) : batch[i].id = batch[j].id => i = j
<1> DEFINE n == Len(batch)
           Added(table, k) ==
             /\ DOMAIN table = DOMAIN tasks \cup {batch[i].id : i \in 1..k}
             /\ \A t \in DOMAIN tasks : table[t] = tasks[t]
             /\ \A i \in 1..k :
                  batch[i].id \notin DOMAIN tasks /\ table[batch[i].id] = RowFor(batch[i])
             /\ \A i, j \in 1..k : batch[i].id = batch[j].id => i = j
<1>1. PICK table : Inserts(batch, fk, table)
  BY InsertSteps
<1>2. /\ table[0] = tasks /\ tasks' = table[n] /\ n \in Nat
      /\ \A i \in 1..n : table[i] = InsertTask(table[i - 1], batch[i], fk)
  BY <1>1 DEF Inserts
<1> HIDE DEF n
<1> DEFINE A == {k \in Nat : k <= n => table[k] = NoTask \/ Added(table[k], k)}
<1>3. 0 \in A
  BY <1>2
<1>4. ASSUME NEW k \in Nat, k \in A
      PROVE  k + 1 \in A
  <2> DEFINE m == k + 1
  <2> SUFFICES ASSUME m <= n, table[m] # NoTask
               PROVE  Added(table[m], m)
    OBVIOUS
  <2>1. m \in 1..n /\ m - 1 = k /\ k <= n /\ m \notin 1..k
        /\ \A i : i \in 1..m <=> i \in 1..k \/ i = m
    BY <1>2
  <2> DEFINE id == batch[m].id
             row == RowFor(batch[m])
             old == table[k]
  <2>2. table[k] # NoTask => Added(old, k)
    BY <1>4, <2>1
  <2> HIDE DEF m, A
  <2>3. table[m] = InsertTask(old, batch[m], fk)
    BY <1>2, <2>1
  <2>4. old # NoTask /\ id \notin DOMAIN old /\ table[m] = WithRow(old, id, row)
    BY <2>3 DEF InsertTask, RowFor
  <2>5. Added(old, k)
    BY <2>2, <2>4
  <2> HIDE DEF id, row, old
  <2>6. /\ DOMAIN table[m] = DOMAIN old \cup {id} /\ table[m][id] = row
        /\ \A t \in DOMAIN old : table[m][t] = old[t]
    <3>1. /\ DOMAIN WithRow(old, id, row) = DOMAIN old \cup {id}
          /\ \A t \in DOMAIN old : WithRow(old, id, row)[t] = old[t]
          /\ id \notin DOMAIN old => WithRow(old, id, row)[id] = row
      BY RowAdded
    <3> QED
      BY <2>4, <3>1
  <2>7. id = batch[m].id /\ row = RowFor(batch[m])
    BY DEF id, row
  <2>8. DOMAIN table[m] = DOMAIN tasks \cup {batch[i].id : i \in 1..m}
    BY <2>1, <2>5, <2>6, <2>7
  <2>9. \A t \in DOMAIN tasks : table[m][t] = tasks[t]
    BY <2>5, <2>6
  <2>10. \A i \in 1..m :
            batch[i].id \notin DOMAIN tasks /\ table[m][batch[i].id] = RowFor(batch[i])
    <3>1. \A i \in 1..k : batch[i].id \in DOMAIN old
      BY <2>5
    <3>2. \A i \in 1..k : table[m][batch[i].id] = RowFor(batch[i])
      BY <2>5, <2>6, <3>1
    <3>3. id \notin DOMAIN tasks
      BY <2>4, <2>5
    <3> QED
      BY <2>1, <2>5, <2>6, <2>7, <3>2, <3>3
  <2>11. \A i, j \in 1..m : batch[i].id = batch[j].id => i = j
    <3>1. \A i \in 1..k : batch[i].id # batch[m].id
      BY <2>4, <2>5, <2>7
    <3> QED
      BY <2>1, <2>5, <3>1
  <2> QED
    BY <2>8, <2>9, <2>10, <2>11
<1>5. Nat \subseteq A
  <2> HIDE DEF A
  <2> QED
    BY <1>3, <1>4, Induction
<1>6. Added(tasks', n)
  <2>1. n \in A /\ n <= n
    <3> HIDE DEF A
    <3> QED
      BY <1>2, <1>5
  <2> HIDE DEF Added
  <2> QED
    BY <1>2, <2>1
<1> QED
  BY <1>6 DEF n

-----------------------------------------------------------------------------
(* The depth-first search.  It follows the tasks of the batch only; what is *)
(* black needs what is black, and was colored in an order.                  *)
Colorings(adj) == [DOMAIN adj -> {"white", "gray", "black"}]
Outcomes(adj) == Colorings(adj) \cup {NoTask}
Follows(adj) == [t \in DOMAIN adj |-> Range(adj[t]) \cap DOMAIN adj]
Black(adj, color) == {t \in DOMAIN adj : color[t] = "black"}

Sound(adj, color) ==
  /\ color \in Colorings(adj)
  /\ \A t \in Black(adj, color) : Follows(adj)[t] \subseteq Black(adj, color)
  /\ Grounded(Black(adj, color), Follows(adj))

(* What a search that starts with some colors may end with: no more than    *)
(* white nodes turn black.                                                  *)
Darkens(adj, color, next) ==
  \/ next = NoTask
  \/ /\ Sound(adj, next)
     /\ \A t \in DOMAIN adj : /\ color[t] = "black" => next[t] = "black"
                              /\ next[t] = "gray" <=> color[t] = "gray"
Explored(adj, color, node, next) ==
  Darkens(adj, color, next) /\ (next = NoTask \/ next[node] = "black")

Searching(adj, deeper) ==
  /\ deeper \in [DOMAIN adj -> [Colorings(adj) -> Outcomes(adj)]]
  /\ \A t \in DOMAIN adj, color \in Colorings(adj) :
       Sound(adj, color) /\ color[t] = "white" => Explored(adj, color, t, deeper[t][color])

FollowOne(adj, deeper, c, dep) ==
  IF c = NoTask \/ dep \notin DOMAIN adj THEN c
  ELSE IF c[dep] = "gray" THEN NoTask
  ELSE IF c[dep] = "white" THEN deeper[dep][c] ELSE c
Visits(adj, deeper, node, color, after) ==
  /\ after \in [0..Len(adj[node]) -> Outcomes(adj)]
  /\ after[0] = [color EXCEPT ![node] = "gray"]
  /\ \A i \in 1..Len(adj[node]) : after[i] = FollowOne(adj, deeper, after[i - 1], adj[node][i])
  /\ Visit(adj, deeper, node, color) =
       IF after[Len(adj[node])] = NoTask THEN NoTask
       ELSE [after[Len(adj[node])] EXCEPT ![node] = "black"]

LEMMA VisitSteps ==
  ASSUME NEW adj, NEW node \in DOMAIN adj, Len(adj[node]) \in Nat,
         NEW deeper \in [DOMAIN adj -> [Colorings(adj) -> Outcomes(adj)]],
         NEW color \in Colorings(adj)
  PROVE  \E after : Visits(adj, deeper, node, color, after)
<1> DEFINE n == Len(adj[node])
           D == Outcomes(adj)
           Next1(i, s) == FollowOne(adj, deeper, s, adj[node][i])
           start == [color EXCEPT ![node] = "gray"]
           step == [i \in 1..n |-> [s \in D |-> Next1(i, s)]]
           Old(f) == [i \in 0..n |->
             IF i = 0 THEN [color EXCEPT ![node] = "gray"]
             ELSE LET c == f[i - 1]  dep == adj[node][i]
                  IN  IF c = NoTask \/ dep \notin DOMAIN adj THEN c
                      ELSE IF c[dep] = "gray" THEN NoTask
                      ELSE IF c[dep] = "white" THEN deeper[dep][c] ELSE c]
           Body(f) == [i \in 0..n |-> IF i = 0 THEN start ELSE Next1(i, f[i - 1])]
           W == CHOOSE f : f = Old(f)
<1>1. n \in Nat
  OBVIOUS
<1>2. ASSUME NEW i \in 1..n, NEW s \in D
      PROVE  Next1(i, s) \in D
  <2>1. CASE s = NoTask \/ adj[node][i] \notin DOMAIN adj
    BY <2>1 DEF FollowOne
  <2>2. CASE s # NoTask /\ adj[node][i] \in DOMAIN adj
    <3>1. s \in Colorings(adj)
      BY <2>2 DEF Outcomes
    <3>2. deeper[adj[node][i]][s] \in Outcomes(adj)
      BY <2>2, <3>1
    <3> QED
      BY <2>2, <3>2 DEF FollowOne, Outcomes
  <2> QED
    BY <2>1, <2>2
<1>3. start \in D
  BY DEF Colorings, Outcomes
<1>4. \A h : Old(h) = Body(h)
  BY DEF FollowOne
<1>5. Visit(adj, deeper, node, color) =
        IF W[n] = NoTask THEN NoTask ELSE [W[n] EXCEPT ![node] = "black"]
  BY DEF Visit
<1> HIDE DEF n, D, start, Next1
<1>6. step \in [1..n -> [D -> D]]
  BY <1>2
<1>7. Loops(D, n, step, start)
  <2> HIDE DEF step
  <2> QED
    BY <1>1, <1>3, <1>6, Loop
<1>8. PICK f \in [0..n -> D] : f = [i \in 0..n |-> IF i = 0 THEN start ELSE step[i][f[i - 1]]]
  <2> HIDE DEF step
  <2> QED
    BY <1>7 DEF Loops
<1>9. f[0] = start /\ \A i \in 1..n : f[i] = Next1(i, f[i - 1])
  <2>1. ASSUME NEW i \in 1..n
        PROVE  f[i] = Next1(i, f[i - 1])
    <3>1. i \in 0..n /\ i # 0 /\ i - 1 \in 0..n
      BY <1>1
    <3>2. f[i] = step[i][f[i - 1]] /\ f[i - 1] \in D
      <4> HIDE DEF step
      <4> QED
        BY <1>8, <3>1
    <3> QED
      BY <3>2
  <2>2. 0 \in 0..n
    BY <1>1
  <2> HIDE DEF step
  <2>3. f[0] = start
    BY <1>8, <2>2
  <2> QED
    BY <2>1, <2>3
<1>10. f = Body(f)
  <2>1. \A i \in 0..n : i # 0 => i \in 1..n
    BY <1>1
  <2>2. f = [i \in 0..n |-> f[i]]
    BY <1>8
  <2> QED
    BY <1>9, <2>1, <2>2
<1>11. W = Body(W)
  <2> HIDE DEF Body, Old
  <2>1. f = Old(f)
    BY <1>4, <1>10
  <2>2. W = Old(W)
    BY <2>1
  <2> HIDE DEF W
  <2> QED
    BY <1>4, <2>2
<1> HIDE DEF W
<1>12. W[0] = start /\ \A i \in 1..n : W[i] = Next1(i, W[i - 1])
  <2>1. 0 \in 0..n /\ \A i \in 1..n : i \in 0..n /\ i # 0
    BY <1>1
  <2>2. \A i \in 0..n : W[i] = IF i = 0 THEN start ELSE Next1(i, W[i - 1])
    BY <1>11
  <2> QED
    BY <2>1, <2>2
<1>13. \A i \in 0..n : W[i] = f[i]
  <2>1. \A i \in 1..n : W[i - 1] = f[i - 1] => W[i] = f[i]
    BY <1>9, <1>12
  <2>2. Alike(n, W, f)
    BY <1>9, <1>12, <2>1 DEF Alike
  <2> QED
    BY <1>1, <2>2, SameLoop
<1>14. Visit(adj, deeper, node, color) =
         IF f[n] = NoTask THEN NoTask ELSE [f[n] EXCEPT ![node] = "black"]
  <2>1. W[n] = f[n]
    BY <1>1, <1>13
  <2> QED
    BY <1>5, <2>1
<1>15. Visits(adj, deeper, node, color, f)
  BY <1>8, <1>9, <1>14 DEF Visits, n, D, start, Next1
<1> QED
  BY <1>15

(* The outcome of a visit is a coloring, or nothing. *)
LEMMA VisitTyped ==
  ASSUME NEW adj, NEW node \in DOMAIN adj, Len(adj[node]) \in Nat,
         NEW deeper \in [DOMAIN adj -> [Colorings(adj) -> Outcomes(adj)]],
         NEW color \in Colorings(adj)
  PROVE  Visit(adj, deeper, node, color) \in Outcomes(adj)
<1> DEFINE n == Len(adj[node])
<1>1. PICK after : Visits(adj, deeper, node, color, after)
  BY VisitSteps
<1>2. n \in Nat /\ n \in 0..n
  OBVIOUS
<1>3. after[n] \in Outcomes(adj)
  BY <1>1, <1>2 DEF Visits
<1>4. after[n] # NoTask => [after[n] EXCEPT ![node] = "black"] \in Colorings(adj)
  BY <1>3 DEF Outcomes, Colorings
<1> QED
  BY <1>1, <1>4 DEF Visits, Outcomes

(* A visit of a white node that ends with colors colored no cycle black.    *)
LEMMA VisitSound ==
  ASSUME NEW adj, NEW node \in DOMAIN adj, Len(adj[node]) \in Nat,
         DOMAIN adj[node] = 1..Len(adj[node]),
         NEW deeper, Searching(adj, deeper),
         NEW color, Sound(adj, color), color[node] = "white"
  PROVE  Explored(adj, color, node, Visit(adj, deeper, node, color))
<1> DEFINE n == Len(adj[node])
           V == DOMAIN adj
           dep(i) == adj[node][i]
           Since(c, i) ==
             /\ Sound(adj, c) /\ c[node] = "gray"
             /\ \A t \in V \ {node} : /\ color[t] = "black" => c[t] = "black"
                                      /\ c[t] = "gray" <=> color[t] = "gray"
             /\ \A j \in 1..i : dep(j) \in V => c[dep(j)] = "black"
<1>1. n \in Nat /\ color \in Colorings(adj)
      /\ deeper \in [V -> [Colorings(adj) -> Outcomes(adj)]]
  BY DEF Sound, Searching
<1>2. PICK after : Visits(adj, deeper, node, color, after)
  <2> HIDE DEF n, V
  <2> QED
    BY <1>1, VisitSteps DEF n, V
<1>3. /\ after[0] = [color EXCEPT ![node] = "gray"]
      /\ \A i \in 1..n : after[i] = FollowOne(adj, deeper, after[i - 1], dep(i))
      /\ Visit(adj, deeper, node, color) =
           IF after[n] = NoTask THEN NoTask ELSE [after[n] EXCEPT ![node] = "black"]
  BY <1>2 DEF Visits
<1>4. Range(adj[node]) = {dep(i) : i \in 1..n}
  BY DEF Range
<1>5. V = DOMAIN adj /\ node \in V
  OBVIOUS
<1> HIDE DEF n, V, dep
<1> DEFINE A == {i \in Nat : i <= n => after[i] = NoTask \/ Since(after[i], i)}
<1>6. 0 \in A
  <2> DEFINE c == after[0]
  <2>1. c = [t \in V |-> IF t = node THEN "gray" ELSE color[t]]
    BY <1>1, <1>3, <1>5 DEF Colorings
  <2> HIDE DEF c
  <2>2. c \in Colorings(adj) /\ c[node] = "gray" /\ \A t \in V \ {node} : c[t] = color[t]
    BY <1>1, <1>5, <2>1 DEF Colorings
  <2>3. Black(adj, c) = Black(adj, color)
    BY <1>5, <2>2 DEF Black
  <2>4. Sound(adj, c)
    BY <2>2, <2>3 DEF Sound
  <2>5. \A j \in 1..0 : dep(j) \in V => c[dep(j)] = "black"
    OBVIOUS
  <2>6. Since(c, 0)
    BY <2>2, <2>4, <2>5
  <2> HIDE DEF Since
  <2> QED
    BY <2>6 DEF c
<1>7. ASSUME NEW k \in Nat, k \in A
      PROVE  k + 1 \in A
  <2> DEFINE i == k + 1
             c == after[k]
             next == after[i]
  <2> SUFFICES ASSUME i <= n, next # NoTask
               PROVE  Since(next, i)
    <3> HIDE DEF Since
    <3> QED
      OBVIOUS
  <2>1. i \in 1..n /\ i - 1 = k /\ k <= n /\ \A j : j \in 1..i <=> j \in 1..k \/ j = i
    BY <1>1
  <2>2. c = NoTask \/ Since(c, k)
    <3> HIDE DEF Since
    <3> QED
      BY <1>7, <2>1
  <2>3. next = FollowOne(adj, deeper, c, dep(i))
    BY <1>3, <2>1
  <2> HIDE DEF i, c, next, A
  <2>4. c # NoTask /\ Since(c, k)
    <3> HIDE DEF Since
    <3> QED
      BY <2>2, <2>3 DEF FollowOne
  <2>5. c \in Colorings(adj)
    BY <2>4 DEF Sound
  <2>6. CASE next = c /\ (dep(i) \in V => c[dep(i)] = "black")
    BY <2>1, <2>4, <2>6
  <2>7. CASE dep(i) \in V /\ c[dep(i)] = "white" /\ next = deeper[dep(i)][c]
    <3>1. Explored(adj, c, dep(i), next)
      BY <1>5, <2>4, <2>5, <2>7 DEF Searching
    <3>2. /\ Sound(adj, next) /\ next[dep(i)] = "black"
          /\ \A t \in V : /\ c[t] = "black" => next[t] = "black"
                          /\ next[t] = "gray" <=> c[t] = "gray"
      BY <1>5, <3>1 DEF Explored, Darkens
    <3>3. next[node] = "gray"
      BY <1>5, <2>4, <3>2
    <3>4. \A t \in V \ {node} : /\ color[t] = "black" => next[t] = "black"
                                /\ next[t] = "gray" <=> color[t] = "gray"
      BY <2>4, <3>2
    <3>5. \A j \in 1..i : dep(j) \in V => next[dep(j)] = "black"
      BY <2>1, <2>4, <3>2
    <3> QED
      BY <3>2, <3>3, <3>4, <3>5
  <2>8. dep(i) \in V => c[dep(i)] \in {"white", "gray", "black"}
    BY <1>5, <2>5 DEF Colorings
  <2>9. \/ next = c /\ (dep(i) \in V => c[dep(i)] = "black")
        \/ dep(i) \in V /\ c[dep(i)] = "white" /\ next = deeper[dep(i)][c]
    <3> HIDE DEF Since
    <3> QED
      BY <1>5, <2>3, <2>4, <2>8 DEF FollowOne
  <2> HIDE DEF Since
  <2> QED
    BY <2>6, <2>7, <2>9
<1>8. Nat \subseteq A
  <2> HIDE DEF A
  <2> QED
    BY <1>6, <1>7, Induction
<1> DEFINE last == after[n]
           final == [last EXCEPT ![node] = "black"]
<1>9. last = NoTask \/ Since(last, n)
  <2>1. n \in A /\ n <= n
    <3> HIDE DEF A
    <3> QED
      BY <1>1, <1>8
  <2> HIDE DEF Since
  <2> QED
    BY <2>1
<1>10. CASE last = NoTask
  BY <1>3, <1>10 DEF Explored, Darkens
<1>11. CASE last # NoTask
  <2>0. Visit(adj, deeper, node, color) = final
    BY <1>3, <1>11
  <2> HIDE DEF A, last
  <2>1. Since(last, n)
    <3> HIDE DEF Since
    <3> QED
      BY <1>9, <1>11
  <2>2. last \in Colorings(adj)
    BY <2>1 DEF Sound
  <2>3. final = [t \in V |-> IF t = node THEN "black" ELSE last[t]]
    BY <1>5, <2>2 DEF Colorings
  <2> HIDE DEF final
  <2>4. final \in Colorings(adj) /\ final[node] = "black" /\ \A t \in V \ {node} : final[t] = last[t]
    BY <1>5, <2>2, <2>3 DEF Colorings
  <2>5. Black(adj, final) = Black(adj, last) \cup {node} /\ node \notin Black(adj, last)
    BY <1>5, <2>1, <2>4 DEF Black
  <2>6. Follows(adj)[node] \subseteq Black(adj, last)
    BY <1>4, <1>5, <2>1 DEF Follows, Black
  <2>7. /\ \A t \in Black(adj, last) : Follows(adj)[t] \subseteq Black(adj, last)
        /\ Grounded(Black(adj, last), Follows(adj))
    BY <2>1 DEF Sound
  <2>8. Grounded({node}, Follows(adj))
    BY <2>5, <2>6, OrderOfOne
  <2>9. Grounded(Black(adj, final), Follows(adj))
    BY <2>5, <2>7, <2>8, OrderGrows
  <2>10. \A t \in Black(adj, final) : Follows(adj)[t] \subseteq Black(adj, final)
    BY <2>5, <2>6, <2>7
  <2>11. Sound(adj, final)
    BY <2>4, <2>9, <2>10 DEF Sound
  <2>12. \A t \in V : /\ color[t] = "black" => final[t] = "black"
                      /\ final[t] = "gray" <=> color[t] = "gray"
    <3>1. "gray" # "white" /\ "gray" # "black"
      OBVIOUS
    <3> QED
      BY <2>1, <2>4, <3>1
  <2> QED
    BY <1>5, <2>0, <2>4, <2>11, <2>12 DEF Explored, Darkens
<1> QED
  BY <1>10, <1>11

(* However deep it may go, the search is sound. *)
Listing(adj) ==
  /\ IsFiniteSet(DOMAIN adj)
  /\ \A t \in DOMAIN adj : Len(adj[t]) \in Nat /\ DOMAIN adj[t] = 1..Len(adj[t])
Deepens(adj, search) ==
  /\ \A t \in DOMAIN adj, color \in Colorings(adj) : search[0][t][color] = NoTask
  /\ \A n \in 1..Cardinality(DOMAIN adj) : \A t \in DOMAIN adj, color \in Colorings(adj) :
       search[n][t][color] = Visit(adj, search[n - 1], t, color)
  /\ \A n \in 0..Cardinality(DOMAIN adj) :
       search[n] \in [DOMAIN adj -> [Colorings(adj) -> Outcomes(adj)]]
  /\ dfs(adj) = search[Cardinality(DOMAIN adj)]

LEMMA SearchSteps ==
  ASSUME NEW adj, Listing(adj)
  PROVE  \E search : Deepens(adj, search)
<1> DEFINE N == Cardinality(DOMAIN adj)
           V == DOMAIN adj
           C == Colorings(adj)
           D == [V -> [C -> Outcomes(adj)]]
           start == [t \in V |-> [color \in C |-> NoTask]]
           After(s) == [t \in V |-> [color \in C |-> Visit(adj, s, t, color)]]
           step == [i \in 1..N |-> [s \in D |-> After(s)]]
           Old(f) == [n \in 0..N |->
             [node \in DOMAIN adj |-> [color \in [DOMAIN adj -> {"white", "gray", "black"}] |->
                IF n = 0 THEN NoTask ELSE Visit(adj, f[n - 1], node, color)]]]
           Body(f) == [i \in 0..N |-> IF i = 0 THEN start ELSE After(f[i - 1])]
           W == CHOOSE f : f = Old(f)
<1>1. N \in Nat
  BY FS_CardinalityType DEF Listing
<1>2. ASSUME NEW s \in D
      PROVE  After(s) \in D
  <2>1. \A t \in V, color \in C : Visit(adj, s, t, color) \in Outcomes(adj)
    BY VisitTyped DEF Listing
  <2> HIDE DEF V, C
  <2> QED
    BY <2>1
<1>3. start \in D
  <2>1. NoTask \in Outcomes(adj)
    BY DEF Outcomes
  <2> HIDE DEF V, C
  <2> QED
    BY <2>1
<1>4. \A h : Old(h) = Body(h)
  <2> TAKE h
  <2> DEFINE Level(i) == [node \in V |-> [color \in C |->
                           IF i = 0 THEN NoTask ELSE Visit(adj, h[i - 1], node, color)]]
  <2>1. Old(h) = [i \in 0..N |-> Level(i)]
    BY Zenon DEF Colorings
  <2> HIDE DEF V, C
  <2>2. \A i \in 0..N : Level(i) = (IF i = 0 THEN start ELSE After(h[i - 1]))
    OBVIOUS
  <2> HIDE DEF start, After, Level
  <2> QED
    BY <2>1, <2>2
<1>5. dfs(adj) = W[N]
  BY DEF dfs
<1> HIDE DEF N, D, start, After
<1>6. step \in [1..N -> [D -> D]]
  BY <1>2
<1>7. Loops(D, N, step, start)
  <2> HIDE DEF step
  <2> QED
    BY <1>1, <1>3, <1>6, Loop
<1>8. PICK f \in [0..N -> D] : f = [i \in 0..N |-> IF i = 0 THEN start ELSE step[i][f[i - 1]]]
  <2> HIDE DEF step
  <2> QED
    BY <1>7 DEF Loops
<1>9. f[0] = start /\ \A i \in 1..N : f[i] = After(f[i - 1])
  <2>1. ASSUME NEW i \in 1..N
        PROVE  f[i] = After(f[i - 1])
    <3>1. i \in 0..N /\ i # 0 /\ i - 1 \in 0..N
      BY <1>1
    <3>2. f[i] = step[i][f[i - 1]] /\ f[i - 1] \in D
      <4> HIDE DEF step
      <4> QED
        BY <1>8, <3>1
    <3> QED
      BY <3>2
  <2>2. 0 \in 0..N
    BY <1>1
  <2> HIDE DEF step
  <2>3. f[0] = start
    BY <1>8, <2>2
  <2> QED
    BY <2>1, <2>3
<1>10. f = Body(f)
  <2>1. \A i \in 0..N : i # 0 => i \in 1..N
    BY <1>1
  <2>2. f = [i \in 0..N |-> f[i]]
    BY <1>8
  <2> QED
    BY <1>9, <2>1, <2>2
<1>11. W = Body(W)
  <2> HIDE DEF Body, Old
  <2>1. f = Old(f)
    BY <1>4, <1>10
  <2>2. W = Old(W)
    BY <2>1
  <2> HIDE DEF W
  <2> QED
    BY <1>4, <2>2
<1> HIDE DEF W
<1>12. W[0] = start /\ \A i \in 1..N : W[i] = After(W[i - 1])
  <2>1. 0 \in 0..N /\ \A i \in 1..N : i \in 0..N /\ i # 0
    BY <1>1
  <2>2. \A i \in 0..N : W[i] = IF i = 0 THEN start ELSE After(W[i - 1])
    BY <1>11
  <2> QED
    BY <2>1, <2>2
<1>13. \A i \in 0..N : W[i] = f[i]
  <2>1. \A i \in 1..N : W[i - 1] = f[i - 1] => W[i] = f[i]
    BY <1>9, <1>12
  <2>2. Alike(N, W, f)
    BY <1>9, <1>12, <2>1 DEF Alike
  <2> QED
    BY <1>1, <2>2, SameLoop
<1>14. \A t \in V, color \in C : f[0][t][color] = NoTask
  <2> HIDE DEF V, C
  <2> QED
    BY <1>9 DEF start
<1>15. \A n \in 1..N : \A t \in V, color \in C : f[n][t][color] = Visit(adj, f[n - 1], t, color)
  <2> HIDE DEF V, C
  <2>1. \A s : \A t \in V, color \in C : After(s)[t][color] = Visit(adj, s, t, color)
    BY DEF After
  <2> QED
    BY <1>9, <2>1
<1>16. dfs(adj) = f[N]
  <2>1. N \in 0..N
    BY <1>1
  <2> QED
    BY <1>5, <1>13, <2>1
<1>17. Deepens(adj, f)
  BY <1>8, <1>14, <1>15, <1>16 DEF Deepens, D, N
<1> QED
  BY <1>17

LEMMA SearchSound ==
  ASSUME NEW adj, Listing(adj)
  PROVE  Searching(adj, dfs(adj))
<1> DEFINE N == Cardinality(DOMAIN adj)
<1>1. PICK search : Deepens(adj, search)
  BY SearchSteps
<1>2. N \in Nat
  BY FS_CardinalityType DEF Listing
<1>3. /\ \A t \in DOMAIN adj, color \in Colorings(adj) : search[0][t][color] = NoTask
      /\ \A n \in 1..N : \A t \in DOMAIN adj, color \in Colorings(adj) :
           search[n][t][color] = Visit(adj, search[n - 1], t, color)
      /\ \A n \in 0..N : search[n] \in [DOMAIN adj -> [Colorings(adj) -> Outcomes(adj)]]
      /\ dfs(adj) = search[N]
  BY <1>1 DEF Deepens
<1> HIDE DEF N
<1> DEFINE A == {n \in Nat : n <= N => Searching(adj, search[n])}
<1>4. 0 \in A
  <2>1. 0 \in 0..N
    BY <1>2
  <2> QED
    BY <1>3, <2>1 DEF Searching, Explored, Darkens
<1>5. ASSUME NEW k \in Nat, k \in A
      PROVE  k + 1 \in A
  <2> DEFINE n == k + 1
  <2> SUFFICES ASSUME n <= N
               PROVE  Searching(adj, search[n])
    OBVIOUS
  <2>1. n \in 1..N /\ n \in 0..N /\ n - 1 = k /\ k <= N
    BY <1>2
  <2>2. Searching(adj, search[k])
    BY <1>5, <2>1
  <2> HIDE DEF n, A
  <2>3. ASSUME NEW t \in DOMAIN adj, NEW color \in Colorings(adj),
               Sound(adj, color), color[t] = "white"
        PROVE  Explored(adj, color, t, search[n][t][color])
    <3>1. search[n][t][color] = Visit(adj, search[k], t, color)
      BY <1>3, <2>1
    <3>2. Explored(adj, color, t, Visit(adj, search[k], t, color))
      BY <2>2, <2>3, VisitSound DEF Listing
    <3> QED
      BY <3>1, <3>2
  <2>4. search[n] \in [DOMAIN adj -> [Colorings(adj) -> Outcomes(adj)]]
    BY <1>3, <2>1
  <2> QED
    BY <2>3, <2>4 DEF Searching
<1>6. Nat \subseteq A
  <2> HIDE DEF A
  <2> QED
    BY <1>4, <1>5, Induction
<1>7. N \in A /\ N <= N
  <2> HIDE DEF A
  <2> QED
    BY <1>2, <1>6
<1> QED
  BY <1>3, <1>7

-----------------------------------------------------------------------------
(* What a batch needs of itself comes in some order, when no cycle is found. *)
Detects(batch, color) ==
  LET adj == Adjacency(batch)
  IN  /\ color[0] = [id \in DOMAIN adj |-> "white"]
      /\ \A i \in 1..Len(batch) :
           color[i] = IF color[i - 1] = NoTask \/ color[i - 1][batch[i].id] # "white"
                      THEN color[i - 1] ELSE dfs(adj)[batch[i].id][color[i - 1]]
      /\ detectCycle(batch) = (color[Len(batch)] = NoTask)

LEMMA DetectSteps ==
  ASSUME NEW batch, Len(batch) \in Nat, Listing(Adjacency(batch)),
         \A i \in 1..Len(batch) : batch[i].id \in DOMAIN Adjacency(batch)
  PROVE  \E color : Detects(batch, color)
<1> DEFINE n == Len(batch)
           adj == Adjacency(batch)
           D == Outcomes(adj)
           Next1(i, c) == IF c = NoTask \/ c[batch[i].id] # "white" THEN c
                          ELSE dfs(adj)[batch[i].id][c]
           start == [id \in DOMAIN adj |-> "white"]
           step == [i \in 1..n |-> [c \in D |-> Next1(i, c)]]
           Old(f) == [i \in 0..n |->
             IF i = 0 THEN [id \in DOMAIN adj |-> "white"]
             ELSE LET c == f[i - 1]
                  IN  IF c = NoTask \/ c[batch[i].id] # "white" THEN c
                      ELSE dfs(adj)[batch[i].id][c]]
           Body(f) == [i \in 0..n |-> IF i = 0 THEN start ELSE Next1(i, f[i - 1])]
           W == CHOOSE f : f = Old(f)
<1>1. n \in Nat
  OBVIOUS
<1>2. \A h : Old(h) = Body(h)
  OBVIOUS
<1>3. detectCycle(batch) = (W[n] = NoTask)
  BY DEF detectCycle
<1>4. \A i \in 1..n : batch[i].id \in DOMAIN adj
  OBVIOUS
<1>5. dfs(adj) \in [DOMAIN adj -> [Colorings(adj) -> Outcomes(adj)]]
  BY SearchSound DEF Searching
<1> HIDE DEF n, adj
<1>6. ASSUME NEW i \in 1..n, NEW c \in D
      PROVE  Next1(i, c) \in D
  <2>1. CASE c = NoTask \/ c[batch[i].id] # "white"
    BY <2>1
  <2>2. CASE c \in Colorings(adj) /\ c # NoTask /\ c[batch[i].id] = "white"
    BY <1>4, <1>5, <2>2
  <2> QED
    BY <2>1, <2>2 DEF Outcomes
<1>7. start \in D
  BY DEF Outcomes, Colorings
<1> HIDE DEF D, start, Next1
<1>8. step \in [1..n -> [D -> D]]
  BY <1>6
<1>9. Loops(D, n, step, start)
  <2> HIDE DEF step
  <2> QED
    BY <1>1, <1>7, <1>8, Loop
<1>10. PICK f \in [0..n -> D] : f = [i \in 0..n |-> IF i = 0 THEN start ELSE step[i][f[i - 1]]]
  <2> HIDE DEF step
  <2> QED
    BY <1>9 DEF Loops
<1>11. f[0] = start /\ \A i \in 1..n : f[i] = Next1(i, f[i - 1])
  <2>1. ASSUME NEW i \in 1..n
        PROVE  f[i] = Next1(i, f[i - 1])
    <3>1. i \in 0..n /\ i # 0 /\ i - 1 \in 0..n
      BY <1>1
    <3>2. f[i] = step[i][f[i - 1]] /\ f[i - 1] \in D
      <4> HIDE DEF step
      <4> QED
        BY <1>10, <3>1
    <3> QED
      BY <3>2
  <2>2. 0 \in 0..n
    BY <1>1
  <2> HIDE DEF step
  <2>3. f[0] = start
    BY <1>10, <2>2
  <2> QED
    BY <2>1, <2>3
<1>12. f = Body(f)
  <2>1. \A i \in 0..n : i # 0 => i \in 1..n
    BY <1>1
  <2>2. f = [i \in 0..n |-> f[i]]
    BY <1>10
  <2> QED
    BY <1>11, <2>1, <2>2
<1>13. W = Body(W)
  <2> HIDE DEF Body, Old
  <2>1. f = Old(f)
    BY <1>2, <1>12
  <2>2. W = Old(W)
    BY <2>1
  <2> HIDE DEF W
  <2> QED
    BY <1>2, <2>2
<1> HIDE DEF W
<1>14. W[0] = start /\ \A i \in 1..n : W[i] = Next1(i, W[i - 1])
  <2>1. 0 \in 0..n /\ \A i \in 1..n : i \in 0..n /\ i # 0
    BY <1>1
  <2>2. \A i \in 0..n : W[i] = IF i = 0 THEN start ELSE Next1(i, W[i - 1])
    BY <1>13
  <2> QED
    BY <2>1, <2>2
<1>15. Detects(batch, W)
  BY <1>3, <1>14 DEF Detects, n, adj, start, Next1
<1> QED
  BY <1>15

LEMMA NoCycleGrounded ==
  ASSUME NEW batch, Len(batch) \in Nat, Listing(Adjacency(batch)),
         DOMAIN Adjacency(batch) = {batch[i].id : i \in 1..Len(batch)},
         ~detectCycle(batch)
  PROVE  Grounded(DOMAIN Adjacency(batch), Follows(Adjacency(batch)))
<1> DEFINE n == Len(batch)
           adj == Adjacency(batch)
           V == DOMAIN adj
           Done(c, i) ==
             /\ Sound(adj, c) /\ \A t \in V : c[t] # "gray"
             /\ \A j \in 1..i : c[batch[j].id] = "black"
<1>1. n \in Nat /\ V = {batch[i].id : i \in 1..n}
  OBVIOUS
<1>2. PICK color : Detects(batch, color)
  BY DetectSteps
<1>3. /\ color[0] = [id \in V |-> "white"]
      /\ \A i \in 1..n :
           color[i] = IF color[i - 1] = NoTask \/ color[i - 1][batch[i].id] # "white"
                      THEN color[i - 1] ELSE dfs(adj)[batch[i].id][color[i - 1]]
      /\ color[n] # NoTask
  BY <1>2 DEF Detects
<1>4. Searching(adj, dfs(adj))
  BY SearchSound
<1>5. V = DOMAIN adj
  OBVIOUS
<1> HIDE DEF n, V, adj
<1> DEFINE A == {i \in Nat : i <= n => color[i] = NoTask \/ Done(color[i], i)}
<1>6. 0 \in A
  <2>1. color[0] \in Colorings(adj) /\ \A t \in V : color[0][t] = "white"
    BY <1>3, <1>5 DEF Colorings
  <2>2. Black(adj, color[0]) = {} /\ \A t \in V : color[0][t] # "gray"
    BY <1>5, <2>1 DEF Black
  <2>3. Sound(adj, color[0])
    BY <2>1, <2>2 DEF Sound, Grounded
  <2> QED
    BY <2>2, <2>3
<1>7. ASSUME NEW k \in Nat, k \in A
      PROVE  k + 1 \in A
  <2> DEFINE i == k + 1
             c == color[k]
             next == color[i]
             id == batch[i].id
  <2> SUFFICES ASSUME i <= n, next # NoTask
               PROVE  Done(next, i)
    <3> HIDE DEF Done
    <3> QED
      OBVIOUS
  <2>1. i \in 1..n /\ i - 1 = k /\ k <= n /\ \A j : j \in 1..i <=> j \in 1..k \/ j = i
    BY <1>1
  <2>0. \A j \in 1..k : j \in 1..n
    BY <1>1
  <2>2. c = NoTask \/ Done(c, k)
    <3> HIDE DEF Done
    <3> QED
      BY <1>7, <2>1
  <2>3. next = IF c = NoTask \/ c[id] # "white" THEN c ELSE dfs(adj)[id][c]
    BY <1>3, <2>1
  <2>4. id \in V /\ id = batch[i].id /\ \A j \in 1..k : batch[j].id \in V
    BY <1>1, <2>0, <2>1
  <2> HIDE DEF i, c, next, id, A
  <2>5. Done(c, k) /\ c # NoTask
    <3> HIDE DEF Done
    <3> QED
      BY <2>2, <2>3
  <2>6. c \in Colorings(adj)
    BY <2>5 DEF Sound
  <2>7. c[id] \in {"white", "black"}
    BY <1>5, <2>4, <2>5, <2>6 DEF Colorings
  <2>8. CASE c[id] = "black"
    <3>1. next = c
      BY <2>3, <2>8
    <3> QED
      BY <2>1, <2>4, <2>5, <2>8, <3>1
  <2>9. CASE c[id] = "white"
    <3>1. next = dfs(adj)[id][c]
      BY <2>3, <2>5, <2>9
    <3>2. Explored(adj, c, id, next)
      BY <1>4, <1>5, <2>4, <2>5, <2>6, <2>9, <3>1 DEF Searching
    <3>3. /\ Sound(adj, next) /\ next[id] = "black"
          /\ \A t \in V : /\ c[t] = "black" => next[t] = "black"
                          /\ next[t] = "gray" <=> c[t] = "gray"
      BY <1>5, <3>2 DEF Explored, Darkens
    <3> QED
      BY <2>1, <2>4, <2>5, <3>3
  <2> HIDE DEF Done
  <2> QED
    BY <2>7, <2>8, <2>9
<1>8. Nat \subseteq A
  <2> HIDE DEF A
  <2> QED
    BY <1>6, <1>7, Induction
<1>9. Done(color[n], n)
  <2>1. n \in A /\ n <= n
    <3> HIDE DEF A
    <3> QED
      BY <1>1, <1>8
  <2> HIDE DEF Done
  <2> QED
    BY <1>3, <2>1
<1>10. Black(adj, color[n]) = V
  BY <1>1, <1>5, <1>9 DEF Black
<1> QED
  BY <1>9, <1>10 DEF Sound, V, adj

-----------------------------------------------------------------------------
(* The tasks of a batch and what they need. *)
LEMMA BatchListed ==
  ASSUME NEW batch \in Batches
  PROVE  /\ Len(batch) \in Nat /\ DOMAIN batch = 1..Len(batch)
         /\ \A i \in 1..Len(batch) : batch[i].run \in Runs \cup {NoTask}
                                     /\ batch[i].id[1] \notin Clients
         /\ DOMAIN Adjacency(batch) = {batch[i].id : i \in 1..Len(batch)}
         /\ Listing(Adjacency(batch))
<1> DEFINE n == Len(batch)
           adj == Adjacency(batch)
<1>1. n \in Nat /\ DOMAIN batch = 1..n
  BY CreationAssumption
<1>2. ASSUME NEW i \in 1..n
      PROVE  /\ batch[i].run \in Runs \cup {NoTask} /\ batch[i].id[1] \notin Clients
             /\ Len(batch[i].dependsOn) \in Nat
             /\ DOMAIN batch[i].dependsOn = 1..Len(batch[i].dependsOn)
  <2>1. batch[i] \in Range(batch)
    BY <1>1 DEF Range
  <2>2. batch[i].dependsOn \in Seq(Range(batch[i].dependsOn))
    BY <2>1, CreationAssumption
  <2>3. Len(batch[i].dependsOn) \in Nat
        /\ DOMAIN batch[i].dependsOn = 1..Len(batch[i].dependsOn)
    BY <2>2
  <2> QED
    BY <2>1, <2>3, CreationAssumption
<1>3. DOMAIN adj = {batch[i].id : i \in 1..n}
  BY <1>1 DEF Adjacency
<1> DEFINE Ends1(id, j) == /\ j \in 1..n /\ batch[j].id = id
                           /\ \A m \in 1..n : batch[m].id = id => m <= j
<1>4. \A id \in DOMAIN adj : adj[id] = batch[CHOOSE j \in 1..n : batch[j].id = id
                                  /\ \A m \in 1..n : batch[m].id = id => m <= j].dependsOn
  BY <1>1 DEF Adjacency
<1> HIDE DEF n, adj
<1>5. ASSUME NEW id \in DOMAIN adj
      PROVE  \E j \in 1..n : adj[id] = batch[j].dependsOn
  <2> DEFINE S == {i \in 1..n : batch[i].id = id}
  <2>1. S # {} /\ S \in SUBSET Nat
    BY <1>3
  <2>2. IsFiniteSet(S)
    BY <1>1, FS_Interval, FS_Subset
  <2>3. \E j \in S : \A m \in S : j >= m
    <3> HIDE DEF S
    <3> QED
      BY <2>1, <2>2, LargestExists
  <2>4. \E j \in 1..n : batch[j].id = id /\ \A m \in 1..n : batch[m].id = id => m <= j
    BY <1>1, <2>3
  <2> QED
    BY <1>4, <2>4
<1>6. IsFiniteSet(DOMAIN adj)
  <2>1. IsFiniteSet(1..n)
    BY <1>1, FS_Interval
  <2>2. [i \in 1..n |-> batch[i].id] \in Surjection(1..n, {batch[i].id : i \in 1..n})
    BY DEF Surjection
  <2>3. IsFiniteSet({batch[i].id : i \in 1..n})
    BY <2>1, <2>2, FS_Surjection
  <2> QED
    BY <1>3, <2>3
<1>7. Listing(adj)
  BY <1>2, <1>5, <1>6 DEF Listing
<1> QED
  BY <1>1, <1>2, <1>3, <1>7 DEF n, adj

LEMMA AdjacencyIs ==
  ASSUME NEW batch, DOMAIN batch = 1..Len(batch), Len(batch) \in Nat,
         \A i, j \in 1..Len(batch) : batch[i].id = batch[j].id => i = j,
         NEW i \in 1..Len(batch)
  PROVE  Adjacency(batch)[batch[i].id] = batch[i].dependsOn
<1> DEFINE id == batch[i].id
           last == CHOOSE j \in DOMAIN batch :
                     batch[j].id = id /\ \A m \in DOMAIN batch : batch[m].id = id => m <= j
<1>1. last = i
  <2>1. \A m \in 1..Len(batch) : batch[m].id = id => m = i
    OBVIOUS
  <2>2. i <= i
    OBVIOUS
  <2>3. \E j \in DOMAIN batch :
           batch[j].id = id /\ \A m \in DOMAIN batch : batch[m].id = id => m <= j
    BY <2>1, <2>2
  <2>4. last \in DOMAIN batch /\ batch[last].id = id
    BY <2>3
  <2> HIDE DEF last
  <2> QED
    BY <2>1, <2>4
<1>2. Adjacency(batch)[id] = batch[last].dependsOn
  BY DEF Adjacency
<1> QED
  BY <1>1, <1>2

(* Rows without an order among themselves.  *)
LEMMA RowsGrounded ==
  ASSUME NEW W, DOMAIN tasks' = DOMAIN tasks \cup W,
         \A t \in DOMAIN tasks : tasks'[t] = tasks[t],
         \A t \in DOMAIN tasks : Needs[t] \subseteq DOMAIN tasks,
         Grounded(DOMAIN tasks, Needs), Grounded(W, Needs'),
         \A t \in W : Needs'[t] \subseteq DOMAIN tasks'
  PROVE  /\ \A t \in DOMAIN tasks' : Needs'[t] \subseteq DOMAIN tasks'
         /\ Grounded(DOMAIN tasks', Needs')
<1>1. \A t \in DOMAIN tasks : Needs'[t] = Needs[t]
  BY DEF Needs
<1> DEFINE V == DOMAIN tasks
           needs == Needs
           after == Needs'
<1>2. Grounded(V, needs) /\ (\A t \in V : after[t] = needs[t] /\ needs[t] \subseteq V)
  BY <1>1
<1>3. Grounded(W, after) /\ DOMAIN tasks' = V \cup W /\ \A t \in W : after[t] \subseteq DOMAIN tasks'
  OBVIOUS
<1> HIDE DEF V, needs, after
<1>4. Grounded(V, after)
  BY <1>2, OrderSame
<1>5. Grounded(V \cup W, after)
  BY <1>2, <1>3, <1>4, OrderGrows
<1>6. \A t \in V \cup W : after[t] \subseteq V \cup W
  BY <1>2, <1>3
<1> QED
  BY <1>3, <1>5, <1>6 DEF after

-----------------------------------------------------------------------------
LEMMA CreateTaskKeeps ==
  ASSUME CreationInv, NEW batch \in Batches, NEW in \in Range(batch), CreateTask(in)
  PROVE  TasksTyped' /\ TasksGrounded' /\ ClientsInv'
<1> DEFINE id == in.id
           row == RowFor(in)
<1>1. /\ TasksTyped /\ TasksGrounded /\ ClientsInv
      /\ in.run \in Runs \cup {NoTask} /\ id[1] \notin Clients
  BY CreationAssumption DEF CreationInv
<1>2. /\ in.run # NoTask /\ client' = client
      /\ careless' = (careless \/ ~(Range(in.dependsOn) \subseteq DOMAIN tasks))
  BY DEF CreateTask, validateInput, plane
<1>3. id \notin DOMAIN tasks /\ tasks' = WithRow(tasks, id, row)
  BY DEF CreateTask, InsertTask, RowFor
<1> HIDE DEF id
<1>4. /\ row = [run |-> row.run, dependsOn |-> row.dependsOn, files |-> row.files, spec |-> row.spec]
      /\ row.run \in Runs /\ row.dependsOn = Range(in.dependsOn)
  BY <1>1, <1>2 DEF RowFor
<1> HIDE DEF row
<1>5. /\ DOMAIN tasks' = DOMAIN tasks \cup {id} /\ tasks'[id] = row
      /\ \A t \in DOMAIN tasks : tasks'[t] = tasks[t]
  <2>1. /\ DOMAIN WithRow(tasks, id, row) = DOMAIN tasks \cup {id}
        /\ \A t \in DOMAIN tasks : WithRow(tasks, id, row)[t] = tasks[t]
        /\ id \notin DOMAIN tasks => WithRow(tasks, id, row)[id] = row
    BY RowAdded
  <2> QED
    BY <1>3, <2>1
<1>6. TasksTyped'
  <2>1. IsFiniteSet(DOMAIN tasks')
    BY <1>1, <1>5, FS_AddElement DEF TasksTyped
  <2> QED
    BY <1>1, <1>4, <1>5, <2>1 DEF TasksTyped
<1>7. TasksGrounded'
  <2> SUFFICES ASSUME ~careless'
               PROVE  /\ \A t \in DOMAIN tasks' : Needs'[t] \subseteq DOMAIN tasks'
                      /\ Grounded(DOMAIN tasks', Needs')
    BY DEF TasksGrounded
  <2>1. ~careless /\ Range(in.dependsOn) \subseteq DOMAIN tasks
    BY <1>2
  <2>2. (\A t \in DOMAIN tasks : Needs[t] \subseteq DOMAIN tasks) /\ Grounded(DOMAIN tasks, Needs)
    BY <1>1, <2>1 DEF TasksGrounded
  <2>3. Needs'[id] = Range(in.dependsOn)
    BY <1>4, <1>5 DEF Needs
  <2> DEFINE after == Needs'
  <2>4. id \notin after[id] /\ \A t \in {id} : after[t] \subseteq DOMAIN tasks'
    BY <1>3, <1>5, <2>1, <2>3
  <2> HIDE DEF after
  <2>5. Grounded({id}, after)
    BY <2>4, OrderOfOne
  <2> QED
    BY <1>5, <2>2, <2>4, <2>5, RowsGrounded DEF after
<1>8. ClientsInv'
  <2>1. \A t \in DOMAIN tasks' : t \in DOMAIN tasks \/ t[1] \notin Clients
    BY <1>1, <1>5
  <2> QED
    BY <1>1, <1>2, <1>5, <2>1, ServiceKeepsClients
<1> QED
  BY <1>6, <1>7, <1>8

LEMMA CreateBatchKeeps ==
  ASSUME CreationInv, NEW batch \in Batches, CreateBatch(batch)
  PROVE  TasksTyped' /\ TasksGrounded' /\ ClientsInv'
<1> DEFINE n == Len(batch)
           adj == Adjacency(batch)
           W == {batch[i].id : i \in 1..n}
<1>1. TasksTyped /\ TasksGrounded /\ ClientsInv
  BY DEF CreationInv
<1>2. /\ n \in Nat /\ DOMAIN batch = 1..n /\ DOMAIN adj = W /\ Listing(adj)
      /\ \A i \in 1..n : batch[i].run \in Runs \cup {NoTask} /\ batch[i].id[1] \notin Clients
  BY BatchListed
<1>3. /\ \A i \in 1..n : batch[i].run # NoTask
      /\ \A i \in 1..n : Range(batch[i].dependsOn) \subseteq DOMAIN adj \cup DOMAIN tasks
      /\ ~detectCycle(batch) /\ client' = client /\ careless' = careless
  BY <1>2 DEF CreateBatch, validateInput, validateBatchDependencies, KnownIds, plane
<1>4. PICK fk : tasks' = InsertAll(batch, fk)
  BY DEF CreateBatch, InsertAll
<1>5. /\ DOMAIN tasks' = DOMAIN tasks \cup W
      /\ \A t \in DOMAIN tasks : tasks'[t] = tasks[t]
      /\ \A i \in 1..n : batch[i].id \notin DOMAIN tasks /\ tasks'[batch[i].id] = RowFor(batch[i])
      /\ \A i, j \in 1..n : batch[i].id = batch[j].id => i = j
  <2>1. tasks' # NoTask
    BY DEF CreateBatch
  <2> QED
    BY <1>2, <1>4, <2>1, BatchRows
<1>6. \A i \in 1..n : adj[batch[i].id] = batch[i].dependsOn
  BY <1>2, <1>5, AdjacencyIs
<1>7. Grounded(W, Follows(adj))
  BY <1>2, <1>3, NoCycleGrounded
<1>8. \A t \in W : \E i \in 1..n : t = batch[i].id
  OBVIOUS
<1>9. IsFiniteSet(W)
  BY <1>2 DEF Listing
<1> HIDE DEF n, adj, W
<1>10. TasksTyped'
  <2>1. IsFiniteSet(DOMAIN tasks')
    <3>1. IsFiniteSet(DOMAIN tasks)
      BY <1>1 DEF TasksTyped
    <3>2. IsFiniteSet(DOMAIN tasks \cup W)
      BY <1>9, <3>1, FS_Union
    <3> QED
      BY <1>5, <3>2
  <2>2. ASSUME NEW i \in 1..n
        PROVE  LET row == RowFor(batch[i])
               IN  /\ row = [run |-> row.run, dependsOn |-> row.dependsOn,
                             files |-> row.files, spec |-> row.spec]
                   /\ row.run \in Runs
    BY <1>2, <1>3 DEF RowFor
  <2>3. ASSUME NEW t \in DOMAIN tasks'
        PROVE  /\ tasks'[t] = [run |-> tasks'[t].run, dependsOn |-> tasks'[t].dependsOn,
                               files |-> tasks'[t].files, spec |-> tasks'[t].spec]
               /\ tasks'[t].run \in Runs
    <3>1. CASE t \in DOMAIN tasks
      BY <1>1, <1>5, <3>1 DEF TasksTyped
    <3>2. CASE t \in W
      <4>1. PICK i \in 1..n : t = batch[i].id
        BY <1>8, <3>2
      <4>2. tasks'[t] = RowFor(batch[i])
        BY <1>5, <4>1
      <4> QED
        BY <2>2, <4>2
    <3> QED
      BY <1>5, <3>1, <3>2
  <2> QED
    BY <2>1, <2>3 DEF TasksTyped
<1>11. TasksGrounded'
  <2> SUFFICES ASSUME ~careless'
               PROVE  /\ \A t \in DOMAIN tasks' : Needs'[t] \subseteq DOMAIN tasks'
                      /\ Grounded(DOMAIN tasks', Needs')
    BY DEF TasksGrounded
  <2>1. (\A t \in DOMAIN tasks : Needs[t] \subseteq DOMAIN tasks) /\ Grounded(DOMAIN tasks, Needs)
    BY <1>1, <1>3 DEF TasksGrounded
  <2>2. \A t \in W : Needs'[t] = Range(adj[t]) /\ Needs'[t] \subseteq DOMAIN tasks'
    <3> SUFFICES ASSUME NEW t \in W
                 PROVE  Needs'[t] = Range(adj[t]) /\ Needs'[t] \subseteq DOMAIN tasks'
      OBVIOUS
    <3>1. PICK i \in 1..n : t = batch[i].id
      BY <1>8
    <3>2. t \in DOMAIN tasks' /\ tasks'[t].dependsOn = Range(batch[i].dependsOn)
      <4>1. RowFor(batch[i]).dependsOn = Range(batch[i].dependsOn)
        BY DEF RowFor
      <4>2. tasks'[t] = RowFor(batch[i])
        BY <1>5, <3>1
      <4> QED
        BY <1>5, <4>1, <4>2
    <3>3. Needs'[t] = Range(batch[i].dependsOn)
      BY <3>2 DEF Needs
    <3>4. Range(batch[i].dependsOn) \subseteq DOMAIN tasks'
      BY <1>2, <1>3, <1>5
    <3>5. adj[t] = batch[i].dependsOn
      BY <1>6, <3>1
    <3> QED
      BY <3>3, <3>4, <3>5
  <2> DEFINE after == Needs'
  <2>3. \A t \in W : after[t] \cap W \subseteq Follows(adj)[t]
    BY <1>2, <2>2 DEF Follows
  <2>4. \A t \in W : after[t] \subseteq DOMAIN tasks'
    BY <2>2
  <2> HIDE DEF after
  <2>5. Grounded(W, after)
    BY <1>7, <2>3, OrderSame
  <2> QED
    BY <1>5, <2>1, <2>4, <2>5, RowsGrounded DEF after
<1>12. ClientsInv'
  <2>1. \A t \in DOMAIN tasks' : t \in DOMAIN tasks \/ t[1] \notin Clients
    BY <1>2, <1>5, <1>8
  <2> QED
    BY <1>1, <1>3, <1>5, <2>1, ServiceKeepsClients
<1> QED
  BY <1>10, <1>11, <1>12

-----------------------------------------------------------------------------
LEMMA CreateRowKeeps ==
  ASSUME CreationInv, NEW c \in Clients, CreateRow(c)
  PROVE  TasksTyped' /\ TasksGrounded' /\ ClientsInv'
<1> DEFINE m == Number(c) + 1
           row == [run |-> client[c].run, dependsOn |-> {}, files |-> {}, spec |-> CurrentSpec(c)]
<1>1. /\ TasksTyped /\ TasksGrounded /\ ClientsInv
      /\ ClientTyped(c) /\ Numbered(c) /\ (~client[c].deaf => InOrder(c))
  BY DEF CreationInv, ClientsInv
<1>2. /\ client[c].pc = "row" /\ client' = [client EXCEPT ![c].pc = "files"]
      /\ careless' = careless
  BY DEF CreateRow
<1>3. PICK id : id = <<c, m>>
  OBVIOUS
<1>4. tasks' = WithRow(tasks, id, row)
  BY <1>3 DEF CreateRow
<1>5. id[1] = c /\ id \notin DOMAIN tasks
  <2>1. Number(c) \in Nat /\ \A k \in 1..Number(c) : k # m
    BY <1>1 DEF Numbered
  <2>2. \A k \in 1..Number(c) : <<c, k>> # id
    <3> HIDE DEF m
    <3> QED
      BY <1>3, <2>1
  <2>3. id[1] = c
    BY <1>3
  <2> QED
    BY <1>1, <2>2, <2>3 DEF Numbered
<1>6. /\ DOMAIN tasks' = DOMAIN tasks \cup {id} /\ tasks'[id] = row
      /\ \A t \in DOMAIN tasks : tasks'[t] = tasks[t]
  <2> HIDE DEF row
  <2>1. /\ DOMAIN WithRow(tasks, id, row) = DOMAIN tasks \cup {id}
        /\ \A t \in DOMAIN tasks : WithRow(tasks, id, row)[t] = tasks[t]
        /\ id \notin DOMAIN tasks => WithRow(tasks, id, row)[id] = row
    BY RowAdded
  <2> QED
    BY <1>4, <1>5, <2>1
<1>7. /\ row = [run |-> row.run, dependsOn |-> row.dependsOn, files |-> row.files, spec |-> row.spec]
      /\ row.run \in Runs /\ row.dependsOn = {} /\ row.spec = client[c].told + client[c].made + 1
  BY <1>1, <1>2 DEF ClientTyped, CurrentSpec
<1> HIDE DEF row
<1>8. TasksTyped'
  <2>1. IsFiniteSet(DOMAIN tasks')
    BY <1>1, <1>6, FS_AddElement DEF TasksTyped
  <2> QED
    BY <1>1, <1>6, <1>7, <2>1 DEF TasksTyped
<1>9. TasksGrounded'
  <2> SUFFICES ASSUME ~careless'
               PROVE  /\ \A t \in DOMAIN tasks' : Needs'[t] \subseteq DOMAIN tasks'
                      /\ Grounded(DOMAIN tasks', Needs')
    BY DEF TasksGrounded
  <2>1. (\A t \in DOMAIN tasks : Needs[t] \subseteq DOMAIN tasks) /\ Grounded(DOMAIN tasks, Needs)
    BY <1>1, <1>2 DEF TasksGrounded
  <2>2. Needs'[id] = {}
    BY <1>6, <1>7 DEF Needs
  <2> DEFINE after == Needs'
  <2>3. id \notin after[id] /\ \A t \in {id} : after[t] \subseteq DOMAIN tasks'
    BY <2>2
  <2> HIDE DEF after
  <2>4. Grounded({id}, after)
    BY <2>3, OrderOfOne
  <2> QED
    BY <1>6, <2>1, <2>3, <2>4, RowsGrounded DEF after
<1>10. /\ client' = [d \in Clients |-> client'[d]]
       /\ \A d \in Clients : d # c => client'[d] = client[d]
       /\ client'[c] = [client[c] EXCEPT !.pc = "files"]
  BY <1>1, <1>2 DEF ClientsInv
<1>11. ASSUME NEW d \in Clients, d # c
       PROVE  ClientTyped(d)' /\ Numbered(d)' /\ (~client'[d].deaf => InOrder(d)')
  <2>1. ClientTyped(d) /\ Numbered(d) /\ (~client[d].deaf => InOrder(d)) /\ client'[d] = client[d]
    BY <1>1, <1>10, <1>11 DEF ClientsInv
  <2>2. {t \in DOMAIN tasks' : t[1] = d} = {t \in DOMAIN tasks : t[1] = d}
    BY <1>5, <1>6, <1>11
  <2>3. Numbered(d)' /\ Number(d)' = Number(d)
    BY <2>1, <2>2, NumbersKept
  <2>4. ClientTyped(d)'
    BY <2>1 DEF ClientTyped
  <2>5. ~client'[d].deaf => InOrder(d)'
    BY <1>6, <2>1, <2>3 DEF InOrder, Numbered
  <2> QED
    BY <2>3, <2>4, <2>5
<1>12. ClientTyped(c)'
  BY <1>1, <1>2, <1>10 DEF ClientTyped, CreationClient
<1>13. Number(c)' = m /\ Number(c) \in Nat
  <2> DEFINE S == {t \in DOMAIN tasks : t[1] = c}
  <2>1. {t \in DOMAIN tasks' : t[1] = c} = S \cup {id} /\ id \notin S
    BY <1>5, <1>6
  <2>2. IsFiniteSet(S)
    BY <1>1, FS_Subset DEF TasksTyped
  <2>3. Cardinality(S \cup {id}) = Cardinality(S) + 1
    BY <2>1, <2>2, FS_AddElement
  <2>4. Number(c) \in Nat
    BY <1>1 DEF Numbered
  <2> QED
    BY <2>1, <2>3, <2>4 DEF Number
<1>14. \A k : k \in 1..m <=> k \in 1..Number(c) \/ k = m
  BY <1>13
<1>15. Numbered(c)'
  <2>1. ASSUME NEW t \in DOMAIN tasks'
        PROVE  t[1] = c <=> \E k \in 1..m : t = <<c, k>>
    <3>1. CASE t = id
      <4> HIDE DEF m
      <4> QED
        BY <1>3, <1>5, <1>14, <3>1
    <3>2. CASE t # id
      <4>1. t \in DOMAIN tasks
        BY <1>6, <3>2
      <4>2. t[1] = c <=> \E k \in 1..Number(c) : t = <<c, k>>
        BY <1>1, <4>1 DEF Numbered
      <4> HIDE DEF m
      <4> QED
        BY <1>3, <1>14, <3>2, <4>2
    <3> QED
      BY <3>1, <3>2
  <2>2. ASSUME NEW k \in 1..m
        PROVE  <<c, k>> \in DOMAIN tasks'
    <3> HIDE DEF m
    <3> QED
      BY <1>1, <1>3, <1>6, <1>14 DEF Numbered
  <2>3. m \in Nat
    BY <1>13
  <2> HIDE DEF m
  <2> QED
    BY <1>13, <2>1, <2>2, <2>3 DEF Numbered
<1>16. ~client'[c].deaf => InOrder(c)'
  <2> SUFFICES ASSUME ~client'[c].deaf
               PROVE  InOrder(c)'
    OBVIOUS
  <2>1. /\ client[c].deaf = FALSE /\ client'[c].told = client[c].told
        /\ client'[c].made = client[c].made /\ client'[c].pc = "files"
        /\ client[c].told \in Nat /\ client[c].made \in Nat
    BY <1>1, <1>10 DEF ClientTyped, CreationClient
  <2>2. Number(c) = client[c].told + client[c].made
        /\ \A k \in 1..Number(c) : <<c, k>> \in DOMAIN tasks /\ tasks[<<c, k>>].spec = k
    BY <1>1, <1>2, <2>1 DEF InOrder, Numbered
  <2>3. ASSUME NEW k \in 1..m
        PROVE  tasks'[<<c, k>>].spec = k
    <3>1. CASE k = m
      BY <1>3, <1>6, <1>7, <2>2, <3>1
    <3>2. CASE k \in 1..Number(c)
      BY <1>6, <2>2, <3>2
    <3> QED
      BY <1>14, <3>1, <3>2
  <2>4. m = client'[c].told + client'[c].made + 1
    BY <2>1, <2>2
  <2> HIDE DEF m
  <2> QED
    BY <1>13, <2>1, <2>3, <2>4 DEF InOrder
<1>17. ClientsInv'
  BY <1>10, <1>11, <1>12, <1>15, <1>16 DEF ClientsInv
<1> QED
  BY <1>8, <1>9, <1>17

(* Tasks that keep what they need stay in order. *)
LEMMA GroundedKept ==
  ASSUME TasksGrounded, careless' = careless, DOMAIN tasks' = DOMAIN tasks,
         \A t \in DOMAIN tasks : tasks'[t].dependsOn = tasks[t].dependsOn
  PROVE  TasksGrounded'
<1>1. Needs' = Needs
  BY DEF Needs
<1> QED
  BY <1>1 DEF TasksGrounded

LEMMA ClientStepKeeps ==
  ASSUME CreationInv, NEW c \in Clients, UNCHANGED <<tasks, careless>>,
         dispatchCreateTaskBatch(c) \/ CreateRowFails(c) \/ Disconnect(c)
  PROVE  ClientsInv'
<1>1. /\ ClientsInv /\ active \in Runs \cup {NoTask} /\ client = [d \in Clients |-> client[d]]
      /\ ClientTyped(c) /\ Numbered(c) /\ (~client[c].deaf => InOrder(c))
  BY DEF CreationInv, ClientsInv
<1>2. Number(c)' = Number(c)
  BY DEF Number
<1> DEFINE new == client'[c]
<1>3. /\ client' = [client EXCEPT ![c] = new] /\ new \in CreationClient
      /\ new.told + new.made = client[c].told + client[c].made
      /\ new.pc = "files" <=> client[c].pc = "files"
      /\ ~new.deaf => ~client[c].deaf
      /\ new.pc # "idle" => new.run \in Runs /\ new.told + new.made < Len(Specs[c])
      /\ new.pc = "idle" /\ ~new.deaf => new.made = 0
  <2>0. client[c] \in CreationClient
    BY <1>1 DEF ClientTyped
  <2>1. CASE dispatchCreateTaskBatch(c)
    <3>1. /\ client[c].pc = "idle" /\ ~client[c].deaf /\ client[c].told < Len(Specs[c])
          /\ active \in Runs /\ client' = [client EXCEPT ![c].pc = "row", ![c].run = active]
      BY <1>1, <2>1 DEF dispatchCreateTaskBatch
    <3>2. client[c].made = 0
      BY <1>1, <3>1 DEF ClientTyped
    <3>3. new = [client[c] EXCEPT !.pc = "row", !.run = active]
      BY <1>1, <3>1
    <3>4. client' = [client EXCEPT ![c] = new]
      BY <1>1, <3>1
    <3> HIDE DEF new
    <3>5. /\ new \in CreationClient /\ new.pc = "row" /\ new.run = active
          /\ new.told = client[c].told /\ new.made = client[c].made /\ new.deaf = client[c].deaf
      BY <2>0, <3>1, <3>3 DEF CreationClient
    <3>6. client[c].told \in Nat
      BY <2>0 DEF CreationClient
    <3>7. new.told + new.made = client[c].told /\ client[c].told + client[c].made = client[c].told
      BY <3>2, <3>5, <3>6
    <3>8. new.pc # "files" /\ client[c].pc # "files" /\ new.run \in Runs
      BY <3>1, <3>5
    <3> QED
      BY <3>1, <3>4, <3>5, <3>7, <3>8
  <2>2. CASE CreateRowFails(c)
    <3>1. /\ client[c].pc = "row"
          /\ client' = [client EXCEPT ![c].pc = "idle", ![c].told = @ + client[c].made, ![c].made = 0]
      BY <2>2 DEF CreateRowFails, Reply
    <3>3. new = [client[c] EXCEPT !.pc = "idle", !.told = client[c].told + client[c].made, !.made = 0]
      BY <1>1, <3>1
    <3>4. client' = [client EXCEPT ![c] = new]
      BY <1>1, <3>1
    <3> HIDE DEF new
    <3>6. client[c].told \in Nat /\ client[c].made \in Nat
      BY <2>0 DEF CreationClient
    <3> DEFINE sum == client[c].told + client[c].made
    <3>7. sum \in Nat /\ sum + 0 = sum
      BY <3>6
    <3> HIDE DEF sum
    <3>5. /\ new \in CreationClient /\ new.pc = "idle" /\ new.deaf = client[c].deaf
          /\ new.told = sum /\ new.made = 0
      <4>1. PICK r \in CreationClient : r = client[c]
        BY <2>0
      <4>2. new = [r EXCEPT !.pc = "idle", !.told = sum, !.made = 0]
        BY <3>3, <4>1 DEF sum
      <4> QED
        BY <4>1, <4>2, <3>7 DEF CreationClient
    <3>8. new.told + new.made = client[c].told + client[c].made
      BY <3>5, <3>7 DEF sum
    <3>9. new.pc # "files" /\ client[c].pc # "files"
      BY <3>1, <3>5
    <3> QED
      BY <3>4, <3>5, <3>8, <3>9
  <2>3. CASE Disconnect(c)
    <3>1. client[c].pc # "idle" /\ client' = [client EXCEPT ![c].deaf = TRUE]
      BY <2>3 DEF Disconnect
    <3>3. new = [client[c] EXCEPT !.deaf = TRUE]
      BY <1>1, <3>1
    <3>4. client' = [client EXCEPT ![c] = new]
      BY <1>1, <3>1
    <3> HIDE DEF new
    <3>5. /\ new \in CreationClient /\ new.pc = client[c].pc /\ new.deaf = TRUE
          /\ new.told = client[c].told /\ new.made = client[c].made /\ new.run = client[c].run
      BY <2>0, <3>3 DEF CreationClient
    <3> QED
      BY <1>1, <3>1, <3>4, <3>5 DEF ClientTyped
  <2> QED
    BY <2>1, <2>2, <2>3
<1>4. /\ client[c].told \in Nat /\ client[c].made \in Nat /\ new.told \in Nat /\ new.made \in Nat
  <2> HIDE DEF new
  <2> QED
    BY <1>1, <1>3 DEF ClientTyped, CreationClient
<1>5. ClientTyped(c)'
  <2>1. new.told + new.made <= Len(Specs[c])
    BY <1>1, <1>3 DEF ClientTyped
  <2> QED
    BY <1>3, <2>1 DEF ClientTyped
<1>6. ~client'[c].deaf => InOrder(c)'
  <2> SUFFICES ASSUME ~new.deaf PROVE InOrder(c)'
    OBVIOUS
  <2>1. InOrder(c)
    BY <1>1, <1>3
  <2> QED
    BY <1>2, <1>3, <2>1 DEF InOrder
<1> QED
  BY <1>1, <1>3, <1>5, <1>6, ClientTurns

LEMMA AddTargetFilesKeeps ==
  ASSUME CreationInv, NEW c \in Clients, AddTargetFiles(c)
  PROVE  TasksTyped' /\ TasksGrounded' /\ ClientsInv'
<1>1. /\ TasksTyped /\ TasksGrounded /\ ClientsInv /\ client = [d \in Clients |-> client[d]]
      /\ ClientTyped(c) /\ Numbered(c) /\ (~client[c].deaf => InOrder(c))
  BY DEF CreationInv, ClientsInv
<1>2. client[c].pc = "files" /\ careless' = careless
  BY DEF AddTargetFiles
<1>3. PICK kept : tasks' = [tasks EXCEPT ![<<c, Number(c)>>].files = kept]
  BY DEF AddTargetFiles
<1>4. DOMAIN tasks' = DOMAIN tasks
  BY <1>3
<1>5. ASSUME NEW t \in DOMAIN tasks
      PROVE  /\ tasks'[t].run = tasks[t].run /\ tasks'[t].spec = tasks[t].spec
             /\ tasks'[t].dependsOn = tasks[t].dependsOn
             /\ tasks'[t] = [run |-> tasks'[t].run, dependsOn |-> tasks'[t].dependsOn,
                             files |-> tasks'[t].files, spec |-> tasks'[t].spec]
  <2>1. tasks'[t] = tasks[t] \/ tasks'[t] = [tasks[t] EXCEPT !.files = kept]
    BY <1>3
  <2>2. tasks[t] = [run |-> tasks[t].run, dependsOn |-> tasks[t].dependsOn,
                    files |-> tasks[t].files, spec |-> tasks[t].spec]
    BY <1>1 DEF TasksTyped
  <2> DEFINE old == tasks[t]
             row == tasks'[t]
  <2> HIDE DEF old, row
  <2>3. row = old \/ row = [old EXCEPT !.files = kept]
    BY <2>1 DEF old, row
  <2>4. old = [run |-> old.run, dependsOn |-> old.dependsOn, files |-> old.files, spec |-> old.spec]
    BY <2>2 DEF old
  <2>5. /\ row.run = old.run /\ row.spec = old.spec /\ row.dependsOn = old.dependsOn
        /\ row = [run |-> row.run, dependsOn |-> row.dependsOn, files |-> row.files, spec |-> row.spec]
    BY <2>3, <2>4
  <2> QED
    BY <2>5 DEF old, row
<1>6. TasksTyped'
  BY <1>1, <1>4, <1>5 DEF TasksTyped
<1>7. TasksGrounded'
  BY <1>1, <1>2, <1>4, <1>5, GroundedKept
<1>8. Number(c)' = Number(c)
  BY <1>4 DEF Number
<1> DEFINE new == client'[c]
<1>9. client[c] \in CreationClient /\ client[c].told \in Nat /\ client[c].made \in Nat
      /\ client[c].told + client[c].made < Len(Specs[c])
  BY <1>1, <1>2 DEF ClientTyped, CreationClient
<1>10. /\ client' = [client EXCEPT ![c] = new] /\ new \in CreationClient
       /\ new.pc \in {"idle", "row"}
       /\ new.told + new.made = client[c].told + client[c].made + 1
       /\ new.deaf = client[c].deaf
       /\ new.pc # "idle" => new.run \in Runs /\ new.told + new.made < Len(Specs[c])
       /\ new.pc = "idle" => new.made = 0
  <2>1. CASE CurrentSpec(c) = Len(Specs[c])
    <3>1. client' = [client EXCEPT ![c].pc = "idle", ![c].told = @ + (client[c].made + 1), ![c].made = 0]
      BY <2>1 DEF AddTargetFiles, Reply
    <3>2. new = [client[c] EXCEPT !.pc = "idle", !.told = client[c].told + (client[c].made + 1), !.made = 0]
      BY <1>1, <3>1
    <3>3. client' = [client EXCEPT ![c] = new]
      BY <1>1, <3>1
    <3> HIDE DEF new
    <3> DEFINE sum == client[c].told + (client[c].made + 1)
    <3>4. sum \in Nat /\ sum + 0 = sum /\ sum = client[c].told + client[c].made + 1
      BY <1>9
    <3> HIDE DEF sum
    <3>5. /\ new \in CreationClient /\ new.pc = "idle" /\ new.deaf = client[c].deaf
          /\ new.told = sum /\ new.made = 0
      <4>1. PICK r \in CreationClient : r = client[c]
        BY <1>9
      <4>2. new = [r EXCEPT !.pc = "idle", !.told = sum, !.made = 0]
        BY <3>2, <4>1 DEF sum
      <4> QED
        BY <4>1, <4>2, <3>4 DEF CreationClient
    <3>6. new.told + new.made = client[c].told + client[c].made + 1
      BY <3>4, <3>5
    <3> QED
      BY <3>3, <3>5, <3>6
  <2>2. CASE CurrentSpec(c) # Len(Specs[c])
    <3>1. client' = [client EXCEPT ![c].pc = "row", ![c].made = @ + 1]
      BY <2>2 DEF AddTargetFiles
    <3>2. new = [client[c] EXCEPT !.pc = "row", !.made = client[c].made + 1]
      BY <1>1, <3>1
    <3>3. client' = [client EXCEPT ![c] = new]
      BY <1>1, <3>1
    <3> HIDE DEF new
    <3> DEFINE made == client[c].made + 1
    <3>8. made \in Nat
      BY <1>9
    <3> HIDE DEF made
    <3>9. /\ new \in CreationClient /\ new.pc = "row" /\ new.deaf = client[c].deaf
          /\ new.told = client[c].told /\ new.made = made /\ new.run = client[c].run
      <4>1. PICK r \in CreationClient : r = client[c]
        BY <1>9
      <4>2. new = [r EXCEPT !.pc = "row", !.made = made]
        BY <3>2, <4>1 DEF made
      <4> QED
        BY <4>1, <4>2, <3>8 DEF CreationClient
    <3>4. /\ new \in CreationClient /\ new.pc = "row" /\ new.deaf = client[c].deaf
          /\ new.told = client[c].told /\ new.made = client[c].made + 1 /\ new.run = client[c].run
      BY <3>9 DEF made
    <3>5. client[c].run \in Runs
      BY <1>1, <1>2 DEF ClientTyped
    <3>6. Len(Specs[c]) \in Nat
      BY CreationAssumption
    <3>7. client[c].told + client[c].made + 1 # Len(Specs[c])
      BY <2>2 DEF CurrentSpec
    <3> QED
      BY <1>9, <3>3, <3>4, <3>5, <3>6, <3>7
  <2> QED
    BY <2>1, <2>2
<1>11. new.told \in Nat /\ new.made \in Nat /\ Len(Specs[c]) \in Nat
  <2> HIDE DEF new
  <2> QED
    BY <1>10, CreationAssumption DEF CreationClient
<1>12. ClientTyped(c)'
  <2>1. new.told + new.made <= Len(Specs[c])
    BY <1>9, <1>10, <1>11
  <2> QED
    BY <1>10, <2>1 DEF ClientTyped
<1>13. ~client'[c].deaf => InOrder(c)'
  <2> SUFFICES ASSUME ~new.deaf PROVE InOrder(c)'
    OBVIOUS
  <2>1. InOrder(c)
    BY <1>1, <1>10
  <2>2. Number(c) = new.told + new.made + 0 /\ new.pc # "files"
    BY <1>2, <1>9, <1>10, <1>11, <2>1 DEF InOrder
  <2>3. \A k \in 1..Number(c) : tasks'[<<c, k>>].spec = k
    BY <1>1, <1>5, <2>1 DEF InOrder, Numbered
  <2> QED
    BY <1>8, <2>2, <2>3 DEF InOrder
<1>14. ClientsInv'
  BY <1>1, <1>4, <1>5, <1>10, <1>12, <1>13, ClientTurns
<1> QED
  BY <1>6, <1>7, <1>14

LEMMA CrashKeepsClients ==
  ASSUME CreationInv, CreationCrash
  PROVE  ClientsInv'
<1>1. /\ UNCHANGED tasks /\ ClientsInv
      /\ client' = [c \in Clients |->
           [client[c] EXCEPT !.pc = "idle", !.deaf = @ \/ client[c].pc # "idle"]]
  BY DEF CreationInv, CreationCrash
<1>2. ASSUME NEW c \in Clients
      PROVE  ClientTyped(c)' /\ Numbered(c)' /\ (~client'[c].deaf => InOrder(c)')
  <2>1. ClientTyped(c) /\ Numbered(c) /\ (~client[c].deaf => InOrder(c))
    BY <1>1 DEF ClientsInv
  <2> DEFINE new == client'[c]
             deaf == client[c].deaf \/ client[c].pc # "idle"
  <2>2. deaf \in BOOLEAN
    BY <2>1 DEF ClientTyped, CreationClient
  <2>3. new = [client[c] EXCEPT !.pc = "idle", !.deaf = deaf]
    BY <1>1
  <2>4. ~deaf => ~client[c].deaf /\ client[c].pc = "idle"
    OBVIOUS
  <2> HIDE DEF new, deaf
  <2>5. /\ new \in CreationClient /\ new.pc = "idle" /\ new.deaf = deaf
        /\ new.told = client[c].told /\ new.made = client[c].made /\ new.run = client[c].run
    <3>1. PICK r \in CreationClient : r = client[c]
      BY <2>1 DEF ClientTyped
    <3>2. new = [r EXCEPT !.pc = "idle", !.deaf = deaf]
      BY <2>3, <3>1
    <3> QED
      BY <2>2, <3>1, <3>2 DEF CreationClient
  <2>6. ClientTyped(c)'
    BY <2>1, <2>4, <2>5 DEF ClientTyped, new
  <2>7. Number(c)' = Number(c)
    BY <1>1 DEF Number
  <2>8. Numbered(c)'
    BY <1>1, <2>1, <2>7 DEF Numbered
  <2>9. ~client'[c].deaf => InOrder(c)'
    BY <1>1, <2>1, <2>4, <2>5, <2>7 DEF InOrder, new
  <2> QED
    BY <2>6, <2>8, <2>9
<1>3. client' = [c \in Clients |-> client'[c]]
  BY <1>1
<1> QED
  BY <1>2, <1>3 DEF ClientsInv

LEMMA CreationStarts ==
  ASSUME CreationInit
  PROVE  CreationInv
<1> USE DEF CreationInit
<1>1. DOMAIN tasks = {}
  OBVIOUS
<1>2. TasksTyped /\ TasksGrounded
  BY <1>1, FS_EmptySet DEF TasksTyped, TasksGrounded, Grounded
<1>3. ASSUME NEW c \in Clients
      PROVE  ClientTyped(c) /\ Numbered(c) /\ (~client[c].deaf => InOrder(c))
  <2>1. Len(Specs[c]) \in Nat /\ client[c] = IdleClient
    BY CreationAssumption
  <2>2. ClientTyped(c)
    BY <2>1 DEF ClientTyped, CreationClient, IdleClient
  <2>3. Number(c) = 0
    <3>1. {t \in DOMAIN tasks : t[1] = c} = {}
      BY <1>1
    <3> QED
      BY <3>1, FS_EmptySet DEF Number
  <2>4. Numbered(c)
    BY <1>1, <2>3 DEF Numbered
  <2>5. InOrder(c)
    BY <2>1, <2>3 DEF InOrder, IdleClient
  <2> QED
    BY <2>2, <2>4, <2>5
<1>4. client = [c \in Clients |-> client[c]]
  OBVIOUS
<1>5. ClientsInv
  BY <1>3, <1>4 DEF ClientsInv
<1> QED
  BY <1>2, <1>5, CreationAssumption DEF CreationInv

(* The counters of the bounds. *)
LEMMA BoundsKept ==
  ASSUME CreationInv, [CreationNext]_creationVars
  PROVE  /\ active' \in Runs \cup {NoTask} /\ serviceCalls' \in 0..MaxCalls
         /\ insertFaults' \in 0..MaxInsertFaults /\ runs' \in 0..MaxRunChanges
<1>1. /\ active \in Runs \cup {NoTask} /\ serviceCalls \in 0..MaxCalls
      /\ insertFaults \in 0..MaxInsertFaults /\ runs \in 0..MaxRunChanges
      /\ MaxCalls \in Nat /\ MaxInsertFaults \in Nat /\ MaxRunChanges \in Nat
  BY CreationAssumption DEF CreationInv
<1>2. ASSUME UNCHANGED plane, serviceCalls < MaxCalls, serviceCalls' = serviceCalls + 1
      PROVE  /\ active' \in Runs \cup {NoTask} /\ serviceCalls' \in 0..MaxCalls
             /\ insertFaults' \in 0..MaxInsertFaults /\ runs' \in 0..MaxRunChanges
  BY <1>1, <1>2 DEF plane
<1>3. ASSUME NEW c \in Clients, AddTargetFiles(c)
      PROVE  insertFaults' \in 0..MaxInsertFaults
  <2>1. client[c].told \in Nat /\ client[c].made \in Nat /\ Len(Specs[c]) \in Nat
        /\ client[c].told + client[c].made < Len(Specs[c])
    BY <1>3, CreationAssumption
    DEF AddTargetFiles, CreationInv, ClientsInv, ClientTyped, CreationClient
  <2>2. PICK kept \in SUBSET Specs[c][CurrentSpec(c)] :
          /\ insertFaults + Cardinality(Specs[c][CurrentSpec(c)] \ kept) <= MaxInsertFaults
          /\ insertFaults' = insertFaults + Cardinality(Specs[c][CurrentSpec(c)] \ kept)
    BY <1>3 DEF AddTargetFiles
  <2>3. CurrentSpec(c) \in 1..Len(Specs[c])
    BY <2>1 DEF CurrentSpec
  <2>4. IsFiniteSet(Specs[c][CurrentSpec(c)])
    BY <2>3, CreationAssumption
  <2>5. Cardinality(Specs[c][CurrentSpec(c)] \ kept) \in Nat
    BY <2>4, FS_Subset, FS_CardinalityType
  <2> QED
    BY <1>1, <2>2, <2>5
<1>4. CASE UNCHANGED creationVars
  BY <1>1, <1>4 DEF creationVars
<1>5. ASSUME NEW batch \in Batches, CreateBatch(batch)
      PROVE  UNCHANGED plane /\ serviceCalls < MaxCalls /\ serviceCalls' = serviceCalls + 1
  BY <1>5 DEF CreateBatch
<1>6. ASSUME NEW in, CreateTask(in)
      PROVE  UNCHANGED plane /\ serviceCalls < MaxCalls /\ serviceCalls' = serviceCalls + 1
  BY <1>6 DEF CreateTask
<1>7. ASSUME NEW c \in Clients, \/ dispatchCreateTaskBatch(c) \/ CreateRow(c) \/ Disconnect(c)
                                 \/ CreateRowFails(c)
      PROVE  /\ UNCHANGED <<active, serviceCalls, runs>>
             /\ insertFaults' \in 0..MaxInsertFaults
  BY <1>1, <1>7 DEF dispatchCreateTaskBatch, CreateRow, Disconnect, CreateRowFails
<1>8. ASSUME NEW c \in Clients, AddTargetFiles(c)
      PROVE  UNCHANGED <<active, serviceCalls, runs>>
  BY <1>8 DEF AddTargetFiles
<1>9. ASSUME CreationCrash
      PROVE  /\ UNCHANGED <<active, serviceCalls, runs>>
             /\ insertFaults' \in 0..MaxInsertFaults
  <2>1. /\ insertFaults < MaxInsertFaults /\ insertFaults' = insertFaults + 1
        /\ UNCHANGED <<active, serviceCalls, runs>>
    BY <1>9, Zenon DEF CreationCrash
  <2> QED
    BY <1>1, <2>1
<1>10. CASE ActiveRun
  BY <1>1, <1>10 DEF ActiveRun
<1> QED
  BY <1>1, <1>2, <1>3, <1>4, <1>5, <1>6, <1>7, <1>8, <1>9, <1>10 DEF CreationNext

LEMMA CreationKept ==
  ASSUME CreationInv, [CreationNext]_creationVars
  PROVE  CreationInv'
<1>1. /\ active' \in Runs \cup {NoTask} /\ serviceCalls' \in 0..MaxCalls
      /\ insertFaults' \in 0..MaxInsertFaults /\ runs' \in 0..MaxRunChanges
  BY BoundsKept
<1>2. TasksTyped /\ TasksGrounded /\ ClientsInv
  BY DEF CreationInv
<1>3. ASSUME UNCHANGED <<tasks, careless>>
      PROVE  TasksTyped' /\ TasksGrounded'
  BY <1>2, <1>3, GroundedKept DEF TasksTyped
<1>4. ASSUME UNCHANGED <<tasks, careless, client>>
      PROVE  TasksTyped' /\ TasksGrounded' /\ ClientsInv'
  <2>1. ClientsInv'
    BY <1>2, <1>4, ServiceKeepsClients
  <2> QED
    BY <1>3, <1>4, <2>1
<1>5. CASE UNCHANGED creationVars \/ ActiveRun
  <2>1. UNCHANGED <<tasks, careless, client>>
    BY <1>5 DEF creationVars, ActiveRun
  <2> QED
    BY <1>1, <1>4, <2>1 DEF CreationInv
<1>6. CASE CreationCrash
  <2>1. UNCHANGED <<tasks, careless>>
    BY <1>6 DEF CreationCrash
  <2> QED
    BY <1>1, <1>3, <1>6, <2>1, CrashKeepsClients DEF CreationInv
<1>7. ASSUME NEW batch \in Batches, CreateBatch(batch)
      PROVE  CreationInv'
  BY <1>1, <1>7, CreateBatchKeeps DEF CreationInv
<1>8. ASSUME NEW in \in UNION {Range(batch) : batch \in Batches}, CreateTask(in)
      PROVE  CreationInv'
  <2>1. PICK batch \in Batches : in \in Range(batch)
    BY <1>8
  <2>2. TasksTyped' /\ TasksGrounded' /\ ClientsInv'
    BY <1>8, <2>1, CreateTaskKeeps
  <2> QED
    BY <1>1, <2>2 DEF CreationInv
<1>9. ASSUME NEW c \in Clients,
             dispatchCreateTaskBatch(c) \/ CreateRowFails(c) \/ Disconnect(c)
      PROVE  CreationInv'
  <2>1. UNCHANGED <<tasks, careless>>
    BY <1>9 DEF dispatchCreateTaskBatch, CreateRowFails, Disconnect
  <2>2. ClientsInv'
    BY <1>9, <2>1, ClientStepKeeps
  <2> QED
    BY <1>1, <1>3, <2>1, <2>2 DEF CreationInv
<1>10. ASSUME NEW c \in Clients, CreateRow(c)
       PROVE  CreationInv'
  BY <1>1, <1>10, CreateRowKeeps DEF CreationInv
<1>11. ASSUME NEW c \in Clients, AddTargetFiles(c)
       PROVE  CreationInv'
  BY <1>1, <1>11, AddTargetFilesKeeps DEF CreationInv
<1> QED
  BY <1>5, <1>6, <1>7, <1>8, <1>9, <1>10, <1>11 DEF CreationNext

(* A client that is idle and hears its answers has each task once.          *)
LEMMA ClientsHaveSpecs ==
  ASSUME CreationInv
  PROVE  EachSpecOnce
<1> SUFFICES ASSUME NEW c \in Clients, client[c].pc = "idle", ~client[c].deaf,
                    NEW i \in DOMAIN Specs[c]
             PROVE  Cardinality({t \in DOMAIN tasks : t[1] = c /\ tasks[t].spec = i}) =
                      IF i <= client[c].told THEN 1 ELSE 0
  BY DEF EachSpecOnce
<1>1. ClientTyped(c) /\ Numbered(c) /\ InOrder(c)
  BY DEF CreationInv, ClientsInv
<1>2. Number(c) = client[c].told /\ client[c].told \in Nat
  BY <1>1 DEF ClientTyped, CreationClient, InOrder
<1>3. /\ \A t \in DOMAIN tasks : t[1] = c <=> \E k \in 1..client[c].told : t = <<c, k>>
      /\ \A k \in 1..client[c].told : <<c, k>> \in DOMAIN tasks /\ tasks[<<c, k>>].spec = k
  BY <1>1, <1>2 DEF Numbered, InOrder
<1>4. Len(Specs[c]) \in Nat
  BY CreationAssumption
<1> DEFINE S == {t \in DOMAIN tasks : t[1] = c /\ tasks[t].spec = i}
<1>5. \A t \in S : t = <<c, i>> /\ i \in 1..client[c].told
  <2> SUFFICES ASSUME NEW t \in S
               PROVE  t = <<c, i>> /\ i \in 1..client[c].told
    OBVIOUS
  <2>1. PICK k \in 1..client[c].told : t = <<c, k>>
    BY <1>3
  <2>2. k = i
    BY <1>3, <2>1
  <2> QED
    BY <2>1, <2>2
<1>6. i \in 1..client[c].told => <<c, i>> \in S
  BY <1>3
<1> HIDE DEF S
<1>7. CASE i \in 1..client[c].told
  <2>1. S = {<<c, i>>}
    BY <1>5, <1>6, <1>7
  <2>2. Cardinality(S) = 1
    BY <2>1, FS_Singleton
  <2>3. i <= client[c].told
    BY <1>2, <1>7
  <2> QED
    BY <2>2, <2>3 DEF S
<1>8. CASE i \notin 1..client[c].told
  <2>1. S = {}
    BY <1>5, <1>8
  <2>2. Cardinality(S) = 0
    BY <2>1, FS_EmptySet
  <2>3. ~(i <= client[c].told)
    BY <1>2, <1>4, <1>8, CreationAssumption
  <2> QED
    BY <2>2, <2>3 DEF S
<1> QED
  BY <1>7, <1>8

(* Tasks can be done in some order, and a client learns which of its own    *)
(* exist.                                                                   *)
THEOREM CreationCorrect == CreationSpec => [](CreationTypeOK /\ Orderable /\ EachSpecOnce)
<1>1. CreationInit => CreationInv
  BY CreationStarts
<1>2. CreationInv /\ [CreationNext]_creationVars => CreationInv'
  BY CreationKept
<1>3. ASSUME CreationInv
      PROVE  CreationTypeOK /\ Orderable /\ EachSpecOnce
  <2>1. CreationTypeOK
    <3>1. ASSUME NEW c \in Clients
          PROVE  /\ client[c].pc \in {"idle", "row", "files"}
                 /\ client[c].told + client[c].made \in 0..Len(Specs[c])
      <4>1. client[c] \in CreationClient /\ client[c].told + client[c].made <= Len(Specs[c])
        BY <1>3 DEF CreationInv, ClientsInv, ClientTyped
      <4>2. /\ client[c].pc \in {"idle", "row", "files"} /\ Len(Specs[c]) \in Nat
            /\ client[c].told \in Nat /\ client[c].made \in Nat
        BY <4>1, CreationAssumption DEF CreationClient
      <4> QED
        BY <4>1, <4>2
    <3> QED
      BY <1>3, <3>1 DEF CreationInv, TasksTyped, CreationTypeOK
  <2>2. Orderable
    <3> SUFFICES ASSUME ~careless PROVE TopLayer = DOMAIN tasks
      BY DEF Orderable, TopLayer
    <3>1. IsFiniteSet(DOMAIN tasks) /\ Grounded(DOMAIN tasks, Needs)
          /\ \A t \in DOMAIN tasks : Needs[t] \subseteq DOMAIN tasks
      BY <1>3 DEF CreationInv, TasksTyped, TasksGrounded
    <3> QED
      BY <3>1, GroundedOrderable
  <2>3. EachSpecOnce
    BY <1>3, ClientsHaveSpecs
  <2> QED
    BY <2>1, <2>2, <2>3
<1> QED
  BY <1>1, <1>2, <1>3, PTL DEF CreationSpec

LEMMA CreationTypes == CreationSpec => []CreationTypeOK
BY CreationCorrect, PTL

(* What clients are promised: the limit and the once-only commands of the   *)
(* API, tasks in some order, and which of their own tasks exist.            *)
THEOREM ClientsCorrect == ControlSpec /\ CreationSpec => []ClientsServed
BY ControlCorrect, CreationCorrect, PTL DEF ClientsServed
=============================================================================
