---------------------------- MODULE ScreensProofs ----------------------------
(***************************************************************************)
(* Proofs about Screens, for any days, amounts, currencies and senders, any *)
(* page size and any number of subscriptions and charges.                   *)
(***************************************************************************)
EXTENDS Screens, FiniteSetTheorems, SequenceTheorems, WellFoundedInduction, TLAPS

-----------------------------------------------------------------------------
(* Among some subsets of a finite set one is smallest.                      *)
LEMMA SmallestSet ==
  ASSUME NEW S, IsFiniteSet(S), NEW Bad \in SUBSET SUBSET S, Bad # {}
  PROVE  \E T \in Bad : /\ T \subseteq S /\ IsFiniteSet(T)
                        /\ \A x \in T : T \ {x} \notin Bad
                        /\ \A U \in Bad : U \subseteq T => U = T
<1>1. IsWellFoundedOn(StrictSubsetOrdering(S), SUBSET S)
  BY FS_StrictSubsetOrderingWellFounded, FS_FiniteSubsetsOfFinite
<1>2. PICK T \in Bad : \A U \in Bad : <<U, T>> \notin StrictSubsetOrdering(S)
  BY <1>1, WFMin
<1>3. \A U \in Bad : U \subseteq T => U = T
  BY <1>2 DEF StrictSubsetOrdering
<1>4. \A x \in T : T \ {x} # T
  OBVIOUS
<1> QED
  BY <1>3, <1>4, FS_Subset

(* The member FoldFunctionOnSet takes first, and the table of the sums      *)
(* of f over the subsets of S that its definition unfolds to.               *)
Picked(T) == CHOOSE x \in T : TRUE
Sums(f, S, g) ==
  g = [T \in SUBSET S |-> IF T = {} THEN 0 ELSE f[Picked(T)] + g[T \ {Picked(T)}]]

(* A sum is the entry of S in such a table.                                 *)
LEMMA SumUnfolds ==
  ASSUME NEW f, NEW S
  PROVE  SumFunctionOnSet(f, S) = (CHOOSE g : Sums(f, S, g))[S]
BY DEF SumFunctionOnSet, FoldFunctionOnSet, MapThenFoldSet, Sums, Picked

(* What is picked is a member.                                              *)
LEMMA PickedIn ==
  ASSUME NEW T, T # {}
  PROVE  Picked(T) \in T
BY DEF Picked

(* The tables of two sets agree on the subsets they share: a smallest       *)
(* subset where they differ would differ in an earlier sum too.             *)
LEMMA SumsAgree ==
  ASSUME NEW f, NEW S, NEW T, IsFiniteSet(S), NEW g, Sums(f, S, g), NEW h, Sums(f, T, h),
         NEW U \in (SUBSET S) \cap (SUBSET T)
  PROVE  g[U] = h[U]
<1> DEFINE Bad == {V \in (SUBSET S) \cap (SUBSET T) : g[V] # h[V]}
<1>1. SUFFICES ASSUME Bad # {} PROVE FALSE
  OBVIOUS
<1>2. PICK V \in Bad : /\ V \subseteq S /\ IsFiniteSet(V)
                       /\ \A x \in V : V \ {x} \notin Bad
                       /\ \A W \in Bad : W \subseteq V => W = V
  <2>1. Bad \in SUBSET SUBSET S
    OBVIOUS
  <2> HIDE DEF Bad
  <2> QED
    BY <1>1, <2>1, SmallestSet
<1>3. /\ g[V] = IF V = {} THEN 0 ELSE f[Picked(V)] + g[V \ {Picked(V)}]
      /\ h[V] = IF V = {} THEN 0 ELSE f[Picked(V)] + h[V \ {Picked(V)}]
  BY DEF Sums
<1>4. V # {}
  BY <1>3
<1>5. g[V \ {Picked(V)}] = h[V \ {Picked(V)}]
  BY <1>2, <1>4, PickedIn
<1> QED
  BY <1>3, <1>4, <1>5

(* There is such a table: a smallest set without one would get it by        *)
(* adding its own entry to the tables of its subsets.                       *)
LEMMA SumsExist ==
  ASSUME NEW f, NEW S, IsFiniteSet(S)
  PROVE  \E g : Sums(f, S, g)
<1> DEFINE Bad == {T \in SUBSET S : ~ \E g : Sums(f, T, g)}
<1>1. SUFFICES ASSUME Bad # {} PROVE FALSE
  OBVIOUS
<1>2. PICK T \in Bad : /\ T \subseteq S /\ IsFiniteSet(T)
                       /\ \A U \in Bad : U \subseteq T => U = T
  <2>1. Bad \in SUBSET SUBSET S
    OBVIOUS
  <2> HIDE DEF Bad
  <2> QED
    BY <1>1, <2>1, SmallestSet
<1> DEFINE G(U) == CHOOSE g : Sums(f, U, g)
           sum == [U \in SUBSET T |->
                     IF U = {} THEN 0
                     ELSE f[Picked(U)] + G(U \ {Picked(U)})[U \ {Picked(U)}]]
<1>3. \A U \in SUBSET T : U # T => Sums(f, U, G(U))
  BY <1>2
<1> HIDE DEF G
<1>4. ASSUME NEW U \in SUBSET T, U # {}
      PROVE  G(U \ {Picked(U)})[U \ {Picked(U)}] = sum[U \ {Picked(U)}]
  <2> DEFINE V == U \ {Picked(U)}
  <2>1. V \in SUBSET T /\ V # T
    BY <1>4, PickedIn
  <2>2. Sums(f, V, G(V))
    BY <1>3, <2>1
  <2>3. CASE V = {}
    BY <2>1, <2>2, <2>3 DEF Sums
  <2>4. CASE V # {}
    <3> DEFINE W == V \ {Picked(V)}
    <3>1. W \in SUBSET V /\ W \in SUBSET T /\ W # T
      BY <2>1, <2>4, PickedIn
    <3>2. Sums(f, W, G(W))
      BY <1>3, <3>1
    <3>3. G(V)[W] = G(W)[W]
      <4>1. IsFiniteSet(V)
        BY <1>2, <2>1, FS_Subset
      <4> HIDE DEF V, W
      <4> QED
        BY <2>2, <3>1, <3>2, <4>1, SumsAgree
    <3>4. G(V)[V] = f[Picked(V)] + G(V)[W]
      BY <2>2, <2>4 DEF Sums
    <3>5. sum[V] = f[Picked(V)] + G(W)[W]
      BY <2>1, <2>4
    <3> QED
      BY <3>3, <3>4, <3>5
  <2> QED
    BY <2>3, <2>4
<1>5. Sums(f, T, sum)
  BY <1>4 DEF Sums
<1> QED
  BY <1>2, <1>5

(* So a sum unfolds one member at a time.                                   *)
LEMMA SumStep ==
  ASSUME NEW f, NEW S, IsFiniteSet(S)
  PROVE  /\ S = {} => SumFunctionOnSet(f, S) = 0
         /\ S # {} => SumFunctionOnSet(f, S) =
                        f[Picked(S)] + SumFunctionOnSet(f, S \ {Picked(S)})
<1> DEFINE G(U) == CHOOSE g : Sums(f, U, g)
<1>1. Sums(f, S, G(S)) /\ SumFunctionOnSet(f, S) = G(S)[S]
  BY SumsExist, SumUnfolds
<1>2. CASE S = {}
  BY <1>1, <1>2 DEF Sums
<1>3. CASE S # {}
  <2> DEFINE T == S \ {Picked(S)}
  <2>1. IsFiniteSet(T) /\ T \subseteq S
    BY FS_Subset
  <2>2. Sums(f, T, G(T)) /\ SumFunctionOnSet(f, T) = G(T)[T]
    BY <2>1, SumsExist, SumUnfolds
  <2>3. G(S)[S] = f[Picked(S)] + G(S)[T]
    BY <1>1, <1>3 DEF Sums
  <2>4. G(S)[T] = G(T)[T]
    <3> HIDE DEF G, T
    <3> QED
      BY <1>1, <2>1, <2>2, SumsAgree
  <2> QED
    BY <1>1, <1>3, <2>2, <2>3, <2>4
<1> QED
  BY <1>2, <1>3

(* The sum of nothing.                                                      *)
LEMMA SumEmpty ==
  ASSUME NEW f
  PROVE  SumFunctionOnSet(f, {}) = 0
BY SumStep, FS_EmptySet

(* Sums of integers are integers.                                           *)
LEMMA SumType ==
  ASSUME NEW S, IsFiniteSet(S), NEW f, \A x \in S : f[x] \in Int
  PROVE  SumFunctionOnSet(f, S) \in Int
<1> DEFINE Bad == {T \in SUBSET S : SumFunctionOnSet(f, T) \notin Int}
<1>1. SUFFICES ASSUME Bad # {} PROVE FALSE
  OBVIOUS
<1>2. PICK T \in Bad : T \subseteq S /\ IsFiniteSet(T) /\ \A x \in T : T \ {x} \notin Bad
  <2>1. Bad \in SUBSET SUBSET S
    OBVIOUS
  <2> HIDE DEF Bad
  <2> QED
    BY <1>1, <2>1, SmallestSet
<1>3. T # {}
  BY <1>2, SumEmpty
<1>4. Picked(T) \in T
  BY <1>3, PickedIn
<1>5. SumFunctionOnSet(f, T \ {Picked(T)}) \in Int /\ f[Picked(T)] \in Int
  BY <1>2, <1>4
<1> QED
  BY <1>2, <1>3, <1>5, SumStep

(* Any member may be taken out first, not only the one CHOOSE picks.        *)
LEMMA SumRemove ==
  ASSUME NEW S, IsFiniteSet(S), NEW f, \A x \in S : f[x] \in Int, NEW y \in S
  PROVE  SumFunctionOnSet(f, S) = f[y] + SumFunctionOnSet(f, S \ {y})
<1> DEFINE Sum(T) == SumFunctionOnSet(f, T)
           Bad == {T \in SUBSET S : \E x \in T : Sum(T) # f[x] + Sum(T \ {x})}
<1>1. SUFFICES ASSUME Bad # {} PROVE FALSE
  OBVIOUS
<1>2. PICK T \in Bad : T \subseteq S /\ IsFiniteSet(T) /\ \A x \in T : T \ {x} \notin Bad
  <2>1. Bad \in SUBSET SUBSET S
    OBVIOUS
  <2> HIDE DEF Bad
  <2> QED
    BY <1>1, <2>1, SmallestSet
<1>3. PICK x \in T : Sum(T) # f[x] + Sum(T \ {x})
  OBVIOUS
<1> DEFINE p == Picked(T)
<1>4. p \in T /\ Sum(T) = f[p] + Sum(T \ {p})
  BY <1>2, <1>3, PickedIn, SumStep
<1>5. x # p
  BY <1>3, <1>4
<1> HIDE DEF p
<1> DEFINE r == SumFunctionOnSet(f, (T \ {p}) \ {x})
<1>6. Sum(T \ {p}) = f[x] + r
  BY <1>2, <1>4, <1>5
<1>7. (T \ {x}) \ {p} = (T \ {p}) \ {x}
  OBVIOUS
<1>8. Sum(T \ {x}) = f[p] + r
  <2>1. Sum(T \ {x}) = f[p] + Sum((T \ {x}) \ {p})
    BY <1>2, <1>4, <1>5
  <2> QED
    BY <1>7, <2>1
<1>9. r \in Int
  BY <1>2, SumType, FS_Subset, (T \ {p}) \ {x} \subseteq S
<1>10. f[x] \in Int /\ f[p] \in Int
  BY <1>2, <1>4
<1> HIDE DEF r
<1>11. f[p] + (f[x] + r) = f[x] + (f[p] + r)
  BY <1>9, <1>10
<1> QED
  BY <1>3, <1>4, <1>6, <1>8, <1>11

(* Sums over two disjoint sets add up.                                      *)
LEMMA SumUnion ==
  ASSUME NEW A, IsFiniteSet(A), NEW B, IsFiniteSet(B), A \cap B = {},
         NEW f, \A x \in A \cup B : f[x] \in Int
  PROVE  SumFunctionOnSet(f, A \cup B) = SumFunctionOnSet(f, A) + SumFunctionOnSet(f, B)
<1> DEFINE Sum(T) == SumFunctionOnSet(f, T)
           Bad == {T \in SUBSET B : Sum(A \cup T) # Sum(A) + Sum(T)}
<1>1. SUFFICES ASSUME Bad # {} PROVE FALSE
  OBVIOUS
<1>2. PICK T \in Bad : T \subseteq B /\ IsFiniteSet(T) /\ \A x \in T : T \ {x} \notin Bad
  <2>1. Bad \in SUBSET SUBSET B
    OBVIOUS
  <2> HIDE DEF Bad
  <2> QED
    BY <1>1, <2>1, SmallestSet
<1>3. Sum(A) \in Int
  BY SumType
<1>4. CASE T = {}
  <2>1. A \cup T = A /\ SumFunctionOnSet(f, T) = 0
    BY <1>4, SumEmpty
  <2>2. Sum(A \cup T) = Sum(A)
    BY <2>1
  <2>3. Sum(A) + 0 = Sum(A)
    BY <1>3
  <2> QED
    BY <2>1, <2>2, <2>3
<1>5. CASE T # {}
  <2>1. PICK x \in T : TRUE
    BY <1>5
  <2> DEFINE U == T \ {x}
  <2>2. Sum(A \cup U) = Sum(A) + Sum(U)
    BY <1>2
  <2>3. IsFiniteSet(U) /\ IsFiniteSet(A \cup T)
    BY <1>2, FS_Subset, FS_Union
  <2>4. (A \cup T) \ {x} = A \cup U
    BY <1>2
  <2>5. /\ \A z \in A \cup T : f[z] \in Int
        /\ \A z \in T : f[z] \in Int
        /\ \A z \in U : f[z] \in Int
    BY <1>2
  <2>6. Sum(A \cup T) = f[x] + Sum((A \cup T) \ {x})
    BY <2>3, <2>5, SumRemove
  <2>7. Sum(T) = f[x] + Sum(U)
    BY <1>2, <2>5, SumRemove
  <2>8. Sum(U) \in Int /\ f[x] \in Int
    BY <2>3, <2>5, SumType
  <2> DEFINE a == SumFunctionOnSet(f, A)
             u == SumFunctionOnSet(f, U)
  <2>9. a \in Int /\ u \in Int /\ f[x] \in Int
    BY <1>3, <2>8
  <2>10. Sum(A \cup T) = f[x] + (a + u) /\ Sum(T) = f[x] + u
    BY <2>2, <2>4, <2>6, <2>7
  <2> HIDE DEF a, u
  <2>11. f[x] + (a + u) = a + (f[x] + u)
    BY <2>9
  <2>12. Sum(A \cup T) = Sum(A) + Sum(T)
    BY <2>10, <2>11 DEF a
  <2> QED
    BY <1>2, <2>12
<1> QED
  BY <1>4, <1>5

(* The sum of one.                                                          *)
LEMMA SumSingle ==
  ASSUME NEW f, NEW x, f[x] \in Int
  PROVE  SumFunctionOnSet(f, {x}) = f[x]
<1>1. IsFiniteSet({x}) /\ {x} \ {x} = {}
  BY FS_Singleton
<1>2. SumFunctionOnSet(f, {x} \ {x}) = 0
  BY <1>1, SumEmpty
<1>3. SumFunctionOnSet(f, {x}) = f[x] + SumFunctionOnSet(f, {x} \ {x})
  BY <1>1, SumRemove
<1> QED
  BY <1>2, <1>3

(* The sum depends on the values only.                                      *)
LEMMA SumSame ==
  ASSUME NEW S, IsFiniteSet(S), NEW f, NEW g,
         \A x \in S : f[x] = g[x]
  PROVE  SumFunctionOnSet(f, S) = SumFunctionOnSet(g, S)
<1> DEFINE Bad == {T \in SUBSET S : SumFunctionOnSet(f, T) # SumFunctionOnSet(g, T)}
<1>1. SUFFICES ASSUME Bad # {} PROVE FALSE
  OBVIOUS
<1>2. PICK T \in Bad : T \subseteq S /\ IsFiniteSet(T) /\ \A x \in T : T \ {x} \notin Bad
  <2>1. Bad \in SUBSET SUBSET S
    OBVIOUS
  <2> HIDE DEF Bad
  <2> QED
    BY <1>1, <2>1, SmallestSet
<1>3. T # {}
  BY <1>2, SumEmpty
<1>4. Picked(T) \in T
  BY <1>3, PickedIn
<1>5. /\ SumFunctionOnSet(f, T \ {Picked(T)}) = SumFunctionOnSet(g, T \ {Picked(T)})
      /\ f[Picked(T)] = g[Picked(T)]
  BY <1>2, <1>4
<1> QED
  BY <1>2, <1>3, <1>5, SumStep

(* The members of S under one label.                                        *)
Labelled(S, label, l) == {x \in S : label[x] = l}

(* The sums per label (category, month) add up to the sum of all.           *)
LEMMA SumPartition ==
  ASSUME NEW S, IsFiniteSet(S), NEW f, \A x \in S : f[x] \in Int,
         NEW L, IsFiniteSet(L), NEW label, \A x \in S : label[x] \in L,
         NEW h, \A l \in L : h[l] = SumFunctionOnSet(f, Labelled(S, label, l))
  PROVE  SumFunctionOnSet(h, L) = SumFunctionOnSet(f, S)
<1> DEFINE In(M) == {x \in S : label[x] \in M}
           Bad == {M \in SUBSET L : SumFunctionOnSet(h, M) # SumFunctionOnSet(f, In(M))}
<1>1. In(L) = S
  OBVIOUS
<1>2. SUFFICES ASSUME Bad # {} PROVE FALSE
  BY <1>1
<1>3. PICK M \in Bad : M \subseteq L /\ IsFiniteSet(M) /\ \A l \in M : M \ {l} \notin Bad
  <2>1. Bad \in SUBSET SUBSET L
    OBVIOUS
  <2> HIDE DEF Bad
  <2> QED
    BY <1>2, <2>1, SmallestSet
<1>4. M # {}
  <2>1. In({}) = {}
    OBVIOUS
  <2> QED
    BY <1>3, <2>1, SumStep, FS_EmptySet
<1>5. PICK l \in M : TRUE
  BY <1>4
<1> DEFINE N == M \ {l}
           A == Labelled(S, label, l)
<1>6. SumFunctionOnSet(h, N) = SumFunctionOnSet(f, In(N))
  BY <1>3
<1>7. IsFiniteSet(A) /\ IsFiniteSet(In(N)) /\ A \cap In(N) = {} /\ A \cup In(N) = In(M)
  BY FS_Subset DEF Labelled
<1>8. /\ \A x \in A \cup In(N) : f[x] \in Int
      /\ \A k \in M : h[k] \in Int
  <2>1. A \cup In(N) \subseteq S
    BY DEF Labelled
  <2>2. ASSUME NEW k \in L PROVE h[k] \in Int
    <3>1. Labelled(S, label, k) \in SUBSET S
      BY DEF Labelled
    <3>2. IsFiniteSet(Labelled(S, label, k)) /\ \A x \in Labelled(S, label, k) : f[x] \in Int
      BY <3>1, FS_Subset
    <3> QED
      BY <3>2, SumType
  <2> QED
    BY <1>3, <2>1, <2>2
<1>9. SumFunctionOnSet(h, M) = h[l] + SumFunctionOnSet(h, N)
  BY <1>3, <1>8, SumRemove
<1>10. h[l] = SumFunctionOnSet(f, A)
  BY <1>3
<1> HIDE DEF A, N, In
<1>11. SumFunctionOnSet(f, In(M)) = SumFunctionOnSet(f, A) + SumFunctionOnSet(f, In(N))
  BY <1>7, <1>8, SumUnion
<1> QED
  BY <1>3, <1>6, <1>9, <1>10, <1>11

(* A sum may be taken in any order, over the positions of a list.           *)
LEMMA SumReindexed ==
  ASSUME NEW S, IsFiniteSet(S), NEW f, \A x \in S : f[x] \in Int,
         NEW I, IsFiniteSet(I), NEW b \in Bijection(I, S),
         NEW h, \A i \in I : h[i] = f[b[i]]
  PROVE  SumFunctionOnSet(h, I) = SumFunctionOnSet(f, S)
<1> DEFINE label == [x \in S |-> CHOOSE i \in I : b[i] = x]
<1>1. \A x \in S : label[x] \in I /\ b[label[x]] = x
  BY DEF Bijection, Surjection
<1>2. \A i \in I : b[i] \in S /\ label[b[i]] = i
  BY <1>1 DEF Bijection, Injection, IsInjective
<1> HIDE DEF label
<1>3. \A i \in I : {x \in S : label[x] = i} = {b[i]}
  BY <1>1, <1>2
<1>4. ASSUME NEW i \in I
      PROVE  h[i] = SumFunctionOnSet(f, Labelled(S, label, i))
  <2>1. f[b[i]] \in Int
    BY <1>2
  <2>2. SumFunctionOnSet(f, {b[i]}) = f[b[i]]
    BY <2>1, SumSingle
  <2> QED
    BY <1>3, <2>2 DEF Labelled
<1> QED
  BY <1>1, <1>4, SumPartition

(* A rounding error of at most 6 per member of 12 f - g stays within 6 per  *)
(* member in the sums.                                                      *)
LEMMA YearOfMonths ==
  ASSUME NEW S, IsFiniteSet(S), NEW f, NEW g,
         \A x \in S : f[x] \in Int /\ g[x] \in Int /\ 12 * f[x] - g[x] \in -6..6
  PROVE  12 * SumFunctionOnSet(f, S) - SumFunctionOnSet(g, S)
           \in -(6 * Cardinality(S))..(6 * Cardinality(S))
<1> DEFINE Near(T) == 12 * SumFunctionOnSet(f, T) - SumFunctionOnSet(g, T)
                        \in -(6 * Cardinality(T))..(6 * Cardinality(T))
           Bad == {T \in SUBSET S : ~ Near(T)}
<1>1. SUFFICES ASSUME Bad # {} PROVE FALSE
  OBVIOUS
<1>2. PICK T \in Bad : T \subseteq S /\ IsFiniteSet(T) /\ \A x \in T : T \ {x} \notin Bad
  <2>1. Bad \in SUBSET SUBSET S
    OBVIOUS
  <2> HIDE DEF Bad
  <2> QED
    BY <1>1, <2>1, SmallestSet
<1>3. T # {}
  <2> SUFFICES ASSUME T = {} PROVE FALSE
    OBVIOUS
  <2>1. /\ SumFunctionOnSet(f, T) = 0 /\ SumFunctionOnSet(g, T) = 0
        /\ Cardinality(T) = 0
    BY SumEmpty, FS_EmptySet
  <2>2. Near(T)
    BY <2>1
  <2> QED
    BY <2>2
<1>4. PICK x \in T : TRUE
  BY <1>3
<1> DEFINE U == T \ {x}
           n == Cardinality(U)
           sf == SumFunctionOnSet(f, U)
           sg == SumFunctionOnSet(g, U)
<1>5. IsFiniteSet(U) /\ n \in Nat /\ Cardinality(T) = n + 1
  <2>1. IsFiniteSet(U) /\ Cardinality(U) = Cardinality(T) - 1
    BY <1>2, <1>4, FS_RemoveElement
  <2> QED
    BY <1>2, <2>1, FS_CardinalityType
<1>6. \A y \in T : f[y] \in Int /\ g[y] \in Int
  BY <1>2
<1>7. SumFunctionOnSet(f, T) = f[x] + sf /\ SumFunctionOnSet(g, T) = g[x] + sg
  BY <1>2, <1>6, SumRemove
<1>8. sf \in Int /\ sg \in Int
  BY <1>5, <1>6, SumType
<1>9. 12 * sf - sg \in -(6 * n)..(6 * n)
  BY <1>2
<1>10. f[x] \in Int /\ g[x] \in Int /\ 12 * f[x] - g[x] \in -6..6
  BY <1>2
<1> HIDE DEF sf, sg, n, U
<1>11. 12 * (f[x] + sf) - (g[x] + sg) \in -(6 * (n + 1))..(6 * (n + 1))
  BY <1>5, <1>8, <1>9, <1>10
<1>12. Near(T)
  BY <1>5, <1>7, <1>11
<1> QED
  BY <1>12

-----------------------------------------------------------------------------
(* The least number of a set.                                               *)
LEMMA MinIsLeast ==
  ASSUME NEW S \in SUBSET Nat, S # {}
  PROVE  Min(S) \in S /\ \A y \in S : Min(S) <= y
<1> DEFINE R == OpToRel(<, Nat)
<1>1. \A x, y \in Nat : <<x, y>> \in R <=> x < y
  BY DEF OpToRel
<1>2. IsWellFoundedOn(R, Nat)
  BY NatLessThanWellFounded
<1> HIDE DEF R
<1>3. PICK x \in S : \A y \in S : ~ (<<y, x>> \in R)
  BY <1>2, WFMin
<1>4. ASSUME NEW y \in S PROVE x <= y
  <2>1. x \in Nat /\ y \in Nat /\ ~ (<<y, x>> \in R)
    BY <1>3
  <2>2. ~ (y < x)
    BY <1>1, <2>1
  <2> QED
    BY <2>1, <2>2
<1> QED
  BY <1>4 DEF Min

(* A nonempty set of naturals has a least one.                              *)
LEMMA SmallestNumber ==
  ASSUME NEW S \in SUBSET Nat, S # {}
  PROVE  \E x \in S : /\ x # 0 => x - 1 \in Nat /\ x - 1 \notin S
                      /\ \A y \in S : x <= y
<1> DEFINE x == Min(S)
<1>1. x \in S /\ \A y \in S : x <= y
  BY MinIsLeast
<1> HIDE DEF x
<1>2. x \in Nat
  BY <1>1
<1>3. x # 0 => x - 1 \in Nat /\ ~ (x <= x - 1)
  BY <1>2
<1> QED
  BY <1>1, <1>3

-----------------------------------------------------------------------------
(* Every month, leap year or not, has 28 to 31 days.                        *)
LEMMA DaysInMonthType ==
  ASSUME NEW m \in Int
  PROVE  DaysInMonth(m) \in 28..31
BY DEF DaysInMonth

(* The first n + 1 entries of MonthStart.                                   *)
Starts(n, g) ==
  g = [m \in 0..n |-> IF m = 0 THEN 0 ELSE g[m - 1] + DaysInMonth(m - 1)]

(* Two such tables agree where both are defined.                            *)
LEMMA StartsAgree ==
  ASSUME NEW n \in Nat, NEW p \in Nat, NEW g, Starts(n, g), NEW h, Starts(p, h),
         NEW k \in Nat, k <= n, k <= p
  PROVE  g[k] = h[k]
<1> DEFINE Bad == {i \in Nat : i <= n /\ i <= p /\ g[i] # h[i]}
<1>1. SUFFICES ASSUME Bad # {} PROVE FALSE
  OBVIOUS
<1>2. PICK i \in Bad : i # 0 => i - 1 \in Nat /\ i - 1 \notin Bad
  <2>1. Bad \in SUBSET Nat
    OBVIOUS
  <2> HIDE DEF Bad
  <2> QED
    BY <1>1, <2>1, SmallestNumber
<1>3. i \in 0..n /\ i \in 0..p
  OBVIOUS
<1>4. /\ g[i] = IF i = 0 THEN 0 ELSE g[i - 1] + DaysInMonth(i - 1)
      /\ h[i] = IF i = 0 THEN 0 ELSE h[i - 1] + DaysInMonth(i - 1)
  BY <1>3 DEF Starts
<1>5. i # 0
  BY <1>4
<1>6. g[i - 1] = h[i - 1]
  BY <1>2, <1>3, <1>5
<1> QED
  BY <1>4, <1>5, <1>6

(* They exist for every n, so MonthStart's recursion defines a function.    *)
LEMMA StartsExist ==
  ASSUME NEW n \in Nat
  PROVE  \E g : Starts(n, g)
<1> DEFINE Bad == {i \in Nat : ~ \E g : Starts(i, g)}
<1>1. SUFFICES ASSUME Bad # {} PROVE FALSE
  OBVIOUS
<1>2. PICK i \in Bad : i # 0 => i - 1 \in Nat /\ i - 1 \notin Bad
  <2>1. Bad \in SUBSET Nat
    OBVIOUS
  <2> HIDE DEF Bad
  <2> QED
    BY <1>1, <2>1, SmallestNumber
<1>3. CASE i = 0
  <2> DEFINE g == [m \in 0..0 |-> 0]
  <2>1. g = [m \in 0..0 |-> IF m = 0 THEN 0 ELSE g[m - 1] + DaysInMonth(m - 1)]
    <3>1. \A m \in 0..0 : m = 0
      OBVIOUS
    <3> QED
      BY <3>1
  <2> QED
    BY <1>3, <2>1 DEF Starts
<1>4. CASE i # 0
  <2>1. PICK h : Starts(i - 1, h)
    BY <1>2, <1>4
  <2> DEFINE g == [m \in 0..i |-> IF m = i THEN h[i - 1] + DaysInMonth(i - 1) ELSE h[m]]
             next == [m \in 0..i |-> IF m = 0 THEN 0 ELSE g[m - 1] + DaysInMonth(m - 1)]
  <2>2. ASSUME NEW m \in 0..i PROVE g[m] = next[m]
    <3>1. CASE m = i
      <4>1. i - 1 \in 0..i /\ i - 1 # i
        BY <1>4
      <4> QED
        BY <1>4, <3>1, <4>1
    <3>2. CASE m # i
      <4>1. m \in 0..(i - 1)
        BY <3>2
      <4>2. h[m] = IF m = 0 THEN 0 ELSE h[m - 1] + DaysInMonth(m - 1)
        BY <2>1, <4>1 DEF Starts
      <4>3. m # 0 => m - 1 \in 0..i /\ m - 1 # i
        BY <4>1
      <4> QED
        BY <3>2, <4>2, <4>3
    <3> QED
      BY <3>1, <3>2
  <2>3. g = next
    BY <2>2
  <2> QED
    BY <2>3 DEF Starts
<1> QED
  BY <1>3, <1>4

(* MonthStart is what its definition says, for every month.                 *)
LEMMA MonthStartStep ==
  /\ MonthStart[0] = 0
  /\ \A m \in Nat : MonthStart[m + 1] = MonthStart[m] + DaysInMonth(m)
<1> DEFINE G(n) == CHOOSE g : Starts(n, g)
           start == [m \in Nat |-> G(m)[m]]
           next == [m \in Nat |-> IF m = 0 THEN 0 ELSE start[m - 1] + DaysInMonth(m - 1)]
<1>1. \A n \in Nat : Starts(n, G(n))
  BY StartsExist
<1>2. ASSUME NEW m \in Nat PROVE start[m] = next[m]
  <2>1. G(m)[m] = IF m = 0 THEN 0 ELSE G(m)[m - 1] + DaysInMonth(m - 1)
    <3>1. Starts(m, G(m)) /\ m \in 0..m
      BY <1>1
    <3> HIDE DEF G
    <3> QED
      BY <3>1 DEF Starts
  <2>2. m # 0 => G(m)[m - 1] = G(m - 1)[m - 1]
    <3>1. m # 0 => m - 1 \in Nat /\ m - 1 <= m /\ m - 1 <= m - 1
      OBVIOUS
    <3> HIDE DEF G
    <3> QED
      BY <1>1, <3>1, StartsAgree
  <2>3. m # 0 => m - 1 \in Nat
    OBVIOUS
  <2> QED
    BY <2>1, <2>2, <2>3
<1>3. start = next
  BY <1>2
<1> DEFINE Is(g) == g = [m \in Nat |-> IF m = 0 THEN 0 ELSE g[m - 1] + DaysInMonth(m - 1)]
<1>4. Is(start)
  BY <1>3
<1>5. MonthStart = CHOOSE g : Is(g)
  BY DEF MonthStart
<1>6. Is(MonthStart)
  <2> HIDE DEF Is, start
  <2> QED
    BY <1>4, <1>5
<1>7. \A m \in Nat : MonthStart[m] = IF m = 0 THEN 0 ELSE MonthStart[m - 1] + DaysInMonth(m - 1)
  BY <1>6
<1>8. ASSUME NEW m \in Nat PROVE MonthStart[m + 1] = MonthStart[m] + DaysInMonth(m)
  <2>1. m + 1 \in Nat /\ m + 1 # 0 /\ (m + 1) - 1 = m
    OBVIOUS
  <2> QED
    BY <1>7, <2>1
<1> QED
  BY <1>7, <1>8

(* Month m starts between day 28 m and day 31 m: the range in which         *)
(* MonthOf searches.                                                        *)
LEMMA MonthStartType ==
  ASSUME NEW m \in Nat
  PROVE  MonthStart[m] \in Nat /\ 28 * m <= MonthStart[m] /\ MonthStart[m] <= 31 * m
<1> DEFINE Good(i) == MonthStart[i] \in Nat /\ 28 * i <= MonthStart[i] /\ MonthStart[i] <= 31 * i
           Bad == {i \in Nat : ~ Good(i)}
<1>1. SUFFICES ASSUME Bad # {} PROVE FALSE
  OBVIOUS
<1>2. PICK i \in Bad : i # 0 => i - 1 \in Nat /\ i - 1 \notin Bad
  <2>1. Bad \in SUBSET Nat
    OBVIOUS
  <2> HIDE DEF Bad
  <2> QED
    BY <1>1, <2>1, SmallestNumber
<1>3. i # 0
  BY MonthStartStep
<1> DEFINE j == i - 1
<1>4. j \in Nat /\ i = j + 1 /\ Good(j)
  BY <1>2, <1>3
<1> HIDE DEF j
<1>5. MonthStart[i] = MonthStart[j] + DaysInMonth(j) /\ DaysInMonth(j) \in 28..31
  BY <1>4, MonthStartStep, DaysInMonthType
<1>6. Good(i)
  BY <1>4, <1>5
<1> QED
  BY <1>6

(* A month starts after every earlier one has ended.                        *)
LEMMA MonthStartGrows ==
  ASSUME NEW m \in Nat, NEW n \in Nat, m < n
  PROVE  MonthStart[m + 1] <= MonthStart[n]
<1> DEFINE Bad == {i \in Nat : m < i /\ ~ (MonthStart[m + 1] <= MonthStart[i])}
<1>1. SUFFICES ASSUME Bad # {} PROVE FALSE
  OBVIOUS
<1>2. PICK i \in Bad : i # 0 => i - 1 \in Nat /\ i - 1 \notin Bad
  <2>1. Bad \in SUBSET Nat
    OBVIOUS
  <2> HIDE DEF Bad
  <2> QED
    BY <1>1, <2>1, SmallestNumber
<1>3. i # m + 1
  BY MonthStartType
<1> DEFINE j == i - 1
<1>4. j \in Nat /\ i = j + 1 /\ m < j /\ MonthStart[m + 1] <= MonthStart[j]
  BY <1>2, <1>3
<1> HIDE DEF j
<1>5. /\ MonthStart[i] = MonthStart[j] + DaysInMonth(j) /\ DaysInMonth(j) \in 28..31
      /\ MonthStart[j] \in Nat /\ MonthStart[m + 1] \in Nat
  BY <1>4, MonthStartStep, MonthStartType, DaysInMonthType
<1>6. MonthStart[m + 1] <= MonthStart[i]
  BY <1>4, <1>5
<1> QED
  BY <1>6

(* The month a day lies in is unique...                                     *)
LEMMA MonthOfIs ==
  ASSUME NEW d \in Nat, NEW m \in Nat, MonthStart[m] <= d, d < MonthStart[m + 1]
  PROVE  MonthOf(d) = m
<1>1. m \in (d \div 31)..(d \div 28)
  <2>1. MonthStart[m] \in Nat /\ MonthStart[m + 1] \in Nat
        /\ 28 * m <= MonthStart[m] /\ MonthStart[m + 1] <= 31 * (m + 1)
    BY MonthStartType
  <2>2. 28 * m <= d /\ d < 31 * (m + 1)
    BY <2>1
  <2> QED
    BY <2>2
<1>2. ASSUME NEW n \in (d \div 31)..(d \div 28), MonthStart[n] <= d, d < MonthStart[n + 1]
      PROVE  n = m
  <2>1. n \in Nat
    OBVIOUS
  <2>2. /\ MonthStart[m] \in Nat /\ MonthStart[m + 1] \in Nat
        /\ MonthStart[n] \in Nat /\ MonthStart[n + 1] \in Nat
    BY <2>1, MonthStartType
  <2>3. ~ (m < n) /\ ~ (n < m)
    BY <1>2, <2>1, <2>2, MonthStartGrows
  <2> QED
    BY <2>1, <2>3
<1> QED
  BY <1>1, <1>2 DEF MonthOf

(* ... and there is one.                                                    *)
LEMMA MonthOfType ==
  ASSUME NEW d \in Nat
  PROVE  MonthOf(d) \in Nat /\ MonthStart[MonthOf(d)] <= d /\ d < MonthStart[MonthOf(d) + 1]
<1> DEFINE After == {i \in Nat : d < MonthStart[i]}
<1>1. d + 1 \in After
  <2>1. d + 1 \in Nat /\ MonthStart[d + 1] \in Nat /\ 28 * (d + 1) <= MonthStart[d + 1]
    BY MonthStartType
  <2> QED
    BY <2>1
<1>2. PICK i \in After : i # 0 => i - 1 \in Nat /\ i - 1 \notin After
  <2>1. After \in SUBSET Nat /\ After # {}
    BY <1>1
  <2> HIDE DEF After
  <2> QED
    BY <2>1, SmallestNumber
<1>3. i # 0
  BY MonthStartStep
<1> DEFINE m == i - 1
<1>4. m \in Nat /\ m + 1 = i /\ ~ (d < MonthStart[m]) /\ d < MonthStart[m + 1]
  BY <1>2, <1>3
<1> HIDE DEF m
<1>5. MonthStart[m] <= d
  BY <1>4, MonthStartType
<1> QED
  BY <1>4, <1>5, MonthOfIs

(* Later days lie in later months, or in the same.                          *)
LEMMA MonthOfMonotone ==
  ASSUME NEW d \in Nat, NEW e \in Nat, d <= e
  PROVE  MonthOf(d) <= MonthOf(e)
<1> DEFINE m == MonthOf(d)
           n == MonthOf(e)
<1>1. /\ m \in Nat /\ MonthStart[m] <= d
      /\ n \in Nat /\ e < MonthStart[n + 1]
  BY MonthOfType
<1> HIDE DEF m, n
<1>2. MonthStart[m] \in Nat /\ MonthStart[n + 1] \in Nat
  BY <1>1, MonthStartType
<1>3. n < m => MonthStart[n + 1] <= MonthStart[m]
  BY <1>1, MonthStartGrows
<1>4. m <= n
  BY <1>1, <1>2, <1>3
<1> QED
  BY <1>4 DEF m, n

(* A period of months lands in the month that many months later, on the     *)
(* same day of the month or, if that month is shorter, on its last day.     *)
THEOREM AddPeriodKeepsTheDay ==
  ASSUME NEW d \in Nat, NEW p \in {"monthly", "quarterly", "yearly"}
  PROVE  /\ CalendarAddPeriod(d, p) \in Nat
         /\ MonthOf(CalendarAddPeriod(d, p)) = MonthOf(d) + MonthsPerPeriod[p]
         /\ DayInMonth(CalendarAddPeriod(d, p)) =
              Min({DayInMonth(d), DaysInMonth(MonthOf(d) + MonthsPerPeriod[p]) - 1})
<1> DEFINE m == MonthOf(d)
           t == m + MonthsPerPeriod[p]
           k == Min({DayInMonth(d), DaysInMonth(t) - 1})
<1>1. MonthsPerPeriod[p] \in Nat
  BY DEF MonthsPerPeriod
<1>2. m \in Nat /\ MonthStart[m] <= d
  BY MonthOfType
<1>3. t \in Nat /\ MonthStart[m] \in Nat
  BY <1>1, <1>2, MonthStartType
<1>4. DayInMonth(d) \in Nat
  BY <1>2, <1>3 DEF DayInMonth
<1>5. DaysInMonth(t) \in 28..31
  BY <1>3, DaysInMonthType
<1>6. CalendarAddPeriod(d, p) = MonthStart[t] + k
  BY DEF CalendarAddPeriod
<1> HIDE DEF t, m
<1>7. k \in Nat /\ k <= DaysInMonth(t) - 1
  <2>1. {DayInMonth(d), DaysInMonth(t) - 1} \in SUBSET Nat
    BY <1>4, <1>5
  <2>2. k \in {DayInMonth(d), DaysInMonth(t) - 1}
        /\ \A y \in {DayInMonth(d), DaysInMonth(t) - 1} : k <= y
    BY <2>1, MinIsLeast
  <2> QED
    BY <2>1, <2>2
<1> HIDE DEF k
<1>8. MonthStart[t] \in Nat /\ MonthStart[t + 1] = MonthStart[t] + DaysInMonth(t)
  BY <1>3, MonthStartType, MonthStartStep
<1> DEFINE e == MonthStart[t] + k
<1>9. e \in Nat /\ MonthStart[t] <= e /\ e < MonthStart[t + 1] /\ e - MonthStart[t] = k
  BY <1>5, <1>7, <1>8
<1> HIDE DEF e
<1>10. MonthOf(e) = t
  BY <1>3, <1>9, MonthOfIs
<1>11. DayInMonth(e) = k
  BY <1>9, <1>10 DEF DayInMonth
<1>12. CalendarAddPeriod(d, p) = e
  BY <1>6 DEF e
<1> QED
  BY <1>9, <1>10, <1>11, <1>12 DEF t, m, k

(* The next charge is later than the last one, whatever the period and the  *)
(* day: add_period never stands still, so a reminder that was sent is not   *)
(* due again at once and a silence has an end.                              *)
THEOREM AddPeriodMovesForward ==
  ASSUME NEW d \in Nat, NEW p \in Periods
  PROVE  CalendarAddPeriod(d, p) \in Nat /\ d < CalendarAddPeriod(d, p)
<1>1. CASE p = "weekly"
  BY <1>1 DEF CalendarAddPeriod
<1>2. CASE p # "weekly"
  <2> DEFINE e == CalendarAddPeriod(d, p)
  <2>1. p \in {"monthly", "quarterly", "yearly"}
    BY <1>2 DEF Periods
  <2>2. MonthsPerPeriod[p] \in Nat \ {0}
    BY <2>1 DEF MonthsPerPeriod
  <2>3. e \in Nat /\ MonthOf(e) = MonthOf(d) + MonthsPerPeriod[p]
    BY <2>1, AddPeriodKeepsTheDay
  <2> HIDE DEF e
  <2>4. MonthOf(d) \in Nat /\ (e <= d => MonthOf(e) <= MonthOf(d))
    BY <2>3, MonthOfType, MonthOfMonotone
  <2>5. d < e
    BY <2>2, <2>3, <2>4
  <2> QED
    BY <2>3, <2>5 DEF e
<1> QED
  BY <1>1, <1>2

-----------------------------------------------------------------------------
(* A list in the order of upTo holds every member once, when of any two     *)
(* members one comes strictly before the other.                             *)
LEMMA InOrderLists ==
  ASSUME NEW S, IsFiniteSet(S), NEW upTo,
         \A s \in S : s \in upTo[s] /\ upTo[s] \subseteq S,
         \A s, t \in S : s # t => \/ upTo[s] \subseteq upTo[t] /\ t \notin upTo[s]
                                  \/ upTo[t] \subseteq upTo[s] /\ s \notin upTo[t]
  PROVE  /\ Cardinality(S) \in Nat
         /\ InOrder(S, upTo) \in Bijection(1..Cardinality(S), S)
         /\ InOrder(S, upTo) \in Seq(S)
         /\ Len(InOrder(S, upTo)) = Cardinality(S)
<1> DEFINE n == Cardinality(S)
           place == [s \in S |-> Cardinality(upTo[s])]
           list == [i \in 1..n |-> CHOOSE s \in S : Cardinality(upTo[s]) = i]
<1>1. n \in Nat
  BY FS_CardinalityType
<1>2. ASSUME NEW s \in S
      PROVE  IsFiniteSet(upTo[s]) /\ place[s] \in 1..n
  <2>1. IsFiniteSet(upTo[s]) /\ Cardinality(upTo[s]) <= n
    BY FS_Subset
  <2>2. Cardinality(upTo[s]) \in Nat /\ Cardinality(upTo[s]) # 0
    BY <2>1, FS_CardinalityType, FS_EmptySet
  <2> QED
    BY <1>1, <2>1, <2>2
<1>3. ASSUME NEW s \in S, NEW t \in S, s # t, upTo[s] \subseteq upTo[t], t \notin upTo[s]
      PROVE  place[s] # place[t]
  BY <1>2, <1>3, FS_Subset
<1>4. place \in Injection(S, 1..n)
  <2>1. place \in [S -> 1..n]
    BY <1>2
  <2>2. \A s, t \in S : place[s] = place[t] => s = t
    BY <1>3
  <2> QED
    BY <2>1, <2>2 DEF Injection, IsInjective
<1>5. place \in Surjection(S, 1..n)
  <2>1. IsFiniteSet(1..n) /\ Cardinality(1..n) = n
    BY <1>1, FS_Interval
  <2> HIDE DEF place
  <2> QED
    BY <1>4, <2>1, FS_Injection
<1>6. ASSUME NEW i \in 1..n
      PROVE  list[i] \in S /\ place[list[i]] = i
  <2>1. \E s \in S : Cardinality(upTo[s]) = i
    BY <1>5 DEF Surjection
  <2> QED
    BY <2>1
<1>7. \A s \in S : place[s] \in 1..n /\ list[place[s]] = s
  <2>1. \A s \in S : place[s] \in 1..n
    BY <1>2
  <2>2. \A s \in S : list[place[s]] \in S /\ place[list[place[s]]] = place[s]
    BY <1>6, <2>1
  <2> HIDE DEF place, list
  <2> QED
    BY <1>4, <2>1, <2>2 DEF Injection, IsInjective
<1>8. list \in Bijection(1..n, S)
  <2>1. list \in [1..n -> S]
    BY <1>6
  <2> HIDE DEF list, place
  <2>2. \A i, j \in 1..n : list[i] = list[j] => i = j
    BY <1>6
  <2>3. \A s \in S : \E i \in 1..n : list[i] = s
    BY <1>7
  <2>4. list \in Injection(1..n, S) /\ list \in Surjection(1..n, S)
    BY <2>1, <2>2, <2>3 DEF Injection, Surjection, IsInjective
  <2> QED
    BY <2>4 DEF Bijection
<1>9. list \in Seq(S) /\ Len(list) = n
  <2>1. list \in [1..n -> S] /\ DOMAIN list = 1..n
    BY <1>6
  <2> HIDE DEF list
  <2> QED
    BY <1>1, <2>1
<1>10. InOrder(S, upTo) = list
  BY DEF InOrder
<1> QED
  BY <1>1, <1>8, <1>9, <1>10

(* The inductive invariant.  That the latest charge of an email subscription*)
(* is not among the last two periods says that it sleeps only if it has one:*)
(* each was created by the receipt of a charge, and charges stay.           *)
IInv ==
  /\ TypeOK
  /\ \A s \in Subs : subs[s].email => ChargesOf(s) # {}

(* All the selections a sum or a list is taken of are finite.               *)
LEMMA VisibleFinite ==
  ASSUME TypeOK
  PROVE  /\ IsFiniteSet(Subs) /\ Subs = 1..Len(subs) /\ Len(subs) \in Nat
         /\ IsFiniteSet(DOMAIN charges) /\ DOMAIN charges = 1..Len(charges)
         /\ Len(charges) \in Nat
         /\ IsFiniteSet(Visible) /\ IsFiniteSet(Summed) /\ IsFiniteSet(ActiveInBaseCurrency)
<1>1. /\ Subs = 1..Len(subs) /\ Len(subs) \in Nat
      /\ DOMAIN charges = 1..Len(charges) /\ Len(charges) \in Nat
  BY DEF TypeOK, Subs
<1>2. IsFiniteSet(Subs) /\ IsFiniteSet(DOMAIN charges)
  BY <1>1, FS_Interval
<1>3. Visible \subseteq Subs /\ Summed \subseteq Subs /\ ActiveInBaseCurrency \subseteq Subs
  BY DEF Visible, Summed, ActiveInBaseCurrency
<1> QED
  BY <1>1, <1>2, <1>3, FS_Subset

(* list_visible holds every visible subscription once.                      *)
LEMMA ListVisibleLists ==
  ASSUME TypeOK
  PROVE  /\ Cardinality(Visible) \in Nat /\ Cardinality(Visible) <= Len(subs)
         /\ ListVisible \in Bijection(1..Cardinality(Visible), Visible)
         /\ ListVisible \in Seq(Visible) /\ Len(ListVisible) = Cardinality(Visible)
<1> DEFINE upTo == [s \in Visible |-> {t \in Visible : t <= s}]
<1>1. \A s \in Visible : s \in Nat
  BY VisibleFinite DEF Visible
<1>2. \A s \in Visible : s \in upTo[s] /\ upTo[s] \subseteq Visible
  BY <1>1
<1>3. ASSUME NEW s \in Visible, NEW t \in Visible, s # t
      PROVE  \/ upTo[s] \subseteq upTo[t] /\ t \notin upTo[s]
             \/ upTo[t] \subseteq upTo[s] /\ s \notin upTo[t]
  <2>1. CASE s < t
    <3>1. upTo[s] \subseteq upTo[t] /\ t \notin upTo[s]
      BY <1>1, <2>1
    <3> QED
      BY <3>1
  <2>2. CASE t < s
    <3>1. upTo[t] \subseteq upTo[s] /\ s \notin upTo[t]
      BY <1>1, <2>2
    <3> QED
      BY <3>1
  <2> QED
    BY <1>1, <1>3, <2>1, <2>2
<1>4. IsFiniteSet(Visible)
  BY VisibleFinite
<1>5. ListVisible = InOrder(Visible, upTo)
  BY DEF ListVisible
<1>6. Cardinality(Visible) <= Len(subs)
  <2> DEFINE n == Len(subs)
  <2>1. n \in Nat /\ Subs = 1..n /\ IsFiniteSet(Subs)
    BY VisibleFinite
  <2> HIDE DEF n
  <2>2. Cardinality(1..n) = n
    <3>1. Cardinality(1..n) = IF 1 > n THEN 0 ELSE n - 1 + 1
      BY <2>1, FS_Interval
    <3> QED
      BY <2>1, <3>1
  <2>3. Visible \in SUBSET Subs
    BY DEF Visible
  <2> QED
    BY <2>1, <2>2, <2>3, FS_Subset DEF n
<1> HIDE DEF upTo
<1> QED
  BY <1>2, <1>3, <1>4, <1>5, <1>6, InOrderLists
-----------------------------------------------------------------------------
(* max and min of two, as the clamping of a page uses them.                 *)
LEMMA MaxOfTwo ==
  ASSUME NEW a \in Int, NEW b \in Int
  PROVE  Max({a, b}) = IF a >= b THEN a ELSE b
BY DEF Max

LEMMA MinOfTwo ==
  ASSUME NEW a \in Int, NEW b \in Int
  PROVE  Min({a, b}) = IF a <= b THEN a ELSE b
BY DEF Min

(* Arithmetic of pages: products and floored quotients.                     *)
LEMMA Products ==
  ASSUME NEW k \in Nat, NEW a \in Int, NEW b \in Int, a <= b
  PROVE  a * k \in Int /\ b * k \in Int /\ a * k <= b * k
OBVIOUS

LEMMA Quotient ==
  ASSUME NEW a \in Int, NEW k \in Nat \ {0}
  PROVE  a \div k \in Int /\ (a \div k) * k <= a /\ a < (a \div k + 1) * k
OBVIOUS

LEMMA QuotientIs ==
  ASSUME NEW a \in Int, NEW k \in Nat \ {0}, NEW q \in Int, q * k <= a
  PROVE  q <= a \div k
<1> DEFINE r == a \div k
<1>1. r \in Int /\ a < (r + 1) * k
  BY Quotient
<1> HIDE DEF r
<1>2. r + 1 <= q => (r + 1) * k <= q * k
  BY <1>1, Products
<1>3. q * k \in Int /\ (r + 1) * k \in Int
  BY <1>1
<1>4. q <= r
  BY <1>1, <1>2, <1>3
<1> QED
  BY <1>4 DEF r

(* The pages hold the list, the last one is not empty, and there are never  *)
(* more than MaxSubs subscriptions need.                                    *)
LEMMA PagesCount ==
  ASSUME TypeOK
  PROVE  /\ TotalPages \in Nat /\ TotalPages >= 1
         /\ Len(ListVisible) <= TotalPages * PageSize
         /\ Len(ListVisible) > 0 => (TotalPages - 1) * PageSize < Len(ListVisible)
         /\ TotalPages - 1 > 0 => TotalPages - 1 <= (MaxSubs - 1) \div PageSize
<1> DEFINE v == Len(ListVisible)
           k == PageSize
           q == (v + k - 1) \div k
<1>1. v \in Nat /\ k \in Nat \ {0} /\ MaxSubs \in Nat /\ v <= MaxSubs
  <2>1. Len(subs) \in Nat /\ Len(subs) <= MaxSubs
    BY VisibleFinite DEF TypeOK
  <2> QED
    BY <2>1, ListVisibleLists, ScreensAssumption
<1> HIDE DEF v, k
<1>2. q \in Int /\ q * k <= v + k - 1 /\ v + k - 1 < (q + 1) * k
  BY <1>1, Quotient
<1>3. TotalPages = IF 1 >= q THEN 1 ELSE q
  BY <1>2, MaxOfTwo DEF TotalPages, v, k
<1> HIDE DEF q
<1>4. (q + 1) * k = q * k + k /\ (q - 1) * k = q * k - k /\ q * k \in Int
  BY <1>1, <1>2
<1>5. v <= q * k /\ (q - 1) * k < v /\ (q - 1) * k <= v - 1
  BY <1>1, <1>2, <1>4
<1>6. v > 0 => q >= 1
  <2>1. q <= 0 => q * k <= 0 * k
    BY <1>1, <1>2, Products
  <2> QED
    BY <1>1, <1>2, <1>4, <1>5, <2>1
<1>7. v <= TotalPages * k
  <2>1. CASE q >= 1
    <3>1. TotalPages = q
      BY <1>2, <1>3, <2>1
    <3> QED
      BY <1>5, <3>1
  <2>2. CASE q < 1
    <3>1. v = 0 /\ TotalPages = 1
      BY <1>1, <1>2, <1>3, <1>6, <2>2
    <3> QED
      BY <1>1, <3>1
  <2> QED
    BY <1>2, <2>1, <2>2
<1>8. v > 0 => (TotalPages - 1) * k < v
  <2>1. q >= 1 => TotalPages = q
    BY <1>2, <1>3
  <2> QED
    BY <1>5, <1>6, <2>1
<1>9. TotalPages - 1 > 0 => TotalPages - 1 <= (MaxSubs - 1) \div k
  <2> SUFFICES ASSUME TotalPages - 1 > 0 PROVE TotalPages - 1 <= (MaxSubs - 1) \div k
    OBVIOUS
  <2>1. TotalPages = q
    BY <1>2, <1>3
  <2>2. (q - 1) * k <= MaxSubs - 1 /\ q - 1 \in Int
    BY <1>1, <1>2, <1>4, <1>5
  <2> QED
    BY <1>1, <2>1, <2>2, QuotientIs
<1> QED
  BY <1>2, <1>3, <1>7, <1>8, <1>9 DEF v, k

(* A page number out of a button is moved onto an existing page.            *)
LEMMA ClampLeads ==
  ASSUME TypeOK, NEW page \in Int
  PROVE  /\ Clamp(page) \in 0..(TotalPages - 1)
         /\ page \in 0..(TotalPages - 1) => Clamp(page) = page
<1> DEFINE least == IF page <= TotalPages - 1 THEN page ELSE TotalPages - 1
<1>1. TotalPages \in Nat /\ TotalPages >= 1
  BY PagesCount
<1>2. Min({page, TotalPages - 1}) = least /\ least \in Int
  BY <1>1, MinOfTwo
<1> HIDE DEF least
<1>3. Clamp(page) = Max({0, least})
  BY <1>2 DEF Clamp
<1>4. Clamp(page) = IF 0 >= least THEN 0 ELSE least
  BY <1>2, <1>3, MaxOfTwo
<1> QED
  BY <1>1, <1>4 DEF least

(* A page holds the entries of the list from its first to its last place    *)
(* and no others.                                                           *)
LEMMA PageHolds ==
  ASSUME TypeOK, NEW page \in 0..(TotalPages - 1)
  PROVE  /\ DOMAIN PageItems(page) \subseteq Nat
         /\ \A i \in 1..Len(ListVisible) :
              page * PageSize < i /\ i <= (page + 1) * PageSize
                => ListVisible[i] \in Range(PageItems(page))
         /\ \A s \in Range(PageItems(page)) : \E i \in 1..Len(ListVisible) :
              /\ page * PageSize < i /\ i <= (page + 1) * PageSize
              /\ s = ListVisible[i]
<1> DEFINE v == Len(ListVisible)
           m == page * PageSize + 1
           l == (page + 1) * PageSize
           n == IF l <= v THEN l ELSE v
<1>1. /\ v \in Nat /\ PageSize \in Nat \ {0} /\ page \in Nat
      /\ ListVisible \in Seq(Visible)
  BY ListVisibleLists, PagesCount, ScreensAssumption
<1>2. m \in Nat /\ m >= 1 /\ l \in Nat /\ n \in Nat
  BY <1>1
<1>3. PageItems(page) = SubSeq(ListVisible, m, n)
  <2>1. Clamp(page) = page
    BY <1>1, ClampLeads
  <2>2. Min({l, v}) = n
    BY <1>1, <1>2, MinOfTwo
  <2> QED
    BY <2>1, <2>2 DEF PageItems
<1>4. n <= v
  BY <1>1, <1>2
<1>5. \A i \in 1..v : i <= l <=> i <= n
  BY <1>1, <1>2
<1>6. \A i \in 1..v : page * PageSize < i <=> m <= i
  BY <1>1
<1> HIDE DEF n, m, l
<1>7. \A i \in m..n : ListVisible[i] \in Visible
  <2>1. \A i \in m..n : i \in 1..v
    BY <1>1, <1>2, <1>4
  <2> QED
    BY <1>1, <2>1
<1> DEFINE items == SubSeq(ListVisible, m, n)
<1>8. /\ items \in Seq(Visible) /\ Len(items) = IF m <= n THEN n - m + 1 ELSE 0
      /\ \A i \in 1..(n - m + 1) : items[i] = ListVisible[m + i - 1]
  BY <1>2, <1>7, SubSeqProperties
<1> HIDE DEF items
<1>9. DOMAIN items = 1..(n - m + 1)
  <2>1. DOMAIN items = 1..Len(items)
    BY <1>8
  <2>2. ~ (m <= n) => 1..(n - m + 1) = {} /\ 1..0 = {}
    BY <1>2
  <2> QED
    BY <1>2, <1>8, <2>1, <2>2
<1>10. ASSUME NEW i \in 1..v, m <= i, i <= n
       PROVE  ListVisible[i] \in Range(items)
  <2>1. i - m + 1 \in 1..(n - m + 1) /\ m + (i - m + 1) - 1 = i
    BY <1>2, <1>10
  <2>2. items[i - m + 1] = ListVisible[i]
    BY <1>8, <2>1
  <2> QED
    BY <1>9, <2>1, <2>2 DEF Range
<1>11. ASSUME NEW s \in Range(items)
       PROVE  \E i \in 1..v : m <= i /\ i <= n /\ s = ListVisible[i]
  <2>1. PICK j \in 1..(n - m + 1) : s = items[j]
    BY <1>9 DEF Range
  <2>2. m + j - 1 \in 1..v /\ m <= m + j - 1 /\ m + j - 1 <= n
    BY <1>1, <1>2, <1>4
  <2> QED
    BY <1>8, <2>1, <2>2
<1>12. PageItems(page) = items
  BY <1>3 DEF items
<1> QED
  BY <1>5, <1>6, <1>9, <1>10, <1>11, <1>12 DEF l

(* Every entry's place lies on one page, and a clamped page of a list that  *)
(* is not empty has an entry.                                               *)
LEMMA PagesCoverInv == IInv => PagesCover
<1> SUFFICES ASSUME IInv PROVE PagesCover
  OBVIOUS
<1> DEFINE v == Len(ListVisible)
           k == PageSize
<1>1. /\ TypeOK /\ v \in Nat /\ k \in Nat \ {0}
      /\ TotalPages \in Nat /\ TotalPages >= 1 /\ v <= TotalPages * k
      /\ v > 0 => (TotalPages - 1) * k < v
  BY ListVisibleLists, PagesCount, ScreensAssumption DEF IInv
<1>2. ASSUME NEW s \in Subs, IsVisible(s)
      PROVE  Cardinality({p \in 0..(TotalPages - 1) : s \in Range(PageItems(p))}) = 1
  <2>1. s \in Visible
    BY <1>2 DEF Visible
  <2>2. PICK i \in 1..v : ListVisible[i] = s
    BY <1>1, <2>1, ListVisibleLists DEF Bijection, Surjection
  <2>3. \A j \in 1..v : ListVisible[j] = s => j = i
    BY <1>1, <2>2, ListVisibleLists DEF Bijection, Injection, IsInjective
  <2> DEFINE q == (i - 1) \div k
  <2>4. q \in Int /\ q * k <= i - 1 /\ i - 1 < (q + 1) * k
    BY <1>1, Quotient
  <2>5. 0 <= q
    <3>1. 0 \in Int /\ i - 1 \in Int /\ 0 * k <= i - 1
      BY <1>1
    <3> HIDE DEF k, v
    <3>2. 0 <= (i - 1) \div k
      BY <1>1, <3>1, QuotientIs
    <3> QED
      BY <3>2
  <2> HIDE DEF q
  <2>6. q < TotalPages
    <3>1. TotalPages <= q => TotalPages * k <= q * k
      BY <1>1, <2>4, Products
    <3>2. TotalPages * k \in Int /\ q * k \in Int
      BY <1>1, <2>4
    <3> QED
      BY <1>1, <2>4, <3>1, <3>2
  <2>7. q \in 0..(TotalPages - 1)
    BY <1>1, <2>4, <2>5, <2>6
  <2>8. q * k < i /\ i <= (q + 1) * k
    <3>1. q * k \in Int /\ (q + 1) * k \in Int
      BY <1>1, <2>4
    <3> QED
      BY <2>4, <3>1
  <2>9. s \in Range(PageItems(q))
    BY <1>1, <2>2, <2>7, <2>8, PageHolds
  <2>10. ASSUME NEW p \in 0..(TotalPages - 1), s \in Range(PageItems(p))
         PROVE  p = q
    <3>1. p * k < i /\ i <= (p + 1) * k
      <4>1. PICK j \in 1..v : p * k < j /\ j <= (p + 1) * k /\ s = ListVisible[j]
        BY <1>1, <2>10, PageHolds
      <4> QED
        BY <2>3, <4>1
    <3>2. p \in Int /\ p * k \in Int /\ (p + 1) * k \in Int
          /\ q * k \in Int /\ (q + 1) * k \in Int
      BY <1>1, <2>4
    <3>3. /\ p + 1 <= q => (p + 1) * k <= q * k
          /\ q + 1 <= p => (q + 1) * k <= p * k
      BY <1>1, <2>4, <3>2, Products
    <3> QED
      BY <2>4, <2>8, <3>1, <3>2, <3>3
  <2>11. {p \in 0..(TotalPages - 1) : s \in Range(PageItems(p))} = {q}
    BY <2>7, <2>9, <2>10
  <2> QED
    BY <2>11, FS_Singleton
<1>3. ASSUME ListVisible # <<>>, NEW p \in offered
      PROVE  PageItems(p) # <<>>
  <2>1. v > 0
    BY <1>1, <1>3, ListVisibleLists
  <2> DEFINE c == Clamp(p)
  <2>2. p \in Int /\ c \in 0..(TotalPages - 1)
    <3>1. p \in Int
      BY <1>1 DEF TypeOK
    <3> QED
      BY <1>1, <3>1, ClampLeads
  <2>3. Clamp(c) = c /\ PageItems(p) = PageItems(c)
    <3>1. Clamp(c) = c
      BY <1>1, <2>2, ClampLeads
    <3> QED
      BY <3>1 DEF PageItems
  <2> HIDE DEF c
  <2> DEFINE i == c * k + 1
  <2>4. i \in 1..v /\ c * k < i /\ i <= (c + 1) * k
    <3>1. c * k <= (TotalPages - 1) * k /\ c * k \in Int /\ (TotalPages - 1) * k \in Int
      BY <1>1, <2>2, Products
    <3>2. 0 * k <= c * k /\ (c + 1) * k = c * k + k
      BY <1>1, <2>2, Products
    <3> QED
      BY <1>1, <2>1, <3>1, <3>2
  <2>5. ListVisible[i] \in Range(PageItems(c))
    BY <1>1, <2>2, <2>4, PageHolds
  <2> HIDE DEF i
  <2>6. Range(<<>>) = {}
    BY DEF Range
  <2> QED
    BY <2>3, <2>5, <2>6
<1> QED
  BY <1>2, <1>3 DEF PagesCover
-----------------------------------------------------------------------------
(* Rounding a monthly equivalent moves twelve of them by at most six.       *)
LEMMA EquivalentsType ==
  ASSUME NEW a \in Nat, NEW p \in Periods
  PROVE  /\ MonthlyEquivalent(a, p) \in Nat /\ YearlyEquivalent(a, p) \in Nat
         /\ 12 * MonthlyEquivalent(a, p) - YearlyEquivalent(a, p) \in -6..6
<1>1. CASE p = "weekly"
  BY <1>1 DEF MonthlyEquivalent, YearlyEquivalent, RoundHalfUp, PerYear
<1>2. CASE p = "monthly"
  BY <1>2 DEF MonthlyEquivalent, YearlyEquivalent, RoundHalfUp, PerYear
<1>3. CASE p = "quarterly"
  BY <1>3 DEF MonthlyEquivalent, YearlyEquivalent, RoundHalfUp, PerYear
<1>4. CASE p = "yearly"
  BY <1>4 DEF MonthlyEquivalent, YearlyEquivalent, RoundHalfUp, PerYear
<1> QED
  BY <1>1, <1>2, <1>3, <1>4 DEF Periods

(* What a subscription in the list contributes to the totals.               *)
LEMMA RowType ==
  ASSUME TypeOK, NEW s \in Subs
  PROVE  /\ s \in Nat /\ subs[s] \in Subscription /\ subs[s].amount \in Nat
         /\ Monthly[s] \in Nat /\ Yearly[s] \in Nat
         /\ 12 * Monthly[s] - Yearly[s] \in -6..6
<1>1. s \in Nat /\ subs[s] \in Subscription
  BY VisibleFinite DEF TypeOK
<1>2. subs[s].amount \in Nat /\ subs[s].period \in Periods
  BY <1>1, ScreensAssumption DEF Subscription
<1>3. /\ Monthly[s] = MonthlyEquivalent(subs[s].amount, subs[s].period)
      /\ Yearly[s] = YearlyEquivalent(subs[s].amount, subs[s].period)
  BY DEF Monthly, Yearly
<1> QED
  BY <1>1, <1>2, <1>3, EquivalentsType

(* list_visible and _active_in_base_currency select alike, because a        *)
(* subscription is either active or cancelled.                              *)
LEMMA SameSelection ==
  ASSUME TypeOK
  PROVE  Summed = ActiveInBaseCurrency /\ Summed \subseteq Subs
BY RowType DEF Summed, ActiveInBaseCurrency, Visible, IsVisible, Subscription

(* Every active subscription has one category, so the categories add up.    *)
LEMMA CategoriesAddUp ==
  ASSUME TypeOK
  PROVE  MonthlyTotal = SumFunction(CategoryTotal)
<1> DEFINE A == ActiveInBaseCurrency
           label == [s \in A |-> subs[s].category]
<1>1. IsFiniteSet(A) /\ A \subseteq Subs /\ MonthlyTotal = SumFunctionOnSet(Monthly, A)
  BY VisibleFinite, SameSelection DEF MonthlyTotal
<1>2. \A s \in A : Monthly[s] \in Int
  BY <1>1, RowType
<1>3. IsFiniteSet(Categories)
  <2>1. label \in Surjection(A, Categories)
    BY DEF Surjection, Categories
  <2> QED
    BY <1>1, <2>1, FS_Surjection
<1>4. \A s \in A : label[s] \in Categories
  BY DEF Categories
<1>5. \A c \in Categories : Labelled(A, label, c) = {s \in A : subs[s].category = c}
  BY DEF Labelled
<1>6. \A c \in Categories : CategoryTotal[c] = SumFunctionOnSet(Monthly, Labelled(A, label, c))
  BY <1>5 DEF CategoryTotal
<1>7. SumFunction(CategoryTotal) = SumFunctionOnSet(CategoryTotal, Categories)
  BY DEF SumFunction, CategoryTotal
<1> HIDE DEF A, label
<1> QED
  BY <1>1, <1>2, <1>3, <1>4, <1>6, <1>7, SumPartition

(* A top list that is not cut off holds every active subscription once.     *)
LEMMA TopAddsUp ==
  ASSUME TypeOK, Len(TopSpending) < 5
  PROVE  MonthlyTotal =
           SumFunction([i \in DOMAIN TopSpending |-> Monthly[TopSpending[i]]])
<1> DEFINE A == ActiveInBaseCurrency
           upTo == [s \in A |-> {t \in A : \/ Monthly[t] > Monthly[s]
                                           \/ Monthly[t] = Monthly[s] /\ t <= s}]
           n == Cardinality(A)
           list == InOrder(A, upTo)
<1>1. IsFiniteSet(A) /\ A \subseteq Subs /\ MonthlyTotal = SumFunctionOnSet(Monthly, A)
  BY VisibleFinite, SameSelection DEF MonthlyTotal
<1>2. \A s \in A : Monthly[s] \in Nat /\ s \in Nat
  BY <1>1, RowType
<1>3. \A s \in A : s \in upTo[s] /\ upTo[s] \subseteq A
  BY <1>2
<1>4. ASSUME NEW s \in A, NEW t \in A, s # t
      PROVE  \/ upTo[s] \subseteq upTo[t] /\ t \notin upTo[s]
             \/ upTo[t] \subseteq upTo[s] /\ s \notin upTo[t]
  <2> DEFINE Ahead(x, y) == Monthly[x] > Monthly[y] \/ (Monthly[x] = Monthly[y] /\ x < y)
  <2>1. ASSUME NEW x \in A, NEW y \in A, Ahead(x, y)
        PROVE  upTo[x] \subseteq upTo[y] /\ y \notin upTo[x]
    BY <1>2, <2>1
  <2>2. Ahead(s, t) \/ Ahead(t, s)
    BY <1>2, <1>4
  <2> HIDE DEF Ahead
  <2>3. CASE Ahead(s, t)
    <3>1. upTo[s] \subseteq upTo[t] /\ t \notin upTo[s]
      BY <2>1, <2>3
    <3> QED
      BY <3>1
  <2>4. CASE Ahead(t, s)
    <3>1. upTo[t] \subseteq upTo[s] /\ s \notin upTo[t]
      BY <2>1, <2>4
    <3> QED
      BY <3>1
  <2> QED
    BY <2>2, <2>3, <2>4
<1>5. TopSpending = SubSeq(list, 1, Min({5, Len(list)}))
  BY DEF TopSpending
<1> HIDE DEF A, upTo
<1>6. n \in Nat /\ list \in Bijection(1..n, A) /\ list \in Seq(A) /\ Len(list) = n
  BY <1>1, <1>3, <1>4, InOrderLists
<1> HIDE DEF list, n
<1>7. n < 5
  <2> SUFFICES ASSUME ~ (n < 5) PROVE FALSE
    OBVIOUS
  <2>1. Min({5, Len(list)}) = 5
    BY <1>6, MinOfTwo
  <2>2. \A i \in 1..5 : list[i] \in A
    BY <1>6
  <2>3. Len(SubSeq(list, 1, 5)) = 5
    BY <2>2, SubSeqProperties
  <2> QED
    BY <1>5, <2>1, <2>3
<1>8. TopSpending = list
  <2>1. Min({5, Len(list)}) = Len(list)
    BY <1>6, <1>7, MinOfTwo
  <2> QED
    BY <1>5, <1>6, <2>1, SubSeqFull
<1> DEFINE h == [i \in DOMAIN list |-> Monthly[list[i]]]
<1>9. DOMAIN list = 1..n /\ IsFiniteSet(1..n)
  BY <1>6, FS_Interval
<1>10. \A i \in 1..n : h[i] = Monthly[list[i]]
  BY <1>9
<1>11. SumFunction(h) = SumFunctionOnSet(h, 1..n)
  BY <1>9 DEF SumFunction
<1>12. \A s \in A : Monthly[s] \in Int
  BY <1>2
<1> HIDE DEF h
<1>13. SumFunctionOnSet(h, 1..n) = SumFunctionOnSet(Monthly, A)
  BY <1>1, <1>6, <1>9, <1>10, <1>12, SumReindexed
<1> QED
  BY <1>1, <1>8, <1>11, <1>13 DEF h

(* The three together.                                                      *)
LEMMA ScreensAgreeInv == TypeOK => ScreensAgree
<1> SUFFICES ASSUME TypeOK PROVE ScreensAgree
  OBVIOUS
<1>1. MonthlyTotal = SumFunction(CategoryTotal)
  BY CategoriesAddUp
<1>2. Len(TopSpending) < 5 => MonthlyTotal =
        SumFunction([i \in DOMAIN TopSpending |-> Monthly[TopSpending[i]]])
  BY TopAddsUp
<1>3. 12 * MonthlyTotal - YearlyTotal
        \in -(6 * Cardinality(Summed))..(6 * Cardinality(Summed))
  <2>1. IsFiniteSet(Summed)
    BY VisibleFinite
  <2>2. \A s \in Summed : /\ Monthly[s] \in Int /\ Yearly[s] \in Int
                          /\ 12 * Monthly[s] - Yearly[s] \in -6..6
    BY SameSelection, RowType
  <2> QED
    BY <2>1, <2>2, YearOfMonths DEF MonthlyTotal, YearlyTotal
<1> QED
  BY <1>1, <1>2, <1>3 DEF ScreensAgree

-----------------------------------------------------------------------------
(* The calendar key (year, month) of a month number.                        *)
KeyOfMonth(m) == [year |-> 2026 + m \div 12, month |-> (m % 12) + 1]

(* Different months have different keys.                                    *)
LEMMA KeyOfMonthInjective ==
  ASSUME NEW m \in Int, NEW n \in Int, KeyOfMonth(m) = KeyOfMonth(n)
  PROVE  m = n
<1>1. KeyOfMonth(m).year = KeyOfMonth(n).year /\ KeyOfMonth(m).month = KeyOfMonth(n).month
  OBVIOUS
<1>2. 2026 + m \div 12 = 2026 + n \div 12 /\ (m % 12) + 1 = (n % 12) + 1
  BY <1>1 DEF KeyOfMonth
<1> QED
  BY <1>2

(* Stepping a key back, over the turn of the year too, is the month before. *)
LEMMA BeforeIsPreviousMonth ==
  ASSUME NEW m \in Int
  PROVE  Before(KeyOfMonth(m)) = KeyOfMonth(m - 1)
<1>1. CASE m % 12 = 0
  <2>1. (m - 1) \div 12 = m \div 12 - 1 /\ (m - 1) % 12 = 11
    BY <1>1
  <2> QED
    BY <1>1, <2>1 DEF Before, KeyOfMonth
<1>2. CASE m % 12 # 0
  <2> DEFINE y == 2026 + m \div 12
             k == (m % 12) + 1
  <2>1. 2026 + (m - 1) \div 12 = y /\ ((m - 1) % 12) + 1 = k - 1
    BY <1>2
  <2>2. k # 1
    BY <1>2
  <2>3. KeyOfMonth(m) = [year |-> y, month |-> k]
    BY DEF KeyOfMonth
  <2>4. KeyOfMonth(m - 1) = [year |-> y, month |-> k - 1]
    BY <2>1 DEF KeyOfMonth
  <2> HIDE DEF y, k
  <2>5. [[year |-> y, month |-> k] EXCEPT !.month = @ - 1] = [year |-> y, month |-> k - 1]
    OBVIOUS
  <2> QED
    BY <2>2, <2>3, <2>4, <2>5 DEF Before
<1> QED
  BY <1>1, <1>2

(* Intervals are finite.                                                    *)
LEMMA IntervalFinite ==
  ASSUME NEW a \in Int, NEW b \in Int
  PROVE  IsFiniteSet(a..b)
BY FS_Interval

(* monthly_trend's keys are those of this month and the five before it.     *)
LEMMA SixMonthKeys ==
  ASSUME NEW m \in Nat, MonthOf(today) = m
  PROVE  /\ MonthKeys = {KeyOfMonth(m - i) : i \in 0..5}
         /\ KeyBack[5] = KeyOfMonth(m - 5)
<1> DEFINE Is(g) == g = [i \in 0..5 |-> IF i = 0 THEN KeyOfDay(today) ELSE Before(g[i - 1])]
           key == [i \in 0..5 |-> KeyOfMonth(m - i)]
           back == KeyBack
<1>1. KeyOfDay(today) = KeyOfMonth(m)
  BY DEF KeyOfDay, KeyOfMonth
<1>2. Is(key)
  <2> DEFINE next == [i \in 0..5 |-> IF i = 0 THEN KeyOfDay(today) ELSE Before(key[i - 1])]
  <2>1. ASSUME NEW i \in 0..5 PROVE key[i] = next[i]
    <3>1. CASE i = 0
      BY <1>1, <3>1
    <3>2. CASE i # 0
      <4>1. i - 1 \in 0..5 /\ m - (i - 1) \in Int /\ (m - (i - 1)) - 1 = m - i
        BY <3>2
      <4>2. Before(KeyOfMonth(m - (i - 1))) = KeyOfMonth(m - i)
        BY <4>1, BeforeIsPreviousMonth
      <4> QED
        BY <3>2, <4>1, <4>2
    <3> QED
      BY <3>1, <3>2
  <2>2. key = next
    BY <2>1
  <2> QED
    BY <2>2
<1>3. MonthKeys = {back[i] : i \in 0..5}
  BY DEF MonthKeys
<1>4. Is(back)
  <2>1. KeyBack = CHOOSE g : Is(g)
    BY DEF KeyBack
  <2> HIDE DEF Is, key
  <2> QED
    BY <1>2, <2>1
<1> HIDE DEF back
<1>5. ASSUME NEW i \in 0..5 PROVE back[i] = KeyOfMonth(m - i)
  <2>1. \A j \in 0..5 : back[j] = IF j = 0 THEN KeyOfDay(today) ELSE Before(back[j - 1])
    BY <1>4
  <2>2. back[0] = KeyOfMonth(m)
    BY <1>1, <2>1
  <2>3. \A j \in 1..5 : back[j - 1] = KeyOfMonth(m - (j - 1)) => back[j] = KeyOfMonth(m - j)
    <3>1. ASSUME NEW j \in 1..5, back[j - 1] = KeyOfMonth(m - (j - 1))
          PROVE  back[j] = KeyOfMonth(m - j)
      <4>1. back[j] = Before(KeyOfMonth(m - (j - 1)))
        BY <2>1, <3>1
      <4>2. m - (j - 1) \in Int /\ (m - (j - 1)) - 1 = m - j
        OBVIOUS
      <4> QED
        BY <4>1, <4>2, BeforeIsPreviousMonth
    <3> QED
      BY <3>1
  <2>4. back[1] = KeyOfMonth(m - 1)
    BY <2>2, <2>3
  <2>5. back[2] = KeyOfMonth(m - 2)
    BY <2>3, <2>4
  <2>6. back[3] = KeyOfMonth(m - 3)
    BY <2>3, <2>5
  <2>7. back[4] = KeyOfMonth(m - 4)
    BY <2>3, <2>6
  <2>8. back[5] = KeyOfMonth(m - 5)
    BY <2>3, <2>7
  <2>9. m - 0 = m
    OBVIOUS
  <2>10. i = 0 \/ i = 1 \/ i = 2 \/ i = 3 \/ i = 4 \/ i = 5
    OBVIOUS
  <2> QED
    BY <2>2, <2>4, <2>5, <2>6, <2>7, <2>8, <2>9, <2>10
<1>6. back[5] = KeyOfMonth(m - 5)
  BY <1>5
<1> QED
  BY <1>3, <1>5, <1>6 DEF back

(* The cutoff of the query leaves out no charge of the six keys.            *)
LEMMA CutoffKeepsTheKeys ==
  ASSUME NEW m \in Nat, MonthOf(today) = m, NEW d \in Nat, m - MonthOf(d) \in 0..5
  PROVE  d >= FirstDayOf(KeyBack[5])
<1> DEFINE n == MonthOf(d)
           k == m - 5
<1>1. /\ n \in Nat /\ MonthStart[n] \in Nat /\ MonthStart[n] <= d
      /\ k \in Int /\ k <= n
  <2>1. n \in Nat /\ MonthStart[n] <= d
    BY MonthOfType
  <2>2. MonthStart[n] \in Nat
    BY <2>1, MonthStartType
  <2>3. m - n \in 0..5
    OBVIOUS
  <2> HIDE DEF n
  <2> QED
    BY <2>1, <2>2, <2>3
<1>2. KeyBack[5] = KeyOfMonth(k)
  BY SixMonthKeys
<1> HIDE DEF n, k
<1>3. 12 * (KeyOfMonth(k).year - 2026) + KeyOfMonth(k).month - 1 = k
  <2>1. 12 * (k \div 12) + (k % 12) = k /\ k \div 12 \in Int /\ k % 12 \in Int
    BY <1>1
  <2> DEFINE year == KeyOfMonth(k).year
             month == KeyOfMonth(k).month
  <2>2. year = 2026 + k \div 12 /\ month = (k % 12) + 1
    BY DEF KeyOfMonth
  <2> HIDE DEF year, month
  <2>3. 12 * (year - 2026) + month - 1 = k
    BY <1>1, <2>1, <2>2
  <2> QED
    BY <2>3 DEF year, month
<1>4. FirstDayOf(KeyBack[5]) = IF k < 0 THEN 0 ELSE MonthStart[k]
  BY <1>2, <1>3 DEF FirstDayOf
<1>5. CASE k < 0
  BY <1>4, <1>5
<1>6. CASE k = n
  BY <1>1, <1>4, <1>6
<1>7. CASE 0 <= k /\ k < n
  <2>1. k \in Nat /\ n \in Nat /\ k < n
    BY <1>1, <1>7
  <2>2. /\ MonthStart[k] \in Nat /\ MonthStart[k + 1] <= MonthStart[n]
        /\ MonthStart[k + 1] = MonthStart[k] + DaysInMonth(k)
    BY <2>1, MonthStartType, MonthStartStep, MonthStartGrows
  <2>3. DaysInMonth(k) \in Nat
    BY DEF DaysInMonth
  <2> QED
    BY <1>1, <1>4, <1>7, <2>2, <2>3
<1> QED
  BY <1>1, <1>5, <1>6, <1>7

(* What a recorded charge is.                                               *)
LEMMA ChargeType ==
  ASSUME TypeOK, NEW c \in DOMAIN charges
  PROVE  /\ charges[c] \in Transaction /\ Amount[c] \in Nat /\ Day[c] = charges[c].day
         /\ Day[c] \in Nat /\ Day[c] <= today /\ today \in Nat
         /\ charges[c].sub \in Subs
<1>1. charges[c] \in Transaction
  BY VisibleFinite DEF TypeOK
<1> QED
  BY <1>1, ScreensAssumption DEF TypeOK, Transaction, Amount, Day

(* The charges of the six keys are those at most five months old, each      *)
(* counted under one key; none lies in the future.                          *)
LEMMA TrendIsCompleteInv == TypeOK => TrendIsComplete
<1> SUFFICES ASSUME TypeOK PROVE TrendIsComplete
  OBVIOUS
<1> DEFINE m == MonthOf(today)
           Recent == {c \in DOMAIN charges : /\ charges[c].currency = Base
                                             /\ m - MonthOf(Day[c]) \in 0..5}
           label == [c \in Recent |-> KeyOfDay(charges[c].day)]
<1>1. m \in Nat
  BY ScreensAssumption, MonthOfType DEF TypeOK
<1>2. MonthKeys = {KeyOfMonth(m - i) : i \in 0..5}
  BY <1>1, SixMonthKeys
<1>3. ASSUME NEW c \in DOMAIN charges
      PROVE  /\ KeyOfDay(charges[c].day) = KeyOfMonth(MonthOf(Day[c]))
             /\ MonthOf(Day[c]) \in Nat
  BY ChargeType, MonthOfType DEF KeyOfDay, KeyOfMonth
<1>4. ASSUME NEW c \in DOMAIN charges
      PROVE  m - MonthOf(Day[c]) \in 0..5 <=> KeyOfDay(charges[c].day) \in MonthKeys
  <2> DEFINE n == MonthOf(Day[c])
  <2>1. n \in Nat /\ KeyOfDay(charges[c].day) = KeyOfMonth(n)
    BY <1>3
  <2> HIDE DEF n, m
  <2>2. ASSUME m - n \in 0..5 PROVE KeyOfMonth(n) \in MonthKeys
    <3>1. m - (m - n) = n
      BY <1>1, <2>1
    <3> QED
      BY <1>2, <2>2, <3>1
  <2>3. ASSUME KeyOfMonth(n) \in MonthKeys PROVE m - n \in 0..5
    <3>1. PICK i \in 0..5 : KeyOfMonth(n) = KeyOfMonth(m - i)
      BY <1>2, <2>3
    <3>2. n = m - i
      BY <1>1, <2>1, <3>1, KeyOfMonthInjective
    <3> QED
      BY <1>1, <3>2
  <2> QED
    BY <2>1, <2>2, <2>3 DEF n
<1>5. IsFiniteSet(Recent) /\ \A c \in Recent : Amount[c] \in Int
  BY VisibleFinite, ChargeType, FS_Subset
<1>6. IsFiniteSet(MonthKeys)
  <2> DEFINE key == [i \in 0..5 |-> KeyOfMonth(m - i)]
  <2>1. key \in Surjection(0..5, MonthKeys)
    BY <1>2 DEF Surjection
  <2>2. \A a, b \in Int : IsFiniteSet(a..b)
    BY IntervalFinite
  <2>3. 0 \in Int /\ 5 \in Int
    OBVIOUS
  <2>4. IsFiniteSet(0..5)
    BY <2>2, <2>3, Zenon
  <2> HIDE DEF key
  <2> QED
    BY <2>1, <2>4, FS_Surjection
<1>7. \A c \in Recent : label[c] \in MonthKeys
  BY <1>4
<1>8. ASSUME NEW key \in MonthKeys
      PROVE  Trend[key] = SumFunctionOnSet(Amount, Labelled(Recent, label, key))
  <2>1. Labelled(Recent, label, key)
          = {c \in DOMAIN charges : /\ charges[c].currency = Base
                                    /\ KeyOfDay(charges[c].day) = key}
    BY <1>4 DEF Labelled
  <2>2. \A c \in DOMAIN charges :
          KeyOfDay(charges[c].day) = key => c \in ListByUserSince
    <3> SUFFICES ASSUME NEW c \in DOMAIN charges, KeyOfDay(charges[c].day) = key
                 PROVE  c \in ListByUserSince
      OBVIOUS
    <3>1. m - MonthOf(Day[c]) \in 0..5 /\ Day[c] \in Nat /\ Day[c] = charges[c].day
      BY <1>4, ChargeType
    <3>2. Day[c] >= FirstDayOf(KeyBack[5])
      BY <1>1, <3>1, CutoffKeepsTheKeys
    <3> QED
      BY <3>1, <3>2 DEF ListByUserSince
  <2>3. {c \in DOMAIN charges : charges[c].currency = Base /\ KeyOfDay(charges[c].day) = key}
          = {c \in ListByUserSince : charges[c].currency = Base /\ KeyOfDay(charges[c].day) = key}
    BY <2>2 DEF ListByUserSince
  <2> QED
    BY <2>1, <2>3 DEF Trend
<1>9. SumFunction(Trend) = SumFunctionOnSet(Trend, MonthKeys)
  BY DEF SumFunction, Trend
<1> HIDE DEF label, Recent
<1>10. SumFunctionOnSet(Trend, MonthKeys) = SumFunctionOnSet(Amount, Recent)
  BY <1>5, <1>6, <1>7, <1>8, SumPartition
<1> QED
  BY <1>9, <1>10 DEF TrendIsComplete, Recent, m
-----------------------------------------------------------------------------
(* The latest charge is one of them, and none is later.                     *)
LEMMA LastChargeIs ==
  ASSUME TypeOK, NEW s \in Subs, ChargesOf(s) # {}
  PROVE  \E c \in ChargesOf(s) :
           LastCharge(s) = Day[c] /\ \A d \in ChargesOf(s) : Day[d] <= Day[c]
<1> DEFINE S == ChargesOf(s)
           ago == {today - Day[c] : c \in S}
<1>1. \A c \in S : Day[c] \in Nat /\ Day[c] <= today /\ today \in Nat
  BY ChargeType DEF ChargesOf
<1>2. ago \in SUBSET Nat /\ ago # {}
  BY <1>1
<1>3. PICK c \in S : Min(ago) = today - Day[c]
  BY <1>2, MinIsLeast
<1>4. \A d \in S : today - Day[c] <= today - Day[d]
  BY <1>2, <1>3, MinIsLeast
<1>5. \A d \in S : Day[d] <= Day[c]
  BY <1>1, <1>4
<1>6. LastCharge(s) \in {Day[d] : d \in S} /\ \A d \in S : Day[d] <= LastCharge(s)
  BY <1>5 DEF LastCharge, LastDay
<1> QED
  BY <1>6

(* Two calls of add_period end in the month two periods after the latest    *)
(* charge; a day after that is in that month or later, a day in a later     *)
(* month is after that.  The latest charge exists by IInv.                  *)
LEMMA DormantMeansSilentInv == IInv => DormantMeansSilent
<1> SUFFICES ASSUME IInv, NEW s \in Subs, subs[s].email, subs[s].period # "weekly"
             PROVE  LET latest == MonthOf(today) - 2 * MonthsPerPeriod[subs[s].period] IN
                    /\ s \in FindDormant => \A c \in ChargesOf(s) : MonthOf(Day[c]) <= latest
                    /\ (subs[s].status = "active" /\ subs[s].recurring
                         /\ \A c \in ChargesOf(s) : MonthOf(Day[c]) < latest)
                         => s \in FindDormant
  BY DEF DormantMeansSilent
<1> DEFINE p == subs[s].period
           k == MonthsPerPeriod[p]
           last == LastCharge(s)
           due == CalendarAddPeriod(CalendarAddPeriod(last, p), p)
<1>1. TypeOK /\ ChargesOf(s) # {}
  BY DEF IInv
<1>2. p \in {"monthly", "quarterly", "yearly"}
  BY <1>1, RowType DEF Subscription, Periods
<1>3. k \in Nat
  BY <1>2 DEF MonthsPerPeriod
<1>4. PICK c \in ChargesOf(s) : last = Day[c] /\ \A d \in ChargesOf(s) : Day[d] <= Day[c]
  BY <1>1, LastChargeIs
<1>5. \A d \in ChargesOf(s) : Day[d] \in Nat /\ today \in Nat /\ MonthOf(Day[d]) \in Nat
  BY <1>1, ChargeType, MonthOfType DEF ChargesOf
<1>6. \A d \in ChargesOf(s) : MonthOf(Day[d]) <= MonthOf(last)
  BY <1>4, <1>5, MonthOfMonotone
<1>7. today \in Nat /\ MonthOf(today) \in Nat /\ last \in Nat /\ MonthOf(last) \in Nat
  BY <1>4, <1>5, MonthOfType
<1>8. due \in Nat /\ MonthOf(due) = MonthOf(last) + 2 * k
  <2> DEFINE once == CalendarAddPeriod(last, p)
  <2> HIDE DEF p, last
  <2>1. once \in Nat /\ MonthOf(once) = MonthOf(last) + k
    BY <1>2, <1>7, AddPeriodKeepsTheDay
  <2> HIDE DEF once
  <2>2. /\ CalendarAddPeriod(once, p) \in Nat
        /\ MonthOf(CalendarAddPeriod(once, p)) = MonthOf(once) + k
    BY <1>2, <2>1, AddPeriodKeepsTheDay
  <2>3. due = CalendarAddPeriod(once, p)
    BY DEF once
  <2> QED
    BY <1>3, <1>7, <2>1, <2>2, <2>3
<1>9. s \in FindDormant <=> /\ subs[s].status = "active" /\ subs[s].recurring
                            /\ today > due
  BY <1>1 DEF FindDormant
<1> HIDE DEF due, last, k, p
<1>10. ASSUME s \in FindDormant
       PROVE  \A d \in ChargesOf(s) : MonthOf(Day[d]) <= MonthOf(today) - 2 * k
  <2>1. due <= today
    BY <1>7, <1>8, <1>9, <1>10
  <2>2. MonthOf(due) <= MonthOf(today)
    BY <1>7, <1>8, <2>1, MonthOfMonotone
  <2> QED
    BY <1>3, <1>5, <1>6, <1>7, <1>8, <2>2
<1>11. ASSUME subs[s].status = "active", subs[s].recurring,
              \A d \in ChargesOf(s) : MonthOf(Day[d]) < MonthOf(today) - 2 * k
       PROVE  s \in FindDormant
  <2>1. MonthOf(last) < MonthOf(today) - 2 * k
    BY <1>4, <1>11
  <2>2. MonthOf(due) < MonthOf(today)
    BY <1>3, <1>7, <1>8, <2>1
  <2>3. ~ (today <= due)
    <3> SUFFICES ASSUME today <= due PROVE FALSE
      OBVIOUS
    <3>1. MonthOf(today) <= MonthOf(due)
      BY <1>7, <1>8, MonthOfMonotone
    <3>2. MonthOf(due) \in Nat
      BY <1>3, <1>7, <1>8
    <3> QED
      BY <1>7, <2>2, <3>1, <3>2
  <2> QED
    BY <1>7, <1>8, <1>9, <1>11, <2>3
<1> QED
  BY <1>10, <1>11 DEF k, p

-----------------------------------------------------------------------------
(* Initially there is nothing.                                              *)
LEMMA InitInv == Init => IInv
<1> SUFFICES ASSUME Init PROVE IInv
  OBVIOUS
<1>1. /\ subs \in Seq(Subscription) /\ Len(subs) = 0 /\ Subs = {}
      /\ charges \in Seq(Transaction) /\ Len(charges) = 0 /\ DOMAIN charges = {}
  BY DEF Init, Subs
<1> QED
  BY <1>1, ScreensAssumption DEF Init, IInv, TypeOK

(* infer_period answers one of the four periods.                            *)
LEMMA InferPeriodType ==
  ASSUME NEW day, NEW S
  PROVE  InferPeriod(day, S) \in Periods
BY DEF InferPeriod, Periods

(* What the history changes on a row leaves a row, of the same origin.      *)
LEMMA RefinedType ==
  ASSUME NEW r \in Subscription, NEW s, NEW history
  PROVE  Refined(r, s, history) \in Subscription /\ Refined(r, s, history).email = r.email
<1> DEFINE own == {c \in DOMAIN history : history[c].sub = s}
           day == [c \in DOMAIN history |-> history[c].day]
           amount == [c \in DOMAIN history |-> history[c].amount]
           p == IF Cardinality(own) < 2 THEN r.period ELSE InferPeriod(day, own)
           f == r.recurring /\ (Cardinality(own) >= 3 => ~LooksOneOff(day, amount, own))
<1>1. p \in Periods
  BY InferPeriodType DEF Subscription
<1>2. f \in BOOLEAN
  OBVIOUS
<1>3. Refined(r, s, history) = [r EXCEPT !.period = p, !.recurring = f]
  BY DEF Refined
<1> HIDE DEF p, f
<1> QED
  BY <1>1, <1>2, <1>3 DEF Subscription

(* What a row may become: the same subscription, with another content.      *)
LEMMA RowChanges ==
  ASSUME TypeOK, NEW s \in Subs, NEW r \in Subscription, Put(s, r)
  PROVE  /\ subs' \in Seq(Subscription) /\ Len(subs') = Len(subs) /\ Subs' = Subs
         /\ subs'[s] = r /\ \A t \in Subs : t # s => subs'[t] = subs[t]
<1>1. /\ subs' = [subs EXCEPT ![s] = r] /\ subs \in Seq(Subscription)
      /\ s \in 1..Len(subs) /\ Subs = 1..Len(subs)
  BY VisibleFinite DEF Put, TypeOK
<1>2. subs' \in Seq(Subscription) /\ Len(subs') = Len(subs)
  BY <1>1
<1>3. DOMAIN subs' = DOMAIN subs
  BY <1>1
<1>4. subs'[s] = r /\ \A t \in 1..Len(subs) : t # s => subs'[t] = subs[t]
  BY <1>1
<1> QED
  BY <1>1, <1>2, <1>3, <1>4 DEF Subs

(* A row appended to the list changes no other.                             *)
LEMMA RowAdded ==
  ASSUME TypeOK, NEW r \in Subscription, subs' = Append(subs, r)
  PROVE  /\ subs' \in Seq(Subscription) /\ Len(subs') = Len(subs) + 1
         /\ Subs' = Subs \cup {Len(subs) + 1} /\ Len(subs) + 1 \notin Subs
         /\ subs'[Len(subs) + 1] = r /\ \A t \in Subs : subs'[t] = subs[t]
<1>1. /\ subs \in Seq(Subscription) /\ Len(subs) \in Nat /\ Subs = 1..Len(subs)
  BY VisibleFinite DEF TypeOK
<1>2. /\ subs' \in Seq(Subscription) /\ Len(subs') = Len(subs) + 1
      /\ subs'[Len(subs) + 1] = r /\ \A t \in 1..Len(subs) : subs'[t] = subs[t]
  BY <1>1, AppendProperties
<1>3. DOMAIN subs' = 1..(Len(subs) + 1)
  BY <1>2
<1> QED
  BY <1>1, <1>2, <1>3 DEF Subs

(* Changing a row, but not its origin, keeps the invariant.                 *)
LEMMA EditKeepsInv ==
  ASSUME IInv, NEW s \in Subs, NEW r \in Subscription, r.email = subs[s].email,
         Put(s, r), UNCHANGED <<today, charges, offered>>
  PROVE  IInv'
<1>1. TypeOK
  BY DEF IInv
<1>2. /\ subs' \in Seq(Subscription) /\ Len(subs') = Len(subs) /\ Subs' = Subs
      /\ subs'[s] = r /\ \A t \in Subs : t # s => subs'[t] = subs[t]
  BY <1>1, RowChanges
<1>3. TypeOK'
  BY <1>1, <1>2 DEF TypeOK
<1>4. \A t \in Subs : subs'[t].email = subs[t].email /\ ChargesOf(t)' = ChargesOf(t)
  BY <1>2 DEF ChargesOf
<1> QED
  BY <1>2, <1>3, <1>4 DEF IInv

(* A subscription entered by hand has no charge to show.                    *)
LEMMA CreateKeepsInv == IInv /\ Create => IInv'
<1> SUFFICES ASSUME IInv, Create PROVE IInv'
  OBVIOUS
<1>1. TypeOK
  BY DEF IInv
<1>2. PICK a \in Amounts, cur \in Currencies, p \in Stated :
        /\ Len(subs) < MaxSubs
        /\ subs' = Append(subs, [period |-> p, status |-> "active", amount |-> a,
                           currency |-> cur, email |-> FALSE, recurring |-> TRUE,
                           sender |-> "none", category |-> "other"])
        /\ UNCHANGED <<today, charges, offered>>
  BY DEF Create
<1> DEFINE r == [period |-> p, status |-> "active", amount |-> a,
                 currency |-> cur, email |-> FALSE, recurring |-> TRUE,
                 sender |-> "none", category |-> "other"]
           n == Len(subs) + 1
<1>3. r \in Subscription /\ ~ r.email
  BY ScreensAssumption DEF Subscription
<1>4. subs' = Append(subs, r)
  BY <1>2
<1> HIDE DEF r
<1>5. /\ subs' \in Seq(Subscription) /\ Len(subs') = Len(subs) + 1
      /\ Subs' = Subs \cup {n} /\ subs'[n] = r /\ \A t \in Subs : subs'[t] = subs[t]
  BY <1>1, <1>3, <1>4, RowAdded
<1>6. Len(subs') <= MaxSubs
  BY <1>2, <1>5, VisibleFinite, <1>1, ScreensAssumption
<1>7. TypeOK'
  BY <1>1, <1>2, <1>5, <1>6 DEF TypeOK
<1>8. \A t \in Subs : ChargesOf(t)' = ChargesOf(t)
  BY <1>2 DEF ChargesOf
<1> QED
  BY <1>3, <1>5, <1>7, <1>8 DEF IInv

(* A receipt's new subscription comes with the charge it was found by.      *)
LEMMA ReceiptKeepsInv == IInv /\ Receipt => IInv'
<1> SUFFICES ASSUME IInv, Receipt PROVE IInv'
  OBVIOUS
<1>1. TypeOK
  BY DEF IInv
<1>2. PICK k \in Senders, d \in Days, a \in Amounts, cur \in Currencies, p \in Stated :
        LET known == {s \in Subs : subs[s].email /\ subs[s].sender = k}
            s == IF known = {} THEN Len(subs) + 1 ELSE Min(known)
            charge == [sub |-> s, day |-> d, amount |-> a, currency |-> cur]
        IN
        /\ Len(charges) < MaxCharges /\ d <= today
        /\ charges' = Append(charges, charge)
        /\ \/ /\ known = {} /\ Len(subs) < MaxSubs
              /\ subs' = Append(subs, [period |-> p, status |-> "active", amount |-> a,
                                       currency |-> cur, email |-> TRUE, recurring |-> TRUE,
                                       sender |-> k, category |-> CategoryOf[k]])
           \/ known # {} /\ Put(s, Refined(subs[s], s, charges'))
        /\ UNCHANGED <<today, offered>>
  BY DEF Receipt
<1> DEFINE known == {s \in Subs : subs[s].email /\ subs[s].sender = k}
           s == IF known = {} THEN Len(subs) + 1 ELSE Min(known)
           charge == [sub |-> s, day |-> d, amount |-> a, currency |-> cur]
           new == [period |-> p, status |-> "active", amount |-> a,
                   currency |-> cur, email |-> TRUE, recurring |-> TRUE,
                   sender |-> k, category |-> CategoryOf[k]]
           n == Len(charges) + 1
<1>3. /\ Len(charges) < MaxCharges /\ d <= today /\ charges' = Append(charges, charge)
      /\ UNCHANGED <<today, offered>>
      /\ \/ known = {} /\ Len(subs) < MaxSubs /\ subs' = Append(subs, new)
         \/ known # {} /\ Put(s, Refined(subs[s], s, charges'))
  BY <1>2
<1>4. new \in Subscription
  BY ScreensAssumption DEF Subscription
<1>5. known # {} => s \in Subs
  <2>1. known \in SUBSET Nat /\ known \subseteq Subs
    BY <1>1, VisibleFinite
  <2> QED
    BY <2>1, MinIsLeast
<1>6. s \in Nat /\ charge \in Transaction
  <2>1. s \in Nat
    BY <1>1, <1>5, VisibleFinite
  <2> QED
    BY <2>1 DEF Transaction
<1>7. charge.sub = s /\ charge.day = d
  OBVIOUS
<1> HIDE DEF new, charge, s, known
<1>8. /\ charges' \in Seq(Transaction) /\ Len(charges') = n /\ DOMAIN charges' = 1..n
      /\ Len(charges) \in Nat /\ DOMAIN charges = 1..Len(charges)
      /\ charges'[n] = charge /\ \A c \in DOMAIN charges : charges'[c] = charges[c]
  <2>1. charges \in Seq(Transaction) /\ DOMAIN charges = 1..Len(charges) /\ Len(charges) \in Nat
    BY <1>1, VisibleFinite DEF TypeOK
  <2>2. /\ charges' \in Seq(Transaction) /\ Len(charges') = n
        /\ charges'[n] = charge /\ \A c \in 1..Len(charges) : charges'[c] = charges[c]
    BY <1>3, <1>6, <2>1, AppendProperties
  <2>3. DOMAIN charges' = 1..n
    BY <2>2
  <2> QED
    BY <2>1, <2>2, <2>3
<1>9. /\ subs' \in Seq(Subscription) /\ Len(subs') <= MaxSubs
      /\ Subs' = Subs \cup {s}
      /\ \A t \in Subs : subs'[t].email = subs[t].email
  <2>1. CASE known = {} /\ Len(subs) < MaxSubs /\ subs' = Append(subs, new)
    <3>1. /\ subs' \in Seq(Subscription) /\ Len(subs') = Len(subs) + 1
          /\ Subs' = Subs \cup {Len(subs) + 1} /\ \A t \in Subs : subs'[t] = subs[t]
      BY <1>1, <1>4, <2>1, RowAdded
    <3>2. s = Len(subs) + 1
      BY <2>1 DEF s
    <3>3. Len(subs') <= MaxSubs
      BY <1>1, <2>1, <3>1, VisibleFinite, ScreensAssumption
    <3> QED
      BY <3>1, <3>2, <3>3
  <2>2. CASE known # {} /\ Put(s, Refined(subs[s], s, charges'))
    <3> DEFINE r == Refined(subs[s], s, charges')
    <3>1. s \in Subs /\ subs[s] \in Subscription
      BY <1>1, <1>5, <2>2, RowType
    <3>2. r \in Subscription /\ r.email = subs[s].email
      BY <3>1, RefinedType
    <3> HIDE DEF r
    <3>3. Put(s, r)
      BY <2>2 DEF r
    <3>4. /\ subs' \in Seq(Subscription) /\ Len(subs') = Len(subs) /\ Subs' = Subs
          /\ subs'[s] = r /\ \A t \in Subs : t # s => subs'[t] = subs[t]
      BY <1>1, <3>1, <3>2, <3>3, RowChanges
    <3>5. \A t \in Subs : subs'[t].email = subs[t].email
      BY <3>2, <3>4
    <3>6. Len(subs') <= MaxSubs
      BY <1>1, <3>4 DEF TypeOK
    <3> QED
      BY <3>1, <3>4, <3>5, <3>6
  <2> QED
    BY <1>3, <2>1, <2>2
<1>10. \A c \in DOMAIN charges' : charges'[c].sub \in Subs' /\ charges'[c].day <= today'
  <2>1. \A c \in DOMAIN charges' : c = n \/ c \in DOMAIN charges
    BY <1>8
  <2>2. charges'[n].sub \in Subs' /\ charges'[n].day <= today'
    BY <1>3, <1>7, <1>8, <1>9
  <2>3. \A c \in DOMAIN charges : charges[c].sub \in Subs /\ charges[c].day <= today
    BY <1>1 DEF TypeOK
  <2> QED
    BY <1>3, <1>8, <1>9, <2>1, <2>2, <2>3
<1>11. TypeOK'
  <2>1. Len(charges') <= MaxCharges
    BY <1>3, <1>8, ScreensAssumption
  <2> QED
    BY <1>1, <1>3, <1>8, <1>9, <1>10, <2>1 DEF TypeOK
<1>12. \A t \in Subs : ChargesOf(t) \subseteq ChargesOf(t)'
  BY <1>8 DEF ChargesOf
<1>13. ASSUME NEW t, t = s
       PROVE  n \in ChargesOf(t)'
  BY <1>7, <1>8, <1>13 DEF ChargesOf
<1>14. ASSUME NEW t \in Subs', subs'[t].email
       PROVE  ChargesOf(t)' # {}
  <2>1. CASE t = s
    BY <1>13, <2>1
  <2>2. CASE t # s
    <3>1. t \in Subs /\ subs[t].email
      BY <1>9, <1>14, <2>2
    <3> QED
      BY <1>12, <3>1 DEF IInv
  <2> QED
    BY <2>1, <2>2
<1> QED
  BY <1>11, <1>14 DEF IInv

(* Edits from the chat.                                                     *)
LEMMA RepriceKeepsInv == IInv /\ Reprice => IInv'
<1> SUFFICES ASSUME IInv, NEW s \in Subs, NEW a \in Amounts, NEW cur \in Currencies,
                    Put(s, [subs[s] EXCEPT !.amount = a, !.currency = cur]),
                    UNCHANGED <<today, charges, offered>>
             PROVE  IInv'
  BY DEF Reprice
<1> DEFINE r == [subs[s] EXCEPT !.amount = a, !.currency = cur]
<1>1. subs[s] \in Subscription
  BY RowType DEF IInv
<1>2. r \in Subscription /\ r.email = subs[s].email
  BY <1>1 DEF Subscription
<1> HIDE DEF r
<1>3. Put(s, r)
  BY DEF r
<1> QED
  BY <1>2, <1>3, EditKeepsInv

LEMMA CancelKeepsInv == IInv /\ Cancel => IInv'
<1> SUFFICES ASSUME IInv, NEW s \in Subs,
                    Put(s, [subs[s] EXCEPT !.status = "cancelled"]),
                    UNCHANGED <<today, charges, offered>>
             PROVE  IInv'
  BY DEF Cancel
<1> DEFINE r == [subs[s] EXCEPT !.status = "cancelled"]
<1>1. subs[s] \in Subscription
  BY RowType DEF IInv
<1>2. r \in Subscription /\ r.email = subs[s].email
  BY <1>1 DEF Subscription
<1> HIDE DEF r
<1>3. Put(s, r)
  BY DEF r
<1> QED
  BY <1>2, <1>3, EditKeepsInv

(* A button leads to a page that some list of MaxSubs entries has.          *)
LEMMA ButtonsLeadToPages ==
  ASSUME TypeOK, NEW page \in 0..(TotalPages - 1)
  PROVE  NavRow(page) \subseteq 0..((MaxSubs - 1) \div PageSize)
<1>1. /\ TotalPages \in Nat /\ TotalPages >= 1
      /\ TotalPages - 1 > 0 => TotalPages - 1 <= (MaxSubs - 1) \div PageSize
  BY PagesCount
<1> DEFINE l == (MaxSubs - 1) \div PageSize
<1>2. l \in Int
  BY ScreensAssumption, Quotient
<1> HIDE DEF l
<1>3. ASSUME NEW p \in NavRow(page) PROVE p \in 0..l
  <2>1. p \in Int /\ 0 <= p /\ p < TotalPages /\ (p = page - 1 \/ p = page + 1)
    BY DEF NavRow
  <2>2. TotalPages - 1 > 0
    BY <1>1, <2>1
  <2>3. TotalPages - 1 <= l
    BY <1>1, <2>2 DEF l
  <2> QED
    BY <1>1, <1>2, <2>1, <2>3
<1> QED
  BY <1>3 DEF l

(* The two ways a list is shown.                                            *)
LEMMA ButtonsKeepInv ==
  ASSUME IInv, NEW page \in 0..(TotalPages - 1),
         offered' = offered \cup NavRow(page), UNCHANGED <<today, subs, charges>>
  PROVE  IInv'
<1>1. TypeOK
  BY DEF IInv
<1>2. offered' \subseteq 0..((MaxSubs - 1) \div PageSize)
  BY <1>1, ButtonsLeadToPages DEF TypeOK
<1>3. TypeOK'
  BY <1>1, <1>2 DEF TypeOK, Subs
<1> QED
  BY <1>3 DEF IInv, Subs, ChargesOf

(* No charge gets into the future as days pass.                             *)
LEMMA NextDayKeepsInv == IInv /\ NextDay => IInv'
<1> SUFFICES ASSUME IInv, NextDay PROVE IInv'
  OBVIOUS
<1> DEFINE later == {d \in Days : today < d}
<1>1. /\ TypeOK /\ later # {} /\ today' = Min(later)
      /\ UNCHANGED <<subs, charges, offered>>
  BY DEF IInv, NextDay
<1>2. today' \in Days /\ today < today' /\ today \in Nat /\ today' \in Nat
  <2>1. later \in SUBSET Nat
    BY ScreensAssumption
  <2> HIDE DEF later
  <2>2. today' \in later
    BY <1>1, <2>1, MinIsLeast
  <2> QED
    BY <1>1, <2>2, ScreensAssumption DEF later, TypeOK
<1>3. \A c \in DOMAIN charges : charges[c].day <= today'
  <2>1. \A c \in DOMAIN charges : charges[c].day \in Nat /\ charges[c].day <= today
    BY <1>1, ChargeType
  <2> QED
    BY <1>2, <2>1
<1>4. TypeOK'
  BY <1>1, <1>2, <1>3 DEF TypeOK, Subs
<1> QED
  BY <1>1, <1>4 DEF IInv, Subs, ChargesOf

(* Every step keeps the invariant.                                          *)
LEMMA NextInv == IInv /\ [Next]_vars => IInv'
<1> SUFFICES ASSUME IInv, [Next]_vars PROVE IInv'
  OBVIOUS
<1>1. CASE Create
  BY <1>1, CreateKeepsInv
<1>2. CASE Receipt
  BY <1>2, ReceiptKeepsInv
<1>3. CASE Reprice
  BY <1>3, RepriceKeepsInv
<1>4. CASE Cancel
  BY <1>4, CancelKeepsInv
<1>5. CASE OpenList
  <2>1. 0 \in 0..(TotalPages - 1)
    BY PagesCount DEF IInv
  <2> QED
    BY <1>5, <2>1, ButtonsKeepInv DEF OpenList
<1>6. CASE Paginate
  <2>1. PICK p \in offered : /\ offered' = offered \cup NavRow(Clamp(p))
                             /\ UNCHANGED <<today, subs, charges>>
    BY <1>6 DEF Paginate
  <2>2. Clamp(p) \in 0..(TotalPages - 1)
    <3>1. p \in Int /\ TypeOK
      BY DEF IInv, TypeOK
    <3> QED
      BY <3>1, ClampLeads
  <2> QED
    BY <2>1, <2>2, ButtonsKeepInv
<1>7. CASE NextDay
  BY <1>7, NextDayKeepsInv
<1>8. CASE UNCHANGED vars
  BY <1>8 DEF vars, IInv, TypeOK, Subs, ChargesOf
<1> QED
  BY <1>1, <1>2, <1>3, <1>4, <1>5, <1>6, <1>7, <1>8 DEF Next

(* So it always holds.                                                      *)
LEMMA SpecInv == Spec => []IInv
BY InitInv, NextInv, PTL DEF Spec

(* Every variable has its type, and every button in the chat was made for a *)
(* page that MaxSubs subscriptions can fill.                                *)
THEOREM TypesHold == Spec => []TypeOK
<1>1. IInv => TypeOK
  BY DEF IInv
<1> QED
  BY <1>1, SpecInv, PTL

(* subscriptions_list_keyboard: the pages show every visible subscription   *)
(* exactly once, and a button of an outdated list leads to a page with      *)
(* something on it, for every page size and number of subscriptions.        *)
THEOREM PagesAlwaysCover == Spec => []PagesCover
BY PagesCoverInv, SpecInv, PTL

(* monthly_total, category_breakdown and top_spending add up to the same    *)
(* sum, and yearly_total is twelve of them up to the roundings, for all     *)
(* amounts, periods and histories of edits.                                 *)
THEOREM ScreensAlwaysAgree == Spec => []ScreensAgree
<1>1. IInv => ScreensAgree
  BY ScreensAgreeInv DEF IInv
<1> QED
  BY <1>1, SpecInv, PTL

(* monthly_trend counts every charge of the last six months and no other,   *)
(* whatever the dates of the charges and in whatever order they came.       *)
THEOREM TrendAlwaysComplete == Spec => []TrendIsComplete
<1>1. IInv => TrendIsComplete
  BY TrendIsCompleteInv DEF IInv
<1> QED
  BY <1>1, SpecInv, PTL

(* find_dormant: a subscription sleeps only if no charge of it is of the    *)
(* last two periods, and it does sleep when they all are a month older.     *)
THEOREM DormantAlwaysSilent == Spec => []DormantMeansSilent
BY DormantMeansSilentInv, SpecInv, PTL
-----------------------------------------------------------------------------
(* Sums of a constant, of sums and of multiples.                            *)
LEMMA SumConstant ==
  ASSUME NEW S, IsFiniteSet(S), NEW a \in Int, NEW f, \A x \in S : f[x] = a
  PROVE  SumFunctionOnSet(f, S) = Cardinality(S) * a
<1> DEFINE Good(T) == SumFunctionOnSet(f, T) = Cardinality(T) * a
           Bad == {T \in SUBSET S : ~ Good(T)}
<1>1. SUFFICES ASSUME Bad # {} PROVE FALSE
  OBVIOUS
<1>2. PICK T \in Bad : T \subseteq S /\ IsFiniteSet(T) /\ \A x \in T : T \ {x} \notin Bad
  <2>1. Bad \in SUBSET SUBSET S
    OBVIOUS
  <2> HIDE DEF Bad
  <2> QED
    BY <1>1, <2>1, SmallestSet
<1>3. T # {}
  <2> SUFFICES ASSUME T = {} PROVE FALSE
    OBVIOUS
  <2>1. SumFunctionOnSet(f, T) = 0 /\ Cardinality(T) = 0
    BY SumEmpty, FS_EmptySet
  <2>2. Good(T)
    BY <2>1
  <2> QED
    BY <2>2
<1>4. PICK x \in T : TRUE
  BY <1>3
<1> DEFINE U == T \ {x}
           n == Cardinality(U)
<1>5. IsFiniteSet(U) /\ n \in Nat /\ Cardinality(T) = n + 1
  <2>1. IsFiniteSet(U) /\ Cardinality(U) = Cardinality(T) - 1
    BY <1>2, <1>4, FS_RemoveElement
  <2> QED
    BY <1>2, <2>1, FS_CardinalityType
<1>6. f[x] = a /\ \A y \in T : f[y] \in Int
  BY <1>2
<1>7. SumFunctionOnSet(f, T) = f[x] + SumFunctionOnSet(f, U)
  BY <1>2, <1>6, SumRemove
<1>8. SumFunctionOnSet(f, U) = n * a
  BY <1>2
<1> HIDE DEF n, U
<1>9. a + n * a = (n + 1) * a
  BY <1>5
<1>10. Good(T)
  BY <1>5, <1>6, <1>7, <1>8, <1>9
<1> QED
  BY <1>10

LEMMA SumPlus ==
  ASSUME NEW S, IsFiniteSet(S), NEW f, NEW g, NEW h,
         \A x \in S : f[x] \in Int /\ g[x] \in Int /\ h[x] = f[x] + g[x]
  PROVE  SumFunctionOnSet(h, S) = SumFunctionOnSet(f, S) + SumFunctionOnSet(g, S)
<1> DEFINE Good(T) == SumFunctionOnSet(h, T) = SumFunctionOnSet(f, T) + SumFunctionOnSet(g, T)
           Bad == {T \in SUBSET S : ~ Good(T)}
<1>1. SUFFICES ASSUME Bad # {} PROVE FALSE
  OBVIOUS
<1>2. PICK T \in Bad : T \subseteq S /\ IsFiniteSet(T) /\ \A x \in T : T \ {x} \notin Bad
  <2>1. Bad \in SUBSET SUBSET S
    OBVIOUS
  <2> HIDE DEF Bad
  <2> QED
    BY <1>1, <2>1, SmallestSet
<1>3. T # {}
  <2> SUFFICES ASSUME T = {} PROVE FALSE
    OBVIOUS
  <2>1. \A e \in {f, g, h} : SumFunctionOnSet(e, T) = 0
    BY SumEmpty
  <2>2. Good(T)
    BY <2>1
  <2> QED
    BY <2>2
<1>4. PICK x \in T : TRUE
  BY <1>3
<1> DEFINE U == T \ {x}
           sf == SumFunctionOnSet(f, U)
           sg == SumFunctionOnSet(g, U)
<1>5. IsFiniteSet(U) /\ \A y \in T : f[y] \in Int /\ g[y] \in Int /\ h[y] \in Int
  BY <1>2, FS_Subset
<1>6. /\ SumFunctionOnSet(f, T) = f[x] + sf /\ SumFunctionOnSet(g, T) = g[x] + sg
      /\ SumFunctionOnSet(h, T) = h[x] + SumFunctionOnSet(h, U)
  BY <1>2, <1>5, SumRemove
<1>7. sf \in Int /\ sg \in Int
  BY <1>5, SumType
<1>8. SumFunctionOnSet(h, U) = sf + sg /\ h[x] = f[x] + g[x]
  BY <1>2
<1>9. f[x] \in Int /\ g[x] \in Int
  BY <1>5
<1> HIDE DEF sf, sg, U
<1>10. (f[x] + g[x]) + (sf + sg) = (f[x] + sf) + (g[x] + sg)
  BY <1>7, <1>9
<1>11. Good(T)
  BY <1>6, <1>8, <1>10
<1> QED
  BY <1>11

LEMMA SumTimes ==
  ASSUME NEW S, IsFiniteSet(S), NEW k \in Int, NEW f, NEW h,
         \A x \in S : f[x] \in Int /\ h[x] = k * f[x]
  PROVE  SumFunctionOnSet(h, S) = k * SumFunctionOnSet(f, S)
<1> DEFINE Good(T) == SumFunctionOnSet(h, T) = k * SumFunctionOnSet(f, T)
           Bad == {T \in SUBSET S : ~ Good(T)}
<1>1. SUFFICES ASSUME Bad # {} PROVE FALSE
  OBVIOUS
<1>2. PICK T \in Bad : T \subseteq S /\ IsFiniteSet(T) /\ \A x \in T : T \ {x} \notin Bad
  <2>1. Bad \in SUBSET SUBSET S
    OBVIOUS
  <2> HIDE DEF Bad
  <2> QED
    BY <1>1, <2>1, SmallestSet
<1>3. T # {}
  <2> SUFFICES ASSUME T = {} PROVE FALSE
    OBVIOUS
  <2>1. SumFunctionOnSet(f, T) = 0 /\ SumFunctionOnSet(h, T) = 0
    BY SumEmpty
  <2>2. Good(T)
    BY <2>1
  <2> QED
    BY <2>2
<1>4. PICK x \in T : TRUE
  BY <1>3
<1> DEFINE U == T \ {x}
           sf == SumFunctionOnSet(f, U)
<1>5. IsFiniteSet(U) /\ \A y \in T : f[y] \in Int /\ h[y] \in Int
  BY <1>2, FS_Subset
<1>6. /\ SumFunctionOnSet(f, T) = f[x] + sf
      /\ SumFunctionOnSet(h, T) = h[x] + SumFunctionOnSet(h, U)
  BY <1>2, <1>5, SumRemove
<1>7. sf \in Int /\ f[x] \in Int
  BY <1>5, SumType
<1>8. SumFunctionOnSet(h, U) = k * sf /\ h[x] = k * f[x]
  BY <1>2
<1> HIDE DEF sf, U
<1>9. k * f[x] + k * sf = k * (f[x] + sf)
  BY <1>7
<1>10. Good(T)
  BY <1>6, <1>8, <1>9
<1> QED
  BY <1>10

(* The squared distances of n amounts of sum s from their mean s / n, each  *)
(* scaled by n^2: the variance is Spread / n^3.                             *)
Spread(amount, S) ==
  LET n == Cardinality(S)
      s == SumFunctionOnSet(amount, S)
  IN  SumFunctionOnSet([c \in S |-> (n * amount[c] - s) * (n * amount[c] - s)], S)

(* amounts_are_consistent, which divides, and AmountsConsistent, which does *)
(* not, decide alike: "stddev / mean <= 0.5" is 4 * Spread <= n * s^2.      *)
THEOREM ConsistentMeansSmallVariance ==
  ASSUME NEW S, IsFiniteSet(S), S # {}, NEW amount, \A c \in S : amount[c] \in Nat
  PROVE  LET n == Cardinality(S)
             s == SumFunctionOnSet(amount, S)
         IN  AmountsConsistent(amount, S) <=> 4 * Spread(amount, S) <= n * (s * s)
<1> DEFINE n == Cardinality(S)
           s == SumFunctionOnSet(amount, S)
           square == [c \in S |-> amount[c] * amount[c]]
           q == SumFunctionOnSet(square, S)
           far == [c \in S |-> (n * amount[c] - s) * (n * amount[c] - s)]
           a1 == [c \in S |-> (n * n) * square[c]]
           a2 == [c \in S |-> (-(2 * n * s)) * amount[c]]
           a3 == [c \in S |-> s * s]
           a12 == [c \in S |-> a1[c] + a2[c]]
<1>1. n \in Nat \ {0}
  BY FS_CardinalityType, FS_EmptySet
<1>2. s \in Int /\ \A c \in S : amount[c] \in Int
  BY SumType
<1>3. \A c \in S : square[c] \in Int
  BY <1>2
<1>4. q \in Int
  BY <1>3, SumType
<1> HIDE DEF n, s, q
<1>5. /\ n * n \in Int /\ -(2 * n * s) \in Int /\ s * s \in Int
      /\ \A c \in S : a1[c] \in Int /\ a2[c] \in Int /\ a3[c] \in Int /\ a12[c] \in Int
  BY <1>1, <1>2, <1>3
<1>6. \A c \in S : far[c] = a12[c] + a3[c]
  <2>1. ASSUME NEW x \in Int
        PROVE  (n * x - s) * (n * x - s) = ((n * n) * (x * x) + (-(2 * n * s)) * x) + s * s
    BY <1>1, <1>2
  <2> QED
    BY <1>2, <2>1
<1>7. SumFunctionOnSet(a1, S) = (n * n) * q
  <2> HIDE DEF square
  <2>1. \A c \in S : square[c] \in Int /\ a1[c] = (n * n) * square[c]
    BY <1>3
  <2> HIDE DEF a1
  <2> QED
    BY <1>5, <2>1, SumTimes DEF q
<1>8. SumFunctionOnSet(a2, S) = (-(2 * n * s)) * s
  <2>1. \A c \in S : amount[c] \in Int /\ a2[c] = (-(2 * n * s)) * amount[c]
    BY <1>2
  <2> HIDE DEF a2
  <2>2. SumFunctionOnSet(a2, S) = (-(2 * n * s)) * SumFunctionOnSet(amount, S)
    BY <1>5, <2>1, SumTimes
  <2> QED
    BY <2>2 DEF s
<1>9. SumFunctionOnSet(a3, S) = n * (s * s)
  <2>1. \A c \in S : a3[c] = s * s
    OBVIOUS
  <2> HIDE DEF a3
  <2>2. SumFunctionOnSet(a3, S) = Cardinality(S) * (s * s)
    BY <1>5, <2>1, SumConstant
  <2> QED
    BY <2>2 DEF n
<1>10. SumFunctionOnSet(a12, S) = SumFunctionOnSet(a1, S) + SumFunctionOnSet(a2, S)
  <2>1. \A c \in S : a1[c] \in Int /\ a2[c] \in Int /\ a12[c] = a1[c] + a2[c]
    BY <1>5
  <2> HIDE DEF a1, a2, a12
  <2> QED
    BY <2>1, SumPlus
<1>11. SumFunctionOnSet(far, S) = SumFunctionOnSet(a12, S) + SumFunctionOnSet(a3, S)
  <2>1. \A c \in S : a12[c] \in Int /\ a3[c] \in Int /\ far[c] = a12[c] + a3[c]
    BY <1>5, <1>6
  <2> HIDE DEF a3, a12, far
  <2> QED
    BY <2>1, SumPlus
<1>12. Spread(amount, S) = SumFunctionOnSet(far, S)
  BY DEF Spread, n, s
<1>13. AmountsConsistent(amount, S) <=> 4 * (n * q - s * s) <= s * s
  BY DEF AmountsConsistent, n, s, q
<1> HIDE DEF square, a1, a2, a3, a12, far
<1>14. Spread(amount, S) = ((n * n) * q + (-(2 * n * s)) * s) + n * (s * s)
  BY <1>7, <1>8, <1>9, <1>10, <1>11, <1>12
<1>15. ((n * n) * q + (-(2 * n * s)) * s) + n * (s * s) = n * (n * q - s * s)
  BY <1>1, <1>2, <1>4
<1> DEFINE v == n * q - s * s
           w == s * s
<1>16. v \in Int /\ w \in Int /\ w >= 0
  BY <1>1, <1>2, <1>4
<1>17. Spread(amount, S) = n * v
  BY <1>14, <1>15
<1> HIDE DEF v, w
<1>18. 4 * v <= w <=> 4 * (n * v) <= n * w
  <2>1. 4 * (n * v) = n * (4 * v)
    BY <1>1, <1>16
  <2>2. 4 * v <= w => n * (4 * v) <= n * w
    BY <1>1, <1>16
  <2>3. w < 4 * v => n * w < n * (4 * v)
    BY <1>1, <1>16
  <2>4. n * w \in Int /\ n * (4 * v) \in Int
    BY <1>1, <1>16
  <2> QED
    BY <1>16, <2>1, <2>2, <2>3, <2>4
<1> QED
  BY <1>13, <1>17, <1>18 DEF v, w, n, s

(* A subscription that always costs the same is never taken for a series of *)
(* one-off purchases because of its amounts.                                *)
THEOREM FixedPriceIsConsistent ==
  ASSUME NEW S, IsFiniteSet(S), NEW a \in Nat, NEW amount, \A c \in S : amount[c] = a
  PROVE  AmountsConsistent(amount, S)
<1> DEFINE n == Cardinality(S)
           square == [c \in S |-> amount[c] * amount[c]]
<1>1. n \in Nat
  BY FS_CardinalityType
<1>2. SumFunctionOnSet(amount, S) = n * a
  BY SumConstant
<1>3. \A c \in S : square[c] = a * a
  OBVIOUS
<1>4. a * a \in Int
  OBVIOUS
<1>5. SumFunctionOnSet(square, S) = n * (a * a)
  BY <1>3, <1>4, SumConstant
<1>6. AmountsConsistent(amount, S) <=>
        4 * (n * (n * (a * a)) - (n * a) * (n * a)) <= (n * a) * (n * a)
  BY <1>2, <1>5 DEF AmountsConsistent
<1> HIDE DEF n
<1>7. n * (n * (a * a)) = (n * a) * (n * a) /\ (n * a) * (n * a) >= 0
      /\ (n * a) * (n * a) \in Int
  BY <1>1
<1> QED
  BY <1>6, <1>7

(* AverageGapAtMost is the code's average: over the charges sorted by day,  *)
(* the gaps between neighbours add up to the distance of the last charge    *)
(* from the first.                                                          *)
THEOREM AverageGapIsOfTheGaps ==
  ASSUME NEW S, IsFiniteSet(S), S # {}, NEW day, \A c \in S : day[c] \in Nat,
         NEW sorted \in Bijection(1..Cardinality(S), S),
         \A i \in 1..(Cardinality(S) - 1) : day[sorted[i]] <= day[sorted[i + 1]],
         NEW bound \in Nat
  PROVE  LET gaps == [i \in 1..(Cardinality(S) - 1) |-> day[sorted[i + 1]] - day[sorted[i]]]
         IN  AverageGapAtMost(bound, day, S) <=>
               SumFunction(gaps) <= bound * (Cardinality(S) - 1)
<1> DEFINE n == Cardinality(S)
           at == [i \in 1..n |-> day[sorted[i]]]
           gaps == [i \in 1..(n - 1) |-> day[sorted[i + 1]] - day[sorted[i]]]
<1>1. n \in Nat \ {0}
  BY FS_CardinalityType, FS_EmptySet
<1>2. \A i \in 1..n : sorted[i] \in S
  BY DEF Bijection, Injection
<1>3. \A i \in 1..n : at[i] \in Nat /\ at[i] = day[sorted[i]]
  BY <1>2
<1>4. \A i \in 1..(n - 1) : gaps[i] = at[i + 1] - at[i] /\ gaps[i] \in Nat
  <2>1. \A i \in 1..(n - 1) : i \in 1..n /\ i + 1 \in 1..n
    BY <1>1
  <2> QED
    BY <1>3, <2>1
<1>5. DOMAIN gaps = 1..(n - 1)
  OBVIOUS
<1> HIDE DEF n, at, gaps
<1>6. ASSUME NEW k \in 0..(n - 1)
      PROVE  SumFunctionOnSet(gaps, 1..k) = at[k + 1] - at[1] /\ at[1] <= at[k + 1]
  <2> DEFINE Good(i) == SumFunctionOnSet(gaps, 1..i) = at[i + 1] - at[1] /\ at[1] <= at[i + 1]
             Bad == {i \in 0..(n - 1) : ~ Good(i)}
  <2>1. SUFFICES ASSUME Bad # {} PROVE FALSE
    OBVIOUS
  <2>2. PICK i \in Bad : i # 0 => i - 1 \in Nat /\ i - 1 \notin Bad
    <3>1. Bad \in SUBSET Nat
      OBVIOUS
    <3> HIDE DEF Bad
    <3> QED
      BY <2>1, <3>1, SmallestNumber
  <2>3. CASE i = 0
    <3>1. 1..i = {} /\ at[i + 1] = at[1] /\ at[1] \in Nat
      BY <1>1, <1>3, <2>3
    <3>2. Good(i)
      BY <3>1, SumEmpty
    <3> QED
      BY <3>2
  <2>4. CASE i # 0
    <3> DEFINE j == i - 1
    <3>1. j \in 0..(n - 1) /\ Good(j) /\ i = j + 1
      <4>1. i \in 0..(n - 1) /\ j \notin Bad
        BY <2>2, <2>4
      <4>2. j \in 0..(n - 1) /\ i = j + 1
        BY <1>1, <2>4, <4>1
      <4> HIDE DEF j
      <4>3. Good(j)
        BY <4>1, <4>2
      <4> QED
        BY <4>2, <4>3
    <3>2. i \in 1..(n - 1) /\ i \in 1..n /\ i + 1 \in 1..n /\ 1 \in 1..n
      BY <1>1, <2>4
    <3> HIDE DEF j
    <3>3. (1..i) \ {i} = 1..j /\ i \in 1..i
      BY <3>1
    <3>4. IsFiniteSet(1..i) /\ \A x \in 1..i : gaps[x] \in Int
      <4>1. \A x \in 1..i : x \in 1..(n - 1)
        BY <1>1, <3>2
      <4>2. i \in Int /\ 1 \in Int
        BY <3>2
      <4> QED
        BY <1>4, <4>1, <4>2, IntervalFinite
    <3>5. SumFunctionOnSet(gaps, 1..i) = gaps[i] + SumFunctionOnSet(gaps, 1..j)
      <4>1. SumFunctionOnSet(gaps, 1..i) = gaps[i] + SumFunctionOnSet(gaps, (1..i) \ {i})
        BY <3>3, <3>4, SumRemove
      <4> QED
        BY <3>3, <4>1
    <3>6. /\ gaps[i] = at[i + 1] - at[i] /\ gaps[i] \in Nat
          /\ at[i] \in Nat /\ at[i + 1] \in Nat /\ at[1] \in Nat
      BY <1>3, <1>4, <3>2
    <3>7. SumFunctionOnSet(gaps, 1..j) = at[i] - at[1] /\ at[1] <= at[i]
      BY <3>1
    <3>8. Good(i)
      BY <3>5, <3>6, <3>7
    <3> QED
      BY <3>8
  <2> QED
    BY <2>3, <2>4
<1>7. ASSUME NEW k \in 0..(n - 1)
      PROVE  at[k + 1] <= at[n]
  <2> DEFINE Bad == {i \in 0..(n - 1) : ~ (at[(n - 1 - i) + 1] <= at[n])}
  <2>1. SUFFICES ASSUME Bad # {} PROVE FALSE
    <3>1. n - 1 - k \in 0..(n - 1) /\ n - 1 - (n - 1 - k) = k
      BY <1>1
    <3> QED
      BY <3>1
  <2>2. PICK i \in Bad : i # 0 => i - 1 \in Nat /\ i - 1 \notin Bad
    <3>1. Bad \in SUBSET Nat
      OBVIOUS
    <3> HIDE DEF Bad
    <3> QED
      BY <2>1, <3>1, SmallestNumber
  <2>3. i # 0
    <3>1. (n - 1 - 0) + 1 = n /\ n \in 1..n
      BY <1>1
    <3>2. at[n] <= at[n]
      BY <1>3, <3>1
    <3> QED
      BY <3>1, <3>2
  <2> DEFINE j == n - i
  <2>4. /\ j \in 1..(n - 1) /\ j \in 1..n /\ j + 1 \in 1..n /\ n \in 1..n
        /\ (n - 1 - i) + 1 = j /\ (n - 1 - (i - 1)) + 1 = j + 1 /\ i - 1 \in 0..(n - 1)
    BY <1>1, <2>3
  <2>5. at[j + 1] <= at[n]
    BY <2>2, <2>3, <2>4
  <2>6. at[j] \in Nat /\ at[j + 1] \in Nat /\ at[n] \in Nat /\ at[j] <= at[j + 1]
    <3> HIDE DEF j
    <3>1. at[j] \in Nat /\ at[j + 1] \in Nat /\ at[n] \in Nat
      BY <1>3, <2>4
    <3>2. gaps[j] = at[j + 1] - at[j] /\ gaps[j] \in Nat
      BY <1>4, <2>4
    <3> QED
      BY <3>1, <3>2
  <2>7. ~ (at[j] <= at[n])
    BY <2>4
  <2> QED
    BY <2>5, <2>6, <2>7
<1>8. \A i \in 1..n : at[1] <= at[i] /\ at[i] <= at[n]
  <2>1. \A i \in 1..n : i - 1 \in 0..(n - 1) /\ (i - 1) + 1 = i
    BY <1>1
  <2> QED
    BY <1>6, <1>7, <2>1
<1>9. \A c \in S : \E i \in 1..n : day[c] = at[i]
  BY <1>3 DEF Bijection, Surjection, n
<1>10. 1 \in 1..n /\ n \in 1..n
  BY <1>1
<1>11. FirstDay(day, S) = at[1]
  <2>1. at[1] \in {day[c] : c \in S}
    BY <1>2, <1>3, <1>10
  <2>2. \A c \in S : at[1] <= day[c]
    BY <1>8, <1>9
  <2>3. \A d \in {day[c] : c \in S} : (\A c \in S : d <= day[c]) => d = at[1]
    BY <1>2, <1>3, <1>10, <2>1, <2>2
  <2> QED
    BY <2>1, <2>2, <2>3 DEF FirstDay
<1>12. LastDay(day, S) = at[n]
  <2>1. at[n] \in {day[c] : c \in S}
    BY <1>2, <1>3, <1>10
  <2>2. \A c \in S : day[c] <= at[n]
    BY <1>8, <1>9
  <2>3. \A d \in {day[c] : c \in S} : (\A c \in S : day[c] <= d) => d = at[n]
    BY <1>2, <1>3, <1>10, <2>1, <2>2
  <2> QED
    BY <2>1, <2>2, <2>3 DEF LastDay
<1>13. SumFunction(gaps) = at[n] - at[1]
  <2>1. n - 1 \in 0..(n - 1) /\ (n - 1) + 1 = n
    BY <1>1
  <2>2. SumFunctionOnSet(gaps, 1..(n - 1)) = at[n] - at[1]
    BY <1>6, <2>1
  <2> QED
    BY <1>5, <2>2 DEF SumFunction
<1> QED
  BY <1>11, <1>12, <1>13 DEF AverageGapAtMost, gaps, n
=============================================================================
