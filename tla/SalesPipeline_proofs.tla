-------------------------- MODULE SalesPipeline_proofs --------------------------
(***************************************************************************)
(* What the sales pipeline keeps, whatever requests overlap, processes die *)
(* and CRM edits come between.                                             *)
(*                                                                         *)
(* PipelineInv is inductive.  Its parts, each relying on those before:     *)
(*   - BaseInv: types; what a run or a checkpoint names exists; documents  *)
(*     name one another, and handoffs the orders they are of;              *)
(*   - StockInv: reservations are finite, within the stock, and whole for  *)
(*     every order;                                                        *)
(*   - UndisturbedInv: a conversation on which no two calls overlapped has *)
(*     one run at most, whose state is sound for the node it has come to,  *)
(*     a sound checkpoint, and papers that agree with what was approved.   *)
(*                                                                         *)
(* From it, that the pipeline implements SoundDeal: every node, as a step  *)
(* of the conversation it works on (DealStep), is one of SoundDeal's or    *)
(* none.                                                                   *)
(***************************************************************************)
EXTENDS SalesPipeline, FiniteSetTheorems, NaturalsInduction, WellFoundedInduction, TLAPS

-----------------------------------------------------------------------------
(* Sums over finite sets.  An induction over the subsets of a set is stated   *)
(* with the set of those it holds of.                                        *)

LEMMA SubsetInduction ==
  ASSUME NEW R, IsFiniteSet(R), NEW Holds \in SUBSET SUBSET R,
         \A U \in SUBSET R : (\A V \in SUBSET U : V # U => V \in Holds) => U \in Holds
  PROVE  R \in Holds
<1> DEFINE Others == (SUBSET R) \ Holds
<1>1. IsWellFoundedOn(StrictSubsetOrdering(R), SUBSET R)
  BY FS_FiniteSubsetsOfFinite, FS_StrictSubsetOrderingWellFounded
<1>2. \A O, X, T : IsWellFoundedOn(O, X) /\ T \subseteq X /\ T # {} =>
        \E x \in T : \A y \in T : <<y, x>> \notin O
  BY WFMin
<1>3. SUFFICES ASSUME Others # {} PROVE FALSE
  OBVIOUS
<1>4. PICK U \in Others : \A V \in Others : <<V, U>> \notin StrictSubsetOrdering(R)
  <2>1. Others \subseteq SUBSET R
    OBVIOUS
  <2> HIDE DEF Others
  <2>2. QED BY <1>1, <1>2, <1>3, <2>1
<1>5. \A V \in SUBSET U : V # U => V \in Holds
  BY <1>4 DEF StrictSubsetOrdering
<1>6. QED BY <1>4, <1>5

Some(X) == CHOOSE x \in X : TRUE

(* What is taken from a set that is not empty belongs to it.                  *)
LEMMA SomeIsIn == \A X : X # {} => Some(X) \in X
  BY DEF Some

(* What SumFunctionOnSet adds up step by step.                               *)
Sums(w, R, f) ==
  f = [X \in SUBSET R |-> IF X = {} THEN 0 ELSE w[Some(X)] + f[X \ {Some(X)}]]

(* The sum of the library is one such function, chosen.                       *)
LEMMA SumIsChosen == ASSUME NEW w, NEW R
                     PROVE  SumFunctionOnSet(w, R) = (CHOOSE f : Sums(w, R, f))[R]
  BY DEF SumFunctionOnSet, FoldFunctionOnSet, MapThenFoldSet, Sums, Some

Steps(w, R, f) ==
  \A X \in SUBSET R : /\ X = {} => f[X] = 0
                      /\ X # {} => f[X] = w[Some(X)] + f[X \ {Some(X)}]

(* Such a function adds the weights one by one.                               *)
LEMMA SumSteps == ASSUME NEW w, NEW R, NEW f, Sums(w, R, f) PROVE Steps(w, R, f)
<1>1. ASSUME NEW X \in SUBSET R
      PROVE  f[X] = IF X = {} THEN 0 ELSE w[Some(X)] + f[X \ {Some(X)}]
  <2> DEFINE h(x) == IF x = {} THEN 0 ELSE w[Some(x)] + f[x \ {Some(x)}]
  <2>1. f = [x \in SUBSET R |-> h(x)]
    BY DEF Sums
  <2> HIDE DEF h
  <2>2. f[X] = h(X)
    BY <2>1
  <2>3. QED BY <2>2 DEF h
<1>2. QED BY <1>1 DEF Steps

(* Two such functions agree where their weights do.                           *)
LEMMA SumsAgree ==
  ASSUME NEW R, IsFiniteSet(R), NEW w, NEW f, Sums(w, R, f),
         NEW X \in SUBSET R, NEW v, NEW g, Sums(v, X, g), \A x \in X : v[x] = w[x]
  PROVE  g[X] = f[X]
<1>0. Steps(v, X, g) /\ Steps(w, R, f)
  <2>1. Steps(v, X, g)
    BY SumSteps
  <2>2. Steps(w, R, f)
    BY SumSteps
  <2>3. QED BY <2>1, <2>2
<1> DEFINE Holds == {T \in SUBSET X : g[T] = f[T]}
<1>1. ASSUME NEW U \in SUBSET X, \A V \in SUBSET U : V # U => V \in Holds
      PROVE  U \in Holds
  <2>1. /\ U = {} => g[U] = 0
        /\ U # {} => g[U] = v[Some(U)] + g[U \ {Some(U)}]
    BY <1>0 DEF Steps
  <2>2. /\ U = {} => f[U] = 0
        /\ U # {} => f[U] = w[Some(U)] + f[U \ {Some(U)}]
    BY <1>0 DEF Steps
  <2>3. CASE U = {}
    BY <2>1, <2>2, <2>3
  <2>4. CASE U # {}
    BY <1>1, <2>1, <2>2, <2>4, SomeIsIn
  <2>5. QED BY <2>3, <2>4
<1>2. IsFiniteSet(X)
  BY FS_Subset
<1>3. Holds \in SUBSET SUBSET X
  OBVIOUS
<1>4. X \in Holds
  <2> HIDE DEF Holds
  <2>1. QED BY <1>1, <1>2, <1>3, SubsetInduction
<1>5. QED BY <1>4

(* There is one for every finite set.                                         *)
LEMMA SumExists ==
  ASSUME NEW R, IsFiniteSet(R), NEW w
  PROVE  \E f : Sums(w, R, f)
<1> DEFINE Holds == {X \in SUBSET R : \E f : Sums(w, X, f)}
           Of(X) == CHOOSE f : Sums(w, X, f)
<1>1. ASSUME NEW U \in SUBSET R, \A V \in SUBSET U : V # U => V \in Holds
      PROVE  U \in Holds
  <2> DEFINE f == [X \in SUBSET U |->
                     IF X = {} THEN 0
                     ELSE IF X = U THEN w[Some(U)] + Of(U \ {Some(U)})[U \ {Some(U)}]
                     ELSE Of(X)[X]]
  <2>1. \A X \in SUBSET U : X # U => Sums(w, X, Of(X))
    BY <1>1
  <2>2. ASSUME NEW X \in SUBSET U, X # U
        PROVE  f[X] = Of(X)[X]
    <3>1. X = {} => Of(X)[X] = 0
      <4> HIDE DEF Of
      <4>1. QED BY <2>1, <2>2, SumSteps DEF Steps
    <3>2. QED BY <2>2, <3>1
  <2>3. ASSUME NEW X \in SUBSET U, X # {}
        PROVE  f[X] = w[Some(X)] + f[X \ {Some(X)}]
    <3> DEFINE T == X \ {Some(X)}
    <3>1. T \in SUBSET U /\ T # U /\ f[T] = Of(T)[T] /\ Sums(w, T, Of(T))
      BY <2>1, <2>2, <2>3, SomeIsIn
    <3>2. CASE X = U
      BY <2>3, <3>1, <3>2
    <3>3. CASE X # U
      <4>1. Sums(w, X, Of(X)) /\ f[X] = Of(X)[X]
        BY <2>1, <2>2, <3>3
      <4>2. Of(X)[X] = w[Some(X)] + Of(X)[T]
        <5> HIDE DEF Of, f
        <5>1. QED BY <2>3, <4>1, SumSteps DEF Steps
      <4>3. IsFiniteSet(X) /\ T \in SUBSET X
        BY FS_Subset
      <4>4. Of(T)[T] = Of(X)[T]
        <5> HIDE DEF Of, T, f
        <5>1. QED BY <3>1, <4>1, <4>3, SumsAgree
      <4>5. QED BY <3>1, <4>1, <4>2, <4>4
    <3>4. QED BY <3>2, <3>3
  <2>4. \A X \in SUBSET U : f[X] = IF X = {} THEN 0 ELSE w[Some(X)] + f[X \ {Some(X)}]
    <3>1. f[{}] = 0
      OBVIOUS
    <3> HIDE DEF f
    <3>2. QED BY <2>3, <3>1
  <2>5. f = [X \in SUBSET U |-> f[X]]
    OBVIOUS
  <2>6. Sums(w, U, f)
    <3> HIDE DEF f
    <3>1. QED BY <2>4, <2>5 DEF Sums
  <2>7. QED BY <2>6
<1>2. Holds \in SUBSET SUBSET R
  OBVIOUS
<1>3. R \in Holds
  <2> HIDE DEF Holds
  <2>1. QED BY <1>1, <1>2, SubsetInduction
<1>4. QED BY <1>3

(* The sum over a subset is the value of the sum function there.              *)
LEMMA SumOfSubset ==
  ASSUME NEW R, IsFiniteSet(R), NEW w
  PROVE  \E f : Steps(w, R, f) /\ \A X \in SUBSET R : SumFunctionOnSet(w, X) = f[X]
<1> DEFINE f == CHOOSE f : Sums(w, R, f)
<1>1. Sums(w, R, f)
  BY SumExists
<1>2. ASSUME NEW X \in SUBSET R
      PROVE  SumFunctionOnSet(w, X) = f[X]
  <2> DEFINE g == CHOOSE g : Sums(w, X, g)
  <2>1. IsFiniteSet(X)
    BY FS_Subset
  <2>2. Sums(w, X, g) /\ SumFunctionOnSet(w, X) = g[X]
    BY <2>1, SumExists, SumIsChosen
  <2>3. \A x \in X : w[x] = w[x]
    OBVIOUS
  <2> HIDE DEF f, g
  <2>4. g[X] = f[X]
    BY <1>1, <2>2, <2>3, SumsAgree
  <2>5. QED BY <2>2, <2>4
<1> HIDE DEF f
<1>3. QED BY <1>1, <1>2, SumSteps

(* Nothing sums up to 0.                                                      *)
LEMMA SumEmpty == \A w : SumFunctionOnSet(w, {}) = 0
<1>1. IsFiniteSet({})
  BY FS_EmptySet
<1>2. QED BY <1>1, SumOfSubset DEF Steps

(* A sum is the weight of one element and the sum of the rest.                *)
LEMMA SumUnfolds ==
  ASSUME NEW R, IsFiniteSet(R), R # {}, NEW w
  PROVE  SumFunctionOnSet(w, R) = w[Some(R)] + SumFunctionOnSet(w, R \ {Some(R)})
<1>1. PICK f : Steps(w, R, f) /\ \A X \in SUBSET R : SumFunctionOnSet(w, X) = f[X]
  BY SumOfSubset
<1>2. QED BY <1>1 DEF Steps

(* Functions that agree on a set have the same sum over it.                   *)
LEMMA SumExtensional ==
  ASSUME NEW R, IsFiniteSet(R), NEW v, NEW w, \A x \in R : v[x] = w[x]
  PROVE  SumFunctionOnSet(v, R) = SumFunctionOnSet(w, R)
<1> DEFINE f == CHOOSE f : Sums(w, R, f)
           g == CHOOSE g : Sums(v, R, g)
<1>1. /\ Sums(w, R, f) /\ SumFunctionOnSet(w, R) = f[R]
      /\ Sums(v, R, g) /\ SumFunctionOnSet(v, R) = g[R]
  BY SumExists, SumIsChosen
<1> HIDE DEF f, g
<1>2. g[R] = f[R]
  BY <1>1, SumsAgree
<1>3. QED BY <1>1, <1>2

(* Natural weights sum up to a natural number.                                *)
LEMMA SumIsNat ==
  ASSUME NEW R, IsFiniteSet(R), NEW w, \A x \in R : w[x] \in Nat
  PROVE  SumFunctionOnSet(w, R) \in Nat
<1> DEFINE Holds == {U \in SUBSET R : SumFunctionOnSet(w, U) \in Nat}
<1>1. ASSUME NEW U \in SUBSET R, \A V \in SUBSET U : V # U => V \in Holds
      PROVE  U \in Holds
  <2>1. IsFiniteSet(U)
    BY FS_Subset
  <2>2. CASE U = {}
    BY <2>2, SumEmpty
  <2>3. CASE U # {}
    <3>1. Some(U) \in U /\ SumFunctionOnSet(w, U) = w[Some(U)] + SumFunctionOnSet(w, U \ {Some(U)})
      BY <2>1, <2>3, SumUnfolds, SomeIsIn
    <3>2. SumFunctionOnSet(w, U \ {Some(U)}) \in Nat /\ w[Some(U)] \in Nat
      BY <1>1, <3>1
    <3>3. QED BY <3>1, <3>2
  <2>4. QED BY <2>2, <2>3
<1>2. Holds \in SUBSET SUBSET R
  OBVIOUS
<1>3. R \in Holds
  <2> HIDE DEF Holds
  <2>1. QED BY <1>1, <1>2, SubsetInduction
<1>4. QED BY <1>3

(* A sum does not depend on the order in which it is added up.                *)
LEMMA SumTakesOut ==
  ASSUME NEW R, IsFiniteSet(R), NEW w, \A x \in R : w[x] \in Nat, NEW e \in R
  PROVE  SumFunctionOnSet(w, R) = w[e] + SumFunctionOnSet(w, R \ {e})
<1> DEFINE Sum(U) == SumFunctionOnSet(w, U)
           Holds == {U \in SUBSET R : \A x \in U : Sum(U) = w[x] + Sum(U \ {x})}
<1>0. \A U \in SUBSET R : IsFiniteSet(U) /\ Sum(U) \in Nat
  BY FS_Subset, SumIsNat
<1>1. ASSUME NEW U \in SUBSET R, \A V \in SUBSET U : V # U => V \in Holds
      PROVE  U \in Holds
  <2> SUFFICES ASSUME NEW x \in U
               PROVE  Sum(U) = w[x] + Sum(U \ {x})
    OBVIOUS
  <2> DEFINE y == Some(U)
  <2>1. y \in U /\ Sum(U) = w[y] + Sum(U \ {y})
    BY <1>0, SumUnfolds, SomeIsIn
  <2>2. CASE x = y
    BY <2>1, <2>2
  <2>3. CASE x # y
    <3>1. Sum(U \ {y}) = w[x] + Sum((U \ {y}) \ {x})
      BY <1>1, <2>1, <2>3
    <3>2. Sum(U \ {x}) = w[y] + Sum((U \ {x}) \ {y})
      BY <1>1, <2>1, <2>3
    <3>3. (U \ {y}) \ {x} = (U \ {x}) \ {y}
      OBVIOUS
    <3>4. w[x] \in Nat /\ w[y] \in Nat /\ Sum((U \ {x}) \ {y}) \in Nat
      BY <1>0, <2>1
    <3> HIDE DEF y, Sum
    <3>5. QED BY <2>1, <3>1, <3>2, <3>3, <3>4
  <2>4. QED BY <2>2, <2>3
<1>2. Holds \in SUBSET SUBSET R
  OBVIOUS
<1>3. R \in Holds
  <2> HIDE DEF Holds
  <2>1. QED BY <1>1, <1>2, SubsetInduction
<1>4. QED BY <1>3

(* A new element adds its value.                                              *)
LEMMA SumGrows ==
  ASSUME NEW R, IsFiniteSet(R), NEW w, NEW e, e \notin R, \A x \in R \cup {e} : w[x] \in Nat
  PROVE  SumFunctionOnSet(w, R \cup {e}) = w[e] + SumFunctionOnSet(w, R)
<1>1. IsFiniteSet(R \cup {e}) /\ (R \cup {e}) \ {e} = R
  BY FS_AddElement
<1>2. QED BY <1>1, SumTakesOut
-----------------------------------------------------------------------------
(* The quantities of a set of records.                                        *)

Quantities(A) == SumFunction([r \in A |-> r.quantity])

(* The quantities of records, with the quantity of each as its weight.        *)
LEMMA QuantitiesAre ==
  ASSUME NEW A, IsFiniteSet(A), NEW v, \A r \in A : v[r] = r.quantity
  PROVE  Quantities(A) = SumFunctionOnSet(v, A)
<1> DEFINE w == [r \in A |-> r.quantity]
<1>1. Quantities(A) = SumFunctionOnSet(w, A)
  BY DEF Quantities, SumFunction, SumFunctionOnSet
<1>2. \A r \in A : w[r] = v[r]
  OBVIOUS
<1> HIDE DEF w
<1>3. QED BY <1>1, <1>2, SumExtensional

(* No records hold nothing.                                                   *)
LEMMA NoQuantities == Quantities({}) = 0
<1> DEFINE v == [r \in {} |-> 0]
<1>1. IsFiniteSet({})
  BY FS_EmptySet
<1>2. Quantities({}) = SumFunctionOnSet(v, {})
  BY <1>1, QuantitiesAre
<1>3. QED BY <1>2, SumEmpty

(* Records hold a natural number.                                             *)
LEMMA QuantitiesNat ==
  ASSUME NEW A, IsFiniteSet(A), \A r \in A : r.quantity \in Nat
  PROVE  Quantities(A) \in Nat
<1> DEFINE v == [r \in A |-> r.quantity]
<1>1. \A r \in A : v[r] = r.quantity /\ v[r] \in Nat
  OBVIOUS
<1> HIDE DEF v
<1>2. QED BY <1>1, QuantitiesAre, SumIsNat

(* More records hold at least as much.                                        *)
LEMMA QuantitiesGrow ==
  ASSUME NEW A, IsFiniteSet(A), \A r \in A : r.quantity \in Nat,
         NEW e, e \notin A, e.quantity \in Nat
  PROVE  Quantities(A \cup {e}) = e.quantity + Quantities(A)
<1> DEFINE v == [r \in A \cup {e} |-> r.quantity]
<1>1. \A r \in A \cup {e} : v[r] = r.quantity /\ v[r] \in Nat
  OBVIOUS
<1>2. v[e] = e.quantity
  OBVIOUS
<1> HIDE DEF v
<1>3. IsFiniteSet(A \cup {e})
  BY FS_AddElement
<1>4. Quantities(A) = SumFunctionOnSet(v, A)
  BY <1>1, QuantitiesAre
<1>5. Quantities(A \cup {e}) = SumFunctionOnSet(v, A \cup {e})
  BY <1>1, <1>3, QuantitiesAre
<1>6. SumFunctionOnSet(v, A \cup {e}) = v[e] + SumFunctionOnSet(v, A)
  BY <1>1, SumGrows
<1>7. QED BY <1>2, <1>4, <1>5, <1>6

(* Disjoint sets of records hold what each of them holds.                     *)
LEMMA QuantitiesJoin ==
  ASSUME NEW A, IsFiniteSet(A), NEW B, IsFiniteSet(B), A \cap B = {},
         \A r \in A \cup B : r.quantity \in Nat
  PROVE  Quantities(A \cup B) = Quantities(A) + Quantities(B)
<1> DEFINE Holds == {U \in SUBSET B : Quantities(A \cup U) = Quantities(A) + Quantities(U)}
<1>0. Quantities(A) \in Nat
  BY QuantitiesNat
<1>1. ASSUME NEW U \in SUBSET B, \A V \in SUBSET U : V # U => V \in Holds
      PROVE  U \in Holds
  <2>1. CASE U = {}
    BY <1>0, <2>1, NoQuantities
  <2>2. CASE U # {}
    <3> DEFINE e == Some(U)
               V == U \ {e}
    <3>1. e \in U /\ e \in B /\ e \notin V /\ V \in SUBSET U /\ V # U /\ V \cup {e} = U
      BY <2>2, SomeIsIn
    <3>2. Quantities(A \cup V) = Quantities(A) + Quantities(V)
      BY <1>1, <3>1
    <3>3. IsFiniteSet(V) /\ IsFiniteSet(A \cup V)
      BY <3>1, FS_Subset, FS_Union
    <3>4. e \notin A \cup V /\ (A \cup V) \cup {e} = A \cup U
      BY <3>1
    <3>5. e.quantity \in Nat /\ \A r \in A \cup V : r.quantity \in Nat
      BY <3>1
    <3> HIDE DEF e, V
    <3>6. Quantities(V) \in Nat
      BY <3>3, <3>5, QuantitiesNat
    <3>7. Quantities(U) = e.quantity + Quantities(V)
      BY <3>1, <3>3, <3>5, QuantitiesGrow
    <3>8. Quantities(A \cup U) = e.quantity + Quantities(A \cup V)
      BY <3>3, <3>4, <3>5, QuantitiesGrow
    <3>9. QED BY <1>0, <3>2, <3>5, <3>6, <3>7, <3>8
  <2>3. QED BY <2>1, <2>2
<1>2. Holds \in SUBSET SUBSET B
  OBVIOUS
<1>3. B \in Holds
  <2> HIDE DEF Holds
  <2>1. QED BY <1>1, <1>2, SubsetInduction
<1>4. QED BY <1>3

(* One record for each element that has a positive value: the quantities add   *)
(* up to the sum of the values.                                               *)
LEMMA QuantitiesOfImage ==
  ASSUME NEW R, IsFiniteSet(R), NEW a, \A x \in R : a[x] \in Nat,
         NEW rec, \A x \in R : rec[x].quantity = a[x],
         \A x, y \in R : rec[x] = rec[y] => x = y
  PROVE  LET records == {rec[x] : x \in {x \in R : a[x] > 0}}
         IN IsFiniteSet(records) /\ Quantities(records) = SumFunctionOnSet(a, R)
<1> DEFINE Of(U) == {rec[x] : x \in {x \in U : a[x] > 0}}
           Holds == {U \in SUBSET R : IsFiniteSet(Of(U)) /\ Quantities(Of(U)) = SumFunctionOnSet(a, U)}
<1>1. ASSUME NEW U \in SUBSET R, \A V \in SUBSET U : V # U => V \in Holds
      PROVE  U \in Holds
  <2>1. CASE U = {}
    <3>1. Of(U) = {}
      BY <2>1
    <3>2. QED BY <2>1, <3>1, FS_EmptySet, NoQuantities, SumEmpty
  <2>2. CASE U # {}
    <3> DEFINE e == Some(U)
               V == U \ {e}
    <3>1. e \in U /\ e \in R /\ e \notin V /\ V \in SUBSET U /\ V # U
      BY <2>2, SomeIsIn
    <3>2. IsFiniteSet(Of(V)) /\ Quantities(Of(V)) = SumFunctionOnSet(a, V)
      BY <1>1, <3>1
    <3>3. IsFiniteSet(U) /\ IsFiniteSet(V)
      BY <3>1, FS_Subset
    <3>4. \A x \in U : a[x] \in Nat
      OBVIOUS
    <3>5. SumFunctionOnSet(a, U) = a[e] + SumFunctionOnSet(a, V)
      <4> HIDE DEF e
      <4>1. QED BY <3>1, <3>3, <3>4, SumTakesOut
    <3>6. SumFunctionOnSet(a, V) \in Nat
      <4>1. \A x \in V : a[x] \in Nat
        BY <3>1
      <4> HIDE DEF V
      <4>2. QED BY <3>3, <4>1, SumIsNat
    <3>7. CASE a[e] = 0
      <4>1. Of(U) = Of(V)
        BY <3>1, <3>4, <3>7
      <4> HIDE DEF Of, V
      <4>2. QED BY <3>2, <3>5, <3>6, <3>7, <4>1
    <3>8. CASE a[e] # 0
      <4>1. a[e] > 0
        BY <3>1, <3>8
      <4>2. Of(U) = Of(V) \cup {rec[e]}
        BY <3>1, <4>1
      <4>3. rec[e] \notin Of(V)
        BY <3>1
      <4>4. rec[e].quantity = a[e] /\ rec[e].quantity \in Nat
        BY <3>1
      <4>5. \A r \in Of(V) : r.quantity \in Nat
        BY <3>1
      <4>6. Quantities(Of(V) \cup {rec[e]}) = rec[e].quantity + Quantities(Of(V))
        <5> HIDE DEF Of, V, e
        <5>1. QED BY <3>2, <4>3, <4>4, <4>5, QuantitiesGrow
      <4>7. IsFiniteSet(Of(U))
        <5> HIDE DEF Of, V, e
        <5>1. QED BY <3>2, <4>2, FS_AddElement
      <4> HIDE DEF Of, V, e
      <4>8. QED BY <3>2, <3>5, <4>2, <4>4, <4>6, <4>7
    <3>9. QED BY <3>7, <3>8
  <2>3. QED BY <2>1, <2>2
<1>2. Holds \in SUBSET SUBSET R
  OBVIOUS
<1>3. R \in Holds
  <2> HIDE DEF Holds
  <2>1. QED BY <1>1, <1>2, SubsetInduction
<1>4. QED BY <1>3

(* A positive sum has a positive value in it.                                 *)
LEMMA SumPositive ==
  ASSUME NEW R, IsFiniteSet(R), NEW a, \A x \in R : a[x] \in Nat, SumFunctionOnSet(a, R) # 0
  PROVE  \E x \in R : a[x] > 0
<1> DEFINE Holds == {U \in SUBSET R : (\A x \in U : a[x] = 0) => SumFunctionOnSet(a, U) = 0}
<1>1. ASSUME NEW U \in SUBSET R, \A V \in SUBSET U : V # U => V \in Holds
      PROVE  U \in Holds
  <2>1. CASE U = {}
    BY <2>1, SumEmpty
  <2>2. CASE U # {}
    <3> SUFFICES ASSUME \A x \in U : a[x] = 0
                 PROVE  SumFunctionOnSet(a, U) = 0
      OBVIOUS
    <3>1. IsFiniteSet(U)
      BY FS_Subset
    <3>2. Some(U) \in U /\ SumFunctionOnSet(a, U) = a[Some(U)] + SumFunctionOnSet(a, U \ {Some(U)})
      BY <2>2, <3>1, SumUnfolds, SomeIsIn
    <3>3. SumFunctionOnSet(a, U \ {Some(U)}) = 0
      BY <1>1, <3>2
    <3>4. QED BY <3>2, <3>3
  <2>3. QED BY <2>1, <2>2
<1>2. Holds \in SUBSET SUBSET R
  OBVIOUS
<1>3. R \in Holds
  <2> HIDE DEF Holds
  <2>1. QED BY <1>1, <1>2, SubsetInduction
<1>4. QED BY <1>3

-----------------------------------------------------------------------------
(* What runs and checkpoints name                                             *)

Running(k) == task[k].pc \notin {"idle", "received"}
On(k, t) == Thread(k) = t
Ordered(t, po) == \E j \in DOMAIN orders[t] : orders[t][j] = po

(* A run has a thread and a trigger, and a checkpoint unless it is a new       *)
(* inquiry; what its state names exists.                                      *)
Known(t, st) == st.po \in 0 .. Len(purchases[t]) /\ st.quote \in 0 .. Len(quotes[t])

RunKnown(k) ==
  /\ task[k].pc = "idle" => task[k] = Idle
  /\ task[k].pc # "idle" =>
       /\ Thread(k) \in Threads /\ task[k].trigger \in Triggers
       /\ IF task[k].trigger = "approved" THEN task[k].approved \in Stages
          ELSE task[k].approved = None
       /\ task[k].pc # "received" \/ task[k].trigger # "inquiry" =>
            checkpoint[Thread(k)] # None
       /\ task[k].pc = "extract_inquiry" => task[k].trigger = "inquiry"
       /\ Known(Thread(k), S(k))

ThreadKnown(t) ==
  /\ checkpoint[t] # None => Known(t, checkpoint[t])
  /\ lead[t] # "none" \/ closed[t] \/ crm[t] # "none" => checkpoint[t] # None

(* Until an inquiry has made the lead, nothing in the state lets another run   *)
(* of the thread come to an approval, a quotation or an order.                *)
Barren(st) ==
  /\ st.price = None /\ st.quote = 0 /\ st.stage = None /\ ~ st.missing
  /\ st.offer = None /\ st.analysis.price = None
BarrenNodes ==
  {"received", "check_trigger", "compose_reminder", "dispatch_followup", "analyze_reply",
   "record_commercial_acceptance", "compose_positive_response", "evaluate_counteroffer",
   "compose_objection_response", "dispatch_message", "extract_po_fields", "validate_po"}
Replying == {"followup", "customer_reply", "po_received"}

Early(k) == task[k].trigger = "inquiry"
            /\ task[k].pc \in {"received", "check_trigger", "extract_inquiry"}
EarlyAlone(k) ==
  /\ lead[Thread(k)] = "none"
  /\ task[k].pc = "received" => checkpoint[Thread(k)] = None
  /\ checkpoint[Thread(k)] # None => Barren(checkpoint[Thread(k)])
  /\ Barren(S(k))
  /\ \A j \in Tasks \ {k} : On(j, Thread(k)) =>
       task[j].trigger \in Replying /\ task[j].pc \in BarrenNodes /\ Barren(S(j))

(* Where a run is in the order, so are the documents.                         *)
Confirming == {"build_handoff_packages", "dispatch_handoff", "notify_departments", "finalize_audit"}
Documented(t, st, node) ==
  /\ node = "send_quotation" => st.quote # 0
  /\ node = "allocate_rows" => st.po # 0
  /\ node \in {"mark_order_won", "create_sales_order"} => Held(t, st.po) # {}
  /\ node \in {"create_sales_order"} \cup Confirming => lead[t] = "won"
  /\ node \in Confirming => Ordered(t, st.po)
  /\ node = "notify_departments" => /\ st.handoff \in DOMAIN handoffs[t]
                                   /\ handoffs[t][st.handoff].po = st.po

(* Departments are told of orders only, and all before it is recorded.        *)
HandoffsAgree ==
  \A t \in Threads : \A i \in DOMAIN handoffs[t] :
    /\ Ordered(t, handoffs[t][i].po)
    /\ handoffs[t][i].marked => handoffs[t][i].told = Departments

RunsKnown == \A k \in Tasks : RunKnown(k)
ThreadsKnown == \A t \in Threads : ThreadKnown(t)
EarlyInquiry == \A k \in Tasks : Early(k) => EarlyAlone(k)
RunsDocumented == \A k \in Tasks : Documented(Thread(k), S(k), task[k].pc)

RunsInv == TypeOK /\ RunsKnown /\ ThreadsKnown /\ EarlyInquiry /\ RunsDocumented
BaseInv == RunsInv /\ DocumentsAgree /\ HandoffsAgree

-----------------------------------------------------------------------------
Ends == (Nodes \ {"check_trigger"}) \cup {"end"}

(* The run k goes to the node next with the state st, and leaves the          *)
(* checkpoint c behind.                                                       *)
Moves(k, c, st, next) ==
  /\ checkpoint' = [checkpoint EXCEPT ![Thread(k)] = c]
  /\ next = "end" => task'[k] = Idle
  /\ next # "end" => /\ task'[k].pc = next /\ task'[k].st = st
                     /\ task'[k].thread = task[k].thread /\ task'[k].trigger = task[k].trigger
                     /\ task'[k].approved = task[k].approved /\ task'[k].seen = task[k].seen
  /\ \A j \in Tasks \ {k} : task'[j] = task[j]
  /\ checkpoint' \in [Threads -> StateType \cup {None}]
  /\ task' \in [Tasks -> TaskType]
  /\ UNCHANGED <<counters, closed, crm>>

(* A run that does nothing is typed.                                          *)
LEMMA IdleTask == Idle \in TaskType
  BY NoneAssumption, ConstantsAssumption DEF Idle, TaskType, NewState, StateType, Statuses,
    PriceOrNot

(* Going on is a move.                                                        *)
LEMMA GoesMoves ==
  ASSUME TypeOK, NEW k \in Tasks, Thread(k) \in Threads, NEW st \in StateType, NEW next \in Ends,
         Goes(k, st, next)
  PROVE  Moves(k, st, st, next)
<1>0. task \in [Tasks -> TaskType] /\ checkpoint \in [Threads -> StateType \cup {None}]
  BY DEF TypeOK
<1>1. /\ checkpoint' = [checkpoint EXCEPT ![Thread(k)] = st]
      /\ task' = [task EXCEPT ![k] = IF next = "end" THEN Idle
                                     ELSE [@ EXCEPT !.st = st, !.pc = next]]
      /\ UNCHANGED <<counters, closed, crm>>
  BY DEF Goes
<1>2. checkpoint' \in [Threads -> StateType \cup {None}]
  BY <1>0, <1>1
<1>3. CASE next = "end"
  <2>1. task' = [task EXCEPT ![k] = Idle]
    BY <1>1, <1>3
  <2>2. QED BY <1>0, <1>1, <1>2, <1>3, <2>1, IdleTask DEF Moves
<1>4. CASE next # "end"
  <2> DEFINE new == [task[k] EXCEPT !.st = st, !.pc = next]
  <2>1. task' = [task EXCEPT ![k] = new]
    BY <1>1, <1>4
  <2>2. /\ new \in TaskType /\ new.pc = next /\ new.st = st /\ new.thread = task[k].thread
        /\ new.trigger = task[k].trigger /\ new.approved = task[k].approved
        /\ new.seen = task[k].seen
    BY <1>0, <1>4 DEF TaskType, Ends
  <2> HIDE DEF new
  <2>3. QED BY <1>0, <1>1, <1>2, <1>4, <2>1, <2>2 DEF Moves
<1>5. QED BY <1>3, <1>4

-----------------------------------------------------------------------------
(* How a node moves its run                                                   *)

QuietNode(k) ==
  \/ SendInquiryFollowup(k) \/ NormalizeRequirement(k)
  \/ ExactProductCodeLookup(k) \/ StructuredSpecificationMatch(k) \/ MatchRequirement(k)
  \/ ResolveCustomerIdentity(k) \/ LoadCustomer360(k) \/ QualifyCustomer(k)
  \/ CheckFeasibility(k) \/ ComputePricing(k) \/ ComposeReminder(k) \/ DispatchFollowup(k)
  \/ AnalyzeReply(k) \/ RecordCommercialAcceptance(k) \/ ComposePositiveResponse(k)
  \/ EvaluateCounteroffer(k) \/ ComposeRejection(k) \/ ComposeObjectionResponse(k)
  \/ DispatchMessage(k) \/ SendPoCorrection(k) \/ BuildHandoffPackages(k)
  \/ FinalizeAudit(k) \/ RequestApproval(k) \/ CheckTrigger(k)

(* What such a node leaves alone in the state of its run, and where it leads. *)
Alters(k, st) ==
  /\ st \in StateType
  /\ st.po = S(k).po /\ st.quote = S(k).quote /\ st.handoff = S(k).handoff
  /\ Barren(S(k)) /\ task[k].pc \in BarrenNodes => Barren(st)
Leads(k, next) ==
  /\ next \in Ends
  /\ next \notin {"send_quotation", "allocate_rows", "mark_order_won", "create_sales_order",
                  "build_handoff_packages", "notify_departments", "finalize_audit"}
  /\ next = "dispatch_handoff" => At(k, "build_handoff_packages")
  /\ next = "extract_inquiry" => At(k, "check_trigger") /\ task[k].trigger = "inquiry"
  /\ Barren(S(k)) /\ task[k].pc \in BarrenNodes /\ task[k].trigger \in Replying =>
       next \in BarrenNodes \cup {"end"}
Moving(k) == \E st, next : Goes(k, st, next) /\ Alters(k, st) /\ Leads(k, next)

(* The state of a run is typed.                                               *)
LEMMA StateOf == ASSUME TypeOK, NEW k \in Tasks PROVE S(k) \in StateType
  BY DEF TypeOK, TaskType, S

(* A state alters into itself,                                                *)
LEMMA SameAlters == ASSUME TypeOK, NEW k \in Tasks PROVE Alters(k, S(k))
  BY StateOf DEF Alters

(* with another status,                                                       *)
LEMMA StatusAlters ==
  ASSUME TypeOK, NEW k \in Tasks, NEW s \in Statuses
  PROVE  Alters(k, WithStatus(k, s))
<1> DEFINE st == [S(k) EXCEPT !.status = s]
<1>1. st \in StateType
  BY StateOf DEF StateType
<1>2. /\ st.po = S(k).po /\ st.quote = S(k).quote /\ st.handoff = S(k).handoff
      /\ st.price = S(k).price /\ st.stage = S(k).stage /\ st.missing = S(k).missing
      /\ st.offer = S(k).offer /\ st.analysis = S(k).analysis
  BY StateOf DEF StateType
<1> HIDE DEF st
<1>3. Alters(k, st)
  BY <1>1, <1>2 DEF Alters, Barren
<1>4. QED BY <1>3 DEF WithStatus, st

(* or waiting for another stage.                                              *)
LEMMA StageAlters ==
  ASSUME TypeOK, NEW k \in Tasks, NEW s \in Stages \cup {None},
         s # None => task[k].pc \notin BarrenNodes
  PROVE  Alters(k, [S(k) EXCEPT !.stage = s])
<1> DEFINE st == [S(k) EXCEPT !.stage = s]
<1>1. st \in StateType
  BY StateOf DEF StateType
<1>2. /\ st.po = S(k).po /\ st.quote = S(k).quote /\ st.handoff = S(k).handoff
      /\ st.price = S(k).price /\ st.stage = s /\ st.missing = S(k).missing
      /\ st.offer = S(k).offer /\ st.analysis = S(k).analysis
  BY StateOf DEF StateType
<1> HIDE DEF st
<1>3. Alters(k, st)
  BY <1>1, <1>2 DEF Alters, Barren
<1>4. QED BY <1>3 DEF st

Failed(k) == [S(k) EXCEPT !.status = "failed", !.error = TRUE, !.missing = FALSE]

(* A failure alters the state;                                                *)
LEMMA FailAlters == ASSUME TypeOK, NEW k \in Tasks PROVE Alters(k, Failed(k))
<1> DEFINE st == [S(k) EXCEPT !.status = "failed", !.error = TRUE, !.missing = FALSE]
<1>1. st \in StateType
  BY StateOf DEF StateType, Statuses
<1>2. /\ st.po = S(k).po /\ st.quote = S(k).quote /\ st.handoff = S(k).handoff
      /\ st.price = S(k).price /\ st.stage = S(k).stage /\ st.missing = FALSE
      /\ st.offer = S(k).offer /\ st.analysis = S(k).analysis
  BY StateOf DEF StateType
<1> HIDE DEF st
<1>3. Alters(k, st)
  BY <1>1, <1>2 DEF Alters, Barren
<1>4. QED BY <1>3 DEF Failed, st

(* it is a move to the end or to a node that may follow,                      *)
LEMMA FailMoves ==
  ASSUME TypeOK, NEW k \in Tasks, NEW next, Leads(k, next), Fails(k, next)
  PROVE  Moving(k)
<1>1. Goes(k, Failed(k), next)
  BY DEF Fails, Failed
<1>2. QED BY <1>1, FailAlters DEF Moving

(* which every node may have.                                                 *)
LEMMA EndLeads == ASSUME NEW k PROVE Leads(k, "end")
  BY DEF Leads, Ends

(* So is passing a node,                                                      *)
LEMMA PassMoves ==
  ASSUME TypeOK, NEW k \in Tasks, NEW node, NEW st, NEW next, Passes(k, node, st, next),
         Alters(k, st), Leads(k, next)
  PROVE  Moving(k)
<1>1. CASE Goes(k, st, next)
  BY <1>1 DEF Moving
<1>2. CASE Fails(k, "end")
  BY <1>2, EndLeads, FailMoves
<1>3. QED BY <1>1, <1>2 DEF Passes

(* and a gate, open or not.                                                   *)
LEMMA GateMoves ==
  ASSUME TypeOK, NEW k \in Tasks, NEW stage \in Stages, NEW next, task[k].pc \notin BarrenNodes,
         Gate(k, S(k), stage, next), Leads(k, next), Leads(k, "request_approval")
  PROVE  Moving(k)
<1>1. Alters(k, [S(k) EXCEPT !.stage = stage]) /\ Alters(k, [S(k) EXCEPT !.stage = None])
  BY StageAlters
<1>2. QED BY <1>1 DEF Gate, Moving

(* Where an approved stage is resumed.                                        *)
LEMMA EntryOfApproval ==
  /\ Entry("approved", "requirement") = "resolve_customer_identity"
  /\ Entry("approved", "qualification") = "check_feasibility"
  /\ Entry("approved", "feasibility") = "compute_pricing"
  /\ Entry("approved", "pricing") = "generate_quotation"
  /\ Entry("approved", "negotiation") = "prepare_revised_quotation"
  /\ Entry("approved", "po") = "revalidate_order_state"
  /\ Entry("approved", "po_revalidation") = "reserve_inventory"
BY DEF Entry

(* Where everything else begins.                                              *)
LEMMA EntryOfOther ==
  /\ Entry("inquiry", None) = "extract_inquiry"
  /\ Entry("followup", None) = "compose_reminder"
  /\ Entry("customer_reply", None) = "analyze_reply"
  /\ Entry("po_received", None) = "extract_po_fields"
  /\ Entry("retry_pricing", None) = "compute_pricing"
<1>1. None \notin Stages
  BY NoneAssumption
<1>2. QED BY <1>1 DEF Entry, Stages

(* Every node that writes no document moves its run like this.                *)
LEMMA QuietMoves ==
  ASSUME TypeOK, RunsKnown, NEW k \in Tasks, QuietNode(k)
  PROVE  Moving(k)
<1>1. CASE SendInquiryFollowup(k)
  BY <1>1, PassMoves, SameAlters, StatusAlters DEF SendInquiryFollowup, Leads, Ends, Nodes,
    BarrenNodes, Statuses, At, Passes
<1>2. CASE NormalizeRequirement(k)
  BY <1>2, PassMoves, SameAlters, StatusAlters DEF NormalizeRequirement, Leads, Ends, Nodes,
    BarrenNodes, Statuses, At, Passes
<1>3. CASE ResolveCustomerIdentity(k)
  BY <1>3, PassMoves, SameAlters, StatusAlters DEF ResolveCustomerIdentity, Leads, Ends, Nodes,
    BarrenNodes, Statuses, At, Passes
<1>4. CASE LoadCustomer360(k)
  BY <1>4, PassMoves, SameAlters, StatusAlters DEF LoadCustomer360, Leads, Ends, Nodes,
    BarrenNodes, Statuses, At, Passes
<1>5. CASE DispatchFollowup(k)
  BY <1>5, PassMoves, SameAlters, StatusAlters DEF DispatchFollowup, Leads, Ends, Nodes,
    BarrenNodes, Statuses, At, Passes
<1>6. CASE ComposeRejection(k)
  BY <1>6, PassMoves, SameAlters, StatusAlters DEF ComposeRejection, Leads, Ends, Nodes,
    BarrenNodes, Statuses, At, Passes
<1>7. CASE ComposeObjectionResponse(k)
  BY <1>7, PassMoves, SameAlters, StatusAlters DEF ComposeObjectionResponse, Leads, Ends, Nodes,
    BarrenNodes, Statuses, At, Passes
<1>8. CASE DispatchMessage(k)
  BY <1>8, PassMoves, SameAlters, StatusAlters DEF DispatchMessage, Leads, Ends, Nodes,
    BarrenNodes, Statuses, At, Passes
<1>9. CASE SendPoCorrection(k)
  BY <1>9, PassMoves, SameAlters, StatusAlters DEF SendPoCorrection, Leads, Ends, Nodes,
    BarrenNodes, Statuses, At, Passes
<1>10. CASE BuildHandoffPackages(k)
  BY <1>10, PassMoves, SameAlters, StatusAlters DEF BuildHandoffPackages, Leads, Ends, Nodes,
    BarrenNodes, Statuses, At, Passes
<1>11. CASE FinalizeAudit(k)
  BY <1>11, PassMoves, SameAlters, StatusAlters DEF FinalizeAudit, Leads, Ends, Nodes,
    BarrenNodes, Statuses, At, Passes
<1>12. CASE RequestApproval(k)
  BY <1>12, PassMoves, SameAlters, StatusAlters DEF RequestApproval, Leads, Ends, Nodes,
    BarrenNodes, Statuses, At, Passes
<1>13. CASE ExactProductCodeLookup(k)
  BY <1>13, PassMoves, SameAlters, StatusAlters DEF ExactProductCodeLookup, Leads, Ends, Nodes,
    BarrenNodes, Statuses, At, Passes
<1>14. CASE AnalyzeReply(k)
  BY <1>14, PassMoves, SameAlters, StatusAlters DEF AnalyzeReply, Leads, Ends, Nodes,
    BarrenNodes, Statuses, At, Passes
<1>15. CASE CheckTrigger(k)
  <2> DEFINE next == Entry(task[k].trigger, task[k].approved)
  <2>1. /\ Passes(k, "check_trigger", S(k), next) /\ task[k].pc = "check_trigger"
        /\ task[k].trigger \in Triggers
        /\ IF task[k].trigger = "approved" THEN task[k].approved \in Stages
           ELSE task[k].approved = None
    BY <1>15 DEF CheckTrigger, RunsKnown, RunKnown, Passes, At
  <2>2. Leads(k, next)
    <3>1. \/ task[k].trigger = "inquiry" /\ next = "extract_inquiry"
          \/ task[k].trigger = "followup" /\ next = "compose_reminder"
          \/ task[k].trigger = "customer_reply" /\ next = "analyze_reply"
          \/ task[k].trigger = "po_received" /\ next = "extract_po_fields"
          \/ task[k].trigger \notin Replying /\ next \in {"resolve_customer_identity",
               "check_feasibility", "compute_pricing", "generate_quotation",
               "prepare_revised_quotation", "revalidate_order_state", "reserve_inventory"}
      BY <2>1, EntryOfApproval, EntryOfOther DEF Triggers, Stages, Replying
    <3> HIDE DEF next
    <3>2. QED BY <2>1, <3>1 DEF Leads, At, Ends, Nodes, BarrenNodes, Replying
  <2> HIDE DEF next
  <2>3. QED BY <2>1, <2>2, SameAlters, PassMoves
<1>16. CASE StructuredSpecificationMatch(k)
  BY <1>16, SameAlters, StatusAlters, StageAlters, FailMoves,
    GateMoves DEF StructuredSpecificationMatch, Acknowledges, Moving, Leads, Ends, Nodes,
    BarrenNodes, Statuses, Stages, At
<1>17. CASE MatchRequirement(k)
  BY <1>17, SameAlters, StatusAlters, StageAlters, FailMoves, GateMoves DEF MatchRequirement,
    Acknowledges, Moving, Leads, Ends, Nodes, BarrenNodes, Statuses, Stages, At
<1>18. CASE QualifyCustomer(k)
  BY <1>18, SameAlters, StatusAlters, StageAlters, FailMoves, GateMoves DEF QualifyCustomer,
    Acknowledges, Moving, Leads, Ends, Nodes, BarrenNodes, Statuses, Stages, At
<1>19. CASE CheckFeasibility(k)
  BY <1>19, SameAlters, StatusAlters, StageAlters, FailMoves, GateMoves DEF CheckFeasibility,
    Acknowledges, Moving, Leads, Ends, Nodes, BarrenNodes, Statuses, Stages, At
<1>20. CASE ComposeReminder(k)
  BY <1>20, SameAlters, StatusAlters, StageAlters, FailMoves, GateMoves DEF ComposeReminder,
    Acknowledges, Moving, Leads, Ends, Nodes, BarrenNodes, Statuses, Stages, At
<1>21. CASE RecordCommercialAcceptance(k)
  BY <1>21, SameAlters, StatusAlters, StageAlters, FailMoves,
    GateMoves DEF RecordCommercialAcceptance, Acknowledges, Moving, Leads, Ends, Nodes,
    BarrenNodes, Statuses, Stages, At
<1>22. CASE ComposePositiveResponse(k)
  BY <1>22, SameAlters, StatusAlters, StageAlters, FailMoves,
    GateMoves DEF ComposePositiveResponse, Acknowledges, Moving, Leads, Ends, Nodes, BarrenNodes,
    Statuses, Stages, At
<1>23. CASE ComputePricing(k)
  <2>1. At(k, "compute_pricing")
    BY <1>23 DEF ComputePricing
  <2>2. \A next \in {"request_approval", "generate_quotation", "end"} : Leads(k, next)
    BY <2>1 DEF Leads, Ends, Nodes, BarrenNodes, At
  <2>3. ASSUME NEW p \in Prices
        PROVE  Alters(k, [S(k) EXCEPT !.price = p,
                                      !.stage = IF NeedsApproval(p) THEN "pricing" ELSE None])
    BY <2>1, StateOf DEF Alters, StateType, PriceOrNot, Stages, BarrenNodes, At
  <2>4. Alters(k, [S(k) EXCEPT !.price = Impossible, !.status = "blocked",
                               !.missing = TRUE, !.stage = None])
    BY <2>1, StateOf DEF Alters, StateType, PriceOrNot, Statuses, BarrenNodes, At
  <2>5. QED BY <1>23, <2>2, <2>3, <2>4, FailMoves DEF ComputePricing, Moving
<1>24. CASE EvaluateCounteroffer(k)
  <2>1. At(k, "evaluate_counteroffer")
    BY <1>24 DEF EvaluateCounteroffer
  <2>2. CASE Fails(k, "end")
    BY <2>2, EndLeads, FailMoves
  <2>3. CASE ~ Fails(k, "end")
    <3>1. S(k).price # None
      BY <1>24, <2>3 DEF EvaluateCounteroffer
    <3>2. PICK offered \in Offers, overCredit \in BOOLEAN :
            LET decision == Decision(offered, S(k).price, overCredit)
            IN Goes(k, [S(k) EXCEPT
                          !.analysis = [price |-> offered, auto |-> decision = "acceptable"],
                          !.stage = IF decision = "acceptable" THEN None ELSE "negotiation",
                          !.status = "processing"],
                    CASE decision = "acceptable" -> "prepare_revised_quotation"
                      [] decision = "needs_approval" -> "request_approval"
                      [] decision = "below_floor" -> "compose_rejection")
      BY <1>24, <2>3 DEF EvaluateCounteroffer
    <3> DEFINE decision == Decision(offered, S(k).price, overCredit)
               st == [S(k) EXCEPT
                        !.analysis = [price |-> offered, auto |-> decision = "acceptable"],
                        !.stage = IF decision = "acceptable" THEN None ELSE "negotiation",
                        !.status = "processing"]
               next == CASE decision = "acceptable" -> "prepare_revised_quotation"
                         [] decision = "needs_approval" -> "request_approval"
                         [] decision = "below_floor" -> "compose_rejection"
    <3>3. decision \in {"acceptable", "needs_approval", "below_floor"}
      BY DEF Decision
    <3>4. Leads(k, next)
      <4> HIDE DEF decision
      <4>1. QED BY <3>1, <3>3 DEF Leads, Ends, Nodes, Barren
    <3>5. Alters(k, st)
      <4> HIDE DEF decision
      <4>1. QED BY <3>1, StateOf DEF Alters, StateType, Stages, Statuses, Barren
    <3>6. Goes(k, st, next)
      BY <3>2
    <3> HIDE DEF st, next
    <3>7. QED BY <3>4, <3>5, <3>6 DEF Moving
  <2>4. QED BY <2>2, <2>3
<1>25. QED BY <1>1, <1>2, <1>3, <1>4, <1>5, <1>6, <1>7, <1>8, <1>9, <1>10, <1>11, <1>12, <1>13,
  <1>14, <1>15, <1>16, <1>17, <1>18, <1>19, <1>20, <1>21, <1>22, <1>23, <1>24 DEF QuietNode

-----------------------------------------------------------------------------
(* Documents are only ever added to                                           *)

(* The documents of a conversation are only ever added to.                    *)
Grows(t) ==
  /\ Len(quotes[t]) <= Len(quotes'[t]) /\ Len(purchases[t]) <= Len(purchases'[t])
  /\ \A j \in DOMAIN orders[t] : j \in DOMAIN orders'[t] /\ orders'[t][j] = orders[t][j]
  /\ \A i \in DOMAIN handoffs[t] : /\ i \in DOMAIN handoffs'[t]
                                   /\ handoffs'[t][i].po = handoffs[t][i].po
  /\ lead[t] = "won" => lead'[t] = "won"
DocumentsGrow == reserved \subseteq reserved' /\ \A t \in Threads : Grows(t)

DocumentTypes ==
  /\ quotes \in [Threads -> Seq(QuoteType)]
  /\ revised \in [Threads -> SUBSET [price : Offers, auto : BOOLEAN, approved : BOOLEAN]]
  /\ purchases \in [Threads -> Seq(PurchaseType)]
  /\ orders \in [Threads -> Seq(Nat)]
  /\ reserved \subseteq [thread : Threads, po : Nat, row : Rows, quantity : Nat]
  /\ handoffs \in [Threads -> Seq([po : Nat, told : 0 .. Departments, marked : BOOLEAN])]
  /\ lead \in [Threads -> {"none", "open", "won"}]

(* Nothing is lost where nothing is written.                                  *)
LEMMA QuietGrows ==
  ASSUME TypeOK, UNCHANGED <<documents, lead>>
  PROVE  DocumentsGrow /\ (DocumentTypes => DocumentTypes')
<1>1. \A t \in Threads : Len(quotes[t]) \in Nat /\ Len(purchases[t]) \in Nat
  BY DEF TypeOK
<1>2. DocumentsGrow
  BY <1>1 DEF DocumentsGrow, Grows, documents
<1>3. DocumentTypes => DocumentTypes'
  BY DEF DocumentTypes, documents
<1>4. QED BY <1>2, <1>3

(* What a state names stays,                                                  *)
LEMMA KnownGrows ==
  ASSUME TypeOK, DocumentTypes', DocumentsGrow, NEW t \in Threads, NEW st, Known(t, st)
  PROVE  Known(t, st)'
<1>1. /\ Len(quotes[t]) \in Nat /\ Len(quotes'[t]) \in Nat
      /\ Len(purchases[t]) \in Nat /\ Len(purchases'[t]) \in Nat
  BY DEF TypeOK, DocumentTypes
<1>2. QED BY <1>1 DEF DocumentsGrow, Grows, Known

(* and what documents a node stays.                                           *)
LEMMA DocumentedGrows ==
  ASSUME DocumentsGrow, NEW t \in Threads, NEW st, NEW node, Documented(t, st, node)
  PROVE  Documented(t, st, node)'
<1>1. Held(t, st.po) # {} => Held(t, st.po)' # {}
  BY DEF DocumentsGrow, Held
<1>2. Ordered(t, st.po) => Ordered(t, st.po)'
  BY DEF DocumentsGrow, Grows, Ordered
<1>3. QED BY <1>1, <1>2 DEF Documented, DocumentsGrow, Grows

(* A step of one run keeps what is known of all runs.                          *)
LEMMA RunStep ==
  ASSUME RunsInv, DocumentTypes', DocumentsGrow, NEW k \in Tasks, Running(k),
         NEW t \in Threads, t = Thread(k), NEW c \in StateType, NEW st \in StateType, NEW next \in Ends,
         Moves(k, c, st, next), Known(t, c)', Known(t, st)',
         Documented(t, st, next)',
         Barren(S(k)) /\ task[k].pc \in BarrenNodes =>
           /\ Barren(st)
           /\ task[k].trigger \in Replying => next \in BarrenNodes \cup {"end"},
         c = st \/ c = checkpoint[t],
         next = "extract_inquiry" => At(k, "check_trigger") /\ task[k].trigger = "inquiry",
         \A u \in Threads : lead'[u] # lead[u] =>
           u = t /\ task[k].pc \in {"extract_inquiry", "mark_order_won"}
  PROVE  RunsInv'
<1>0. /\ RunKnown(k) /\ task[k].pc \notin {"idle", "received"}
      /\ checkpoint[t] # None
  BY DEF RunsInv, RunsKnown, RunKnown, Running
<1>1. /\ checkpoint'[t] = c /\ c # None
      /\ \A u \in Threads \ {t} : checkpoint'[u] = checkpoint[u]
  BY <1>0, NoneAssumption DEF Moves, RunsInv, TypeOK
<1>2. TypeOK'
  BY DEF RunsInv, TypeOK, DocumentTypes, Moves, counters
<1>3. RunsKnown'
  <2>1. RunKnown(k)'
    <3>1. CASE next = "end"
      BY <3>1 DEF Moves, RunKnown, Idle
    <3>2. CASE next # "end"
      BY <1>0, <1>1, <3>2 DEF Moves, RunKnown, Ends, Nodes, Thread, S, Known
    <3>3. QED BY <3>1, <3>2
  <2>2. ASSUME NEW j \in Tasks \ {k}
        PROVE  RunKnown(j)'
    <3>1. RunKnown(j) /\ task'[j] = task[j]
      BY DEF RunsInv, RunsKnown, Moves
    <3>2. task[j].pc # "idle" => Known(Thread(j), S(j))'
      BY <3>1, KnownGrows DEF RunKnown, Known, Thread, S, RunsInv
    <3>3. task[j].pc # "idle" => (checkpoint[Thread(j)] # None => checkpoint'[Thread(j)] # None)
      BY <1>0, <1>1, <3>1 DEF RunKnown
    <3>4. QED BY <3>1, <3>2, <3>3 DEF RunKnown, Thread, S, Known
  <2>3. QED BY <2>1, <2>2 DEF RunsKnown
<1>4. ThreadsKnown'
  <2>1. ASSUME NEW u \in Threads
        PROVE  ThreadKnown(u)'
    <3>1. ThreadKnown(u)
      BY DEF RunsInv, ThreadsKnown
    <3>2. CASE u = t
      BY <1>1, <3>2 DEF ThreadKnown, Known
    <3>3. CASE u # t
      <4>1. checkpoint'[u] = checkpoint[u] /\ lead'[u] = lead[u] /\ closed'[u] = closed[u]
            /\ crm'[u] = crm[u]
        BY <1>1, <3>3 DEF Moves
      <4>2. checkpoint[u] # None => Known(u, checkpoint[u])'
        BY <3>1, <4>1, KnownGrows DEF ThreadKnown, RunsInv, Known
      <4>3. QED BY <3>1, <4>1, <4>2 DEF ThreadKnown, Known
    <3>4. QED BY <3>2, <3>3
  <2>2. QED BY <2>1 DEF ThreadsKnown
<1>5. EarlyInquiry'
  <2>0. \A j \in Tasks \ {k} : task'[j] = task[j]
    BY DEF Moves
  <2>1. ASSUME NEW e \in Tasks, Early(e)'
        PROVE  EarlyAlone(e)'
    <3>1. Early(e) /\ (e = k => At(k, "check_trigger") /\ next = "extract_inquiry")
      <4>1. CASE e = k
        <5>1. next \in {"extract_inquiry", "end"}
          BY <2>1, <4>1 DEF Early, Moves, Ends, Nodes, Idle
        <5>2. next # "end"
          BY <2>1, <4>1 DEF Early, Moves, Idle
        <5>3. QED BY <4>1, <5>1, <5>2 DEF Early, At
      <4>2. CASE e # k
        BY <2>0, <2>1, <4>2 DEF Early
      <4>3. QED BY <4>1, <4>2
    <3>2. EarlyAlone(e) /\ Thread(e) \in Threads /\ RunKnown(e)
      BY <3>1 DEF RunsInv, EarlyInquiry, Early, RunsKnown, RunKnown
    <3>3. task[e].pc = "received" => Thread(e) # t
      BY <1>0, <3>2 DEF EarlyAlone
    <3>4. Thread(e) = t => Barren(S(k)) /\ task[k].pc \in BarrenNodes
                           /\ (e # k => task[k].trigger \in Replying)
      BY <3>1, <3>2 DEF EarlyAlone, On, At, BarrenNodes
    <3>5. lead'[Thread(e)] = "none"
      <4>1. Thread(e) = t => task[k].pc \notin {"extract_inquiry", "mark_order_won"}
        BY <3>4 DEF BarrenNodes
      <4>2. QED BY <3>2, <4>1 DEF EarlyAlone
    <3>6. /\ Thread(e)' = Thread(e)
          /\ task'[e].pc = "received" => task[e].pc = "received"
      BY <2>0, <3>1 DEF Thread, Moves, Ends, Nodes
    <3>7. task[e].pc = "received" => checkpoint'[Thread(e)] = None
      BY <1>1, <3>2, <3>3 DEF EarlyAlone
    <3>8. checkpoint'[Thread(e)] # None => Barren(checkpoint'[Thread(e)])
      BY <1>0, <1>1, <3>2, <3>4 DEF EarlyAlone
    <3>9. Barren(S(e)')
      BY <2>0, <3>1, <3>2, <3>4 DEF EarlyAlone, S, Moves
    <3>10. ASSUME NEW j \in Tasks \ {e}, On(j, Thread(e))'
           PROVE  task'[j].trigger \in Replying /\ task'[j].pc \in BarrenNodes /\ Barren(S(j)')
      <4>1. j # k => task'[j] = task[j]
        BY <2>0
      <4>2. CASE j = k
        <5>1. next # "end"
          BY <3>2, <3>6, <3>10, <4>2, NoneAssumption DEF On, Moves, Idle, Thread
        <5>2. Thread(k) = Thread(e)
          BY <3>6, <3>10, <4>2, <5>1 DEF On, Moves, Thread
        <5>3. QED BY <3>4, <4>2, <5>1, <5>2 DEF Moves, S
      <4>3. CASE j # k
        <5>1. On(j, Thread(e))
          BY <3>6, <3>10, <4>1, <4>3 DEF On, Thread
        <5>2. QED BY <3>2, <4>1, <4>3, <5>1 DEF EarlyAlone, S
      <4>4. QED BY <4>2, <4>3
    <3>11. QED BY <3>5, <3>6, <3>7, <3>8, <3>9, <3>10 DEF EarlyAlone, Barren, On, S, Thread
  <2>2. QED BY <2>1 DEF EarlyInquiry
<1>6. RunsDocumented'
  <2>1. Documented(Thread(k), S(k), task[k].pc)'
    <3>1. CASE next = "end"
      BY <3>1 DEF Moves, Documented, Idle, Confirming
    <3>2. CASE next # "end"
      BY <3>2 DEF Moves, Thread, S, Documented, Held, Ordered
    <3>3. QED BY <3>1, <3>2
  <2>2. ASSUME NEW j \in Tasks \ {k}
        PROVE  Documented(Thread(j), S(j), task[j].pc)'
    <3>1. task'[j] = task[j] /\ Documented(Thread(j), S(j), task[j].pc)
      BY DEF RunsInv, RunsDocumented, Moves
    <3>2. CASE task[j].pc = "idle"
      BY <3>1, <3>2 DEF Documented, Confirming
    <3>3. CASE task[j].pc # "idle"
      <4>1. Thread(j) \in Threads
        BY <3>3 DEF RunsInv, RunsKnown, RunKnown
      <4>2. \A u, s, n : u = Thread(j) /\ s = S(j) /\ n = task[j].pc => Documented(u, s, n)'
        BY <3>1, <4>1, DocumentedGrows
      <4>3. QED BY <3>1, <4>2 DEF Thread, S, Documented, Held, Ordered
    <3>4. QED BY <3>2, <3>3
  <2>3. QED BY <2>1, <2>2 DEF RunsDocumented
<1>7. QED BY <1>2, <1>3, <1>4, <1>5, <1>6 DEF RunsInv

(* These nodes write no document.                                             *)
LEMMA QuietIsQuiet ==
  ASSUME NEW k, QuietNode(k)
  PROVE  Quiet /\ Running(k)
<1> USE DEF Running, At, Passes, Acknowledges
<1>1. Quiet
  BY DEF QuietNode, SendInquiryFollowup, NormalizeRequirement, ExactProductCodeLookup,
    StructuredSpecificationMatch, MatchRequirement, ResolveCustomerIdentity, LoadCustomer360,
    QualifyCustomer, CheckFeasibility, ComputePricing, ComposeReminder, DispatchFollowup,
    AnalyzeReply, RecordCommercialAcceptance, ComposePositiveResponse, EvaluateCounteroffer,
    ComposeRejection, ComposeObjectionResponse, DispatchMessage, SendPoCorrection,
    BuildHandoffPackages, FinalizeAudit, RequestApproval, CheckTrigger
<1>2. Running(k)
  BY DEF QuietNode, SendInquiryFollowup, NormalizeRequirement, ExactProductCodeLookup,
    StructuredSpecificationMatch, MatchRequirement, ResolveCustomerIdentity, LoadCustomer360,
    QualifyCustomer, CheckFeasibility, ComputePricing, ComposeReminder, DispatchFollowup,
    AnalyzeReply, RecordCommercialAcceptance, ComposePositiveResponse, EvaluateCounteroffer,
    ComposeRejection, ComposeObjectionResponse, DispatchMessage, SendPoCorrection,
    BuildHandoffPackages, FinalizeAudit, RequestApproval, CheckTrigger
<1>3. QED BY <1>1, <1>2

(* What is known of a run that works.                                         *)
LEMMA RunFacts ==
  ASSUME RunsInv, NEW k \in Tasks, Running(k)
  PROVE  /\ Thread(k) \in Threads /\ RunKnown(k) /\ Known(Thread(k), S(k))
         /\ Documented(Thread(k), S(k), task[k].pc) /\ S(k) \in StateType
         /\ checkpoint[Thread(k)] # None /\ checkpoint[Thread(k)] \in StateType
         /\ Known(Thread(k), checkpoint[Thread(k)])
<1>1. RunKnown(k) /\ Thread(k) \in Threads
  BY DEF RunsInv, RunsKnown, RunKnown, Running
<1>2. checkpoint[Thread(k)] # None /\ Known(Thread(k), S(k))
  BY <1>1 DEF RunKnown, Running
<1>3. checkpoint[Thread(k)] \in StateType
  BY <1>1, <1>2 DEF RunsInv, TypeOK
<1>4. QED BY <1>1, <1>2, <1>3, StateOf DEF RunsInv, RunsDocumented, ThreadsKnown, ThreadKnown

(* They preserve the invariant.                                               *)
LEMMA QuietNext == 
  ASSUME BaseInv, NEW k \in Tasks, QuietNode(k)
  PROVE  BaseInv'
<1> DEFINE t == Thread(k)
<1>1. Quiet /\ Running(k)
  BY QuietIsQuiet
<1>2. /\ t \in Threads /\ Known(t, S(k)) /\ Documented(t, S(k), task[k].pc)
  BY <1>1, RunFacts DEF BaseInv
<1>3. PICK st, next : Goes(k, st, next) /\ Alters(k, st) /\ Leads(k, next)
  BY QuietMoves DEF BaseInv, RunsInv, Moving
<1>4. st \in StateType /\ next \in Ends /\ Moves(k, st, st, next)
  BY <1>2, <1>3, GoesMoves DEF BaseInv, RunsInv, Alters, Leads
<1>5. UNCHANGED <<documents, lead>> /\ DocumentsGrow /\ DocumentTypes'
  <2>1. DocumentTypes
    BY DEF BaseInv, RunsInv, TypeOK, DocumentTypes
  <2>2. QED BY <1>1, <2>1, QuietGrows DEF Quiet, BaseInv, RunsInv
<1>6. PICK u \in Threads : u = t
  BY <1>2
<1>7. Known(u, st)'
  <2>1. Known(u, st)
    BY <1>2, <1>3, <1>6 DEF Known, Alters
  <2>2. QED BY <1>5, <2>1, KnownGrows DEF BaseInv, RunsInv
<1>8. Documented(u, st, next)'
  <2>1. Documented(u, st, next)
    BY <1>2, <1>3, <1>6 DEF Documented, Leads, Alters, At, Confirming
  <2>2. QED BY <1>5, <2>1, DocumentedGrows DEF BaseInv, RunsInv
<1>9. RunsInv'
  <2>1. lead' = lead
    BY <1>5
  <2>2. QED BY <1>1, <1>3, <1>4, <1>5, <1>6, <1>7, <1>8, <2>1, RunStep DEF BaseInv, Alters, Leads
<1>10. DocumentsAgree' /\ HandoffsAgree'
  BY <1>5 DEF BaseInv, RunsInv, documents, DocumentsAgree, HandoffsAgree, Ordered
<1>11. QED BY <1>9, <1>10 DEF BaseInv, RunsInv

-----------------------------------------------------------------------------
(* Documents kept in sequences, one for each conversation                     *)

LEMMA Appended ==
  ASSUME NEW T, NEW f \in [Threads -> Seq(T)], NEW t \in Threads, NEW e \in T,
         NEW g, g = [f EXCEPT ![t] = Append(@, e)]
  PROVE  /\ g \in [Threads -> Seq(T)]
         /\ \A u \in Threads : DOMAIN f[u] = 1 .. Len(f[u]) /\ DOMAIN g[u] = 1 .. Len(g[u])
         /\ \A u \in Threads \ {t} : g[u] = f[u]
         /\ Len(f[t]) \in Nat /\ Len(g[t]) = Len(f[t]) + 1
         /\ \A i \in DOMAIN f[t] : g[t][i] = f[t][i]
         /\ g[t][Len(f[t]) + 1] = e
<1>1. f[t] \in Seq(T) /\ Append(f[t], e) \in Seq(T)
  OBVIOUS
<1>2. g[t] = Append(f[t], e) /\ \A u \in Threads \ {t} : g[u] = f[u]
  OBVIOUS
<1>3. g \in [Threads -> Seq(T)]
  BY <1>1
<1>4. \A u \in Threads : DOMAIN f[u] = 1 .. Len(f[u]) /\ DOMAIN g[u] = 1 .. Len(g[u])
  BY <1>3
<1>5. Len(f[t]) \in Nat /\ Len(g[t]) = Len(f[t]) + 1 /\ g[t][Len(f[t]) + 1] = e
  BY <1>1, <1>2
<1>6. \A i \in DOMAIN f[t] : g[t][i] = f[t][i]
  BY <1>1, <1>2
<1>7. QED BY <1>2, <1>3, <1>4, <1>5, <1>6

(* One document of a conversation is replaced.                                *)
LEMMA Replaced ==
  ASSUME NEW T, NEW f \in [Threads -> Seq(T)], NEW t \in Threads, NEW e,
         e \in [DOMAIN f[t] -> T], NEW g, g = [f EXCEPT ![t] = e]
  PROVE  /\ g \in [Threads -> Seq(T)]
         /\ \A u \in Threads : Len(g[u]) = Len(f[u]) /\ DOMAIN g[u] = DOMAIN f[u]
                               /\ DOMAIN f[u] = 1 .. Len(f[u]) /\ Len(f[u]) \in Nat
         /\ \A u \in Threads \ {t} : g[u] = f[u]
         /\ g[t] = e
<1>1. f[t] \in Seq(T) /\ DOMAIN f[t] = 1 .. Len(f[t]) /\ Len(f[t]) \in Nat
  OBVIOUS
<1>2. e \in Seq(T) /\ Len(e) = Len(f[t]) /\ DOMAIN e = DOMAIN f[t]
  BY <1>1
<1>3. g[t] = e /\ \A u \in Threads \ {t} : g[u] = f[u]
  OBVIOUS
<1>4. g \in [Threads -> Seq(T)]
  BY <1>2
<1>5. QED BY <1>2, <1>3, <1>4

-----------------------------------------------------------------------------

(* The documents are typed to begin with.                                     *)
LEMMA OldTypes == RunsInv => DocumentTypes
  BY DEF RunsInv, TypeOK, DocumentTypes

(* A node that fails changes nothing of what its run knows.                   *)
LEMMA FailStep ==
  ASSUME RunsInv, DocumentTypes', DocumentsGrow, NEW k \in Tasks, Running(k),
         NEW next \in {"end", "dispatch_quotation", "validate_po"}, Fails(k, next),
         next = "dispatch_quotation" => task[k].pc \notin BarrenNodes,
         \A u \in Threads : lead'[u] # lead[u] =>
           u = Thread(k) /\ task[k].pc \in {"extract_inquiry", "mark_order_won"}
  PROVE  RunsInv'
<1>1. PICK st : st = Failed(k)
  OBVIOUS
<1>2. Goes(k, st, next) /\ Alters(k, st)
  BY <1>1, FailAlters DEF Fails, Failed, RunsInv
<1>3. PICK t \in Threads : t = Thread(k)
  BY RunFacts
<1>4. next \in Ends /\ st \in StateType /\ Moves(k, st, st, next)
  BY <1>2, <1>3, GoesMoves DEF RunsInv, Alters, Ends, Nodes
<1>5. Known(t, st)'
  <2>1. Known(t, st)
    BY <1>2, <1>3, RunFacts DEF Known, Alters
  <2>2. QED BY <2>1, KnownGrows DEF RunsInv
<1>6. Documented(t, st, next)'
  BY DEF Documented, Confirming
<1>7. next # "extract_inquiry" /\ (task[k].pc \in BarrenNodes => next \in BarrenNodes \cup {"end"})
  BY DEF BarrenNodes
<1>8. QED BY <1>2, <1>3, <1>4, <1>5, <1>6, <1>7, RunStep DEF Alters

(* Documents that are not written are not lost.                               *)
LEMMA PapersGrow ==
  ASSUME BaseInv, DocumentTypes', DocumentsGrow, UNCHANGED <<orders, reserved, handoffs, lead>>
  PROVE  DocumentsAgree' /\ HandoffsAgree'
<1>1. \A t \in Threads : DOMAIN purchases[t] \subseteq DOMAIN purchases'[t]
  <2>1. ASSUME NEW t \in Threads
        PROVE  DOMAIN purchases[t] \subseteq DOMAIN purchases'[t]
    <3>1. purchases[t] \in Seq(PurchaseType) /\ purchases'[t] \in Seq(PurchaseType)
      BY DEF BaseInv, RunsInv, TypeOK, DocumentTypes
    <3>2. Len(purchases[t]) <= Len(purchases'[t])
      BY DEF DocumentsGrow, Grows
    <3>3. QED BY <3>1, <3>2
  <2>2. QED BY <2>1
<1>2. \A r \in reserved : r.thread \in Threads
  BY DEF BaseInv, RunsInv, TypeOK
<1>3. QED BY <1>1, <1>2 DEF BaseInv, DocumentsAgree, HandoffsAgree, Ordered

-----------------------------------------------------------------------------
(* Nodes that write documents                                                 *)

(* The step of a run that goes on.                                            *)
LEMMA GoStep ==
  ASSUME RunsInv, DocumentTypes', DocumentsGrow, NEW k \in Tasks, Running(k),
         NEW t \in Threads, t = Thread(k), NEW st \in StateType, NEW next \in Ends, Goes(k, st, next),
         Known(t, st)', Documented(t, st, next)', next # "extract_inquiry",
         task[k].pc \in BarrenNodes /\ Barren(S(k)) =>
           Barren(st) /\ next \in BarrenNodes \cup {"end"},
         \A u \in Threads : lead'[u] # lead[u] =>
           u = t /\ task[k].pc \in {"extract_inquiry", "mark_order_won"}
  PROVE  RunsInv'
<1>1. Moves(k, st, st, next)
  BY GoesMoves DEF RunsInv
<1>2. QED BY <1>1, RunStep

(* A new inquiry opens its lead.                                              *)
LEMMA ExtractInquiryNext ==
  ASSUME BaseInv, NEW k \in Tasks, ExtractInquiry(k)
  PROVE  BaseInv'
<1>1. At(k, "extract_inquiry") /\ Running(k) /\ RunsInv
  BY DEF ExtractInquiry, At, Running, BaseInv
<1>2. PICK t \in Threads : t = Thread(k)
  BY <1>1, RunFacts
<1>3. lead[t] = "none"
  BY <1>1, <1>2, RunFacts DEF RunsInv, EarlyInquiry, Early, EarlyAlone, RunKnown, At, Running
<1>4. lead' \in {lead, [lead EXCEPT ![t] = "open"]} /\ UNCHANGED documents
  BY <1>2 DEF ExtractInquiry
<1>5. /\ DocumentTypes'
      /\ \A u \in Threads : lead'[u] # lead[u] => u = t
  BY <1>4, OldTypes, <1>1 DEF DocumentTypes, documents
<1>6. DocumentsGrow
  <2>1. \A u \in Threads : Len(quotes[u]) \in Nat /\ Len(purchases[u]) \in Nat
    BY <1>1 DEF RunsInv, TypeOK
  <2>2. QED BY <1>3, <1>4, <1>5, <2>1 DEF DocumentsGrow, Grows, documents
<1>7. RunsInv'
  <2>1. CASE Fails(k, "end")
    BY <1>1, <1>2, <1>5, <1>6, <2>1, FailStep DEF At
  <2>2. CASE ~ Fails(k, "end")
    <3>1. PICK next \in {"send_inquiry_followup", "normalize_requirement"} :
            Goes(k, WithStatus(k, "processing"), next)
      BY <2>2 DEF ExtractInquiry
    <3>2. PICK st : st = WithStatus(k, "processing")
      OBVIOUS
    <3>3. Alters(k, st) /\ Goes(k, st, next) /\ next \in Ends
      BY <1>1, <3>1, <3>2, StatusAlters DEF RunsInv, Statuses, Ends, Nodes
    <3>4. Known(t, st)'
      <4>1. Known(t, st)
        BY <1>1, <1>2, <3>3, RunFacts DEF Known, Alters
      <4>2. QED BY <1>1, <1>5, <1>6, <4>1, KnownGrows DEF RunsInv
    <3>5. Documented(t, st, next)'
      BY <3>1 DEF Documented, Confirming
    <3>6. task[k].pc \notin BarrenNodes
      BY <1>1 DEF At, BarrenNodes
    <3>7. QED BY <1>1, <1>2, <1>5, <1>6, <3>1, <3>3, <3>4, <3>5, <3>6, GoStep DEF Alters, At
  <2>3. QED BY <2>1, <2>2
<1>8. DocumentsAgree' /\ HandoffsAgree'
  <2>1. \A u \in Threads : (lead'[u] = "won") <=> (lead[u] = "won")
    BY <1>1, <1>3, <1>4, <1>5 DEF RunsInv, TypeOK
  <2>2. QED BY <1>4, <2>1 DEF BaseInv, DocumentsAgree, HandoffsAgree, Ordered, documents
<1>9. QED BY <1>7, <1>8 DEF BaseInv

(* A revision is prepared.                                                    *)
LEMMA PrepareRevisedQuotationNext ==
  ASSUME BaseInv, NEW k \in Tasks, PrepareRevisedQuotation(k)
  PROVE  BaseInv'
<1>1. At(k, "prepare_revised_quotation") /\ Running(k) /\ RunsInv
  BY DEF PrepareRevisedQuotation, At, Running, BaseInv
<1>2. PICK t \in Threads : t = Thread(k)
  BY <1>1, RunFacts
<1>3. UNCHANGED <<quotes, purchases, orders, reserved, handoffs, lead>>
  BY DEF PrepareRevisedQuotation
<1>4. S(k) \in StateType
  BY <1>1, RunFacts
<1>5. DocumentTypes'
  <2>1. revised' \in [Threads -> SUBSET [price : Offers, auto : BOOLEAN, approved : BOOLEAN]]
    <3> DEFINE T == [price : Offers, auto : BOOLEAN, approved : BOOLEAN]
               version == [price |-> S(k).analysis.price, auto |-> S(k).analysis.auto,
                           approved |-> task[k].approved = "negotiation" /\ task[k].seen = S(k).analysis.price]
    <3>1. S(k).analysis.price # None => version \in T
      BY <1>4 DEF StateType
    <3>2. \/ revised' = [revised EXCEPT ![t] = @ \cup {version}] /\ S(k).analysis.price # None
          \/ revised' = revised
      BY <1>2 DEF PrepareRevisedQuotation
    <3>3. revised \in [Threads -> SUBSET T]
      BY <1>1 DEF RunsInv, TypeOK
    <3> HIDE DEF version, T
    <3>4. revised' \in [Threads -> SUBSET T]
      BY <3>1, <3>2, <3>3
    <3>5. QED BY <3>4 DEF T
  <2>2. QED BY <1>1, <1>3, <2>1, OldTypes DEF DocumentTypes
<1>6. DocumentsGrow
  <2>1. \A u \in Threads : Len(quotes[u]) \in Nat /\ Len(purchases[u]) \in Nat
    BY <1>1 DEF RunsInv, TypeOK
  <2>2. QED BY <1>3, <2>1 DEF DocumentsGrow, Grows
<1>7. RunsInv'
  <2>1. CASE Fails(k, "end")
    BY <1>1, <1>3, <1>5, <1>6, <2>1, FailStep
  <2>2. CASE ~ Fails(k, "end")
    <3>1. /\ S(k).analysis.price # None
          /\ Goes(k, [S(k) EXCEPT !.offer = S(k).analysis.price], "dispatch_message")
      BY <2>2 DEF PrepareRevisedQuotation
    <3>2. PICK st : st = [S(k) EXCEPT !.offer = S(k).analysis.price]
      OBVIOUS
    <3>3. st \in StateType /\ st.po = S(k).po /\ st.quote = S(k).quote
      BY <1>4, <3>1, <3>2 DEF StateType
    <3>4. Known(t, st)'
      <4>1. Known(t, st)
        BY <1>1, <1>2, <3>3, RunFacts DEF Known
      <4>2. QED BY <1>1, <1>5, <1>6, <4>1, KnownGrows DEF RunsInv
    <3>5. Documented(t, st, "dispatch_message")'
      BY DEF Documented, Confirming
    <3>6. task[k].pc \notin BarrenNodes /\ "dispatch_message" \in Ends
      BY <1>1 DEF At, BarrenNodes, Ends, Nodes
    <3>7. QED BY <1>1, <1>2, <1>3, <1>5, <1>6, <3>1, <3>2, <3>3, <3>4, <3>5, <3>6, GoStep
  <2>3. QED BY <2>1, <2>2
<1>8. QED BY <1>3, <1>5, <1>6, <1>7, PapersGrow DEF BaseInv

(* Quotations and purchase orders are written, nothing else.                  *)
LEMMA PapersTyped ==
  ASSUME RunsInv, UNCHANGED <<revised, orders, reserved, handoffs, lead>>,
         quotes' \in [Threads -> Seq(QuoteType)], purchases' \in [Threads -> Seq(PurchaseType)],
         \A u \in Threads : /\ Len(quotes[u]) <= Len(quotes'[u])
                            /\ Len(purchases[u]) <= Len(purchases'[u])
  PROVE  DocumentTypes' /\ DocumentsGrow
<1>1. DocumentTypes'
  BY OldTypes DEF DocumentTypes
<1>2. DocumentsGrow
  BY DEF DocumentsGrow, Grows
<1>3. QED BY <1>1, <1>2

(* A step that leaves the checkpoint as it is and goes to another node.        *)
LEMMA ControlMoves ==
  ASSUME RunsInv, NEW k \in Tasks, Running(k), NEW next \in Nodes,
         task' = [task EXCEPT ![k].pc = next], UNCHANGED <<checkpoint, closed, crm, counters>>
  PROVE  Moves(k, checkpoint[Thread(k)], S(k), next)
<1>1. task \in [Tasks -> TaskType] /\ checkpoint \in [Threads -> StateType \cup {None}]
  BY DEF RunsInv, TypeOK
<1>2. next # "end"
  BY DEF Nodes
<1>3. checkpoint' = [checkpoint EXCEPT ![Thread(k)] = checkpoint[Thread(k)]]
  BY <1>1
<1>4. /\ task'[k].pc = next /\ task'[k].st = task[k].st
      /\ task'[k].thread = task[k].thread /\ task'[k].trigger = task[k].trigger
      /\ task'[k].approved = task[k].approved /\ task'[k].seen = task[k].seen
      /\ task'[k] \in TaskType /\ \A j \in Tasks \ {k} : task'[j] = task[j]
  BY <1>1 DEF TaskType
<1>5. task' \in [Tasks -> TaskType]
  BY <1>1, <1>4
<1>6. QED BY <1>1, <1>2, <1>3, <1>4, <1>5 DEF Moves, S

(* Such a step of a run preserves the invariant.                              *)
LEMMA ControlStep ==
  ASSUME RunsInv, DocumentTypes', DocumentsGrow, UNCHANGED lead, NEW k \in Tasks, Running(k),
         NEW t \in Threads, t = Thread(k), NEW next \in Ends \ {"end"},
         task' = [task EXCEPT ![k].pc = next], UNCHANGED <<checkpoint, closed, crm, counters>>,
         \A st : st = S(k) => Documented(t, st, next)', next # "extract_inquiry",
         task[k].pc \notin BarrenNodes
  PROVE  RunsInv'
<1>1. PICK st \in StateType : st = S(k)
  BY RunFacts
<1>2. PICK c \in StateType : c = checkpoint[t]
  BY RunFacts
<1>3. Moves(k, c, st, next)
  BY <1>1, <1>2, ControlMoves DEF Ends
<1>4. Known(t, c)' /\ Known(t, st)'
  BY <1>1, <1>2, RunFacts, KnownGrows DEF RunsInv
<1>5. QED BY <1>1, <1>2, <1>3, <1>4, RunStep

(* A quotation is written.                                                    *)
LEMMA GenerateQuotationNext ==
  ASSUME BaseInv, NEW k \in Tasks, GenerateQuotation(k)
  PROVE  BaseInv'
<1>1. At(k, "generate_quotation") /\ Running(k) /\ RunsInv
  BY DEF GenerateQuotation, At, Running, BaseInv
<1>2. PICK t \in Threads : t = Thread(k)
  BY <1>1, RunFacts
<1>3. UNCHANGED <<revised, purchases, orders, reserved, handoffs, lead>>
  BY DEF GenerateQuotation
<1>4. S(k) \in StateType
  BY <1>1, RunFacts
<1>5. PICK q : q = [price |-> S(k).price, sends |-> 0, delivery |-> "none",
                    approved |-> task[k].approved = "pricing" /\ task[k].seen = S(k).price]
  OBVIOUS
<1>6. q \in QuoteType
  BY <1>4, <1>5 DEF QuoteType, StateType
<1>7. quotes \in [Threads -> Seq(QuoteType)] /\ purchases \in [Threads -> Seq(PurchaseType)]
  BY <1>1 DEF RunsInv, TypeOK
<1>8. \/ quotes' = [quotes EXCEPT ![t] = Append(@, q)]
      \/ quotes' = quotes
  BY <1>2, <1>5 DEF GenerateQuotation
<1>9. /\ quotes' \in [Threads -> Seq(QuoteType)]
      /\ \A u \in Threads : Len(quotes[u]) <= Len(quotes'[u])
  <2>1. CASE quotes' = [quotes EXCEPT ![t] = Append(@, q)]
    BY <1>6, <1>7, <2>1, Appended
  <2>2. CASE quotes' = quotes
    BY <1>7, <2>2
  <2>3. QED BY <1>8, <2>1, <2>2
<1>10. DocumentTypes' /\ DocumentsGrow
  <2>1. \A u \in Threads : Len(purchases[u]) \in Nat
    BY <1>7
  <2>2. QED BY <1>1, <1>3, <1>7, <1>9, <2>1, PapersTyped
<1>11. RunsInv'
  <2>1. CASE Fails(k, "dispatch_quotation")
    BY <1>1, <1>3, <1>10, <2>1, FailStep DEF At, BarrenNodes
  <2>2. CASE ~ Fails(k, "dispatch_quotation")
    <3>1. PICK st : st = [S(k) EXCEPT !.quote = Len(quotes[t]) + 1, !.offer = S(k).price,
                                      !.status = "processing"]
      OBVIOUS
    <3>2. /\ quotes' = [quotes EXCEPT ![t] = Append(@, q)]
          /\ Goes(k, st, "dispatch_quotation")
      BY <1>2, <1>5, <2>2, <3>1 DEF GenerateQuotation
    <3>3. Len(quotes'[t]) = Len(quotes[t]) + 1 /\ Len(quotes[t]) \in Nat
      BY <1>6, <1>7, <3>2, Appended
    <3>4. st \in StateType /\ st.po = S(k).po /\ st.quote = Len(quotes'[t])
      <4>1. PICK n \in Nat : n = Len(quotes[t]) + 1
        BY <3>3
      <4>2. st = [S(k) EXCEPT !.quote = n, !.offer = S(k).price, !.status = "processing"]
        BY <3>1, <4>1
      <4>3. st \in StateType /\ st.po = S(k).po /\ st.quote = n
        BY <1>4, <4>2 DEF StateType, Statuses
      <4>4. QED BY <3>3, <4>1, <4>3
    <3>5. Known(t, st)'
      <4>1. S(k).po \in 0 .. Len(purchases[t])
        BY <1>1, <1>2, RunFacts DEF Known
      <4>2. QED BY <1>3, <3>3, <3>4, <4>1 DEF Known
    <3>6. Documented(t, st, "dispatch_quotation")'
      BY DEF Documented, Confirming
    <3>7. task[k].pc \notin BarrenNodes /\ "dispatch_quotation" \in Ends
      BY <1>1 DEF At, BarrenNodes, Ends, Nodes
    <3>8. QED BY <1>1, <1>2, <1>3, <1>10, <3>2, <3>4, <3>5, <3>6, <3>7, GoStep
  <2>3. QED BY <2>1, <2>2
<1>12. QED BY <1>3, <1>10, <1>11, PapersGrow DEF BaseInv

(* A delivery leaves the quotations typed, and as many.                       *)
LEMMA DeliveredTyped ==
  ASSUME RunsInv, NEW k \in Tasks, Running(k), S(k).quote # 0, NEW sent \in {0, 1},
         NEW delivery \in {"none", "sending", "sent", "failed"}, Delivered(k, delivery, sent),
         UNCHANGED <<revised, purchases, orders, reserved, handoffs, lead>>
  PROVE  DocumentTypes' /\ DocumentsGrow
<1> DEFINE i == S(k).quote
           new == [quotes[Thread(k)][i] EXCEPT !.delivery = delivery, !.sends = quotes[Thread(k)][i].sends + sent]
<1>1. PICK t \in Threads : t = Thread(k)
  BY RunFacts
<1>2. quotes \in [Threads -> Seq(QuoteType)] /\ purchases \in [Threads -> Seq(PurchaseType)]
  BY DEF RunsInv, TypeOK
<1>3. i \in 1 .. Len(quotes[t]) /\ DOMAIN quotes[t] = 1 .. Len(quotes[t])
  <2>1. Known(t, S(k)) /\ S(k).quote \in Nat
    BY <1>1, RunFacts DEF StateType
  <2>2. Len(quotes[t]) \in Nat
    BY <1>2
  <2>3. QED BY <1>2, <2>1, <2>2 DEF Known
<1>4. new \in QuoteType
  <2>1. quotes[Thread(k)][i] \in QuoteType
    BY <1>1, <1>2, <1>3
  <2>2. PICK q \in QuoteType : q = quotes[Thread(k)][i]
    BY <2>1
  <2>3. q.sends + sent \in Nat
    BY DEF QuoteType
  <2>4. [q EXCEPT !.delivery = delivery, !.sends = q.sends + sent] \in QuoteType
    BY <2>3 DEF QuoteType
  <2>5. QED BY <2>2, <2>4
<1>5. quotes' = [quotes EXCEPT ![t] = [@ EXCEPT ![i] = new]]
  BY <1>1 DEF Delivered
<1> HIDE DEF new, i
<1>6. [quotes[t] EXCEPT ![i] = new] \in [DOMAIN quotes[t] -> QuoteType]
  BY <1>2, <1>3, <1>4
<1>7. PICK e : e = [quotes[t] EXCEPT ![i] = new]
  OBVIOUS
<1>8. quotes' = [quotes EXCEPT ![t] = e] /\ e \in [DOMAIN quotes[t] -> QuoteType]
  BY <1>2, <1>5, <1>6, <1>7
<1>9. quotes' \in [Threads -> Seq(QuoteType)] /\ \A u \in Threads : Len(quotes[u]) = Len(quotes'[u])
                                              /\ Len(quotes[u]) \in Nat
  BY <1>2, <1>8, Replaced
<1>10. \A u \in Threads : Len(purchases[u]) \in Nat
  BY <1>2
<1>11. QED BY <1>2, <1>9, <1>10, PapersTyped

AwaitFacts(k, st) ==
  st \in StateType /\ st.po = S(k).po /\ st.quote = S(k).quote

(* The state in which a reply is awaited.                                     *)
LEMMA AwaitReplyIs == ASSUME RunsInv, NEW k \in Tasks PROVE AwaitFacts(k, AwaitReply(k))
  BY StateOf DEF RunsInv, AwaitFacts, AwaitReply, StateType, Statuses

(* The message is confirmed: the run ends.                                    *)
LEMMA AwaitStep ==
  ASSUME RunsInv, DocumentTypes', DocumentsGrow, UNCHANGED lead, NEW k \in Tasks, Running(k),
         task[k].pc \notin BarrenNodes, Goes(k, AwaitReply(k), "end")
  PROVE  RunsInv'
<1>1. PICK t \in Threads : t = Thread(k)
  BY RunFacts
<1>2. PICK st : st = AwaitReply(k)
  OBVIOUS
<1>3. AwaitFacts(k, st) /\ Goes(k, st, "end")
  BY <1>2, AwaitReplyIs
<1>4. Known(t, st)'
  <2>1. Known(t, st)
    BY <1>1, <1>3, RunFacts DEF Known, AwaitFacts
  <2>2. QED BY <2>1, KnownGrows DEF RunsInv
<1>5. Documented(t, st, "end")' /\ "end" \in Ends
  BY DEF Documented, Confirming, Ends
<1>6. QED BY <1>1, <1>3, <1>4, <1>5, GoStep DEF AwaitFacts

(* A quotation is sent out,                                                   *)
LEMMA DispatchQuotationNext ==
  ASSUME BaseInv, NEW k \in Tasks, DispatchQuotation(k)
  PROVE  BaseInv'
<1>1. At(k, "dispatch_quotation") /\ Running(k) /\ RunsInv /\ task[k].pc \notin BarrenNodes
  BY DEF DispatchQuotation, At, Running, BaseInv, BarrenNodes
<1>2. PICK t \in Threads : t = Thread(k)
  BY <1>1, RunFacts
<1>3. UNCHANGED <<revised, purchases, orders, reserved, handoffs, lead>>
  BY DEF DispatchQuotation
<1>4. quotes' = quotes => DocumentTypes' /\ DocumentsGrow
  BY <1>1, <1>3, QuietGrows, OldTypes DEF documents, RunsInv
<1>5. CASE Fails(k, "end") /\ UNCHANGED quotes
  <2>1. RunsInv'
    BY <1>1, <1>3, <1>4, <1>5, FailStep
  <2>2. QED BY <1>3, <1>4, <1>5, <2>1, PapersGrow DEF BaseInv
<1>6. CASE Goes(k, AwaitReply(k), "end") /\ UNCHANGED quotes
  <2>1. RunsInv'
    BY <1>1, <1>3, <1>4, <1>6, AwaitStep
  <2>2. QED BY <1>3, <1>4, <1>6, <2>1, PapersGrow DEF BaseInv
<1>7. CASE /\ S(k).quote # 0 /\ Delivered(k, "sending", 0)
           /\ task' = [task EXCEPT ![k].pc = "send_quotation"]
           /\ UNCHANGED <<checkpoint, closed, crm, counters>>
  <2>1. DocumentTypes' /\ DocumentsGrow
    BY <1>1, <1>3, <1>7, DeliveredTyped
  <2>2. RunsInv'
    <3>1. "send_quotation" \in Ends \ {"end"}
      BY DEF Ends, Nodes
    <3>2. \A st : st = S(k) => Documented(t, st, "send_quotation")'
      BY <1>7 DEF Documented, Confirming
    <3>3. QED BY <1>1, <1>2, <1>3, <1>7, <2>1, <3>1, <3>2, ControlStep
  <2>3. QED BY <1>3, <2>1, <2>2, PapersGrow DEF BaseInv
<1>8. QED BY <1>5, <1>6, <1>7 DEF DispatchQuotation

(* or sent on its first way.                                                  *)
LEMMA SendQuotationNext ==
  ASSUME BaseInv, NEW k \in Tasks, SendQuotation(k)
  PROVE  BaseInv'
<1>1. At(k, "send_quotation") /\ Running(k) /\ RunsInv /\ task[k].pc \notin BarrenNodes
  BY DEF SendQuotation, At, Running, BaseInv, BarrenNodes
<1>2. UNCHANGED <<revised, purchases, orders, reserved, handoffs, lead>>
  BY DEF SendQuotation
<1>3. DocumentTypes' /\ DocumentsGrow
  <2>1. S(k).quote # 0
    BY <1>1, RunFacts DEF Documented, At
  <2>2. QED BY <1>1, <1>2, <2>1, DeliveredTyped DEF SendQuotation
<1>4. RunsInv'
  <2>1. CASE Fails(k, "end")
    BY <1>1, <1>2, <1>3, <2>1, FailStep
  <2>2. CASE Goes(k, AwaitReply(k), "end")
    BY <1>1, <1>2, <1>3, <2>2, AwaitStep
  <2>3. QED BY <2>1, <2>2 DEF SendQuotation
<1>5. QED BY <1>2, <1>3, <1>4, PapersGrow DEF BaseInv

(* The price of the quotation of a run.                                       *)
LEMMA QuotedPriceTyped ==
  ASSUME RunsInv, NEW k \in Tasks, Running(k)
  PROVE  QuotedPrice(Thread(k), S(k)) \in PriceOrNot
<1>1. S(k).quote \in 0 .. Len(quotes[Thread(k)]) /\ quotes[Thread(k)] \in Seq(QuoteType)
      /\ S(k).quote \in Nat
  BY RunFacts DEF Known, RunsInv, TypeOK, StateType
<1>2. S(k).quote # 0 => quotes[Thread(k)][S(k).quote] \in QuoteType
  BY <1>1
<1>3. QED BY <1>2 DEF QuotedPrice, QuoteType, PriceOrNot

(* A purchase order is read.                                                  *)
LEMMA ExtractPoFieldsNext ==
  ASSUME BaseInv, NEW k \in Tasks, ExtractPoFields(k)
  PROVE  BaseInv'
<1>1. At(k, "extract_po_fields") /\ Running(k) /\ RunsInv
  BY DEF ExtractPoFields, At, Running, BaseInv
<1>2. PICK t \in Threads : t = Thread(k)
  BY <1>1, RunFacts
<1>3. UNCHANGED <<quotes, revised, orders, reserved, handoffs, lead>>
  BY DEF ExtractPoFields
<1>4. S(k) \in StateType
  BY <1>1, RunFacts
<1>5. quotes \in [Threads -> Seq(QuoteType)] /\ purchases \in [Threads -> Seq(PurchaseType)]
  BY <1>1 DEF RunsInv, TypeOK
<1>6. CASE \E p \in {QuotedPrice(t, S(k)), S(k).offer} :
             purchases' = [purchases EXCEPT ![t] = Append(@,
               [price |-> p, verdict |-> "new", credit |-> FALSE, granted |-> {}])]
  <2>1. PICK e : /\ e \in PurchaseType
                 /\ purchases' = [purchases EXCEPT ![t] = Append(@, e)]
    <3>1. QuotedPrice(t, S(k)) \in PriceOrNot \cup Offers /\ S(k).offer \in PriceOrNot \cup Offers
      BY <1>1, <1>2, <1>4, QuotedPriceTyped DEF StateType
    <3>2. PICK p \in PriceOrNot \cup Offers :
             purchases' = [purchases EXCEPT ![t] = Append(@,
               [price |-> p, verdict |-> "new", credit |-> FALSE, granted |-> {}])]
      BY <1>6, <3>1
    <3>3. [price |-> p, verdict |-> "new", credit |-> FALSE, granted |-> {}] \in PurchaseType
      BY DEF PurchaseType
    <3>4. QED BY <3>2, <3>3
  <2>2. /\ purchases' \in [Threads -> Seq(PurchaseType)]
        /\ \A u \in Threads : Len(purchases[u]) <= Len(purchases'[u])
        /\ Len(purchases'[t]) = Len(purchases[t]) + 1 /\ Len(purchases[t]) \in Nat
    BY <1>5, <2>1, Appended
  <2>3. DocumentTypes' /\ DocumentsGrow
    <3>1. \A u \in Threads : Len(quotes[u]) \in Nat
      BY <1>5
    <3>2. QED BY <1>1, <1>3, <1>5, <2>2, <3>1, PapersTyped
  <2>4. RunsInv'
    <3>1. CASE Fails(k, "validate_po")
      BY <1>1, <1>3, <2>3, <3>1, FailStep
    <3>2. CASE ~ Fails(k, "validate_po")
      <4>1. PICK n \in Nat : n = Len(purchases[t]) + 1
        BY <2>2
      <4>2. PICK st : st = [S(k) EXCEPT !.po = n, !.status = "processing"]
        OBVIOUS
      <4>3. Goes(k, st, "validate_po")
        BY <1>2, <3>2, <4>1, <4>2 DEF ExtractPoFields
      <4>4. st \in StateType /\ st.po = n /\ st.quote = S(k).quote
            /\ (Barren(S(k)) => Barren(st))
        BY <1>4, <4>2 DEF StateType, Statuses, Barren
      <4>5. Known(t, st)'
        <5>1. S(k).quote \in 0 .. Len(quotes[t])
          BY <1>1, <1>2, RunFacts DEF Known
        <5>2. QED BY <1>3, <2>2, <4>1, <4>4, <5>1 DEF Known
      <4>6. Documented(t, st, "validate_po")'
        BY DEF Documented, Confirming
      <4>7. "validate_po" \in Ends /\ "validate_po" \in BarrenNodes
        BY DEF Ends, Nodes, BarrenNodes
      <4>8. QED BY <1>1, <1>2, <1>3, <2>3, <4>3, <4>4, <4>5, <4>6, <4>7, GoStep
    <3>3. QED BY <3>1, <3>2
  <2>5. QED BY <1>3, <2>3, <2>4, PapersGrow DEF BaseInv
<1>7. CASE Fails(k, "validate_po") /\ UNCHANGED purchases
  <2>1. DocumentTypes' /\ DocumentsGrow
    BY <1>1, <1>3, <1>5, <1>7, PapersTyped
  <2>2. RunsInv'
    BY <1>1, <1>3, <1>7, <2>1, FailStep
  <2>3. QED BY <1>3, <2>1, <2>2, PapersGrow DEF BaseInv
<1>8. QED BY <1>2, <1>6, <1>7 DEF ExtractPoFields

(* The purchase order of a run changes.                                       *)
LEMMA PurchaseChanged ==
  ASSUME RunsInv, UNCHANGED <<quotes, revised, orders, reserved, handoffs, lead>>,
         NEW t \in Threads, NEW e \in [DOMAIN purchases[t] -> PurchaseType],
         purchases' = [purchases EXCEPT ![t] = e]
  PROVE  DocumentTypes' /\ DocumentsGrow
<1>1. quotes \in [Threads -> Seq(QuoteType)] /\ purchases \in [Threads -> Seq(PurchaseType)]
  BY DEF RunsInv, TypeOK
<1>2. /\ purchases' \in [Threads -> Seq(PurchaseType)]
      /\ \A u \in Threads : Len(purchases[u]) = Len(purchases'[u]) /\ Len(purchases[u]) \in Nat
  BY <1>1, Replaced
<1>3. \A u \in Threads : Len(quotes[u]) \in Nat
  BY <1>1
<1>4. QED BY <1>1, <1>2, <1>3, PapersTyped

(* The state after a comparison of the purchase order.                        *)
LEMMA StagedStep ==
  ASSUME RunsInv, DocumentTypes', DocumentsGrow, UNCHANGED lead, NEW k \in Tasks, Running(k),
         NEW st \in StateType, st.po = S(k).po, st.quote = S(k).quote,
         NEW next \in {"end", "send_po_correction", "request_approval", "revalidate_order_state",
                       "reserve_inventory"},
         Goes(k, st, next), task[k].pc \notin BarrenNodes \/ S(k).quote # 0
  PROVE  RunsInv'
<1>1. PICK t \in Threads : t = Thread(k)
  BY RunFacts
<1>2. Known(t, st)'
  <2>1. Known(t, st)
    BY <1>1, RunFacts DEF Known
  <2>2. QED BY <2>1, KnownGrows DEF RunsInv
<1>3. Documented(t, st, next)' /\ next \in Ends /\ next # "extract_inquiry"
  BY DEF Documented, Confirming, Ends, Nodes
<1>4. ~ (task[k].pc \in BarrenNodes /\ Barren(S(k)))
  BY DEF Barren
<1>5. QED BY <1>1, <1>2, <1>3, <1>4, GoStep

(* The verdict on a purchase order.                                           *)
LEMMA VerdictTyped ==
  ASSUME NEW p \in PurchaseType, NEW price, NEW v \in Verdicts(p, price)
  PROVE  v \in {"ok", "review", "price", "other"}
  BY DEF Verdicts, PurchaseType

(* Where the comparison leads, with its verdict.                              *)
AfterVerdict(k, v) ==
  CASE S(k).error -> "end"
    [] ~ S(k).error /\ v \in {"price", "other"} -> "send_po_correction"
    [] ~ S(k).error /\ v = "review" -> "request_approval"
    [] ~ S(k).error /\ v = "ok" -> "revalidate_order_state"
Compares(k, v) ==
  /\ S(k).po # 0 /\ S(k).quote # 0
  /\ v \in Verdicts(purchases[Thread(k)][S(k).po], QuotedPrice(Thread(k), S(k)))
  /\ purchases' = [purchases EXCEPT ![Thread(k)][S(k).po].verdict = v]
  /\ Goes(k, [S(k) EXCEPT !.stage = IF v = "review" THEN "po" ELSE None], AfterVerdict(k, v))

(* What a comparison of the purchase order may come to.                       *)
LEMMA ValidatePoCases ==
  ASSUME NEW k, ValidatePo(k)
  PROVE  /\ At(k, "validate_po") /\ UNCHANGED <<quotes, revised, orders, reserved, handoffs, lead>>
         /\ \/ \E v : Compares(k, v)
            \/ /\ S(k).quote # 0 /\ UNCHANGED purchases /\ S(k).po = 0
               /\ Goes(k, [S(k) EXCEPT !.stage = None], "end")
            \/ Fails(k, "end") /\ UNCHANGED purchases
  BY DEF ValidatePo, Compares, AfterVerdict

(* The purchase order of a run, with its verdict.                             *)
LEMMA ComparedTyped ==
  ASSUME RunsInv, NEW k \in Tasks, Running(k), NEW v, Compares(k, v),
         UNCHANGED <<quotes, revised, orders, reserved, handoffs, lead>>
  PROVE  /\ DocumentTypes' /\ DocumentsGrow
         /\ v \in {"ok", "review", "price", "other"}
         /\ AfterVerdict(k, v) \in {"end", "send_po_correction", "request_approval", "revalidate_order_state"}
         /\ S(k).po \in DOMAIN purchases[Thread(k)]
         /\ purchases[Thread(k)][S(k).po] \in PurchaseType
<1>1. PICK t \in Threads : t = Thread(k)
  BY RunFacts
<1>2. PICK i : i = S(k).po
  OBVIOUS
<1>3. i \in DOMAIN purchases[t] /\ purchases[t][i] \in PurchaseType
  <2>1. purchases[t] \in Seq(PurchaseType)
    BY DEF RunsInv, TypeOK
  <2>2. i \in 0 .. Len(purchases[t]) /\ i # 0 /\ i \in Nat
    BY <1>1, <1>2, RunFacts DEF Known, Compares, StateType
  <2>3. QED BY <2>1, <2>2
<1>4. v \in {"ok", "review", "price", "other"}
  BY <1>1, <1>2, <1>3, VerdictTyped DEF Compares
<1>5. PICK e : e = [purchases[t] EXCEPT ![i] = [purchases[t][i] EXCEPT !.verdict = v]]
  OBVIOUS
<1>6. e \in [DOMAIN purchases[t] -> PurchaseType]
  <2>1. [purchases[t][i] EXCEPT !.verdict = v] \in PurchaseType
    BY <1>3, <1>4 DEF PurchaseType
  <2>2. purchases[t] \in [DOMAIN purchases[t] -> PurchaseType]
    <3>1. purchases[t] \in Seq(PurchaseType)
      BY DEF RunsInv, TypeOK
    <3>2. QED BY <3>1
  <2>3. QED BY <1>3, <1>5, <2>1, <2>2
<1>7. purchases' = [purchases EXCEPT ![t] = e]
  BY <1>1, <1>2, <1>5 DEF Compares
<1>8. DocumentTypes' /\ DocumentsGrow
  BY <1>6, <1>7, PurchaseChanged
<1>9. AfterVerdict(k, v) \in {"end", "send_po_correction", "request_approval", "revalidate_order_state"}
  <2>1. S(k).error \in BOOLEAN
    BY RunFacts DEF StateType
  <2>2. QED BY <1>4, <2>1 DEF AfterVerdict
<1>10. QED BY <1>1, <1>2, <1>3, <1>4, <1>8, <1>9

(* The purchase order is compared.                                            *)
LEMMA ValidatePoNext ==
  ASSUME BaseInv, NEW k \in Tasks, ValidatePo(k)
  PROVE  BaseInv'
<1>1. /\ Running(k) /\ RunsInv
      /\ UNCHANGED <<quotes, revised, orders, reserved, handoffs, lead>>
  BY ValidatePoCases DEF At, Running, BaseInv
<1>2. S(k) \in StateType
  BY <1>1, RunFacts
<1>3. UNCHANGED purchases => DocumentTypes' /\ DocumentsGrow
  BY <1>1, QuietGrows, OldTypes DEF documents, RunsInv
<1>4. ASSUME NEW v, Compares(k, v)
      PROVE  BaseInv'
  <2>1. PICK st : st = [S(k) EXCEPT !.stage = IF v = "review" THEN "po" ELSE None]
    OBVIOUS
  <2>2. PICK next : next = AfterVerdict(k, v)
    OBVIOUS
  <2>3. st \in StateType /\ st.po = S(k).po /\ st.quote = S(k).quote
    BY <1>2, <2>1 DEF StateType, Stages
  <2>4. Goes(k, st, next) /\ S(k).quote # 0
    BY <1>4, <2>1, <2>2 DEF Compares
  <2>5. DocumentTypes' /\ DocumentsGrow
        /\ next \in {"end", "send_po_correction", "request_approval", "revalidate_order_state"}
    BY <1>1, <1>4, <2>2, ComparedTyped
  <2>6. RunsInv'
    BY <1>1, <2>3, <2>4, <2>5, StagedStep
  <2>7. QED BY <1>1, <2>5, <2>6, PapersGrow DEF BaseInv
<1>5. CASE /\ S(k).quote # 0 /\ UNCHANGED purchases
           /\ Goes(k, [S(k) EXCEPT !.stage = None], "end")
  <2>1. PICK st : st = [S(k) EXCEPT !.stage = None]
    OBVIOUS
  <2>2. st \in StateType /\ st.po = S(k).po /\ st.quote = S(k).quote
    BY <1>2, <2>1 DEF StateType
  <2>3. RunsInv'
    BY <1>1, <1>3, <1>5, <2>1, <2>2, StagedStep
  <2>4. QED BY <1>1, <1>3, <1>5, <2>3, PapersGrow DEF BaseInv
<1>6. CASE Fails(k, "end") /\ UNCHANGED purchases
  BY <1>1, <1>3, <1>6, FailStep, PapersGrow DEF BaseInv
<1>7. QED BY <1>4, <1>5, <1>6, ValidatePoCases

(* Feasibility and pricing as computed again.                                 *)
Renewed(k, p) ==
  IF p \in Prices THEN [S(k) EXCEPT !.price = p]
  ELSE [S(k) EXCEPT !.price = p, !.missing = TRUE, !.status = "blocked"]
Staged(k, p, stage) == [Renewed(k, p) EXCEPT !.stage = stage]
Corrected(k, p) == [Renewed(k, p) EXCEPT !.stage = None, !.status = "customer"]
AsksAgain(k, st, next) ==
  /\ \E p \in Prices \cup {Impossible} : st = Staged(k, p, "po_revalidation")
  /\ next = "request_approval"
  /\ purchases' = [purchases EXCEPT ![Thread(k)] = [i \in DOMAIN @ |->
       IF i = S(k).po THEN [@[i] EXCEPT !.credit = TRUE] ELSE @[i]]]
PassesAgain(k, st, next) ==
  /\ \E p \in Prices : Immaterial(p, S(k).price) /\ st = Staged(k, p, None)
  /\ next = "reserve_inventory" /\ UNCHANGED purchases
CorrectsAgain(k, st, next) ==
  /\ \E p \in Prices \cup {Impossible} : st = Corrected(k, p)
  /\ next = "send_po_correction" /\ UNCHANGED purchases

(* What a second validation may come to.                                      *)
LEMMA RevalidateCases ==
  ASSUME NEW k, RevalidateOrderState(k)
  PROVE  /\ At(k, "revalidate_order_state")
         /\ UNCHANGED <<quotes, revised, orders, reserved, handoffs, lead>>
         /\ \/ \E st, next : /\ Goes(k, st, next)
                             /\ \/ AsksAgain(k, st, next) \/ PassesAgain(k, st, next)
                                \/ CorrectsAgain(k, st, next)
            \/ Fails(k, "end") /\ UNCHANGED purchases
  BY DEF RevalidateOrderState, AsksAgain, PassesAgain, CorrectsAgain, Renewed, Staged, Corrected

(* The states it may leave are typed,                                         *)
LEMMA RenewedTyped ==
  ASSUME RunsInv, NEW k \in Tasks, Running(k), NEW p \in Prices \cup {Impossible}
  PROVE  LET st == Renewed(k, p)
         IN /\ st \in StateType /\ st.po = S(k).po /\ st.quote = S(k).quote
            /\ st.analysis = S(k).analysis
            /\ p \in Prices => st.status = S(k).status
            /\ st.status \in {S(k).status, "blocked"}
<1>1. S(k) \in StateType
  BY RunFacts
<1>2. p \in PriceOrNot
  BY DEF PriceOrNot
<1>3. QED BY <1>1, <1>2 DEF StateType, Renewed, Statuses

(* with the stage it asks for,                                                *)
LEMMA StagedTyped ==
  ASSUME RunsInv, NEW k \in Tasks, Running(k), NEW p \in Prices \cup {Impossible},
         NEW stage \in Stages \cup {None}
  PROVE  LET st == Staged(k, p, stage)
         IN /\ st \in StateType /\ st.po = S(k).po /\ st.quote = S(k).quote
            /\ st.analysis = S(k).analysis /\ st.stage = stage
            /\ p \in Prices => st.status = S(k).status
            /\ st.status \in {S(k).status, "blocked"}
<1>1. PICK r : r = Renewed(k, p)
  OBVIOUS
<1>2. /\ r \in StateType /\ r.po = S(k).po /\ r.quote = S(k).quote
      /\ r.analysis = S(k).analysis
      /\ p \in Prices => r.status = S(k).status
      /\ r.status \in {S(k).status, "blocked"}
  BY <1>1, RenewedTyped
<1>3. PICK st : st = [r EXCEPT !.stage = stage]
  OBVIOUS
<1>4. /\ st \in StateType /\ st.po = r.po /\ st.quote = r.quote /\ st.status = r.status
      /\ st.analysis = r.analysis /\ st.stage = stage
  BY <1>2, <1>3 DEF StateType
<1>5. st = Staged(k, p, stage)
  BY <1>1, <1>3 DEF Staged
<1>6. QED BY <1>2, <1>4, <1>5

(* or without,                                                                *)
LEMMA CorrectedTyped ==
  ASSUME RunsInv, NEW k \in Tasks, Running(k), NEW p \in Prices \cup {Impossible}
  PROVE  LET st == Corrected(k, p)
         IN /\ st \in StateType /\ st.po = S(k).po /\ st.quote = S(k).quote
            /\ st.analysis = S(k).analysis /\ st.stage = None /\ st.status = "customer"
<1>1. PICK r : r = Renewed(k, p)
  OBVIOUS
<1>2. /\ r \in StateType /\ r.po = S(k).po /\ r.quote = S(k).quote
      /\ r.analysis = S(k).analysis
  BY <1>1, RenewedTyped
<1>3. PICK st : st = [r EXCEPT !.stage = None, !.status = "customer"]
  OBVIOUS
<1>4. /\ st \in StateType /\ st.po = r.po /\ st.quote = r.quote /\ st.status = "customer"
      /\ st.analysis = r.analysis /\ st.stage = None
  BY <1>2, <1>3 DEF StateType, Statuses
<1>5. st = Corrected(k, p)
  BY <1>1, <1>3 DEF Corrected
<1>6. QED BY <1>2, <1>4, <1>5

RevalidateOutcomes == {"request_approval", "reserve_inventory", "send_po_correction"}

(* and each of them names the same documents.                                 *)
LEMMA RevalidatedState ==
  ASSUME RunsInv, NEW k \in Tasks, Running(k), NEW st, NEW next,
         AsksAgain(k, st, next) \/ PassesAgain(k, st, next) \/ CorrectsAgain(k, st, next)
  PROVE  /\ st \in StateType /\ st.po = S(k).po /\ st.quote = S(k).quote
         /\ st.analysis = S(k).analysis /\ next \in RevalidateOutcomes
         /\ next = "request_approval" => AsksAgain(k, st, next)
         /\ next = "request_approval" => /\ st.stage = "po_revalidation"
                                         /\ st.status \in {S(k).status, "blocked"}
         /\ next = "reserve_inventory" => st.stage = None /\ st.status = S(k).status
         /\ next = "send_po_correction" => st.stage = None /\ st.status = "customer"
<1>1. None \in Stages \cup {None} /\ "po_revalidation" \in Stages \cup {None}
  BY DEF Stages
<1> USE DEF RevalidateOutcomes
<1>2. CASE AsksAgain(k, st, next)
  BY <1>1, <1>2, StagedTyped DEF AsksAgain
<1>3. CASE PassesAgain(k, st, next)
  BY <1>1, <1>3, StagedTyped DEF PassesAgain
<1>4. CASE CorrectsAgain(k, st, next)
  BY <1>1, <1>4, CorrectedTyped DEF CorrectsAgain
<1>5. QED BY <1>2, <1>3, <1>4

(* The purchase order with its credit checked.                                *)
LEMMA CreditTyped ==
  ASSUME RunsInv, NEW k \in Tasks, Running(k), NEW st, NEW next, AsksAgain(k, st, next),
         UNCHANGED <<quotes, revised, orders, reserved, handoffs, lead>>
  PROVE  /\ DocumentTypes' /\ DocumentsGrow
         /\ \A u \in Threads : \A i \in DOMAIN purchases[u] :
              /\ i \in DOMAIN purchases'[u] 
              /\ purchases'[u][i].price = purchases[u][i].price
              /\ purchases'[u][i].verdict = purchases[u][i].verdict
              /\ purchases'[u][i].granted = purchases[u][i].granted
              /\ u # Thread(k) \/ i # S(k).po => purchases'[u][i] = purchases[u][i]
<1>1. PICK t \in Threads : t = Thread(k)
  BY RunFacts
<1>2. PICK e : e = [i \in DOMAIN purchases[t] |->
                IF i = S(k).po THEN [purchases[t][i] EXCEPT !.credit = TRUE] ELSE purchases[t][i]]
  OBVIOUS
<1>3. purchases' = [purchases EXCEPT ![t] = e]
  BY <1>1, <1>2 DEF AsksAgain
<1>4. purchases \in [Threads -> Seq(PurchaseType)]
  BY DEF RunsInv, TypeOK
<1>5. \A i \in DOMAIN purchases[t] : purchases[t][i] \in PurchaseType
  <2>1. purchases[t] \in Seq(PurchaseType)
    BY <1>4
  <2>2. QED BY <2>1
<1>6. \A q \in PurchaseType :
        /\ [q EXCEPT !.credit = TRUE] \in PurchaseType
        /\ [q EXCEPT !.credit = TRUE].price = q.price
        /\ [q EXCEPT !.credit = TRUE].verdict = q.verdict
        /\ [q EXCEPT !.credit = TRUE].granted = q.granted
  BY DEF PurchaseType
<1>7. e \in [DOMAIN purchases[t] -> PurchaseType]
  BY <1>2, <1>5, <1>6
<1>8. DocumentTypes' /\ DocumentsGrow
  BY <1>3, <1>7, PurchaseChanged
<1>9. \A u \in Threads : DOMAIN purchases[u] = DOMAIN purchases'[u]
  BY <1>3, <1>4, <1>7
<1>10. \A u \in Threads : purchases'[u] = IF u = t THEN e ELSE purchases[u]
  BY <1>3, <1>4
<1>11. ASSUME NEW i \in DOMAIN purchases[t]
       PROVE  /\ e[i].price = purchases[t][i].price
              /\ e[i].verdict = purchases[t][i].verdict
              /\ e[i].granted = purchases[t][i].granted
              /\ i # S(k).po => e[i] = purchases[t][i]
  BY <1>2, <1>5, <1>6
<1>12. QED BY <1>1, <1>8, <1>9, <1>10, <1>11

(* The order is validated again.                                              *)
LEMMA RevalidateOrderStateNext ==
  ASSUME BaseInv, NEW k \in Tasks, RevalidateOrderState(k)
  PROVE  BaseInv'
<1>1. /\ Running(k) /\ RunsInv /\ task[k].pc \notin BarrenNodes
      /\ UNCHANGED <<quotes, revised, orders, reserved, handoffs, lead>>
  BY RevalidateCases DEF At, Running, BaseInv, BarrenNodes
<1>2. UNCHANGED purchases => DocumentTypes' /\ DocumentsGrow
  BY <1>1, QuietGrows, OldTypes DEF documents, RunsInv
<1>3. ASSUME NEW st, NEW next, Goes(k, st, next),
             AsksAgain(k, st, next) \/ PassesAgain(k, st, next) \/ CorrectsAgain(k, st, next)
      PROVE  BaseInv'
  <2>1. DocumentTypes' /\ DocumentsGrow
    BY <1>1, <1>2, <1>3, CreditTyped DEF PassesAgain, CorrectsAgain
  <2>2. st \in StateType /\ st.po = S(k).po /\ st.quote = S(k).quote /\ next \in RevalidateOutcomes
    BY <1>1, <1>3, RevalidatedState
  <2>3. RunsInv'
    BY <1>1, <1>3, <2>1, <2>2, StagedStep DEF RevalidateOutcomes
  <2>4. QED BY <1>1, <2>1, <2>3, PapersGrow DEF BaseInv
<1>4. CASE Fails(k, "end") /\ UNCHANGED purchases
  BY <1>1, <1>2, <1>4, FailStep, PapersGrow DEF BaseInv
<1>5. QED BY <1>3, <1>4, RevalidateCases

(* A step of an order that keeps the state of its run, or sets its status.    *)
LEMMA StatusStep ==
  ASSUME RunsInv, DocumentTypes', DocumentsGrow, NEW k \in Tasks, Running(k),
         task[k].pc \notin BarrenNodes, NEW st, Alters(k, st),
         NEW next \in Ends \ {"extract_inquiry"}, Goes(k, st, next),
         NEW t \in Threads, t = Thread(k), Documented(t, st, next)',
         \A u \in Threads : lead'[u] # lead[u] =>
           u = t /\ task[k].pc \in {"extract_inquiry", "mark_order_won"}
  PROVE  RunsInv'
<1>1. Known(t, st)'
  <2>1. Known(t, st)
    BY RunFacts DEF Known, Alters
  <2>2. QED BY <2>1, KnownGrows DEF RunsInv
<1>2. QED BY <1>1, GoStep DEF Alters

(* Stock is looked for.                                                       *)
LEMMA ReserveInventoryNext ==
  ASSUME BaseInv, NEW k \in Tasks, ReserveInventory(k)
  PROVE  BaseInv'
<1>1. At(k, "reserve_inventory") /\ Running(k) /\ RunsInv /\ task[k].pc \notin BarrenNodes
  BY DEF ReserveInventory, At, Running, BaseInv, BarrenNodes
<1>2. PICK t \in Threads : t = Thread(k)
  BY <1>1, RunFacts
<1>3. UNCHANGED <<documents, lead>> /\ DocumentTypes' /\ DocumentsGrow
  BY <1>1, QuietGrows, OldTypes DEF ReserveInventory, Quiet, RunsInv
<1>4. UNCHANGED <<orders, reserved, handoffs, lead>>
  BY <1>3 DEF documents
<1>5. RunsInv'
  <2>1. CASE Fails(k, "end")
    BY <1>1, <1>3, <2>1, FailStep
  <2>2. CASE /\ AlreadyReserved(t, S(k).po) /\ Goes(k, S(k), "mark_order_won")
    <3>1. PICK st : st = S(k)
      OBVIOUS
    <3>2. Documented(t, st, "mark_order_won")'
      BY <1>4, <2>2, <3>1 DEF Documented, Confirming, AlreadyReserved, Held
    <3>3. Alters(k, st) /\ "mark_order_won" \in Ends \ {"extract_inquiry"}
      BY <1>1, <3>1, SameAlters DEF RunsInv, Ends, Nodes
    <3>4. QED BY <1>1, <1>2, <1>3, <2>2, <3>1, <3>2, <3>3, StatusStep
  <2>3. CASE /\ S(k).po # 0 /\ task' = [task EXCEPT ![k].pc = "allocate_rows"]
             /\ UNCHANGED <<checkpoint, closed, crm, counters>>
    <3>1. \A st : st = S(k) => Documented(t, st, "allocate_rows")'
      BY <2>3 DEF Documented, Confirming
    <3>2. "allocate_rows" \in Ends \ {"end"}
      BY DEF Ends, Nodes
    <3>3. QED BY <1>1, <1>2, <1>3, <2>3, <3>1, <3>2, ControlStep
  <2>4. QED BY <1>2, <2>1, <2>2, <2>3 DEF ReserveInventory
<1>6. QED BY <1>3, <1>4, <1>5, PapersGrow DEF BaseInv

(* What is reserved for the purchase order of a run.                          *)
Reservations(t, po, a) ==
  {[thread |-> t, po |-> po, row |-> r, quantity |-> a[r]] : r \in {r \in Rows : a[r] > 0}}
Reserves(k, a) ==
  /\ a \in Allocations
  /\ \A n \in Reservations(Thread(k), S(k).po, a), r \in Held(Thread(k), S(k).po) : n.row # r.row
  /\ reserved' = reserved \cup Reservations(Thread(k), S(k).po, a)

(* What an allocation may come to.                                            *)
LEMMA AllocateRowsCases ==
  ASSUME NEW k, AllocateRows(k)
  PROVE  /\ At(k, "allocate_rows") /\ UNCHANGED <<quotes, revised, purchases, orders, handoffs, lead>>
         /\ \/ /\ \E a : Reserves(k, a)
               /\ Goes(k, S(k), "mark_order_won") \/ Fails(k, "end")
            \/ UNCHANGED reserved /\ Fails(k, "end")
  BY DEF AllocateRows, Reserves, Reservations

(* An allocation is a set of reservations.                                    *)
LEMMA ReservationsTyped ==
  ASSUME NEW t \in Threads, NEW po \in Nat, NEW a \in Allocations
  PROVE  /\ Reservations(t, po, a) \subseteq [thread : Threads, po : Nat, row : Rows, quantity : Nat]
         /\ \A r \in Reservations(t, po, a) : r.thread = t /\ r.po = po /\ r.quantity = a[r.row]
         /\ Reservations(t, po, a) # {}
<1>1. a \in [Rows -> Nat] /\ SumFunction(a) = Quantity
  BY ConstantsAssumption DEF Allocations
<1>2. \E r \in Rows : a[r] > 0
  <2>1. SumFunctionOnSet(a, Rows) # 0
    BY <1>1, ConstantsAssumption DEF SumFunction, SumFunctionOnSet
  <2>2. QED BY <1>1, <2>1, SumPositive, ConstantsAssumption
<1>3. ASSUME NEW x \in Rows
      PROVE  LET r == [thread |-> t, po |-> po, row |-> x, quantity |-> a[x]]
             IN /\ r \in [thread : Threads, po : Nat, row : Rows, quantity : Nat]
                /\ r.thread = t /\ r.po = po /\ r.quantity = a[r.row]
  BY <1>1
<1>4. Reservations(t, po, a) # {}
  BY <1>2 DEF Reservations
<1>5. QED BY <1>3, <1>4 DEF Reservations

(* Stock is reserved.                                                         *)
LEMMA AllocateRowsNext ==
  ASSUME BaseInv, NEW k \in Tasks, AllocateRows(k)
  PROVE  BaseInv'
<1>1. Running(k) /\ RunsInv /\ task[k].pc \notin BarrenNodes /\ At(k, "allocate_rows")
      /\ UNCHANGED <<quotes, revised, purchases, orders, handoffs, lead>>
  BY AllocateRowsCases DEF At, Running, BaseInv, BarrenNodes
<1>2. PICK t \in Threads : t = Thread(k)
  BY <1>1, RunFacts
<1>3. PICK st \in StateType : st = S(k)
  BY <1>1, RunFacts
<1>4. CASE UNCHANGED reserved /\ Fails(k, "end")
  <2>1. DocumentTypes' /\ DocumentsGrow
    BY <1>1, <1>4, QuietGrows, OldTypes DEF documents, RunsInv
  <2>2. RunsInv'
    BY <1>1, <1>4, <2>1, FailStep
  <2>3. QED BY <1>1, <1>4, <2>1, <2>2, PapersGrow DEF BaseInv
<1>5. CASE /\ \E a : Reserves(k, a)
           /\ Goes(k, S(k), "mark_order_won") \/ Fails(k, "end")
  <2>1. PICK a \in Allocations : reserved' = reserved \cup Reservations(t, st.po, a)
    BY <1>2, <1>3, <1>5 DEF Reserves
  <2>2. st.po \in Nat /\ st.po \in DOMAIN purchases[t]
    <3>1. st.po # 0 /\ st.po \in 0 .. Len(purchases[t])
      BY <1>1, <1>2, <1>3, RunFacts DEF Documented, Known, At
    <3>2. purchases[t] \in Seq(PurchaseType)
      BY <1>1 DEF RunsInv, TypeOK
    <3>3. QED BY <3>1, <3>2
  <2>3. PICK new : new = Reservations(t, st.po, a)
    OBVIOUS
  <2>4. /\ new \subseteq [thread : Threads, po : Nat, row : Rows, quantity : Nat]
        /\ \A r \in new : r.thread = t /\ r.po = st.po
        /\ new # {} /\ reserved' = reserved \cup new
    BY <2>1, <2>2, <2>3, ReservationsTyped
  <2>5. DocumentTypes'
    BY <1>1, <2>4, OldTypes DEF DocumentTypes
  <2>6. DocumentsGrow
    <3>1. \A u \in Threads : Len(quotes[u]) \in Nat /\ Len(purchases[u]) \in Nat
      BY <1>1 DEF RunsInv, TypeOK
    <3>2. QED BY <1>1, <2>4, <3>1 DEF DocumentsGrow, Grows
  <2>7. RunsInv'
    <3>1. CASE Fails(k, "end")
      BY <1>1, <2>5, <2>6, <3>1, FailStep
    <3>2. CASE Goes(k, S(k), "mark_order_won")
      <4>1. Documented(t, st, "mark_order_won")'
        BY <2>4 DEF Documented, Confirming, Held
      <4>2. Alters(k, st) /\ "mark_order_won" \in Ends \ {"extract_inquiry"}
        BY <1>1, <1>3, SameAlters DEF RunsInv, Ends, Nodes
      <4>3. QED BY <1>1, <1>2, <1>3, <2>5, <2>6, <3>2, <4>1, <4>2, StatusStep
    <3>3. QED BY <1>5, <3>1, <3>2
  <2>8. DocumentsAgree' /\ HandoffsAgree'
    BY <1>1, <2>2, <2>4 DEF BaseInv, DocumentsAgree, HandoffsAgree, Ordered
  <2>9. QED BY <2>7, <2>8 DEF BaseInv
<1>6. QED BY <1>4, <1>5, AllocateRowsCases

(* The order is won.                                                          *)
LEMMA MarkOrderWonNext ==
  ASSUME BaseInv, NEW k \in Tasks, MarkOrderWon(k)
  PROVE  BaseInv'
<1>1. At(k, "mark_order_won") /\ Running(k) /\ RunsInv /\ task[k].pc \notin BarrenNodes
  BY DEF MarkOrderWon, At, Running, BaseInv, BarrenNodes
<1>2. PICK t \in Threads : t = Thread(k)
  BY <1>1, RunFacts
<1>3. lead' \in {lead, [lead EXCEPT ![t] = "won"]} /\ UNCHANGED documents
  BY <1>2 DEF MarkOrderWon
<1>4. /\ DocumentTypes'
      /\ \A u \in Threads : lead'[u] = lead[u] \/ (u = t /\ lead'[u] = "won")
  BY <1>1, <1>3, OldTypes DEF DocumentTypes, documents
<1>5. DocumentsGrow
  <2>1. \A u \in Threads : Len(quotes[u]) \in Nat /\ Len(purchases[u]) \in Nat
    BY <1>1 DEF RunsInv, TypeOK
  <2>2. QED BY <1>3, <1>4, <2>1 DEF DocumentsGrow, Grows, documents
<1>6. Held(t, S(k).po) # {}
  BY <1>1, <1>2, RunFacts DEF Documented, At
<1>7. RunsInv'
  <2>1. CASE Fails(k, "end")
    BY <1>1, <1>2, <1>4, <1>5, <2>1, FailStep DEF At
  <2>2. CASE lead'[t] = "won" /\ Goes(k, WithStatus(k, "processing"), "create_sales_order")
    <3>1. PICK st : st = WithStatus(k, "processing")
      OBVIOUS
    <3>2. Alters(k, st) /\ "create_sales_order" \in Ends \ {"extract_inquiry"}
      BY <1>1, <3>1, StatusAlters DEF RunsInv, Ends, Nodes, Statuses
    <3>3. Documented(t, st, "create_sales_order")'
      BY <1>3, <1>6, <2>2, <3>2 DEF Documented, Confirming, Held, documents, Alters
    <3>4. QED BY <1>1, <1>2, <1>4, <1>5, <2>2, <3>1, <3>2, <3>3, StatusStep DEF At
  <2>3. QED BY <1>2, <2>1, <2>2 DEF MarkOrderWon
<1>8. DocumentsAgree' /\ HandoffsAgree'
  BY <1>3, <1>4, <1>6 DEF BaseInv, DocumentsAgree, HandoffsAgree, Ordered, documents, Held
<1>9. QED BY <1>7, <1>8 DEF BaseInv

(* A sales order is created.                                                  *)
LEMMA CreateSalesOrderNext ==
  ASSUME BaseInv, NEW k \in Tasks, CreateSalesOrder(k)
  PROVE  BaseInv'
<1>1. At(k, "create_sales_order") /\ Running(k) /\ RunsInv /\ task[k].pc \notin BarrenNodes
  BY DEF CreateSalesOrder, At, Running, BaseInv, BarrenNodes
<1>2. PICK t \in Threads : t = Thread(k)
  BY <1>1, RunFacts
<1>3. UNCHANGED <<quotes, revised, purchases, reserved, handoffs, lead>>
  BY DEF CreateSalesOrder
<1>4. PICK st \in StateType : st = WithStatus(k, "processing") /\ Alters(k, st)
  BY <1>1, StatusAlters DEF RunsInv, Statuses, Alters
<1>5. lead[t] = "won" /\ Held(t, st.po) # {} /\ st.po \in Nat
  BY <1>1, <1>2, <1>4, RunFacts DEF Documented, At, Alters, StateType
<1>6. CASE Fails(k, "end") /\ UNCHANGED orders
  <2>1. DocumentTypes' /\ DocumentsGrow
    BY <1>1, <1>3, <1>6, QuietGrows, OldTypes DEF documents, RunsInv
  <2>2. RunsInv'
    BY <1>1, <1>3, <1>6, <2>1, FailStep
  <2>3. QED BY <1>3, <1>6, <2>1, <2>2, PapersGrow DEF BaseInv
<1>7. CASE /\ orders' = [orders EXCEPT ![t] = Append(@, st.po)]
           /\ Goes(k, st, "build_handoff_packages") \/ Fails(k, "end")
  <2>1. orders \in [Threads -> Seq(Nat)]
    BY <1>1 DEF RunsInv, TypeOK
  <2>2. /\ orders' \in [Threads -> Seq(Nat)]
        /\ \A u \in Threads : DOMAIN orders[u] = 1 .. Len(orders[u]) /\ DOMAIN orders'[u] = 1 .. Len(orders'[u])
        /\ \A u \in Threads \ {t} : orders'[u] = orders[u]
        /\ Len(orders[t]) \in Nat /\ Len(orders'[t]) = Len(orders[t]) + 1
        /\ \A i \in DOMAIN orders[t] : orders'[t][i] = orders[t][i]
        /\ orders'[t][Len(orders[t]) + 1] = st.po
    BY <1>5, <1>7, <2>1, Appended
  <2>3. DocumentTypes'
    BY <1>1, <1>3, <2>2, OldTypes DEF DocumentTypes
  <2>4. \A u \in Threads : \A j \in DOMAIN orders[u] : j \in DOMAIN orders'[u] /\ orders'[u][j] = orders[u][j]
    <3>1. DOMAIN orders[t] \subseteq DOMAIN orders'[t]
      BY <2>2
    <3>2. QED BY <2>2, <3>1
  <2>5. DocumentsGrow
    <3>1. \A u \in Threads : Len(quotes[u]) \in Nat /\ Len(purchases[u]) \in Nat
      BY <1>1 DEF RunsInv, TypeOK
    <3>2. QED BY <1>3, <2>4, <3>1 DEF DocumentsGrow, Grows
  <2>6. Ordered(t, st.po)'
    BY <2>2 DEF Ordered
  <2>7. RunsInv'
    <3>1. CASE Fails(k, "end")
      BY <1>1, <1>3, <2>3, <2>5, <3>1, FailStep
    <3>2. CASE Goes(k, st, "build_handoff_packages")
      <4>1. Documented(t, st, "build_handoff_packages")'
        BY <1>3, <1>5, <2>6 DEF Documented, Confirming
      <4>2. "build_handoff_packages" \in Ends \ {"extract_inquiry"}
        BY DEF Ends, Nodes
      <4>3. QED BY <1>1, <1>2, <1>3, <1>4, <2>3, <2>5, <3>2, <4>1, <4>2, StatusStep
    <3>3. QED BY <1>7, <3>1, <3>2
  <2>8. \A u \in Threads : \A i \in DOMAIN orders'[u] : orders'[u][i] \in DOMAIN purchases[u]
    <3>1. st.po \in DOMAIN purchases[t]
      BY <1>5 DEF BaseInv, DocumentsAgree, Held
    <3>2. \A i \in DOMAIN orders'[t] : i \in DOMAIN orders[t] \/ i = Len(orders[t]) + 1
      BY <2>2
    <3>3. \A u \in Threads : \A i \in DOMAIN orders[u] : orders[u][i] \in DOMAIN purchases[u]
      BY DEF BaseInv, DocumentsAgree
    <3>4. ASSUME NEW i \in DOMAIN orders'[t]
          PROVE  orders'[t][i] \in DOMAIN purchases[t]
      BY <2>2, <3>1, <3>2, <3>3
    <3>5. QED BY <2>2, <3>3, <3>4
  <2>9. DocumentsAgree'
    BY <1>3, <1>5, <2>2, <2>8 DEF BaseInv, DocumentsAgree
  <2>10. HandoffsAgree'
    <3>1. ASSUME NEW u \in Threads, NEW po, Ordered(u, po)
          PROVE  Ordered(u, po)'
      BY <2>4, <3>1 DEF Ordered
    <3>2. QED BY <1>3, <3>1 DEF BaseInv, HandoffsAgree, Ordered
  <2>11. QED BY <2>7, <2>9, <2>10 DEF BaseInv
<1>8. orders' = [orders EXCEPT ![t] = Append(@, st.po)] \/ (Fails(k, "end") /\ UNCHANGED orders)
  BY <1>2, <1>4 DEF CreateSalesOrder, Alters
<1>9. QED BY <1>2, <1>4, <1>6, <1>7, <1>8 DEF CreateSalesOrder, Alters

HandoffType == [po : Nat, told : 0 .. Departments, marked : BOOLEAN]

(* The handoffs of a conversation change: what each is of stays.              *)
LEMMA HandoffsTyped ==
  ASSUME BaseInv, UNCHANGED <<quotes, revised, purchases, orders, reserved, lead>>,
         handoffs' \in [Threads -> Seq(HandoffType)],
         \A u \in Threads : \A i \in DOMAIN handoffs[u] :
           i \in DOMAIN handoffs'[u] /\ handoffs'[u][i].po = handoffs[u][i].po,
         \A u \in Threads : \A i \in DOMAIN handoffs'[u] :
           \/ Ordered(u, handoffs'[u][i].po)
           \/ i \in DOMAIN handoffs[u] /\ handoffs'[u][i].po = handoffs[u][i].po,
         \A u \in Threads : \A i \in DOMAIN handoffs'[u] :
           handoffs'[u][i].marked => handoffs'[u][i].told = Departments
  PROVE  DocumentTypes' /\ DocumentsGrow /\ DocumentsAgree' /\ HandoffsAgree'
<1>1. DocumentTypes'
  BY OldTypes DEF DocumentTypes, BaseInv, HandoffType
<1>2. DocumentsGrow
  <2>1. \A u \in Threads : Len(quotes[u]) \in Nat /\ Len(purchases[u]) \in Nat
    BY DEF BaseInv, RunsInv, TypeOK
  <2>2. QED BY <2>1 DEF DocumentsGrow, Grows
<1>3. DocumentsAgree'
  BY DEF BaseInv, DocumentsAgree
<1>4. HandoffsAgree'
  <2>1. \A u \in Threads : \A i \in DOMAIN handoffs'[u] : Ordered(u, handoffs'[u][i].po)
    BY DEF BaseInv, HandoffsAgree
  <2>2. \A u \in Threads : \A po : Ordered(u, po)' <=> Ordered(u, po)
    BY DEF Ordered
  <2>3. QED BY <2>1, <2>2 DEF HandoffsAgree, Ordered
<1>5. QED BY <1>1, <1>2, <1>3, <1>4

(* How the nodes of the handoff move their run.                               *)
LEMMA HandoffMoves ==
  ASSUME RunsInv, NEW k \in Tasks, Running(k), NEW n \in Nat, NEW st,
         st = [S(k) EXCEPT !.handoff = n],
         task' = [task EXCEPT ![k].pc = "notify_departments", ![k].st.handoff = n],
         UNCHANGED <<checkpoint, closed, crm, counters>>
  PROVE  /\ Moves(k, checkpoint[Thread(k)], st, "notify_departments")
         /\ st \in StateType /\ st.po = S(k).po /\ st.quote = S(k).quote /\ st.handoff = n
<1>1. task \in [Tasks -> TaskType] /\ checkpoint \in [Threads -> StateType \cup {None}]
  BY DEF RunsInv, TypeOK
<1>2. checkpoint' = [checkpoint EXCEPT ![Thread(k)] = checkpoint[Thread(k)]]
  BY <1>1
<1>3. st \in StateType /\ st.po = S(k).po /\ st.quote = S(k).quote /\ st.handoff = n
  BY RunFacts DEF StateType
<1>4. PICK u \in TaskType : u = task[k]
  BY <1>1
<1>10. PICK new : new = [u EXCEPT !.pc = "notify_departments", !.st = st]
  OBVIOUS
<1>5. /\ new \in TaskType /\ new.pc = "notify_departments" /\ new.st = st
      /\ new.thread = task[k].thread /\ new.trigger = task[k].trigger
      /\ new.approved = task[k].approved /\ new.seen = task[k].seen
  BY <1>3, <1>4, <1>10 DEF TaskType, Nodes
<1>6. task' = [task EXCEPT ![k] = new]
  BY <1>1, <1>4, <1>10 DEF S, TaskType
<1>7. task'[k] = new /\ \A j \in Tasks \ {k} : task'[j] = task[j]
  BY <1>1, <1>6
<1>8. task' \in [Tasks -> TaskType]
  BY <1>1, <1>5, <1>6
<1>9. QED BY <1>1, <1>2, <1>3, <1>5, <1>7, <1>8 DEF Moves

(* The handoff is recorded,                                                   *)
LEMMA DispatchHandoffNext ==
  ASSUME BaseInv, NEW k \in Tasks, DispatchHandoff(k)
  PROVE  BaseInv'
<1>1. At(k, "dispatch_handoff") /\ Running(k) /\ RunsInv /\ task[k].pc \notin BarrenNodes
  BY DEF DispatchHandoff, At, Running, BaseInv, BarrenNodes
<1>2. PICK t \in Threads : t = Thread(k)
  BY <1>1, RunFacts
<1>3. UNCHANGED <<quotes, revised, purchases, orders, reserved, lead>>
  BY DEF DispatchHandoff
<1>4. CASE Fails(k, "end") /\ UNCHANGED handoffs
  <2>1. DocumentTypes' /\ DocumentsGrow
    BY <1>1, <1>3, <1>4, QuietGrows, OldTypes DEF documents, RunsInv
  <2>2. RunsInv'
    BY <1>1, <1>3, <1>4, <2>1, FailStep
  <2>3. QED BY <1>3, <1>4, <2>1, <2>2, PapersGrow DEF BaseInv
<1>5. CASE /\ handoffs' = [handoffs EXCEPT ![t] = Append(@, [po |-> S(k).po, told |-> 0, marked |-> FALSE])]
           /\ task' = [task EXCEPT ![k].pc = "notify_departments",
                                   ![k].st.handoff = Len(handoffs'[t])]
           /\ UNCHANGED <<checkpoint, closed, crm, counters>>
  <2>1. PICK new : new = [po |-> S(k).po, told |-> 0, marked |-> FALSE]
    OBVIOUS
  <2>2. /\ handoffs' = [handoffs EXCEPT ![t] = Append(@, new)]
        /\ task' = [task EXCEPT ![k].pc = "notify_departments",
                                ![k].st.handoff = Len(handoffs'[t])]
        /\ UNCHANGED <<checkpoint, closed, crm, counters>>
    BY <1>5, <2>1
  <2>3. new \in HandoffType /\ new.po = S(k).po /\ ~ new.marked
    BY <1>1, <2>1, RunFacts, ConstantsAssumption DEF HandoffType, StateType
  <2>4. handoffs \in [Threads -> Seq(HandoffType)]
    BY <1>1 DEF RunsInv, TypeOK, HandoffType
  <2>5. /\ handoffs' \in [Threads -> Seq(HandoffType)]
        /\ \A u \in Threads : DOMAIN handoffs[u] = 1 .. Len(handoffs[u])
                              /\ DOMAIN handoffs'[u] = 1 .. Len(handoffs'[u])
        /\ \A u \in Threads \ {t} : handoffs'[u] = handoffs[u]
        /\ Len(handoffs[t]) \in Nat /\ Len(handoffs'[t]) = Len(handoffs[t]) + 1
        /\ \A i \in DOMAIN handoffs[t] : handoffs'[t][i] = handoffs[t][i]
        /\ handoffs'[t][Len(handoffs[t]) + 1] = new
    BY <2>2, <2>3, <2>4, Appended
  <2>6. PICK n \in Nat : n = Len(handoffs'[t])
    BY <2>5
  <2>7. PICK st : st = [S(k) EXCEPT !.handoff = n]
    OBVIOUS
  <2>8. /\ Moves(k, checkpoint[t], st, "notify_departments")
        /\ st \in StateType /\ st.po = S(k).po /\ st.quote = S(k).quote /\ st.handoff = n
    <3>1. task' = [task EXCEPT ![k].pc = "notify_departments", ![k].st.handoff = n]
      BY <2>2, <2>6
    <3>2. UNCHANGED <<checkpoint, closed, crm, counters>>
      BY <2>2
    <3>3. /\ Moves(k, checkpoint[Thread(k)], st, "notify_departments")
          /\ st \in StateType /\ st.po = S(k).po /\ st.quote = S(k).quote /\ st.handoff = n
      BY <1>1, <2>7, <3>1, <3>2, HandoffMoves, ZenonT(60)
    <3>4. QED BY <1>2, <3>3
  <2>9. lead[t] = "won" /\ Ordered(t, st.po)
    BY <1>1, <1>2, <2>8, RunFacts DEF Documented, Confirming, At
  <2>10. DOMAIN handoffs[t] \subseteq DOMAIN handoffs'[t]
         /\ \A i \in DOMAIN handoffs'[t] : i \in DOMAIN handoffs[t] \/ (i = n /\ handoffs'[t][i] = new)
    BY <2>5, <2>6
  <2>11. DocumentTypes' /\ DocumentsGrow /\ DocumentsAgree' /\ HandoffsAgree'
    <3>1. \A u \in Threads : \A i \in DOMAIN handoffs[u] :
            i \in DOMAIN handoffs'[u] /\ handoffs'[u][i].po = handoffs[u][i].po
      BY <2>5, <2>10
    <3>2. \A u \in Threads : \A i \in DOMAIN handoffs'[u] :
           \/ Ordered(u, handoffs'[u][i].po)
           \/ i \in DOMAIN handoffs[u] /\ handoffs'[u][i].po = handoffs[u][i].po
      BY <2>3, <2>5, <2>8, <2>9, <2>10
    <3>3. \A u \in Threads : \A i \in DOMAIN handoffs'[u] :
           handoffs'[u][i].marked => handoffs'[u][i].told = Departments
      <4>1. ASSUME NEW u \in Threads, NEW i \in DOMAIN handoffs'[u], handoffs'[u][i].marked
            PROVE  handoffs'[u][i].told = Departments
        <5>1. i \in DOMAIN handoffs[u] /\ handoffs'[u][i] = handoffs[u][i]
          BY <2>3, <2>5, <2>10, <4>1
        <5>2. QED BY <4>1, <5>1 DEF BaseInv, HandoffsAgree
      <4>2. QED BY <4>1
    <3>4. QED BY <1>3, <2>5, <3>1, <3>2, <3>3, HandoffsTyped
  <2>12. RunsInv'
    <3>1. PICK c \in StateType : c = checkpoint[t]
      BY <1>1, <1>2, RunFacts
    <3>2. Known(t, c)' /\ Known(t, st)'
      <4>1. Known(t, c) /\ Known(t, st)
        BY <1>1, <1>2, <2>8, <3>1, RunFacts DEF Known
      <4>2. QED BY <1>1, <2>11, <4>1, KnownGrows DEF RunsInv
    <3>3. Documented(t, st, "notify_departments")'
      <4>1. n \in DOMAIN handoffs'[t] /\ handoffs'[t][n] = new
        BY <2>5, <2>6
      <4>2. Ordered(t, st.po)'
        BY <1>3, <2>9 DEF Ordered
      <4>3. QED BY <1>3, <2>3, <2>8, <2>9, <4>1, <4>2 DEF Documented, Confirming
    <3>4. "notify_departments" \in Ends
      BY DEF Ends, Nodes
    <3>5. QED BY <1>1, <1>2, <1>3, <2>8, <2>11, <3>1, <3>2, <3>3, <3>4, RunStep
  <2>13. QED BY <2>11, <2>12 DEF BaseInv
<1>6. QED BY <1>2, <1>4, <1>5 DEF DispatchHandoff

(* One handoff of a conversation is told or marked.                           *)
LEMMA HandoffChanged ==
  ASSUME BaseInv, UNCHANGED <<quotes, revised, purchases, orders, reserved, lead>>,
         NEW t \in Threads, NEW i \in DOMAIN handoffs[t], NEW h \in HandoffType,
         handoffs' = [handoffs EXCEPT ![t] = [handoffs[t] EXCEPT ![i] = h]],
         h.po = handoffs[t][i].po, h.marked => h.told = Departments
  PROVE  DocumentTypes' /\ DocumentsGrow /\ DocumentsAgree' /\ HandoffsAgree'
<1>1. handoffs \in [Threads -> Seq(HandoffType)]
  BY DEF BaseInv, RunsInv, TypeOK, HandoffType
<1>2. handoffs[t] \in Seq(HandoffType)
  BY <1>1
<1>3. PICK e : e = [handoffs[t] EXCEPT ![i] = h]
  OBVIOUS
<1>4. handoffs[t] \in [DOMAIN handoffs[t] -> HandoffType]
  BY <1>2
<1>5. /\ e \in [DOMAIN handoffs[t] -> HandoffType] /\ e[i] = h
      /\ \A j \in DOMAIN handoffs[t] \ {i} : e[j] = handoffs[t][j]
  BY <1>3, <1>4
<1>6. handoffs' = [handoffs EXCEPT ![t] = e]
  BY <1>3
<1>7. /\ handoffs' \in [Threads -> Seq(HandoffType)]
      /\ \A u \in Threads : DOMAIN handoffs'[u] = DOMAIN handoffs[u]
      /\ \A u \in Threads \ {t} : handoffs'[u] = handoffs[u]
      /\ handoffs'[t] = e
  BY <1>1, <1>5, <1>6, Replaced
<1>8. \A u \in Threads : \A j \in DOMAIN handoffs[u] :
        j \in DOMAIN handoffs'[u] /\ handoffs'[u][j].po = handoffs[u][j].po
  BY <1>5, <1>7
<1>9. \A u \in Threads : \A j \in DOMAIN handoffs'[u] :
        handoffs'[u][j].marked => handoffs'[u][j].told = Departments
  <2>1. \A u \in Threads : \A j \in DOMAIN handoffs[u] :
          handoffs[u][j].marked => handoffs[u][j].told = Departments
    BY DEF BaseInv, HandoffsAgree
  <2>2. ASSUME NEW j \in DOMAIN handoffs[t]
        PROVE  handoffs'[t][j].marked => handoffs'[t][j].told = Departments
    BY <1>5, <1>7, <2>1
  <2>3. QED BY <1>7, <2>1, <2>2
<1>10. QED BY <1>7, <1>8, <1>9, HandoffsTyped

(* The handoff a run tells of.                                                *)
LEMMA HandoffOfRun ==
  ASSUME BaseInv, NEW k \in Tasks, At(k, "notify_departments")
  PROVE  /\ Thread(k) \in Threads /\ S(k).handoff \in DOMAIN handoffs[Thread(k)]
         /\ handoffs[Thread(k)][S(k).handoff] \in HandoffType
         /\ handoffs[Thread(k)][S(k).handoff].po = S(k).po
<1>1. /\ Thread(k) \in Threads /\ S(k).handoff \in DOMAIN handoffs[Thread(k)]
      /\ handoffs[Thread(k)][S(k).handoff].po = S(k).po
  BY RunFacts DEF BaseInv, At, Running, Documented
<1>2. handoffs[Thread(k)] \in Seq(HandoffType)
  BY <1>1 DEF BaseInv, RunsInv, TypeOK, HandoffType
<1>3. QED BY <1>1, <1>2

Told(k) == handoffs' = [handoffs EXCEPT ![Thread(k)][S(k).handoff].told = @ + 1]

(* a department is told,                                                      *)
LEMMA NotifyCases ==
  ASSUME NEW k, NotifyDepartment(k)
  PROVE  /\ At(k, "notify_departments") /\ handoffs[Thread(k)][S(k).handoff].told < Departments
         /\ UNCHANGED <<quotes, revised, purchases, orders, reserved, lead>>
         /\ Told(k) \/ UNCHANGED handoffs
         /\ \/ Told(k) /\ UNCHANGED <<checkpoint, task, closed, crm, counters>>
            \/ Fails(k, "end")
  BY DEF NotifyDepartment, Told

(* one after the other,                                                       *)
LEMMA NotifyDepartmentNext ==
  ASSUME BaseInv, NEW k \in Tasks, NotifyDepartment(k)
  PROVE  BaseInv'
<1>1. /\ At(k, "notify_departments") /\ Running(k) /\ RunsInv /\ task[k].pc \notin BarrenNodes
      /\ UNCHANGED <<quotes, revised, purchases, orders, reserved, lead>>
  BY NotifyCases DEF At, Running, BaseInv, BarrenNodes
<1>2. PICK t \in Threads : t = Thread(k)
  BY <1>1, RunFacts
<1>3. PICK i : i = S(k).handoff
  OBVIOUS
<1>4. i \in DOMAIN handoffs[t] /\ handoffs[t][i] \in HandoffType
  BY <1>1, <1>2, <1>3, HandoffOfRun
<1>5. DocumentTypes' /\ DocumentsGrow /\ DocumentsAgree' /\ HandoffsAgree'
  <2>1. CASE UNCHANGED handoffs
    <3>1. DocumentTypes' /\ DocumentsGrow
      BY <1>1, <2>1, QuietGrows, OldTypes DEF documents, RunsInv
    <3>2. QED BY <1>1, <2>1, <3>1, PapersGrow
  <2>2. CASE Told(k)
    <3>1. PICK h \in HandoffType : h = handoffs[t][i]
      BY <1>4
    <3>2. h.told \in 0 .. Departments /\ h.told < Departments /\ ~ h.marked
      BY <1>2, <1>3, <1>4, <3>1, NotifyCases DEF HandoffType, BaseInv, HandoffsAgree
    <3>3. PICK g : g = [h EXCEPT !.told = h.told + 1]
      OBVIOUS
    <3>4. g \in HandoffType /\ g.po = h.po /\ ~ g.marked
      BY <3>2, <3>3, ConstantsAssumption DEF HandoffType
    <3>5. handoffs' = [handoffs EXCEPT ![t] = [handoffs[t] EXCEPT ![i] = g]]
      BY <1>1, <1>2, <1>3, <2>2, <3>1, <3>3 DEF Told, RunsInv, TypeOK
    <3>6. QED BY <1>1, <1>4, <3>1, <3>4, <3>5, HandoffChanged
  <2>3. QED BY <2>1, <2>2, NotifyCases
<1>6. RunsInv'
  <2>1. CASE Fails(k, "end")
    BY <1>1, <1>5, <2>1, FailStep
  <2>2. CASE UNCHANGED <<checkpoint, task, closed, crm, counters>>
    <3>1. PICK st \in StateType : st = S(k)
      BY <1>1, RunFacts
    <3>2. Documented(t, st, "notify_departments")'
      <4>1. Documented(t, st, "notify_departments")
        BY <1>1, <1>2, <3>1, RunFacts DEF At
      <4>2. QED BY <1>5, <4>1, DocumentedGrows
    <3>3. task' = [task EXCEPT ![k].pc = "notify_departments"]
      BY <1>1, <2>2 DEF At, RunsInv, TypeOK, TaskType
    <3>4. \A s : s = S(k) => Documented(t, s, "notify_departments")'
      BY <3>1, <3>2
    <3>5. "notify_departments" \in Ends \ {"end"}
      BY DEF Ends, Nodes
    <3>6. QED BY <1>1, <1>2, <1>5, <2>2, <3>3, <3>4, <3>5, ControlStep
  <2>3. QED BY <2>1, <2>2, NotifyCases
<1>7. QED BY <1>5, <1>6 DEF BaseInv

Marks(k) == handoffs' = [handoffs EXCEPT ![Thread(k)][S(k).handoff].marked = TRUE]

(* and the departments are marked                                             *)
LEMMA MarkCases ==
  ASSUME NEW k, MarkDepartments(k)
  PROVE  /\ At(k, "notify_departments") /\ handoffs[Thread(k)][S(k).handoff].told = Departments
         /\ UNCHANGED <<quotes, revised, purchases, orders, reserved, lead>>
         /\ \/ Marks(k) /\ Goes(k, WithStatus(k, "processing"), "finalize_audit")
            \/ Fails(k, "end") /\ UNCHANGED handoffs
  BY DEF MarkDepartments, Marks

(* when all were told.                                                        *)
LEMMA MarkDepartmentsNext ==
  ASSUME BaseInv, NEW k \in Tasks, MarkDepartments(k)
  PROVE  BaseInv'
<1>1. /\ At(k, "notify_departments") /\ Running(k) /\ RunsInv /\ task[k].pc \notin BarrenNodes
      /\ UNCHANGED <<quotes, revised, purchases, orders, reserved, lead>>
  BY MarkCases DEF At, Running, BaseInv, BarrenNodes
<1>2. PICK t \in Threads : t = Thread(k)
  BY <1>1, RunFacts
<1>3. CASE Fails(k, "end") /\ UNCHANGED handoffs
  <2>1. DocumentTypes' /\ DocumentsGrow
    BY <1>1, <1>3, QuietGrows, OldTypes DEF documents, RunsInv
  <2>2. RunsInv'
    BY <1>1, <1>3, <2>1, FailStep
  <2>3. QED BY <1>1, <1>3, <2>1, <2>2, PapersGrow DEF BaseInv
<1>4. CASE Marks(k) /\ Goes(k, WithStatus(k, "processing"), "finalize_audit")
  <2>1. PICK i : i = S(k).handoff
    OBVIOUS
  <2>2. i \in DOMAIN handoffs[t] /\ handoffs[t][i] \in HandoffType /\ handoffs[t][i].po = S(k).po
    BY <1>1, <1>2, <2>1, HandoffOfRun
  <2>3. PICK h \in HandoffType : h = handoffs[t][i]
    BY <2>2
  <2>4. PICK g : g = [h EXCEPT !.marked = TRUE]
    OBVIOUS
  <2>5. g \in HandoffType /\ g.po = h.po /\ g.told = Departments
    BY <1>2, <2>1, <2>3, <2>4, MarkCases DEF HandoffType
  <2>6. handoffs' = [handoffs EXCEPT ![t] = [handoffs[t] EXCEPT ![i] = g]]
    BY <1>1, <1>2, <1>4, <2>1, <2>3, <2>4 DEF Marks, RunsInv, TypeOK
  <2>7. DocumentTypes' /\ DocumentsGrow /\ DocumentsAgree' /\ HandoffsAgree'
    BY <1>1, <2>2, <2>3, <2>5, <2>6, HandoffChanged
  <2>8. PICK st \in StateType : st = WithStatus(k, "processing") /\ Alters(k, st)
    BY <1>1, StatusAlters DEF RunsInv, Statuses, Alters
  <2>9. Documented(t, st, "finalize_audit")'
    <3>1. lead[t] = "won" /\ Ordered(t, st.po)
      BY <1>1, <1>2, <2>8, RunFacts DEF Documented, Confirming, At, Alters
    <3>2. QED BY <1>1, <3>1 DEF Documented, Confirming, Ordered
  <2>10. "finalize_audit" \in Ends \ {"extract_inquiry"}
    BY DEF Ends, Nodes
  <2>11. RunsInv'
    BY <1>1, <1>2, <1>4, <2>7, <2>8, <2>9, <2>10, StatusStep
  <2>12. QED BY <2>7, <2>11 DEF BaseInv
<1>5. QED BY <1>3, <1>4, MarkCases

-----------------------------------------------------------------------------
(* The CRM, and requests                                                      *)

CounterTypes ==
  /\ closed \in [Threads -> BOOLEAN] /\ crm \in [Threads -> {"none", "closing", "reopening"}]
  /\ started \in 0 .. MaxRequests /\ cuts \in 0 .. MaxCuts /\ disturbed \subseteq Threads

(* Without a document written all of them stay typed and agree.               *)
LEMMA PapersStay ==
  ASSUME BaseInv, UNCHANGED documents, UNCHANGED lead
  PROVE  DocumentTypes' /\ DocumentsGrow /\ DocumentsAgree' /\ HandoffsAgree'
<1>1. UNCHANGED <<documents, lead>> /\ UNCHANGED <<orders, reserved, handoffs, lead>>
  BY DEF documents
<1>2. DocumentTypes' /\ DocumentsGrow
  BY <1>1, QuietGrows, OldTypes DEF BaseInv, RunsInv
<1>3. QED BY <1>1, <1>2, PapersGrow

(* A step of the CRM: the runs are where they were.                           *)
LEMMA DeskStep ==
  ASSUME BaseInv, UNCHANGED documents, UNCHANGED lead, UNCHANGED task, CounterTypes',
         checkpoint' \in [Threads -> StateType \cup {None}],
         \A u \in Threads : (checkpoint'[u] = None) <=> (checkpoint[u] = None),
         \A u \in Threads : checkpoint[u] # None =>
           /\ checkpoint'[u].po = checkpoint[u].po /\ checkpoint'[u].quote = checkpoint[u].quote
           /\ Barren(checkpoint[u]) => Barren(checkpoint'[u]),
         \A u \in Threads : closed'[u] \/ crm'[u] # "none" => checkpoint[u] # None
  PROVE  BaseInv'
<1>1. DocumentTypes' /\ DocumentsGrow /\ DocumentsAgree' /\ HandoffsAgree'
  BY PapersStay
<1>2. TypeOK'
  BY <1>1 DEF BaseInv, RunsInv, TypeOK, DocumentTypes, CounterTypes
<1>3. RunsKnown'
  <2>1. ASSUME NEW k \in Tasks
        PROVE  RunKnown(k)'
    BY DEF BaseInv, RunsInv, RunsKnown, RunKnown, Known, Thread, S, documents
  <2>2. QED BY <2>1 DEF RunsKnown
<1>4. ThreadsKnown'
  BY DEF BaseInv, RunsInv, ThreadsKnown, ThreadKnown, Known, documents
<1>5. EarlyInquiry'
  <2>1. ASSUME NEW k \in Tasks, Early(k)'
        PROVE  EarlyAlone(k)'
    <3>1. Early(k) /\ EarlyAlone(k)
      BY <2>1 DEF Early, BaseInv, RunsInv, EarlyInquiry
    <3>2. Thread(k) \in Threads
      BY <3>1 DEF Early, BaseInv, RunsInv, RunsKnown, RunKnown
    <3>3. checkpoint'[Thread(k)] # None => Barren(checkpoint'[Thread(k)])
      BY <3>1, <3>2 DEF EarlyAlone
    <3>4. task[k].pc = "received" => checkpoint'[Thread(k)] = None
      BY <3>1, <3>2 DEF EarlyAlone
    <3>5. QED BY <3>1, <3>2, <3>3, <3>4 DEF EarlyAlone, Thread, S, On, Barren
  <2>2. QED BY <2>1 DEF EarlyInquiry
<1>6. RunsDocumented'
  BY DEF BaseInv, RunsInv, RunsDocumented, Documented, Thread, S, Held, Ordered, documents
<1>7. QED BY <1>1, <1>2, <1>3, <1>4, <1>5, <1>6 DEF BaseInv, RunsInv

(* A lead is closed lost,                                                     *)
LEMMA CloseLostNext ==
  ASSUME BaseInv, NEW t \in Threads, CloseLost(t)
  PROVE  BaseInv'
<1>1. TypeOK /\ checkpoint[t] # None
  BY DEF CloseLost, BaseInv, RunsInv, ThreadsKnown, ThreadKnown
<1>2. CounterTypes'
  BY <1>1, ConstantsAssumption DEF CloseLost, Disturb, TypeOK, CounterTypes
<1>3. \A u \in Threads : closed'[u] \/ crm'[u] # "none" => checkpoint[u] # None
  BY <1>1 DEF CloseLost, TypeOK, BaseInv, RunsInv, ThreadsKnown, ThreadKnown
<1>4. UNCHANGED documents /\ UNCHANGED lead /\ UNCHANGED task /\ UNCHANGED checkpoint
  BY DEF CloseLost
<1>5. checkpoint' \in [Threads -> StateType \cup {None}]
  BY <1>1, <1>4 DEF TypeOK
<1>6. QED BY <1>2, <1>3, <1>4, <1>5, DeskStep

(* or opened again,                                                           *)
LEMMA ReopenLeadNext ==
  ASSUME BaseInv, NEW t \in Threads, ReopenLead(t)
  PROVE  BaseInv'
<1>1. TypeOK /\ checkpoint[t] # None
  BY DEF ReopenLead, BaseInv, RunsInv, ThreadsKnown, ThreadKnown
<1>2. CounterTypes'
  BY <1>1, ConstantsAssumption DEF ReopenLead, Disturb, TypeOK, CounterTypes
<1>3. \A u \in Threads : closed'[u] \/ crm'[u] # "none" => checkpoint[u] # None
  BY <1>1 DEF ReopenLead, TypeOK, BaseInv, RunsInv, ThreadsKnown, ThreadKnown
<1>4. UNCHANGED documents /\ UNCHANGED lead /\ UNCHANGED task /\ UNCHANGED checkpoint
  BY DEF ReopenLead
<1>5. checkpoint' \in [Threads -> StateType \cup {None}]
  BY <1>1, <1>4 DEF TypeOK
<1>6. QED BY <1>2, <1>3, <1>4, <1>5, DeskStep

(* its checkpoint left behind when the process dies,                          *)
LEMMA CrmCutNext ==
  ASSUME BaseInv, NEW t \in Threads, CrmCut(t)
  PROVE  BaseInv'
<1>1. TypeOK
  BY DEF BaseInv, RunsInv
<1>2. CounterTypes'
  BY <1>1, ConstantsAssumption DEF CrmCut, TypeOK, CounterTypes
<1>3. \A u \in Threads : closed'[u] \/ crm'[u] # "none" => checkpoint[u] # None
  BY <1>1 DEF CrmCut, TypeOK, BaseInv, RunsInv, ThreadsKnown, ThreadKnown
<1>4. UNCHANGED documents /\ UNCHANGED lead /\ UNCHANGED task /\ UNCHANGED checkpoint
  BY DEF CrmCut
<1>5. checkpoint' \in [Threads -> StateType \cup {None}]
  BY <1>1, <1>4 DEF TypeOK
<1>6. QED BY <1>2, <1>3, <1>4, <1>5, DeskStep

(* or written.                                                                *)
LEMMA UpdateCheckpointNext ==
  ASSUME BaseInv, NEW t \in Threads, UpdateCheckpoint(t)
  PROVE  BaseInv'
<1>1. TypeOK /\ checkpoint[t] # None
  BY DEF UpdateCheckpoint, BaseInv, RunsInv, ThreadsKnown, ThreadKnown
<1>2. checkpoint \in [Threads -> StateType \cup {None}]
  BY <1>1 DEF TypeOK
<1>3. PICK c \in StateType : c = checkpoint[t]
  BY <1>1, <1>2
<1>4. PICK s \in Statuses : checkpoint' = [checkpoint EXCEPT ![t].status = s]
  BY DEF UpdateCheckpoint, Statuses
<1>5. PICK d : d = [c EXCEPT !.status = s]
  OBVIOUS
<1>6. /\ d \in StateType /\ d.po = c.po /\ d.quote = c.quote
      /\ d.price = c.price /\ d.stage = c.stage /\ d.missing = c.missing
      /\ d.offer = c.offer /\ d.analysis = c.analysis
  BY <1>5 DEF StateType
<1>7. checkpoint' = [checkpoint EXCEPT ![t] = d]
  BY <1>2, <1>3, <1>4, <1>5
<1>8. /\ checkpoint' \in [Threads -> StateType \cup {None}]
      /\ checkpoint'[t] = d /\ \A u \in Threads \ {t} : checkpoint'[u] = checkpoint[u]
  BY <1>2, <1>6, <1>7
<1>9. Barren(c) => Barren(d)
  BY <1>6 DEF Barren
<1>10. d # None
  BY <1>6, NoneAssumption
<1>11. /\ \A u \in Threads : (checkpoint'[u] = None) <=> (checkpoint[u] = None)
       /\ \A u \in Threads : checkpoint[u] # None =>
           /\ checkpoint'[u].po = checkpoint[u].po /\ checkpoint'[u].quote = checkpoint[u].quote
           /\ Barren(checkpoint[u]) => Barren(checkpoint'[u])
  BY <1>1, <1>3, <1>6, <1>8, <1>9, <1>10
<1>12. CounterTypes'
  BY <1>1 DEF UpdateCheckpoint, TypeOK, CounterTypes, counters
<1>13. \A u \in Threads : closed'[u] \/ crm'[u] # "none" => checkpoint[u] # None
  BY <1>1 DEF UpdateCheckpoint, TypeOK, BaseInv, RunsInv, ThreadsKnown, ThreadKnown
<1>14. UNCHANGED documents /\ UNCHANGED lead /\ UNCHANGED task
  BY DEF UpdateCheckpoint
<1>15. QED BY <1>8, <1>11, <1>12, <1>13, <1>14, DeskStep

(* Nothing happens.                                                           *)
LEMMA StutterNext == ASSUME BaseInv, UNCHANGED vars PROVE BaseInv'
<1>1. /\ UNCHANGED documents /\ UNCHANGED lead /\ UNCHANGED task /\ UNCHANGED checkpoint
      /\ UNCHANGED <<closed, crm, counters>>
  BY DEF vars, leads
<1>2. CounterTypes' /\ checkpoint' \in [Threads -> StateType \cup {None}]
  BY <1>1 DEF CounterTypes, BaseInv, RunsInv, TypeOK, counters
<1>3. \A u \in Threads : closed'[u] \/ crm'[u] # "none" => checkpoint[u] # None
  BY <1>1 DEF BaseInv, RunsInv, ThreadsKnown, ThreadKnown
<1>4. QED BY <1>1, <1>2, <1>3, DeskStep

(* A run ends without a trace.                                                *)
LEMMA AbandonNext ==
  ASSUME BaseInv, NEW k \in Tasks, Abandon(k)
  PROVE  BaseInv'
<1>1. TypeOK /\ UNCHANGED documents /\ UNCHANGED lead /\ UNCHANGED checkpoint
      /\ task' = [task EXCEPT ![k] = Idle] /\ cuts < MaxCuts /\ cuts' = cuts + 1
      /\ UNCHANGED <<closed, crm, started, disturbed>>
  BY DEF Abandon, BaseInv, RunsInv, leads
<1>2. task'[k] = Idle /\ \A j \in Tasks \ {k} : task'[j] = task[j]
  BY <1>1 DEF TypeOK
<1>3. DocumentTypes' /\ DocumentsGrow /\ DocumentsAgree' /\ HandoffsAgree'
  BY <1>1, PapersStay
<1>4. TypeOK'
  <2>1. task' \in [Tasks -> TaskType]
    BY <1>1, IdleTask DEF TypeOK
  <2>2. cuts' \in 0 .. MaxCuts
    BY <1>1, ConstantsAssumption DEF TypeOK
  <2>3. QED BY <1>1, <1>3, <2>1, <2>2 DEF TypeOK, DocumentTypes
<1>5. RunsKnown'
  <2>1. ASSUME NEW j \in Tasks
        PROVE  RunKnown(j)'
    <3>1. CASE j = k
      BY <1>2, <3>1 DEF RunKnown, Idle
    <3>2. CASE j # k
      BY <1>1, <1>2, <3>2 DEF BaseInv, RunsInv, RunsKnown, RunKnown, Known, Thread, S, documents
    <3>3. QED BY <3>1, <3>2
  <2>2. QED BY <2>1 DEF RunsKnown
<1>6. ThreadsKnown'
  BY <1>1 DEF BaseInv, RunsInv, ThreadsKnown, ThreadKnown, Known, documents
<1>7. EarlyInquiry'
  <2>1. ASSUME NEW e \in Tasks, Early(e)'
        PROVE  EarlyAlone(e)'
    <3>1. e # k /\ task'[e] = task[e]
      BY <1>2, <2>1 DEF Early, Idle
    <3>2. Early(e) /\ EarlyAlone(e)
      BY <2>1, <3>1 DEF Early, BaseInv, RunsInv, EarlyInquiry
    <3>3. Thread(e) \in Threads
      BY <3>2 DEF Early, BaseInv, RunsInv, RunsKnown, RunKnown
    <3>4. ASSUME NEW j \in Tasks \ {e}, On(j, Thread(e))'
          PROVE  task'[j] = task[j] /\ On(j, Thread(e))
      BY <1>2, <3>1, <3>3, <3>4, NoneAssumption DEF On, Thread, Idle
    <3>5. QED BY <1>1, <3>1, <3>2, <3>4 DEF EarlyAlone, Thread, S, Barren
  <2>2. QED BY <2>1 DEF EarlyInquiry
<1>8. RunsDocumented'
  <2>1. ASSUME NEW j \in Tasks
        PROVE  Documented(Thread(j), S(j), task[j].pc)'
    <3>1. CASE j = k
      BY <1>2, <3>1 DEF Documented, Confirming, Idle
    <3>2. CASE j # k
      BY <1>1, <1>2, <3>2 DEF BaseInv, RunsInv, RunsDocumented, Documented, Thread, S, Held,
        Ordered, documents
    <3>3. QED BY <3>1, <3>2
  <2>2. QED BY <2>1 DEF RunsDocumented
<1>9. QED BY <1>3, <1>4, <1>5, <1>6, <1>7, <1>8 DEF BaseInv, RunsInv

(* The state a new inquiry begins with.                                       *)
LEMMA NewStateIs == NewState \in StateType /\ Barren(NewState) /\ NewState.po = 0 /\ NewState.quote = 0
  BY NoneAssumption, ConstantsAssumption DEF NewState, StateType, Statuses, PriceOrNot, Barren

(* What a request brings: the stage a human approved only with an approval,   *)
(* and a checkpoint to go on from unless it is a new inquiry.                 *)
Brings(k, t, trigger, stage, item) ==
  /\ trigger \in Triggers /\ item \in Nat \cup {None, Impossible}
  /\ IF trigger = "approved" THEN stage \in Stages ELSE stage = None
  /\ trigger # "inquiry" => checkpoint[t] # None
  /\ trigger = "inquiry" => checkpoint[t] = None /\ ~ Busy(t)
  /\ trigger = "approved" => checkpoint[t].stage = stage
  /\ trigger = "retry_pricing" => checkpoint[t].missing

(* A request is received.                                                     *)
LEMMA ReceiveStep ==
  ASSUME RunsInv, DocumentTypes', DocumentsGrow, UNCHANGED lead, NEW k \in Tasks, NEW t \in Threads,
         NEW trigger, NEW stage, NEW item, Receive(k, t, trigger, stage, item),
         Brings(k, t, trigger, stage, item)
  PROVE  RunsInv'
<1>1. /\ task \in [Tasks -> TaskType] /\ task[k] = Idle /\ TypeOK
      /\ UNCHANGED checkpoint /\ UNCHANGED <<closed, crm, cuts>>
      /\ started < MaxRequests /\ started' = started + 1 /\ Disturb(t)
  BY DEF RunsInv, TypeOK, Receive, leads
<1>2. PICK new : new = [pc |-> "received", thread |-> t, trigger |-> trigger,
                        approved |-> stage, seen |-> item, st |-> NewState]
  OBVIOUS
<1>3. task' = [task EXCEPT ![k] = new]
  BY <1>2 DEF Receive
<1>4. /\ new \in TaskType /\ new.pc = "received" /\ new.thread = t /\ new.trigger = trigger
      /\ new.approved = stage /\ new.st = NewState
  BY <1>2, NewStateIs DEF Brings, TaskType
<1>5. /\ task' \in [Tasks -> TaskType] /\ task'[k] = new
      /\ \A j \in Tasks \ {k} : task'[j] = task[j]
  BY <1>1, <1>3, <1>4
<1>6. TypeOK'
  <2>1. started' \in 0 .. MaxRequests /\ disturbed' \subseteq Threads
    BY <1>1, ConstantsAssumption DEF TypeOK, Disturb
  <2>2. QED BY <1>1, <1>5, <2>1 DEF TypeOK, DocumentTypes
<1>7. \A u \in Threads : \A st : Known(u, st) => Known(u, st)'
  BY <1>1, KnownGrows
<1>8. RunsKnown'
  <2>1. RunKnown(k)'
    <3>1. Known(t, NewState)'
      <4>1. Len(quotes[t]) \in Nat /\ Len(purchases[t]) \in Nat
        BY <1>1 DEF TypeOK
      <4>2. Known(t, NewState)
        BY <4>1, NewStateIs DEF Known
      <4>3. QED BY <1>7, <4>2
    <3>2. QED BY <1>1, <1>4, <1>5, <3>1 DEF RunKnown, Brings, Thread, S, Known
  <2>2. ASSUME NEW j \in Tasks \ {k}
        PROVE  RunKnown(j)'
    <3>1. RunKnown(j) /\ task'[j] = task[j]
      BY <1>5 DEF RunsInv, RunsKnown
    <3>2. task[j].pc # "idle" => Known(Thread(j), S(j))'
      <4>1. \A u \in Threads : \A st : u = Thread(j) /\ st = S(j) /\ Known(u, st) => Known(u, st)'
        BY <1>7
      <4>2. QED BY <3>1, <4>1 DEF RunKnown, Thread, S, Known
    <3>3. QED BY <1>1, <3>1, <3>2 DEF RunKnown, Thread, S, Known
  <2>3. QED BY <2>1, <2>2 DEF RunsKnown
<1>9. ThreadsKnown'
  <2>1. ASSUME NEW u \in Threads
        PROVE  ThreadKnown(u)'
    <3>1. PICK c : c = checkpoint[u]
      OBVIOUS
    <3>2. ThreadKnown(u) /\ checkpoint'[u] = c
      BY <1>1, <3>1 DEF RunsInv, ThreadsKnown
    <3>3. c # None => Known(u, c)'
      BY <1>7, <3>1, <3>2 DEF ThreadKnown
    <3>4. QED BY <1>1, <3>1, <3>2, <3>3 DEF ThreadKnown, Known
  <2>2. QED BY <2>1 DEF ThreadsKnown
<1>10. EarlyInquiry'
  <2>1. ASSUME NEW e \in Tasks, Early(e)'
        PROVE  EarlyAlone(e)'
    <3>1. CASE e = k
      <4>1. trigger = "inquiry" /\ checkpoint[t] = None /\ ~ Busy(t)
        BY <1>4, <1>5, <2>1, <3>1 DEF Early, Brings
      <4>2. lead[t] = "none"
        BY <4>1 DEF RunsInv, ThreadsKnown, ThreadKnown
      <4>3. \A j \in Tasks \ {k} : ~ On(j, t)'
        BY <1>5, <4>1 DEF On, Busy, Thread
      <4>4. QED BY <1>1, <1>4, <1>5, <3>1, <4>1, <4>2, <4>3, NewStateIs DEF EarlyAlone, Thread,
        S, On, Barren
    <3>2. CASE e # k
      <4>1. Early(e) /\ EarlyAlone(e) /\ task'[e] = task[e]
        BY <1>5, <2>1, <3>2 DEF Early, RunsInv, EarlyInquiry
      <4>2. Thread(e) = t => trigger \in Replying
        <5>1. ASSUME Thread(e) = t
              PROVE  trigger \in Replying
          <6>1. trigger # "inquiry"
            BY <5>1 DEF Brings, Busy
          <6>2. trigger # "approved"
            BY <4>1, <5>1, NoneAssumption DEF Brings, EarlyAlone, Barren
          <6>3. trigger # "retry_pricing"
            BY <4>1, <5>1 DEF Brings, EarlyAlone, Barren
          <6>4. QED BY <6>1, <6>2, <6>3 DEF Brings, Triggers, Replying
        <5>2. QED BY <5>1
      <4>3. ASSUME NEW j \in Tasks \ {e}, On(j, Thread(e))'
            PROVE  task'[j].trigger \in Replying /\ task'[j].pc \in BarrenNodes /\ Barren(S(j)')
        <5>1. CASE j = k
          <6>1. Thread(e) = t
            BY <1>4, <1>5, <4>1, <4>3, <5>1 DEF On, Thread
          <6>2. QED BY <1>4, <1>5, <4>2, <5>1, <6>1, NewStateIs DEF S, BarrenNodes
        <5>2. CASE j # k
          <6>1. On(j, Thread(e)) /\ task'[j] = task[j]
            BY <1>5, <4>1, <4>3, <5>2 DEF On, Thread
          <6>2. QED BY <4>1, <6>1 DEF EarlyAlone, S
        <5>3. QED BY <5>1, <5>2
      <4>4. QED BY <1>1, <4>1, <4>3 DEF EarlyAlone, Thread, S, On, Barren
    <3>3. QED BY <3>1, <3>2
  <2>2. QED BY <2>1 DEF EarlyInquiry
<1>11. RunsDocumented'
  <2>1. ASSUME NEW j \in Tasks
        PROVE  Documented(Thread(j), S(j), task[j].pc)'
    <3>1. CASE j = k
      BY <1>4, <1>5, <3>1 DEF Documented, Confirming
    <3>2. CASE j # k
      <4>1. task'[j] = task[j] /\ Documented(Thread(j), S(j), task[j].pc) /\ RunKnown(j)
        BY <1>5, <3>2 DEF RunsInv, RunsDocumented, RunsKnown
      <4>2. CASE task[j].pc = "idle"
        BY <4>1, <4>2 DEF Documented, Confirming
      <4>3. CASE task[j].pc # "idle"
        <5>1. \A u \in Threads : \A s, n : u = Thread(j) /\ s = S(j) /\ n = task[j].pc => Documented(u, s, n)'
          BY <4>1, DocumentedGrows
        <5>2. Thread(j) \in Threads
          BY <4>1, <4>3 DEF RunKnown
        <5>3. QED BY <4>1, <5>1, <5>2 DEF Thread, S, Documented, Held, Ordered
      <4>4. QED BY <4>2, <4>3
    <3>3. QED BY <3>1, <3>2
  <2>2. QED BY <2>1 DEF RunsDocumented
<1>12. QED BY <1>6, <1>8, <1>9, <1>10, <1>11 DEF RunsInv

(* The document an approval is about.                                         *)
LEMMA ApprovedItem ==
  ASSUME TypeOK, NEW t \in Threads, NEW stage \in Stages, checkpoint[t] # None
  PROVE  PendingItem(checkpoint[t], stage) \in Nat \cup {None, Impossible}
<1>1. PICK c \in StateType : c = checkpoint[t]
  BY DEF TypeOK
<1>2. PendingItem(c, stage) \in Nat \cup {None, Impossible}
  BY ConstantsAssumption DEF PendingItem, StateType, PriceOrNot, Stages
<1>3. QED BY <1>1, <1>2

Grants(t, stage) ==
  purchases' = [purchases EXCEPT ![t] = [p \in DOMAIN @ |->
    IF p = PendingItem(checkpoint[t], stage) /\ stage \in {"po", "po_revalidation"}
    THEN [purchases[t][p] EXCEPT !.granted = @ \cup {stage}]
    ELSE purchases[t][p]]]

(* What an approval grants.                                                   *)
LEMMA ApproveCases ==
  ASSUME NEW k, NEW t, NEW stage, Approve(k, t, stage)
  PROVE  /\ checkpoint[t] # None /\ Pending(checkpoint[t], stage) /\ Grants(t, stage)
         /\ stage = "pricing" => checkpoint[t].price \in Prices
         /\ Receive(k, t, "approved", stage, PendingItem(checkpoint[t], stage))
  BY DEF Approve, Grants

(* What a grant leaves alone.                                                 *)
LEMMA GrantedTyped ==
  ASSUME RunsInv, NEW t \in Threads, NEW stage \in Stages, Grants(t, stage),
         UNCHANGED <<quotes, revised, orders, reserved, handoffs, lead>>
  PROVE  /\ DocumentTypes' /\ DocumentsGrow
         /\ \A u \in Threads : \A i \in DOMAIN purchases[u] :
              /\ i \in DOMAIN purchases'[u]
              /\ purchases'[u][i].price = purchases[u][i].price
              /\ purchases'[u][i].verdict = purchases[u][i].verdict
              /\ purchases'[u][i].credit = purchases[u][i].credit
              /\ purchases[u][i].granted \subseteq purchases'[u][i].granted
              /\ u = t /\ i = PendingItem(checkpoint[t], stage) /\ stage \in {"po", "po_revalidation"}
                   => stage \in purchases'[u][i].granted
              /\ u # t => purchases'[u][i] = purchases[u][i]
<1>1. PICK item : item = PendingItem(checkpoint[t], stage)
  OBVIOUS
<1>2. PICK e : e = [p \in DOMAIN purchases[t] |->
                IF p = item /\ stage \in {"po", "po_revalidation"}
                THEN [purchases[t][p] EXCEPT !.granted = @ \cup {stage}] ELSE purchases[t][p]]
  OBVIOUS
<1>3. purchases \in [Threads -> Seq(PurchaseType)]
  BY DEF RunsInv, TypeOK
<1>4. purchases' = [purchases EXCEPT ![t] = e]
  BY <1>1, <1>2, <1>3 DEF Grants
<1>5. \A i \in DOMAIN purchases[t] : purchases[t][i] \in PurchaseType
  <2>1. purchases[t] \in Seq(PurchaseType)
    BY <1>3
  <2>2. QED BY <2>1
<1>6. ASSUME NEW q \in PurchaseType
      PROVE  LET g == [q EXCEPT !.granted = @ \cup {stage}]
             IN /\ g \in PurchaseType /\ g.price = q.price /\ g.verdict = q.verdict
                /\ g.credit = q.credit /\ q.granted \subseteq g.granted /\ stage \in g.granted
  BY DEF PurchaseType
<1>7. ASSUME NEW i \in DOMAIN purchases[t]
      PROVE  /\ e[i] \in PurchaseType
             /\ e[i].price = purchases[t][i].price
             /\ e[i].verdict = purchases[t][i].verdict
             /\ e[i].credit = purchases[t][i].credit
             /\ purchases[t][i].granted \subseteq e[i].granted
             /\ i = item /\ stage \in {"po", "po_revalidation"} => stage \in e[i].granted
  <2>1. PICK q \in PurchaseType : q = purchases[t][i]
    BY <1>5
  <2>2. CASE i = item /\ stage \in {"po", "po_revalidation"}
    <3>1. e[i] = [q EXCEPT !.granted = @ \cup {stage}]
      BY <1>2, <2>1, <2>2
    <3>2. QED BY <1>6, <2>1, <3>1
  <2>3. CASE ~ (i = item /\ stage \in {"po", "po_revalidation"})
    <3>1. e[i] = q
      BY <1>2, <2>1, <2>3
    <3>2. QED BY <2>1, <2>3, <3>1
  <2>4. QED BY <2>2, <2>3
<1>8. e \in [DOMAIN purchases[t] -> PurchaseType]
  <2>1. \A i \in DOMAIN purchases[t] : e[i] \in PurchaseType
    BY <1>7
  <2>2. QED BY <1>2, <2>1
<1>9. DocumentTypes' /\ DocumentsGrow
  BY <1>4, <1>8, PurchaseChanged
<1>10. \A u \in Threads : DOMAIN purchases[u] = DOMAIN purchases'[u]
  BY <1>3, <1>4, <1>8
<1>11. \A u \in Threads : purchases'[u] = IF u = t THEN e ELSE purchases[u]
  BY <1>3, <1>4
<1>12. QED BY <1>1, <1>7, <1>9, <1>10, <1>11

(* What a role may approve are stages.                                        *)
LEMMA RolesPermitStages ==
  ASSUME NEW role \in DOMAIN RoleStages
  PROVE  RoleStages[role] \subseteq Stages
<1>1. role \in {"admin", "finance_manager", "sales_manager", "production_manager"}
  BY DEF RoleStages
<1>2. QED BY <1>1 DEF RoleStages, Stages

(* Every start but an approval leaves the documents alone.                    *)
LEMMA StartCases ==
  ASSUME TypeOK, NEW k \in Tasks, NEW t \in Threads, Starts(k, t)
  PROVE  \E trigger, stage, item :
           /\ Receive(k, t, trigger, stage, item) /\ Brings(k, t, trigger, stage, item)
           /\ \/ UNCHANGED purchases /\ trigger # "approved"
              \/ /\ trigger = "approved" /\ Grants(t, stage)
                 /\ checkpoint[t].status = "awaiting_approval"
                 /\ item = PendingItem(checkpoint[t], stage)
           /\ trigger = "retry_pricing" => checkpoint[t].status = "blocked"
           /\ trigger \in {"followup", "po_received"} =>
                checkpoint[t].status \notin {"closed_lost", "awaiting_approval"}
           /\ trigger = "customer_reply" => checkpoint[t].status # "closed_lost"
<1> DEFINE Brought(trigger, stage, item) ==
             /\ Receive(k, t, trigger, stage, item) /\ Brings(k, t, trigger, stage, item)
             /\ \/ UNCHANGED purchases /\ trigger # "approved"
                \/ /\ trigger = "approved" /\ Grants(t, stage)
                   /\ checkpoint[t].status = "awaiting_approval"
                   /\ item = PendingItem(checkpoint[t], stage)
             /\ trigger = "retry_pricing" => checkpoint[t].status = "blocked"
             /\ trigger \in {"followup", "po_received"} =>
                  checkpoint[t].status \notin {"closed_lost", "awaiting_approval"}
             /\ trigger = "customer_reply" => checkpoint[t].status # "closed_lost"
<1>1. CASE ProcessInquiry(k, t)
  <2>1. Brought("inquiry", None, None)
    BY <1>1 DEF ProcessInquiry, Brings, Triggers
  <2>2. QED BY <2>1
<1>2. CASE ProcessPipelineEvent(k, t)
  <2>1. PICK trigger \in {"followup", "customer_reply", "po_received"} : Receive(k, t, trigger, None, None)
    BY <1>2 DEF ProcessPipelineEvent
  <2>2. Brought(trigger, None, None)
    BY <1>2, <2>1 DEF ProcessPipelineEvent, TakesEvents, Brings, Triggers
  <2>3. QED BY <2>2
<1>3. CASE ContinueConversation(k, t)
  <2>1. Brought("customer_reply", None, None)
    BY <1>3 DEF ContinueConversation, Brings, Triggers
  <2>2. QED BY <2>1
<1>4. CASE RetryPipelinePricing(k, t)
  <2>1. Brought("retry_pricing", None, None)
    BY <1>4 DEF RetryPipelinePricing, Brings, Triggers
  <2>2. QED BY <2>1
<1>5. CASE ApprovePipelineStage(k, t) \/ ApproveInCRM(k, t)
  <2>1. PICK stage \in Stages : Approve(k, t, stage)
    BY <1>5, RolesPermitStages DEF ApprovePipelineStage, ApproveInCRM
  <2>2. PICK item : item = PendingItem(checkpoint[t], stage)
    OBVIOUS
  <2>3. Brought("approved", stage, item)
    BY <2>1, <2>2, ApproveCases, ApprovedItem DEF Pending, Brings, Triggers
  <2>4. QED BY <2>3
<1>6. CASE ProcessOne(k, t)
  <2>1. Brought("followup", None, None)
    BY <1>6 DEF ProcessOne, TakesEvents, Brings, Triggers
  <2>2. QED BY <2>1
<1>7. QED BY <1>1, <1>2, <1>3, <1>4, <1>5, <1>6 DEF Starts

(* A request that starts a run preserves the invariant.                       *)
LEMMA StartsNext ==
  ASSUME BaseInv, NEW k \in Tasks, NEW t \in Threads, Starts(k, t)
  PROVE  BaseInv'
<1>1. PICK trigger, stage, item :
         /\ Receive(k, t, trigger, stage, item) /\ Brings(k, t, trigger, stage, item)
         /\ \/ UNCHANGED purchases
            \/ trigger = "approved" /\ Grants(t, stage)
  BY StartCases DEF BaseInv, RunsInv
<1>2. UNCHANGED <<quotes, revised, orders, reserved, handoffs, lead>>
  BY <1>1 DEF Receive, leads
<1>3. DocumentTypes' /\ DocumentsGrow
  <2>1. CASE UNCHANGED purchases
    BY <1>2, <2>1, QuietGrows, OldTypes DEF documents, BaseInv, RunsInv
  <2>2. CASE trigger = "approved" /\ Grants(t, stage)
    BY <1>1, <1>2, <2>2, GrantedTyped DEF Brings, BaseInv
  <2>3. QED BY <1>1, <2>1, <2>2
<1>4. RunsInv'
  BY <1>1, <1>2, <1>3, ReceiveStep DEF BaseInv
<1>5. QED BY <1>2, <1>3, <1>4, PapersGrow DEF BaseInv

(* The state a run begins with.                                               *)
Invoked(k) ==
  IF task[k].trigger = "inquiry" THEN NewState
  ELSE [checkpoint[Thread(k)] EXCEPT
          !.error = FALSE,
          !.stage = IF task[k].trigger \in {"approved", "retry_pricing"} THEN None ELSE @]

(* The state a run begins with,                                               *)
LEMMA InvokedTyped ==
  ASSUME RunsInv, NEW k \in Tasks, task[k].pc = "received"
  PROVE  /\ Thread(k) \in Threads /\ Invoked(k) \in StateType /\ Known(Thread(k), Invoked(k))
         /\ task[k].trigger \in Replying /\ Barren(checkpoint[Thread(k)]) => Barren(Invoked(k))
         /\ task[k].trigger = "inquiry" => Invoked(k) = NewState
         /\ task[k].trigger # "inquiry" =>
              /\ checkpoint[Thread(k)] \in StateType
              /\ Invoked(k).po = checkpoint[Thread(k)].po
              /\ Invoked(k).quote = checkpoint[Thread(k)].quote
              /\ Invoked(k).status = checkpoint[Thread(k)].status
              /\ Invoked(k).price = checkpoint[Thread(k)].price
              /\ Invoked(k).analysis = checkpoint[Thread(k)].analysis
              /\ Invoked(k).offer = checkpoint[Thread(k)].offer
              /\ Invoked(k).stage = IF task[k].trigger \in {"approved", "retry_pricing"} THEN None
                                    ELSE checkpoint[Thread(k)].stage
<1>1. RunKnown(k) /\ Thread(k) \in Threads /\ task[k].trigger \in Triggers
  BY DEF RunsInv, RunsKnown, RunKnown
<1>2. PICK t \in Threads : t = Thread(k)
  BY <1>1
<1>3. CASE task[k].trigger = "inquiry"
  <2>1. Len(quotes[t]) \in Nat /\ Len(purchases[t]) \in Nat
    BY DEF RunsInv, TypeOK
  <2>2. Known(t, NewState)
    BY <2>1, NewStateIs DEF Known
  <2>3. QED BY <1>2, <1>3, <2>2, NewStateIs DEF Invoked
<1>4. CASE task[k].trigger # "inquiry"
  <2>1. PICK c \in StateType : c = checkpoint[t]
    BY <1>1, <1>2, <1>4 DEF RunKnown, RunsInv, TypeOK
  <2>2. Known(t, c)
    BY <2>1, NoneAssumption DEF RunsInv, ThreadsKnown, ThreadKnown
  <2>3. PICK stage \in Stages \cup {None} :
          stage = IF task[k].trigger \in {"approved", "retry_pricing"} THEN None ELSE c.stage
    BY <2>1 DEF StateType
  <2>4. PICK d : d = [c EXCEPT !.error = FALSE, !.stage = stage]
    OBVIOUS
  <2>5. /\ d \in StateType /\ d.po = c.po /\ d.quote = c.quote /\ d.stage = stage
        /\ d.status = c.status /\ d.price = c.price /\ d.analysis = c.analysis
        /\ d.offer = c.offer /\ d.missing = c.missing
    BY <2>4 DEF StateType
  <2>6. Invoked(k) = d
    BY <1>2, <1>4, <2>1, <2>3, <2>4 DEF Invoked, StateType
  <2>7. Known(t, d)
    BY <2>2, <2>5 DEF Known
  <2>8. Barren(c) => Barren(d)
    BY <2>3, <2>5 DEF Barren
  <2>9. QED BY <1>2, <1>4, <2>1, <2>3, <2>5, <2>6, <2>7, <2>8
<1>5. QED BY <1>3, <1>4

(* where it begins,                                                           *)
LEMMA InvokeMoves ==
  ASSUME RunsInv, NEW k \in Tasks, Invoke(k)
  PROVE  /\ Moves(k, Invoked(k), Invoked(k), "check_trigger")
         /\ task[k].pc = "received" /\ UNCHANGED documents /\ UNCHANGED lead
<1>1. task \in [Tasks -> TaskType] /\ checkpoint \in [Threads -> StateType \cup {None}]
  BY DEF RunsInv, TypeOK
<1>2. PICK c : c = Invoked(k)
  OBVIOUS
<1>3. /\ checkpoint' = [checkpoint EXCEPT ![Thread(k)] = c]
      /\ task' = [task EXCEPT ![k].st = c, ![k].pc = "check_trigger"]
      /\ UNCHANGED <<counters, closed, crm>> /\ UNCHANGED lead /\ UNCHANGED documents
      /\ task[k].pc = "received"
  BY <1>2 DEF Invoke, Invoked, leads
<1>4. c \in StateType /\ Thread(k) \in Threads
  BY <1>2, <1>3, InvokedTyped
<1>5. PICK u \in TaskType : u = task[k]
  BY <1>1
<1>6. PICK new : new = [u EXCEPT !.st = c, !.pc = "check_trigger"]
  OBVIOUS
<1>7. /\ new \in TaskType /\ new.pc = "check_trigger" /\ new.st = c /\ new.thread = u.thread
      /\ new.trigger = u.trigger /\ new.approved = u.approved /\ new.seen = u.seen
  BY <1>4, <1>5, <1>6 DEF TaskType, Nodes
<1>8. task' = [task EXCEPT ![k] = new]
  BY <1>1, <1>3, <1>5, <1>6 DEF TaskType
<1>9. /\ task' \in [Tasks -> TaskType] /\ task'[k] = new
      /\ \A j \in Tasks \ {k} : task'[j] = task[j]
  BY <1>1, <1>7, <1>8
<1>10. checkpoint' \in [Threads -> StateType \cup {None}]
  BY <1>1, <1>3, <1>4
<1>11. QED BY <1>2, <1>3, <1>5, <1>7, <1>9, <1>10 DEF Moves

(* and that this preserves the invariant.                                     *)
LEMMA InvokeNext ==
  ASSUME BaseInv, NEW k \in Tasks, Invoke(k)
  PROVE  BaseInv'
<1>1. PICK c : c = Invoked(k)
  OBVIOUS
<1>2. /\ Moves(k, c, c, "check_trigger") /\ RunsInv
      /\ task[k].pc = "received" /\ UNCHANGED documents /\ UNCHANGED lead
  BY <1>1, InvokeMoves DEF BaseInv
<1>3. PICK t \in Threads : t = Thread(k)
  BY <1>2, InvokedTyped
<1>4. /\ c \in StateType /\ Known(t, c)
      /\ task[k].trigger \in Replying /\ Barren(checkpoint[t]) => Barren(c)
      /\ task[k].trigger = "inquiry" => c = NewState
  BY <1>1, <1>2, <1>3, InvokedTyped
<1>5. DocumentTypes' /\ DocumentsGrow /\ DocumentsAgree' /\ HandoffsAgree'
  BY <1>2, PapersStay
<1>6. /\ checkpoint'[t] = c /\ c # None
      /\ \A u \in Threads \ {t} : checkpoint'[u] = checkpoint[u]
      /\ task'[k].pc = "check_trigger" /\ task'[k].st = c
      /\ task'[k].thread = task[k].thread /\ task'[k].trigger = task[k].trigger
      /\ task'[k].approved = task[k].approved
      /\ \A j \in Tasks \ {k} : task'[j] = task[j]
      /\ UNCHANGED <<closed, crm>>
  BY <1>2, <1>3, <1>4, NoneAssumption DEF Moves, RunsInv, TypeOK
<1>7. TypeOK'
  BY <1>2, <1>5 DEF RunsInv, TypeOK, DocumentTypes, Moves, counters
<1>8. RunsKnown'
  <2>1. RunKnown(k)'
    <3>1. RunKnown(k)
      BY <1>2 DEF RunsInv, RunsKnown
    <3>2. Known(t, c)'
      BY <1>2, <1>4, <1>5, KnownGrows DEF RunsInv
    <3>3. QED BY <1>2, <1>3, <1>6, <3>1, <3>2 DEF RunKnown, Thread, S, Known
  <2>2. ASSUME NEW j \in Tasks \ {k}
        PROVE  RunKnown(j)'
    <3>1. RunKnown(j) /\ task'[j] = task[j]
      BY <1>2, <1>6 DEF RunsInv, RunsKnown
    <3>2. task[j].pc # "idle" => (checkpoint[Thread(j)] # None => checkpoint'[Thread(j)] # None)
      BY <1>6, <3>1 DEF RunKnown
    <3>3. QED BY <1>2, <3>1, <3>2 DEF RunKnown, Thread, S, Known, documents
  <2>3. QED BY <2>1, <2>2 DEF RunsKnown
<1>9. ThreadsKnown'
  <2>1. ASSUME NEW u \in Threads
        PROVE  ThreadKnown(u)'
    <3>1. ThreadKnown(u)
      BY <1>2 DEF RunsInv, ThreadsKnown
    <3>2. CASE u = t
      BY <1>2, <1>4, <1>6, <3>2 DEF ThreadKnown, Known, documents
    <3>3. CASE u # t
      BY <1>2, <1>6, <3>1, <3>3 DEF ThreadKnown, Known, documents
    <3>4. QED BY <3>2, <3>3
  <2>2. QED BY <2>1 DEF ThreadsKnown
<1>10. EarlyInquiry'
  <2>1. ASSUME NEW e \in Tasks, Early(e)'
        PROVE  EarlyAlone(e)'
    <3>1. Early(e)
      BY <1>2, <1>6, <2>1 DEF Early
    <3>2. EarlyAlone(e) /\ Thread(e) \in Threads /\ RunKnown(e)
      BY <1>2, <3>1 DEF RunsInv, EarlyInquiry, RunsKnown, RunKnown, Early
    <3>3. Thread(e)' = Thread(e) /\ (e # k => task'[e] = task[e])
          /\ \A j \in Tasks : Thread(j)' = Thread(j) /\ task'[j].trigger = task[j].trigger
      BY <1>6 DEF Thread
    <3>4. CASE Thread(e) # t
      <4>1. \A j \in Tasks : On(j, Thread(e))' => j # k /\ On(j, Thread(e)) /\ task'[j] = task[j]
        BY <1>3, <1>6, <3>3, <3>4 DEF On
      <4>2. checkpoint'[Thread(e)] = checkpoint[Thread(e)] /\ task'[e] = task[e]
        BY <1>3, <1>6, <3>2, <3>4
      <4>3. QED BY <1>2, <3>2, <3>3, <4>1, <4>2 DEF EarlyAlone, On, S, Barren, Thread
    <3>5. CASE Thread(e) = t
      <4>1. Barren(c)
        <5>1. CASE e = k
          BY <1>4, <3>1, <5>1, NewStateIs DEF Early
        <5>2. CASE e # k
          <6>1. task[k].trigger \in Replying
            BY <1>3, <3>2, <3>5, <5>2 DEF EarlyAlone, On
          <6>2. checkpoint[t] # None
            BY <1>2, <1>3, <6>1 DEF RunsInv, RunsKnown, RunKnown, Replying
          <6>3. QED BY <1>4, <3>2, <3>5, <6>1, <6>2 DEF EarlyAlone
        <5>3. QED BY <5>1, <5>2
      <4>2. task'[e].pc # "received"
        <5>1. CASE e = k
          BY <1>6, <5>1
        <5>2. CASE e # k
          <6>1. task[k].trigger \in Replying
            BY <1>3, <3>2, <3>5, <5>2 DEF EarlyAlone, On
          <6>2. checkpoint[t] # None
            BY <1>2, <1>3, <6>1 DEF RunsInv, RunsKnown, RunKnown, Replying
          <6>3. QED BY <3>2, <3>3, <3>5, <5>2, <6>2 DEF EarlyAlone
        <5>3. QED BY <5>1, <5>2
      <4>3. ASSUME NEW j \in Tasks \ {e}, On(j, Thread(e))'
            PROVE  task'[j].trigger \in Replying /\ task'[j].pc \in BarrenNodes /\ Barren(S(j)')
        <5>1. On(j, Thread(e))
          BY <3>3, <4>3 DEF On
        <5>2. task[j].trigger \in Replying /\ task[j].pc \in BarrenNodes /\ Barren(S(j))
          BY <3>2, <5>1 DEF EarlyAlone
        <5>3. QED BY <1>6, <3>3, <4>1, <5>2 DEF S, BarrenNodes
      <4>4. Barren(S(e)')
        BY <1>6, <3>2, <3>3, <4>1 DEF EarlyAlone, S
      <4>5. QED BY <1>2, <1>6, <3>2, <3>3, <3>5, <4>1, <4>2, <4>3, <4>4 DEF EarlyAlone, On,
        Barren, S, Thread
    <3>6. QED BY <3>4, <3>5
  <2>2. QED BY <2>1 DEF EarlyInquiry
<1>11. RunsDocumented'
  <2>1. ASSUME NEW j \in Tasks
        PROVE  Documented(Thread(j), S(j), task[j].pc)'
    <3>1. CASE j = k
      BY <1>6, <3>1 DEF Documented, Confirming
    <3>2. CASE j # k
      BY <1>2, <1>6, <3>2 DEF RunsInv, RunsDocumented, Documented, Thread, S, Held, Ordered,
        documents
    <3>3. QED BY <3>1, <3>2
  <2>2. QED BY <2>1 DEF RunsDocumented
<1>12. QED BY <1>5, <1>7, <1>8, <1>9, <1>10, <1>11 DEF BaseInv, RunsInv

-----------------------------------------------------------------------------
(* Every step preserves BaseInv                                               *)

(* The invariant holds to begin with.                                         *)
LEMMA BaseInit == Init => BaseInv
<1> SUFFICES ASSUME Init PROVE BaseInv
  OBVIOUS
<1>1. TypeOK
  BY IdleTask, ConstantsAssumption DEF Init, TypeOK
<1>2. RunsKnown
  BY DEF Init, RunsKnown, RunKnown, Idle
<1>3. ThreadsKnown
  BY DEF Init, ThreadsKnown, ThreadKnown
<1>4. EarlyInquiry
  BY DEF Init, EarlyInquiry, Early, Idle
<1>5. RunsDocumented
  BY DEF Init, RunsDocumented, Documented, Idle, Confirming
<1>6. DocumentsAgree /\ HandoffsAgree
  BY DEF Init, DocumentsAgree, HandoffsAgree
<1>7. QED BY <1>1, <1>2, <1>3, <1>4, <1>5, <1>6 DEF BaseInv, RunsInv

(* The nodes that change a document.                                          *)
WritingNode(k) ==
  \/ ExtractInquiry(k) \/ GenerateQuotation(k) \/ DispatchQuotation(k) \/ SendQuotation(k)
  \/ PrepareRevisedQuotation(k) \/ ExtractPoFields(k) \/ ValidatePo(k) \/ RevalidateOrderState(k)
  \/ ReserveInventory(k) \/ AllocateRows(k) \/ MarkOrderWon(k) \/ CreateSalesOrder(k)
  \/ DispatchHandoff(k) \/ NotifyDepartment(k) \/ MarkDepartments(k)

(* The steps there are.                                                       *)
LEMMA NextCases ==
  ASSUME [Next]_vars
  PROVE  \/ \E k \in Tasks, t \in Threads : Starts(k, t)
         \/ \E k \in Tasks : Invoke(k) \/ Abandon(k) \/ QuietNode(k) \/ WritingNode(k)
         \/ \E t \in Threads : CloseLost(t) \/ ReopenLead(t) \/ UpdateCheckpoint(t) \/ CrmCut(t)
         \/ UNCHANGED vars
  BY DEF Next, QuotationNodes, ReplyNodes, OrderNodes, QuietNode, WritingNode

(* Every step preserves it.                                                   *)
LEMMA BaseNext == BaseInv /\ [Next]_vars => BaseInv'
<1> SUFFICES ASSUME BaseInv, [Next]_vars PROVE BaseInv'
  OBVIOUS
<1>1. ASSUME NEW k \in Tasks, NEW t \in Threads, Starts(k, t) PROVE BaseInv'
  BY <1>1, StartsNext
<1>2. ASSUME NEW k \in Tasks, Invoke(k) \/ Abandon(k) \/ QuietNode(k) PROVE BaseInv'
  BY <1>2, InvokeNext, AbandonNext, QuietNext
<1>3. ASSUME NEW k \in Tasks, WritingNode(k) PROVE BaseInv'
  BY <1>3, ExtractInquiryNext, GenerateQuotationNext, DispatchQuotationNext, SendQuotationNext,
     PrepareRevisedQuotationNext, ExtractPoFieldsNext, ValidatePoNext, RevalidateOrderStateNext,
     ReserveInventoryNext, AllocateRowsNext, MarkOrderWonNext, CreateSalesOrderNext,
     DispatchHandoffNext, NotifyDepartmentNext, MarkDepartmentsNext DEF WritingNode
<1>4. ASSUME NEW t \in Threads, CloseLost(t) \/ ReopenLead(t) \/ UpdateCheckpoint(t) \/ CrmCut(t)
      PROVE BaseInv'
  BY <1>4, CloseLostNext, ReopenLeadNext, UpdateCheckpointNext, CrmCutNext
<1>5. QED BY <1>1, <1>2, <1>3, <1>4, NextCases, StutterNext

-----------------------------------------------------------------------------
(* Stock.  What is reserved for a purchase order is at least its quantity,    *)
(* and no row is reserved beyond its stock.                                   *)

NotOversold == \A row \in Rows : Total({r \in reserved : r.row = row}) <= Stock[row]
HeldWhole == \A t \in Threads, po \in Nat : Held(t, po) # {} => Total(Held(t, po)) >= Quantity
OrdersHeld == \A t \in Threads : \A i \in DOMAIN orders[t] : Held(t, orders[t][i]) # {}
StockInv == IsFiniteSet(reserved) /\ NotOversold /\ HeldWhole /\ OrdersHeld

(* The total of reservations is a sum of quantities:                          *)
LEMMA TotalIs == ASSUME NEW A PROVE Total(A) = Quantities(A)
  BY DEF Total, Quantities

(* a natural number,                                                          *)
LEMMA TotalNat ==
  ASSUME NEW A, IsFiniteSet(A), \A r \in A : r.quantity \in Nat
  PROVE  Total(A) \in Nat
  BY TotalIs, QuantitiesNat

(* that adds up over disjoint sets,                                           *)
LEMMA TotalJoin ==
  ASSUME NEW A, IsFiniteSet(A), NEW B, IsFiniteSet(B), A \cap B = {},
         \A r \in A \cup B : r.quantity \in Nat
  PROVE  Total(A \cup B) = Total(A) + Total(B)
<1>1. Quantities(A \cup B) = Quantities(A) + Quantities(B)
  BY QuantitiesJoin
<1>2. QED BY <1>1, TotalIs

(* and is its quantity for one reservation.                                   *)
LEMMA TotalOne ==
  ASSUME NEW e, e.quantity \in Nat
  PROVE  Total({e}) = e.quantity
<1>1. IsFiniteSet({}) /\ \A r \in {} : r.quantity \in Nat
  BY FS_EmptySet
<1>2. Quantities({} \cup {e}) = e.quantity + Quantities({})
  BY <1>1, QuantitiesGrow
<1>3. {} \cup {e} = {e}
  OBVIOUS
<1>4. QED BY <1>2, <1>3, NoQuantities, TotalIs

(* An allocation reserves exactly the quantity of a purchase order.           *)
LEMMA ReservationsTotal ==
  ASSUME NEW t \in Threads, NEW po \in Nat, NEW a \in Allocations
  PROVE  /\ IsFiniteSet(Reservations(t, po, a)) /\ Total(Reservations(t, po, a)) = Quantity
         /\ \A row \in Rows : Total({r \in Reservations(t, po, a) : r.row = row}) = a[row]
         /\ \A row \in Rows : a[row] \in Nat /\ a[row] <= Free(row)
<1>1. a \in [Rows -> Nat] /\ SumFunction(a) = Quantity /\ IsFiniteSet(Rows)
      /\ \A row \in Rows : a[row] <= Free(row)
  BY ConstantsAssumption DEF Allocations
<1>2. SumFunctionOnSet(a, Rows) = Quantity
  BY <1>1 DEF SumFunction, SumFunctionOnSet
<1> DEFINE rec == [x \in Rows |-> [thread |-> t, po |-> po, row |-> x, quantity |-> a[x]]]
<1>3. \A x \in Rows : /\ rec[x].quantity = a[x] /\ rec[x].row = x
                      /\ rec[x] = [thread |-> t, po |-> po, row |-> x, quantity |-> a[x]]
  OBVIOUS
<1>4. Reservations(t, po, a) = {rec[x] : x \in {x \in Rows : a[x] > 0}}
  BY <1>3 DEF Reservations
<1> HIDE DEF rec
<1>5. \A x, y \in Rows : rec[x] = rec[y] => x = y
  BY <1>3
<1>6. LET records == {rec[x] : x \in {x \in Rows : a[x] > 0}}
      IN IsFiniteSet(records) /\ Quantities(records) = SumFunctionOnSet(a, Rows)
  <2>1. \A x \in Rows : a[x] \in Nat
    BY <1>1
  <2>2. \A x \in Rows : rec[x].quantity = a[x]
    BY <1>3
  <2>3. QED BY <1>1, <1>5, <2>1, <2>2, QuantitiesOfImage
<1>7. IsFiniteSet(Reservations(t, po, a)) /\ Total(Reservations(t, po, a)) = Quantity
  BY <1>2, <1>4, <1>6, TotalIs
<1>8. ASSUME NEW row \in Rows
      PROVE  Total({r \in Reservations(t, po, a) : r.row = row}) = a[row]
  <2>1. CASE a[row] > 0
    <3>1. {r \in Reservations(t, po, a) : r.row = row} = {rec[row]}
      <4>1. rec[row] \in Reservations(t, po, a) /\ rec[row].row = row
        BY <1>3, <1>4, <2>1
      <4>2. ASSUME NEW r \in Reservations(t, po, a), r.row = row
            PROVE  r = rec[row]
        <5>1. PICK x \in Rows : r = rec[x]
          BY <1>4
        <5>2. QED BY <1>3, <4>2, <5>1
      <4>3. QED BY <4>1, <4>2
    <3>2. Total({rec[row]}) = a[row]
      BY <1>1, <1>3, TotalOne, ZenonT(60)
    <3>3. QED BY <3>1, <3>2
  <2>2. CASE ~ a[row] > 0
    <3>1. {r \in Reservations(t, po, a) : r.row = row} = {}
      BY <1>3, <1>4, <2>2
    <3>2. a[row] = 0
      BY <1>1, <2>2
    <3>3. QED BY <3>1, <3>2, NoQuantities, TotalIs
  <2>3. QED BY <2>1, <2>2
<1>9. QED BY <1>1, <1>7, <1>8

(* What an allocation adds to what is held for a purchase order and taken     *)
(* from a row.                                                                *)
LEMMA ReservesTotals ==
  ASSUME TypeOK, IsFiniteSet(reserved), NEW k, NEW a, Reserves(k, a),
         NEW t \in Threads, t = Thread(k), NEW po \in Nat, po = S(k).po
  PROVE  /\ IsFiniteSet(reserved')
         /\ Total(Held(t, po)') = Total(Held(t, po)) + Quantity
         /\ \A u \in Threads, p \in Nat : u # t \/ p # po => Held(u, p)' = Held(u, p)
         /\ \A row \in Rows : /\ Total({r \in reserved' : r.row = row})
                                   = Total({r \in reserved : r.row = row}) + a[row]
                              /\ a[row] \in Nat /\ a[row] <= Free(row)
<1>3. PICK new : new = Reservations(t, po, a)
  OBVIOUS
<1>4. /\ a \in Allocations /\ reserved' = reserved \cup new
      /\ \A n \in new, r \in Held(t, po) : n.row # r.row
  BY <1>3 DEF Reserves
<1>5. /\ new \subseteq [thread : Threads, po : Nat, row : Rows, quantity : Nat]
      /\ \A r \in new : r.thread = t /\ r.po = po
      /\ IsFiniteSet(new) /\ Total(new) = Quantity
      /\ \A row \in Rows : Total({r \in new : r.row = row}) = a[row]
      /\ \A row \in Rows : a[row] \in Nat /\ a[row] <= Free(row)
  <2>1. /\ new \subseteq [thread : Threads, po : Nat, row : Rows, quantity : Nat]
        /\ \A r \in new : r.thread = t /\ r.po = po
    BY <1>3, <1>4, ReservationsTyped
  <2>2. /\ IsFiniteSet(new) /\ Total(new) = Quantity
        /\ \A row \in Rows : Total({r \in new : r.row = row}) = a[row]
        /\ \A row \in Rows : a[row] \in Nat /\ a[row] <= Free(row)
    <3>1. /\ IsFiniteSet(Reservations(t, po, a)) /\ Total(Reservations(t, po, a)) = Quantity
          /\ \A row \in Rows : Total({r \in Reservations(t, po, a) : r.row = row}) = a[row]
          /\ \A row \in Rows : a[row] \in Nat /\ a[row] <= Free(row)
      BY <1>4, ReservationsTotal
    <3>2. QED BY <1>3, <3>1
  <2>3. QED BY <2>1, <2>2
<1>6. reserved \cap new = {}
  BY <1>4, <1>5 DEF Held
<1>7. IsFiniteSet(reserved')
  BY <1>4, <1>5, FS_Union
<1>8. \A r \in reserved \cup new : r.quantity \in Nat
  BY <1>5 DEF TypeOK
<1>9. Total(Held(t, po)') = Total(Held(t, po)) + Quantity
  <2>1. Held(t, po)' = Held(t, po) \cup new
    BY <1>4, <1>5 DEF Held
  <2>2. IsFiniteSet(Held(t, po)) /\ Held(t, po) \subseteq reserved
    BY FS_Subset DEF Held
  <2>3. Total(Held(t, po) \cup new) = Total(Held(t, po)) + Total(new)
    BY <1>5, <1>6, <1>8, <2>2, TotalJoin
  <2>4. QED BY <1>5, <2>1, <2>3
<1>10. \A u \in Threads, p \in Nat : u # t \/ p # po => Held(u, p)' = Held(u, p)
  BY <1>4, <1>5 DEF Held
<1>11. ASSUME NEW row \in Rows
       PROVE  Total({r \in reserved' : r.row = row}) = Total({r \in reserved : r.row = row}) + a[row]
  <2> DEFINE A == {r \in reserved : r.row = row}
             B == {r \in new : r.row = row}
  <2>1. {r \in reserved' : r.row = row} = A \cup B
    BY <1>4
  <2>2. /\ IsFiniteSet(A) /\ IsFiniteSet(B) /\ A \cap B = {}
        /\ \A r \in A \cup B : r.quantity \in Nat
    BY <1>5, <1>6, <1>8, FS_Subset
  <2> HIDE DEF A
  <2>3. Total(A \cup B) = Total(A) + Total(B)
    <3> HIDE DEF B
    <3>1. QED BY <2>2, TotalJoin
  <2>4. Total(B) = a[row]
    BY <1>5
  <2>5. QED BY <2>1, <2>3, <2>4 DEF A
<1>12. QED BY <1>5, <1>7, <1>9, <1>10, <1>11

(* Only two nodes write reservations and orders.                              *)
LEMMA OrdersAndStockStay ==
  ASSUME [Next]_vars, \A k \in Tasks : ~ AllocateRows(k) /\ ~ CreateSalesOrder(k)
  PROVE  UNCHANGED <<reserved, orders>>
<1> USE DEF documents, leads, Quiet
<1>1. ASSUME NEW k \in Tasks, NEW t \in Threads, Starts(k, t) PROVE UNCHANGED <<reserved, orders>>
  BY <1>1 DEF Starts, ProcessInquiry, ProcessPipelineEvent, ContinueConversation, ProcessOne,
     RetryPipelinePricing, ApprovePipelineStage, ApproveInCRM, Approve, Receive
<1>2. ASSUME NEW k \in Tasks, Invoke(k) \/ Abandon(k) \/ QuietNode(k) PROVE UNCHANGED <<reserved, orders>>
  BY <1>2, QuietIsQuiet DEF Invoke, Abandon
<1>3. ASSUME NEW k \in Tasks, WritingNode(k) PROVE UNCHANGED <<reserved, orders>>
  BY <1>3 DEF WritingNode, ExtractInquiry, GenerateQuotation, DispatchQuotation, SendQuotation,
     PrepareRevisedQuotation, ExtractPoFields, ValidatePo, RevalidateOrderState,
     ReserveInventory, MarkOrderWon, DispatchHandoff, NotifyDepartment, MarkDepartments
<1>4. ASSUME NEW t \in Threads, CloseLost(t) \/ ReopenLead(t) \/ UpdateCheckpoint(t) \/ CrmCut(t)
      PROVE UNCHANGED <<reserved, orders>>
  BY <1>4 DEF CloseLost, ReopenLead, UpdateCheckpoint, CrmCut
<1>5. QED BY <1>1, <1>2, <1>3, <1>4, NextCases DEF vars

(* Nothing is reserved to begin with.                                         *)
LEMMA StockInit == Init => StockInv
<1> SUFFICES ASSUME Init PROVE StockInv
  OBVIOUS
<1>1. reserved = {} /\ IsFiniteSet(reserved)
  BY FS_EmptySet DEF Init
<1>2. NotOversold
  <2>1. ASSUME NEW row \in Rows
        PROVE  Total({r \in reserved : r.row = row}) <= Stock[row]
    <3>1. {r \in reserved : r.row = row} = {}
      BY <1>1
    <3>2. Total({r \in reserved : r.row = row}) = 0 /\ Stock[row] \in Nat
      BY <3>1, TotalIs, NoQuantities, ConstantsAssumption
    <3>3. QED BY <3>2
  <2>2. QED BY <2>1 DEF NotOversold
<1>3. HeldWhole /\ OrdersHeld
  BY <1>1 DEF HeldWhole, OrdersHeld, Held, Init
<1>4. QED BY <1>1, <1>2, <1>3 DEF StockInv

(* Every step preserves the invariant of the stock.                           *)
LEMMA StockNext ==
  ASSUME BaseInv, StockInv, [Next]_vars
  PROVE  StockInv'
<1>1. CASE \A k \in Tasks : ~ AllocateRows(k) /\ ~ CreateSalesOrder(k)
  BY <1>1, OrdersAndStockStay DEF StockInv, NotOversold, HeldWhole, OrdersHeld, Held
<1>2. ASSUME NEW k \in Tasks, AllocateRows(k)
      PROVE  StockInv'
  <2>1. CASE UNCHANGED reserved
    BY <1>2, <2>1 DEF AllocateRows, StockInv, NotOversold, HeldWhole, OrdersHeld, Held
  <2>2. CASE ~ UNCHANGED reserved
    <3>1. PICK a : Reserves(k, a)
      BY <1>2, <2>2, AllocateRowsCases
    <3>2. Running(k) /\ RunsInv /\ TypeOK
      BY <1>2, AllocateRowsCases DEF At, Running, BaseInv, RunsInv
    <3>3. PICK t \in Threads : t = Thread(k)
      BY <3>2, RunFacts
    <3>4. PICK po \in Nat : po = S(k).po
      BY <3>2, RunFacts DEF StateType
    <3>5. IsFiniteSet(reserved)
      BY DEF StockInv
    <3>6. /\ IsFiniteSet(reserved')
          /\ Total(Held(t, po)') = Total(Held(t, po)) + Quantity
          /\ \A u \in Threads, p \in Nat : u # t \/ p # po => Held(u, p)' = Held(u, p)
          /\ \A row \in Rows : /\ Total({r \in reserved' : r.row = row})
                                   = Total({r \in reserved : r.row = row}) + a[row]
                               /\ a[row] \in Nat /\ a[row] <= Free(row)
      BY <3>1, <3>2, <3>3, <3>4, <3>5, ReservesTotals, ZenonT(60)
    <3>7. \A r \in reserved : r.quantity \in Nat
      BY <3>2 DEF TypeOK
    <3>8. NotOversold'
      <4>1. ASSUME NEW row \in Rows
            PROVE  Total({r \in reserved' : r.row = row}) <= Stock[row]
        <5>1. PICK n : n = Total({r \in reserved : r.row = row})
          OBVIOUS
        <5>2. n \in Nat /\ Stock[row] \in Nat
          <6>1. IsFiniteSet({r \in reserved : r.row = row})
            BY <3>5, FS_Subset
          <6>2. QED BY <3>7, <5>1, <6>1, TotalNat, ConstantsAssumption
        <5>3. n <= Stock[row] /\ Taken(row) = n
          BY <5>1 DEF StockInv, NotOversold, Taken
        <5>4. a[row] <= Stock[row] - n /\ a[row] \in Nat
          <6>1. Free(row) = Stock[row] - n
            BY <5>2, <5>3 DEF Free
          <6>2. QED BY <3>6, <6>1
        <5>5. Total({r \in reserved' : r.row = row}) = n + a[row]
          BY <3>6, <5>1
        <5>6. QED BY <5>2, <5>4, <5>5
      <4>2. QED BY <4>1 DEF NotOversold
    <3>9. HeldWhole'
      <4>1. Total(Held(t, po)) \in Nat
        <5>1. IsFiniteSet(Held(t, po)) /\ Held(t, po) \subseteq reserved
          BY <3>5, FS_Subset DEF Held
        <5>2. QED BY <3>7, <5>1, TotalNat
      <4>2. Total(Held(t, po)') >= Quantity
        BY <3>6, <4>1, ConstantsAssumption
      <4>3. ASSUME NEW u \in Threads, NEW p \in Nat, Held(u, p)' # {}
            PROVE  Total(Held(u, p)') >= Quantity
        BY <3>6, <4>2, <4>3 DEF StockInv, HeldWhole
      <4>4. ASSUME NEW u \in Threads, NEW p \in Nat
            PROVE  Total(Held(u, p))' = Total(Held(u, p)')
        BY DEF Total
      <4>5. QED BY <4>3, <4>4 DEF HeldWhole
    <3>10. OrdersHeld'
      BY <1>2, <3>1 DEF AllocateRows, Reserves, StockInv, OrdersHeld, Held
    <3>11. QED BY <3>6, <3>8, <3>9, <3>10 DEF StockInv
  <2>3. QED BY <2>1, <2>2
<1>3. ASSUME NEW k \in Tasks, CreateSalesOrder(k)
      PROVE  StockInv'
  <2>1. UNCHANGED reserved
    BY <1>3 DEF CreateSalesOrder
  <2>2. At(k, "create_sales_order") /\ Running(k) /\ RunsInv
    BY <1>3 DEF CreateSalesOrder, At, Running, BaseInv
  <2>3. PICK t \in Threads : t = Thread(k)
    BY <2>2, RunFacts
  <2>4. PICK po \in Nat : po = S(k).po
    BY <2>2, RunFacts DEF StateType
  <2>5. Held(t, po) # {}
    BY <2>2, <2>3, <2>4, RunFacts DEF Documented, At
  <2>6. OrdersHeld'
    <3>1. CASE UNCHANGED orders
      BY <2>1, <3>1 DEF StockInv, OrdersHeld, Held
    <3>2. CASE orders' = [orders EXCEPT ![t] = Append(@, po)]
      <4>1. orders \in [Threads -> Seq(Nat)]
        BY <2>2 DEF RunsInv, TypeOK
      <4>2. /\ \A u \in Threads : DOMAIN orders[u] = 1 .. Len(orders[u]) /\ DOMAIN orders'[u] = 1 .. Len(orders'[u])
            /\ \A u \in Threads \ {t} : orders'[u] = orders[u]
            /\ Len(orders[t]) \in Nat /\ Len(orders'[t]) = Len(orders[t]) + 1
            /\ \A i \in DOMAIN orders[t] : orders'[t][i] = orders[t][i]
            /\ orders'[t][Len(orders[t]) + 1] = po
        BY <3>2, <4>1, Appended
      <4>3. \A i \in DOMAIN orders'[t] : i \in DOMAIN orders[t] \/ i = Len(orders[t]) + 1
        BY <4>2
      <4>4. ASSUME NEW u \in Threads, NEW i \in DOMAIN orders'[u]
            PROVE  Held(u, orders'[u][i]) # {}
        BY <2>5, <4>2, <4>3 DEF StockInv, OrdersHeld
      <4>5. QED BY <2>1, <4>4 DEF OrdersHeld, Held
    <3>3. QED BY <1>3, <2>3, <2>4, <3>1, <3>2 DEF CreateSalesOrder
  <2>7. QED BY <2>1, <2>6 DEF StockInv, NotOversold, HeldWhole, Held
<1>4. QED BY <1>1, <1>2, <1>3

-----------------------------------------------------------------------------
(* Conversations nobody disturbed: one run at a time works on them.           *)

Alone(t) ==
  \A k \in Tasks : On(k, t) => crm[t] = "none" /\ \A j \in Tasks : On(j, t) => j = k

(* What stock is held for, or an order was made of.                           *)
Firm(t, po) == Ordered(t, po) \/ Held(t, po) # {}

(* The purchase order of a state agrees with its quotation's price; a human   *)
(* approved its differences if it has some; and no order was made from it.    *)
Agreed(t, st) ==
  st.po # 0 /\ st.quote # 0 /\ purchases[t][st.po].price = quotes[t][st.quote].price
Accepted(t, st) ==
  /\ Agreed(t, st) /\ ~ Ordered(t, st.po)
  /\ purchases[t][st.po].verdict \in {"ok", "review"}
  /\ purchases[t][st.po].verdict = "review" => "po" \in purchases[t][st.po].granted

(* What a state may ask a human for.                                          *)
Asks(t, st) ==
  /\ st.stage = "po" => /\ Agreed(t, st) /\ ~ Firm(t, st.po)
                        /\ purchases[t][st.po].verdict = "review"
                        /\ ~ purchases[t][st.po].credit
  /\ st.stage = "po_revalidation" => Accepted(t, st) /\ ~ Firm(t, st.po)

QuotationStages == {"requirement", "qualification", "feasibility", "pricing"}
Last(t, po) == orders[t][Len(orders[t])] = po
Marked(t, po) == \E i \in DOMAIN handoffs[t] : handoffs[t][i].marked /\ handoffs[t][i].po = po

Sound(t, st) ==
  /\ Firm(t, st.po) => /\ Agreed(t, st) /\ st.status # "blocked"
                          /\ st.stage \notin QuotationStages
  /\ st.status = "awaiting_approval" => Asks(t, st)
  /\ st.analysis.auto => st.analysis.price # None /\ st.analysis.price >= Floor
  /\ st.status = "handed_off" =>
       \E i \in DOMAIN handoffs[t] :
         handoffs[t][i].marked /\ handoffs[t][i].po = orders[t][Len(orders[t])]

(* What an approval of the item "seen" lets a run go on with.                 *)
Resumes(t, st, stage, seen) ==
  /\ stage \in QuotationStages \cup {"po", "po_revalidation"} => ~ Firm(t, st.po)
  /\ stage = "pricing" => seen = st.price
  /\ stage = "negotiation" => seen = st.analysis.price
  /\ stage = "po" => Accepted(t, st) /\ ~ purchases[t][st.po].credit
  /\ stage = "po_revalidation" => Accepted(t, st) /\ stage \in purchases[t][st.po].granted

QuotingNodes ==
  {"extract_inquiry", "normalize_requirement", "exact_product_code_lookup",
   "structured_specification_match", "match_requirement", "resolve_customer_identity",
   "load_customer_360", "qualify_customer", "check_feasibility", "compute_pricing",
   "generate_quotation"}
OrderingNodes == {"reserve_inventory", "allocate_rows", "mark_order_won", "create_sales_order"}

(* What holds of the state of a run that is at a node, "stage" and "seen"     *)
(* being what a human approved.                                               *)
Compared(t, st) ==
  /\ st.status \notin {"awaiting_approval", "blocked", "handed_off"}
  /\ ~ st.error => /\ st.po # 0 /\ ~ Firm(t, st.po)
                   /\ purchases[t][st.po].verdict = "new" /\ ~ purchases[t][st.po].credit
Orderable(t, st) ==
  /\ Accepted(t, st) /\ st.stage = None /\ st.status # "blocked"
  /\ purchases[t][st.po].credit => "po_revalidation" \in purchases[t][st.po].granted
NodeSound(t, st, node, stage, seen) ==
  /\ node \in QuotingNodes => ~ Firm(t, st.po)
  /\ node = "generate_quotation" /\ st.price \in Large => stage = "pricing" /\ seen = st.price
  /\ node = "prepare_revised_quotation" =>
       st.analysis.auto \/ (stage = "negotiation" /\ seen = st.analysis.price)
  /\ node = "validate_po" => Compared(t, st)
  /\ node = "request_approval" => Asks(t, st)
  /\ node = "revalidate_order_state" =>
       /\ Accepted(t, st) /\ ~ Firm(t, st.po) /\ st.status # "blocked"
       /\ ~ purchases[t][st.po].credit
  /\ node \in OrderingNodes => Orderable(t, st)
  /\ node = "allocate_rows" => Held(t, st.po) = {}
  /\ node \in Confirming => Last(t, st.po)
  /\ node = "finalize_audit" => Marked(t, st.po)

Brought(k) ==
  /\ task[k].trigger = "approved" =>
       /\ checkpoint[Thread(k)].status = "awaiting_approval"
       /\ Resumes(Thread(k), checkpoint[Thread(k)], task[k].approved, task[k].seen)
  /\ task[k].trigger = "retry_pricing" => checkpoint[Thread(k)].status = "blocked"
Entered(k) ==
  /\ task[k].trigger \in {"inquiry", "retry_pricing"} => ~ Firm(Thread(k), S(k).po)
  /\ task[k].trigger = "approved" =>
       /\ S(k).stage = None /\ S(k).status # "blocked"
       /\ Resumes(Thread(k), S(k), task[k].approved, task[k].seen)
RunSound(k) ==
  /\ At(k, "received") => Brought(k)
  /\ At(k, "check_trigger") => Entered(k)
  /\ Running(k) => /\ Sound(Thread(k), S(k))
                   /\ NodeSound(Thread(k), S(k), task[k].pc, task[k].approved, task[k].seen)

Closing(t) ==
  closed[t] => /\ lead[t] # "won" /\ crm[t] # "reopening" /\ \A k \in Tasks : ~ On(k, t)
               /\ crm[t] = "none" => checkpoint[t].status = "closed_lost"

HeldOnce(t) == \A po \in Nat : Held(t, po) # {} => Total(Held(t, po)) = Quantity
QuotesApproved(t) ==
  \A i \in DOMAIN quotes[t] : quotes[t][i].price \in Large => quotes[t][i].approved
RevisionsAuthorised(t) ==
  \A v \in revised[t] : (v.auto \/ v.approved) /\ (v.price < Floor => v.approved)
OrdersApproved(t) ==
  \A i \in DOMAIN orders[t] :
    LET p == purchases[t][orders[t][i]]
    IN /\ p.verdict \in {"ok", "review"}
       /\ p.verdict = "review" => "po" \in p.granted
       /\ p.credit => "po_revalidation" \in p.granted
       /\ \A j \in DOMAIN orders[t] : orders[t][j] = orders[t][i] => i = j
HeldCleared(t) == \A r \in reserved : r.thread = t => Cleared(purchases[t][r.po])
Papers(t) == /\ HeldOnce(t) /\ QuotesApproved(t) /\ RevisionsAuthorised(t) /\ OrdersApproved(t)
             /\ HeldCleared(t)

Undisturbed(t) ==
  /\ Alone(t)
  /\ checkpoint[t] # None => Sound(t, checkpoint[t])
  /\ \A k \in Tasks : On(k, t) => RunSound(k)
  /\ Closing(t)
  /\ Papers(t)
UndisturbedInv == \A t \in Threads \ disturbed : Undisturbed(t)

-----------------------------------------------------------------------------
(* A conversation no step touches stays as it is.                             *)
SamePapers(t) ==
  /\ quotes'[t] = quotes[t] /\ revised'[t] = revised[t] /\ purchases'[t] = purchases[t]
  /\ orders'[t] = orders[t] /\ handoffs'[t] = handoffs[t]
  /\ \A po : {r \in reserved' : r.thread = t /\ r.po = po} = {r \in reserved : r.thread = t /\ r.po = po}
SameRuns(t) ==
  \A k \in Tasks : /\ task'[k].thread = t <=> task[k].thread = t
                   /\ task[k].thread = t => task'[k] = task[k]
Same(t) ==
  /\ SamePapers(t) /\ SameRuns(t) /\ checkpoint'[t] = checkpoint[t]
  /\ lead'[t] = lead[t] /\ closed'[t] = closed[t] /\ crm'[t] = crm[t]

(* What a state has to agree with is the same,                                *)
LEMMA SameSound ==
  ASSUME NEW t, SamePapers(t), NEW st
  PROVE  /\ Sound(t, st)' <=> Sound(t, st)
         /\ \A stage, seen : Resumes(t, st, stage, seen)' <=> Resumes(t, st, stage, seen)
         /\ \A node, stage, seen : NodeSound(t, st, node, stage, seen)' <=> NodeSound(t, st, node, stage, seen)
<1>1. /\ \A po : Ordered(t, po)' <=> Ordered(t, po)
      /\ \A po : Firm(t, po)' <=> Firm(t, po)
      /\ \A po : Held(t, po)' = Held(t, po)
      /\ \A po : Last(t, po)' <=> Last(t, po)
      /\ \A po : Marked(t, po)' <=> Marked(t, po)
  BY DEF SamePapers, Ordered, Firm, Held, Last, Marked
<1>2. Agreed(t, st)' <=> Agreed(t, st)
  BY DEF SamePapers, Agreed
<1>3. Accepted(t, st)' <=> Accepted(t, st)
  BY <1>1, <1>2 DEF SamePapers, Accepted
<1>4. Asks(t, st)' <=> Asks(t, st)
  BY <1>1, <1>2, <1>3 DEF SamePapers, Asks
<1>5. Sound(t, st)' <=> Sound(t, st)
  BY <1>1, <1>2, <1>4 DEF SamePapers, Sound
<1>6. \A stage, seen : Resumes(t, st, stage, seen)' <=> Resumes(t, st, stage, seen)
  BY <1>1, <1>3 DEF SamePapers, Resumes
<1>7. Compared(t, st)' <=> Compared(t, st)
  BY <1>1 DEF SamePapers, Compared
<1>8. Orderable(t, st)' <=> Orderable(t, st)
  BY <1>3 DEF SamePapers, Orderable
<1>9. \A node, stage, seen : NodeSound(t, st, node, stage, seen)' <=> NodeSound(t, st, node, stage, seen)
  BY <1>1, <1>3, <1>4, <1>7, <1>8 DEF SamePapers, NodeSound
<1>10. QED BY <1>5, <1>6, <1>9

(* and so is what papers have to agree with,                                  *)
LEMMA SamePapersStay == ASSUME NEW t, SamePapers(t), Papers(t) PROVE Papers(t)'
<1>1. HeldOnce(t)'
  BY DEF SamePapers, Papers, HeldOnce, Held
<1>2. QuotesApproved(t)' /\ RevisionsAuthorised(t)'
  BY DEF SamePapers, Papers, QuotesApproved, RevisionsAuthorised
<1>3. OrdersApproved(t)'
  BY DEF SamePapers, Papers, OrdersApproved
<1>4. HeldCleared(t)'
  <2>1. SUFFICES ASSUME NEW r \in reserved', r.thread = t PROVE Cleared(purchases'[t][r.po])
    BY DEF HeldCleared, Cleared
  <2>2. r \in reserved
    <3>1. {x \in reserved' : x.thread = t /\ x.po = r.po} = {x \in reserved : x.thread = t /\ x.po = r.po}
      BY DEF SamePapers
    <3>2. QED BY <2>1, <3>1
  <2>3. QED BY <2>1, <2>2 DEF SamePapers, Papers, HeldCleared
<1>5. QED BY <1>1, <1>2, <1>3, <1>4 DEF Papers

(* where nothing of a conversation changes.                                   *)
LEMMA SameStays == ASSUME NEW t \in Threads, Same(t), Undisturbed(t) PROVE Undisturbed(t)'
<1>1. Alone(t)'
  BY DEF Same, SameRuns, Undisturbed, Alone, On, Thread
<1>2. checkpoint'[t] # None => Sound(t, checkpoint[t])'
  <2>1. PICK c : c = checkpoint[t]
    OBVIOUS
  <2>2. checkpoint[t]' = c
    BY <2>1 DEF Same
  <2>3. c # None => Sound(t, c)'
    BY <2>1, SameSound DEF Same, Undisturbed
  <2>4. QED BY <2>2, <2>3
<1>3. ASSUME NEW k \in Tasks, On(k, t)' PROVE RunSound(k)'
  <2>1. On(k, t) /\ task'[k] = task[k] /\ RunSound(k)
    BY <1>3 DEF Same, SameRuns, Undisturbed, On, Thread
  <2>2. PICK c : c = checkpoint[t]
    OBVIOUS
  <2>3. PICK st : st = S(k)
    OBVIOUS
  <2>4. PICK node, trigger, stage, seen : /\ node = task[k].pc /\ trigger = task[k].trigger
                                          /\ stage = task[k].approved /\ seen = task[k].seen
    OBVIOUS
  <2>5. /\ checkpoint[t]' = c /\ S(k)' = st /\ Thread(k)' = t /\ Thread(k) = t
        /\ task'[k].pc = node /\ task'[k].trigger = trigger
        /\ task'[k].approved = stage /\ task'[k].seen = seen
    BY <2>1, <2>2, <2>3, <2>4 DEF Same, S, Thread, On
  <2>6. /\ Sound(t, st) => Sound(t, st)'
        /\ NodeSound(t, st, node, stage, seen) => NodeSound(t, st, node, stage, seen)'
        /\ Resumes(t, st, stage, seen) => Resumes(t, st, stage, seen)'
        /\ Resumes(t, c, stage, seen) => Resumes(t, c, stage, seen)'
        /\ \A po : Firm(t, po)' <=> Firm(t, po)
    BY SameSound DEF Same, SamePapers, Ordered, Firm, Held
  <2>7. At(k, "received")' => Brought(k)'
    BY <2>1, <2>2, <2>4, <2>5, <2>6 DEF RunSound, At, Brought
  <2>8. At(k, "check_trigger")' => Entered(k)'
    BY <2>1, <2>3, <2>4, <2>5, <2>6 DEF RunSound, At, Entered
  <2>9. Running(k)' => /\ Sound(Thread(k), S(k))'
                       /\ NodeSound(Thread(k), S(k), task[k].pc, task[k].approved, task[k].seen)'
    BY <2>1, <2>3, <2>4, <2>5, <2>6 DEF RunSound, Running
  <2>10. QED BY <2>7, <2>8, <2>9 DEF RunSound
<1>4. Closing(t)'
  BY DEF Same, SameRuns, Undisturbed, Closing, On, Thread
<1>5. Papers(t)'
  BY SamePapersStay DEF Same, Undisturbed
<1>6. QED BY <1>1, <1>2, <1>3, <1>4, <1>5 DEF Undisturbed

(* The step of a run touches its own conversation only.                       *)
Elsewhere(k) == disturbed' = disturbed /\ \A u \in Threads : u # Thread(k) => Same(u)
TaskStays(k) ==
  disturbed' = disturbed /\ \A u \in Threads : u # Thread(k) =>
    SameRuns(u) /\ checkpoint'[u] = checkpoint[u] /\ closed'[u] = closed[u] /\ crm'[u] = crm[u]

(* A run that moves leaves other conversations alone,                         *)
LEMMA MovesStays ==
  ASSUME RunsInv, NEW k \in Tasks, NEW c, NEW st, NEW next, Moves(k, c, st, next)
  PROVE  TaskStays(k)
<1>1. checkpoint \in [Threads -> StateType \cup {None}]
  BY DEF RunsInv, TypeOK
<1>2. \A u \in Threads : u # Thread(k) => task'[k].thread # u
  BY NoneAssumption DEF Moves, Idle, Thread
<1>3. QED BY <1>1, <1>2 DEF Moves, TaskStays, SameRuns, Thread, counters

(* also when it goes on,                                                      *)
LEMMA GoesStays ==
  ASSUME RunsInv, NEW k \in Tasks, NEW st, NEW next, Goes(k, st, next)
  PROVE  TaskStays(k)
<1>1. /\ checkpoint \in [Threads -> StateType \cup {None}] /\ task \in [Tasks -> TaskType]
  BY DEF RunsInv, TypeOK
<1>2. \A j \in Tasks \ {k} : task'[j] = task[j]
  BY <1>1 DEF Goes
<1>3. task'[k].thread \in {None, task[k].thread}
  <2>1. CASE next = "end"
    BY <1>1, <2>1 DEF Goes, Idle
  <2>2. CASE next # "end"
    <3>1. PICK u \in TaskType : u = task[k]
      BY <1>1
    <3>2. PICK new : new = [u EXCEPT !.st = st, !.pc = next]
      OBVIOUS
    <3>3. new.thread = u.thread
      BY <3>2 DEF TaskType
    <3>4. task'[k] = new
      BY <1>1, <2>2, <3>1, <3>2 DEF Goes
    <3>5. QED BY <3>1, <3>3, <3>4
  <2>3. QED BY <2>1, <2>2
<1>4. \A u \in Threads : u # Thread(k) => task'[k].thread # u
  BY <1>3, NoneAssumption DEF Thread
<1>5. \A u \in Threads : u # Thread(k) => SameRuns(u)
  BY <1>2, <1>4 DEF SameRuns, Thread
<1>6. \A u \in Threads : u # Thread(k) => checkpoint'[u] = checkpoint[u]
  BY <1>1 DEF Goes
<1>7. QED BY <1>5, <1>6 DEF TaskStays, Goes, counters

(* or fails.                                                                  *)
LEMMA FailsStays ==
  ASSUME RunsInv, NEW k \in Tasks, NEW next, Fails(k, next)
  PROVE  TaskStays(k)
  BY GoesStays DEF Fails

(* So do the nodes that write no document,                                    *)
LEMMA ControlStays ==
  ASSUME RunsInv, NEW k \in Tasks, NEW next, task' = [task EXCEPT ![k].pc = next],
         UNCHANGED <<checkpoint, closed, crm, counters>>
  PROVE  TaskStays(k)
<1>1. task \in [Tasks -> TaskType]
  BY DEF RunsInv, TypeOK
<1>2. PICK u \in TaskType : u = task[k]
  BY <1>1
<1>3. PICK new : new = [u EXCEPT !.pc = next]
  OBVIOUS
<1>4. new.thread = u.thread
  BY <1>3 DEF TaskType
<1>5. task' = [task EXCEPT ![k] = new]
  BY <1>1, <1>2, <1>3
<1>6. QED BY <1>1, <1>2, <1>4, <1>5 DEF TaskStays, SameRuns, Thread, counters

(* those that write some,                                                     *)
LEMMA WritesElsewhere ==
  ASSUME RunsInv, NEW k \in Tasks, TaskStays(k),
         \A u \in Threads : u # Thread(k) => SamePapers(u) /\ lead'[u] = lead[u]
  PROVE  Elsewhere(k)
  BY DEF Elsewhere, TaskStays, Same

(* and a run as a whole.                                                      *)
LEMMA RunElsewhere ==
  ASSUME BaseInv, NEW k \in Tasks, QuietNode(k) \/ WritingNode(k) \/ Invoke(k) \/ Abandon(k)
  PROVE  Elsewhere(k)
<1>0. RunsInv /\ TypeOK
  BY DEF BaseInv, RunsInv
<1>1. CASE QuietNode(k)
  <2>1. PICK st, next : Goes(k, st, next)
    BY <1>0, <1>1, QuietMoves DEF RunsInv, Moving
  <2>2. Quiet
    BY <1>1, QuietIsQuiet
  <2>3. QED BY <1>0, <2>1, <2>2, GoesStays, WritesElsewhere DEF Quiet, documents, SamePapers
<1>2. CASE Invoke(k)
  <2>1. TaskStays(k) /\ UNCHANGED documents /\ UNCHANGED lead
    BY <1>0, <1>2, InvokeMoves, MovesStays
  <2>2. QED BY <1>0, <2>1, WritesElsewhere DEF documents, SamePapers
<1>3. CASE Abandon(k)
  <2>1. /\ task' = [task EXCEPT ![k] = Idle] /\ task \in [Tasks -> TaskType]
        /\ UNCHANGED documents /\ UNCHANGED lead /\ UNCHANGED <<checkpoint, closed, crm, disturbed>>
    BY <1>0, <1>3 DEF Abandon, TypeOK, leads
  <2>2. TaskStays(k)
    BY <2>1, NoneAssumption DEF TaskStays, SameRuns, Thread, Idle
  <2>3. QED BY <1>0, <2>1, <2>2, WritesElsewhere DEF documents, SamePapers
<1>4. CASE ExtractInquiry(k)
  <2>1. TaskStays(k)
    BY <1>0, <1>4, GoesStays, FailsStays DEF ExtractInquiry
  <2>2. \A u \in Threads : u # Thread(k) => lead'[u] = lead[u]
    BY <1>0, <1>4 DEF ExtractInquiry, TypeOK
  <2>3. QED BY <1>0, <1>4, <2>1, <2>2, WritesElsewhere DEF ExtractInquiry, documents, SamePapers
<1>5. CASE GenerateQuotation(k)
  <2>1. TaskStays(k)
    BY <1>0, <1>5, GoesStays, FailsStays DEF GenerateQuotation
  <2>2. \A u \in Threads : u # Thread(k) => quotes'[u] = quotes[u]
    BY <1>0, <1>5 DEF GenerateQuotation, TypeOK
  <2>3. QED BY <1>0, <1>5, <2>1, <2>2, WritesElsewhere DEF GenerateQuotation, SamePapers
<1>6. CASE DispatchQuotation(k)
  <2>1. TaskStays(k)
    BY <1>0, <1>6, GoesStays, FailsStays, ControlStays DEF DispatchQuotation
  <2>2. \A u \in Threads : u # Thread(k) => quotes'[u] = quotes[u]
    BY <1>0, <1>6 DEF DispatchQuotation, Delivered, TypeOK
  <2>3. QED BY <1>0, <1>6, <2>1, <2>2, WritesElsewhere DEF DispatchQuotation, SamePapers
<1>7. CASE SendQuotation(k)
  <2>1. TaskStays(k)
    BY <1>0, <1>7, GoesStays, FailsStays DEF SendQuotation
  <2>2. \A u \in Threads : u # Thread(k) => quotes'[u] = quotes[u]
    BY <1>0, <1>7 DEF SendQuotation, Delivered, TypeOK
  <2>3. QED BY <1>0, <1>7, <2>1, <2>2, WritesElsewhere DEF SendQuotation, SamePapers
<1>8. CASE PrepareRevisedQuotation(k)
  <2>1. TaskStays(k)
    BY <1>0, <1>8, GoesStays, FailsStays DEF PrepareRevisedQuotation
  <2>2. \A u \in Threads : u # Thread(k) => revised'[u] = revised[u]
    BY <1>0, <1>8 DEF PrepareRevisedQuotation, TypeOK
  <2>3. QED BY <1>0, <1>8, <2>1, <2>2, WritesElsewhere DEF PrepareRevisedQuotation, SamePapers
<1>9. CASE ExtractPoFields(k)
  <2>1. TaskStays(k)
    BY <1>0, <1>9, GoesStays, FailsStays DEF ExtractPoFields
  <2>2. \A u \in Threads : u # Thread(k) => purchases'[u] = purchases[u]
    BY <1>0, <1>9 DEF ExtractPoFields, TypeOK
  <2>3. QED BY <1>0, <1>9, <2>1, <2>2, WritesElsewhere DEF ExtractPoFields, SamePapers
<1>10. CASE ValidatePo(k)
  <2>1. TaskStays(k)
    BY <1>0, <1>10, ValidatePoCases, GoesStays, FailsStays DEF Compares
  <2>2. \A u \in Threads : u # Thread(k) => purchases'[u] = purchases[u]
    <3>1. ASSUME NEW v, purchases' = [purchases EXCEPT ![Thread(k)][S(k).po].verdict = v]
          PROVE  \A u \in Threads : u # Thread(k) => purchases'[u] = purchases[u]
      <4>1. PICK e : e = [purchases[Thread(k)] EXCEPT ![S(k).po].verdict = v]
        OBVIOUS
      <4>2. purchases' = [purchases EXCEPT ![Thread(k)] = e]
        BY <3>1, <4>1
      <4>3. QED BY <1>0, <4>2 DEF TypeOK
    <3>2. UNCHANGED purchases
            \/ \E v : purchases' = [purchases EXCEPT ![Thread(k)][S(k).po].verdict = v]
      BY <1>10, ValidatePoCases DEF Compares
    <3>3. QED BY <3>1, <3>2
  <2>3. QED BY <1>0, <1>10, <2>1, <2>2, WritesElsewhere, ValidatePoCases DEF SamePapers
<1>11. CASE RevalidateOrderState(k)
  <2>1. TaskStays(k)
    BY <1>0, <1>11, RevalidateCases, GoesStays, FailsStays
  <2>2. \A u \in Threads : u # Thread(k) => purchases'[u] = purchases[u]
    <3>1. \/ UNCHANGED purchases
          \/ \E st, next : AsksAgain(k, st, next)
      BY <1>11, RevalidateCases DEF PassesAgain, CorrectsAgain
    <3>2. QED BY <1>0, <3>1 DEF AsksAgain, TypeOK
  <2>3. QED BY <1>0, <1>11, <2>1, <2>2, WritesElsewhere, RevalidateCases DEF SamePapers
<1>12. CASE ReserveInventory(k)
  <2>1. TaskStays(k)
    BY <1>0, <1>12, GoesStays, FailsStays, ControlStays DEF ReserveInventory
  <2>2. QED BY <1>0, <1>12, <2>1, WritesElsewhere DEF ReserveInventory, Quiet, documents, SamePapers
<1>13. CASE AllocateRows(k)
  <2>1. TaskStays(k)
    BY <1>0, <1>13, GoesStays, FailsStays, AllocateRowsCases
  <2>2. \A u \in Threads : u # Thread(k) => \A po :
          {r \in reserved' : r.thread = u /\ r.po = po} = {r \in reserved : r.thread = u /\ r.po = po}
    <3>1. CASE UNCHANGED reserved
      BY <3>1
    <3>2. ASSUME NEW a, Reserves(k, a)
          PROVE  \A u \in Threads : u # Thread(k) => \A po :
                   {r \in reserved' : r.thread = u /\ r.po = po} = {r \in reserved : r.thread = u /\ r.po = po}
      BY <3>2 DEF Reserves, Reservations
    <3>3. QED BY <1>13, <3>1, <3>2, AllocateRowsCases
  <2>3. QED BY <1>0, <1>13, <2>1, <2>2, WritesElsewhere, AllocateRowsCases DEF SamePapers
<1>14. CASE MarkOrderWon(k)
  <2>1. TaskStays(k)
    BY <1>0, <1>14, GoesStays, FailsStays DEF MarkOrderWon
  <2>2. \A u \in Threads : u # Thread(k) => lead'[u] = lead[u]
    BY <1>0, <1>14 DEF MarkOrderWon, TypeOK
  <2>3. QED BY <1>0, <1>14, <2>1, <2>2, WritesElsewhere DEF MarkOrderWon, documents, SamePapers
<1>15. CASE CreateSalesOrder(k)
  <2>1. TaskStays(k)
    BY <1>0, <1>15, GoesStays, FailsStays DEF CreateSalesOrder
  <2>2. \A u \in Threads : u # Thread(k) => orders'[u] = orders[u]
    BY <1>0, <1>15 DEF CreateSalesOrder, TypeOK
  <2>3. QED BY <1>0, <1>15, <2>1, <2>2, WritesElsewhere DEF CreateSalesOrder, SamePapers
<1>16. CASE DispatchHandoff(k)
  <2>1. TaskStays(k)
    <3>1. CASE Fails(k, "end")
      BY <1>0, <3>1, FailsStays
    <3>2. CASE ~ Fails(k, "end")
      <4>1. PICK n : n = Len(handoffs'[Thread(k)])
        OBVIOUS
      <4>2. /\ task' = [task EXCEPT ![k].pc = "notify_departments", ![k].st.handoff = n]
            /\ UNCHANGED <<checkpoint, closed, crm, counters>>
        BY <1>16, <3>2, <4>1 DEF DispatchHandoff
      <4>3. task \in [Tasks -> TaskType]
        BY <1>0 DEF TypeOK
      <4>4. PICK u \in TaskType : u = task[k]
        BY <4>3
      <4>5. PICK new : new = [u EXCEPT !.pc = "notify_departments", !.st.handoff = n]
        OBVIOUS
      <4>6. new.thread = u.thread
        BY <4>5 DEF TaskType
      <4>7. task' = [task EXCEPT ![k] = new]
        BY <4>2, <4>3, <4>4, <4>5 DEF TaskType
      <4>8. QED BY <4>2, <4>3, <4>4, <4>6, <4>7 DEF TaskStays, SameRuns, Thread, counters
    <3>3. QED BY <3>1, <3>2
  <2>2. \A u \in Threads : u # Thread(k) => handoffs'[u] = handoffs[u]
    BY <1>0, <1>16 DEF DispatchHandoff, TypeOK
  <2>3. QED BY <1>0, <1>16, <2>1, <2>2, WritesElsewhere DEF DispatchHandoff, SamePapers
<1>17. CASE NotifyDepartment(k)
  <2>1. TaskStays(k)
    <3>1. CASE Fails(k, "end")
      BY <1>0, <3>1, FailsStays
    <3>2. CASE UNCHANGED <<checkpoint, task, closed, crm, counters>>
      BY <3>2 DEF TaskStays, SameRuns, counters
    <3>3. QED BY <1>17, <3>1, <3>2, NotifyCases
  <2>2. \A u \in Threads : u # Thread(k) => handoffs'[u] = handoffs[u]
    <3>1. CASE Told(k)
      <4>1. PICK e : e = [handoffs[Thread(k)] EXCEPT ![S(k).handoff].told = @ + 1]
        OBVIOUS
      <4>2. handoffs' = [handoffs EXCEPT ![Thread(k)] = e]
        BY <3>1, <4>1 DEF Told
      <4>3. QED BY <1>0, <4>2 DEF TypeOK
    <3>2. QED BY <1>17, <3>1, NotifyCases
  <2>3. QED BY <1>0, <1>17, <2>1, <2>2, WritesElsewhere, NotifyCases DEF SamePapers
<1>18. CASE MarkDepartments(k)
  <2>1. TaskStays(k)
    BY <1>0, <1>18, GoesStays, FailsStays, MarkCases
  <2>2. \A u \in Threads : u # Thread(k) => handoffs'[u] = handoffs[u]
    <3>1. CASE Marks(k)
      <4>1. PICK e : e = [handoffs[Thread(k)] EXCEPT ![S(k).handoff].marked = TRUE]
        OBVIOUS
      <4>2. handoffs' = [handoffs EXCEPT ![Thread(k)] = e]
        BY <3>1, <4>1 DEF Marks
      <4>3. QED BY <1>0, <4>2 DEF TypeOK
    <3>2. QED BY <1>18, <3>1, MarkCases
  <2>3. QED BY <1>0, <1>18, <2>1, <2>2, WritesElsewhere, MarkCases DEF SamePapers
<1>19. QED BY <1>1, <1>2, <1>3, <1>4, <1>5, <1>6, <1>7, <1>8, <1>9, <1>10, <1>11, <1>12, <1>13,
     <1>14, <1>15, <1>16, <1>17, <1>18 DEF WritingNode

(* The step of a run keeps its conversation as it has to be, if the state it  *)
(* goes on with and the one it leaves behind are.                             *)
LEMMA RunKeeps ==
  ASSUME RunsInv, NEW k \in Tasks, NEW t \in Threads, t = Thread(k), Undisturbed(t),
         NEW c \in StateType, NEW st \in StateType, NEW next, Moves(k, c, st, next),
         next \in Ends \cup {"check_trigger"}, Sound(t, c)',
         next # "end" =>
           /\ Sound(t, st)'
           /\ \A stage, seen : stage = task[k].approved /\ seen = task[k].seen =>
                NodeSound(t, st, next, stage, seen)',
         next = "check_trigger" => Entered(k)',
         Papers(t)'
  PROVE  Undisturbed(t)'
<1>1. /\ checkpoint \in [Threads -> StateType \cup {None}]
      /\ On(k, t) /\ crm[t] = "none" /\ ~ closed[t]
      /\ \A j \in Tasks : On(j, t) => j = k
      /\ closed'[t] = closed[t] /\ crm'[t] = crm[t]
  BY DEF RunsInv, TypeOK, Undisturbed, Alone, Closing, On, Moves
<1>2. \A j \in Tasks : On(j, t)' => j = k
  BY <1>1 DEF Moves, On, Thread
<1>3. Alone(t)'
  BY <1>1, <1>2 DEF Alone
<1>4. checkpoint'[t] = c
  BY <1>1 DEF Moves
<1>5. checkpoint'[t] # None => Sound(t, checkpoint[t])'
  BY <1>4
<1>6. ASSUME NEW j \in Tasks, On(j, t)' PROVE RunSound(j)'
  <2>1. j = k
    BY <1>2, <1>6
  <2>2. next # "end"
    <3>1. task'[k].thread # None
      BY <1>6, <2>1, NoneAssumption DEF On, Thread
    <3>2. QED BY <3>1 DEF Moves, Idle
  <2>3. /\ task'[k].pc = next /\ task'[k].st = st /\ task'[k].thread = t
        /\ task'[k].approved = task[k].approved /\ task'[k].seen = task[k].seen
    BY <2>2 DEF Moves, Thread
  <2>4. PICK stage, seen : stage = task[k].approved /\ seen = task[k].seen
    OBVIOUS
  <2>5. Sound(t, st)' /\ NodeSound(t, st, next, stage, seen)'
    BY <2>2, <2>4
  <2>6. At(k, "received")' => Brought(k)'
    BY <2>2, <2>3 DEF At, Ends, Nodes
  <2>7. At(k, "check_trigger")' => Entered(k)'
    BY <2>3 DEF At
  <2>8. /\ Sound(Thread(k), S(k))'
        /\ NodeSound(Thread(k), S(k), task[k].pc, task[k].approved, task[k].seen)'
    BY <2>3, <2>4, <2>5 DEF Thread, S
  <2>9. QED BY <2>1, <2>6, <2>7, <2>8 DEF RunSound
<1>7. Closing(t)'
  BY <1>1 DEF Closing
<1>8. QED BY <1>3, <1>5, <1>6, <1>7 DEF Undisturbed

(* The same for a run that goes on with the state it leaves.                  *)
LEMMA GoKeeps ==
  ASSUME RunsInv, NEW k \in Tasks, NEW t \in Threads, t = Thread(k), Undisturbed(t),
         NEW st \in StateType, NEW next \in Ends, Goes(k, st, next), Sound(t, st)',
         next # "end" =>
           \A stage, seen : stage = task[k].approved /\ seen = task[k].seen =>
             NodeSound(t, st, next, stage, seen)',
         Papers(t)'
  PROVE  Undisturbed(t)'
<1>1. Moves(k, st, st, next)
  BY GoesMoves DEF RunsInv
<1>2. next # "check_trigger"
  BY DEF Ends, Nodes
<1>3. QED BY <1>1, <1>2, RunKeeps

(* A step that changes no document.                                           *)
Sane(k, t) ==
  \E c \in StateType, st \in StateType, next \in Ends :
    /\ Moves(k, c, st, next) /\ Sound(t, c)
    /\ next # "end" => /\ Sound(t, st)
                       /\ NodeSound(t, st, next, task[k].approved, task[k].seen)

(* A run whose step is sane keeps its conversation.                           *)
LEMMA SaneKeeps ==
  ASSUME RunsInv, NEW k \in Tasks, NEW t \in Threads, t = Thread(k), Undisturbed(t),
         UNCHANGED documents, Sane(k, t)
  PROVE  Undisturbed(t)'
<1>1. PICK c \in StateType, st \in StateType, next \in Ends :
         /\ Moves(k, c, st, next) /\ Sound(t, c)
         /\ next # "end" => /\ Sound(t, st)
                            /\ NodeSound(t, st, next, task[k].approved, task[k].seen)
  BY DEF Sane
<1>2. SamePapers(t)
  BY DEF documents, SamePapers
<1>3. Papers(t)'
  BY <1>2, SamePapersStay DEF Undisturbed
<1>4. Sound(t, c)' /\ (next # "end" => Sound(t, st)')
  BY <1>1, <1>2, SameSound
<1>5. ASSUME NEW stage, NEW seen, stage = task[k].approved, seen = task[k].seen, next # "end"
      PROVE  NodeSound(t, st, next, stage, seen)'
  BY <1>1, <1>2, <1>5, SameSound
<1>6. next # "check_trigger"
  BY DEF Ends, Nodes
<1>7. QED BY <1>1, <1>3, <1>4, <1>5, <1>6, RunKeeps

(* A step is sane when its state is sound and fits the node.                  *)
LEMMA GoSane ==
  ASSUME RunsInv, NEW k \in Tasks, NEW t \in Threads, t = Thread(k),
         NEW st \in StateType, NEW next \in Ends, Goes(k, st, next), Sound(t, st),
         next # "end" => NodeSound(t, st, next, task[k].approved, task[k].seen)
  PROVE  Sane(k, t)
<1>1. Moves(k, st, st, next)
  BY GoesMoves DEF RunsInv
<1>2. QED BY <1>1 DEF Sane

-----------------------------------------------------------------------------
(* A state with a status that asks nothing of the documents.                  *)
Eases(st, s) ==
  /\ st.po = s.po /\ st.quote = s.quote /\ st.analysis = s.analysis /\ st.stage \in {s.stage, None}
  /\ st.status = s.status \/ st.status \notin {"awaiting_approval", "blocked", "handed_off"}

(* A node that needs no approval fits any.                                    *)
LEMMA NoStage == /\ QuotationStages \subseteq Stages /\ None \notin Stages
                 /\ "po" \in Stages /\ "po_revalidation" \in Stages /\ "negotiation" \in Stages
                 /\ "po" \notin QuotationStages /\ "po_revalidation" \notin QuotationStages
                 /\ "negotiation" \notin QuotationStages
  BY NoneAssumption DEF QuotationStages, Stages

(* A state that names less is sound,                                          *)
LEMMA EasedSound ==
  ASSUME NEW t, NEW s, NEW st, Eases(st, s)
  PROVE  /\ Sound(t, s) => Sound(t, st)
         /\ Sound(t, s)' => Sound(t, st)'
<1>1. None \notin QuotationStages /\ None # "po" /\ None # "po_revalidation"
  BY NoStage
<1>2. ASSUME Sound(t, s) PROVE Sound(t, st)
  <2>1. st.status = "awaiting_approval" => Asks(t, st)
    <3>1. CASE st.stage = None
      BY <1>1, <3>1 DEF Asks
    <3>2. CASE st.stage = s.stage
      BY <1>2, <3>2 DEF Eases, Sound, Asks, Accepted, Agreed
    <3>3. QED BY <3>1, <3>2 DEF Eases
  <2>2. QED BY <1>1, <1>2, <2>1 DEF Eases, Sound, Agreed
<1>3. ASSUME Sound(t, s)' PROVE Sound(t, st)'
  <2>1. st.status = "awaiting_approval" => Asks(t, st)'
    <3>1. CASE st.stage = None
      BY <1>1, <3>1 DEF Asks
    <3>2. CASE st.stage = s.stage
      BY <1>3, <3>2 DEF Eases, Sound, Asks, Accepted, Agreed
    <3>3. QED BY <3>1, <3>2 DEF Eases
  <2>2. QED BY <1>1, <1>3, <2>1 DEF Eases, Sound, Agreed
<1>4. QED BY <1>2, <1>3

(* such as one with another status,                                           *)
LEMMA EasedStates ==
  ASSUME TypeOK, NEW k \in Tasks
  PROVE  /\ S(k) \in StateType /\ Eases(S(k), S(k))
         /\ Failed(k) \in StateType /\ Eases(Failed(k), S(k)) /\ Failed(k).status = "failed" /\ Failed(k).error
         /\ \A s \in Statuses \ {"awaiting_approval", "blocked", "handed_off"} :
              WithStatus(k, s) \in StateType /\ Eases(WithStatus(k, s), S(k))
         /\ AwaitReply(k) \in StateType /\ Eases(AwaitReply(k), S(k))
         /\ Eases([S(k) EXCEPT !.stage = None], S(k)) /\ [S(k) EXCEPT !.stage = None] \in StateType
<1>1. S(k) \in StateType
  BY StateOf
<1>2. PICK s \in StateType : s = S(k)
  BY <1>1
<1>3. Failed(k) = [s EXCEPT !.status = "failed", !.error = TRUE, !.missing = FALSE]
  BY <1>2 DEF Failed
<1>4. AwaitReply(k) = [s EXCEPT !.status = "customer", !.missing = FALSE, !.stage = None]
  BY <1>2 DEF AwaitReply
<1>5. \A x : WithStatus(k, x) = [s EXCEPT !.status = x]
  BY <1>2 DEF WithStatus
<1>6. Failed(k) \in StateType /\ Eases(Failed(k), s) /\ Failed(k).status = "failed" /\ Failed(k).error
  BY <1>3 DEF StateType, Eases, Statuses
<1>7. AwaitReply(k) \in StateType /\ Eases(AwaitReply(k), s)
  BY <1>4 DEF StateType, Eases, Statuses
<1>8. \A x \in Statuses \ {"awaiting_approval", "blocked", "handed_off"} :
         WithStatus(k, x) \in StateType /\ Eases(WithStatus(k, x), s)
  BY <1>5 DEF StateType, Eases
<1>9. Eases([s EXCEPT !.stage = None], s) /\ [s EXCEPT !.stage = None] \in StateType
  BY DEF StateType, Eases
<1>10. Eases(s, s)
  BY DEF Eases
<1>11. QED BY <1>1, <1>2, <1>6, <1>7, <1>8, <1>9, <1>10

(* Nodes that ask nothing of the state a run comes with.                      *)
FreeNodes ==
  {"send_inquiry_followup", "dispatch_quotation", "send_quotation", "compose_reminder",
   "dispatch_followup", "analyze_reply", "record_commercial_acceptance",
   "compose_positive_response", "evaluate_counteroffer", "compose_rejection",
   "compose_objection_response", "dispatch_message", "extract_po_fields",
   "send_po_correction"}

(* and fits every node that needs nothing.                                    *)
LEMMA FreeSound ==
  ASSUME NEW t, NEW st, NEW node \in FreeNodes, NEW stage, NEW seen
  PROVE  NodeSound(t, st, node, stage, seen) /\ NodeSound(t, st, node, stage, seen)'
  BY DEF FreeNodes, NodeSound, QuotingNodes, OrderingNodes, Confirming

(* These nodes.                                                               *)
LEMMA FreeEnds == FreeNodes \subseteq Ends /\ QuotingNodes \subseteq Ends /\ OrderingNodes \subseteq Ends
                  /\ Confirming \subseteq Ends
  BY DEF FreeNodes, QuotingNodes, OrderingNodes, Confirming, Ends, Nodes

(* It fits a node of the quotation while there is no order,                   *)
LEMMA QuotingSound ==
  ASSUME NEW t, NEW st, NEW node \in QuotingNodes \ {"generate_quotation"}, ~ Firm(t, st.po),
         NEW stage, NEW seen
  PROVE  NodeSound(t, st, node, stage, seen)
  BY DEF NodeSound, QuotingNodes, OrderingNodes, Confirming

(* and a node of the order once that is accepted.                             *)
LEMMA OrderingSound ==
  ASSUME NEW t, NEW st, NEW node \in OrderingNodes \ {"allocate_rows"}, NEW stage, NEW seen
  PROVE  /\ Orderable(t, st) => NodeSound(t, st, node, stage, seen)
         /\ Orderable(t, st)' => NodeSound(t, st, node, stage, seen)'
  BY DEF NodeSound, QuotingNodes, OrderingNodes, Confirming

-----------------------------------------------------------------------------
(* Nodes that write no document                                               *)

(* What is known of a run of an undisturbed conversation.                     *)
LEMMA RunIsSound ==
  ASSUME NEW k \in Tasks, Running(k), NEW t, t = Thread(k), Undisturbed(t)
  PROVE  /\ Sound(t, S(k)) /\ NodeSound(t, S(k), task[k].pc, task[k].approved, task[k].seen)
         /\ checkpoint[t] # None => Sound(t, checkpoint[t])
  BY DEF Undisturbed, RunSound, On

(* A failure is sane,                                                         *)
LEMMA FailSane ==
  ASSUME RunsInv, NEW k \in Tasks, NEW t \in Threads, t = Thread(k), Sound(t, S(k)),
         NEW next \in {"end"} \cup FreeNodes, Fails(k, next)
  PROVE  Sane(k, t)
<1>1. Failed(k) \in StateType /\ Sound(t, Failed(k)) /\ Goes(k, Failed(k), next)
  BY EasedStates, EasedSound DEF RunsInv, Fails, Failed
<1>2. next \in Ends
  BY FreeEnds DEF Ends
<1>3. next # "end" => NodeSound(t, Failed(k), next, task[k].approved, task[k].seen)
  BY FreeSound
<1>4. QED BY <1>1, <1>2, <1>3, GoSane

(* so is passing a node,                                                      *)
LEMMA PassSane ==
  ASSUME RunsInv, NEW k \in Tasks, NEW t \in Threads, t = Thread(k), Sound(t, S(k)),
         NEW st \in StateType, NEW next \in Ends, NEW node, Passes(k, node, st, next), Sound(t, st),
         next # "end" => NodeSound(t, st, next, task[k].approved, task[k].seen)
  PROVE  Sane(k, t)
<1>1. CASE Goes(k, st, next)
  BY <1>1, GoSane
<1>2. CASE Fails(k, "end")
  BY <1>2, FailSane
<1>3. QED BY <1>1, <1>2 DEF Passes

(* A state with another stage than those of a purchase order.                 *)
LEMMA StageSound ==
  ASSUME TypeOK, NEW k \in Tasks, NEW t, Sound(t, S(k)), NEW stage \in Stages \ {"po", "po_revalidation"},
         ~ Firm(t, S(k).po), NEW st, st = [S(k) EXCEPT !.stage = stage]
  PROVE  st \in StateType /\ Sound(t, st) /\ Asks(t, st) /\ st.po = S(k).po
<1>1. PICK s \in StateType : s = S(k)
  BY StateOf
<1>2. /\ st \in StateType /\ st.po = s.po /\ st.stage = stage /\ st.status = s.status
      /\ st.analysis = s.analysis
  BY <1>1 DEF StateType
<1>3. Asks(t, st)
  BY <1>2 DEF Asks
<1>4. QED BY <1>1, <1>2, <1>3 DEF Sound

(* asking for an approval,                                                    *)
LEMMA AskingSound ==
  ASSUME NEW t, NEW st, Asks(t, st), NEW stage, NEW seen
  PROVE  NodeSound(t, st, "request_approval", stage, seen)
  BY DEF NodeSound, QuotingNodes, OrderingNodes, Confirming

(* and a gate, open or not.                                                   *)
LEMMA GateSane ==
  ASSUME RunsInv, NEW k \in Tasks, NEW t \in Threads, t = Thread(k), Sound(t, S(k)),
         NEW stage \in QuotationStages, ~ Firm(t, S(k).po),
         NEW next \in QuotingNodes \ {"generate_quotation"}, Gate(k, S(k), stage, next)
  PROVE  Sane(k, t)
<1>1. CASE Goes(k, [S(k) EXCEPT !.stage = stage], "request_approval")
  <2>1. PICK st : st = [S(k) EXCEPT !.stage = stage]
    OBVIOUS
  <2>2. st \in StateType /\ Sound(t, st) /\ Asks(t, st)
    BY <2>1, NoStage, StageSound DEF RunsInv
  <2>3. "request_approval" \in Ends
    BY DEF Ends, Nodes
  <2>4. QED BY <1>1, <2>1, <2>2, <2>3, AskingSound, GoSane
<1>2. CASE Goes(k, [S(k) EXCEPT !.stage = None], next)
  <2>1. PICK st : st = [S(k) EXCEPT !.stage = None]
    OBVIOUS
  <2>2. st \in StateType /\ Eases(st, S(k))
    BY <2>1, EasedStates DEF RunsInv
  <2>3. Sound(t, st) /\ ~ Firm(t, st.po)
    BY <2>2, EasedSound DEF Eases
  <2>4. next \in Ends
    BY FreeEnds
  <2>5. QED BY <1>2, <2>1, <2>2, <2>3, <2>4, QuotingSound, GoSane
<1>3. QED BY <1>1, <1>2 DEF Gate

-----------------------------------------------------------------------------
(* Where an entry leads.                                                      *)
LEMMA CheckTriggerSane ==
  ASSUME RunsInv, NEW k \in Tasks, NEW t \in Threads, t = Thread(k), Undisturbed(t), CheckTrigger(k)
  PROVE  Sane(k, t)
<1>1. At(k, "check_trigger") /\ Running(k)
  BY DEF CheckTrigger, Passes, At, Running
<1>2. PICK node, stage, seen, trigger : /\ stage = task[k].approved /\ seen = task[k].seen
                                        /\ trigger = task[k].trigger /\ node = Entry(trigger, stage)
  OBVIOUS
<1>3. Sound(t, S(k)) /\ S(k) \in StateType /\ Entered(k) /\ RunKnown(k)
  BY <1>1, RunIsSound, RunFacts DEF Undisturbed, RunSound, On
<1>4. PICK st \in StateType : st = S(k)
  BY <1>3
<1>5. node \in Ends /\ NodeSound(t, st, node, stage, seen)
  <2>1. CASE trigger = "approved"
    <3>1. /\ st.stage = None /\ Resumes(t, st, stage, seen) /\ stage \in Stages
          /\ st.status # "blocked"
      BY <1>1, <1>2, <1>3, <1>4, <2>1 DEF Entered, RunKnown, At
    <3>2. CASE stage \in {"requirement", "qualification", "feasibility"}
      <4>1. ~ Firm(t, st.po) /\ node \in QuotingNodes \ {"generate_quotation"}
        BY <1>2, <2>1, <3>1, <3>2, EntryOfApproval DEF Resumes, QuotationStages, QuotingNodes
      <4>2. QED BY <4>1, QuotingSound, FreeEnds
    <3>3. CASE stage = "pricing"
      <4>1. ~ Firm(t, st.po) /\ node = "generate_quotation" /\ seen = st.price
        BY <1>2, <2>1, <3>1, <3>3, EntryOfApproval DEF Resumes, QuotationStages
      <4>2. QED BY <3>3, <4>1 DEF Ends, Nodes, NodeSound, OrderingNodes, Confirming
    <3>4. CASE stage = "negotiation"
      <4>1. node = "prepare_revised_quotation" /\ seen = st.analysis.price
        BY <1>2, <2>1, <3>1, <3>4, EntryOfApproval DEF Resumes
      <4>2. QED BY <3>4, <4>1 DEF Ends, Nodes, NodeSound, QuotingNodes, OrderingNodes, Confirming
    <3>5. CASE stage = "po"
      <4>1. /\ node = "revalidate_order_state" /\ Accepted(t, st) /\ ~ purchases[t][st.po].credit
            /\ ~ Firm(t, st.po) /\ st.status # "blocked"
        BY <1>2, <2>1, <3>1, <3>5, EntryOfApproval DEF Resumes
      <4>2. QED BY <4>1 DEF Ends, Nodes, NodeSound, QuotingNodes, OrderingNodes, Confirming
    <3>6. CASE stage = "po_revalidation"
      <4>1. node = "reserve_inventory" /\ Orderable(t, st)
        BY <1>2, <2>1, <3>1, <3>6, EntryOfApproval DEF Resumes, Orderable
      <4>2. node \in OrderingNodes \ {"allocate_rows"}
        BY <4>1 DEF OrderingNodes
      <4>3. QED BY <4>1, <4>2, OrderingSound, FreeEnds
    <3>7. QED BY <3>1, <3>2, <3>3, <3>4, <3>5, <3>6 DEF Stages
  <2>2. CASE trigger # "approved"
    <3>1. stage = None /\ trigger \in Triggers
      BY <1>1, <1>2, <1>3, <2>2 DEF RunKnown, At
    <3>2. CASE trigger \in {"inquiry", "retry_pricing"}
      <4>1. ~ Firm(t, st.po) /\ node \in QuotingNodes \ {"generate_quotation"}
        BY <1>2, <1>3, <1>4, <3>1, <3>2, EntryOfOther DEF Entered, QuotingNodes
      <4>2. QED BY <4>1, QuotingSound, FreeEnds
    <3>3. CASE trigger \in Replying
      <4>1. node \in FreeNodes
        BY <1>2, <3>1, <3>3, EntryOfOther DEF Replying, FreeNodes
      <4>2. QED BY <4>1, FreeSound, FreeEnds
    <3>4. QED BY <2>2, <3>1, <3>2, <3>3 DEF Triggers, Replying
  <2>3. QED BY <2>1, <2>2
<1>6. Passes(k, "check_trigger", st, node)
  BY <1>2, <1>4 DEF CheckTrigger
<1>7. QED BY <1>2, <1>3, <1>4, <1>5, <1>6, PassSane

(* A node passes on to the quotation,                                         *)
LEMMA PassToQuoting ==
  ASSUME RunsInv, NEW k \in Tasks, NEW t \in Threads, t = Thread(k), Sound(t, S(k)), ~ Firm(t, S(k).po),
         NEW st, st \in {S(k), WithStatus(k, "processing")},
         NEW next \in QuotingNodes \ {"generate_quotation"}, NEW node, Passes(k, node, st, next)
  PROVE  Sane(k, t)
<1>1. st \in StateType /\ Eases(st, S(k))
  BY EasedStates DEF RunsInv, Statuses
<1>2. Sound(t, st) /\ ~ Firm(t, st.po)
  BY <1>1, EasedSound DEF Eases
<1>3. QED BY <1>1, <1>2, QuotingSound, FreeEnds, PassSane

(* or to a node that needs nothing.                                           *)
LEMMA PassFreely ==
  ASSUME RunsInv, NEW k \in Tasks, NEW t \in Threads, t = Thread(k), Sound(t, S(k)),
         NEW st, st \in {S(k), WithStatus(k, "customer"), WithStatus(k, "processing")},
         NEW next \in {"end"} \cup FreeNodes, NEW node, Passes(k, node, st, next)
  PROVE  Sane(k, t)
<1>1. st \in StateType /\ Eases(st, S(k))
  BY EasedStates DEF RunsInv, Statuses
<1>2. Sound(t, st)
  BY <1>1, EasedSound
<1>3. next \in Ends
  BY FreeEnds DEF Ends
<1>4. QED BY <1>1, <1>2, <1>3, FreeSound, PassSane

(* From the inquiry to the price                                              *)
LEMMA QuotingSane ==
  ASSUME RunsInv, NEW k \in Tasks, NEW t \in Threads, t = Thread(k), Undisturbed(t),
         \/ NormalizeRequirement(k) \/ ExactProductCodeLookup(k) \/ StructuredSpecificationMatch(k)
         \/ MatchRequirement(k) \/ ResolveCustomerIdentity(k) \/ LoadCustomer360(k)
         \/ QualifyCustomer(k) \/ CheckFeasibility(k)
  PROVE  Sane(k, t)
<1>1. task[k].pc \in QuotingNodes /\ Running(k)
  BY DEF NormalizeRequirement, ExactProductCodeLookup, StructuredSpecificationMatch,
    MatchRequirement,
         ResolveCustomerIdentity, LoadCustomer360, QualifyCustomer, CheckFeasibility, Passes, At, QuotingNodes, Running
<1>2. Sound(t, S(k)) /\ ~ Firm(t, S(k).po)
  BY <1>1, RunIsSound DEF NodeSound
<1>3. CASE NormalizeRequirement(k)
  BY <1>2, <1>3, PassToQuoting DEF NormalizeRequirement, QuotingNodes
<1>4. CASE ExactProductCodeLookup(k)
  BY <1>2, <1>4, PassToQuoting DEF ExactProductCodeLookup, QuotingNodes
<1>5. CASE StructuredSpecificationMatch(k)
  <2>1. \/ Goes(k, S(k), "resolve_customer_identity")
        \/ Goes(k, [S(k) EXCEPT !.stage = "requirement"], "request_approval")
        \/ Fails(k, "end")
    BY <1>5 DEF StructuredSpecificationMatch
  <2>2. CASE Goes(k, S(k), "resolve_customer_identity")
    <3>1. "resolve_customer_identity" \in QuotingNodes \ {"generate_quotation"} /\ S(k) \in StateType
      BY StateOf DEF QuotingNodes, RunsInv
    <3>2. QED BY <1>2, <2>2, <3>1, QuotingSound, FreeEnds, GoSane
  <2>3. CASE Goes(k, [S(k) EXCEPT !.stage = "requirement"], "request_approval")
    <3>1. PICK st : st = [S(k) EXCEPT !.stage = "requirement"]
      OBVIOUS
    <3>2. st \in StateType /\ Sound(t, st) /\ Asks(t, st)
      BY <1>2, <3>1, StageSound DEF RunsInv, Stages
    <3>3. "request_approval" \in Ends
      BY DEF Ends, Nodes
    <3>4. QED BY <2>3, <3>1, <3>2, <3>3, AskingSound, GoSane
  <2>4. QED BY <1>2, <2>1, <2>2, <2>3, FailSane
<1>6. CASE MatchRequirement(k)
  BY <1>2, <1>6, GateSane, FailSane DEF MatchRequirement, QuotingNodes, QuotationStages
<1>7. CASE ResolveCustomerIdentity(k)
  BY <1>2, <1>7, PassToQuoting DEF ResolveCustomerIdentity, QuotingNodes
<1>8. CASE LoadCustomer360(k)
  BY <1>2, <1>8, PassToQuoting DEF LoadCustomer360, QuotingNodes
<1>9. CASE QualifyCustomer(k)
  BY <1>2, <1>9, GateSane, FailSane DEF QualifyCustomer, QuotingNodes, QuotationStages
<1>10. CASE CheckFeasibility(k)
  BY <1>2, <1>10, GateSane, FailSane DEF CheckFeasibility, QuotingNodes, QuotationStages
<1>11. QED BY <1>3, <1>4, <1>5, <1>6, <1>7, <1>8, <1>9, <1>10

(* The price is computed.                                                     *)
LEMMA ComputePricingSane ==
  ASSUME RunsInv, NEW k \in Tasks, NEW t \in Threads, t = Thread(k), Undisturbed(t), ComputePricing(k)
  PROVE  Sane(k, t)
<1>1. task[k].pc \in QuotingNodes /\ Running(k)
  BY DEF ComputePricing, At, QuotingNodes, Running
<1>2. Sound(t, S(k)) /\ ~ Firm(t, S(k).po)
  BY <1>1, RunIsSound DEF NodeSound
<1>3. PICK s \in StateType : s = S(k)
  BY StateOf DEF RunsInv
<1>4. ASSUME NEW p \in Prices,
             Goes(k, [S(k) EXCEPT !.price = p, !.stage = IF NeedsApproval(p) THEN "pricing" ELSE None],
                  IF NeedsApproval(p) THEN "request_approval" ELSE "generate_quotation")
      PROVE  Sane(k, t)
  <2>1. PICK st, next :
          /\ st = [s EXCEPT !.price = p, !.stage = IF NeedsApproval(p) THEN "pricing" ELSE None]
          /\ next = IF NeedsApproval(p) THEN "request_approval" ELSE "generate_quotation"
    OBVIOUS
  <2>2. st \in StateType
    BY <2>1, NoStage DEF StateType, PriceOrNot, Stages
  <2>3. st.po = s.po /\ st.status = s.status /\ st.analysis = s.analysis /\ st.price = p
    BY <2>1 DEF StateType
  <2>4. st.stage \in {None, "pricing"}
    BY <2>1 DEF StateType
  <2>5. Asks(t, st)
    BY <2>4, NoStage DEF Asks, Stages
  <2>6. Sound(t, st)
    BY <1>2, <1>3, <2>3, <2>5 DEF Sound
  <2>7. next = "request_approval" => NodeSound(t, st, next, task[k].approved, task[k].seen)
    BY <2>5, AskingSound
  <2>8. next = "generate_quotation" => p \notin Large
    BY <2>1 DEF NeedsApproval
  <2>9. next = "generate_quotation" => NodeSound(t, st, next, task[k].approved, task[k].seen)
    BY <1>2, <1>3, <2>3, <2>8 DEF NodeSound, OrderingNodes, Confirming
  <2>10. next \in {"request_approval", "generate_quotation"} /\ next \in Ends
    BY <2>1 DEF Ends, Nodes
  <2>11. Goes(k, st, next)
    BY <1>3, <1>4, <2>1
  <2>12. QED BY <2>2, <2>6, <2>7, <2>9, <2>10, <2>11, GoSane
<1>5. CASE Goes(k, [S(k) EXCEPT !.price = Impossible, !.status = "blocked", !.missing = TRUE, !.stage = None], "end")
  <2>1. PICK st : st = [s EXCEPT !.price = Impossible, !.status = "blocked", !.missing = TRUE, !.stage = None]
    OBVIOUS
  <2>2. /\ st \in StateType /\ st.po = s.po /\ st.status = "blocked" /\ st.analysis = s.analysis
    BY <2>1 DEF StateType, PriceOrNot, Statuses
  <2>3. Sound(t, st)
    BY <1>2, <1>3, <2>2 DEF Sound
  <2>4. "end" \in Ends
    BY DEF Ends
  <2>5. QED BY <1>3, <1>5, <2>1, <2>2, <2>3, <2>4, GoSane
<1>6. QED BY <1>2, <1>4, <1>5, FailSane DEF ComputePricing

(* Replies and reminders                                                      *)
LEMMA FreelySane ==
  ASSUME RunsInv, NEW k \in Tasks, NEW t \in Threads, t = Thread(k), Undisturbed(t),
         \/ SendInquiryFollowup(k) \/ ComposeReminder(k) \/ DispatchFollowup(k) \/ AnalyzeReply(k)
         \/ RecordCommercialAcceptance(k) \/ ComposePositiveResponse(k) \/ ComposeRejection(k)
         \/ ComposeObjectionResponse(k) \/ DispatchMessage(k) \/ SendPoCorrection(k)
  PROVE  Sane(k, t)
<1>1. Running(k)
  BY DEF SendInquiryFollowup, ComposeReminder, DispatchFollowup, AnalyzeReply,
         RecordCommercialAcceptance, ComposePositiveResponse, ComposeRejection, Acknowledges,
         ComposeObjectionResponse, DispatchMessage, SendPoCorrection, Passes, At, Running
<1>2. Sound(t, S(k)) /\ S(k) \in StateType
  BY <1>1, RunIsSound, StateOf DEF RunsInv
<1>3. /\ "dispatch_followup" \in FreeNodes /\ "dispatch_message" \in FreeNodes
      /\ {"evaluate_counteroffer", "compose_objection_response", "extract_po_fields",
          "record_commercial_acceptance", "compose_positive_response"} \subseteq FreeNodes
  BY DEF FreeNodes
<1>4. CASE SendInquiryFollowup(k)
  BY <1>2, <1>4, PassFreely DEF SendInquiryFollowup
<1>5. CASE ComposeReminder(k)
  <2>1. \/ Passes(k, "compose_reminder", S(k), "dispatch_followup") \/ Fails(k, "dispatch_followup")
    BY <1>5 DEF ComposeReminder, Passes
  <2>2. QED BY <1>2, <1>3, <2>1, PassFreely, FailSane
<1>6. CASE DispatchFollowup(k)
  BY <1>2, <1>6, PassFreely DEF DispatchFollowup
<1>7. CASE AnalyzeReply(k)
  <2>1. PICK next \in {"evaluate_counteroffer", "compose_objection_response", "extract_po_fields",
                       "record_commercial_acceptance", "compose_positive_response", "end"} :
          Passes(k, "analyze_reply", S(k), next)
    BY <1>7 DEF AnalyzeReply
  <2>2. next \in {"end"} \cup FreeNodes
    BY <1>3
  <2>3. QED BY <1>2, <2>1, <2>2, PassFreely
<1>8. CASE RecordCommercialAcceptance(k) \/ ComposePositiveResponse(k)
  <2>1. PICK node : Acknowledges(k, node)
    BY <1>8 DEF RecordCommercialAcceptance, ComposePositiveResponse
  <2>2. \/ Passes(k, node, WithStatus(k, "customer"), "dispatch_message") \/ Fails(k, "dispatch_message")
    BY <2>1 DEF Acknowledges, Passes
  <2>3. QED BY <1>2, <1>3, <2>2, PassFreely, FailSane
<1>9. CASE ComposeRejection(k)
  BY <1>2, <1>3, <1>9, PassFreely DEF ComposeRejection
<1>10. CASE ComposeObjectionResponse(k)
  BY <1>2, <1>3, <1>10, PassFreely DEF ComposeObjectionResponse
<1>11. CASE DispatchMessage(k)
  BY <1>2, <1>11, PassFreely DEF DispatchMessage
<1>12. CASE SendPoCorrection(k)
  BY <1>2, <1>12, PassFreely DEF SendPoCorrection
<1>13. QED BY <1>4, <1>5, <1>6, <1>7, <1>8, <1>9, <1>10, <1>11, <1>12

(* An offer the rules accept is not below the floor.                          *)
LEMMA AcceptedOffer ==
  ASSUME NEW offered \in Offers, NEW price, NEW overCredit,
         Decision(offered, price, overCredit) = "acceptable"
  PROVE  offered >= Floor /\ offered # None
<1>1. offered \in Nat /\ Floor \in Nat /\ offered # None
  BY ConstantsAssumption, NoneAssumption
<1>2. price \in Prices /\ (offered >= price \/ offered >= Floor)
  BY DEF Decision
<1>3. price \in Nat /\ Floor <= price
  BY <1>2, ConstantsAssumption
<1>4. QED BY <1>1, <1>2, <1>3

(* What a counteroffer is answered with.                                      *)
LEMMA DecisionIs ==
  ASSUME NEW offered, NEW price, NEW overCredit
  PROVE  Decision(offered, price, overCredit) \in {"acceptable", "needs_approval", "below_floor"}
  BY DEF Decision

(* A counteroffer is evaluated.                                               *)
LEMMA EvaluateSane ==
  ASSUME RunsInv, NEW k \in Tasks, NEW t \in Threads, t = Thread(k), Undisturbed(t), EvaluateCounteroffer(k)
  PROVE  Sane(k, t)
<1>1. Running(k)
  BY DEF EvaluateCounteroffer, At, Running
<1>2. Sound(t, S(k))
  BY <1>1, RunIsSound
<1>3. PICK s \in StateType : s = S(k)
  BY StateOf DEF RunsInv
<1>4. ASSUME NEW offered \in Offers, NEW overCredit \in BOOLEAN, NEW decision,
             decision = Decision(offered, S(k).price, overCredit),
             Goes(k, [S(k) EXCEPT
                        !.analysis = [price |-> offered, auto |-> decision = "acceptable"],
                        !.stage = IF decision = "acceptable" THEN None ELSE "negotiation",
                        !.status = "processing"],
                  CASE decision = "acceptable" -> "prepare_revised_quotation"
                    [] decision = "needs_approval" -> "request_approval"
                    [] decision = "below_floor" -> "compose_rejection")
      PROVE  Sane(k, t)
  <2>1. PICK st, next :
          /\ st = [s EXCEPT !.analysis = [price |-> offered, auto |-> decision = "acceptable"],
                            !.stage = IF decision = "acceptable" THEN None ELSE "negotiation",
                            !.status = "processing"]
          /\ next = CASE decision = "acceptable" -> "prepare_revised_quotation"
                      [] decision = "needs_approval" -> "request_approval"
                      [] decision = "below_floor" -> "compose_rejection"
    OBVIOUS
  <2>2. decision \in {"acceptable", "needs_approval", "below_floor"}
    BY <1>4, DecisionIs
  <2>3. st \in StateType /\ st.po = s.po /\ st.quote = s.quote /\ st.status = "processing"
    BY <2>1, NoStage DEF StateType, Statuses
  <2>4. /\ st.analysis.price = offered /\ st.analysis.auto = (decision = "acceptable")
        /\ st.stage = IF decision = "acceptable" THEN None ELSE "negotiation"
    BY <2>1 DEF StateType
  <2>5. st.stage \notin QuotationStages \cup {"po", "po_revalidation"}
    BY <2>4, NoStage DEF Stages
  <2>6. decision = "acceptable" => offered # None /\ offered >= Floor
    <3>1. PICK price : price = S(k).price
      OBVIOUS
    <3>2. decision = Decision(offered, price, overCredit)
      BY <1>4, <3>1
    <3>3. QED BY <3>2, AcceptedOffer
  <2>7. Sound(t, st)
    BY <1>2, <1>3, <2>3, <2>4, <2>5, <2>6 DEF Sound, Agreed
  <2>8. Asks(t, st)
    BY <2>5 DEF Asks
  <2>9. CASE decision = "acceptable"
    <3>1. next = "prepare_revised_quotation" /\ next \in Ends /\ st.analysis.auto
      BY <2>1, <2>4, <2>9 DEF Ends, Nodes
    <3>2. NodeSound(t, st, next, task[k].approved, task[k].seen)
      BY <3>1 DEF NodeSound, QuotingNodes, OrderingNodes, Confirming
    <3>3. QED BY <1>3, <1>4, <2>1, <2>3, <2>7, <3>1, <3>2, GoSane
  <2>10. CASE decision = "needs_approval"
    <3>1. next = "request_approval" /\ next \in Ends
      BY <2>1, <2>10 DEF Ends, Nodes
    <3>2. QED BY <1>3, <1>4, <2>1, <2>3, <2>7, <2>8, <3>1, AskingSound, GoSane
  <2>11. CASE decision = "below_floor"
    <3>1. next = "compose_rejection" /\ next \in Ends /\ next \in FreeNodes
      BY <2>1, <2>11 DEF Ends, Nodes, FreeNodes
    <3>2. QED BY <1>3, <1>4, <2>1, <2>3, <2>7, <3>1, FreeSound, GoSane
  <2>12. QED BY <2>2, <2>9, <2>10, <2>11
<1>5. QED BY <1>2, <1>4, FailSane DEF EvaluateCounteroffer

(* The ends of an order and of a request for approval                         *)
LEMMA ClosingSane ==
  ASSUME RunsInv, NEW k \in Tasks, NEW t \in Threads, t = Thread(k), Undisturbed(t),
         BuildHandoffPackages(k) \/ FinalizeAudit(k) \/ RequestApproval(k)
  PROVE  Sane(k, t)
<1>1. Running(k)
  BY DEF BuildHandoffPackages, FinalizeAudit, RequestApproval, Passes, At, Running
<1>2. Sound(t, S(k)) /\ NodeSound(t, S(k), task[k].pc, task[k].approved, task[k].seen)
  BY <1>1, RunIsSound
<1>3. PICK s \in StateType : s = S(k)
  BY StateOf DEF RunsInv
<1>4. CASE BuildHandoffPackages(k)
  <2>1. task[k].pc \in Confirming
    BY <1>4 DEF BuildHandoffPackages, Passes, At, Confirming
  <2>2. Last(t, s.po)
    BY <1>2, <1>3, <2>1 DEF NodeSound
  <2>3. PICK st : st = WithStatus(k, "processing")
    OBVIOUS
  <2>4. st \in StateType /\ Eases(st, s)
    BY <1>3, <2>3, EasedStates DEF RunsInv, Statuses
  <2>5. Sound(t, st) /\ st.po = s.po
    BY <1>2, <1>3, <2>4, EasedSound DEF Eases
  <2>6. NodeSound(t, st, "dispatch_handoff", task[k].approved, task[k].seen) /\ "dispatch_handoff" \in Ends
    BY <2>2, <2>5 DEF NodeSound, QuotingNodes, OrderingNodes, Ends, Nodes
  <2>7. QED BY <1>2, <1>4, <2>3, <2>4, <2>5, <2>6, PassSane DEF BuildHandoffPackages
<1>5. CASE FinalizeAudit(k)
  <2>1. task[k].pc = "finalize_audit" /\ "finalize_audit" \in Confirming
    BY <1>5 DEF FinalizeAudit, Passes, At, Confirming
  <2>2. Last(t, s.po) /\ Marked(t, s.po)
    BY <1>2, <1>3, <2>1 DEF NodeSound
  <2>3. PICK st : st = [s EXCEPT !.status = "handed_off"]
    OBVIOUS
  <2>4. /\ st \in StateType /\ st.po = s.po /\ st.quote = s.quote /\ st.status = "handed_off"
        /\ st.stage = s.stage /\ st.analysis = s.analysis
    BY <2>3 DEF StateType, Statuses
  <2>5. \E i \in DOMAIN handoffs[t] : handoffs[t][i].marked /\ handoffs[t][i].po = orders[t][Len(orders[t])]
    BY <2>2 DEF Last, Marked
  <2>6. Sound(t, st)
    BY <1>2, <1>3, <2>4, <2>5 DEF Sound, Agreed
  <2>7. "end" \in Ends
    BY DEF Ends
  <2>8. QED BY <1>2, <1>3, <1>5, <2>3, <2>4, <2>6, <2>7, PassSane DEF FinalizeAudit, WithStatus
<1>6. CASE RequestApproval(k)
  <2>1. task[k].pc = "request_approval"
    BY <1>6 DEF RequestApproval, Passes, At
  <2>2. Asks(t, s)
    BY <1>2, <1>3, <2>1 DEF NodeSound
  <2>3. PICK st : st = [s EXCEPT !.status = "awaiting_approval"]
    OBVIOUS
  <2>4. /\ st \in StateType /\ st.po = s.po /\ st.quote = s.quote /\ st.status = "awaiting_approval"
        /\ st.stage = s.stage /\ st.analysis = s.analysis
    BY <2>3 DEF StateType, Statuses
  <2>5. Asks(t, st)
    BY <2>2, <2>4 DEF Asks, Accepted, Agreed
  <2>6. Sound(t, st)
    BY <1>2, <1>3, <2>4, <2>5 DEF Sound, Agreed
  <2>7. "end" \in Ends
    BY DEF Ends
  <2>8. QED BY <1>2, <1>3, <1>6, <2>3, <2>4, <2>6, <2>7, PassSane DEF RequestApproval, WithStatus
<1>7. QED BY <1>4, <1>5, <1>6

(* The nodes that write no document keep their conversation.                  *)
LEMMA QuietKeeps ==
  ASSUME RunsInv, NEW k \in Tasks, NEW t \in Threads, t = Thread(k), Undisturbed(t), QuietNode(k)
  PROVE  Undisturbed(t)'
<1>1. Sane(k, t)
  BY CheckTriggerSane, QuotingSane, ComputePricingSane, FreelySane, EvaluateSane, ClosingSane
     DEF QuietNode
<1>2. UNCHANGED documents
  BY QuietIsQuiet DEF Quiet
<1>3. QED BY <1>1, <1>2, SaneKeeps

-----------------------------------------------------------------------------
(* Nodes that write documents, in an undisturbed conversation                 *)

(* The papers of a conversation agree part by part.                           *)
LEMMA PapersParts ==
  ASSUME NEW t, Papers(t)
  PROVE  /\ UNCHANGED reserved => HeldOnce(t)'
         /\ UNCHANGED quotes => QuotesApproved(t)'
         /\ UNCHANGED revised => RevisionsAuthorised(t)'
         /\ UNCHANGED <<purchases, orders>> => OrdersApproved(t)'
         /\ UNCHANGED <<purchases, reserved>> => HeldCleared(t)'
<1>1. ASSUME UNCHANGED reserved PROVE HeldOnce(t)'
  BY <1>1 DEF Papers, HeldOnce, Held
<1>2. ASSUME UNCHANGED quotes PROVE QuotesApproved(t)'
  BY <1>2 DEF Papers, QuotesApproved
<1>3. ASSUME UNCHANGED revised PROVE RevisionsAuthorised(t)'
  BY <1>3 DEF Papers, RevisionsAuthorised
<1>4. ASSUME UNCHANGED <<purchases, orders>> PROVE OrdersApproved(t)'
  BY <1>4 DEF Papers, OrdersApproved
<1>5. ASSUME UNCHANGED <<purchases, reserved>> PROVE HeldCleared(t)'
  BY <1>5 DEF Papers, HeldCleared, Cleared
<1>6. QED BY <1>1, <1>2, <1>3, <1>4, <1>5

(* What a run may go on with that has made no order,                          *)
LEMMA UnorderedSound ==
  ASSUME NEW t, NEW s, NEW st, Sound(t, s), st.analysis = s.analysis, ~ Firm(t, st.po)',
         st.status \notin {"awaiting_approval", "blocked", "handed_off"}
  PROVE  Sound(t, st)'
  BY DEF Sound

(* and that others do not make it for it.                                     *)
LEMMA OrderedStays ==
  ASSUME NEW t, orders'[t] = orders[t], UNCHANGED reserved
  PROVE  /\ \A po : Ordered(t, po)' <=> Ordered(t, po)
         /\ \A po : Firm(t, po)' <=> Firm(t, po)
  BY DEF Ordered, Firm, Held

(* A state stays sound when the documents it names keep their prices.         *)
LEMMA SoundGrows ==
  ASSUME NEW t, NEW s, Agreed(t, s) => Agreed(t, s)', orders'[t] = orders[t], UNCHANGED reserved,
         Asks(t, s) /\ s.status = "awaiting_approval" => Asks(t, s)',
         \A i \in DOMAIN handoffs[t] : /\ i \in DOMAIN handoffs'[t]
                                       /\ handoffs'[t][i].po = handoffs[t][i].po
                                       /\ handoffs[t][i].marked => handoffs'[t][i].marked,
         Sound(t, s)
  PROVE  Sound(t, s)'
<1>1. Firm(t, s.po)' <=> Firm(t, s.po)
  BY OrderedStays
<1>2. s.status = "handed_off" =>
        \E i \in DOMAIN handoffs'[t] :
          handoffs'[t][i].marked /\ handoffs'[t][i].po = orders'[t][Len(orders'[t])]
  BY DEF Sound
<1>3. QED BY <1>1, <1>2 DEF Sound

(* What was asked for stays asked for.                                        *)
LEMMA AsksGrows ==
  ASSUME NEW t, NEW s, Agreed(t, s) => Agreed(t, s)', orders'[t] = orders[t], purchases'[t] = purchases[t],
         UNCHANGED reserved
  PROVE  /\ Asks(t, s) => Asks(t, s)'
         /\ Accepted(t, s) => Accepted(t, s)'
<1>1. (Ordered(t, s.po)' <=> Ordered(t, s.po)) /\ (Firm(t, s.po)' <=> Firm(t, s.po))
  BY OrderedStays
<1>2. QED BY <1>1 DEF Asks, Accepted

-----------------------------------------------------------------------------
(* Nodes that write the lead only, or nothing                                 *)
LEMMA ExtractInquiryKeeps ==
  ASSUME RunsInv, NEW k \in Tasks, NEW t \in Threads, t = Thread(k), Undisturbed(t), ExtractInquiry(k)
  PROVE  Undisturbed(t)'
<1>1. task[k].pc \in QuotingNodes /\ Running(k) /\ UNCHANGED documents
  BY DEF ExtractInquiry, At, QuotingNodes, Running
<1>2. Sound(t, S(k)) /\ ~ Firm(t, S(k).po)
  BY <1>1, RunIsSound DEF NodeSound
<1>3. PICK st : st = WithStatus(k, "processing")
  OBVIOUS
<1>4. st \in StateType /\ Sound(t, st) /\ ~ Firm(t, st.po)
  BY <1>2, <1>3, EasedStates, EasedSound DEF RunsInv, Statuses, Eases
<1>5. CASE Goes(k, st, "send_inquiry_followup")
  <2>1. "send_inquiry_followup" \in FreeNodes
    BY DEF FreeNodes
  <2>2. QED BY <1>1, <1>4, <1>5, <2>1, FreeSound, FreeEnds, GoSane, SaneKeeps
<1>6. CASE Goes(k, st, "normalize_requirement")
  <2>1. "normalize_requirement" \in QuotingNodes \ {"generate_quotation"}
    BY DEF QuotingNodes
  <2>2. QED BY <1>1, <1>4, <1>6, <2>1, QuotingSound, FreeEnds, GoSane, SaneKeeps
<1>7. CASE Fails(k, "end")
  BY <1>1, <1>2, <1>7, FailSane, SaneKeeps
<1>8. QED BY <1>3, <1>5, <1>6, <1>7 DEF ExtractInquiry

(* A run that orders                                                          *)
LEMMA OrderingRun ==
  ASSUME RunsInv, NEW k \in Tasks, NEW t \in Threads, t = Thread(k), Undisturbed(t), task[k].pc \in OrderingNodes
  PROVE  Running(k) /\ Sound(t, S(k)) /\ Orderable(t, S(k))
<1>1. Running(k)
  BY DEF OrderingNodes, Running
<1>2. QED BY <1>1, RunIsSound DEF NodeSound

(* Looking for stock keeps the conversation,                                  *)
LEMMA ReserveInventoryKeeps ==
  ASSUME RunsInv, NEW k \in Tasks, NEW t \in Threads, t = Thread(k), Undisturbed(t), ReserveInventory(k)
  PROVE  Undisturbed(t)'
<1>1. task[k].pc \in OrderingNodes /\ UNCHANGED documents
  BY DEF ReserveInventory, At, OrderingNodes, Quiet
<1>2. Running(k) /\ Sound(t, S(k)) /\ Orderable(t, S(k)) /\ S(k) \in StateType
  BY <1>1, OrderingRun, StateOf DEF RunsInv
<1>3. CASE Goes(k, S(k), "mark_order_won")
  <2>1. "mark_order_won" \in OrderingNodes \ {"allocate_rows"}
    BY DEF OrderingNodes
  <2>2. QED BY <1>1, <1>2, <1>3, <2>1, OrderingSound, FreeEnds, GoSane, SaneKeeps
<1>4. CASE /\ ~ AlreadyReserved(Thread(k), S(k).po)
           /\ task' = [task EXCEPT ![k].pc = "allocate_rows"]
           /\ UNCHANGED <<checkpoint, closed, crm, counters>>
  <2>1. Held(t, S(k).po) = {}
    BY <1>4 DEF AlreadyReserved
  <2>2. NodeSound(t, S(k), "allocate_rows", task[k].approved, task[k].seen)
    BY <1>2, <2>1 DEF NodeSound, QuotingNodes, Confirming
  <2>3. "allocate_rows" \in Nodes /\ "allocate_rows" \in Ends
    BY DEF Nodes, Ends
  <2>4. Moves(k, checkpoint[t], S(k), "allocate_rows")
    BY <1>2, <1>4, <2>3, ControlMoves
  <2>5. checkpoint[t] \in StateType /\ Sound(t, checkpoint[t])
    BY <1>2, RunFacts, RunIsSound
  <2>6. Sane(k, t)
    BY <1>2, <2>2, <2>3, <2>4, <2>5 DEF Sane
  <2>7. QED BY <1>1, <2>6, SaneKeeps
<1>5. CASE Fails(k, "end")
  BY <1>1, <1>2, <1>5, FailSane, SaneKeeps
<1>6. QED BY <1>3, <1>4, <1>5 DEF ReserveInventory

(* also when its state is eased;                                              *)
LEMMA EasedOrderable ==
  ASSUME NEW t, NEW s, NEW st, Orderable(t, s), Eases(st, s)
  PROVE  Orderable(t, st)
  BY DEF Orderable, Eases, Accepted, Agreed

(* so does the mark of the order as won.                                      *)
LEMMA MarkOrderWonKeeps ==
  ASSUME RunsInv, NEW k \in Tasks, NEW t \in Threads, t = Thread(k), Undisturbed(t), MarkOrderWon(k)
  PROVE  Undisturbed(t)'
<1>1. task[k].pc \in OrderingNodes /\ UNCHANGED documents
  BY DEF MarkOrderWon, At, OrderingNodes
<1>2. Running(k) /\ Sound(t, S(k)) /\ Orderable(t, S(k))
  BY <1>1, OrderingRun
<1>3. CASE Goes(k, WithStatus(k, "processing"), "create_sales_order")
  <2>1. "create_sales_order" \in OrderingNodes \ {"allocate_rows"}
    BY DEF OrderingNodes
  <2>2. PICK st : st = WithStatus(k, "processing")
    OBVIOUS
  <2>3. st \in StateType /\ Sound(t, st) /\ Orderable(t, st)
    BY <1>2, <2>2, EasedStates, EasedSound, EasedOrderable DEF RunsInv, Statuses
  <2>4. QED BY <1>1, <1>3, <2>1, <2>2, <2>3, OrderingSound, FreeEnds, GoSane, SaneKeeps
<1>4. CASE Fails(k, "end")
  BY <1>1, <1>2, <1>4, FailSane, SaneKeeps
<1>5. QED BY <1>3, <1>4 DEF MarkOrderWon

-----------------------------------------------------------------------------
(* A quotation                                                                *)
LEMMA GenerateQuotationKeeps ==
  ASSUME BaseInv, NEW k \in Tasks, NEW t \in Threads, t = Thread(k), Undisturbed(t), GenerateQuotation(k)
  PROVE  Undisturbed(t)'
<1>0. /\ RunsInv /\ quotes \in [Threads -> Seq(QuoteType)]
      /\ UNCHANGED <<revised, purchases, orders, reserved, handoffs, lead>>
  BY DEF BaseInv, RunsInv, TypeOK, GenerateQuotation
<1>1. task[k].pc = "generate_quotation" /\ task[k].pc \in QuotingNodes /\ Running(k)
  BY DEF GenerateQuotation, At, QuotingNodes, Running
<1>2. /\ Sound(t, S(k)) /\ ~ Firm(t, S(k).po)
      /\ S(k).price \in Large => task[k].approved = "pricing" /\ task[k].seen = S(k).price
  BY <1>1, RunIsSound DEF NodeSound
<1>3. \A po : Firm(t, po)' <=> Firm(t, po)
  BY <1>0, OrderedStays
<1>4. Papers(t)'
  <2>1. CASE UNCHANGED quotes
    BY <1>0, <2>1, PapersParts DEF Undisturbed, Papers
  <2>2. CASE quotes' = [quotes EXCEPT ![t] = Append(@,
               [price |-> S(k).price, sends |-> 0, delivery |-> "none",
                approved |-> task[k].approved = "pricing" /\ task[k].seen = S(k).price])]
    <3>1. PICK q : q = [price |-> S(k).price, sends |-> 0, delivery |-> "none",
                        approved |-> task[k].approved = "pricing" /\ task[k].seen = S(k).price]
      OBVIOUS
    <3>2. q \in QuoteType
      <4>1. S(k) \in StateType
        BY <1>0, StateOf DEF RunsInv
      <4>2. QED BY <3>1, <4>1 DEF QuoteType, StateType
    <3>3. q.price \in Large => q.approved
      BY <1>2, <3>1
    <3>4. quotes' = [quotes EXCEPT ![t] = Append(@, q)]
      BY <2>2, <3>1
    <3>5. /\ DOMAIN quotes[t] = 1 .. Len(quotes[t]) /\ DOMAIN quotes'[t] = 1 .. Len(quotes'[t])
          /\ Len(quotes[t]) \in Nat /\ Len(quotes'[t]) = Len(quotes[t]) + 1
          /\ \A i \in DOMAIN quotes[t] : quotes'[t][i] = quotes[t][i]
          /\ quotes'[t][Len(quotes[t]) + 1] = q
      BY <1>0, <3>2, <3>4, Appended
    <3>6. \A i \in DOMAIN quotes'[t] : i \in DOMAIN quotes[t] \/ i = Len(quotes[t]) + 1
      BY <3>5
    <3>7. QuotesApproved(t)'
      BY <3>3, <3>5, <3>6 DEF QuotesApproved, Undisturbed, Papers
    <3>8. QED BY <1>0, <3>7, PapersParts DEF Undisturbed, Papers
  <2>3. QED BY <2>1, <2>2 DEF GenerateQuotation
<1>5. "dispatch_quotation" \in FreeNodes /\ "dispatch_quotation" \in Ends
  BY DEF FreeNodes, Ends, Nodes
<1>6. CASE Fails(k, "dispatch_quotation")
  <2>1. PICK st : st = Failed(k)
    OBVIOUS
  <2>2. /\ st \in StateType /\ st.analysis = S(k).analysis /\ st.po = S(k).po /\ st.status = "failed"
        /\ Goes(k, st, "dispatch_quotation")
    BY <1>0, <1>6, <2>1, EasedStates DEF RunsInv, Eases, Fails, Failed
  <2>3. Sound(t, st)'
    BY <1>2, <1>3, <2>2, UnorderedSound
  <2>4. QED BY <1>0, <1>4, <1>5, <2>2, <2>3, FreeSound, GoKeeps
<1>7. CASE Goes(k, [S(k) EXCEPT !.quote = Len(quotes[t]) + 1, !.offer = S(k).price,
                                !.status = "processing"], "dispatch_quotation")
  <2>1. PICK s \in StateType : s = S(k)
    BY <1>0, StateOf DEF RunsInv
  <2>2. PICK st : st = [s EXCEPT !.quote = Len(quotes[t]) + 1, !.offer = s.price, !.status = "processing"]
    OBVIOUS
  <2>3. Len(quotes[t]) + 1 \in Nat
    BY <1>0
  <2>4. st \in StateType /\ st.po = s.po /\ st.analysis = s.analysis /\ st.status = "processing"
    BY <2>2, <2>3 DEF StateType, Statuses
  <2>5. Sound(t, st)'
    BY <1>2, <1>3, <2>1, <2>4, UnorderedSound
  <2>6. QED BY <1>0, <1>4, <1>5, <1>7, <2>1, <2>2, <2>4, <2>5, FreeSound, GoKeeps
<1>8. QED BY <1>6, <1>7 DEF GenerateQuotation

(* The delivery of a quotation changes neither its price nor its approval.    *)
LEMMA DeliveredKeeps ==
  ASSUME RunsInv, NEW k \in Tasks, Running(k), NEW t \in Threads, t = Thread(k), S(k).quote # 0,
         NEW delivery, NEW sent, Delivered(k, delivery, sent)
  PROVE  /\ DOMAIN quotes'[t] = DOMAIN quotes[t] /\ DOMAIN quotes[t] = 1 .. Len(quotes[t])
         /\ \A i \in DOMAIN quotes[t] : /\ quotes'[t][i].price = quotes[t][i].price
                                         /\ quotes'[t][i].approved = quotes[t][i].approved
<1>1. PICK n : n = S(k).quote
  OBVIOUS
<1>2. quotes \in [Threads -> Seq(QuoteType)] /\ n \in 0 .. Len(quotes[t]) /\ n # 0
  BY <1>1, RunFacts DEF RunsInv, TypeOK, Known
<1>3. n \in DOMAIN quotes[t]
  BY <1>2
<1>4. PICK q \in QuoteType : q = quotes[t][n]
  BY <1>2, <1>3
<1>5. PICK new : new = [q EXCEPT !.delivery = delivery, !.sends = q.sends + sent]
  OBVIOUS
<1>6. new.price = q.price /\ new.approved = q.approved
  BY <1>5 DEF QuoteType
<1>7. quotes' = [quotes EXCEPT ![t][n] = new]
  BY <1>1, <1>4, <1>5 DEF Delivered
<1>8. PICK e : e = [quotes[t] EXCEPT ![n] = new]
  OBVIOUS
<1>9. quotes' = [quotes EXCEPT ![t] = e]
  BY <1>7, <1>8
<1>10. quotes'[t] = e
  BY <1>2, <1>9
<1>11. DOMAIN e = DOMAIN quotes[t] /\ \A i \in DOMAIN quotes[t] : e[i] = IF i = n THEN new ELSE quotes[t][i]
  BY <1>8
<1>12. QED BY <1>2, <1>4, <1>6, <1>10, <1>11

(* A delivery keeps the papers.                                               *)
LEMMA DeliveredPapers ==
  ASSUME RunsInv, NEW k \in Tasks, Running(k), NEW t \in Threads, t = Thread(k), S(k).quote # 0,
         NEW delivery, NEW sent, Delivered(k, delivery, sent), Papers(t),
         UNCHANGED <<revised, purchases, orders, reserved, handoffs, lead>>
  PROVE  /\ Papers(t)'
         /\ \A s \in StateType : Known(t, s) /\ Sound(t, s) => Sound(t, s)'
<1>1. /\ DOMAIN quotes'[t] = DOMAIN quotes[t] /\ DOMAIN quotes[t] = 1 .. Len(quotes[t])
      /\ \A i \in DOMAIN quotes[t] : /\ quotes'[t][i].price = quotes[t][i].price
                                      /\ quotes'[t][i].approved = quotes[t][i].approved
  BY DeliveredKeeps
<1>2. QuotesApproved(t)'
  BY <1>1 DEF QuotesApproved, Papers
<1>3. Papers(t)'
  BY <1>2, PapersParts DEF Papers
<1>4. ASSUME NEW s \in StateType, Known(t, s), Sound(t, s) PROVE Sound(t, s)'
  <2>1. Agreed(t, s) => Agreed(t, s)'
    <3>1. s.quote \in 0 .. Len(quotes[t])
      BY <1>4 DEF Known
    <3>2. s.quote # 0 => s.quote \in DOMAIN quotes[t]
      BY <1>1, <3>1
    <3>3. QED BY <1>1, <3>2 DEF Agreed
  <2>2. Asks(t, s) => Asks(t, s)'
    BY <2>1, AsksGrows
  <2>3. QED BY <1>4, <2>1, <2>2, SoundGrows
<1>5. QED BY <1>3, <1>4

(* So do the sending of a quotation                                           *)
LEMMA DispatchQuotationKeeps ==
  ASSUME BaseInv, NEW k \in Tasks, NEW t \in Threads, t = Thread(k), Undisturbed(t), DispatchQuotation(k)
  PROVE  Undisturbed(t)'
<1>0. RunsInv /\ UNCHANGED <<revised, purchases, orders, reserved, handoffs, lead>> /\ Running(k)
  BY DEF BaseInv, DispatchQuotation, At, Running
<1>1. Sound(t, S(k)) /\ S(k) \in StateType /\ Known(t, S(k))
  BY <1>0, RunIsSound, RunFacts
<1>2. CASE Fails(k, "end") /\ UNCHANGED quotes
  <2>1. UNCHANGED documents
    BY <1>0, <1>2 DEF documents
  <2>2. QED BY <1>0, <1>1, <1>2, <2>1, FailSane, SaneKeeps
<1>3. CASE Goes(k, AwaitReply(k), "end") /\ UNCHANGED quotes
  <2>1. UNCHANGED documents
    BY <1>0, <1>3 DEF documents
  <2>2. PICK st : st = AwaitReply(k)
    OBVIOUS
  <2>3. st \in StateType /\ Sound(t, st) /\ "end" \in Ends
    BY <1>0, <1>1, <2>2, EasedStates, EasedSound DEF RunsInv, Ends
  <2>4. QED BY <1>0, <1>3, <2>1, <2>2, <2>3, GoSane, SaneKeeps
<1>4. CASE /\ S(k).quote # 0 /\ Delivered(k, "sending", 0)
           /\ task' = [task EXCEPT ![k].pc = "send_quotation"]
           /\ UNCHANGED <<checkpoint, closed, crm, counters>>
  <2>1. "send_quotation" \in Nodes /\ "send_quotation" \in Ends /\ "send_quotation" \in FreeNodes
    BY DEF Nodes, Ends, FreeNodes
  <2>2. PICK c, st : c = checkpoint[t] /\ st = S(k)
    OBVIOUS
  <2>3. Moves(k, c, st, "send_quotation")
    BY <1>0, <1>4, <2>1, <2>2, ControlMoves
  <2>4. c \in StateType /\ Sound(t, c) /\ Known(t, c)
    BY <1>0, <2>2, RunFacts, RunIsSound
  <2>5. Papers(t)' /\ Sound(t, c)' /\ Sound(t, st)'
    BY <1>0, <1>1, <1>4, <2>2, <2>4, DeliveredPapers DEF Undisturbed
  <2>6. QED BY <1>0, <1>1, <2>1, <2>2, <2>3, <2>4, <2>5, FreeSound, RunKeeps
<1>5. QED BY <1>2, <1>3, <1>4 DEF DispatchQuotation

(* and its first way.                                                         *)
LEMMA SendQuotationKeeps ==
  ASSUME BaseInv, NEW k \in Tasks, NEW t \in Threads, t = Thread(k), Undisturbed(t), SendQuotation(k)
  PROVE  Undisturbed(t)'
<1>0. RunsInv /\ UNCHANGED <<revised, purchases, orders, reserved, handoffs, lead>> /\ Running(k)
      /\ task[k].pc = "send_quotation"
  BY DEF BaseInv, SendQuotation, At, Running
<1>1. Sound(t, S(k)) /\ S(k) \in StateType /\ Known(t, S(k)) /\ S(k).quote # 0
  BY <1>0, RunIsSound, RunFacts DEF Documented
<1>2. PICK s : s = S(k)
  OBVIOUS
<1>3. Papers(t)' /\ Sound(t, s)'
  BY <1>0, <1>1, <1>2, DeliveredPapers DEF SendQuotation, Undisturbed
<1>4. Goes(k, AwaitReply(k), "end") \/ Goes(k, Failed(k), "end")
  BY DEF SendQuotation, Fails, Failed
<1>5. ASSUME NEW st, st \in {AwaitReply(k), Failed(k)}, Goes(k, st, "end")
      PROVE  Undisturbed(t)'
  <2>1. st \in StateType /\ Eases(st, s) /\ "end" \in Ends
    BY <1>0, <1>2, <1>5, EasedStates DEF RunsInv, Ends
  <2>2. Sound(t, st)'
    BY <1>3, <2>1, EasedSound
  <2>3. QED BY <1>0, <1>3, <1>5, <2>1, <2>2, GoKeeps
<1>6. QED BY <1>4, <1>5

(* A revision                                                                 *)
LEMMA PrepareRevisedQuotationKeeps ==
  ASSUME BaseInv, NEW k \in Tasks, NEW t \in Threads, t = Thread(k), Undisturbed(t),
         PrepareRevisedQuotation(k)
  PROVE  Undisturbed(t)'
<1>0. RunsInv /\ UNCHANGED <<quotes, purchases, orders, reserved, handoffs, lead>> /\ Running(k)
      /\ task[k].pc = "prepare_revised_quotation"
      /\ revised \in [Threads -> SUBSET [price : Offers, auto : BOOLEAN, approved : BOOLEAN]]
  BY DEF BaseInv, RunsInv, TypeOK, PrepareRevisedQuotation, At, Running
<1>1. /\ Sound(t, S(k)) /\ S(k) \in StateType
      /\ S(k).analysis.auto \/ (task[k].approved = "negotiation" /\ task[k].seen = S(k).analysis.price)
  BY <1>0, RunIsSound, RunFacts DEF NodeSound
<1>2. PICK s \in StateType : s = S(k)
  BY <1>1
<1>3. Sound(t, s)'
  <2>1. Agreed(t, s) => Agreed(t, s)'
    BY <1>0 DEF Agreed
  <2>2. QED BY <1>0, <1>1, <1>2, <2>1, AsksGrows, SoundGrows
<1>4. PICK v : v = [price |-> s.analysis.price, auto |-> s.analysis.auto,
                    approved |-> task[k].approved = "negotiation" /\ task[k].seen = s.analysis.price]
  OBVIOUS
<1>5. (v.auto \/ v.approved) /\ (v.auto => v.price >= Floor) /\ s.analysis.price \in Offers \cup {None}
  BY <1>1, <1>2, <1>4 DEF Sound, StateType
<1>6. Papers(t)'
  <2>1. CASE UNCHANGED revised
    BY <1>0, <2>1, PapersParts DEF Undisturbed, Papers
  <2>2. CASE s.analysis.price # None /\ revised' = [revised EXCEPT ![t] = @ \cup {v}]
    <3>1. revised'[t] = revised[t] \cup {v}
      BY <1>0, <2>2
    <3>2. v.price \in Nat /\ Floor \in Nat
      BY <1>4, <1>5, <2>2, ConstantsAssumption
    <3>3. v.price < Floor => v.approved
      BY <1>5, <3>2
    <3>4. RevisionsAuthorised(t)'
      BY <1>5, <3>1, <3>3 DEF RevisionsAuthorised, Undisturbed, Papers
    <3>5. QED BY <1>0, <3>4, PapersParts DEF Undisturbed, Papers
  <2>3. QED BY <1>2, <1>4, <2>1, <2>2 DEF PrepareRevisedQuotation
<1>7. CASE Fails(k, "end")
  <2>1. PICK st : st = Failed(k)
    OBVIOUS
  <2>2. st \in StateType /\ Eases(st, s) /\ Goes(k, st, "end") /\ "end" \in Ends
    BY <1>0, <1>2, <1>7, <2>1, EasedStates DEF RunsInv, Ends, Fails, Failed
  <2>3. Sound(t, st)'
    BY <1>3, <2>2, EasedSound
  <2>4. QED BY <1>0, <1>6, <2>2, <2>3, GoKeeps
<1>8. CASE s.analysis.price # None /\ Goes(k, [S(k) EXCEPT !.offer = s.analysis.price], "dispatch_message")
  <2>1. PICK st : st = [s EXCEPT !.offer = s.analysis.price]
    OBVIOUS
  <2>2. st \in StateType /\ Eases(st, s)
    BY <1>5, <1>8, <2>1 DEF StateType, Eases
  <2>3. Sound(t, st)'
    BY <1>3, <2>2, EasedSound
  <2>4. "dispatch_message" \in FreeNodes /\ "dispatch_message" \in Ends
    BY DEF FreeNodes, Ends, Nodes
  <2>5. QED BY <1>0, <1>2, <1>6, <1>8, <2>1, <2>2, <2>3, <2>4, FreeSound, GoKeeps
<1>9. QED BY <1>2, <1>7, <1>8 DEF PrepareRevisedQuotation

(* The purchase orders of orders exist.                                       *)
LEMMA OrderedExists ==
  ASSUME DocumentsAgree, NEW t \in Threads, NEW po, Firm(t, po)
  PROVE  po \in DOMAIN purchases[t]
<1>1. CASE Ordered(t, po)
  BY <1>1 DEF DocumentsAgree, Ordered
<1>2. CASE Held(t, po) # {}
  BY <1>2 DEF DocumentsAgree, Held
<1>3. QED BY <1>1, <1>2 DEF Firm

(* Orders stay approved when the purchase orders they are of do.              *)
LEMMA OrdersStayApproved ==
  ASSUME DocumentsAgree, NEW t \in Threads, OrdersApproved(t), orders'[t] = orders[t],
         \A po : Firm(t, po) => purchases'[t][po] = purchases[t][po]
  PROVE  OrdersApproved(t)'
<1>1. \A i \in DOMAIN orders[t] : purchases'[t][orders[t][i]] = purchases[t][orders[t][i]]
  BY DEF Firm, Ordered
<1>2. QED BY <1>1 DEF OrdersApproved

(* So does what is held.                                                      *)
LEMMA HeldStaysCleared ==
  ASSUME NEW t \in Threads, HeldCleared(t), UNCHANGED reserved,
         \A po : Firm(t, po) => purchases'[t][po] = purchases[t][po]
  PROVE  HeldCleared(t)'
<1>1. SUFFICES ASSUME NEW r \in reserved, r.thread = t PROVE Cleared(purchases'[t][r.po])
  BY DEF HeldCleared, Cleared
<1>2. Firm(t, r.po)
  BY <1>1 DEF Firm, Held
<1>3. QED BY <1>1, <1>2 DEF HeldCleared

(* A purchase order that is read is one nobody ordered from.                  *)
LEMMA ExtractPoFieldsKeeps ==
  ASSUME BaseInv, NEW k \in Tasks, NEW t \in Threads, t = Thread(k), Undisturbed(t), ExtractPoFields(k)
  PROVE  Undisturbed(t)'
<1>0. /\ RunsInv /\ DocumentsAgree /\ UNCHANGED <<quotes, revised, orders, reserved, handoffs, lead>>
      /\ Running(k) /\ purchases \in [Threads -> Seq(PurchaseType)]
  BY DEF BaseInv, RunsInv, TypeOK, ExtractPoFields, At, Running
<1>1. Sound(t, S(k)) /\ S(k) \in StateType /\ Known(t, S(k)) /\ QuotedPrice(t, S(k)) \in PriceOrNot
  BY <1>0, RunIsSound, RunFacts, QuotedPriceTyped
<1>2. PICK s \in StateType : s = S(k)
  BY <1>1
<1>3. PICK n : n = Len(purchases[t]) + 1
  OBVIOUS
<1>4. /\ n \in Nat /\ n # 0 /\ n \notin DOMAIN purchases[t] /\ DOMAIN purchases[t] = 1 .. Len(purchases[t])
      /\ \A i \in DOMAIN purchases[t] : purchases'[t][i] = purchases[t][i]
      /\ ~ UNCHANGED purchases => purchases'[t][n].verdict = "new" /\ ~ purchases'[t][n].credit
  <2>1. CASE UNCHANGED purchases
    BY <1>0, <1>3, <2>1
  <2>2. ASSUME NEW p \in {QuotedPrice(t, S(k)), S(k).offer},
               purchases' = [purchases EXCEPT ![t] = Append(@,
                 [price |-> p, verdict |-> "new", credit |-> FALSE, granted |-> {}])]
        PROVE  /\ n \in Nat /\ n # 0 /\ n \notin DOMAIN purchases[t] /\ DOMAIN purchases[t] = 1 .. Len(purchases[t])
               /\ \A i \in DOMAIN purchases[t] : purchases'[t][i] = purchases[t][i]
               /\ purchases'[t][n].verdict = "new" /\ ~ purchases'[t][n].credit
    <3>1. PICK e : e = [price |-> p, verdict |-> "new", credit |-> FALSE, granted |-> {}]
      OBVIOUS
    <3>2. e \in PurchaseType /\ e.verdict = "new" /\ ~ e.credit
      BY <1>1, <1>2, <3>1 DEF PurchaseType, StateType
    <3>3. purchases' = [purchases EXCEPT ![t] = Append(@, e)]
      BY <2>2, <3>1
    <3>4. QED BY <1>0, <1>3, <3>2, <3>3, Appended
  <2>3. QED BY <2>1, <2>2 DEF ExtractPoFields
<1>5. ~ Firm(t, n) /\ \A po : Firm(t, po)' <=> Firm(t, po)
  BY <1>0, <1>4, OrderedExists, OrderedStays
<1>6. Papers(t)'
  <2>1. OrdersApproved(t)'
    BY <1>0, <1>4, OrderedExists, OrdersStayApproved DEF Undisturbed, Papers
  <2>2. HeldCleared(t)'
    BY <1>0, <1>4, OrderedExists, HeldStaysCleared DEF Undisturbed, Papers
  <2>3. QED BY <1>0, <2>1, <2>2, PapersParts DEF Undisturbed, Papers
<1>7. "validate_po" \in Ends
  BY DEF Ends, Nodes
<1>8. CASE Fails(k, "validate_po")
  <2>1. PICK st : st = Failed(k)
    OBVIOUS
  <2>2. /\ st \in StateType /\ Eases(st, s) /\ st.status = "failed" /\ st.error
        /\ Goes(k, st, "validate_po")
    BY <1>0, <1>2, <1>8, <2>1, EasedStates DEF RunsInv, Fails, Failed
  <2>3. Sound(t, st) /\ st.po \in 0 .. Len(purchases[t])
    BY <1>1, <1>2, <2>2, EasedSound DEF Eases, Known
  <2>4. Agreed(t, st) => Agreed(t, st)'
    <3>1. st.po # 0 => st.po \in DOMAIN purchases[t]
      BY <1>4, <2>3
    <3>2. QED BY <1>0, <1>4, <3>1 DEF Agreed
  <2>5. Sound(t, st)'
    BY <1>0, <2>2, <2>3, <2>4, SoundGrows
  <2>6. \A stage, seen : NodeSound(t, st, "validate_po", stage, seen)'
    BY <2>2 DEF NodeSound, Compared, QuotingNodes, OrderingNodes, Confirming
  <2>7. QED BY <1>0, <1>6, <1>7, <2>2, <2>5, <2>6, GoKeeps
<1>9. CASE ~ UNCHANGED purchases /\ Goes(k, [S(k) EXCEPT !.po = n, !.status = "processing"], "validate_po")
  <2>1. PICK st : st = [s EXCEPT !.po = n, !.status = "processing"]
    OBVIOUS
  <2>2. st \in StateType /\ st.po = n /\ st.analysis = s.analysis /\ st.status = "processing"
    BY <1>4, <2>1 DEF StateType, Statuses
  <2>3. Sound(t, st)'
    BY <1>1, <1>2, <1>5, <2>2, UnorderedSound
  <2>4. \A stage, seen : NodeSound(t, st, "validate_po", stage, seen)'
    BY <1>4, <1>5, <1>9, <2>2 DEF NodeSound, Compared, QuotingNodes, OrderingNodes, Confirming
  <2>5. QED BY <1>0, <1>2, <1>6, <1>7, <1>9, <2>1, <2>2, <2>3, <2>4, GoKeeps
<1>10. Fails(k, "validate_po") \/
         (~ UNCHANGED purchases /\ Goes(k, [S(k) EXCEPT !.po = n, !.status = "processing"], "validate_po"))
  <2>1. CASE Fails(k, "validate_po")
    BY <2>1
  <2>2. CASE ~ Fails(k, "validate_po")
    <3>1. /\ Goes(k, [S(k) EXCEPT !.po = n, !.status = "processing"], "validate_po")
          /\ \E p : purchases' = [purchases EXCEPT ![t] = Append(@,
                 [price |-> p, verdict |-> "new", credit |-> FALSE, granted |-> {}])]
      BY <1>3, <2>2 DEF ExtractPoFields
    <3>2. purchases'[t] # purchases[t]
      BY <1>0, <3>1
    <3>3. QED BY <3>1, <3>2
  <2>3. QED BY <2>1, <2>2
<1>11. QED BY <1>8, <1>9, <1>10

(* A comparison changes the verdict only, and not of what is held or ordered. *)
LEMMA ComparedPurchase ==
  ASSUME BaseInv, NEW k \in Tasks, Running(k), NEW t \in Threads, t = Thread(k), Undisturbed(t),
         NEW v, Compares(k, v), UNCHANGED <<quotes, revised, orders, reserved, handoffs, lead>>,
         NEW s, s = S(k)
  PROVE  /\ s.po \in DOMAIN purchases[t] /\ s.po # 0 /\ s.quote # 0
         /\ v \in {"ok", "review", "price", "other"}
         /\ v \in Verdicts(purchases[t][s.po], quotes[t][s.quote].price)
         /\ DOMAIN purchases'[t] = DOMAIN purchases[t]
         /\ purchases'[t][s.po].verdict = v
         /\ purchases'[t][s.po].price = purchases[t][s.po].price
         /\ purchases'[t][s.po].credit = purchases[t][s.po].credit
         /\ purchases'[t][s.po].granted = purchases[t][s.po].granted
         /\ \A i \in DOMAIN purchases[t] : i # s.po => purchases'[t][i] = purchases[t][i]
         /\ \A po : Firm(t, po) => purchases'[t][po] = purchases[t][po]
<1>0. RunsInv /\ DocumentsAgree /\ purchases \in [Threads -> Seq(PurchaseType)] /\ Sound(t, s)
  BY RunIsSound DEF BaseInv, RunsInv, TypeOK
<1>1. /\ s.po # 0 /\ s.quote # 0 /\ s.po \in DOMAIN purchases[t] /\ purchases[t][s.po] \in PurchaseType
      /\ purchases' = [purchases EXCEPT ![t][s.po].verdict = v]
      /\ v \in {"ok", "review", "price", "other"}
      /\ v \in Verdicts(purchases[t][s.po], quotes[t][s.quote].price)
  BY <1>0, ComparedTyped DEF Compares, QuotedPrice
<1>2. PICK p \in PurchaseType : p = purchases[t][s.po]
  BY <1>1
<1>3. PICK new : new = [p EXCEPT !.verdict = v]
  OBVIOUS
<1>4. new.price = p.price /\ new.verdict = v /\ new.credit = p.credit /\ new.granted = p.granted
  BY <1>3 DEF PurchaseType
<1>5. /\ DOMAIN purchases'[t] = DOMAIN purchases[t] /\ purchases'[t][s.po] = new
      /\ \A i \in DOMAIN purchases[t] : i # s.po => purchases'[t][i] = purchases[t][i]
  <2>1. PICK e : e = [purchases[t] EXCEPT ![s.po] = new]
    OBVIOUS
  <2>2. purchases' = [purchases EXCEPT ![t] = e]
    BY <1>1, <1>2, <1>3, <2>1
  <2>3. purchases'[t] = e
    BY <1>0, <2>2
  <2>4. QED BY <1>1, <2>1, <2>3
<1>6. \A po : Firm(t, po) => purchases'[t][po] = purchases[t][po]
  <2>1. ASSUME Firm(t, s.po) PROVE purchases'[t][s.po] = p
    <3>1. p.price = quotes[t][s.quote].price
      BY <1>0, <1>2, <2>1 DEF Sound, Agreed
    <3>2. p.verdict \in {"ok", "review"}
      <4>1. CASE Ordered(t, s.po)
        BY <1>2, <4>1 DEF Undisturbed, Papers, OrdersApproved, Ordered
      <4>2. CASE Held(t, s.po) # {}
        BY <1>2, <4>2 DEF Undisturbed, Papers, HeldCleared, Cleared, Held
      <4>3. QED BY <2>1, <4>1, <4>2 DEF Firm
    <3>3. v = p.verdict
      BY <1>1, <1>2, <3>1, <3>2 DEF Verdicts
    <3>4. QED BY <1>3, <1>5, <3>3 DEF PurchaseType
  <2>2. QED BY <1>0, <1>2, <1>5, <2>1, OrderedExists
<1>7. QED BY <1>1, <1>2, <1>4, <1>5, <1>6

(* A purchase order gets its verdict.                                         *)
LEMMA ValidatePoKeeps ==
  ASSUME BaseInv, NEW k \in Tasks, NEW t \in Threads, t = Thread(k), Undisturbed(t), ValidatePo(k)
  PROVE  Undisturbed(t)'
<1>0. /\ RunsInv /\ DocumentsAgree /\ UNCHANGED <<quotes, revised, orders, reserved, handoffs, lead>>
      /\ Running(k) /\ purchases \in [Threads -> Seq(PurchaseType)] /\ task[k].pc = "validate_po"
  BY ValidatePoCases DEF BaseInv, RunsInv, TypeOK, At, Running
<1>1. Sound(t, S(k)) /\ S(k) \in StateType /\ Known(t, S(k)) /\ Compared(t, S(k))
  BY <1>0, RunIsSound, RunFacts DEF NodeSound
<1>2. PICK s \in StateType : s = S(k)
  BY <1>1
<1>3. CASE UNCHANGED purchases /\ Goes(k, [S(k) EXCEPT !.stage = None], "end")
  <2>1. UNCHANGED documents /\ "end" \in Ends
    BY <1>0, <1>3 DEF documents, Ends
  <2>2. PICK st : st = [S(k) EXCEPT !.stage = None]
    OBVIOUS
  <2>3. st \in StateType /\ Sound(t, st)
    BY <1>0, <1>1, <2>2, EasedStates, EasedSound DEF RunsInv
  <2>4. QED BY <1>0, <1>3, <2>1, <2>2, <2>3, GoSane, SaneKeeps
<1>4. CASE Fails(k, "end") /\ UNCHANGED purchases
  <2>1. UNCHANGED documents
    BY <1>0, <1>4 DEF documents
  <2>2. QED BY <1>0, <1>1, <1>4, <2>1, FailSane, SaneKeeps
<1>5. ASSUME NEW v, Compares(k, v) PROVE Undisturbed(t)'
  <2>1. /\ s.po # 0 /\ s.quote # 0 /\ s.po \in DOMAIN purchases[t] /\ purchases[t][s.po] \in PurchaseType
        /\ purchases' = [purchases EXCEPT ![t][s.po].verdict = v]
        /\ v \in {"ok", "review", "price", "other"}
        /\ AfterVerdict(k, v) \in Ends
        /\ Goes(k, [s EXCEPT !.stage = IF v = "review" THEN "po" ELSE None], AfterVerdict(k, v))
        /\ v \in Verdicts(purchases[t][s.po], quotes[t][s.quote].price)
    BY <1>0, <1>2, <1>5, ComparedTyped DEF Compares, QuotedPrice, Ends, Nodes
  <2>2. PICK p \in PurchaseType : p = purchases[t][s.po]
    BY <2>1
  <2>3. PICK new : new = purchases'[t][s.po]
    OBVIOUS
  <2>4. new.price = p.price /\ new.verdict = v /\ new.credit = p.credit /\ new.granted = p.granted
    BY <1>0, <1>2, <1>5, <2>2, <2>3, ComparedPurchase
  <2>5. /\ DOMAIN purchases'[t] = DOMAIN purchases[t] /\ purchases'[t][s.po] = new
        /\ \A i \in DOMAIN purchases[t] : i # s.po => purchases'[t][i] = purchases[t][i]
    BY <1>0, <1>2, <1>5, <2>3, ComparedPurchase
  <2>6. \A po : Firm(t, po)' <=> Firm(t, po)
    BY <1>0, OrderedStays
  <2>7. PICK st : st = [s EXCEPT !.stage = IF v = "review" THEN "po" ELSE None]
    OBVIOUS
  <2>8. /\ st \in StateType /\ st.po = s.po /\ st.quote = s.quote /\ st.status = s.status
        /\ st.analysis = s.analysis /\ st.stage = IF v = "review" THEN "po" ELSE None
    BY <2>7, NoStage DEF StateType
  <2>9. st.stage \notin QuotationStages
    BY <2>8, NoStage
  <2>10. Agreed(t, s) => Agreed(t, st)'
    BY <1>0, <2>2, <2>4, <2>5, <2>8 DEF Agreed
  <2>11. s.status \notin {"awaiting_approval", "blocked", "handed_off"}
    BY <1>1, <1>2 DEF Compared
  <2>12. Sound(t, st)'
    BY <1>1, <1>2, <2>6, <2>8, <2>9, <2>10, <2>11 DEF Sound
  <2>13. \A po : Firm(t, po) => purchases'[t][po] = purchases[t][po]
    BY <1>0, <1>2, <1>5, ComparedPurchase
  <2>14. Papers(t)'
    <3>1. OrdersApproved(t)'
      BY <1>0, <2>13, OrdersStayApproved DEF Undisturbed, Papers
    <3>2. HeldCleared(t)'
      BY <1>0, <2>13, HeldStaysCleared DEF Undisturbed, Papers
    <3>3. QED BY <1>0, <3>1, <3>2, PapersParts DEF Undisturbed, Papers
  <2>15. CASE s.error
    <3>1. AfterVerdict(k, v) = "end"
      BY <1>2, <2>15 DEF AfterVerdict
    <3>2. QED BY <1>0, <2>1, <2>7, <2>8, <2>12, <2>14, <3>1, GoKeeps
  <2>16. CASE ~ s.error
    <3>1. ~ Firm(t, s.po) /\ p.verdict = "new" /\ ~ p.credit
      BY <1>1, <1>2, <2>2, <2>16 DEF Compared
    <3>2. v # "price" => p.price = quotes[t][s.quote].price
      BY <2>1, <2>2 DEF Verdicts
    <3>3. v # "price" => Agreed(t, s)
      BY <2>1, <2>2, <3>2 DEF Agreed
    <3>4. CASE v \in {"price", "other"}
      <4>1. AfterVerdict(k, v) = "send_po_correction" /\ "send_po_correction" \in FreeNodes
        BY <1>2, <2>16, <3>4 DEF AfterVerdict, FreeNodes
      <4>2. QED BY <1>0, <2>1, <2>7, <2>8, <2>12, <2>14, <4>1, FreeSound, GoKeeps
    <3>5. CASE v = "review"
      <4>1. AfterVerdict(k, v) = "request_approval"
        BY <1>2, <2>16, <3>5 DEF AfterVerdict
      <4>2. Agreed(t, st)' /\ ~ Firm(t, st.po)' /\ st.stage = "po"
            /\ purchases'[t][st.po].verdict = "review" /\ ~ purchases'[t][st.po].credit
        BY <2>4, <2>5, <2>6, <2>8, <2>10, <3>1, <3>3, <3>5
      <4>3. Asks(t, st)'
        BY <4>2 DEF Asks
      <4>4. \A stage, seen : NodeSound(t, st, "request_approval", stage, seen)'
        BY <4>3 DEF NodeSound, QuotingNodes, OrderingNodes, Confirming
      <4>5. QED BY <1>0, <2>1, <2>7, <2>8, <2>12, <2>14, <4>1, <4>4, GoKeeps
    <3>6. CASE v = "ok"
      <4>1. AfterVerdict(k, v) = "revalidate_order_state"
        BY <1>2, <2>16, <3>6 DEF AfterVerdict
      <4>2. Agreed(t, st)' /\ ~ Firm(t, st.po)'
            /\ purchases'[t][st.po].verdict = "ok" /\ ~ purchases'[t][st.po].credit
        BY <2>4, <2>5, <2>6, <2>8, <2>10, <3>1, <3>3, <3>6
      <4>3. \A stage, seen : NodeSound(t, st, "revalidate_order_state", stage, seen)'
        BY <2>8, <2>11, <4>2 DEF NodeSound, Accepted, Firm, QuotingNodes, OrderingNodes, Confirming
      <4>4. QED BY <1>0, <2>1, <2>7, <2>8, <2>12, <2>14, <4>1, <4>3, GoKeeps
    <3>7. QED BY <2>1, <3>4, <3>5, <3>6
  <2>17. QED BY <2>15, <2>16
<1>6. QED BY <1>3, <1>4, <1>5, ValidatePoCases

(* The order is validated again.                                              *)
LEMMA RevalidateKeeps ==
  ASSUME BaseInv, NEW k \in Tasks, NEW t \in Threads, t = Thread(k), Undisturbed(t), RevalidateOrderState(k)
  PROVE  Undisturbed(t)'
<1>0. /\ RunsInv /\ DocumentsAgree /\ UNCHANGED <<quotes, revised, orders, reserved, handoffs, lead>>
      /\ Running(k) /\ task[k].pc = "revalidate_order_state"
  BY RevalidateCases DEF BaseInv, At, Running
<1>1. /\ Sound(t, S(k)) /\ S(k) \in StateType /\ Accepted(t, S(k)) /\ ~ purchases[t][S(k).po].credit
      /\ ~ Firm(t, S(k).po) /\ S(k).status # "blocked"
  BY <1>0, RunIsSound, RunFacts DEF NodeSound
<1>2. PICK s \in StateType : s = S(k)
  BY <1>1
<1>3. CASE Fails(k, "end") /\ UNCHANGED purchases
  <2>1. UNCHANGED documents
    BY <1>0, <1>3 DEF documents
  <2>2. QED BY <1>0, <1>1, <1>3, <2>1, FailSane, SaneKeeps
<1>4. ASSUME NEW st, NEW next, Goes(k, st, next), PassesAgain(k, st, next)
      PROVE  Undisturbed(t)'
  <2>1. /\ st \in StateType /\ st.po = s.po /\ st.quote = s.quote /\ st.analysis = s.analysis
        /\ st.stage = None /\ st.status = s.status /\ next = "reserve_inventory"
    BY <1>0, <1>2, <1>4, RevalidatedState DEF PassesAgain
  <2>2. UNCHANGED documents
    BY <1>0, <1>4 DEF PassesAgain, documents
  <2>3. Sound(t, st)
    BY <1>1, <1>2, <2>1, EasedSound DEF Eases
  <2>4. Orderable(t, st)
    BY <1>1, <1>2, <2>1 DEF Orderable, Accepted, Agreed
  <2>5. next \in OrderingNodes \ {"allocate_rows"}
    BY <2>1 DEF OrderingNodes
  <2>6. QED BY <1>0, <1>4, <2>1, <2>2, <2>3, <2>4, <2>5, OrderingSound, FreeEnds, GoSane, SaneKeeps
<1>5. ASSUME NEW st, NEW next, Goes(k, st, next), CorrectsAgain(k, st, next)
      PROVE  Undisturbed(t)'
  <2>1. /\ st \in StateType /\ st.po = s.po /\ st.quote = s.quote /\ st.analysis = s.analysis
        /\ st.stage = None /\ st.status = "customer" /\ next = "send_po_correction"
    BY <1>0, <1>2, <1>5, RevalidatedState DEF CorrectsAgain
  <2>2. UNCHANGED documents
    BY <1>0, <1>5 DEF CorrectsAgain, documents
  <2>3. Sound(t, st)
    BY <1>1, <1>2, <2>1, EasedSound DEF Eases
  <2>4. next \in FreeNodes
    BY <2>1 DEF FreeNodes
  <2>5. QED BY <1>0, <1>5, <2>1, <2>2, <2>3, <2>4, FreeSound, FreeEnds, GoSane, SaneKeeps
<1>6. ASSUME NEW st, NEW next, Goes(k, st, next), AsksAgain(k, st, next)
      PROVE  Undisturbed(t)'
  <2>1. /\ st \in StateType /\ st.po = s.po /\ st.quote = s.quote /\ st.analysis = s.analysis
        /\ next = "request_approval" /\ st.stage = "po_revalidation" /\ st.status \in {s.status, "blocked"}
    BY <1>0, <1>2, <1>6, RevalidatedState DEF AsksAgain
  <2>2. /\ \A i \in DOMAIN purchases[t] :
             /\ purchases'[t][i].price = purchases[t][i].price
             /\ purchases'[t][i].verdict = purchases[t][i].verdict
             /\ purchases'[t][i].granted = purchases[t][i].granted
             /\ i # s.po => purchases'[t][i] = purchases[t][i]
    BY <1>0, <1>2, <1>6, CreditTyped
  <2>3. Agreed(t, s) /\ ~ Firm(t, s.po) /\ s.po \in DOMAIN purchases[t]
    <3>1. s.po \in 0 .. Len(purchases[t]) /\ purchases[t] \in Seq(PurchaseType)
      BY <1>0, <1>2, RunFacts DEF Known, RunsInv, TypeOK
    <3>2. QED BY <1>1, <1>2, <3>1 DEF Accepted, Agreed
  <2>4. \A po : (Ordered(t, po)' <=> Ordered(t, po)) /\ (Firm(t, po)' <=> Firm(t, po))
    BY <1>0, OrderedStays
  <2>5. Accepted(t, st)'
    BY <1>0, <1>1, <1>2, <2>1, <2>2, <2>3, <2>4 DEF Accepted, Agreed, Firm
  <2>6. Asks(t, st)'
    BY <2>1, <2>3, <2>4, <2>5, NoStage DEF Asks
  <2>7. Sound(t, st)'
    BY <1>0, <1>1, <1>2, <2>1, <2>3, <2>4, <2>6 DEF Sound
  <2>8. Papers(t)'
    <3>1. \A po : Firm(t, po) => purchases'[t][po] = purchases[t][po]
      BY <1>0, <2>2, <2>3, OrderedExists
    <3>2. OrdersApproved(t)'
      BY <1>0, <3>1, OrdersStayApproved DEF Undisturbed, Papers
    <3>3. HeldCleared(t)'
      BY <1>0, <3>1, HeldStaysCleared DEF Undisturbed, Papers
    <3>4. QED BY <1>0, <3>2, <3>3, PapersParts DEF Undisturbed, Papers
  <2>9. \A stage, seen : NodeSound(t, st, "request_approval", stage, seen)'
    BY <2>6 DEF NodeSound, QuotingNodes, OrderingNodes, Confirming
  <2>10. next \in Ends
    BY <2>1 DEF Ends, Nodes
  <2>11. QED BY <1>0, <1>6, <2>1, <2>7, <2>8, <2>9, <2>10, GoKeeps
<1>7. QED BY <1>3, <1>4, <1>5, <1>6, RevalidateCases

(* Rows are reserved: once for a purchase order.                              *)
LEMMA AllocateRowsKeeps ==
  ASSUME BaseInv, IsFiniteSet(reserved), NEW k \in Tasks, NEW t \in Threads, t = Thread(k), Undisturbed(t),
         AllocateRows(k)
  PROVE  Undisturbed(t)'
<1>0. /\ RunsInv /\ TypeOK /\ UNCHANGED <<quotes, revised, purchases, orders, handoffs, lead>>
      /\ task[k].pc = "allocate_rows" /\ task[k].pc \in OrderingNodes
  BY AllocateRowsCases DEF BaseInv, RunsInv, At, OrderingNodes
<1>1. /\ Running(k) /\ Sound(t, S(k)) /\ Orderable(t, S(k)) /\ S(k) \in StateType
      /\ Held(t, S(k).po) = {}
  BY <1>0, OrderingRun, RunIsSound, StateOf DEF NodeSound
<1>2. PICK s \in StateType : s = S(k)
  BY <1>1
<1>3. Papers(t)'
  <2>1. CASE UNCHANGED reserved
    BY <1>0, <2>1, PapersParts DEF Undisturbed, Papers
  <2>2. ASSUME NEW a, Reserves(k, a) PROVE Papers(t)'
    <3>1. PICK po \in Nat : po = S(k).po
      BY <1>1 DEF StateType
    <3>2. /\ Total(Held(t, po)') = Total(Held(t, po)) + Quantity
          /\ \A p \in Nat : p # po => Held(t, p)' = Held(t, p)
      BY <1>0, <2>2, <3>1, ReservesTotals
    <3>3. Total(Held(t, po)) = 0
      BY <1>1, <3>1, TotalIs, NoQuantities
    <3>4. Total(Held(t, po)') = Quantity
      BY <3>2, <3>3, ConstantsAssumption
    <3>5. \A p \in Nat : Held(t, p)' # {} => Total(Held(t, p)') = Quantity
      BY <3>2, <3>4 DEF Undisturbed, Papers, HeldOnce
    <3>6. HeldOnce(t)'
      BY <3>5 DEF HeldOnce, Total
    <3>7. HeldCleared(t)'
      <4>1. Cleared(purchases[t][po])
        BY <1>1, <3>1 DEF Orderable, Accepted, Cleared
      <4>2. \A r \in reserved' : r \in reserved \/ r.po = po
        BY <1>0, <2>2, <3>1 DEF Reserves, Reservations
      <4>3. QED BY <1>0, <4>1, <4>2 DEF Undisturbed, Papers, HeldCleared, Cleared
    <3>8. QED BY <1>0, <3>6, <3>7, PapersParts DEF Undisturbed, Papers
  <2>3. QED BY <2>1, <2>2, AllocateRowsCases
<1>4. Sound(t, s)' /\ Orderable(t, s)'
  <2>1. /\ Agreed(t, s)' /\ s.stage = None /\ s.status # "blocked" /\ s.stage \notin QuotationStages
        /\ s.stage \notin {"po", "po_revalidation"}
    BY <1>0, <1>1, <1>2, NoStage DEF Orderable, Accepted, Agreed
  <2>2. Sound(t, s)'
    BY <1>0, <1>1, <1>2, <2>1 DEF Sound, Asks
  <2>3. Accepted(t, s)'
    BY <1>0, <1>1, <1>2, <2>1 DEF Orderable, Accepted, Ordered
  <2>4. QED BY <1>0, <1>1, <1>2, <2>2, <2>3 DEF Orderable
<1>5. CASE Goes(k, S(k), "mark_order_won")
  <2>1. "mark_order_won" \in OrderingNodes \ {"allocate_rows"}
    BY DEF OrderingNodes
  <2>2. QED BY <1>0, <1>2, <1>3, <1>4, <1>5, <2>1, OrderingSound, FreeEnds, GoKeeps
<1>6. CASE Fails(k, "end")
  <2>1. PICK st : st = Failed(k)
    OBVIOUS
  <2>2. st \in StateType /\ Eases(st, s) /\ Goes(k, st, "end") /\ "end" \in Ends
    BY <1>0, <1>2, <1>6, <2>1, EasedStates DEF Ends, Fails, Failed
  <2>3. Sound(t, st)'
    BY <1>4, <2>2, EasedSound
  <2>4. QED BY <1>0, <1>3, <2>2, <2>3, GoKeeps
<1>7. QED BY <1>5, <1>6, AllocateRowsCases

(* The order of a purchase order is made once, and when it was approved.      *)
LEMMA CreateSalesOrderKeeps ==
  ASSUME BaseInv, NEW k \in Tasks, NEW t \in Threads, t = Thread(k), Undisturbed(t), CreateSalesOrder(k)
  PROVE  Undisturbed(t)'
<1>0. /\ RunsInv /\ orders \in [Threads -> Seq(Nat)]
      /\ UNCHANGED <<quotes, revised, purchases, reserved, handoffs, lead>> /\ task[k].pc \in OrderingNodes
  BY DEF BaseInv, RunsInv, TypeOK, CreateSalesOrder, At, OrderingNodes
<1>1. Running(k) /\ Sound(t, S(k)) /\ Orderable(t, S(k)) /\ S(k) \in StateType
  BY <1>0, OrderingRun, StateOf DEF RunsInv
<1>2. PICK s \in StateType : s = S(k)
  BY <1>1
<1>3. CASE UNCHANGED orders /\ Fails(k, "end")
  <2>1. UNCHANGED documents
    BY <1>0, <1>3 DEF documents
  <2>2. QED BY <1>0, <1>1, <1>3, <2>1, FailSane, SaneKeeps
<1>4. CASE /\ orders' = [orders EXCEPT ![t] = Append(@, s.po)]
           /\ Goes(k, WithStatus(k, "processing"), "build_handoff_packages") \/ Fails(k, "end")
  <2>1. PICK po \in Nat : po = s.po
    BY DEF StateType
  <2>2. /\ DOMAIN orders[t] = 1 .. Len(orders[t]) /\ DOMAIN orders'[t] = 1 .. Len(orders'[t])
        /\ Len(orders[t]) \in Nat /\ Len(orders'[t]) = Len(orders[t]) + 1
        /\ \A i \in DOMAIN orders[t] : orders'[t][i] = orders[t][i]
        /\ orders'[t][Len(orders[t]) + 1] = po
    BY <1>0, <1>4, <2>1, Appended
  <2>3. \A i \in DOMAIN orders'[t] : i \in DOMAIN orders[t] \/ i = Len(orders[t]) + 1
    BY <2>2
  <2>4. /\ Accepted(t, s) /\ s.stage = None /\ ~ Ordered(t, po)
        /\ purchases[t][po].credit => "po_revalidation" \in purchases[t][po].granted
    BY <1>1, <1>2, <2>1 DEF Orderable, Accepted
  <2>5. Papers(t)'
    <3>1. \A i \in DOMAIN orders'[t] :
            LET p == purchases[t][orders'[t][i]]
            IN /\ p.verdict \in {"ok", "review"}
               /\ p.verdict = "review" => "po" \in p.granted
               /\ p.credit => "po_revalidation" \in p.granted
               /\ \A j \in DOMAIN orders'[t] : orders'[t][j] = orders'[t][i] => i = j
      <4>1. ASSUME NEW i \in DOMAIN orders[t]
            PROVE  LET p == purchases[t][orders'[t][i]]
                   IN /\ p.verdict \in {"ok", "review"}
                      /\ p.verdict = "review" => "po" \in p.granted
                      /\ p.credit => "po_revalidation" \in p.granted
                      /\ \A j \in DOMAIN orders'[t] : orders'[t][j] = orders'[t][i] => i = j
        BY <2>2, <2>3, <2>4 DEF Undisturbed, Papers, OrdersApproved, Ordered
      <4>2. ASSUME NEW i, i = Len(orders[t]) + 1
            PROVE  LET p == purchases[t][orders'[t][i]]
                   IN /\ p.verdict \in {"ok", "review"}
                      /\ p.verdict = "review" => "po" \in p.granted
                      /\ p.credit => "po_revalidation" \in p.granted
                      /\ \A j \in DOMAIN orders'[t] : orders'[t][j] = orders'[t][i] => i = j
        <5>1. orders'[t][i] = po
          BY <2>2, <4>2
        <5>2. \A j \in DOMAIN orders'[t] : orders'[t][j] = po => i = j
          BY <2>2, <2>3, <2>4, <4>2 DEF Ordered
        <5>3. QED BY <2>1, <2>4, <5>1, <5>2 DEF Accepted
      <4>3. QED BY <2>3, <4>1, <4>2
    <3>2. OrdersApproved(t)'
      BY <1>0, <3>1 DEF OrdersApproved
    <3>3. QED BY <1>0, <3>2, PapersParts DEF Undisturbed, Papers
  <2>6. Agreed(t, s)' /\ None \notin QuotationStages
    BY <1>0, <2>4, NoStage DEF Accepted, Agreed
  <2>7. ASSUME NEW st, Eases(st, s), st.status \notin {"awaiting_approval", "blocked", "handed_off"}
        PROVE  Sound(t, st)'
    <3>1. Agreed(t, st)' /\ st.stage = None
      BY <2>4, <2>6, <2>7 DEF Eases, Agreed
    <3>2. st.analysis = s.analysis
      BY <2>7 DEF Eases
    <3>3. QED BY <1>1, <1>2, <2>6, <2>7, <3>1, <3>2 DEF Sound
  <2>8. CASE Goes(k, WithStatus(k, "processing"), "build_handoff_packages")
    <3>1. PICK st : st = WithStatus(k, "processing")
      OBVIOUS
    <3>2. st \in StateType /\ Eases(st, s) /\ st.status = "processing"
      <4>1. st = [s EXCEPT !.status = "processing"]
        BY <1>2, <3>1 DEF WithStatus
      <4>2. QED BY <4>1 DEF StateType, Statuses, Eases
    <3>3. Sound(t, st)'
      BY <2>7, <3>2
    <3>4. Last(t, st.po)'
      BY <2>1, <2>2, <3>2 DEF Last, Eases
    <3>5. "build_handoff_packages" \in Ends
      BY DEF Ends, Nodes
    <3>6. \A stage, seen : NodeSound(t, st, "build_handoff_packages", stage, seen)'
      BY <3>4 DEF NodeSound, QuotingNodes, OrderingNodes
    <3>7. QED BY <1>0, <2>5, <2>8, <3>1, <3>2, <3>3, <3>5, <3>6, GoKeeps
  <2>9. CASE Fails(k, "end")
    <3>1. PICK st : st = Failed(k)
      OBVIOUS
    <3>2. st \in StateType /\ Eases(st, s) /\ st.status = "failed" /\ Goes(k, st, "end") /\ "end" \in Ends
      BY <1>0, <1>2, <2>9, <3>1, EasedStates DEF RunsInv, Ends, Fails, Failed
    <3>3. Sound(t, st)'
      BY <2>7, <3>2
    <3>4. QED BY <1>0, <2>5, <3>2, <3>3, GoKeeps
  <2>10. QED BY <1>4, <2>8, <2>9
<1>5. QED BY <1>2, <1>3, <1>4 DEF CreateSalesOrder

-----------------------------------------------------------------------------
(* The handoff, in an undisturbed conversation                                *)

(* The handoffs of a conversation are added to, and a mark stays.             *)
HandoffsStay(t) ==
  \A i \in DOMAIN handoffs[t] : /\ i \in DOMAIN handoffs'[t]
                                /\ handoffs'[t][i].po = handoffs[t][i].po
                                /\ handoffs[t][i].marked => handoffs'[t][i].marked

(* The handoff keeps the papers,                                              *)
LEMMA HandoffsPapers ==
  ASSUME NEW t, HandoffsStay(t), Papers(t), UNCHANGED <<quotes, revised, purchases, orders, reserved, lead>>
  PROVE  Papers(t)' /\ \A s : Sound(t, s) => Sound(t, s)'
<1>1. Papers(t)'
  BY PapersParts DEF Papers
<1>2. ASSUME NEW s, Sound(t, s) PROVE Sound(t, s)'
  <2>1. Agreed(t, s) => Agreed(t, s)'
    BY DEF Agreed
  <2>2. QED BY <1>2, <2>1, AsksGrows, SoundGrows DEF HandoffsStay
<1>3. QED BY <1>1, <1>2

(* of a run that confirmed its order:                                         *)
LEMMA ConfirmingRun ==
  ASSUME NEW k \in Tasks, NEW t, t = Thread(k), Undisturbed(t), task[k].pc \in Confirming
  PROVE  Running(k) /\ Sound(t, S(k)) /\ Last(t, S(k).po)
<1>1. Running(k)
  BY DEF Confirming, Running
<1>2. QED BY <1>1, RunIsSound DEF NodeSound

(* A run that fails after documents were written.                             *)
LEMMA FailKeeps ==
  ASSUME RunsInv, NEW k \in Tasks, NEW t \in Threads, t = Thread(k), Undisturbed(t), Fails(k, "end"),
         Papers(t)', \A s : s = S(k) => Sound(t, s)'
  PROVE  Undisturbed(t)'
<1>1. PICK s : s = S(k)
  OBVIOUS
<1>2. PICK st : st = Failed(k)
  OBVIOUS
<1>3. st \in StateType /\ Eases(st, s) /\ Goes(k, st, "end") /\ "end" \in Ends
  BY <1>1, <1>2, EasedStates DEF RunsInv, Ends, Fails, Failed
<1>4. Sound(t, st)'
  BY <1>1, <1>3, EasedSound
<1>5. QED BY <1>3, <1>4, GoKeeps

(* when it is recorded,                                                       *)
LEMMA DispatchHandoffKeeps ==
  ASSUME BaseInv, NEW k \in Tasks, NEW t \in Threads, t = Thread(k), Undisturbed(t), DispatchHandoff(k)
  PROVE  Undisturbed(t)'
<1>0. /\ RunsInv /\ handoffs \in [Threads -> Seq(HandoffType)]
      /\ UNCHANGED <<quotes, revised, purchases, orders, reserved, lead>>
      /\ task[k].pc = "dispatch_handoff" /\ task[k].pc \in Confirming
  BY DEF BaseInv, RunsInv, TypeOK, HandoffType, DispatchHandoff, At, Confirming
<1>1. Running(k) /\ Sound(t, S(k)) /\ Last(t, S(k).po)
  BY <1>0, ConfirmingRun
<1>2. CASE Fails(k, "end") /\ UNCHANGED handoffs
  <2>1. UNCHANGED documents
    BY <1>0, <1>2 DEF documents
  <2>2. QED BY <1>0, <1>1, <1>2, <2>1, FailSane, SaneKeeps
<1>3. CASE /\ handoffs' = [handoffs EXCEPT ![t] = Append(@, [po |-> S(k).po, told |-> 0, marked |-> FALSE])]
           /\ task' = [task EXCEPT ![k].pc = "notify_departments",
                                   ![k].st.handoff = Len(handoffs'[t])]
           /\ UNCHANGED <<checkpoint, closed, crm, counters>>
  <2>1. PICK s \in StateType : s = S(k)
    BY <1>0, StateOf DEF RunsInv
  <2>2. PICK new : new = [po |-> s.po, told |-> 0, marked |-> FALSE]
    OBVIOUS
  <2>3. new \in HandoffType
    BY <2>2, ConstantsAssumption DEF HandoffType, StateType
  <2>4. handoffs' = [handoffs EXCEPT ![t] = Append(@, new)]
    BY <1>3, <2>1, <2>2
  <2>5. /\ DOMAIN handoffs[t] = 1 .. Len(handoffs[t]) /\ DOMAIN handoffs'[t] = 1 .. Len(handoffs'[t])
        /\ Len(handoffs[t]) \in Nat /\ Len(handoffs'[t]) = Len(handoffs[t]) + 1
        /\ \A i \in DOMAIN handoffs[t] : handoffs'[t][i] = handoffs[t][i]
    BY <1>0, <2>3, <2>4, Appended
  <2>6. HandoffsStay(t)
    BY <2>5 DEF HandoffsStay
  <2>7. Papers(t)' /\ \A x : Sound(t, x) => Sound(t, x)'
    BY <1>0, <2>6, HandoffsPapers DEF Undisturbed
  <2>8. PICK n \in Nat : n = Len(handoffs'[t])
    BY <2>5
  <2>9. PICK st : st = [s EXCEPT !.handoff = n]
    OBVIOUS
  <2>10. PICK c : c = checkpoint[t]
    OBVIOUS
  <2>11. Moves(k, c, st, "notify_departments") /\ st \in StateType
    <3>1. task' = [task EXCEPT ![k].pc = "notify_departments", ![k].st.handoff = n]
      BY <1>3, <2>8
    <3>2. UNCHANGED <<checkpoint, closed, crm, counters>>
      BY <1>3
    <3>3. QED BY <1>0, <1>1, <2>1, <2>9, <2>10, <3>1, <3>2, HandoffMoves
  <2>12. st.po = s.po /\ Eases(st, s)
    BY <2>9 DEF StateType, Eases
  <2>13. c \in StateType /\ Sound(t, c)
    BY <1>0, <1>1, <2>10, RunFacts, RunIsSound
  <2>14. Sound(t, c)' /\ Sound(t, st)'
    BY <1>1, <2>1, <2>7, <2>12, <2>13, EasedSound
  <2>15. Last(t, st.po)'
    BY <1>0, <1>1, <2>1, <2>12 DEF Last
  <2>16. \A stage, seen : NodeSound(t, st, "notify_departments", stage, seen)'
    BY <2>15 DEF NodeSound, QuotingNodes, OrderingNodes
  <2>17. "notify_departments" \in Ends
    BY DEF Ends, Nodes
  <2>18. QED BY <1>0, <2>7, <2>11, <2>13, <2>14, <2>16, <2>17, RunKeeps
<1>4. QED BY <1>2, <1>3 DEF DispatchHandoff

(* What a message or a mark changes of a handoff.                             *)
LEMMA TouchedHandoff ==
  ASSUME NEW t \in Threads, handoffs \in [Threads -> Seq(HandoffType)],
         NEW i \in DOMAIN handoffs[t], NEW h, h.po = handoffs[t][i].po, handoffs[t][i].marked => h.marked,
         handoffs' = [handoffs EXCEPT ![t] = [handoffs[t] EXCEPT ![i] = h]]
  PROVE  HandoffsStay(t) /\ i \in DOMAIN handoffs'[t] /\ handoffs'[t][i] = h
<1>1. handoffs'[t] = [handoffs[t] EXCEPT ![i] = h]
  OBVIOUS
<1>2. QED BY <1>1 DEF HandoffsStay

(* when a department is told,                                                 *)
LEMMA NotifyDepartmentKeeps ==
  ASSUME BaseInv, NEW k \in Tasks, NEW t \in Threads, t = Thread(k), Undisturbed(t), NotifyDepartment(k)
  PROVE  Undisturbed(t)'
<1>0. /\ RunsInv /\ handoffs \in [Threads -> Seq(HandoffType)]
      /\ UNCHANGED <<quotes, revised, purchases, orders, reserved, lead>>
      /\ At(k, "notify_departments") /\ task[k].pc = "notify_departments" /\ task[k].pc \in Confirming
  BY NotifyCases DEF BaseInv, RunsInv, TypeOK, HandoffType, At, Confirming
<1>1. Running(k) /\ Sound(t, S(k)) /\ Last(t, S(k).po)
  BY <1>0, ConfirmingRun
<1>2. HandoffsStay(t)
  <2>1. CASE UNCHANGED handoffs
    BY <2>1 DEF HandoffsStay
  <2>2. CASE Told(k)
    <3>1. PICK i : i = S(k).handoff
      OBVIOUS
    <3>2. i \in DOMAIN handoffs[t] /\ handoffs[t][i] \in HandoffType
      BY <1>0, <3>1, HandoffOfRun
    <3>3. PICK h \in HandoffType : h = handoffs[t][i]
      BY <3>2
    <3>4. PICK g : g = [h EXCEPT !.told = h.told + 1]
      OBVIOUS
    <3>5. g.po = h.po /\ g.marked = h.marked
      BY <3>4 DEF HandoffType
    <3>6. handoffs' = [handoffs EXCEPT ![t] = [handoffs[t] EXCEPT ![i] = g]]
      BY <1>0, <2>2, <3>1, <3>3, <3>4 DEF Told
    <3>7. QED BY <1>0, <3>2, <3>3, <3>5, <3>6, TouchedHandoff
  <2>3. QED BY <2>1, <2>2, NotifyCases
<1>3. Papers(t)' /\ \A x : Sound(t, x) => Sound(t, x)'
  BY <1>0, <1>2, HandoffsPapers DEF Undisturbed
<1>4. CASE Fails(k, "end")
  BY <1>0, <1>1, <1>3, <1>4, FailKeeps
<1>5. CASE UNCHANGED <<checkpoint, task, closed, crm, counters>>
  <2>1. PICK s \in StateType : s = S(k)
    BY <1>0, StateOf DEF RunsInv
  <2>2. PICK c : c = checkpoint[t]
    OBVIOUS
  <2>3. c \in StateType /\ Sound(t, c)
    BY <1>0, <1>1, <2>2, RunFacts, RunIsSound
  <2>4. Moves(k, c, s, "notify_departments")
    <3>1. /\ checkpoint \in [Threads -> StateType \cup {None}] /\ task \in [Tasks -> TaskType]
          /\ checkpoint' = checkpoint /\ task' = task
      BY <1>0, <1>5 DEF RunsInv, TypeOK
    <3>2. checkpoint' = [checkpoint EXCEPT ![Thread(k)] = c]
      BY <2>2, <3>1
    <3>3. QED BY <1>0, <1>5, <2>1, <3>1, <3>2 DEF Moves, S
  <2>5. Sound(t, c)' /\ Sound(t, s)'
    BY <1>1, <1>3, <2>1, <2>3
  <2>6. Last(t, s.po)'
    BY <1>0, <1>1, <2>1 DEF Last
  <2>7. \A stage, seen : NodeSound(t, s, "notify_departments", stage, seen)'
    BY <2>6 DEF NodeSound, QuotingNodes, OrderingNodes
  <2>8. "notify_departments" \in Ends
    BY DEF Ends, Nodes
  <2>9. QED BY <1>0, <1>3, <2>3, <2>4, <2>5, <2>7, <2>8, RunKeeps
<1>6. QED BY <1>4, <1>5, NotifyCases

(* and when they are marked.                                                  *)
LEMMA MarkDepartmentsKeeps ==
  ASSUME BaseInv, NEW k \in Tasks, NEW t \in Threads, t = Thread(k), Undisturbed(t), MarkDepartments(k)
  PROVE  Undisturbed(t)'
<1>0. /\ RunsInv /\ handoffs \in [Threads -> Seq(HandoffType)]
      /\ UNCHANGED <<quotes, revised, purchases, orders, reserved, lead>>
      /\ At(k, "notify_departments") /\ task[k].pc \in Confirming
  BY MarkCases DEF BaseInv, RunsInv, TypeOK, HandoffType, At, Confirming
<1>1. Running(k) /\ Sound(t, S(k)) /\ Last(t, S(k).po)
  BY <1>0, ConfirmingRun
<1>2. CASE Fails(k, "end") /\ UNCHANGED handoffs
  <2>1. UNCHANGED documents
    BY <1>0, <1>2 DEF documents
  <2>2. QED BY <1>0, <1>1, <1>2, <2>1, FailSane, SaneKeeps
<1>3. CASE Marks(k) /\ Goes(k, WithStatus(k, "processing"), "finalize_audit")
  <2>1. PICK s \in StateType : s = S(k)
    BY <1>0, StateOf DEF RunsInv
  <2>2. PICK i : i = s.handoff
    OBVIOUS
  <2>3. i \in DOMAIN handoffs[t] /\ handoffs[t][i] \in HandoffType /\ handoffs[t][i].po = s.po
    BY <1>0, <2>1, <2>2, HandoffOfRun
  <2>4. PICK h \in HandoffType : h = handoffs[t][i]
    BY <2>3
  <2>5. PICK g : g = [h EXCEPT !.marked = TRUE]
    OBVIOUS
  <2>6. g.po = h.po /\ g.marked
    BY <2>5 DEF HandoffType
  <2>7. handoffs' = [handoffs EXCEPT ![t] = [handoffs[t] EXCEPT ![i] = g]]
    BY <1>0, <1>3, <2>1, <2>2, <2>4, <2>5 DEF Marks
  <2>8. HandoffsStay(t) /\ i \in DOMAIN handoffs'[t] /\ handoffs'[t][i] = g
    BY <1>0, <2>3, <2>4, <2>6, <2>7, TouchedHandoff
  <2>9. Papers(t)' /\ \A x : Sound(t, x) => Sound(t, x)'
    BY <1>0, <2>8, HandoffsPapers DEF Undisturbed
  <2>10. PICK st : st = [s EXCEPT !.status = "processing"]
    OBVIOUS
  <2>11. st \in StateType /\ st.po = s.po /\ Eases(st, s)
    BY <2>10 DEF StateType, Statuses, Eases
  <2>12. Sound(t, st)'
    BY <1>1, <2>1, <2>9, <2>11, EasedSound
  <2>13. Marked(t, st.po)' /\ Last(t, st.po)'
    BY <1>0, <1>1, <2>1, <2>3, <2>4, <2>6, <2>8, <2>11 DEF Marked, Last
  <2>14. \A stage, seen : NodeSound(t, st, "finalize_audit", stage, seen)'
    BY <2>13 DEF NodeSound, QuotingNodes, OrderingNodes
  <2>15. "finalize_audit" \in Ends
    BY DEF Ends, Nodes
  <2>16. QED BY <1>0, <1>3, <2>1, <2>9, <2>10, <2>11, <2>12, <2>14, <2>15, GoKeeps DEF WithStatus
<1>4. QED BY <1>2, <1>3, MarkCases

-----------------------------------------------------------------------------
(* Runs that begin and end                                                    *)

(* The nodes that write a document keep their conversation.                   *)
LEMMA WritingKeeps ==
  ASSUME BaseInv, StockInv, NEW k \in Tasks, NEW t \in Threads, t = Thread(k), Undisturbed(t), WritingNode(k)
  PROVE  Undisturbed(t)'
<1>1. RunsInv /\ IsFiniteSet(reserved)
  BY DEF BaseInv, StockInv
<1>2. QED BY <1>1, ExtractInquiryKeeps, GenerateQuotationKeeps, DispatchQuotationKeeps,
  SendQuotationKeeps,
     PrepareRevisedQuotationKeeps, ExtractPoFieldsKeeps, ValidatePoKeeps, RevalidateKeeps,
     ReserveInventoryKeeps, AllocateRowsKeeps, MarkOrderWonKeeps, CreateSalesOrderKeeps,
     DispatchHandoffKeeps, NotifyDepartmentKeeps, MarkDepartmentsKeeps DEF WritingNode

(* A run begins.                                                              *)
LEMMA NothingOrdered == ASSUME BaseInv, NEW t \in Threads PROVE ~ Firm(t, 0)
<1>1. purchases[t] \in Seq(PurchaseType)
  BY DEF BaseInv, RunsInv, TypeOK
<1>2. 0 \notin DOMAIN purchases[t]
  BY <1>1
<1>3. QED BY <1>2, OrderedExists DEF BaseInv

(* So does the begin of a run,                                                *)
LEMMA InvokeKeeps ==
  ASSUME BaseInv, NEW k \in Tasks, NEW t \in Threads, t = Thread(k), Undisturbed(t), Invoke(k)
  PROVE  Undisturbed(t)'
<1>0. RunsInv /\ Moves(k, Invoked(k), Invoked(k), "check_trigger") /\ task[k].pc = "received"
      /\ UNCHANGED documents /\ SamePapers(t)
  BY InvokeMoves DEF BaseInv, documents, SamePapers
<1>1. PICK st : st = Invoked(k)
  OBVIOUS
<1>2. PICK c : c = checkpoint[t]
  OBVIOUS
<1>3. PICK trigger, stage, seen : /\ trigger = task[k].trigger /\ stage = task[k].approved
                                  /\ seen = task[k].seen
  OBVIOUS
<1>4. /\ st \in StateType
      /\ trigger = "inquiry" => st = NewState
      /\ trigger # "inquiry" =>
           /\ c \in StateType /\ st.po = c.po /\ st.quote = c.quote /\ st.status = c.status
           /\ st.price = c.price /\ st.analysis = c.analysis
           /\ st.stage = IF trigger \in {"approved", "retry_pricing"} THEN None ELSE c.stage
  BY <1>0, <1>1, <1>2, <1>3, InvokedTyped
<1>5. c # None => Sound(t, c)
  BY <1>2 DEF Undisturbed
<1>6. RunSound(k)
  BY DEF Undisturbed, On
<1>7. /\ trigger = "approved" => c.status = "awaiting_approval" /\ Resumes(t, c, stage, seen)
      /\ trigger = "retry_pricing" => c.status = "blocked"
  BY <1>0, <1>2, <1>3, <1>6 DEF RunSound, At, Brought
<1>8. NewState.po = 0 /\ NewState.status = "processing" /\ ~ NewState.analysis.auto
  BY DEF NewState
<1>9. Sound(t, st)
  <2>1. CASE trigger = "inquiry"
    BY <1>4, <1>8, <2>1, NothingOrdered DEF Sound
  <2>2. CASE trigger # "inquiry"
    <3>1. Eases(st, c) /\ c # None
      BY <1>4, <2>2, NoneAssumption DEF Eases
    <3>2. QED BY <1>5, <3>1, EasedSound
  <2>3. QED BY <2>1, <2>2
<1>10. trigger \in {"inquiry", "retry_pricing"} => ~ Firm(t, st.po)
  <2>1. CASE trigger = "inquiry"
    BY <1>4, <1>8, <2>1, NothingOrdered
  <2>2. CASE trigger = "retry_pricing"
    BY <1>4, <1>7, <1>9, <2>2 DEF Sound
  <2>3. QED BY <2>1, <2>2
<1>11. trigger = "approved" => st.stage = None /\ Resumes(t, st, stage, seen)
  BY <1>4, <1>7 DEF Resumes, Accepted, Agreed
<1>12. Sound(t, st)' /\ (Resumes(t, st, stage, seen) => Resumes(t, st, stage, seen)')
       /\ (Firm(t, st.po)' <=> Firm(t, st.po))
  BY <1>0, <1>9, SameSound, OrderedStays DEF SamePapers, documents
<1>13. Entered(k)'
  <2>1. /\ task'[k].trigger = trigger /\ Thread(k)' = t /\ S(k)' = st
        /\ task'[k].approved = stage /\ task'[k].seen = seen
    BY <1>0, <1>1, <1>3 DEF Moves, Thread, S
  <2>2. QED BY <1>4, <1>7, <1>10, <1>11, <1>12, <2>1 DEF Entered
<1>14. \A s, n : NodeSound(t, st, "check_trigger", s, n)'
  BY DEF NodeSound, QuotingNodes, OrderingNodes, Confirming
<1>15. Papers(t)'
  BY <1>0, SamePapersStay DEF Undisturbed
<1>16. QED BY <1>0, <1>1, <1>4, <1>12, <1>13, <1>14, <1>15, RunKeeps

(* and its end by a crash.                                                    *)
LEMMA AbandonKeeps ==
  ASSUME BaseInv, NEW k \in Tasks, NEW t \in Threads, t = Thread(k), Undisturbed(t), Abandon(k)
  PROVE  Undisturbed(t)'
<1>1. /\ task' = [task EXCEPT ![k] = Idle] /\ task \in [Tasks -> TaskType]
      /\ UNCHANGED documents /\ UNCHANGED <<lead, checkpoint, closed, crm>>
  BY DEF Abandon, leads, BaseInv, RunsInv, TypeOK
<1>2. SamePapers(t)
  BY <1>1 DEF documents, SamePapers
<1>3. \A j \in Tasks : ~ On(j, t)'
  <2>1. ASSUME NEW j \in Tasks, On(j, t)' PROVE FALSE
    <3>1. j # k
      BY <1>1, <2>1, NoneAssumption DEF On, Thread, Idle
    <3>2. On(j, t) /\ On(k, t)
      BY <1>1, <2>1, <3>1 DEF On, Thread
    <3>3. QED BY <3>1, <3>2 DEF Undisturbed, Alone
  <2>2. QED BY <2>1
<1>4. Alone(t)'
  BY <1>3 DEF Alone
<1>5. checkpoint'[t] # None => Sound(t, checkpoint[t])'
  <2>1. PICK c : c = checkpoint[t]
    OBVIOUS
  <2>2. c # None => Sound(t, c)'
    BY <1>2, <2>1, SameSound DEF Undisturbed
  <2>3. QED BY <1>1, <2>1, <2>2
<1>6. Closing(t)'
  BY <1>1, <1>3 DEF Undisturbed, Closing
<1>7. Papers(t)'
  BY <1>2, SamePapersStay DEF Undisturbed
<1>8. QED BY <1>3, <1>4, <1>5, <1>6, <1>7 DEF Undisturbed

(* A step of a run keeps every conversation nobody disturbed as it has to be. *)
LEMMA RunNext ==
  ASSUME BaseInv, StockInv, UndisturbedInv, NEW k \in Tasks,
         QuietNode(k) \/ WritingNode(k) \/ Invoke(k) \/ Abandon(k)
  PROVE  UndisturbedInv'
<1>1. disturbed' = disturbed /\ \A u \in Threads : u # Thread(k) => Same(u)
  BY RunElsewhere DEF Elsewhere
<1>2. ASSUME NEW u \in Threads \ disturbed' PROVE Undisturbed(u)'
  <2>1. Undisturbed(u)
    BY <1>1, <1>2 DEF UndisturbedInv
  <2>2. CASE u # Thread(k)
    BY <1>1, <2>1, <2>2, SameStays
  <2>3. CASE u = Thread(k)
    <3>1. RunsInv
      BY DEF BaseInv
    <3>2. QED BY <2>1, <2>3, <3>1, QuietKeeps, WritingKeeps, InvokeKeeps, AbandonKeeps
  <2>4. QED BY <2>2, <2>3
<1>3. QED BY <1>2 DEF UndisturbedInv

(* An approval only adds to what was granted.                                 *)
Granting(t) ==
  \A i \in DOMAIN purchases[t] :
    /\ purchases'[t][i].price = purchases[t][i].price
    /\ purchases'[t][i].verdict = purchases[t][i].verdict
    /\ purchases'[t][i].credit = purchases[t][i].credit
    /\ purchases[t][i].granted \subseteq purchases'[t][i].granted

(* An approval keeps what states have to agree with,                          *)
LEMMA GrantingSound ==
  ASSUME TypeOK, NEW t \in Threads, NEW c, Known(t, c), Granting(t),
         UNCHANGED <<quotes, revised, orders, reserved, handoffs>>
  PROVE  /\ Accepted(t, c) => Accepted(t, c)'
         /\ Sound(t, c) => Sound(t, c)'
<1>1. c.po # 0 => c.po \in DOMAIN purchases[t]
  <2>1. purchases[t] \in Seq(PurchaseType) /\ c.po \in 0 .. Len(purchases[t])
    BY DEF TypeOK, Known
  <2>2. QED BY <2>1
<1>2. (Ordered(t, c.po)' <=> Ordered(t, c.po)) /\ (Firm(t, c.po)' <=> Firm(t, c.po))
  BY OrderedStays
<1>3. Agreed(t, c) => Agreed(t, c)'
  BY <1>1 DEF Agreed, Granting
<1>4. Accepted(t, c) => Accepted(t, c)'
  <2>1. SUFFICES ASSUME Accepted(t, c) PROVE Accepted(t, c)'
    OBVIOUS
  <2>2. c.po \in DOMAIN purchases[t] /\ Agreed(t, c)
    BY <1>1, <2>1 DEF Accepted, Agreed
  <2>3. QED BY <1>2, <1>3, <2>1, <2>2 DEF Accepted, Granting
<1>5. Asks(t, c) => Asks(t, c)'
  <2>1. SUFFICES ASSUME Asks(t, c) PROVE Asks(t, c)'
    OBVIOUS
  <2>2. CASE c.stage = "po"
    <3>1. c.po \in DOMAIN purchases[t] /\ Agreed(t, c)
      BY <1>1, <2>1, <2>2 DEF Asks, Agreed
    <3>2. QED BY <1>2, <1>3, <2>1, <2>2, <3>1 DEF Asks, Granting
  <2>3. CASE c.stage # "po"
    BY <1>2, <1>4, <2>1, <2>3 DEF Asks
  <2>4. QED BY <2>2, <2>3
<1>6. Sound(t, c) => Sound(t, c)'
  BY <1>3, <1>5, SoundGrows
<1>7. QED BY <1>4, <1>6

(* and what papers have to agree with.                                        *)
LEMMA GrantingPapers ==
  ASSUME DocumentsAgree, NEW t \in Threads, Granting(t), Papers(t),
         UNCHANGED <<quotes, revised, orders, reserved, handoffs>>
  PROVE  Papers(t)'
<1>1. \A i \in DOMAIN orders[t] : orders[t][i] \in DOMAIN purchases[t]
  BY DEF DocumentsAgree
<1>2. OrdersApproved(t)'
  BY <1>1 DEF Papers, OrdersApproved, Granting
<1>3. HeldCleared(t)'
  <2>1. SUFFICES ASSUME NEW r \in reserved, r.thread = t PROVE Cleared(purchases'[t][r.po])
    BY DEF HeldCleared, Cleared
  <2>2. r.po \in DOMAIN purchases[t] /\ Cleared(purchases[t][r.po])
    BY <2>1 DEF DocumentsAgree, Papers, HeldCleared
  <2>3. QED BY <2>2 DEF Cleared, Granting
<1>4. QED BY <1>2, <1>3, PapersParts DEF Papers

(* What a human was shown is what the run goes on with.                       *)
LEMMA ApprovedResumes ==
  ASSUME TypeOK, NEW t \in Threads, NEW c \in StateType, Known(t, c), Granting(t), Sound(t, c),
         c.status = "awaiting_approval",
         UNCHANGED <<quotes, revised, orders, reserved, handoffs>>,
         NEW stage \in Stages, c.stage = stage, NEW item, item = PendingItem(c, stage),
         stage \in {"po", "po_revalidation"} =>
           \A i \in DOMAIN purchases[t] : i = item => stage \in purchases'[t][i].granted
  PROVE  Resumes(t, c, stage, item)'
<1>1. Asks(t, c)
  BY DEF Sound
<1>2. (Ordered(t, c.po)' <=> Ordered(t, c.po)) /\ (Firm(t, c.po)' <=> Firm(t, c.po))
  BY OrderedStays
<1>3. stage \in QuotationStages => ~ Firm(t, c.po)'
  BY <1>2 DEF Sound
<1>4. stage = "pricing" => item = c.price
  BY DEF PendingItem
<1>5. stage = "negotiation" => item = c.analysis.price
  BY DEF PendingItem
<1>6. stage \in {"po", "po_revalidation"} => item = c.po
  BY DEF PendingItem
<1>7. Agreed(t, c) => c.po \in DOMAIN purchases[t]
  <2>1. purchases[t] \in Seq(PurchaseType) /\ c.po \in 0 .. Len(purchases[t])
    BY DEF TypeOK, Known
  <2>2. QED BY <2>1 DEF Agreed
<1>8. CASE stage = "po"
  <2>1. /\ Agreed(t, c) /\ ~ Firm(t, c.po) /\ purchases[t][c.po].verdict = "review"
        /\ ~ purchases[t][c.po].credit /\ c.po \in DOMAIN purchases[t]
    BY <1>1, <1>7, <1>8 DEF Asks
  <2>2. /\ "po" \in purchases'[t][c.po].granted /\ purchases'[t][c.po].verdict = "review"
        /\ ~ purchases'[t][c.po].credit /\ purchases'[t][c.po].price = purchases[t][c.po].price
    BY <1>6, <1>8, <2>1 DEF Granting
  <2>3. Accepted(t, c)'
    BY <1>2, <2>1, <2>2 DEF Accepted, Agreed, Firm
  <2>4. QED BY <1>2, <1>8, <2>1, <2>2, <2>3 DEF Resumes, QuotationStages
<1>9. CASE stage = "po_revalidation"
  <2>1. Accepted(t, c) /\ ~ Firm(t, c.po) /\ c.po \in DOMAIN purchases[t]
    BY <1>1, <1>7, <1>9 DEF Asks, Accepted
  <2>2. Accepted(t, c)' /\ "po_revalidation" \in purchases'[t][c.po].granted
    BY <1>6, <1>9, <2>1, GrantingSound
  <2>3. QED BY <1>2, <1>9, <2>1, <2>2 DEF Resumes, QuotationStages
<1>10. CASE stage \notin {"po", "po_revalidation"}
  BY <1>3, <1>4, <1>5, <1>10 DEF Resumes
<1>11. QED BY <1>8, <1>9, <1>10

(* A request that starts a run keeps every undisturbed conversation.          *)
LEMMA StartsKeep ==
  ASSUME BaseInv, UndisturbedInv, NEW k \in Tasks, NEW t \in Threads, Starts(k, t)
  PROVE  UndisturbedInv'
<1>0. RunsInv /\ TypeOK /\ DocumentsAgree
  BY DEF BaseInv, RunsInv
<1>1. PICK trigger, stage, item :
        /\ Receive(k, t, trigger, stage, item) /\ Brings(k, t, trigger, stage, item)
        /\ \/ UNCHANGED purchases /\ trigger # "approved"
           \/ /\ trigger = "approved" /\ Grants(t, stage)
              /\ checkpoint[t].status = "awaiting_approval"
              /\ item = PendingItem(checkpoint[t], stage)
        /\ trigger = "retry_pricing" => checkpoint[t].status = "blocked"
        /\ trigger \in {"followup", "po_received"} =>
             checkpoint[t].status \notin {"closed_lost", "awaiting_approval"}
        /\ trigger = "customer_reply" => checkpoint[t].status # "closed_lost"
  BY <1>0, StartCases
<1>2. /\ task[k] = Idle /\ Disturb(t)
      /\ task' = [task EXCEPT ![k] = [pc |-> "received", thread |-> t, trigger |-> trigger,
                                      approved |-> stage, seen |-> item, st |-> NewState]]
      /\ UNCHANGED <<checkpoint, quotes, revised, orders, reserved, handoffs, lead, closed, crm>>
  BY <1>1 DEF Receive, leads
<1>3. PICK new : new = [pc |-> "received", thread |-> t, trigger |-> trigger,
                        approved |-> stage, seen |-> item, st |-> NewState]
  OBVIOUS
<1>4. /\ new.pc = "received" /\ new.thread = t /\ new.trigger = trigger /\ new.approved = stage
      /\ new.seen = item
  BY <1>3
<1>5. task'[k] = new /\ task[k].thread = None /\ \A j \in Tasks \ {k} : task'[j] = task[j]
  BY <1>0, <1>2, <1>3 DEF TypeOK, Idle
<1>6. trigger = "approved" => stage \in Stages /\ checkpoint[t].stage = stage
  BY <1>1 DEF Brings
<1>7. Granting(t) /\ \A u \in Threads : u # t => purchases'[u] = purchases[u]
  <2>1. CASE UNCHANGED purchases
    BY <2>1 DEF Granting
  <2>2. CASE trigger = "approved" /\ Grants(t, stage)
    <3>1. Granting(t)
      BY <1>0, <1>2, <1>6, <2>2, GrantedTyped DEF Granting
    <3>2. QED BY <1>0, <2>2, <3>1 DEF Grants, TypeOK
  <2>3. QED BY <1>1, <2>1, <2>2
<1>8. ASSUME NEW u \in Threads \ disturbed', u # t PROVE Undisturbed(u)'
  <2>1. u \notin disturbed
    BY <1>2, <1>8 DEF Disturb
  <2>2. SamePapers(u)
    BY <1>2, <1>7, <1>8 DEF SamePapers
  <2>3. SameRuns(u)
    BY <1>4, <1>5, <1>8, NoneAssumption DEF SameRuns
  <2>4. Same(u)
    BY <1>2, <2>2, <2>3 DEF Same
  <2>5. QED BY <2>1, <2>4, SameStays DEF UndisturbedInv
<1>9. ASSUME t \notin disturbed' PROVE Undisturbed(t)'
  <2>1. t \notin disturbed /\ ~ Busy(t)
    BY <1>2, <1>9 DEF Disturb
  <2>2. Undisturbed(t) /\ crm[t] = "none" /\ \A j \in Tasks : ~ On(j, t)
    BY <2>1 DEF UndisturbedInv, Busy, On
  <2>3. PICK c : c = checkpoint[t]
    OBVIOUS
  <2>4. c # None => c \in StateType /\ Known(t, c) /\ Sound(t, c)
    BY <1>0, <2>2, <2>3 DEF TypeOK, RunsInv, ThreadsKnown, ThreadKnown, Undisturbed
  <2>5. c # None => Sound(t, c)'
    BY <1>0, <1>2, <1>7, <2>4, GrantingSound
  <2>6. Alone(t)'
    BY <1>2, <1>4, <1>5, <2>2 DEF Alone, On, Thread
  <2>7. \A j \in Tasks : On(j, t)' => j = k
    BY <1>5, <2>2 DEF On, Thread
  <2>8. Brought(k)'
    <3>1. trigger = "approved" => c.status = "awaiting_approval" /\ Resumes(t, c, stage, item)'
      <4>1. SUFFICES ASSUME trigger = "approved"
                     PROVE  c.status = "awaiting_approval" /\ Resumes(t, c, stage, item)'
        OBVIOUS
      <4>2. c # None /\ c.status = "awaiting_approval" /\ stage \in Stages /\ c.stage = stage
            /\ Grants(t, stage) /\ item = PendingItem(c, stage)
        BY <1>1, <2>3, <4>1 DEF Brings
      <4>3. stage \in {"po", "po_revalidation"} =>
              \A i \in DOMAIN purchases[t] : i = item => stage \in purchases'[t][i].granted
        BY <1>0, <1>2, <2>3, <4>2, GrantedTyped
      <4>4. QED BY <1>0, <1>2, <1>7, <2>4, <4>2, <4>3, ApprovedResumes
    <3>2. trigger = "retry_pricing" => c.status = "blocked"
      BY <1>1, <2>3
    <3>3. /\ task'[k].trigger = trigger /\ Thread(k)' = t /\ task'[k].approved = stage
          /\ task'[k].seen = item /\ checkpoint'[t] = c
      BY <1>2, <1>4, <1>5, <2>3 DEF Thread
    <3>4. QED BY <3>1, <3>2, <3>3 DEF Brought
  <2>9. RunSound(k)'
    BY <1>4, <1>5, <2>8 DEF RunSound, At, Running
  <2>10. ~ closed[t]
    <3>1. SUFFICES ASSUME closed[t] PROVE FALSE
      OBVIOUS
    <3>2. c # None /\ c.status = "closed_lost"
      BY <1>0, <2>2, <2>3, <3>1 DEF Undisturbed, Closing, RunsInv, ThreadsKnown, ThreadKnown
    <3>3. trigger \in Triggers /\ trigger # "inquiry"
      BY <1>1, <2>3, <3>2 DEF Brings
    <3>4. QED BY <1>1, <2>3, <3>2, <3>3 DEF Triggers
  <2>11. Closing(t)'
    BY <1>2, <2>10 DEF Closing
  <2>12. Papers(t)'
    BY <1>0, <1>2, <1>7, <2>2, GrantingPapers DEF Undisturbed
  <2>13. checkpoint'[t] = c
    BY <1>2, <2>3
  <2>14. QED BY <2>5, <2>6, <2>7, <2>9, <2>11, <2>12, <2>13 DEF Undisturbed
<1>10. QED BY <1>8, <1>9 DEF UndisturbedInv

-----------------------------------------------------------------------------
(* The CRM, and every step                                                    *)

(* The CRM works on a conversation while no run does, unless it is disturbed. *)
DeskTouches(t) ==
  /\ UNCHANGED documents /\ UNCHANGED <<lead, task>>
  /\ \A u \in Threads : u # t => /\ checkpoint'[u] = checkpoint[u] /\ closed'[u] = closed[u]
                                 /\ crm'[u] = crm[u]
                                 /\ u \notin disturbed' => u \notin disturbed

(* The CRM leaves other conversations alone,                                  *)
LEMMA DeskElsewhere ==
  ASSUME UndisturbedInv, NEW t \in Threads, DeskTouches(t), NEW u \in Threads \ disturbed', u # t
  PROVE  Undisturbed(u)'
<1>1. SamePapers(u)
  BY DEF DeskTouches, documents, SamePapers
<1>2. Same(u)
  BY <1>1 DEF DeskTouches, Same, SameRuns
<1>3. QED BY <1>2, SameStays DEF DeskTouches, UndisturbedInv

(* and keeps the one it works on while no run does:                           *)
LEMMA DeskKeeps ==
  ASSUME NEW t \in Threads, DeskTouches(t), Undisturbed(t), \A j \in Tasks : ~ On(j, t),
         NEW c, checkpoint'[t] = c, c # None => Sound(t, c),
         closed'[t] => /\ lead[t] # "won" /\ crm'[t] # "reopening"
                       /\ crm'[t] = "none" => c.status = "closed_lost"
  PROVE  Undisturbed(t)'
<1>1. SamePapers(t)
  BY DEF DeskTouches, documents, SamePapers
<1>2. \A j \in Tasks : ~ On(j, t)'
  BY DEF DeskTouches, On, Thread
<1>3. Alone(t)'
  BY <1>2 DEF Alone
<1>4. c # None => Sound(t, c)'
  BY <1>1, SameSound
<1>5. Closing(t)'
  BY <1>2 DEF Closing, DeskTouches
<1>6. Papers(t)'
  BY <1>1, SamePapersStay DEF Undisturbed
<1>7. QED BY <1>2, <1>3, <1>4, <1>5, <1>6 DEF Undisturbed

(* when it closes a lead,                                                     *)
LEMMA CloseLostKeeps ==
  ASSUME BaseInv, UndisturbedInv, NEW t \in Threads, CloseLost(t)
  PROVE  UndisturbedInv'
<1>0. /\ closed \in [Threads -> BOOLEAN] /\ crm \in [Threads -> {"none", "closing", "reopening"}]
      /\ lead[t] = "open" /\ Disturb(t) /\ closed' = [closed EXCEPT ![t] = TRUE]
      /\ crm' = [crm EXCEPT ![t] = "closing"] /\ UNCHANGED checkpoint
  BY DEF BaseInv, RunsInv, TypeOK, CloseLost
<1>1. DeskTouches(t)
  BY <1>0 DEF CloseLost, DeskTouches, Disturb
<1>2. ASSUME t \notin disturbed' PROVE Undisturbed(t)'
  <2>1. t \notin disturbed /\ \A j \in Tasks : ~ On(j, t)
    BY <1>0, <1>2 DEF Disturb, Busy, On
  <2>2. PICK c : c = checkpoint[t]
    OBVIOUS
  <2>3. Undisturbed(t) /\ (c # None => Sound(t, c))
    BY <2>1, <2>2 DEF UndisturbedInv, Undisturbed
  <2>4. crm'[t] = "closing" /\ checkpoint'[t] = c
    BY <1>0, <2>2
  <2>5. QED BY <1>0, <1>1, <2>1, <2>3, <2>4, DeskKeeps
<1>3. QED BY <1>1, <1>2, DeskElsewhere DEF UndisturbedInv

(* opens it again,                                                            *)
LEMMA ReopenLeadKeeps ==
  ASSUME BaseInv, UndisturbedInv, NEW t \in Threads, ReopenLead(t)
  PROVE  UndisturbedInv'
<1>0. /\ closed \in [Threads -> BOOLEAN] /\ crm \in [Threads -> {"none", "closing", "reopening"}]
      /\ Disturb(t) /\ closed' = [closed EXCEPT ![t] = FALSE]
      /\ crm' = [crm EXCEPT ![t] = "reopening"] /\ UNCHANGED checkpoint
  BY DEF BaseInv, RunsInv, TypeOK, ReopenLead
<1>1. DeskTouches(t)
  BY <1>0 DEF ReopenLead, DeskTouches, Disturb
<1>2. ASSUME t \notin disturbed' PROVE Undisturbed(t)'
  <2>1. t \notin disturbed /\ \A j \in Tasks : ~ On(j, t)
    BY <1>0, <1>2 DEF Disturb, Busy, On
  <2>2. PICK c : c = checkpoint[t]
    OBVIOUS
  <2>3. Undisturbed(t) /\ (c # None => Sound(t, c))
    BY <2>1, <2>2 DEF UndisturbedInv, Undisturbed
  <2>4. ~ closed'[t] /\ checkpoint'[t] = c
    BY <1>0, <2>2
  <2>5. QED BY <1>1, <2>1, <2>3, <2>4, DeskKeeps
<1>3. QED BY <1>1, <1>2, DeskElsewhere DEF UndisturbedInv

(* writes the checkpoint,                                                     *)
LEMMA UpdateCheckpointKeeps ==
  ASSUME BaseInv, UndisturbedInv, NEW t \in Threads, UpdateCheckpoint(t)
  PROVE  UndisturbedInv'
<1>0. /\ crm \in [Threads -> {"none", "closing", "reopening"}] /\ RunsInv
      /\ checkpoint \in [Threads -> StateType \cup {None}]
      /\ crm[t] # "none" /\ crm' = [crm EXCEPT ![t] = "none"]
      /\ UNCHANGED <<documents, lead, closed, task, disturbed>>
  BY DEF BaseInv, RunsInv, TypeOK, UpdateCheckpoint, counters
<1>1. PICK c \in StateType : c = checkpoint[t]
  BY <1>0 DEF RunsInv, ThreadsKnown, ThreadKnown
<1>2. PICK status : status = IF crm[t] = "closing" THEN "closed_lost" ELSE "processing"
  OBVIOUS
<1>3. PICK d : d = [c EXCEPT !.status = status]
  OBVIOUS
<1>4. checkpoint' = [checkpoint EXCEPT ![t] = d]
  BY <1>1, <1>2, <1>3 DEF UpdateCheckpoint
<1>5. checkpoint'[t] = d /\ d.status = status /\ Eases(d, c)
  BY <1>0, <1>2, <1>3, <1>4 DEF StateType, Eases
<1>6. DeskTouches(t)
  BY <1>0, <1>4 DEF DeskTouches
<1>7. ASSUME t \notin disturbed' PROVE Undisturbed(t)'
  <2>1. Undisturbed(t)
    BY <1>0, <1>7 DEF UndisturbedInv
  <2>2. \A j \in Tasks : ~ On(j, t)
    BY <1>0, <2>1 DEF Undisturbed, Alone
  <2>3. Sound(t, d)
    BY <1>0, <1>1, <1>5, <2>1, EasedSound, NoneAssumption DEF Undisturbed
  <2>4. closed'[t] => /\ lead[t] # "won" /\ crm'[t] # "reopening" /\ d.status = "closed_lost"
    BY <1>0, <1>2, <1>5, <2>1 DEF Undisturbed, Closing
  <2>5. QED BY <1>5, <1>6, <2>1, <2>2, <2>3, <2>4, DeskKeeps
<1>8. QED BY <1>6, <1>7, DeskElsewhere DEF UndisturbedInv

(* or dies before.                                                            *)
LEMMA CrmCutKeeps ==
  ASSUME BaseInv, UndisturbedInv, NEW t \in Threads, CrmCut(t)
  PROVE  UndisturbedInv'
<1>0. crm \in [Threads -> {"none", "closing", "reopening"}]
  BY DEF BaseInv, RunsInv, TypeOK
<1>1. DeskTouches(t) /\ t \in disturbed'
  BY <1>0 DEF CrmCut, DeskTouches
<1>2. QED BY <1>1, DeskElsewhere DEF UndisturbedInv

(* So does a step that changes nothing.                                       *)
LEMMA UndisturbedStutter == ASSUME UndisturbedInv, UNCHANGED vars PROVE UndisturbedInv'
<1>1. \A u \in Threads : Same(u)
  BY DEF vars, documents, leads, Same, SamePapers, SameRuns
<1>2. disturbed' = disturbed
  BY DEF vars, counters
<1>3. QED BY <1>1, <1>2, SameStays DEF UndisturbedInv

(* Every conversation begins as it has to be,                                 *)
LEMMA UndisturbedInit == Init => UndisturbedInv
<1>1. ASSUME Init, NEW t \in Threads PROVE Undisturbed(t)
  <2>1. \A k \in Tasks : ~ On(k, t)
    BY <1>1, NoneAssumption DEF Init, On, Thread, Idle
  <2>2. /\ checkpoint[t] = None /\ ~ closed[t] /\ quotes[t] = << >> /\ revised[t] = {}
        /\ orders[t] = << >> /\ reserved = {}
    BY <1>1 DEF Init
  <2>3. Papers(t)
    BY <2>2 DEF Papers, HeldOnce, Held, HeldCleared, QuotesApproved, RevisionsAuthorised, OrdersApproved
  <2>4. QED BY <2>1, <2>2, <2>3 DEF Undisturbed, Alone, Closing
<1>2. QED BY <1>1 DEF UndisturbedInv

(* and stays so.                                                              *)
LEMMA UndisturbedNext ==
  ASSUME BaseInv, StockInv, UndisturbedInv, [Next]_vars
  PROVE  UndisturbedInv'
  BY NextCases, StartsKeep, RunNext, CloseLostKeeps, ReopenLeadKeeps, UpdateCheckpointKeeps,
     CrmCutKeeps, UndisturbedStutter

-----------------------------------------------------------------------------
PipelineInv == BaseInv /\ StockInv /\ UndisturbedInv

(* The inductive invariant holds for any number of requests, conversations,   *)
(* stock rows and departments.                                                *)
THEOREM PipelineInvariant == Spec => []PipelineInv
<1>1. Init => PipelineInv
  BY BaseInit, StockInit, UndisturbedInit DEF PipelineInv
<1>2. PipelineInv /\ [Next]_vars => PipelineInv'
  BY BaseNext, StockNext, UndisturbedNext DEF PipelineInv
<1>3. QED BY <1>1, <1>2, PTL DEF Spec

(* The documents of every conversation name one another, and a handoff that   *)
(* is marked, or that a conversation at rest is left with, has told every     *)
(* department of the order (graph2.create_sales_order, dispatch_handoff); a   *)
(* lead closed lost is not won by a later event (CRMService.close_lost,       *)
(* mark_order_won).                                                           *)
THEOREM ConversationsKeepTheirPapers == Spec => []SalesInv
<1>1. PipelineInv => SalesInv
  <2>1. SUFFICES ASSUME PipelineInv PROVE HandedOffToAll /\ LostStaysLost
    BY DEF PipelineInv, BaseInv, RunsInv, SalesInv
  <2>2. ASSUME NEW t \in Threads, NEW i \in DOMAIN handoffs[t]
        PROVE  /\ \E j \in DOMAIN orders[t] : orders[t][j] = handoffs[t][i].po
               /\ handoffs[t][i].marked => handoffs[t][i].told = Departments
    BY <2>1 DEF PipelineInv, BaseInv, HandoffsAgree, Ordered
  <2>3. ASSUME NEW t \in Threads, checkpoint[t] # None, checkpoint[t].status = "handed_off", t \notin disturbed
        PROVE  \E i \in DOMAIN handoffs[t] :
                 handoffs[t][i].marked /\ handoffs[t][i].po = orders[t][Len(orders[t])]
    BY <2>1, <2>3 DEF PipelineInv, UndisturbedInv, Undisturbed, Sound
  <2>4. LostStaysLost
    BY <2>1 DEF PipelineInv, UndisturbedInv, Undisturbed, Closing, LostStaysLost
  <2>5. QED BY <2>2, <2>3, <2>4 DEF HandedOffToAll
<1>2. QED BY <1>1, PipelineInvariant, PTL

(* No stock row is promised beyond what it holds, and every order holds its   *)
(* whole quantity, exactly once unless two runs of its conversation           *)
(* overlapped (reserve_inventory, create_sales_order).                        *)
THEOREM OrdersAreReserved == Spec => []OrderReserved
<1>1. PipelineInv => OrderReserved
  <2>1. SUFFICES ASSUME PipelineInv PROVE OrderReserved
    OBVIOUS
  <2>2. \A row \in Rows : Total({r \in reserved : r.row = row}) <= Stock[row]
    BY <2>1 DEF PipelineInv, StockInv, NotOversold
  <2>3. ASSUME NEW t \in Threads, NEW i \in DOMAIN orders[t]
        PROVE  /\ Total(Held(t, orders[t][i])) >= Quantity
               /\ t \notin disturbed => Total(Held(t, orders[t][i])) = Quantity
    <3>1. PICK po : po = orders[t][i]
      OBVIOUS
    <3>2. po \in Nat
      <4>1. orders[t] \in Seq(Nat)
        BY <2>1 DEF PipelineInv, BaseInv, RunsInv, TypeOK
      <4>2. QED BY <3>1, <4>1
    <3>3. Held(t, po) # {}
      BY <2>1, <3>1 DEF PipelineInv, StockInv, OrdersHeld
    <3>4. Total(Held(t, po)) >= Quantity
      BY <2>1, <3>2, <3>3 DEF PipelineInv, StockInv, HeldWhole
    <3>5. t \notin disturbed => Total(Held(t, po)) = Quantity
      BY <2>1, <3>2, <3>3 DEF PipelineInv, UndisturbedInv, Undisturbed, Papers, HeldOnce
    <3>6. QED BY <3>1, <3>4, <3>5
  <2>4. QED BY <2>2, <2>3 DEF OrderReserved
<1>2. QED BY <1>1, PipelineInvariant, PTL

(* An order is confirmed once, and only for a purchase order that agreed with *)
(* its quotation or whose differences and credit a human approved             *)
(* (validate_po, revalidate_order_state, process_pipeline_approval).          *)
THEOREM OrdersAreApproved == Spec => []OrderApproved
<1>1. PipelineInv => OrderApproved
  BY DEF PipelineInv, UndisturbedInv, Undisturbed, Papers, OrdersApproved, OrderApproved
<1>2. QED BY <1>1, PipelineInvariant, PTL

(* No price leaves without the approval it needs: a quotation only after a    *)
(* human approved this very price, a lower price only within the automatic    *)
(* limit or after such an approval (compute_pricing, dispatch_quotation,      *)
(* evaluate_counteroffer, prepare_revised_quotation).                         *)
THEOREM PricesAreAuthorised == Spec => []PricesAuthorised
<1>1. PipelineInv => QuoteApproved
  BY DEF PipelineInv, UndisturbedInv, Undisturbed, Papers, QuotesApproved, QuoteApproved
<1>2. PipelineInv => RevisionAuthorised
  BY DEF PipelineInv, UndisturbedInv, Undisturbed, Papers, RevisionsAuthorised, RevisionAuthorised
<1>3. PipelineInv => PricesAuthorised
  BY <1>1, <1>2 DEF PricesAuthorised
<1>4. QED BY <1>3, PipelineInvariant, PTL

-----------------------------------------------------------------------------
(* The conversation as SoundDeal sees it.  What a step does to the one it     *)
(* works on, and what SoundDeal calls that.                                   *)
SameQuotes(t) == QuotedOf(t)' = QuotedOf(t)
SameDeals(t) == /\ DOMAIN purchases'[t] = DOMAIN purchases[t]
                /\ \A i \in DOMAIN purchases[t] : DealOf(t, i)' = DealOf(t, i)
SameView(t) == SameQuotes(t) /\ SameDeals(t)

QuotesPrice(t) ==
  /\ \E q : QuotedOf(t)' = QuotedOf(t) \cup {q} /\ (q.price \in Large => q.approved)
  /\ SameDeals(t)
ReceivesOrder(t) ==
  /\ \E n \in Nat, m \in Nat :
       /\ m = n + 1 /\ DOMAIN purchases[t] = 1 .. n /\ DOMAIN purchases'[t] = 1 .. m
       /\ \E price : DealOf(t, m)' = Deal!NewDeal(price)
  /\ \A i \in DOMAIN purchases[t] : DealOf(t, i)' = DealOf(t, i)
  /\ SameQuotes(t)
MovesOn(t, d, e) ==
  \/ /\ ~ d.held /\ ~ d.ordered
     /\ \/ d.cleared /\ e = [d EXCEPT !.cleared = FALSE]
        \/ /\ ~ d.cleared /\ \E q \in QuotedOf(t) : q.price = d.price
           /\ e = [d EXCEPT !.cleared = TRUE]
  \/ d.cleared /\ ~ d.held /\ e = [d EXCEPT !.held = TRUE]
  \/ d.cleared /\ d.held /\ ~ d.ordered /\ e = [d EXCEPT !.ordered = TRUE]
  \/ d.ordered /\ ~ d.handed /\ e = [d EXCEPT !.handed = TRUE]
ChangesDeal(t) ==
  \E i \in DOMAIN purchases[t] :
    /\ MovesOn(t, DealOf(t, i), DealOf(t, i)')
    /\ DOMAIN purchases'[t] = DOMAIN purchases[t]
    /\ \A j \in DOMAIN purchases[t] : j # i => DealOf(t, j)' = DealOf(t, j)
    /\ SameQuotes(t)
DealStep(t) == SameView(t) \/ QuotesPrice(t) \/ ReceivesOrder(t) \/ ChangesDeal(t)

(* A conversation no step touches looks the same.                             *)
LEMMA SameIsSeen == ASSUME NEW t, SamePapers(t) PROVE SameView(t)
<1>1. QuotedOf(t)' = QuotedOf(t)
  BY DEF SamePapers, QuotedOf
<1>2. \A i : Held(t, i)' = Held(t, i)
  BY DEF SamePapers, Held
<1>3. \A i : DealOf(t, i)' = DealOf(t, i)
  BY <1>2 DEF SamePapers, DealOf, Cleared
<1>4. QED BY <1>1, <1>3 DEF SamePapers, SameView, SameQuotes, SameDeals

(* What is seen of a conversation nobody disturbed.                           *)
LEMMA SeenIs ==
  ASSUME NEW t \in Threads \ disturbed
  PROVE  /\ QuotedPrices[t] = QuotedOf(t)
         /\ PurchaseDeals[t] = [i \in DOMAIN purchases[t] |-> DealOf(t, i)]
         /\ DOMAIN PurchaseDeals[t] = DOMAIN purchases[t]
         /\ \A i \in DOMAIN purchases[t] : PurchaseDeals[t][i] = DealOf(t, i)
  BY DEF QuotedPrices, PurchaseDeals

(* When one conversation changes the others look the same.                    *)
OthersLookTheSame(t) ==
  disturbed' = disturbed /\ \A u \in Threads \ disturbed : u # t => SameView(u) /\ closed'[u] = closed[u]

LEMMA OthersStay ==
  ASSUME NEW t \in Threads \ disturbed, OthersLookTheSame(t)
  PROVE  /\ QuotedPrices' = [QuotedPrices EXCEPT ![t] = QuotedOf(t)']
         /\ PurchaseDeals' = [PurchaseDeals EXCEPT ![t] = [i \in DOMAIN purchases'[t] |-> DealOf(t, i)']]
         /\ closed'[t] = closed[t] => LostThreads' = LostThreads
         /\ closed'[t] => LostThreads' = LostThreads \cup {t}
         /\ ~ closed'[t] => LostThreads' = LostThreads \ {t}
<1>1. QuotedPrices' = [QuotedPrices EXCEPT ![t] = QuotedOf(t)']
  BY DEF OthersLookTheSame, QuotedPrices, SameView, SameQuotes
<1>2. PurchaseDeals' = [PurchaseDeals EXCEPT ![t] = [i \in DOMAIN purchases'[t] |-> DealOf(t, i)']]
  <2>1. ASSUME NEW u \in Threads, u # t
        PROVE  PurchaseDeals'[u] = PurchaseDeals[u]
    BY <2>1 DEF OthersLookTheSame, PurchaseDeals, SameView, SameDeals
  <2>2. PurchaseDeals'[t] = [i \in DOMAIN purchases'[t] |-> DealOf(t, i)']
    BY DEF OthersLookTheSame, PurchaseDeals
  <2>3. PurchaseDeals = [u \in Threads |-> PurchaseDeals[u]] /\ PurchaseDeals' = [u \in Threads |-> PurchaseDeals'[u]]
    BY DEF PurchaseDeals
  <2>4. QED BY <2>1, <2>2, <2>3
<1>3. /\ closed'[t] = closed[t] => LostThreads' = LostThreads
      /\ closed'[t] => LostThreads' = LostThreads \cup {t}
      /\ ~ closed'[t] => LostThreads' = LostThreads \ {t}
  BY DEF OthersLookTheSame, LostThreads
<1>4. QED BY <1>1, <1>2, <1>3

(* A sequence that a function extends by one is appended to.                  *)
LEMMA AppendIs ==
  ASSUME NEW T, NEW n \in Nat, NEW f \in [1 .. n -> T], NEW g \in [1 .. n + 1 -> T],
         \A i \in 1 .. n : g[i] = f[i]
  PROVE  g = Append(f, g[n + 1])
<1>1. f \in Seq(T) /\ Len(f) = n /\ g[n + 1] \in T
  OBVIOUS
<1>2. Append(f, g[n + 1]) = [i \in 1 .. n + 1 |-> IF i = n + 1 THEN g[n + 1] ELSE f[i]]
  BY <1>1
<1>3. \A i \in 1 .. n + 1 : g[i] = IF i = n + 1 THEN g[n + 1] ELSE f[i]
  OBVIOUS
<1>4. QED BY <1>2, <1>3

(* Every step of a run on a conversation is one of SoundDeal's, or none.      *)
LEMMA DealStepIsSound ==
  ASSUME NEW t \in Threads \ disturbed, OthersLookTheSame(t), ~ closed[t], closed'[t] = closed[t], DealStep(t)
  PROVE  [Deal!Next]_Deal!dealVars
<1>1. /\ QuotedPrices' = [QuotedPrices EXCEPT ![t] = QuotedOf(t)']
      /\ PurchaseDeals' = [PurchaseDeals EXCEPT ![t] = [i \in DOMAIN purchases'[t] |-> DealOf(t, i)']]
      /\ LostThreads' = LostThreads /\ disturbed' = disturbed
  BY OthersStay DEF OthersLookTheSame
<1>2. /\ QuotedPrices[t] = QuotedOf(t) /\ t \notin LostThreads
      /\ PurchaseDeals[t] = [i \in DOMAIN purchases[t] |-> DealOf(t, i)]
      /\ DOMAIN PurchaseDeals[t] = DOMAIN purchases[t]
      /\ \A i \in DOMAIN purchases[t] : PurchaseDeals[t][i] = DealOf(t, i)
  BY SeenIs DEF LostThreads
<1>3. /\ QuotedPrices = [u \in Threads |-> QuotedPrices[u]]
      /\ PurchaseDeals = [u \in Threads |-> PurchaseDeals[u]]
  BY DEF QuotedPrices, PurchaseDeals
<1>4. /\ SameQuotes(t) => QuotedPrices' = QuotedPrices
      /\ SameDeals(t) => PurchaseDeals' = PurchaseDeals
  BY <1>1, <1>2, <1>3, ZenonT(60) DEF SameQuotes, SameDeals
<1>5. CASE SameView(t)
  BY <1>1, <1>4, <1>5 DEF SameView, Deal!dealVars
<1>6. CASE QuotesPrice(t)
  <2>1. PICK q : QuotedOf(t)' = QuotedOf(t) \cup {q} /\ (q.price \in Large => q.approved)
    BY <1>6 DEF QuotesPrice
  <2>2. Deal!Quote(t, q)
    BY <1>1, <1>2, <1>4, <1>6, <2>1 DEF QuotesPrice, Deal!Quote
  <2>3. q \in QuotedPrices'[t]
    BY <1>1, <1>3, <2>1
  <2>4. QED BY <1>2, <2>2, <2>3 DEF Deal!Next
<1>7. CASE ReceivesOrder(t)
  <2>1. PICK n, m, price :
          /\ n \in Nat /\ m \in Nat
          /\ m = n + 1 /\ DOMAIN purchases[t] = 1 .. n /\ DOMAIN purchases'[t] = 1 .. m
          /\ DealOf(t, m)' = Deal!NewDeal(price)
    BY <1>7 DEF ReceivesOrder
  <2>2. PICK f, g : f = PurchaseDeals[t] /\ g = PurchaseDeals'[t]
    OBVIOUS
  <2>3. f = [i \in 1 .. n |-> DealOf(t, i)] /\ g = [i \in 1 .. m |-> DealOf(t, i)']
    BY <1>1, <1>2, <1>3, <2>1, <2>2
  <2>4. \A i \in 1 .. n : i \in 1 .. m /\ g[i] = f[i]
    BY <1>7, <2>1, <2>3 DEF ReceivesOrder
  <2>5. PICK T : T = {f[i] : i \in 1 .. n} \cup {g[i] : i \in 1 .. m}
    OBVIOUS
  <2>6. f \in [1 .. n -> T] /\ g \in [1 .. m -> T] /\ DOMAIN g = 1 .. m
    BY <2>3, <2>5
  <2>7. g[m] = Deal!NewDeal(price) /\ m \in DOMAIN g
    <3>1. m \in 1 .. m
      BY <2>1
    <3>2. g[m] = DealOf(t, m)'
      BY <2>3, <3>1
    <3>3. QED BY <2>1, <2>6, <3>1, <3>2
  <2>8. g = Append(f, Deal!NewDeal(price))
    BY <2>1, <2>4, <2>6, <2>7, AppendIs
  <2>9. PurchaseDeals' = [PurchaseDeals EXCEPT ![t] = Append(@, Deal!NewDeal(price))]
    BY <1>1, <1>3, <2>2, <2>8
  <2>10. Deal!Receive(t, price)
    BY <1>1, <1>4, <1>7, <2>9 DEF ReceivesOrder, Deal!Receive
  <2>11. PICK d : d = g[m]
    OBVIOUS
  <2>12. d \in {PurchaseDeals'[t][i] : i \in DOMAIN PurchaseDeals'[t]} /\ d.price = price
    BY <2>2, <2>7, <2>11 DEF Deal!NewDeal
  <2>13. QED BY <1>2, <2>10, <2>12 DEF Deal!Next
<1>8. CASE ChangesDeal(t)
  <2>1. PICK i \in DOMAIN purchases[t] :
          /\ MovesOn(t, DealOf(t, i), DealOf(t, i)')
          /\ DOMAIN purchases'[t] = DOMAIN purchases[t]
          /\ \A j \in DOMAIN purchases[t] : j # i => DealOf(t, j)' = DealOf(t, j)
          /\ SameQuotes(t)
    BY <1>8 DEF ChangesDeal
  <2>2. PICK d, e : d = DealOf(t, i) /\ e = DealOf(t, i)'
    OBVIOUS
  <2>3. PurchaseDeals[t][i] = d /\ i \in DOMAIN PurchaseDeals[t]
    BY <1>2, <2>2
  <2>4. PurchaseDeals'[t] = [PurchaseDeals[t] EXCEPT ![i] = e]
    <3>1. PurchaseDeals'[t] = [j \in DOMAIN purchases[t] |-> DealOf(t, j)']
      BY <1>1, <1>3, <2>1
    <3>2. QED BY <1>2, <2>1, <2>2, <3>1
  <2>5. PurchaseDeals' = [PurchaseDeals EXCEPT ![t][i] = e]
    BY <1>1, <1>3, <2>4
  <2>6. Deal!Becomes(t, i, e)
    BY <1>1, <1>4, <2>1, <2>5 DEF Deal!Becomes
  <2>7. Deal!Judge(t, i) \/ Deal!Hold(t, i) \/ Deal!Confirm(t, i) \/ Deal!HandOff(t, i)
    BY <1>2, <2>1, <2>2, <2>3, <2>6 DEF MovesOn, Deal!Judge, Deal!Hold, Deal!Confirm, Deal!HandOff
  <2>8. QED BY <1>2, <2>3, <2>7 DEF Deal!Next
<1>9. QED BY <1>5, <1>6, <1>7, <1>8 DEF DealStep

(* Nothing is seen of a step that leaves every undisturbed conversation as it *)
(* is; and one that disturbs a conversation lets it come loose.               *)
LEMMA NothingIsSeen ==
  ASSUME disturbed' = disturbed, \A u \in Threads \ disturbed : SameView(u) /\ closed'[u] = closed[u]
  PROVE  [Deal!Next]_Deal!dealVars
<1>1. QuotedPrices' = QuotedPrices
  BY DEF QuotedPrices, SameView, SameQuotes
<1>2. PurchaseDeals' = PurchaseDeals
  <2>1. \A u \in Threads : PurchaseDeals'[u] = PurchaseDeals[u]
    BY DEF PurchaseDeals, SameView, SameDeals
  <2>2. PurchaseDeals = [u \in Threads |-> PurchaseDeals[u]] /\ PurchaseDeals' = [u \in Threads |-> PurchaseDeals'[u]]
    BY DEF PurchaseDeals
  <2>3. QED BY <2>1, <2>2
<1>3. LostThreads' = LostThreads
  BY DEF LostThreads
<1>4. QED BY <1>1, <1>2, <1>3 DEF Deal!dealVars

LEMMA ComingLoose ==
  ASSUME NEW t \in Threads, disturbed' = disturbed \cup {t},
         \A u \in Threads \ disturbed : u # t => SameView(u) /\ closed'[u] = closed[u]
  PROVE  [Deal!Next]_Deal!dealVars
<1>1. CASE t \in disturbed
  <2>1. disturbed' = disturbed
    BY <1>1
  <2>2. QED BY <1>1, <2>1, NothingIsSeen
<1>2. CASE t \notin disturbed
  <2>1. QuotedPrices' = [QuotedPrices EXCEPT ![t] = {}]
    BY <1>2 DEF QuotedPrices, SameView, SameQuotes
  <2>2. PurchaseDeals' = [PurchaseDeals EXCEPT ![t] = << >>]
    <3>1. \A u \in Threads : PurchaseDeals'[u] = IF u = t THEN << >> ELSE PurchaseDeals[u]
      BY <1>2 DEF PurchaseDeals, SameView, SameDeals
    <3>2. PurchaseDeals = [u \in Threads |-> PurchaseDeals[u]] /\ PurchaseDeals' = [u \in Threads |-> PurchaseDeals'[u]]
      BY DEF PurchaseDeals
    <3>3. QED BY <3>1, <3>2
  <2>3. LostThreads' = LostThreads \ {t}
    BY <1>2 DEF LostThreads
  <2>4. Deal!ComesLoose(t)
    BY <2>1, <2>2, <2>3 DEF Deal!ComesLoose
  <2>5. QED BY <1>2, <2>4 DEF Deal!Next
<1>3. QED BY <1>1, <1>2

-----------------------------------------------------------------------------
(* What the nodes do to the conversation that is seen                         *)

LEMMA DealsStay ==
  ASSUME NEW t, UNCHANGED <<purchases, orders, reserved, handoffs>>
  PROVE  SameDeals(t)
  BY DEF SameDeals, DealOf, Held, Cleared

LEMMA QuotesStay == ASSUME NEW t, UNCHANGED quotes PROVE SameQuotes(t)
  BY DEF SameQuotes, QuotedOf

(* What is seen of a purchase order, field by field, before a step and after. *)
LEMMA DealBefore ==
  ASSUME NEW t, NEW i
  PROVE  \E c \in BOOLEAN, h \in BOOLEAN, o \in BOOLEAN, f \in BOOLEAN :
           /\ c = Cleared(purchases[t][i]) /\ h = (Held(t, i) # {})
           /\ o = Ordered(t, i) /\ f = Marked(t, i)
           /\ DealOf(t, i) = [price |-> purchases[t][i].price, cleared |-> c, held |-> h,
                              ordered |-> o, handed |-> f]
<1>1. PICK c \in BOOLEAN, h \in BOOLEAN, o \in BOOLEAN, f \in BOOLEAN :
        /\ c = Cleared(purchases[t][i]) /\ h = (Held(t, i) # {})
        /\ o = Ordered(t, i) /\ f = Marked(t, i)
  BY Zenon DEF Ordered, Marked, Cleared
<1>2. DealOf(t, i) = [price |-> purchases[t][i].price, cleared |-> c, held |-> h, ordered |-> o, handed |-> f]
  BY <1>1, Zenon DEF DealOf, Ordered, Marked
<1>3. QED BY <1>1, <1>2

LEMMA DealAfter ==
  ASSUME NEW t, NEW i
  PROVE  \E c \in BOOLEAN, h \in BOOLEAN, o \in BOOLEAN, f \in BOOLEAN :
           /\ c = Cleared(purchases'[t][i]) /\ h = (Held(t, i)' # {})
           /\ o = Ordered(t, i)' /\ f = Marked(t, i)'
           /\ DealOf(t, i)' = [price |-> purchases'[t][i].price, cleared |-> c, held |-> h,
                               ordered |-> o, handed |-> f]
<1>1. PICK c \in BOOLEAN, h \in BOOLEAN, o \in BOOLEAN, f \in BOOLEAN :
        /\ c = Cleared(purchases'[t][i]) /\ h = (Held(t, i)' # {})
        /\ o = Ordered(t, i)' /\ f = Marked(t, i)'
  BY Zenon DEF Ordered, Marked, Cleared
<1>2. DealOf(t, i)' = [price |-> purchases'[t][i].price, cleared |-> Cleared(purchases'[t][i]),
                       held |-> Held(t, i)' # {}, ordered |-> Ordered(t, i)', handed |-> Marked(t, i)']
  BY Zenon DEF DealOf, Ordered, Marked, Cleared
<1>3. QED BY <1>1, <1>2, Zenon

(* A judgement of a purchase order nothing is held for.                       *)
LEMMA Judged ==
  ASSUME NEW t, UNCHANGED <<quotes, orders, reserved, handoffs>>, NEW i \in DOMAIN purchases[t],
         DOMAIN purchases'[t] = DOMAIN purchases[t], purchases'[t][i].price = purchases[t][i].price,
         \A j \in DOMAIN purchases[t] : j # i => purchases'[t][j] = purchases[t][j],
         Firm(t, i) => purchases'[t][i] = purchases[t][i],
         NEW n \in DOMAIN quotes[t],
         Cleared(purchases'[t][i]) /\ ~ Cleared(purchases[t][i]) =>
           purchases[t][i].price = quotes[t][n].price
  PROVE  DealStep(t)
<1>1. PICK c \in BOOLEAN, h \in BOOLEAN, o \in BOOLEAN, f \in BOOLEAN :
        /\ c = Cleared(purchases[t][i]) /\ h = (Held(t, i) # {})
        /\ o = Ordered(t, i) /\ f = Marked(t, i)
        /\ DealOf(t, i) = [price |-> purchases[t][i].price, cleared |-> c, held |-> h,
                           ordered |-> o, handed |-> f]
  BY DealBefore
<1>2. PICK b \in BOOLEAN, g \in BOOLEAN, p \in BOOLEAN, m \in BOOLEAN :
        /\ b = Cleared(purchases'[t][i]) /\ g = (Held(t, i)' # {})
        /\ p = Ordered(t, i)' /\ m = Marked(t, i)'
        /\ DealOf(t, i)' = [price |-> purchases'[t][i].price, cleared |-> b, held |-> g,
                            ordered |-> p, handed |-> m]
  BY DealAfter
<1>3. /\ Held(t, i)' = Held(t, i) /\ Ordered(t, i)' = Ordered(t, i) /\ Marked(t, i)' = Marked(t, i)
      /\ SameQuotes(t)
  BY QuotesStay DEF Held, Ordered, Marked
<1>4. g = h /\ p = o /\ m = f
  BY <1>1, <1>2, <1>3, Zenon
<1>5. \A j \in DOMAIN purchases[t] : j # i => DealOf(t, j)' = DealOf(t, j)
  BY DEF DealOf, Held, Cleared
<1>6. PICK d, e : d = DealOf(t, i) /\ e = DealOf(t, i)'
  OBVIOUS
<1>7. /\ d = [price |-> purchases[t][i].price, cleared |-> c, held |-> h, ordered |-> o, handed |-> f]
      /\ e = [price |-> purchases[t][i].price, cleared |-> b, held |-> h, ordered |-> o, handed |-> f]
  BY <1>1, <1>2, <1>4, <1>6
<1>8. CASE b = c
  BY <1>3, <1>5, <1>6, <1>7, <1>8 DEF DealStep, SameView, SameDeals
<1>9. CASE b # c
  <2>1. h = FALSE /\ o = FALSE
    <3>1. ~ Firm(t, i)
      BY <1>1, <1>2, <1>9, Zenon
    <3>2. QED BY <1>1, <3>1 DEF Firm
  <2>2. b => \E q \in QuotedOf(t) : q.price = purchases[t][i].price
    <3>1. b => purchases[t][i].price = quotes[t][n].price
      BY <1>1, <1>2, <1>9, Zenon
    <3>2. PICK q : q = [price |-> quotes[t][n].price, approved |-> quotes[t][n].approved]
      OBVIOUS
    <3>3. q \in QuotedOf(t) /\ q.price = quotes[t][n].price
      BY <3>2 DEF QuotedOf
    <3>4. QED BY <3>1, <3>3
  <2>3. e = [d EXCEPT !.cleared = b]
    BY <1>7
  <2>4. MovesOn(t, d, e)
    <3>1. CASE b
      <4>1. b = TRUE /\ c = FALSE
        BY <1>9, <3>1
      <4>2. QED BY <1>7, <2>1, <2>2, <2>3, <4>1 DEF MovesOn
    <3>2. CASE ~ b
      <4>1. b = FALSE /\ c = TRUE
        BY <1>9, <3>2
      <4>2. QED BY <1>7, <2>1, <2>3, <4>1 DEF MovesOn
    <3>3. QED BY <3>1, <3>2
  <2>5. QED BY <1>3, <1>5, <1>6, <2>4 DEF DealStep, ChangesDeal
<1>10. QED BY <1>8, <1>9

(* A quotation is made:                                                       *)
LEMMA GenerateQuotationDeals ==
  ASSUME BaseInv, NEW k \in Tasks, NEW t \in Threads, t = Thread(k), Undisturbed(t), GenerateQuotation(k)
  PROVE  DealStep(t)
<1>0. /\ RunsInv /\ quotes \in [Threads -> Seq(QuoteType)] /\ task[k].pc = "generate_quotation" /\ Running(k)
      /\ UNCHANGED <<purchases, orders, reserved, handoffs>>
  BY DEF BaseInv, RunsInv, TypeOK, GenerateQuotation, At, Running
<1>1. SameDeals(t)
  BY <1>0, DealsStay
<1>2. S(k).price \in Large => task[k].approved = "pricing" /\ task[k].seen = S(k).price
  BY <1>0, RunIsSound DEF NodeSound
<1>3. CASE UNCHANGED quotes
  BY <1>1, <1>3, QuotesStay DEF DealStep, SameView
<1>4. CASE quotes' = [quotes EXCEPT ![t] = Append(@,
             [price |-> S(k).price, sends |-> 0, delivery |-> "none",
              approved |-> task[k].approved = "pricing" /\ task[k].seen = S(k).price])]
  <2>1. PICK q : q = [price |-> S(k).price, sends |-> 0, delivery |-> "none",
                      approved |-> task[k].approved = "pricing" /\ task[k].seen = S(k).price]
    OBVIOUS
  <2>2. q \in QuoteType
    <3>1. S(k) \in StateType
      BY <1>0, StateOf DEF RunsInv
    <3>2. QED BY <2>1, <3>1 DEF QuoteType, StateType
  <2>3. q.price \in Large => q.approved
    BY <1>2, <2>1
  <2>4. quotes' = [quotes EXCEPT ![t] = Append(@, q)]
    BY <1>4, <2>1
  <2>5. PICK n : n = Len(quotes[t]) + 1
    OBVIOUS
  <2>6. /\ DOMAIN quotes[t] = 1 .. Len(quotes[t]) /\ DOMAIN quotes'[t] = 1 .. n /\ n = Len(quotes[t]) + 1
        /\ Len(quotes[t]) \in Nat /\ quotes'[t][n] = q
        /\ \A i \in DOMAIN quotes[t] : quotes'[t][i] = quotes[t][i]
    BY <1>0, <2>2, <2>4, <2>5, Appended
  <2>7. DOMAIN quotes'[t] = DOMAIN quotes[t] \cup {n}
    BY <2>6
  <2>8. PICK v : v = [price |-> q.price, approved |-> q.approved]
    OBVIOUS
  <2>9. QuotedOf(t)' = QuotedOf(t) \cup {v}
    BY <2>6, <2>7, <2>8 DEF QuotedOf
  <2>10. QED BY <1>1, <2>3, <2>8, <2>9 DEF DealStep, QuotesPrice
<1>5. QED BY <1>3, <1>4 DEF GenerateQuotation

(* its delivery is not seen;                                                  *)
LEMMA DeliveryDeals ==
  ASSUME BaseInv, NEW k \in Tasks, NEW t \in Threads, t = Thread(k), DispatchQuotation(k) \/ SendQuotation(k)
  PROVE  SameView(t)
<1>1. /\ RunsInv /\ Running(k) /\ UNCHANGED <<purchases, orders, reserved, handoffs>>
      /\ UNCHANGED quotes \/ (S(k).quote # 0 /\ \E delivery, sent : Delivered(k, delivery, sent))
  <2>1. RunsInv /\ Running(k) /\ UNCHANGED <<purchases, orders, reserved, handoffs>>
    BY DEF BaseInv, DispatchQuotation, SendQuotation, At, Running
  <2>2. CASE DispatchQuotation(k)
    BY <2>1, <2>2 DEF DispatchQuotation
  <2>3. CASE SendQuotation(k)
    <3>1. task[k].pc = "send_quotation" /\ \E delivery, sent : Delivered(k, delivery, sent)
      BY <2>3 DEF SendQuotation, At
    <3>2. S(k).quote # 0
      BY <2>1, <3>1, RunFacts DEF Documented
    <3>3. QED BY <2>1, <3>1, <3>2
  <2>4. QED BY <2>2, <2>3
<1>2. SameQuotes(t)
  <2>1. CASE UNCHANGED quotes
    BY <2>1, QuotesStay
  <2>2. ASSUME NEW delivery, NEW sent, S(k).quote # 0, Delivered(k, delivery, sent)
        PROVE  SameQuotes(t)
    <3>1. /\ DOMAIN quotes'[t] = DOMAIN quotes[t]
          /\ \A i \in DOMAIN quotes[t] : /\ quotes'[t][i].price = quotes[t][i].price
                                         /\ quotes'[t][i].approved = quotes[t][i].approved
      BY <1>1, <2>2, DeliveredKeeps
    <3>2. QED BY <3>1 DEF SameQuotes, QuotedOf
  <2>3. QED BY <1>1, <2>1, <2>2
<1>3. QED BY <1>1, <1>2, DealsStay DEF SameView

(* a purchase order comes in;                                                 *)
LEMMA ExtractPoFieldsDeals ==
  ASSUME BaseInv, NEW k \in Tasks, NEW t \in Threads, t = Thread(k), Undisturbed(t), ExtractPoFields(k)
  PROVE  DealStep(t)
<1>0. /\ RunsInv /\ DocumentsAgree /\ HandoffsAgree /\ Running(k) /\ purchases \in [Threads -> Seq(PurchaseType)]
      /\ UNCHANGED <<quotes, orders, reserved, handoffs>>
  BY DEF BaseInv, RunsInv, TypeOK, ExtractPoFields, At, Running
<1>1. SameQuotes(t)
  BY <1>0, QuotesStay
<1>2. CASE UNCHANGED purchases
  BY <1>0, <1>1, <1>2, DealsStay DEF DealStep, SameView
<1>3. ASSUME NEW price \in {QuotedPrice(t, S(k)), S(k).offer},
             purchases' = [purchases EXCEPT ![t] = Append(@,
               [price |-> price, verdict |-> "new", credit |-> FALSE, granted |-> {}])]
      PROVE  DealStep(t)
  <2>1. PICK p : p = [price |-> price, verdict |-> "new", credit |-> FALSE, granted |-> {}]
    OBVIOUS
  <2>2. p \in PurchaseType /\ p.price = price /\ ~ Cleared(p)
    <3>1. S(k) \in StateType /\ QuotedPrice(t, S(k)) \in PriceOrNot
      BY <1>0, StateOf, RunFacts, QuotedPriceTyped DEF RunsInv
    <3>2. QED BY <1>3, <2>1, <3>1 DEF PurchaseType, StateType, Cleared
  <2>3. purchases' = [purchases EXCEPT ![t] = Append(@, p)]
    BY <1>3, <2>1
  <2>4. PICK n, m : n = Len(purchases[t]) /\ m = n + 1
    OBVIOUS
  <2>5. /\ n \in Nat /\ m \in Nat /\ DOMAIN purchases[t] = 1 .. n /\ DOMAIN purchases'[t] = 1 .. m
        /\ \A i \in DOMAIN purchases[t] : purchases'[t][i] = purchases[t][i]
        /\ purchases'[t][m] = p
    BY <1>0, <2>2, <2>3, <2>4, Appended
  <2>6. \A i \in DOMAIN purchases[t] : DealOf(t, i)' = DealOf(t, i)
    BY <1>0, <2>5, ZenonT(60) DEF DealOf, Held, Cleared
  <2>7. m \notin DOMAIN purchases[t]
    BY <2>4, <2>5
  <2>8. ~ Firm(t, m) /\ ~ Ordered(t, m)
    BY <1>0, <2>7, OrderedExists DEF Firm
  <2>9. \A j \in DOMAIN handoffs[t] : handoffs[t][j].po # m
    BY <1>0, <2>8 DEF HandoffsAgree
  <2>10. DealOf(t, m)' = Deal!NewDeal(price)
    <3>1. PICK c \in BOOLEAN, h \in BOOLEAN, o \in BOOLEAN, f \in BOOLEAN :
            /\ c = Cleared(purchases'[t][m]) /\ h = (Held(t, m)' # {})
            /\ o = Ordered(t, m)' /\ f = Marked(t, m)'
            /\ DealOf(t, m)' = [price |-> purchases'[t][m].price, cleared |-> c, held |-> h,
                                ordered |-> o, handed |-> f]
      BY DealAfter
    <3>2. /\ ~ Held(t, m)' # {} /\ ~ Ordered(t, m)' /\ ~ Marked(t, m)'
          /\ purchases'[t][m].price = price /\ ~ Cleared(purchases'[t][m])
      BY <1>0, <2>2, <2>5, <2>8, <2>9 DEF Firm, Held, Ordered, Marked
    <3>3. c = FALSE /\ h = FALSE /\ o = FALSE /\ f = FALSE
      BY <3>1, <3>2
    <3>4. QED BY <3>1, <3>2, <3>3 DEF Deal!NewDeal
  <2>11. QED BY <1>1, <2>4, <2>5, <2>6, <2>10 DEF DealStep, ReceivesOrder
<1>4. QED BY <1>2, <1>3 DEF ExtractPoFields

(* is compared with the quotation                                             *)
LEMMA ValidatePoDeals ==
  ASSUME BaseInv, NEW k \in Tasks, NEW t \in Threads, t = Thread(k), Undisturbed(t), ValidatePo(k)
  PROVE  DealStep(t)
<1>0. /\ RunsInv /\ Running(k) /\ UNCHANGED <<quotes, revised, orders, reserved, handoffs, lead>>
  BY ValidatePoCases DEF BaseInv, At, Running
<1>1. CASE UNCHANGED purchases
  BY <1>0, <1>1, QuotesStay, DealsStay DEF DealStep, SameView
<1>2. ASSUME NEW v, Compares(k, v) PROVE DealStep(t)
  <2>1. PICK s \in StateType : s = S(k)
    BY <1>0, RunFacts
  <2>2. /\ s.po \in DOMAIN purchases[t] /\ s.quote # 0
        /\ v \in {"ok", "review", "price", "other"}
        /\ v \in Verdicts(purchases[t][s.po], quotes[t][s.quote].price)
        /\ DOMAIN purchases'[t] = DOMAIN purchases[t]
        /\ purchases'[t][s.po].verdict = v
        /\ purchases'[t][s.po].price = purchases[t][s.po].price
        /\ \A i \in DOMAIN purchases[t] : i # s.po => purchases'[t][i] = purchases[t][i]
        /\ \A po : Firm(t, po) => purchases'[t][po] = purchases[t][po]
    BY <1>0, <1>2, <2>1, ComparedPurchase
  <2>3. s.quote \in DOMAIN quotes[t]
    <3>1. s.quote \in 0 .. Len(quotes[t]) /\ quotes[t] \in Seq(QuoteType)
      BY <1>0, <2>1, RunFacts DEF Known, RunsInv, TypeOK
    <3>2. QED BY <2>2, <3>1
  <2>4. Cleared(purchases'[t][s.po]) => purchases[t][s.po].price = quotes[t][s.quote].price
    BY <2>2 DEF Cleared, Verdicts
  <2>5. QED BY <1>0, <2>2, <2>3, <2>4, Judged
<1>3. QED BY <1>1, <1>2, ValidatePoCases

(* and validated again;                                                       *)
LEMMA RevalidateDeals ==
  ASSUME BaseInv, NEW k \in Tasks, NEW t \in Threads, t = Thread(k), Undisturbed(t), RevalidateOrderState(k)
  PROVE  DealStep(t)
<1>0. /\ RunsInv /\ UNCHANGED <<quotes, revised, orders, reserved, handoffs, lead>>
      /\ Running(k) /\ task[k].pc = "revalidate_order_state"
  BY RevalidateCases DEF BaseInv, At, Running
<1>1. CASE UNCHANGED purchases
  BY <1>0, <1>1, QuotesStay, DealsStay DEF DealStep, SameView
<1>2. ASSUME NEW st, NEW next, AsksAgain(k, st, next) PROVE DealStep(t)
  <2>1. PICK s \in StateType : s = S(k)
    BY <1>0, RunFacts
  <2>2. Agreed(t, s) /\ ~ Firm(t, s.po) /\ Known(t, s)
    BY <1>0, <2>1, RunIsSound, RunFacts DEF NodeSound, Accepted
  <2>3. s.po \in DOMAIN purchases[t] /\ s.quote \in DOMAIN quotes[t]
    <3>1. purchases[t] \in Seq(PurchaseType) /\ quotes[t] \in Seq(QuoteType)
      BY <1>0 DEF RunsInv, TypeOK
    <3>2. QED BY <2>2, <3>1 DEF Known, Agreed
  <2>4. /\ DOMAIN purchases'[t] = DOMAIN purchases[t]
    <3>1. PICK e : e = [i \in DOMAIN purchases[t] |->
             IF i = S(k).po THEN [purchases[t][i] EXCEPT !.credit = TRUE] ELSE purchases[t][i]]
      OBVIOUS
    <3>2. purchases' = [purchases EXCEPT ![t] = e] /\ purchases \in [Threads -> Seq(PurchaseType)]
      BY <1>0, <1>2, <3>1 DEF AsksAgain, RunsInv, TypeOK
    <3>3. QED BY <3>1, <3>2
  <2>5. \A i \in DOMAIN purchases[t] : /\ purchases'[t][i].price = purchases[t][i].price
                                       /\ i # s.po => purchases'[t][i] = purchases[t][i]
    BY <1>0, <1>2, <2>1, CreditTyped
  <2>6. QED BY <1>0, <2>2, <2>3, <2>4, <2>5, Judged DEF Agreed
<1>3. QED BY <1>1, <1>2, RevalidateCases DEF PassesAgain, CorrectsAgain

(* stock is held for it;                                                      *)
LEMMA AllocateRowsDeals ==
  ASSUME BaseInv, StockInv, NEW k \in Tasks, NEW t \in Threads, t = Thread(k), Undisturbed(t), AllocateRows(k)
  PROVE  DealStep(t)
<1>0. /\ RunsInv /\ TypeOK /\ IsFiniteSet(reserved) /\ task[k].pc = "allocate_rows"
      /\ UNCHANGED <<quotes, purchases, orders, handoffs>> /\ task[k].pc \in OrderingNodes
  BY AllocateRowsCases DEF BaseInv, StockInv, RunsInv, At, OrderingNodes
<1>1. Running(k) /\ Orderable(t, S(k)) /\ Held(t, S(k).po) = {} /\ S(k) \in StateType
  BY <1>0, OrderingRun, RunIsSound, StateOf DEF NodeSound
<1>2. CASE UNCHANGED reserved
  BY <1>0, <1>2, QuotesStay, DealsStay DEF DealStep, SameView
<1>3. ASSUME NEW a, Reserves(k, a) PROVE DealStep(t)
  <2>1. PICK i \in Nat : i = S(k).po
    BY <1>1 DEF StateType
  <2>2. i \in DOMAIN purchases[t] /\ Cleared(purchases[t][i])
    <3>1. i \in 0 .. Len(purchases[t]) /\ i # 0 /\ purchases[t] \in Seq(PurchaseType)
      BY <1>0, <1>1, <2>1, RunFacts DEF Known, Orderable, Accepted, Agreed, TypeOK
    <3>2. Cleared(purchases[t][i])
      BY <1>1, <2>1 DEF Orderable, Accepted, Cleared
    <3>3. QED BY <3>1, <3>2
  <2>3. \A j \in DOMAIN purchases[t] : j # i => Held(t, j)' = Held(t, j)
    <3>1. DOMAIN purchases[t] \subseteq Nat
      <4>1. purchases[t] \in Seq(PurchaseType)
        BY <1>0 DEF TypeOK
      <4>2. QED BY <4>1
    <3>2. QED BY <1>0, <1>3, <2>1, <3>1, ReservesTotals
  <2>4. Held(t, i)' # {}
    <3>1. PICK new : new = Reservations(t, i, a)
      OBVIOUS
    <3>2. new # {} /\ \A r \in new : r.thread = t /\ r.po = i
      BY <1>3, <2>1, <3>1, ReservationsTyped DEF Reserves
    <3>3. reserved' = reserved \cup new
      BY <1>3, <2>1, <3>1 DEF Reserves
    <3>4. QED BY <3>2, <3>3 DEF Held
  <2>5. PICK c \in BOOLEAN, h \in BOOLEAN, o \in BOOLEAN, f \in BOOLEAN :
          /\ c = Cleared(purchases[t][i]) /\ h = (Held(t, i) # {})
          /\ o = Ordered(t, i) /\ f = Marked(t, i)
          /\ DealOf(t, i) = [price |-> purchases[t][i].price, cleared |-> c, held |-> h,
                             ordered |-> o, handed |-> f]
    BY DealBefore
  <2>6. PICK b \in BOOLEAN, g \in BOOLEAN, p \in BOOLEAN, m \in BOOLEAN :
          /\ b = Cleared(purchases'[t][i]) /\ g = (Held(t, i)' # {})
          /\ p = Ordered(t, i)' /\ m = Marked(t, i)'
          /\ DealOf(t, i)' = [price |-> purchases'[t][i].price, cleared |-> b, held |-> g,
                              ordered |-> p, handed |-> m]
    BY DealAfter
  <2>7. Cleared(purchases'[t][i]) = Cleared(purchases[t][i]) /\ Ordered(t, i)' = Ordered(t, i)
        /\ Marked(t, i)' = Marked(t, i) /\ purchases' = purchases
    BY <1>0 DEF Ordered, Marked
  <2>8. b = c /\ p = o /\ m = f
    BY <2>5, <2>6, <2>7, Zenon
  <2>9. c = TRUE /\ h = FALSE /\ g = TRUE
    BY <1>1, <2>1, <2>2, <2>4, <2>5, <2>6
  <2>10. PICK d, e : d = DealOf(t, i) /\ e = DealOf(t, i)'
    OBVIOUS
  <2>11. MovesOn(t, d, e)
    <3>1. d = [price |-> purchases[t][i].price, cleared |-> c, held |-> h, ordered |-> o, handed |-> f]
      BY <2>5, <2>10
    <3>2. e = [price |-> purchases[t][i].price, cleared |-> c, held |-> g, ordered |-> o, handed |-> f]
      BY <2>6, <2>7, <2>8, <2>10
    <3>3. e = [d EXCEPT !.held = g] /\ d.cleared = c /\ d.held = h
      BY <3>1, <3>2
    <3>4. QED BY <2>9, <3>3, Zenon DEF MovesOn
  <2>12. \A j \in DOMAIN purchases[t] : j # i => DealOf(t, j)' = DealOf(t, j)
    <3>1. SUFFICES ASSUME NEW j \in DOMAIN purchases[t], j # i PROVE DealOf(t, j)' = DealOf(t, j)
      OBVIOUS
    <3>2. DealOf(t, j)' = [price |-> purchases[t][j].price, cleared |-> Cleared(purchases[t][j]),
                           held |-> Held(t, j)' # {}, ordered |-> Ordered(t, j), handed |-> Marked(t, j)]
      BY <1>0, Zenon DEF DealOf, Ordered, Marked, Cleared
    <3>3. QED BY <2>3, <3>1, <3>2, Zenon DEF DealOf, Ordered, Marked
  <2>13. SameQuotes(t) /\ DOMAIN purchases'[t] = DOMAIN purchases[t]
    BY <1>0, QuotesStay
  <2>14. QED BY <2>2, <2>10, <2>11, <2>12, <2>13 DEF DealStep, ChangesDeal
<1>4. QED BY <1>2, <1>3, AllocateRowsCases

(* it is confirmed,                                                           *)
LEMMA CreateSalesOrderDeals ==
  ASSUME BaseInv, NEW k \in Tasks, NEW t \in Threads, t = Thread(k), Undisturbed(t), CreateSalesOrder(k)
  PROVE  DealStep(t)
<1>0. /\ RunsInv /\ orders \in [Threads -> Seq(Nat)] /\ task[k].pc = "create_sales_order"
      /\ UNCHANGED <<quotes, purchases, reserved, handoffs>> /\ task[k].pc \in OrderingNodes
  BY DEF BaseInv, RunsInv, TypeOK, CreateSalesOrder, At, OrderingNodes
<1>1. Running(k) /\ Orderable(t, S(k)) /\ S(k) \in StateType
  BY <1>0, OrderingRun, StateOf DEF RunsInv
<1>2. CASE UNCHANGED orders
  BY <1>0, <1>2, QuotesStay, DealsStay DEF DealStep, SameView
<1>3. CASE orders' = [orders EXCEPT ![t] = Append(@, S(k).po)]
  <2>1. PICK i \in Nat : i = S(k).po
    BY <1>1 DEF StateType
  <2>2. /\ i \in DOMAIN purchases[t] /\ Cleared(purchases[t][i]) /\ ~ Ordered(t, i)
        /\ Held(t, i) # {}
    <3>1. i \in 0 .. Len(purchases[t]) /\ i # 0 /\ purchases[t] \in Seq(PurchaseType)
      BY <1>0, <1>1, <2>1, RunFacts DEF Known, Orderable, Accepted, Agreed, RunsInv, TypeOK
    <3>2. Cleared(purchases[t][i]) /\ ~ Ordered(t, i)
      BY <1>1, <2>1 DEF Orderable, Accepted, Cleared
    <3>3. Held(t, i) # {}
      BY <1>0, <1>1, <2>1, RunFacts DEF Documented
    <3>4. QED BY <3>1, <3>2, <3>3
  <2>3. PICK n : n = Len(orders[t]) + 1
    OBVIOUS
  <2>4. /\ DOMAIN orders[t] = 1 .. Len(orders[t]) /\ DOMAIN orders'[t] = 1 .. n /\ n = Len(orders[t]) + 1
        /\ Len(orders[t]) \in Nat /\ orders'[t][n] = i
        /\ \A j \in DOMAIN orders[t] : orders'[t][j] = orders[t][j]
    BY <1>0, <1>3, <2>1, <2>3, Appended
  <2>5. DOMAIN orders'[t] = DOMAIN orders[t] \cup {n}
    BY <2>4
  <2>6. Ordered(t, i)' /\ \A po : po # i => Ordered(t, po)' = Ordered(t, po)
    BY <2>4, <2>5 DEF Ordered
  <2>7. PICK c \in BOOLEAN, h \in BOOLEAN, o \in BOOLEAN, f \in BOOLEAN :
          /\ c = Cleared(purchases[t][i]) /\ h = (Held(t, i) # {})
          /\ o = Ordered(t, i) /\ f = Marked(t, i)
          /\ DealOf(t, i) = [price |-> purchases[t][i].price, cleared |-> c, held |-> h,
                             ordered |-> o, handed |-> f]
    BY DealBefore
  <2>8. PICK b \in BOOLEAN, g \in BOOLEAN, p \in BOOLEAN, m \in BOOLEAN :
          /\ b = Cleared(purchases'[t][i]) /\ g = (Held(t, i)' # {})
          /\ p = Ordered(t, i)' /\ m = Marked(t, i)'
          /\ DealOf(t, i)' = [price |-> purchases'[t][i].price, cleared |-> b, held |-> g,
                              ordered |-> p, handed |-> m]
    BY DealAfter
  <2>9. Cleared(purchases'[t][i]) = Cleared(purchases[t][i]) /\ Held(t, i)' = Held(t, i)
        /\ Marked(t, i)' = Marked(t, i) /\ purchases' = purchases
    BY <1>0 DEF Held, Marked
  <2>10. b = c /\ g = h /\ m = f
    BY <2>7, <2>8, <2>9, Zenon
  <2>11. c = TRUE /\ h = TRUE /\ o = FALSE /\ p = TRUE
    BY <2>2, <2>6, <2>7, <2>8
  <2>12. PICK d, e : d = DealOf(t, i) /\ e = DealOf(t, i)'
    OBVIOUS
  <2>13. MovesOn(t, d, e)
    <3>1. d = [price |-> purchases[t][i].price, cleared |-> c, held |-> h, ordered |-> o, handed |-> f]
      BY <2>7, <2>12
    <3>2. e = [price |-> purchases[t][i].price, cleared |-> c, held |-> h, ordered |-> p, handed |-> f]
      BY <2>8, <2>9, <2>10, <2>12
    <3>3. e = [d EXCEPT !.ordered = p] /\ d.cleared = c /\ d.held = h /\ d.ordered = o
      BY <3>1, <3>2
    <3>4. QED BY <2>11, <3>3, Zenon DEF MovesOn
  <2>14. ASSUME NEW j, j # i PROVE DealOf(t, j)' = DealOf(t, j)
    <3>1. Ordered(t, j)' = Ordered(t, j)
      BY <2>6, <2>14
    <3>2. DealOf(t, j)' = [price |-> purchases[t][j].price, cleared |-> Cleared(purchases[t][j]),
                           held |-> Held(t, j) # {}, ordered |-> Ordered(t, j)', handed |-> Marked(t, j)]
      BY <1>0, Zenon DEF DealOf, Ordered, Marked, Held, Cleared
    <3>3. QED BY <3>1, <3>2, Zenon DEF DealOf, Ordered, Marked
  <2>15. SameQuotes(t) /\ DOMAIN purchases'[t] = DOMAIN purchases[t]
    BY <1>0, QuotesStay
  <2>16. QED BY <2>2, <2>12, <2>13, <2>14, <2>15 DEF DealStep, ChangesDeal
<1>4. QED BY <1>2, <1>3 DEF CreateSalesOrder

(* and handed off.                                                            *)
LEMMA HandoffDeals ==
  ASSUME BaseInv, NEW k \in Tasks, NEW t \in Threads, t = Thread(k),
         DispatchHandoff(k) \/ NotifyDepartment(k)
  PROVE  SameView(t)
<1>0. /\ handoffs \in [Threads -> Seq(HandoffType)] /\ UNCHANGED <<quotes, purchases, orders, reserved>>
      /\ S(k) \in StateType
  BY StateOf DEF BaseInv, RunsInv, TypeOK, HandoffType, DispatchHandoff, NotifyDepartment
<1>1. \A po : Marked(t, po)' <=> Marked(t, po)
  <2>1. CASE UNCHANGED handoffs
    BY <2>1 DEF Marked
  <2>2. CASE DispatchHandoff(k) /\ ~ UNCHANGED handoffs
    <3>1. PICK h : h = [po |-> S(k).po, told |-> 0, marked |-> FALSE]
      OBVIOUS
    <3>2. h \in HandoffType /\ ~ h.marked /\ handoffs' = [handoffs EXCEPT ![t] = Append(@, h)]
      BY <1>0, <2>2, <3>1, ConstantsAssumption DEF DispatchHandoff, HandoffType, StateType
    <3>3. PICK n : n = Len(handoffs[t]) + 1
      OBVIOUS
    <3>4. /\ DOMAIN handoffs[t] = 1 .. Len(handoffs[t]) /\ DOMAIN handoffs'[t] = 1 .. n /\ n = Len(handoffs[t]) + 1
          /\ Len(handoffs[t]) \in Nat /\ handoffs'[t][n] = h
          /\ \A i \in DOMAIN handoffs[t] : handoffs'[t][i] = handoffs[t][i]
      BY <1>0, <3>2, <3>3, Appended
    <3>5. DOMAIN handoffs'[t] = DOMAIN handoffs[t] \cup {n}
      BY <3>4
    <3>6. QED BY <3>2, <3>4, <3>5 DEF Marked
  <2>3. CASE NotifyDepartment(k) /\ Told(k)
    <3>1. PICK i : i = S(k).handoff
      OBVIOUS
    <3>2. i \in DOMAIN handoffs[t] /\ handoffs[t][i] \in HandoffType
      BY <2>3, <3>1, HandoffOfRun, NotifyCases
    <3>3. PICK h \in HandoffType : h = handoffs[t][i]
      BY <3>2
    <3>4. PICK g : g = [h EXCEPT !.told = h.told + 1]
      OBVIOUS
    <3>5. g.po = h.po /\ g.marked = h.marked
      BY <3>4 DEF HandoffType
    <3>6. handoffs' = [handoffs EXCEPT ![t] = [handoffs[t] EXCEPT ![i] = g]]
      BY <1>0, <2>3, <3>1, <3>3, <3>4 DEF Told
    <3>7. /\ DOMAIN handoffs'[t] = DOMAIN handoffs[t] /\ handoffs'[t][i] = g
          /\ \A j \in DOMAIN handoffs[t] : j # i => handoffs'[t][j] = handoffs[t][j]
      BY <1>0, <3>2, <3>6
    <3>8. QED BY <3>2, <3>3, <3>5, <3>7 DEF Marked
  <2>4. QED BY <2>1, <2>2, <2>3, NotifyCases
<1>2. ASSUME NEW j PROVE DealOf(t, j)' = DealOf(t, j)
  <2>1. PICK c \in BOOLEAN, h \in BOOLEAN, o \in BOOLEAN, f \in BOOLEAN :
          /\ c = Cleared(purchases[t][j]) /\ h = (Held(t, j) # {})
          /\ o = Ordered(t, j) /\ f = Marked(t, j)
          /\ DealOf(t, j) = [price |-> purchases[t][j].price, cleared |-> c, held |-> h,
                             ordered |-> o, handed |-> f]
    BY DealBefore
  <2>2. PICK b \in BOOLEAN, g \in BOOLEAN, p \in BOOLEAN, m \in BOOLEAN :
          /\ b = Cleared(purchases'[t][j]) /\ g = (Held(t, j)' # {})
          /\ p = Ordered(t, j)' /\ m = Marked(t, j)'
          /\ DealOf(t, j)' = [price |-> purchases'[t][j].price, cleared |-> b, held |-> g,
                              ordered |-> p, handed |-> m]
    BY DealAfter
  <2>3. Cleared(purchases'[t][j]) = Cleared(purchases[t][j]) /\ Held(t, j)' = Held(t, j)
        /\ Ordered(t, j)' = Ordered(t, j) /\ purchases' = purchases
    BY <1>0 DEF Held, Ordered
  <2>4. b = c /\ g = h /\ p = o
    BY <2>1, <2>2, <2>3, Zenon
  <2>5. (m = TRUE) <=> (f = TRUE)
    BY <1>1, <2>1, <2>2
  <2>6. m = f
    BY <2>1, <2>2, <2>5
  <2>7. QED BY <2>1, <2>2, <2>3, <2>4, <2>6
<1>3. QED BY <1>0, <1>2, QuotesStay DEF SameView, SameDeals

LEMMA MarkDepartmentsDeals ==
  ASSUME BaseInv, NEW k \in Tasks, NEW t \in Threads, t = Thread(k), MarkDepartments(k)
  PROVE  DealStep(t)
<1>0. /\ RunsInv /\ handoffs \in [Threads -> Seq(HandoffType)] /\ task[k].pc = "notify_departments" /\ Running(k)
      /\ UNCHANGED <<quotes, purchases, orders, reserved>>
  BY MarkCases DEF BaseInv, RunsInv, TypeOK, HandoffType, At, Running
<1>1. CASE UNCHANGED handoffs
  BY <1>0, <1>1, QuotesStay, DealsStay DEF DealStep, SameView
<1>2. CASE Marks(k)
  <2>1. PICK s \in StateType : s = S(k)
    BY <1>0, RunFacts
  <2>2. PICK n, i : n = s.handoff /\ i = s.po
    OBVIOUS
  <2>3. n \in DOMAIN handoffs[t] /\ handoffs[t][n] \in HandoffType /\ handoffs[t][n].po = i
    BY <1>0, <2>1, <2>2, HandoffOfRun DEF At
  <2>4. PICK h \in HandoffType : h = handoffs[t][n]
    BY <2>3
  <2>5. PICK x : x = [h EXCEPT !.marked = TRUE]
    OBVIOUS
  <2>6. x.po = i /\ x.marked
    BY <2>3, <2>4, <2>5 DEF HandoffType
  <2>7. handoffs' = [handoffs EXCEPT ![t] = [handoffs[t] EXCEPT ![n] = x]]
    BY <1>0, <1>2, <2>1, <2>2, <2>4, <2>5 DEF Marks
  <2>8. /\ DOMAIN handoffs'[t] = DOMAIN handoffs[t] /\ handoffs'[t][n] = x
        /\ \A j \in DOMAIN handoffs[t] : j # n => handoffs'[t][j] = handoffs[t][j]
    BY <1>0, <2>3, <2>7
  <2>9. Marked(t, i)' /\ \A j : j # i => (Marked(t, j)' <=> Marked(t, j))
    BY <2>3, <2>6, <2>8 DEF Marked
  <2>10. Ordered(t, i) /\ i \in DOMAIN purchases[t]
    <3>1. Ordered(t, i)
      BY <1>0, <2>1, <2>2, RunFacts DEF Documented, Confirming
    <3>2. QED BY <3>1, OrderedExists DEF Firm, BaseInv
  <2>11. PICK c \in BOOLEAN, h1 \in BOOLEAN, o \in BOOLEAN, f \in BOOLEAN :
           /\ c = Cleared(purchases[t][i]) /\ h1 = (Held(t, i) # {})
           /\ o = Ordered(t, i) /\ f = Marked(t, i)
           /\ DealOf(t, i) = [price |-> purchases[t][i].price, cleared |-> c, held |-> h1,
                              ordered |-> o, handed |-> f]
    BY DealBefore
  <2>12. PICK b \in BOOLEAN, g \in BOOLEAN, p \in BOOLEAN, m \in BOOLEAN :
           /\ b = Cleared(purchases'[t][i]) /\ g = (Held(t, i)' # {})
           /\ p = Ordered(t, i)' /\ m = Marked(t, i)'
           /\ DealOf(t, i)' = [price |-> purchases'[t][i].price, cleared |-> b, held |-> g,
                               ordered |-> p, handed |-> m]
    BY DealAfter
  <2>13. Cleared(purchases'[t][i]) = Cleared(purchases[t][i]) /\ Held(t, i)' = Held(t, i)
         /\ Ordered(t, i)' = Ordered(t, i) /\ purchases' = purchases
    BY <1>0 DEF Held, Ordered
  <2>14. b = c /\ g = h1 /\ p = o
    BY <2>11, <2>12, <2>13, Zenon
  <2>15. o = TRUE /\ m = TRUE
    BY <2>9, <2>10, <2>11, <2>12
  <2>16. PICK d, e : d = DealOf(t, i) /\ e = DealOf(t, i)'
    OBVIOUS
  <2>17. d = [price |-> purchases[t][i].price, cleared |-> c, held |-> h1, ordered |-> o, handed |-> f]
    BY <2>11, <2>16
  <2>18. e = [price |-> purchases[t][i].price, cleared |-> c, held |-> h1, ordered |-> o, handed |-> m]
    BY <2>12, <2>13, <2>14, <2>16
  <2>19. e = [d EXCEPT !.handed = m] /\ d.ordered = o /\ d.handed = f
    BY <2>17, <2>18
  <2>20. ASSUME NEW j, j # i PROVE DealOf(t, j)' = DealOf(t, j)
    <3>1. Marked(t, j)' = Marked(t, j)
      BY <2>9, <2>20, Zenon DEF Marked
    <3>2. DealOf(t, j)' = [price |-> purchases[t][j].price, cleared |-> Cleared(purchases[t][j]),
                           held |-> Held(t, j) # {}, ordered |-> Ordered(t, j), handed |-> Marked(t, j)']
      BY <1>0, Zenon DEF DealOf, Ordered, Marked, Held, Cleared
    <3>3. QED BY <3>1, <3>2, Zenon DEF DealOf, Ordered, Marked
  <2>21. SameQuotes(t) /\ DOMAIN purchases'[t] = DOMAIN purchases[t]
    BY <1>0, QuotesStay
  <2>22. CASE f = TRUE
    <3>1. d = e
      BY <2>15, <2>17, <2>18, <2>22
    <3>2. QED BY <2>16, <2>20, <2>21, <3>1 DEF DealStep, SameView, SameDeals
  <2>23. CASE f = FALSE
    <3>1. MovesOn(t, d, e)
      BY <2>15, <2>19, <2>23, Zenon DEF MovesOn
    <3>2. QED BY <2>10, <2>16, <2>20, <2>21, <3>1 DEF DealStep, ChangesDeal
  <2>24. QED BY <2>22, <2>23
<1>3. QED BY <1>1, <1>2, MarkCases

-----------------------------------------------------------------------------
(* Every node, and every step                                                 *)

(* A node leaves it to the CRM whether a conversation is lost.                *)
LEMMA RunsKeepClosed ==
  ASSUME RunsInv, NEW k \in Tasks, QuietNode(k) \/ WritingNode(k) \/ Invoke(k) \/ Abandon(k)
  PROVE  closed' = closed
<1>1. CASE QuietNode(k)
  BY <1>1, QuietMoves DEF RunsInv, Moving, Goes
<1>2. CASE Invoke(k) \/ Abandon(k)
  BY <1>2 DEF Invoke, Abandon, leads
<1>3. ASSUME NEW st, NEW next, Goes(k, st, next) PROVE closed' = closed
  BY <1>3 DEF Goes
<1>4. ASSUME NEW next, Fails(k, next) PROVE closed' = closed
  BY <1>4 DEF Fails, Goes
<1>5. CASE ExtractInquiry(k) \/ GenerateQuotation(k) \/ DispatchQuotation(k) \/ SendQuotation(k)
           \/ PrepareRevisedQuotation(k)
  BY <1>3, <1>4, <1>5 DEF ExtractInquiry, GenerateQuotation, DispatchQuotation, SendQuotation,
     PrepareRevisedQuotation
<1>6. CASE ExtractPoFields(k) \/ ValidatePo(k) \/ RevalidateOrderState(k)
  BY <1>3, <1>4, <1>6, ValidatePoCases, RevalidateCases DEF ExtractPoFields, Compares
<1>7. CASE ReserveInventory(k) \/ AllocateRows(k) \/ MarkOrderWon(k) \/ CreateSalesOrder(k)
  BY <1>3, <1>4, <1>7, AllocateRowsCases DEF ReserveInventory, MarkOrderWon, CreateSalesOrder
<1>8. CASE DispatchHandoff(k) \/ NotifyDepartment(k) \/ MarkDepartments(k)
  BY <1>3, <1>4, <1>8, NotifyCases, MarkCases DEF DispatchHandoff
<1>9. QED BY <1>1, <1>2, <1>5, <1>6, <1>7, <1>8 DEF WritingNode

(* A step of a run is seen as one step of its conversation at most.           *)
LEMMA RunDeals ==
  ASSUME PipelineInv, NEW k \in Tasks, QuietNode(k) \/ WritingNode(k) \/ Invoke(k) \/ Abandon(k)
  PROVE  [Deal!Next]_Deal!dealVars
<1>0. BaseInv /\ StockInv /\ UndisturbedInv /\ RunsInv /\ TypeOK
  BY DEF PipelineInv, BaseInv, RunsInv
<1>1. /\ disturbed' = disturbed /\ closed' = closed
      /\ \A u \in Threads : u # Thread(k) => SameView(u)
  BY <1>0, RunElsewhere, RunsKeepClosed, SameIsSeen DEF Elsewhere, Same
<1>2. CASE Thread(k) \notin Threads \ disturbed
  BY <1>1, <1>2, NothingIsSeen
<1>3. ASSUME NEW t \in Threads \ disturbed, t = Thread(k) PROVE [Deal!Next]_Deal!dealVars
  <2>1. Undisturbed(t)
    BY <1>0 DEF UndisturbedInv
  <2>2. ~ closed[t]
    BY <1>3, <2>1 DEF Undisturbed, Closing, On
  <2>3. OthersLookTheSame(t)
    BY <1>1, <1>3 DEF OthersLookTheSame
  <2>4. DealStep(t)
    <3>1. CASE UNCHANGED documents
      <4>1. SamePapers(t)
        BY <3>1 DEF documents, SamePapers
      <4>2. QED BY <4>1, SameIsSeen DEF DealStep
    <3>2. CASE QuietNode(k) \/ Invoke(k) \/ Abandon(k)
      BY <3>1, <3>2, QuietIsQuiet DEF Quiet, Invoke, Abandon
    <3>3. CASE ExtractInquiry(k) \/ ReserveInventory(k) \/ MarkOrderWon(k)
      BY <3>1, <3>3 DEF ExtractInquiry, ReserveInventory, MarkOrderWon, Quiet
    <3>4. CASE PrepareRevisedQuotation(k)
      <4>1. UNCHANGED <<quotes, purchases, orders, reserved, handoffs>>
        BY <3>4 DEF PrepareRevisedQuotation
      <4>2. QED BY <4>1, QuotesStay, DealsStay DEF DealStep, SameView
    <3>5. CASE DispatchQuotation(k) \/ SendQuotation(k) \/ DispatchHandoff(k) \/ NotifyDepartment(k)
      BY <1>0, <1>3, <3>5, DeliveryDeals, HandoffDeals DEF DealStep
    <3>6. CASE GenerateQuotation(k) \/ ExtractPoFields(k) \/ ValidatePo(k) \/ RevalidateOrderState(k)
      BY <1>0, <1>3, <2>1, <3>6, GenerateQuotationDeals, ExtractPoFieldsDeals, ValidatePoDeals, RevalidateDeals
    <3>7. CASE AllocateRows(k) \/ CreateSalesOrder(k) \/ MarkDepartments(k)
      BY <1>0, <1>3, <2>1, <3>7, AllocateRowsDeals, CreateSalesOrderDeals, MarkDepartmentsDeals
    <3>8. QED BY <3>2, <3>3, <3>4, <3>5, <3>6, <3>7 DEF WritingNode
  <2>5. QED BY <1>1, <2>2, <2>3, <2>4, DealStepIsSound
<1>4. QED BY <1>2, <1>3

(* What a human approves is seen as a judgement.                              *)
LEMMA GrantDeals ==
  ASSUME BaseInv, NEW t \in Threads, Undisturbed(t), NEW stage \in Stages, checkpoint[t] # None,
         checkpoint[t].status = "awaiting_approval", checkpoint[t].stage = stage, Grants(t, stage),
         UNCHANGED <<quotes, revised, orders, reserved, handoffs, lead>>
  PROVE  DealStep(t)
<1>0. RunsInv /\ purchases \in [Threads -> Seq(PurchaseType)] /\ quotes[t] \in Seq(QuoteType)
  BY DEF BaseInv, RunsInv, TypeOK
<1>1. PICK c \in StateType : c = checkpoint[t]
  BY <1>0 DEF RunsInv, TypeOK
<1>2. PICK item : item = PendingItem(c, stage)
  OBVIOUS
<1>3. PICK e : e = [p \in DOMAIN purchases[t] |->
                IF p = item /\ stage \in {"po", "po_revalidation"}
                THEN [purchases[t][p] EXCEPT !.granted = @ \cup {stage}] ELSE purchases[t][p]]
  OBVIOUS
<1>4. purchases' = [purchases EXCEPT ![t] = e]
  BY <1>0, <1>1, <1>2, <1>3 DEF Grants
<1>5. /\ DOMAIN purchases'[t] = DOMAIN purchases[t]
      /\ \A i \in DOMAIN purchases[t] : i # item \/ stage \notin {"po", "po_revalidation"} =>
           purchases'[t][i] = purchases[t][i]
  BY <1>0, <1>3, <1>4
<1>6. CASE item \in DOMAIN purchases[t] /\ stage \in {"po", "po_revalidation"}
  <2>1. item = c.po
    BY <1>2, <1>6 DEF PendingItem
  <2>2. Sound(t, c) /\ Known(t, c)
    BY <1>0, <1>1 DEF Undisturbed, RunsInv, ThreadsKnown, ThreadKnown
  <2>3. Agreed(t, c) /\ ~ Firm(t, c.po)
    BY <1>1, <1>6, <2>2 DEF Sound, Asks, Accepted
  <2>4. c.quote \in DOMAIN quotes[t]
    BY <1>0, <2>2, <2>3 DEF Known, Agreed
  <2>5. purchases'[t][item].price = purchases[t][item].price
    BY <1>0, <1>6, GrantedTyped
  <2>6. QED BY <1>5, <1>6, <2>1, <2>3, <2>4, <2>5, Judged DEF Agreed
<1>7. CASE ~ (item \in DOMAIN purchases[t] /\ stage \in {"po", "po_revalidation"})
  <2>1. \A i \in DOMAIN purchases[t] : purchases'[t][i] = purchases[t][i]
    BY <1>5, <1>7
  <2>2. \A i \in DOMAIN purchases[t] : DealOf(t, i)' = DealOf(t, i)
    BY <2>1 DEF DealOf, Held, Cleared
  <2>3. QED BY <1>5, <2>2, QuotesStay DEF DealStep, SameView, SameDeals
<1>8. QED BY <1>6, <1>7

(* A request is seen when it approves, or overlaps another.                   *)
LEMMA StartDeals ==
  ASSUME PipelineInv, NEW k \in Tasks, NEW t \in Threads, Starts(k, t)
  PROVE  [Deal!Next]_Deal!dealVars
<1>0. BaseInv /\ UndisturbedInv /\ RunsInv /\ TypeOK
  BY DEF PipelineInv, BaseInv, RunsInv
<1>1. PICK trigger, stage, item :
        /\ Receive(k, t, trigger, stage, item) /\ Brings(k, t, trigger, stage, item)
        /\ \/ UNCHANGED purchases /\ trigger # "approved"
           \/ /\ trigger = "approved" /\ Grants(t, stage)
              /\ checkpoint[t].status = "awaiting_approval"
              /\ item = PendingItem(checkpoint[t], stage)
  BY <1>0, StartCases
<1>2. /\ Disturb(t) /\ UNCHANGED <<quotes, revised, orders, reserved, handoffs, lead, closed>>
  BY <1>1 DEF Receive, leads
<1>3. \A u \in Threads : u # t => SameView(u)
  <2>1. \A u \in Threads : u # t => purchases'[u] = purchases[u]
    BY <1>0, <1>1 DEF Grants, TypeOK
  <2>2. \A u \in Threads : u # t => SamePapers(u)
    BY <1>2, <2>1 DEF SamePapers
  <2>3. QED BY <2>2, SameIsSeen
<1>4. CASE Busy(t)
  BY <1>2, <1>3, <1>4, ComingLoose DEF Disturb
<1>5. CASE ~ Busy(t) /\ t \in disturbed
  BY <1>2, <1>3, <1>5, NothingIsSeen DEF Disturb
<1>6. CASE ~ Busy(t) /\ t \notin disturbed
  <2>1. disturbed' = disturbed /\ Undisturbed(t)
    BY <1>0, <1>2, <1>6 DEF Disturb, UndisturbedInv
  <2>2. OthersLookTheSame(t)
    BY <1>2, <1>3, <2>1 DEF OthersLookTheSame
  <2>3. CASE UNCHANGED purchases
    <3>1. SameView(t)
      BY <1>2, <2>3, QuotesStay, DealsStay DEF SameView
    <3>2. QED BY <1>2, <1>3, <2>1, <3>1, NothingIsSeen
  <2>4. CASE trigger = "approved" /\ Grants(t, stage) /\ checkpoint[t].status = "awaiting_approval"
    <3>1. stage \in Stages /\ checkpoint[t] # None /\ checkpoint[t].stage = stage
      BY <1>1, <2>4 DEF Brings
    <3>2. DealStep(t)
      BY <1>0, <1>2, <2>1, <2>4, <3>1, GrantDeals
    <3>3. ~ closed[t]
      BY <1>6, <2>1, <2>4 DEF Busy, Undisturbed, Closing
    <3>4. QED BY <1>2, <1>6, <2>2, <3>2, <3>3, DealStepIsSound
  <2>5. QED BY <1>1, <2>3, <2>4
<1>7. QED BY <1>4, <1>5, <1>6

(* The CRM loses a conversation and takes it up again.                        *)
LEMMA DeskDeals ==
  ASSUME PipelineInv, NEW t \in Threads,
         CloseLost(t) \/ ReopenLead(t) \/ UpdateCheckpoint(t) \/ CrmCut(t)
  PROVE  [Deal!Next]_Deal!dealVars
<1>0. BaseInv /\ TypeOK /\ DocumentsAgree
  BY DEF PipelineInv, BaseInv, RunsInv
<1>1. UNCHANGED documents /\ \A u \in Threads : u # t => closed'[u] = closed[u]
  BY <1>0 DEF CloseLost, ReopenLead, UpdateCheckpoint, CrmCut, TypeOK
<1>2. \A u \in Threads : SameView(u)
  <2>1. \A u \in Threads : SamePapers(u)
    BY <1>1 DEF documents, SamePapers
  <2>2. QED BY <2>1, SameIsSeen
<1>3. CASE disturbed' = disturbed \cup {t}
  BY <1>1, <1>2, <1>3, ComingLoose
<1>4. CASE disturbed' = disturbed /\ t \in disturbed
  BY <1>1, <1>2, <1>4, NothingIsSeen
<1>5. CASE disturbed' = disturbed /\ t \notin disturbed
  <2>0. OthersLookTheSame(t)
    BY <1>1, <1>2, <1>5 DEF OthersLookTheSame
  <2>1. QuotedPrices' = QuotedPrices /\ PurchaseDeals' = PurchaseDeals
    <3>1. /\ QuotedPrices' = [QuotedPrices EXCEPT ![t] = QuotedOf(t)']
          /\ PurchaseDeals' = [PurchaseDeals EXCEPT ![t] = [i \in DOMAIN purchases'[t] |-> DealOf(t, i)']]
      BY <1>5, <2>0, OthersStay
    <3>2. /\ QuotedPrices[t] = QuotedOf(t)
          /\ PurchaseDeals[t] = [i \in DOMAIN purchases[t] |-> DealOf(t, i)]
      BY <1>5, SeenIs
    <3>3. /\ QuotedPrices = [u \in Threads |-> QuotedPrices[u]]
          /\ PurchaseDeals = [u \in Threads |-> PurchaseDeals[u]]
      BY DEF QuotedPrices, PurchaseDeals
    <3>4. SameQuotes(t) /\ SameDeals(t)
      BY <1>2 DEF SameView
    <3>5. QuotedPrices' = QuotedPrices
      BY <3>1, <3>2, <3>3, <3>4 DEF SameQuotes
    <3>6. PurchaseDeals' = PurchaseDeals
      BY <3>1, <3>2, <3>3, <3>4 DEF SameDeals
    <3>7. QED BY <3>5, <3>6
  <2>2. CASE UpdateCheckpoint(t) \/ CrmCut(t)
    <3>1. closed' = closed
      BY <2>2 DEF UpdateCheckpoint, CrmCut
    <3>2. QED BY <1>2, <1>5, <3>1, NothingIsSeen
  <2>3. CASE CloseLost(t)
    <3>1. lead[t] = "open" /\ ~ closed[t] /\ closed'[t]
      BY <1>0, <2>3 DEF CloseLost, TypeOK
    <3>2. LostThreads' = LostThreads \cup {t}
      BY <1>5, <2>0, <3>1, OthersStay
    <3>3. \A i \in DOMAIN PurchaseDeals[t] : ~ PurchaseDeals[t][i].ordered
      <4>1. orders[t] = << >>
        BY <1>0, <3>1 DEF DocumentsAgree
      <4>2. \A po : ~ \E j \in DOMAIN orders[t] : orders[t][j] = po
        BY <4>1
      <4>3. ASSUME NEW i PROVE ~ DealOf(t, i).ordered
        <5>1. PICK c \in BOOLEAN, h \in BOOLEAN, o \in BOOLEAN, f \in BOOLEAN :
                /\ c = Cleared(purchases[t][i]) /\ h = (Held(t, i) # {})
                /\ o = Ordered(t, i) /\ f = Marked(t, i)
                /\ DealOf(t, i) = [price |-> purchases[t][i].price, cleared |-> c, held |-> h,
                                   ordered |-> o, handed |-> f]
          BY DealBefore
        <5>2. ~ o
          BY <4>2, <5>1 DEF Ordered
        <5>3. QED BY <5>1, <5>2
      <4>4. DOMAIN PurchaseDeals[t] = DOMAIN purchases[t]
            /\ \A i \in DOMAIN purchases[t] : PurchaseDeals[t][i] = DealOf(t, i)
        BY <1>5, SeenIs
      <4>5. QED BY <4>3, <4>4
    <3>4. t \notin LostThreads
      BY <3>1 DEF LostThreads
    <3>5. Deal!Lose(t)
      BY <1>5, <2>1, <3>2, <3>3 DEF Deal!Lose
    <3>6. QED BY <1>5, <3>4, <3>5 DEF Deal!Next
  <2>4. CASE ReopenLead(t)
    <3>1. closed[t] /\ ~ closed'[t]
      BY <1>0, <2>4 DEF ReopenLead, TypeOK
    <3>2. LostThreads' = LostThreads \ {t}
      BY <1>5, <2>0, <3>1, OthersStay
    <3>3. Deal!Reopen(t)
      BY <1>5, <2>1, <3>2 DEF Deal!Reopen
    <3>4. t \in LostThreads
      BY <1>5, <3>1 DEF LostThreads
    <3>5. QED BY <1>5, <3>3, <3>4 DEF Deal!Next
  <2>5. QED BY <2>2, <2>3, <2>4
<1>6. QED BY <1>3, <1>4, <1>5 DEF CloseLost, ReopenLead, UpdateCheckpoint, CrmCut, Disturb, counters

(* The sales graph carries out the deal of SoundDeal, for any number of       *)
(* requests, conversations, rows and departments: in a conversation without   *)
(* overlapping calls nothing is held that was not cleared, confirmed that was *)
(* not held, handed off that was not confirmed, and nothing is done twice,    *)
(* undone or done while the lead is lost (build_nodes, build_graph).          *)
THEOREM SalesCarryOutSoundDeals == Spec => CarriesOutSoundDeals
<1>1. Init => Deal!Init
  <2>1. SUFFICES ASSUME Init PROVE Deal!Init
    OBVIOUS
  <2>2. QuotedPrices = [t \in Threads |-> {}]
    BY <2>1 DEF Init, QuotedPrices, QuotedOf
  <2>3. PurchaseDeals = [t \in Threads |-> << >>]
    <3>1. ASSUME NEW t \in Threads PROVE [i \in DOMAIN purchases[t] |-> DealOf(t, i)] = << >>
      <4>1. purchases[t] = << >>
        BY <2>1 DEF Init
      <4>2. DOMAIN purchases[t] = {}
        BY <4>1
      <4>3. QED BY <4>2
    <3>2. QED BY <2>1, <3>1 DEF Init, PurchaseDeals
  <2>4. LostThreads = {} /\ disturbed = {}
    BY <2>1 DEF Init, LostThreads
  <2>5. QED BY <2>2, <2>3, <2>4 DEF Deal!Init
<1>2. PipelineInv /\ [Next]_vars => [Deal!Next]_Deal!dealVars
  <2>1. SUFFICES ASSUME PipelineInv, [Next]_vars PROVE [Deal!Next]_Deal!dealVars
    OBVIOUS
  <2>2. CASE UNCHANGED vars
    <3>1. disturbed' = disturbed /\ \A u \in Threads : SamePapers(u) /\ closed'[u] = closed[u]
      BY <2>2 DEF vars, documents, leads, counters, SamePapers
    <3>2. QED BY <3>1, SameIsSeen, NothingIsSeen
  <2>3. QED BY <2>1, <2>2, NextCases, StartDeals, RunDeals, DeskDeals
<1>3. QED BY <1>1, <1>2, PipelineInvariant, PTL DEF Spec, CarriesOutSoundDeals, Deal!Spec

=============================================================================
