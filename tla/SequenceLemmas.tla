---------------------------- MODULE SequenceLemmas ----------------------------
(***************************************************************************)
(* What the operators on data return that the proofs need: sums over       *)
(* finite sets, and filtered sequences.  The induction theorems of the     *)
(* library take the claim as an operator; here a claim is proved by taking *)
(* the least argument for which it fails.                                  *)
(***************************************************************************)
EXTENDS Integers, Sequences, Functions, Filtering, FiniteSetTheorems, SequenceTheorems, TLAPS

(* A set of naturals has a least element.  Applied to the arguments for    *)
(* which a claim fails, this is induction over the naturals.               *)
LEMMA LeastNatural ==
    ASSUME NEW S, S \subseteq Nat, S # {}
    PROVE  \E n \in S : \A m \in S : n <= m
<1> DEFINE R == {ss \in Nat \X Nat : ss[1] < ss[2]}
<1>1. IsWellFoundedOn(R, Nat)
  BY NatLessThanWellFounded DEF OpToRel
<1>2. PICK n \in S : \A m \in S : <<m, n>> \notin R
  <2> HIDE DEF R
  <2> QED  BY <1>1, WFMin
<1>3. \A m \in S : ~(m < n)
  BY <1>2
<1> QED  BY <1>3

(* The same for subsets of a finite set.                                   *)
LEMMA LeastSubset ==
    ASSUME NEW S, IsFiniteSet(S), NEW B, B \subseteq SUBSET S, B # {}
    PROVE  \E T \in B : \A U \in B : U \subseteq T => U = T
<1>1. IsWellFoundedOn(StrictSubsetOrdering(S), SUBSET S)
  BY FS_StrictSubsetOrderingWellFounded, FS_FiniteSubsetsOfFinite
<1>2. PICK T \in B : \A U \in B : <<U, T>> \notin StrictSubsetOrdering(S)
  BY <1>1, WFMin
<1>3. \A U \in B : U \subseteq T => U = T
  BY <1>2 DEF StrictSubsetOrdering
<1> QED  BY <1>3

(***************************************************************************)
(* Sums.  SumFunctionOnSet takes the elements out one by one, as CHOOSE    *)
(* has it; h is its value on every subset.                                 *)
(***************************************************************************)
AnyOf(T) == CHOOSE x \in T : TRUE

IsSum(h, f, S) ==
    h = [T \in SUBSET S |-> IF T = {} THEN 0 ELSE f[AnyOf(T)] + h[T \ {AnyOf(T)}]]

(* The recursion has at most one solution, whatever set it is for.         *)
LEMMA SumsAgree ==
    ASSUME NEW S, IsFiniteSet(S), NEW R, NEW f, NEW h, NEW k,
           IsSum(h, f, S), IsSum(k, f, R), NEW T, T \subseteq S, T \subseteq R
    PROVE  h[T] = k[T]
<1> DEFINE B == {U \in SUBSET T : h[U] # k[U]}
<1>1. SUFFICES ASSUME B # {} PROVE FALSE
  OBVIOUS
<1>2. IsFiniteSet(T)
  BY FS_Subset
<1>3. PICK U \in B : \A V \in B : V \subseteq U => V = U
  <2> B \subseteq SUBSET T
    OBVIOUS
  <2> HIDE DEF B
  <2> QED  BY <1>1, <1>2, LeastSubset
<1> DEFINE V == U \ {AnyOf(U)}
<1>4. /\ h[U] = IF U = {} THEN 0 ELSE f[AnyOf(U)] + h[V]
      /\ k[U] = IF U = {} THEN 0 ELSE f[AnyOf(U)] + k[V]
  BY DEF IsSum
<1>5. U # {} /\ h[V] # k[V]
  BY <1>3, <1>4
<1>6. AnyOf(U) \in U
  BY <1>5 DEF AnyOf
<1>7. V \in B /\ V \subseteq U /\ V # U
  BY <1>5, <1>6
<1> QED  BY <1>3, <1>7

(* It has one.                                                             *)
LEMMA SumExists ==
    ASSUME NEW S, IsFiniteSet(S), NEW f
    PROVE  \E h : IsSum(h, f, S)
<1> DEFINE B == {T \in SUBSET S : ~ \E h : IsSum(h, f, T)}
<1>1. SUFFICES ASSUME B # {} PROVE FALSE
  OBVIOUS
<1>2. PICK T \in B : \A V \in B : V \subseteq T => V = T
  <2> B \subseteq SUBSET S
    OBVIOUS
  <2> HIDE DEF B
  <2> QED  BY <1>1, LeastSubset
<1> DEFINE Of(V) == CHOOSE h : IsSum(h, f, V)
           Less(U) == U \ {AnyOf(U)}
           g == [U \in SUBSET T |-> IF U = {} THEN 0 ELSE f[AnyOf(U)] + Of(Less(U))[Less(U)]]
<1>3. ASSUME NEW U \in SUBSET T, U # {}
      PROVE  Less(U) \subseteq T /\ Less(U) # T /\ IsFiniteSet(Less(U)) /\ IsSum(Of(Less(U)), f, Less(U))
  <2>1. AnyOf(U) \in U
    BY <1>3 DEF AnyOf
  <2>2. Less(U) \subseteq T /\ Less(U) # T
    BY <2>1
  <2>3. \E h : IsSum(h, f, Less(U))
    BY <1>2, <2>2
  <2>4. IsFiniteSet(Less(U))
    BY <2>2, FS_Subset
  <2> QED  BY <2>2, <2>3, <2>4
<1>4. ASSUME NEW U \in SUBSET T, U # {}
      PROVE  g[Less(U)] = Of(Less(U))[Less(U)]
  <2> DEFINE V == Less(U)
             W == Less(V)
  <2>1. /\ V \in SUBSET T /\ IsFiniteSet(V)
        /\ IsSum(Of(V), f, V)
    BY <1>3, <1>4
  <2>2. Of(V)[V] = IF V = {} THEN 0 ELSE f[AnyOf(V)] + Of(V)[W]
    <3> DEFINE o == Of(V)
    <3>1. IsSum(o, f, V)
      BY <2>1
    <3> HIDE DEF o, V
    <3>2. o[V] = IF V = {} THEN 0 ELSE f[AnyOf(V)] + o[V \ {AnyOf(V)}]
      BY <3>1 DEF IsSum
    <3> USE DEF o, V
    <3> QED  BY <3>2
  <2>3. CASE V = {}
    BY <2>1, <2>2, <2>3
  <2>4. CASE V # {}
    <3>1. W \subseteq V /\ IsFiniteSet(W) /\ IsSum(Of(W), f, W)
      BY <1>3, <2>1, <2>4
    <3>2. Of(V)[W] = Of(W)[W]
      <4> DEFINE o == Of(V)
                 q == Of(W)
      <4>1. IsSum(o, f, V) /\ IsSum(q, f, W)
        BY <2>1, <3>1
      <4> HIDE DEF o, q, V, W
      <4>2. o[W] = q[W]
        BY <2>1, <3>1, <4>1, SumsAgree
      <4> USE DEF o, q, V, W
      <4> QED  BY <4>2
    <3>3. g[V] = f[AnyOf(V)] + Of(W)[W]
      BY <2>1, <2>4
    <3> QED  BY <2>2, <2>4, <3>2, <3>3
  <2> QED  BY <2>3, <2>4
<1>5. g = [U \in SUBSET T |-> IF U = {} THEN 0 ELSE f[AnyOf(U)] + g[U \ {AnyOf(U)}]]
  <2>1. \A U \in SUBSET T : U # {} => g[U \ {AnyOf(U)}] = Of(Less(U))[Less(U)]
    BY <1>4
  <2> DEFINE r == [U \in SUBSET T |-> IF U = {} THEN 0 ELSE f[AnyOf(U)] + g[U \ {AnyOf(U)}]]
  <2>2. ASSUME NEW U \in SUBSET T PROVE g[U] = r[U]
    <3>1. CASE U = {}
      BY <3>1
    <3>2. CASE U # {}
      <4>1. g[U] = f[AnyOf(U)] + Of(Less(U))[Less(U)]
        BY <3>2
      <4>2. r[U] = f[AnyOf(U)] + g[U \ {AnyOf(U)}]
        BY <3>2
      <4> HIDE DEF g, r
      <4> QED  BY <2>1, <3>2, <4>1, <4>2
    <3> QED  BY <3>1, <3>2
  <2>3. /\ g = [U \in SUBSET T |-> g[U]]
        /\ r = [U \in SUBSET T |-> r[U]]
    OBVIOUS
  <2> HIDE DEF g, r
  <2>4. g = r
    BY <2>2, <2>3
  <2> USE DEF g, r
  <2> QED  BY <2>4
<1>6. IsSum(g, f, T)
  BY <1>5 DEF IsSum
<1> QED  BY <1>2, <1>6

(* The sum of the community modules is that solution.                      *)
LEMMA SumIsSum ==
    ASSUME NEW S, IsFiniteSet(S), NEW f
    PROVE  \E h : IsSum(h, f, S) /\ SumFunctionOnSet(f, S) = h[S]
<1>1. SumFunctionOnSet(f, S) = (CHOOSE h : IsSum(h, f, S))[S]
  BY DEF SumFunctionOnSet, FoldFunctionOnSet, MapThenFoldSet, IsSum, AnyOf
<1> QED  BY <1>1, SumExists

(* The sum is its first element and the sum of the others.                 *)
LEMMA SumStep ==
    ASSUME NEW S, IsFiniteSet(S), NEW f
    PROVE  SumFunctionOnSet(f, S) =
              IF S = {} THEN 0 ELSE f[AnyOf(S)] + SumFunctionOnSet(f, S \ {AnyOf(S)})
<1>1. PICK h : IsSum(h, f, S) /\ SumFunctionOnSet(f, S) = h[S]
  BY SumIsSum
<1>2. h[S] = IF S = {} THEN 0 ELSE f[AnyOf(S)] + h[S \ {AnyOf(S)}]
  BY <1>1 DEF IsSum
<1> DEFINE R == S \ {AnyOf(S)}
<1>3. IsFiniteSet(R)
  BY FS_Subset
<1>4. PICK k : IsSum(k, f, R) /\ SumFunctionOnSet(f, R) = k[R]
  BY <1>3, SumIsSum
<1>5. h[R] = k[R]
  <2> R \subseteq S
    OBVIOUS
  <2> HIDE DEF R
  <2> QED  BY <1>1, <1>4, SumsAgree
<1> QED  BY <1>1, <1>2, <1>4, <1>5

(* Natural numbers have a natural sum.                                     *)
LEMMA SumOfNaturals ==
    ASSUME NEW S, IsFiniteSet(S), NEW f, \A x \in S : f[x] \in Nat
    PROVE  SumFunctionOnSet(f, S) \in Nat
<1> DEFINE B == {T \in SUBSET S : SumFunctionOnSet(f, T) \notin Nat}
<1>1. SUFFICES ASSUME B # {} PROVE FALSE
  OBVIOUS
<1>2. PICK T \in B : \A V \in B : V \subseteq T => V = T
  <2> B \subseteq SUBSET S
    OBVIOUS
  <2> HIDE DEF B
  <2> QED  BY <1>1, LeastSubset
<1> DEFINE V == T \ {AnyOf(T)}
<1>3. IsFiniteSet(T)
  BY FS_Subset
<1>4. SumFunctionOnSet(f, T) = IF T = {} THEN 0 ELSE f[AnyOf(T)] + SumFunctionOnSet(f, V)
  BY <1>3, SumStep
<1>5. T # {}
  BY <1>2, <1>4
<1>6. AnyOf(T) \in T
  BY <1>5 DEF AnyOf
<1>7. V \notin B
  BY <1>2, <1>6
<1> QED  BY <1>2, <1>4, <1>5, <1>6, <1>7

(* The order of addition does not matter.                                  *)
LEMMA SumRemove ==
    ASSUME NEW S, IsFiniteSet(S), NEW f, \A x \in S : f[x] \in Nat, NEW x \in S
    PROVE  SumFunctionOnSet(f, S) = f[x] + SumFunctionOnSet(f, S \ {x})
<1> DEFINE Sum(T) == SumFunctionOnSet(f, T)
           B == {T \in SUBSET S : \E y \in T : Sum(T) # f[y] + Sum(T \ {y})}
<1>1. SUFFICES ASSUME B # {} PROVE FALSE
  OBVIOUS
<1>2. PICK T \in B : \A V \in B : V \subseteq T => V = T
  <2> B \subseteq SUBSET S
    OBVIOUS
  <2> HIDE DEF B
  <2> QED  BY <1>1, LeastSubset
<1>3. PICK y \in T : Sum(T) # f[y] + Sum(T \ {y})
  OBVIOUS
<1> DEFINE p == AnyOf(T)
<1>4. p \in T
  BY DEF AnyOf
<1>5. /\ IsFiniteSet(T)
      /\ \A V \in SUBSET T : IsFiniteSet(V) /\ Sum(V) \in Nat
  BY FS_Subset, SumOfNaturals
<1>6. Sum(T) = f[p] + Sum(T \ {p})
  BY <1>4, <1>5, SumStep
<1>7. y # p
  BY <1>3, <1>6
<1>8. /\ Sum(T \ {p}) = f[y] + Sum((T \ {p}) \ {y})
      /\ Sum(T \ {y}) = f[p] + Sum((T \ {y}) \ {p})
  <2>1. T \ {p} \notin B /\ T \ {y} \notin B
    <3>1. T \ {p} # T /\ T \ {p} \subseteq T /\ T \ {y} # T /\ T \ {y} \subseteq T
      BY <1>4
    <3> QED  BY <1>2, <3>1
  <2> QED  BY <1>4, <1>7, <2>1
<1>9. (T \ {p}) \ {y} = (T \ {y}) \ {p}
  OBVIOUS
<1>10. /\ f[p] \in Nat /\ f[y] \in Nat /\ Sum((T \ {p}) \ {y}) \in Nat
  BY <1>4, <1>5
<1>11. Sum(T) = f[y] + Sum(T \ {y})
  <2> DEFINE r == Sum((T \ {p}) \ {y})
  <2>1. Sum(T) = f[p] + (f[y] + r) /\ Sum(T \ {y}) = f[p] + r /\ r \in Nat
    BY <1>6, <1>8, <1>9, <1>10
  <2> HIDE DEF r, Sum, p
  <2> QED  BY <2>1, <1>10
<1> QED  BY <1>3, <1>11

(* Only the values on the set matter.                                      *)
LEMMA SumCongruent ==
    ASSUME NEW S, IsFiniteSet(S), NEW f, NEW g, \A x \in S : f[x] = g[x]
    PROVE  SumFunctionOnSet(f, S) = SumFunctionOnSet(g, S)
<1> DEFINE B == {T \in SUBSET S : SumFunctionOnSet(f, T) # SumFunctionOnSet(g, T)}
<1>1. SUFFICES ASSUME B # {} PROVE FALSE
  OBVIOUS
<1>2. PICK T \in B : \A V \in B : V \subseteq T => V = T
  <2> B \subseteq SUBSET S
    OBVIOUS
  <2> HIDE DEF B
  <2> QED  BY <1>1, LeastSubset
<1> DEFINE V == T \ {AnyOf(T)}
<1>3. IsFiniteSet(T)
  BY FS_Subset
<1>4. /\ SumFunctionOnSet(f, T) = IF T = {} THEN 0 ELSE f[AnyOf(T)] + SumFunctionOnSet(f, V)
      /\ SumFunctionOnSet(g, T) = IF T = {} THEN 0 ELSE g[AnyOf(T)] + SumFunctionOnSet(g, V)
  BY <1>3, SumStep
<1>5. T # {}
  BY <1>2, <1>4
<1>6. AnyOf(T) \in T
  BY <1>5 DEF AnyOf
<1>7. V \notin B
  BY <1>2, <1>6
<1>8. f[AnyOf(T)] = g[AnyOf(T)]
  BY <1>6
<1> QED  BY <1>2, <1>4, <1>5, <1>7, <1>8

(* Less everywhere, less in all.                                           *)
LEMMA SumMonotone ==
    ASSUME NEW S, IsFiniteSet(S), NEW f, NEW g,
           \A x \in S : f[x] \in Nat /\ g[x] \in Nat /\ f[x] <= g[x]
    PROVE  SumFunctionOnSet(f, S) <= SumFunctionOnSet(g, S)
<1> DEFINE B == {T \in SUBSET S : ~(SumFunctionOnSet(f, T) <= SumFunctionOnSet(g, T))}
<1>1. SUFFICES ASSUME B # {} PROVE FALSE
  OBVIOUS
<1>2. PICK T \in B : \A V \in B : V \subseteq T => V = T
  <2> B \subseteq SUBSET S
    OBVIOUS
  <2> HIDE DEF B
  <2> QED  BY <1>1, LeastSubset
<1> DEFINE V == T \ {AnyOf(T)}
<1>3. IsFiniteSet(T) /\ IsFiniteSet(V)
  BY FS_Subset
<1>4. /\ SumFunctionOnSet(f, T) = IF T = {} THEN 0 ELSE f[AnyOf(T)] + SumFunctionOnSet(f, V)
      /\ SumFunctionOnSet(g, T) = IF T = {} THEN 0 ELSE g[AnyOf(T)] + SumFunctionOnSet(g, V)
  BY <1>3, SumStep
<1>5. T # {}
  BY <1>2, <1>4
<1>6. AnyOf(T) \in T
  BY <1>5 DEF AnyOf
<1>7. V \notin B /\ V \subseteq S
  BY <1>2, <1>6
<1>8. SumFunctionOnSet(f, V) \in Nat /\ SumFunctionOnSet(g, V) \in Nat
  BY <1>3, <1>7, SumOfNaturals
<1>9. /\ f[AnyOf(T)] \in Nat /\ g[AnyOf(T)] \in Nat /\ f[AnyOf(T)] <= g[AnyOf(T)]
  BY <1>6
<1>10. SumFunctionOnSet(f, V) <= SumFunctionOnSet(g, V)
  BY <1>7
<1>11. ~(SumFunctionOnSet(f, T) <= SumFunctionOnSet(g, T))
  BY <1>2
<1> HIDE DEF B, V
<1> QED  BY <1>4, <1>5, <1>8, <1>9, <1>10, <1>11

(* Part of the summands, in any order, sum to no more.                     *)
LEMMA SumOfPart ==
    ASSUME NEW S, IsFiniteSet(S), NEW T, IsFiniteSet(T), NEW f, \A y \in T : f[y] \in Nat,
           NEW e \in [S -> T], \A x, z \in S : e[x] = e[z] => x = z,
           NEW g, \A x \in S : g[x] = f[e[x]]
    PROVE  SumFunctionOnSet(g, S) <= SumFunctionOnSet(f, T)
<1> DEFINE Sum(h, U) == SumFunctionOnSet(h, U)
           Fails(U, V) == (\A x \in U : e[x] \in V) /\ ~(Sum(g, U) <= Sum(f, V))
           B == {U \in SUBSET S : \E V \in SUBSET T : Fails(U, V)}
<1>1. SUFFICES ASSUME B # {} PROVE FALSE
  <2>1. Sum(g, S) <= Sum(f, T) \/ S \in B
    OBVIOUS
  <2> QED  BY <2>1
<1>2. PICK U \in B : \A W \in B : W \subseteq U => W = U
  <2> B \subseteq SUBSET S
    OBVIOUS
  <2> HIDE DEF B
  <2> QED  BY <1>1, LeastSubset
<1>3. PICK V \in SUBSET T : Fails(U, V)
  OBVIOUS
<1>4. IsFiniteSet(U) /\ IsFiniteSet(V)
  BY <1>2, FS_Subset
<1>5. \A y \in V : f[y] \in Nat
  OBVIOUS
<1>6. Sum(f, V) \in Nat
  BY <1>4, <1>5, SumOfNaturals
<1> DEFINE x == AnyOf(U)
           W == U \ {x}
<1>7. Sum(g, U) = IF U = {} THEN 0 ELSE g[x] + Sum(g, W)
  BY <1>4, SumStep
<1>8. U # {}
  BY <1>3, <1>6, <1>7
<1>9. x \in U /\ x \in S
  BY <1>2, <1>8 DEF AnyOf
<1>10. e[x] \in V /\ g[x] = f[e[x]] /\ f[e[x]] \in Nat
  BY <1>3, <1>5, <1>9
<1>11. W \notin B /\ W \in SUBSET S
  BY <1>2, <1>9
<1> DEFINE R == V \ {e[x]}
<1>12. R \in SUBSET T /\ \A z \in W : e[z] \in R
  BY <1>2, <1>3, <1>9
<1>13. Sum(g, W) <= Sum(f, R)
  BY <1>11, <1>12
<1>14. Sum(f, V) = f[e[x]] + Sum(f, R)
  BY <1>4, <1>5, <1>10, SumRemove
<1>15. Sum(f, R) \in Nat
  <2>1. IsFiniteSet(R) /\ \A y \in R : f[y] \in Nat
    BY <1>4, <1>5, FS_Subset
  <2> QED  BY <2>1, SumOfNaturals
<1>16. Sum(g, W) \in Nat
  <2>1. \A z \in W : g[z] \in Nat
    BY <1>2
  <2>2. IsFiniteSet(W)
    BY <1>4, FS_Subset
  <2> QED  BY <2>1, <2>2, SumOfNaturals
<1>17. ~(Sum(g, U) <= Sum(f, V))
  BY <1>3
<1>18. Sum(g, U) = f[e[x]] + Sum(g, W)
  BY <1>7, <1>8, <1>10
<1> HIDE DEF B, Fails, Sum, x, W, R
<1> QED  BY ONLY <1>10, <1>13, <1>14, <1>15, <1>16, <1>17, <1>18

(***************************************************************************)
(* Filtering.  f[n] is what Only keeps of the first n members.             *)
(***************************************************************************)
IsFilter(f, seq, keep, n) ==
    f = [m \in 0 .. n |-> IF m = 0 THEN <<>>
                          ELSE IF seq[m] \in keep THEN Append(f[m - 1], seq[m]) ELSE f[m - 1]]

(* The recursion of Only has a solution.                                   *)
LEMMA FilterExists ==
    ASSUME NEW seq, NEW keep, NEW n \in Nat
    PROVE  \E f : IsFilter(f, seq, keep, n)
<1> DEFINE B == {m \in Nat : ~ \E f : IsFilter(f, seq, keep, m)}
<1>1. SUFFICES ASSUME B # {} PROVE FALSE
  OBVIOUS
<1>2. PICK m \in B : \A k \in B : m <= k
  <2> B \subseteq Nat
    OBVIOUS
  <2> HIDE DEF B
  <2> QED  BY <1>1, LeastNatural
<1>3. CASE m = 0
  <2> DEFINE f == [k \in 0 .. 0 |-> <<>>]
  <2>1. IsFilter(f, seq, keep, 0)
    BY DEF IsFilter
  <2> QED  BY <1>2, <1>3, <2>1
<1>4. CASE m # 0
  <2>1. m - 1 \in Nat /\ m - 1 \notin B
    BY <1>2, <1>4
  <2>2. PICK f : IsFilter(f, seq, keep, m - 1)
    BY <2>1
  <2> DEFINE g == [k \in 0 .. m |->
                      IF k < m THEN f[k]
                      ELSE IF seq[m] \in keep THEN Append(f[m - 1], seq[m]) ELSE f[m - 1]]
             r == [k \in 0 .. m |-> IF k = 0 THEN <<>>
                          ELSE IF seq[k] \in keep THEN Append(g[k - 1], seq[k]) ELSE g[k - 1]]
  <2>3. ASSUME NEW k \in 0 .. m PROVE g[k] = r[k]
    <3>1. CASE k = m
      <4>1. g[k - 1] = f[k - 1]
        BY <1>2, <1>4, <3>1
      <4> QED  BY <1>2, <1>4, <3>1, <4>1
    <3>2. CASE k # m
      <4>1. k < m /\ k \in 0 .. m - 1
        BY <1>2, <3>2
      <4>2. f[k] = IF k = 0 THEN <<>>
                   ELSE IF seq[k] \in keep THEN Append(f[k - 1], seq[k]) ELSE f[k - 1]
        BY <2>2, <4>1 DEF IsFilter
      <4>3. k # 0 => g[k - 1] = f[k - 1]
        BY <1>2, <4>1
      <4> QED  BY <4>1, <4>2, <4>3
    <3> QED  BY <3>1, <3>2
  <2>4. g = [k \in 0 .. m |-> g[k]] /\ r = [k \in 0 .. m |-> r[k]]
    OBVIOUS
  <2>5. g = r
    <3> HIDE DEF g, r
    <3> QED  BY <2>3, <2>4
  <2>6. IsFilter(g, seq, keep, m)
    BY <2>5 DEF IsFilter
  <2> QED  BY <1>2, <2>6
<1> QED  BY <1>3, <1>4

(* sub has the members of the first n of seq that are to be kept, in their *)
(* order: e says where each of them was.                                   *)
Filters(sub, seq, keep, n, e) ==
    /\ e \in [1 .. Len(sub) -> 1 .. n]
    /\ \A i, j \in 1 .. Len(sub) : i < j => e[i] < e[j]
    /\ \A i \in 1 .. Len(sub) : sub[i] = seq[e[i]] /\ sub[i] \in keep
    /\ \A k \in 1 .. n : seq[k] \in keep => \E i \in 1 .. Len(sub) : e[i] = k

(* This is what Only returns.                                              *)
LEMMA OnlyFilters ==
    ASSUME NEW S, NEW seq \in Seq(S), NEW keep
    PROVE  /\ Only(seq, keep) \in Seq(S)
           /\ \E e : Filters(Only(seq, keep), seq, keep, Len(seq), e)
<1>0. Len(seq) \in Nat /\ \A k \in 1 .. Len(seq) : seq[k] \in S
  BY LenProperties, ElementOfSeq
<1>1. PICK f : IsFilter(f, seq, keep, Len(seq)) /\ Only(seq, keep) = f[Len(seq)]
  <2>1. Only(seq, keep) = (CHOOSE f : IsFilter(f, seq, keep, Len(seq)))[Len(seq)]
    BY DEF Only, IsFilter
  <2> QED  BY <1>0, <2>1, FilterExists
<1> DEFINE Good(n) == f[n] \in Seq(S) /\ \E e : Filters(f[n], seq, keep, n, e)
           B == {n \in 0 .. Len(seq) : ~Good(n)}
<1>2. SUFFICES ASSUME B # {} PROVE FALSE
  BY <1>0, <1>1
<1>3. PICK n \in B : \A k \in B : n <= k
  <2> B \subseteq Nat
    OBVIOUS
  <2> HIDE DEF B
  <2> QED  BY <1>2, LeastNatural
<1>4. f[n] = IF n = 0 THEN <<>>
             ELSE IF seq[n] \in keep THEN Append(f[n - 1], seq[n]) ELSE f[n - 1]
  BY <1>1 DEF IsFilter
<1>5. CASE n = 0
  <2> DEFINE e == [i \in 1 .. 0 |-> 0]
  <2>1. f[n] = <<>>
    BY <1>4, <1>5
  <2>2. Filters(f[n], seq, keep, n, e)
    BY <1>5, <2>1 DEF Filters
  <2>3. f[n] \in Seq(S)
    BY <2>1
  <2>4. Good(n)
    BY <2>2, <2>3
  <2> QED  BY <1>3, <2>4
<1>6. CASE n # 0
  <2>1. n - 1 \in 0 .. Len(seq) /\ Good(n - 1) /\ n \in 1 .. Len(seq)
    BY <1>0, <1>3, <1>6
  <2> DEFINE s == f[n - 1]
  <2>2. PICK d : Filters(s, seq, keep, n - 1, d)
    BY <2>1
  <2>3. s \in Seq(S) /\ Len(s) \in Nat /\ n \in Nat
    BY <2>1, LenProperties
  <2>4. CASE seq[n] \in keep
    <3> DEFINE t == Append(s, seq[n])
               e == [i \in 1 .. Len(s) + 1 |-> IF i = Len(s) + 1 THEN n ELSE d[i]]
    <3>1. /\ t \in Seq(S) /\ Len(t) = Len(s) + 1
          /\ \A i \in 1 .. Len(s) : t[i] = s[i]
          /\ t[Len(s) + 1] = seq[n]
      BY <1>0, <2>1, <2>3, AppendProperties
    <3> HIDE DEF s, t
    <3>2. e \in [1 .. Len(t) -> 1 .. n]
      BY <2>2, <2>3, <2>1, <3>1 DEF Filters
    <3>6a. /\ e[Len(s) + 1] = n
          /\ \A i \in 1 .. Len(s) : e[i] = d[i] /\ d[i] \in 1 .. n - 1
      BY <2>2, <2>3, <2>1 DEF Filters
    <3>6b. \A i \in 1 .. Len(t) : i # Len(s) + 1 => i \in 1 .. Len(s)
      BY <2>3, <3>1
    <3>3. ASSUME NEW i \in 1 .. Len(t), NEW j \in 1 .. Len(t), i < j
          PROVE  e[i] < e[j]
      <4> HIDE DEF e
      <4>1. i \in 1 .. Len(s)
        BY <2>3, <3>1, <3>3
      <4>2. CASE j = Len(s) + 1
        BY <2>3, <3>6a, <4>1, <4>2
      <4>3. CASE j # Len(s) + 1
        <5>1. j \in 1 .. Len(s)
          BY <3>6b, <4>3
        <5>2. d[i] < d[j]
          BY <2>2, <3>3, <4>1, <5>1 DEF Filters
        <5> QED  BY <3>6a, <4>1, <5>1, <5>2
      <4> QED  BY <4>2, <4>3
    <3>4. ASSUME NEW i \in 1 .. Len(t)
          PROVE  t[i] = seq[e[i]] /\ t[i] \in keep
      <4> HIDE DEF e
      <4>1. CASE i = Len(s) + 1
        BY <2>4, <3>1, <3>6a, <4>1
      <4>2. CASE i # Len(s) + 1
        <5>1. i \in 1 .. Len(s)
          BY <3>6b, <4>2
        <5> QED  BY <2>2, <3>1, <3>6a, <5>1 DEF Filters
      <4> QED  BY <4>1, <4>2
    <3>5. ASSUME NEW k \in 1 .. n, seq[k] \in keep
          PROVE  \E i \in 1 .. Len(t) : e[i] = k
      <4>1. CASE k = n
        BY <4>1, <2>3, <3>1
      <4>2. CASE k # n
        <5>1. k \in 1 .. n - 1
          BY <4>2, <2>3
        <5>2. PICK i \in 1 .. Len(s) : d[i] = k
          BY <2>2, <3>5, <5>1 DEF Filters
        <5> QED  BY <5>2, <2>3, <3>1
      <4> QED  BY <4>1, <4>2
    <3>6. Filters(t, seq, keep, n, e)
      BY <3>2, <3>3, <3>4, <3>5 DEF Filters
    <3>7. f[n] = t
      BY <1>4, <1>6, <2>4 DEF s, t
    <3> QED  BY <1>3, <3>1, <3>6, <3>7
  <2>5. CASE seq[n] \notin keep
    <3>1. f[n] = s
      BY <1>4, <1>6, <2>5
    <3> HIDE DEF s
    <3>2. Filters(s, seq, keep, n, d)
      <4>1. d \in [1 .. Len(s) -> 1 .. n]
        BY <2>2, <2>3 DEF Filters
      <4>2. \A k \in 1 .. n : seq[k] \in keep => \E i \in 1 .. Len(s) : d[i] = k
        BY <2>2, <2>3, <2>5 DEF Filters
      <4> QED  BY <2>2, <4>1, <4>2 DEF Filters
    <3> QED  BY <1>3, <2>3, <3>1, <3>2
  <2> QED  BY <2>4, <2>5
<1> QED  BY <1>5, <1>6

(* What of that the proofs use: its members are those of seq that are to   *)
(* be kept; it repeats none if seq does not, and rises if seq does.        *)
LEMMA OnlyKeeps ==
    ASSUME NEW S, NEW seq \in Seq(S), NEW keep
    PROVE  /\ Only(seq, keep) \in Seq(S)
           /\ DOMAIN Only(seq, keep) = 1 .. Len(Only(seq, keep))
           /\ \A i \in DOMAIN Only(seq, keep) :
                 Only(seq, keep)[i] \in keep /\ \E k \in DOMAIN seq : seq[k] = Only(seq, keep)[i]
           /\ \A k \in DOMAIN seq :
                 seq[k] \in keep => \E i \in DOMAIN Only(seq, keep) : Only(seq, keep)[i] = seq[k]
           /\ (\A i, j \in DOMAIN seq : seq[i] = seq[j] => i = j)
                 => \A i, j \in DOMAIN Only(seq, keep) :
                       Only(seq, keep)[i] = Only(seq, keep)[j] => i = j
           /\ (\A i, j \in DOMAIN seq : i < j => seq[i] < seq[j])
                 => \A i, j \in DOMAIN Only(seq, keep) :
                       i < j => Only(seq, keep)[i] < Only(seq, keep)[j]
<1> DEFINE s == Only(seq, keep)
<1>1. s \in Seq(S) /\ \E e : Filters(s, seq, keep, Len(seq), e)
  BY OnlyFilters
<1> HIDE DEF s
<1>2. /\ DOMAIN s = 1 .. Len(s) /\ Len(s) \in Nat
      /\ DOMAIN seq = 1 .. Len(seq) /\ Len(seq) \in Nat
  BY <1>1, LenProperties
<1>3. PICK e : Filters(s, seq, keep, Len(seq), e)
  BY <1>1
<1>4. \A i \in DOMAIN s : e[i] \in DOMAIN seq /\ s[i] = seq[e[i]] /\ s[i] \in keep
  BY <1>2, <1>3 DEF Filters
<1>5. \A i, j \in DOMAIN s : i < j => e[i] < e[j]
  BY <1>2, <1>3 DEF Filters
<1>6. \A k \in DOMAIN seq : seq[k] \in keep => \E i \in DOMAIN s : s[i] = seq[k]
  BY <1>2, <1>3 DEF Filters
<1>7. ASSUME \A i, j \in DOMAIN seq : seq[i] = seq[j] => i = j,
             NEW i \in DOMAIN s, NEW j \in DOMAIN s, s[i] = s[j]
      PROVE  i = j
  <2>1. e[i] = e[j]
    BY <1>4, <1>7
  <2>2. ~(i < j) /\ ~(j < i)
    BY <1>2, <1>4, <1>5, <2>1
  <2> QED  BY <1>2, <2>2
<1>8. ASSUME \A i, j \in DOMAIN seq : i < j => seq[i] < seq[j],
             NEW i \in DOMAIN s, NEW j \in DOMAIN s, i < j
      PROVE  s[i] < s[j]
  BY <1>4, <1>5, <1>8
<1>9. \A i \in DOMAIN s : s[i] \in keep /\ \E k \in DOMAIN seq : seq[k] = s[i]
  BY <1>4
<1> USE DEF s
<1> QED  BY <1>1, <1>2, <1>6, <1>7, <1>8, <1>9

(* An increasing enumeration of a finite set of naturals, of its length,   *)
(* reaches every member.                                                   *)
LEMMA EnumerationIsComplete ==
    ASSUME NEW S, IsFiniteSet(S), S \subseteq Nat,
           NEW seq \in [1 .. Cardinality(S) -> S],
           \A i, j \in 1 .. Cardinality(S) : i < j => seq[i] < seq[j]
    PROVE  /\ seq \in Seq(S)
           /\ DOMAIN seq = 1 .. Cardinality(S)
           /\ \A x \in S : \E i \in DOMAIN seq : seq[i] = x
           /\ \A i, j \in DOMAIN seq : seq[i] = seq[j] => i = j
<1> DEFINE n == Cardinality(S)
<1>1. n \in Nat
  BY FS_CardinalityType
<1>2. seq \in [1 .. n -> S] /\ DOMAIN seq = 1 .. n
  OBVIOUS
<1>3. \A i, j \in 1 .. n : i < j => seq[i] < seq[j]
  OBVIOUS
<1>4. IsFiniteSet(1 .. n) /\ Cardinality(1 .. n) = n
  <2> HIDE DEF n
  <2>1. IsFiniteSet(1 .. n) /\ Cardinality(1 .. n) = IF 1 > n THEN 0 ELSE n - 1 + 1
    BY <1>1, FS_Interval
  <2> QED  BY <1>1, <2>1
<1>5. \A i, j \in 1 .. n : seq[i] = seq[j] => i = j
  <2> SUFFICES ASSUME NEW i \in 1 .. n, NEW j \in 1 .. n, seq[i] = seq[j]
               PROVE  i = j
    OBVIOUS
  <2> HIDE DEF n
  <2>1. seq[i] \in Nat /\ seq[j] \in Nat
    BY <1>2
  <2>2. ~(i < j) /\ ~(j < i)
    BY <1>3, <2>1
  <2> QED  BY <1>1, <2>2
<1>6. seq \in Injection(1 .. n, S)
  <2> HIDE DEF n
  <2> QED  BY <1>2, <1>5 DEF Injection, IsInjective
<1>7. seq \in Surjection(1 .. n, S)
  <2>1. Cardinality(1 .. n) = Cardinality(S) <=> seq \in Surjection(1 .. n, S)
    <3> DEFINE D == 1 .. n
    <3>1. seq \in Injection(D, S)
      BY <1>6
    <3> HIDE DEF D
    <3>2. Cardinality(D) = Cardinality(S) <=> seq \in Surjection(D, S)
      BY <3>1, FS_Injection
    <3> USE DEF D
    <3> QED  BY <3>2
  <2> QED  BY <1>4, <2>1
<1>8. \A x \in S : \E i \in 1 .. n : seq[i] = x
  BY <1>7 DEF Surjection
<1>9. seq \in Seq(S)
  <2> HIDE DEF n
  <2> QED  BY <1>1, <1>2
<1> QED  BY <1>2, <1>5, <1>8, <1>9

-----------------------------------------------------------------------------
(* A finite set of naturals has a greatest element.                        *)
LEMMA GreatestNatural ==
    ASSUME NEW S, IsFiniteSet(S), S \subseteq Nat, S # {}
    PROVE  \E n \in S : \A m \in S : m <= n
<1>0. IsFiniteSet(S)
  OBVIOUS
<1> DEFINE B == {T \in SUBSET S : T # {} /\ \A n \in T : \E m \in T : ~(m <= n)}
<1>1. SUFFICES ASSUME B # {} PROVE FALSE
  OBVIOUS
<1>2. PICK T \in B : \A V \in B : V \subseteq T => V = T
  <2>1. B \subseteq SUBSET S
    OBVIOUS
  <2> HIDE DEF B
  <2> QED  BY ONLY <1>0, <1>1, <2>1, LeastSubset
<1>3. PICK x \in T : TRUE
  BY <1>2
<1>4. CASE T = {x}
  BY <1>2, <1>4
<1>5. CASE T # {x}
  <2>1. T \ {x} # {} /\ T \ {x} # T /\ T \ {x} \subseteq T
    BY <1>3, <1>5
  <2>2. PICK y \in T \ {x} : \A m \in T \ {x} : m <= y
    BY <1>2, <2>1
  <2>3. \E n \in {x, y} : \A m \in T : m <= n
    BY <1>2, <2>2
  <2> QED  BY <1>2, <2>2, <2>3
<1> QED  BY <1>4, <1>5

(* The image of a finite set is finite.                                    *)
LEMMA FiniteImage ==
    ASSUME NEW S, IsFiniteSet(S), NEW f
    PROVE  IsFiniteSet({f[x] : x \in S})
<1> DEFINE T == {f[x] : x \in S}
           g == [x \in S |-> f[x]]
<1>1. g \in Surjection(S, T)
  BY DEF Surjection
<1> HIDE DEF g, T
<1>2. IsFiniteSet(T)
  BY <1>1, FS_Surjection
<1> QED  BY <1>2 DEF T
=============================================================================
