---------------------------- MODULE SumTheorems ----------------------------
(***************************************************************************)
(* Facts about SumFunctionOnSet, the sum of a function over a finite set.   *)
(* The community modules define it by a fold over a recursive function and  *)
(* state no theorem about it; the contract's equivalents, its leaderboard   *)
(* and what it owes are such sums.  A table of partial sums, one entry per  *)
(* subset, stands for the recursive function; it exists and is unique       *)
(* because proper inclusion of finite sets is well founded.                 *)
(***************************************************************************)
EXTENDS Integers, Functions, FiniteSetTheorems, TLAPS

\* The element of T that the fold takes first.
Pick(T) == CHOOSE x \in T : TRUE

\* t[T] is the sum of f over T, for every subset T of S.
IsPartialSum(t, f, S) ==
  t = [T \in SUBSET S |-> IF T = {} THEN 0 ELSE f[Pick(T)] + t[T \ {Pick(T)}]]

\* A non-empty collection of subsets of a finite set has a member with no proper
\* subset in the collection.
LEMMA MinimalSubset ==
  ASSUME NEW S, IsFiniteSet(S), NEW D \in SUBSET SUBSET S, D # {}
  PROVE  \E T \in D : \A U \in D : U \subseteq T => U = T
<1>1. IsWellFoundedOn(StrictSubsetOrdering(S), SUBSET S)
  BY FS_StrictSubsetOrderingWellFounded, FS_FiniteSubsetsOfFinite
<1>2. \E T \in D : \A U \in D : ~(<<U, T>> \in StrictSubsetOrdering(S))
  BY <1>1, WFMin
<1>3. QED
  BY <1>2 DEF StrictSubsetOrdering

\* The element that the fold takes first is one of the set's.
LEMMA PickIsMember == ASSUME NEW T, T # {} PROVE Pick(T) \in T
  BY DEF Pick

\* The table of partial sums over a finite set is unique, and the tables over two
\* finite sets agree on the subsets they share.
LEMMA PartialSumsAgree ==
  ASSUME NEW f, NEW S, IsFiniteSet(S), NEW V \in SUBSET S, NEW t, NEW u,
         IsPartialSum(t, f, S), IsPartialSum(u, f, V)
  PROVE  t[V] = u[V]
<1> DEFINE D == {T \in SUBSET V : t[T] # u[T]}
<1>1. SUFFICES ASSUME D # {} PROVE FALSE
  OBVIOUS
<1>2. IsFiniteSet(V)
  BY FS_Subset
<1>3. PICK T \in D : \A U \in D : U \subseteq T => U = T
  <2>1. D \in SUBSET SUBSET V
    OBVIOUS
  <2> HIDE DEF D
  <2> QED BY <1>1, <1>2, <2>1, MinimalSubset
<1>4. CASE T = {}
  <2>1. t[T] = 0 /\ u[T] = 0
    BY <1>4 DEF IsPartialSum
  <2> QED BY <2>1
<1>5. CASE T # {}
  <2>1. Pick(T) \in T
    BY <1>5, PickIsMember
  <2>2. t[T \ {Pick(T)}] = u[T \ {Pick(T)}]
    BY <1>3, <2>1
  <2>3. t[T] = f[Pick(T)] + t[T \ {Pick(T)}]
    BY <1>5 DEF IsPartialSum
  <2>4. u[T] = f[Pick(T)] + u[T \ {Pick(T)}]
    BY <1>5 DEF IsPartialSum
  <2> QED BY <2>2, <2>3, <2>4
<1>6. QED
  BY <1>4, <1>5

\* Every finite set has a table of partial sums.
LEMMA PartialSumExists ==
  ASSUME NEW f, NEW S, IsFiniteSet(S)
  PROVE  \E t : IsPartialSum(t, f, S)
<1> DEFINE h(T) == CHOOSE t : IsPartialSum(t, f, T)
           D == {T \in SUBSET S : ~ IsPartialSum(h(T), f, T)}
<1>1. SUFFICES ASSUME D # {} PROVE FALSE
  <2>1. D = {} => IsPartialSum(h(S), f, S)
    OBVIOUS
  <2> QED BY <2>1
<1>2. PICK T \in D : \A U \in D : U \subseteq T => U = T
  <2>1. D \in SUBSET SUBSET S
    OBVIOUS
  <2> HIDE DEF D
  <2> QED BY <1>1, <2>1, MinimalSubset
<1>3. \A U \in SUBSET T : U # T => IsPartialSum(h(U), f, U)
  BY <1>2
<1> DEFINE top == IF T = {} THEN 0 ELSE f[Pick(T)] + h(T \ {Pick(T)})[T \ {Pick(T)}]
           t == [U \in SUBSET T |-> IF U = T THEN top ELSE h(U)[U]]
           r == [U \in SUBSET T |-> IF U = {} THEN 0 ELSE f[Pick(U)] + t[U \ {Pick(U)}]]
<1> HIDE DEF h
<1>4. \A U \in SUBSET T : t[U] = r[U]
  <2> SUFFICES ASSUME NEW U \in SUBSET T PROVE t[U] = r[U]
    OBVIOUS
  <2>1. CASE U = {}
    <3>1. CASE T = {}
      BY <2>1, <3>1
    <3>2. CASE T # {}
      <4>1. IsPartialSum(h(U), f, U)
        BY <1>3, <2>1, <3>2
      <4>2. h(U)[U] = 0
        BY <4>1, <2>1 DEF IsPartialSum
      <4> QED BY <4>2, <2>1, <3>2
    <3> QED BY <3>1, <3>2
  <2>2. CASE U # {}
    <3> DEFINE p == Pick(U)
               W == U \ {p}
    <3>1. p \in U
      BY <2>2, PickIsMember
    <3>2. W \in SUBSET T /\ W # T
      BY <3>1
    <3>3. t[W] = h(W)[W]
      BY <3>2
    <3>4. r[U] = f[p] + h(W)[W]
      BY <2>2, <3>3
    <3>5. CASE U = T
      BY <3>4, <3>5, <2>2
    <3>6. CASE U # T
      <4>1. IsPartialSum(h(U), f, U) /\ IsPartialSum(h(W), f, W)
        BY <1>3, <3>2, <3>6
      <4>2. IsFiniteSet(U)
        BY FS_Subset
      <4>3. h(U)[W] = h(W)[W]
        BY <4>1, <4>2, PartialSumsAgree
      <4>4. h(U)[U] = f[p] + h(U)[W]
        BY <4>1, <2>2 DEF IsPartialSum
      <4> QED BY <4>3, <4>4, <3>4, <3>6
    <3> QED BY <3>5, <3>6
  <2> QED BY <2>1, <2>2
<1>5. t = r
  BY <1>4
<1>6. IsPartialSum(t, f, T)
  BY <1>5 DEF IsPartialSum
<1>7. IsPartialSum(h(T), f, T)
  BY <1>6 DEF h
<1>8. QED
  BY <1>2, <1>7

\* SumFunctionOnSet, the library's fold, is what the table of partial sums holds.
LEMMA SumIsPartialSum ==
  ASSUME NEW f, NEW S, IsFiniteSet(S)
  PROVE  \E t : /\ IsPartialSum(t, f, S)
                /\ \A T \in SUBSET S : SumFunctionOnSet(f, T) = t[T]
<1> DEFINE h(T) == CHOOSE t : IsPartialSum(t, f, T)
<1>1. \A T : SumFunctionOnSet(f, T) = h(T)[T]
  BY DEF SumFunctionOnSet, FoldFunctionOnSet, MapThenFoldSet, IsPartialSum, Pick
<1>2. \A T \in SUBSET S : IsPartialSum(h(T), f, T)
  BY PartialSumExists, FS_Subset
<1>3. IsPartialSum(h(S), f, S)
  BY <1>2
<1> HIDE DEF h
<1>4. \A T \in SUBSET S : h(S)[T] = h(T)[T]
  BY <1>2, <1>3, PartialSumsAgree
<1>5. QED
  BY <1>1, <1>3, <1>4

\* One step of the fold: the first element's value plus the sum over the others.
LEMMA SumPick ==
  ASSUME NEW f, NEW S, IsFiniteSet(S), S # {}
  PROVE  SumFunctionOnSet(f, S) = f[Pick(S)] + SumFunctionOnSet(f, S \ {Pick(S)})
<1>1. PICK t : /\ IsPartialSum(t, f, S)
               /\ \A T \in SUBSET S : SumFunctionOnSet(f, T) = t[T]
  BY SumIsPartialSum
<1>2. t[S] = f[Pick(S)] + t[S \ {Pick(S)}]
  BY <1>1 DEF IsPartialSum
<1>3. QED
  BY <1>1, <1>2

\* The sum over no element is 0.
THEOREM SumEmpty == ASSUME NEW f PROVE SumFunctionOnSet(f, {}) = 0
<1>1. IsFiniteSet({})
  BY FS_EmptySet
<1>2. PICK t : /\ IsPartialSum(t, f, {})
               /\ \A T \in SUBSET {} : SumFunctionOnSet(f, T) = t[T]
  BY <1>1, SumIsPartialSum
<1>3. t[{}] = 0
  BY <1>2 DEF IsPartialSum
<1>4. QED
  BY <1>2, <1>3

\* The sum of integers over a finite set is an integer.
THEOREM SumType ==
  ASSUME NEW S, IsFiniteSet(S), NEW f, \A x \in S : f[x] \in Int
  PROVE  SumFunctionOnSet(f, S) \in Int
<1> DEFINE D == {T \in SUBSET S : SumFunctionOnSet(f, T) \notin Int}
<1>1. SUFFICES ASSUME D # {} PROVE FALSE
  OBVIOUS
<1>2. PICK T \in D : \A U \in D : U \subseteq T => U = T
  <2>1. D \in SUBSET SUBSET S
    OBVIOUS
  <2> HIDE DEF D
  <2> QED BY <1>1, <2>1, MinimalSubset
<1>3. IsFiniteSet(T)
  BY FS_Subset
<1>4. T # {}
  BY <1>2, SumEmpty
<1>5. Pick(T) \in T
  BY <1>4, PickIsMember
<1>6. SumFunctionOnSet(f, T \ {Pick(T)}) \in Int
  BY <1>2, <1>5
<1>7. QED
  BY <1>3, <1>4, <1>5, <1>6, SumPick

\* Any element may be taken out of a sum first, not only the one the fold picks.
THEOREM SumRemove ==
  ASSUME NEW S, IsFiniteSet(S), NEW f, \A y \in S : f[y] \in Int, NEW x \in S
  PROVE  SumFunctionOnSet(f, S) = f[x] + SumFunctionOnSet(f, S \ {x})
<1> DEFINE sum(T) == SumFunctionOnSet(f, T)
           Splits(T) == \A y \in T : sum(T) = f[y] + sum(T \ {y})
           D == {T \in SUBSET S : ~ Splits(T)}
<1>1. SUFFICES ASSUME D # {} PROVE FALSE
  OBVIOUS
<1>2. PICK T \in D : \A U \in D : U \subseteq T => U = T
  <2>1. D \in SUBSET SUBSET S
    OBVIOUS
  <2> HIDE DEF D
  <2> QED BY <1>1, <2>1, MinimalSubset
<1>3. PICK y \in T : sum(T) # f[y] + sum(T \ {y})
  BY <1>2
<1> DEFINE p == Pick(T)
           U == T \ {p}
           W == T \ {y}
<1>4. p \in T /\ sum(T) = f[p] + sum(U)
  BY <1>3, FS_Subset, PickIsMember, SumPick
<1>5. p # y
  BY <1>3, <1>4
<1>6. Splits(U) /\ Splits(W)
  BY <1>2, <1>3, <1>4
<1>7. y \in U /\ p \in W /\ W \ {p} = U \ {y}
  BY <1>3, <1>4, <1>5
<1>8. sum(U) = f[y] + sum(U \ {y}) /\ sum(W) = f[p] + sum(U \ {y})
  BY <1>6, <1>7
<1>9. sum(U \ {y}) \in Int
  <2>1. IsFiniteSet(U \ {y})
    BY FS_Subset
  <2> QED BY <2>1, SumType
<1>10. f[y] \in Int /\ f[p] \in Int
  BY <1>3, <1>4
<1>11. QED
  BY <1>3, <1>4, <1>8, <1>9, <1>10

\* Functions that agree on a finite set have the same sum over it.
THEOREM SumAgree ==
  ASSUME NEW S, IsFiniteSet(S), NEW f, NEW g, \A y \in S : f[y] = g[y]
  PROVE  SumFunctionOnSet(f, S) = SumFunctionOnSet(g, S)
<1> DEFINE D == {T \in SUBSET S : SumFunctionOnSet(f, T) # SumFunctionOnSet(g, T)}
<1>1. SUFFICES ASSUME D # {} PROVE FALSE
  OBVIOUS
<1>2. PICK T \in D : \A U \in D : U \subseteq T => U = T
  <2>1. D \in SUBSET SUBSET S
    OBVIOUS
  <2> HIDE DEF D
  <2> QED BY <1>1, <2>1, MinimalSubset
<1>3. IsFiniteSet(T) /\ T # {}
  BY <1>2, FS_Subset, SumEmpty
<1>4. Pick(T) \in T
  BY <1>3, PickIsMember
<1>5. SumFunctionOnSet(f, T \ {Pick(T)}) = SumFunctionOnSet(g, T \ {Pick(T)})
  BY <1>2, <1>4
<1>6. QED
  BY <1>2, <1>3, <1>4, <1>5, SumPick

\* Changing one value by d changes the sum by d.
THEOREM SumUpdate ==
  ASSUME NEW S, IsFiniteSet(S), NEW f, NEW g, NEW x \in S,
         \A y \in S : f[y] \in Int /\ g[y] \in Int,
         \A y \in S \ {x} : f[y] = g[y]
  PROVE  SumFunctionOnSet(g, S) = SumFunctionOnSet(f, S) + (g[x] - f[x])
<1>1. IsFiniteSet(S \ {x})
  BY FS_Subset
<1>2. SumFunctionOnSet(f, S \ {x}) = SumFunctionOnSet(g, S \ {x})
  BY <1>1, SumAgree
<1>3. SumFunctionOnSet(f, S \ {x}) \in Int
  BY <1>1, SumType
<1>4. /\ SumFunctionOnSet(f, S) = f[x] + SumFunctionOnSet(f, S \ {x})
      /\ SumFunctionOnSet(g, S) = g[x] + SumFunctionOnSet(g, S \ {x})
  BY SumRemove
<1>5. QED
  BY <1>2, <1>3, <1>4

\* The same for two functions that differ at one element by d.
THEOREM SumChange ==
  ASSUME NEW S, IsFiniteSet(S), NEW f, NEW g, NEW x \in S, NEW d \in Int,
         \A y \in S : f[y] \in Int,
         \A y \in S : g[y] = IF y = x THEN f[y] + d ELSE f[y]
  PROVE  SumFunctionOnSet(g, S) = SumFunctionOnSet(f, S) + d
<1>1. \A y \in S : f[y] \in Int /\ g[y] \in Int
  OBVIOUS
<1>2. \A y \in S \ {x} : f[y] = g[y]
  OBVIOUS
<1>3. g[x] - f[x] = d
  OBVIOUS
<1>4. SumFunctionOnSet(g, S) = SumFunctionOnSet(f, S) + (g[x] - f[x])
  BY <1>1, <1>2, SumUpdate
<1>5. QED
  BY <1>3, <1>4

\* The sum of naturals over a finite set is a natural.
THEOREM SumNat ==
  ASSUME NEW S, IsFiniteSet(S), NEW f, \A x \in S : f[x] \in Nat
  PROVE  SumFunctionOnSet(f, S) \in Nat
<1> DEFINE D == {T \in SUBSET S : SumFunctionOnSet(f, T) \notin Nat}
<1>1. SUFFICES ASSUME D # {} PROVE FALSE
  OBVIOUS
<1>2. PICK T \in D : \A U \in D : U \subseteq T => U = T
  <2>1. D \in SUBSET SUBSET S
    OBVIOUS
  <2> HIDE DEF D
  <2> QED BY <1>1, <2>1, MinimalSubset
<1>3. IsFiniteSet(T) /\ T # {}
  <2>1. SumFunctionOnSet(f, {}) = 0
    BY SumEmpty
  <2>2. SumFunctionOnSet(f, T) \notin Nat
    BY <1>2
  <2>3. T # {}
    BY <2>1, <2>2
  <2> QED BY <2>3, FS_Subset
<1>4. Pick(T) \in T
  BY <1>3, PickIsMember
<1>5. SumFunctionOnSet(f, T \ {Pick(T)}) \in Nat
  BY <1>2, <1>4
<1>6. SumFunctionOnSet(f, T) = f[Pick(T)] + SumFunctionOnSet(f, T \ {Pick(T)})
  BY <1>3, SumPick
<1>7. QED
  BY <1>2, <1>4, <1>5, <1>6

\* No value exceeds the sum of naturals it belongs to.
THEOREM SumBoundsMember ==
  ASSUME NEW S, IsFiniteSet(S), NEW f, \A y \in S : f[y] \in Nat, NEW x \in S
  PROVE  f[x] <= SumFunctionOnSet(f, S)
<1>1. IsFiniteSet(S \ {x})
  BY FS_Subset
<1>2. SumFunctionOnSet(f, S \ {x}) \in Nat
  BY <1>1, SumNat
<1>3. SumFunctionOnSet(f, S) = f[x] + SumFunctionOnSet(f, S \ {x})
  BY SumRemove
<1>4. QED
  BY <1>2, <1>3

\* A sum of zeros is 0.
THEOREM SumZero ==
  ASSUME NEW S, IsFiniteSet(S), NEW f, \A y \in S : f[y] = 0
  PROVE  SumFunctionOnSet(f, S) = 0
<1> DEFINE D == {T \in SUBSET S : SumFunctionOnSet(f, T) # 0}
<1>1. SUFFICES ASSUME D # {} PROVE FALSE
  OBVIOUS
<1>2. PICK T \in D : \A U \in D : U \subseteq T => U = T
  <2>1. D \in SUBSET SUBSET S
    OBVIOUS
  <2> HIDE DEF D
  <2> QED BY <1>1, <2>1, MinimalSubset
<1>3. IsFiniteSet(T) /\ T # {}
  BY <1>2, FS_Subset, SumEmpty
<1>4. Pick(T) \in T
  BY <1>3, PickIsMember
<1>5. SumFunctionOnSet(f, T \ {Pick(T)}) = 0
  BY <1>2, <1>4
<1>6. QED
  BY <1>2, <1>3, <1>4, <1>5, SumPick

\* The sum over two sets with nothing in common is the sum of the sums.
THEOREM SumUnion ==
  ASSUME NEW S, IsFiniteSet(S), NEW T, IsFiniteSet(T), S \cap T = {},
         NEW f, \A y \in S \cup T : f[y] \in Int
  PROVE  SumFunctionOnSet(f, S \cup T) = SumFunctionOnSet(f, S) + SumFunctionOnSet(f, T)
<1> DEFINE sum(U) == SumFunctionOnSet(f, U)
           D == {U \in SUBSET T : sum(S \cup U) # sum(S) + sum(U)}
<1>1. SUFFICES ASSUME D # {} PROVE FALSE
  OBVIOUS
<1>2. PICK U \in D : \A V \in D : V \subseteq U => V = U
  <2>1. D \in SUBSET SUBSET T
    OBVIOUS
  <2> HIDE DEF D
  <2> QED BY <1>1, <2>1, MinimalSubset
<1>3. IsFiniteSet(U) /\ IsFiniteSet(S \cup U) /\ U \subseteq T
  BY <1>2, FS_Subset, FS_Union
<1>4. U # {}
  <2>1. SUFFICES ASSUME U = {} PROVE FALSE
    OBVIOUS
  <2>2. sum({}) = 0 /\ sum(S) \in Int
    BY SumEmpty, SumType
  <2>3. S \cup U = S
    BY <2>1
  <2>4. sum(S \cup U) = sum(S) /\ sum(U) = sum({})
    BY <2>1, <2>3
  <2>5. sum(S \cup U) # sum(S) + sum(U)
    BY <1>2
  <2> HIDE DEF sum, D
  <2> QED BY <2>2, <2>4, <2>5
<1>5. PICK x \in U : TRUE
  BY <1>4
<1>6. sum(S \cup (U \ {x})) = sum(S) + sum(U \ {x})
  <2>1. U \ {x} \in SUBSET T /\ U \ {x} \subseteq U /\ U \ {x} # U
    BY <1>3, <1>5
  <2> QED BY <1>2, <2>1
<1>7. sum(U) = f[x] + sum(U \ {x})
  <2>1. \A y \in U : f[y] \in Int
    BY <1>3
  <2> HIDE DEF D
  <2> QED BY <1>3, <1>5, <2>1, SumRemove
<1>8. sum(S \cup U) = f[x] + sum(S \cup (U \ {x}))
  <2>1. (S \cup U) \ {x} = S \cup (U \ {x}) /\ x \in S \cup U
    BY <1>3, <1>5
  <2>2. \A y \in S \cup U : f[y] \in Int
    BY <1>3
  <2>3. sum(S \cup U) = f[x] + sum((S \cup U) \ {x})
    <3> HIDE DEF D
    <3> QED BY <1>3, <2>1, <2>2, SumRemove
  <2> QED BY <2>1, <2>3
<1>9. /\ sum(S) \in Int /\ sum(U \ {x}) \in Int /\ f[x] \in Int
  <2>1. IsFiniteSet(U \ {x}) /\ \A y \in U \ {x} : f[y] \in Int
    BY <1>3, FS_Subset
  <2>2. \A y \in S : f[y] \in Int
    OBVIOUS
  <2>3. f[x] \in Int
    BY <1>3, <1>5
  <2> HIDE DEF D
  <2> QED BY <2>1, <2>2, <2>3, SumType
<1> HIDE DEF sum
<1> QED
  BY <1>2, <1>6, <1>7, <1>8, <1>9

\* A function that is nowhere smaller has no smaller sum.
THEOREM SumMonotone ==
  ASSUME NEW S, IsFiniteSet(S), NEW f, NEW g,
         \A y \in S : f[y] \in Int /\ g[y] \in Int /\ f[y] <= g[y]
  PROVE  SumFunctionOnSet(f, S) <= SumFunctionOnSet(g, S)
<1> DEFINE D == {T \in SUBSET S : ~ (SumFunctionOnSet(f, T) <= SumFunctionOnSet(g, T))}
<1>1. SUFFICES ASSUME D # {} PROVE FALSE
  OBVIOUS
<1>2. PICK T \in D : \A U \in D : U \subseteq T => U = T
  <2>1. D \in SUBSET SUBSET S
    OBVIOUS
  <2> HIDE DEF D
  <2> QED BY <1>1, <2>1, MinimalSubset
<1>3. IsFiniteSet(T) /\ T # {} /\ T \subseteq S
  <2>1. SumFunctionOnSet(f, {}) = 0 /\ SumFunctionOnSet(g, {}) = 0
    BY SumEmpty
  <2>2. ~ (SumFunctionOnSet(f, T) <= SumFunctionOnSet(g, T))
    BY <1>2
  <2>3. T # {}
    BY <2>1, <2>2
  <2> QED BY <1>2, <2>3, FS_Subset
<1>4. Pick(T) \in T
  BY <1>3, PickIsMember
<1>5. SumFunctionOnSet(f, T \ {Pick(T)}) <= SumFunctionOnSet(g, T \ {Pick(T)})
  BY <1>2, <1>4
<1>6. /\ SumFunctionOnSet(f, T \ {Pick(T)}) \in Int
      /\ SumFunctionOnSet(g, T \ {Pick(T)}) \in Int
  <2>1. IsFiniteSet(T \ {Pick(T)}) /\ \A y \in T \ {Pick(T)} : f[y] \in Int /\ g[y] \in Int
    BY <1>3, FS_Subset
  <2> HIDE DEF D
  <2> QED BY <2>1, SumType
<1>7. QED
  BY <1>2, <1>3, <1>4, <1>5, <1>6, SumPick
=============================================================================
