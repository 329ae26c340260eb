-------------------------------- MODULE Sums --------------------------------
(***************************************************************************)
(* What SumFunctionOnSet of the community modules adds up to, for every    *)
(* function and every finite set: the lemmas the proofs about balances and *)
(* totals rest on.  Induction is by a least counterexample among the       *)
(* subsets of a finite set (WFMin), which needs no operator as parameter.  *)
(***************************************************************************)
EXTENDS Integers, FiniteSets, Functions, FiniteSetTheorems, WellFoundedInduction, TLAPS

Pick(s) == CHOOSE x \in s : TRUE

LEMMA PickIsIn == \A s : s # {} => Pick(s) \in s
BY DEF Pick

(* The function by which SumFunctionOnSet is defined.                      *)
Adds(f, S, g) ==
  g = [s \in SUBSET S |-> IF s = {} THEN 0 ELSE f[Pick(s)] + g[s \ {Pick(s)}]]

LEMMA SumIsChosen ==
  ASSUME NEW f, NEW S
  PROVE  SumFunctionOnSet(f, S) = (CHOOSE g : Adds(f, S, g))[S]
BY DEF SumFunctionOnSet, FoldFunctionOnSet, MapThenFoldSet, Adds, Pick

(* Of the subsets of a finite set that are in D one is least.              *)
LEMMA LeastSubset ==
  ASSUME NEW S, IsFiniteSet(S), NEW D, D \subseteq SUBSET S, D # {}
  PROVE  \E T \in D : \A U \in D : U \subseteq T => U = T
<1>1. IsWellFoundedOn(StrictSubsetOrdering(S), FiniteSubsetsOf(S))
  BY FS_StrictSubsetOrderingWellFounded
<1>2. D \subseteq FiniteSubsetsOf(S)
  BY FS_FiniteSubsetsOfFinite
<1>3. PICK T \in D : \A U \in D : ~ (<<U, T>> \in StrictSubsetOrdering(S))
  BY <1>1, <1>2, WFMin
<1>4. ASSUME NEW U \in D, U \subseteq T PROVE U = T
  <2>1. <<U, T>> \in (SUBSET S) \X (SUBSET S)
    OBVIOUS
  <2>2. CASE U # T
    <3>1. <<U, T>> \in StrictSubsetOrdering(S)
      BY <1>4, <2>1, <2>2 DEF StrictSubsetOrdering
    <3> QED BY <1>3, <3>1
  <2> QED BY <2>2
<1> QED BY <1>4

LEMMA AddsIsUnique ==
  ASSUME NEW f, NEW S, IsFiniteSet(S), NEW g, NEW h, Adds(f, S, g), Adds(f, S, h)
  PROVE  g = h
<1> DEFINE D == {s \in SUBSET S : g[s] # h[s]}
<1>1. /\ DOMAIN g = SUBSET S /\ DOMAIN h = SUBSET S
      /\ g = [s \in DOMAIN g |-> g[s]] /\ h = [s \in DOMAIN h |-> h[s]]
      /\ \A s \in SUBSET S : g[s] = IF s = {} THEN 0 ELSE f[Pick(s)] + g[s \ {Pick(s)}]
      /\ \A s \in SUBSET S : h[s] = IF s = {} THEN 0 ELSE f[Pick(s)] + h[s \ {Pick(s)}]
  BY DEF Adds
<1>2. CASE D = {}
  BY <1>1, <1>2
<1>3. CASE D # {}
  <2>0. D \subseteq SUBSET S
    OBVIOUS
  <2>1. PICK T \in D : \A U \in D : U \subseteq T => U = T
    <3> HIDE DEF D
    <3> QED BY <1>3, <2>0, LeastSubset
  <2>2. T # {}
    BY <1>1
  <2>3. T \ {Pick(T)} \in SUBSET S /\ T \ {Pick(T)} \subseteq T /\ T \ {Pick(T)} # T
    BY <2>2, PickIsIn
  <2>4. g[T \ {Pick(T)}] = h[T \ {Pick(T)}]
    BY <2>1, <2>3
  <2> QED BY <1>1, <2>2, <2>4
<1> QED BY <1>2, <1>3

(* A set adds up to what is picked first and the rest.                     *)
AddsUp(f, T) ==
  SumFunctionOnSet(f, T) =
    IF T = {} THEN 0 ELSE f[Pick(T)] + SumFunctionOnSet(f, T \ {Pick(T)})

LEMMA AddsUpFromBelow ==
  ASSUME NEW f, NEW T, IsFiniteSet(T), \A U \in SUBSET T : U # T => AddsUp(f, U)
  PROVE  AddsUp(f, T)
<1> DEFINE h == [s \in SUBSET T |->
                  IF s = {} THEN 0 ELSE f[Pick(s)] + SumFunctionOnSet(f, s \ {Pick(s)})]
<1>1. ASSUME NEW s \in SUBSET T, s # {}
      PROVE  h[s \ {Pick(s)}] = SumFunctionOnSet(f, s \ {Pick(s)})
  <2>1. s \ {Pick(s)} \in SUBSET T /\ s \ {Pick(s)} # T
    BY <1>1, PickIsIn
  <2>2. AddsUp(f, s \ {Pick(s)})
    BY <2>1
  <2> QED BY <2>1, <2>2 DEF AddsUp
<1>2. h = [s \in SUBSET T |-> IF s = {} THEN 0 ELSE f[Pick(s)] + h[s \ {Pick(s)}]]
  BY <1>1
<1>3. Adds(f, T, h)
  BY <1>2 DEF Adds
<1>4. Adds(f, T, CHOOSE g : Adds(f, T, g))
  BY <1>3
<1>5. SumFunctionOnSet(f, T) = h[T]
  BY <1>3, <1>4, AddsIsUnique, SumIsChosen
<1> QED BY <1>5 DEF AddsUp

LEMMA AddsUpAlways ==
  ASSUME NEW f, NEW S, IsFiniteSet(S)
  PROVE  AddsUp(f, S)
<1> DEFINE D == {T \in SUBSET S : ~AddsUp(f, T)}
<1>1. CASE D = {}
  BY <1>1
<1>2. CASE D # {}
  <2>0. D \subseteq SUBSET S
    OBVIOUS
  <2>1. PICK T \in D : \A U \in D : U \subseteq T => U = T
    <3> HIDE DEF D
    <3> QED BY <1>2, <2>0, LeastSubset
  <2>2. IsFiniteSet(T)
    BY FS_Subset
  <2>3. \A U \in SUBSET T : U # T => AddsUp(f, U)
    BY <2>1
  <2> QED BY <2>2, <2>3, AddsUpFromBelow
<1> QED BY <1>1, <1>2

-----------------------------------------------------------------------------
LEMMA SumOfNone == ASSUME NEW f PROVE SumFunctionOnSet(f, {}) = 0
BY FS_EmptySet, AddsUpAlways DEF AddsUp

LEMMA SumOfPick ==
  ASSUME NEW f, NEW S, IsFiniteSet(S), S # {}
  PROVE  SumFunctionOnSet(f, S) = f[Pick(S)] + SumFunctionOnSet(f, S \ {Pick(S)})
BY AddsUpAlways DEF AddsUp

LEMMA SumIsInt ==
  ASSUME NEW f, NEW S, IsFiniteSet(S), \A x \in S : f[x] \in Int
  PROVE  SumFunctionOnSet(f, S) \in Int
<1> DEFINE D == {T \in SUBSET S : SumFunctionOnSet(f, T) \notin Int}
<1>1. CASE D # {}
  <2>0. D \subseteq SUBSET S
    OBVIOUS
  <2>1. PICK T \in D : \A U \in D : U \subseteq T => U = T
    <3> HIDE DEF D
    <3> QED BY <1>1, <2>0, LeastSubset
  <2>2. T # {} /\ IsFiniteSet(T)
    <3>1. SumFunctionOnSet(f, {}) \in Int
      BY SumOfNone
    <3> QED BY <3>1, FS_Subset
  <2>3. Pick(T) \in T /\ T \ {Pick(T)} \subseteq T
    BY <2>2, PickIsIn
  <2>4. SumFunctionOnSet(f, T \ {Pick(T)}) \in Int
    BY <2>1, <2>3
  <2>5. f[Pick(T)] \in Int
    BY <2>3
  <2>6. SumFunctionOnSet(f, T) \in Int
    BY <2>2, <2>4, <2>5, SumOfPick
  <2> QED BY <2>6
<1> QED BY <1>1

(* One more element adds its value.                                        *)
AddsOne(f, T, x) == SumFunctionOnSet(f, T \cup {x}) = SumFunctionOnSet(f, T) + f[x]

LEMMA SumAdd ==
  ASSUME NEW f, NEW S, IsFiniteSet(S), NEW x, x \notin S, \A y \in S \cup {x} : f[y] \in Int
  PROVE  SumFunctionOnSet(f, S \cup {x}) = SumFunctionOnSet(f, S) + f[x]
<1> DEFINE A == S \cup {x}
           D == {T \in SUBSET A : \E z \in A \ T : ~AddsOne(f, T, z)}
<1>0. IsFiniteSet(A)
  BY FS_AddElement
<1>1. CASE D # {}
  <2>0. D \subseteq SUBSET A
    OBVIOUS
  <2>1. PICK T \in D : \A U \in D : U \subseteq T => U = T
    <3> HIDE DEF D
    <3> QED BY <1>0, <1>1, <2>0, LeastSubset
  <2>2. PICK z \in A \ T : ~AddsOne(f, T, z)
    OBVIOUS
  <2> DEFINE V == T \cup {z}  c == Pick(V)
  <2>3. IsFiniteSet(T) /\ IsFiniteSet(V) /\ V # {} /\ c \in V /\ V \subseteq A
    <3>1. IsFiniteSet(T) /\ V \subseteq A /\ V # {}
      BY <1>0, FS_Subset
    <3>2. IsFiniteSet(V)
      BY <3>1, <1>0, FS_Subset
    <3> QED BY <3>1, <3>2, PickIsIn
  <2>4. SumFunctionOnSet(f, V) = f[c] + SumFunctionOnSet(f, V \ {c})
    BY <2>3, SumOfPick
  <2>5. \A W \in SUBSET A : SumFunctionOnSet(f, W) \in Int
    BY <1>0, FS_Subset, SumIsInt
  <2>6. CASE c = z
    <3>1. V \ {c} = T
      BY <2>6
    <3>2. f[z] \in Int /\ SumFunctionOnSet(f, T) \in Int
      BY <2>5
    <3> HIDE DEF V, c
    <3>3. SumFunctionOnSet(f, V) = SumFunctionOnSet(f, T) + f[z]
      <4>1. SumFunctionOnSet(f, V) = f[z] + SumFunctionOnSet(f, T)
        BY <2>4, <2>6, <3>1, Zenon
      <4> QED BY <3>2, <4>1
    <3> QED BY <2>2, <3>3 DEF AddsOne, V
  <2>7. CASE c # z
    <3> DEFINE R == T \ {c}
    <3>1. c \in T /\ R \subseteq T /\ R # T /\ R \in SUBSET A /\ z \in A \ R /\ c \in A \ R
      BY <2>3, <2>7
    <3>2. V \ {c} = R \cup {z} /\ T = R \cup {c}
      BY <2>7, <3>1
    <3>3. AddsOne(f, R, z) /\ AddsOne(f, R, c)
      BY <2>1, <3>1
    <3>4. /\ f[z] \in Int /\ f[c] \in Int /\ SumFunctionOnSet(f, R) \in Int
      BY <2>5, <3>1
    <3> HIDE DEF R, c, V
    <3>5. SumFunctionOnSet(f, V) = SumFunctionOnSet(f, T) + f[z]
      <4>1. SumFunctionOnSet(f, V) = f[c] + SumFunctionOnSet(f, R \cup {z})
        BY <2>4, <3>2
      <4>2. SumFunctionOnSet(f, R \cup {z}) = SumFunctionOnSet(f, R) + f[z]
        BY <3>3 DEF AddsOne
      <4>3. SumFunctionOnSet(f, T) = SumFunctionOnSet(f, R) + f[c]
        BY <3>2, <3>3 DEF AddsOne
      <4> QED BY <3>4, <4>1, <4>2, <4>3
    <3> QED BY <2>2, <3>5 DEF AddsOne, V
  <2> QED BY <2>6, <2>7
<1>2. CASE D = {}
  <2>1. S \in SUBSET A /\ x \in A \ S
    OBVIOUS
  <2>2. AddsOne(f, S, x)
    BY <1>2, <2>1
  <2> QED BY <2>2 DEF AddsOne
<1> QED BY <1>1, <1>2

LEMMA SumRemove ==
  ASSUME NEW f, NEW S, IsFiniteSet(S), NEW x \in S, \A y \in S : f[y] \in Int
  PROVE  SumFunctionOnSet(f, S) = SumFunctionOnSet(f, S \ {x}) + f[x]
<1>1. IsFiniteSet(S \ {x}) /\ (S \ {x}) \cup {x} = S
  BY FS_RemoveElement
<1>2. SumFunctionOnSet(f, (S \ {x}) \cup {x}) = SumFunctionOnSet(f, S \ {x}) + f[x]
  BY <1>1, SumAdd
<1> QED BY <1>1, <1>2

(* Only the values on the set count.                                       *)
LEMMA SumSame ==
  ASSUME NEW f, NEW g, NEW S, IsFiniteSet(S), \A x \in S : f[x] = g[x]
  PROVE  SumFunctionOnSet(f, S) = SumFunctionOnSet(g, S)
<1> DEFINE D == {T \in SUBSET S : SumFunctionOnSet(f, T) # SumFunctionOnSet(g, T)}
<1>1. CASE D # {}
  <2>0. D \subseteq SUBSET S
    OBVIOUS
  <2>1. PICK T \in D : \A U \in D : U \subseteq T => U = T
    <3> HIDE DEF D
    <3> QED BY <1>1, <2>0, LeastSubset
  <2>2. T # {} /\ IsFiniteSet(T)
    BY SumOfNone, FS_Subset
  <2>3. Pick(T) \in T /\ T \ {Pick(T)} \subseteq T
    BY <2>2, PickIsIn
  <2>4. SumFunctionOnSet(f, T \ {Pick(T)}) = SumFunctionOnSet(g, T \ {Pick(T)})
    BY <2>1, <2>3
  <2>5. f[Pick(T)] = g[Pick(T)]
    BY <2>3
  <2> QED BY <2>2, <2>4, <2>5, SumOfPick
<1> QED BY <1>1

(* A change of one value changes the sum by as much.                       *)
LEMMA SumChange ==
  ASSUME NEW f, NEW g, NEW S, IsFiniteSet(S), NEW x \in S,
         \A y \in S : f[y] \in Int /\ g[y] \in Int, \A y \in S \ {x} : g[y] = f[y]
  PROVE  SumFunctionOnSet(g, S) = SumFunctionOnSet(f, S) + (g[x] - f[x])
<1>1. IsFiniteSet(S \ {x})
  BY FS_RemoveElement
<1>2. SumFunctionOnSet(g, S \ {x}) = SumFunctionOnSet(f, S \ {x})
  BY <1>1, SumSame
<1>3. SumFunctionOnSet(f, S) = SumFunctionOnSet(f, S \ {x}) + f[x]
  BY SumRemove
<1>4. SumFunctionOnSet(g, S) = SumFunctionOnSet(g, S \ {x}) + g[x]
  BY SumRemove
<1>5. SumFunctionOnSet(f, S \ {x}) \in Int
  BY <1>1, SumIsInt
<1> QED BY <1>2, <1>3, <1>4, <1>5

LEMMA SumOfZeros ==
  ASSUME NEW f, NEW S, IsFiniteSet(S), \A x \in S : f[x] = 0
  PROVE  SumFunctionOnSet(f, S) = 0
<1> DEFINE D == {T \in SUBSET S : SumFunctionOnSet(f, T) # 0}
<1>1. CASE D # {}
  <2>0. D \subseteq SUBSET S
    OBVIOUS
  <2>1. PICK T \in D : \A U \in D : U \subseteq T => U = T
    <3> HIDE DEF D
    <3> QED BY <1>1, <2>0, LeastSubset
  <2>2. T # {} /\ IsFiniteSet(T)
    BY SumOfNone, FS_Subset
  <2>3. Pick(T) \in T /\ T \ {Pick(T)} \subseteq T
    BY <2>2, PickIsIn
  <2>4. SumFunctionOnSet(f, T \ {Pick(T)}) = 0 /\ f[Pick(T)] = 0
    BY <2>1, <2>3
  <2> QED BY <2>2, <2>4, SumOfPick
<1> QED BY <1>1

(* Values that are not negative add up to something not negative.          *)
LEMMA SumIsNat ==
  ASSUME NEW f, NEW S, IsFiniteSet(S), \A x \in S : f[x] \in Nat
  PROVE  SumFunctionOnSet(f, S) \in Nat
<1> DEFINE D == {T \in SUBSET S : SumFunctionOnSet(f, T) \notin Nat}
<1>1. CASE D # {}
  <2>0. D \subseteq SUBSET S
    OBVIOUS
  <2>1. PICK T \in D : \A U \in D : U \subseteq T => U = T
    <3> HIDE DEF D
    <3> QED BY <1>1, <2>0, LeastSubset
  <2>2. T # {} /\ IsFiniteSet(T)
    <3>1. SumFunctionOnSet(f, {}) \in Nat
      BY SumOfNone
    <3> QED BY <3>1, FS_Subset
  <2>3. Pick(T) \in T /\ T \ {Pick(T)} \subseteq T
    BY <2>2, PickIsIn
  <2>4. SumFunctionOnSet(f, T \ {Pick(T)}) \in Nat /\ f[Pick(T)] \in Nat
    BY <2>1, <2>3
  <2>5. SumFunctionOnSet(f, T) \in Nat
    BY <2>2, <2>4, SumOfPick
  <2> QED BY <2>5
<1> QED BY <1>1

(* Equal values add up to so many times that value.                        *)
LEMMA SumOfConstant ==
  ASSUME NEW f, NEW S, IsFiniteSet(S), NEW c \in Int, \A x \in S : f[x] = c
  PROVE  SumFunctionOnSet(f, S) = Cardinality(S) * c
<1> DEFINE D == {T \in SUBSET S : SumFunctionOnSet(f, T) # Cardinality(T) * c}
<1>1. CASE D # {}
  <2>0. D \subseteq SUBSET S
    OBVIOUS
  <2>1. PICK T \in D : \A U \in D : U \subseteq T => U = T
    <3> HIDE DEF D
    <3> QED BY <1>1, <2>0, LeastSubset
  <2>2. T # {} /\ IsFiniteSet(T)
    <3>1. SumFunctionOnSet(f, {}) = Cardinality({}) * c
      BY SumOfNone, FS_EmptySet
    <3> QED BY <3>1, FS_Subset
  <2>3. Pick(T) \in T /\ T \ {Pick(T)} \subseteq T
    BY <2>2, PickIsIn
  <2>4. SumFunctionOnSet(f, T \ {Pick(T)}) = Cardinality(T \ {Pick(T)}) * c /\ f[Pick(T)] = c
    BY <2>1, <2>3
  <2>5. Cardinality(T \ {Pick(T)}) = Cardinality(T) - 1 /\ Cardinality(T) \in Nat
    BY <2>2, <2>3, FS_RemoveElement, FS_CardinalityType
  <2>6. SumFunctionOnSet(f, T) = c + (Cardinality(T) - 1) * c
    BY <2>2, <2>4, <2>5, SumOfPick
  <2>7. \A n \in Int : c + (n - 1) * c = n * c
    OBVIOUS
  <2> QED BY <2>1, <2>5, <2>6, <2>7
<1> QED BY <1>1

(* Zeros beside a set add nothing to its sum.                              *)
LEMMA SumOfSome ==
  ASSUME NEW f, NEW g, NEW S, IsFiniteSet(S), NEW T \in SUBSET S,
         \A x \in T : f[x] \in Int /\ g[x] = f[x], \A x \in S \ T : g[x] = 0
  PROVE  SumFunctionOnSet(f, T) = SumFunctionOnSet(g, S)
<1> DEFINE D == {U \in SUBSET S : T \subseteq U /\ SumFunctionOnSet(g, U) # SumFunctionOnSet(f, T)}
<1>1. CASE D # {}
  <2>0. D \subseteq SUBSET S
    OBVIOUS
  <2>1. PICK U \in D : \A V \in D : V \subseteq U => V = U
    <3> HIDE DEF D
    <3> QED BY <1>1, <2>0, LeastSubset
  <2>2. IsFiniteSet(U) /\ IsFiniteSet(T)
    BY FS_Subset
  <2>3. CASE U = T
    BY <2>2, <2>3, SumSame
  <2>4. CASE U # T
    <3>1. PICK x \in U : x \notin T
      BY <2>4
    <3>2. IsFiniteSet(U \ {x}) /\ \A y \in U : g[y] \in Int
      BY <2>2, FS_RemoveElement
    <3>3. SumFunctionOnSet(g, U) = SumFunctionOnSet(g, U \ {x}) + g[x]
      BY <2>2, <3>2, SumRemove
    <3>4. SumFunctionOnSet(g, U \ {x}) \in Int /\ g[x] = 0
      BY <3>1, <3>2, SumIsInt
    <3>5. SumFunctionOnSet(g, U) = SumFunctionOnSet(g, U \ {x})
      BY <3>3, <3>4
    <3>6. U \ {x} \in SUBSET S /\ T \subseteq U \ {x} /\ U \ {x} # U
      BY <3>1
    <3> QED BY <2>1, <3>5, <3>6
  <2> QED BY <2>3, <2>4
<1>2. CASE D = {}
  BY <1>2
<1> QED BY <1>1, <1>2

(* A finite set of integers that is not empty has a least and a greatest.  *)
LEMMA HasGreatest ==
  ASSUME NEW S, IsFiniteSet(S), S # {}, \A x \in S : x \in Int
  PROVE  \E x \in S : \A y \in S : x >= y
<1> DEFINE D == {T \in SUBSET S : T # {} /\ ~\E x \in T : \A y \in T : x >= y}
<1>1. CASE D # {}
  <2>0. D \subseteq SUBSET S
    OBVIOUS
  <2>1. PICK T \in D : \A U \in D : U \subseteq T => U = T
    <3> HIDE DEF D
    <3> QED BY <1>1, <2>0, LeastSubset
  <2>2. PICK z \in T : TRUE
    BY <2>1
  <2>3. CASE T \ {z} = {}
    BY <2>1, <2>2, <2>3
  <2>4. CASE T \ {z} # {}
    <3>0. T \ {z} \in SUBSET S /\ T \ {z} \subseteq T /\ T \ {z} # T
      BY <2>1, <2>2
    <3>1. PICK x \in T \ {z} : \A y \in T \ {z} : x >= y
      <4>1. T \ {z} \notin D
        BY <2>1, <3>0
      <4> QED BY <2>4, <3>0, <4>1
    <3>2. CASE x >= z
      BY <2>1, <3>1, <3>2
    <3>3. CASE ~(x >= z)
      <4>1. \A y \in T : z >= y
        BY <2>1, <2>2, <3>1, <3>3
      <4> QED BY <2>1, <2>2, <4>1
    <3> QED BY <3>2, <3>3
  <2> QED BY <2>3, <2>4
<1>2. CASE D = {}
  BY <1>2
<1> QED BY <1>1, <1>2

LEMMA HasLeast ==
  ASSUME NEW S, IsFiniteSet(S), S # {}, \A x \in S : x \in Int
  PROVE  \E x \in S : \A y \in S : x <= y
<1> DEFINE D == {T \in SUBSET S : T # {} /\ ~\E x \in T : \A y \in T : x <= y}
<1>1. CASE D # {}
  <2>0. D \subseteq SUBSET S
    OBVIOUS
  <2>1. PICK T \in D : \A U \in D : U \subseteq T => U = T
    <3> HIDE DEF D
    <3> QED BY <1>1, <2>0, LeastSubset
  <2>2. PICK z \in T : TRUE
    BY <2>1
  <2>3. CASE T \ {z} = {}
    BY <2>1, <2>2, <2>3
  <2>4. CASE T \ {z} # {}
    <3>0. T \ {z} \in SUBSET S /\ T \ {z} \subseteq T /\ T \ {z} # T
      BY <2>1, <2>2
    <3>1. PICK x \in T \ {z} : \A y \in T \ {z} : x <= y
      <4>1. T \ {z} \notin D
        BY <2>1, <3>0
      <4> QED BY <2>4, <3>0, <4>1
    <3>2. CASE x <= z
      BY <2>1, <3>1, <3>2
    <3>3. CASE ~(x <= z)
      <4>1. \A y \in T : z <= y
        BY <2>1, <2>2, <3>1, <3>3
      <4> QED BY <2>1, <2>2, <4>1
    <3> QED BY <3>2, <3>3
  <2> QED BY <2>3, <2>4
<1>2. CASE D = {}
  BY <1>2
<1> QED BY <1>1, <1>2

(* Greater terms add up to more.                                           *)
LEMMA SumGrows ==
  ASSUME NEW f, NEW g, NEW S, IsFiniteSet(S),
         \A x \in S : f[x] \in Int /\ g[x] \in Int, \A x \in S : f[x] <= g[x]
  PROVE  SumFunctionOnSet(f, S) <= SumFunctionOnSet(g, S)
<1> DEFINE D == {T \in SUBSET S : ~(SumFunctionOnSet(f, T) <= SumFunctionOnSet(g, T))}
<1>1. CASE D # {}
  <2>0. D \subseteq SUBSET S
    OBVIOUS
  <2>1. PICK T \in D : \A U \in D : U \subseteq T => U = T
    <3> HIDE DEF D
    <3> QED BY <1>1, <2>0, LeastSubset
  <2>2. T # {} /\ IsFiniteSet(T)
    <3>1. SumFunctionOnSet(f, {}) = 0 /\ SumFunctionOnSet(g, {}) = 0
      BY SumOfNone
    <3>2. T # {}
      BY <2>1, <3>1
    <3> QED BY <3>2, FS_Subset
  <2>3. Pick(T) \in T /\ T \ {Pick(T)} \in SUBSET S /\ T \ {Pick(T)} # T
    BY <2>2, PickIsIn
  <2> DEFINE p == Pick(T)  R == T \ {p}
  <2>4. SumFunctionOnSet(f, R) <= SumFunctionOnSet(g, R)
    BY <2>1, <2>3
  <2>5. /\ SumFunctionOnSet(f, T) = f[p] + SumFunctionOnSet(f, R)
        /\ SumFunctionOnSet(g, T) = g[p] + SumFunctionOnSet(g, R)
    BY <2>2, SumOfPick
  <2>6. IsFiniteSet(R) /\ \A x \in R : f[x] \in Int /\ g[x] \in Int
    BY <2>3, FS_Subset
  <2>7. SumFunctionOnSet(f, R) \in Int /\ SumFunctionOnSet(g, R) \in Int
    <3> HIDE DEF R
    <3> QED BY <2>6, SumIsInt
  <2>8. f[p] \in Int /\ g[p] \in Int /\ f[p] <= g[p]
    BY <2>1, <2>3
  <2>9. SumFunctionOnSet(f, T) <= SumFunctionOnSet(g, T)
    <3>1. PICK a, b, c, d : a = f[p] /\ b = g[p] /\ c = SumFunctionOnSet(f, R) /\ d = SumFunctionOnSet(g, R)
      OBVIOUS
    <3>2. a \in Int /\ b \in Int /\ c \in Int /\ d \in Int /\ a <= b /\ c <= d
      BY <2>4, <2>7, <2>8, <3>1
    <3>3. a + c <= b + d
      BY <3>2
    <3> QED BY <2>5, <3>1, <3>3
  <2> QED BY <2>1, <2>9
<1>2. CASE D = {}
  BY <1>2
<1> QED BY <1>1, <1>2

-----------------------------------------------------------------------------
(* Induction over the numbers from 0 to n.                                 *)
LEMMA CountingUp ==
  ASSUME NEW n \in Nat, NEW C, 0 \in C, \A i \in 1 .. n : i - 1 \in C => i \in C
  PROVE  \A i \in 0 .. n : i \in C
<1> DEFINE D == (0 .. n) \ C
<1>1. CASE D # {}
  <2>1. IsFiniteSet(0 .. n) /\ D \subseteq 0 .. n
    BY FS_Interval
  <2>2. IsFiniteSet(D) /\ \A x \in D : x \in Int
    BY <2>1, FS_Subset
  <2>3. PICK x \in D : \A y \in D : x <= y
    <3> HIDE DEF D
    <3> QED BY <1>1, <2>2, HasLeast
  <2>4. x \in 1 .. n /\ x - 1 \notin D
    BY <2>3
  <2> QED BY <2>3, <2>4
<1> QED BY <1>1

(* A recursive definition over the numbers from 0 to n has a function when *)
(* every step goes from a value in D to a value in D.                      *)
Stepwise(n, D, a, h) ==
  n \in Nat /\ a \in D /\ \A i \in 1 .. n, x \in D : h[<<i, x>>] \in D

LEMMA HasRecursive ==
  ASSUME NEW n, NEW D, NEW a, NEW h, Stepwise(n, D, a, h)
  PROVE  \E f \in [0 .. n -> D] : f[0] = a /\ \A i \in 1 .. n : f[i] = h[<<i, f[i - 1]>>]
<1>0. n \in Nat /\ a \in D /\ \A i \in 1 .. n, x \in D : h[<<i, x>>] \in D
  BY DEF Stepwise
<1> DEFINE C == {k \in 0 .. n : \E f \in [0 .. k -> D] :
                   f[0] = a /\ \A i \in 1 .. k : f[i] = h[<<i, f[i - 1]>>]}
<1>1. 0 \in C
  <2> DEFINE f == [i \in 0 .. 0 |-> a]
  <2>1. f \in [0 .. 0 -> D] /\ f[0] = a
    BY <1>0
  <2>2. \A i \in 1 .. 0 : f[i] = h[<<i, f[i - 1]>>]
    OBVIOUS
  <2> HIDE DEF f
  <2> QED BY <1>0, <2>1, <2>2
<1>2. ASSUME NEW k \in 1 .. n, k - 1 \in C
      PROVE  k \in C
  <2>1. PICK f \in [0 .. (k - 1) -> D] :
          f[0] = a /\ \A i \in 1 .. (k - 1) : f[i] = h[<<i, f[i - 1]>>]
    BY <1>2
  <2> DEFINE g == [i \in 0 .. k |-> IF i = k THEN h[<<k, f[k - 1]>>] ELSE f[i]]
  <2>2. g \in [0 .. k -> D]
    <3>1. \A i \in 0 .. k : i = k \/ i \in 0 .. (k - 1)
      OBVIOUS
    <3>2. k \in 1 .. n /\ k - 1 \in 0 .. (k - 1)
      BY <1>0
    <3>3. h[<<k, f[k - 1]>>] \in D
      BY <1>0, <3>2
    <3> QED BY <3>1, <3>3
  <2>3. g[0] = a
    BY <2>1
  <2>4. ASSUME NEW i \in 1 .. k
        PROVE  g[i] = h[<<i, g[i - 1]>>]
    <3>1. i - 1 \in 0 .. k /\ i - 1 # k /\ i \in 0 .. k /\ g[i - 1] = f[i - 1]
      OBVIOUS
    <3>2. CASE i = k
      BY <3>1, <3>2
    <3>3. CASE i # k
      <4>1. i \in 1 .. (k - 1) /\ g[i] = f[i]
        BY <3>1, <3>3
      <4> QED BY <2>1, <3>1, <4>1
    <3> QED BY <3>2, <3>3
  <2> HIDE DEF g
  <2> QED BY <2>2, <2>3, <2>4
<1>3. n \in C
  <2> HIDE DEF C
  <2>1. \A i \in 0 .. n : i \in C
    BY <1>0, <1>1, <1>2, CountingUp
  <2> QED BY <1>0, <2>1
<1> QED BY <1>3

(* What is never negative adds up to no more over a part of a set.         *)
LEMMA SumOfPart ==
  ASSUME NEW f, NEW S, IsFiniteSet(S), NEW T \in SUBSET S, \A x \in S : f[x] \in Nat
  PROVE  SumFunctionOnSet(f, T) <= SumFunctionOnSet(f, S)
<1> DEFINE g == [x \in S |-> IF x \in T THEN f[x] ELSE 0]
<1>1. \A x \in S : g[x] \in Int /\ f[x] \in Int /\ g[x] <= f[x]
  OBVIOUS
<1>2. /\ \A x \in T : f[x] \in Int /\ g[x] = f[x]
      /\ \A x \in S \ T : g[x] = 0
  OBVIOUS
<1> HIDE DEF g
<1>3. SumFunctionOnSet(f, T) = SumFunctionOnSet(g, S)
  BY <1>2, SumOfSome
<1>4. SumFunctionOnSet(g, S) <= SumFunctionOnSet(f, S)
  BY <1>1, SumGrows
<1> QED BY <1>3, <1>4
=============================================================================
