------------------------------- MODULE SetSums -------------------------------
(***************************************************************************)
(* Sums over finite sets, as MapThenSumSet computes them: it takes one     *)
(* element after the other, in an order that CHOOSE fixes.  The order is   *)
(* shown not to matter, for the accounts of MemoryBudget and Pipeline and  *)
(* for the bits of ScalarValues' words.                                    *)
(*                                                                         *)
(* Induction over finite sets is stated with a set of subsets in place of  *)
(* a predicate, and rests on the library's WFMin.                          *)
(***************************************************************************)
EXTENDS Integers, FiniteSets, FiniteSetsExt, FiniteSetTheorems, WellFoundedInduction,
        TLAPS

Total(w, S) == MapThenSumSet(LAMBDA x : w[x], S)

Pick(s) == CHOOSE x \in s : TRUE
Step(f, w, s) == IF s = {} THEN 0 ELSE w[Pick(s)] + f[s \ {Pick(s)}]
Solves(f, w, S) == f = [s \in SUBSET S |-> Step(f, w, s)]
Solution(w, S) == CHOOSE f : Solves(f, w, S)

(* What holds of a subset whenever it does of all smaller ones holds of all. *)
LEMMA SubsetInduction ==
  ASSUME NEW S, IsFiniteSet(S), NEW G,
         \A T \in SUBSET S : (\A U \in SUBSET T : U # T => U \in G) => T \in G
  PROVE  \A T \in SUBSET S : T \in G
<1> DEFINE Bad == (SUBSET S) \ G
           R == StrictSubsetOrdering(S)
<1>1. SUFFICES ASSUME Bad # {} PROVE FALSE
  OBVIOUS
<1>2. IsWellFoundedOn(R, SUBSET S)
  BY FS_StrictSubsetOrderingWellFounded, FS_FiniteSubsetsOfFinite
<1>3. PICK T \in Bad : \A U \in Bad : ~ (<<U, T>> \in R)
  <2> HIDE DEF R
  <2>1. Bad \subseteq SUBSET S
    OBVIOUS
  <2> HIDE DEF Bad
  <2> QED BY <1>1, <1>2, <2>1, WFMin
<1>4. ASSUME NEW U \in SUBSET T, U # T
      PROVE  U \in G
  <2>1. U \in SUBSET S /\ <<U, T>> \in R
    BY <1>4 DEF StrictSubsetOrdering
  <2> QED BY <1>3, <2>1
<1> QED BY <1>4

LEMMA PickIsIn ==
  ASSUME NEW s, s # {}
  PROVE  Pick(s) \in s
  BY DEF Pick

(* Any two solutions agree where both are defined.                         *)
LEMMA SolutionsAgree ==
  ASSUME NEW w, NEW S, NEW T, IsFiniteSet(S), NEW f, Solves(f, w, S),
         NEW g, Solves(g, w, T)
  PROVE  \A U \in SUBSET (S \cap T) : f[U] = g[U]
<1> DEFINE G == {U \in SUBSET (S \cap T) : f[U] = g[U]}
<1>1. IsFiniteSet(S \cap T)
  BY FS_Subset
<1>2. ASSUME NEW U \in SUBSET (S \cap T), \A V \in SUBSET U : V # U => V \in G
      PROVE  U \in G
  <2>1. f[U] = Step(f, w, U) /\ g[U] = Step(g, w, U)
    BY DEF Solves
  <2>2. U # {} => f[U \ {Pick(U)}] = g[U \ {Pick(U)}]
    BY <1>2, PickIsIn
  <2> QED BY <2>1, <2>2 DEF Step
<1>3. \A U \in SUBSET (S \cap T) : U \in G
  <2> HIDE DEF G
  <2> QED BY <1>1, <1>2, SubsetInduction
<1> QED BY <1>3

LEMMA SolutionExists ==
  ASSUME NEW w, NEW S, IsFiniteSet(S)
  PROVE  \E f : Solves(f, w, S)
<1> DEFINE G == {T \in SUBSET S : \E f : Solves(f, w, T)}
<1>1. ASSUME NEW T \in SUBSET S, \A U \in SUBSET T : U # T => U \in G
      PROVE  T \in G
  <2> DEFINE Best(U) == Solution(w, U)[U]
             h == [U \in SUBSET T |-> IF U = {} THEN 0 ELSE w[Pick(U)] + Best(U \ {Pick(U)})]
  <2>1. ASSUME NEW U \in SUBSET T, U # T
        PROVE  Solves(Solution(w, U), w, U) /\ IsFiniteSet(U)
    <3>1. \E f : Solves(f, w, U)
      BY <1>1, <2>1
    <3> QED BY <3>1, FS_Subset DEF Solution
  <2>2. ASSUME NEW U \in SUBSET T, U # T
        PROVE  h[U] = Best(U)
    <3>1. Best(U) = Step(Solution(w, U), w, U)
      BY <2>1, <2>2 DEF Solves
    <3>2. CASE U = {}
      BY <3>1, <3>2 DEF Step
    <3>3. CASE U # {}
      <4> DEFINE V == U \ {Pick(U)}
      <4>1. Pick(U) \in U /\ V \in SUBSET U /\ V \in SUBSET T /\ V # T
        BY <3>3, PickIsIn
      <4>2. Solution(w, U)[V] = Solution(w, V)[V]
        <5>1. Solves(Solution(w, U), w, U) /\ Solves(Solution(w, V), w, V) /\ IsFiniteSet(U)
          BY <2>1, <2>2, <4>1
        <5>2. V \in SUBSET (U \cap V)
          BY <4>1
        <5> HIDE DEF V
        <5> QED BY <5>1, <5>2, SolutionsAgree
      <4> QED BY <3>1, <3>3, <4>2 DEF Step
    <3> QED BY <3>2, <3>3
  <2>3. ASSUME NEW U \in SUBSET T
        PROVE  h[U] = Step(h, w, U)
    <3>1. CASE U = {}
      BY <3>1 DEF Step
    <3>2. CASE U # {}
      <4>1. U \ {Pick(U)} \in SUBSET T /\ U \ {Pick(U)} # T
        BY <3>2, PickIsIn
      <4>2. h[U \ {Pick(U)}] = Best(U \ {Pick(U)})
        BY <2>2, <4>1
      <4> QED BY <3>2, <4>2 DEF Step
    <3> QED BY <3>1, <3>2
  <2>4. h = [U \in SUBSET T |-> h[U]]
    OBVIOUS
  <2> HIDE DEF h
  <2>5. Solves(h, w, T)
    BY <2>3, <2>4 DEF Solves
  <2> QED BY <2>5
<1>2. \A T \in SUBSET S : T \in G
  <2> HIDE DEF G
  <2> QED BY <1>1, SubsetInduction
<1>3. S \in G
  BY <1>2
<1> QED BY <1>3

(* MapThenSumSet: whatever solves the recursion has the total.             *)
LEMMA TotalSolves ==
  ASSUME NEW w, NEW S, IsFiniteSet(S)
  PROVE  /\ Total(w, S) = Solution(w, S)[S] /\ Solves(Solution(w, S), w, S)
         /\ \A f : Solves(f, w, S) => f[S] = Total(w, S)
<1>1. Total(w, S) = Solution(w, S)[S]
  BY DEF Total, Solution, Solves, Step, Pick, MapThenSumSet, MapThenFoldSet
<1>2. Solves(Solution(w, S), w, S)
  BY SolutionExists DEF Solution
<1>3. ASSUME NEW f, Solves(f, w, S)
      PROVE  f[S] = Total(w, S)
  BY <1>1, <1>2, <1>3, SolutionsAgree
<1> QED BY <1>1, <1>2, <1>3

(* Nothing makes 0, and one element is added to the total of the others.   *)
LEMMA TotalEmpty == ASSUME NEW w PROVE Total(w, {}) = 0
  BY TotalSolves, FS_EmptySet DEF Solves, Step

LEMMA TotalPick ==
  ASSUME NEW w, NEW S, IsFiniteSet(S), S # {}
  PROVE  Total(w, S) = w[Pick(S)] + Total(w, S \ {Pick(S)})
<1> DEFINE V == S \ {Pick(S)}
<1>1. IsFiniteSet(V) /\ V \subseteq S
  BY FS_Subset
<1>2. Total(w, S) = w[Pick(S)] + Solution(w, S)[V]
  <2>1. Total(w, S) = Solution(w, S)[S] /\ Solves(Solution(w, S), w, S)
    BY TotalSolves
  <2>2. Solution(w, S)[S] = Step(Solution(w, S), w, S)
    BY <2>1 DEF Solves
  <2> QED BY <2>1, <2>2 DEF Step
<1>3. Solution(w, S)[V] = Total(w, V)
  <2> HIDE DEF V
  <2>1. Solves(Solution(w, S), w, S) /\ Solves(Solution(w, V), w, V)
        /\ Total(w, V) = Solution(w, V)[V]
    BY <1>1, TotalSolves
  <2>2. V \in SUBSET (S \cap V)
    BY <1>1
  <2> QED BY <2>1, <2>2, SolutionsAgree
<1> QED BY <1>2, <1>3

LEMMA TotalInt ==
  ASSUME NEW w, NEW S, IsFiniteSet(S), \A x \in S : w[x] \in Int
  PROVE  Total(w, S) \in Int
<1> DEFINE G == {T \in SUBSET S : Total(w, T) \in Int}
<1>1. ASSUME NEW T \in SUBSET S, \A U \in SUBSET T : U # T => U \in G
      PROVE  T \in G
  <2>1. CASE T = {}
    BY <2>1, TotalEmpty
  <2>2. CASE T # {}
    <3>1. Pick(T) \in T /\ IsFiniteSet(T)
      BY <2>2, PickIsIn, FS_Subset
    <3>2. T \ {Pick(T)} \in G
      BY <1>1, <3>1
    <3>3. Total(w, T) = w[Pick(T)] + Total(w, T \ {Pick(T)})
      BY <2>2, <3>1, TotalPick
    <3> QED BY <3>1, <3>2, <3>3
  <2> QED BY <2>1, <2>2
<1>2. \A T \in SUBSET S : T \in G
  <2> HIDE DEF G
  <2> QED BY <1>1, SubsetInduction
<1> QED BY <1>2

(* The order doesn't matter: any element may be taken first.               *)
LEMMA TotalRemove ==
  ASSUME NEW w, NEW S, IsFiniteSet(S), \A x \in S : w[x] \in Int, NEW y \in S
  PROVE  Total(w, S) = w[y] + Total(w, S \ {y})
<1> DEFINE Out(T, x) == Total(w, T) = w[x] + Total(w, T \ {x})
           G == {T \in SUBSET S : \A x \in T : Out(T, x)}
<1>1. ASSUME NEW T \in SUBSET S, \A U \in SUBSET T : U # T => U \in G
      PROVE  T \in G
  <2> SUFFICES ASSUME NEW x \in T PROVE Out(T, x)
    OBVIOUS
  <2> DEFINE p == Pick(T)
             V == T \ {x, p}
  <2>1. p \in T /\ IsFiniteSet(T) /\ IsFiniteSet(V)
    BY PickIsIn, FS_Subset
  <2>2. Out(T, p)
    BY <2>1, TotalPick
  <2>3. CASE x = p
    BY <2>2, <2>3
  <2>4. CASE x # p
    <3>1. T \ {p} \in G /\ T \ {x} \in G
      BY <1>1, <2>1
    <3>2. Out(T \ {p}, x) /\ Out(T \ {x}, p)
      BY <2>1, <2>4, <3>1
    <3>3. (T \ {p}) \ {x} = V /\ (T \ {x}) \ {p} = V
      OBVIOUS
    <3>4. Total(w, V) \in Int /\ w[x] \in Int /\ w[p] \in Int
      <4>1. \A v \in V : w[v] \in Int
        OBVIOUS
      <4> HIDE DEF V
      <4> QED BY <2>1, <4>1, TotalInt
    <3> HIDE DEF V, p
    <3>5. /\ Total(w, T) = w[p] + Total(w, T \ {p})
          /\ Total(w, T \ {p}) = w[x] + Total(w, V)
          /\ Total(w, T \ {x}) = w[p] + Total(w, V)
      BY <2>2, <3>2, <3>3
    <3> QED BY <3>4, <3>5
  <2> QED BY <2>3, <2>4
<1>2. \A T \in SUBSET S : T \in G
  <2> HIDE DEF G
  <2> QED BY <1>1, SubsetInduction
<1> QED BY <1>2

LEMMA TotalAdd ==
  ASSUME NEW w, NEW S, IsFiniteSet(S), NEW y, y \notin S,
         \A x \in S \cup {y} : w[x] \in Int
  PROVE  Total(w, S \cup {y}) = w[y] + Total(w, S)
<1>1. IsFiniteSet(S \cup {y}) /\ (S \cup {y}) \ {y} = S
  BY FS_AddElement
<1> QED BY <1>1, TotalRemove

(* Only the members' weights count.                                        *)
LEMMA TotalSame ==
  ASSUME NEW w, NEW v, NEW S, IsFiniteSet(S), \A x \in S : w[x] = v[x]
  PROVE  Total(w, S) = Total(v, S)
<1> DEFINE G == {T \in SUBSET S : Total(w, T) = Total(v, T)}
<1>1. ASSUME NEW T \in SUBSET S, \A U \in SUBSET T : U # T => U \in G
      PROVE  T \in G
  <2>1. CASE T = {}
    BY <2>1, TotalEmpty
  <2>2. CASE T # {}
    <3>1. Pick(T) \in T /\ IsFiniteSet(T)
      BY <2>2, PickIsIn, FS_Subset
    <3>2. T \ {Pick(T)} \in G
      BY <1>1, <3>1
    <3>3. /\ Total(w, T) = w[Pick(T)] + Total(w, T \ {Pick(T)})
          /\ Total(v, T) = v[Pick(T)] + Total(v, T \ {Pick(T)})
      BY <2>2, <3>1, TotalPick
    <3> QED BY <3>1, <3>2, <3>3
  <2> QED BY <2>1, <2>2
<1>2. \A T \in SUBSET S : T \in G
  <2> HIDE DEF G
  <2> QED BY <1>1, SubsetInduction
<1> QED BY <1>2

(* Sums of disjoint sets add up.                                           *)
LEMMA TotalUnion ==
  ASSUME NEW w, NEW S, NEW T, IsFiniteSet(S), IsFiniteSet(T), S \cap T = {},
         \A x \in S \cup T : w[x] \in Int
  PROVE  Total(w, S \cup T) = Total(w, S) + Total(w, T)
<1> DEFINE G == {U \in SUBSET S : Total(w, U \cup T) = Total(w, U) + Total(w, T)}
<1>1. ASSUME NEW U \in SUBSET S, \A V \in SUBSET U : V # U => V \in G
      PROVE  U \in G
  <2>1. Total(w, T) \in Int
    BY TotalInt
  <2>2. CASE U = {}
    <3>1. U \cup T = T /\ Total(w, U) = 0
      BY <2>2, TotalEmpty
    <3>2. Total(w, U \cup T) = Total(w, T)
      BY <3>1
    <3> HIDE DEF G
    <3>3. Total(w, U \cup T) = Total(w, U) + Total(w, T)
      BY <2>1, <3>1, <3>2
    <3> QED BY <3>3 DEF G
  <2>3. CASE U # {}
    <3> DEFINE p == Pick(U)
               V == U \ {p}
    <3>1. p \in U /\ p \in S /\ p \notin T /\ w[p] \in Int
      BY <2>3, PickIsIn
    <3>2. IsFiniteSet(U) /\ IsFiniteSet(V) /\ IsFiniteSet(V \cup T)
      BY FS_Subset, FS_Union
    <3>3. V \in G
      BY <1>1, <3>1
    <3>4. Total(w, U) = w[p] + Total(w, V) /\ Total(w, V) \in Int
      <4>1. \A x \in V : w[x] \in Int
        OBVIOUS
      <4> QED BY <2>3, <3>2, <4>1, TotalPick, TotalInt
    <3>5. Total(w, U \cup T) = w[p] + Total(w, V \cup T)
      <4>1. p \notin V \cup T /\ U \cup T = (V \cup T) \cup {p}
            /\ \A x \in (V \cup T) \cup {p} : w[x] \in Int
        BY <3>1
      <4> HIDE DEF V, p
      <4> QED BY <3>2, <4>1, TotalAdd
    <3>6. Total(w, V \cup T) = Total(w, V) + Total(w, T)
      BY <3>3
    <3> HIDE DEF V, p, G
    <3>7. Total(w, U \cup T) = Total(w, U) + Total(w, T)
      BY <2>1, <3>1, <3>4, <3>5, <3>6
    <3> QED BY <3>7 DEF G
  <2> QED BY <2>2, <2>3
<1>2. \A U \in SUBSET S : U \in G
  <2> HIDE DEF G
  <2> QED BY <1>1, SubsetInduction
<1> QED BY <1>2

(* A sum of natural numbers is one.                                        *)
LEMMA TotalNat ==
  ASSUME NEW w, NEW S, IsFiniteSet(S), \A x \in S : w[x] \in Nat
  PROVE  Total(w, S) \in Nat
<1> DEFINE G == {T \in SUBSET S : Total(w, T) \in Nat}
<1>1. ASSUME NEW T \in SUBSET S, \A U \in SUBSET T : U # T => U \in G
      PROVE  T \in G
  <2>1. CASE T = {}
    BY <2>1, TotalEmpty
  <2>2. CASE T # {}
    <3>1. Pick(T) \in T /\ IsFiniteSet(T)
      BY <2>2, PickIsIn, FS_Subset
    <3>2. T \ {Pick(T)} \in G
      BY <1>1, <3>1
    <3>3. Total(w, T) = w[Pick(T)] + Total(w, T \ {Pick(T)})
      BY <2>2, <3>1, TotalPick
    <3> QED BY <3>1, <3>2, <3>3
  <2> QED BY <2>1, <2>2
<1>2. \A T \in SUBSET S : T \in G
  <2> HIDE DEF G
  <2> QED BY <1>1, SubsetInduction
<1> QED BY <1>2

(* Totals add up element by element.                                       *)
LEMMA TotalPlus ==
  ASSUME NEW w, NEW v, NEW u, NEW S, IsFiniteSet(S),
         \A x \in S : w[x] \in Int /\ v[x] \in Int /\ u[x] = w[x] + v[x]
  PROVE  Total(u, S) = Total(w, S) + Total(v, S)
<1> DEFINE G == {T \in SUBSET S : Total(u, T) = Total(w, T) + Total(v, T)}
<1>1. ASSUME NEW T \in SUBSET S, \A U \in SUBSET T : U # T => U \in G
      PROVE  T \in G
  <2>1. CASE T = {}
    BY <2>1, TotalEmpty
  <2>2. CASE T # {}
    <3> DEFINE y == Pick(T)
               U == T \ {y}
    <3>1. y \in T /\ U \in G /\ IsFiniteSet(T) /\ IsFiniteSet(U) /\ U \subseteq S
      BY <1>1, <2>2, PickIsIn, FS_Subset
    <3>2. /\ Total(u, T) = u[y] + Total(u, U)
          /\ Total(w, T) = w[y] + Total(w, U)
          /\ Total(v, T) = v[y] + Total(v, U)
      BY <2>2, <3>1, TotalPick
    <3>3. Total(w, U) \in Int /\ Total(v, U) \in Int
      BY <3>1, TotalInt
    <3>4. Total(u, U) = Total(w, U) + Total(v, U) /\ u[y] = w[y] + v[y]
          /\ w[y] \in Int /\ v[y] \in Int
      BY <3>1
    <3> HIDE DEF y, U
    <3>5. Total(u, T) = Total(w, T) + Total(v, T)
      BY <3>2, <3>3, <3>4
    <3> QED BY <3>5
  <2> QED BY <2>1, <2>2
<1> HIDE DEF G
<1>2. S \in G
  BY <1>1, SubsetInduction
<1> QED BY <1>2 DEF G

(* Of finitely many elements, one weighs as much as any other.             *)
LEMMA HeaviestExists ==
  ASSUME NEW w, NEW S, IsFiniteSet(S), S # {}, \A x \in S : w[x] \in Int
  PROVE  \E x \in S : \A y \in S : w[y] <= w[x]
<1> DEFINE Heaviest(T) == {x \in T : \A y \in T : w[y] <= w[x]}
           G == {T \in SUBSET S : T # {} => Heaviest(T) # {}}
<1>1. ASSUME NEW T \in SUBSET S, \A U \in SUBSET T : U # T => U \in G
      PROVE  T \in G
  <2> SUFFICES ASSUME NEW z \in T PROVE Heaviest(T) # {}
    OBVIOUS
  <2> DEFINE U == T \ {z}
  <2>1. U \in G /\ w[z] \in Int
    BY <1>1
  <2>2. CASE U = {}
    <3>1. z \in Heaviest(T)
      BY <2>1, <2>2
    <3> QED BY <3>1
  <2>3. CASE U # {}
    <3>1. PICK x \in U : \A y \in U : w[y] <= w[x]
      BY <2>1, <2>3
    <3>2. w[x] \in Int /\ x \in T /\ \A y \in T : y \in U \/ y = z
      OBVIOUS
    <3>3. CASE w[z] <= w[x]
      <4>1. x \in Heaviest(T)
        BY <3>1, <3>2, <3>3
      <4> QED BY <4>1
    <3>4. CASE w[x] < w[z]
      <4>1. \A y \in U : w[y] <= w[z]
        BY <2>1, <3>1, <3>2, <3>4
      <4>2. z \in Heaviest(T)
        BY <2>1, <3>2, <4>1
      <4> QED BY <4>2
    <3> QED BY <2>1, <3>2, <3>3, <3>4
  <2> QED BY <2>2, <2>3
<1> HIDE DEF G
<1>2. S \in G
  BY <1>1, SubsetInduction
<1> QED BY <1>2 DEF G
==============================================================================
