------------------------------ MODULE SumTheorems ------------------------------
(***************************************************************************)
(* Facts about the sums of the specifications: SumFunctionOnSet(f, S), for  *)
(* a function f and a finite set S.  The library's induction theorems take  *)
(* the property as an operator, which no backend instantiates; here an      *)
(* induction is an argument about a least counterexample, taken from a set. *)
(***************************************************************************)
EXTENDS Integers, Functions, FiniteSetTheorems, WellFoundedInduction, TLAPS

LEMMA LeastNumber ==
  ASSUME NEW T, T \subseteq Nat, T # {}
  PROVE  \E n \in T : \A m \in T : n <= m
<1> DEFINE R == {ss \in Nat \X Nat : ss[1] < ss[2]}
<1>1. IsWellFoundedOn(R, Nat)
  BY NatLessThanWellFounded DEF OpToRel
<1>2. \A m, n \in Nat : <<m, n>> \in R <=> m < n
  OBVIOUS
<1>. HIDE DEF R
<1>3. PICK n \in T : \A m \in T : <<m, n>> \notin R
  BY <1>1, WFMin
<1>4. \A m \in T : ~(m < n)
  BY <1>2, <1>3
<1>. QED
  BY <1>4

(* A set of numbers that holds 0 and the successor of each of its elements. *)
LEMMA NumbersBySuccession ==
  ASSUME NEW G, 0 \in G, \A n \in Nat : n \in G => n + 1 \in G
  PROVE  Nat \subseteq G
<1>. SUFFICES ASSUME Nat \ G # {}
              PROVE  FALSE
  OBVIOUS
<1>1. PICK n \in Nat \ G : \A m \in Nat \ G : n <= m
  BY LeastNumber
<1>2. n - 1 \in Nat /\ n - 1 \notin Nat \ G
  BY <1>1
<1>. QED
  BY <1>1, <1>2

(* A set of subsets that holds a subset as soon as it holds that subset     *)
(* without one of its elements, for some element.                           *)
LEMMA SubsetsByElements ==
  ASSUME NEW S, IsFiniteSet(S), NEW G, {} \in G,
         \A T \in SUBSET S : T # {} /\ (\A x \in T : T \ {x} \in G) => T \in G
  PROVE  SUBSET S \subseteq G
<1> DEFINE Bad == (SUBSET S) \ G
<1>. SUFFICES ASSUME Bad # {}
              PROVE  FALSE
  OBVIOUS
<1>1. IsWellFoundedOn(StrictSubsetOrdering(S), SUBSET S)
  BY FS_StrictSubsetOrderingWellFounded, FS_FiniteSubsetsOfFinite
<1>. HIDE DEF Bad
<1>2. Bad \subseteq SUBSET S
  BY DEF Bad
<1>3. PICK T \in Bad : \A U \in Bad : <<U, T>> \notin StrictSubsetOrdering(S)
  BY <1>1, <1>2, WFMin
<1>4. ASSUME NEW x \in T
      PROVE  T \ {x} \in G
  <2>1. <<T \ {x}, T>> \in StrictSubsetOrdering(S)
    BY <1>2 DEF StrictSubsetOrdering
  <2>2. T \ {x} \notin Bad
    BY <1>3, <2>1
  <2>. QED
    BY <1>2, <2>2 DEF Bad
<1>5. T \in SUBSET S /\ T \notin G
  BY <1>3 DEF Bad
<1>. QED
  BY <1>4, <1>5

-------------------------------------------------------------------------------
(* The sum is the value at S of a function that adds up over its subsets.   *)

Pick(s) == CHOOSE x \in s : TRUE

AddsUp(f, S, g) ==
    g = [s \in SUBSET S |-> IF s = {} THEN 0 ELSE f[Pick(s)] + g[s \ {Pick(s)}]]

LEMMA SumIsChosen ==
  ASSUME NEW f, NEW S
  PROVE  SumFunctionOnSet(f, S) = (CHOOSE g : AddsUp(f, S, g))[S]
BY DEF SumFunctionOnSet, FoldFunctionOnSet, MapThenFoldSet, AddsUp, Pick

LEMMA PickIsIn ==
  ASSUME NEW s, s # {}
  PROVE  Pick(s) \in s
BY DEF Pick

(* Two such functions agree where both are defined. *)
LEMMA AddsUpOnce ==
  ASSUME NEW f, NEW S, IsFiniteSet(S), NEW U, U \subseteq S,
         NEW g, AddsUp(f, S, g), NEW h, AddsUp(f, U, h)
  PROVE  \A s \in SUBSET U : g[s] = h[s]
<1> DEFINE G == {s \in SUBSET U : g[s] = h[s]}
<1>1. IsFiniteSet(U)
  BY FS_Subset
<1>2. {} \in G
  BY DEF AddsUp
<1>3. ASSUME NEW T \in SUBSET U, T # {}, \A x \in T : T \ {x} \in G
      PROVE  T \in G
  <2>1. Pick(T) \in T
    BY <1>3, PickIsIn
  <2>2. g[T] = f[Pick(T)] + g[T \ {Pick(T)}]
    BY <1>3 DEF AddsUp
  <2>3. h[T] = f[Pick(T)] + h[T \ {Pick(T)}]
    BY <1>3 DEF AddsUp
  <2>4. g[T \ {Pick(T)}] = h[T \ {Pick(T)}]
    BY <1>3, <2>1
  <2>. QED
    BY <2>2, <2>3, <2>4
<1>4. SUBSET U \subseteq G
  <2>. HIDE DEF G
  <2>. QED
    BY <1>1, <1>2, <1>3, SubsetsByElements
<1>. QED
  BY <1>4

(* There is such a function: built over the subsets of at most n elements.  *)
LEMMA AddsUpExists ==
  ASSUME NEW f, NEW S, IsFiniteSet(S)
  PROVE  \E g : AddsUp(f, S, g)
<1> DEFINE Small(n) == {s \in SUBSET S : Cardinality(s) <= n}
           Value(g, s) == IF s = {} THEN 0 ELSE f[Pick(s)] + g[s \ {Pick(s)}]
           Over(n, g) == g = [s \in Small(n) |-> Value(g, s)]
           G == {n \in Nat : \E g : Over(n, g)}
<1>1. \A s \in SUBSET S : IsFiniteSet(s) /\ Cardinality(s) \in Nat
  BY FS_Subset, FS_CardinalityType
<1>2. \A s \in SUBSET S : s # {} =>
        /\ s \ {Pick(s)} \in SUBSET S
        /\ Cardinality(s \ {Pick(s)}) = Cardinality(s) - 1
  BY <1>1, PickIsIn, FS_RemoveElement
<1>3. 0 \in G
  <2> DEFINE g == [s \in Small(0) |-> 0]
  <2>1. \A s \in Small(0) : s = {}
    BY <1>1, FS_EmptySet
  <2>2. Over(0, g)
    BY <2>1
  <2>. HIDE DEF g, Over
  <2>. QED
    BY <2>2
<1>4. ASSUME NEW n \in Nat, n \in G
      PROVE  n + 1 \in G
  <2>1. PICK g : Over(n, g)
    BY <1>4
  <2> DEFINE h == [s \in Small(n + 1) |-> Value(g, s)]
  <2>2. ASSUME NEW s \in Small(n + 1), s # {}
        PROVE  h[s \ {Pick(s)}] = g[s \ {Pick(s)}]
    <3>0. s \in SUBSET S /\ Cardinality(s) <= n + 1
      BY <2>2
    <3>1. /\ s \ {Pick(s)} \in SUBSET S /\ Cardinality(s) \in Nat
          /\ Cardinality(s \ {Pick(s)}) = Cardinality(s) - 1
      BY <1>1, <1>2, <2>2, <3>0
    <3>2. Cardinality(s \ {Pick(s)}) <= n /\ Cardinality(s \ {Pick(s)}) <= n + 1
      BY <3>0, <3>1
    <3>3. s \ {Pick(s)} \in Small(n) /\ s \ {Pick(s)} \in Small(n + 1)
      BY <3>1, <3>2
    <3>. QED
      BY <2>1, <3>3
  <2>3. \A s \in Small(n + 1) : Value(g, s) = Value(h, s)
    BY <2>2
  <2>4. Over(n + 1, h)
    BY <2>3
  <2>. HIDE DEF h, Over
  <2>. QED
    BY <2>4
<1>5. Cardinality(S) \in G
  <2>. HIDE DEF G
  <2>. QED
    BY <1>1, <1>3, <1>4, NumbersBySuccession
<1>6. Small(Cardinality(S)) = SUBSET S
  BY FS_Subset
<1>. QED
  BY <1>5, <1>6 DEF AddsUp

LEMMA SumAddsUp ==
  ASSUME NEW f, NEW S, IsFiniteSet(S), NEW g, AddsUp(f, S, g)
  PROVE  \A U \in SUBSET S : SumFunctionOnSet(f, U) = g[U]
<1>. TAKE U \in SUBSET S
<1>1. IsFiniteSet(U)
  BY FS_Subset
<1>2. PICK h : AddsUp(f, U, h) /\ SumFunctionOnSet(f, U) = h[U]
  BY <1>1, AddsUpExists, SumIsChosen
<1>3. U \subseteq S
  OBVIOUS
<1>4. \A s \in SUBSET U : g[s] = h[s]
  BY <1>2, <1>3, AddsUpOnce
<1>. QED
  BY <1>2, <1>4

-------------------------------------------------------------------------------
(* What the proofs use.                                                     *)

LEMMA SumEmpty ==
  ASSUME NEW f
  PROVE  SumFunctionOnSet(f, {}) = 0
<1>1. IsFiniteSet({})
  BY FS_EmptySet
<1>2. PICK g : AddsUp(f, {}, g)
  BY <1>1, AddsUpExists
<1>3. SumFunctionOnSet(f, {}) = g[{}]
  BY <1>1, <1>2, SumAddsUp
<1>. QED
  BY <1>2, <1>3 DEF AddsUp

LEMMA SumPick ==
  ASSUME NEW f, NEW S, IsFiniteSet(S), S # {}
  PROVE  SumFunctionOnSet(f, S) = f[Pick(S)] + SumFunctionOnSet(f, S \ {Pick(S)})
<1>1. PICK g : AddsUp(f, S, g)
  BY AddsUpExists
<1>2. SumFunctionOnSet(f, S) = g[S]
  BY <1>1, SumAddsUp
<1>3. SumFunctionOnSet(f, S \ {Pick(S)}) = g[S \ {Pick(S)}]
  BY <1>1, SumAddsUp
<1>. QED
  BY <1>1, <1>2, <1>3 DEF AddsUp

LEMMA SumType ==
  ASSUME NEW f, NEW S, IsFiniteSet(S), \A x \in S : f[x] \in Int
  PROVE  SumFunctionOnSet(f, S) \in Int
<1> DEFINE G == {T \in SUBSET S : SumFunctionOnSet(f, T) \in Int}
<1>1. {} \in G
  BY SumEmpty
<1>2. ASSUME NEW T \in SUBSET S, T # {}, \A x \in T : T \ {x} \in G
      PROVE  T \in G
  <2>1. IsFiniteSet(T) /\ Pick(T) \in T
    BY <1>2, FS_Subset, PickIsIn
  <2>2. SumFunctionOnSet(f, T) = f[Pick(T)] + SumFunctionOnSet(f, T \ {Pick(T)})
    BY <1>2, <2>1, SumPick
  <2>. QED
    BY <1>2, <2>1, <2>2
<1>3. SUBSET S \subseteq G
  <2>. HIDE DEF G
  <2>. QED
    BY <1>1, <1>2, SubsetsByElements
<1>. QED
  BY <1>3

(* Any element can be taken out first. *)
LEMMA SumRemove ==
  ASSUME NEW f, NEW S, IsFiniteSet(S), \A x \in S : f[x] \in Int, NEW x \in S
  PROVE  SumFunctionOnSet(f, S) = f[x] + SumFunctionOnSet(f, S \ {x})
<1> DEFINE Out(T, y) == SumFunctionOnSet(f, T) = f[y] + SumFunctionOnSet(f, T \ {y})
           G == {T \in SUBSET S : \A y \in T : Out(T, y)}
<1>1. {} \in G
  OBVIOUS
<1>2. ASSUME NEW T \in SUBSET S, T # {}, \A y \in T : T \ {y} \in G
      PROVE  T \in G
  <2>. SUFFICES ASSUME NEW y \in T
                PROVE  Out(T, y)
    OBVIOUS
  <2> DEFINE p == Pick(T)
  <2>1. IsFiniteSet(T) /\ p \in T
    BY <1>2, FS_Subset, PickIsIn
  <2>2. Out(T, p)
    BY <1>2, <2>1, SumPick
  <2>. HIDE DEF p
  <2>3. CASE y = p
    BY <2>2, <2>3
  <2>4. CASE y # p
    <3>1. SumFunctionOnSet(f, T \ {p}) = f[y] + SumFunctionOnSet(f, (T \ {p}) \ {y})
      BY <1>2, <2>1, <2>4
    <3>2. SumFunctionOnSet(f, T \ {y}) = f[p] + SumFunctionOnSet(f, (T \ {y}) \ {p})
      BY <1>2, <2>1, <2>4
    <3>3. (T \ {p}) \ {y} = (T \ {y}) \ {p}
      OBVIOUS
    <3>4. SumFunctionOnSet(f, (T \ {p}) \ {y}) \in Int
      <4>1. IsFiniteSet((T \ {p}) \ {y})
        BY <2>1, FS_Subset
      <4>. QED
        BY <4>1, SumType
    <3>5. f[p] \in Int /\ f[y] \in Int
      BY <2>1
    <3> DEFINE rest == SumFunctionOnSet(f, (T \ {p}) \ {y})
    <3>6. SumFunctionOnSet(f, T) = f[p] + (f[y] + rest)
      BY <2>2, <3>1
    <3>7. SumFunctionOnSet(f, T \ {y}) = f[p] + rest
      BY <3>2, <3>3
    <3>8. rest \in Int
      BY <3>4
    <3>. HIDE DEF rest
    <3>. QED
      BY <3>5, <3>6, <3>7, <3>8
  <2>. QED
    BY <2>3, <2>4
<1>3. SUBSET S \subseteq G
  <2>. HIDE DEF G
  <2>. QED
    BY <1>1, <1>2, SubsetsByElements
<1>. QED
  BY <1>3

LEMMA SumAdd ==
  ASSUME NEW f, NEW S, IsFiniteSet(S), NEW x, x \notin S, \A y \in S \cup {x} : f[y] \in Int
  PROVE  SumFunctionOnSet(f, S \cup {x}) = f[x] + SumFunctionOnSet(f, S)
<1>1. IsFiniteSet(S \cup {x})
  BY FS_AddElement
<1>2. (S \cup {x}) \ {x} = S
  OBVIOUS
<1>. QED
  BY <1>1, <1>2, SumRemove

LEMMA SumSame ==
  ASSUME NEW f, NEW g, NEW S, IsFiniteSet(S), \A x \in S : f[x] = g[x]
  PROVE  SumFunctionOnSet(f, S) = SumFunctionOnSet(g, S)
<1> DEFINE G == {T \in SUBSET S : SumFunctionOnSet(f, T) = SumFunctionOnSet(g, T)}
<1>1. {} \in G
  BY SumEmpty
<1>2. ASSUME NEW T \in SUBSET S, T # {}, \A x \in T : T \ {x} \in G
      PROVE  T \in G
  <2>1. IsFiniteSet(T) /\ Pick(T) \in T
    BY <1>2, FS_Subset, PickIsIn
  <2>2. SumFunctionOnSet(f, T) = f[Pick(T)] + SumFunctionOnSet(f, T \ {Pick(T)})
    BY <1>2, <2>1, SumPick
  <2>3. SumFunctionOnSet(g, T) = g[Pick(T)] + SumFunctionOnSet(g, T \ {Pick(T)})
    BY <1>2, <2>1, SumPick
  <2>. QED
    BY <1>2, <2>1, <2>2, <2>3
<1>3. SUBSET S \subseteq G
  <2>. HIDE DEF G
  <2>. QED
    BY <1>1, <1>2, SubsetsByElements
<1>. QED
  BY <1>3

(* Two sums that differ at one element. *)
LEMMA SumChange ==
  ASSUME NEW f, NEW g, NEW S, IsFiniteSet(S), NEW x \in S,
         \A y \in S : f[y] \in Int /\ g[y] \in Int, \A y \in S \ {x} : g[y] = f[y]
  PROVE  SumFunctionOnSet(g, S) = SumFunctionOnSet(f, S) - f[x] + g[x]
<1>1. SumFunctionOnSet(f, S) = f[x] + SumFunctionOnSet(f, S \ {x})
  BY SumRemove
<1>2. SumFunctionOnSet(g, S) = g[x] + SumFunctionOnSet(g, S \ {x})
  BY SumRemove
<1>3. IsFiniteSet(S \ {x})
  BY FS_Subset
<1>4. SumFunctionOnSet(g, S \ {x}) = SumFunctionOnSet(f, S \ {x})
  BY <1>3, SumSame
<1>5. SumFunctionOnSet(f, S \ {x}) \in Int
  BY <1>3, SumType
<1>. QED
  BY <1>1, <1>2, <1>4, <1>5

(* Elements that count for nothing or more: a larger set has a larger sum.  *)
LEMMA SumGrows ==
  ASSUME NEW f, NEW S, IsFiniteSet(S), \A x \in S : f[x] \in Nat, NEW R \in SUBSET S
  PROVE  /\ SumFunctionOnSet(f, R) \in Nat
         /\ SumFunctionOnSet(f, R) <= SumFunctionOnSet(f, S)
<1> DEFINE G == {T \in SUBSET S :
                   /\ SumFunctionOnSet(f, T) \in Nat
                   /\ \A U \in SUBSET T : SumFunctionOnSet(f, U) <= SumFunctionOnSet(f, T)}
<1>1. {} \in G
  BY SumEmpty
<1>2. ASSUME NEW T \in SUBSET S, T # {}, \A x \in T : T \ {x} \in G
      PROVE  T \in G
  <2>1. IsFiniteSet(T)
    BY FS_Subset
  <2>2. \A x \in T : SumFunctionOnSet(f, T) = f[x] + SumFunctionOnSet(f, T \ {x})
    BY <2>1, SumRemove
  <2>3. SumFunctionOnSet(f, T) \in Nat
    <3>1. PICK x \in T : TRUE
      BY <1>2
    <3>2. SumFunctionOnSet(f, T \ {x}) \in Nat /\ f[x] \in Nat
      BY <1>2
    <3>. QED
      BY <2>2, <3>2
  <2>4. ASSUME NEW U \in SUBSET T, U # T
        PROVE  SumFunctionOnSet(f, U) <= SumFunctionOnSet(f, T)
    <3>1. PICK x \in T : x \notin U
      BY <2>4
    <3>2. T \ {x} \in G /\ U \in SUBSET (T \ {x})
      BY <1>2, <3>1
    <3>3. SumFunctionOnSet(f, U) <= SumFunctionOnSet(f, T \ {x})
      BY <3>2
    <3>4. SumFunctionOnSet(f, T \ {x}) \in Nat /\ f[x] \in Nat
      BY <3>2
    <3>5. SumFunctionOnSet(f, U) \in Int
      <4>1. IsFiniteSet(U)
        BY <2>1, FS_Subset
      <4>. QED
        BY <4>1, SumType
    <3>. QED
      BY <2>2, <3>3, <3>4, <3>5
  <2>. QED
    BY <2>3, <2>4
<1>3. SUBSET S \subseteq G
  <2>. HIDE DEF G
  <2>. QED
    BY <1>1, <1>2, SubsetsByElements
<1>4. S \in G /\ R \in G
  BY <1>3
<1>. QED
  BY <1>4

LEMMA SumSplit ==
  ASSUME NEW f, NEW S, IsFiniteSet(S), \A x \in S : f[x] \in Int, NEW R \in SUBSET S
  PROVE  SumFunctionOnSet(f, S) = SumFunctionOnSet(f, R) + SumFunctionOnSet(f, S \ R)
<1> DEFINE G == {T \in SUBSET S : SumFunctionOnSet(f, S)
                                    = SumFunctionOnSet(f, T) + SumFunctionOnSet(f, S \ T)}
<1>0. \A T \in SUBSET S : IsFiniteSet(T) /\ SumFunctionOnSet(f, T) \in Int
  <2>. TAKE T \in SUBSET S
  <2>1. IsFiniteSet(T)
    BY FS_Subset
  <2>. QED
    BY <2>1, SumType
<1>1. {} \in G
  <2>1. S \ {} = S
    OBVIOUS
  <2>. QED
    BY <2>1, <1>0, SumEmpty
<1>2. ASSUME NEW T \in SUBSET S, T # {}, \A x \in T : T \ {x} \in G
      PROVE  T \in G
  <2>1. PICK x \in T : TRUE
    BY <1>2
  <2> DEFINE more == S \ (T \ {x})
  <2>2. SumFunctionOnSet(f, T) = f[x] + SumFunctionOnSet(f, T \ {x})
    BY <1>0, SumRemove
  <2>3. SumFunctionOnSet(f, more) = f[x] + SumFunctionOnSet(f, S \ T)
    <3>1. IsFiniteSet(more) /\ x \in more /\ more \ {x} = S \ T /\ \A y \in more : f[y] \in Int
      BY <1>0
    <3>. HIDE DEF more
    <3>2. SumFunctionOnSet(f, more) = f[x] + SumFunctionOnSet(f, more \ {x})
      BY <3>1, SumRemove
    <3>. QED
      BY <3>1, <3>2
  <2>4. SumFunctionOnSet(f, S) = SumFunctionOnSet(f, T \ {x}) + SumFunctionOnSet(f, more)
    BY <1>2
  <2>5. /\ f[x] \in Int /\ SumFunctionOnSet(f, T \ {x}) \in Int
        /\ SumFunctionOnSet(f, S \ T) \in Int
    BY <1>0
  <2>. HIDE DEF more
  <2>. QED
    BY <2>2, <2>3, <2>4, <2>5
<1>3. SUBSET S \subseteq G
  <2>. HIDE DEF G
  <2>. QED
    BY <1>1, <1>2, SubsetsByElements
<1>. QED
  BY <1>3

================================================================================
