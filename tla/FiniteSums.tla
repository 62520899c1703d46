------------------------------ MODULE FiniteSums ------------------------------
(* What the community modules' folds return: sums over a finite set        *)
(* (SumFunctionOnSet of Functions) and its maximum (Max of FiniteSetsExt). *)
(* Each is proved by a smallest set for which it would fail.               *)
EXTENDS Integers, FiniteSetsExt, FiniteSetTheorems, WellFoundedInduction, TLAPS

(* The least counterexample: what fails for a finite set fails for one     *)
(* whose proper subsets all hold.                                          *)
LEMMA SmallestSet ==
  ASSUME NEW S, IsFiniteSet(S), NEW Bad \in SUBSET SUBSET S, Bad # {}
  PROVE  \E T \in Bad : \A U \in SUBSET T : U # T => U \notin Bad
<1>1. IsWellFoundedOn(StrictSubsetOrdering(S), SUBSET S)
  BY FS_StrictSubsetOrderingWellFounded, FS_FiniteSubsetsOfFinite
<1>2. PICK T \in Bad : \A U \in Bad : ~(<<U, T>> \in StrictSubsetOrdering(S))
  BY <1>1, WFMin
<1>3. \A U \in SUBSET T : U # T => U \notin Bad
  BY <1>2 DEF StrictSubsetOrdering
<1> QED
  BY <1>3

Pick(T) == CHOOSE x \in T : TRUE
Turn(f, g, s) == IF s = {} THEN 0 ELSE f[Pick(s)] + g[s \ {Pick(s)}]
Adds(f, g, S) == g = [s \in SUBSET S |-> Turn(f, g, s)]

LEMMA PickIn ==
  ASSUME NEW T, T # {} PROVE Pick(T) \in T
  BY DEF Pick

LEMMA AddsAgree ==
  ASSUME NEW f, NEW S, IsFiniteSet(S), NEW U \in SUBSET S, NEW g, NEW h, Adds(f, g, S), Adds(f, h, U)
  PROVE  \A T \in SUBSET U : g[T] = h[T]
<1> DEFINE Bad == {T \in SUBSET U : g[T] # h[T]}
<1> SUFFICES ASSUME Bad # {} PROVE FALSE
  OBVIOUS
<1>0. IsFiniteSet(U)
  BY FS_Subset
<1>1. PICK T \in Bad : \A V \in SUBSET T : V # T => V \notin Bad
  <2>1. Bad \in SUBSET SUBSET U
    OBVIOUS
  <2> HIDE DEF Bad
  <2> QED BY <1>0, <2>1, SmallestSet
<1>2. g[T] = Turn(f, g, T) /\ h[T] = Turn(f, h, T)
  BY DEF Adds
<1>3. CASE T = {}
  BY <1>2, <1>3 DEF Turn
<1>4. CASE T # {}
  <2>1. Pick(T) \in T
    BY <1>4, PickIn
  <2>2. T \ {Pick(T)} \in SUBSET T /\ T \ {Pick(T)} # T
    BY <2>1
  <2>3. g[T \ {Pick(T)}] = h[T \ {Pick(T)}]
    BY <2>2, <1>1
  <2> QED
    BY <1>2, <1>4, <2>3 DEF Turn
<1> QED
  BY <1>3, <1>4

LEMMA AddsExists ==
  ASSUME NEW f, NEW S, IsFiniteSet(S)
  PROVE  \E g : Adds(f, g, S)
<1> DEFINE Bad == {T \in SUBSET S : ~\E g : Adds(f, g, T)}
<1> SUFFICES ASSUME Bad # {} PROVE FALSE
  OBVIOUS
<1>1. PICK T \in Bad : \A V \in SUBSET T : V # T => V \notin Bad
  <2>1. Bad \in SUBSET SUBSET S
    OBVIOUS
  <2> HIDE DEF Bad
  <2> QED BY <2>1, SmallestSet
<1> DEFINE G(V) == CHOOSE g : Adds(f, g, V)
<1>2. \A V \in SUBSET T : V # T => Adds(f, G(V), V)
  BY <1>1
<1> DEFINE h == [s \in SUBSET T |-> IF s = {} THEN 0 ELSE f[Pick(s)] + G(s \ {Pick(s)})[s \ {Pick(s)}]]
<1>3. \A s \in SUBSET T : s # {} => h[s \ {Pick(s)}] = G(s \ {Pick(s)})[s \ {Pick(s)}]
  <2> SUFFICES ASSUME NEW s \in SUBSET T, s # {} PROVE h[s \ {Pick(s)}] = G(s \ {Pick(s)})[s \ {Pick(s)}]
    OBVIOUS
  <2> DEFINE v == s \ {Pick(s)}
  <2>1. Pick(s) \in s
    BY PickIn
  <2>2. v \in SUBSET T /\ v # T
    BY <2>1
  <2>3. Adds(f, G(v), v)
    BY <1>2, <2>2
  <2>4. G(v)[v] = Turn(f, G(v), v)
    <3> HIDE DEF v, G
    <3> QED BY <2>3 DEF Adds
  <2>5. CASE v = {}
    BY <2>4, <2>5, <2>2 DEF Turn
  <2>6. CASE v # {}
    <3> DEFINE w == v \ {Pick(v)}
    <3>1. Pick(v) \in v
      BY <2>6, PickIn
    <3>2. w \in SUBSET v /\ w \in SUBSET T /\ w # T
      BY <3>1, <2>2
    <3>3. Adds(f, G(w), w)
      BY <1>2, <3>2
    <3>4. IsFiniteSet(v)
      BY FS_Subset, <2>2
    <3>5. G(v)[w] = G(w)[w]
      <4> HIDE DEF v, G, w
      <4> QED BY <2>3, <3>2, <3>3, <3>4, AddsAgree
    <3>6. h[v] = f[Pick(v)] + G(w)[w]
      <4> HIDE DEF v, G
      <4> QED BY <2>2, <2>6
    <3> HIDE DEF h, G, v, w
    <3>7. G(v)[v] = f[Pick(v)] + G(v)[w]
      BY <2>4, <2>6 DEF Turn, w
    <3> QED
      BY <3>5, <3>6, <3>7 DEF v
  <2> QED
    BY <2>5, <2>6
<1>4. h = [s \in SUBSET T |-> Turn(f, h, s)]
  <2>1. \A s \in SUBSET T : h[s] = Turn(f, h, s)
    <3> SUFFICES ASSUME NEW s \in SUBSET T PROVE h[s] = Turn(f, h, s)
      OBVIOUS
    <3>1. CASE s = {}
      BY <3>1 DEF Turn
    <3>2. CASE s # {}
      <4>1. h[s] = f[Pick(s)] + G(s \ {Pick(s)})[s \ {Pick(s)}]
        BY <3>2
      <4>2. h[s \ {Pick(s)}] = G(s \ {Pick(s)})[s \ {Pick(s)}]
        BY <3>2, <1>3
      <4> HIDE DEF h, G
      <4> QED
        BY <3>2, <4>1, <4>2 DEF Turn
    <3> QED BY <3>1, <3>2
  <2> QED BY <2>1
<1>5. Adds(f, h, T)
  <2> HIDE DEF h
  <2> QED BY <1>4 DEF Adds
<1> QED
  BY <1>5

LEMMA SumIs ==
  ASSUME NEW f, NEW S, IsFiniteSet(S)
  PROVE  \E g : Adds(f, g, S) /\ SumFunctionOnSet(f, S) = g[S]
<1> DEFINE g == CHOOSE h : h = [s \in SUBSET S |->
                  IF s = {} THEN 0 ELSE f[CHOOSE x \in s : TRUE] + h[s \ {CHOOSE x \in s : TRUE}]]
<1>1. SumFunctionOnSet(f, S) = g[S]
  BY DEF SumFunctionOnSet, FoldFunctionOnSet, MapThenFoldSet
<1>2. g = CHOOSE h : Adds(f, h, S)
  BY DEF Adds, Turn, Pick
<1>3. Adds(f, g, S)
  <2> HIDE DEF g
  <2> QED BY <1>2, AddsExists
<1> QED
  BY <1>1, <1>3

(* The equation of a sum, for the element CHOOSE takes out ...             *)
LEMMA SumEmpty ==
  ASSUME NEW f
  PROVE  SumFunctionOnSet(f, {}) = 0
<1>1. PICK g : Adds(f, g, {}) /\ SumFunctionOnSet(f, {}) = g[{}]
  BY SumIs, FS_EmptySet
<1> QED
  BY <1>1 DEF Adds, Turn

LEMMA SumTurn ==
  ASSUME NEW f, NEW S, IsFiniteSet(S), S # {}
  PROVE  SumFunctionOnSet(f, S) = f[Pick(S)] + SumFunctionOnSet(f, S \ {Pick(S)})
<1> DEFINE R == S \ {Pick(S)}
<1>1. Pick(S) \in S /\ R \in SUBSET S /\ IsFiniteSet(R)
  BY PickIn, FS_Subset
<1> HIDE DEF R
<1>2. PICK g : Adds(f, g, S) /\ SumFunctionOnSet(f, S) = g[S]
  BY SumIs
<1>3. PICK h : Adds(f, h, R) /\ SumFunctionOnSet(f, R) = h[R]
  BY <1>1, SumIs
<1>4. g[R] = h[R]
  BY <1>1, <1>2, <1>3, AddsAgree
<1>5. g[S] = Turn(f, g, S)
  BY <1>2 DEF Adds
<1>6. g[S] = f[Pick(S)] + g[R]
  BY <1>5 DEF Turn, R
<1> QED
  BY <1>2, <1>3, <1>4, <1>6 DEF R

LEMMA SumInt ==
  ASSUME NEW f, NEW S, IsFiniteSet(S), \A x \in S : f[x] \in Int
  PROVE  SumFunctionOnSet(f, S) \in Int
<1> DEFINE Bad == {T \in SUBSET S : SumFunctionOnSet(f, T) \notin Int}
<1> SUFFICES ASSUME Bad # {} PROVE FALSE
  OBVIOUS
<1>1. PICK T \in Bad : \A V \in SUBSET T : V # T => V \notin Bad
  <2>1. Bad \in SUBSET SUBSET S
    OBVIOUS
  <2> HIDE DEF Bad
  <2> QED BY <2>1, SmallestSet
<1>2. CASE T = {}
  BY <1>2, SumEmpty
<1>3. CASE T # {}
  <2>1. Pick(T) \in T /\ IsFiniteSet(T)
    BY <1>3, PickIn, FS_Subset
  <2>2. SumFunctionOnSet(f, T \ {Pick(T)}) \in Int
    BY <1>1, <2>1
  <2> QED
    BY <1>3, <2>1, <2>2, SumTurn
<1> QED
  BY <1>2, <1>3

(* ... and for any other.                                                  *)
LEMMA SumWithout ==
  ASSUME NEW f, NEW S, IsFiniteSet(S), \A x \in S : f[x] \in Int, NEW a \in S
  PROVE  SumFunctionOnSet(f, S) = f[a] + SumFunctionOnSet(f, S \ {a})
<1> DEFINE Sum(T) == SumFunctionOnSet(f, T)
           Bad == {T \in SUBSET S : \E x \in T : Sum(T) # f[x] + Sum(T \ {x})}
<1> SUFFICES ASSUME Bad # {} PROVE FALSE
  OBVIOUS
<1>1. PICK T \in Bad : \A V \in SUBSET T : V # T => V \notin Bad
  <2>1. Bad \in SUBSET SUBSET S
    OBVIOUS
  <2> HIDE DEF Bad
  <2> QED BY <2>1, SmallestSet
<1>2. PICK x \in T : Sum(T) # f[x] + Sum(T \ {x})
  OBVIOUS
<1>3. PICK p : p = Pick(T)
  OBVIOUS
<1>4. IsFiniteSet(T) /\ p \in T /\ Sum(T) = f[p] + Sum(T \ {p})
  <2>1. IsFiniteSet(T)
    BY FS_Subset
  <2> QED
    BY <1>3, <2>1, PickIn, SumTurn
<1>5. p # x
  BY <1>2, <1>4
<1>6. Sum(T \ {p}) = f[x] + Sum((T \ {p}) \ {x})
  <2>1. T \ {p} \in SUBSET T /\ T \ {p} # T /\ x \in T \ {p} /\ T \ {p} \in SUBSET S
    BY <1>4, <1>5
  <2> QED
    BY <1>1, <2>1
<1>7. Sum(T \ {x}) = f[p] + Sum((T \ {x}) \ {p})
  <2>1. T \ {x} \in SUBSET T /\ T \ {x} # T /\ p \in T \ {x} /\ T \ {x} \in SUBSET S
    BY <1>4, <1>5
  <2> QED
    BY <1>1, <2>1
<1>8. Sum((T \ {x}) \ {p}) \in Int /\ (T \ {p}) \ {x} = (T \ {x}) \ {p}
  <2>1. IsFiniteSet((T \ {x}) \ {p}) /\ \A y \in (T \ {x}) \ {p} : f[y] \in Int
    BY <1>4, FS_Subset
  <2> QED
    BY <2>1, SumInt
<1>9. f[x] \in Int /\ f[p] \in Int
  BY <1>4
<1> HIDE DEF Sum
<1>10. Sum(T) = f[p] + (f[x] + Sum((T \ {x}) \ {p}))
  BY <1>4, <1>6, <1>8
<1> QED
  BY <1>2, <1>7, <1>8, <1>9, <1>10

LEMMA SumSame ==
  ASSUME NEW f, NEW g, NEW S, IsFiniteSet(S), \A x \in S : f[x] = g[x]
  PROVE  SumFunctionOnSet(f, S) = SumFunctionOnSet(g, S)
<1> DEFINE Bad == {T \in SUBSET S : SumFunctionOnSet(f, T) # SumFunctionOnSet(g, T)}
<1> SUFFICES ASSUME Bad # {} PROVE FALSE
  OBVIOUS
<1>1. PICK T \in Bad : \A V \in SUBSET T : V # T => V \notin Bad
  <2>1. Bad \in SUBSET SUBSET S
    OBVIOUS
  <2> HIDE DEF Bad
  <2> QED BY <2>1, SmallestSet
<1>2. CASE T = {}
  BY <1>2, SumEmpty
<1>3. CASE T # {}
  <2>1. Pick(T) \in T /\ IsFiniteSet(T)
    BY <1>3, PickIn, FS_Subset
  <2>2. SumFunctionOnSet(f, T \ {Pick(T)}) = SumFunctionOnSet(g, T \ {Pick(T)}) /\ f[Pick(T)] = g[Pick(T)]
    BY <1>1, <2>1
  <2> QED
    BY <1>3, <2>1, <2>2, SumTurn
<1> QED
  BY <1>2, <1>3

LEMMA SumNat ==
  ASSUME NEW f, NEW S, IsFiniteSet(S), \A x \in S : f[x] \in Nat
  PROVE  SumFunctionOnSet(f, S) \in Nat
<1> DEFINE Bad == {T \in SUBSET S : SumFunctionOnSet(f, T) \notin Nat}
<1> SUFFICES ASSUME Bad # {} PROVE FALSE
  OBVIOUS
<1>1. PICK T \in Bad : \A V \in SUBSET T : V # T => V \notin Bad
  <2>1. Bad \in SUBSET SUBSET S
    OBVIOUS
  <2> HIDE DEF Bad
  <2> QED BY <2>1, SmallestSet
<1>2. CASE T = {}
  BY <1>2, SumEmpty
<1>3. CASE T # {}
  <2>1. Pick(T) \in T /\ IsFiniteSet(T)
    BY <1>3, PickIn, FS_Subset
  <2>2. SumFunctionOnSet(f, T \ {Pick(T)}) \in Nat /\ f[Pick(T)] \in Nat
    BY <1>1, <2>1
  <2> QED
    BY <1>3, <2>1, <2>2, SumTurn
<1> QED
  BY <1>2, <1>3

LEMMA MaxIs ==
  ASSUME NEW S, IsFiniteSet(S), S \subseteq Nat, S # {}
  PROVE  Max(S) \in S /\ \A x \in S : Max(S) >= x
<1> DEFINE Top(T) == \E m \in T : \A x \in T : m >= x
           Bad == {T \in SUBSET S : T # {} /\ ~Top(T)}
<1>1. Bad = {}
  <2> SUFFICES ASSUME Bad # {} PROVE FALSE
    OBVIOUS
  <2>1. PICK T \in Bad : \A V \in SUBSET T : V # T => V \notin Bad
    <3>1. Bad \in SUBSET SUBSET S
      OBVIOUS
    <3> HIDE DEF Bad
    <3> QED BY <3>1, SmallestSet
  <2>2. PICK a \in T : TRUE
    OBVIOUS
  <2>3. CASE T \ {a} = {}
    BY <2>2, <2>3
  <2>4. CASE T \ {a} # {}
    <3>1. Top(T \ {a})
      BY <2>1, <2>2, <2>4
    <3>2. PICK m \in T \ {a} : \A x \in T \ {a} : m >= x
      BY <3>1
    <3>3. a \in Nat /\ m \in Nat
      BY <2>2
    <3>4. Top(T)
      BY <2>2, <3>2, <3>3
    <3> QED
      BY <3>4
  <2> QED
    BY <2>3, <2>4
<1>2. Top(S)
  BY <1>1
<1> QED
  BY <1>2 DEF Max
=============================================================================
