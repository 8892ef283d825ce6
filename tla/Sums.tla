---------------------------------- MODULE Sums ----------------------------------
(***************************************************************************)
(* Sums over finite sets: what SumFunctionOnSet gains or loses when an      *)
(* element is added, removed or changed.  The fold behind it is a recursive *)
(* function on the subsets; instead of an induction, which would need a     *)
(* predicate as a parameter, the proofs take a smallest counterexample.     *)
(***************************************************************************)
EXTENDS Integers, Functions, FiniteSetTheorems, TLAPS

\* The element the fold takes first.
First(s) == CHOOSE x \in s : TRUE

\* g sums f over every subset of S.
SumsOn(g, f, S) ==
  g = [s \in SUBSET S |-> IF s = {} THEN 0 ELSE f[First(s)] + g[s \ {First(s)}]]

SumsOf(f, S) == CHOOSE g : SumsOn(g, f, S)

-----------------------------------------------------------------------------
\* A set of subsets of a finite set has a smallest member.
LEMMA SmallestSet ==
  ASSUME NEW S, IsFiniteSet(S), NEW B, B \subseteq SUBSET S, B # {}
  PROVE  \E s \in B : \A t \in SUBSET s : t # s => t \notin B
<1> DEFINE R == StrictSubsetOrdering(S)
           F == FiniteSubsetsOf(S)
<1>1. F = SUBSET S
  BY FS_FiniteSubsetsOfFinite
<1>2. IsWellFoundedOn(R, F)
  BY FS_StrictSubsetOrderingWellFounded
<1>3. PICK s \in B : \A t \in B : <<t, s>> \notin R
  <2> HIDE DEF R, F
  <2> QED BY <1>1, <1>2, WFMin
<1>4. ASSUME NEW t \in SUBSET s, t # s, t \in B PROVE FALSE
  <2>1. <<t, s>> \in (SUBSET S) \X (SUBSET S)
    BY <1>3, <1>4
  <2>2. <<t, s>> \in R
    BY <2>1, <1>4 DEF StrictSubsetOrdering
  <2> QED BY <2>2, <1>3, <1>4
<1> QED BY <1>3, <1>4

LEMMA FirstIn == \A s : s # {} => First(s) \in s
BY DEF First

LEMMA SumIs == \A f, S : SumFunctionOnSet(f, S) = SumsOf(f, S)[S]
BY DEF SumFunctionOnSet, FoldFunctionOnSet, MapThenFoldSet, SumsOf, SumsOn, First

\* Two such functions agree where both are defined.
LEMMA SumsAgree ==
  ASSUME NEW f, NEW S, NEW T, NEW g, NEW h, IsFiniteSet(S), SumsOn(g, f, S), SumsOn(h, f, T),
         NEW s \in SUBSET S, s \subseteq T
  PROVE  g[s] = h[s]
<1> DEFINE B == {t \in SUBSET S : t \subseteq T /\ g[t] # h[t]}
<1> SUFFICES ASSUME B # {} PROVE FALSE
  OBVIOUS
<1>1. PICK t \in B : \A u \in SUBSET t : u # t => u \notin B
  <2> HIDE DEF B
  <2>1. B \subseteq SUBSET S
    BY DEF B
  <2> QED BY <2>1, SmallestSet
<1>2. g[t] = IF t = {} THEN 0 ELSE f[First(t)] + g[t \ {First(t)}]
  BY <1>1 DEF SumsOn
<1>3. h[t] = IF t = {} THEN 0 ELSE f[First(t)] + h[t \ {First(t)}]
  BY <1>1 DEF SumsOn
<1>4. t # {}
  BY <1>1, <1>2, <1>3
<1>5. g[t \ {First(t)}] = h[t \ {First(t)}]
  BY <1>1, <1>4, FirstIn
<1> QED BY <1>1, <1>2, <1>3, <1>4, <1>5

\* There is one for every finite set.
LEMMA SumsExist ==
  ASSUME NEW f, NEW S, IsFiniteSet(S)
  PROVE  SumsOn(SumsOf(f, S), f, S)
<1> DEFINE B == {s \in SUBSET S : ~\E g : SumsOn(g, f, s)}
<1>1. B = {}
  <2> SUFFICES ASSUME B # {} PROVE FALSE
    OBVIOUS
  <2>1. PICK s \in B : \A t \in SUBSET s : t # s => t \notin B
    <3> HIDE DEF B
    <3>1. B \subseteq SUBSET S
      BY DEF B
    <3> QED BY <3>1, SmallestSet
  <2>2. \A t \in SUBSET s : t # s => SumsOn(SumsOf(f, t), f, t) /\ IsFiniteSet(t)
    <3>1. \A t \in SUBSET s : t # s => \E g : SumsOn(g, f, t)
      BY <2>1
    <3>2. \A t \in SUBSET s : IsFiniteSet(t)
      BY <2>1, FS_Subset
    <3> QED BY <3>1, <3>2 DEF SumsOf
  <2> DEFINE of(t) == SumsOf(f, t \ {First(t)})[t \ {First(t)}]
             g == [t \in SUBSET s |-> IF t = {} THEN 0 ELSE f[First(t)] + of(t)]
  <2>3. ASSUME NEW t \in SUBSET s, t # {}
        PROVE  g[t \ {First(t)}] = of(t)
    <3> DEFINE u == t \ {First(t)}
    <3>1. u \in SUBSET s /\ u # s /\ u \in SUBSET u
      BY <2>3, FirstIn
    <3>2. SumsOn(SumsOf(f, u), f, u) /\ IsFiniteSet(u)
      BY <2>2, <3>1
    <3>3. SumsOf(f, u)[u] = IF u = {} THEN 0
                            ELSE f[First(u)] + SumsOf(f, u)[u \ {First(u)}]
      <4> HIDE DEF u
      <4> QED BY <3>1, <3>2 DEF SumsOn
    <3>4. g[u] = IF u = {} THEN 0 ELSE f[First(u)] + of(u)
      BY <3>1
    <3>5. ASSUME u # {} PROVE SumsOf(f, u)[u \ {First(u)}] = of(u)
      <4> DEFINE v == u \ {First(u)}
      <4>1. v \in SUBSET u /\ v \in SUBSET s /\ v # s /\ v \subseteq v
        BY <3>1, <3>5, FirstIn
      <4>2. SumsOn(SumsOf(f, v), f, v)
        BY <2>2, <4>1
      <4> HIDE DEF u, v
      <4>3. SumsOf(f, u)[v] = SumsOf(f, v)[v]
        BY <3>2, <4>1, <4>2, SumsAgree
      <4> QED BY <4>3 DEF v
    <3> HIDE DEF g, of
    <3>6. g[u] = SumsOf(f, u)[u]
      BY <3>3, <3>4, <3>5
    <3> QED BY <3>6 DEF of
  <2>4. SumsOn(g, f, s)
    <3>1. g = [t \in SUBSET s |-> IF t = {} THEN 0 ELSE f[First(t)] + g[t \ {First(t)}]]
      <4> HIDE DEF of
      <4> DEFINE r == [t \in SUBSET s |-> IF t = {} THEN 0 ELSE f[First(t)] + g[t \ {First(t)}]]
      <4>1. \A t \in SUBSET s : g[t] = r[t]
        <5> TAKE t \in SUBSET s
        <5>1. r[t] = IF t = {} THEN 0 ELSE f[First(t)] + g[t \ {First(t)}]
          OBVIOUS
        <5>2. g[t] = IF t = {} THEN 0 ELSE f[First(t)] + of(t)
          OBVIOUS
        <5> HIDE DEF g, r
        <5> QED BY <5>1, <5>2, <2>3
      <4>2. g \in [SUBSET s -> {g[t] : t \in SUBSET s}] /\ r \in [SUBSET s -> {r[t] : t \in SUBSET s}]
        OBVIOUS
      <4> HIDE DEF g, r
      <4>3. g = r
        BY <4>1, <4>2
      <4> QED BY <4>3 DEF r
    <3> QED BY <3>1 DEF SumsOn
  <2> QED BY <2>1, <2>4
<1>2. \E g : SumsOn(g, f, S)
  BY <1>1
<1> QED BY <1>2 DEF SumsOf

\* Hence the fold takes one element after the other.
LEMMA SumStep ==
  ASSUME NEW f, NEW S, IsFiniteSet(S)
  PROVE  /\ SumFunctionOnSet(f, {}) = 0
         /\ S # {} => SumFunctionOnSet(f, S)
                        = f[First(S)] + SumFunctionOnSet(f, S \ {First(S)})
<1>1. SumFunctionOnSet(f, {}) = 0
  <2>1. SumsOn(SumsOf(f, {}), f, {})
    BY SumsExist, FS_EmptySet
  <2> QED BY <2>1, SumIs DEF SumsOn
<1>2. ASSUME S # {}
      PROVE SumFunctionOnSet(f, S) = f[First(S)] + SumFunctionOnSet(f, S \ {First(S)})
  <2> DEFINE T == S \ {First(S)}
  <2>1. SumsOn(SumsOf(f, S), f, S)
    BY SumsExist
  <2>2. IsFiniteSet(T) /\ T \in SUBSET S /\ T \subseteq T
    BY FS_Subset
  <2>3. SumsOn(SumsOf(f, T), f, T)
    <3> HIDE DEF T
    <3> QED BY <2>2, SumsExist
  <2>4. SumsOf(f, S)[S] = f[First(S)] + SumsOf(f, S)[T]
    BY <2>1, <1>2 DEF SumsOn
  <2>5. SumsOf(f, S)[T] = SumsOf(f, T)[T]
    <3> HIDE DEF T
    <3> QED BY <2>1, <2>2, <2>3, SumsAgree
  <2> QED BY <2>4, <2>5, SumIs
<1> QED BY <1>1, <1>2

LEMMA SumEmpty == \A f : SumFunctionOnSet(f, {}) = 0
<1> TAKE f
<1>1. IsFiniteSet({})
  BY FS_EmptySet
<1> QED BY <1>1, SumStep

-----------------------------------------------------------------------------
LEMMA SumType ==
  ASSUME NEW f, NEW S, IsFiniteSet(S), NEW V, V = Int \/ V = Nat, \A x \in S : f[x] \in V
  PROVE  SumFunctionOnSet(f, S) \in V
<1> DEFINE B == {s \in SUBSET S : SumFunctionOnSet(f, s) \notin V}
<1> SUFFICES ASSUME B # {} PROVE FALSE
  OBVIOUS
<1>1. PICK s \in B : \A t \in SUBSET s : t # s => t \notin B
  <2> HIDE DEF B
  <2>1. B \subseteq SUBSET S
    BY DEF B
  <2> QED BY <2>1, SmallestSet
<1>2. IsFiniteSet(s) /\ s \subseteq S
  BY <1>1, FS_Subset
<1>3. s # {}
  <2>1. SumFunctionOnSet(f, {}) = 0
    BY SumEmpty
  <2>2. 0 \in V
    OBVIOUS
  <2>3. s = {} => SumFunctionOnSet(f, s) \in V
    BY <2>1, <2>2
  <2> QED BY <1>1, <2>3
<1>4. First(s) \in s /\ f[First(s)] \in V
  BY <1>2, <1>3, FirstIn
<1>5. SumFunctionOnSet(f, s \ {First(s)}) \in V
  BY <1>1, <1>4
<1>6. SumFunctionOnSet(f, s) = f[First(s)] + SumFunctionOnSet(f, s \ {First(s)})
  BY <1>2, <1>3, SumStep
<1>7. SumFunctionOnSet(f, s) \in V
  BY <1>4, <1>5, <1>6
<1> QED BY <1>1, <1>7

\* Whatever element is taken first.
LEMMA SumRemove ==
  ASSUME NEW f, NEW S, IsFiniteSet(S), \A y \in S : f[y] \in Int, NEW x \in S
  PROVE  SumFunctionOnSet(f, S) = f[x] + SumFunctionOnSet(f, S \ {x})
<1> DEFINE Sum(t) == SumFunctionOnSet(f, t)
           B == {s \in SUBSET S : \E y \in s : Sum(s) # f[y] + Sum(s \ {y})}
<1> SUFFICES ASSUME B # {} PROVE FALSE
  OBVIOUS
<1>1. PICK s \in B : \A t \in SUBSET s : t # s => t \notin B
  <2> HIDE DEF B
  <2>1. B \subseteq SUBSET S
    BY DEF B
  <2> QED BY <2>1, SmallestSet
<1>2. PICK y \in s : Sum(s) # f[y] + Sum(s \ {y})
  BY <1>1
<1> DEFINE p == First(s)
           rest == s \ {p, y}
<1>3. IsFiniteSet(s) /\ p \in s
  BY <1>1, <1>2, FS_Subset, FirstIn
<1>4. Sum(s) = f[p] + Sum(s \ {p})
  BY <1>2, <1>3, SumStep
<1>5. p # y
  BY <1>2, <1>4
<1>6. Sum(s \ {p}) = f[y] + Sum(rest)
  <2>1. s \ {p} \in SUBSET s /\ s \ {p} # s /\ y \in s \ {p}
    BY <1>2, <1>3, <1>5
  <2>2. (s \ {p}) \ {y} = rest
    OBVIOUS
  <2>3. s \ {p} \in SUBSET S /\ s \ {p} \notin B
    BY <2>1, <1>1
  <2> HIDE DEF p, rest
  <2> QED BY <2>1, <2>2, <2>3
<1>7. Sum(s \ {y}) = f[p] + Sum(rest)
  <2>1. s \ {y} \in SUBSET s /\ s \ {y} # s /\ p \in s \ {y}
    BY <1>2, <1>3, <1>5
  <2>2. (s \ {y}) \ {p} = rest
    OBVIOUS
  <2>3. s \ {y} \in SUBSET S /\ s \ {y} \notin B
    BY <2>1, <1>1
  <2> HIDE DEF p, rest
  <2> QED BY <2>1, <2>2, <2>3
<1>8. f[p] \in Int /\ f[y] \in Int /\ Sum(rest) \in Int
  <2>1. rest \in SUBSET S /\ IsFiniteSet(rest)
    BY <1>1, FS_Subset
  <2> HIDE DEF rest
  <2> QED BY <2>1, <1>1, <1>2, <1>3, SumType
<1> HIDE DEF p, rest, Sum
<1> QED BY <1>2, <1>4, <1>6, <1>7, <1>8

LEMMA SumAdd ==
  ASSUME NEW f, NEW S, IsFiniteSet(S), NEW x, x \notin S, \A y \in S \cup {x} : f[y] \in Int
  PROVE  SumFunctionOnSet(f, S \cup {x}) = f[x] + SumFunctionOnSet(f, S)
<1> DEFINE T == S \cup {x}
<1>1. IsFiniteSet(T) /\ x \in T /\ T \ {x} = S /\ \A y \in T : f[y] \in Int
  BY FS_AddElement
<1> HIDE DEF T
<1>2. SumFunctionOnSet(f, T) = f[x] + SumFunctionOnSet(f, S)
  BY <1>1, SumRemove
<1> QED BY <1>2 DEF T

LEMMA SumAgrees ==
  ASSUME NEW f, NEW g, NEW S, IsFiniteSet(S), \A x \in S : f[x] = g[x]
  PROVE  SumFunctionOnSet(f, S) = SumFunctionOnSet(g, S)
<1> DEFINE B == {s \in SUBSET S : SumFunctionOnSet(f, s) # SumFunctionOnSet(g, s)}
<1> SUFFICES ASSUME B # {} PROVE FALSE
  OBVIOUS
<1>1. PICK s \in B : \A t \in SUBSET s : t # s => t \notin B
  <2> HIDE DEF B
  <2>1. B \subseteq SUBSET S
    BY DEF B
  <2> QED BY <2>1, SmallestSet
<1>2. IsFiniteSet(s) /\ s \subseteq S
  BY <1>1, FS_Subset
<1>3. s # {}
  BY <1>1, <1>2, SumStep
<1>4. First(s) \in s /\ f[First(s)] = g[First(s)]
  BY <1>2, <1>3, FirstIn
<1>5. SumFunctionOnSet(f, s \ {First(s)}) = SumFunctionOnSet(g, s \ {First(s)})
  BY <1>1, <1>4
<1>6. /\ SumFunctionOnSet(f, s) = f[First(s)] + SumFunctionOnSet(f, s \ {First(s)})
      /\ SumFunctionOnSet(g, s) = g[First(s)] + SumFunctionOnSet(g, s \ {First(s)})
  BY <1>2, <1>3, SumStep
<1> QED BY <1>1, <1>4, <1>5, <1>6

\* Fewer addends, or smaller ones, sum up to less.
LEMMA SumMonotonic ==
  ASSUME NEW f, NEW g, NEW S, IsFiniteSet(S), NEW T \in SUBSET S,
         \A x \in S : f[x] \in Nat /\ g[x] \in Nat, \A x \in T : f[x] <= g[x]
  PROVE  SumFunctionOnSet(f, T) <= SumFunctionOnSet(g, S)
<1> DEFINE F(s) == SumFunctionOnSet(f, T \cap s)
           G(s) == SumFunctionOnSet(g, s)
           B == {s \in SUBSET S : ~(F(s) <= G(s))}
<1>1. B = {}
  <2> SUFFICES ASSUME B # {} PROVE FALSE
    OBVIOUS
  <2>1. PICK s \in B : \A t \in SUBSET s : t # s => t \notin B
    <3> HIDE DEF B
    <3>1. B \subseteq SUBSET S
      BY DEF B
    <3> QED BY <3>1, SmallestSet
  <2>2. IsFiniteSet(s) /\ s \subseteq S /\ IsFiniteSet(T \cap s)
    BY <2>1, FS_Subset
  <2>3. s # {}
    <3>1. F({}) = 0 /\ G({}) = 0
      <4>1. T \cap {} = {}
        OBVIOUS
      <4> QED BY <4>1, SumEmpty
    <3>2. s = {} => F(s) = 0 /\ G(s) = 0
      BY <3>1
    <3> QED BY <2>1, <3>2
  <2>4. PICK x \in s : TRUE
    BY <2>3
  <2>5. /\ F(s \ {x}) <= G(s \ {x})
    BY <2>1, <2>4
  <2>6. G(s) = g[x] + G(s \ {x})
    BY <2>2, <2>4, SumRemove
  <2>7. F(s) = (IF x \in T THEN f[x] ELSE 0) + F(s \ {x})
    <3>1. CASE x \in T
      <4>1. (T \cap s) \ {x} = T \cap (s \ {x}) /\ x \in T \cap s
        BY <2>4, <3>1
      <4>2. SumFunctionOnSet(f, T \cap s) = f[x] + SumFunctionOnSet(f, (T \cap s) \ {x})
        BY <4>1, <2>2, SumRemove
      <4> QED BY <3>1, <4>1, <4>2
    <3>2. CASE x \notin T
      <4>1. T \cap s = T \cap (s \ {x})
        BY <3>2
      <4>2. F(s) \in Nat
        BY <2>2, SumType
      <4> QED BY <3>2, <4>1, <4>2
    <3> QED BY <3>1, <3>2
  <2>8. /\ F(s \ {x}) \in Nat /\ G(s \ {x}) \in Nat /\ f[x] \in Nat /\ g[x] \in Nat
        /\ x \in T => f[x] <= g[x]
    <3>1. /\ IsFiniteSet(T \cap (s \ {x})) /\ IsFiniteSet(s \ {x})
          /\ \A y \in s \ {x} : f[y] \in Nat /\ g[y] \in Nat
      BY <2>2, FS_Subset
    <3> QED BY <2>2, <2>4, <3>1, SumType
  <2>9. F(s) <= G(s)
    <3> HIDE DEF F, G
    <3> QED BY <2>5, <2>6, <2>7, <2>8
  <2> QED BY <2>1, <2>9
<1>2. T \cap S = T
  OBVIOUS
<1> QED BY <1>1, <1>2

\* One addend more or less, where the others stay.
LEMMA SumChange ==
  ASSUME NEW f, NEW g, NEW S, NEW T, IsFiniteSet(S), IsFiniteSet(T), NEW x,
         S \ {x} = T \ {x}, \A y \in S : f[y] \in Int, \A y \in T : g[y] \in Int,
         \A y \in S \ {x} : f[y] = g[y]
  PROVE  SumFunctionOnSet(g, T) - (IF x \in T THEN g[x] ELSE 0)
           = SumFunctionOnSet(f, S) - (IF x \in S THEN f[x] ELSE 0)
<1> DEFINE U == S \ {x}
<1>1. IsFiniteSet(U) /\ U = T \ {x} /\ U \subseteq S /\ U \subseteq T
  BY FS_Subset
<1>2. SumFunctionOnSet(f, U) = SumFunctionOnSet(g, U) /\ SumFunctionOnSet(f, U) \in Int
  <2>1. \A y \in U : f[y] = g[y] /\ f[y] \in Int
    BY <1>1
  <2> HIDE DEF U
  <2> QED BY <1>1, <2>1, SumAgrees, SumType
<1>3. SumFunctionOnSet(f, S) - (IF x \in S THEN f[x] ELSE 0) = SumFunctionOnSet(f, U)
  <2>1. CASE x \in S
    BY <1>2, <2>1, SumRemove
  <2>2. CASE x \notin S
    <3>1. S = U
      BY <2>2
    <3> QED BY <1>2, <2>2, <3>1
  <2> QED BY <2>1, <2>2
<1>4. SumFunctionOnSet(g, T) - (IF x \in T THEN g[x] ELSE 0) = SumFunctionOnSet(g, U)
  <2>1. CASE x \in T
    <3>1. SumFunctionOnSet(g, T) = g[x] + SumFunctionOnSet(g, T \ {x})
      BY <2>1, SumRemove
    <3> QED BY <1>1, <1>2, <2>1, <3>1
  <2>2. CASE x \notin T
    <3>1. T = U
      BY <1>1, <2>2
    <3> QED BY <1>2, <2>2, <3>1
  <2> QED BY <2>1, <2>2
<1> QED BY <1>2, <1>3, <1>4
=================================================================================
