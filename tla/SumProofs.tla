----------------------------- MODULE SumProofs -----------------------------
(***************************************************************************)
(* Sums over finite sets: the facts about SumFunctionOnSet that the proofs *)
(* of the byte counts need.  A sum is a fold, and a fold is defined by a   *)
(* recursive function; each induction here is the choice of a smallest set *)
(* for which a fact fails.                                                 *)
(***************************************************************************)
EXTENDS Integers, FiniteSets, Functions, FiniteSetTheorems, WellFoundedInduction, TLAPS

(* Every nonempty family of finite sets has a member with no smaller one.  *)
LEMMA SmallestSet ==
    ASSUME NEW S, IsFiniteSet(S), NEW Bad \in SUBSET (SUBSET S), Bad # {}
    PROVE  \E s \in Bad : \A t \in SUBSET s : t # s => t \notin Bad
  <1>1. IsWellFoundedOn(StrictSubsetOrdering(S), FiniteSubsetsOf(S))
    BY FS_StrictSubsetOrderingWellFounded
  <1>2. FiniteSubsetsOf(S) = SUBSET S
    BY FS_FiniteSubsetsOfFinite
  <1>3. PICK s \in Bad : \A t \in Bad : ~(<<t, s>> \in StrictSubsetOrdering(S))
    BY <1>1, <1>2, WFMin
  <1>4. ASSUME NEW t \in SUBSET s, t # s
        PROVE  t \notin Bad
    <2>1. <<t, s>> \in StrictSubsetOrdering(S)
      BY <1>4 DEF StrictSubsetOrdering
    <2> QED BY <1>3, <2>1
  <1> QED BY <1>4

(* The same for the numbers up to N.                                       *)
LEMMA SmallestNumber ==
    ASSUME NEW N \in Nat, NEW Bad \in SUBSET (0 .. N), Bad # {}
    PROVE  \E n \in Bad : \A m \in 0 .. n - 1 : m \notin Bad
  <1> DEFINE Upto == {0 .. n : n \in Bad}
  <1>1. Upto \in SUBSET (SUBSET (0 .. N)) /\ Upto # {} /\ IsFiniteSet(0 .. N)
    <2>1. \A n \in Bad : 0 .. n \in SUBSET (0 .. N)
      OBVIOUS
    <2>2. IsFiniteSet(0 .. N)
      BY FS_Interval
    <2> QED BY <2>1, <2>2
  <1>2. PICK s \in Upto : \A t \in SUBSET s : t # s => t \notin Upto
    <2> HIDE DEF Upto
    <2> QED BY <1>1, SmallestSet
  <1>3. PICK n \in Bad : s = 0 .. n
    BY <1>2
  <1>4. ASSUME NEW m \in 0 .. n - 1, m \in Bad
        PROVE  FALSE
    <2>1. 0 .. m \in SUBSET s /\ 0 .. m # s /\ 0 .. m \in Upto
      BY <1>3, <1>4
    <2> QED BY <1>2, <2>1
  <1> QED BY <1>4

-----------------------------------------------------------------------------
(* The fold behind the sum.                                                *)
FoldFirst(s) == CHOOSE x \in s : TRUE
FoldStep(f, g, s) == IF s = {} THEN 0 ELSE f[FoldFirst(s)] + g[s \ {FoldFirst(s)}]
Iterates(f, S, g) == g = [s \in SUBSET S |-> FoldStep(f, g, s)]
SumFold(f, S) == CHOOSE g : Iterates(f, S, g)

LEMMA SumIsFold == ASSUME NEW f, NEW S PROVE SumFunctionOnSet(f, S) = SumFold(f, S)[S]
  BY DEF SumFunctionOnSet, FoldFunctionOnSet, MapThenFoldSet, SumFold, Iterates, FoldStep, FoldFirst

LEMMA FirstIn == ASSUME NEW s, s # {} PROVE FoldFirst(s) \in s
  BY DEF FoldFirst

(* There is at most one.                                                   *)
LEMMA FoldUnique ==
    ASSUME NEW f, NEW S, IsFiniteSet(S), NEW g, NEW h, Iterates(f, S, g), Iterates(f, S, h)
    PROVE  g = h
  <1> DEFINE Bad == {s \in SUBSET S : g[s] # h[s]}
  <1>1. SUFFICES Bad = {}
    BY <1>1 DEF Iterates
  <1>2. SUFFICES ASSUME Bad # {} PROVE FALSE
    OBVIOUS
  <1>b. Bad \in SUBSET (SUBSET S)
    OBVIOUS
  <1>3. PICK s \in Bad : \A t \in SUBSET s : t # s => t \notin Bad
    <2> HIDE DEF Bad
    <2> QED BY <1>b, <1>2, SmallestSet
  <1>4. g[s] = FoldStep(f, g, s) /\ h[s] = FoldStep(f, h, s)
    BY DEF Iterates
  <1>5. CASE s = {}
    BY <1>3, <1>4, <1>5 DEF FoldStep
  <1>6. CASE s # {}
    <2>1. g[s \ {FoldFirst(s)}] = h[s \ {FoldFirst(s)}]
      BY <1>3, <1>6, FirstIn
    <2> QED BY <1>3, <1>4, <1>6, <2>1 DEF FoldStep
  <1> QED BY <1>5, <1>6

(* A fold of a set contains the folds of its subsets.                      *)
LEMMA FoldRestricted ==
    ASSUME NEW f, NEW S, IsFiniteSet(S), NEW g, Iterates(f, S, g), NEW s \in SUBSET S
    PROVE  Iterates(f, s, SumFold(f, s)) /\ g[s] = SumFunctionOnSet(f, s)
  <1> DEFINE h == [t \in SUBSET s |-> g[t]]
  <1>1. Iterates(f, s, h)
    <2>1. ASSUME NEW t \in SUBSET s
          PROVE  g[t] = FoldStep(f, h, t)
      <3>1. g[t] = FoldStep(f, g, t)
        BY DEF Iterates
      <3>2. t # {} => h[t \ {FoldFirst(t)}] = g[t \ {FoldFirst(t)}]
        OBVIOUS
      <3> QED BY <3>1, <3>2 DEF FoldStep
    <2> QED BY <2>1 DEF Iterates
  <1>2. Iterates(f, s, SumFold(f, s))
    BY <1>1 DEF SumFold
  <1>3. IsFiniteSet(s)
    BY FS_Subset
  <1>4. h = SumFold(f, s)
    BY <1>1, <1>2, <1>3, FoldUnique
  <1> QED BY <1>2, <1>4, SumIsFold

(* There is one.                                                           *)
LEMMA FoldExists ==
    ASSUME NEW f, NEW S, IsFiniteSet(S)
    PROVE  Iterates(f, S, SumFold(f, S))
  <1> DEFINE Bad == {s \in SUBSET S : ~Iterates(f, s, SumFold(f, s))}
  <1>1. SUFFICES ASSUME Bad # {} PROVE FALSE
    OBVIOUS
  <1>b. Bad \in SUBSET (SUBSET S)
    OBVIOUS
  <1>2. PICK s \in Bad : \A t \in SUBSET s : t # s => t \notin Bad
    <2> HIDE DEF Bad
    <2> QED BY <1>b, <1>1, SmallestSet
  <1>3. IsFiniteSet(s)
    BY FS_Subset
  <1> DEFINE g == [t \in SUBSET s |->
                      IF t = {} THEN 0
                      ELSE f[FoldFirst(t)] + SumFunctionOnSet(f, t \ {FoldFirst(t)})]
  <1>4. ASSUME NEW t \in SUBSET s
        PROVE  g[t] = FoldStep(f, g, t)
    <2>1. CASE t = {}
      BY <2>1 DEF FoldStep
    <2>2. CASE t # {}
      <3> DEFINE u == t \ {FoldFirst(t)}
      <3>1. u \in SUBSET s /\ u # s /\ u \in SUBSET S /\ IsFiniteSet(u)
        BY <1>3, <2>2, FirstIn, FS_Subset
      <3>2. Iterates(f, u, SumFold(f, u))
        BY <1>2, <3>1
      <3>3. SumFunctionOnSet(f, u) = FoldStep(f, SumFold(f, u), u)
        BY <3>2, SumIsFold DEF Iterates
      <3>4. g[u] = SumFunctionOnSet(f, u)
        <4>1. CASE u = {}
          BY <3>1, <3>3, <4>1 DEF FoldStep
        <4>2. CASE u # {}
          <5>1. SumFold(f, u)[u \ {FoldFirst(u)}] = SumFunctionOnSet(f, u \ {FoldFirst(u)})
            BY <3>1, <3>2, FoldRestricted
          <5> QED BY <3>1, <3>3, <4>2, <5>1 DEF FoldStep
        <4> QED BY <4>1, <4>2
      <3>5. g[t] = f[FoldFirst(t)] + SumFunctionOnSet(f, u)
        BY <2>2
      <3> HIDE DEF g, u
      <3>6. g[t] = f[FoldFirst(t)] + g[u]
        BY <3>4, <3>5
      <3> QED BY <2>2, <3>6 DEF FoldStep, u
    <2> QED BY <2>1, <2>2
  <1>5. Iterates(f, s, g)
    BY <1>4 DEF Iterates
  <1>6. Iterates(f, s, SumFold(f, s))
    BY <1>5 DEF SumFold
  <1> QED BY <1>2, <1>6

-----------------------------------------------------------------------------
(* What the sum is, from its first element.                                *)
LEMMA SumEmpty == ASSUME NEW f PROVE SumFunctionOnSet(f, {}) = 0
  <1>1. Iterates(f, {}, SumFold(f, {}))
    BY FoldExists, FS_EmptySet
  <1> QED BY <1>1, SumIsFold DEF Iterates, FoldStep

LEMMA SumFirst ==
    ASSUME NEW f, NEW S, IsFiniteSet(S), S # {}
    PROVE  SumFunctionOnSet(f, S) = f[FoldFirst(S)] + SumFunctionOnSet(f, S \ {FoldFirst(S)})
  <1>1. Iterates(f, S, SumFold(f, S))
    BY FoldExists
  <1>2. SumFunctionOnSet(f, S) = FoldStep(f, SumFold(f, S), S)
    BY <1>1, SumIsFold DEF Iterates
  <1>3. SumFold(f, S)[S \ {FoldFirst(S)}] = SumFunctionOnSet(f, S \ {FoldFirst(S)})
    <2>1. S \ {FoldFirst(S)} \in SUBSET S
      OBVIOUS
    <2> QED BY <1>1, <2>1, FoldRestricted
  <1> QED BY <1>2, <1>3 DEF FoldStep

LEMMA SumInt ==
    ASSUME NEW f, NEW S, IsFiniteSet(S), \A x \in S : f[x] \in Int
    PROVE  SumFunctionOnSet(f, S) \in Int
  <1> DEFINE Bad == {s \in SUBSET S : SumFunctionOnSet(f, s) \notin Int}
  <1>1. SUFFICES ASSUME Bad # {} PROVE FALSE
    OBVIOUS
  <1>2. Bad \in SUBSET (SUBSET S)
    OBVIOUS
  <1>3. PICK s \in Bad : \A t \in SUBSET s : t # s => t \notin Bad
    <2> HIDE DEF Bad
    <2> QED BY <1>1, <1>2, SmallestSet
  <1>4. s # {}
    <2>1. SumFunctionOnSet(f, {}) = 0
      BY SumEmpty
    <2>2. SumFunctionOnSet(f, s) \notin Int
      BY <1>3
    <2> HIDE DEF Bad
    <2> QED BY <2>1, <2>2
  <1>5. FoldFirst(s) \in s /\ IsFiniteSet(s)
    BY <1>4, FirstIn, FS_Subset
  <1>6. SumFunctionOnSet(f, s) = f[FoldFirst(s)] + SumFunctionOnSet(f, s \ {FoldFirst(s)})
    BY <1>4, <1>5, SumFirst
  <1>7. SumFunctionOnSet(f, s \ {FoldFirst(s)}) \in Int
    BY <1>3, <1>5
  <1> QED BY <1>3, <1>5, <1>6, <1>7

(* Any element may be taken out.                                           *)
LEMMA SumRemove ==
    ASSUME NEW f, NEW S, IsFiniteSet(S), \A y \in S : f[y] \in Int, NEW x \in S
    PROVE  SumFunctionOnSet(f, S) = f[x] + SumFunctionOnSet(f, S \ {x})
  <1> DEFINE Sum(s) == SumFunctionOnSet(f, s)
             Bad    == {s \in SUBSET S : \E y \in s : Sum(s) # f[y] + Sum(s \ {y})}
  <1>1. SUFFICES ASSUME Bad # {} PROVE FALSE
    OBVIOUS
  <1>2. Bad \in SUBSET (SUBSET S)
    OBVIOUS
  <1>3. PICK s \in Bad : \A t \in SUBSET s : t # s => t \notin Bad
    <2> HIDE DEF Bad
    <2> QED BY <1>1, <1>2, SmallestSet
  <1>4. PICK y \in s : Sum(s) # f[y] + Sum(s \ {y})
    BY <1>3
  <1> DEFINE z == FoldFirst(s)
             r == (s \ {z}) \ {y}
  <1>5. /\ z \in s /\ IsFiniteSet(s) /\ IsFiniteSet(r)
        /\ s \ {z} \in SUBSET S /\ s \ {y} \in SUBSET S
    BY <1>3, <1>4, FirstIn, FS_Subset
  <1>6. Sum(s) = f[z] + Sum(s \ {z})
    BY <1>4, <1>5, SumFirst
  <1>7. z # y
    BY <1>4, <1>6
  <1> HIDE DEF z
  <1>8. Sum(s \ {z}) = f[y] + Sum(r)
    BY <1>3, <1>4, <1>5, <1>7
  <1>9. Sum(s \ {y}) = f[z] + Sum(r)
    <2>1. (s \ {y}) \ {z} = r
      OBVIOUS
    <2>2. Sum(s \ {y}) = f[z] + Sum((s \ {y}) \ {z})
      BY <1>3, <1>4, <1>5, <1>7
    <2> QED BY <2>1, <2>2
  <1>10. Sum(r) \in Int /\ f[z] \in Int /\ f[y] \in Int
    BY <1>5, SumInt
  <1> HIDE DEF Sum, r
  <1> QED BY <1>4, <1>6, <1>8, <1>9, <1>10

LEMMA SumAdd ==
    ASSUME NEW f, NEW S, IsFiniteSet(S), NEW x, x \notin S, \A y \in S \cup {x} : f[y] \in Int
    PROVE  SumFunctionOnSet(f, S \cup {x}) = f[x] + SumFunctionOnSet(f, S)
  <1>1. IsFiniteSet(S \cup {x}) /\ (S \cup {x}) \ {x} = S
    BY FS_AddElement
  <1> QED BY <1>1, SumRemove

(* Only the elements of the set matter.                                    *)
LEMMA SumSame ==
    ASSUME NEW f, NEW g, NEW S, IsFiniteSet(S), \A x \in S : f[x] = g[x]
    PROVE  SumFunctionOnSet(f, S) = SumFunctionOnSet(g, S)
  <1> DEFINE Bad == {s \in SUBSET S : SumFunctionOnSet(f, s) # SumFunctionOnSet(g, s)}
  <1>1. SUFFICES ASSUME Bad # {} PROVE FALSE
    OBVIOUS
  <1>2. Bad \in SUBSET (SUBSET S)
    OBVIOUS
  <1>3. PICK s \in Bad : \A t \in SUBSET s : t # s => t \notin Bad
    <2> HIDE DEF Bad
    <2> QED BY <1>1, <1>2, SmallestSet
  <1>4. s # {}
    BY <1>3, SumEmpty
  <1>5. FoldFirst(s) \in s /\ IsFiniteSet(s)
    BY <1>4, FirstIn, FS_Subset
  <1>6. /\ SumFunctionOnSet(f, s) = f[FoldFirst(s)] + SumFunctionOnSet(f, s \ {FoldFirst(s)})
        /\ SumFunctionOnSet(g, s) = g[FoldFirst(s)] + SumFunctionOnSet(g, s \ {FoldFirst(s)})
    BY <1>4, <1>5, SumFirst
  <1>7. SumFunctionOnSet(f, s \ {FoldFirst(s)}) = SumFunctionOnSet(g, s \ {FoldFirst(s)})
    BY <1>3, <1>5
  <1> QED BY <1>3, <1>5, <1>6, <1>7

(* One term changes.                                                       *)
LEMMA SumChange ==
    ASSUME NEW f, NEW g, NEW S, IsFiniteSet(S), NEW x \in S,
           \A y \in S : f[y] \in Int, g[x] \in Int, \A y \in S \ {x} : g[y] = f[y]
    PROVE  SumFunctionOnSet(g, S) = SumFunctionOnSet(f, S) - f[x] + g[x]
  <1>1. IsFiniteSet(S \ {x}) /\ \A y \in S : g[y] \in Int
    BY FS_RemoveElement
  <1>2. SumFunctionOnSet(g, S) = g[x] + SumFunctionOnSet(g, S \ {x})
    BY <1>1, SumRemove
  <1>3. SumFunctionOnSet(f, S) = f[x] + SumFunctionOnSet(f, S \ {x})
    BY SumRemove
  <1>4. SumFunctionOnSet(g, S \ {x}) = SumFunctionOnSet(f, S \ {x})
    BY <1>1, SumSame
  <1>5. SumFunctionOnSet(f, S \ {x}) \in Int
    BY <1>1, SumInt
  <1> QED BY <1>2, <1>3, <1>4, <1>5

(* A sum is monotone in its terms.                                         *)
LEMMA SumLess ==
    ASSUME NEW f, NEW g, NEW S, IsFiniteSet(S),
           \A x \in S : f[x] \in Int /\ g[x] \in Int /\ f[x] <= g[x]
    PROVE  SumFunctionOnSet(f, S) <= SumFunctionOnSet(g, S)
  <1> DEFINE Bad == {s \in SUBSET S : ~(SumFunctionOnSet(f, s) <= SumFunctionOnSet(g, s))}
  <1>1. SUFFICES ASSUME Bad # {} PROVE FALSE
    OBVIOUS
  <1>2. Bad \in SUBSET (SUBSET S)
    OBVIOUS
  <1>3. PICK s \in Bad : \A t \in SUBSET s : t # s => t \notin Bad
    <2> HIDE DEF Bad
    <2> QED BY <1>1, <1>2, SmallestSet
  <1>4. s # {}
    <2>1. SumFunctionOnSet(f, {}) = 0 /\ SumFunctionOnSet(g, {}) = 0
      BY SumEmpty
    <2>2. ~(SumFunctionOnSet(f, s) <= SumFunctionOnSet(g, s))
      BY <1>3
    <2> HIDE DEF Bad
    <2> QED BY <2>1, <2>2
  <1>5. FoldFirst(s) \in s /\ IsFiniteSet(s) /\ IsFiniteSet(s \ {FoldFirst(s)})
    BY <1>4, FirstIn, FS_Subset
  <1>6. /\ SumFunctionOnSet(f, s) = f[FoldFirst(s)] + SumFunctionOnSet(f, s \ {FoldFirst(s)})
        /\ SumFunctionOnSet(g, s) = g[FoldFirst(s)] + SumFunctionOnSet(g, s \ {FoldFirst(s)})
    BY <1>4, <1>5, SumFirst
  <1>7. SumFunctionOnSet(f, s \ {FoldFirst(s)}) <= SumFunctionOnSet(g, s \ {FoldFirst(s)})
    BY <1>3, <1>5
  <1>8. /\ SumFunctionOnSet(f, s \ {FoldFirst(s)}) \in Int
        /\ SumFunctionOnSet(g, s \ {FoldFirst(s)}) \in Int
    BY <1>3, <1>5, SumInt
  <1> QED BY <1>3, <1>5, <1>6, <1>7, <1>8

(* A sum splits at any subset.                                             *)
LEMMA SumSplit ==
    ASSUME NEW f, NEW S, IsFiniteSet(S), \A x \in S : f[x] \in Int, NEW T \in SUBSET S
    PROVE  SumFunctionOnSet(f, S) = SumFunctionOnSet(f, T) + SumFunctionOnSet(f, S \ T)
  <1> DEFINE Sum(s) == SumFunctionOnSet(f, s)
             Bad    == {s \in SUBSET T : Sum(S) # Sum(s) + Sum(S \ s)}
  <1>1. SUFFICES ASSUME Bad # {} PROVE FALSE
    OBVIOUS
  <1>2. Bad \in SUBSET (SUBSET T) /\ IsFiniteSet(T)
    BY FS_Subset
  <1>3. PICK s \in Bad : \A t \in SUBSET s : t # s => t \notin Bad
    <2> HIDE DEF Bad
    <2> QED BY <1>1, <1>2, SmallestSet
  <1>4. s # {}
    <2>1. S \ {} = S /\ Sum({}) = 0 /\ Sum(S) \in Int
      BY SumEmpty, SumInt
    <2>2. Sum(S) # Sum(s) + Sum(S \ s)
      BY <1>3
    <2> HIDE DEF Bad, Sum
    <2> QED BY <2>1, <2>2
  <1>5. PICK x \in s : TRUE
    BY <1>4
  <1>6. IsFiniteSet(s) /\ IsFiniteSet(s \ {x}) /\ IsFiniteSet(S \ s) /\ IsFiniteSet(S \ (s \ {x}))
    BY <1>3, FS_Subset
  <1>7. Sum(S) = Sum(s \ {x}) + Sum(S \ (s \ {x}))
    BY <1>3, <1>5
  <1>8. Sum(s) = f[x] + Sum(s \ {x})
    BY <1>3, <1>5, <1>6, SumRemove
  <1>9. Sum(S \ (s \ {x})) = f[x] + Sum(S \ s)
    <2>1. (S \ (s \ {x})) \ {x} = S \ s /\ x \in S \ (s \ {x})
      BY <1>3, <1>5
    <2> QED BY <1>6, <2>1, SumRemove
  <1>10. Sum(s \ {x}) \in Int /\ Sum(S \ s) \in Int /\ f[x] \in Int
    BY <1>3, <1>5, <1>6, SumInt
  <1> HIDE DEF Sum
  <1> QED BY <1>3, <1>7, <1>8, <1>9, <1>10

(* No terms but zeros.                                                     *)
LEMMA SumZero ==
    ASSUME NEW f, NEW S, IsFiniteSet(S), \A x \in S : f[x] = 0
    PROVE  SumFunctionOnSet(f, S) = 0
  <1> DEFINE Bad == {s \in SUBSET S : SumFunctionOnSet(f, s) # 0}
  <1>1. SUFFICES ASSUME Bad # {} PROVE FALSE
    OBVIOUS
  <1>2. Bad \in SUBSET (SUBSET S)
    OBVIOUS
  <1>3. PICK s \in Bad : \A t \in SUBSET s : t # s => t \notin Bad
    <2> HIDE DEF Bad
    <2> QED BY <1>1, <1>2, SmallestSet
  <1>4. s # {}
    BY <1>3, SumEmpty
  <1>5. FoldFirst(s) \in s /\ IsFiniteSet(s)
    BY <1>4, FirstIn, FS_Subset
  <1>6. SumFunctionOnSet(f, s) = f[FoldFirst(s)] + SumFunctionOnSet(f, s \ {FoldFirst(s)})
    BY <1>4, <1>5, SumFirst
  <1>7. SumFunctionOnSet(f, s \ {FoldFirst(s)}) = 0 /\ f[FoldFirst(s)] = 0
    BY <1>3, <1>5
  <1> QED BY <1>3, <1>6, <1>7

LEMMA SumNat ==
    ASSUME NEW f, NEW S, IsFiniteSet(S), \A x \in S : f[x] \in Nat
    PROVE  SumFunctionOnSet(f, S) \in Nat
  <1> DEFINE zero == [x \in S |-> 0]
  <1>1. SumFunctionOnSet(zero, S) = 0
    BY SumZero
  <1>2. SumFunctionOnSet(zero, S) <= SumFunctionOnSet(f, S)
    <2>1. \A x \in S : zero[x] \in Int /\ f[x] \in Int /\ zero[x] <= f[x]
      OBVIOUS
    <2> HIDE DEF zero
    <2> QED BY <2>1, SumLess
  <1>3. SumFunctionOnSet(f, S) \in Int
    BY SumInt
  <1> QED BY <1>1, <1>2, <1>3

(* A part of a sum of naturals is no more than the whole.                  *)
LEMMA SumPart ==
    ASSUME NEW f, NEW S, IsFiniteSet(S), \A x \in S : f[x] \in Nat, NEW T \in SUBSET S
    PROVE  SumFunctionOnSet(f, T) <= SumFunctionOnSet(f, S)
  <1>1. IsFiniteSet(T) /\ IsFiniteSet(S \ T)
    BY FS_Subset
  <1>2. SumFunctionOnSet(f, T) \in Nat /\ SumFunctionOnSet(f, S \ T) \in Nat
    BY <1>1, SumNat
  <1>3. SumFunctionOnSet(f, S) = SumFunctionOnSet(f, T) + SumFunctionOnSet(f, S \ T)
    BY SumSplit
  <1> QED BY <1>2, <1>3
=============================================================================
