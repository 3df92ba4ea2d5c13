------------------------------ MODULE SumLemmas ------------------------------
(***************************************************************************)
(* Sums over finite sets: what SumFunctionOnSet of the community modules   *)
(* computes, for any finite set.  The quantities the models compare (the   *)
(* lines of a document, the movements of an item, the payments of a        *)
(* purchase) are such sums.                                                *)
(*                                                                         *)
(* SumFunctionOnSet is a fold, defined by CHOOSE of a function g on the    *)
(* subsets of S in which every value is an element plus the value of what  *)
(* is left.  That such a g exists, and that those of two sets agree, is    *)
(* proved by a smallest counterexample: the nonempty set of subsets at     *)
(* which a fact fails has a member none of whose proper subsets fails      *)
(* (proper inclusion is well-founded on finite sets).  The later lemmas    *)
(* need no more than the unfolding that follows.                           *)
(***************************************************************************)
EXTENDS FiniteSetsExt, FiniteSetTheorems, WellFoundedInduction, TLAPS

------------------------------------------------------------------------------
(* The fold behind SumFunctionOnSet *)

\* The element a fold over s takes first.
Chosen(s) == CHOOSE x \in s : TRUE

\* The sum of f over s, if g has the sums over its proper subsets.
SumStep(f, g, s) == IF s = {} THEN 0 ELSE f[Chosen(s)] + g[s \ {Chosen(s)}]

\* g has the sum of f over every subset of S.
IsSum(f, S, g) == g = [s \in SUBSET S |-> SumStep(f, g, s)]

\* It is an element, if there is one.
LEMMA ChosenIn == \A s : s # {} => Chosen(s) \in s
  BY DEF Chosen

\* The definition of the library, in these terms.
LEMMA SumIs == \A f, S : SumFunctionOnSet(f, S) = (CHOOSE g : IsSum(f, S, g))[S]
  BY DEF SumFunctionOnSet, FoldFunctionOnSet, MapThenFoldSet, IsSum, SumStep, Chosen

\* A nonempty set of subsets of a finite set has a smallest member.
LEMMA SmallestSubset ==
  ASSUME NEW S, IsFiniteSet(S), NEW B, B \subseteq SUBSET S, B # {}
  PROVE  \E s \in B : \A t \in SUBSET s : t # s => t \notin B
<1>1. IsWellFoundedOn(StrictSubsetOrdering(S), FiniteSubsetsOf(S))
  BY FS_StrictSubsetOrderingWellFounded
<1>2. FiniteSubsetsOf(S) = SUBSET S
  BY FS_FiniteSubsetsOfFinite
<1>3. PICK s \in B : \A t \in B : <<t, s>> \notin StrictSubsetOrdering(S)
  BY <1>1, <1>2, WFMin
<1>4. ASSUME NEW t \in SUBSET s, t # s PROVE t \notin B
  <2>1. s \in SUBSET S /\ t \in SUBSET S  OBVIOUS
  <2>2. <<t, s>> \in StrictSubsetOrdering(S)  BY <1>4, <2>1 DEF StrictSubsetOrdering
  <2> QED  BY <1>3, <2>2
<1> QED  BY <1>4

\* There is one sum over a set, whatever larger set it is computed in.
LEMMA SumsAgree ==
  ASSUME NEW f, NEW S, IsFiniteSet(S), NEW T \in SUBSET S, NEW g, NEW h,
         IsSum(f, S, g), IsSum(f, T, h)
  PROVE  \A s \in SUBSET T : g[s] = h[s]
<1> DEFINE B == {s \in SUBSET T : g[s] # h[s]}
<1>1. SUFFICES ASSUME B # {} PROVE FALSE
  OBVIOUS
<1>2. PICK s \in B : \A t \in SUBSET s : t # s => t \notin B
  <2>1. IsFiniteSet(T) /\ B \subseteq SUBSET T  BY FS_Subset
  <2> HIDE DEF B
  <2> QED  BY <1>1, <2>1, SmallestSubset
<1>3. g[s] = SumStep(f, g, s) /\ h[s] = SumStep(f, h, s)
  BY <1>2 DEF IsSum
<1>4. CASE s = {}
  BY <1>2, <1>3, <1>4 DEF SumStep
<1>5. CASE s # {}
  <2>1. Chosen(s) \in s  BY <1>5, ChosenIn
  <2>2. g[s \ {Chosen(s)}] = h[s \ {Chosen(s)}]
    BY <2>1, <1>2
  <2> QED  BY <1>2, <1>3, <1>5, <2>2 DEF SumStep
<1> QED  BY <1>4, <1>5

\* ... and there is one.
LEMMA SumsExist ==
  ASSUME NEW f, NEW S, IsFiniteSet(S)
  PROVE  \E g : IsSum(f, S, g)
<1> DEFINE B == {s \in SUBSET S : ~\E g : IsSum(f, s, g)}
<1>1. SUFFICES ASSUME B # {} PROVE FALSE
  OBVIOUS
<1>2. PICK s \in B : \A t \in SUBSET s : t # s => t \notin B
  <2>1. B \subseteq SUBSET S  OBVIOUS
  <2> HIDE DEF B
  <2> QED  BY <1>1, <2>1, SmallestSubset
<1>3. \A t \in SUBSET s : t # s => IsSum(f, t, CHOOSE g : IsSum(f, t, g))
  BY <1>2
<1> DEFINE Of(t) == CHOOSE g : IsSum(f, t, g)
           V == [t \in SUBSET s |-> Of(t)[t]]
           G == [t \in SUBSET s |-> SumStep(f, V, t)]
<1>4. ASSUME NEW t \in SUBSET s, t # s PROVE G[t] = V[t]
  <2>1. IsSum(f, t, Of(t))  BY <1>3, <1>4
  <2>2. V[t] = SumStep(f, Of(t), t)  BY <2>1, <1>4 DEF IsSum
  <2>3. CASE t = {}  BY <2>2, <2>3 DEF SumStep
  <2>4. CASE t # {}
    <3> DEFINE u == t \ {Chosen(t)}
    <3>1. u \in SUBSET t /\ u # s /\ u \in SUBSET s  BY <2>4, <1>4, ChosenIn
    <3>2. IsSum(f, u, Of(u))  BY <1>3, <3>1
    <3>3. IsFiniteSet(t)  BY <1>2, <1>4, FS_Subset
    <3>4. Of(t)[u] = Of(u)[u]
      <4> HIDE DEF Of, u
      <4> QED  BY <3>1, <3>2, <3>3, <2>1, SumsAgree
    <3>5. V[u] = Of(t)[u]  BY <3>1, <3>4
    <3> HIDE DEF V
    <3> QED  BY <2>2, <2>4, <3>5, <1>4 DEF SumStep
  <2> QED  BY <2>3, <2>4
<1>5. ASSUME NEW t \in SUBSET s PROVE SumStep(f, V, t) = SumStep(f, G, t)
  <2>1. CASE t = {}  BY <2>1 DEF SumStep
  <2>2. CASE t # {}
    <3>1. t \ {Chosen(t)} \in SUBSET s /\ t \ {Chosen(t)} # s  BY <2>2, <1>5, ChosenIn
    <3>2. G[t \ {Chosen(t)}] = V[t \ {Chosen(t)}]  BY <3>1, <1>4
    <3> HIDE DEF G, V
    <3> QED  BY <3>2, <2>2 DEF SumStep
  <2> QED  BY <2>1, <2>2
<1>6. IsSum(f, s, G)
  BY <1>5 DEF IsSum
<1> QED  BY <1>2, <1>6

------------------------------------------------------------------------------
(* What sums do *)

\* The sum over no elements.
LEMMA SumOfNothing == \A f : SumFunctionOnSet(f, {}) = 0
<1> SUFFICES ASSUME NEW f PROVE SumFunctionOnSet(f, {}) = 0
  OBVIOUS
<1>1. PICK g : IsSum(f, {}, g)  BY SumsExist, FS_EmptySet
<1>2. IsSum(f, {}, CHOOSE h : IsSum(f, {}, h))  BY <1>1
<1> QED  BY <1>2, SumIs DEF IsSum, SumStep

\* A sum is its first element and the sum of the others.
LEMMA SumUnfolds ==
  ASSUME NEW f, NEW S, IsFiniteSet(S), S # {}
  PROVE  SumFunctionOnSet(f, S) = f[Chosen(S)] + SumFunctionOnSet(f, S \ {Chosen(S)})
<1> DEFINE R == S \ {Chosen(S)}
           g == CHOOSE h : IsSum(f, S, h)
           k == CHOOSE h : IsSum(f, R, h)
<1>1. IsFiniteSet(R) /\ R \in SUBSET S  BY FS_RemoveElement, FS_Subset
<1>2. IsSum(f, S, g) /\ IsSum(f, R, k)  BY <1>1, SumsExist
<1>3. g[R] = k[R]
  <2> HIDE DEF g, k, R
  <2> QED  BY <1>1, <1>2, SumsAgree
<1>4. g[S] = f[Chosen(S)] + g[R]  BY <1>2 DEF IsSum, SumStep
<1> QED  BY <1>3, <1>4, SumIs

\* A sum of integers is an integer,
LEMMA SumIsInt ==
  ASSUME NEW S, IsFiniteSet(S), NEW f, \A x \in S : f[x] \in Int
  PROVE  SumFunctionOnSet(f, S) \in Int
<1> DEFINE B == {s \in SUBSET S : SumFunctionOnSet(f, s) \notin Int}
<1>1. SUFFICES ASSUME B # {} PROVE FALSE
  OBVIOUS
<1>2. PICK s \in B : \A t \in SUBSET s : t # s => t \notin B
  <2>1. B \subseteq SUBSET S  OBVIOUS
  <2> HIDE DEF B
  <2> QED  BY <1>1, <2>1, SmallestSubset
<1>3. s # {}
  <2>1. SumFunctionOnSet(f, {}) = 0  BY SumOfNothing
  <2>2. SumFunctionOnSet(f, s) \notin Int  BY <1>2
  <2>3. SumFunctionOnSet(f, s) # 0  BY <2>2
  <2> QED  BY <2>1, <2>3
<1>4. Chosen(s) \in s  BY <1>3, ChosenIn
<1>5. SumFunctionOnSet(f, s \ {Chosen(s)}) \in Int
  <2> DEFINE r == s \ {Chosen(s)}
  <2>1. r \in SUBSET s /\ r # s /\ r \in SUBSET S  BY <1>4
  <2>2. r \notin B
    <3> HIDE DEF B, r
    <3> QED  BY <2>1, <1>2
  <2> QED  BY <2>1, <2>2
<1>6. IsFiniteSet(s)  BY FS_Subset
<1> QED  BY <1>2, <1>3, <1>4, <1>5, <1>6, SumUnfolds

\* ... and one of naturals is a natural.
LEMMA SumIsNat ==
  ASSUME NEW S, IsFiniteSet(S), NEW f, \A x \in S : f[x] \in Nat
  PROVE  SumFunctionOnSet(f, S) \in Nat
<1> DEFINE B == {s \in SUBSET S : SumFunctionOnSet(f, s) \notin Nat}
<1>1. SUFFICES ASSUME B # {} PROVE FALSE
  OBVIOUS
<1>2. PICK s \in B : \A t \in SUBSET s : t # s => t \notin B
  <2>1. B \subseteq SUBSET S  OBVIOUS
  <2> HIDE DEF B
  <2> QED  BY <1>1, <2>1, SmallestSubset
<1>3. s # {}
  <2>1. SumFunctionOnSet(f, {}) = 0  BY SumOfNothing
  <2>2. SumFunctionOnSet(f, s) \notin Nat  BY <1>2
  <2>3. SumFunctionOnSet(f, s) # 0  BY <2>2
  <2> QED  BY <2>1, <2>3
<1>4. Chosen(s) \in s  BY <1>3, ChosenIn
<1>5. SumFunctionOnSet(f, s \ {Chosen(s)}) \in Nat
  <2> DEFINE r == s \ {Chosen(s)}
  <2>1. r \in SUBSET s /\ r # s /\ r \in SUBSET S  BY <1>4
  <2>2. r \notin B
    <3> HIDE DEF B, r
    <3> QED  BY <2>1, <1>2
  <2> QED  BY <2>1, <2>2
<1>6. IsFiniteSet(s)  BY FS_Subset
<1> QED  BY <1>2, <1>3, <1>4, <1>5, <1>6, SumUnfolds

\* A sum depends on the values in the set only.
LEMMA SumEqual ==
  ASSUME NEW S, IsFiniteSet(S), NEW f, NEW g, \A x \in S : f[x] = g[x]
  PROVE  SumFunctionOnSet(f, S) = SumFunctionOnSet(g, S)
<1> DEFINE B == {s \in SUBSET S : SumFunctionOnSet(f, s) # SumFunctionOnSet(g, s)}
<1>1. SUFFICES ASSUME B # {} PROVE FALSE
  OBVIOUS
<1>2. PICK s \in B : \A t \in SUBSET s : t # s => t \notin B
  <2>1. B \subseteq SUBSET S  OBVIOUS
  <2> HIDE DEF B
  <2> QED  BY <1>1, <2>1, SmallestSubset
<1>3. s # {}  BY <1>2, SumOfNothing
<1>4. Chosen(s) \in s  BY <1>3, ChosenIn
<1>5. SumFunctionOnSet(f, s \ {Chosen(s)}) = SumFunctionOnSet(g, s \ {Chosen(s)})  BY <1>2, <1>4
<1>6. IsFiniteSet(s)  BY FS_Subset
<1> QED  BY <1>2, <1>3, <1>4, <1>5, <1>6, SumUnfolds

\* Any element can be taken out first, not just the chosen one.
LEMMA SumWithout ==
  ASSUME NEW S, IsFiniteSet(S), NEW f, \A x \in S : f[x] \in Int, NEW x \in S
  PROVE  SumFunctionOnSet(f, S) = f[x] + SumFunctionOnSet(f, S \ {x})
<1> DEFINE B == {s \in SUBSET S : \E y \in s :
                   SumFunctionOnSet(f, s) # f[y] + SumFunctionOnSet(f, s \ {y})}
<1>1. SUFFICES ASSUME B # {} PROVE FALSE
  OBVIOUS
<1>2. PICK s \in B : \A t \in SUBSET s : t # s => t \notin B
  <2>1. B \subseteq SUBSET S  OBVIOUS
  <2> HIDE DEF B
  <2> QED  BY <1>1, <2>1, SmallestSubset
<1>3. PICK y \in s : SumFunctionOnSet(f, s) # f[y] + SumFunctionOnSet(f, s \ {y})
  BY <1>2
<1> DEFINE c == Chosen(s)
<1>4. c \in s  BY <1>3, ChosenIn
<1>5. SumFunctionOnSet(f, s) = f[c] + SumFunctionOnSet(f, s \ {c})
  BY <1>3, FS_Subset, SumUnfolds
<1>6. c # y  BY <1>3, <1>5
<1>7. SumFunctionOnSet(f, s \ {c}) = f[y] + SumFunctionOnSet(f, (s \ {c}) \ {y})
  <2>1. s \ {c} \in SUBSET s /\ s \ {c} # s /\ y \in s \ {c}  BY <1>3, <1>4, <1>6
  <2> QED  BY <2>1, <1>2
<1>8. SumFunctionOnSet(f, s \ {y}) = f[c] + SumFunctionOnSet(f, (s \ {y}) \ {c})
  <2>1. s \ {y} \in SUBSET s /\ s \ {y} # s /\ c \in s \ {y}  BY <1>3, <1>4, <1>6
  <2> QED  BY <2>1, <1>2
<1>9. (s \ {c}) \ {y} = (s \ {y}) \ {c}  OBVIOUS
<1>10. f[c] \in Int /\ f[y] \in Int  BY <1>3, <1>4
<1>11. SumFunctionOnSet(f, (s \ {c}) \ {y}) \in Int
  <2>1. IsFiniteSet((s \ {c}) \ {y})  BY FS_Subset
  <2> QED  BY <2>1, SumIsInt
<1> DEFINE z == SumFunctionOnSet(f, (s \ {c}) \ {y})
<1>12. /\ SumFunctionOnSet(f, s) = f[c] + (f[y] + z)
       /\ SumFunctionOnSet(f, s \ {y}) = f[c] + z
  BY <1>5, <1>7, <1>8, <1>9
<1>13. f[c] + (f[y] + z) = f[y] + (f[c] + z)
  <2> HIDE DEF c, z
  <2> QED  BY <1>10, <1>11 DEF z
<1> QED  BY <1>3, <1>12, <1>13

\* Sums add up element by element.
LEMMA SumPlus ==
  ASSUME NEW S, IsFiniteSet(S), NEW f, NEW g, NEW h,
         \A x \in S : f[x] \in Int /\ g[x] \in Int /\ h[x] = f[x] + g[x]
  PROVE  SumFunctionOnSet(h, S) = SumFunctionOnSet(f, S) + SumFunctionOnSet(g, S)
<1> DEFINE B == {s \in SUBSET S :
                   SumFunctionOnSet(h, s) # SumFunctionOnSet(f, s) + SumFunctionOnSet(g, s)}
<1>1. SUFFICES ASSUME B # {} PROVE FALSE
  OBVIOUS
<1>2. PICK s \in B : \A t \in SUBSET s : t # s => t \notin B
  <2>1. B \subseteq SUBSET S  OBVIOUS
  <2> HIDE DEF B
  <2> QED  BY <1>1, <2>1, SmallestSubset
<1>3. s # {}
  <2>1. /\ SumFunctionOnSet(f, {}) = 0 /\ SumFunctionOnSet(g, {}) = 0
        /\ SumFunctionOnSet(h, {}) = 0
    BY SumOfNothing
  <2>2. SumFunctionOnSet(h, s) # SumFunctionOnSet(f, s) + SumFunctionOnSet(g, s)
    BY <1>2
  <2>3. CASE s = {}
    <3>1. SumFunctionOnSet(f, s) = 0 /\ SumFunctionOnSet(g, s) = 0 /\ SumFunctionOnSet(h, s) = 0
      BY <2>1, <2>3
    <3> QED  BY <2>2, <3>1
  <2> QED  BY <2>3
<1> DEFINE r == s \ {Chosen(s)}
<1>4. Chosen(s) \in s  BY <1>3, ChosenIn
<1>5. SumFunctionOnSet(h, r) = SumFunctionOnSet(f, r) + SumFunctionOnSet(g, r)
  <2>1. r \in SUBSET s /\ r # s /\ r \in SUBSET S  BY <1>4
  <2>2. r \notin B
    <3> HIDE DEF B, r
    <3> QED  BY <2>1, <1>2
  <2> QED  BY <2>1, <2>2
<1>6. IsFiniteSet(s) /\ IsFiniteSet(r)  BY FS_Subset
<1>7. SumFunctionOnSet(f, r) \in Int /\ SumFunctionOnSet(g, r) \in Int
  BY <1>6, SumIsInt
<1>8. /\ SumFunctionOnSet(f, s) = f[Chosen(s)] + SumFunctionOnSet(f, r)
      /\ SumFunctionOnSet(g, s) = g[Chosen(s)] + SumFunctionOnSet(g, r)
      /\ SumFunctionOnSet(h, s) = h[Chosen(s)] + SumFunctionOnSet(h, r)
  BY <1>3, <1>6, SumUnfolds
<1> HIDE DEF r
<1> QED  BY <1>2, <1>4, <1>5, <1>7, <1>8

\* A sum over a subset is one over the set with zeros for the rest.
LEMMA SumWithin ==
  ASSUME NEW S, IsFiniteSet(S), NEW T \in SUBSET S, NEW f, NEW g,
         \A x \in S : f[x] \in Int /\ g[x] = IF x \in T THEN f[x] ELSE 0
  PROVE  SumFunctionOnSet(f, T) = SumFunctionOnSet(g, S)
<1> DEFINE B == {s \in SUBSET S : SumFunctionOnSet(f, s \cap T) # SumFunctionOnSet(g, s)}
<1>0. T = S \cap T  OBVIOUS
<1>1. SUFFICES ASSUME B # {} PROVE FALSE
  BY <1>0
<1>2. PICK s \in B : \A t \in SUBSET s : t # s => t \notin B
  <2>1. B \subseteq SUBSET S  OBVIOUS
  <2> HIDE DEF B
  <2> QED  BY <1>1, <2>1, SmallestSubset
<1>3. s # {}
  <2>1. {} \cap T = {}  OBVIOUS
  <2> QED  BY <1>2, <2>1, SumOfNothing
<1> DEFINE c == Chosen(s)
<1>4. c \in s  BY <1>3, ChosenIn
<1>5. SumFunctionOnSet(f, (s \ {c}) \cap T) = SumFunctionOnSet(g, s \ {c})
  <2> DEFINE r == s \ {c}
  <2>1. r \in SUBSET s /\ r # s /\ r \in SUBSET S  BY <1>4
  <2>2. SumFunctionOnSet(f, r \cap T) = SumFunctionOnSet(g, r)
    <3> HIDE DEF r
    <3> QED  BY <2>1, <1>2
  <2> QED  BY <2>2
<1>6. IsFiniteSet(s) /\ IsFiniteSet(s \cap T) /\ IsFiniteSet(s \ {c})
  BY FS_Subset
<1>7. SumFunctionOnSet(g, s) = g[c] + SumFunctionOnSet(g, s \ {c})
  BY <1>3, <1>6, SumUnfolds
<1>8. CASE c \in T
  <2>1. (s \cap T) \ {c} = (s \ {c}) \cap T  OBVIOUS
  <2>2. c \in s \cap T  BY <1>4, <1>8
  <2>3. SumFunctionOnSet(f, s \cap T) = f[c] + SumFunctionOnSet(f, (s \cap T) \ {c})
    <3> HIDE DEF c
    <3> QED  BY <1>6, <2>2, SumWithout
  <2> QED  BY <1>2, <1>4, <1>5, <1>7, <1>8, <2>1, <2>3
<1>9. CASE c \notin T
  <2>1. (s \ {c}) \cap T = s \cap T  BY <1>9
  <2>2. g[c] = 0  BY <1>4, <1>9
  <2>3. SumFunctionOnSet(g, s \ {c}) \in Int
    <3>1. \A x \in s \ {c} : g[x] \in Int  OBVIOUS
    <3> QED  BY <3>1, <1>6, SumIsInt
  <2>4. SumFunctionOnSet(f, s \cap T) = SumFunctionOnSet(g, s \ {c})  BY <1>5, <2>1
  <2>5. SumFunctionOnSet(g, s) = SumFunctionOnSet(g, s \ {c})
    <3> HIDE DEF c
    <3> QED  BY <1>7, <2>2, <2>3
  <2> QED  BY <1>2, <2>4, <2>5
<1> QED  BY <1>8, <1>9

\* Zeros add up to zero.
LEMMA SumOfZeros ==
  ASSUME NEW S, IsFiniteSet(S), NEW f, \A x \in S : f[x] = 0
  PROVE  SumFunctionOnSet(f, S) = 0
<1>1. {} \in SUBSET S /\ \A x \in S : f[x] \in Int /\ f[x] = IF x \in {} THEN f[x] ELSE 0
  OBVIOUS
<1>2. SumFunctionOnSet(f, {}) = SumFunctionOnSet(f, S)  BY <1>1, SumWithin
<1> QED  BY <1>2, SumOfNothing

\* A sum of which one element changes.
LEMMA SumChanged ==
  ASSUME NEW S, IsFiniteSet(S), NEW f, NEW g, NEW x \in S, g[x] \in Int,
         \A y \in S : f[y] \in Int, \A y \in S \ {x} : g[y] = f[y]
  PROVE  SumFunctionOnSet(g, S) = SumFunctionOnSet(f, S) + (g[x] - f[x])
<1>1. IsFiniteSet(S \ {x})  BY FS_Subset
<1>2. SumFunctionOnSet(g, S \ {x}) = SumFunctionOnSet(f, S \ {x})  BY <1>1, SumEqual
<1>3. SumFunctionOnSet(f, S \ {x}) \in Int  BY <1>1, SumIsInt
<1>4. SumFunctionOnSet(f, S) = f[x] + SumFunctionOnSet(f, S \ {x})  BY SumWithout
<1>5. SumFunctionOnSet(g, S) = g[x] + SumFunctionOnSet(g, S \ {x})
  <2>1. \A y \in S : g[y] \in Int  OBVIOUS
  <2> QED  BY <2>1, SumWithout
<1> QED  BY <1>2, <1>3, <1>4, <1>5
==============================================================================
