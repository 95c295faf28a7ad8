----------------------------- MODULE SumProofs -----------------------------
(***************************************************************************)
(* Sums over finite sets, as the community modules' MapThenSumSet defines  *)
(* them: its recursion has a solution, and the sum does not depend on the  *)
(* order in which elements are taken.  Each induction is over the subsets  *)
(* of a finite set: of the subsets for which a fact fails there would be a *)
(* least one (LeastSubset, from WFMin).                                    *)
(***************************************************************************)
EXTENDS Integers, FiniteSets, FiniteSetsExt, FiniteSetTheorems, WellFoundedInduction, TLAPS

(* The sum of f over the finite set S.                                     *)
Total(f, S) == MapThenSumSet(LAMBDA x : f[x], S)

(* The element that MapThenSumSet takes first.                             *)
Pick(s) == CHOOSE x \in s : TRUE

(* What the recursion makes of a set, given the sums g of smaller ones.    *)
Rec(g, f, s) == IF s = {} THEN 0 ELSE f[Pick(s)] + g[s \ {Pick(s)}]

(* g holds the sum of f over every subset of S.                            *)
Sums(g, f, S) == g = [s \in SUBSET S |-> Rec(g, f, s)]

(* Among subsets of a finite set there is one with none below it.          *)
LEMMA LeastSubset ==
    ASSUME NEW S, IsFiniteSet(S), NEW Bad \in SUBSET SUBSET S, Bad # {}
    PROVE  \E T \in Bad : \A U \in Bad : U \subseteq T => U = T
<1>1. IsWellFoundedOn(StrictSubsetOrdering(S), FiniteSubsetsOf(S))
  BY FS_StrictSubsetOrderingWellFounded
<1>2. Bad \subseteq FiniteSubsetsOf(S)
  BY FS_Subset DEF FiniteSubsetsOf
<1>3. PICK T \in Bad : \A U \in Bad : ~ (<<U, T>> \in StrictSubsetOrdering(S))
  BY <1>1, <1>2, WFMin, Zenon
<1>4. ASSUME NEW U \in Bad, U \subseteq T PROVE U = T
  BY <1>3, <1>4 DEF StrictSubsetOrdering
<1>. QED
  BY <1>4

(* Two solutions of the recursion agree where both are defined.            *)
LEMMA SumsAgree ==
    ASSUME NEW f, NEW S, NEW R, NEW g, NEW h, IsFiniteSet(S), Sums(g, f, S), Sums(h, f, R)
    PROVE  \A s \in SUBSET (S \cap R) : g[s] = h[s]
<1>. DEFINE Bad == {s \in SUBSET (S \cap R) : g[s] # h[s]}
<1>1. SUFFICES ASSUME Bad # {} PROVE FALSE
  OBVIOUS
<1>2. PICK T \in Bad : \A U \in Bad : U \subseteq T => U = T
  <2>1. Bad \in SUBSET SUBSET S
    OBVIOUS
  <2>. HIDE DEF Bad
  <2>. QED
    BY <1>1, <2>1, LeastSubset
<1>3. g[T] = Rec(g, f, T) /\ h[T] = Rec(h, f, T)
  BY DEF Sums
<1>4. CASE T = {}
  BY <1>3, <1>4 DEF Rec
<1>5. CASE T # {}
  <2>1. Pick(T) \in T
    BY <1>5 DEF Pick
  <2>2. g[T \ {Pick(T)}] = h[T \ {Pick(T)}]
    BY <1>2, <2>1
  <2>. QED
    BY <1>3, <1>5, <2>2 DEF Rec
<1>. QED
  BY <1>4, <1>5

(* The recursion has a solution.                                           *)
LEMMA SumsExist ==
    ASSUME NEW f, NEW S, IsFiniteSet(S)
    PROVE  \E g : Sums(g, f, S)
<1>. DEFINE Bad == {s \in SUBSET S : ~ \E g : Sums(g, f, s)}
<1>1. SUFFICES ASSUME Bad # {} PROVE FALSE
  OBVIOUS
<1>2. PICK T \in Bad : \A U \in Bad : U \subseteq T => U = T
  <2>1. Bad \in SUBSET SUBSET S
    OBVIOUS
  <2>. HIDE DEF Bad
  <2>. QED
    BY <1>1, <2>1, LeastSubset
<1>. DEFINE G(s) == CHOOSE g : Sums(g, f, s)
            smaller == [s \in SUBSET T |-> G(s)[s]]
            all == [s \in SUBSET T |-> Rec(smaller, f, s)]
<1>3. ASSUME NEW s \in SUBSET T, s # T PROVE Sums(G(s), f, s)
  <2>1. \E g : Sums(g, f, s)
    BY <1>2, <1>3
  <2>. QED
    BY <2>1
<1>4. ASSUME NEW s \in SUBSET T, s # T PROVE all[s] = smaller[s]
  <2>1. IsFiniteSet(s)
    BY FS_Subset
  <2>2. G(s)[s] = Rec(G(s), f, s)
    <3>1. Sums(G(s), f, s)
      BY <1>3, <1>4
    <3>. HIDE DEF G
    <3>. QED
      BY <3>1 DEF Sums
  <2>3. CASE s = {}
    BY <2>2, <2>3 DEF Rec
  <2>4. CASE s # {}
    <3>1. Pick(s) \in s
      BY <2>4 DEF Pick
    <3>. DEFINE r == s \ {Pick(s)}
    <3>2. r \in SUBSET T /\ r # T /\ r \in SUBSET (s \cap r)
      BY <3>1
    <3>3. Sums(G(r), f, r) /\ Sums(G(s), f, s)
      BY <1>3, <1>4, <3>2
    <3>4. G(s)[r] = G(r)[r]
      <4>. HIDE DEF G, r
      <4>. QED
        BY <3>2, <3>3, <2>1, SumsAgree
    <3>. QED
      BY <2>2, <2>4, <3>2, <3>4 DEF Rec
  <2>. QED
    BY <2>3, <2>4
<1>5. Sums(all, f, T)
  <2>1. ASSUME NEW s \in SUBSET T PROVE Rec(smaller, f, s) = Rec(all, f, s)
    <3>1. CASE s = {}
      BY <3>1 DEF Rec
    <3>2. CASE s # {}
      <4>1. Pick(s) \in s
        BY <3>2 DEF Pick
      <4>2. all[s \ {Pick(s)}] = smaller[s \ {Pick(s)}]
        BY <1>4, <4>1
      <4>. QED
        BY <3>2, <4>2 DEF Rec
    <3>. QED
      BY <3>1, <3>2
  <2>. HIDE DEF smaller
  <2>. QED
    BY <2>1 DEF Sums
<1>. QED
  BY <1>2, <1>5

(* The sum over a set that is not empty is that of its first element and   *)
(* of the rest.                                                            *)
LEMMA TotalSplits ==
    ASSUME NEW f, NEW S, IsFiniteSet(S)
    PROVE  Total(f, S) = IF S = {} THEN 0 ELSE f[Pick(S)] + Total(f, S \ {Pick(S)})
<1>. DEFINE G(s) == CHOOSE g : Sums(g, f, s)
<1>1. \A s : Total(f, s) = G(s)[s]
  BY DEF Total, Sums, Rec, Pick, MapThenSumSet, MapThenFoldSet
<1>2. \A s : IsFiniteSet(s) => Sums(G(s), f, s)
  BY SumsExist
<1>. DEFINE r == S \ {Pick(S)}
<1>3. IsFiniteSet(r) /\ r \in SUBSET (S \cap r)
  BY FS_Subset
<1>4. G(S)[r] = G(r)[r]
  <2>1. Sums(G(S), f, S) /\ Sums(G(r), f, r)
    BY <1>2, <1>3
  <2>. HIDE DEF G, r
  <2>. QED
    BY <1>3, <2>1, SumsAgree
<1>5. G(S)[S] = Rec(G(S), f, S)
  <2>1. Sums(G(S), f, S)
    BY <1>2
  <2>. HIDE DEF G
  <2>. QED
    BY <2>1 DEF Sums
<1>6. Total(f, S) = G(S)[S] /\ Total(f, r) = G(r)[r]
  BY <1>1
<1>. HIDE DEF G
<1>. QED
  BY <1>4, <1>5, <1>6 DEF Rec

(* A sum of naturals is one.                                               *)
LEMMA TotalNat ==
    ASSUME NEW S, IsFiniteSet(S), NEW f, \A x \in S : f[x] \in Nat
    PROVE  Total(f, S) \in Nat
<1>. DEFINE Bad == {s \in SUBSET S : Total(f, s) \notin Nat}
<1>1. SUFFICES ASSUME Bad # {} PROVE FALSE
  OBVIOUS
<1>2. PICK T \in Bad : \A U \in Bad : U \subseteq T => U = T
  <2>1. Bad \in SUBSET SUBSET S
    OBVIOUS
  <2>. HIDE DEF Bad
  <2>. QED
    BY <1>1, <2>1, LeastSubset
<1>3. Total(f, T) = IF T = {} THEN 0 ELSE f[Pick(T)] + Total(f, T \ {Pick(T)})
  BY TotalSplits, FS_Subset
<1>4. CASE T = {}
  BY <1>3, <1>4
<1>5. CASE T # {}
  <2>1. Pick(T) \in T
    BY <1>5 DEF Pick
  <2>2. Total(f, T \ {Pick(T)}) \in Nat
    BY <1>2, <2>1
  <2>. QED
    BY <1>3, <1>5, <2>1, <2>2
<1>. QED
  BY <1>4, <1>5

(* A sum of zeros is zero.                                                 *)
LEMMA TotalZero ==
    ASSUME NEW S, IsFiniteSet(S), NEW f, \A x \in S : f[x] = 0
    PROVE  Total(f, S) = 0
<1>. DEFINE Bad == {s \in SUBSET S : Total(f, s) # 0}
<1>1. SUFFICES ASSUME Bad # {} PROVE FALSE
  OBVIOUS
<1>2. PICK T \in Bad : \A U \in Bad : U \subseteq T => U = T
  <2>1. Bad \in SUBSET SUBSET S
    OBVIOUS
  <2>. HIDE DEF Bad
  <2>. QED
    BY <1>1, <2>1, LeastSubset
<1>3. Total(f, T) = IF T = {} THEN 0 ELSE f[Pick(T)] + Total(f, T \ {Pick(T)})
  BY TotalSplits, FS_Subset
<1>4. CASE T # {}
  <2>1. Pick(T) \in T
    BY <1>4 DEF Pick
  <2>2. Total(f, T \ {Pick(T)}) = 0
    BY <1>2, <2>1
  <2>. QED
    BY <1>3, <1>4, <2>1, <2>2
<1>. QED
  BY <1>3, <1>4

(* An element can be taken out of a sum.                                   *)
LEMMA TotalTakes ==
    ASSUME NEW S, IsFiniteSet(S), NEW f, \A x \in S : f[x] \in Nat, NEW x \in S
    PROVE  Total(f, S) = f[x] + Total(f, S \ {x})
<1>. DEFINE Bad == {s \in SUBSET S : \E y \in s : Total(f, s) # f[y] + Total(f, s \ {y})}
<1>1. SUFFICES ASSUME Bad # {} PROVE FALSE
  <2>1. S \notin Bad
    OBVIOUS
  <2>. QED
    BY <2>1
<1>2. PICK T \in Bad : \A U \in Bad : U \subseteq T => U = T
  <2>1. Bad \in SUBSET SUBSET S
    OBVIOUS
  <2>. HIDE DEF Bad
  <2>. QED
    BY <1>1, <2>1, LeastSubset
<1>3. PICK y \in T : Total(f, T) # f[y] + Total(f, T \ {y})
  OBVIOUS
<1>. DEFINE p == Pick(T)
<1>4. p \in T
  BY DEF Pick
<1>5. Total(f, T) = f[p] + Total(f, T \ {p})
  BY TotalSplits, FS_Subset, <1>4
<1>6. y # p
  BY <1>3, <1>5
<1>. HIDE DEF p
<1>7. ASSUME NEW u \in T, NEW v \in T \ {u}
      PROVE  Total(f, T \ {u}) = f[v] + Total(f, (T \ {u}) \ {v})
  <2>1. T \ {u} \notin Bad /\ T \ {u} \in SUBSET S
    BY <1>2
  <2>. QED
    BY <2>1
<1>8. /\ Total(f, T \ {p}) = f[y] + Total(f, (T \ {p}) \ {y})
      /\ Total(f, T \ {y}) = f[p] + Total(f, (T \ {y}) \ {p})
  BY <1>4, <1>6, <1>7
<1>9. Total(f, (T \ {p}) \ {y}) = Total(f, (T \ {y}) \ {p})
  <2>1. (T \ {p}) \ {y} = (T \ {y}) \ {p}
    OBVIOUS
  <2>. QED
    BY <2>1, Zenon
<1>10. Total(f, (T \ {y}) \ {p}) \in Nat /\ f[p] \in Nat /\ f[y] \in Nat
  <2>1. IsFiniteSet((T \ {y}) \ {p}) /\ \A z \in (T \ {y}) \ {p} : f[z] \in Nat
    BY FS_Subset
  <2>. QED
    BY <1>4, <2>1, TotalNat
<1>. HIDE DEF Bad
<1>. QED
  BY <1>3, <1>5, <1>8, <1>9, <1>10

(* The sum depends on the values over the set alone.                       *)
LEMMA TotalSame ==
    ASSUME NEW S, IsFiniteSet(S), NEW f, NEW g, \A x \in S : f[x] = g[x]
    PROVE  Total(f, S) = Total(g, S)
<1>. DEFINE Bad == {s \in SUBSET S : Total(f, s) # Total(g, s)}
<1>1. SUFFICES ASSUME Bad # {} PROVE FALSE
  OBVIOUS
<1>2. PICK T \in Bad : \A U \in Bad : U \subseteq T => U = T
  <2>1. Bad \in SUBSET SUBSET S
    OBVIOUS
  <2>. HIDE DEF Bad
  <2>. QED
    BY <1>1, <2>1, LeastSubset
<1>3. /\ Total(f, T) = IF T = {} THEN 0 ELSE f[Pick(T)] + Total(f, T \ {Pick(T)})
      /\ Total(g, T) = IF T = {} THEN 0 ELSE g[Pick(T)] + Total(g, T \ {Pick(T)})
  BY TotalSplits, FS_Subset
<1>4. CASE T = {}
  BY <1>3, <1>4
<1>5. CASE T # {}
  <2>1. Pick(T) \in T
    BY <1>5 DEF Pick
  <2>2. Total(f, T \ {Pick(T)}) = Total(g, T \ {Pick(T)})
    BY <1>2, <2>1
  <2>. QED
    BY <1>3, <1>5, <2>1, <2>2
<1>. QED
  BY <1>4, <1>5

(* Leaving elements out makes no sum greater.                              *)
LEMMA TotalSubset ==
    ASSUME NEW S, IsFiniteSet(S), NEW f, \A x \in S : f[x] \in Nat, NEW R \in SUBSET S
    PROVE  Total(f, R) <= Total(f, S)
<1>. DEFINE Bad == {s \in SUBSET S : R \subseteq s /\ ~ Total(f, R) <= Total(f, s)}
<1>1. SUFFICES ASSUME Bad # {} PROVE FALSE
  OBVIOUS
<1>2. PICK T \in Bad : \A U \in Bad : U \subseteq T => U = T
  <2>1. Bad \in SUBSET SUBSET S
    OBVIOUS
  <2>. HIDE DEF Bad
  <2>. QED
    BY <1>1, <2>1, LeastSubset
<1>3. \A s \in SUBSET S : IsFiniteSet(s) /\ Total(f, s) \in Nat
  <2>1. \A s \in SUBSET S : IsFiniteSet(s)
    BY FS_Subset
  <2>. QED
    BY <2>1, TotalNat
<1>4. PICK x \in T : x \notin R
  BY <1>3
<1>5. Total(f, T) = f[x] + Total(f, T \ {x})
  BY <1>3, TotalTakes
<1>6. Total(f, R) <= Total(f, T \ {x})
  BY <1>2, <1>4
<1>. QED
  BY <1>2, <1>3, <1>5, <1>6

(* The sum over what satisfies a condition and over the rest.              *)
LEMMA TotalParts ==
    ASSUME NEW S, IsFiniteSet(S), NEW f, \A x \in S : f[x] \in Nat, NEW R \in SUBSET S
    PROVE  Total(f, S) = Total(f, R) + Total(f, S \ R)
<1>. DEFINE Bad == {s \in SUBSET S : R \subseteq s /\ Total(f, s) # Total(f, R) + Total(f, s \ R)}
<1>1. SUFFICES ASSUME Bad # {} PROVE FALSE
  OBVIOUS
<1>2. PICK T \in Bad : \A U \in Bad : U \subseteq T => U = T
  <2>1. Bad \in SUBSET SUBSET S
    OBVIOUS
  <2>. HIDE DEF Bad
  <2>. QED
    BY <1>1, <2>1, LeastSubset
<1>3. \A s \in SUBSET S : IsFiniteSet(s) /\ Total(f, s) \in Nat
  <2>1. \A s \in SUBSET S : IsFiniteSet(s)
    BY FS_Subset
  <2>. QED
    BY <2>1, TotalNat
<1>4. T # R
  <2>1. SUFFICES ASSUME T = R PROVE Total(f, R) = Total(f, R) + Total(f, R \ R)
    OBVIOUS
  <2>2. IsFiniteSet(R \ R) /\ R \ R = {}
    BY FS_EmptySet
  <2>3. Total(f, R \ R) = 0
    BY <2>2, TotalSplits
  <2>4. Total(f, R) \in Nat
    BY <1>3
  <2>. QED
    BY <2>3, <2>4
<1>5. PICK x \in T : x \notin R
  BY <1>4
<1>6. Total(f, T) = f[x] + Total(f, T \ {x})
  BY <1>3, TotalTakes
<1>7. Total(f, T \ {x}) = Total(f, R) + Total(f, (T \ {x}) \ R)
  BY <1>2, <1>5
<1>8. Total(f, T \ R) = f[x] + Total(f, (T \ R) \ {x})
  BY <1>3, <1>5, TotalTakes
<1>9. Total(f, (T \ R) \ {x}) = Total(f, (T \ {x}) \ R)
  <2>1. (T \ R) \ {x} = (T \ {x}) \ R
    OBVIOUS
  <2>. QED
    BY <2>1, Zenon
<1>10. /\ Total(f, R) \in Nat /\ Total(f, (T \ {x}) \ R) \in Nat
       /\ Total(f, T \ R) \in Nat /\ f[x] \in Nat
  BY <1>3, <1>5
<1>11. Total(f, T) # Total(f, R) + Total(f, T \ R)
  OBVIOUS
<1>. HIDE DEF Bad
<1>. QED
  BY <1>6, <1>7, <1>8, <1>9, <1>10, <1>11

(* One element changes its value, or joins or leaves the sum.              *)
LEMMA TotalChanges ==
    ASSUME NEW S, IsFiniteSet(S), NEW x \in S,
           NEW f, NEW g, \A y \in S : f[y] \in Nat /\ g[y] \in Nat,
           \A y \in S \ {x} : f[y] = g[y],
           NEW A \in SUBSET S, NEW B \in SUBSET S, A \ {x} = B \ {x}
    PROVE  /\ Total(f, A) \in Nat /\ Total(g, B) \in Nat
           /\ Total(g, B) = Total(f, A) - (IF x \in A THEN f[x] ELSE 0)
                                       + (IF x \in B THEN g[x] ELSE 0)
<1>1. IsFiniteSet(A) /\ IsFiniteSet(B) /\ IsFiniteSet(A \ {x})
  BY FS_Subset
<1>2. /\ Total(f, A) \in Nat /\ Total(g, B) \in Nat
      /\ Total(f, A \ {x}) \in Nat /\ Total(g, A \ {x}) \in Nat
  BY <1>1, TotalNat
<1>3. Total(f, A \ {x}) = Total(g, A \ {x})
  BY <1>1, TotalSame
<1>4. Total(f, A) = (IF x \in A THEN f[x] ELSE 0) + Total(f, A \ {x})
  <2>1. CASE x \in A
    BY <1>1, <2>1, TotalTakes
  <2>2. CASE x \notin A
    <3>1. A \ {x} = A
      BY <2>2
    <3>2. Total(f, A \ {x}) = Total(f, A)
      BY <3>1, Zenon
    <3>. QED
      BY <1>2, <2>2, <3>2
  <2>. QED
    BY <2>1, <2>2
<1>5. Total(g, B) = (IF x \in B THEN g[x] ELSE 0) + Total(g, A \ {x})
  <2>0. Total(g, B \ {x}) = Total(g, A \ {x})
    BY Zenon
  <2>1. CASE x \in B
    BY <1>1, <2>0, <2>1, TotalTakes
  <2>2. CASE x \notin B
    <3>1. B \ {x} = B
      BY <2>2
    <3>2. Total(g, B \ {x}) = Total(g, B)
      BY <3>1, Zenon
    <3>. QED
      BY <1>2, <2>0, <2>2, <3>2
  <2>. QED
    BY <2>1, <2>2
<1>6. f[x] \in Nat /\ g[x] \in Nat
  OBVIOUS
<1>. QED
  BY <1>2, <1>3, <1>4, <1>5, <1>6
=============================================================================
