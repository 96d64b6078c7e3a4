----------------------------- MODULE FiniteSums -----------------------------
(***************************************************************************)
(* Sums over finite sets (SumFunction of the module Functions), counting   *)
(* and the order of a finite set, as the proofs of this project need them. *)
(*                                                                         *)
(* A sum is a fold: it takes the elements of a set one by one, as CHOOSE   *)
(* picks them.  That there is such a fold, and that the order does not     *)
(* matter, is shown by induction on the size of the set.  The library's    *)
(* induction theorems are about operators; here what is shown is a set of  *)
(* sizes or of sets, and the smallest one that it lacks is refuted.        *)
(***************************************************************************)
EXTENDS Integers, FiniteSets, Functions, FiniteSetsExt,
        FiniteSetTheorems, WellFoundedInduction, TLAPS
-----------------------------------------------------------------------------
(* Induction.                                                              *)

LEMMA Smallest ==
    ASSUME NEW S \in SUBSET Nat, S # {}
    PROVE  \E n \in S : \A m \in S : n <= m
<1> DEFINE R == OpToRel(<, Nat)
<1>1. IsWellFoundedOn(R, Nat)
  BY NatLessThanWellFounded
<1>2. \A x, y \in S : y < x => <<y, x>> \in R
  BY DEF OpToRel
<1> HIDE DEF R
<1>3. PICK x \in S : \A y \in S : ~ (<<y, x>> \in R)
  BY <1>1, WFMin
<1>4. \A y \in S : ~(y < x)
  BY <1>2, <1>3, Zenon
<1> QED
  BY <1>4

LEMMA Counting ==
    ASSUME NEW G, 0 \in G, \A n \in Nat : n \in G => n + 1 \in G
    PROVE  Nat \subseteq G
<1> SUFFICES ASSUME Nat \ G # {} PROVE FALSE
  OBVIOUS
<1>1. PICK n \in Nat \ G : \A m \in Nat \ G : n <= m
  BY Smallest
<1>2. n # 0 /\ n - 1 \in Nat
  BY <1>1
<1>3. n - 1 \in G
  BY <1>1, <1>2
<1>4. (n - 1) + 1 \in G
  BY <1>2, <1>3
<1> QED
  BY <1>1, <1>4

\* What holds of the empty set, and of a set when it holds of what is left
\* without any one element, holds of every subset.
LEMMA BySize ==
    ASSUME NEW S, IsFiniteSet(S), NEW Good, {} \in Good,
           \A T \in SUBSET S : T # {} /\ (\A x \in T : T \ {x} \in Good) => T \in Good
    PROVE  SUBSET S \subseteq Good
<1> DEFINE G == {n \in Nat : \A T \in SUBSET S : Cardinality(T) = n => T \in Good}
<1>1. \A T \in SUBSET S : IsFiniteSet(T) /\ Cardinality(T) \in Nat
  BY FS_Subset, FS_CardinalityType
<1>2. 0 \in G
  BY <1>1, FS_EmptySet
<1>3. ASSUME NEW n \in Nat, n \in G PROVE n + 1 \in G
  <2>1. ASSUME NEW T \in SUBSET S, Cardinality(T) = n + 1 PROVE T \in Good
    <3>1. T # {}
      BY <2>1, FS_EmptySet
    <3>2. ASSUME NEW x \in T PROVE T \ {x} \in Good
      <4>1. Cardinality(T \ {x}) = n
        BY <1>1, <2>1, FS_RemoveElement
      <4> QED
        BY <1>3, <4>1
    <3> QED
      BY <3>1, <3>2
  <2> QED
    BY <2>1
<1> HIDE DEF G
<1>4. Nat \subseteq G
  BY <1>2, <1>3, Counting
<1> QED
  BY <1>1, <1>4 DEF G

-----------------------------------------------------------------------------
(* Sums.                                                                   *)

Pick(s) == CHOOSE x \in s : TRUE

Adds(f, it) ==
    it = [s \in SUBSET DOMAIN f |-> IF s = {} THEN 0 ELSE f[Pick(s)] + it[s \ {Pick(s)}]]

LEMMA SumIsFold ==
    ASSUME NEW f
    PROVE  SumFunction(f) = (CHOOSE it : Adds(f, it))[DOMAIN f]
  BY Zenon DEF SumFunction, SumFunctionOnSet, FoldFunctionOnSet, MapThenFoldSet, Adds, Pick

LEMMA Picked == ASSUME NEW s, s # {} PROVE Pick(s) \in s
  BY DEF Pick

LEMMA FoldExists ==
    ASSUME NEW f, IsFiniteSet(DOMAIN f)
    PROVE  \E it : Adds(f, it)
<1> DEFINE D == DOMAIN f
           Step(it, s) == IF s = {} THEN 0 ELSE f[Pick(s)] + it[s \ {Pick(s)}]
           G == {n \in Nat : \E it : \A s \in SUBSET D : Cardinality(s) <= n => it[s] = Step(it, s)}
<1>1. \A s \in SUBSET D : IsFiniteSet(s) /\ Cardinality(s) \in Nat
  BY FS_Subset, FS_CardinalityType
<1>2. 0 \in G
  <2> DEFINE zero == [s \in SUBSET D |-> 0]
  <2>1. \A s \in SUBSET D : Cardinality(s) <= 0 => s = {}
    BY <1>1, FS_EmptySet
  <2>2. \A s \in SUBSET D : Cardinality(s) <= 0 => zero[s] = Step(zero, s)
    BY <2>1
  <2> QED
    BY <2>2
<1>3. ASSUME NEW n \in Nat, n \in G PROVE n + 1 \in G
  <2>1. PICK it : \A s \in SUBSET D : Cardinality(s) <= n => it[s] = Step(it, s)
    BY <1>3
  <2> DEFINE next == [s \in SUBSET D |-> Step(it, s)]
  <2>2. ASSUME NEW s \in SUBSET D, Cardinality(s) <= n + 1 PROVE next[s] = Step(next, s)
    <3>1. CASE s = {}
      BY <3>1
    <3>2. CASE s # {}
      <4> DEFINE t == s \ {Pick(s)}
      <4>1. t \in SUBSET D /\ Cardinality(t) <= n
        BY <1>1, <2>2, <3>2, Picked, FS_RemoveElement
      <4>2. it[t] = next[t]
        BY <2>1, <4>1
      <4> HIDE DEF next
      <4>3. Step(it, s) = Step(next, s)
        BY <3>2, <4>2
      <4> QED
        BY <4>3 DEF next
    <3> QED
      BY <3>1, <3>2
  <2> HIDE DEF next, Step
  <2> QED
    BY <2>2
<1> HIDE DEF G
<1>4. Nat \subseteq G
  BY <1>2, <1>3, Counting
<1>5. Cardinality(D) \in G
  BY <1>1, <1>4
<1>6. PICK it : \A s \in SUBSET D : Cardinality(s) <= Cardinality(D) => it[s] = Step(it, s)
  BY <1>5 DEF G
<1>7. \A s \in SUBSET D : it[s] = Step(it, s)
  BY <1>1, <1>6, FS_Subset
<1> DEFINE that == [s \in SUBSET D |-> it[s]]
<1>8. ASSUME NEW s \in SUBSET D PROVE that[s] = Step(that, s)
  <2>1. s # {} => s \ {Pick(s)} \in SUBSET D
    BY Picked
  <2> QED
    BY <1>7, <2>1
<1>9. that = [s \in SUBSET D |-> Step(that, s)]
  BY <1>8
<1> QED
  BY <1>9 DEF Adds

\* Folds of functions that agree are the same on what both have.
LEMMA FoldsAgree ==
    ASSUME NEW f, NEW g, IsFiniteSet(DOMAIN g), DOMAIN g \subseteq DOMAIN f,
           \A x \in DOMAIN g : g[x] = f[x],
           NEW it, NEW jt, Adds(f, it), Adds(g, jt)
    PROVE  \A s \in SUBSET DOMAIN g : it[s] = jt[s]
<1> DEFINE Good == {s \in SUBSET DOMAIN g : it[s] = jt[s]}
<1>1. /\ \A s \in SUBSET DOMAIN f : it[s] = IF s = {} THEN 0 ELSE f[Pick(s)] + it[s \ {Pick(s)}]
      /\ \A s \in SUBSET DOMAIN g : jt[s] = IF s = {} THEN 0 ELSE g[Pick(s)] + jt[s \ {Pick(s)}]
  BY DEF Adds
<1>2. {} \in Good
  BY <1>1
<1>3. ASSUME NEW T \in SUBSET DOMAIN g, T # {}, \A x \in T : T \ {x} \in Good
      PROVE  T \in Good
  <2>1. Pick(T) \in T /\ g[Pick(T)] = f[Pick(T)]
    BY <1>3, Picked
  <2>2. it[T \ {Pick(T)}] = jt[T \ {Pick(T)}]
    BY <1>3, <2>1
  <2>3. T \in SUBSET DOMAIN f
    OBVIOUS
  <2> QED
    BY <1>1, <1>3, <2>1, <2>2, <2>3
<1> HIDE DEF Good
<1>4. \A T \in SUBSET DOMAIN g : T # {} /\ (\A x \in T : T \ {x} \in Good) => T \in Good
  BY <1>3
<1>5. SUBSET DOMAIN g \subseteq Good
  BY <1>2, <1>4, BySize, Zenon
<1> QED
  BY <1>5 DEF Good

SumOn(f, T) == SumFunction([x \in T |-> f[x]])

LEMMA SumEmpty == ASSUME NEW f PROVE SumOn(f, {}) = 0
<1> DEFINE g == [x \in {} |-> f[x]]
<1>1. PICK it : Adds(g, it)
  BY FoldExists, FS_EmptySet
<1>2. Adds(g, CHOOSE jt : Adds(g, jt))
  BY <1>1
<1>3. (CHOOSE jt : Adds(g, jt))[{}] = 0
  BY <1>2 DEF Adds
<1> QED
  BY <1>3, SumIsFold DEF SumOn

LEMMA SumPicked ==
    ASSUME NEW f, NEW T, IsFiniteSet(T), T # {}
    PROVE  SumOn(f, T) = f[Pick(T)] + SumOn(f, T \ {Pick(T)})
<1> DEFINE p == Pick(T)
           g == [x \in T |-> f[x]]
           h == [x \in T \ {p} |-> f[x]]
           it == CHOOSE k : Adds(g, k)
           jt == CHOOSE k : Adds(h, k)
<1>1. p \in T /\ IsFiniteSet(T \ {p})
  BY Picked, FS_RemoveElement
<1>2. Adds(g, it)
  BY FoldExists
<1>3. Adds(h, jt)
  BY <1>1, FoldExists
<1>4. DOMAIN g = T /\ DOMAIN h = T \ {p} /\ (\A x \in T : g[x] = f[x]) /\ \A x \in T \ {p} : h[x] = f[x]
  OBVIOUS
<1>5. SumOn(f, T) = it[T] /\ SumOn(f, T \ {p}) = jt[T \ {p}]
  BY SumIsFold DEF SumOn
<1> HIDE DEF g, h, it, jt
<1>6. it[T \ {p}] = jt[T \ {p}]
  BY <1>1, <1>2, <1>3, <1>4, FoldsAgree
<1>7. it[T] = g[p] + it[T \ {p}]
  BY <1>2, <1>4 DEF Adds
<1> QED
  BY <1>1, <1>4, <1>5, <1>6, <1>7

LEMMA SumType ==
    ASSUME NEW f, NEW T, IsFiniteSet(T), \A x \in T : f[x] \in Int
    PROVE  SumOn(f, T) \in Int
<1> DEFINE Good == {U \in SUBSET T : SumOn(f, U) \in Int}
<1>1. {} \in Good
  BY SumEmpty
<1>2. ASSUME NEW U \in SUBSET T, U # {}, \A x \in U : U \ {x} \in Good PROVE U \in Good
  <2>1. Pick(U) \in U /\ IsFiniteSet(U)
    BY <1>2, Picked, FS_Subset
  <2>2. SumOn(f, U \ {Pick(U)}) \in Int /\ f[Pick(U)] \in Int
    BY <1>2, <2>1
  <2> QED
    BY <1>2, <2>1, <2>2, SumPicked
<1> HIDE DEF Good
<1>3. \A U \in SUBSET T : U # {} /\ (\A x \in U : U \ {x} \in Good) => U \in Good
  BY <1>2
<1>4. SUBSET T \subseteq Good
  BY <1>1, <1>3, BySize, Zenon
<1> QED
  BY <1>4 DEF Good

\* A sum is any one of its terms and the sum of the others.
LEMMA SumRemove ==
    ASSUME NEW f, NEW T, IsFiniteSet(T), \A x \in T : f[x] \in Int, NEW y \in T
    PROVE  SumOn(f, T) = f[y] + SumOn(f, T \ {y})
<1> DEFINE Good == {U \in SUBSET T : \A z \in U : SumOn(f, U) = f[z] + SumOn(f, U \ {z})}
<1>1. {} \in Good
  OBVIOUS
<1>2. ASSUME NEW U \in SUBSET T, U # {}, \A x \in U : U \ {x} \in Good PROVE U \in Good
  <2> DEFINE p == Pick(U)
  <2>1. p \in U /\ IsFiniteSet(U)
    BY <1>2, Picked, FS_Subset
  <2>2. SumOn(f, U) = f[p] + SumOn(f, U \ {p})
    BY <1>2, <2>1, SumPicked
  <2> HIDE DEF p
  <2>3. ASSUME NEW z \in U, z # p PROVE SumOn(f, U) = f[z] + SumOn(f, U \ {z})
    <3> DEFINE rest == U \ {p, z}
    <3>1. (U \ {p}) \ {z} = rest /\ (U \ {z}) \ {p} = rest
      OBVIOUS
    <3>2. SumOn(f, U \ {p}) = f[z] + SumOn(f, rest)
      <4>1. U \ {p} \in Good /\ z \in U \ {p}
        BY <1>2, <2>1, <2>3
      <4> QED
        BY <3>1, <4>1, Zenon
    <3>3. SumOn(f, U \ {z}) = f[p] + SumOn(f, rest)
      <4>1. U \ {z} \in Good /\ p \in U \ {z}
        BY <1>2, <2>1, <2>3
      <4> QED
        BY <3>1, <4>1, Zenon
    <3>4. SumOn(f, rest) \in Int /\ f[z] \in Int /\ f[p] \in Int
      BY <2>1, SumType, FS_Subset
    <3> HIDE DEF rest
    <3> QED
      BY <2>2, <3>2, <3>3, <3>4
  <2> QED
    BY <2>2, <2>3
<1> HIDE DEF Good
<1>3. \A U \in SUBSET T : U # {} /\ (\A x \in U : U \ {x} \in Good) => U \in Good
  BY <1>2
<1>4. SUBSET T \subseteq Good
  BY <1>1, <1>3, BySize, Zenon
<1>5. T \in Good
  BY <1>4
<1> QED
  BY <1>5 DEF Good

LEMMA SumSame ==
    ASSUME NEW f, NEW g, NEW T, \A x \in T : f[x] = g[x]
    PROVE  SumOn(f, T) = SumOn(g, T)
<1>1. [x \in T |-> f[x]] = [x \in T |-> g[x]]
  OBVIOUS
<1> QED
  BY <1>1, Zenon DEF SumOn

\* Terms that are at most others have a sum that is at most theirs.
LEMMA SumBound ==
    ASSUME NEW f, NEW g, NEW T, IsFiniteSet(T),
           \A x \in T : f[x] \in Int /\ g[x] \in Int /\ f[x] <= g[x]
    PROVE  SumOn(f, T) <= SumOn(g, T)
<1> DEFINE Good == {U \in SUBSET T : SumOn(f, U) <= SumOn(g, U)}
<1>1. {} \in Good
  BY SumEmpty
<1>2. ASSUME NEW U \in SUBSET T, U # {}, \A x \in U : U \ {x} \in Good PROVE U \in Good
  <2> DEFINE p == Pick(U)
  <2>1. p \in U /\ IsFiniteSet(U) /\ IsFiniteSet(U \ {p})
    BY <1>2, Picked, FS_Subset
  <2>2. SumOn(f, U) = f[p] + SumOn(f, U \ {p}) /\ SumOn(g, U) = g[p] + SumOn(g, U \ {p})
    BY <1>2, <2>1, SumPicked
  <2> HIDE DEF p
  <2>3. SumOn(f, U \ {p}) \in Int /\ SumOn(g, U \ {p}) \in Int
    BY <2>1, SumType
  <2>4. SumOn(f, U \ {p}) <= SumOn(g, U \ {p})
    BY <1>2, <2>1
  <2>5. f[p] \in Int /\ g[p] \in Int /\ f[p] <= g[p]
    BY <2>1
  <2>6. SumOn(f, U) <= SumOn(g, U)
    BY <2>2, <2>3, <2>4, <2>5
  <2> QED
    BY <2>6
<1> HIDE DEF Good
<1>3. \A U \in SUBSET T : U # {} /\ (\A x \in U : U \ {x} \in Good) => U \in Good
  BY <1>2
<1>4. SUBSET T \subseteq Good
  BY <1>1, <1>3, BySize, Zenon
<1> QED
  BY <1>4 DEF Good

\* Elements whose terms are zero may be left out.
LEMMA SumRestrict ==
    ASSUME NEW f, NEW T, IsFiniteSet(T), NEW V \in SUBSET T, \A x \in T : f[x] \in Int,
           \A x \in T : x \notin V => f[x] = 0
    PROVE  SumOn(f, T) = SumOn(f, V)
<1> DEFINE Good == {U \in SUBSET T : SumOn(f, U) = SumOn(f, U \cap V)}
<1>1. {} \in Good
  OBVIOUS
<1>2. ASSUME NEW U \in SUBSET T, U # {}, \A x \in U : U \ {x} \in Good PROVE U \in Good
  <2>1. CASE U \subseteq V
    <3>1. U \cap V = U
      BY <2>1
    <3> QED
      BY <3>1
  <2>2. CASE ~(U \subseteq V)
    <3>1. PICK y \in U : y \notin V
      BY <2>2
    <3>2. IsFiniteSet(U) /\ IsFiniteSet(U \ {y})
      BY FS_Subset
    <3>3. SumOn(f, U) = 0 + SumOn(f, U \ {y})
      BY <3>1, <3>2, SumRemove
    <3>4. SumOn(f, U \ {y}) \in Int
      BY <3>2, SumType
    <3>5. (U \ {y}) \cap V = U \cap V
      BY <3>1
    <3>6. SumOn(f, U \ {y}) = SumOn(f, U \cap V)
      BY <1>2, <3>5
    <3> QED
      BY <3>3, <3>4, <3>6
  <2> QED
    BY <2>1, <2>2
<1> HIDE DEF Good
<1>3. \A U \in SUBSET T : U # {} /\ (\A x \in U : U \ {x} \in Good) => U \in Good
  BY <1>2
<1>4. SUBSET T \subseteq Good
  BY <1>1, <1>3, BySize, Zenon
<1>5. SumOn(f, T) = SumOn(f, T \cap V) /\ T \cap V = V
  BY <1>4 DEF Good
<1> QED
  BY <1>5

LEMMA SumOnes ==
    ASSUME NEW f, NEW T, IsFiniteSet(T), \A x \in T : f[x] = 1
    PROVE  SumOn(f, T) = Cardinality(T)
<1> DEFINE Good == {U \in SUBSET T : SumOn(f, U) = Cardinality(U)}
<1>1. {} \in Good
  BY SumEmpty, FS_EmptySet
<1>2. ASSUME NEW U \in SUBSET T, U # {}, \A x \in U : U \ {x} \in Good PROVE U \in Good
  <2> DEFINE p == Pick(U)
  <2>1. p \in U /\ IsFiniteSet(U)
    BY <1>2, Picked, FS_Subset
  <2>2. SumOn(f, U) = f[p] + SumOn(f, U \ {p})
    BY <1>2, <2>1, SumPicked
  <2> HIDE DEF p
  <2>3. SumOn(f, U \ {p}) = Cardinality(U) - 1 /\ Cardinality(U) \in Nat
    BY <1>2, <2>1, FS_RemoveElement, FS_CardinalityType
  <2> QED
    BY <2>1, <2>2, <2>3
<1> HIDE DEF Good
<1>3. \A U \in SUBSET T : U # {} /\ (\A x \in U : U \ {x} \in Good) => U \in Good
  BY <1>2
<1>4. SUBSET T \subseteq Good
  BY <1>1, <1>3, BySize, Zenon
<1> QED
  BY <1>4 DEF Good

\* Sums over sets that correspond, of terms that do, are equal.
LEMMA SumRenamed ==
    ASSUME NEW f, NEW g, NEW T, NEW V, IsFiniteSet(T), NEW h \in Bijection(T, V),
           \A x \in T : f[x] \in Int /\ f[x] = g[h[x]]
    PROVE  SumOn(f, T) = SumOn(g, V)
<1> DEFINE At(U) == {h[x] : x \in U}
           Good == {U \in SUBSET T : SumOn(f, U) = SumOn(g, At(U))}
<1>1. {} \in Good
  <2>1. At({}) = {}
    OBVIOUS
  <2> QED
    BY <2>1, SumEmpty
<1>2. ASSUME NEW U \in SUBSET T, U # {}, \A x \in U : U \ {x} \in Good PROVE U \in Good
  <2> DEFINE p == Pick(U)
  <2>1. p \in U /\ IsFiniteSet(U)
    BY <1>2, Picked, FS_Subset
  <2>2. SumOn(f, U) = f[p] + SumOn(f, U \ {p})
    BY <1>2, <2>1, SumPicked
  <2> HIDE DEF p
  <2>3. At(U \ {p}) = At(U) \ {h[p]}
    BY <2>1 DEF Bijection, Injection, IsInjective
  <2>4. IsFiniteSet(At(U))
    <3> DEFINE k == [x \in U |-> h[x]]
    <3>1. k \in Surjection(U, At(U))
      BY DEF Surjection
    <3> QED
      BY <2>1, <3>1, FS_Surjection
  <2>5. \A y \in At(U) : g[y] \in Int
    OBVIOUS
  <2>6. h[p] \in At(U) /\ g[h[p]] = f[p]
    BY <2>1
  <2> HIDE DEF At
  <2>7. SumOn(g, At(U)) = g[h[p]] + SumOn(g, At(U) \ {h[p]})
    BY <2>4, <2>5, <2>6, SumRemove
  <2>8. SumOn(f, U \ {p}) = SumOn(g, At(U \ {p}))
    BY <1>2, <2>1
  <2> QED
    BY <2>2, <2>3, <2>6, <2>7, <2>8
<1> HIDE DEF Good
<1>3. \A U \in SUBSET T : U # {} /\ (\A x \in U : U \ {x} \in Good) => U \in Good
  BY <1>2
<1>4. SUBSET T \subseteq Good
  BY <1>1, <1>3, BySize, Zenon
<1>5. At(T) = V
  BY DEF Bijection, Surjection
<1>6. SumOn(f, T) = SumOn(g, At(T))
  BY <1>4 DEF Good
<1> QED
  BY <1>5, <1>6

\* A sum of sums.
LEMMA SumPlus ==
    ASSUME NEW f, NEW g, NEW h, NEW T, IsFiniteSet(T),
           \A x \in T : f[x] \in Int /\ g[x] \in Int /\ h[x] = f[x] + g[x]
    PROVE  SumOn(h, T) = SumOn(f, T) + SumOn(g, T)
<1> DEFINE Good == {U \in SUBSET T : SumOn(h, U) = SumOn(f, U) + SumOn(g, U)}
<1>1. {} \in Good
  BY SumEmpty
<1>2. ASSUME NEW U \in SUBSET T, U # {}, \A x \in U : U \ {x} \in Good
      PROVE  U \in Good
  <2> DEFINE p == Pick(U)
  <2>1. p \in U /\ IsFiniteSet(U) /\ IsFiniteSet(U \ {p})
    BY <1>2, Picked, FS_Subset
  <2>2. /\ SumOn(f, U) = f[p] + SumOn(f, U \ {p}) /\ SumOn(g, U) = g[p] + SumOn(g, U \ {p})
        /\ SumOn(h, U) = h[p] + SumOn(h, U \ {p})
    BY <1>2, <2>1, SumPicked
  <2> HIDE DEF p
  <2>3. SumOn(f, U \ {p}) \in Int /\ SumOn(g, U \ {p}) \in Int
    BY <2>1, SumType
  <2>4. SumOn(h, U \ {p}) = SumOn(f, U \ {p}) + SumOn(g, U \ {p})
    BY <1>2, <2>1
  <2>5. f[p] \in Int /\ g[p] \in Int /\ h[p] = f[p] + g[p]
    BY <2>1
  <2> QED
    BY <2>2, <2>3, <2>4, <2>5
<1> HIDE DEF Good
<1>3. SUBSET T \subseteq Good
  BY <1>1, <1>2, BySize
<1> QED
  BY <1>3 DEF Good

\* A sum of multiples.
LEMMA SumTimes ==
    ASSUME NEW f, NEW g, NEW k \in Int, NEW T, IsFiniteSet(T),
           \A x \in T : f[x] \in Int /\ g[x] = f[x] * k
    PROVE  SumOn(g, T) = SumOn(f, T) * k
<1> DEFINE Good == {U \in SUBSET T : SumOn(g, U) = SumOn(f, U) * k}
<1>1. {} \in Good
  BY SumEmpty
<1>2. ASSUME NEW U \in SUBSET T, U # {}, \A x \in U : U \ {x} \in Good
      PROVE  U \in Good
  <2> DEFINE p == Pick(U)
  <2>1. p \in U /\ IsFiniteSet(U) /\ IsFiniteSet(U \ {p})
    BY <1>2, Picked, FS_Subset
  <2>2. SumOn(f, U) = f[p] + SumOn(f, U \ {p}) /\ SumOn(g, U) = g[p] + SumOn(g, U \ {p})
    BY <1>2, <2>1, SumPicked
  <2> HIDE DEF p
  <2>3. SumOn(f, U \ {p}) \in Int
    BY <2>1, SumType
  <2>4. SumOn(g, U \ {p}) = SumOn(f, U \ {p}) * k
    BY <1>2, <2>1
  <2>5. f[p] \in Int /\ g[p] = f[p] * k
    BY <2>1
  <2>6. \A a, b \in Int : (a + b) * k = a * k + b * k
    OBVIOUS
  <2> QED
    BY <2>2, <2>3, <2>4, <2>5, <2>6
<1> HIDE DEF Good
<1>3. SUBSET T \subseteq Good
  BY <1>1, <1>2, BySize
<1> QED
  BY <1>3 DEF Good

\* A sum of bits is a number of elements.
LEMMA SumBits ==
    ASSUME NEW f, NEW T, IsFiniteSet(T), NEW V \in SUBSET T,
           \A x \in T : f[x] = IF x \in V THEN 1 ELSE 0
    PROVE  SumOn(f, T) = Cardinality(V)
<1>1. SumOn(f, T) = SumOn(f, V)
  BY SumRestrict
<1>2. SumOn(f, V) = Cardinality(V)
  BY FS_Subset, SumOnes
<1> QED
  BY <1>1, <1>2

\* One of two sets without a common element after the other.
LEMMA SumJoined ==
    ASSUME NEW f, NEW T, IsFiniteSet(T), NEW V \in SUBSET T, \A x \in T : f[x] \in Int
    PROVE  SumOn(f, T) = SumOn(f, V) + SumOn(f, T \ V)
<1> DEFINE g == [x \in T |-> IF x \in V THEN f[x] ELSE 0]
           h == [x \in T |-> IF x \in V THEN 0 ELSE f[x]]
           W == T \ V
<1>1. \A x \in T : g[x] \in Int /\ h[x] \in Int /\ f[x] = g[x] + h[x]
  OBVIOUS
<1>2. /\ \A x \in T : x \notin V => g[x] = 0
      /\ \A x \in V : g[x] = f[x]
      /\ W \in SUBSET T
      /\ \A x \in T : x \notin W => h[x] = 0
      /\ \A x \in W : h[x] = f[x]
  OBVIOUS
<1> HIDE DEF g, h, W
<1>3. SumOn(f, T) = SumOn(g, T) + SumOn(h, T)
  BY <1>1, SumPlus
<1>4. SumOn(g, T) = SumOn(g, V) /\ SumOn(h, T) = SumOn(h, W)
  BY <1>1, <1>2, SumRestrict
<1>5. SumOn(g, V) = SumOn(f, V) /\ SumOn(h, W) = SumOn(f, W)
  BY <1>2, SumSame
<1> QED
  BY <1>3, <1>4, <1>5 DEF W

\* What is added up key by key is the sum of the whole.
LEMMA SumByKey ==
    ASSUME NEW f, NEW T, IsFiniteSet(T), \A x \in T : f[x] \in Int, NEW key, NEW K, IsFiniteSet(K),
           \A x \in T : key[x] \in K,
           NEW g, \A k \in K : g[k] = SumOn(f, {x \in T : key[x] = k})
    PROVE  SumOn(f, T) = SumOn(g, K)
<1> DEFINE Of(U) == {x \in T : key[x] \in U}
           Good == {U \in SUBSET K : SumOn(f, Of(U)) = SumOn(g, U)}
<1>1. {} \in Good
  <2>1. Of({}) = {}
    OBVIOUS
  <2> QED
    BY <2>1, SumEmpty
<1>2. ASSUME NEW U \in SUBSET K, U # {}, \A x \in U : U \ {x} \in Good
      PROVE  U \in Good
  <2> DEFINE p == Pick(U)
             V == U \ {p}
             T1 == Of(U)
             T2 == Of(V)
  <2>1. p \in U /\ IsFiniteSet(U)
    BY <1>2, Picked, FS_Subset
  <2>2. SumOn(g, U) = g[p] + SumOn(g, V)
    BY <1>2, <2>1, SumPicked
  <2>3. IsFiniteSet(T1) /\ T2 \in SUBSET T1 /\ T1 \ T2 = {x \in T : key[x] = p}
    <3>1. T1 \in SUBSET T
      OBVIOUS
    <3>2. IsFiniteSet(T1)
      BY <3>1, FS_Subset
    <3> QED
      BY <2>1, <3>2
  <2>4. \A x \in T1 : f[x] \in Int
    OBVIOUS
  <2>5. SumOn(f, T2) = SumOn(g, V)
    BY <1>2, <2>1
  <2>6. SumOn(f, T1 \ T2) = g[p]
    BY <2>1, <2>3
  <2>7. SumOn(f, T2) \in Int /\ SumOn(f, T1 \ T2) \in Int
    BY <2>3, <2>4, FS_Subset, SumType
  <2> HIDE DEF T1, T2, p, V
  <2>8. SumOn(f, T1) = SumOn(f, T2) + SumOn(f, T1 \ T2)
    BY <2>3, <2>4, SumJoined
  <2>9. SumOn(f, T1) = SumOn(g, U)
    BY <2>2, <2>5, <2>6, <2>7, <2>8
  <2> QED
    BY <2>9 DEF T1
<1>3. Of(K) = T
  OBVIOUS
<1> HIDE DEF Good
<1>4. SUBSET K \subseteq Good
  BY <1>1, <1>2, BySize
<1> QED
  BY <1>3, <1>4 DEF Good

-----------------------------------------------------------------------------
(* Counting.                                                               *)

\* A set whose elements are told apart by what they map to is as large as what
\* they map to, and only such a set.
LEMMA CountImage ==
    ASSUME NEW S, IsFiniteSet(S), NEW f, DOMAIN f = S
    PROVE  LET image_ == {f[x] : x \in S}
           IN  /\ IsFiniteSet(image_)
               /\ Cardinality(image_) <= Cardinality(S)
               /\ Cardinality(image_) = Cardinality(S) <=> \A x, y \in S : f[x] = f[y] => x = y
<1> DEFINE T == {f[x] : x \in S}
           g == [x \in S |-> f[x]]
<1>1. g \in Surjection(S, T)
  BY DEF Surjection
<1>2. /\ IsFiniteSet(T) /\ Cardinality(T) <= Cardinality(S)
      /\ Cardinality(T) = Cardinality(S) <=> g \in Injection(S, T)
  BY <1>1, FS_Surjection
<1>3. g \in Injection(S, T) <=> \A x, y \in S : f[x] = f[y] => x = y
  BY DEF Injection, IsInjective
<1> QED
  BY <1>2, <1>3

LEMMA AtMostOne ==
    ASSUME NEW S, IsFiniteSet(S)
    PROVE  /\ Cardinality(S) \in Nat
           /\ Cardinality(S) <= 1 <=> \A x, y \in S : x = y
           /\ Cardinality(S) = 1 <=> S # {} /\ \A x, y \in S : x = y
<1>1. Cardinality(S) \in Nat
  BY FS_CardinalityType
<1>2. Cardinality(S) = 0 <=> S = {}
  BY FS_EmptySet
<1>3. Cardinality(S) = 1 <=> \E x : S = {x}
  BY FS_Singleton
<1>4. (\E x : S = {x}) <=> S # {} /\ \A x, y \in S : x = y
  OBVIOUS
<1>5. Cardinality(S) <= 1 <=> Cardinality(S) = 0 \/ Cardinality(S) = 1
  BY <1>1
<1>6. Cardinality(S) = 1 <=> S # {} /\ \A x, y \in S : x = y
  BY <1>3, <1>4, Zenon
<1>7. Cardinality(S) <= 1 <=> \A x, y \in S : x = y
  <2>1. CASE S = {}
    BY <1>2, <1>5, <2>1
  <2>2. CASE S # {}
    BY <1>2, <1>5, <1>6, <2>2, Zenon
  <2> QED
    BY <2>1, <2>2
<1> QED
  BY <1>1, <1>6, <1>7

-----------------------------------------------------------------------------
(* The smallest and the largest element of a set.                         *)

LEMMA Bounded ==
    ASSUME NEW S, S # {}, NEW n \in Nat, S \subseteq 0..n
    PROVE  /\ Min(S) \in S /\ \A y \in S : Min(S) <= y
           /\ Max(S) \in S /\ \A y \in S : Max(S) >= y
<1>1. \E m \in S : \A y \in S : m <= y
  BY Smallest
<1>2. \E m \in S : \A y \in S : m >= y
  <2> DEFINE R == {n - y : y \in S}
  <2>1. R \in SUBSET Nat /\ R # {}
    <3>1. \A y \in S : y \in Int /\ n - y \in Nat
      OBVIOUS
    <3> QED
      BY <3>1
  <2>2. PICK k \in R : \A j \in R : k <= j
    BY <2>1, Smallest
  <2>3. PICK m \in S : k = n - m
    BY <2>2
  <2>4. ASSUME NEW y \in S PROVE m >= y
    <3>1. n - m <= n - y
      BY <2>2, <2>3
    <3> QED
      BY <3>1
  <2> QED
    BY <2>4
<1> QED
  BY <1>1, <1>2 DEF Min, Max

\* A set with one more element that is no smaller, or no larger, than the others.
LEMMA MinWith ==
    ASSUME NEW S, NEW T, NEW n \in Nat, S # {}, S \subseteq T, T \subseteq 0..n,
           \A y \in T : y \in S \/ \A z \in S : z <= y
    PROVE  Min(S) = Min(T)
<1>1. Min(S) \in S /\ \A y \in S : Min(S) <= y
  BY Bounded
<1>2. Min(T) \in T /\ \A y \in T : Min(T) <= y
  BY Bounded
<1> DEFINE a == Min(S)
           b == Min(T)
<1> HIDE DEF a, b
<1>3. a \in S /\ b \in T /\ (\A y \in S : a <= y) /\ \A y \in T : b <= y
  BY <1>1, <1>2 DEF a, b
<1>4. b <= a /\ a <= b
  BY <1>3
<1>5. a \in 0..n /\ b \in 0..n
  BY <1>3
<1>6. a = b
  BY <1>4, <1>5
<1> QED
  BY <1>6 DEF a, b

LEMMA MaxWith ==
    ASSUME NEW S, NEW T, NEW n \in Nat, S # {}, S \subseteq T, T \subseteq 0..n,
           \A y \in T : y \in S \/ \A z \in S : z >= y
    PROVE  Max(S) = Max(T)
<1>1. Max(S) \in S /\ \A y \in S : Max(S) >= y
  BY Bounded
<1>2. Max(T) \in T /\ \A y \in T : Max(T) >= y
  BY Bounded
<1> DEFINE a == Max(S)
           b == Max(T)
<1> HIDE DEF a, b
<1>3. a \in S /\ b \in T /\ (\A y \in S : a >= y) /\ \A y \in T : b >= y
  BY <1>1, <1>2 DEF a, b
<1>4. b >= a /\ a >= b
  BY <1>3
<1>5. a \in 0..n /\ b \in 0..n
  BY <1>3
<1>6. a = b
  BY <1>4, <1>5
<1> QED
  BY <1>6 DEF a, b

LEMMA OfTwo ==
    ASSUME NEW a \in Int, NEW b \in Int
    PROVE  /\ Max({a, b}) \in {a, b} /\ Max({a, b}) >= a /\ Max({a, b}) >= b
           /\ Min({a, b}) \in {a, b} /\ Min({a, b}) <= a /\ Min({a, b}) <= b
<1>1. \E m \in {a, b} : \A y \in {a, b} : m >= y
  OBVIOUS
<1>2. \E m \in {a, b} : \A y \in {a, b} : m <= y
  OBVIOUS
<1> QED
  BY <1>1, <1>2 DEF Max, Min

-----------------------------------------------------------------------------
(* The order of a set (InOrder).                                           *)

\* R is a strict total order of S.
Orders(R, S) ==
    /\ \A x \in S : <<x, x>> \notin R
    /\ \A x, y, z \in S : <<x, y>> \in R /\ <<y, z>> \in R => <<x, z>> \in R
    /\ \A x, y \in S : x = y \/ <<x, y>> \in R \/ <<y, x>> \in R

Before(R, S, x) == {y \in S : <<y, x>> \in R}

\* How many elements come before one tells it apart from the others.
LEMMA Ranks ==
    ASSUME NEW S, IsFiniteSet(S), NEW R, Orders(R, S)
    PROVE  /\ \A x \in S : /\ IsFiniteSet(Before(R, S, x)) /\ Cardinality(Before(R, S, x)) \in Nat
                           /\ Cardinality(Before(R, S, x)) < Cardinality(S)
           /\ \A x, y \in S : <<x, y>> \in R => Cardinality(Before(R, S, x)) < Cardinality(Before(R, S, y))
           /\ \A x, y \in S : Cardinality(Before(R, S, x)) = Cardinality(Before(R, S, y)) => x = y
<1> DEFINE n == Cardinality(S)
<1>1. n \in Nat
  BY FS_CardinalityType
<1>2. \A x \in S : IsFiniteSet(Before(R, S, x)) /\ Cardinality(Before(R, S, x)) \in Nat
  BY FS_Subset, FS_CardinalityType DEF Before
<1>3. ASSUME NEW x \in S PROVE Cardinality(Before(R, S, x)) < n
  <2>1. Before(R, S, x) \in SUBSET S /\ x \notin Before(R, S, x)
    BY DEF Before, Orders
  <2>2. Cardinality(Before(R, S, x)) <= n /\ Cardinality(Before(R, S, x)) # n
    BY <2>1, FS_Subset
  <2> QED
    BY <1>1, <1>2, <2>2
<1>4. ASSUME NEW x \in S, NEW y \in S, <<x, y>> \in R
      PROVE  Cardinality(Before(R, S, x)) < Cardinality(Before(R, S, y))
  <2>1. Before(R, S, x) \in SUBSET Before(R, S, y)
    BY <1>4 DEF Before, Orders
  <2>2. x \in Before(R, S, y) /\ x \notin Before(R, S, x)
    BY <1>4 DEF Before, Orders
  <2>3. Cardinality(Before(R, S, x)) <= Cardinality(Before(R, S, y))
        /\ Cardinality(Before(R, S, x)) # Cardinality(Before(R, S, y))
    BY <1>2, <2>1, <2>2, FS_Subset
  <2> QED
    BY <1>2, <2>3
<1>5. ASSUME NEW x \in S, NEW y \in S, Cardinality(Before(R, S, x)) = Cardinality(Before(R, S, y))
      PROVE  x = y
  <2>1. <<x, y>> \notin R /\ <<y, x>> \notin R
    BY <1>2, <1>4, <1>5
  <2> QED
    BY <2>1 DEF Orders
<1> QED
  BY <1>2, <1>3, <1>4, <1>5

\* Every place of the order is taken.
LEMMA EveryRank ==
    ASSUME NEW S, IsFiniteSet(S), NEW R, Orders(R, S)
    PROVE  \A i \in 1..Cardinality(S) : \E x \in S : Cardinality(Before(R, S, x)) = i - 1
<1> DEFINE n == Cardinality(S)
           rank == [x \in S |-> Cardinality(Before(R, S, x)) + 1]
<1>1. n \in Nat
  BY FS_CardinalityType
<1>2. rank \in Injection(S, 1..n)
  <2>1. \A x \in S : rank[x] \in 1..n
    BY <1>1, Ranks
  <2>2. ASSUME NEW x \in S, NEW y \in S, rank[x] = rank[y] PROVE x = y
    <3>1. Cardinality(Before(R, S, x)) = Cardinality(Before(R, S, y))
      BY <2>2, Ranks
    <3> QED
      BY <3>1, Ranks
  <2> QED
    BY <2>1, <2>2 DEF Injection, IsInjective
<1>3. IsFiniteSet(1..n) /\ Cardinality(1..n) = n
  BY <1>1, FS_Interval
<1>4. rank \in Surjection(S, 1..n)
  BY <1>2, <1>3, FS_Injection
<1>5. ASSUME NEW i \in 1..n PROVE \E x \in S : Cardinality(Before(R, S, x)) = i - 1
  <2>1. PICK x \in S : rank[x] = i
    BY <1>4 DEF Surjection
  <2>2. Cardinality(Before(R, S, x)) + 1 = i
    BY <2>1
  <2> QED
    BY <2>2, Ranks
<1> QED
  BY <1>5

Listed(R, S) ==
    [i \in 1..Cardinality(S) |-> CHOOSE x \in S : Cardinality(Before(R, S, x)) = i - 1]

\* The list of a set has every element once, in the order of the set.
LEMMA ListedAll ==
    ASSUME NEW S, IsFiniteSet(S), NEW R, Orders(R, S)
    PROVE  /\ Listed(R, S) \in [1..Cardinality(S) -> S]
           /\ \A i \in 1..Cardinality(S) : Cardinality(Before(R, S, Listed(R, S)[i])) = i - 1
           /\ \A x \in S : \E i \in 1..Cardinality(S) : Listed(R, S)[i] = x
           /\ \A i, j \in 1..Cardinality(S) : i < j => <<Listed(R, S)[i], Listed(R, S)[j]>> \in R
<1> DEFINE n == Cardinality(S)
           q == Listed(R, S)
           rank == [x \in S |-> Cardinality(Before(R, S, x))]
<1>1. n \in Nat
  BY FS_CardinalityType
<1>2. \A i \in 1..n : q[i] \in S /\ rank[q[i]] = i - 1
  BY EveryRank DEF Listed
<1>3. q \in [1..n -> S]
  BY <1>2 DEF Listed
<1> HIDE DEF q
<1>4. \A x, y \in S : /\ rank[x] \in Nat /\ rank[x] < n /\ (<<x, y>> \in R => rank[x] < rank[y])
                      /\ (rank[x] = rank[y] => x = y)
  BY Ranks
<1>5. \A i \in 1..n : Cardinality(Before(R, S, q[i])) = i - 1
  BY <1>2
<1> HIDE DEF rank
<1>6. ASSUME NEW x \in S PROVE \E i \in 1..n : q[i] = x
  <2> DEFINE i == rank[x] + 1
  <2>0. rank[x] \in Nat /\ rank[x] < n
    BY <1>4
  <2>1. i \in 1..n /\ i - 1 = rank[x]
    BY <1>1, <2>0
  <2>2. q[i] \in S /\ rank[q[i]] = rank[x]
    BY <1>2, <2>1
  <2>3. q[i] = x
    BY <1>4, <2>2
  <2> QED
    BY <2>1, <2>3
<1>7. ASSUME NEW i \in 1..n, NEW j \in 1..n, i < j PROVE <<q[i], q[j]>> \in R
  <2>1. q[i] \in S /\ q[j] \in S /\ rank[q[i]] = i - 1 /\ rank[q[j]] = j - 1
    BY <1>2
  <2>2. q[i] # q[j] /\ ~(rank[q[j]] < rank[q[i]])
    BY <1>7, <2>1
  <2> QED
    BY <1>4, <2>1, <2>2 DEF Orders
<1> QED
  BY <1>3, <1>5, <1>6, <1>7 DEF q

\* Sets that correspond in order have lists that correspond.
LEMMA ListRenamed ==
    ASSUME NEW S, IsFiniteSet(S), NEW R, Orders(R, S), NEW T, NEW Q, Orders(Q, T),
           NEW h \in Bijection(S, T), \A x, y \in S : <<x, y>> \in R <=> <<h[x], h[y]>> \in Q
    PROVE  /\ Cardinality(T) = Cardinality(S) /\ IsFiniteSet(T)
           /\ \A i \in 1..Cardinality(S) : Listed(Q, T)[i] = h[Listed(R, S)[i]]
<1>1. IsFiniteSet(T) /\ Cardinality(T) = Cardinality(S)
  <2>1. h \in Surjection(S, T) /\ h \in Injection(S, T)
    BY DEF Bijection
  <2> QED
    BY <2>1, FS_Surjection
<1>2. /\ DOMAIN h = S /\ \A x \in S : h[x] \in T
      /\ \A x, y \in S : h[x] = h[y] => x = y
      /\ \A y \in T : \E x \in S : h[x] = y
  BY DEF Bijection, Injection, Surjection, IsInjective
<1>3. ASSUME NEW x \in S PROVE Cardinality(Before(Q, T, h[x])) = Cardinality(Before(R, S, x))
  <2> DEFINE B == Before(R, S, x)
             k == [y \in B |-> h[y]]
             C == {k[y] : y \in B}
  <2>1. IsFiniteSet(B) /\ B \subseteq S
    BY Ranks DEF Before
  <2>2. Cardinality(C) = Cardinality(B)
    <3>1. \A y, z \in B : k[y] = k[z] => y = z
      BY <1>2, <2>1
    <3> QED
      BY <2>1, <3>1, CountImage
  <2>3. C = {h[y] : y \in B}
    OBVIOUS
  <2>4. ASSUME NEW z \in T PROVE <<z, h[x]>> \in Q <=> \E y \in B : h[y] = z
    <3>1. PICK y \in S : h[y] = z
      BY <1>2
    <3>2. y \in B <=> <<z, h[x]>> \in Q
      BY <3>1 DEF Before
    <3>3. \A w \in B : h[w] = z => w = y
      BY <1>2, <2>1, <3>1
    <3> QED
      BY <3>1, <3>2, <3>3
  <2>5. \A y \in B : h[y] \in T
    BY <1>2, <2>1
  <2> HIDE DEF B, C
  <2>6. C = Before(Q, T, h[x])
    BY <2>3, <2>4, <2>5 DEF Before
  <2> QED
    BY <2>2, <2>6 DEF B
<1>4. ASSUME NEW i \in 1..Cardinality(S) PROVE Listed(Q, T)[i] = h[Listed(R, S)[i]]
  <2> DEFINE x == Listed(R, S)[i]
             y == Listed(Q, T)[i]
  <2>1. x \in S /\ Cardinality(Before(R, S, x)) = i - 1
    <3>1. /\ Listed(R, S) \in [1..Cardinality(S) -> S]
          /\ \A k \in 1..Cardinality(S) : Cardinality(Before(R, S, Listed(R, S)[k])) = k - 1
      BY ListedAll, Zenon
    <3> QED
      BY <3>1
  <2>2. y \in T /\ Cardinality(Before(Q, T, y)) = i - 1
    <3>1. /\ Listed(Q, T) \in [1..Cardinality(T) -> T]
          /\ \A k \in 1..Cardinality(T) : Cardinality(Before(Q, T, Listed(Q, T)[k])) = k - 1
      BY <1>1, ListedAll, Zenon
    <3> QED
      BY <1>1, <3>1
  <2> HIDE DEF x, y
  <2>3. h[x] \in T /\ Cardinality(Before(Q, T, h[x])) = Cardinality(Before(Q, T, y))
    BY <1>2, <1>3, <2>1, <2>2
  <2>4. h[x] = y
    BY <1>1, <2>2, <2>3, Ranks
  <2> QED
    BY <2>4 DEF x, y
<1> QED
  BY <1>1, <1>4

\* The places of the elements of a set in its list.
Places(pos, R, S) ==
    /\ pos \in [S -> 1..Cardinality(S)]
    /\ \A x \in S : Listed(R, S)[pos[x]] = x
    /\ \A i \in 1..Cardinality(S) : Listed(R, S)[i] \in S /\ pos[Listed(R, S)[i]] = i
    /\ \A x, y \in S : <<x, y>> \in R <=> pos[x] < pos[y]

\* Every element has one place.
LEMMA PlacesExist ==
    ASSUME NEW S, IsFiniteSet(S), NEW R, Orders(R, S)
    PROVE  \E pos : Places(pos, R, S)
<1> DEFINE n == Cardinality(S)
           q == Listed(R, S)
           pos == [x \in S |-> CHOOSE i \in 1..n : q[i] = x]
<1>1. n \in Nat
  BY FS_CardinalityType
<1>2. q \in [1..n -> S]
  BY ListedAll
<1>3. \A x \in S : \E i \in 1..n : q[i] = x
  BY ListedAll
<1>4. \A i, j \in 1..n : i < j => <<q[i], q[j]>> \in R
  BY ListedAll
<1> HIDE DEF q, n
<1>5. \A x \in S : pos[x] \in 1..n /\ q[pos[x]] = x
  BY <1>3
<1>6. pos \in [S -> 1..n]
  BY <1>5
<1> HIDE DEF pos
<1>7. ASSUME NEW x \in S, NEW y \in S PROVE <<x, y>> \in R <=> pos[x] < pos[y]
  <2>1. pos[x] < pos[y] => <<x, y>> \in R
    BY <1>4, <1>5
  <2>2. pos[y] < pos[x] => <<y, x>> \in R
    BY <1>4, <1>5
  <2>3. pos[x] = pos[y] => x = y
    BY <1>5
  <2>4. pos[x] \in Int /\ pos[y] \in Int
    BY <1>1, <1>5
  <2>5. ASSUME <<x, y>> \in R PROVE pos[x] < pos[y]
    <3>1. ~(<<y, x>> \in R) /\ x # y
      BY <2>5 DEF Orders
    <3> QED
      BY <2>2, <2>3, <2>4, <3>1
  <2> QED
    BY <2>1, <2>5
<1>8. ASSUME NEW i \in 1..n PROVE q[i] \in S /\ pos[q[i]] = i
  <2>1. q[i] \in S
    BY <1>2
  <2> DEFINE j == pos[q[i]]
  <2>2. j \in 1..n /\ q[j] = q[i]
    BY <1>5, <2>1
  <2> HIDE DEF j
  <2>3. ~(<<q[i], q[i]>> \in R)
    BY <2>1 DEF Orders
  <2>4. ~(i < j) /\ ~(j < i)
    BY <1>4, <2>2, <2>3
  <2>5. i \in Int /\ j \in Int
    BY <1>1, <2>2
  <2> QED
    BY <2>1, <2>4, <2>5 DEF j
<1> QED
  BY <1>5, <1>6, <1>7, <1>8 DEF Places, q, n
-----------------------------------------------------------------------------
(* Folds over the places of a list.                                        *)

\* The largest of the first numbers.
LEMMA FirstOnes ==
    ASSUME NEW m \in Nat \ {0}
    PROVE  1..m # {} /\ Max(1..m) = m /\ (1..m) \ {Max(1..m)} = 1..(m - 1)
<1>1. 1..m # {} /\ 1..m \subseteq 0..m
  OBVIOUS
<1>2. Max(1..m) \in 1..m /\ \A y \in 1..m : Max(1..m) >= y
  BY <1>1, Bounded
<1>3. Max(1..m) = m
  BY <1>2
<1> QED
  BY <1>1, <1>3

\* The results of a fold over the first places of a list.
Iterates(it, A, base, n, step) ==
    /\ \A s \in SUBSET (1..n) : it[s] \in A
    /\ it = [s \in SUBSET (1..n) |-> IF s = {} THEN base ELSE step[<<it[s \ {Max(s)}], Max(s)>>]]

\* A fold over the places of a list, from the first one (FoldLeft of the module
\* SequencesExt), exists when its steps stay in a set.
LEMMA IteratesExist ==
    ASSUME NEW A, NEW base \in A, NEW n \in Nat, NEW step,
           \A a \in A : \A i \in 1..n : step[<<a, i>>] \in A
    PROVE  \E it : Iterates(it, A, base, n, step)
<1> DEFINE D == 1..n
           Step(it, s) == IF s = {} THEN base ELSE step[<<it[s \ {Max(s)}], Max(s)>>]
           G == {k \in Nat : \E it : \A s \in SUBSET D : Cardinality(s) <= k => it[s] = Step(it, s) /\ it[s] \in A}
<1>0. IsFiniteSet(D) /\ D \subseteq 0..n
  BY FS_Interval
<1>1. \A s \in SUBSET D : IsFiniteSet(s) /\ Cardinality(s) \in Nat
  BY <1>0, FS_Subset, FS_CardinalityType
<1>2. \A s \in SUBSET D : s # {} => Max(s) \in s
  <2>1. \A s \in SUBSET D : s # {} => s \subseteq 0..n
    BY <1>0
  <2> QED
    BY <2>1, Bounded
<1>3. 0 \in G
  <2> DEFINE zero == [s \in SUBSET D |-> base]
  <2>1. \A s \in SUBSET D : Cardinality(s) <= 0 => s = {}
    BY <1>1, FS_EmptySet
  <2>2. \A s \in SUBSET D : Cardinality(s) <= 0 => zero[s] = Step(zero, s) /\ zero[s] \in A
    BY <2>1
  <2> QED
    BY <2>2
<1>4. ASSUME NEW k \in Nat, k \in G PROVE k + 1 \in G
  <2>1. PICK it : \A s \in SUBSET D : Cardinality(s) <= k => it[s] = Step(it, s) /\ it[s] \in A
    BY <1>4
  <2> DEFINE next == [s \in SUBSET D |-> Step(it, s)]
  <2>2. ASSUME NEW s \in SUBSET D, Cardinality(s) <= k + 1 PROVE next[s] = Step(next, s) /\ next[s] \in A
    <3>1. CASE s = {}
      BY <3>1
    <3>2. CASE s # {}
      <4> DEFINE t == s \ {Max(s)}
      <4>0. Max(s) \in s /\ t \in SUBSET D /\ Max(s) \in D /\ IsFiniteSet(s)
        BY <1>1, <1>2, <3>2
      <4>1. t \in SUBSET D /\ Cardinality(t) <= k /\ Max(s) \in D
        <5>1. Cardinality(t) = Cardinality(s) - 1
          BY <4>0, FS_RemoveElement
        <5> QED
          BY <1>1, <2>2, <4>0, <5>1
      <4>2. it[t] = next[t] /\ it[t] \in A
        BY <2>1, <4>1
      <4> HIDE DEF next
      <4>3. Step(it, s) = Step(next, s)
        BY <3>2, <4>2
      <4>4. Step(it, s) \in A
        BY <3>2, <4>1, <4>2
      <4> QED
        BY <4>3, <4>4 DEF next
    <3> QED
      BY <3>1, <3>2
  <2> HIDE DEF next, Step
  <2> QED
    BY <2>2
<1> HIDE DEF G
<1>5. Nat \subseteq G
  BY <1>3, <1>4, Counting
<1>6. Cardinality(D) \in G
  BY <1>1, <1>5
<1>7. PICK it : \A s \in SUBSET D : Cardinality(s) <= Cardinality(D) => it[s] = Step(it, s) /\ it[s] \in A
  BY <1>6 DEF G
<1>8. \A s \in SUBSET D : it[s] = Step(it, s) /\ it[s] \in A
  BY <1>0, <1>1, <1>7, FS_Subset
<1> DEFINE that == [s \in SUBSET D |-> it[s]]
<1>9. ASSUME NEW s \in SUBSET D PROVE that[s] = Step(that, s) /\ that[s] \in A
  <2>1. s # {} => s \ {Max(s)} \in SUBSET D
    BY <1>2
  <2> QED
    BY <1>8, <2>1
<1>10. that = [s \in SUBSET D |-> Step(that, s)]
  BY <1>9
<1> HIDE DEF that
<1> QED
  BY <1>9, <1>10, Zenon DEF Iterates

\* A sum of terms that add a multiple.
LEMMA SumLinear ==
    ASSUME NEW f, NEW g, NEW h, NEW k \in Int, NEW T, IsFiniteSet(T),
           \A y \in T : f[y] \in Int /\ g[y] \in Int /\ h[y] = f[y] + g[y] * k
    PROVE  SumOn(h, T) = SumOn(f, T) + SumOn(g, T) * k
<1> DEFINE m == [y \in T |-> g[y] * k]
<1>1. \A y \in T : g[y] \in Int /\ m[y] = g[y] * k /\ m[y] \in Int
  OBVIOUS
<1>2. \A y \in T : f[y] \in Int /\ m[y] \in Int /\ h[y] = f[y] + m[y]
  BY <1>1
<1> HIDE DEF m
<1>3. SumOn(h, T) = SumOn(f, T) + SumOn(m, T)
  BY <1>2, SumPlus
<1>4. SumOn(m, T) = SumOn(g, T) * k
  BY <1>1, SumTimes
<1> QED
  BY <1>3, <1>4

\* A sum over a function is one over its domain.
LEMMA FunctionSum ==
    ASSUME NEW D, NEW f, f = [y \in D |-> f[y]]
    PROVE  SumFunction(f) = SumOn(f, D)
BY Zenon DEF SumOn

\* Two lists in the same order, of a set and of a part of it: what is next to
\* each other in the part has nothing of the part between it in the whole.
LEMMA NextInPart ==
    ASSUME NEW A, IsFiniteSet(A), NEW M \in SUBSET A, NEW R, Orders(R, A), Orders(R, M),
           NEW pos, Places(pos, R, A), NEW i \in 2..Cardinality(M)
    PROVE  LET e == Listed(R, A)
               q == Listed(R, M)
               a == pos[q[i - 1]]
               b == pos[q[i]]
           IN  /\ q[i - 1] \in M /\ q[i] \in M /\ <<q[i - 1], q[i]>> \in R
               /\ a \in 1..Cardinality(A) /\ b \in 1..Cardinality(A) /\ a < b
               /\ e[a] = q[i - 1] /\ e[b] = q[i]
               /\ \A k \in (a + 1)..(b - 1) : k \in 1..Cardinality(A) /\ e[k] \notin M
<1> DEFINE e == Listed(R, A)
           q == Listed(R, M)
           a == pos[q[i - 1]]
           b == pos[q[i]]
           n == Cardinality(M)
           m == Cardinality(A)
<1>1. IsFiniteSet(M) /\ n \in Nat /\ m \in Nat
  BY FS_Subset, FS_CardinalityType
<1>2. PICK place : Places(place, R, M)
  BY <1>1, PlacesExist
<1>3. i \in 1..n /\ i - 1 \in 1..n /\ i - 1 < i
  BY <1>1
<1>4. q[i - 1] \in M /\ q[i] \in M /\ place[q[i - 1]] = i - 1 /\ place[q[i]] = i
  BY <1>2, <1>3 DEF Places
<1>5. <<q[i - 1], q[i]>> \in R
  BY <1>2, <1>3, <1>4 DEF Places
<1> HIDE DEF q
<1>6. a \in 1..m /\ b \in 1..m /\ a < b /\ e[a] = q[i - 1] /\ e[b] = q[i]
  BY <1>4, <1>5 DEF Places
<1> HIDE DEF a, b
<1>7. ASSUME NEW k \in (a + 1)..(b - 1) PROVE k \in 1..m /\ e[k] \notin M
  <2>1. k \in 1..m /\ a < k /\ k < b
    BY <1>1, <1>6
  <2>2. e[k] \in A /\ pos[e[k]] = k
    BY <2>1 DEF Places
  <2> HIDE DEF e
  <2>3. pos[q[i - 1]] = a /\ pos[q[i]] = b
    BY DEF a, b
  <2>4. <<q[i - 1], e[k]>> \in R /\ <<e[k], q[i]>> \in R
    BY <1>4, <2>1, <2>2, <2>3 DEF Places
  <2>5. ASSUME e[k] \in M PROVE FALSE
    <3>1. place[q[i - 1]] < place[e[k]] /\ place[e[k]] < place[q[i]] /\ place[e[k]] \in 1..n
      BY <1>2, <1>4, <2>4, <2>5 DEF Places
    <3> QED
      BY <1>1, <1>3, <1>4, <3>1
  <2> QED
    BY <2>1, <2>5
<1> QED
  BY <1>4, <1>5, <1>6, <1>7 DEF e, q, a, b

\* And what has nothing of the part between it is next to each other.
LEMMA NextInWhole ==
    ASSUME NEW A, IsFiniteSet(A), NEW M \in SUBSET A, NEW R, Orders(R, A), Orders(R, M),
           NEW pos, Places(pos, R, A), NEW a \in 1..Cardinality(A), NEW b \in 1..Cardinality(A), a < b,
           Listed(R, A)[a] \in M, Listed(R, A)[b] \in M,
           \A k \in (a + 1)..(b - 1) : Listed(R, A)[k] \notin M
    PROVE  \E i \in 2..Cardinality(M) : /\ Listed(R, M)[i - 1] = Listed(R, A)[a]
                                        /\ Listed(R, M)[i] = Listed(R, A)[b]
                                        /\ pos[Listed(R, M)[i - 1]] = a /\ pos[Listed(R, M)[i]] = b
<1> DEFINE e == Listed(R, A)
           q == Listed(R, M)
           n == Cardinality(M)
           m == Cardinality(A)
<1>1. IsFiniteSet(M) /\ n \in Nat /\ m \in Nat
  BY FS_Subset, FS_CardinalityType
<1>2. PICK place : Places(place, R, M)
  BY <1>1, PlacesExist
<1>3. pos[e[a]] = a /\ pos[e[b]] = b
  BY DEF Places
<1>4. <<e[a], e[b]>> \in R
  BY <1>3 DEF Places
<1> DEFINE j == place[e[a]]
           i == place[e[b]]
<1>5. j \in 1..n /\ i \in 1..n /\ j < i /\ q[j] = e[a] /\ q[i] = e[b]
  BY <1>2, <1>4 DEF Places
<1> HIDE DEF j, i
<1>6. j = i - 1
  <2>1. SUFFICES ASSUME j + 1 < i PROVE FALSE
    BY <1>1, <1>5
  <2>2. j + 1 \in 1..n
    BY <1>1, <1>5, <2>1
  <2> DEFINE y == q[j + 1]
  <2>3. y \in M /\ place[y] = j + 1
    BY <1>2, <2>2 DEF Places
  <2>4. place[e[a]] = j /\ place[e[b]] = i
    BY DEF j, i
  <2>5. <<e[a], y>> \in R /\ <<y, e[b]>> \in R
    <3>1. place[e[a]] < place[y] /\ place[y] < place[e[b]]
      BY <1>1, <1>5, <2>1, <2>3, <2>4
    <3> QED
      BY <1>2, <2>3, <3>1 DEF Places
  <2> HIDE DEF y
  <2>6. pos[e[a]] < pos[y] /\ pos[y] < pos[e[b]] /\ pos[y] \in 1..m /\ e[pos[y]] = y
    BY <2>3, <2>5 DEF Places
  <2>7. pos[y] \in (a + 1)..(b - 1)
    BY <1>1, <1>3, <2>6
  <2>8. e[pos[y]] \notin M
    BY <2>7
  <2> QED
    BY <2>3, <2>6, <2>8
<1>7. i \in 2..n
  BY <1>1, <1>5, <1>6
<1> QED
  BY <1>3, <1>5, <1>6, <1>7

\* A list has no element twice, its values do not fall, and what is left out has
\* no lower value.
Once(n, p) == \A i, j \in 1..n : p[i] = p[j] => i = j
Ascends(W, n, p) == \A i, j \in 1..n : i < j => W[p[i]] <= W[p[j]]
Lowest(A, W, n, p) == \A x \in A : (\A i \in 1..n : p[i] # x) => \A i \in 1..n : W[p[i]] <= W[x]

\* In a list of the lowest values no place has a higher one than in any other list.
LEMMA NotLower ==
    ASSUME NEW A, NEW W, \A a \in A : W[a] \in Int, NEW n \in Nat,
           NEW p \in [1..n -> A], NEW q \in [1..n -> A],
           Once(n, p), Ascends(W, n, p), Ascends(W, n, q), Lowest(A, W, n, q)
    PROVE  \A i \in 1..n : W[q[i]] <= W[p[i]]
<1> USE DEF Once, Ascends, Lowest
<1> SUFFICES ASSUME NEW i \in 1..n, ~(W[q[i]] <= W[p[i]]) PROVE FALSE
  OBVIOUS
<1>1. \A x \in A : W[x] \in Int
  OBVIOUS
<1>2. ASSUME NEW j \in 1..i PROVE \E k \in 1..(i - 1) : p[j] = q[k]
  <2>1. j \in 1..n /\ p[j] \in A /\ p[i] \in A /\ q[i] \in A
    OBVIOUS
  <2>2. W[p[j]] <= W[p[i]]
    <3>1. CASE j = i
      BY <1>1, <2>1, <3>1
    <3>2. CASE j # i
      <4>1. j < i
        BY <3>2
      <4> QED
        BY <2>1, <4>1
    <3> QED
      BY <3>1, <3>2
  <2>3. ~(W[q[i]] <= W[p[j]])
    BY <1>1, <2>1, <2>2
  <2>4. PICK k \in 1..n : q[k] = p[j]
    BY <2>1, <2>3
  <2>5. k < i
    <3>1. CASE k = i
      BY <1>1, <2>1, <2>3, <2>4, <3>1
    <3>2. CASE i < k
      <4>1. W[q[i]] <= W[q[k]]
        BY <3>2
      <4> QED
        BY <2>3, <2>4, <4>1
    <3> QED
      BY <3>1, <3>2
  <2> QED
    BY <2>4, <2>5
<1> DEFINE g == [j \in 1..i |-> CHOOSE k \in 1..(i - 1) : p[j] = q[k]]
<1>3. \A j \in 1..i : g[j] \in 1..(i - 1) /\ p[j] = q[g[j]]
  BY <1>2
<1>4. g \in [1..i -> 1..(i - 1)]
  BY <1>2
<1> HIDE DEF g
<1> DEFINE S == 1..i
           T == 1..(i - 1)
<1>5. IsFiniteSet(S) /\ Cardinality(S) = i
  BY FS_Interval
<1>6. IsFiniteSet(T) /\ Cardinality(T) = i - 1
  <2>1. i - 1 \in Int /\ 1 \in Int
    OBVIOUS
  <2>2. IsFiniteSet(T) /\ Cardinality(T) = IF 1 > i - 1 THEN 0 ELSE (i - 1) - 1 + 1
    BY <2>1, FS_Interval
  <2> HIDE DEF T
  <2> QED
    BY <2>2
<1>7. g \in [S -> T]
  BY <1>4
<1> HIDE DEF S, T
<1>8. \A a, b \in S : g[a] = g[b] => a = b
  BY <1>3 DEF S
<1>9. g \in Injection(S, T)
  BY <1>7, <1>8 DEF Injection, IsInjective
<1>10. Cardinality(S) <= Cardinality(T)
  BY <1>6, <1>9, FS_Injection
<1> QED
  BY <1>5, <1>6, <1>10
=============================================================================
