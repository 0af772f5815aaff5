----------------------------- MODULE SumLemmas -----------------------------
(***************************************************************************)
(* Sums over finite sets.  MapThenSumSet is a fold, that is a function     *)
(* defined by recursion on the subsets of a set: it is shown to exist, to  *)
(* be the same whatever set it is taken over, and not to depend on the     *)
(* order it picks elements in.  Every fact is by a smallest                *)
(* counterexample: the library's induction rules cannot be instantiated.   *)
(***************************************************************************)
EXTENDS Integers, FiniteSetsExt, FiniteSetTheorems, WellFoundedInduction, TLAPS

Pick(s) == CHOOSE x \in s : TRUE

(* g is the fold over the subsets of S. *)
IsSum(g, f, S) == g = [s \in SUBSET S |-> IF s = {} THEN 0 ELSE f[Pick(s)] + g[s \ {Pick(s)}]]

Folding(f, S) == CHOOSE g : IsSum(g, f, S)

SumOf(f, S) == Folding(f, S)[S]

(* The sum of a function is the one the specifications write.              *)
LEMMA SumIsFold ==
    ASSUME NEW f, NEW S
    PROVE  MapThenSumSet(LAMBDA x : f[x], S) = SumOf(f, S)
BY DEF MapThenSumSet, MapThenFoldSet, SumOf, Folding, IsSum, Pick

(* A set of subsets of a finite set has one that contains no other.        *)
LEMMA Smallest ==
    ASSUME NEW S, IsFiniteSet(S), NEW Bad \in SUBSET (SUBSET S), Bad # {}
    PROVE  \E T \in Bad : \A U \in SUBSET T : U # T => U \notin Bad
<1>1. IsWellFoundedOn(StrictSubsetOrdering(S), SUBSET S)
    BY FS_StrictSubsetOrderingWellFounded, FS_FiniteSubsetsOfFinite
<1>2. PICK T \in Bad : \A U \in Bad : ~ (<<U, T>> \in StrictSubsetOrdering(S))
    BY <1>1, WFMin
<1>3. ASSUME NEW U \in SUBSET T, U # T, U \in Bad PROVE FALSE
    <2>1. <<U, T>> \in StrictSubsetOrdering(S)
        BY <1>3 DEF StrictSubsetOrdering
    <2> QED
        BY <1>2, <1>3, <2>1
<1> QED
    BY <1>2, <1>3

(* A set of numbers that is not empty has a least one.                     *)
LEMMA LeastNumber ==
    ASSUME NEW T \in SUBSET Nat, T # {}
    PROVE  \E x \in T : \A y \in T : x <= y
<1>1. PICK m \in T : TRUE
    OBVIOUS
<1> DEFINE S == 0 .. m
           Bad == {0 .. x : x \in {z \in T : z <= m}}
<1>2. IsFiniteSet(S)
    BY <1>1, FS_Interval
<1>3. Bad \in SUBSET (SUBSET S)
    BY <1>1
<1>4. Bad # {}
    BY <1>1
<1> HIDE DEF Bad, S
<1>5. PICK low \in Bad : \A U \in SUBSET low : U # low => U \notin Bad
    BY <1>2, <1>3, <1>4, Smallest
<1>6. PICK x \in T : x <= m /\ low = 0 .. x
    BY <1>5 DEF Bad
<1>7. ASSUME NEW y \in T, ~ (x <= y) PROVE FALSE
    <2>1. y < x /\ y <= m /\ x \in 0 .. x /\ x \notin 0 .. y
        BY <1>1, <1>6, <1>7
    <2>2. 0 .. y \in Bad
        BY <2>1 DEF Bad
    <2>3. 0 .. y \in SUBSET low /\ 0 .. y # low
        BY <1>6, <2>1
    <2> QED
        BY <1>5, <2>2, <2>3
<1> QED
    BY <1>6, <1>7

LEMMA PickIn == \A s : s # {} => Pick(s) \in s
BY DEF Pick

LEMMA FoldStep ==
    ASSUME NEW f, NEW S, NEW g, IsSum(g, f, S), NEW s \in SUBSET S
    PROVE  /\ s = {} => g[s] = 0
           /\ s # {} => g[s] = f[Pick(s)] + g[s \ {Pick(s)}]
BY DEF IsSum

LEMMA FoldEmpty ==
    ASSUME NEW f, NEW S, NEW g, IsSum(g, f, S)
    PROVE  g[{}] = 0
BY DEF IsSum

(* Two folds agree where both are defined.                                 *)
LEMMA FoldsAgree ==
    ASSUME NEW f, NEW A, NEW B, NEW g, NEW h, IsSum(g, f, A), IsSum(h, f, B),
           NEW s, s \subseteq A, s \subseteq B, IsFiniteSet(s)
    PROVE  g[s] = h[s]
<1> SUFFICES ASSUME g[s] # h[s] PROVE FALSE
    OBVIOUS
<1> DEFINE Bad == {t \in SUBSET s : g[t] # h[t]}
<1>1. PICK t \in Bad : \A u \in SUBSET t : u # t => u \notin Bad
    <2>1. s \in Bad /\ Bad \in SUBSET (SUBSET s)
        OBVIOUS
    <2> HIDE DEF Bad
    <2> QED
        BY <2>1, Smallest
<1>2. t \in SUBSET A /\ t \in SUBSET B /\ g[t] # h[t] /\ t \in SUBSET s
    OBVIOUS
<1>3. CASE t = {}
    <2>1. g[{}] = 0
        BY FoldEmpty
    <2>2. h[{}] = 0
        BY FoldEmpty
    <2> QED
        BY <1>2, <1>3, <2>1, <2>2
<1>4. CASE t # {}
    <2> DEFINE u == t \ {Pick(t)}
    <2>1. u \in SUBSET t /\ u # t
        BY <1>4, PickIn
    <2>2. g[u] = h[u]
        BY <1>1, <1>2, <2>1
    <2>3. g[t] = f[Pick(t)] + g[u]
        BY <1>2, <1>4, FoldStep
    <2>4. h[t] = f[Pick(t)] + h[u]
        BY <1>2, <1>4, FoldStep
    <2> HIDE DEF u
    <2> QED
        BY <1>2, <2>2, <2>3, <2>4
<1> QED
    BY <1>3, <1>4

(* The fold over a finite set exists.                                      *)
LEMMA FoldExists ==
    ASSUME NEW f, NEW S, IsFiniteSet(S)
    PROVE  IsSum(Folding(f, S), f, S)
<1> SUFFICES ASSUME ~ IsSum(Folding(f, S), f, S) PROVE FALSE
    OBVIOUS
<1> DEFINE Bad == {T \in SUBSET S : ~ IsSum(Folding(f, T), f, T)}
<1>1. PICK T \in Bad : \A U \in SUBSET T : U # T => U \notin Bad
    <2>1. S \in Bad /\ Bad \in SUBSET (SUBSET S)
        OBVIOUS
    <2> HIDE DEF Bad
    <2> QED
        BY <2>1, Smallest
<1>2. \A U \in SUBSET T : U # T => IsSum(Folding(f, U), f, U)
    BY <1>1
<1>3. \A U \in SUBSET T : IsFiniteSet(U)
    BY <1>1, FS_Subset
<1> DEFINE rest(s) == s \ {Pick(s)}
           g == [s \in SUBSET T |-> IF s = {} THEN 0
                                    ELSE f[Pick(s)] + Folding(f, rest(s))[rest(s)]]
<1>4. ASSUME NEW u \in SUBSET T, u # T PROVE g[u] = Folding(f, u)[u]
    <2>1. IsSum(Folding(f, u), f, u)
        BY <1>2, <1>4
    <2>2. u = {} => Folding(f, u)[u] = 0
        BY <2>1, FoldStep
    <2>3. ASSUME u # {} PROVE Folding(f, u)[u] = f[Pick(u)] + Folding(f, rest(u))[rest(u)]
        <3>1. Folding(f, u)[u] = f[Pick(u)] + Folding(f, u)[rest(u)]
            BY <2>1, <2>3, FoldStep
        <3>2. rest(u) \in SUBSET T /\ rest(u) # T /\ rest(u) \subseteq u
            BY <1>4, <2>3, PickIn
        <3>3. IsSum(Folding(f, rest(u)), f, rest(u)) /\ IsFiniteSet(rest(u))
            BY <1>2, <1>3, <3>2
        <3>4. Folding(f, u)[rest(u)] = Folding(f, rest(u))[rest(u)]
            <4> HIDE DEF rest
            <4> QED
                BY <2>1, <3>2, <3>3, FoldsAgree
        <3> QED
            BY <3>1, <3>4
    <2>4. g[u] = IF u = {} THEN 0 ELSE f[Pick(u)] + Folding(f, rest(u))[rest(u)]
        OBVIOUS
    <2> QED
        BY <2>2, <2>3, <2>4
<1>5. \A s \in SUBSET T : s # {} => rest(s) \in SUBSET T /\ rest(s) # T
    BY PickIn
<1>6. \A s \in SUBSET T : s # {} => g[rest(s)] = Folding(f, rest(s))[rest(s)]
    <2> HIDE DEF g, rest
    <2> QED
        BY <1>4, <1>5
<1>7. g = [s \in SUBSET T |-> IF s = {} THEN 0 ELSE f[Pick(s)] + g[rest(s)]]
    <2> DEFINE h == [s \in SUBSET T |-> IF s = {} THEN 0 ELSE f[Pick(s)] + g[rest(s)]]
    <2>1. \A s \in SUBSET T : g[s] = h[s]
        BY <1>6
    <2>2. DOMAIN g = SUBSET T /\ DOMAIN h = SUBSET T
        OBVIOUS
    <2>3. /\ g = [s \in DOMAIN g |-> g[s]]
          /\ h = [s \in DOMAIN h |-> h[s]]
        OBVIOUS
    <2> HIDE DEF g, h
    <2>4. g = h
        BY <2>1, <2>2, <2>3
    <2> QED
        BY <2>4 DEF h
<1>8. IsSum(g, f, T)
    <2> HIDE DEF g
    <2> QED
        BY <1>7 DEF IsSum
<1>9. IsSum(Folding(f, T), f, T)
    <2> HIDE DEF g
    <2> QED
        BY <1>8 DEF Folding
<1> QED
    BY <1>1, <1>9

-----------------------------------------------------------------------------
LEMMA SumEmpty ==
    ASSUME NEW f
    PROVE  SumOf(f, {}) = 0
<1>1. IsSum(Folding(f, {}), f, {})
    BY FoldExists, FS_EmptySet
<1> QED
    BY <1>1, FoldEmpty DEF SumOf

(* What a sum is: nothing, or one element and the rest.                    *)
LEMMA SumUnfold ==
    ASSUME NEW f, NEW S, IsFiniteSet(S)
    PROVE  /\ S = {} => SumOf(f, S) = 0
           /\ S # {} => SumOf(f, S) = f[Pick(S)] + SumOf(f, S \ {Pick(S)})
<1> DEFINE rest == S \ {Pick(S)}
<1>1. IsSum(Folding(f, S), f, S) /\ S \in SUBSET S
    BY FoldExists
<1>2. S = {} => SumOf(f, S) = 0
    BY SumEmpty
<1>3. IsFiniteSet(rest) /\ rest \subseteq S
    BY FS_Subset
<1>4. IsSum(Folding(f, rest), f, rest)
    BY <1>3, FoldExists
<1>5. Folding(f, S)[rest] = Folding(f, rest)[rest]
    <2> HIDE DEF rest
    <2> QED
        BY <1>1, <1>3, <1>4, FoldsAgree
<1>6. S # {} => SumOf(f, S) = f[Pick(S)] + Folding(f, S)[rest]
    BY <1>1, FoldStep DEF SumOf
<1> QED
    BY <1>2, <1>5, <1>6 DEF SumOf

(* A sum of integers is an integer, and of natural numbers a natural one.  *)
LEMMA SumInt ==
    ASSUME NEW f, NEW S, IsFiniteSet(S), \A x \in S : f[x] \in Int
    PROVE  SumOf(f, S) \in Int
<1> SUFFICES ASSUME SumOf(f, S) \notin Int PROVE FALSE
    OBVIOUS
<1> DEFINE Bad == {T \in SUBSET S : SumOf(f, T) \notin Int}
<1>1. PICK T \in Bad : \A U \in SUBSET T : U # T => U \notin Bad
    <2>1. S \in Bad /\ Bad \in SUBSET (SUBSET S)
        OBVIOUS
    <2> HIDE DEF Bad
    <2> QED
        BY <2>1, Smallest
<1> DEFINE rest == T \ {Pick(T)}
<1>2. IsFiniteSet(T) /\ T \subseteq S /\ SumOf(f, T) \notin Int
    BY <1>1, FS_Subset
<1>3. T # {}
    BY <1>2, SumEmpty
<1>4. rest \in SUBSET T /\ rest # T /\ Pick(T) \in S
    BY <1>2, <1>3, PickIn
<1>5. SumOf(f, rest) \in Int
    BY <1>1, <1>4
<1>6. SumOf(f, T) = f[Pick(T)] + SumOf(f, rest)
    BY <1>2, <1>3, SumUnfold
<1> HIDE DEF rest
<1> QED
    BY <1>2, <1>4, <1>5, <1>6

LEMMA SumNat ==
    ASSUME NEW f, NEW S, IsFiniteSet(S), \A x \in S : f[x] \in Nat
    PROVE  SumOf(f, S) \in Nat
<1> SUFFICES ASSUME SumOf(f, S) \notin Nat PROVE FALSE
    OBVIOUS
<1> DEFINE Bad == {T \in SUBSET S : SumOf(f, T) \notin Nat}
<1>1. PICK T \in Bad : \A U \in SUBSET T : U # T => U \notin Bad
    <2>1. S \in Bad /\ Bad \in SUBSET (SUBSET S)
        OBVIOUS
    <2> HIDE DEF Bad
    <2> QED
        BY <2>1, Smallest
<1> DEFINE rest == T \ {Pick(T)}
<1>2. IsFiniteSet(T) /\ T \subseteq S /\ SumOf(f, T) \notin Nat
    BY <1>1, FS_Subset
<1>3. T # {}
    BY <1>2, SumEmpty
<1>4. rest \in SUBSET T /\ rest # T /\ Pick(T) \in S
    BY <1>2, <1>3, PickIn
<1>5. SumOf(f, rest) \in Nat
    BY <1>1, <1>4
<1>6. SumOf(f, T) = f[Pick(T)] + SumOf(f, rest)
    BY <1>2, <1>3, SumUnfold
<1> HIDE DEF rest
<1> QED
    BY <1>2, <1>4, <1>5, <1>6

(* Any element can be taken first.                                         *)
LEMMA SumRemove ==
    ASSUME NEW f, NEW S, IsFiniteSet(S), \A x \in S : f[x] \in Int, NEW x \in S
    PROVE  SumOf(f, S) = f[x] + SumOf(f, S \ {x})
<1> DEFINE Apart(T) == \A y \in T : SumOf(f, T) = f[y] + SumOf(f, T \ {y})
           Bad == {T \in SUBSET S : ~ Apart(T)}
<1> SUFFICES ASSUME ~ Apart(S) PROVE FALSE
    OBVIOUS
<1>1. PICK T \in Bad : \A U \in SUBSET T : U # T => U \notin Bad
    <2>1. S \in Bad /\ Bad \in SUBSET (SUBSET S)
        OBVIOUS
    <2> HIDE DEF Bad
    <2> QED
        BY <2>1, Smallest
<1>2. IsFiniteSet(T) /\ T \subseteq S
    BY <1>1, FS_Subset
<1>3. PICK y \in T : SumOf(f, T) # f[y] + SumOf(f, T \ {y})
    BY <1>1
<1> DEFINE p == Pick(T)
<1>4. p \in T /\ SumOf(f, T) = f[p] + SumOf(f, T \ {p})
    BY <1>2, <1>3, SumUnfold, PickIn
<1> HIDE DEF p
<1>5. p # y
    BY <1>3, <1>4
<1>6. SumOf(f, T \ {p}) = f[y] + SumOf(f, (T \ {p}) \ {y})
    <2>1. T \ {p} \in SUBSET T /\ T \ {p} # T /\ y \in T \ {p} /\ T \ {p} \in SUBSET S
        BY <1>2, <1>4, <1>5
    <2>2. Apart(T \ {p})
        BY <1>1, <2>1
    <2> QED
        BY <2>1, <2>2
<1>7. SumOf(f, T \ {y}) = f[p] + SumOf(f, (T \ {y}) \ {p})
    <2>1. T \ {y} \in SUBSET T /\ T \ {y} # T /\ p \in T \ {y} /\ T \ {y} \in SUBSET S
        BY <1>2, <1>3, <1>4, <1>5
    <2>2. Apart(T \ {y})
        BY <1>1, <2>1
    <2> QED
        BY <2>1, <2>2
<1>8. (T \ {p}) \ {y} = (T \ {y}) \ {p}
    OBVIOUS
<1>9. SumOf(f, (T \ {y}) \ {p}) \in Int /\ f[y] \in Int /\ f[p] \in Int
    <2>1. IsFiniteSet((T \ {y}) \ {p}) /\ (T \ {y}) \ {p} \subseteq S
        BY <1>2, FS_Subset
    <2> QED
        BY <1>2, <1>3, <1>4, <2>1, SumInt
<1> DEFINE least == SumOf(f, (T \ {y}) \ {p})
           fy == f[y]
           fp == f[p]
<1>10. /\ SumOf(f, T) = fp + (fy + least)
       /\ SumOf(f, T \ {y}) = fp + least
       /\ least \in Int /\ fy \in Int /\ fp \in Int
    BY <1>4, <1>6, <1>7, <1>8, <1>9
<1> HIDE DEF least, fp
<1>11. SumOf(f, T) = fy + SumOf(f, T \ {y})
    <2> HIDE DEF fy
    <2> QED
        BY <1>10
<1> QED
    BY <1>3, <1>11

LEMMA SumInsert ==
    ASSUME NEW f, NEW S, IsFiniteSet(S), NEW x, x \notin S, \A y \in S \cup {x} : f[y] \in Int
    PROVE  SumOf(f, S \cup {x}) = f[x] + SumOf(f, S)
<1>1. IsFiniteSet(S \cup {x}) /\ (S \cup {x}) \ {x} = S
    BY FS_AddElement
<1>2. SumOf(f, S \cup {x}) = f[x] + SumOf(f, (S \cup {x}) \ {x})
    BY <1>1, SumRemove
<1> QED
    BY <1>1, <1>2

(* A sum depends on nothing but the terms.                                 *)
LEMMA SumSame ==
    ASSUME NEW f, NEW g, NEW S, IsFiniteSet(S), \A x \in S : f[x] = g[x]
    PROVE  SumOf(f, S) = SumOf(g, S)
<1> SUFFICES ASSUME SumOf(f, S) # SumOf(g, S) PROVE FALSE
    OBVIOUS
<1> DEFINE Bad == {T \in SUBSET S : SumOf(f, T) # SumOf(g, T)}
<1>1. PICK T \in Bad : \A U \in SUBSET T : U # T => U \notin Bad
    <2>1. S \in Bad /\ Bad \in SUBSET (SUBSET S)
        OBVIOUS
    <2> HIDE DEF Bad
    <2> QED
        BY <2>1, Smallest
<1> DEFINE rest == T \ {Pick(T)}
<1>2. IsFiniteSet(T) /\ T \subseteq S /\ SumOf(f, T) # SumOf(g, T)
    BY <1>1, FS_Subset
<1>3. T # {}
    <2>1. SumOf(f, {}) = 0 /\ SumOf(g, {}) = 0
        BY SumEmpty
    <2> QED
        BY <1>2, <2>1
<1>4. rest \in SUBSET T /\ rest # T /\ Pick(T) \in S
    BY <1>2, <1>3, PickIn
<1>5. SumOf(f, rest) = SumOf(g, rest)
    BY <1>1, <1>4
<1>6. SumOf(f, T) = f[Pick(T)] + SumOf(f, rest)
    BY <1>2, <1>3, SumUnfold
<1>7. SumOf(g, T) = g[Pick(T)] + SumOf(g, rest)
    BY <1>2, <1>3, SumUnfold
<1> HIDE DEF rest
<1> QED
    BY <1>2, <1>4, <1>5, <1>6, <1>7

(* A sum of which one term changes changes by as much.                     *)
LEMMA SumShift ==
    ASSUME NEW f, NEW g, NEW S, IsFiniteSet(S), NEW c \in S,
           \A x \in S : f[x] \in Int /\ g[x] \in Int, \A x \in S \ {c} : f[x] = g[x]
    PROVE  SumOf(g, S) = SumOf(f, S) - f[c] + g[c]
<1> DEFINE rest == S \ {c}
<1>1. IsFiniteSet(rest)
    BY FS_Subset
<1>2. SumOf(f, rest) = SumOf(g, rest) /\ SumOf(f, rest) \in Int
    BY <1>1, SumSame, SumInt
<1>3. SumOf(f, S) = f[c] + SumOf(f, rest)
    BY SumRemove
<1>4. SumOf(g, S) = g[c] + SumOf(g, rest)
    BY SumRemove
<1>5. f[c] \in Int /\ g[c] \in Int
    OBVIOUS
<1> HIDE DEF rest
<1> QED
    BY <1>2, <1>3, <1>4, <1>5

(* Nothing adds up to nothing.                                             *)
LEMMA SumZero ==
    ASSUME NEW f, NEW S, IsFiniteSet(S), \A x \in S : f[x] = 0
    PROVE  SumOf(f, S) = 0
<1> SUFFICES ASSUME SumOf(f, S) # 0 PROVE FALSE
    OBVIOUS
<1> DEFINE Bad == {T \in SUBSET S : SumOf(f, T) # 0}
<1>1. PICK T \in Bad : \A U \in SUBSET T : U # T => U \notin Bad
    <2>1. Bad # {} /\ Bad \in SUBSET (SUBSET S)
        OBVIOUS
    <2> HIDE DEF Bad
    <2> QED
        BY <2>1, Smallest
<1>2. T \subseteq S /\ IsFiniteSet(T) /\ SumOf(f, T) # 0
    BY <1>1, FS_Subset
<1>3. CASE T = {}
    BY <1>2, <1>3, SumEmpty
<1>4. CASE T # {}
    <2> DEFINE rest == T \ {Pick(T)}
    <2>1. Pick(T) \in T
        BY <1>4, PickIn
    <2>2. SumOf(f, T) = f[Pick(T)] + SumOf(f, rest)
        BY <1>2, <1>4, SumUnfold
    <2>3. rest \in SUBSET T /\ rest # T /\ rest \in SUBSET S
        BY <1>2, <2>1
    <2>4. SumOf(f, rest) = 0
        BY <1>1, <2>3
    <2> QED
        BY <1>2, <2>1, <2>2, <2>4
<1> QED
    BY <1>3, <1>4
=============================================================================
