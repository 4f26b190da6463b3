-------------------------------- MODULE Sums --------------------------------
(***************************************************************************)
(* Induction over finite sets, and what it says about sums: the lemmas     *)
(* that the proofs about amounts of money rest on, in accounts payable     *)
(* (MatchRunProofs) and receivable (ARSerialProofs).                       *)
(***************************************************************************)
EXTENDS Integers, Functions, FiniteSetTheorems, WellFoundedInduction, TLAPS

---------------------------------------------------------------------------
(* Induction over numbers and finite sets, as facts about sets: what is to *)
(* be shown is the set of those that have the property.                    *)

\* A set of numbers that has 0 and the successors of its members has them all.
LEMMA NatSetInduction ==
    ASSUME NEW T \in SUBSET Nat, 0 \in T, \A n \in T : n + 1 \in T
    PROVE  Nat \subseteq T
<1>1. SUFFICES ASSUME Nat \ T # {} PROVE FALSE
  OBVIOUS
<1> DEFINE Less == {p \in Nat \X Nat : p[1] < p[2]}
<1>2. IsWellFoundedOn(Less, Nat)
  BY NatLessThanWellFounded DEF OpToRel
<1>3. PICK n \in Nat \ T : \A m \in Nat \ T : <<m, n>> \notin Less
  <2> HIDE DEF Less
  <2> QED BY <1>1, <1>2, WFMin
<1>4. n # 0 /\ n - 1 \in Nat
  OBVIOUS
<1>5. <<n - 1, n>> \in Less
  BY <1>4
<1>6. n - 1 \in T
  BY <1>3, <1>4, <1>5
<1>7. (n - 1) + 1 \in T
  BY <1>6
<1> QED BY <1>3, <1>4, <1>7

\* A family of subsets of a finite set that has each subset of which it has
\* all those with one element less has every subset.
LEMMA FiniteSetInduction ==
    ASSUME NEW S, IsFiniteSet(S), NEW T \in SUBSET SUBSET S,
           \A s \in SUBSET S : (\A x \in s : s \ {x} \in T) => s \in T
    PROVE  T = SUBSET S
<1> DEFINE N == {n \in Nat : \A s \in SUBSET S : Cardinality(s) = n => s \in T}
<1>0. ASSUME NEW s \in SUBSET S
      PROVE  /\ Cardinality(s) \in Nat
             /\ Cardinality(s) = 0 => s = {}
             /\ \A x \in s : Cardinality(s \ {x}) = Cardinality(s) - 1
  <2>1. IsFiniteSet(s)
    BY FS_Subset
  <2> QED BY <2>1, FS_RemoveElement, FS_CardinalityType, FS_EmptySet
<1>1. 0 \in N
  BY <1>0
<1>2. ASSUME NEW n \in N PROVE n + 1 \in N
  <2> SUFFICES ASSUME NEW s \in SUBSET S, Cardinality(s) = n + 1 PROVE s \in T
    BY <1>2
  <2>1. ASSUME NEW x \in s PROVE s \ {x} \in T
    <3>1. Cardinality(s \ {x}) = n
      BY <1>0, <1>2
    <3> QED BY <3>1, <1>2
  <2> QED BY <2>1
<1> HIDE DEF N
<1>3. Nat \subseteq N
  <2>1. N \in SUBSET Nat
    BY DEF N
  <2> QED BY <1>1, <1>2, <2>1, NatSetInduction
<1>4. ASSUME NEW s \in SUBSET S PROVE s \in T
  BY <1>0, <1>3 DEF N
<1> QED BY <1>4

---------------------------------------------------------------------------
(* Sums.  FoldFunction folds with a recursive function over the subsets of *)
(* the domain; SumOver names its values.                                   *)

Picked(s) == CHOOSE x \in s : TRUE

IsSumTable(f, table) ==
    table = [s \in SUBSET DOMAIN f |->
               IF s = {} THEN 0 ELSE f[Picked(s)] + table[s \ {Picked(s)}]]

SumOver(f, s) == (CHOOSE table : IsSumTable(f, table))[s]

LEMMA FoldIsSumOver ==
    ASSUME NEW f
    PROVE  /\ FoldFunction(+, 0, f) = SumOver(f, DOMAIN f)
           /\ SumFunction(f) = SumOver(f, DOMAIN f)
BY DEF FoldFunction, SumFunction, SumFunctionOnSet, FoldFunctionOnSet, MapThenFoldSet,
       SumOver, IsSumTable, Picked

\* The recursion has a solution: it has one on the subsets of at most n
\* elements, for every n.
LEMMA SumTableExists ==
    ASSUME NEW f, IsFiniteSet(DOMAIN f)
    PROVE  \E table : IsSumTable(f, table)
<1> DEFINE UpTo(n) == {s \in SUBSET DOMAIN f : Cardinality(s) <= n}
           N == {n \in Nat : \E table : table =
                   [s \in UpTo(n) |->
                      IF s = {} THEN 0 ELSE f[Picked(s)] + table[s \ {Picked(s)}]]}
<1>0. ASSUME NEW s \in SUBSET DOMAIN f, s # {}
      PROVE  /\ Picked(s) \in s /\ s \ {Picked(s)} \in SUBSET DOMAIN f
             /\ Cardinality(s) \in Nat
             /\ Cardinality(s \ {Picked(s)}) = Cardinality(s) - 1
  <2>1. IsFiniteSet(s)
    BY FS_Subset
  <2>2. Picked(s) \in s
    BY <1>0 DEF Picked
  <2> QED BY <2>1, <2>2, FS_RemoveElement, FS_CardinalityType
<1>1. 0 \in N
  <2> DEFINE table == [s \in UpTo(0) |-> 0]
  <2>1. ASSUME NEW s \in UpTo(0) PROVE s = {}
    BY <1>0, FS_EmptySet, FS_CardinalityType, FS_Subset
  <2>2. table = [s \in UpTo(0) |->
                   IF s = {} THEN 0 ELSE f[Picked(s)] + table[s \ {Picked(s)}]]
    BY <2>1
  <2> QED BY <2>2
<1>2. ASSUME NEW n \in N PROVE n + 1 \in N
  <2>1. n \in Nat
    OBVIOUS
  <2>2. PICK g : g = [s \in UpTo(n) |->
                        IF s = {} THEN 0 ELSE f[Picked(s)] + g[s \ {Picked(s)}]]
    BY <1>2
  <2> DEFINE table == [s \in UpTo(n + 1) |->
                         IF s = {} THEN 0 ELSE f[Picked(s)] + g[s \ {Picked(s)}]]
  <2>3. ASSUME NEW s \in UpTo(n + 1), s # {}
        PROVE  /\ s \ {Picked(s)} \in UpTo(n)
               /\ s \ {Picked(s)} \in UpTo(n + 1)
    BY <2>1, <2>3, <1>0
  <2>4. ASSUME NEW s \in UpTo(n), s \in UpTo(n + 1) PROVE table[s] = g[s]
    <3>1. table[s] = IF s = {} THEN 0 ELSE f[Picked(s)] + g[s \ {Picked(s)}]
      BY <2>4
    <3> HIDE DEF table
    <3>2. g[s] = IF s = {} THEN 0 ELSE f[Picked(s)] + g[s \ {Picked(s)}]
      BY <2>2
    <3> QED BY <3>1, <3>2
  <2>5. ASSUME NEW s \in UpTo(n + 1)
        PROVE  (IF s = {} THEN 0 ELSE f[Picked(s)] + g[s \ {Picked(s)}])
                 = IF s = {} THEN 0 ELSE f[Picked(s)] + table[s \ {Picked(s)}]
    <3> HIDE DEF table
    <3> QED BY <2>3, <2>4
  <2>6. table = [s \in UpTo(n + 1) |->
                   IF s = {} THEN 0 ELSE f[Picked(s)] + table[s \ {Picked(s)}]]
    BY <2>5
  <2> HIDE DEF table, UpTo
  <2> QED BY <2>1, <2>6
<1> HIDE DEF N
<1>3. Nat \subseteq N
  <2>1. N \in SUBSET Nat
    BY DEF N
  <2> QED BY <1>1, <1>2, <2>1, NatSetInduction
<1> DEFINE k == Cardinality(DOMAIN f)
<1>4. k \in N
  BY <1>3, FS_CardinalityType
<1>5. UpTo(k) = SUBSET DOMAIN f
  BY FS_Subset
<1> HIDE DEF UpTo, k
<1>6. PICK table : table = [s \in UpTo(k) |->
                      IF s = {} THEN 0 ELSE f[Picked(s)] + table[s \ {Picked(s)}]]
  BY <1>4 DEF N
<1> QED BY <1>5, <1>6 DEF IsSumTable

LEMMA SumOverEquation ==
    ASSUME NEW f, IsFiniteSet(DOMAIN f)
    PROVE  /\ SumOver(f, {}) = 0
           /\ \A s \in SUBSET DOMAIN f : s # {} =>
                 /\ Picked(s) \in s
                 /\ SumOver(f, s) = f[Picked(s)] + SumOver(f, s \ {Picked(s)})
<1> DEFINE table == CHOOSE table : IsSumTable(f, table)
<1>1. IsSumTable(f, table)
  BY SumTableExists
<1>2. \A s : SumOver(f, s) = table[s]
  BY DEF SumOver
<1>3. \A s : s # {} => Picked(s) \in s
  BY DEF Picked
<1> HIDE DEF table
<1>4. table[{}] = 0
  BY <1>1 DEF IsSumTable
<1>5. ASSUME NEW s \in SUBSET DOMAIN f, s # {}
      PROVE  table[s] = f[Picked(s)] + table[s \ {Picked(s)}]
  BY <1>1, <1>5 DEF IsSumTable
<1> QED BY <1>2, <1>3, <1>4, <1>5

\* A sum of integers is one.
LEMMA SumOverInt ==
    ASSUME NEW f, IsFiniteSet(DOMAIN f), \A x \in DOMAIN f : f[x] \in Int,
           NEW s \in SUBSET DOMAIN f
    PROVE  SumOver(f, s) \in Int
<1> DEFINE T == {t \in SUBSET DOMAIN f : SumOver(f, t) \in Int}
<1>1. ASSUME NEW t \in SUBSET DOMAIN f, \A x \in t : t \ {x} \in T
      PROVE  t \in T
  <2>1. CASE t = {}
    BY <2>1, SumOverEquation
  <2>2. CASE t # {}
    <3>1. Picked(t) \in t /\ SumOver(f, t) = f[Picked(t)] + SumOver(f, t \ {Picked(t)})
      BY <2>2, SumOverEquation
    <3>2. SumOver(f, t \ {Picked(t)}) \in Int /\ f[Picked(t)] \in Int
      BY <3>1, <1>1
    <3>3. SumOver(f, t) \in Int
      BY <3>1, <3>2
    <3> QED BY <3>3
  <2> QED BY <2>1, <2>2
<1>2. T \in SUBSET SUBSET DOMAIN f
  OBVIOUS
<1> HIDE DEF T
<1>3. T = SUBSET DOMAIN f
  BY <1>1, <1>2, FiniteSetInduction
<1> QED BY <1>3 DEF T

\* Any element may be the one taken out: the sum does not depend on CHOOSE.
LEMMA SumOverRemove ==
    ASSUME NEW f, IsFiniteSet(DOMAIN f), \A x \in DOMAIN f : f[x] \in Int,
           NEW s \in SUBSET DOMAIN f, NEW a \in s
    PROVE  SumOver(f, s) = f[a] + SumOver(f, s \ {a})
<1> DEFINE T == {t \in SUBSET DOMAIN f :
                   \A x \in t : SumOver(f, t) = f[x] + SumOver(f, t \ {x})}
<1>1. ASSUME NEW t \in SUBSET DOMAIN f, \A x \in t : t \ {x} \in T
      PROVE  t \in T
  <2> SUFFICES ASSUME NEW x \in t
               PROVE  SumOver(f, t) = f[x] + SumOver(f, t \ {x})
    OBVIOUS
  <2> DEFINE c == Picked(t)
  <2>1. c \in t /\ SumOver(f, t) = f[c] + SumOver(f, t \ {c})
    BY SumOverEquation
  <2> HIDE DEF c
  <2>2. CASE x = c
    BY <2>1, <2>2
  <2>3. CASE x # c
    <3>1. /\ SumOver(f, t \ {c}) = f[x] + SumOver(f, (t \ {c}) \ {x})
          /\ SumOver(f, t \ {x}) = f[c] + SumOver(f, (t \ {x}) \ {c})
      BY <2>1, <2>3, <1>1
    <3>2. (t \ {c}) \ {x} = (t \ {x}) \ {c}
      OBVIOUS
    <3> DEFINE rest == SumOver(f, (t \ {c}) \ {x})
    <3>3. rest \in Int /\ f[x] \in Int /\ f[c] \in Int
      BY <2>1, SumOverInt
    <3>4. SumOver(f, t) = f[c] + (f[x] + rest) /\ SumOver(f, t \ {x}) = f[c] + rest
      BY <2>1, <3>1, <3>2
    <3> HIDE DEF rest, T
    <3> QED BY <3>3, <3>4
  <2> QED BY <2>2, <2>3
<1>2. T \in SUBSET SUBSET DOMAIN f
  OBVIOUS
<1> HIDE DEF T
<1>3. T = SUBSET DOMAIN f
  BY <1>1, <1>2, FiniteSetInduction
<1> QED BY <1>3 DEF T

\* What is summed over counts, not where it comes from: two functions whose
\* values an injection takes into each other have the same sum.
LEMMA SumOverReindexed ==
    ASSUME NEW f, IsFiniteSet(DOMAIN f), \A x \in DOMAIN f : f[x] \in Int,
           NEW g, IsFiniteSet(DOMAIN g), \A y \in DOMAIN g : g[y] \in Int,
           NEW r \in [DOMAIN f -> DOMAIN g],
           \A x, y \in DOMAIN f : r[x] = r[y] => x = y,
           \A x \in DOMAIN f : f[x] = g[r[x]],
           NEW s \in SUBSET DOMAIN f
    PROVE  SumOver(f, s) = SumOver(g, {r[x] : x \in s})
<1> DEFINE Image(t) == {r[x] : x \in t}
           T == {t \in SUBSET DOMAIN f : SumOver(f, t) = SumOver(g, Image(t))}
<1>1. ASSUME NEW t \in SUBSET DOMAIN f, \A x \in t : t \ {x} \in T
      PROVE  t \in T
  <2>1. CASE t = {}
    <3>1. Image(t) = {}
      BY <2>1
    <3> QED BY <2>1, <3>1, SumOverEquation
  <2>2. CASE t # {}
    <3>1. PICK x \in t : TRUE
      BY <2>2
    <3>2. /\ Image(t) \in SUBSET DOMAIN g /\ r[x] \in Image(t)
          /\ Image(t) \ {r[x]} = Image(t \ {x})
      <4>1. \A y \in t : r[y] \in DOMAIN g
        OBVIOUS
      <4>2. \A y \in t : r[y] = r[x] => y = x
        OBVIOUS
      <4> QED BY <4>1, <4>2
    <3>3. SumOver(f, t \ {x}) = SumOver(g, Image(t \ {x}))
      BY <1>1
    <3> HIDE DEF Image
    <3>4. SumOver(f, t) = f[x] + SumOver(f, t \ {x})
      BY SumOverRemove
    <3>5. SumOver(g, Image(t)) = g[r[x]] + SumOver(g, Image(t) \ {r[x]})
      BY <3>2, SumOverRemove
    <3>6. f[x] = g[r[x]]
      OBVIOUS
    <3> QED BY <3>2, <3>3, <3>4, <3>5, <3>6
  <2> QED BY <2>1, <2>2
<1>2. T \in SUBSET SUBSET DOMAIN f
  OBVIOUS
<1> HIDE DEF T
<1>3. T = SUBSET DOMAIN f
  BY <1>1, <1>2, FiniteSetInduction
<1> QED BY <1>3 DEF T

\* Sums of naturals: part of a sum, and a sum of larger summands.
LEMMA SumOverNat ==
    ASSUME NEW f, IsFiniteSet(DOMAIN f), \A x \in DOMAIN f : f[x] \in Nat,
           NEW s \in SUBSET DOMAIN f
    PROVE  SumOver(f, s) \in Nat
<1> DEFINE T == {t \in SUBSET DOMAIN f : SumOver(f, t) \in Nat}
<1>1. ASSUME NEW t \in SUBSET DOMAIN f, \A x \in t : t \ {x} \in T
      PROVE  t \in T
  <2>1. CASE t = {}
    BY <2>1, SumOverEquation
  <2>2. CASE t # {}
    <3>1. PICK x \in t : TRUE
      BY <2>2
    <3>2. SumOver(f, t) = f[x] + SumOver(f, t \ {x})
      BY SumOverRemove
    <3>3. SumOver(f, t \ {x}) \in Nat /\ f[x] \in Nat
      BY <3>1, <1>1
    <3>4. SumOver(f, t) \in Nat
      BY <3>2, <3>3
    <3> QED BY <3>4
  <2> QED BY <2>1, <2>2
<1>2. T \in SUBSET SUBSET DOMAIN f
  OBVIOUS
<1> HIDE DEF T
<1>3. T = SUBSET DOMAIN f
  BY <1>1, <1>2, FiniteSetInduction
<1> QED BY <1>3 DEF T

LEMMA SumOverBounded ==
    ASSUME NEW f, IsFiniteSet(DOMAIN f), \A x \in DOMAIN f : f[x] \in Int,
           NEW g, IsFiniteSet(DOMAIN g), \A y \in DOMAIN g : g[y] \in Int,
           NEW s \in SUBSET (DOMAIN f \cap DOMAIN g),
           \A x \in s : 100 * f[x] <= g[x]
    PROVE  100 * SumOver(f, s) <= SumOver(g, s)
<1> DEFINE T == {t \in SUBSET s : 100 * SumOver(f, t) <= SumOver(g, t)}
<1>1. ASSUME NEW t \in SUBSET s, \A x \in t : t \ {x} \in T
      PROVE  t \in T
  <2>1. CASE t = {}
    <3>1. SumOver(f, {}) = 0 /\ SumOver(g, {}) = 0
      BY SumOverEquation
    <3> QED BY <2>1, <3>1
  <2>2. CASE t # {}
    <3>1. PICK x \in t : TRUE
      BY <2>2
    <3>2. /\ SumOver(f, t) = f[x] + SumOver(f, t \ {x})
          /\ SumOver(g, t) = g[x] + SumOver(g, t \ {x})
      BY SumOverRemove
    <3>3. 100 * SumOver(f, t \ {x}) <= SumOver(g, t \ {x}) /\ 100 * f[x] <= g[x]
      BY <1>1
    <3>4. /\ SumOver(f, t \ {x}) \in Int /\ SumOver(g, t \ {x}) \in Int
          /\ f[x] \in Int /\ g[x] \in Int
      BY SumOverInt
    <3>5. 100 * SumOver(f, t) <= SumOver(g, t)
      <4> HIDE DEF T
      <4> QED BY <3>2, <3>3, <3>4
    <3> QED BY <3>5
  <2> QED BY <2>1, <2>2
<1>2. T \in SUBSET SUBSET s /\ IsFiniteSet(s)
  BY FS_Subset
<1> HIDE DEF T
<1>3. T = SUBSET s
  BY <1>1, <1>2, FiniteSetInduction
<1> QED BY <1>3 DEF T

LEMMA SumOverDisjoint ==
    ASSUME NEW f, IsFiniteSet(DOMAIN f), \A x \in DOMAIN f : f[x] \in Int,
           NEW a \in SUBSET DOMAIN f, NEW b \in SUBSET DOMAIN f, a \cap b = {}
    PROVE  SumOver(f, a \cup b) = SumOver(f, a) + SumOver(f, b)
<1> DEFINE T == {t \in SUBSET a : SumOver(f, t \cup b) = SumOver(f, t) + SumOver(f, b)}
<1>1. ASSUME NEW t \in SUBSET a, \A x \in t : t \ {x} \in T
      PROVE  t \in T
  <2>0. SumOver(f, b) \in Int
    BY SumOverInt
  <2>1. CASE t = {}
    <3>1. SumOver(f, {}) = 0 /\ t \cup b = b
      BY <2>1, SumOverEquation
    <3> QED BY <2>0, <2>1, <3>1
  <2>2. CASE t # {}
    <3>1. PICK x \in t : TRUE
      BY <2>2
    <3>2. (t \cup b) \ {x} = (t \ {x}) \cup b
      OBVIOUS
    <3>3. /\ SumOver(f, t) = f[x] + SumOver(f, t \ {x})
          /\ SumOver(f, t \cup b) = f[x] + SumOver(f, (t \cup b) \ {x})
      BY SumOverRemove
    <3>4. SumOver(f, (t \ {x}) \cup b) = SumOver(f, t \ {x}) + SumOver(f, b)
      BY <1>1
    <3>5. SumOver(f, t \ {x}) \in Int /\ f[x] \in Int
      BY SumOverInt
    <3> HIDE DEF T
    <3>6. SumOver(f, t \cup b) = f[x] + (SumOver(f, t \ {x}) + SumOver(f, b))
      BY <3>2, <3>3, <3>4
    <3>7. SumOver(f, t \cup b) = SumOver(f, t) + SumOver(f, b)
      BY <2>0, <3>3, <3>5, <3>6
    <3> QED BY <3>7 DEF T
  <2> QED BY <2>1, <2>2
<1>2. T \in SUBSET SUBSET a /\ IsFiniteSet(a)
  BY FS_Subset
<1> HIDE DEF T
<1>3. T = SUBSET a
  BY <1>1, <1>2, FiniteSetInduction
<1> QED BY <1>3 DEF T

\* Functions that agree on a set have the same sum over it.
LEMMA SumOverSame ==
    ASSUME NEW f, IsFiniteSet(DOMAIN f), \A x \in DOMAIN f : f[x] \in Int,
           NEW g, IsFiniteSet(DOMAIN g), \A y \in DOMAIN g : g[y] \in Int,
           NEW s \in SUBSET (DOMAIN f \cap DOMAIN g),
           \A x \in s : f[x] = g[x]
    PROVE  SumOver(f, s) = SumOver(g, s)
<1> DEFINE T == {t \in SUBSET s : SumOver(f, t) = SumOver(g, t)}
<1>1. ASSUME NEW t \in SUBSET s, \A x \in t : t \ {x} \in T
      PROVE  t \in T
  <2>1. CASE t = {}
    BY <2>1, SumOverEquation
  <2>2. CASE t # {}
    <3>1. PICK x \in t : TRUE
      BY <2>2
    <3>2. /\ SumOver(f, t) = f[x] + SumOver(f, t \ {x})
          /\ SumOver(g, t) = g[x] + SumOver(g, t \ {x})
      BY SumOverRemove
    <3>3. SumOver(f, t \ {x}) = SumOver(g, t \ {x}) /\ f[x] = g[x]
      BY <1>1
    <3> QED BY <3>2, <3>3
  <2> QED BY <2>1, <2>2
<1>2. T \in SUBSET SUBSET s /\ IsFiniteSet(s)
  BY FS_Subset
<1> HIDE DEF T
<1>3. T = SUBSET s
  BY <1>1, <1>2, FiniteSetInduction
<1> QED BY <1>3 DEF T

\* The same when one function has all of the other, and more.
LEMMA GrownSum ==
    ASSUME NEW f, NEW g, IsFiniteSet(DOMAIN g), \A y \in DOMAIN g : g[y] \in Int,
           DOMAIN f \subseteq DOMAIN g, \A x \in DOMAIN f : f[x] = g[x]
    PROVE  SumOver(f, DOMAIN f) = SumOver(g, DOMAIN f)
<1>1. DOMAIN f \in SUBSET (DOMAIN f \cap DOMAIN g) /\ IsFiniteSet(DOMAIN f)
  BY FS_Subset
<1>2. \A x \in DOMAIN f : f[x] \in Int
  OBVIOUS
<1> QED BY <1>1, <1>2, SumOverSame
=============================================================================
