------------------------ MODULE AnalysisPipelineProofs ------------------------
(***************************************************************************)
(* Proofs about AnalysisPipeline: the result of an analysis is a record    *)
(* that grows part by part while the rules may change and the model may    *)
(* refuse.  The inductive invariant says of every part what it was         *)
(* computed from, and the properties are read off it with lemmas about     *)
(* the operators of the kernel, each for every file, event and rule base.  *)
(***************************************************************************)
EXTENDS AnalysisPipeline, FiniteSetTheorems, SequenceTheorems, WellFoundedInduction, TLAPS

-----------------------------------------------------------------------------
(* The rules that hit.                                                     *)

(* A set of numbers has a least member: what a recursive function builds   *)
(* is proved of every step by looking at the least one where it fails.     *)
LEMMA LeastNumber == ASSUME NEW T, T \subseteq Nat, T # {} PROVE \E m \in T : \A n \in T : m <= n
<1> DEFINE S == OpToRel(<, Nat)
<1>1. \A x \in Nat \X Nat : x[1] < x[2] => x \in S
    BY DEF OpToRel
<1>2. IsWellFoundedOn(S, Nat)
    BY NatLessThanWellFounded
<1> HIDE DEF S
<1>3. \E m \in T : \A n \in T : ~(<<n, m>> \in S)
  BY ONLY <1>2, WFMin, T \subseteq Nat, T # {}, Zenon
<1>4. PICK m \in T : \A n \in T : ~(<<n, m>> \in S)
  BY <1>3, Zenon
<1>5. ASSUME NEW n \in T PROVE ~(n < m)
  <2>1. <<n, m>> \in Nat \X Nat /\ <<n, m>>[1] = n /\ <<n, m>>[2] = m
     OBVIOUS
  <2>2. <<n, m>> \notin S
     BY <1>4
  <2> QED BY <2>1, <2>2, <1>1, Zenon
<1> QED BY <1>5

-----------------------------------------------------------------------------
(* Folds over finite sets: the library's take the members of a set in the  *)
(* order of CHOOSE, one after the other.                                   *)
Picked(s) == CHOOSE x \in s : TRUE
Rest(s) == s \ {Picked(s)}

LEMMA PickedIsMember == \A s : s # {} => Picked(s) \in s
BY DEF Picked

(* A family of finite sets has a member with no smaller one in the family. *)
LEMMA LeastSubset ==
    ASSUME NEW D, IsFiniteSet(D), NEW B, B \subseteq SUBSET D, B # {}
    PROVE  \E s \in B : \A t \in B : ~(t \subseteq s /\ t # s)
<1>1. FiniteSubsetsOf(D) = SUBSET D
  BY FS_FiniteSubsetsOfFinite
<1>2. IsWellFoundedOn(StrictSubsetOrdering(D), SUBSET D)
  BY <1>1, FS_StrictSubsetOrderingWellFounded
<1>3. PICK s \in B : \A t \in B : ~(<<t, s>> \in StrictSubsetOrdering(D))
  BY ONLY <1>2, WFMin, B \subseteq SUBSET D, B # {}, Zenon
<1>4. ASSUME NEW t \in B, t \subseteq s, t # s PROVE FALSE
  <2>1. <<t, s>> \in StrictSubsetOrdering(D)
    BY <1>4 DEF StrictSubsetOrdering
  <2> QED BY <1>3, <2>1
<1> QED BY <1>4

(* Up to n members, g folds op over the subsets of D. *)
FoldsUpTo(g, op, base, D, n) ==
    \A s \in SUBSET D : Cardinality(s) <= n =>
        g[s] = IF s = {} THEN base ELSE op[Picked(s)][g[Rest(s)]]

FoldsAll(g, op, base, D) ==
    \A s \in SUBSET D : g[s] = IF s = {} THEN base ELSE op[Picked(s)][g[Rest(s)]]

LEMMA FoldExists ==
    ASSUME NEW D, IsFiniteSet(D), NEW V, NEW base, base \in V, NEW op, op \in [D -> [V -> V]]
    PROVE  \E g \in [SUBSET D -> V] : FoldsAll(g, op, base, D)
<1> DEFINE Fine(n) == \E g \in [SUBSET D -> V] : FoldsUpTo(g, op, base, D, n)
           Bad     == {n \in Nat : ~Fine(n)}
<1>1. \A s \in SUBSET D : IsFiniteSet(s) /\ Cardinality(s) \in Nat /\ Cardinality(s) <= Cardinality(D)
  BY FS_Subset, FS_CardinalityType
<1>2. \A s \in SUBSET D : s # {} => /\ Picked(s) \in D /\ Rest(s) \in SUBSET D
                                    /\ Cardinality(Rest(s)) = Cardinality(s) - 1
  BY <1>1, FS_RemoveElement, PickedIsMember DEF Rest
<1>3. Fine(0)
  <2> DEFINE g == [s \in SUBSET D |-> base]
  <2>1. \A s \in SUBSET D : Cardinality(s) <= 0 => s = {}
    BY <1>1, FS_EmptySet
  <2>2. g \in [SUBSET D -> V] /\ FoldsUpTo(g, op, base, D, 0)
    BY <2>1 DEF FoldsUpTo
  <2> QED BY <2>2
<1>4. ASSUME NEW n \in Nat, Fine(n) PROVE Fine(n + 1)
  <2>1. PICK f \in [SUBSET D -> V] : FoldsUpTo(f, op, base, D, n)
    BY <1>4
  <2> DEFINE g == [s \in SUBSET D |-> IF Cardinality(s) <= n THEN f[s] ELSE op[Picked(s)][f[Rest(s)]]]
  <2>2. \A s \in SUBSET D : ~(Cardinality(s) <= n) => s # {}
    <3>1. Cardinality({}) <= n
      BY FS_EmptySet
    <3> QED BY <3>1
  <2>3. g \in [SUBSET D -> V]
    BY <1>2, <2>2
  <2>4. ASSUME NEW s \in SUBSET D, Cardinality(s) <= n + 1
        PROVE  g[s] = IF s = {} THEN base ELSE op[Picked(s)][g[Rest(s)]]
    <3>1. CASE s = {}
      <4>1. Cardinality(s) <= n
        BY <3>1, FS_EmptySet
      <4> QED BY <3>1, <4>1, <2>1 DEF FoldsUpTo
    <3>2. CASE s # {}
      <4>1. Rest(s) \in SUBSET D /\ Cardinality(Rest(s)) <= n
        BY <3>2, <2>4, <1>1, <1>2
      <4>2. g[Rest(s)] = f[Rest(s)]
        BY <4>1
      <4>3. g[s] = op[Picked(s)][f[Rest(s)]]
        BY <3>2, <2>1 DEF FoldsUpTo
      <4> QED BY <3>2, <4>2, <4>3
    <3> QED BY <3>1, <3>2
  <2> HIDE DEF g
  <2>5. FoldsUpTo(g, op, base, D, n + 1)
    BY <2>4 DEF FoldsUpTo
  <2> QED BY <2>3, <2>5
<1> HIDE DEF Fine
<1>5. Bad = {}
  <2> SUFFICES ASSUME Bad # {} PROVE FALSE
    OBVIOUS
  <2>1. PICK m \in Bad : \A j \in Bad : m <= j
    BY LeastNumber
  <2>2. m \in Nat \ {0}
    BY <1>3
  <2>3. m - 1 \in Nat /\ m - 1 \notin Bad /\ (m - 1) + 1 = m
    BY <2>1, <2>2
  <2> QED BY <1>4, <2>2, <2>3
<1>6. Cardinality(D) \in Nat
  BY FS_CardinalityType
<1>7. PICK g \in [SUBSET D -> V] : FoldsUpTo(g, op, base, D, Cardinality(D))
  BY <1>5, <1>6 DEF Fine
<1> QED BY <1>1, <1>7 DEF FoldsUpTo, FoldsAll

(* Sums: Total(f) is what SumFunction sums up, subset by subset. *)
Adds(g, f) ==
    g = [s \in SUBSET DOMAIN f |-> IF s = {} THEN 0 ELSE f[Picked(s)] + g[Rest(s)]]
Total(f) == CHOOSE g : Adds(g, f)

LEMMA SumIsTotal == \A f : SumFunction(f) = Total(f)[DOMAIN f]
BY DEF SumFunction, SumFunctionOnSet, FoldFunctionOnSet, MapThenFoldSet, Adds, Total, Picked, Rest

Summable(f) == IsFiniteSet(DOMAIN f) /\ \A x \in DOMAIN f : f[x] \in Int

LEMMA TotalAdds ==
    ASSUME NEW f, Summable(f)
    PROVE  /\ Total(f)[{}] = 0
           /\ \A s \in SUBSET DOMAIN f :
                 /\ Total(f)[s] \in Int
                 /\ s # {} => /\ Picked(s) \in s /\ Rest(s) \in SUBSET DOMAIN f /\ Rest(s) # s /\ Rest(s) \subseteq s
                              /\ Total(f)[s] = f[Picked(s)] + Total(f)[Rest(s)]
<1> DEFINE D  == DOMAIN f
           op == [x \in D |-> [v \in Int |-> f[x] + v]]
<1>1. op \in [D -> [Int -> Int]]
  BY DEF Summable
<1>2. \A s \in SUBSET D : s # {} => Picked(s) \in s /\ Rest(s) \in SUBSET D /\ Rest(s) # s /\ Rest(s) \subseteq s
  BY PickedIsMember DEF Rest
<1>3. PICK g \in [SUBSET D -> Int] :
         \A s \in SUBSET D : g[s] = IF s = {} THEN 0 ELSE op[Picked(s)][g[Rest(s)]]
  <2>1. IsFiniteSet(D) /\ 0 \in Int
    BY DEF Summable
  <2> HIDE DEF op, D
  <2>2. PICK g \in [SUBSET D -> Int] : FoldsAll(g, op, 0, D)
    BY ONLY <1>1, <2>1, FoldExists
  <2> QED BY <2>2 DEF FoldsAll
<1>4. \A s \in SUBSET D : g[s] = IF s = {} THEN 0 ELSE f[Picked(s)] + g[Rest(s)]
  BY <1>2, <1>3
<1>5. Adds(g, f)
  BY <1>4 DEF Adds
<1>6. Adds(Total(f), f)
  BY <1>5 DEF Total
<1>7. \A s \in SUBSET D : Total(f)[s] = IF s = {} THEN 0 ELSE f[Picked(s)] + Total(f)[Rest(s)]
  <2> DEFINE h == Total(f)
  <2>1. h = [s \in SUBSET D |-> IF s = {} THEN 0 ELSE f[Picked(s)] + h[Rest(s)]]
    BY <1>6 DEF Adds
  <2> HIDE DEF h
  <2>2. \A s \in SUBSET D : h[s] = IF s = {} THEN 0 ELSE f[Picked(s)] + h[Rest(s)]
    BY <2>1, Zenon
  <2> QED BY <2>2 DEF h
<1>8. ASSUME NEW s \in SUBSET D PROVE Total(f)[s] \in Int
  <2> DEFINE Bad == {t \in SUBSET D : Total(f)[t] \notin Int}
  <2> SUFFICES ASSUME Bad # {} PROVE FALSE
    OBVIOUS
  <2>0. IsFiniteSet(D) /\ Bad \subseteq SUBSET D
    BY DEF Summable
  <2>1. PICK t \in Bad : \A u \in Bad : ~(u \subseteq t /\ u # t)
    <3> HIDE DEF Bad, D
    <3> QED BY ONLY <2>0, Bad # {}, LeastSubset
  <2>2. t # {}
    BY <1>7
  <2>3. Picked(t) \in D /\ Rest(t) \in SUBSET D /\ Total(f)[Rest(t)] \in Int
    BY <1>2, <2>1, <2>2
  <2> QED BY <1>7, <2>2, <2>3 DEF Summable
<1> QED BY <1>2, <1>7, <1>8

(* The sum of a larger file is larger, over every subset. *)
LEMMA TotalMonotone ==
    ASSUME NEW f, NEW g, Summable(f), Summable(g), DOMAIN f \subseteq DOMAIN g,
           \A x \in DOMAIN f : f[x] <= g[x]
    PROVE  \A s \in SUBSET DOMAIN f : Total(f)[s] <= Total(g)[s]
<1> DEFINE D   == DOMAIN f
           Bad == {t \in SUBSET D : ~(Total(f)[t] <= Total(g)[t])}
<1> SUFFICES ASSUME Bad # {} PROVE FALSE
  OBVIOUS
<1>1. IsFiniteSet(D) /\ Bad \subseteq SUBSET D
  BY DEF Summable
<1>2. PICK t \in Bad : \A u \in Bad : ~(u \subseteq t /\ u # t)
  <2> HIDE DEF Bad, D
  <2> QED BY ONLY <1>1, Bad # {}, LeastSubset
<1>3. t # {}
  <2>1. Total(f)[{}] = 0 /\ Total(g)[{}] = 0
    BY TotalAdds
  <2> QED BY <2>1
<1>4. Picked(t) \in D /\ Rest(t) \in SUBSET D /\ Total(f)[Rest(t)] <= Total(g)[Rest(t)]
  BY <1>2, <1>3, TotalAdds
<1>5. /\ Total(f)[t] = f[Picked(t)] + Total(f)[Rest(t)]
      /\ Total(g)[t] = g[Picked(t)] + Total(g)[Rest(t)]
      /\ Total(f)[Rest(t)] \in Int /\ Total(g)[Rest(t)] \in Int
  BY <1>3, <1>4, TotalAdds
<1>6. f[Picked(t)] \in Int /\ g[Picked(t)] \in Int /\ f[Picked(t)] <= g[Picked(t)]
  BY <1>4 DEF Summable
<1>7. Total(f)[t] <= Total(g)[t]
  BY <1>4, <1>5, <1>6
<1> QED BY <1>7

(* The order of a sum does not matter: any member may come last. *)
LEMMA TotalRemoves ==
    ASSUME NEW f, Summable(f), NEW s \in SUBSET DOMAIN f, NEW x \in s
    PROVE  Total(f)[s] = f[x] + Total(f)[s \ {x}]
<1> DEFINE D   == DOMAIN f
           Bad == {t \in SUBSET D : \E y \in t : Total(f)[t] # f[y] + Total(f)[t \ {y}]}
<1> SUFFICES ASSUME Bad # {} PROVE FALSE
  OBVIOUS
<1>1. IsFiniteSet(D) /\ Bad \subseteq SUBSET D
  BY DEF Summable
<1>2. PICK t \in Bad : \A u \in Bad : ~(u \subseteq t /\ u # t)
  <2> HIDE DEF Bad, D
  <2> QED BY ONLY <1>1, Bad # {}, LeastSubset
<1>3. PICK y \in t : Total(f)[t] # f[y] + Total(f)[t \ {y}]
  OBVIOUS
<1> DEFINE p == Picked(t)
           r == t \ {p}
<1>4. /\ p \in t /\ r \in SUBSET D /\ r # t /\ r \subseteq t
      /\ Total(f)[t] = f[p] + Total(f)[r]
  BY <1>3, TotalAdds DEF Rest
<1> HIDE DEF p
<1>5. y # p
  BY <1>3, <1>4
<1>6. y \in r /\ r \notin Bad
  BY <1>2, <1>4, <1>5
<1>7. Total(f)[r] = f[y] + Total(f)[r \ {y}]
  BY <1>4, <1>6
<1> DEFINE u == t \ {y}
<1>8. u \in SUBSET D /\ u # t /\ u \subseteq t /\ p \in u
  BY <1>4, <1>5
<1>9. Total(f)[u] = f[p] + Total(f)[u \ {p}]
  BY <1>2, <1>8
<1>10. u \ {p} = r \ {y}
  OBVIOUS
<1>11. f[y] \in Int /\ f[p] \in Int /\ Total(f)[r \ {y}] \in Int
  BY <1>4, <1>6, TotalAdds DEF Summable
<1>12. Total(f)[t] = f[p] + (f[y] + Total(f)[r \ {y}])
  BY <1>4, <1>7
<1>13. f[y] + Total(f)[u] = f[y] + (f[p] + Total(f)[r \ {y}])
  BY <1>9, <1>10
<1> HIDE DEF r, u, Bad
<1>14. Total(f)[t] = f[y] + Total(f)[u]
  BY <1>11, <1>12, <1>13
<1> QED BY <1>3, <1>14 DEF u

(* A sum of larger terms is larger, and one more term is added. *)
LEMMA SumIsInt == ASSUME NEW f, Summable(f) PROVE SumFunction(f) \in Int
BY TotalAdds, SumIsTotal

LEMMA SumOfNaturals ==
    ASSUME NEW f, Summable(f), \A x \in DOMAIN f : f[x] >= 0
    PROVE  SumFunction(f) >= 0
<1> DEFINE D   == DOMAIN f
           Bad == {t \in SUBSET D : ~(Total(f)[t] >= 0)}
<1>1. Bad = {}
  <2> SUFFICES ASSUME Bad # {} PROVE FALSE
    OBVIOUS
  <2>1. IsFiniteSet(D) /\ Bad \subseteq SUBSET D
    BY DEF Summable
  <2>2. PICK t \in Bad : \A u \in Bad : ~(u \subseteq t /\ u # t)
    <3> HIDE DEF Bad, D
    <3> QED BY ONLY <2>1, Bad # {}, LeastSubset
  <2>3. t # {}
    <3>1. Total(f)[{}] = 0
      BY TotalAdds
    <3> QED BY <3>1
  <2>4. /\ Picked(t) \in D /\ Rest(t) \in SUBSET D /\ Total(f)[Rest(t)] >= 0 /\ Total(f)[Rest(t)] \in Int
        /\ Total(f)[t] = f[Picked(t)] + Total(f)[Rest(t)]
    BY <2>2, <2>3, TotalAdds
  <2>5. f[Picked(t)] \in Int /\ f[Picked(t)] >= 0
    BY <2>4 DEF Summable
  <2>6. Total(f)[t] >= 0
    BY <2>4, <2>5
  <2> QED BY <2>6
<1>2. Total(f)[D] >= 0
  BY <1>1
<1> QED BY <1>2, SumIsTotal

LEMMA SumGrows ==
    ASSUME NEW f, NEW g, Summable(f), Summable(g), DOMAIN g = DOMAIN f, \A x \in DOMAIN f : f[x] <= g[x]
    PROVE  SumFunction(f) <= SumFunction(g)
<1>1. Total(f)[DOMAIN f] <= Total(g)[DOMAIN f]
  BY TotalMonotone
<1> QED BY <1>1, SumIsTotal

LEMMA SumGains ==
    ASSUME NEW f, NEW g, Summable(f), Summable(g), NEW x, x \notin DOMAIN f, DOMAIN g = DOMAIN f \cup {x},
           \A y \in DOMAIN f : g[y] = f[y]
    PROVE  SumFunction(g) >= SumFunction(f) + g[x]
<1>1. DOMAIN g \in SUBSET DOMAIN g /\ x \in DOMAIN g
  OBVIOUS
<1>2. Total(g)[DOMAIN g] = g[x] + Total(g)[DOMAIN g \ {x}]
  <2>1. \A s \in SUBSET DOMAIN g : \A y \in s : Total(g)[s] = g[y] + Total(g)[s \ {y}]
    BY ONLY Summable(g), TotalRemoves
  <2> QED BY <1>1, <2>1, Zenon
<1>3. DOMAIN g \ {x} = DOMAIN f
  OBVIOUS
<1>4. Total(f)[DOMAIN f] <= Total(g)[DOMAIN f]
  <2>1. \A y \in DOMAIN f : f[y] <= g[y]
    BY DEF Summable
  <2>2. DOMAIN f \subseteq DOMAIN g
    OBVIOUS
  <2> QED BY <2>1, <2>2, TotalMonotone
<1>5. Total(f)[DOMAIN f] \in Int /\ Total(g)[DOMAIN f] \in Int /\ g[x] \in Int
  BY <1>1, <1>3, TotalAdds DEF Summable
<1>6. SumFunction(f) = Total(f)[DOMAIN f] /\ SumFunction(g) = g[x] + Total(g)[DOMAIN f]
  BY <1>2, <1>3, SumIsTotal
<1> QED BY <1>4, <1>5, <1>6

-----------------------------------------------------------------------------
(* The hits of the first n rules.                                          *)
Matching(f, n, base, metrics, events, key) ==
    f = [k \in 0..n |-> IF k = 0 THEN <<>>
                        ELSE IF Applies(base[k], metrics, events, key) THEN Append(f[k - 1], RuleHit(base[k]))
                        ELSE f[k - 1]]

LEMMA MatchingStarts ==
    ASSUME NEW base, NEW metrics, NEW events, NEW key, NEW n \in Nat, NEW f,
           Matching(f, n, base, metrics, events, key)
    PROVE  f[0] = <<>>
<1>1. 0 \in 0..n
  OBVIOUS
<1> QED BY <1>1, Zenon DEF Matching

LEMMA MatchingSteps ==
    ASSUME NEW base, NEW metrics, NEW events, NEW key, NEW n \in Nat, NEW f,
           Matching(f, n, base, metrics, events, key), NEW k \in 1..n
    PROVE  f[k] = IF Applies(base[k], metrics, events, key) THEN Append(f[k - 1], RuleHit(base[k])) ELSE f[k - 1]
<1>1. k \in 0..n /\ k # 0
  OBVIOUS
<1> QED BY <1>1, Zenon DEF Matching

LEMMA MatchingExists ==
    ASSUME NEW base, NEW metrics, NEW events, NEW key, NEW n \in Nat
    PROVE  \E f : Matching(f, n, base, metrics, events, key)
<1> DEFINE Fine(k) == \E f : Matching(f, k, base, metrics, events, key)
           Bad     == {k \in Nat : ~Fine(k)}
<1>1. Fine(0)
  <2> DEFINE g == [k \in 0..0 |-> <<>>]
  <2>1. Matching(g, 0, base, metrics, events, key)
    BY DEF Matching
  <2> QED BY <2>1
<1>2. ASSUME NEW k \in Nat \ {0}, Fine(k - 1) PROVE Fine(k)
  <2>1. PICK f : Matching(f, k - 1, base, metrics, events, key)
    BY <1>2
  <2> DEFINE last == IF Applies(base[k], metrics, events, key) THEN Append(f[k - 1], RuleHit(base[k])) ELSE f[k - 1]
             g    == [j \in 0..k |-> IF j = k THEN last ELSE f[j]]
  <2>2. /\ \A j \in 1..(k - 1) : g[j - 1] = f[j - 1] /\ g[j] = f[j]
        /\ g[0] = f[0] /\ g[k] = last /\ g[k - 1] = f[k - 1]
    OBVIOUS
  <2>7. k - 1 \in Nat
    OBVIOUS
  <2>3. f[0] = <<>>
    BY <2>1, <2>7, MatchingStarts
  <2>8. \A j \in 1..(k - 1) :
           f[j] = IF Applies(base[j], metrics, events, key) THEN Append(f[j - 1], RuleHit(base[j])) ELSE f[j - 1]
    BY <2>1, <2>7, MatchingSteps
  <2>4. DOMAIN g = 0..k /\ g = [j \in 0..k |-> g[j]]
    OBVIOUS
  <2> HIDE DEF g
  <2>5. ASSUME NEW j \in 0..k
        PROVE  g[j] = IF j = 0 THEN <<>>
                      ELSE IF Applies(base[j], metrics, events, key) THEN Append(g[j - 1], RuleHit(base[j]))
                      ELSE g[j - 1]
    <3>1. CASE j = 0
      BY <3>1, <2>2, <2>3, Zenon
    <3>2. CASE j = k
      BY <3>2, <2>2, Zenon
    <3>3. CASE j \in 1..(k - 1)
      <4>1. j # 0 /\ g[j] = f[j] /\ g[j - 1] = f[j - 1]
        BY <3>3, <2>2
      <4> QED BY <4>1, <3>3, <2>8, Zenon
    <3> QED BY <3>1, <3>2, <3>3
  <2>6. Matching(g, k, base, metrics, events, key)
    BY <2>4, <2>5 DEF Matching
  <2> QED BY <2>6
<1> HIDE DEF Fine
<1>3. Bad = {}
  <2> SUFFICES ASSUME Bad # {} PROVE FALSE
    OBVIOUS
  <2>1. PICK m \in Bad : \A j \in Bad : m <= j
    BY LeastNumber
  <2>2. m \in Nat \ {0}
    BY <1>1
  <2>3. m - 1 \in Nat /\ m - 1 \notin Bad
    BY <2>1, <2>2
  <2> QED BY <1>2, <2>2, <2>3
<1> QED BY <1>3 DEF Fine

(* Every hit is the hit of a rule on file. *)
LEMMA MatchHits ==
    ASSUME NEW base, base \in Seq(Range(base)), NEW metrics, NEW events, NEW key
    PROVE  match(base, metrics, events, key) \in Seq({RuleHit(rule) : rule \in Range(base)})
<1> DEFINE n == Len(base)
           H == {RuleHit(rule) : rule \in Range(base)}
           hits == CHOOSE f : Matching(f, n, base, metrics, events, key)
<1>1. match(base, metrics, events, key) = hits[n]
  BY DEF match, Matching
<1>2. n \in Nat
  OBVIOUS
<1> HIDE DEF n
<1>6. Matching(hits, n, base, metrics, events, key)
  BY <1>2, MatchingExists
<1> HIDE DEF hits
<1>7. /\ hits[0] = <<>>
      /\ \A k \in 1..n : hits[k] \in {Append(hits[k - 1], RuleHit(base[k])), hits[k - 1]}
  <2>1. /\ hits[0] = <<>>
        /\ \A k \in 1..n : hits[k] = IF Applies(base[k], metrics, events, key)
                                    THEN Append(hits[k - 1], RuleHit(base[k])) ELSE hits[k - 1]
    BY <1>2, <1>6, MatchingStarts, MatchingSteps
  <2> QED BY <2>1
<1>3. \A k \in 1..n : RuleHit(base[k]) \in H
  BY DEF Range, n
<1> HIDE DEF H
<1>4. ASSUME NEW k \in 0..n PROVE hits[k] \in Seq(H)
  <2> DEFINE Bad == {j \in 0..n : hits[j] \notin Seq(H)}
  <2> SUFFICES ASSUME Bad # {} PROVE FALSE
    OBVIOUS
  <2>1. Bad \subseteq Nat
    BY <1>2
  <2>2. PICK m \in Bad : \A j \in Bad : m <= j
    BY <2>1, LeastNumber
  <2>3. m # 0
    <3>1. hits[0] \in Seq(H)
      BY <1>7
    <3> QED BY <3>1
  <2>4. m \in 1..n /\ m - 1 \in 0..n /\ ~(m <= m - 1)
    BY <2>3, <1>2
  <2>5. hits[m - 1] \in Seq(H)
    BY <2>2, <2>4
  <2>6. hits[m] \in Seq(H)
    <3>1. RuleHit(base[m]) \in H
      BY <2>4, <1>3
    <3>2. Append(hits[m - 1], RuleHit(base[m])) \in Seq(H)
      BY <2>5, <3>1
    <3>3. hits[m] \in {Append(hits[m - 1], RuleHit(base[m])), hits[m - 1]}
      BY <2>4, <1>7
    <3> QED BY <2>5, <3>2, <3>3
  <2> QED BY <2>6
<1> QED BY <1>1, <1>2, <1>4 DEF H

-----------------------------------------------------------------------------
(* The verdict.                                                            *)

LEMMA VetoIsKnown == \A events : VetoReason(events) # None <=> Vetoed(events)
<1> SUFFICES ASSUME NEW events PROVE VetoReason(events) # None <=> Vetoed(events)
  OBVIOUS
<1>1. CASE Truthy(events, "dishonest")
  BY <1>1, NoneAssumption DEF VetoReason, Vetoed
<1>2. CASE ~Truthy(events, "dishonest") /\ Truthy(events, "bankruptcy")
  BY <1>2, NoneAssumption DEF VetoReason, Vetoed
<1>3. CASE ~Truthy(events, "dishonest") /\ ~Truthy(events, "bankruptcy")
  BY <1>3 DEF VetoReason, Vetoed
<1> QED BY <1>1, <1>2, <1>3

(* A veto decides the grade, whatever the score. *)
LEMMA VetoGrade == \A score, veto : veto => _grade(score, veto) = "BLACK"
BY DEF _grade

(* What a score says of its file, and the layers beside the rules keep.    *)
Carried(risk, metrics, events, hits) ==
    /\ risk.veto = VetoReason(events)
    /\ risk.enough = Enough(metrics)
    /\ risk.dimensions = [d \in DOMAIN DIMENSION_WEIGHTS |-> dim_score(hits, d)]
    /\ Vetoed(events) => risk.grade = "BLACK"

LEMMA ScoreCarries ==
    ASSUME NEW metrics, NEW events, NEW hits
    PROVE  Carried(score_risk(metrics, events, hits), metrics, events, hits)
<1> DEFINE risk   == score_risk(metrics, events, hits)
           vetoed == VetoReason(events) # None
<1>1. vetoed <=> Vetoed(events)
  BY VetoIsKnown
<1>2. PICK total : risk.grade = IF ~vetoed /\ ~Enough(metrics) THEN "UNRATED" ELSE _grade(total, vetoed)
  BY DEF score_risk
<1>3. vetoed => risk.grade = "BLACK"
  <2> HIDE DEF vetoed, risk
  <2> QED BY <1>2, VetoGrade
<1> QED BY <1>1, <1>3 DEF Carried, score_risk

LEMMA ScoreTotal ==
    ASSUME NEW metrics, NEW events, NEW hits
    PROVE  score_risk(metrics, events, hits).score =
               Min({10000, RuleTotal(hits) + (IF _detect_consecutive_loss(metrics, events, hits) /\ ~Vetoed(events)
                                              THEN EARLY_WARNING_BOOST ELSE 0)})
BY VetoIsKnown DEF score_risk

LEMMA RiskCarries ==
    ASSUME NEW metrics, NEW events, NEW hits
    PROVE  LET risk == enrich_risk(score_risk(metrics, events, hits), metrics, events, hits) IN
           /\ Carried(risk, metrics, events, hits)
           /\ Vetoed(events) => risk.calibrated.scale = "D"
           /\ ~Vetoed(events) /\ ~Enough(metrics) => risk.grade = "UNRATED"
<1> DEFINE rule   == score_risk(metrics, events, hits)
           risk   == enrich_risk(rule, metrics, events, hits)
           vetoed == rule.veto # None
<1>1. Carried(rule, metrics, events, hits)
  BY ScoreCarries
<1> HIDE DEF rule
<1>2. vetoed <=> Vetoed(events)
  BY <1>1, VetoIsKnown DEF Carried
<1>3. PICK combined : risk.grade = IF ~vetoed /\ ~rule.enough THEN "UNRATED" ELSE _grade(combined, vetoed)
  BY DEF enrich_risk
<1>4. /\ risk.veto = rule.veto
      /\ risk.enough = rule.enough
      /\ risk.dimensions = rule.dimensions
      /\ vetoed => risk.calibrated.scale = "D"
  BY DEF enrich_risk, calibrate
<1> HIDE DEF risk, vetoed
<1>5. /\ Vetoed(events) => risk.grade = "BLACK"
      /\ ~Vetoed(events) /\ ~Enough(metrics) => risk.grade = "UNRATED"
  BY <1>1, <1>2, <1>3, VetoGrade DEF Carried
<1>6. Carried(risk, metrics, events, hits)
  BY <1>1, <1>4, <1>5 DEF Carried
<1> QED BY <1>2, <1>4, <1>5, <1>6 DEF risk, rule

-----------------------------------------------------------------------------
(* How the score moves: one more hit.                                      *)
LEMMA MinOf == \A a, b \in Int : Min({a, b}) = IF a <= b THEN a ELSE b
<1> SUFFICES ASSUME NEW a \in Int, NEW b \in Int PROVE Min({a, b}) = IF a <= b THEN a ELSE b
  OBVIOUS
<1> DEFINE least == IF a <= b THEN a ELSE b
<1>1. least \in {a, b} /\ \A y \in {a, b} : least <= y
  OBVIOUS
<1>2. \A x : x \in {a, b} /\ (\A y \in {a, b} : x <= y) => x = least
  OBVIOUS
<1> HIDE DEF least
<1>3. Min({a, b}) = least
  BY <1>1, <1>2 DEF Min
<1> QED BY <1>3 DEF least

LEMMA MaxOf == \A a, b \in Int : Max({a, b}) = IF a >= b THEN a ELSE b
<1> SUFFICES ASSUME NEW a \in Int, NEW b \in Int PROVE Max({a, b}) = IF a >= b THEN a ELSE b
  OBVIOUS
<1> DEFINE most == IF a >= b THEN a ELSE b
<1>1. most \in {a, b} /\ \A y \in {a, b} : most >= y
  OBVIOUS
<1>2. \A x : x \in {a, b} /\ (\A y \in {a, b} : x >= y) => x = most
  OBVIOUS
<1> HIDE DEF most
<1>3. Max({a, b}) = most
  BY <1>1, <1>2 DEF Max
<1> QED BY <1>3 DEF most

LEMMA SeverityScores == \A severity : SEVERITY_SCORE(severity) \in {5, 10, 12, 25}
<1> SUFFICES ASSUME NEW severity PROVE SEVERITY_SCORE(severity) \in {5, 10, 12, 25}
  OBVIOUS
<1>1. CASE severity = "high"
  BY <1>1 DEF SEVERITY_SCORE
<1>2. CASE severity = "mid"
  BY <1>2 DEF SEVERITY_SCORE
<1>3. CASE severity = "low"
  BY <1>3 DEF SEVERITY_SCORE
<1>4. CASE severity \notin {"high", "mid", "low"}
  BY <1>4 DEF SEVERITY_SCORE
<1> QED BY <1>1, <1>2, <1>3, <1>4

LEMMA SeveritiesSummable == ASSUME NEW H, NEW hits \in Seq(H), NEW d PROVE Summable(Severities(hits, d))
<1>1. DOMAIN hits = 1..Len(hits) /\ Len(hits) \in Nat
  OBVIOUS
<1>2. IsFiniteSet(1..Len(hits))
  BY <1>1, FS_Interval
<1>3. IsFiniteSet(Counted(hits, d))
  BY <1>1, <1>2, FS_Subset DEF Counted
<1>4. \A i \in Counted(hits, d) : SEVERITY_SCORE(hits[i].severity) \in Int
  BY SeverityScores
<1> QED BY <1>3, <1>4 DEF Summable, Severities

LEMMA DimensionScores == ASSUME NEW H, NEW hits \in Seq(H), NEW d PROVE dim_score(hits, d) \in Int /\ dim_score(hits, d) <= 100
<1>1. SumFunction(Severities(hits, d)) \in Int
  BY SeveritiesSummable, SumIsInt
<1> DEFINE double == 2 * SumFunction(Severities(hits, d))
<1>2. double \in Int
  BY <1>1
<1> HIDE DEF double
<1>3. Min({100, double}) = IF 100 <= double THEN 100 ELSE double
  BY <1>2, MinOf
<1> QED BY <1>2, <1>3 DEF dim_score, double

LEMMA HitRaisesDimension ==
    ASSUME NEW H, NEW hits \in Seq(H), NEW hit \in H, NEW d
    PROVE  dim_score(hits, d) <= dim_score(Append(hits, hit), d)
<1> DEFINE more == Append(hits, hit)
           n    == Len(hits) + 1
           f    == Severities(hits, d)
           g    == Severities(more, d)
<1>1. /\ more \in Seq(H) /\ n \in Nat /\ n \notin DOMAIN hits /\ DOMAIN more = DOMAIN hits \cup {n}
      /\ \A i \in DOMAIN hits : more[i] = hits[i]
  OBVIOUS
<1>2. Summable(f) /\ Summable(g)
  BY <1>1, SeveritiesSummable
<1>3. DOMAIN f \subseteq DOMAIN hits /\ DOMAIN f \subseteq DOMAIN g /\ DOMAIN g \subseteq DOMAIN f \cup {n}
  BY <1>1 DEF Severities, Counted
<1>4. \A i \in DOMAIN f : g[i] = f[i]
  BY <1>1, <1>3 DEF Severities
<1>5. \A i \in DOMAIN g : g[i] \in Int /\ g[i] >= 0
  BY SeverityScores DEF Severities
<1> HIDE DEF f, g, more, n
<1>6. SumFunction(f) <= SumFunction(g)
  <2>1. CASE n \in DOMAIN g
    <3>1. n \notin DOMAIN f /\ DOMAIN g = DOMAIN f \cup {n}
      BY <2>1, <1>1, <1>3
    <3>2. SumFunction(g) >= SumFunction(f) + g[n]
      BY <3>1, <1>2, <1>4, SumGains
    <3>3. SumFunction(f) \in Int /\ SumFunction(g) \in Int /\ g[n] \in Int /\ g[n] >= 0
      BY <2>1, <1>2, <1>5, SumIsInt
    <3> QED BY <3>2, <3>3
  <2>2. CASE n \notin DOMAIN g
    <3>1. DOMAIN g = DOMAIN f
      BY <2>2, <1>3
    <3>2. \A i \in DOMAIN f : f[i] <= g[i]
      BY <1>3, <1>4, <1>5
    <3> QED BY <3>1, <3>2, <1>2, SumGrows
  <2> QED BY <2>1, <2>2
<1>7. SumFunction(f) \in Int /\ SumFunction(g) \in Int
  BY <1>2, SumIsInt
<1>8. /\ Min({100, 2 * SumFunction(f)}) = IF 100 <= 2 * SumFunction(f) THEN 100 ELSE 2 * SumFunction(f)
      /\ Min({100, 2 * SumFunction(g)}) = IF 100 <= 2 * SumFunction(g) THEN 100 ELSE 2 * SumFunction(g)
  <2>1. 2 * SumFunction(f) \in Int /\ 2 * SumFunction(g) \in Int
    BY <1>7
  <2> QED BY <2>1, MinOf
<1>9. Min({100, 2 * SumFunction(f)}) <= Min({100, 2 * SumFunction(g)})
  BY <1>6, <1>7, <1>8
<1> QED BY <1>9 DEF dim_score, f, g, more

LEMMA WeightsOfDimensions == \A d \in DOMAIN DIMENSION_WEIGHTS : DIMENSION_WEIGHTS[d] \in {15, 25, 30}
BY DEF DIMENSION_WEIGHTS

LEMMA FewFinite == \A a, b, c, d, e : IsFiniteSet({a, b, c, d, e})
<1> SUFFICES ASSUME NEW a, NEW b, NEW c, NEW d, NEW e PROVE IsFiniteSet({a, b, c, d, e})
  OBVIOUS
<1>1. IsFiniteSet({a})
  BY FS_Singleton
<1>2. IsFiniteSet({a} \cup {b})
  BY <1>1, FS_AddElement
<1>3. IsFiniteSet({a, b} \cup {c})
  <2>1. {a, b} = {a} \cup {b}
    OBVIOUS
  <2> QED BY <1>2, <2>1, FS_AddElement
<1>4. IsFiniteSet({a, b, c} \cup {d})
  <2>1. {a, b, c} = {a, b} \cup {c}
    OBVIOUS
  <2> QED BY <1>3, <2>1, FS_AddElement
<1>5. IsFiniteSet({a, b, c, d} \cup {e})
  <2>1. {a, b, c, d} = {a, b, c} \cup {d}
    OBVIOUS
  <2> QED BY <1>4, <2>1, FS_AddElement
<1>6. {a, b, c, d, e} = {a, b, c, d} \cup {e}
  OBVIOUS
<1> QED BY <1>5, <1>6

LEMMA DimensionsFinite == IsFiniteSet(DOMAIN DIMENSION_WEIGHTS)
<1>1. DOMAIN DIMENSION_WEIGHTS = {"financial", "operating", "industry", "sentiment", "related"}
  BY DEF DIMENSION_WEIGHTS
<1>2. IsFiniteSet({"financial", "operating", "industry", "sentiment", "related"})
  BY FewFinite, Zenon
<1> QED BY <1>1, <1>2, Zenon

Weighted(hits) == [d \in DOMAIN DIMENSION_WEIGHTS |-> dim_score(hits, d) * DIMENSION_WEIGHTS[d]]

LEMMA WeightedSummable == ASSUME NEW H, NEW hits \in Seq(H) PROVE Summable(Weighted(hits))
<1>1. \A d \in DOMAIN DIMENSION_WEIGHTS : dim_score(hits, d) \in Int /\ DIMENSION_WEIGHTS[d] \in Int
  BY DimensionScores, WeightsOfDimensions
<1> QED BY <1>1, DimensionsFinite DEF Summable, Weighted

LEMMA HitRaisesTotal ==
    ASSUME NEW H, NEW hits \in Seq(H), NEW hit \in H
    PROVE  RuleTotal(hits) <= RuleTotal(Append(hits, hit)) /\ RuleTotal(hits) \in Int /\ RuleTotal(Append(hits, hit)) \in Int
<1> DEFINE more == Append(hits, hit)
<1>1. more \in Seq(H)
  OBVIOUS
<1>2. \A d : dim_score(hits, d) <= dim_score(more, d) /\ dim_score(hits, d) \in Int /\ dim_score(more, d) \in Int
  BY <1>1, HitRaisesDimension, DimensionScores
<1> HIDE DEF more
<1>3. Summable(Weighted(hits)) /\ Summable(Weighted(more))
  BY <1>1, WeightedSummable
<1>4. ASSUME NEW d \in DOMAIN DIMENSION_WEIGHTS PROVE Weighted(hits)[d] <= Weighted(more)[d]
  <2>1. PICK a \in Int, b \in Int, w \in {15, 25, 30} : a = dim_score(hits, d) /\ b = dim_score(more, d) /\ w = DIMENSION_WEIGHTS[d] /\ a <= b
    BY <1>2, WeightsOfDimensions
  <2>2. a * w <= b * w
    BY <2>1
  <2>3. Weighted(hits)[d] = dim_score(hits, d) * DIMENSION_WEIGHTS[d] /\ Weighted(more)[d] = dim_score(more, d) * DIMENSION_WEIGHTS[d]
    BY Zenon DEF Weighted
  <2>4. Weighted(hits)[d] = a * w /\ Weighted(more)[d] = b * w
    BY <2>1, <2>3, Zenon
  <2> QED BY <2>2, <2>4, Zenon
<1>5. DOMAIN Weighted(hits) = DOMAIN DIMENSION_WEIGHTS /\ DOMAIN Weighted(more) = DOMAIN DIMENSION_WEIGHTS
  BY DEF Weighted
<1>6. SumFunction(Weighted(hits)) <= SumFunction(Weighted(more))
  BY <1>3, <1>4, <1>5, SumGrows
<1>7. SumFunction(Weighted(hits)) \in Int /\ SumFunction(Weighted(more)) \in Int
  BY <1>3, SumIsInt
<1> QED BY <1>6, <1>7 DEF RuleTotal, Weighted, more

LEMMA HitKeepsWarning ==
    ASSUME NEW H, NEW hits \in Seq(H), NEW hit \in H, NEW metrics, NEW events, _detect_consecutive_loss(metrics, events, hits)
    PROVE  _detect_consecutive_loss(metrics, events, Append(hits, hit))
<1> DEFINE Early(h) == \E i \in DOMAIN h : h[i].id \in EARLY_WARNING_RULE_IDS /\ h[i].scores
           Others   == \/ Truthy(events, "losses")
                       \/ LET years == _get_metric(metrics, "loss years") IN years # None /\ years >= 2
<1>1. \A h : _detect_consecutive_loss(metrics, events, h) <=> Others \/ Early(h)
  BY DEF _detect_consecutive_loss
<1>2. Early(hits) => Early(Append(hits, hit))
  <2>1. DOMAIN hits \subseteq DOMAIN Append(hits, hit) /\ \A i \in DOMAIN hits : Append(hits, hit)[i] = hits[i]
    OBVIOUS
  <2> QED BY <2>1
<1> HIDE DEF Early, Others
<1> QED BY <1>1, <1>2

(* One more hit never lowers the score of the rules. *)
LEMMA HitRaisesScore ==
    ASSUME NEW H, NEW hits \in Seq(H), NEW hit \in H, NEW metrics, NEW events
    PROVE  /\ score_risk(metrics, events, hits).score \in Int
           /\ score_risk(metrics, events, Append(hits, hit)).score \in Int
           /\ score_risk(metrics, events, hits).score <= score_risk(metrics, events, Append(hits, hit)).score
<1> DEFINE boost(h) == IF _detect_consecutive_loss(metrics, events, h) /\ ~Vetoed(events) THEN EARLY_WARNING_BOOST ELSE 0
           a == RuleTotal(hits) + boost(hits)
           b == RuleTotal(Append(hits, hit)) + boost(Append(hits, hit))
<1>1. a \in Int /\ b \in Int /\ a <= b
  <2>1. boost(hits) \in Int /\ boost(Append(hits, hit)) \in Int /\ boost(hits) <= boost(Append(hits, hit))
    BY HitKeepsWarning DEF EARLY_WARNING_BOOST
  <2> HIDE DEF boost
  <2> QED BY <2>1, HitRaisesTotal
<1>2. /\ score_risk(metrics, events, hits).score = Min({10000, a})
      /\ score_risk(metrics, events, Append(hits, hit)).score = Min({10000, b})
  BY ScoreTotal
<1> HIDE DEF a, b
<1>3. Min({10000, a}) = (IF 10000 <= a THEN 10000 ELSE a) /\ Min({10000, b}) = IF 10000 <= b THEN 10000 ELSE b
  BY <1>1, MinOf
<1> QED BY <1>1, <1>2, <1>3

(* The layers beside the rules.                                            *)
LEMMA DistressLayer ==
    ASSUME NEW r \in Requests
    PROVE  severity_from_pd(compute_distress(r.metrics).pd) \in Int \cup {None}
<1>1. \A zone : _altman_pd(zone) \in {6500, 2500, 500, None}
  <2> SUFFICES ASSUME NEW zone PROVE _altman_pd(zone) \in {6500, 2500, 500, None}
    OBVIOUS
  <2>1. CASE zone = "distress"
    BY <2>1 DEF _altman_pd
  <2>2. CASE zone = "grey"
    BY <2>2 DEF _altman_pd
  <2>3. CASE zone = "safe"
    BY <2>3 DEF _altman_pd
  <2>4. CASE zone \notin {"distress", "grey", "safe"}
    BY <2>4 DEF _altman_pd
  <2> QED BY <2>1, <2>2, <2>3, <2>4
<1>2. _ohlson(r.metrics) \in BasisPoints \cup {None}
  BY FilesAssumption, Zenon
<1>3. PICK pd : pd = compute_distress(r.metrics).pd
  OBVIOUS
<1>4. pd = IF _ohlson(r.metrics) # None THEN _ohlson(r.metrics) ELSE _altman_pd(Altman(r.metrics))
  BY <1>3 DEF compute_distress
<1>5. pd # None => pd \in BasisPoints
  <2>1. _altman_pd(Altman(r.metrics)) # None => _altman_pd(Altman(r.metrics)) \in BasisPoints
    BY <1>1 DEF BasisPoints
  <2> QED BY <1>2, <1>4, <2>1
<1>6. pd # None => LogOddsSeverity(pd) \in Nat
  BY <1>5, SeverityAssumption, Zenon
<1>7. severity_from_pd(pd) \in Nat \cup {None}
  BY <1>6, Zenon DEF severity_from_pd
<1> QED BY <1>3, <1>7

LEMMA BehavioralLayer ==
    ASSUME NEW r \in Requests
    PROVE  compute_behavioral(r.events).composite \in Int
<1> DEFINE events  == r.events
           sub(d)  == Min({100, BEHAVIORAL_DIMS[d].per_hit * _count_event(events, d)})
           weights == [d \in Drivers(events) |-> BEHAVIORAL_DIMS[d].weight]
           mass    == [d \in Drivers(events) |-> sub(d) * BEHAVIORAL_DIMS[d].weight]
<1>1. \A e \in DOMAIN events : events[e] \in Nat
  BY FilesAssumption
<1>2. \A d \in DOMAIN BEHAVIORAL_DIMS :
         /\ BEHAVIORAL_DIMS[d].per_hit \in Nat /\ BEHAVIORAL_DIMS[d].weight \in Nat
         /\ IsFiniteSet(BEHAVIORAL_DIMS[d].events)
  <2>1. \A a, b : IsFiniteSet({a}) /\ IsFiniteSet({a, b})
    <3> SUFFICES ASSUME NEW a, NEW b PROVE IsFiniteSet({a}) /\ IsFiniteSet({a, b})
      OBVIOUS
    <3>1. {a, a, a, a, a} = {a} /\ {a, a, a, a, b} = {a, b}
      OBVIOUS
    <3>2. IsFiniteSet({a, a, a, a, a}) /\ IsFiniteSet({a, a, a, a, b})
      BY FewFinite, Zenon
    <3> QED BY <3>1, <3>2
  <2>3. /\ BEHAVIORAL_DIMS["judicial"].events = {"judgments", "filings"}
        /\ BEHAVIORAL_DIMS["dishonest"].events = {"dishonest", "executed"}
        /\ BEHAVIORAL_DIMS["penalty"].events = {"penalties"}
        /\ BEHAVIORAL_DIMS["irregular"].events = {"irregularities"}
        /\ BEHAVIORAL_DIMS["equity"].events = {"freezes", "pledges"}
    BY DEF BEHAVIORAL_DIMS
  <2>4. DOMAIN BEHAVIORAL_DIMS = {"judicial", "dishonest", "penalty", "irregular", "equity"}
    BY DEF BEHAVIORAL_DIMS
  <2>5. ASSUME NEW d \in DOMAIN BEHAVIORAL_DIMS PROVE IsFiniteSet(BEHAVIORAL_DIMS[d].events)
    <3>1. /\ IsFiniteSet({"judgments", "filings"}) /\ IsFiniteSet({"dishonest", "executed"}) /\ IsFiniteSet({"penalties"})
          /\ IsFiniteSet({"irregularities"}) /\ IsFiniteSet({"freezes", "pledges"})
      BY <2>1, Zenon
    <3>2. \/ d = "judicial" \/ d = "dishonest" \/ d = "penalty" \/ d = "irregular" \/ d = "equity"
      BY <2>4
    <3> QED BY <2>3, <3>1, <3>2, Zenon
  <2>6. ASSUME NEW d \in DOMAIN BEHAVIORAL_DIMS PROVE BEHAVIORAL_DIMS[d].per_hit \in Nat /\ BEHAVIORAL_DIMS[d].weight \in Nat
    BY DEF BEHAVIORAL_DIMS
  <2> QED BY <2>5, <2>6
<1>3. IsFiniteSet(DOMAIN BEHAVIORAL_DIMS)
  <2>1. DOMAIN BEHAVIORAL_DIMS = {"judicial", "dishonest", "penalty", "irregular", "equity"}
    BY DEF BEHAVIORAL_DIMS
  <2>2. IsFiniteSet({"judicial", "dishonest", "penalty", "irregular", "equity"})
    BY FewFinite, Zenon
  <2> QED BY <2>1, <2>2, Zenon
<1>4. Drivers(events) \subseteq DOMAIN BEHAVIORAL_DIMS /\ IsFiniteSet(Drivers(events))
  <2>1. Drivers(events) \subseteq DOMAIN BEHAVIORAL_DIMS
    BY DEF Drivers, Known
  <2> QED BY <2>1, <1>3, FS_Subset
<1>5. ASSUME NEW d \in DOMAIN BEHAVIORAL_DIMS PROVE sub(d) \in Int
  <2> DEFINE S == BEHAVIORAL_DIMS[d].events \cap DOMAIN events
             f == [e \in S |-> events[e]]
  <2>1. IsFiniteSet(S)
    <3>1. IsFiniteSet(BEHAVIORAL_DIMS[d].events)
      BY <1>2
    <3> QED BY <3>1, FS_Intersection
  <2>2. Summable(f)
    BY <1>1, <2>1 DEF Summable
  <2>3. _count_event(events, d) \in Int
    <3>1. _count_event(events, d) = SumFunction(f)
      BY DEF _count_event
    <3> HIDE DEF f
    <3> QED BY <2>2, <3>1, SumIsInt
  <2> DEFINE hits == BEHAVIORAL_DIMS[d].per_hit * _count_event(events, d)
  <2>4. hits \in Int
    <3>1. BEHAVIORAL_DIMS[d].per_hit \in Int
      BY <1>2
    <3> QED BY <2>3, <3>1
  <2> HIDE DEF hits
  <2>5. Min({100, hits}) = IF 100 <= hits THEN 100 ELSE hits
    BY <2>4, MinOf
  <2> QED BY <2>4, <2>5 DEF hits
<1> HIDE DEF sub
<1>6. Summable(weights)
  BY <1>2, <1>4 DEF Summable
<1>7. Summable(mass)
  <2>1. \A d \in Drivers(events) : sub(d) \in Int /\ BEHAVIORAL_DIMS[d].weight \in Int
    BY <1>2, <1>4, <1>5
  <2>2. \A d \in Drivers(events) : sub(d) * BEHAVIORAL_DIMS[d].weight \in Int
    BY <2>1
  <2> QED BY <1>4, <2>2 DEF Summable
<1>8. SumFunction(weights) >= 0
  <2>1. \A d \in DOMAIN weights : weights[d] >= 0
    BY <1>2, <1>4
  <2> HIDE DEF weights
  <2> QED BY <2>1, <1>6, SumOfNaturals
<1>9. PICK m \in Int, w \in Nat : m = SumFunction(mass) /\ w = SumFunction(weights)
  <2> HIDE DEF mass, weights
  <2> QED BY <1>6, <1>7, <1>8, SumIsInt
<1>10. compute_behavioral(events).composite = IF w = 0 THEN 0 ELSE 10 * RoundDiv(10 * m, w)
  BY <1>9 DEF compute_behavioral, sub
<1>11. w # 0 => RoundDiv(10 * m, w) \in Int
  BY <1>9 DEF RoundDiv
<1> QED BY <1>10, <1>11

(* Two layers at most. *)
LEMMA TwoTerms ==
    ASSUME NEW f, Summable(f), NEW a, NEW b, a # b, DOMAIN f \subseteq {a, b}
    PROVE  SumFunction(f) = (IF a \in DOMAIN f THEN f[a] ELSE 0) + (IF b \in DOMAIN f THEN f[b] ELSE 0)
<1> DEFINE D == DOMAIN f
           R == D \ {a}
<1>1. D \in SUBSET D /\ R \in SUBSET D
  OBVIOUS
<1>2. Total(f)[{}] = 0
  BY TotalAdds
<1>3. Total(f)[R] = IF b \in D THEN f[b] ELSE 0
  <2>1. CASE b \in D
    <3>1. b \in R /\ R \ {b} = {}
      BY <2>1
    <3>2. Total(f)[R] = f[b] + Total(f)[R \ {b}]
      BY <1>1, <3>1, TotalRemoves
    <3>3. f[b] \in Int
      BY <2>1 DEF Summable
    <3>4. Total(f)[R] = f[b] + 0
      BY <1>2, <3>1, <3>2
    <3> QED BY <2>1, <3>3, <3>4
  <2>2. CASE b \notin D
    <3>1. R = {}
      BY <2>2
    <3> QED BY <1>2, <2>2, <3>1
  <2> QED BY <2>1, <2>2
<1>4. Total(f)[D] = IF a \in D THEN f[a] + Total(f)[R] ELSE Total(f)[R]
  <2>1. CASE a \in D
    BY <1>1, <2>1, TotalRemoves
  <2>2. CASE a \notin D
    <3>1. R = D
      BY <2>2
    <3> QED BY <2>2, <3>1
  <2> QED BY <2>1, <2>2
<1>5. Total(f)[R] \in Int /\ (a \in D => f[a] \in Int)
  BY <1>1, TotalAdds DEF Summable
<1>6. Total(f)[D] = (IF a \in D THEN f[a] ELSE 0) + Total(f)[R]
  BY <1>4, <1>5
<1> QED BY <1>3, <1>6, SumIsTotal

LEMMA LayersTyped ==
    ASSUME NEW r \in Requests
    PROVE  /\ DOMAIN Layers(r.metrics, r.events) = {"distress", "behavioral"}
           /\ \A l \in {"distress", "behavioral"} : Layers(r.metrics, r.events)[l] \in Int \cup {None}
<1>1. PICK a \in Int \cup {None}, b \in Int :
         a = severity_from_pd(compute_distress(r.metrics).pd) /\ b = compute_behavioral(r.events).composite
  BY DistressLayer, BehavioralLayer
<1>2. \E c \in Int \cup {None} : Layers(r.metrics, r.events) = [distress |-> a, behavioral |-> c]
  BY <1>1, Zenon DEF Layers
<1> QED BY <1>1, <1>2

LEMMA LayersFinite == IsFiniteSet({"distress", "behavioral"})
<1>1. {"distress", "distress", "distress", "distress", "behavioral"} = {"distress", "behavioral"}
  OBVIOUS
<1>2. IsFiniteSet({"distress", "distress", "distress", "distress", "behavioral"})
  BY FewFinite, Zenon
<1> QED BY <1>1, <1>2, Zenon

Gaps(s, layers) == [l \in Used(s, layers) |-> BLEND_WEIGHTS[l] * (layers[l] - s)]

(* The layers raise the score by less than half of what the rules fall     *)
(* short of them: with the same layers a higher score of the rules blends  *)
(* into a higher one.                                                      *)
LEMMA UpliftShrinks ==
    ASSUME NEW layers, DOMAIN layers = {"distress", "behavioral"}, \A l \in {"distress", "behavioral"} : layers[l] \in Int \cup {None},
           NEW s \in Int, NEW t \in Int, s <= t, Used(s, layers) = Used(t, layers)
    PROVE  Uplift(s, layers) \in Int /\ Uplift(t, layers) \in Int /\ Uplift(s, layers) <= Uplift(t, layers) + 50 * (t - s)
<1> DEFINE U == Used(s, layers)
<1>1. U \subseteq {"distress", "behavioral"} /\ \A l \in U : layers[l] \in Int
  BY DEF Used
<1>2. BLEND_WEIGHTS["distress"] = 30 /\ BLEND_WEIGHTS["behavioral"] = 20
  BY DEF BLEND_WEIGHTS
<1>3. IsFiniteSet(U)
  <2> HIDE DEF U
  <2> QED BY <1>1, LayersFinite, FS_Subset
<1>4. \A x \in {s, t} : \A l \in U : BLEND_WEIGHTS[l] * (layers[l] - x) \in Int
  BY <1>1, <1>2
<1>5. /\ DOMAIN Gaps(s, layers) = U /\ DOMAIN Gaps(t, layers) = U
      /\ \A l \in U : /\ Gaps(s, layers)[l] = BLEND_WEIGHTS[l] * (layers[l] - s)
                      /\ Gaps(t, layers)[l] = BLEND_WEIGHTS[l] * (layers[l] - t)
  BY DEF Gaps
<1>6. Uplift(s, layers) = SumFunction(Gaps(s, layers)) /\ Uplift(t, layers) = SumFunction(Gaps(t, layers))
  BY DEF Uplift, Gaps
<1> HIDE DEF U
<1>7. Summable(Gaps(s, layers)) /\ Summable(Gaps(t, layers))
  BY <1>3, <1>4, <1>5 DEF Summable
<1> DEFINE term(x, l) == IF l \in U THEN Gaps(x, layers)[l] ELSE 0
<1>8. /\ Uplift(s, layers) = term(s, "distress") + term(s, "behavioral")
      /\ Uplift(t, layers) = term(t, "distress") + term(t, "behavioral")
  <2>1. SumFunction(Gaps(s, layers)) = term(s, "distress") + term(s, "behavioral")
    BY <1>1, <1>5, <1>7, TwoTerms
  <2>2. SumFunction(Gaps(t, layers)) = term(t, "distress") + term(t, "behavioral")
    BY <1>1, <1>5, <1>7, TwoTerms
  <2> QED BY <1>6, <2>1, <2>2
<1>9. \A l \in {"distress", "behavioral"} : term(s, l) \in Int /\ term(t, l) \in Int
  BY <1>4, <1>5
<1>10. term(s, "distress") <= term(t, "distress") + 30 * (t - s)
  BY <1>1, <1>2, <1>5
<1>11. term(s, "behavioral") <= term(t, "behavioral") + 20 * (t - s)
  BY <1>1, <1>2, <1>5
<1> HIDE DEF term
<1> QED BY <1>8, <1>9, <1>10, <1>11

LEMMA BlendRaises ==
    ASSUME NEW layers, DOMAIN layers = {"distress", "behavioral"}, \A l \in {"distress", "behavioral"} : layers[l] \in Int \cup {None},
           NEW s \in Int, NEW t \in Int, s <= t, Used(s, layers) = Used(t, layers)
    PROVE  /\ blend_severity(s, layers) \in Int /\ blend_severity(t, layers) \in Int
           /\ blend_severity(s, layers) <= blend_severity(t, layers)
<1>1. PICK u \in Int, v \in Int : u = Uplift(s, layers) /\ v = Uplift(t, layers) /\ u <= v + 50 * (t - s)
  BY UpliftShrinks
<1> DEFINE a == RoundDiv(100 * s + u, 100)
           b == RoundDiv(100 * t + v, 100)
<1>2. a \in Int /\ b \in Int /\ a <= b
  <2>1. 2 * (100 * s + u) + 100 <= 2 * (100 * t + v) + 100
    BY <1>1
  <2>2. \A x, y \in Int : x <= y => x \div 200 <= y \div 200
    OBVIOUS
  <2> QED BY <1>1, <2>1, <2>2 DEF RoundDiv
<1>3. blend_severity(s, layers) = Min({10000, Max({0, a})}) /\ blend_severity(t, layers) = Min({10000, Max({0, b})})
  BY <1>1 DEF blend_severity
<1> HIDE DEF a, b
<1>4. Max({0, a}) = (IF 0 >= a THEN 0 ELSE a) /\ Max({0, b}) = IF 0 >= b THEN 0 ELSE b
  BY <1>2, MaxOf
<1>5. PICK x \in Int, y \in Int : x = Max({0, a}) /\ y = Max({0, b}) /\ x <= y
  BY <1>2, <1>4
<1>6. Min({10000, x}) = (IF 10000 <= x THEN 10000 ELSE x) /\ Min({10000, y}) = IF 10000 <= y THEN 10000 ELSE y
  BY MinOf
<1>7. Min({10000, x}) \in Int /\ Min({10000, y}) \in Int /\ Min({10000, x}) <= Min({10000, y})
  BY <1>5, <1>6
<1> QED BY <1>3, <1>5, <1>7

(* How a scored file is graded, and a rescored one. *)
LEMMA ScoreGraded ==
    ASSUME NEW metrics, NEW events, NEW hits
    PROVE  LET risk == score_risk(metrics, events, hits)
           IN  risk.grade = IF VetoReason(events) # None THEN "BLACK"
                            ELSE IF Enough(metrics) THEN Band(risk.score) ELSE "UNRATED"
BY SMT DEF score_risk, _grade

LEMMA RiskGraded ==
    ASSUME NEW metrics, NEW events, NEW hits
    PROVE  LET rule == score_risk(metrics, events, hits)
               risk == enrich_risk(rule, metrics, events, hits)
           IN  /\ risk.score = blend_severity(rule.score, Layers(metrics, events))
               /\ risk.veto = VetoReason(events)
               /\ risk.grade = IF VetoReason(events) # None THEN "BLACK"
                               ELSE IF Enough(metrics) THEN Band(risk.score) ELSE "UNRATED"
<1> DEFINE rule == score_risk(metrics, events, hits)
<1>1. rule.veto = VetoReason(events) /\ rule.enough = Enough(metrics)
  <2>1. Carried(rule, metrics, events, hits)
    BY ScoreCarries
  <2> HIDE DEF rule
  <2> QED BY <2>1 DEF Carried
<1> HIDE DEF rule
<1>2. LET risk == enrich_risk(rule, metrics, events, hits)
      IN  /\ risk.score = blend_severity(rule.score, Layers(metrics, events))
          /\ risk.veto = rule.veto
          /\ risk.grade = IF rule.veto # None THEN "BLACK" ELSE IF rule.enough THEN Band(risk.score) ELSE "UNRATED"
  BY Zenon DEF enrich_risk, _grade
<1> QED BY <1>1, <1>2 DEF rule

(* The layers beside the rules only raise a score, within its range. *)
LEMMA Within ==
    /\ \A x \in Int : 0 <= x /\ x <= 10000 => x \in BasisPoints
    /\ \A x \in BasisPoints : x \in Int /\ 0 <= x /\ x <= 10000
BY SMT DEF BasisPoints

LEMMA RuleScoreInRange ==
    ASSUME NEW H, NEW hits \in Seq(H), NEW metrics, NEW events
    PROVE  score_risk(metrics, events, hits).score \in BasisPoints
<1>1. ASSUME NEW d PROVE dim_score(hits, d) \in Nat
  <2>1. Summable(Severities(hits, d))
    BY SeveritiesSummable
  <2>2. \A i \in DOMAIN Severities(hits, d) : Severities(hits, d)[i] >= 0
    BY SeverityScores DEF Severities
  <2>3. PICK sum \in Nat : sum = SumFunction(Severities(hits, d))
    BY <2>1, <2>2, SumOfNaturals, SumIsInt
  <2>4. Min({100, 2 * sum}) = IF 100 <= 2 * sum THEN 100 ELSE 2 * sum
    BY MinOf
  <2> QED BY <2>3, <2>4 DEF dim_score
<1>2. \A d \in DOMAIN Weighted(hits) : Weighted(hits)[d] >= 0
  <2> SUFFICES ASSUME NEW d \in DOMAIN DIMENSION_WEIGHTS PROVE Weighted(hits)[d] >= 0
    BY DEF Weighted
  <2>1. PICK a \in Nat, w \in {15, 25, 30} : a = dim_score(hits, d) /\ w = DIMENSION_WEIGHTS[d]
    BY <1>1, WeightsOfDimensions
  <2>2. Weighted(hits)[d] = a * w
    BY <2>1, Zenon DEF Weighted
  <2>3. a * w >= 0
    OBVIOUS
  <2> QED BY <2>2, <2>3
<1>3. SumFunction(Weighted(hits)) >= 0 /\ SumFunction(Weighted(hits)) \in Int
  BY <1>2, WeightedSummable, SumOfNaturals, SumIsInt
<1>4. PICK total \in Nat : total = RuleTotal(hits)
  BY <1>3 DEF RuleTotal, Weighted
<1> DEFINE b == total + (IF _detect_consecutive_loss(metrics, events, hits) /\ ~Vetoed(events) THEN EARLY_WARNING_BOOST ELSE 0)
<1>5. b \in Nat
  BY DEF EARLY_WARNING_BOOST
<1>6. score_risk(metrics, events, hits).score = Min({10000, b})
  BY <1>4, ScoreTotal
<1> HIDE DEF b
<1>7. Min({10000, b}) = IF 10000 <= b THEN 10000 ELSE b
  BY <1>5, MinOf
<1>8. PICK x \in Int : x = Min({10000, b}) /\ 0 <= x /\ x <= 10000
  BY <1>5, <1>7
<1>9. score_risk(metrics, events, hits).score = x
  BY <1>6, <1>8
<1>10. x \in BasisPoints
  BY <1>8, Within
<1> QED BY <1>9, <1>10, Zenon

LEMMA BlendOnlyRaises ==
    ASSUME NEW layers, DOMAIN layers = {"distress", "behavioral"}, \A l \in {"distress", "behavioral"} : layers[l] \in Int \cup {None},
           NEW s \in BasisPoints
    PROVE  blend_severity(s, layers) \in BasisPoints /\ blend_severity(s, layers) >= s
<1> DEFINE U == Used(s, layers)
<1>0. s \in Int /\ 0 <= s /\ s <= 10000
  BY SMT DEF BasisPoints
<1>1. \A l \in U : layers[l] \in Int /\ layers[l] - s >= 1000
  BY <1>0, SMT DEF Used, UPLIFT_MIN_DELTA
<1>2. U \subseteq {"distress", "behavioral"}
  BY DEF Used
<1>3. \A l \in U : BLEND_WEIGHTS[l] * (layers[l] - s) \in Int /\ BLEND_WEIGHTS[l] * (layers[l] - s) >= 0
  <2>1. BLEND_WEIGHTS["distress"] = 30 /\ BLEND_WEIGHTS["behavioral"] = 20
    BY DEF BLEND_WEIGHTS
  <2> QED BY <1>0, <1>1, <1>2, <2>1, SMT
<1>4. DOMAIN Gaps(s, layers) = U /\ \A l \in U : Gaps(s, layers)[l] = BLEND_WEIGHTS[l] * (layers[l] - s)
  BY DEF Gaps
<1>5. Uplift(s, layers) = SumFunction(Gaps(s, layers))
  BY DEF Uplift, Gaps
<1> HIDE DEF U
<1>6. Summable(Gaps(s, layers)) /\ \A l \in DOMAIN Gaps(s, layers) : Gaps(s, layers)[l] >= 0
  <2>1. IsFiniteSet(U)
    BY <1>2, LayersFinite, FS_Subset
  <2> QED BY <1>3, <1>4, <2>1 DEF Summable
<1>7. PICK u \in Nat : u = Uplift(s, layers)
  BY <1>5, <1>6, SumOfNaturals, SumIsInt
<1> DEFINE a == RoundDiv(100 * s + u, 100)
<1>8. a \in Int /\ a >= s /\ a >= 0
  BY <1>0, SMT DEF RoundDiv
<1>13. blend_severity(s, layers) = Min({10000, Max({0, a})})
  BY <1>7, SMT DEF blend_severity
<1> HIDE DEF a
<1>9. Max({0, a}) = IF 0 >= a THEN 0 ELSE a
  BY <1>8, MaxOf
<1>10. Max({0, a}) = a
  BY <1>8, <1>9
<1>11. Min({10000, a}) = IF 10000 <= a THEN 10000 ELSE a
  BY <1>8, MinOf
<1>12. blend_severity(s, layers) = Min({10000, a})
  BY <1>10, <1>13, SMT
<1>14. PICK x \in Int : x = Min({10000, a}) /\ s <= x /\ 0 <= x /\ x <= 10000
  BY <1>0, <1>8, <1>11
<1>15. blend_severity(s, layers) = x
  BY <1>12, <1>14
<1>16. x \in BasisPoints /\ x >= s
  BY <1>0, <1>14, Within
<1> QED BY <1>15, <1>16, Zenon

LEMMA RanksGrow == ASSUME NEW s \in Int, NEW t \in Int, s <= t PROVE Rank(Band(s)) <= Rank(Band(t))
<1>1. /\ Rank("GREEN") = 0 /\ Rank("YELLOW") = 1 /\ Rank("ORANGE") = 2 /\ Rank("RED") = 3 /\ Rank("BLACK") = 4
  BY DEF Rank
<1>2. \A x \in Int : Rank(Band(x)) = IF x < 2000 THEN 0 ELSE IF x < 4000 THEN 1 ELSE IF x < 6000 THEN 2
                                    ELSE IF x < 8000 THEN 3 ELSE 4
  BY <1>1, SMT DEF Band
<1> QED BY <1>2, SMT

-----------------------------------------------------------------------------
(* The texts.                                                              *)
Text(t) == \E S : t \in Seq(S)

(* A text is its template, or shows no other figure unmarked.              *)
Gated(text, template, allowed) == text = template \/ \A i \in Unmarked(text) : Permitted(text[i], allowed)

(* What the gate lets through: a figure that is neither permitted nor      *)
(* marked is the template's.                                               *)
LEMMA GateMarks ==
    ASSUME NEW text \in Seq(Figures), NEW template, NEW allowed
    PROVE  Gated(gate_or_fallback(text, template, allowed).text, template, allowed)
<1> DEFINE gate   == gate_or_fallback(text, template, allowed)
           kept   == text # <<>> /\ Cardinality(Offenders(text, allowed)) <= 2
           marked == [i \in DOMAIN text |-> [text[i] EXCEPT !.marked = i \in Offenders(text, allowed)]]
<1>1. CASE ~kept
  <2>1. gate = [text |-> template, accepted |-> FALSE]
    BY <1>1 DEF gate_or_fallback
  <2> QED BY <2>1 DEF Gated
<1>2. CASE kept
  <2>1. gate = [text |-> marked, accepted |-> TRUE]
    BY <1>2 DEF gate_or_fallback
  <2>2. ASSUME NEW i \in Unmarked(marked) PROVE Permitted(marked[i], allowed)
    <3>1. i \in DOMAIN text /\ text[i] \in Figures /\ marked[i] = [text[i] EXCEPT !.marked = i \in Offenders(text, allowed)]
      BY <2>2 DEF Unmarked
    <3>2. ~marked[i].marked
      BY <2>2 DEF Unmarked
    <3>3. i \notin Offenders(text, allowed)
      BY <3>1, <3>2 DEF Figures
    <3>4. Permitted(text[i], allowed)
      BY <3>1, <3>3 DEF Offenders
    <3>5. marked[i].raw = text[i].raw /\ marked[i].percent = text[i].percent
      BY <3>1 DEF Figures
    <3> HIDE DEF marked
    <3> QED BY <3>4, <3>5 DEF Permitted, extract_number
  <2> HIDE DEF marked
  <2> QED BY <2>1, <2>2 DEF Gated
<1> QED BY <1>1, <1>2

LEMMA GateTexts ==
    ASSUME NEW text \in Seq(Figures), NEW template, Text(template), NEW allowed
    PROVE  Text(gate_or_fallback(text, template, allowed).text)
<1> DEFINE gate   == gate_or_fallback(text, template, allowed)
           marked == [i \in DOMAIN text |-> [text[i] EXCEPT !.marked = i \in Offenders(text, allowed)]]
<1>1. gate.text \in {template, marked}
  BY DEF gate_or_fallback
<1>2. Text(marked)
  <2>1. PICK S : S = {marked[i] : i \in DOMAIN text}
    OBVIOUS
  <2>2. marked \in Seq(S)
    <3>1. DOMAIN text = 1..Len(text) /\ Len(text) \in Nat
      OBVIOUS
    <3>2. marked \in [1..Len(text) -> S]
      BY <2>1, <3>1
    <3> HIDE DEF marked
    <3> QED BY <3>1, <3>2
  <2> QED BY <2>2 DEF Text
<1> QED BY <1>1, <1>2

(* What a gated text shows is sourced where its template is.               *)
LEMMA GatedIsSourced ==
    ASSUME NEW text, NEW template, NEW allowed, NEW wider, NEW given,
           Gated(text, template, allowed), allowed \subseteq wider, Sourced(template, wider, given)
    PROVE  Sourced(text, wider, given)
BY DEF Gated, Sourced, Permitted

LEMMA TemplateIsSourced == \A text, allowed : Sourced(text, allowed, Range(text))
BY DEF Sourced, Range, Unmarked

LEMMA FigureIsSourced == \A figure, allowed, given : figure \in given => Text(<<figure>>) /\ Sourced(<<figure>>, allowed, given)
<1> SUFFICES ASSUME NEW figure, NEW allowed, NEW given, figure \in given
             PROVE  Text(<<figure>>) /\ Sourced(<<figure>>, allowed, given)
  OBVIOUS
<1>1. <<figure>> \in Seq({figure})
  OBVIOUS
<1> QED BY <1>1 DEF Text, Sourced, Unmarked

LEMMA NothingIsSourced == \A allowed, given : Text(<<>>) /\ Sourced(<<>>, allowed, given)
<1>1. <<>> \in Seq({})
  OBVIOUS
<1> QED BY <1>1 DEF Text, Sourced, Unmarked

LEMMA BothAreSourced ==
    ASSUME NEW s, NEW t, NEW allowed, NEW given,
           Text(s), Text(t), Sourced(s, allowed, given), Sourced(t, allowed, given)
    PROVE  Text(s \o t) /\ Sourced(s \o t, allowed, given)
<1>1. PICK A : s \in Seq(A)
  BY DEF Text
<1>2. PICK B : t \in Seq(B)
  BY DEF Text
<1>3. s \in Seq(A \cup B) /\ t \in Seq(A \cup B)
  BY <1>1, <1>2
<1>4. s \o t \in Seq(A \cup B)
  BY <1>3
<1>5. ASSUME NEW i \in DOMAIN (s \o t)
      PROVE  \/ i \in DOMAIN s /\ (s \o t)[i] = s[i]
             \/ i - Len(s) \in DOMAIN t /\ (s \o t)[i] = t[i - Len(s)]
  BY <1>3
<1>6. ASSUME NEW i \in Unmarked(s \o t)
      PROVE  Permitted((s \o t)[i], allowed) \/ (s \o t)[i] \in given
  <2>1. i \in DOMAIN (s \o t) /\ ~(s \o t)[i].marked
    BY <1>6 DEF Unmarked
  <2>2. CASE i \in DOMAIN s /\ (s \o t)[i] = s[i]
    <3>1. i \in Unmarked(s)
      BY <2>1, <2>2 DEF Unmarked
    <3> QED BY <2>2, <3>1 DEF Sourced
  <2>3. CASE i - Len(s) \in DOMAIN t /\ (s \o t)[i] = t[i - Len(s)]
    <3>1. i - Len(s) \in Unmarked(t)
      BY <2>1, <2>3 DEF Unmarked
    <3> QED BY <2>3, <3>1 DEF Sourced
  <2> QED BY <1>5, <2>1, <2>2, <2>3
<1> QED BY <1>4, <1>6 DEF Text, Sourced

LEMMA ReportAllowsNoMore ==
    ASSUME NEW metrics, NEW risk, NEW n
    PROVE  collect_allowed_numbers(<<>>, risk, n) \subseteq collect_allowed_numbers(metrics, risk, n)
<1>1. DOMAIN <<>> = {}
  OBVIOUS
<1> QED BY <1>1 DEF collect_allowed_numbers, WithPercentForm

LEMMA RepliesAreTexts == \A r : ModelReplies(r) \subseteq Seq(Figures) \cup {NoReply}
BY RepliesAssumption DEF ModelReplies

LEMMA PolishMarks ==
    ASSUME NEW reply \in Seq(Figures) \cup {NoReply}, NEW base, NEW allowed
    PROVE  Gated(polish_narrative(reply, base, allowed).text, base, allowed)
BY GateMarks DEF polish_narrative, Template, Gated

LEMMA ExplanationMarks ==
    ASSUME NEW reply \in Seq(Figures) \cup {NoReply}, NEW dimension, NEW metrics, NEW risk, NEW n
    PROVE  Gated(explain_attribution_dim(reply, dimension, metrics, risk, n), AttributionText(dimension),
                 collect_allowed_numbers(metrics, risk, n))
BY PolishMarks DEF explain_attribution_dim, Gated

LEMMA BackgroundMarks ==
    ASSUME NEW reply \in Seq(Figures) \cup {NoReply}, NEW register, NEW metrics, NEW risk, NEW n
    PROVE  Gated(background_reply(reply, register, metrics, risk, n).answer, BackgroundText(register, risk),
                 collect_allowed_numbers(metrics, risk, n) \cup IF register = None THEN {} ELSE FiguresOf(register))
BY GateMarks DEF background_reply, Gated

-----------------------------------------------------------------------------
(* The decision.                                                           *)
LEMMA VetoDeclines ==
    ASSUME NEW a, NEW applied, a.risk.veto # None
    PROVE  LET d == build_credit_decision(a, applied) IN d.decision = "DECLINE" /\ d.manual /\ d.ratio_max = 0
<1>1. \A policy, enough, chained, conflicts : Decide(Rated(policy, TRUE, enough), chained, conflicts) = "DECLINE"
  BY DEF Decide, Rated
<1>2. \A ratio, haircut : Ratio("DECLINE", ratio, haircut) = 0
  BY DEF Ratio
<1> QED BY <1>1, <1>2 DEF build_credit_decision, ManualRequired

(* A policy that is no kinder than another. *)
Stopped == {"DECLINE", "INSUFFICIENT_DATA"}
NoKinder(q, p) ==
    /\ q.ratio[2] <= p.ratio[2]
    /\ p.manual => q.manual
    /\ p.decision \in Stopped => q.decision \in Stopped

LEMMA Policies ==
    \A risk : /\ PolicyOf(risk).ratio[2] \in {100, 80, 50, 20, 0}
              /\ PolicyOf(risk).manual \/ PolicyOf(risk).decision \in {"APPROVE", "APPROVE_WITH_CONDITIONS"}
<1> SUFFICES ASSUME NEW risk
             PROVE  /\ PolicyOf(risk).ratio[2] \in {100, 80, 50, 20, 0}
                    /\ PolicyOf(risk).manual \/ PolicyOf(risk).decision \in {"APPROVE", "APPROVE_WITH_CONDITIONS"}
  OBVIOUS
<1>1. DOMAIN GRADE_POLICY = {"GREEN", "YELLOW", "ORANGE", "RED", "BLACK", "UNRATED"}
  BY DEF GRADE_POLICY
<1>2. PICK g \in {"GREEN", "YELLOW", "ORANGE", "RED", "BLACK", "UNRATED"} : PolicyOf(risk) = GRADE_POLICY[g]
  BY <1>1 DEF PolicyOf
<1> QED BY <1>2 DEF GRADE_POLICY

(* The policies of the grades, in the order of the scores. *)
LEMMA PoliciesWorsen ==
    ASSUME NEW a, NEW b, NEW s \in Int, NEW t \in Int, s <= t,
           a.grade = Band(s), b.grade = Band(t)
    PROVE  NoKinder(PolicyOf(b), PolicyOf(a))
<1> DEFINE p(x) == IF x < 2000 THEN GRADE_POLICY["GREEN"] ELSE IF x < 4000 THEN GRADE_POLICY["YELLOW"]
                   ELSE IF x < 6000 THEN GRADE_POLICY["ORANGE"] ELSE IF x < 8000 THEN GRADE_POLICY["RED"]
                   ELSE GRADE_POLICY["BLACK"]
<1>1. DOMAIN GRADE_POLICY = {"GREEN", "YELLOW", "ORANGE", "RED", "BLACK", "UNRATED"}
  BY DEF GRADE_POLICY
<1>2. PolicyOf(a) = p(s) /\ PolicyOf(b) = p(t)
  BY <1>1, SMT DEF PolicyOf, Band
<1>3. \A x \in Int : /\ p(x).ratio[2] = IF x < 2000 THEN 100 ELSE IF x < 4000 THEN 80 ELSE IF x < 6000 THEN 50
                                        ELSE IF x < 8000 THEN 20 ELSE 0
                     /\ p(x).manual <=> x >= 4000
                     /\ p(x).decision \in Stopped <=> x >= 6000
  BY DEF GRADE_POLICY, Stopped
<1> HIDE DEF p
<1> QED BY <1>2, <1>3 DEF NoKinder

LEMMA Haircuts == \A exposure : _contagion_haircut(exposure) \in {0, 10, 15, 30}
<1> SUFFICES ASSUME NEW exposure PROVE _contagion_haircut(exposure) \in {0, 10, 15, 30}
  OBVIOUS
<1>1. CASE exposure = "high"
  BY <1>1 DEF _contagion_haircut
<1>2. CASE exposure = "elevated"
  BY <1>2 DEF _contagion_haircut
<1>3. CASE exposure = "unknown"
  BY <1>3 DEF _contagion_haircut
<1>4. CASE exposure \notin {"high", "elevated", "unknown"}
  BY <1>4 DEF _contagion_haircut
<1> QED BY <1>1, <1>2, <1>3, <1>4

(* The share of a limit, with a dearer haircut or a lower ratio. *)
LEMMA RatioShrinks ==
    ASSUME NEW d, NEW e, d \in Stopped => e \in Stopped,
           NEW p \in {100, 80, 50, 20, 0}, NEW q \in {100, 80, 50, 20, 0}, q <= p,
           NEW h \in {0, 10, 15, 30}, NEW k \in {0, 10, 15, 30}, h <= k
    PROVE  Ratio(e, q, k) <= Ratio(d, p, h) /\ Ratio(d, p, h) >= 0
<1>1. PICK x \in Int, y \in Int : x = p * (100 - h) /\ y = q * (100 - k) /\ y <= x
  <2>1. q * (100 - k) <= p * (100 - h)
    <3>1. q * (100 - k) <= q * (100 - h)
      OBVIOUS
    <3>2. q * (100 - h) <= p * (100 - h)
      OBVIOUS
    <3> QED BY <3>1, <3>2
  <2> QED BY <2>1
<1>2. Min({10000, x}) = (IF 10000 <= x THEN 10000 ELSE x) /\ Min({10000, y}) = IF 10000 <= y THEN 10000 ELSE y
  BY MinOf
<1>3. PICK v \in Int, w \in Int : v = Min({10000, x}) /\ w = Min({10000, y}) /\ w <= v
  BY <1>1, <1>2, SMT
<1>4. Max({0, v}) = (IF 0 >= v THEN 0 ELSE v) /\ Max({0, w}) = IF 0 >= w THEN 0 ELSE w
  BY MaxOf
<1>5. /\ Ratio(d, p, h) = IF d \in Stopped THEN 0 ELSE Max({0, v})
      /\ Ratio(e, q, k) = IF e \in Stopped THEN 0 ELSE Max({0, w})
  BY <1>1, <1>3 DEF Ratio, Stopped
<1> QED BY <1>3, <1>4, <1>5

(* When everything a decision looks at is no better, the limit is no       *)
(* higher, and a human who was called is still called.                     *)
Exposure(a) == _contagion_haircut(_analyze_guarantee_contagion(a.graph, a.metrics))

NoBetter(b, a) ==
    /\ NoKinder(PolicyOf(b.risk), PolicyOf(a.risk))
    /\ a.risk.veto # None => b.risk.veto # None
    /\ CoreEnough(b.metrics) => CoreEnough(a.metrics)
    /\ DishonestInChain(a.graph) # {} => DishonestInChain(b.graph) # {}
    /\ Exposure(a) <= Exposure(b)

LEMMA DecisionWorsens ==
    ASSUME NEW a, NEW b, NEW applied, NoBetter(b, a)
    PROVE  LET d == build_credit_decision(a, applied)
               e == build_credit_decision(b, applied)
           IN  /\ e.ratio_max <= d.ratio_max
               /\ d.ratio_max >= 0
               /\ d.manual => e.manual
<1> DEFINE verdict(c) == Decide(Rated(PolicyOf(c.risk), c.risk.veto # None, CoreEnough(c.metrics)),
                                DishonestInChain(c.graph) # {}, c.conflicts)
           asked(c)   == ManualRequired(PolicyOf(c.risk), c.risk.veto # None, CoreEnough(c.metrics), DishonestInChain(c.graph) # {})
<1>1. \A c : /\ build_credit_decision(c, applied).ratio_max = Ratio(verdict(c), PolicyOf(c.risk).ratio[2], Exposure(c))
             /\ build_credit_decision(c, applied).manual = asked(c)
  BY Zenon DEF build_credit_decision, Exposure
<1>2. \A rated, chained, conflicts : Decide(rated, chained, conflicts) \in Stopped <=> rated \in Stopped
  BY DEF Decide, Stopped
<1>3. \A policy, vetoed, enough : Rated(policy, vetoed, enough) \in Stopped <=> (vetoed \/ ~enough \/ policy.decision \in Stopped)
  BY DEF Rated, Stopped
<1>4. verdict(a) \in Stopped => verdict(b) \in Stopped
  BY <1>2, <1>3 DEF NoBetter, NoKinder
<1>5. asked(a) => asked(b)
  BY Policies DEF NoBetter, NoKinder, ManualRequired
<1> HIDE DEF verdict, asked
<1>6. PICK p \in {100, 80, 50, 20, 0}, q \in {100, 80, 50, 20, 0} :
         p = PolicyOf(a.risk).ratio[2] /\ q = PolicyOf(b.risk).ratio[2] /\ q <= p
  BY Policies DEF NoBetter, NoKinder
<1>7. PICK h \in {0, 10, 15, 30}, k \in {0, 10, 15, 30} : h = Exposure(a) /\ k = Exposure(b) /\ h <= k
  BY Haircuts DEF NoBetter, Exposure
<1>8. Ratio(verdict(b), q, k) <= Ratio(verdict(a), p, h) /\ Ratio(verdict(a), p, h) >= 0
  BY <1>4, <1>6, <1>7, RatioShrinks
<1> QED BY <1>1, <1>5, <1>6, <1>7, <1>8

-----------------------------------------------------------------------------
(* The graph of guarantees.                                                *)
Drawn(graph) == graph \in GuaranteeGraphs /\ IsFiniteSet(graph.edges) /\ NamedOnce(graph)

LEMMA NodeDrawn ==
    ASSUME NEW id \in Nat, NEW risk \in RiskLabels, NEW category \in Categories
    PROVE  /\ Node(id, risk, category) \in GraphNodes /\ Node(id, risk, category).id = id
           /\ NamedExecuted(Node(id, risk, category)) \in GraphNodes /\ NamedExecuted(Node(id, risk, category)).id = id
BY DEF Node, NamedExecuted, GraphNodes, Names

LEMMA LoneCompany ==
    ASSUME NEW graph, graph = [nodes |-> {Node(0, None, "subject")}, edges |-> {}]
    PROVE  Drawn(graph)
<1>1. graph \in GuaranteeGraphs
  <2>1. Node(0, None, "subject") \in GraphNodes
    BY NodeDrawn DEF RiskLabels, Categories
  <2> QED BY <2>1 DEF GuaranteeGraphs
<1>2. IsFiniteSet(graph.edges)
  BY FS_EmptySet
<1> QED BY <1>1, <1>2 DEF Drawn, NamedOnce

LEMMA Chain ==
    ASSUME NEW layers \in Int, NEW dishonest \in BOOLEAN
    PROVE  Drawn(_synthesize(layers, dishonest))
<1> DEFINE length       == Max({1, layers})
           risk(i)      == CASE i = layers /\ dishonest -> "high"
                             [] ~(i = layers /\ dishonest) /\ i >= 3 -> "warn"
                             [] OTHER -> "normal"
           guarantor(i) == Node(i, risk(i), "guarantor")
           drawn(i)     == IF i = length /\ dishonest THEN NamedExecuted(guarantor(i)) ELSE guarantor(i)
           subject      == Node(0, "self", "subject")
           graph        == _synthesize(layers, dishonest)
<1>1. length \in Nat /\ length >= 1
  BY MaxOf
<1>2. graph.nodes = {subject} \cup {drawn(i) : i \in 1..length} /\ graph.edges = {<<i - 1, i>> : i \in 1..length}
      /\ graph = [nodes |-> graph.nodes, edges |-> graph.edges]
  BY DEF _synthesize
<1> HIDE DEF graph, length
<1>3. ASSUME NEW i \in 1..length PROVE drawn(i) \in GraphNodes /\ drawn(i).id = i
  <2>1. risk(i) \in {"high", "warn", "normal"}
    <3>1. CASE i = layers /\ dishonest
      BY <3>1
    <3>2. CASE ~(i = layers /\ dishonest) /\ i >= 3
      BY <3>2
    <3>3. CASE ~(i = layers /\ dishonest) /\ ~(i >= 3)
      BY <3>3
    <3> QED BY <3>1, <3>2, <3>3
  <2> HIDE DEF risk
  <2>2. i \in Nat
    BY <1>1
  <2>3. risk(i) \in RiskLabels /\ "guarantor" \in Categories
    BY <2>1 DEF RiskLabels, Categories
  <2>4. /\ guarantor(i) \in GraphNodes /\ guarantor(i).id = i
        /\ NamedExecuted(guarantor(i)) \in GraphNodes /\ NamedExecuted(guarantor(i)).id = i
    BY <2>2, <2>3, NodeDrawn
  <2> HIDE DEF guarantor
  <2> QED BY <2>4
<1>4. subject \in GraphNodes /\ subject.id = 0
  BY NodeDrawn DEF RiskLabels, Categories
<1> HIDE DEF drawn, subject
<1>5. graph \in GuaranteeGraphs
  <2>1. graph.nodes \subseteq GraphNodes
    BY <1>2, <1>3, <1>4
  <2>2. graph.edges \subseteq Nat \X Nat
    BY <1>1, <1>2
  <2> QED BY <1>2, <2>1, <2>2 DEF GuaranteeGraphs
<1>6. NamedOnce(graph)
  <2>1. \A i \in 1..length : i # 0
    OBVIOUS
  <2> QED BY <1>2, <1>3, <1>4, <2>1 DEF NamedOnce
<1>7. IsFiniteSet(graph.edges)
  <2>1. IsFiniteSet(1..length)
    BY <1>1, FS_Interval
  <2> DEFINE f == [i \in 1..length |-> <<i - 1, i>>]
  <2>2. f \in Surjection(1..length, graph.edges)
    BY <1>2 DEF Surjection
  <2> HIDE DEF f
  <2> QED BY <2>1, <2>2, FS_Surjection
<1> QED BY <1>5, <1>6, <1>7 DEF Drawn, graph

LEMMA GraphDrawn == ASSUME NEW r \in Requests PROVE GraphOf(r) = None \/ Drawn(GraphOf(r))
<1> DEFINE layers == _get_metric(r.metrics, "guarantee depth")
           graph  == build_guarantee_graph(r.fixture, r.metrics, r.events)
<1>1. layers \in Int \cup {None}
  BY FilesAssumption
<1>2. CASE r.fixture = None
  <2>1. graph = [nodes |-> {Node(0, None, "subject")}, edges |-> {}]
    BY <1>2 DEF build_guarantee_graph
  <2> HIDE DEF graph
  <2>2. Drawn(graph)
    BY <2>1, LoneCompany
  <2> QED BY <2>2 DEF GraphOf, graph
<1>3. CASE r.fixture # None /\ r.fixture \in DOMAIN StoredGraphs
  <2>1. graph = StoredGraphs[r.fixture]
    BY <1>3 DEF build_guarantee_graph
  <2> HIDE DEF graph
  <2>2. Drawn(graph)
    BY <1>3, <2>1, GraphsAssumption DEF Drawn
  <2> QED BY <2>2 DEF GraphOf, graph
<1>4. CASE r.fixture # None /\ r.fixture \notin DOMAIN StoredGraphs
  <2> DEFINE length    == IF layers \in {None, 0} THEN 1 ELSE layers
             dishonest == Truthy(r.events, "dishonest")
  <2>1. graph = _synthesize(length, dishonest)
    BY <1>4, Zenon DEF build_guarantee_graph
  <2>2. length \in Int /\ dishonest \in BOOLEAN
    <3>1. length \in Int
      <4> HIDE DEF layers
      <4>1. CASE layers \in {None, 0}
        <5>1. length = 1
          BY <4>1, Zenon
        <5> HIDE DEF length
        <5> QED BY <5>1
      <4>2. CASE layers \notin {None, 0}
        <5>1. length = layers
          BY <4>2, Zenon
        <5> HIDE DEF length
        <5>2. layers # None
          BY <4>2, Zenon
        <5> QED BY <1>1, <5>1, <5>2
      <4> QED BY <4>1, <4>2
    <3>2. dishonest \in BOOLEAN
      <4>1. CASE dishonest
        BY <4>1, Zenon DEF Truthy
      <4>2. CASE ~dishonest
        BY <4>2, Zenon DEF Truthy
      <4> QED BY <4>1, <4>2
    <3> QED BY <3>1, <3>2
  <2> HIDE DEF graph, length, dishonest
  <2>3. Drawn(graph)
    BY <2>1, <2>2, Chain
  <2> QED BY <2>3 DEF GraphOf, graph
<1> QED BY <1>2, <1>3, <1>4

(* What is left after each edge, subset by subset: the fold of             *)
(* compute_contagion.                                                      *)
Survivals(g, graph) ==
    g = [s \in SUBSET graph.edges |->
            IF s = {} THEN Whole ELSE RoundDiv(g[Rest(s)] * Survives(graph, Picked(s)), 100)]
Survival(graph) == CHOOSE g : Survivals(g, graph)

LEMMA ContagionIs == \A graph : compute_contagion(graph) = 10000 - RoundDiv(Survival(graph)[graph.edges], 100)
BY DEF compute_contagion, FoldSet, MapThenFoldSet, Survival, Survivals, Picked, Rest

LEMMA NodePds == \A node : _node_pd(node) \in {0, 10, 30, 60}
<1> SUFFICES ASSUME NEW node PROVE _node_pd(node) \in {0, 10, 30, 60}
  OBVIOUS
<1>1. CASE node.risk = "high"
  BY <1>1 DEF _node_pd
<1>2. CASE node.risk = "warn"
  BY <1>2 DEF _node_pd
<1>3. CASE node.risk = "self"
  BY <1>3 DEF _node_pd
<1>4. CASE node.risk \notin {"high", "warn", "self"}
  BY <1>4 DEF _node_pd
<1> QED BY <1>1, <1>2, <1>3, <1>4

(* The end of an edge that counts. *)
Far(graph, edge) == {n \in graph.nodes : n.id = edge[2]}
Near(graph, edge) == {n \in graph.nodes : n.id = edge[1]}

LEMMA SurvivesIs ==
    ASSUME NEW graph, NEW edge
    PROVE  /\ Far(graph, edge) # {} => Survives(graph, edge) = 100 - _node_pd(CHOOSE n \in Far(graph, edge) : TRUE) \div 2
           /\ Far(graph, edge) = {} /\ Near(graph, edge) # {} =>
                  Survives(graph, edge) = 100 - _node_pd(CHOOSE n \in Near(graph, edge) : TRUE) \div 2
           /\ Far(graph, edge) = {} /\ Near(graph, edge) = {} => Survives(graph, edge) = 100
<1> DEFINE far  == {n \in graph.nodes : n.id = edge[2]}
           near == {n \in graph.nodes : n.id = edge[1]}
<1>1. far = Far(graph, edge) /\ near = Near(graph, edge)
  BY DEF Far, Near
<1>2. /\ far # {} => Survives(graph, edge) = 100 - _node_pd(CHOOSE n \in far : TRUE) \div 2
      /\ far = {} /\ near # {} => Survives(graph, edge) = 100 - _node_pd(CHOOSE n \in near : TRUE) \div 2
      /\ far = {} /\ near = {} => Survives(graph, edge) = 100
  BY Zenon DEF Survives
<1> QED BY <1>1, <1>2, Zenon

LEMMA EdgeShares == \A graph, edge : Survives(graph, edge) \in {70, 85, 95, 100}
<1> SUFFICES ASSUME NEW graph, NEW edge PROVE Survives(graph, edge) \in {70, 85, 95, 100}
  OBVIOUS
<1>1. \A node : 100 - _node_pd(node) \div 2 \in {70, 85, 95, 100}
  BY NodePds
<1>2. CASE Far(graph, edge) # {}
  <2>1. Survives(graph, edge) = 100 - _node_pd(CHOOSE n \in Far(graph, edge) : TRUE) \div 2
    BY <1>2, SurvivesIs
  <2> QED BY <1>1, <2>1, Zenon
<1>3. CASE Far(graph, edge) = {} /\ Near(graph, edge) # {}
  <2>1. Survives(graph, edge) = 100 - _node_pd(CHOOSE n \in Near(graph, edge) : TRUE) \div 2
    BY <1>3, SurvivesIs
  <2> QED BY <1>1, <2>1, Zenon
<1>4. CASE Far(graph, edge) = {} /\ Near(graph, edge) = {}
  BY <1>4, SurvivesIs
<1> QED BY <1>2, <1>3, <1>4, Zenon

Shares == 0..Whole

LEMMA WholeIsNatural == Whole \in Nat
BY SMT DEF Whole

LEMMA ShareKept ==
    ASSUME NEW x \in Shares, NEW y \in Shares, x <= y, NEW v \in {70, 85, 95, 100}, NEW w \in {70, 85, 95, 100}, v <= w
    PROVE  RoundDiv(x * v, 100) \in Shares /\ RoundDiv(x * v, 100) <= RoundDiv(y * w, 100)
<1>1. x \in Int /\ y \in Int /\ 0 <= x /\ x <= y
  BY WholeIsNatural DEF Shares
<1>2. x * v <= y * w /\ x * v \in Int /\ y * w \in Int /\ 0 <= x * v /\ x * v <= 100 * x
  <2>1. x * v <= x * w
    BY <1>1
  <2>2. x * w <= y * w
    BY <1>1
  <2>3. x * v \in Int /\ x * w \in Int /\ y * w \in Int /\ 0 <= x * v /\ x * v <= 100 * x
    BY <1>1
  <2> QED BY <2>1, <2>2, <2>3
<1>3. PICK a \in Int, b \in Int : a = x * v /\ b = y * w /\ a <= b /\ 0 <= a /\ a <= 100 * x
  BY <1>2
<1>4. RoundDiv(a, 100) \in Int /\ 0 <= RoundDiv(a, 100) /\ RoundDiv(a, 100) <= x /\ RoundDiv(a, 100) <= RoundDiv(b, 100)
  BY <1>1, <1>3 DEF RoundDiv
<1>5. RoundDiv(a, 100) \in Shares
  BY <1>1, <1>4, WholeIsNatural DEF Shares
<1> QED BY <1>3, <1>4, <1>5

LEMMA SurvivalSteps ==
    ASSUME NEW graph, IsFiniteSet(graph.edges), NEW s \in SUBSET graph.edges
    PROVE  /\ Survival(graph)[s] = IF s = {} THEN Whole ELSE RoundDiv(Survival(graph)[Rest(s)] * Survives(graph, Picked(s)), 100)
           /\ Survival(graph)[s] \in Shares
           /\ s # {} => Picked(s) \in s /\ Rest(s) \in SUBSET graph.edges /\ Rest(s) \subseteq s /\ Rest(s) # s
<1> DEFINE D  == graph.edges
           op == [e \in D |-> [x \in Shares |-> RoundDiv(x * Survives(graph, e), 100)]]
<1>1. \A t \in SUBSET D : t # {} => Picked(t) \in t /\ Rest(t) \in SUBSET D /\ Rest(t) \subseteq t /\ Rest(t) # t
  BY PickedIsMember DEF Rest
<1>2. \A e \in D : \A x \in Shares : RoundDiv(x * Survives(graph, e), 100) \in Shares
  <2> SUFFICES ASSUME NEW e \in D, NEW x \in Shares PROVE RoundDiv(x * Survives(graph, e), 100) \in Shares
    OBVIOUS
  <2>1. PICK v \in {70, 85, 95, 100} : v = Survives(graph, e)
    BY EdgeShares
  <2>2. x <= x
    BY WholeIsNatural DEF Shares
  <2>3. RoundDiv(x * v, 100) \in Shares
    BY <2>2, ShareKept
  <2> QED BY <2>1, <2>3
<1>3. op \in [D -> [Shares -> Shares]]
  BY <1>2
<1>4. Whole \in Shares
  BY WholeIsNatural DEF Shares
<1>5. PICK g \in [SUBSET D -> Shares] : \A t \in SUBSET D : g[t] = IF t = {} THEN Whole ELSE op[Picked(t)][g[Rest(t)]]
  <2> HIDE DEF op, D
  <2>1. IsFiniteSet(D)
    BY DEF D
  <2>2. PICK g \in [SUBSET D -> Shares] : FoldsAll(g, op, Whole, D)
    BY ONLY <1>3, <1>4, <2>1, FoldExists
  <2> QED BY <2>2 DEF FoldsAll
<1>6. \A t \in SUBSET D : g[t] = IF t = {} THEN Whole ELSE RoundDiv(g[Rest(t)] * Survives(graph, Picked(t)), 100)
  BY <1>1, <1>5
<1>7. Survivals(g, graph)
  BY <1>6 DEF Survivals
<1>8. Survivals(Survival(graph), graph)
  BY <1>7 DEF Survival
<1>9. \A t \in SUBSET D : Survival(graph)[t] = IF t = {} THEN Whole ELSE RoundDiv(Survival(graph)[Rest(t)] * Survives(graph, Picked(t)), 100)
  <2> DEFINE h == Survival(graph)
  <2>1. h = [t \in SUBSET D |-> IF t = {} THEN Whole ELSE RoundDiv(h[Rest(t)] * Survives(graph, Picked(t)), 100)]
    BY <1>8 DEF Survivals
  <2> HIDE DEF h
  <2>2. \A t \in SUBSET D : h[t] = IF t = {} THEN Whole ELSE RoundDiv(h[Rest(t)] * Survives(graph, Picked(t)), 100)
    BY <2>1, Zenon
  <2> QED BY <2>2 DEF h
<1>10. ASSUME NEW t0 \in SUBSET D PROVE Survival(graph)[t0] \in Shares
  <2> DEFINE Bad == {t \in SUBSET D : Survival(graph)[t] \notin Shares}
  <2> SUFFICES ASSUME Bad # {} PROVE FALSE
    OBVIOUS
  <2>0. IsFiniteSet(D) /\ Bad \subseteq SUBSET D
    OBVIOUS
  <2>1. PICK t \in Bad : \A u \in Bad : ~(u \subseteq t /\ u # t)
    <3> HIDE DEF Bad, D
    <3> QED BY ONLY <2>0, Bad # {}, LeastSubset
  <2>2. t # {}
    BY <1>4, <1>9
  <2>3. Picked(t) \in D /\ Rest(t) \in SUBSET D /\ Survival(graph)[Rest(t)] \in Shares
    BY <1>1, <2>1, <2>2
  <2>4. RoundDiv(Survival(graph)[Rest(t)] * Survives(graph, Picked(t)), 100) \in Shares
    BY <1>2, <2>3
  <2>5. Survival(graph)[t] \in Shares
    BY <1>9, <2>2, <2>4
  <2> QED BY <2>5
<1> QED BY <1>1, <1>9, <1>10

(* A worse guarantor: what it does to the edges it ends. *)
LEMMA NodeWorse ==
    ASSUME NEW n \in GraphNodes, NEW label \in {"warn", "high"}, Worse(n, label)
    PROVE  LET m == [n EXCEPT !.risk = label] IN m.id = n.id /\ _node_pd(n) <= _node_pd(m)
<1> DEFINE m == [n EXCEPT !.risk = label]
<1>1. m.id = n.id /\ m.risk = label
  BY DEF GraphNodes
<1> HIDE DEF m
<1>2. \A x : /\ x.risk = "normal" => _node_pd(x) = 10
             /\ x.risk = "warn" => _node_pd(x) = 30
             /\ x.risk = "high" => _node_pd(x) = 60
  BY DEF _node_pd
<1>3. _node_pd(n) <= _node_pd(m)
  BY <1>1, <1>2 DEF Worse
<1> QED BY <1>1, <1>3 DEF m

EndsWorse(graph, worse, k) ==
    LET A == {x \in graph.nodes : x.id = k}
        B == {x \in worse.nodes : x.id = k}
    IN  /\ A = {} <=> B = {}
        /\ A # {} => _node_pd(CHOOSE x \in A : TRUE) <= _node_pd(CHOOSE x \in B : TRUE)

LEMMA EndWorse ==
    ASSUME NEW graph, Drawn(graph), NEW n \in graph.nodes, NEW label \in {"warn", "high"}, Worse(n, label), NEW k
    PROVE  EndsWorse(graph, Worsened(graph, n, label), k)
<1> SUFFICES LET A == {x \in graph.nodes : x.id = k}
                 B == {x \in Worsened(graph, n, label).nodes : x.id = k}
             IN  /\ A = {} <=> B = {}
                 /\ A # {} => _node_pd(CHOOSE x \in A : TRUE) <= _node_pd(CHOOSE x \in B : TRUE)
  BY DEF EndsWorse
<1> DEFINE m == [n EXCEPT !.risk = label]
           A == {x \in graph.nodes : x.id = k}
           B == {x \in Worsened(graph, n, label).nodes : x.id = k}
<1>1. m.id = n.id /\ _node_pd(n) <= _node_pd(m)
  <2>1. n \in GraphNodes
    BY DEF Drawn, GuaranteeGraphs
  <2> QED BY <2>1, NodeWorse
<1>2. Worsened(graph, n, label).nodes = (graph.nodes \ {n}) \cup {m}
  BY DEF Worsened, Drawn, GuaranteeGraphs
<1>3. \A x, y \in graph.nodes : x.id = y.id => x = y
  BY DEF Drawn, NamedOnce
<1> HIDE DEF m
<1>4. CASE n.id = k
  <2>1. A = {n}
    BY <1>3, <1>4
  <2>2. B = {m}
    BY <1>1, <1>2, <1>3, <1>4
  <2> HIDE DEF A, B
  <2>3. (CHOOSE x \in A : TRUE) = n /\ (CHOOSE x \in B : TRUE) = m
    BY <2>1, <2>2
  <2> QED BY <1>1, <2>1, <2>2, <2>3 DEF A, B
<1>5. CASE n.id # k
  <2>1. B = A
    BY <1>1, <1>2, <1>5
  <2> HIDE DEF A, B
  <2>2. \A x : _node_pd(x) <= _node_pd(x)
    BY NodePds
  <2> QED BY <2>1, <2>2 DEF A, B
<1> QED BY <1>4, <1>5

LEMMA EdgeWorse ==
    ASSUME NEW graph, Drawn(graph), NEW n \in graph.nodes, NEW label \in {"warn", "high"}, Worse(n, label), NEW edge
    PROVE  Survives(Worsened(graph, n, label), edge) <= Survives(graph, edge)
<1> DEFINE worse   == Worsened(graph, n, label)
           head(S) == CHOOSE x \in S : TRUE
<1>1. \A k : EndsWorse(graph, worse, k)
  BY EndWorse
<1> HIDE DEF worse, head
<1>2. /\ Far(graph, edge) = {} <=> Far(worse, edge) = {}
      /\ Far(graph, edge) # {} => _node_pd(head(Far(graph, edge))) <= _node_pd(head(Far(worse, edge)))
  BY <1>1 DEF Far, EndsWorse, head
<1>3. /\ Near(graph, edge) = {} <=> Near(worse, edge) = {}
      /\ Near(graph, edge) # {} => _node_pd(head(Near(graph, edge))) <= _node_pd(head(Near(worse, edge)))
  BY <1>1 DEF Near, EndsWorse, head
<1>4. \A g \in {graph, worse} :
         /\ Far(g, edge) # {} => Survives(g, edge) = 100 - _node_pd(head(Far(g, edge))) \div 2
         /\ Far(g, edge) = {} /\ Near(g, edge) # {} => Survives(g, edge) = 100 - _node_pd(head(Near(g, edge))) \div 2
         /\ Far(g, edge) = {} /\ Near(g, edge) = {} => Survives(g, edge) = 100
  BY SurvivesIs DEF head
<1>5. \A x, y : _node_pd(x) <= _node_pd(y) => 100 - _node_pd(y) \div 2 <= 100 - _node_pd(x) \div 2
  BY NodePds
<1>6. CASE Far(graph, edge) # {}
  BY <1>2, <1>4, <1>5, <1>6 DEF worse
<1>7. CASE Far(graph, edge) = {} /\ Near(graph, edge) # {}
  BY <1>2, <1>3, <1>4, <1>5, <1>7 DEF worse
<1>8. CASE Far(graph, edge) = {} /\ Near(graph, edge) = {}
  <2>1. Survives(graph, edge) = 100 /\ Survives(worse, edge) = 100
    BY <1>2, <1>3, <1>4, <1>8
  <2> QED BY <2>1 DEF worse
<1> QED BY <1>6, <1>7, <1>8

(* Edges that let less survive leave less, in the same order. *)
LEMMA SurvivalShrinks ==
    ASSUME NEW a, NEW b, IsFiniteSet(a.edges), b.edges = a.edges, \A edge : Survives(b, edge) <= Survives(a, edge)
    PROVE  \A s \in SUBSET a.edges : Survival(b)[s] <= Survival(a)[s]
<1> DEFINE D   == a.edges
           Bad == {t \in SUBSET D : ~(Survival(b)[t] <= Survival(a)[t])}
<1> SUFFICES ASSUME Bad # {} PROVE FALSE
  OBVIOUS
<1>1. IsFiniteSet(D) /\ Bad \subseteq SUBSET D
  OBVIOUS
<1>2. PICK t \in Bad : \A u \in Bad : ~(u \subseteq t /\ u # t)
  <2> HIDE DEF Bad, D
  <2> QED BY ONLY <1>1, Bad # {}, LeastSubset
<1>3. /\ Survival(a)[t] = IF t = {} THEN Whole ELSE RoundDiv(Survival(a)[Rest(t)] * Survives(a, Picked(t)), 100)
      /\ Survival(b)[t] = IF t = {} THEN Whole ELSE RoundDiv(Survival(b)[Rest(t)] * Survives(b, Picked(t)), 100)
      /\ t # {} => Rest(t) \in SUBSET D /\ Rest(t) \subseteq t /\ Rest(t) # t
  <2>1. t \in SUBSET a.edges /\ t \in SUBSET b.edges /\ IsFiniteSet(b.edges)
    BY <1>2
  <2> HIDE DEF Bad
  <2> QED BY <2>1, SurvivalSteps
<1>4. t # {}
  BY <1>2, <1>3, WholeIsNatural
<1>5. Survival(b)[Rest(t)] <= Survival(a)[Rest(t)]
  BY <1>2, <1>3, <1>4
<1>6. Survival(a)[Rest(t)] \in Shares /\ Survival(b)[Rest(t)] \in Shares
  BY <1>3, <1>4, SurvivalSteps
<1>7. PICK v \in {70, 85, 95, 100}, w \in {70, 85, 95, 100} : v = Survives(b, Picked(t)) /\ w = Survives(a, Picked(t)) /\ v <= w
  BY EdgeShares
<1>8. RoundDiv(Survival(b)[Rest(t)] * v, 100) <= RoundDiv(Survival(a)[Rest(t)] * w, 100)
  <2> HIDE DEF Bad, D
  <2>1. PICK x \in Shares, y \in Shares : x = Survival(b)[Rest(t)] /\ y = Survival(a)[Rest(t)] /\ x <= y
    BY <1>5, <1>6
  <2>2. RoundDiv(x * v, 100) <= RoundDiv(y * w, 100)
    BY <1>7, <2>1, ShareKept
  <2> QED BY <2>1, <2>2
<1>9. Survival(b)[t] <= Survival(a)[t]
  BY <1>3, <1>4, <1>7, <1>8
<1> QED BY <1>2, <1>9

LEMMA ContagionShrinks ==
    ASSUME NEW a, NEW b, IsFiniteSet(a.edges), b.edges = a.edges, \A edge : Survives(b, edge) <= Survives(a, edge)
    PROVE  compute_contagion(a) \in BasisPoints /\ compute_contagion(b) >= compute_contagion(a)
<1>1. Survival(b)[a.edges] <= Survival(a)[a.edges]
  BY SurvivalShrinks
<1>2. Survival(a)[a.edges] \in Shares /\ Survival(b)[a.edges] \in Shares
  BY SurvivalSteps
<1>3. PICK x \in Shares, y \in Shares : x = Survival(a)[a.edges] /\ y = Survival(b)[a.edges] /\ y <= x
  BY <1>1, <1>2
<1>4. compute_contagion(a) = 10000 - RoundDiv(x, 100) /\ compute_contagion(b) = 10000 - RoundDiv(y, 100)
  BY <1>3, ContagionIs
<1>5. x \in Int /\ y \in Int /\ 0 <= y /\ y <= x /\ x <= 1000000
  <2>1. \A z \in Shares : z \in Int /\ 0 <= z /\ z <= Whole
    BY WholeIsNatural DEF Shares
  <2>2. Whole = 1000000
    BY SMT DEF Whole
  <2> QED BY <1>3, <2>1, <2>2, SMT
<1>6. PICK v \in Int, w \in Int : v = 10000 - RoundDiv(x, 100) /\ w = 10000 - RoundDiv(y, 100) /\ 0 <= v /\ v <= 10000 /\ v <= w
  BY <1>5, SMT DEF RoundDiv
<1>7. v \in BasisPoints /\ w >= v
  BY <1>6, Within
<1> QED BY <1>4, <1>6, <1>7

LEMMA AdjustedOnlyRises ==
    ASSUME NEW pd \in BaseProbabilities, NEW c \in BasisPoints
    PROVE  contagion_adjusted_pd(pd, c) >= pd
<1> DEFINE left == RoundDiv((10000 - pd) * (10000 - c), 10000)
<1>0. c \in Int /\ 0 <= c /\ c <= 10000 /\ pd \in {0, 500, 9900}
  BY SMT DEF BasisPoints, BaseProbabilities
<1>1. left \in Int /\ left <= 10000 - pd
  BY <1>0, SMT DEF RoundDiv
<1> HIDE DEF left
<1>2. Min({10000, 10000 - left}) = IF 10000 <= 10000 - left THEN 10000 ELSE 10000 - left
  BY <1>1, MinOf
<1>3. contagion_adjusted_pd(pd, c) = Min({10000, 10000 - left})
  BY DEF contagion_adjusted_pd, left
<1> QED BY <1>0, <1>1, <1>2, <1>3, SMT

-----------------------------------------------------------------------------
(* The inductive invariant: where each part of the result comes from.      *)
ScoreFields    == {"conflicts", "hits", "risk"}
EvidenceFields == ScoreFields \cup {"graph", "attribution"}
HeadlineFields == EvidenceFields \cup {"headline"}
ExplainFields  == HeadlineFields \cup {"narratives"}
StressFields   == ExplainFields \cup {"benchmarks", "stress", "citations"}
ClassifyFields == StressFields \cup {"classification"}
PlanFields     == ClassifyFields \cup {"plan"}
ResultFields   == PlanFields \cup {"report", "mode", "trace", "decision"}

(* What has been computed at each step: a part is added once, and kept.    *)
Grown ==
    /\ step \in {"resolve", "failed", "score", "save", "evidence", "polish", "explain", "stress",
                 "classify", "plan", "research", "write", "done"}
    /\ step \in {"resolve", "failed", "score"} => DOMAIN out = {}
    /\ step \in {"save", "evidence"} => DOMAIN out = ScoreFields
    /\ step = "polish" => DOMAIN out = EvidenceFields
    /\ step = "explain" => DOMAIN out = HeadlineFields
    /\ step = "stress" => DOMAIN out = ExplainFields
    /\ step = "classify" => DOMAIN out = StressFields
    /\ step = "plan" => DOMAIN out = ClassifyFields
    /\ step \in {"research", "write"} => DOMAIN out = PlanFields
    /\ step = "done" => DOMAIN out = ResultFields
    /\ step \notin {"write", "done"} => sections = <<>>

(* The rules a score was taken with were on file once, those of the stress *)
(* once too, and they need not be the same.                                *)
Judged ==
    "risk" \in DOMAIN out =>
        /\ out.conflicts = Conflicts(req)
        /\ \E base \in RuleBases : out.hits = HitsOf(req, base) /\ out.risk = RiskOf(req, base)

Stressed ==
    "stress" \in DOMAIN out =>
        out.stress = None \/ \E base \in RuleBases : out.stress = run_stress(base, req.metrics, req.events, out.risk)

Attributed ==
    "attribution" \in DOMAIN out =>
        out.attribution = build_attribution(out.risk.dimensions, out.hits) /\ out.graph = GraphOf(req)

(* Every text went through the gate. *)
Headed ==
    "headline" \in DOMAIN out =>
        \E reply \in ModelReplies(req) :
            out.headline = polish_headline(reply, HeadlineText(out.risk), req.metrics, out.risk, Cardinality(out.conflicts))

Explained ==
    "narratives" \in DOMAIN out =>
        \A d \in DOMAIN out.narratives : \E reply \in ModelReplies(req) :
            out.narratives[d] = explain_attribution_dim(reply, out.attribution[d], req.metrics, out.risk, Cardinality(out.conflicts))

Written ==
    /\ \E Texts : sections \in Seq(Texts)
    /\ \A i \in DOMAIN sections : \E reply \in ModelReplies(req) :
           sections[i] = _section(i, reply, out.risk, Cardinality(out.conflicts), out.headline.text,
                                  out.classification.label, findings)

(* What the templates quote are texts. *)
Searched ==
    /\ \E Answers : findings \in Seq(Answers)
    /\ \A i \in DOMAIN findings : Text(findings[i].opening)

Labelled == "classification" \in DOMAIN out => Text(out.classification.label)

Planned ==
    "plan" \in DOMAIN out =>
        out.plan = plan_research(out.risk, req.metrics, req.estimated, out.conflicts, out.classification)

Published ==
    "report" \in DOMAIN out => out.report = Report /\ out.trace = Trace /\ out.decision = Decision

PipelineInv ==
    /\ req \in Requests /\ rules \in RuleBases
    /\ Grown
    /\ Judged /\ Stressed /\ Attributed
    /\ Headed /\ Explained /\ Written
    /\ Searched /\ Labelled
    /\ Planned /\ Published

-----------------------------------------------------------------------------
(* Adding parts that were not there: they are there, and the rest is kept. *)
LEMMA AddKeeps ==
    ASSUME NEW fields, Add(fields), DOMAIN fields \cap DOMAIN out = {}
    PROVE  /\ DOMAIN out' = DOMAIN out \cup DOMAIN fields
           /\ \A x \in DOMAIN out : out'[x] = out[x]
           /\ \A x \in DOMAIN fields : out'[x] = fields[x]
BY DEF Add, Extend

(* A step that changes none of what a part was computed from keeps it.     *)
Kept(fields) == fields \subseteq DOMAIN out /\ \A x \in fields : out'[x] = out[x]

LEMMA JudgedKept == Judged /\ req' = req /\ Kept({"risk", "hits", "conflicts"}) => Judged'
BY DEF Judged, Kept, Conflicts, HitsOf, RiskOf, RuleScore, Observations

LEMMA StressedKept == Stressed /\ req' = req /\ Kept({"risk", "stress"}) => Stressed'
BY DEF Stressed, Kept

LEMMA AttributedKept == Attributed /\ req' = req /\ Kept({"risk", "hits", "graph", "attribution"}) => Attributed'
BY DEF Attributed, Kept, GraphOf

LEMMA HeadedKept == Headed /\ req' = req /\ Kept({"risk", "conflicts", "headline"}) => Headed'
BY DEF Headed, Kept, ModelReplies, HeadlineText, ScoreFigure

LEMMA ExplainedKept ==
    Explained /\ req' = req /\ Kept({"risk", "conflicts", "attribution", "narratives"}) => Explained'
BY DEF Explained, Kept, ModelReplies

LEMMA PlannedKept ==
    Planned /\ req' = req /\ Kept({"risk", "conflicts", "classification", "plan"}) => Planned'
BY DEF Planned, Kept

LEMMA LabelledKept == Labelled /\ Kept({"classification"}) => Labelled'
BY DEF Labelled, Kept

LEMMA NotLabelled == "classification" \notin DOMAIN out' => Labelled'
BY DEF Labelled

LEMMA WrittenKept ==
    Written /\ req' = req /\ Kept({"risk", "conflicts", "headline", "classification"}) /\ UNCHANGED <<sections, findings>> => Written'
BY DEF Written, Kept, ModelReplies

LEMMA NothingWritten == sections = <<>> => Written
<1> SUFFICES ASSUME sections = <<>> PROVE Written
  OBVIOUS
<1>1. sections \in Seq({}) /\ DOMAIN sections = {}
  OBVIOUS
<1> QED BY <1>1 DEF Written

LEMMA NothingStaysWritten == sections' = <<>> => Written'
<1> SUFFICES ASSUME sections' = <<>> PROVE Written'
  OBVIOUS
<1>1. sections' \in Seq({}) /\ DOMAIN sections' = {}
  OBVIOUS
<1> QED BY <1>1 DEF Written

LEMMA SearchedKept == Searched /\ findings' = findings => Searched'
BY DEF Searched

LEMMA ResultKept ==
    Judged /\ Stressed /\ Attributed /\ Headed /\ Explained /\ Planned /\ Labelled /\ UNCHANGED <<req, out>>
        => Judged' /\ Stressed' /\ Attributed' /\ Headed' /\ Explained' /\ Planned' /\ Labelled'
<1> SUFFICES ASSUME Judged, Stressed, Attributed, Headed, Explained, Planned, Labelled, UNCHANGED <<req, out>>
             PROVE  Judged' /\ Stressed' /\ Attributed' /\ Headed' /\ Explained' /\ Planned' /\ Labelled'
  OBVIOUS
<1>1. Judged' /\ Stressed' /\ Attributed'
  BY DEF Judged, Stressed, Attributed, Conflicts, HitsOf, RiskOf, RuleScore, Observations, GraphOf
<1>2. Headed' /\ Explained' /\ Planned' /\ Labelled'
  BY DEF Headed, Explained, Planned, Labelled, ModelReplies, HeadlineText, ScoreFigure
<1> QED BY <1>1, <1>2

LEMMA PublishedKept == Published /\ UNCHANGED <<req, out, findings, sections>> => Published'
BY DEF Published, Report, Trace, Decision, Finished, Mode, Researched, Observations

-----------------------------------------------------------------------------
LEMMA InitialResult == Init => PipelineInv
<1> SUFFICES ASSUME Init PROVE PipelineInv
  OBVIOUS
<1>1. DOMAIN out = {} /\ step = "resolve" /\ sections = <<>> /\ findings = <<>>
  BY DEF Init
<1>2. Judged /\ Stressed /\ Attributed /\ Headed /\ Explained /\ Planned /\ Labelled /\ Published
  BY <1>1 DEF Judged, Stressed, Attributed, Headed, Explained, Planned, Labelled, Published
<1>4. Searched
  <2>1. findings \in Seq({}) /\ DOMAIN findings = {}
    BY <1>1
  <2> QED BY <2>1 DEF Searched
<1>3. Grown
  BY <1>1 DEF Grown
<1> QED BY <1>1, <1>2, <1>3, <1>4, NothingWritten DEF PipelineInv, Init

LEMMA ResultGrows == PipelineInv /\ [Next]_vars => PipelineInv'
<1> SUFFICES ASSUME PipelineInv, [Next]_vars PROVE PipelineInv'
  OBVIOUS
<1> USE DEF PipelineInv
<1>1. CASE ChangeRules
  <2>1. UNCHANGED <<req, step, out, findings, sections>> /\ rules' \in RuleBases
    BY <1>1 DEF ChangeRules
  <2>2. Grown'
    BY <2>1 DEF Grown
  <2>3. Written'
    BY <2>1 DEF Written, ModelReplies
  <2> QED BY <2>1, <2>2, <2>3, ResultKept, SearchedKept, PublishedKept
<1>2. CASE ResolveInputs
  <2>1. step = "resolve" /\ step' \in {"failed", "score"} /\ UNCHANGED <<req, rules, out, findings, sections>>
    BY <1>2 DEF ResolveInputs
  <2>2. Grown'
    BY <2>1 DEF Grown
  <2>3. Written'
    BY <2>1 DEF Written, ModelReplies
  <2> QED BY <2>1, <2>2, <2>3, ResultKept, SearchedKept, PublishedKept
<1>3. CASE ScoreRisk
  <2>1. /\ step = "score" /\ step' = "save" /\ UNCHANGED <<req, rules, findings, sections>>
        /\ DOMAIN out' = ScoreFields
        /\ out'.conflicts = Conflicts(req) /\ out'.hits = HitsOf(req, rules) /\ out'.risk = RiskOf(req, rules)
    BY <1>3 DEF ScoreRisk, ScoreFields
  <2>2. Grown' /\ sections' = <<>>
    BY <2>1 DEF Grown, ScoreFields
  <2>3. Judged'
    BY <2>1 DEF Judged, Conflicts, HitsOf, RiskOf, RuleScore, Observations
  <2>4. Stressed' /\ Attributed' /\ Headed' /\ Explained' /\ Planned' /\ Published'
    BY <2>1 DEF ScoreFields, Stressed, Attributed, Headed, Explained, Planned, Published
  <2>5. Written' /\ Searched' /\ Labelled'
    BY <2>1, <2>2, NothingStaysWritten, SearchedKept, NotLabelled DEF ScoreFields
  <2> QED BY <2>1, <2>2, <2>3, <2>4, <2>5
<1>4. CASE SaveScore
  <2>1. step = "save" /\ step' = "evidence" /\ UNCHANGED <<req, rules, out, findings, sections>>
    BY <1>4 DEF SaveScore
  <2>2. Grown'
    BY <2>1 DEF Grown
  <2>3. Written'
    BY <2>1 DEF Written, ModelReplies
  <2> QED BY <2>1, <2>2, <2>3, ResultKept, SearchedKept, PublishedKept
<1>5. CASE CollectEvidence
  <2>1. step = "evidence" /\ step' = "polish" /\ UNCHANGED <<req, rules, findings, sections>>
    BY <1>5 DEF CollectEvidence
  <2>2. DOMAIN out = ScoreFields /\ sections = <<>>
    BY <2>1 DEF Grown
  <2>3. PICK fields : /\ Add(fields) /\ DOMAIN fields = {"graph", "attribution"}
                      /\ fields["attribution"] = build_attribution(out.risk.dimensions, out.hits)
                      /\ fields["graph"] = GraphOf(req)
    BY <1>5 DEF CollectEvidence
  <2>4. DOMAIN out' = EvidenceFields /\ (\A x \in ScoreFields : out'[x] = out[x]) /\ \A x \in DOMAIN fields : out'[x] = fields[x]
    BY <2>2, <2>3, AddKeeps DEF ScoreFields, EvidenceFields
  <2>5. Grown'
    BY <2>1, <2>2, <2>4 DEF Grown, ScoreFields, EvidenceFields, HeadlineFields, ExplainFields, StressFields, ClassifyFields, PlanFields, ResultFields
  <2>6. Judged' /\ Written' /\ Searched'
    BY <2>1, <2>2, <2>4, JudgedKept, SearchedKept, NothingStaysWritten DEF Kept, ScoreFields
  <2>7. Attributed'
    BY <2>1, <2>3, <2>4 DEF Attributed, ScoreFields, GraphOf
  <2>8. Stressed' /\ Headed' /\ Explained' /\ Planned' /\ Published'
    BY <2>4 DEF Stressed, Headed, Explained, Planned, Published, ScoreFields, EvidenceFields
  <2>10. Labelled'
    BY <2>4, NotLabelled DEF StressFields, ExplainFields, HeadlineFields, EvidenceFields, ScoreFields
  <2> QED BY <2>1, <2>5, <2>6, <2>7, <2>8, <2>10
<1>6. CASE PolishHeadline
  <2>1. step = "polish" /\ step' = "explain" /\ UNCHANGED <<req, rules, findings, sections>>
    BY <1>6 DEF PolishHeadline
  <2>2. DOMAIN out = EvidenceFields /\ sections = <<>>
    BY <2>1 DEF Grown
  <2> DEFINE Polished(reply) == polish_headline(reply, HeadlineText(out.risk), req.metrics, out.risk,
                                                Cardinality(out.conflicts))
  <2>3. PICK reply \in ModelReplies(req) : Add([headline |-> Polished(reply)])
    BY <1>6 DEF PolishHeadline, ModelReplies
  <2> HIDE DEF Polished
  <2>9. PICK fields : Add(fields) /\ DOMAIN fields = {"headline"} /\ fields["headline"] = Polished(reply)
    BY <2>3
  <2>4. DOMAIN out' = HeadlineFields /\ (\A x \in EvidenceFields : out'[x] = out[x]) /\ \A x \in DOMAIN fields : out'[x] = fields[x]
    BY <2>2, <2>9, AddKeeps DEF ScoreFields, EvidenceFields, HeadlineFields
  <2>5. Grown'
    BY <2>1, <2>2, <2>4 DEF Grown, ScoreFields, EvidenceFields, HeadlineFields, ExplainFields, StressFields, ClassifyFields, PlanFields, ResultFields
  <2>6. Judged' /\ Attributed' /\ Written' /\ Searched'
    BY <2>1, <2>2, <2>4, JudgedKept, AttributedKept, SearchedKept, NothingStaysWritten DEF Kept, ScoreFields, EvidenceFields
  <2>7. Headed'
    BY <2>1, <2>9, <2>4 DEF Headed, EvidenceFields, ScoreFields, Polished, ModelReplies, HeadlineText
  <2>8. Stressed' /\ Explained' /\ Planned' /\ Published'
    BY <2>4 DEF Stressed, Explained, Planned, Published, ScoreFields, EvidenceFields, HeadlineFields
  <2>10. Labelled'
    BY <2>4, NotLabelled DEF StressFields, ExplainFields, HeadlineFields, EvidenceFields, ScoreFields
  <2> QED BY <2>1, <2>5, <2>6, <2>7, <2>8, <2>10
<1>7. CASE ExplainDimensions
  <2>1. step = "explain" /\ step' = "stress" /\ UNCHANGED <<req, rules, findings, sections>>
    BY <1>7 DEF ExplainDimensions
  <2>2. DOMAIN out = HeadlineFields /\ sections = <<>>
    BY <2>1 DEF Grown
  <2> DEFINE Narrative(reply, d) == explain_attribution_dim(reply, out.attribution[d], req.metrics, out.risk,
                                                           Cardinality(out.conflicts))
  <2>3. \E fields : /\ Add(fields) /\ DOMAIN fields = {"narratives"}
                    /\ \A d \in DOMAIN fields["narratives"] : \E reply \in ModelReplies(req) :
                          fields["narratives"][d] = Narrative(reply, d)
    <3> HIDE DEF Narrative
    <3>4. PICK answered : \E reply \in [answered -> ModelReplies(req)] :
             Add([narratives |-> [d \in answered |-> Narrative(reply[d], d)]])
      BY <1>7 DEF ExplainDimensions, Narrative
    <3>1. PICK reply \in [answered -> ModelReplies(req)] :
             Add([narratives |-> [d \in answered |-> Narrative(reply[d], d)]])
      BY <3>4
    <3> DEFINE told == [d \in answered |-> Narrative(reply[d], d)]
    <3>2. DOMAIN told = answered /\ \A d \in answered : reply[d] \in ModelReplies(req) /\ told[d] = Narrative(reply[d], d)
      OBVIOUS
    <3> HIDE DEF told
    <3>3. Add([narratives |-> told])
      BY <3>1 DEF told
    <3> QED BY <3>2, <3>3
  <2> HIDE DEF Narrative
  <2>9. PICK fields : /\ Add(fields) /\ DOMAIN fields = {"narratives"}
                      /\ \A d \in DOMAIN fields["narratives"] : \E reply \in ModelReplies(req) :
                            fields["narratives"][d] = Narrative(reply, d)
    BY <2>3
  <2>4. DOMAIN out' = ExplainFields /\ (\A x \in HeadlineFields : out'[x] = out[x]) /\ \A x \in DOMAIN fields : out'[x] = fields[x]
    BY <2>2, <2>9, AddKeeps DEF ScoreFields, EvidenceFields, HeadlineFields, ExplainFields
  <2>5. Grown'
    BY <2>1, <2>2, <2>4 DEF Grown, ScoreFields, EvidenceFields, HeadlineFields, ExplainFields, StressFields, ClassifyFields, PlanFields, ResultFields
  <2>6. Judged' /\ Attributed' /\ Headed' /\ Written' /\ Searched'
    BY <2>1, <2>2, <2>4, JudgedKept, AttributedKept, HeadedKept, SearchedKept, NothingStaysWritten DEF Kept, ScoreFields, EvidenceFields, HeadlineFields
  <2>7. Explained'
    BY <2>1, <2>9, <2>4 DEF Explained, HeadlineFields, EvidenceFields, ScoreFields, Narrative, ModelReplies
  <2>8. Stressed' /\ Planned' /\ Published'
    BY <2>4 DEF Stressed, Planned, Published, ScoreFields, EvidenceFields, HeadlineFields, ExplainFields
  <2>10. Labelled'
    BY <2>4, NotLabelled DEF StressFields, ExplainFields, HeadlineFields, EvidenceFields, ScoreFields
  <2> QED BY <2>1, <2>5, <2>6, <2>7, <2>8, <2>10
<1>8. CASE RunStress
  <2>1. step = "stress" /\ step' = "classify" /\ UNCHANGED <<req, rules, findings, sections>>
    BY <1>8 DEF RunStress
  <2>2. DOMAIN out = ExplainFields /\ sections = <<>>
    BY <2>1 DEF Grown
  <2>3. PICK fields : /\ Add(fields) /\ DOMAIN fields = {"benchmarks", "stress", "citations"}
                      /\ \/ fields["stress"] = None
                         \/ fields["stress"] = run_stress(rules, req.metrics, req.events, out.risk)
    BY <1>8 DEF RunStress
  <2>4. DOMAIN out' = StressFields /\ (\A x \in ExplainFields : out'[x] = out[x]) /\ \A x \in DOMAIN fields : out'[x] = fields[x]
    BY <2>2, <2>3, AddKeeps DEF ScoreFields, EvidenceFields, HeadlineFields, ExplainFields, StressFields
  <2>5. Grown'
    BY <2>1, <2>2, <2>4 DEF Grown, ScoreFields, EvidenceFields, HeadlineFields, ExplainFields, StressFields, ClassifyFields, PlanFields, ResultFields
  <2>6. Judged' /\ Attributed' /\ Headed' /\ Explained' /\ Written' /\ Searched'
    BY <2>1, <2>2, <2>4, JudgedKept, AttributedKept, HeadedKept, ExplainedKept, SearchedKept, NothingStaysWritten DEF Kept, ScoreFields, EvidenceFields, HeadlineFields, ExplainFields
  <2>7. Stressed'
    BY <2>1, <2>3, <2>4 DEF Stressed, ExplainFields, HeadlineFields, EvidenceFields, ScoreFields
  <2>8. Planned' /\ Published'
    BY <2>4 DEF Planned, Published, ScoreFields, EvidenceFields, HeadlineFields, ExplainFields, StressFields
  <2>10. Labelled'
    BY <2>4, NotLabelled DEF StressFields, ExplainFields, HeadlineFields, EvidenceFields, ScoreFields
  <2> QED BY <2>1, <2>5, <2>6, <2>7, <2>8, <2>10
<1>9. CASE ClassifyCompany
  <2>1. step = "classify" /\ step' = "plan" /\ UNCHANGED <<req, rules, findings, sections>>
    BY <1>9 DEF ClassifyCompany
  <2>2. DOMAIN out = StressFields /\ sections = <<>>
    BY <2>1 DEF Grown
  <2>9. PICK refined \in Refinements \cup {None} : Add([classification |-> classify_company(req.industry, refined)])
    BY <1>9 DEF ClassifyCompany
  <2>3. PICK fields : Add(fields) /\ DOMAIN fields = {"classification"} /\ fields["classification"] = classify_company(req.industry, refined)
    BY <2>9
  <2>11. Text(classify_company(req.industry, refined).label)
    BY RefinementsAssumption, NothingIsSourced DEF classify_company, Text
  <2>4. DOMAIN out' = ClassifyFields /\ (\A x \in StressFields : out'[x] = out[x]) /\ \A x \in DOMAIN fields : out'[x] = fields[x]
    BY <2>2, <2>3, AddKeeps DEF ScoreFields, EvidenceFields, HeadlineFields, ExplainFields, StressFields, ClassifyFields
  <2>5. Grown'
    BY <2>1, <2>2, <2>4 DEF Grown, ScoreFields, EvidenceFields, HeadlineFields, ExplainFields, StressFields, ClassifyFields, PlanFields, ResultFields
  <2>6. Judged' /\ Attributed' /\ Headed' /\ Explained' /\ Stressed' /\ Written' /\ Searched'
    BY <2>1, <2>2, <2>4, JudgedKept, AttributedKept, HeadedKept, ExplainedKept, StressedKept, SearchedKept, NothingStaysWritten DEF Kept, ScoreFields, EvidenceFields, HeadlineFields, ExplainFields, StressFields
  <2>7. Planned'
    BY <2>4 DEF Planned, ClassifyFields, StressFields, ExplainFields, HeadlineFields, EvidenceFields, ScoreFields
  <2>8. Published'
    BY <2>4 DEF Published, ScoreFields, EvidenceFields, HeadlineFields, ExplainFields, StressFields, ClassifyFields
  <2>10. Labelled'
    BY <2>3, <2>4, <2>11 DEF Labelled
  <2> QED BY <2>1, <2>5, <2>6, <2>7, <2>8, <2>10
<1>10. CASE PlanResearch
  <2>1. step = "plan" /\ step' = "research" /\ UNCHANGED <<req, rules, findings, sections>>
    BY <1>10 DEF PlanResearch
  <2>2. DOMAIN out = ClassifyFields /\ sections = <<>>
    BY <2>1 DEF Grown
  <2>3. PICK fields :
           /\ Add(fields) /\ DOMAIN fields = {"plan"}
           /\ fields["plan"] = plan_research(out.risk, req.metrics, req.estimated, out.conflicts, out.classification)
    BY <1>10 DEF PlanResearch
  <2>4. DOMAIN out' = PlanFields /\ (\A x \in ClassifyFields : out'[x] = out[x]) /\ \A x \in DOMAIN fields : out'[x] = fields[x]
    BY <2>2, <2>3, AddKeeps DEF ScoreFields, EvidenceFields, HeadlineFields, ExplainFields, StressFields, ClassifyFields, PlanFields
  <2>5. Grown'
    BY <2>1, <2>2, <2>4 DEF Grown, ScoreFields, EvidenceFields, HeadlineFields, ExplainFields, StressFields, ClassifyFields, PlanFields, ResultFields
  <2>6. Judged' /\ Attributed' /\ Headed' /\ Explained' /\ Stressed' /\ Written' /\ Searched' /\ Labelled'
    BY <2>1, <2>2, <2>4, JudgedKept, AttributedKept, HeadedKept, ExplainedKept, StressedKept, SearchedKept, NothingStaysWritten, LabelledKept DEF Kept, ScoreFields, EvidenceFields, HeadlineFields, ExplainFields, StressFields, ClassifyFields
  <2>7. Planned'
    BY <2>1, <2>3, <2>4 DEF Planned, ClassifyFields, StressFields, ExplainFields, HeadlineFields, EvidenceFields, ScoreFields
  <2>8. Published'
    BY <2>4 DEF Published, ScoreFields, EvidenceFields, HeadlineFields, ExplainFields, StressFields, ClassifyFields, PlanFields
  <2> QED BY <2>1, <2>5, <2>6, <2>7, <2>8
<1>11. CASE ResearchStep
  <2>1. step = "research" /\ UNCHANGED <<req, rules, step, out, sections>>
    BY <1>11 DEF ResearchStep
  <2>2. Grown' /\ sections' = <<>> /\ "report" \notin DOMAIN out'
    BY <2>1 DEF Grown, ScoreFields, EvidenceFields, HeadlineFields, ExplainFields, StressFields, ClassifyFields, PlanFields
  <2>3. Written'
    BY <2>2, NothingStaysWritten
  <2>4. Published'
    BY <2>2 DEF Published
  <2>5. Searched'
    <3> DEFINE answers == {a \in RagAnswers : a # None => (a.llm_used => req.llm) /\ (a.citations # {} => req.documents)}
               Answer(rag) == Finding(out.plan.research_plan[Len(findings) + 1], rag)
    <3>1. PICK rag \in answers : findings' = Append(findings, Answer(rag))
      BY <1>11 DEF ResearchStep
    <3>2. PICK Answers : findings \in Seq(Answers)
      BY DEF Searched
    <3>3. Text(Answer(rag).opening)
      BY <3>1, AnswersAssumption, NothingIsSourced DEF Finding, Text
    <3> HIDE DEF Answer, answers
    <3>4. findings' \in Seq(Answers \cup {Answer(rag)})
      BY <3>1, <3>2
    <3>5. \A i \in DOMAIN findings' : findings'[i] = IF i \in DOMAIN findings THEN findings[i] ELSE Answer(rag)
      BY <3>1, <3>2
    <3>6. \A i \in DOMAIN findings' : Text(findings'[i].opening)
      BY <3>3, <3>5 DEF Searched
    <3> QED BY <3>4, <3>6 DEF Searched
  <2> QED BY <2>1, <2>2, <2>3, <2>4, <2>5, ResultKept
<1>12. CASE ResearchDone
  <2>1. step = "research" /\ step' = "write" /\ UNCHANGED <<req, rules, out, findings, sections>>
    BY <1>12 DEF ResearchDone
  <2>2. Grown'
    BY <2>1 DEF Grown
  <2>3. Written'
    BY <2>1 DEF Written, ModelReplies
  <2> QED BY <2>1, <2>2, <2>3, ResultKept, SearchedKept, PublishedKept
<1>13. CASE WriteSection
  <2> DEFINE Section(i, reply) == _section(i, reply, out.risk, Cardinality(out.conflicts), out.headline.text,
                                          out.classification.label, findings)
  <2>1. PICK reply \in ModelReplies(req) :
           /\ step = "write" /\ UNCHANGED <<req, rules, step, out, findings>>
           /\ sections' = Append(sections, Section(Len(sections) + 1, reply))
    BY <1>13 DEF WriteSection
  <2>2. Grown' /\ "report" \notin DOMAIN out'
    BY <2>1 DEF Grown, ScoreFields, EvidenceFields, HeadlineFields, ExplainFields, StressFields, ClassifyFields, PlanFields
  <2>3. Written'
    <3> HIDE DEF Section
    <3>1. PICK Texts : sections \in Seq(Texts)
      BY DEF Written
    <3>2. sections' \in Seq(Texts \cup {Section(Len(sections) + 1, reply)})
      BY <2>1, <3>1
    <3>3. \A i \in DOMAIN sections : \E answer \in ModelReplies(req) : sections[i] = Section(i, answer)
      BY DEF Written, Section
    <3>4. \A i \in DOMAIN sections' : \E answer \in ModelReplies(req) : sections'[i] = Section(i, answer)
      BY <2>1, <3>1, <3>3
    <3> QED BY <2>1, <3>2, <3>4 DEF Written, Section, ModelReplies
  <2>4. Published'
    BY <2>2 DEF Published
  <2> QED BY <2>1, <2>2, <2>3, <2>4, ResultKept, SearchedKept
<1>14. CASE Publish
  <2>1. step = "write" /\ step' = "done" /\ UNCHANGED <<req, rules, findings, sections>>
    BY <1>14 DEF Publish
  <2>2. DOMAIN out = PlanFields
    BY <2>1 DEF Grown
  <2>3. PICK fields :
           /\ Add(fields) /\ DOMAIN fields = {"report", "mode", "trace", "decision"}
           /\ fields["report"] = Report /\ fields["trace"] = Trace /\ fields["decision"] = Decision
    BY <1>14 DEF Publish
  <2>4. DOMAIN out' = ResultFields /\ (\A x \in PlanFields : out'[x] = out[x]) /\ \A x \in DOMAIN fields : out'[x] = fields[x]
    BY <2>2, <2>3, AddKeeps DEF ScoreFields, EvidenceFields, HeadlineFields, ExplainFields, StressFields, ClassifyFields, PlanFields, ResultFields
  <2>5. Grown'
    BY <2>1, <2>2, <2>4 DEF Grown, ScoreFields, EvidenceFields, HeadlineFields, ExplainFields, StressFields, ClassifyFields, PlanFields, ResultFields
  <2>6. Judged' /\ Attributed' /\ Headed' /\ Explained' /\ Stressed' /\ Planned' /\ Written' /\ Searched' /\ Labelled'
    BY <2>1, <2>2, <2>4, JudgedKept, AttributedKept, HeadedKept, ExplainedKept, StressedKept, PlannedKept, WrittenKept, SearchedKept, LabelledKept DEF Kept, ScoreFields, EvidenceFields, HeadlineFields, ExplainFields, StressFields, ClassifyFields, PlanFields
  <2>7. Published'
    <3>1. \A x \in {"risk", "hits", "conflicts", "graph", "stress", "classification", "plan"} : out'[x] = out[x]
      BY <2>4 DEF PlanFields, ClassifyFields, StressFields, ExplainFields, HeadlineFields, EvidenceFields, ScoreFields
    <3>2. Report' = Report /\ Trace' = Trace /\ Decision' = Decision
      BY <2>1, <3>1 DEF Report, Trace, Decision, Finished, Mode, Researched, Observations
    <3>3. out'.report = Report /\ out'.trace = Trace /\ out'.decision = Decision
      BY <2>3, <2>4
    <3> QED BY <3>2, <3>3 DEF Published
  <2> QED BY <2>1, <2>5, <2>6, <2>7
<1>15. CASE UNCHANGED vars
  <2>1. UNCHANGED <<req, rules, step, out, findings, sections>>
    BY <1>15 DEF vars
  <2>2. Grown'
    BY <2>1 DEF Grown
  <2>3. Written'
    BY <2>1 DEF Written, ModelReplies
  <2> QED BY <2>1, <2>2, <2>3, ResultKept, SearchedKept, PublishedKept
<1> QED BY <1>1, <1>2, <1>3, <1>4, <1>5, <1>6, <1>7, <1>8, <1>9, <1>10, <1>11, <1>12, <1>13, <1>14, <1>15 DEF Next

-----------------------------------------------------------------------------
(* A shock adds events, and takes none away. *)
LEMMA ShockKeepsVeto ==
    ASSUME NEW events, NEW shock, Vetoed(events)
    PROVE  Vetoed(Shocked(events, shock))
<1> DEFINE added == [e \in shock.events |-> 1]
           all   == Shocked(events, shock)
<1>1. \A flag : Truthy(events, flag) => Truthy(all, flag)
  <2> SUFFICES ASSUME NEW flag, Truthy(events, flag) PROVE Truthy(all, flag)
    OBVIOUS
  <2>1. flag \in DOMAIN all /\ all[flag] = IF flag \in DOMAIN added THEN added[flag] ELSE events[flag]
    BY DEF Shocked, Extend, Truthy
  <2>2. all[flag] = 1 \/ all[flag] = events[flag]
    BY <2>1
  <2> HIDE DEF all
  <2> QED BY <2>1, <2>2 DEF Truthy
<1> HIDE DEF all
<1>2. Vetoed(all)
  BY <1>1 DEF Vetoed
<1> QED BY <1>2 DEF all

LEMMA StressKeepsVeto ==
    ASSUME NEW base, NEW metrics, NEW events, NEW baseline, Vetoed(events),
           NEW s \in DOMAIN run_stress(base, metrics, events, baseline)
    PROVE  run_stress(base, metrics, events, baseline)[s].grade = "BLACK"
<1>1. run_stress(base, metrics, events, baseline)[s].grade = Scenario(base, metrics, events, s).grade
  BY DEF run_stress
<1> DEFINE e == Shocked(events, SCENARIOS[s])
           m == _apply_shocks(metrics, SCENARIOS[s])
           h == match(base, m, e, None)
<1>2. Vetoed(e)
  BY ShockKeepsVeto
<1>3. Scenario(base, metrics, events, s) = score_risk(m, e, h)
  BY DEF Scenario
<1> HIDE DEF e, m, h
<1>4. Carried(score_risk(m, e, h), m, e, h)
  BY ScoreCarries
<1> QED BY <1>1, <1>2, <1>3, <1>4 DEF Carried

LEMMA VetoHolds == PipelineInv => VetoIsFinal
<1> SUFFICES ASSUME PipelineInv, Scored, Vetoed(req.events)
             PROVE  /\ out.risk.grade = "BLACK"
                    /\ out.risk.calibrated.scale = "D"
                    /\ Decided => /\ out.decision.decision = "DECLINE" /\ out.decision.manual /\ out.decision.ratio_max = 0
                                  /\ Disclosure("veto", None) \in out.report.disclosures
                                  /\ out.stress # None => \A s \in DOMAIN out.stress : out.stress[s].grade = "BLACK"
  BY DEF VetoIsFinal
<1> USE DEF PipelineInv
<1>1. PICK base \in RuleBases : out.hits = HitsOf(req, base) /\ out.risk = RiskOf(req, base)
  BY DEF Scored, Judged
<1>2. /\ Carried(out.risk, req.metrics, req.events, out.hits)
      /\ out.risk.calibrated.scale = "D"
  BY <1>1, RiskCarries DEF RiskOf, RuleScore
<1>3. out.risk.grade = "BLACK" /\ out.risk.veto # None
  BY <1>2, VetoIsKnown DEF Carried
<1>4. ASSUME Decided
      PROVE  /\ out.decision.decision = "DECLINE" /\ out.decision.manual /\ out.decision.ratio_max = 0
             /\ Disclosure("veto", None) \in out.report.disclosures
             /\ out.stress # None => \A s \in DOMAIN out.stress : out.stress[s].grade = "BLACK"
  <2>1. {"report", "stress"} \subseteq DOMAIN out
    BY <1>4 DEF Decided, Grown, ResultFields, PlanFields, ClassifyFields, StressFields
  <2>2. out.decision = build_credit_decision(Finished, req.applied) /\ Finished.risk = out.risk
    BY <2>1 DEF Published, Decision, Finished
  <2> DEFINE a == Finished
  <2>3. a.risk.veto # None
    BY <2>2, <1>3
  <2> HIDE DEF a
  <2>4. LET d == build_credit_decision(a, req.applied) IN d.decision = "DECLINE" /\ d.manual /\ d.ratio_max = 0
    BY <2>3, VetoDeclines
  <2>5. out.decision.decision = "DECLINE" /\ out.decision.manual /\ out.decision.ratio_max = 0
    BY <2>2, <2>4 DEF a
  <2>6. Disclosure("veto", None) \in out.report.disclosures
    BY <2>1, <1>3 DEF Published, Report, write_report
  <2>7. ASSUME out.stress # None, NEW s \in DOMAIN out.stress PROVE out.stress[s].grade = "BLACK"
    BY <2>1, <2>7, StressKeepsVeto DEF Stressed
  <2> QED BY <2>5, <2>6, <2>7
<1> QED BY <1>2, <1>3, <1>4

LEMMA GapsHold == PipelineInv => GapsReachReport
<1> SUFFICES ASSUME PipelineInv, Decided
             PROVE  /\ \A m \in _EXPECTED_METRICS \ DOMAIN req.metrics :
                          \E g \in out.report.disclosures : g.code = "missing_metrics" /\ m \in g.about
                    /\ out.conflicts # {} => Disclosure("data_conflicts", None) \in out.report.disclosures
                    /\ \A i \in DOMAIN findings : ~findings[i].found =>
                          /\ Disclosure("retrieval_gap", findings[i].dimension) \in out.report.disclosures
                          /\ i \notin DOMAIN out.trace.evidence.rag
                    /\ Cardinality(DOMAIN out.trace.evidence.rag) = out.trace.found
  BY DEF GapsReachReport
<1> USE DEF PipelineInv
<1>1. {"report", "plan"} \subseteq DOMAIN out
  BY DEF Decided, Grown, ResultFields, PlanFields
<1>2. out.report = Report /\ out.trace = Trace
  BY <1>1 DEF Published
<1>3. /\ out.plan.data_gaps \subseteq out.report.disclosures
      /\ Researched.gap_disclosures \subseteq out.report.disclosures
  BY <1>2 DEF Report, write_report
<1>4. ASSUME NEW m \in _EXPECTED_METRICS \ DOMAIN req.metrics
      PROVE  \E g \in out.report.disclosures : g.code = "missing_metrics" /\ m \in g.about
  <2> DEFINE missing == _EXPECTED_METRICS \ DOMAIN req.metrics
  <2>1. Disclosure("missing_metrics", missing) \in out.plan.data_gaps
    <3>1. missing # {}
      OBVIOUS
    <3>2. out.plan = plan_research(out.risk, req.metrics, req.estimated, out.conflicts, out.classification)
      BY <1>1 DEF Planned
    <3> QED BY <3>1, <3>2 DEF plan_research
  <2> QED BY <2>1, <1>3 DEF Disclosure
<1>5. out.conflicts # {} => Disclosure("data_conflicts", None) \in out.plan.data_gaps
  BY <1>1 DEF Planned, plan_research
<1>6. ASSUME NEW i \in DOMAIN findings, ~findings[i].found
      PROVE  Disclosure("retrieval_gap", findings[i].dimension) \in Researched.gap_disclosures
  BY <1>6 DEF Researched, research
<1>7. DOMAIN out.trace.evidence.rag = Found(findings)
  BY <1>2 DEF Trace, build_trace, EvidencePanel, Researched, research
<1>8. out.trace.found = Cardinality(Found(Researched.findings))
  BY <1>2 DEF Trace, build_trace
<1>9. Researched.findings = findings
  BY DEF Researched, research
<1> QED BY <1>3, <1>4, <1>5, <1>6, <1>7, <1>8, <1>9 DEF Found

(* A section's template shows its counts and what it quotes, and the       *)
(* headline that went through the gate.                                    *)
LEMMA TemplateOfSection ==
    ASSUME PipelineInv, NEW i \in {1, 3}, "headline" \in DOMAIN out, "classification" \in DOMAIN out,
           Text(out.headline.text), HeadlineSourced
    PROVE  Sourced(SectionBase(i, out.risk, out.headline.text, out.classification.label, findings), Allowed,
                   CountedIn(i) \cup ExcerptedIn(i) \cup QuotedIn(i))
<1> DEFINE given == CountedIn(i) \cup ExcerptedIn(i) \cup QuotedIn(i)
           label == out.classification.label
<1>1. CASE i = 1
  <2>1. Range(label) \cup {ScoreFigure(out.risk)} \subseteq given
    BY <1>1 DEF CountedIn, QuotedIn
  <2>2. Text(label) /\ Sourced(label, Allowed, given)
    BY <2>1, TemplateIsSourced DEF PipelineInv, Labelled, Sourced
  <2>3. Text(<<ScoreFigure(out.risk)>>) /\ Sourced(<<ScoreFigure(out.risk)>>, Allowed, given)
    BY <2>1, FigureIsSourced
  <2>4. Sourced(out.headline.text, Allowed, given)
    BY <2>1 DEF HeadlineSourced, Sourced
  <2> HIDE DEF given, label
  <2>5. Text(label \o <<ScoreFigure(out.risk)>>) /\ Sourced(label \o <<ScoreFigure(out.risk)>>, Allowed, given)
    BY <2>2, <2>3, BothAreSourced
  <2>6. Sourced((label \o <<ScoreFigure(out.risk)>>) \o out.headline.text, Allowed, given)
    BY <2>4, <2>5, BothAreSourced
  <2> QED BY <1>1, <2>6 DEF SectionBase, label, given
<1>2. CASE i = 3
  <2>1. {FoundFigure(findings)} \cup Openings(Found(findings)) \subseteq given
    BY <1>2 DEF CountedIn, ExcerptedIn, QuotedIn, Openings
  <2>2. ASSUME NEW n PROVE Text(Opening(findings, n)) /\ Sourced(Opening(findings, n), Allowed, given)
    <3>1. CASE Nth(findings, n) = {}
      BY <3>1, NothingIsSourced DEF Opening
    <3>2. CASE Nth(findings, n) # {}
      <4>1. PICK j \in Nth(findings, n) : Opening(findings, n) = findings[j].opening
        BY <3>2 DEF Opening
      <4>2. j \in Found(findings) /\ j \in DOMAIN findings
        BY <4>1 DEF Nth, Found
      <4>3. Range(findings[j].opening) \subseteq given
        BY <2>1, <4>2 DEF Openings
      <4> QED BY <4>1, <4>2, <4>3, TemplateIsSourced DEF PipelineInv, Searched, Sourced
    <3> QED BY <3>1, <3>2
  <2>3. Text(<<FoundFigure(findings)>>) /\ Sourced(<<FoundFigure(findings)>>, Allowed, given)
    BY <2>1, FigureIsSourced
  <2> HIDE DEF given
  <2> DEFINE first == <<FoundFigure(findings)>> \o Opening(findings, 1)
  <2>4. Text(first) /\ Sourced(first, Allowed, given)
    BY <2>2, <2>3, BothAreSourced
  <2>5. Sourced(first \o Opening(findings, 2), Allowed, given)
    <3> HIDE DEF first
    <3> QED BY <2>2, <2>4, BothAreSourced
  <2>6. Sourced(<<>>, Allowed, given)
    BY NothingIsSourced
  <2> QED BY <1>2, <2>5, <2>6 DEF SectionBase, given
<1> QED BY <1>1, <1>2

LEMMA FiguresHold == PipelineInv => FiguresHaveSource
<1> SUFFICES ASSUME PipelineInv PROVE FiguresHaveSource
  OBVIOUS
<1> USE DEF PipelineInv
<1>1. ASSUME "headline" \in DOMAIN out
      PROVE  Text(out.headline.text) /\ Sourced(out.headline.text, Allowed, {ScoreFigure(out.risk)})
  <2> DEFINE base == HeadlineText(out.risk)
  <2>1. PICK reply \in ModelReplies(req) : out.headline = polish_narrative(reply, base, Allowed)
    BY <1>1 DEF Headed, polish_headline, Allowed
  <2>2. reply \in Seq(Figures) \cup {NoReply}
    BY RepliesAreTexts
  <2>3. Text(base) /\ Sourced(base, Allowed, {ScoreFigure(out.risk)})
    BY FigureIsSourced DEF HeadlineText
  <2> HIDE DEF base
  <2>4. Gated(out.headline.text, base, Allowed)
    BY <2>1, <2>2, PolishMarks
  <2>5. Text(out.headline.text)
    BY <2>1, <2>2, <2>3, GateTexts DEF polish_narrative, Template
  <2> QED BY <2>3, <2>4, <2>5, GatedIsSourced
<1>2. HeadlineSourced
  BY <1>1 DEF HeadlineSourced
<1>3. NarrativesSourced
  <2> SUFFICES ASSUME "narratives" \in DOMAIN out, NEW d \in DOMAIN out.narratives
               PROVE  Sourced(out.narratives[d], Allowed, Range(AttributionText(out.attribution[d])))
    BY DEF NarrativesSourced
  <2>1. PICK reply \in ModelReplies(req) :
           out.narratives[d] = explain_attribution_dim(reply, out.attribution[d], req.metrics, out.risk, Cardinality(out.conflicts))
    BY DEF Explained
  <2>2. reply \in Seq(Figures) \cup {NoReply}
    BY RepliesAreTexts
  <2>3. Gated(out.narratives[d], AttributionText(out.attribution[d]), Allowed)
    BY <2>1, <2>2, ExplanationMarks DEF Allowed
  <2> QED BY <2>3, GatedIsSourced, TemplateIsSourced
<1>4. SectionsSourced
  <2> SUFFICES ASSUME NEW i \in DOMAIN sections
               PROVE  Sourced(sections[i].text, Allowed, CountedIn(i) \cup ExcerptedIn(i) \cup QuotedIn(i))
    BY DEF SectionsSourced
  <2> DEFINE base   == SectionBase(i, out.risk, out.headline.text, out.classification.label, findings)
             narrow == collect_allowed_numbers(<<>>, out.risk, Cardinality(out.conflicts))
             given  == CountedIn(i) \cup ExcerptedIn(i) \cup QuotedIn(i)
  <2>1. PICK reply \in ModelReplies(req) : sections[i] = polish_narrative(reply, base, narrow)
    BY DEF Written, _section
  <2>2. reply \in Seq(Figures) \cup {NoReply}
    BY RepliesAreTexts
  <2>3. {"headline", "classification"} \subseteq DOMAIN out
    BY DEF Grown, PlanFields, ClassifyFields, StressFields, ExplainFields, HeadlineFields, ResultFields
  <2>4. Sourced(base, Allowed, given)
    <3>1. CASE i \in {1, 3}
      BY <1>1, <1>2, <2>3, <3>1, TemplateOfSection
    <3>2. CASE i \notin {1, 3}
      BY <3>2, NothingIsSourced DEF SectionBase
    <3> QED BY <3>1, <3>2
  <2>5. narrow \subseteq Allowed
    BY ReportAllowsNoMore DEF Allowed
  <2> HIDE DEF base, narrow, given
  <2>6. Gated(sections[i].text, base, narrow)
    BY <2>1, <2>2, PolishMarks
  <2>7. Sourced(sections[i].text, Allowed, given)
    BY <2>4, <2>5, <2>6, GatedIsSourced
  <2> QED BY <2>7 DEF given
<1>5. RepliesSourced
  <2> SUFFICES ASSUME NEW reply \in ModelReplies(req), NEW register \in Registers
               PROVE  Sourced(background_reply(reply, register, req.metrics, out.risk, Cardinality(out.conflicts)).answer,
                              Allowed \cup IF register = None THEN {} ELSE FiguresOf(register),
                              Range(BackgroundText(register, out.risk)))
    BY DEF RepliesSourced
  <2>1. reply \in Seq(Figures) \cup {NoReply}
    BY RepliesAreTexts
  <2> QED BY <2>1, BackgroundMarks, GatedIsSourced, TemplateIsSourced DEF Allowed
<1> QED BY <1>2, <1>3, <1>4, <1>5 DEF FiguresHaveSource

(* The hits are of the five dimensions: none is left out of the attribution. *)
LEMMA HitsAreOfDimensions ==
    ASSUME NEW base \in RuleBases, NEW i \in DOMAIN HitsOf(req, base)
    PROVE  HitsOf(req, base)[i].dimension \in DOMAIN DIMENSION_WEIGHTS
<1> DEFINE key == IF req.fixture = None THEN "company" ELSE req.fixture
           H   == {RuleHit(rule) : rule \in Range(base)}
<1>1. base \in Seq(Range(base)) /\ \A rule \in Range(base) : rule.dimension \in DOMAIN DIMENSION_WEIGHTS
  BY RulesAssumption
<1>2. \A hit \in H : hit.dimension \in DOMAIN DIMENSION_WEIGHTS
  BY <1>1 DEF RuleHit
<1>3. match(base, req.metrics, req.events, key) \in Seq(H)
  <2> HIDE DEF key
  <2> QED BY <1>1, MatchHits
<1>4. HitsOf(req, base) \in Seq(H)
  BY <1>3 DEF HitsOf
<1> HIDE DEF H
<1>5. HitsOf(req, base)[i] \in H
  BY <1>4
<1> QED BY <1>2, <1>5

LEMMA AttributionHolds == PipelineInv => AttributionExplainsScore
<1> SUFFICES ASSUME PipelineInv, "attribution" \in DOMAIN out PROVE AttributionExplainsScore
  BY DEF AttributionExplainsScore
<1> USE DEF PipelineInv
<1>1. {"risk", "hits"} \subseteq DOMAIN out
  BY DEF Grown, ScoreFields, EvidenceFields, HeadlineFields, ExplainFields, StressFields, ClassifyFields, PlanFields, ResultFields
<1>2. PICK base \in RuleBases : out.hits = HitsOf(req, base) /\ out.risk = RiskOf(req, base)
  BY <1>1 DEF Judged
<1>3. Carried(out.risk, req.metrics, req.events, out.hits)
  BY <1>2, RiskCarries DEF RiskOf, RuleScore
<1>4. /\ out.risk.dimensions = [d \in DOMAIN DIMENSION_WEIGHTS |-> dim_score(out.hits, d)]
      /\ out.attribution = build_attribution(out.risk.dimensions, out.hits)
  BY <1>3 DEF Carried, Attributed
<1>5. [d \in DOMAIN out.attribution |-> out.attribution[d].contribution]
        = [d \in DOMAIN DIMENSION_WEIGHTS |-> dim_score(out.hits, d) * DIMENSION_WEIGHTS[d]]
  BY <1>4 DEF build_attribution
<1>6. Contributed = RuleTotal(out.hits)
  BY <1>5 DEF RuleTotal, Contributed
<1>7. ASSUME NEW i \in DOMAIN out.hits PROVE Listed(out.hits[i])
  <2> DEFINE d    == out.hits[i].dimension
             mine == {j \in DOMAIN out.hits : out.hits[j].dimension = d}
  <2>1. d \in DOMAIN DIMENSION_WEIGHTS
    BY <1>2, HitsAreOfDimensions
  <2>2. out.attribution[d].hits = {out.hits[j].id : j \in mine}
    BY <1>4, <2>1 DEF build_attribution
  <2>3. d \in DOMAIN out.attribution /\ i \in mine
    BY <1>4, <2>1 DEF build_attribution
  <2> HIDE DEF mine
  <2> QED BY <2>2, <2>3 DEF Listed
<1>8. score_risk(req.metrics, req.events, out.hits).score = Min({10000, RuleTotal(out.hits) + Boost})
  BY ScoreTotal DEF Boost
<1> QED BY <1>6, <1>7, <1>8 DEF AttributionExplainsScore

(* The hits are a list. *)
LEMMA HitsInRange ==
    ASSUME NEW r, NEW base \in RuleBases
    PROVE  HitsOf(r, base) \in Seq(Range(HitsOf(r, base)))
<1> DEFINE key == IF r.fixture = None THEN "company" ELSE r.fixture
           H   == {RuleHit(rule) : rule \in Range(base)}
<1>1. base \in Seq(Range(base))
  BY RulesAssumption
<1>2. HitsOf(r, base) \in Seq(H)
  <2> HIDE DEF key
  <2>1. match(base, r.metrics, r.events, key) \in Seq(H)
    BY <1>1, MatchHits
  <2> QED BY <2>1 DEF HitsOf, key
<1> HIDE DEF H
<1> QED BY <1>2 DEF Range

LEMMA NoBetterAlike ==
    ASSUME NEW a, NEW b, b.risk = a.risk, b.metrics = a.metrics, DishonestInChain(a.graph) # {} => DishonestInChain(b.graph) # {},
           Exposure(a) <= Exposure(b)
    PROVE  NoBetter(b, a)
<1>1. NoKinder(PolicyOf(b.risk), PolicyOf(a.risk))
  BY Policies DEF NoKinder
<1> QED BY <1>1 DEF NoBetter

LEMMA NewsHold == PipelineInv => BadNewsNeverFavours
<1> SUFFICES ASSUME PipelineInv, Decided
             PROVE  /\ Disfavours(WithVeto) /\ Disfavours(WithConflict) /\ Disfavours(WithDishonest)
                    /\ RaisedBy(Append(out.hits, SeriousHit)) = RaisedBy(out.hits) => Disfavours(WithHit)
  BY DEF BadNewsNeverFavours
<1> USE DEF PipelineInv
<1>1. {"risk", "hits", "conflicts", "graph", "attribution", "report"} \subseteq DOMAIN out
  BY DEF Decided, Grown, ScoreFields, EvidenceFields, HeadlineFields, ExplainFields, StressFields, ClassifyFields, PlanFields, ResultFields
<1>2. PICK base \in RuleBases : out.hits = HitsOf(req, base) /\ out.risk = RiskOf(req, base)
  BY <1>1 DEF Judged
<1>3. out.decision = build_credit_decision(Finished, req.applied)
  BY <1>1 DEF Published, Decision
<1>4. ASSUME NEW b, NoBetter(b, Finished) PROVE Disfavours(b)
  BY <1>3, <1>4, DecisionWorsens DEF Disfavours
<1>5. \A a : Exposure(a) \in Int
  BY Haircuts DEF Exposure
<1>6. Disfavours(WithConflict)
  <2> DEFINE b == WithConflict
  <2>1. b.risk = Finished.risk /\ b.metrics = Finished.metrics /\ b.graph = Finished.graph
    BY DEF WithConflict, Finished
  <2> HIDE DEF b
  <2>2. Exposure(Finished) <= Exposure(b)
    BY <2>1, <1>5 DEF Exposure
  <2>3. NoBetter(b, Finished)
    BY <2>1, <2>2, NoBetterAlike
  <2> QED BY <1>4, <2>3 DEF b
<1>7. Disfavours(WithDishonest)
  <2> DEFINE b == WithDishonest
  <2>1. /\ b.risk = Finished.risk /\ b.metrics = Finished.metrics
        /\ b.graph = [nodes |-> Nodes(out.graph) \cup {Node(9, "dishonest", "guarantor")}, edges |-> Edges(out.graph)]
    BY DEF WithDishonest, Finished
  <2>2. DishonestInChain(b.graph) # {}
    <3>1. b.graph # None
      <4>1. out.graph = None \/ Drawn(out.graph)
        BY <1>1, GraphDrawn DEF Attributed
      <4>2. Nodes(out.graph) \subseteq GraphNodes /\ Edges(out.graph) \subseteq Nat \X Nat
        BY <4>1 DEF Nodes, Edges, Drawn, GuaranteeGraphs
      <4>3. Node(9, "dishonest", "guarantor") \in GraphNodes
        BY NodeDrawn DEF RiskLabels, Categories
      <4>4. b.graph \in GuaranteeGraphs
        BY <2>1, <4>2, <4>3 DEF GuaranteeGraphs
      <4> QED BY <4>4, NoneAssumption
    <3>2. Node(9, "dishonest", "guarantor") \in Nodes(b.graph)
      BY <2>1, <3>1 DEF Nodes
    <3>3. Node(9, "dishonest", "guarantor").risk = "dishonest"
      BY DEF Node
    <3> QED BY <3>2, <3>3 DEF DishonestInChain
  <2> HIDE DEF b
  <2>3. Exposure(b) = 30
    <3>1. _analyze_guarantee_contagion(b.graph, b.metrics) = "high"
      BY <2>2, Zenon DEF _analyze_guarantee_contagion
    <3>2. _contagion_haircut("high") = 30
      BY DEF _contagion_haircut
    <3> QED BY <3>1, <3>2 DEF Exposure
  <2>4. Exposure(Finished) <= Exposure(b)
    BY <2>3, Haircuts DEF Exposure
  <2>5. NoBetter(b, Finished)
    BY <2>1, <2>2, <2>4, NoBetterAlike
  <2> QED BY <1>4, <2>5 DEF b
<1>8. Disfavours(WithVeto)
  <2> DEFINE b      == WithVeto
             events == Extend([e \in {"dishonest"} |-> 1], req.events)
  <2>1. b.risk = Rescored(out.hits, events)
    BY <1>1 DEF WithVeto, Finished
  <2>2. Truthy(events, "dishonest")
    BY DEF Extend, Truthy
  <2>3. VetoReason(events) # None
    BY <2>2, VetoIsKnown DEF Vetoed
  <2>4. Rescored(out.hits, events).veto = VetoReason(events)
    <3> HIDE DEF events
    <3>1. Carried(Rescored(out.hits, events), req.metrics, events, out.hits)
      BY RiskCarries, Zenon DEF Rescored
    <3> QED BY <3>1, Zenon DEF Carried
  <2>5. b.risk.veto # None
    BY <2>1, <2>3, <2>4
  <2> HIDE DEF b
  <2>6. LET e == build_credit_decision(b, req.applied) IN e.manual /\ e.ratio_max = 0
    BY <2>5, VetoDeclines
  <2>7. NoBetter(Finished, Finished)
    BY <1>5, NoBetterAlike
  <2>8. out.decision.ratio_max >= 0
    BY <1>3, <2>7, DecisionWorsens
  <2> QED BY <2>6, <2>8 DEF Disfavours, b
<1>9. ASSUME RaisedBy(Append(out.hits, SeriousHit)) = RaisedBy(out.hits) PROVE Disfavours(WithHit)
  <2> DEFINE b    == WithHit
             more == Append(out.hits, SeriousHit)
             H    == Range(out.hits) \cup {SeriousHit}
  <2>1. /\ b.risk = Rescored(more, req.events) /\ Finished.risk = out.risk
        /\ b.metrics = Finished.metrics /\ b.graph = Finished.graph
    BY <1>1 DEF WithHit, Finished
  <2>2. out.risk = Rescored(out.hits, req.events)
    BY <1>2 DEF RiskOf, RuleScore, Rescored
  <2>3. out.hits \in Seq(H)
    BY <1>2, HitsInRange
  <2> HIDE DEF b
  <2>4. NoBetter(b, Finished)
    <3> DEFINE rule(hits) == score_risk(req.metrics, req.events, hits).score
               layers     == Layers(req.metrics, req.events)
    <3>1. rule(out.hits) \in Int /\ rule(more) \in Int /\ rule(out.hits) <= rule(more)
      <4>1. SeriousHit \in H
        OBVIOUS
      <4> HIDE DEF H
      <4> QED BY <2>3, <4>1, HitRaisesScore
    <3>2. DOMAIN layers = {"distress", "behavioral"} /\ \A l \in {"distress", "behavioral"} : layers[l] \in Int \cup {None}
      BY LayersTyped
    <3>3. Used(rule(out.hits), layers) = Used(rule(more), layers)
      BY <1>9 DEF RaisedBy
    <3> HIDE DEF more
    <3>4. /\ out.risk.score = blend_severity(rule(out.hits), layers)
          /\ b.risk.score = blend_severity(rule(more), layers)
          /\ \A risk \in {out.risk, b.risk} :
                /\ risk.veto = VetoReason(req.events)
                /\ risk.grade = IF VetoReason(req.events) # None THEN "BLACK"
                                ELSE IF Enough(req.metrics) THEN Band(risk.score) ELSE "UNRATED"
      BY <2>1, <2>2, RiskGraded DEF Rescored
    <3> HIDE DEF rule, layers
    <3>5. out.risk.score \in Int /\ b.risk.score \in Int /\ out.risk.score <= b.risk.score
      BY <3>1, <3>2, <3>3, <3>4, BlendRaises
    <3>6. NoKinder(PolicyOf(b.risk), PolicyOf(out.risk))
      <4>1. CASE VetoReason(req.events) = None /\ Enough(req.metrics)
        <5>1. out.risk.grade = Band(out.risk.score) /\ b.risk.grade = Band(b.risk.score)
          BY <3>4, <4>1
        <5> QED BY <3>5, <5>1, PoliciesWorsen
      <4>2. CASE VetoReason(req.events) # None
        <5>1. out.risk.grade = "BLACK" /\ b.risk.grade = "BLACK"
          BY <3>4, <4>2, VetoGrade
        <5>2. PolicyOf(b.risk) = PolicyOf(out.risk)
          BY <5>1 DEF PolicyOf
        <5> QED BY <5>2, Policies DEF NoKinder
      <4>3. CASE VetoReason(req.events) = None /\ ~Enough(req.metrics)
        <5>1. out.risk.grade = "UNRATED" /\ b.risk.grade = "UNRATED"
          BY <3>4, <4>3
        <5>2. PolicyOf(b.risk) = PolicyOf(out.risk)
          BY <5>1 DEF PolicyOf
        <5> QED BY <5>2, Policies DEF NoKinder
      <4> QED BY <4>1, <4>2, <4>3
    <3>7. Exposure(Finished) <= Exposure(b)
      BY <2>1, <1>5 DEF Exposure
    <3> QED BY <2>1, <3>4, <3>6, <3>7 DEF NoBetter
  <2> QED BY <1>4, <2>4 DEF b
<1> QED BY <1>6, <1>7, <1>8, <1>9

LEMMA ContagionHolds == PipelineInv => ContagionOnlyRaises
<1> SUFFICES ASSUME PipelineInv, "graph" \in DOMAIN out, out.graph # None PROVE ContagionOnlyRaises
  BY DEF ContagionOnlyRaises
<1> USE DEF PipelineInv
<1> DEFINE graph == out.graph
           c     == compute_contagion(graph)
<1>1. "attribution" \in DOMAIN out
  BY DEF Grown, ScoreFields, EvidenceFields, HeadlineFields, ExplainFields, StressFields, ClassifyFields, PlanFields, ResultFields
<1>2. Drawn(graph)
  BY <1>1, GraphDrawn DEF Attributed
<1>3. \A edge : Survives(graph, edge) <= Survives(graph, edge)
  BY EdgeShares
<1>4. c \in BasisPoints
  <2>1. IsFiniteSet(graph.edges)
    BY <1>2 DEF Drawn
  <2> QED BY <1>3, <2>1, ContagionShrinks
<1>5. \A pd \in BaseProbabilities : contagion_adjusted_pd(pd, c) >= pd
  BY <1>4, AdjustedOnlyRises
<1>6. ASSUME NEW n \in graph.nodes, NEW label \in {"warn", "high"}, Worse(n, label)
      PROVE  compute_contagion(Worsened(graph, n, label)) >= c
  <2> DEFINE worse == Worsened(graph, n, label)
  <2>1. IsFiniteSet(graph.edges) /\ worse.edges = graph.edges
    BY <1>2 DEF Drawn, Worsened, GuaranteeGraphs
  <2>2. \A edge : Survives(worse, edge) <= Survives(graph, edge)
    BY <1>2, <1>6, EdgeWorse
  <2> HIDE DEF worse, graph
  <2>3. compute_contagion(worse) >= compute_contagion(graph)
    BY <2>1, <2>2, ContagionShrinks
  <2> QED BY <2>3 DEF worse
<1> QED BY <1>4, <1>5, <1>6 DEF ContagionOnlyRaises

LEMMA RiskRescored ==
    ASSUME PipelineInv, "risk" \in DOMAIN out
    PROVE  /\ out.risk = Rescored(out.hits, req.events)
           /\ score_risk(req.metrics, req.events, out.hits).score \in BasisPoints
           /\ out.risk.score \in BasisPoints
           /\ out.risk.score >= score_risk(req.metrics, req.events, out.hits).score
<1> USE DEF PipelineInv
<1> DEFINE rule   == score_risk(req.metrics, req.events, out.hits)
           layers == Layers(req.metrics, req.events)
<1>1. PICK base \in RuleBases : out.hits = HitsOf(req, base) /\ out.risk = RiskOf(req, base)
  BY DEF Judged
<1>2. out.risk = Rescored(out.hits, req.events)
  BY <1>1 DEF RiskOf, RuleScore, Rescored
<1>3. rule.score \in BasisPoints
  <2>1. out.hits \in Seq(Range(out.hits))
    BY <1>1, HitsInRange
  <2> QED BY <2>1, RuleScoreInRange
<1>4. DOMAIN layers = {"distress", "behavioral"} /\ \A l \in {"distress", "behavioral"} : layers[l] \in Int \cup {None}
  BY LayersTyped
<1>5. out.risk.score = blend_severity(rule.score, layers)
  BY <1>2, RiskGraded DEF Rescored
<1> HIDE DEF rule, layers
<1>6. out.risk.score \in BasisPoints /\ out.risk.score >= rule.score
  BY <1>3, <1>4, <1>5, BlendOnlyRaises
<1> QED BY <1>2, <1>3, <1>6 DEF rule

LEMMA LayersHold == PipelineInv => UpliftOnlyRaises
<1> SUFFICES ASSUME PipelineInv, "risk" \in DOMAIN out
             PROVE  LET before == score_risk(req.metrics, req.events, out.hits)
                    IN  out.risk.score >= before.score /\ Rank(out.risk.grade) >= Rank(before.grade)
  BY DEF UpliftOnlyRaises, Scored
<1> DEFINE before == score_risk(req.metrics, req.events, out.hits)
           veto   == VetoReason(req.events)
<1>1. /\ out.risk = Rescored(out.hits, req.events)
      /\ before.score \in BasisPoints /\ out.risk.score \in BasisPoints /\ out.risk.score >= before.score
  BY RiskRescored
<1>2. /\ out.risk.grade = IF veto # None THEN "BLACK" ELSE IF Enough(req.metrics) THEN Band(out.risk.score) ELSE "UNRATED"
      /\ before.grade = IF veto # None THEN "BLACK" ELSE IF Enough(req.metrics) THEN Band(before.score) ELSE "UNRATED"
  <2>1. before.grade = IF veto # None THEN "BLACK" ELSE IF Enough(req.metrics) THEN Band(before.score) ELSE "UNRATED"
    BY ScoreGraded
  <2> QED BY <1>1, <2>1, RiskGraded DEF Rescored
<1> HIDE DEF before
<1>3. \A g : Rank(g) \in Int
  <2> SUFFICES ASSUME NEW g PROVE Rank(g) \in Int
    OBVIOUS
  <2>1. CASE g = "GREEN"
    BY <2>1 DEF Rank
  <2>2. CASE g = "YELLOW"
    BY <2>2 DEF Rank
  <2>3. CASE g = "ORANGE"
    BY <2>3 DEF Rank
  <2>4. CASE g = "RED"
    BY <2>4 DEF Rank
  <2>5. CASE g \notin {"GREEN", "YELLOW", "ORANGE", "RED"}
    BY <2>5 DEF Rank
  <2> QED BY <2>1, <2>2, <2>3, <2>4, <2>5
<1>4. CASE veto = None /\ Enough(req.metrics)
  <2>1. out.risk.grade = Band(out.risk.score) /\ before.grade = Band(before.score)
    BY <1>2, <1>4
  <2>2. before.score \in Int /\ out.risk.score \in Int /\ before.score <= out.risk.score
    BY <1>1, Within
  <2>3. Rank(Band(before.score)) <= Rank(Band(out.risk.score))
    BY <2>2, RanksGrow
  <2> QED BY <1>1, <1>3, <2>1, <2>3 DEF before
<1>5. CASE veto = None /\ ~Enough(req.metrics)
  <2>1. out.risk.grade = before.grade
    BY <1>2, <1>5
  <2> QED BY <1>1, <1>3, <2>1 DEF before
<1>6. CASE veto # None
  <2>1. out.risk.grade = before.grade
    BY <1>2, <1>6, VetoGrade
  <2> QED BY <1>1, <1>3, <2>1 DEF before
<1> QED BY <1>4, <1>5, <1>6

(* What a decision is made of. *)
LEMMA DecisionOf ==
    ASSUME PipelineInv, Decided
    PROVE  LET p == PolicyOf(out.risk)
               v == out.risk.veto # None
               e == CoreEnough(req.metrics)
               c == DishonestInChain(out.graph) # {}
           IN  /\ "risk" \in DOMAIN out
               /\ out.decision.decision = Decide(Rated(p, v, e), c, out.conflicts)
               /\ out.decision.manual = ManualRequired(p, v, e, c)
               /\ \E haircut : out.decision.ratio_max = Ratio(out.decision.decision, p.ratio[2], haircut)
               /\ out.decision.suggested = Suggested(req.applied, out.decision.ratio_max)
<1> USE DEF PipelineInv
<1>1. {"risk", "report"} \subseteq DOMAIN out
  BY DEF Decided, Grown, ScoreFields, EvidenceFields, HeadlineFields, ExplainFields, StressFields, ClassifyFields, PlanFields, ResultFields
<1>2. out.decision = build_credit_decision(Finished, req.applied)
  BY <1>1 DEF Published, Decision
<1>3. /\ Finished.risk = out.risk /\ Finished.metrics = req.metrics
      /\ Finished.graph = out.graph /\ Finished.conflicts = out.conflicts
  BY DEF Finished
<1> DEFINE a == Finished
<1> HIDE DEF a
<1>4. LET d == build_credit_decision(a, req.applied)
          v == a.risk.veto # None
          e == CoreEnough(a.metrics)
          c == DishonestInChain(a.graph) # {}
      IN  /\ d.decision = Decide(Rated(PolicyOf(a.risk), v, e), c, a.conflicts)
          /\ d.manual = ManualRequired(PolicyOf(a.risk), v, e, c)
          /\ \E haircut : d.ratio_max = Ratio(d.decision, PolicyOf(a.risk).ratio[2], haircut)
          /\ d.suggested = Suggested(req.applied, d.ratio_max)
  BY Zenon DEF build_credit_decision
<1> QED BY <1>1, <1>2, <1>3, <1>4 DEF a

LEMMA UnknownHolds == PipelineInv => UnknownIsNotSafe
<1> SUFFICES ASSUME PipelineInv, Decided, ~Vetoed(req.events), ~Enough(req.metrics) \/ ~CoreEnough(req.metrics)
             PROVE  /\ ~Enough(req.metrics) => out.risk.grade = "UNRATED"
                    /\ out.decision.decision = "INSUFFICIENT_DATA"
                    /\ out.decision.ratio_max = 0 /\ out.decision.suggested \in {None, 0} /\ out.decision.manual
  BY DEF UnknownIsNotSafe
<1>1. out.risk = Rescored(out.hits, req.events)
  BY DecisionOf, RiskRescored
<1>2. VetoReason(req.events) = None
  BY VetoIsKnown
<1>3. out.risk.veto = None /\ (~Enough(req.metrics) => out.risk.grade = "UNRATED")
  BY <1>1, <1>2, RiskGraded DEF Rescored
<1>4. ~Enough(req.metrics) => PolicyOf(out.risk).decision = "INSUFFICIENT_DATA" /\ PolicyOf(out.risk).manual
  BY <1>3 DEF PolicyOf, GRADE_POLICY
<1>5. Rated(PolicyOf(out.risk), FALSE, CoreEnough(req.metrics)) = "INSUFFICIENT_DATA"
  BY <1>4 DEF Rated
<1>6. out.decision.decision = "INSUFFICIENT_DATA"
  BY <1>3, <1>5, DecisionOf DEF Decide
<1>7. out.decision.manual
  BY <1>3, <1>4, DecisionOf DEF ManualRequired
<1>8. out.decision.ratio_max = 0
  BY <1>6, DecisionOf DEF Ratio
<1>9. out.decision.suggested \in {None, 0}
  <2>1. req.applied \in Int \cup {None}
    BY AppliedAssumption DEF PipelineInv
  <2>2. out.decision.suggested = IF req.applied \in {None, 0} THEN None ELSE RoundDiv(req.applied * 0, 10000)
    BY <1>8, DecisionOf DEF Suggested
  <2>3. req.applied \in Int => RoundDiv(req.applied * 0, 10000) = 0
    BY DEF RoundDiv
  <2> QED BY <2>1, <2>2, <2>3
<1> QED BY <1>3, <1>6, <1>7, <1>8, <1>9

LEMMA ApprovalHolds == PipelineInv => ApprovalIsClean
<1> SUFFICES ASSUME PipelineInv, Decided, out.decision.decision = "APPROVE" PROVE ApprovalIsClean
  BY DEF ApprovalIsClean
<1> DEFINE policy == PolicyOf(out.risk)
           rated  == Rated(policy, out.risk.veto # None, CoreEnough(req.metrics))
<1>1. rated = "APPROVE" /\ DishonestInChain(out.graph) = {} /\ out.conflicts = {}
  BY DecisionOf DEF Decide
<1>2. out.risk.veto = None /\ CoreEnough(req.metrics) /\ policy.decision = "APPROVE"
  BY <1>1 DEF Rated
<1>3. out.risk.grade = "GREEN"
  <2>1. DOMAIN GRADE_POLICY = {"GREEN", "YELLOW", "ORANGE", "RED", "BLACK", "UNRATED"}
    BY DEF GRADE_POLICY
  <2>2. \A g \in {"YELLOW", "ORANGE", "RED", "BLACK", "UNRATED"} : GRADE_POLICY[g].decision # "APPROVE"
    BY DEF GRADE_POLICY
  <2> QED BY <1>2, <2>1, <2>2 DEF PolicyOf
<1>4. /\ out.risk = Rescored(out.hits, req.events)
      /\ out.risk.score \in BasisPoints
  BY DecisionOf, RiskRescored
<1>5. /\ out.risk.veto = VetoReason(req.events)
      /\ out.risk.grade = IF VetoReason(req.events) # None THEN "BLACK"
                          ELSE IF Enough(req.metrics) THEN Band(out.risk.score) ELSE "UNRATED"
  BY <1>4, RiskGraded DEF Rescored
<1>6. VetoReason(req.events) = None /\ ~Vetoed(req.events)
  BY <1>2, <1>5, VetoIsKnown
<1>7. out.risk.score < 2000
  <2>1. Band(out.risk.score) = "GREEN"
    BY <1>3, <1>5, <1>6
  <2>2. out.risk.score \in Int
    BY <1>4, Within
  <2> QED BY <2>1, <2>2, SMT DEF Band
<1>8. out.risk.calibrated.grade = "GREEN"
  <2>1. out.risk.calibrated = calibrate(out.risk.score, out.risk.veto)
    <3> DEFINE rule == score_risk(req.metrics, req.events, out.hits)
    <3> HIDE DEF rule
    <3>1. /\ enrich_risk(rule, req.metrics, req.events, out.hits).calibrated =
                calibrate(blend_severity(rule.score, Layers(req.metrics, req.events)), rule.veto)
          /\ enrich_risk(rule, req.metrics, req.events, out.hits).score =
                blend_severity(rule.score, Layers(req.metrics, req.events))
          /\ enrich_risk(rule, req.metrics, req.events, out.hits).veto = rule.veto
      BY Zenon DEF enrich_risk
    <3> QED BY <1>4, <3>1, Zenon DEF Rescored, rule
  <2>2. out.risk.calibrated.grade = _pd_to_grade(out.risk.score)
    BY <1>2, <2>1 DEF calibrate
  <2>3. out.risk.score < logistic_pd.p300
    <3>1. logistic_pd.p300 = 3427
      BY SMT DEF logistic_pd
    <3> QED BY <1>4, <1>7, <3>1, Within, SMT
  <2>5. _pd_to_grade(out.risk.score) = "GREEN"
    BY <2>3 DEF _pd_to_grade
  <2> QED BY <2>2, <2>5
<1> QED BY <1>1, <1>2, <1>6, <1>7, <1>8 DEF ApprovalIsClean

-----------------------------------------------------------------------------
(* The results.                                                            *)

(* Where every part of the result comes from, at every step, whatever the  *)
(* user does to the rules meanwhile and whatever the model answers.        *)
THEOREM PipelineInvariant == Spec => []PipelineInv
<1>1. Init => PipelineInv
  BY InitialResult
<1>2. PipelineInv /\ [Next]_vars => PipelineInv'
  BY ResultGrows
<1> QED BY <1>1, <1>2, PTL DEF Spec

(* A veto is final: neither the layers of enrich_risk nor a rule changed   *)
(* during the analysis nor a scenario of run_stress lifts it, the decision *)
(* declines and the report says so.                                        *)
THEOREM VetoesAreFinal == Spec => []VetoIsFinal
BY PipelineInvariant, VetoHolds, PTL

(* What plan_research and research found missing stands in write_report's  *)
(* disclosures, and the trace counts no finding that was not there.        *)
THEOREM GapsAreReported == Spec => []GapsReachReport
BY PipelineInvariant, GapsHold, PTL

(* Every unmarked figure of a text is one gate_or_fallback permits, a      *)
(* count of the program, or quoted by write_report: in section 3 from an   *)
(* answer of a search that found something, in section 1 from the model's  *)
(* name for the industry.  Nothing else the model writes reaches a reader  *)
(* unmarked, and the quotes do.                                            *)
THEOREM FiguresAreSourced == Spec => []FiguresHaveSource
BY PipelineInvariant, FiguresHold, PTL

(* build_attribution adds up to what score_risk counted, hit by hit.       *)
THEOREM AttributionsExplain == Spec => []AttributionExplainsScore
BY PipelineInvariant, AttributionHolds, PTL

(* No piece of bad news raises the limit of build_credit_decision or       *)
(* spares the human: not a veto, a conflict or a dishonest guarantor, and  *)
(* not one more hit among the same layers of blend_severity.               *)
THEOREM BadNewsIsBad == Spec => []BadNewsNeverFavours
BY PipelineInvariant, NewsHold, PTL

(* compute_contagion of any graph that build_guarantee_graph draws is a    *)
(* probability, worsens with each guarantor and is never set off.          *)
THEOREM ContagionRises == Spec => []ContagionOnlyRaises
BY PipelineInvariant, ContagionHolds, PTL

(* enrich_risk's layers never lower the score or better the grade.         *)
THEOREM LayersOnlyRaise == Spec => []UpliftOnlyRaises
BY PipelineInvariant, LayersHold, PTL

(* A file that is not half complete is neither rated nor lent to without a *)
(* human, whatever else it holds.                                          *)
THEOREM UnknownIsUnrated == Spec => []UnknownIsNotSafe
BY PipelineInvariant, UnknownHolds, PTL

(* Nothing is approved outright unless the score, its calibration, the     *)
(* sources, the chain and the register are all clean.                      *)
THEOREM ApprovalsAreClean == Spec => []ApprovalIsClean
BY PipelineInvariant, ApprovalHolds, PTL
=============================================================================
