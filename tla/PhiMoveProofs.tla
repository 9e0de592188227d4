---------------------------- MODULE PhiMoveProofs ----------------------------
(***************************************************************************)
(* The order of the phi moves and the references they use, for any number  *)
(* of phis, values, parts and registers.                                   *)
(*                                                                         *)
(* The nodes left form, at any time, a graph in which every node has at    *)
(* most one edge, to the phi it reads.  ref_count is the in-degree of a    *)
(* node, except for the phi that is kept in the temporary.  When no node   *)
(* is ready every node left has a reader left, so there are as many edges  *)
(* as nodes and each node has exactly one reader: what is left are cycles, *)
(* and no temporary is in use.                                             *)
(***************************************************************************)
EXTENDS PhiMove, FiniteSetTheorems, FunctionTheorems, TLAPS

\* The nodes that are not handled yet, and those that still have to read v.
InReady == {ready[k] : k \in 1 .. Len(ready)}
Left == IF pc = "collect" THEN Nodes ELSE waiting \cup InReady
Readers_left(v) == {m \in Left : inc[m] = v}

\* The phi whose value is in the temporary.
Kept(v) == tmp = v /\ pc # "save"

Pcs == {"collect", "next", "save", "restore", "move", "free_tmp", "done"}

\* Types of the lists, and nodes are ready once.
ListInv ==
    /\ inc \in [Nodes -> Vals \cup Consts]
    /\ pc \in Pcs /\ tmp \in Nodes \cup {None}
    /\ ready \in Seq(Nodes) /\ ref_count \in [Nodes -> Nat] /\ handled \in Nat
    /\ \A j, k \in 1 .. Len(ready) : ready[j] = ready[k] => j = k
    /\ InReady \cap waiting = {}
    /\ waiting = {n \in Nodes : ref_count[n] > 0}
    /\ handled + Cardinality(Left) = N

\* The only node left that reads phi n, and another one.
OneReader(n) == \E m \in Left \ {n} : Readers_left(n) = {m}

\* ref_count is the number of nodes left that wait to read the phi; the phi in
\* the temporary has one reader left, which does not wait.
CountInv ==
    /\ pc = "collect" => tmp = None /\ handled = 0
    /\ pc # "collect" => \A n \in Nodes :
          IF Kept(n) THEN ref_count[n] = 0 /\ OneReader(n)
          ELSE ref_count[n] = Cardinality(Readers_left(n) \ {n})

\* What each stage of the moves knows of the node it is about.
StageInv ==
    /\ pc = "save" => tmp \in Nodes /\ ref_count[tmp] = 1 /\ OneReader(tmp)
    /\ pc \in {"move", "restore"} => ready # <<>> /\ inc[Head(ready)] # Head(ready)
    /\ pc = "move" => inc[Head(ready)] # tmp
    /\ pc = "restore" => inc[Head(ready)] = tmp

\* Every value has a reference for each of its readers left, one for itself if
\* it is a phi that is left, and those for later.
RefInv ==
    /\ refs \in [Vals -> Int]
    /\ DOMAIN was = {"reg", "dirty", "slot", "later", "home"} /\ was.later \in [Vals -> Nat]
    /\ \A v \in Vals : refs[v] = was.later[v] + Cardinality(Readers_left(v))
                                 + (IF v \in Left THEN 1 ELSE 0) - (IF Kept(v) THEN 1 ELSE 0)

PhiInv == ListInv /\ CountInv /\ StageInv /\ RefInv

----------------------------------------------------------------------------
(***************************************************************************)
(* Finite sets of nodes.                                                   *)
(***************************************************************************)
\* There are finitely many nodes.
LEMMA NodesFinite ==
    /\ IsFiniteSet(Nodes) /\ Cardinality(Nodes) = N /\ Nodes \subseteq Nat /\ N \in Nat
    /\ \A S \in SUBSET Nodes : IsFiniteSet(S) /\ Cardinality(S) \in Nat
<1>1. N \in Nat \ {0}
  BY PhiAssumption
<1>2. IsFiniteSet(Nodes) /\ Cardinality(Nodes) = N
  BY <1>1, FS_Interval DEF Nodes
<1>3. ASSUME NEW S \in SUBSET Nodes PROVE IsFiniteSet(S) /\ Cardinality(S) \in Nat
  BY <1>2, FS_Subset, FS_CardinalityType
<1> QED BY <1>1, <1>2, <1>3 DEF Nodes

\* Counting the smaller elements numbers a finite set from 0 on.
LEMMA Ranked ==
    ASSUME NEW S \in SUBSET Nat, IsFiniteSet(S)
    PROVE  /\ \A x \in S : Rank(S, x) \in 0 .. Cardinality(S) - 1
           /\ \A x, y \in S : Rank(S, x) = Rank(S, y) => x = y
           /\ \A k \in 0 .. Cardinality(S) - 1 : \E x \in S : Rank(S, x) = k
<1> DEFINE c == Cardinality(S)
           Below(x) == {y \in S : y < x}
           f == [x \in S |-> Rank(S, x)]
<1>0. c \in Nat /\ S \subseteq Nat
  BY FS_CardinalityType
<1>1. ASSUME NEW x \in S PROVE Rank(S, x) \in 0 .. c - 1
  <2>1. Below(x) \in SUBSET (S \ {x})
    BY <1>0
  <2>2. IsFiniteSet(S \ {x}) /\ Cardinality(S \ {x}) = c - 1
    BY <1>0, FS_RemoveElement
  <2>3. Cardinality(Below(x)) <= c - 1 /\ Cardinality(Below(x)) \in Nat
    BY <2>1, <2>2, FS_Subset, FS_CardinalityType
  <2> QED BY <1>0, <2>3 DEF Rank
<1>2. ASSUME NEW x \in S, NEW y \in S, x < y PROVE Rank(S, x) < Rank(S, y)
  <2>0. x \in Nat /\ y \in Nat
    BY <1>0
  <2>1. Below(x) \in SUBSET (Below(y) \ {x}) /\ x \in Below(y)
    <3>1. ASSUME NEW z \in S, z < x PROVE z < y /\ z # x
      BY <1>0, <1>2, <2>0, <3>1
    <3> QED BY <1>2, <3>1
  <2>2. IsFiniteSet(Below(y)) /\ Cardinality(Below(y)) \in Nat
    BY FS_Subset, FS_CardinalityType
  <2>3. IsFiniteSet(Below(y) \ {x}) /\ Cardinality(Below(y) \ {x}) = Cardinality(Below(y)) - 1
    BY <2>1, <2>2, FS_RemoveElement
  <2>4. Cardinality(Below(x)) <= Cardinality(Below(y)) - 1 /\ Cardinality(Below(x)) \in Nat
    BY <2>1, <2>3, FS_Subset, FS_CardinalityType
  <2> QED BY <2>2, <2>4 DEF Rank
<1>3. \A x, y \in S : Rank(S, x) = Rank(S, y) => x = y
  <2> SUFFICES ASSUME NEW x \in S, NEW y \in S, x # y PROVE Rank(S, x) # Rank(S, y)
    OBVIOUS
  <2>1. x < y \/ y < x
    BY <1>0
  <2> QED BY <1>1, <1>2, <2>1, <1>0
<1>4. f \in [S -> 0 .. c - 1] /\ \A x, y \in S : f[x] = f[y] => x = y
  BY <1>1, <1>3
<1>5. f \in Injection(S, 0 .. c - 1)
  <2> HIDE DEF f, c
  <2> QED BY <1>4, Fun_IsInj
<1>6. IsFiniteSet(0 .. c - 1) /\ Cardinality(0 .. c - 1) = c
  <2> HIDE DEF c
  <2> QED BY <1>0, FS_Interval
<1>7. f \in Surjection(S, 0 .. c - 1)
  BY <1>5, <1>6, FS_Injection
<1>8. \A k \in 0 .. c - 1 : \E x \in S : f[x] = k
  <2> HIDE DEF f, c
  <2> QED BY <1>7 DEF Surjection
<1> QED BY <1>1, <1>3, <1>8

\* A finite set of numbers that is not empty has a least element.
LEMMA LowestIn ==
    ASSUME NEW S \in SUBSET Nat, IsFiniteSet(S), S # {}
    PROVE  Lowest(S) \in S
<1>1. Cardinality(S) \in Nat /\ Cardinality(S) # 0
  BY FS_CardinalityType, FS_EmptySet
<1>2. PICK x \in S : Rank(S, x) = 0
  BY <1>1, Ranked
<1>3. {y \in S : y < x} = {}
  <2>1. IsFiniteSet({y \in S : y < x})
    BY FS_Subset
  <2> QED BY <1>2, <2>1, FS_EmptySet DEF Rank
<1>4. \A y \in S : x <= y
  BY <1>3
<1> QED BY <1>4 DEF Lowest

\* InOrder lists each element of the set once.
LEMMA InOrderLists ==
    ASSUME NEW S \in SUBSET Nodes
    PROVE  /\ InOrder(S) \in Seq(Nodes) /\ Len(InOrder(S)) = Cardinality(S)
           /\ \A j, k \in 1 .. Cardinality(S) : InOrder(S)[j] = InOrder(S)[k] => j = k
           /\ {InOrder(S)[k] : k \in 1 .. Cardinality(S)} = S
<1> DEFINE c == Cardinality(S)
           s == InOrder(S)
<1>0. c \in Nat /\ S \in SUBSET Nat /\ IsFiniteSet(S)
  BY NodesFinite
<1>1. \A k \in 1 .. c : s[k] \in S /\ Rank(S, s[k]) = k - 1
  <2> SUFFICES ASSUME NEW k \in 1 .. c PROVE s[k] \in S /\ Rank(S, s[k]) = k - 1
    OBVIOUS
  <2>1. k - 1 \in 0 .. c - 1
    BY <1>0
  <2>2. \E x \in S : Rank(S, x) = k - 1
    BY <2>1, <1>0, Ranked
  <2>3. s[k] = CHOOSE x \in S : Rank(S, x) = k - 1
    BY DEF InOrder
  <2> QED BY <2>2, <2>3
<1>2. s \in Seq(Nodes) /\ Len(s) = c
  <2>1. s \in [1 .. c -> Nodes]
    BY <1>1 DEF InOrder
  <2> HIDE DEF s, c
  <2> QED BY <1>0, <2>1
<1>3. \A j, k \in 1 .. c : s[j] = s[k] => j = k
  BY <1>0, <1>1
<1>4. \A x \in S : \E k \in 1 .. c : s[k] = x
  <2> SUFFICES ASSUME NEW x \in S PROVE \E k \in 1 .. c : s[k] = x
    OBVIOUS
  <2>1. Rank(S, x) \in 0 .. c - 1
    BY <1>0, Ranked
  <2>2. Rank(S, x) + 1 \in 1 .. c /\ Rank(S, x) + 1 - 1 = Rank(S, x)
    BY <1>0, <2>1
  <2>3. s[Rank(S, x) + 1] \in S /\ Rank(S, s[Rank(S, x) + 1]) = Rank(S, x)
    <3> HIDE DEF s, c
    <3> DEFINE k == Rank(S, x) + 1
    <3>1. k \in 1 .. c /\ k - 1 = Rank(S, x)
      BY <1>0, <2>1, <2>2
    <3> HIDE DEF k
    <3>2. s[k] \in S /\ Rank(S, s[k]) = k - 1
      BY <1>1, <3>1
    <3> QED BY <3>1, <3>2 DEF k
  <2>4. s[Rank(S, x) + 1] = x
    <3> HIDE DEF s
    <3>1. \A y, z \in S : Rank(S, y) = Rank(S, z) => y = z
      BY <1>0, Ranked
    <3> QED BY <2>3, <3>1
  <2> QED BY <2>2, <2>4
<1> QED BY <1>1, <1>2, <1>3, <1>4

\* A set of nodes that is not empty has a least element, and up to WordBits
\* nodes first_set finds it.
LEMMA FirstSet ==
    ASSUME N <= WordBits, NEW S \in SUBSET Nodes, S # {}
    PROVE  first_set(S) \in S
<1>0. /\ WordBits \in Nat \ {0} /\ N \in Nat /\ S \subseteq Nat
      /\ IsFiniteSet(S) /\ Cardinality(S) \in Nat /\ Cardinality(S) # 0
  BY PhiAssumption, NodesFinite, FS_EmptySet
<1>1. \A n \in S : n \div WordBits = 0 /\ n % WordBits = n
  <2> SUFFICES ASSUME NEW n \in S PROVE n \div WordBits = 0 /\ n % WordBits = n
    OBVIOUS
  <2>1. n \in Nat /\ n < WordBits
    BY <1>0 DEF Nodes
  <2> QED BY <1>0, <2>1
<1>2. {n \div WordBits : n \in S} = {0}
  BY <1>1
<1>3. Lowest({0}) = 0
  BY DEF Lowest
<1>4. {n % WordBits : n \in {m \in S : m \div WordBits = 0}} = S
  BY <1>1
<1>5. first_set(S) = 0 + Lowest(S)
  BY <1>2, <1>3, <1>4 DEF first_set
<1>7. Lowest(S) \in S
  BY <1>0, LowestIn
<1>8. Lowest(S) \in Nat
  BY <1>0, <1>7
<1>9. first_set(S) = Lowest(S)
  BY <1>5, <1>8
<1> QED BY <1>7, <1>9

\* If every node of W is read within W, every node of W reads one of W, and
\* none is read twice.
LEMMA OnlyCycles ==
    ASSUME NEW W \in SUBSET Nodes, NEW f, DOMAIN f = Nodes, \A w \in W : \E m \in W : f[m] = w
    PROVE  /\ \A m \in W : f[m] \in W
           /\ \A m, k \in W : f[m] = f[k] => m = k
<1> DEFINE D == {m \in W : f[m] \in W}
           g == [m \in D |-> f[m]]
<1>0. IsFiniteSet(W) /\ Cardinality(W) \in Nat /\ IsFiniteSet(D) /\ Cardinality(D) \in Nat
  BY NodesFinite
<1>1. g \in [D -> W] /\ \A w \in W : \E m \in D : g[m] = w
  OBVIOUS
<1>2. g \in Surjection(D, W)
  <2> HIDE DEF g, D
  <2> QED BY <1>1, Fun_IsSurj
<1>3. Cardinality(W) <= Cardinality(D) /\ (Cardinality(W) = Cardinality(D) <=> g \in Injection(D, W))
  BY <1>0, <1>2, FS_Surjection
<1>4. Cardinality(D) <= Cardinality(W) /\ (Cardinality(W) = Cardinality(D) => W = D)
  BY <1>0, FS_Subset
<1>5. W = D /\ g \in Injection(D, W)
  BY <1>0, <1>3, <1>4
<1>6. \A a, b \in D : g[a] = g[b] => a = b
  <2> HIDE DEF g, D
  <2> QED BY <1>5, Fun_InjectionProperties
<1>7. \A m \in W : m \in D
  BY <1>5
<1>8. \A m \in W : f[m] \in W /\ g[m] = f[m]
  BY <1>7
<1> QED
  <2> HIDE DEF g, D
  <2> QED BY <1>6, <1>7, <1>8

----------------------------------------------------------------------------
(***************************************************************************)
(* The lists.                                                              *)
(***************************************************************************)
\* The next ready node is left and does not wait, and the rest of the ready
\* nodes are the others.
LEMMA NextReady ==
    ASSUME ListInv, ready # <<>>
    PROVE  /\ Head(ready) \in InReady /\ Head(ready) \in Nodes /\ Head(ready) \notin waiting
           /\ Tail(ready) \in Seq(Nodes) /\ Len(Tail(ready)) = Len(ready) - 1 /\ Len(ready) \in Nat
           /\ \A k \in 1 .. Len(ready) - 1 : Tail(ready)[k] = ready[k + 1]
           /\ {Tail(ready)[k] : k \in 1 .. Len(ready) - 1} = InReady \ {Head(ready)}
<1>1. ready \in Seq(Nodes) /\ Len(ready) \in Nat /\ Len(ready) > 0 /\ Head(ready) = ready[1]
  BY DEF ListInv
<1>2. ready[1] \in InReady /\ ready[1] \in Nodes
  BY <1>1 DEF InReady
<1>3. /\ Tail(ready) \in Seq(Nodes) /\ Len(Tail(ready)) = Len(ready) - 1
      /\ \A k \in 1 .. Len(ready) - 1 : Tail(ready)[k] = ready[k + 1]
  BY <1>1
<1>4. \A x \in InReady \ {ready[1]} : \E k \in 1 .. Len(ready) - 1 : ready[k + 1] = x
  <2> SUFFICES ASSUME NEW k \in 1 .. Len(ready), ready[k] # ready[1]
               PROVE  \E j \in 1 .. Len(ready) - 1 : ready[j + 1] = ready[k]
    BY DEF InReady
  <2>1. k - 1 \in 1 .. Len(ready) - 1 /\ (k - 1) + 1 = k
    BY <1>1
  <2> QED BY <2>1
<1>5. \A k \in 1 .. Len(ready) - 1 : ready[k + 1] \in InReady \ {ready[1]}
  <2> SUFFICES ASSUME NEW k \in 1 .. Len(ready) - 1 PROVE ready[k + 1] \in InReady \ {ready[1]}
    OBVIOUS
  <2>1. k + 1 \in 1 .. Len(ready) /\ k + 1 # 1 /\ 1 \in 1 .. Len(ready)
    BY <1>1
  <2> QED BY <2>1 DEF InReady, ListInv
<1> QED BY <1>1, <1>2, <1>3, <1>4, <1>5 DEF ListInv

\* A node is left as long as it waits or is ready.
LEMMA LeftNodes ==
    ASSUME ListInv
    PROVE  /\ Left \in SUBSET Nodes /\ waiting \in SUBSET Nodes /\ InReady \in SUBSET Nodes
           /\ IsFiniteSet(Left) /\ Cardinality(Left) \in Nat
           /\ \A v : /\ Readers_left(v) \in SUBSET Nodes
                     /\ IsFiniteSet(Readers_left(v)) /\ Cardinality(Readers_left(v)) \in Nat
<1>1. waiting \in SUBSET Nodes /\ InReady \in SUBSET Nodes
  BY DEF ListInv, InReady
<1>2. Left \in SUBSET Nodes
  BY <1>1 DEF Left
<1>3. \A v : Readers_left(v) \in SUBSET Nodes
  BY <1>2 DEF Readers_left
<1> QED BY <1>1, <1>2, <1>3, NodesFinite

\* When the first ready node is handled, and a node that does not wait any
\* more may become the last, one node less is left.
LEMMA NodeHandled ==
    ASSUME ListInv, pc # "collect", ready # <<>>, NEW X \in SUBSET waiting,
           \/ X = {} /\ ready' = Tail(ready)
           \/ \E m : X = {m} /\ ready' = Append(Tail(ready), m),
           waiting' = waiting \ X, handled' = handled + 1,
           ref_count' \in [Nodes -> Nat], waiting' = {n \in Nodes : ref_count'[n] > 0},
           inc' = inc, pc' \in Pcs \ {"collect"}, tmp' \in Nodes \cup {None}
    PROVE  /\ ListInv'
           /\ Left' = Left \ {Head(ready)} /\ Head(ready) \in Left
           /\ \A v : Readers_left(v)' = Readers_left(v) \ {Head(ready)}
<1> DEFINE n == Head(ready)
           L == Len(ready) - 1
<1>1. /\ n \in InReady /\ n \in Nodes /\ n \notin waiting
      /\ Tail(ready) \in Seq(Nodes) /\ Len(Tail(ready)) = L /\ L \in Nat
      /\ {Tail(ready)[k] : k \in 1 .. L} = InReady \ {n}
  <2>1. L \in Nat
    BY DEF ListInv
  <2> QED BY <2>1, NextReady
<1>2. \A j, k \in 1 .. L : Tail(ready)[j] = Tail(ready)[k] => j = k
  <2> SUFFICES ASSUME NEW j \in 1 .. L, NEW k \in 1 .. L, Tail(ready)[j] = Tail(ready)[k] PROVE j = k
    OBVIOUS
  <2>1. /\ j + 1 \in 1 .. Len(ready) /\ k + 1 \in 1 .. Len(ready)
        /\ ready[j + 1] = Tail(ready)[j] /\ ready[k + 1] = Tail(ready)[k]
    BY <1>1, NextReady
  <2>2. j + 1 = k + 1
    BY <2>1 DEF ListInv
  <2> QED BY <2>2
<1>3. /\ ready' \in Seq(Nodes) /\ InReady' = (InReady \ {n}) \cup X
      /\ \A j, k \in 1 .. Len(ready') : ready'[j] = ready'[k] => j = k
  <2> DEFINE t == Tail(ready)
  <2>0. /\ t \in Seq(Nodes) /\ Len(t) = L /\ L \in Nat /\ {t[k] : k \in 1 .. L} = InReady \ {n}
        /\ \A j, k \in 1 .. L : t[j] = t[k] => j = k
    BY <1>1, <1>2
  <2>1. (X = {} /\ ready' = t) \/ \E m : X = {m} /\ ready' = Append(t, m)
    OBVIOUS
  <2> HIDE DEF t, L, n
  <2>2. CASE X = {} /\ ready' = t
    <3>1. Len(ready') = L /\ \A k \in 1 .. L : ready'[k] = t[k]
      BY <2>0, <2>2
    <3>2. InReady' = {ready'[k] : k \in 1 .. L}
      BY <3>1 DEF InReady
    <3>3. InReady' = InReady \ {n}
      BY <2>0, <3>1, <3>2
    <3> QED BY <2>0, <2>2, <3>1, <3>3
  <2>3. ASSUME NEW m, X = {m}, ready' = Append(t, m)
        PROVE  /\ ready' \in Seq(Nodes) /\ InReady' = (InReady \ {n}) \cup X
               /\ \A j, k \in 1 .. Len(ready') : ready'[j] = ready'[k] => j = k
    <3>1. m \in Nodes /\ m \notin InReady
      BY <2>3 DEF ListInv
    <3>2. /\ ready' \in Seq(Nodes) /\ Len(ready') = L + 1 /\ ready'[L + 1] = m
          /\ \A k \in 1 .. L : ready'[k] = t[k]
      BY <2>0, <2>3, <3>1
    <3>3. \A k \in 1 .. L : t[k] \in InReady \ {n}
      BY <2>0
    <3>4. \A k \in 1 .. L + 1 : k \in 1 .. L \/ k = L + 1
      BY <2>0
    <3>5. 1 .. L \subseteq 1 .. L + 1 /\ L + 1 \in 1 .. L + 1
      BY <2>0
    <3>6. InReady' = {ready'[k] : k \in 1 .. L + 1}
      BY <3>2 DEF InReady
    <3>7. \A x \in InReady \ {n} : \E k \in 1 .. L : t[k] = x
      BY <2>0
    <3>8. InReady' = (InReady \ {n}) \cup {m}
      <4>1. \A k \in 1 .. L + 1 : ready'[k] \in (InReady \ {n}) \cup {m}
        BY <3>2, <3>3, <3>4
      <4>2. \A x \in InReady \ {n} : \E k \in 1 .. L + 1 : ready'[k] = x
        BY <3>2, <3>5, <3>7
      <4> QED BY <3>2, <3>5, <3>6, <4>1, <4>2
    <3> QED BY <2>0, <2>3, <3>1, <3>2, <3>3, <3>4, <3>8
  <2> QED BY <2>1, <2>2, <2>3
<1>4. Left = waiting \cup InReady /\ Left' = waiting' \cup InReady'
  BY DEF Left
<1>5. Left' = Left \ {n} /\ n \in Left
  BY <1>1, <1>3, <1>4
<1>6. Cardinality(Left') = Cardinality(Left) - 1
  <2> HIDE DEF n
  <2>1. IsFiniteSet(Left)
    BY LeftNodes
  <2> QED BY <1>5, <2>1, FS_RemoveElement
<1>7. InReady' \cap waiting' = {}
  BY <1>3 DEF ListInv
<1>8. ListInv'
  <2> HIDE DEF n
  <2>1. handled \in Nat /\ handled' + Cardinality(Left') = N
    BY <1>6, LeftNodes, NodesFinite DEF ListInv
  <2> QED BY <1>3, <1>7, <2>1 DEF ListInv
<1> QED BY <1>5, <1>8 DEF Readers_left

\* Removing one element of a finite set of nodes, as the counts see it.
LEMMA OneLess ==
    ASSUME NEW S \in SUBSET Nodes, NEW x
    PROVE  Cardinality(S \ {x}) = Cardinality(S) - (IF x \in S THEN 1 ELSE 0)
<1>1. IsFiniteSet(S) /\ Cardinality(S) \in Nat
  BY NodesFinite
<1> QED BY <1>1, FS_RemoveElement

\* The values and the temporary do not get confused.
LEMMA NoneIsNoValue == None \notin Vals /\ None \notin Consts /\ Nodes \subseteq Vals
  BY PhiAssumption DEF Vals

----------------------------------------------------------------------------
(***************************************************************************)
(* The steps that handle a node.                                           *)
(***************************************************************************)
\* A phi that keeps its value is its own reader, and nobody else is affected.
LEMMA KeepPhiInv == ASSUME PhiInv, KeepPhi PROVE PhiInv'
<1> DEFINE n == Head(ready)
<1>1. /\ pc = "next" /\ pc' = "next" /\ ready # <<>> /\ inc[n] = n /\ tmp' = tmp /\ inc' = inc
      /\ ready' = Tail(ready) /\ waiting' = waiting /\ handled' = handled + 1
      /\ ref_count' = ref_count /\ was' = was
      /\ refs' = [v \in Vals |-> refs[v] - [UseOf({n}) EXCEPT ![n] = 2][v]]
  BY DEF KeepPhi, Release, edge, temps, ctrl
<1>2. n \in Nodes /\ n \in Vals
  BY <1>1, NextReady, NoneIsNoValue DEF PhiInv
<1>3. ListInv' /\ Left' = Left \ {n} /\ n \in Left /\ \A v : Readers_left(v)' = Readers_left(v) \ {n}
  <2>1. /\ waiting' = waiting \ {} /\ {} \in SUBSET waiting /\ pc' \in Pcs \ {"collect"}
        /\ waiting' = {k \in Nodes : ref_count'[k] > 0}
        /\ ref_count' \in [Nodes -> Nat] /\ tmp' \in Nodes \cup {None}
    BY <1>1 DEF PhiInv, ListInv, Pcs
  <2> QED BY <1>1, <2>1, NodeHandled DEF PhiInv
<1> HIDE DEF n
<1>4. n \in Readers_left(n) /\ \A v : v # n => n \notin Readers_left(v)
  BY <1>1, <1>3 DEF Readers_left
<1>5. \A v : v # n => Readers_left(v)' = Readers_left(v)
  BY <1>3, <1>4
<1>6. ~Kept(n)
  BY <1>1, <1>2, <1>4 DEF PhiInv, CountInv, OneReader
<1>7. \A v : Kept(v)' <=> Kept(v)
  BY <1>1 DEF Kept
<1>8. CountInv'
  <2> SUFFICES ASSUME NEW v \in Nodes
               PROVE  IF Kept(v)' THEN ref_count'[v] = 0 /\ OneReader(v)'
                      ELSE ref_count'[v] = Cardinality(Readers_left(v)' \ {v})
    BY <1>1 DEF CountInv
  <2>1. CASE v = n
    <3>1. Readers_left(v)' \ {v} = Readers_left(v) \ {v}
      BY <1>3, <2>1
    <3> QED BY <1>1, <1>6, <1>7, <2>1, <3>1 DEF PhiInv, CountInv
  <2>2. CASE v # n
    <3>1. OneReader(v) => OneReader(v)'
      BY <1>3, <1>4, <1>5, <2>2 DEF OneReader
    <3> QED BY <1>1, <1>5, <1>7, <2>2, <3>1 DEF PhiInv, CountInv
  <2> QED BY <2>1, <2>2
<1>9. RefInv'
  <2>1. refs' \in [Vals -> Int] /\ \A v \in Vals : refs'[v] = refs[v] - (IF v = n THEN 2 ELSE 0)
    BY <1>1, <1>2 DEF UseOf, PhiInv, RefInv
  <2>2. ASSUME NEW v \in Vals
        PROVE  refs'[v] = was'.later[v] + Cardinality(Readers_left(v)')
                          + (IF v \in Left' THEN 1 ELSE 0) - (IF Kept(v)' THEN 1 ELSE 0)
    <3>1. Cardinality(Readers_left(v)) \in Nat /\ Readers_left(v) \in SUBSET Nodes
      BY LeftNodes DEF PhiInv
    <3>2. Cardinality(Readers_left(v)') = Cardinality(Readers_left(v)) - (IF v = n THEN 1 ELSE 0)
      BY <1>3, <1>4, <3>1, OneLess
    <3>3. was'.later[v] = was.later[v] /\ was.later[v] \in Nat /\ refs[v] \in Int
      BY <1>1 DEF PhiInv, RefInv
    <3>4. (v \in Left') = (v \in Left /\ v # n) /\ (v = n => v \in Left)
      BY <1>3
    <3>5. refs[v] = was.later[v] + Cardinality(Readers_left(v))
                    + (IF v \in Left THEN 1 ELSE 0) - (IF Kept(v) THEN 1 ELSE 0)
      BY DEF PhiInv, RefInv
    <3>6. refs'[v] = refs[v] - (IF v = n THEN 2 ELSE 0)
      BY <2>1
    <3> QED BY <1>7, <3>1, <3>2, <3>3, <3>4, <3>5, <3>6
  <2> QED BY <1>1, <2>1, <2>2 DEF PhiInv, RefInv
<1>10. StageInv'
  BY <1>1 DEF StageInv
<1> QED BY <1>3, <1>8, <1>9, <1>10 DEF PhiInv

\* The reader of the phi in the temporary is its last one; the temporary is
\* not in use afterwards.
LEMMA RestoreEndInv == ASSUME PhiInv, RestoreEnd PROVE PhiInv'
<1> DEFINE n == Head(ready)
<1>1. /\ pc = "restore" /\ pc' \in {"next", "free_tmp"} /\ tmp' = None /\ inc' = inc
      /\ ready' = Tail(ready) /\ waiting' = waiting /\ handled' = handled + 1
      /\ ref_count' = ref_count /\ was' = was
      /\ refs' = [v \in Vals |-> refs[v] - UseOf({n})[v]]
  BY DEF RestoreEnd, Release, edge
<1>2. ready # <<>> /\ inc[n] # n /\ inc[n] = tmp
  BY <1>1 DEF PhiInv, StageInv
<1>3. n \in Nodes /\ n \in Vals /\ tmp \in Nodes /\ tmp # None
  <2>1. n \in Nodes
    BY <1>2, NextReady DEF PhiInv
  <2>2. inc[n] \in Vals \cup Consts /\ tmp \in Nodes \cup {None}
    BY <2>1 DEF PhiInv, ListInv
  <2> QED BY <1>2, <2>1, <2>2, NoneIsNoValue
<1>4. ListInv' /\ Left' = Left \ {n} /\ n \in Left /\ \A v : Readers_left(v)' = Readers_left(v) \ {n}
  <2>1. /\ waiting' = waiting \ {} /\ {} \in SUBSET waiting /\ pc' \in Pcs \ {"collect"} /\ pc # "collect"
        /\ waiting' = {k \in Nodes : ref_count'[k] > 0}
        /\ ref_count' \in [Nodes -> Nat] /\ tmp' \in Nodes \cup {None}
    BY <1>1 DEF PhiInv, ListInv, Pcs
  <2> QED BY <1>1, <1>2, <2>1, NodeHandled DEF PhiInv
<1> HIDE DEF n
<1>5. n \in Readers_left(tmp) /\ \A v : v # tmp => n \notin Readers_left(v)
  BY <1>2, <1>4 DEF Readers_left
<1>6. /\ \A v : v # tmp => Readers_left(v)' = Readers_left(v)
      /\ Readers_left(tmp) = {n} /\ ref_count[tmp] = 0
  <2>1. Kept(tmp) /\ OneReader(tmp) /\ ref_count[tmp] = 0
    BY <1>1, <1>3 DEF Kept, PhiInv, CountInv
  <2> QED BY <1>1, <1>4, <1>5, <2>1 DEF OneReader
<1>7. \A v \in Vals : ~Kept(v)' /\ (Kept(v) <=> v = tmp)
  BY <1>1, NoneIsNoValue DEF Kept
<1>8. \A v \in Vals : Readers_left(v)' = IF v = tmp THEN {} ELSE Readers_left(v)
  BY <1>4, <1>6
<1>9. CountInv'
  <2> SUFFICES ASSUME NEW v \in Nodes PROVE ref_count'[v] = Cardinality(Readers_left(v)' \ {v})
    BY <1>1, <1>7, NoneIsNoValue DEF CountInv
  <2>1. CASE v = tmp
    <3>1. Readers_left(v)' \ {v} = {}
      BY <1>3, <1>8, <2>1, NoneIsNoValue
    <3> QED BY <1>1, <1>6, <2>1, <3>1, FS_EmptySet
  <2>2. CASE v # tmp
    BY <1>1, <1>3, <1>7, <1>8, <2>2, NoneIsNoValue DEF PhiInv, CountInv
  <2> QED BY <2>1, <2>2
<1>10. RefInv'
  <2>1. refs' \in [Vals -> Int] /\ \A v \in Vals : refs'[v] = refs[v] - (IF v = n THEN 1 ELSE 0)
    BY <1>1, <1>3 DEF UseOf, PhiInv, RefInv
  <2>2. ASSUME NEW v \in Vals
        PROVE  refs'[v] = was'.later[v] + Cardinality(Readers_left(v)')
                          + (IF v \in Left' THEN 1 ELSE 0) - (IF Kept(v)' THEN 1 ELSE 0)
    <3>1. Cardinality(Readers_left(v)) \in Nat
      BY LeftNodes DEF PhiInv
    <3>2. Cardinality(Readers_left(v)') = Cardinality(Readers_left(v)) - (IF v = tmp THEN 1 ELSE 0)
      <4>1. Cardinality({}) = 0 /\ Cardinality({n}) = 1
        BY FS_EmptySet, FS_Singleton
      <4>2. Readers_left(tmp) = {n} /\ Readers_left(v)' = IF v = tmp THEN {} ELSE Readers_left(v)
        BY <1>6, <1>8
      <4>3. CASE v = tmp
        BY <4>1, <4>2, <4>3
      <4>4. CASE v # tmp
        BY <3>1, <4>2, <4>4
      <4> QED BY <4>3, <4>4
    <3>3. was'.later[v] = was.later[v] /\ was.later[v] \in Nat /\ refs[v] \in Int
      BY <1>1 DEF PhiInv, RefInv
    <3>4. (v \in Left') = (v \in Left /\ v # n) /\ (v = n => v \in Left)
      BY <1>4
    <3>5. refs[v] = was.later[v] + Cardinality(Readers_left(v))
                    + (IF v \in Left THEN 1 ELSE 0) - (IF Kept(v) THEN 1 ELSE 0)
      BY DEF PhiInv, RefInv
    <3>6. refs'[v] = refs[v] - (IF v = n THEN 1 ELSE 0)
      BY <2>1
    <3> QED BY <1>7, <3>1, <3>2, <3>3, <3>4, <3>5, <3>6
  <2> QED BY <1>1, <2>1, <2>2 DEF PhiInv, RefInv
<1>11. StageInv'
  BY <1>1 DEF StageInv
<1> QED BY <1>4, <1>9, <1>10, <1>11 DEF PhiInv

\* A node that is moved has read its incoming phi, which gets ready with its
\* last reader.
LEMMA MoveEndInv == ASSUME PhiInv, MoveEnd PROVE PhiInv'
<1> DEFINE n == Head(ready)
           m == inc[n]
           X == IF ReadyAfter(n) THEN {m} ELSE {}
<1>1. /\ pc = "move" /\ pc' = "next" /\ tmp' = tmp /\ inc' = inc /\ handled' = handled + 1
      /\ ref_count' = (IF m \in Nodes THEN [ref_count EXCEPT ![m] = @ - 1] ELSE ref_count)
      /\ waiting' = waiting \ X /\ was' = was
      /\ (X = {} /\ ready' = Tail(ready)) \/ (X = {m} /\ ready' = Append(Tail(ready), m))
      /\ refs' = [v \in Vals |-> refs[v] - UseOf({n, m})[v]]
  BY DEF MoveEnd, Release, edge, temps
<1>2. ready # <<>> /\ m # n /\ m # tmp
  BY <1>1 DEF PhiInv, StageInv
<1>3. n \in Nodes /\ n \in Vals /\ n \in InReady
  BY <1>2, NextReady, NoneIsNoValue DEF PhiInv
<1>4. n \in Left /\ n \in Readers_left(m) /\ \A v : v # m => n \notin Readers_left(v)
  BY <1>1, <1>3 DEF Left, Readers_left
<1>5. \A v : Readers_left(v) \in SUBSET Nodes /\ Cardinality(Readers_left(v)) \in Nat
             /\ IsFiniteSet(Readers_left(v))
  BY LeftNodes DEF PhiInv
<1>6. m \in Nodes => ref_count[m] \in Nat /\ ref_count[m] > 0
                     /\ ref_count[m] = Cardinality(Readers_left(m) \ {m})
  <2> SUFFICES ASSUME m \in Nodes
               PROVE  ref_count[m] \in Nat /\ ref_count[m] > 0
                      /\ ref_count[m] = Cardinality(Readers_left(m) \ {m})
    OBVIOUS
  <2>1. ref_count[m] \in Nat /\ ref_count[m] = Cardinality(Readers_left(m) \ {m})
    BY <1>1, <1>2 DEF PhiInv, CountInv, ListInv, Kept
  <2>2. n \in Readers_left(m) \ {m}
    BY <1>2, <1>4
  <2>3. Readers_left(m) \ {m} \in SUBSET Nodes
    BY <1>5
  <2>4. IsFiniteSet(Readers_left(m) \ {m})
    BY <2>3, NodesFinite
  <2>5. Cardinality(Readers_left(m) \ {m}) # 0
    BY <2>2, <2>4, FS_EmptySet
  <2> QED BY <2>1, <2>5
<1>7. /\ ref_count' \in [Nodes -> Nat]
      /\ \A v \in Nodes : ref_count'[v] = ref_count[v] - (IF v = m THEN 1 ELSE 0)
  BY <1>1, <1>6 DEF PhiInv, ListInv
<1>8. X \in SUBSET waiting /\ waiting' = {v \in Nodes : ref_count'[v] > 0}
  <2>1. X = {v \in Nodes : v = m /\ ref_count[v] = 1}
    BY DEF ReadyAfter
  <2>2. waiting = {v \in Nodes : ref_count[v] > 0} /\ ref_count \in [Nodes -> Nat]
    BY DEF PhiInv, ListInv
  <2> HIDE DEF X, m, n
  <2>3. ASSUME NEW v \in Nodes
        PROVE  ref_count'[v] > 0 <=> ref_count[v] > 0 /\ ~(v = m /\ ref_count[v] = 1)
    <3>1. ref_count[v] \in Nat /\ ref_count'[v] = ref_count[v] - (IF v = m THEN 1 ELSE 0)
          /\ (v = m => ref_count[v] > 0)
      BY <1>6, <1>7, <2>2
    <3> QED BY <3>1
  <2> QED BY <1>1, <2>1, <2>2, <2>3
<1>9. ListInv' /\ Left' = Left \ {n} /\ \A v : Readers_left(v)' = Readers_left(v) \ {n}
  <2>1. pc' \in Pcs \ {"collect"} /\ pc # "collect" /\ tmp' \in Nodes \cup {None}
    BY <1>1 DEF PhiInv, ListInv, Pcs
  <2>2. \/ X = {} /\ ready' = Tail(ready)
        \/ \E k : X = {k} /\ ready' = Append(Tail(ready), k)
    BY <1>1
  <2> HIDE DEF X, m
  <2> QED BY <1>1, <1>2, <1>7, <1>8, <2>1, <2>2, NodeHandled DEF PhiInv
<1> HIDE DEF n, m, X
<1>10. \A v : v # m => Readers_left(v)' = Readers_left(v)
  BY <1>4, <1>9
<1>11. \A v : Kept(v)' <=> Kept(v)
  BY <1>1 DEF Kept
<1>12. ~Kept(m)
  BY <1>2 DEF Kept
<1>13. CountInv'
  <2> SUFFICES ASSUME NEW v \in Nodes
               PROVE  IF Kept(v)' THEN ref_count'[v] = 0 /\ OneReader(v)'
                      ELSE ref_count'[v] = Cardinality(Readers_left(v)' \ {v})
    BY <1>1 DEF CountInv
  <2>1. CASE v = m
    <3>1. Readers_left(v)' \ {v} = (Readers_left(v) \ {v}) \ {n} /\ n \in Readers_left(v) \ {v}
      BY <1>2, <1>4, <1>9, <2>1
    <3>2. Readers_left(v) \ {v} \in SUBSET Nodes
      BY <1>5
    <3>3. Cardinality(Readers_left(v)' \ {v}) = Cardinality(Readers_left(v) \ {v}) - 1
      BY <3>1, <3>2, OneLess
    <3> QED BY <1>6, <1>7, <1>11, <1>12, <2>1, <3>3
  <2>2. CASE v # m
    <3>1. OneReader(v) => OneReader(v)'
      BY <1>4, <1>9, <1>10, <2>2 DEF OneReader
    <3>2. ref_count'[v] = ref_count[v]
      BY <1>7, <2>2 DEF PhiInv, ListInv
    <3> QED BY <1>1, <1>10, <1>11, <2>2, <3>1, <3>2 DEF PhiInv, CountInv
  <2> QED BY <2>1, <2>2
<1>14. RefInv'
  <2>1. refs' \in [Vals -> Int] /\ \A v \in Vals : refs'[v] = refs[v] - (IF v \in {n, m} THEN 1 ELSE 0)
    BY <1>1, <1>3 DEF UseOf, PhiInv, RefInv
  <2>2. ASSUME NEW v \in Vals
        PROVE  refs'[v] = was'.later[v] + Cardinality(Readers_left(v)')
                          + (IF v \in Left' THEN 1 ELSE 0) - (IF Kept(v)' THEN 1 ELSE 0)
    <3>2. Cardinality(Readers_left(v)') = Cardinality(Readers_left(v)) - (IF v = m THEN 1 ELSE 0)
      <4>1. n \in Readers_left(v) <=> v = m
        BY <1>4
      <4> QED BY <1>5, <1>9, <4>1, OneLess
    <3>3. was'.later[v] = was.later[v] /\ was.later[v] \in Nat /\ refs[v] \in Int
          /\ Cardinality(Readers_left(v)) \in Nat
      BY <1>1, <1>5 DEF PhiInv, RefInv
    <3>4. (v \in Left') = (v \in Left /\ v # n) /\ (v = n => v \in Left)
      BY <1>4, <1>9
    <3>5. refs[v] = was.later[v] + Cardinality(Readers_left(v))
                    + (IF v \in Left THEN 1 ELSE 0) - (IF Kept(v) THEN 1 ELSE 0)
      BY DEF PhiInv, RefInv
    <3>6. refs'[v] = refs[v] - (IF v = n THEN 1 ELSE 0) - (IF v = m THEN 1 ELSE 0)
      BY <1>2, <2>1, <3>3
    <3>7. Kept(v)' <=> Kept(v)
      BY <1>11
    <3>8. CASE v = n
      BY <1>2, <3>2, <3>3, <3>4, <3>5, <3>6, <3>7, <3>8
    <3>9. CASE v # n
      BY <3>2, <3>3, <3>4, <3>5, <3>6, <3>7, <3>9
    <3> QED BY <3>8, <3>9
  <2> QED BY <1>1, <2>1, <2>2 DEF PhiInv, RefInv
<1>15. StageInv'
  BY <1>1 DEF StageInv
<1> QED BY <1>9, <1>13, <1>14, <1>15 DEF PhiInv

----------------------------------------------------------------------------
(***************************************************************************)
(* The other steps.                                                        *)
(***************************************************************************)
\* Every phi and every value has its references before the edge.
LEMMA PhiInit == Init => PhiInv
<1> SUFFICES ASSUME Init PROVE PhiInv
  OBVIOUS
<1>1. /\ pc = "collect" /\ tmp = None /\ handled = 0 /\ ready = <<>> /\ waiting = {}
      /\ ref_count = [n \in Nodes |-> 0] /\ inc \in [Nodes -> Vals \cup Consts]
  <2>1. inc \in [Nodes -> IF back THEN Vals \cup Consts ELSE Others \cup Consts]
    BY DEF Init
  <2>2. (IF back THEN Vals \cup Consts ELSE Others \cup Consts) \subseteq Vals \cup Consts
    BY DEF Vals
  <2>3. inc \in [Nodes -> Vals \cup Consts]
    BY <2>1, <2>2
  <2> QED BY <2>3 DEF Init
<1>2. Left = Nodes /\ InReady = {} /\ Len(ready) = 0
  BY <1>1 DEF Left, InReady
<1>3. ListInv
  BY <1>1, <1>2, NodesFinite DEF ListInv, Pcs
<1>4. CountInv /\ StageInv
  BY <1>1 DEF CountInv, StageInv
<1>5. PICK later \in {UseOf(S) : S \in SUBSET (IF back THEN Others ELSE Vals)} :
        /\ refs = [v \in Vals |-> Uses(v) + later[v]]
        /\ was = [reg |-> reg, dirty |-> dirty, slot |-> slot, later |-> later,
                  home |-> [n \in Nodes |-> IF fixed[n] THEN <<"reg", reg[<<n, 0>>]>>
                                            ELSE <<"slot", slot[n]>>]]
  BY DEF Init
<1>6. DOMAIN was = {"reg", "dirty", "slot", "later", "home"} /\ was.later = later
      /\ later \in [Vals -> 0 .. 1]
  BY <1>5 DEF UseOf
<1>7. ASSUME NEW v \in Vals
      PROVE  /\ Uses(v) = Cardinality(Readers_left(v)) + (IF v \in Left THEN 1 ELSE 0)
             /\ Cardinality(Readers_left(v)) \in Nat /\ ~Kept(v) /\ later[v] \in Nat
  <2>1. Cardinality(Readers_left(v)) \in Nat
    BY <1>3, LeftNodes
  <2>2. Readers_left(v) = {n \in Nodes : inc[n] = v}
    BY <1>2 DEF Readers_left
  <2> QED BY <1>1, <1>2, <1>6, <2>1, <2>2, NoneIsNoValue DEF Uses, Kept
<1>8. RefInv
  BY <1>5, <1>6, <1>7 DEF RefInv
<1> QED BY <1>3, <1>4, <1>8 DEF PhiInv

\* ref_count counts the readers of each phi, and every node waits or is ready.
LEMMA CollectInv == ASSUME PhiInv, Collect PROVE PhiInv'
<1> DEFINE S == Nodes \ waiting'
<1>1. /\ pc = "collect" /\ pc' = "next" /\ ready' = InOrder(S)
      /\ ref_count' = [n \in Nodes |-> Readers(n)] /\ waiting' = {n \in Nodes : ref_count'[n] > 0}
      /\ tmp' = tmp /\ inc' = inc /\ handled' = handled /\ was' = was /\ refs' = refs
  BY DEF Collect, edge, values, temps
<1>2. tmp = None /\ handled = 0 /\ Left = Nodes
  BY <1>1 DEF PhiInv, CountInv, Left
<1>3. S \in SUBSET Nodes /\ waiting' \in SUBSET Nodes
  BY <1>1
<1>4. /\ ready' \in Seq(Nodes) /\ InReady' = S
      /\ \A j, k \in 1 .. Len(ready') : ready'[j] = ready'[k] => j = k
  <2> HIDE DEF S
  <2> QED BY <1>1, <1>3, InOrderLists DEF InReady
<1>5. Left' = Nodes
  BY <1>1, <1>3, <1>4 DEF Left
<1>6. \A v : Readers_left(v)' = Readers_left(v)
  BY <1>1, <1>2, <1>5 DEF Readers_left
<1>7. \A n \in Nodes : ref_count'[n] = Cardinality(Readers_left(n)' \ {n})
  <2> SUFFICES ASSUME NEW n \in Nodes PROVE Readers(n) = Cardinality(Readers_left(n)' \ {n})
    BY <1>1
  <2>1. Readers_left(n)' \ {n} = {m \in Nodes : Reads(m, n)}
    BY <1>1, <1>5 DEF Readers_left, Reads
  <2> QED BY <2>1 DEF Readers
<1>8. ref_count' \in [Nodes -> Nat]
  <2>1. \A n \in Nodes : Readers(n) \in Nat
    <3>1. \A n : {m \in Nodes : Reads(m, n)} \in SUBSET Nodes
      OBVIOUS
    <3> QED BY <3>1, NodesFinite DEF Readers
  <2> QED BY <1>1, <2>1
<1>9. ListInv'
  BY <1>1, <1>2, <1>4, <1>5, <1>8, NodesFinite DEF PhiInv, ListInv, Pcs
<1>10. \A v \in Vals : ~Kept(v) /\ ~Kept(v)'
  BY <1>1, <1>2, NoneIsNoValue DEF Kept
<1>11. CountInv'
  BY <1>1, <1>7, <1>10, NoneIsNoValue DEF CountInv
<1>12. RefInv'
  BY <1>1, <1>2, <1>5, <1>6, <1>10 DEF PhiInv, RefInv
<1>13. StageInv'
  BY <1>1 DEF StageInv
<1> QED BY <1>9, <1>11, <1>12, <1>13 DEF PhiInv

\* When no node is ready only cycles are left, and the temporary is not in use.
LEMMA CyclesLeft ==
    ASSUME PhiInv, pc = "next", ready = <<>>
    PROVE  /\ Left = waiting
           /\ \A n \in waiting : OneReader(n)
           /\ \A n \in Nodes : ~Kept(n)
<1>1. InReady = {} /\ Left = waiting
  BY DEF InReady, Left
<1>2. waiting \in SUBSET Nodes /\ waiting = {n \in Nodes : ref_count[n] > 0}
  BY LeftNodes DEF PhiInv, ListInv
<1>3. \A n \in waiting : ~Kept(n) /\ \E m \in waiting : inc[m] = n /\ m # n
  <2> SUFFICES ASSUME NEW n \in waiting PROVE ~Kept(n) /\ \E m \in waiting : inc[m] = n /\ m # n
    OBVIOUS
  <2>1. ~Kept(n) /\ ref_count[n] = Cardinality(Readers_left(n) \ {n}) /\ ref_count[n] # 0
    <3>1. n \in Nodes /\ ref_count[n] \in Nat /\ ref_count[n] > 0
      BY <1>2 DEF PhiInv, ListInv
    <3>2. IF Kept(n) THEN ref_count[n] = 0 /\ OneReader(n)
          ELSE ref_count[n] = Cardinality(Readers_left(n) \ {n})
      BY <3>1 DEF PhiInv, CountInv
    <3> QED BY <3>1, <3>2
  <2>2. Readers_left(n) \ {n} # {}
    BY <2>1, FS_EmptySet
  <2> QED BY <1>1, <2>1, <2>2 DEF Readers_left
<1>4. DOMAIN inc = Nodes
  BY DEF PhiInv, ListInv
<1>5. /\ \A m \in waiting : inc[m] \in waiting
      /\ \A m, k \in waiting : inc[m] = inc[k] => m = k
  <2>1. \A w \in waiting : \E m \in waiting : inc[m] = w
    BY <1>3
  <2>2. waiting \in SUBSET Nodes
    BY <1>2
  <2> QED BY <1>4, <2>1, <2>2, OnlyCycles
<1>6. \A n \in waiting : OneReader(n)
  <2> SUFFICES ASSUME NEW n \in waiting PROVE OneReader(n)
    OBVIOUS
  <2>1. PICK m \in waiting : inc[m] = n /\ m # n
    BY <1>3
  <2>2. Readers_left(n) = {m}
    BY <1>1, <1>5, <2>1 DEF Readers_left
  <2> QED BY <1>1, <2>1, <2>2 DEF OneReader
<1>7. ASSUME NEW n \in Nodes, Kept(n) PROVE FALSE
  <2>1. PICK m \in waiting : Readers_left(n) = {m}
    BY <1>1, <1>7 DEF PhiInv, CountInv, OneReader
  <2>2. inc[m] = n
    BY <2>1 DEF Readers_left
  <2> QED BY <1>3, <1>5, <1>7, <2>2
<1> QED BY <1>1, <1>6, <1>7

\* The phi that breaks a cycle has one reader.
LEMMA BreakInv == ASSUME N <= WordBits, PhiInv, Break PROVE PhiInv'
<1>1. /\ pc = "next" /\ pc' = "save" /\ ready = <<>> /\ handled # N /\ tmp' = first_set(waiting)
      /\ ready' = ready /\ waiting' = waiting /\ handled' = handled /\ ref_count' = ref_count
      /\ inc' = inc /\ was' = was /\ refs' = refs
  BY DEF Break, edge, values, lists
<1>2. Left = waiting /\ waiting \in SUBSET Nodes
  BY <1>1, CyclesLeft, LeftNodes DEF PhiInv
<1>3. waiting # {}
  <2>1. handled + Cardinality(waiting) = N /\ handled \in Nat
    BY <1>2 DEF PhiInv, ListInv
  <2> QED BY <1>1, <2>1, FS_EmptySet
<1>4. tmp' \in waiting
  BY <1>1, <1>2, <1>3, FirstSet
<1>5. Left' = Left /\ InReady' = InReady /\ \A v : Readers_left(v)' = Readers_left(v)
  BY <1>1 DEF Left, InReady, Readers_left
<1>6. \A n \in Nodes : ~Kept(n)
  BY <1>1, CyclesLeft
<1>7. \A v \in Vals : ~Kept(v) /\ ~Kept(v)'
  <2>1. tmp \in Nodes \cup {None}
    BY DEF PhiInv, ListInv
  <2> QED BY <1>1, <1>6, <2>1, NoneIsNoValue DEF Kept
<1>8. ListInv'
  BY <1>1, <1>2, <1>4, <1>5 DEF PhiInv, ListInv, Pcs
<1>9. CountInv'
  BY <1>1, <1>5, <1>7, NoneIsNoValue DEF PhiInv, CountInv
<1>10. StageInv'
  <2> DEFINE t == tmp'
  <2>1. t \in Nodes /\ OneReader(t) /\ ref_count[t] = Cardinality(Readers_left(t) \ {t})
    BY <1>1, <1>2, <1>4, <1>6, CyclesLeft DEF PhiInv, CountInv
  <2>2. PICK m \in Left \ {t} : Readers_left(t) = {m}
    BY <2>1 DEF OneReader
  <2>3. ref_count[t] = 1
    <3>1. Readers_left(t) \ {t} = {m}
      BY <2>2
    <3> QED BY <2>1, <3>1, FS_Singleton
  <2>4. OneReader(tmp)'
    BY <1>5, <2>2 DEF OneReader, Readers_left
  <2> QED BY <1>1, <2>1, <2>3, <2>4 DEF StageInv
<1>11. RefInv'
  BY <1>1, <1>5, <1>7 DEF PhiInv, RefInv
<1> QED BY <1>8, <1>9, <1>10, <1>11 DEF PhiInv

\* With its value in the temporary the phi can be overwritten: its node is
\* ready, and its reader's reference is used.
LEMMA SaveEndInv == ASSUME PhiInv, SaveEnd PROVE PhiInv'
<1>1. /\ pc = "save" /\ pc' = "next" /\ ready' = Append(ready, tmp) /\ waiting' = waiting \ {tmp}
      /\ handled' = handled /\ ref_count' = [ref_count EXCEPT ![tmp] = 0]
      /\ inc' = inc /\ was' = was /\ tmp' = tmp
      /\ refs' = [v \in Vals |-> refs[v] - UseOf({tmp})[v]]
  BY DEF SaveEnd, Release, edge, temps
<1>2. tmp \in Nodes /\ ref_count[tmp] = 1 /\ OneReader(tmp) /\ tmp \in Vals
  BY <1>1, NoneIsNoValue DEF PhiInv, StageInv
<1>3. tmp \in waiting /\ tmp \notin InReady /\ waiting \in SUBSET Nodes
  <2>1. tmp \in waiting
    BY <1>2 DEF PhiInv, ListInv
  <2> QED BY <2>1, LeftNodes DEF PhiInv, ListInv
<1>4. /\ ready' \in Seq(Nodes) /\ InReady' = InReady \cup {tmp}
      /\ \A j, k \in 1 .. Len(ready') : ready'[j] = ready'[k] => j = k
  <2> DEFINE L == Len(ready)
  <2>1. L \in Nat /\ ready \in Seq(Nodes) /\ \A j, k \in 1 .. L : ready[j] = ready[k] => j = k
    BY DEF PhiInv, ListInv
  <2>2. /\ ready' \in Seq(Nodes) /\ Len(ready') = L + 1 /\ ready'[L + 1] = tmp
        /\ \A k \in 1 .. L : ready'[k] = ready[k]
    BY <1>1, <1>2, <2>1
  <2>3. InReady = {ready[k] : k \in 1 .. L} /\ InReady' = {ready'[k] : k \in 1 .. L + 1}
    BY <2>2 DEF InReady
  <2> HIDE DEF L
  <2>4. \A k \in 1 .. L + 1 : k \in 1 .. L \/ k = L + 1
    BY <2>1
  <2>5. 1 .. L \subseteq 1 .. L + 1 /\ L + 1 \in 1 .. L + 1
    BY <2>1
  <2>6. \A k \in 1 .. L : ready[k] # tmp
    BY <1>3, <2>3
  <2>7. InReady' = InReady \cup {tmp}
    <3>1. \A k \in 1 .. L + 1 : ready'[k] \in InReady \cup {tmp}
      BY <2>2, <2>3, <2>4
    <3>2. \A x \in InReady : \E k \in 1 .. L + 1 : ready'[k] = x
      BY <2>2, <2>3, <2>5
    <3> QED BY <2>2, <2>3, <2>5, <3>1, <3>2
  <2> QED BY <2>1, <2>2, <2>4, <2>6, <2>7
<1>5. Left' = Left /\ \A v : Readers_left(v)' = Readers_left(v)
  BY <1>1, <1>3, <1>4 DEF Left, Readers_left
<1>6. ListInv'
  <2>1. InReady' \cap waiting' = {}
    BY <1>1, <1>4 DEF PhiInv, ListInv
  <2>2. ref_count' \in [Nodes -> Nat] /\ waiting' = {n \in Nodes : ref_count'[n] > 0}
    BY <1>1, <1>2 DEF PhiInv, ListInv
  <2> QED BY <1>1, <1>4, <1>5, <2>1, <2>2 DEF PhiInv, ListInv, Pcs
<1>7. \A v : ~Kept(v) /\ (Kept(v)' <=> v = tmp)
  BY <1>1 DEF Kept
<1>8. CountInv'
  <2>1. OneReader(tmp)'
    BY <1>1, <1>2, <1>5 DEF OneReader
  <2> SUFFICES ASSUME NEW v \in Nodes
               PROVE  IF Kept(v)' THEN ref_count'[v] = 0 /\ OneReader(v)'
                      ELSE ref_count'[v] = Cardinality(Readers_left(v)' \ {v})
    BY <1>1 DEF CountInv
  <2>2. CASE v = tmp
    <3>1. OneReader(v)'
      BY <1>2, <1>5, <2>2 DEF OneReader
    <3> QED BY <1>1, <1>2, <1>7, <2>2, <3>1 DEF PhiInv, ListInv
  <2>3. CASE v # tmp
    BY <1>1, <1>5, <1>7, <2>3 DEF PhiInv, CountInv, ListInv
  <2> QED BY <2>2, <2>3
<1>9. RefInv'
  <2>1. refs' \in [Vals -> Int] /\ \A v \in Vals : refs'[v] = refs[v] - (IF v = tmp THEN 1 ELSE 0)
    BY <1>1, <1>2 DEF UseOf, PhiInv, RefInv
  <2>2. ASSUME NEW v \in Vals
        PROVE  refs'[v] = was'.later[v] + Cardinality(Readers_left(v)')
                          + (IF v \in Left' THEN 1 ELSE 0) - (IF Kept(v)' THEN 1 ELSE 0)
    <3>1. Cardinality(Readers_left(v)) \in Nat
      BY LeftNodes DEF PhiInv
    <3>2. was'.later[v] = was.later[v] /\ was.later[v] \in Nat /\ refs[v] \in Int
      BY <1>1 DEF PhiInv, RefInv
    <3>3. refs[v] = was.later[v] + Cardinality(Readers_left(v)) + (IF v \in Left THEN 1 ELSE 0)
      BY <1>7, <3>1, <3>2 DEF PhiInv, RefInv
    <3> QED BY <1>5, <1>7, <2>1, <3>1, <3>2, <3>3
  <2> QED BY <1>1, <2>1, <2>2 DEF PhiInv, RefInv
<1>10. StageInv'
  BY <1>1 DEF StageInv
<1> QED BY <1>6, <1>8, <1>9, <1>10 DEF PhiInv

\* The steps that move parts, and those between the stages, leave the lists
\* and the references alone.
LEMMA ListsKept ==
    ASSUME PhiInv, UNCHANGED <<inc, ref_count, ready, waiting, handled, tmp, refs>>,
           was'.later = was.later, DOMAIN was' = DOMAIN was,
           pc # "collect" \/ pc' = pc, pc' \in Pcs,
           pc = "collect" <=> pc' = "collect", pc = "save" <=> pc' = "save", StageInv'
    PROVE  PhiInv'
<1>1. Left' = Left /\ InReady' = InReady /\ (\A v : Readers_left(v)' = Readers_left(v))
      /\ \A v : Kept(v)' <=> Kept(v)
  BY DEF Left, InReady, Readers_left, Kept
<1>2. ListInv'
  BY <1>1 DEF PhiInv, ListInv
<1>3. \A n : OneReader(n) => OneReader(n)'
  BY <1>1 DEF OneReader
<1>4. CountInv'
  BY <1>1, <1>3 DEF PhiInv, CountInv
<1>5. RefInv'
  BY <1>1 DEF PhiInv, RefInv
<1> QED BY <1>2, <1>4, <1>5 DEF PhiInv

\* Every step keeps the invariant.
LEMMA PhiStep == ASSUME N <= WordBits PROVE PhiInv /\ [Next]_vars => PhiInv'
<1> SUFFICES ASSUME PhiInv, [Next]_vars PROVE PhiInv'
  OBVIOUS
<1>1. CASE Collect
  BY <1>1, CollectInv
<1>2. CASE KeepPhi
  BY <1>2, KeepPhiInv
<1>3. CASE RestoreEnd
  BY <1>3, RestoreEndInv
<1>4. CASE MoveEnd
  BY <1>4, MoveEndInv
<1>5. CASE Break
  BY <1>5, BreakInv
<1>6. CASE SaveEnd
  BY <1>6, SaveEndInv
<1>7. CASE Prepare
  <2>1. UNCHANGED <<inc, ref_count, ready, waiting, handled, tmp, refs, was, pc>>
    BY <1>7 DEF Prepare, reset, alloc_from_bank, edge, lists, temps, ctrl
  <2>2. StageInv'
    BY SMTT(30), <2>1 DEF PhiInv, StageInv, OneReader, Left, InReady, Readers_left
  <2> QED BY <2>1, <2>2, ListsKept DEF PhiInv, ListInv
<1>8. CASE SavePart \/ RestorePart
  <2>1. UNCHANGED <<inc, ref_count, ready, waiting, handled, tmp, refs, was, pc>>
    BY <1>8 DEF SavePart, RestorePart, edge, values, lists, temps
  <2>2. StageInv'
    BY SMTT(30), <2>1 DEF PhiInv, StageInv, OneReader, Left, InReady, Readers_left
  <2> QED BY <2>1, <2>2, ListsKept DEF PhiInv, ListInv
<1>9. CASE MovePart
  <2>1. UNCHANGED <<inc, ref_count, ready, waiting, handled, tmp, refs, pc>> /\ pc = "move"
    BY <1>9 DEF MovePart, edge, lists, temps
  <2>2. was' = was \/ \E h : was' = [was EXCEPT !.home = h]
    BY <1>9 DEF MovePart
  <2>3. was'.later = was.later /\ DOMAIN was' = DOMAIN was
    BY <2>2 DEF PhiInv, RefInv
  <2>4. StageInv'
    BY <2>1 DEF PhiInv, StageInv
  <2> QED BY <2>1, <2>3, <2>4, ListsKept DEF PhiInv, ListInv
<1>10. CASE BeginRestore
  <2>1. /\ UNCHANGED <<inc, ref_count, ready, waiting, handled, tmp, refs, was>>
        /\ pc = "next" /\ pc' = "restore"
        /\ ready # <<>> /\ inc[Head(ready)] # Head(ready) /\ inc[Head(ready)] = tmp
    BY <1>10 DEF BeginRestore, edge, values, lists, temps
  <2>2. StageInv'
    BY <2>1 DEF StageInv
  <2> QED BY <2>1, <2>2, ListsKept DEF Pcs
<1>11. CASE BeginMove
  <2>1. /\ UNCHANGED <<inc, ref_count, ready, waiting, handled, tmp, refs, was>>
        /\ pc = "next" /\ pc' = "move"
        /\ ready # <<>> /\ inc[Head(ready)] # Head(ready) /\ inc[Head(ready)] # tmp
    BY <1>11 DEF BeginMove, edge, lists, temps
  <2>2. StageInv'
    BY <2>1 DEF StageInv
  <2> QED BY <2>1, <2>2, ListsKept DEF Pcs
<1>12. CASE FreeTmp
  <2>1. /\ UNCHANGED <<inc, ref_count, ready, waiting, handled, tmp, refs, was>>
        /\ pc = "free_tmp" /\ pc' = "next"
    BY <1>12 DEF FreeTmp, edge, values, lists
  <2>2. StageInv'
    BY <2>1 DEF StageInv
  <2> QED BY <2>1, <2>2, ListsKept DEF Pcs
<1>13. CASE Finish
  <2>1. /\ UNCHANGED <<inc, ref_count, ready, waiting, handled, tmp, refs, was>>
        /\ pc = "next" /\ pc' \in {"next", "done"}
    BY <1>13 DEF Finish, reset, edge, values, lists, temps
  <2>2. StageInv'
    BY <2>1 DEF StageInv
  <2> QED BY <2>1, <2>2, ListsKept DEF Pcs
<1>14. CASE Done \/ UNCHANGED vars
  <2>1. UNCHANGED <<inc, ref_count, ready, waiting, handled, tmp, refs, was, pc>>
    BY <1>14 DEF Done, vars
  <2>2. StageInv'
    BY SMTT(30), <2>1 DEF PhiInv, StageInv, OneReader, Left, InReady, Readers_left
  <2> QED BY <2>1, <2>2, ListsKept DEF PhiInv, ListInv
<1> QED BY <1>1, <1>2, <1>3, <1>4, <1>5, <1>6, <1>7, <1>8, <1>9, <1>10, <1>11, <1>12, <1>13, <1>14
        DEF Next

----------------------------------------------------------------------------
(***************************************************************************)
(* Theorems.  SmallBitSet::first_set finds the first waiting node in its   *)
(* first word only, so they are about edges to at most WordBits phis.      *)
(***************************************************************************)
\* The lists of move_to_phi_nodes_impl: a node is in one of them until it is
\* handled, and ref_count is the number of nodes that still have to read it.
THEOREM PhiInvAlways == ASSUME N <= WordBits PROVE Spec => []PhiInv
<1>1. Init => PhiInv
  BY PhiInit
<1>2. PhiInv /\ [Next]_vars => PhiInv'
  BY PhiStep
<1> QED BY <1>1, <1>2, PTL DEF Spec

\* When all nodes are handled, every reference for this edge is used, and none
\* of those for later.
LEMMA FinishedUsed == ASSUME PhiInv, Left = {} PROVE \A v \in Vals : refs[v] = was.later[v]
<1> SUFFICES ASSUME NEW v \in Vals PROVE refs[v] = was.later[v]
  OBVIOUS
<1>1. pc # "collect"
  BY PhiAssumption DEF Left, Nodes
<1>2. Readers_left(v) = {} /\ Cardinality(Readers_left(v)) = 0
  BY FS_EmptySet DEF Readers_left
<1>3. ~Kept(v)
  <2>1. Kept(v) => v \in Nodes
    BY NoneIsNoValue DEF Kept, PhiInv, ListInv
  <2> QED BY <1>1, <2>1 DEF PhiInv, CountInv, OneReader
<1> QED BY <1>2, <1>3 DEF PhiInv, RefInv

\* The moves end when all nodes are handled.
HandledInv == pc = "done" => Left = {}

\* The last step is taken with no node left.
LEMMA HandledAlways == ASSUME N <= WordBits PROVE Spec => []HandledInv
<1>1. Init => HandledInv
  BY DEF Init, HandledInv
<1>2. PhiInv /\ HandledInv /\ [Next]_vars => HandledInv'
  <2> SUFFICES ASSUME PhiInv, HandledInv, [Next]_vars, pc' = "done" PROVE Left' = {}
    BY DEF HandledInv
  <2>1. CASE Finish
    <3>1. handled = N /\ pc = "next" /\ waiting' = waiting /\ ready' = ready
      BY <2>1 DEF Finish, lists
    <3>2. Cardinality(Left) = 0 /\ IsFiniteSet(Left)
      BY <3>1, LeftNodes, NodesFinite DEF PhiInv, ListInv
    <3>3. Left = {}
      BY <3>2, FS_EmptySet
    <3> QED BY <3>1, <3>3 DEF Left, InReady
  <2>2. CASE pc = "done" /\ UNCHANGED vars
    BY <2>2 DEF HandledInv, vars, Left, InReady
  <2>3. CASE Prepare \/ UNCHANGED vars
    BY <2>3 DEF HandledInv, Prepare, lists, ctrl, vars, Left, InReady
  <2> QED
    BY <2>1, <2>2, <2>3 DEF Next, Collect, Break, SavePart, SaveEnd, KeepPhi, BeginRestore, ctrl,
       RestorePart, RestoreEnd, FreeTmp, BeginMove, MovePart, MoveEnd, Done
<1> QED BY <1>1, <1>2, PhiInvAlways, PTL DEF Spec

\* Every node uses one reference of its phi and one of its incoming value,
\* also if these were used through a temporary.
THEOREM RefsUsedAlways == ASSUME N <= WordBits PROVE Spec => []RefsUsed
<1>1. PhiInv /\ HandledInv => RefsUsed
  BY FinishedUsed DEF HandledInv, RefsUsed
<1> QED BY <1>1, PhiInvAlways, HandledAlways, PTL

\* A phi is written only after all its readers have read it, or with its value
\* in the temporary for the one that has not.
ReadFirst ==
    pc \in {"move", "restore"} =>
        \A m \in Left : inc[m] = Head(ready) => Head(ready) = tmp

\* The order of the moves never overwrites a phi that is still to be read.
THEOREM ReadFirstAlways == ASSUME N <= WordBits PROVE Spec => []ReadFirst
<1>1. PhiInv => ReadFirst
  <2> SUFFICES ASSUME PhiInv, pc \in {"move", "restore"}, NEW m \in Left, inc[m] = Head(ready),
                      Head(ready) # tmp
               PROVE  FALSE
    BY DEF ReadFirst
  <2> DEFINE n == Head(ready)
  <2>1. ready # <<>> /\ inc[n] # n
    BY DEF PhiInv, StageInv
  <2>2. n \in Nodes /\ n \notin waiting
    BY <2>1, NextReady DEF PhiInv
  <2>3. ref_count[n] = Cardinality(Readers_left(n) \ {n}) /\ ref_count[n] \in Nat /\ ~(ref_count[n] > 0)
    BY <2>2 DEF PhiInv, CountInv, ListInv, Kept
  <2>4. m \in Readers_left(n) \ {n}
    BY <2>1 DEF Readers_left
  <2>5. IsFiniteSet(Readers_left(n) \ {n})
    <3>1. Readers_left(n) \ {n} \in SUBSET Nodes
      BY LeftNodes DEF PhiInv
    <3> QED BY <3>1, NodesFinite
  <2> QED BY <2>3, <2>4, <2>5, FS_EmptySet
<1> QED BY <1>1, PhiInvAlways, PTL

\* The assertion before a cycle is broken: the phi that goes to the temporary
\* is one that is left and has one reader.
CycleRight == pc = "save" => tmp \in Nodes /\ ref_count[tmp] = 1

\* The assertion holds whenever a cycle is broken.
THEOREM CycleRightAlways == ASSUME N <= WordBits PROVE Spec => []CycleRight
<1>1. PhiInv => CycleRight
  BY DEF PhiInv, StageInv, CycleRight
<1> QED BY <1>1, PhiInvAlways, PTL
====
