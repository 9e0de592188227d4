-------------------------- MODULE FuncFrameProofs --------------------------
(***************************************************************************)
(* The frame code does what its caller and callees rely on, for all sets   *)
(* of callee-saved and clobbered registers, frame sizes and bodies, on     *)
(* both targets.                                                           *)
(***************************************************************************)
EXTENDS FuncFrame, FiniteSetTheorems, NaturalsInduction, WellFoundedInduction, SequenceTheorems, TLAPS

(***************************************************************************)
(* Sets of registers, in the order in which they are saved.                *)
(***************************************************************************)
Regs == 0 .. 63
BelowIn(S, r) == {q \in S : q < r}
AboveIn(S, r) == {q \in S : q > r}

LowerSet(D, S) == D \subseteq S /\ \A r \in D : BelowIn(S, r) \subseteq D
UpperSet(D, S) == D \subseteq S /\ \A r \in D : AboveIn(S, r) \subseteq D

PushSize(r) == IF r < 8 THEN 1 ELSE 2

\* Sets of registers are finite.
LEMMA RegSets ==
    ASSUME NEW S \in SUBSET Regs
    PROVE  /\ IsFiniteSet(S) /\ Cardinality(S) \in Nat /\ Cardinality(S) <= 64
           /\ \A T \in SUBSET S : /\ IsFiniteSet(T) /\ Cardinality(T) \in Nat
                                  /\ Cardinality(T) <= Cardinality(S)
                                  /\ Cardinality(T) = Cardinality(S) => T = S
<1>1. IsFiniteSet(Regs) /\ Cardinality(Regs) = 64
  <2>1. 0 \in Int /\ 63 \in Int
    OBVIOUS
  <2>2. IsFiniteSet(0 .. 63) /\ Cardinality(0 .. 63) = IF 0 > 63 THEN 0 ELSE 63 - 0 + 1
    BY <2>1, FS_Interval
  <2> QED BY <2>2 DEF Regs
<1>2. IsFiniteSet(S) /\ Cardinality(S) \in Nat /\ Cardinality(S) <= 64
  BY <1>1, FS_Subset, FS_CardinalityType
<1> QED BY <1>2, FS_Subset, FS_CardinalityType

\* One more register.
LEMMA AddReg ==
    ASSUME NEW S \in SUBSET Regs, NEW r \in Regs, r \notin S
    PROVE  /\ Cardinality(S \cup {r}) = Cardinality(S) + 1
           /\ Bytes(S \cup {r}) = Bytes(S) + PushSize(r)
<1> DEFINE H(X) == {q \in X : q >= 8}
<1>1. Cardinality(S \cup {r}) = Cardinality(S) + 1
  BY RegSets, FS_AddElement
<1>2. CASE r < 8
  <2>1. H(S \cup {r}) = H(S)
    BY <1>2 DEF Regs
  <2> QED BY <1>1, <1>2, <2>1, RegSets DEF Bytes, PushSize
<1>3. CASE ~(r < 8)
  <2>1. H(S \cup {r}) = H(S) \cup {r}
    BY <1>3 DEF Regs
  <2>2. r \notin H(S) /\ IsFiniteSet(H(S)) /\ Cardinality(H(S)) \in Nat
    BY RegSets
  <2>3. Cardinality(H(S \cup {r})) = Cardinality(H(S)) + 1
    <3> HIDE DEF H
    <3> QED BY <2>1, <2>2, FS_AddElement
  <2>4. Cardinality(S) \in Nat
    BY RegSets
  <2> QED BY <1>1, <1>3, <2>2, <2>3, <2>4 DEF Bytes, PushSize
<1> QED BY <1>2, <1>3

\* Bytes is a size.
LEMMA BytesSize ==
    ASSUME NEW S \in SUBSET Regs
    PROVE  /\ Bytes(S) \in Nat /\ Cardinality(S) <= Bytes(S) /\ Bytes({}) = 0
           /\ \A T \in SUBSET S : /\ Bytes(T) \in Nat /\ Bytes(T) <= Bytes(S)
                                  /\ Bytes(T) = Bytes(S) => T = S
<1> DEFINE H(X) == {q \in X : q >= 8}
<1>1. \A X \in SUBSET S : /\ Cardinality(X) \in Nat /\ Cardinality(X) <= Cardinality(S)
                          /\ Cardinality(X) = Cardinality(S) => X = S
                          /\ Cardinality(H(X)) \in Nat /\ Cardinality(H(X)) <= Cardinality(H(S))
  <2> SUFFICES ASSUME NEW X \in SUBSET S
               PROVE  /\ Cardinality(X) \in Nat /\ Cardinality(X) <= Cardinality(S)
                      /\ Cardinality(X) = Cardinality(S) => X = S
                      /\ Cardinality(H(X)) \in Nat /\ Cardinality(H(X)) <= Cardinality(H(S))
    OBVIOUS
  <2>1. H(X) \in SUBSET H(S) /\ H(S) \in SUBSET Regs
    OBVIOUS
  <2> QED BY <2>1, RegSets
<1>2. \A X : Bytes(X) = Cardinality(X) + Cardinality(H(X))
  BY DEF Bytes
<1>3. Bytes({}) = 0
  <2>1. H({}) = {}
    OBVIOUS
  <2> QED BY <1>2, <2>1, FS_EmptySet
<1> HIDE DEF H
<1>4. Cardinality(S) \in Nat /\ Cardinality(H(S)) \in Nat
  BY <1>1
<1> QED BY <1>1, <1>2, <1>3, <1>4

\* The first register of a set,
LEMMA FirstReg ==
    ASSUME NEW S \in SUBSET Nat, S # {}
    PROVE  \E m \in S : \A x \in S : m <= x
<1>1. PICK m \in S : \A x \in S : <<x, m>> \notin OpToRel(<, Nat)
  BY NatLessThanWellFounded, WFMin, Zenon
<1>2. \A x \in S : ~(x < m)
  <2> SUFFICES ASSUME NEW x \in S, x < m PROVE FALSE
    OBVIOUS
  <2>1. x \in Nat /\ m \in Nat
    OBVIOUS
  <2>2. <<x, m>> \in OpToRel(<, Nat)
    BY <2>1, Zenon DEF OpToRel
  <2> QED BY <1>1, <2>2, Zenon
<1> QED BY <1>2

\* ... and the last one.
LEMMA LastReg ==
    ASSUME NEW S \in SUBSET Regs, S # {}
    PROVE  \E m \in S : \A x \in S : x <= m
<1> DEFINE T == {n \in Nat : n <= 63 /\ 63 - n \in S}
<1>1. T # {}
  <2>1. PICK x : x \in S
    OBVIOUS
  <2>2. 63 - x \in Nat /\ 63 - (63 - x) = x /\ 63 - x <= 63
    BY <2>1 DEF Regs
  <2> QED BY <2>1, <2>2
<1>2. T \in SUBSET Nat
  OBVIOUS
<1>3. PICK n \in T : \A y \in T : n <= y
  <2> HIDE DEF T
  <2> QED BY <1>1, <1>2, FirstReg
<1>4. ASSUME NEW x \in S PROVE x <= 63 - n
  <2>1. 63 - x \in Nat /\ 63 - (63 - x) = x /\ 63 - x <= 63 /\ x \in Nat
    BY DEF Regs
  <2>2. n <= 63 - x
    BY <1>3, <2>1
  <2> QED BY <2>1, <2>2
<1> QED BY <1>4

\* The registers below one, and how much room they take.
LEMMA BelowRoom ==
    ASSUME NEW S \in SUBSET Regs, NEW r \in S
    PROVE  /\ BelowIn(S, r) \in SUBSET S /\ r \notin BelowIn(S, r)
           /\ Cardinality(BelowIn(S, r)) + 1 <= Cardinality(S)
           /\ Bytes(BelowIn(S, r)) + PushSize(r) <= Bytes(S)
           /\ Cardinality(BelowIn(S, r)) \in Nat /\ Bytes(BelowIn(S, r)) \in Nat
           /\ \A q \in S : q < r => /\ Cardinality(BelowIn(S, q)) + 1 <= Cardinality(BelowIn(S, r))
                                    /\ Bytes(BelowIn(S, q)) + PushSize(q) <= Bytes(BelowIn(S, r))
<1> DEFINE B(x) == BelowIn(S, x)
<1>0. \A x \in S : x \in Nat /\ x \in Regs
  BY DEF Regs
<1>1. \A x \in S : B(x) \in SUBSET S /\ x \notin B(x) /\ B(x) \in SUBSET Regs /\ x \in Regs
  BY <1>0 DEF BelowIn
<1>2. \A x \in S : \A T \in SUBSET Regs :
         B(x) \cup {x} \subseteq T => /\ Cardinality(B(x)) + 1 <= Cardinality(T)
                                      /\ Bytes(B(x)) + PushSize(x) <= Bytes(T)
  <2> SUFFICES ASSUME NEW x \in S, NEW T \in SUBSET Regs, B(x) \cup {x} \subseteq T
               PROVE  /\ Cardinality(B(x)) + 1 <= Cardinality(T)
                      /\ Bytes(B(x)) + PushSize(x) <= Bytes(T)
    OBVIOUS
  <2>1. B(x) \in SUBSET Regs /\ x \in Regs /\ x \notin B(x) /\ B(x) \cup {x} \in SUBSET T
    BY <1>1
  <2> HIDE DEF B
  <2>2. /\ Cardinality(B(x) \cup {x}) = Cardinality(B(x)) + 1
        /\ Bytes(B(x) \cup {x}) = Bytes(B(x)) + PushSize(x)
    BY <2>1, AddReg
  <2>3. Cardinality(B(x) \cup {x}) <= Cardinality(T)
    BY <2>1, RegSets
  <2>4. Bytes(B(x) \cup {x}) <= Bytes(T)
    BY <2>1, BytesSize
  <2> QED BY <2>2, <2>3, <2>4
<1>3. B(r) \cup {r} \subseteq S
  BY <1>1
<1>4. \A q \in S : q < r => B(q) \cup {q} \subseteq B(r)
  BY <1>0 DEF BelowIn
<1>5. Cardinality(B(r)) \in Nat /\ Bytes(B(r)) \in Nat
  BY <1>1, RegSets, BytesSize
<1> HIDE DEF B
<1>6. /\ B(r) \in SUBSET S /\ r \notin B(r)
      /\ Cardinality(B(r)) + 1 <= Cardinality(S)
      /\ Bytes(B(r)) + PushSize(r) <= Bytes(S)
      /\ \A q \in S : q < r => /\ Cardinality(B(q)) + 1 <= Cardinality(B(r))
                               /\ Bytes(B(q)) + PushSize(q) <= Bytes(B(r))
  BY <1>1, <1>2, <1>3, <1>4
<1> QED BY <1>5, <1>6 DEF B

\* The registers above one.
LEMMA AboveRoom ==
    ASSUME NEW S \in SUBSET Regs, NEW r \in S
    PROVE  /\ AboveIn(S, r) \in SUBSET S /\ r \notin AboveIn(S, r)
           /\ Bytes(AboveIn(S, r)) + PushSize(r) <= Bytes(S)
           /\ Bytes(AboveIn(S, r)) \in Nat
           /\ Cardinality(AboveIn(S, r)) + Cardinality(BelowIn(S, r)) + 1 = Cardinality(S)
           /\ \A q \in S : q > r => Bytes(AboveIn(S, q)) + PushSize(q) <= Bytes(AboveIn(S, r))
<1> DEFINE A(x) == AboveIn(S, x)
<1>0. \A x \in S : x \in Nat /\ x \in Regs
  BY DEF Regs
<1>1. \A x \in S : A(x) \in SUBSET S /\ x \notin A(x) /\ A(x) \in SUBSET Regs /\ x \in Regs
  BY <1>0 DEF AboveIn
<1>2. \A x \in S : \A T \in SUBSET Regs :
         A(x) \cup {x} \subseteq T => Bytes(A(x)) + PushSize(x) <= Bytes(T)
  <2> SUFFICES ASSUME NEW x \in S, NEW T \in SUBSET Regs, A(x) \cup {x} \subseteq T
               PROVE  Bytes(A(x)) + PushSize(x) <= Bytes(T)
    OBVIOUS
  <2>1. A(x) \in SUBSET Regs /\ x \in Regs /\ x \notin A(x) /\ A(x) \cup {x} \in SUBSET T
    BY <1>1
  <2> HIDE DEF A
  <2>2. Bytes(A(x) \cup {x}) = Bytes(A(x)) + PushSize(x)
    BY <2>1, AddReg
  <2>3. Bytes(A(x) \cup {x}) <= Bytes(T)
    BY <2>1, BytesSize
  <2> QED BY <2>2, <2>3
<1>3. A(r) \cup {r} \subseteq S
  BY <1>1
<1>4. \A q \in S : q > r => A(q) \cup {q} \subseteq A(r)
  BY <1>0 DEF AboveIn
<1>5. Bytes(A(r)) \in Nat
  BY <1>1, BytesSize
<1>6. Cardinality(A(r)) + Cardinality(BelowIn(S, r)) + 1 = Cardinality(S)
  <2> DEFINE B == BelowIn(S, r)
             U == A(r) \cup B
  <2>1. A(r) \cap B = {} /\ r \notin U /\ U \cup {r} = S /\ B \in SUBSET S /\ A(r) \in SUBSET S /\ U \in SUBSET Regs
        /\ r \in Regs
    <3>1. \A x \in S : x < r \/ x = r \/ x > r
      BY <1>0
    <3> QED BY <1>0, <3>1 DEF AboveIn, BelowIn
  <2>2. IsFiniteSet(A(r)) /\ IsFiniteSet(B) /\ Cardinality(A(r)) \in Nat /\ Cardinality(B) \in Nat
    BY <2>1, RegSets
  <2> HIDE DEF A, B
  <2>3. Cardinality(U) = Cardinality(A(r)) + Cardinality(B) - Cardinality({})
    BY <2>1, <2>2, FS_Union
  <2>4. Cardinality({}) = 0
    BY FS_EmptySet
  <2> HIDE DEF U
  <2>5. Cardinality(S) = Cardinality(U) + 1
    BY <2>1, AddReg
  <2> QED BY <2>2, <2>3, <2>4, <2>5 DEF B
<1> HIDE DEF A
<1>7. /\ A(r) \in SUBSET S /\ r \notin A(r)
      /\ Bytes(A(r)) + PushSize(r) <= Bytes(S)
      /\ \A q \in S : q > r => Bytes(A(q)) + PushSize(q) <= Bytes(A(r))
  BY <1>1, <1>2, <1>3, <1>4
<1> QED BY <1>5, <1>6, <1>7 DEF A

\* Registers are saved in ascending order,
LEMMA NextUp ==
    ASSUME NEW S \in SUBSET Regs, NEW D, LowerSet(D, S), D # S
    PROVE  \E r \in S : /\ r \notin D /\ D = BelowIn(S, r) /\ LowerSet(D \cup {r}, S)
<1>1. S \ D # {} /\ S \ D \in SUBSET Nat
  <2>1. D \subseteq S
    BY DEF LowerSet
  <2>2. S \ D # {}
    BY <2>1
  <2>3. \A x \in S : x \in Nat
    BY DEF Regs
  <2> QED BY <2>2, <2>3
<1>2. PICK r \in S \ D : \A x \in S \ D : r <= x
  BY <1>1, FirstReg
<1>3. \A x \in S : x \in Nat
  BY DEF Regs
<1>4. D = BelowIn(S, r)
  <2>1. \A x \in S : x < r => x \in D
    BY <1>2, <1>3
  <2>2. \A x \in D : x < r
    <3> SUFFICES ASSUME NEW x \in D, ~(x < r) PROVE FALSE
      OBVIOUS
    <3>1. x \in S /\ x # r /\ x > r
      BY <1>3 DEF LowerSet
    <3>2. r \in BelowIn(S, x)
      BY <3>1 DEF BelowIn
    <3> QED BY <3>2 DEF LowerSet
  <2>3. D \subseteq S
    BY DEF LowerSet
  <2> QED BY <2>1, <2>2, <2>3 DEF BelowIn
<1>5. LowerSet(D \cup {r}, S)
  BY <1>4 DEF LowerSet
<1> QED BY <1>4, <1>5

\* and restored in descending order.
LEMMA NextDown ==
    ASSUME NEW S \in SUBSET Regs, NEW D, UpperSet(D, S), D # S
    PROVE  \E r \in S : /\ r \notin D /\ D = AboveIn(S, r) /\ UpperSet(D \cup {r}, S)
<1>1. S \ D # {} /\ S \ D \in SUBSET Regs
  <2>1. D \subseteq S
    BY DEF UpperSet
  <2>2. S \ D # {}
    BY <2>1
  <2> QED BY <2>2 DEF Regs
<1>2. PICK r \in S \ D : \A x \in S \ D : x <= r
  BY <1>1, LastReg
<1>3. \A x \in S : x \in Nat
  BY DEF Regs
<1>4. D = AboveIn(S, r)
  <2>1. \A x \in S : x > r => x \in D
    BY <1>2, <1>3
  <2>2. \A x \in D : x > r
    <3> SUFFICES ASSUME NEW x \in D, ~(x > r) PROVE FALSE
      OBVIOUS
    <3>1. x \in S /\ x # r /\ x < r
      BY <1>3 DEF UpperSet
    <3>2. r \in AboveIn(S, x)
      BY <3>1 DEF AboveIn
    <3> QED BY <3>2 DEF UpperSet
  <2>3. D \subseteq S
    BY DEF UpperSet
  <2> QED BY <2>1, <2>2, <2>3 DEF AboveIn
<1>5. UpperSet(D \cup {r}, S)
  BY <1>4 DEF UpperSet
<1> QED BY <1>4, <1>5
----------------------------------------------------------------------------
(***************************************************************************)
(* Pieces of code.                                                         *)
(***************************************************************************)
Is(t, o, i) == o \in DOMAIN t /\ t[o] = i

\* f @@ g is f, and g elsewhere.
LEMMA Merged ==
    ASSUME NEW f, NEW g
    PROVE  /\ DOMAIN (f @@ g) = DOMAIN f \cup DOMAIN g
           /\ \A o, i : Is(f, o, i) => Is(f @@ g, o, i)
           /\ \A o, i : o \notin DOMAIN f /\ Is(g, o, i) => Is(f @@ g, o, i)
BY DEF @@, Is

\* A single instruction, or none.
LEMMA Single ==
    ASSUME NEW o, NEW i
    PROVE  DOMAIN (o :> i) = {o} /\ Is(o :> i, o, i)
BY DEF :>, Is

\* Each register has its instruction, in the order of the registers.
LEMMA PushesAt ==
    ASSUME Saved \in SUBSET Regs
    PROVE  /\ DOMAIN PushesX64 = {4 + Bytes(BelowIn(Saved, r)) : r \in Saved}
           /\ \A r \in Saved : Is(PushesX64, 4 + Bytes(BelowIn(Saved, r)), Push(r))
<1> DEFINE pos(r) == 4 + Bytes(BelowIn(Saved, r))
<1>1. PushesX64 = [o \in {pos(r) : r \in Saved} |-> Push(CHOOSE r \in Saved : pos(r) = o)]
  BY DEF PushesX64, Each, Below, BelowIn
<1>2. ASSUME NEW q \in Saved, NEW r \in Saved, q # r PROVE pos(q) # pos(r)
  <2>1. q \in Nat /\ r \in Nat /\ PushSize(q) \in {1, 2} /\ PushSize(r) \in {1, 2}
    BY DEF Regs, PushSize
  <2>2. Bytes(BelowIn(Saved, q)) \in Nat /\ Bytes(BelowIn(Saved, r)) \in Nat
    BY BelowRoom
  <2>3. CASE q < r
    <3>1. Bytes(BelowIn(Saved, q)) + PushSize(q) <= Bytes(BelowIn(Saved, r))
      BY <2>3, BelowRoom
    <3> QED BY <2>1, <2>2, <3>1
  <2>4. CASE r < q
    <3>1. Bytes(BelowIn(Saved, r)) + PushSize(r) <= Bytes(BelowIn(Saved, q))
      BY <2>4, BelowRoom
    <3> QED BY <2>1, <2>2, <3>1
  <2> QED BY <1>2, <2>1, <2>3, <2>4
<1> HIDE DEF pos
<1>3. \A r \in Saved : Is(PushesX64, pos(r), Push(r))
  BY <1>1, <1>2 DEF Is
<1>4. DOMAIN PushesX64 = {pos(r) : r \in Saved}
  BY <1>1
<1> QED BY <1>3, <1>4 DEF pos

\* The pops of an epilogue are where the sizes of those before them put them.
LEMMA PopsAt ==
    ASSUME Saved \in SUBSET Regs, NEW k \in Nat
    PROVE  LET e == Each(Saved, LAMBDA r : k + Bytes(Above(r)), Pop)
           IN  /\ DOMAIN e = {k + Bytes(AboveIn(Saved, r)) : r \in Saved}
               /\ \A r \in Saved : Is(e, k + Bytes(AboveIn(Saved, r)), Pop(r))
<1> DEFINE pos(r) == k + Bytes(AboveIn(Saved, r))
           e == Each(Saved, LAMBDA r : k + Bytes(Above(r)), Pop)
<1>1. e = [o \in {pos(r) : r \in Saved} |-> Pop(CHOOSE r \in Saved : pos(r) = o)]
  BY DEF Each, Above, AboveIn
<1>2. ASSUME NEW q \in Saved, NEW r \in Saved, q # r PROVE pos(q) # pos(r)
  <2>1. q \in Nat /\ r \in Nat /\ PushSize(q) \in {1, 2} /\ PushSize(r) \in {1, 2}
    BY DEF Regs, PushSize
  <2>2. Bytes(AboveIn(Saved, q)) \in Nat /\ Bytes(AboveIn(Saved, r)) \in Nat
    BY AboveRoom
  <2>3. CASE q > r
    <3>1. Bytes(AboveIn(Saved, q)) + PushSize(q) <= Bytes(AboveIn(Saved, r))
      BY <2>3, AboveRoom
    <3> QED BY <2>1, <2>2, <3>1
  <2>4. CASE r > q
    <3>1. Bytes(AboveIn(Saved, r)) + PushSize(r) <= Bytes(AboveIn(Saved, q))
      BY <2>4, AboveRoom
    <3> QED BY <2>1, <2>2, <3>1
  <2> QED BY <1>2, <2>1, <2>3, <2>4
<1> HIDE DEF pos
<1>3. \A r \in Saved : Is(e, pos(r), Pop(r))
  <2> HIDE DEF e
  <2> QED BY <1>1, <1>2 DEF Is
<1>4. DOMAIN e = {pos(r) : r \in Saved}
  <2> HIDE DEF e
  <2> QED BY <1>1
<1> QED BY <1>3, <1>4 DEF pos

\* The epilogue of x86-64 at the offset f of the text t.
EpiX64(S, b, t, f) ==
    /\ Is(t, f, b)
    /\ \A r \in S : Is(t, f + b.size + Bytes(AboveIn(S, r)), Pop(r))
    /\ Is(t, f + b.size + Bytes(S), Pop(5))
    /\ Is(t, f + b.size + Bytes(S) + 1, Inst("ret", 0, 1))

\* The epilogue fits in the room that gen_func_epilog left for it.
LEMMA EpilogueX64Is ==
    ASSUME Saved \in SUBSET Regs, Bytes(Saved) <= Bytes(CsrX64), CsrX64 \in SUBSET Regs
    PROVE  /\ EpiX64(Saved, BackX64, EpilogueX64, 0)
           /\ \A p \in DOMAIN EpilogueX64 : p \in Nat /\ p < EpilogueRoom("x64", dyn_alloca)
           /\ SizeX64 = BackX64.size + Bytes(Saved) + 2 /\ SizeX64 <= EpilogueRoom("x64", dyn_alloca)
           /\ BackX64.size \in {3, 4, 7}
<1> DEFINE k == BackX64.size
           n == Bytes(Saved)
           room == EpilogueRoom("x64", dyn_alloca)
           a == 0 :> BackX64
           b == Each(Saved, LAMBDA r : k + Bytes(Above(r)), Pop)
           c == (SizeX64 - 2) :> Pop(FP("x64"))
           d == (SizeX64 - 1) :> Inst("ret", 0, 1)
           e == Nop(SizeX64, room - SizeX64)
<1>1. k \in {3, 4, 7}
  BY DEF BackX64, Inst
<1>2. n \in Nat /\ SizeX64 = k + n + 2 /\ room = 9 + Bytes(CsrX64) /\ Bytes(CsrX64) \in Nat
  BY BytesSize DEF SizeX64, EpilogueRoom, SaveRoom
<1>3. EpilogueX64 = (((a @@ b) @@ c) @@ d) @@ e
  BY DEF EpilogueX64
<1>4. /\ DOMAIN a = {0} /\ Is(a, 0, BackX64)
      /\ DOMAIN c = {k + n} /\ Is(c, k + n, Pop(5))
      /\ DOMAIN d = {k + n + 1} /\ Is(d, k + n + 1, Inst("ret", 0, 1))
  <2>1. SizeX64 - 2 = k + n /\ SizeX64 - 1 = k + n + 1
    BY <1>1, <1>2
  <2>2. FP("x64") = 5
    BY DEF FP
  <2> HIDE DEF k, n
  <2> QED BY <2>1, <2>2, Single
<1>5. \A p \in DOMAIN e : p = SizeX64 /\ SizeX64 < room
  <2>1. CASE room - SizeX64 = 0
    BY <2>1 DEF Nop
  <2>2. CASE room - SizeX64 # 0
    <3>1. DOMAIN e = {SizeX64}
      BY <2>2 DEF Nop, :>
    <3>2. SizeX64 < room
      BY <1>1, <1>2, <2>2
    <3> QED BY <3>1, <3>2
  <2> QED BY <2>1, <2>2
<1>6. /\ DOMAIN b = {k + Bytes(AboveIn(Saved, r)) : r \in Saved}
      /\ \A r \in Saved : Is(b, k + Bytes(AboveIn(Saved, r)), Pop(r))
  <2>1. k \in Nat
    BY <1>1
  <2> HIDE DEF k
  <2> QED BY <2>1, PopsAt
<1>7. \A r \in Saved : Bytes(AboveIn(Saved, r)) \in Nat /\ Bytes(AboveIn(Saved, r)) < n
  <2> SUFFICES ASSUME NEW r \in Saved
               PROVE  Bytes(AboveIn(Saved, r)) \in Nat /\ Bytes(AboveIn(Saved, r)) < n
    OBVIOUS
  <2>1. Bytes(AboveIn(Saved, r)) + PushSize(r) <= n /\ Bytes(AboveIn(Saved, r)) \in Nat
    BY AboveRoom
  <2>2. PushSize(r) \in {1, 2}
    BY DEF PushSize
  <2> HIDE DEF n
  <2> QED BY <1>2, <2>1, <2>2
<1> HIDE DEF k, n, room, a, b, c, d, e
<1>8. \A p \in DOMAIN b : p \in Nat /\ p > 0 /\ p < k + n
  BY <1>1, <1>2, <1>6, <1>7
<1>9. /\ Is(EpilogueX64, 0, BackX64)
      /\ \A r \in Saved : Is(EpilogueX64, k + Bytes(AboveIn(Saved, r)), Pop(r))
      /\ Is(EpilogueX64, k + n, Pop(5))
      /\ Is(EpilogueX64, k + n + 1, Inst("ret", 0, 1))
  <2>0. DOMAIN (a @@ b) = DOMAIN a \cup DOMAIN b /\ DOMAIN ((a @@ b) @@ c) = DOMAIN (a @@ b) \cup DOMAIN c
    BY Merged
  <2>1. Is(a @@ b, 0, BackX64) /\ \A r \in Saved : Is(a @@ b, k + Bytes(AboveIn(Saved, r)), Pop(r))
    <3>1. \A r \in Saved : k + Bytes(AboveIn(Saved, r)) \notin DOMAIN a
      BY <1>1, <1>4, <1>7
    <3> QED BY <1>4, <1>6, <3>1, Merged
  <2>2. k + n \notin DOMAIN (a @@ b) /\ k + n + 1 \notin DOMAIN ((a @@ b) @@ c)
    <3>1. k + n \notin DOMAIN a /\ k + n \notin DOMAIN b /\ k + n + 1 \notin DOMAIN a
          /\ k + n + 1 \notin DOMAIN b /\ k + n + 1 \notin DOMAIN c
      BY <1>1, <1>2, <1>4, <1>8
    <3> QED BY <2>0, <3>1
  <2>3. \A o, i : Is((a @@ b) @@ c, o, i) => Is(EpilogueX64, o, i)
    <3>1. \A o, i : Is((a @@ b) @@ c, o, i) => Is(((a @@ b) @@ c) @@ d, o, i)
      BY Merged
    <3>2. \A o, i : Is(((a @@ b) @@ c) @@ d, o, i) => Is((((a @@ b) @@ c) @@ d) @@ e, o, i)
      BY Merged
    <3> QED BY <1>3, <3>1, <3>2
  <2>4. \A o, i : Is(a @@ b, o, i) => Is((a @@ b) @@ c, o, i)
    BY Merged
  <2>5. Is((a @@ b) @@ c, k + n, Pop(5))
    BY <1>4, <2>2, Merged
  <2>6. Is(((a @@ b) @@ c) @@ d, k + n + 1, Inst("ret", 0, 1))
    BY <1>4, <2>2, Merged
  <2>7. Is(EpilogueX64, k + n + 1, Inst("ret", 0, 1))
    <3>1. \A o, i : Is(((a @@ b) @@ c) @@ d, o, i) => Is((((a @@ b) @@ c) @@ d) @@ e, o, i)
      BY Merged
    <3> QED BY <1>3, <2>6, <3>1
  <2> QED BY <2>1, <2>3, <2>4, <2>5, <2>7
<1>10. ASSUME NEW p \in DOMAIN EpilogueX64 PROVE p \in Nat /\ p < room
  <2>1. p \in DOMAIN a \/ p \in DOMAIN b \/ p \in DOMAIN c \/ p \in DOMAIN d \/ p \in DOMAIN e
    <3>1. /\ DOMAIN (a @@ b) = DOMAIN a \cup DOMAIN b
          /\ DOMAIN ((a @@ b) @@ c) = DOMAIN (a @@ b) \cup DOMAIN c
          /\ DOMAIN (((a @@ b) @@ c) @@ d) = DOMAIN ((a @@ b) @@ c) \cup DOMAIN d
          /\ DOMAIN ((((a @@ b) @@ c) @@ d) @@ e) = DOMAIN (((a @@ b) @@ c) @@ d) \cup DOMAIN e
      BY Merged
    <3> QED BY <1>3, <3>1
  <2>2. k + n + 2 <= room
    BY <1>1, <1>2 DEF n
  <2> QED BY <1>1, <1>2, <1>4, <1>5, <1>8, <2>1, <2>2
<1>11. EpiX64(Saved, BackX64, EpilogueX64, 0)
  <2>1. 0 + k = k /\ k \in Nat /\ n \in Nat
    BY <1>1, <1>2
  <2> QED BY <1>9, <2>1 DEF EpiX64, k, n
<1>12. SizeX64 <= room
  BY <1>1, <1>2 DEF n
<1> QED BY <1>1, <1>2, <1>10, <1>11, <1>12 DEF k, n, room
----------------------------------------------------------------------------
(***************************************************************************)
(* The epilogues, each in the room that gen_func_epilog left for it.       *)
(***************************************************************************)
Apart(R, room) == \A f, g \in R : f = g \/ f + room <= g \/ g + room <= f

\* finish_func writes the epilogue at each return and nothing elsewhere.
LEMMA EpiloguesIn ==
    ASSUME NEW t, NEW room \in Nat, Rets \in SUBSET Nat, Apart(Rets, room),
           \A p \in DOMAIN Epilogue : p \in Nat /\ p < room
    PROVE  /\ \A f \in Rets : \A p, i : Is(Epilogue, p, i) => Is(WithEpilogues(t), f + p, i)
           /\ \A o \in Nat : \A i : /\ \A f \in Rets : o < f \/ f + room <= o
                                    /\ Is(t, o, i)
                                    => Is(WithEpilogues(t), o, i)
<1> DEFINE code == Epilogue
           in(o) == CHOOSE f \in Rets : o - f \in DOMAIN code
           places == {f + p : f \in Rets, p \in DOMAIN code}
           w == [o \in places |-> code[o - in(o)]]
<1>1. WithEpilogues(t) = w @@ t
  BY DEF WithEpilogues
<1>2. DOMAIN w = places /\ \A o \in places : w[o] = code[o - in(o)]
  OBVIOUS
<1>3. ASSUME NEW f \in Rets, NEW p \in DOMAIN code PROVE in(f + p) = f
  <2>1. f \in Nat /\ p \in Nat /\ p < room /\ (f + p) - f = p
    OBVIOUS
  <2>2. ASSUME NEW g \in Rets, (f + p) - g \in DOMAIN code PROVE g = f
    <3>1. g \in Nat /\ (f + p) - g \in Nat /\ (f + p) - g < room
      BY <2>2
    <3>2. f = g \/ f + room <= g \/ g + room <= f
      BY DEF Apart
    <3> QED BY <2>1, <3>1, <3>2
  <2> HIDE DEF code
  <2> QED BY <2>1, <2>2
<1> HIDE DEF code, in
<1>4. ASSUME NEW f \in Rets, NEW p, NEW i, Is(code, p, i)
      PROVE  Is(w @@ t, f + p, i)
  <2>1. p \in DOMAIN code /\ code[p] = i /\ f \in Nat /\ p \in Nat
    BY <1>4 DEF Is, code
  <2>2. f + p \in places /\ in(f + p) = f /\ (f + p) - f = p
    BY <1>3, <2>1
  <2> HIDE DEF places
  <2>3. Is(w, f + p, i)
    BY <1>2, <2>1, <2>2 DEF Is
  <2> QED BY <2>3, Merged
<1>5. ASSUME NEW o \in Nat, NEW i, \A f \in Rets : o < f \/ f + room <= o, Is(t, o, i)
      PROVE  Is(w @@ t, o, i)
  <2>1. o \notin places
    <3> SUFFICES ASSUME NEW f \in Rets, NEW p \in DOMAIN code, o = f + p PROVE FALSE
      OBVIOUS
    <3>1. f \in Nat /\ p \in Nat /\ p < room
      BY DEF code
    <3>2. o < f \/ f + room <= o
      BY <1>5
    <3> QED BY <3>1, <3>2
  <2> HIDE DEF places, w
  <2>2. o \notin DOMAIN w
    BY <1>2, <2>1
  <2> QED BY <1>5, <2>2, Merged
<1> HIDE DEF w
<1> QED BY <1>1, <1>4, <1>5 DEF code
----------------------------------------------------------------------------
(***************************************************************************)
(* What holds while the body is emitted: the room of the prologue, the     *)
(* instructions of the body and the room of each epilogue lie apart.       *)
(***************************************************************************)
Room == EpilogueRoom(arch, dyn_alloca)
\* The offset at which the body starts.
Top == PrologueRoom(arch) + (IF stack_args THEN 4 ELSE 0)
BodyInst(i, dyn) == i = Inst("work", 0, 4) \/ (dyn /\ i = Inst("alloca", 0, 4))

FnTypes ==
    /\ arch \in {"x64", "a64"} /\ dyn_alloca \in BOOLEAN /\ stack_args \in BOOLEAN
    /\ arch = "x64" => ~stack_args
    /\ clobbered \in SUBSET Csr(arch) /\ frame_size \in Nat /\ Base(arch) <= frame_size
    /\ body \in SUBSET Nat /\ func_ret_offs \in Seq(Nat)

EmitRooms ==
    /\ offset \in Nat /\ Top \in Nat /\ Top <= offset /\ (offset = Top \/ Top \in Targets)
    /\ \A o \in body : /\ Top <= o /\ o + 4 <= offset
                       /\ o \in DOMAIN text /\ BodyInst(text[o], dyn_alloca)
    /\ \A f \in Rets : Top <= f /\ f + Room <= offset
    /\ Apart(Rets, Room)
    /\ \A o \in body, f \in Rets : o + 4 <= f \/ f + Room <= o

EmitHead ==
    arch = "x64" => /\ Is(text, 0, Push(5)) /\ Is(text, 1, Inst("mov_fp_sp", 0, 3))
                    /\ 4 + Bytes(CsrX64) \in DOMAIN text

EmitInv == phase = "emit" => EmitRooms /\ EmitHead

\* Callee-saved registers are registers.
LEMMA CsrRegs ==
    /\ CsrX64 \in SUBSET Regs /\ CsrX64 \in SUBSET (0 .. 15) /\ 5 \notin CsrX64
    /\ CsrA64 \in SUBSET Regs /\ 29 \notin CsrA64 /\ 30 \notin CsrA64
<1>1. CsrX64 \in SUBSET (0 .. 15) /\ 4 \notin CsrX64 /\ 5 \notin CsrX64
  BY FrameAssumption
<1>2. 0 .. 15 \subseteq Regs /\ (0 .. 28) \cup (32 .. 63) \subseteq Regs
  BY DEF Regs
<1>3. 29 \notin (0 .. 28) \cup (32 .. 63) /\ 30 \notin (0 .. 28) \cup (32 .. 63)
  OBVIOUS
<1> QED BY <1>1, <1>2, <1>3, FrameAssumption

\* Returns are offsets, and so are the other targets of branches.
LEMMA TargetTypes ==
    ASSUME FnTypes
    PROVE  Rets \in SUBSET Nat /\ Targets \in SUBSET Nat
<1>1. Rets \in SUBSET Nat
  BY DEF FnTypes, Rets
<1> QED BY <1>1 DEF FnTypes, Targets

\* Cutting off the unused end of the last epilogue cuts nothing else off.
LEMMA EndCovers ==
    ASSUME FnTypes, EmitRooms, NEW size \in Nat, Room \in Nat, 0 < size, size <= Room,
           Unused = Room - size
    PROVE  /\ End \in Nat
           /\ \A o \in body : o + 4 <= End
           /\ \A f \in Rets : f + size <= End
<1> DEFINE last == offset - Room
<1>1. Rets \in SUBSET Nat /\ body \in SUBSET Nat /\ offset \in Nat
  BY TargetTypes DEF FnTypes, EmitRooms
<1>2. End = IF last \in Rets THEN offset - (Room - size) ELSE offset
  BY DEF End, EndsInRet, Room
<1>3. /\ \A o \in body : o + 4 <= offset /\ \A f \in Rets : o + 4 <= f \/ f + Room <= o
      /\ \A f \in Rets : f + Room <= offset
      /\ \A f, g \in Rets : f = g \/ f + Room <= g \/ g + Room <= f
  BY DEF EmitRooms, Apart
<1>4. CASE last \in Rets
  <2>1. End = last + size /\ last \in Nat
    BY <1>1, <1>2, <1>4
  <2>2. ASSUME NEW o \in body PROVE o + 4 <= End
    <3>1. o + 4 <= last \/ last + Room <= o
      BY <1>3, <1>4
    <3>2. o + 4 <= offset /\ o \in Nat
      BY <1>1, <1>3
    <3> QED BY <1>1, <2>1, <3>1, <3>2
  <2>3. ASSUME NEW f \in Rets PROVE f + size <= End
    <3>1. f = last \/ f + Room <= last \/ last + Room <= f
      BY <1>3, <1>4
    <3>2. f + Room <= offset /\ f \in Nat
      BY <1>1, <1>3
    <3> QED BY <1>1, <2>1, <3>1, <3>2
  <2> QED BY <2>1, <2>2, <2>3
<1>5. CASE last \notin Rets
  <2>1. End = offset
    BY <1>2, <1>5
  <2>2. ASSUME NEW f \in Rets PROVE f + size <= End
    <3>1. f + Room <= offset /\ f \in Nat
      BY <1>1, <1>3
    <3> QED BY <1>1, <2>1, <3>1
  <2> QED BY <1>1, <1>3, <2>1, <2>2
<1> QED BY <1>4, <1>5

\* Rounding up,
LEMMA AlignUp ==
    ASSUME NEW n \in Nat
    PROVE  /\ align_up(n, 16) \in Nat /\ n <= align_up(n, 16) /\ align_up(n, 16) < n + 16
           /\ align_up(n, 16) % 16 = 0
           /\ align_up(n, 4096) \in Nat /\ n <= align_up(n, 4096) /\ align_up(n, 4096) < n + 4096
           /\ align_up(n, 4096) % 4096 = 0
BY DEF align_up

\* ... and the rooms that depend on it.
LEMMA RoomTypes ==
    /\ \A S \in SUBSET Regs : /\ HalfUp(S) \in Nat /\ Cardinality(S) <= 2 * HalfUp(S)
                              /\ 2 * HalfUp(S) <= Cardinality(S) + 1
    /\ \A a \in {"x64", "a64"} : /\ SaveRoom(a) \in Nat /\ PrologueRoom(a) \in Nat
                                 /\ Base(a) \in Nat /\ VarargArea(a) \in Nat
                                 /\ \A d \in BOOLEAN : EpilogueRoom(a, d) \in Nat
<1>1. \A S \in SUBSET Regs : /\ HalfUp(S) \in Nat /\ Cardinality(S) <= 2 * HalfUp(S)
                             /\ 2 * HalfUp(S) <= Cardinality(S) + 1
  <2> SUFFICES ASSUME NEW S \in SUBSET Regs
               PROVE  /\ HalfUp(S) \in Nat /\ Cardinality(S) <= 2 * HalfUp(S)
                      /\ 2 * HalfUp(S) <= Cardinality(S) + 1
    OBVIOUS
  <2>1. Cardinality(S) \in Nat
    BY RegSets
  <2> QED BY ONLY <2>1 DEF HalfUp
<1>2. ASSUME NEW a \in {"x64", "a64"}
      PROVE  SaveRoom(a) \in Nat
  <2>1. CASE a = "x64"
    BY <2>1, CsrRegs, BytesSize DEF SaveRoom
  <2>2. CASE a = "a64"
    <3>1. HalfUp({r \in CsrA64 : Gp(r)}) \in Nat /\ HalfUp({r \in CsrA64 : ~Gp(r)}) \in Nat
      BY <1>1, CsrRegs
    <3> QED BY <2>2, <3>1 DEF SaveRoom
  <2> QED BY <2>1, <2>2
<1>3. ASSUME NEW a \in {"x64", "a64"}
      PROVE  PrologueRoom(a) \in Nat /\ \A d \in BOOLEAN : EpilogueRoom(a, d) \in Nat
  BY <1>2 DEF PrologueRoom, EpilogueRoom
<1>4. ASSUME NEW a \in {"x64", "a64"}
      PROVE  Base(a) \in Nat /\ VarargArea(a) \in Nat
  <2>1. Cardinality(Csr(a)) \in Nat
    BY RegSets, CsrRegs DEF Csr
  <2>2. 8 * Cardinality(Csr(a)) \in Nat
    BY ONLY <2>1
  <2>3. align_up(8 * Cardinality(Csr(a)), 16) \in Nat
    BY <2>2, AlignUp
  <2> QED BY <2>2, <2>3 DEF Base, VarargArea
<1> QED BY <1>1, <1>2, <1>3, <1>4

\* Nothing is emitted at first.
LEMMA EmitInit ==
    ASSUME Init
    PROVE  FnTypes /\ EmitInv
<1>1. arch \in {"x64", "a64"} /\ dyn_alloca \in BOOLEAN /\ stack_args \in BOOLEAN
  BY FrameAssumption DEF Init
<1>2. /\ body = {} /\ func_ret_offs = <<>> /\ Rets = {}
      /\ offset = Top
  <2>1. func_ret_offs = <<>> /\ body = {}
    BY DEF Init
  <2>2. Rets = {}
    BY <2>1 DEF Rets
  <2>3. PrologueRoom(arch) \in Nat
    BY <1>1, RoomTypes
  <2> QED BY <2>1, <2>2, <2>3 DEF Init, Top
<1>3. FnTypes
  <2>1. Base(arch) \in Nat /\ VarargArea(arch) \in Nat
    BY <1>1, RoomTypes
  <2>2. frame_size = Base(arch) + (IF vararg THEN VarargArea(arch) ELSE 0) /\ clobbered = {}
        /\ (arch = "x64" => ~stack_args)
    BY DEF Init
  <2>3. frame_size \in Nat /\ Base(arch) <= frame_size
    BY <2>1, <2>2
  <2> QED BY <1>1, <1>2, <2>2, <2>3 DEF FnTypes
<1>4. EmitRooms
  <2>1. Top \in Nat
    BY <1>1, RoomTypes DEF Top
  <2> QED BY <1>2, <2>1 DEF EmitRooms, Apart
<1>5. EmitHead
  <2> SUFFICES ASSUME arch = "x64"
               PROVE  /\ Is(text, 0, Push(5)) /\ Is(text, 1, Inst("mov_fp_sp", 0, 3))
                      /\ 4 + Bytes(CsrX64) \in DOMAIN text
    BY DEF EmitHead
  <2> DEFINE a == 0 :> Push(5)
             b == 1 :> Inst("mov_fp_sp", 0, 3)
             c == (4 + Bytes(CsrX64)) :> Inst("sub_sp", 2147483647, 7)
  <2>1. text = (a @@ b) @@ c
    <3>1. text = ((0 :> Push(FP("x64"))) @@ b) @@ (4 + SaveRoom("x64") :> Inst("sub_sp", 2147483647, 7))
      BY DEF Init
    <3>2. FP("x64") = 5 /\ SaveRoom("x64") = Bytes(CsrX64)
      BY DEF FP, SaveRoom
    <3> QED BY <3>1, <3>2
  <2>2. DOMAIN a = {0} /\ Is(a, 0, Push(5)) /\ Is(b, 1, Inst("mov_fp_sp", 0, 3))
        /\ DOMAIN c = {4 + Bytes(CsrX64)}
    <3>1. DOMAIN a = {0} /\ Is(a, 0, Push(5))
      BY Single, SMT
    <3>2. Is(b, 1, Inst("mov_fp_sp", 0, 3))
      BY SMT DEF :>, Is
    <3>3. DOMAIN c = {4 + Bytes(CsrX64)}
      BY SMT DEF :>
    <3> QED BY <3>1, <3>2, <3>3
  <2> HIDE DEF a, b, c
  <2>3. Is(a @@ b, 0, Push(5)) /\ Is(a @@ b, 1, Inst("mov_fp_sp", 0, 3))
    <3>1. 1 \notin DOMAIN a
      BY <2>2
    <3> QED BY <2>2, <3>1, Merged
  <2>4. /\ Is((a @@ b) @@ c, 0, Push(5)) /\ Is((a @@ b) @@ c, 1, Inst("mov_fp_sp", 0, 3))
    BY <2>3, Merged
  <2>5. DOMAIN ((a @@ b) @@ c) = DOMAIN (a @@ b) \cup DOMAIN c
    BY Merged
  <2> QED BY <2>1, <2>2, <2>4, <2>5
<1> QED BY <1>3, <1>4, <1>5 DEF EmitInv

\* An instruction of the body.
LEMMA EmitBodyStep ==
    ASSUME FnTypes, EmitRooms, EmitHead, NEW op \in {"work", "alloca"}, EmitBody(op)
    PROVE  FnTypes' /\ EmitRooms' /\ EmitHead'
<1> DEFINE i == Inst(op, 0, 4)
           one == offset :> i
<1>1. /\ UNCHANGED <<arch, vararg, dyn_alloca, stack_args, clobbered, frame_size, func_ret_offs>>
      /\ text' = one @@ text /\ body' = body \cup {offset} /\ offset' = offset + 4
      /\ op = "alloca" => dyn_alloca
  BY DEF EmitBody, config
<1>2. DOMAIN one = {offset} /\ Is(one, offset, i)
  BY SMT DEF :>, Is
<1>3. /\ UNCHANGED <<Rets, Top, Room>>
  BY <1>1 DEF Rets, Top, Room
<1>4. Rets \in SUBSET Nat /\ body \in SUBSET Nat /\ offset \in Nat /\ Top \in Nat /\ Top <= offset
  BY TargetTypes DEF FnTypes, EmitRooms
<1> HIDE DEF one
<1>5. FnTypes'
  BY <1>1, <1>4 DEF FnTypes
<1>6. \A o, j : o # offset /\ Is(text, o, j) => Is(text', o, j)
  BY <1>1, <1>2, Merged
<1>7. Is(text', offset, i)
  BY <1>1, <1>2, Merged
<1>8. BodyInst(i, dyn_alloca)
  BY <1>1 DEF BodyInst
<1>9. EmitRooms'
  <2>1. (offset' \in Nat /\ Top \in Nat /\ Top <= offset' /\ (offset' = Top \/ Top \in Targets'))
    <3>1. Targets' = Targets \cup {offset}
      BY <1>1, <1>3 DEF Targets
    <3> QED BY <1>1, <1>4, <3>1 DEF EmitRooms
  <2>2. ASSUME NEW o \in body'
        PROVE  Top <= o /\ o + 4 <= offset' /\ o \in DOMAIN text' /\ BodyInst(text'[o], dyn_alloca)
    <3>1. CASE o = offset
      <4>1. o \in DOMAIN text' /\ text'[o] = i
        BY <1>7, <3>1 DEF Is
      <4>2. BodyInst(text'[o], dyn_alloca)
        BY <1>8, <4>1
      <4> QED BY <1>1, <1>4, <3>1, <4>1, <4>2
    <3>2. CASE o # offset
      <4>1. o \in body /\ o \in Nat
        BY <1>1, <1>4, <3>2
      <4>2. Top <= o /\ o + 4 <= offset /\ o \in DOMAIN text /\ BodyInst(text[o], dyn_alloca)
        BY <4>1 DEF EmitRooms
      <4>3. o \in DOMAIN text' /\ text'[o] = text[o]
        BY <1>6, <3>2, <4>2 DEF Is
      <4>4. BodyInst(text'[o], dyn_alloca)
        BY <4>2, <4>3
      <4> QED BY <1>1, <1>4, <4>1, <4>2, <4>3, <4>4
    <3> QED BY <3>1, <3>2
  <2>3. ASSUME NEW f \in Rets
        PROVE  Top <= f /\ f + Room <= offset' /\ (offset + 4 <= f \/ f + Room <= offset)
    <3>1. Top <= f /\ f + Room <= offset /\ f \in Nat
      BY <1>4 DEF EmitRooms
    <3>2. Room \in Nat
      BY RoomTypes DEF Room, FnTypes
    <3> QED BY <1>1, <1>4, <3>1, <3>2
  <2>4. \A o \in body', f \in Rets : o + 4 <= f \/ f + Room <= o
    <3>1. \A o \in body, f \in Rets : o + 4 <= f \/ f + Room <= o
      BY DEF EmitRooms
    <3> QED BY <1>1, <2>3, <3>1
  <2>5. Apart(Rets, Room)
    BY DEF EmitRooms
  <2> QED BY <1>1, <1>3, <2>1, <2>2, <2>3, <2>4, <2>5 DEF EmitRooms
<1>10. EmitHead'
  <2> SUFFICES ASSUME arch = "x64"
               PROVE  /\ Is(text', 0, Push(5)) /\ Is(text', 1, Inst("mov_fp_sp", 0, 3))
                      /\ 4 + Bytes(CsrX64) \in DOMAIN text'
    BY <1>1 DEF EmitHead
  <2>1. Top = 4 + Bytes(CsrX64) + 7 /\ Bytes(CsrX64) \in Nat
    BY CsrRegs, BytesSize DEF Top, PrologueRoom, SaveRoom, FnTypes
  <2>2. 0 # offset /\ 1 # offset
    BY <1>4, <2>1
  <2>3. Is(text', 0, Push(5)) /\ Is(text', 1, Inst("mov_fp_sp", 0, 3))
    BY <1>6, <2>2 DEF EmitHead
  <2>4. 4 + Bytes(CsrX64) \in DOMAIN text'
    BY <1>1, <1>6, <1>7 DEF EmitHead, Is
  <2> QED BY <2>3, <2>4
<1> QED BY <1>5, <1>9, <1>10

\* The room for an epilogue.
LEMMA EpilogStep ==
    ASSUME FnTypes, EmitRooms, EmitHead, gen_func_epilog
    PROVE  FnTypes' /\ EmitRooms' /\ EmitHead'
<1>1. /\ UNCHANGED <<arch, vararg, dyn_alloca, stack_args, clobbered, frame_size, body, text>>
      /\ func_ret_offs' = Append(func_ret_offs, offset) /\ offset' = offset + Room
  BY DEF gen_func_epilog, config, Room
<1>2. UNCHANGED <<Top, Room>>
  BY <1>1 DEF Top, Room
<1>3. /\ Rets \in SUBSET Nat /\ body \in SUBSET Nat /\ offset \in Nat /\ Top \in Nat
      /\ Top <= offset /\ func_ret_offs \in Seq(Nat)
  BY TargetTypes DEF FnTypes, EmitRooms
<1>4. Room \in Nat
  BY RoomTypes DEF Room, FnTypes
<1>5. Rets' = Rets \cup {offset}
  <2>1. /\ DOMAIN func_ret_offs' = 1 .. Len(func_ret_offs) + 1 /\ Len(func_ret_offs) \in Nat
        /\ DOMAIN func_ret_offs = 1 .. Len(func_ret_offs)
        /\ \A k \in 1 .. Len(func_ret_offs) : func_ret_offs'[k] = func_ret_offs[k]
        /\ func_ret_offs'[Len(func_ret_offs) + 1] = offset
    BY <1>1, <1>3
  <2>2. \A k : k \in 1 .. Len(func_ret_offs) + 1 <=>
               k \in 1 .. Len(func_ret_offs) \/ k = Len(func_ret_offs) + 1
    BY <2>1
  <2>3. Rets' = {func_ret_offs'[k] : k \in DOMAIN func_ret_offs'}
    BY DEF Rets
  <2> QED BY <2>1, <2>2, <2>3 DEF Rets
<1>6. FnTypes'
  BY <1>1, <1>3 DEF FnTypes
<1>7. EmitHead'
  BY <1>1 DEF EmitHead
<1>8. EmitRooms'
  <2>1. (offset' \in Nat /\ Top \in Nat /\ Top <= offset' /\ (offset' = Top \/ Top \in Targets'))
    <3>1. Targets' = Targets \cup {offset}
      BY <1>1, <1>5 DEF Targets
    <3>2. Top \in Targets'
      BY <3>1 DEF EmitRooms
    <3> QED BY <1>1, <1>3, <1>4, <3>2
  <2>2. ASSUME NEW o \in body'
        PROVE  /\ Top <= o /\ o + 4 <= offset' /\ o \in DOMAIN text' /\ BodyInst(text'[o], dyn_alloca)
               /\ \A f \in Rets' : o + 4 <= f \/ f + Room <= o
    <3>1. o \in body /\ o \in Nat
      BY <1>1, <1>3
    <3>2. /\ Top <= o /\ o + 4 <= offset /\ o \in DOMAIN text /\ BodyInst(text[o], dyn_alloca)
          /\ \A f \in Rets : o + 4 <= f \/ f + Room <= o
      BY <3>1 DEF EmitRooms
    <3>3. BodyInst(text'[o], dyn_alloca)
      BY <1>1, <3>2
    <3> QED BY <1>1, <1>3, <1>4, <1>5, <3>1, <3>2, <3>3
  <2>3. ASSUME NEW f \in Rets' PROVE Top <= f /\ f + Room <= offset'
    <3>1. CASE f = offset
      BY <1>1, <1>3, <1>4, <3>1
    <3>2. CASE f \in Rets
      <4>1. Top <= f /\ f + Room <= offset /\ f \in Nat
        BY <1>3, <3>2 DEF EmitRooms
      <4> QED BY <1>1, <1>3, <1>4, <4>1
    <3> QED BY <1>5, <3>1, <3>2
  <2>4. Apart(Rets', Room)
    <3>1. \A f \in Rets : f + Room <= offset /\ f \in Nat
      BY <1>3 DEF EmitRooms
    <3>2. \A f, g \in Rets : f = g \/ f + Room <= g \/ g + Room <= f
      BY DEF EmitRooms, Apart
    <3>3. \A f, g \in Rets' : f = g \/ f + Room <= g \/ g + Room <= f
      BY <1>5, <3>1, <3>2
    <3> QED BY <3>3 DEF Apart
  <2> QED BY <1>1, <1>2, <2>1, <2>2, <2>3, <2>4 DEF EmitRooms
<1> QED BY <1>6, <1>7, <1>8
----------------------------------------------------------------------------
(***************************************************************************)
(* The finished code of x86-64: the text t, cut off at the offset end.     *)
(***************************************************************************)
Setup == 4 + Bytes(CsrX64)
Grow  == FinalX64(Cardinality(Saved))

HeadX64(t) ==
    /\ Is(t, 0, Push(5)) /\ Is(t, 1, Inst("mov_fp_sp", 0, 3))
    /\ \A r \in Saved : Is(t, 4 + Bytes(BelowIn(Saved, r)), Push(r))
    /\ Bytes(Saved) # Bytes(CsrX64) =>
          Is(t, 4 + Bytes(Saved), Inst("nop", 0, Bytes(CsrX64) - Bytes(Saved)))
    /\ Is(t, Setup, Inst("sub_sp", Grow, 7))

\* Every instruction of the body, and the branches between them, are on both targets.
BodyCode(t, end) ==
    /\ Top \in Targets /\ end \in Nat
    /\ \A x \in Targets : x \in Nat /\ Top <= x /\ x < end
    /\ \A o \in body : o + 4 <= end /\ o \in DOMAIN t /\ BodyInst(t[o], dyn_alloca)

TailX64(t, end) ==
    \A f \in Rets : EpiX64(Saved, BackX64, t, f) /\ f + SizeX64 <= end

CodeX64(t, end) == HeadX64(t) /\ BodyCode(t, end) /\ TailX64(t, end)

\* Saved registers are callee-saved registers.
LEMMA SavedX64 ==
    ASSUME FnTypes, arch = "x64"
    PROVE  /\ Saved \in SUBSET Regs /\ Saved \in SUBSET CsrX64 /\ 5 \notin Saved
           /\ Bytes(Saved) \in Nat /\ Bytes(CsrX64) \in Nat /\ Bytes(Saved) <= Bytes(CsrX64)
           /\ Cardinality(Saved) \in Nat /\ Cardinality(CsrX64) \in Nat
           /\ Cardinality(Saved) <= Cardinality(CsrX64)
           /\ Top = Setup + 7 /\ Setup \in Nat
           /\ clobbered \cap CsrX64 = Saved
<1>1. Saved \in SUBSET CsrX64 /\ clobbered \cap CsrX64 = Saved
  BY DEF Saved, Csr
<1>2. Saved \in SUBSET Regs /\ CsrX64 \in SUBSET Regs /\ 5 \notin Saved
  BY <1>1, CsrRegs
<1>3. /\ Bytes(Saved) \in Nat /\ Bytes(CsrX64) \in Nat /\ Bytes(Saved) <= Bytes(CsrX64)
      /\ Cardinality(Saved) \in Nat /\ Cardinality(CsrX64) \in Nat
      /\ Cardinality(Saved) <= Cardinality(CsrX64)
  BY <1>1, <1>2, BytesSize, RegSets
<1>4. Top = Setup + 7 /\ Setup \in Nat
  BY <1>3 DEF Top, Setup, PrologueRoom, SaveRoom, FnTypes
<1> QED BY <1>1, <1>2, <1>3, <1>4

\* The body is there, and it or a return is at its start.
LEMMA BodyCodeOf ==
    ASSUME FnTypes, EmitRooms, Terminated, NEW size \in Nat, 0 < size, size <= Room,
           End \in Nat,
           \A o \in body : /\ o + 4 <= End
                           /\ o \in DOMAIN text' /\ BodyInst(text'[o], dyn_alloca),
           \A f \in Rets : f + size <= End
    PROVE  BodyCode(text', End)
<1>1. Targets \in SUBSET Nat /\ body \in SUBSET Nat /\ Rets \in SUBSET Nat /\ Room \in Nat
      /\ offset \in Nat /\ Top \in Nat
  BY TargetTypes, RoomTypes DEF FnTypes, EmitRooms, Room
<1>2. Top \in Targets
  <2>1. Targets # {}
    <3>1. CASE EndsInRet
      BY <3>1 DEF EndsInRet, Targets
    <3>2. CASE ~EndsInRet
      BY <3>2 DEF Terminated, Targets
    <3> QED BY <3>1, <3>2
  <2>2. PICK x \in Targets : TRUE
    BY <2>1
  <2>3. x \in body => offset # Top
    <3>1. x \in body => Top <= x /\ x + 4 <= offset
      BY DEF EmitRooms
    <3> QED BY <1>1, <3>1
  <2>4. x \in Rets => offset # Top
    <3>1. x \in Rets => Top <= x /\ x + Room <= offset
      BY DEF EmitRooms
    <3> QED BY <1>1, <3>1
  <2> QED BY <2>3, <2>4 DEF EmitRooms, Targets
<1>3. ASSUME NEW x \in Targets PROVE x \in Nat /\ Top <= x /\ x < End
  <2>1. CASE x \in body
    <3>1. Top <= x /\ x + 4 <= End
      BY <2>1 DEF EmitRooms
    <3> QED BY <1>1, <3>1
  <2>2. CASE x \in Rets
    <3>1. Top <= x /\ x + size <= End
      BY <2>2 DEF EmitRooms
    <3> QED BY <1>1, <3>1
  <2> QED BY <2>1, <2>2 DEF Targets
<1> QED BY <1>2, <1>3 DEF BodyCode

\* finish_func produces this code.
LEMMA StartX64Code ==
    ASSUME FnTypes, EmitRooms, EmitHead, Terminated, Start_x64
    PROVE  CodeX64(text', End)
<1> DEFINE n == Bytes(Saved)
           tx == [text EXCEPT ![Setup] = Inst("sub_sp", Grow, 7)]
           nop == Nop(4 + n, Setup - (4 + n))
           t0 == (PushesX64 @@ nop) @@ tx
<1>1. arch = "x64"
  BY DEF Start_x64
<1>2. text' = WithEpilogues(t0)
  <2>1. SaveRoom("x64") = Bytes(CsrX64)
    BY DEF SaveRoom
  <2> QED BY <2>1 DEF Start_x64, Setup, Grow
<1>3. /\ Saved \in SUBSET Regs /\ Saved \in SUBSET CsrX64 /\ CsrX64 \in SUBSET Regs
      /\ n \in Nat /\ Bytes(CsrX64) \in Nat /\ n <= Bytes(CsrX64)
      /\ Top = Setup + 7 /\ Setup = 4 + Bytes(CsrX64)
  BY <1>1, SavedX64, CsrRegs DEF Setup
<1>4. /\ EpiX64(Saved, BackX64, Epilogue, 0)
      /\ \A p \in DOMAIN Epilogue : p \in Nat /\ p < Room
      /\ SizeX64 = BackX64.size + n + 2 /\ SizeX64 <= Room /\ BackX64.size \in {3, 4, 7}
  <2>1. Epilogue = EpilogueX64 /\ Room = EpilogueRoom("x64", dyn_alloca)
    BY <1>1 DEF Epilogue, Room
  <2> QED BY <1>3, <2>1, EpilogueX64Is
<1>5. /\ Rets \in SUBSET Nat /\ body \in SUBSET Nat /\ Targets \in SUBSET Nat /\ Room \in Nat
      /\ Apart(Rets, Room)
  BY TargetTypes, RoomTypes DEF FnTypes, EmitRooms, Room
<1>6. /\ \A f \in Rets : \A p, i : Is(Epilogue, p, i) => Is(text', f + p, i)
      /\ \A o \in Nat : \A i : /\ \A f \in Rets : o < f \/ f + Room <= o
                               /\ Is(t0, o, i)
                               => Is(text', o, i)
  <2> HIDE DEF t0
  <2> QED BY <1>2, <1>4, <1>5, EpiloguesIn
<1>7. /\ \A r \in Saved : /\ Bytes(BelowIn(Saved, r)) \in Nat /\ Bytes(BelowIn(Saved, r)) < n
      /\ DOMAIN PushesX64 = {4 + Bytes(BelowIn(Saved, r)) : r \in Saved}
      /\ \A r \in Saved : Is(PushesX64, 4 + Bytes(BelowIn(Saved, r)), Push(r))
  <2>1. ASSUME NEW r \in Saved
        PROVE  Bytes(BelowIn(Saved, r)) \in Nat /\ Bytes(BelowIn(Saved, r)) < n
    <3>1. Bytes(BelowIn(Saved, r)) + PushSize(r) <= n /\ Bytes(BelowIn(Saved, r)) \in Nat
      BY <1>3, BelowRoom
    <3>2. PushSize(r) \in {1, 2}
      BY DEF PushSize
    <3> HIDE DEF n
    <3> QED BY <1>3, <3>1, <3>2
  <2> QED BY <1>3, <2>1, PushesAt
<1> HIDE DEF n
<1>8. /\ n # Bytes(CsrX64) => Is(nop, 4 + n, Inst("nop", 0, Bytes(CsrX64) - n))
      /\ \A o \in DOMAIN nop : o = 4 + n /\ o < Setup
  <2>1. Setup - (4 + n) = Bytes(CsrX64) - n
    BY <1>3
  <2>2. CASE n = Bytes(CsrX64)
    <3>1. nop = <<>>
      BY <1>3, <2>1, <2>2 DEF Nop
    <3> QED BY <2>2, <3>1
  <2>3. CASE n # Bytes(CsrX64)
    <3>1. Bytes(CsrX64) - n # 0 /\ 4 + n < Setup
      BY <1>3, <2>3
    <3>2. nop = (4 + n :> Inst("nop", 0, Bytes(CsrX64) - n))
      BY <2>1, <3>1 DEF Nop
    <3>3. DOMAIN nop = {4 + n} /\ Is(nop, 4 + n, Inst("nop", 0, Bytes(CsrX64) - n))
      BY <3>2, SMT DEF :>, Is
    <3> QED BY <3>1, <3>3
  <2> QED BY <2>2, <2>3
<1>9. DOMAIN tx = DOMAIN text /\ Is(tx, Setup, Inst("sub_sp", Grow, 7))
      /\ \A o \in DOMAIN text : o # Setup => tx[o] = text[o]
  <2>1. Setup \in DOMAIN text
    BY <1>1 DEF EmitHead, Setup
  <2> QED BY <2>1 DEF Is
<1> HIDE DEF nop, tx
<1>10. \A o, i : Is(tx, o, i) /\ o \notin DOMAIN PushesX64 /\ o \notin DOMAIN nop => Is(t0, o, i)
  <2>1. DOMAIN (PushesX64 @@ nop) = DOMAIN PushesX64 \cup DOMAIN nop
    BY Merged
  <2> QED BY <2>1, Merged
<1>11. \A o, i : Is(PushesX64 @@ nop, o, i) => Is(t0, o, i)
  BY Merged
<1> HIDE DEF t0
<1>12. \A o \in Nat : o < Top => \A f \in Rets : o < f \/ f + Room <= o
  <2> SUFFICES ASSUME NEW o \in Nat, o < Top, NEW f \in Rets PROVE o < f
    OBVIOUS
  <2>1. Top <= f /\ f \in Nat /\ Top \in Nat
    BY <1>5 DEF EmitRooms
  <2> QED BY <2>1
<1>13. HeadX64(text')
  <2>1. Is(tx, 0, Push(5)) /\ Is(tx, 1, Inst("mov_fp_sp", 0, 3))
    <3>1. Is(text, 0, Push(5)) /\ Is(text, 1, Inst("mov_fp_sp", 0, 3)) /\ 0 # Setup /\ 1 # Setup
      BY <1>1, <1>3 DEF EmitHead
    <3> QED BY <1>9, <3>1 DEF Is
  <2>2. /\ 0 \notin DOMAIN PushesX64 /\ 1 \notin DOMAIN PushesX64 /\ Setup \notin DOMAIN PushesX64
        /\ 0 \notin DOMAIN nop /\ 1 \notin DOMAIN nop /\ Setup \notin DOMAIN nop
        /\ 4 + n \notin DOMAIN PushesX64
    <3>1. \A r \in Saved : /\ 0 # 4 + Bytes(BelowIn(Saved, r)) /\ 1 # 4 + Bytes(BelowIn(Saved, r))
                           /\ Setup # 4 + Bytes(BelowIn(Saved, r))
                           /\ 4 + n # 4 + Bytes(BelowIn(Saved, r))
      BY <1>3, <1>7
    <3>2. \A o \in DOMAIN nop : o # 0 /\ o # 1 /\ o # Setup
      BY <1>3, <1>8
    <3> QED BY <1>7, <3>1, <3>2
  <2>3. /\ Is(t0, 0, Push(5)) /\ Is(t0, 1, Inst("mov_fp_sp", 0, 3))
        /\ Is(t0, Setup, Inst("sub_sp", Grow, 7))
    BY <1>9, <1>10, <2>1, <2>2
  <2>4. \A r \in Saved : Is(t0, 4 + Bytes(BelowIn(Saved, r)), Push(r))
    BY <1>7, <1>11, Merged
  <2>5. n # Bytes(CsrX64) => Is(t0, 4 + n, Inst("nop", 0, Bytes(CsrX64) - n))
    BY <1>8, <1>11, <2>2, Merged
  <2>6. /\ 0 \in Nat /\ 1 \in Nat /\ Setup \in Nat /\ 4 + n \in Nat
        /\ 0 < Top /\ 1 < Top /\ Setup < Top /\ 4 + n < Top
        /\ \A r \in Saved : /\ 4 + Bytes(BelowIn(Saved, r)) \in Nat
                            /\ 4 + Bytes(BelowIn(Saved, r)) < Top
    BY <1>3, <1>7
  <2>7. \A o \in Nat : \A i : o < Top /\ Is(t0, o, i) => Is(text', o, i)
    BY <1>6, <1>12
  <2> QED BY <2>3, <2>4, <2>5, <2>6, <2>7 DEF HeadX64, n
<1>14. Unused = Room - SizeX64 /\ SizeX64 \in Nat /\ 0 < SizeX64
  BY <1>1, <1>3, <1>4 DEF Unused, Room
<1>15. End \in Nat /\ (\A o \in body : o + 4 <= End) /\ \A f \in Rets : f + SizeX64 <= End
  BY <1>4, <1>5, <1>14, EndCovers
<1>16. BodyCode(text', End)
  <2>1. ASSUME NEW o \in body PROVE o \in DOMAIN text' /\ BodyInst(text'[o], dyn_alloca)
    <3>1. /\ o \in Nat /\ Top <= o /\ o \in DOMAIN text /\ BodyInst(text[o], dyn_alloca)
          /\ \A f \in Rets : o + 4 <= f \/ f + Room <= o
      BY <1>5 DEF EmitRooms
    <3>2. \A f \in Rets : o < f \/ f + Room <= o
      BY <1>5, <3>1
    <3>3. Is(tx, o, text[o])
      <4>1. o # Setup
        BY <1>3, <3>1
      <4> QED BY <1>9, <3>1, <4>1 DEF Is
    <3>4. o \notin DOMAIN PushesX64 /\ o \notin DOMAIN nop
      <4>1. \A r \in Saved : o # 4 + Bytes(BelowIn(Saved, r))
        BY <1>3, <1>7, <3>1
      <4>2. \A p \in DOMAIN nop : o # p
        BY <1>3, <1>8, <3>1
      <4> QED BY <1>7, <4>1, <4>2
    <3>5. Is(text', o, text[o])
      BY <1>6, <1>10, <3>1, <3>2, <3>3, <3>4
    <3> QED BY <3>1, <3>5 DEF Is
  <2> QED BY <1>4, <1>14, <1>15, <2>1, BodyCodeOf
<1>17. TailX64(text', End)
  <2> SUFFICES ASSUME NEW f \in Rets PROVE EpiX64(Saved, BackX64, text', f)
    BY <1>15 DEF TailX64
  <2> DEFINE b == BackX64
  <2>1. b.size \in Nat /\ f \in Nat /\ n \in Nat
        /\ \A r \in Saved : Bytes(AboveIn(Saved, r)) \in Nat
    <3>1. \A r \in Saved : Bytes(AboveIn(Saved, r)) \in Nat
      BY <1>3, AboveRoom
    <3> QED BY <1>3, <1>4, <1>5, <3>1
  <2>2. /\ Is(Epilogue, 0, b)
        /\ \A r \in Saved : Is(Epilogue, 0 + b.size + Bytes(AboveIn(Saved, r)), Pop(r))
        /\ Is(Epilogue, 0 + b.size + n, Pop(5))
        /\ Is(Epilogue, 0 + b.size + n + 1, Inst("ret", 0, 1))
    BY <1>4 DEF EpiX64, n
  <2>3. /\ f + 0 = f
        /\ \A r \in Saved : f + (0 + b.size + Bytes(AboveIn(Saved, r)))
                            = f + b.size + Bytes(AboveIn(Saved, r))
        /\ f + (0 + b.size + n) = f + b.size + n
        /\ f + (0 + b.size + n + 1) = f + b.size + n + 1
    BY <2>1
  <2> HIDE DEF b
  <2>4. /\ Is(text', f, b)
        /\ \A r \in Saved : Is(text', f + b.size + Bytes(AboveIn(Saved, r)), Pop(r))
        /\ Is(text', f + b.size + n, Pop(5))
        /\ Is(text', f + b.size + n + 1, Inst("ret", 0, 1))
    BY <1>6, <2>2, <2>3
  <2> QED BY <2>4 DEF EpiX64, b, n
<1> QED BY <1>13, <1>16, <1>17 DEF CodeX64
----------------------------------------------------------------------------
(***************************************************************************)
(* Execution.                                                              *)
(***************************************************************************)
Executes == ExecPush \/ ExecPop \/ ExecFrame \/ ExecStore \/ ExecLoad \/ ExecBody \/ ExecRet

FrameOps == {"mov_fp_sp", "mov_sp_fp", "sub_sp", "add_sp", "lea_sp", "nop", "arg_ptr"}

\* The instruction at pc decides which step is taken.
LEMMA ExecOf ==
    ASSUME Executes, NEW i, Is(text, pc, i)
    PROVE  /\ i.op = "push" => ExecPush
           /\ i.op = "pop" => ExecPop
           /\ i.op \in FrameOps => ExecFrame
           /\ i.op \in {"stp", "str"} => ExecStore
           /\ i.op \in {"ldp", "ldr"} => ExecLoad
           /\ i.op \in {"work", "alloca"} => ExecBody
           /\ i.op = "ret" => ExecRet
           /\ phase = "run" /\ text[pc] = i
<1>1. text[pc] = i
  BY DEF Is
<1>2. ExecPush => At("push")
  BY DEF ExecPush
<1>3. ExecPop => At("pop")
  BY DEF ExecPop
<1>4. ExecFrame => \E o \in FrameOps : At(o)
  BY DEF ExecFrame, FrameOps
<1>5. ExecStore => At("stp") \/ At("str")
  BY DEF ExecStore
<1>6. ExecLoad => At("ldp") \/ At("ldr")
  BY DEF ExecLoad
<1>7. ExecBody => At("work") \/ At("alloca")
  BY DEF ExecBody
<1>8. ExecRet => At("ret")
  BY DEF ExecRet
<1>9. \A o : At(o) => phase = "run" /\ i.op = o
  BY <1>1 DEF At
<1> QED BY <1>1, <1>2, <1>3, <1>4, <1>5, <1>6, <1>7, <1>8, <1>9 DEF Executes, FrameOps

Old(r) == <<"old", r>>
Link   == <<"ret", 0>>
Addr(a) == <<"addr", a>>

(***************************************************************************)
(* x86-64: how far the execution is, for pc = p, sp = s, regs = g, mem = m *)
(***************************************************************************)
SlotX64(r) == -24 - 8 * Cardinality(BelowIn(Saved, r))
\* The registers that hold the caller's values: those of D, and the unsaved ones.
KeptX64(g, D) == /\ DOMAIN g = CsrX64 \cup {5}
                 /\ \A r \in CsrX64 : r \notin Saved \/ r \in D => g[r] = Old(r)
StoredX64(m, D) == /\ Is(m, -8, Link) /\ Is(m, -16, Old(5))
                   /\ \A r \in D : Is(m, SlotX64(r), Old(r))

AtEntry(p, s, g, m) == /\ p = 0 /\ s = -8 /\ KeptX64(g, Saved) /\ g[5] = Old(5)
                       /\ Is(m, -8, Link)
AtMov(p, s, g, m) == p = 1 /\ s = -16 /\ KeptX64(g, Saved) /\ StoredX64(m, {})
AtPush(D, p, s, g, m) ==
    /\ LowerSet(D, Saved) /\ p = 4 + Bytes(D) /\ s = -16 - 8 * Cardinality(D)
    /\ KeptX64(g, Saved) /\ g[5] = Addr(-16) /\ StoredX64(m, D)
AtSetup(p, s, g, m) ==
    /\ p = Setup /\ s = -16 - 8 * Cardinality(Saved)
    /\ KeptX64(g, Saved) /\ g[5] = Addr(-16) /\ StoredX64(m, Saved)
AtBodyX64(p, s, g, m) ==
    /\ p \in Targets
    /\ s \in Int /\ s <= -16 - align_up(frame_size, 16) /\ s % 16 = 0
    /\ ~dyn_alloca => s = -16 - align_up(frame_size, 16)
    /\ KeptX64(g, {}) /\ g[5] = Addr(-16) /\ StoredX64(m, Saved)
AtPop(f, D, p, s, g, m) ==
    /\ f \in Rets /\ UpperSet(D, Saved) /\ p = f + BackX64.size + Bytes(D)
    /\ s = -16 - 8 * (Cardinality(Saved) - Cardinality(D))
    /\ KeptX64(g, D) /\ g[5] = Addr(-16) /\ StoredX64(m, Saved)
AtRetX64(f, p, s, g, m) ==
    /\ f \in Rets /\ p = f + BackX64.size + Bytes(Saved) + 1
    /\ s = -8 /\ KeptX64(g, Saved) /\ g[5] = Old(5) /\ Is(m, -8, Link)

StageX64(p, s, g, m) ==
    \/ AtEntry(p, s, g, m) \/ AtMov(p, s, g, m)
    \/ \E D \in SUBSET Saved : AtPush(D, p, s, g, m)
    \/ AtSetup(p, s, g, m) \/ AtBodyX64(p, s, g, m)
    \/ \E f \in Rets, D \in SUBSET Saved : AtPop(f, D, p, s, g, m)
    \/ \E f \in Rets : AtRetX64(f, p, s, g, m)

\* A step that neither returns nor writes code.
Goes == phase' = phase /\ UNCHANGED <<config, emit>>

\* What a push does.
LEMMA PushDoes ==
    ASSUME Executes, NEW r, Is(text, pc, Push(r)), sp \in Int
    PROVE  /\ pc' = pc + PushSize(r) /\ sp' = sp - 8 /\ regs' = regs /\ Goes
           /\ Is(mem', sp - 8, regs[r])
           /\ \A a, v : a # sp - 8 /\ Is(mem, a, v) => Is(mem', a, v)
<1>1. Push(r).op = "push" /\ Push(r).arg = r /\ Push(r).size = PushSize(r)
  BY DEF Push, Inst, PushSize
<1>2. ExecPush /\ text[pc] = Push(r)
  BY <1>1, ExecOf
<1> DEFINE one == sp - 8 :> regs[r]
<1>3. pc' = pc + PushSize(r) /\ sp' = sp - 8 /\ regs' = regs /\ Goes /\ mem' = one @@ mem
  BY <1>1, <1>2 DEF ExecPush, GoOn, Arg, Goes
<1>4. DOMAIN one = {sp - 8} /\ Is(one, sp - 8, regs[r])
  BY SMT DEF :>, Is
<1> HIDE DEF one
<1>5. Is(mem', sp - 8, regs[r]) /\ \A a, v : a # sp - 8 /\ Is(mem, a, v) => Is(mem', a, v)
  BY <1>3, <1>4, Merged
<1> QED BY <1>3, <1>5

\* What a pop does.
LEMMA PopDoes ==
    ASSUME Executes, NEW r, Is(text, pc, Pop(r)), NEW v, Is(mem, sp, v), r \in DOMAIN regs
    PROVE  /\ pc' = pc + PushSize(r) /\ sp' = sp + 8 /\ mem' = mem /\ Goes
           /\ DOMAIN regs' = DOMAIN regs /\ regs'[r] = v
           /\ \A q \in DOMAIN regs : q # r => regs'[q] = regs[q]
<1>1. Pop(r).op = "pop" /\ Pop(r).arg = r /\ Pop(r).size = PushSize(r)
  BY DEF Pop, Inst, PushSize
<1>2. ExecPop /\ text[pc] = Pop(r)
  BY <1>1, ExecOf
<1>3. Load(sp) = v
  BY DEF Load, Is
<1>4. /\ pc' = pc + PushSize(r) /\ sp' = sp + 8 /\ mem' = mem /\ Goes
      /\ regs' = [regs EXCEPT ![r] = v]
  BY <1>1, <1>2, <1>3 DEF ExecPop, GoOn, Arg, Goes
<1> QED BY <1>4

\* What the frame instructions do.
LEMMA FrameDoes ==
    ASSUME Executes, NEW i, Is(text, pc, i), i.op \in FrameOps
    PROVE  /\ pc' = pc + i.size /\ mem' = mem /\ Goes
           /\ i.op = "mov_fp_sp" => regs' = [regs EXCEPT ![FP(arch)] = Addr(sp)] /\ sp' = sp
           /\ i.op # "mov_fp_sp" => regs' = regs
           /\ i.op = "mov_sp_fp" => sp' = fp
           /\ i.op = "sub_sp" => sp' = sp - i.arg
           /\ i.op = "add_sp" => sp' = sp + i.arg
           /\ i.op = "lea_sp" => sp' = fp - i.arg
           /\ i.op \in {"nop", "arg_ptr"} => sp' = sp
<1>1. ExecFrame /\ text[pc] = i
  BY ExecOf
<1>2. pc' = pc + i.size /\ mem' = mem /\ Goes
  BY <1>1 DEF ExecFrame, GoOn, Goes
<1>3. \/ i.op = "mov_fp_sp" /\ regs' = [regs EXCEPT ![FP(arch)] = Addr(sp)] /\ sp' = sp
      \/ i.op = "mov_sp_fp" /\ sp' = fp /\ regs' = regs
      \/ i.op = "sub_sp" /\ sp' = sp - i.arg /\ regs' = regs
      \/ i.op = "add_sp" /\ sp' = sp + i.arg /\ regs' = regs
      \/ i.op = "lea_sp" /\ sp' = fp - i.arg /\ regs' = regs
      \/ i.op = "nop" /\ sp' = sp /\ regs' = regs
      \/ i.op = "arg_ptr" /\ sp' = sp /\ regs' = regs
  BY <1>1 DEF ExecFrame, At, Arg, Addr
<1> QED BY <1>2, <1>3 DEF FrameOps

InX64 == FnTypes /\ arch = "x64" /\ CodeX64(text, offset)

\* push rbp
LEMMA EntryStep ==
    ASSUME InX64, Executes, AtEntry(pc, sp, regs, mem)
    PROVE  AtMov(pc', sp', regs', mem') /\ Goes
<1>1. Is(text, pc, Push(5)) /\ sp = -8 /\ pc = 0 /\ KeptX64(regs, Saved) /\ regs[5] = Old(5)
      /\ Is(mem, -8, Link)
  BY DEF InX64, CodeX64, HeadX64, AtEntry
<1>2. /\ pc' = pc + PushSize(5) /\ sp' = sp - 8 /\ regs' = regs /\ Goes
      /\ Is(mem', sp - 8, regs[5])
      /\ \A a, v : a # sp - 8 /\ Is(mem, a, v) => Is(mem', a, v)
  BY <1>1, PushDoes
<1>3. pc' = 1 /\ sp' = -16
  BY <1>1, <1>2 DEF PushSize
<1>4. Is(mem', -8, Link) /\ Is(mem', -16, Old(5))
  <2>1. sp - 8 = -16 /\ -8 # sp - 8
    BY <1>1
  <2> QED BY <1>1, <1>2, <2>1
<1> QED BY <1>1, <1>2, <1>3, <1>4 DEF AtMov, StoredX64

\* mov rbp, rsp
LEMMA MovStep ==
    ASSUME InX64, Executes, AtMov(pc, sp, regs, mem)
    PROVE  AtPush({}, pc', sp', regs', mem') /\ Goes
<1> DEFINE i == Inst("mov_fp_sp", 0, 3)
<1>1. Is(text, pc, i) /\ sp = -16 /\ pc = 1 /\ KeptX64(regs, Saved) /\ StoredX64(mem, {})
  BY DEF InX64, CodeX64, HeadX64, AtMov
<1>2. i.op = "mov_fp_sp" /\ i.size = 3 /\ i.op \in FrameOps /\ FP(arch) = 5
  BY DEF Inst, FrameOps, FP, InX64
<1> HIDE DEF i
<1>3. /\ pc' = 4 /\ mem' = mem /\ Goes /\ sp' = -16 /\ regs' = [regs EXCEPT ![5] = Addr(-16)]
  BY <1>1, <1>2, FrameDoes
<1>4. Bytes({}) = 0 /\ Cardinality({}) = 0
  <2>1. {} \in SUBSET Regs
    OBVIOUS
  <2> QED BY <2>1, BytesSize, FS_EmptySet
<1>5. KeptX64(regs', Saved) /\ regs'[5] = Addr(-16)
  <2>1. DOMAIN regs = CsrX64 \cup {5} /\ 5 \notin CsrX64
    BY <1>1, CsrRegs DEF KeptX64
  <2> QED BY <1>1, <1>3, <2>1 DEF KeptX64
<1>6. LowerSet({}, Saved)
  BY DEF LowerSet
<1> QED BY <1>1, <1>3, <1>4, <1>5, <1>6 DEF AtPush

\* push a callee-saved register, then the padding
LEMMA PushStep ==
    ASSUME InX64, Executes, NEW D \in SUBSET Saved, AtPush(D, pc, sp, regs, mem), pc # Setup
    PROVE  /\ \/ \E E \in SUBSET Saved : AtPush(E, pc', sp', regs', mem')
              \/ AtSetup(pc', sp', regs', mem')
           /\ Goes
<1>1. /\ LowerSet(D, Saved) /\ pc = 4 + Bytes(D) /\ sp = -16 - 8 * Cardinality(D)
      /\ KeptX64(regs, Saved) /\ regs[5] = Addr(-16) /\ StoredX64(mem, D)
  BY DEF AtPush
<1>2. /\ Saved \in SUBSET Regs /\ D \in SUBSET Regs /\ Saved \in SUBSET CsrX64 /\ 5 \notin Saved
      /\ Bytes(Saved) \in Nat /\ Bytes(CsrX64) \in Nat /\ Bytes(Saved) <= Bytes(CsrX64)
  BY SavedX64 DEF InX64
<1>3. Bytes(D) \in Nat /\ Cardinality(D) \in Nat
  BY <1>2, BytesSize, RegSets
<1>4. CASE D = Saved
  <2> DEFINE i == Inst("nop", 0, Bytes(CsrX64) - Bytes(Saved))
  <2>1. Bytes(Saved) # Bytes(CsrX64)
    BY <1>1, <1>4 DEF Setup
  <2>2. Is(text, pc, i)
    BY <1>1, <1>4, <2>1 DEF InX64, CodeX64, HeadX64
  <2>3. i.op = "nop" /\ i.size = Bytes(CsrX64) - Bytes(Saved) /\ i.op \in FrameOps
    BY DEF Inst, FrameOps
  <2> HIDE DEF i
  <2>4. /\ pc' = pc + (Bytes(CsrX64) - Bytes(Saved)) /\ mem' = mem /\ Goes /\ sp' = sp /\ regs' = regs
    BY <2>2, <2>3, FrameDoes
  <2>5. pc' = Setup
    BY <1>1, <1>2, <1>4, <2>4 DEF Setup
  <2> QED BY <1>1, <1>4, <2>4, <2>5 DEF AtSetup
<1>5. CASE D # Saved
  <2>1. PICK r \in Saved : r \notin D /\ D = BelowIn(Saved, r) /\ LowerSet(D \cup {r}, Saved)
    BY <1>1, <1>2, <1>5, NextUp
  <2>2. Is(text, pc, Push(r))
    BY <1>1, <2>1 DEF InX64, CodeX64, HeadX64
  <2>3. sp \in Int
    BY <1>1, <1>3
  <2>4. /\ pc' = pc + PushSize(r) /\ sp' = sp - 8 /\ regs' = regs /\ Goes
        /\ Is(mem', sp - 8, regs[r])
        /\ \A a, v : a # sp - 8 /\ Is(mem, a, v) => Is(mem', a, v)
    BY <2>2, <2>3, PushDoes
  <2>5. r \in Regs /\ Cardinality(D \cup {r}) = Cardinality(D) + 1
        /\ Bytes(D \cup {r}) = Bytes(D) + PushSize(r) /\ PushSize(r) \in Nat
    BY <1>2, <2>1, AddReg DEF PushSize
  <2>6. pc' = 4 + Bytes(D \cup {r}) /\ sp' = -16 - 8 * Cardinality(D \cup {r})
    BY <1>1, <1>3, <2>4, <2>5
  <2>7. SlotX64(r) = sp - 8
    BY <1>1, <1>3, <2>1 DEF SlotX64
  <2>8. StoredX64(mem', D \cup {r})
    <3>1. Is(mem', -8, Link) /\ Is(mem', -16, Old(5))
      <4>1. -8 # sp - 8 /\ -16 # sp - 8
        BY <1>1, <1>3
      <4> QED BY <1>1, <2>4, <4>1 DEF StoredX64
    <3>2. Is(mem', SlotX64(r), Old(r))
      <4>1. regs[r] = Old(r)
        BY <1>1, <1>2 DEF KeptX64
      <4> QED BY <2>4, <2>7, <4>1
    <3>3. ASSUME NEW q \in D PROVE Is(mem', SlotX64(q), Old(q))
      <4>1. q \in Saved /\ q < r
        BY <2>1 DEF BelowIn
      <4>2. /\ Cardinality(BelowIn(Saved, q)) \in Nat
            /\ Cardinality(BelowIn(Saved, q)) + 1 <= Cardinality(BelowIn(Saved, r))
        BY <1>2, <4>1, BelowRoom
      <4>3. SlotX64(q) # sp - 8
        BY <1>1, <1>3, <2>1, <4>2 DEF SlotX64
      <4> QED BY <1>1, <2>4, <4>3 DEF StoredX64
    <3> QED BY <3>1, <3>2, <3>3 DEF StoredX64
  <2>9. AtPush(D \cup {r}, pc', sp', regs', mem')
    BY <1>1, <2>1, <2>4, <2>6, <2>8 DEF AtPush
  <2> QED BY <2>1, <2>4, <2>9
<1> QED BY <1>4, <1>5

\* Once the registers are saved, the frame is set up.
LEMMA PushedAll ==
    ASSUME InX64, NEW D \in SUBSET Saved, AtPush(D, pc, sp, regs, mem), pc = Setup
    PROVE  AtSetup(pc, sp, regs, mem)
<1>1. /\ Saved \in SUBSET Regs
      /\ Bytes(Saved) \in Nat /\ Bytes(CsrX64) \in Nat /\ Bytes(Saved) <= Bytes(CsrX64)
  BY SavedX64 DEF InX64
<1>2. Bytes(D) \in Nat /\ Bytes(D) <= Bytes(Saved) /\ (Bytes(D) = Bytes(Saved) => D = Saved)
  BY <1>1, BytesSize
<1>3. D = Saved
  BY <1>1, <1>2 DEF AtPush, Setup
<1> QED BY <1>3 DEF AtPush, AtSetup

\* sub rsp
LEMMA SetupStep ==
    ASSUME InX64, Executes, AtSetup(pc, sp, regs, mem)
    PROVE  AtBodyX64(pc', sp', regs', mem') /\ Goes
<1> DEFINE i == Inst("sub_sp", Grow, 7)
           A == align_up(frame_size, 16)
           N == Cardinality(Saved)
<1>1. /\ Is(text, pc, i) /\ pc = Setup /\ sp = -16 - 8 * N
      /\ KeptX64(regs, Saved) /\ regs[5] = Addr(-16) /\ StoredX64(mem, Saved)
  BY DEF InX64, CodeX64, HeadX64, AtSetup
<1>2. i.op = "sub_sp" /\ i.size = 7 /\ i.op \in FrameOps /\ i.arg = Grow
  BY DEF Inst, FrameOps
<1> HIDE DEF i
<1>3. pc' = pc + 7 /\ mem' = mem /\ Goes /\ sp' = sp - Grow /\ regs' = regs
  BY <1>1, <1>2, FrameDoes
<1>4. Grow = A - 8 * N
  BY DEF Grow, FinalX64
<1>5. A \in Nat /\ A % 16 = 0
  BY AlignUp DEF InX64, FnTypes
<1>6. N \in Nat /\ Top = Setup + 7
  BY SavedX64 DEF InX64
<1> HIDE DEF A, N
<1>7. sp' = -16 - A
  BY <1>1, <1>3, <1>4, <1>5, <1>6
<1>8. sp' \in Int /\ sp' <= -16 - A /\ sp' % 16 = 0
  BY ONLY <1>5, <1>7
<1>9. pc' \in Targets
  BY <1>1, <1>3, <1>6 DEF InX64, CodeX64, BodyCode
<1>10. KeptX64(regs', {})
  BY <1>1, <1>3 DEF KeptX64
<1> QED BY <1>1, <1>3, <1>7, <1>8, <1>9, <1>10 DEF AtBodyX64, A

\* An instruction of the body.
LEMMA BodyStepX64 ==
    ASSUME InX64, Executes, AtBodyX64(pc, sp, regs, mem), pc \in body
    PROVE  AtBodyX64(pc', sp', regs', mem') /\ Goes
<1> DEFINE A == align_up(frame_size, 16)
           low == 8 * Cardinality(CsrX64)
<1>1. /\ sp \in Int /\ sp <= -16 - A /\ sp % 16 = 0 /\ (~dyn_alloca => sp = -16 - A)
      /\ KeptX64(regs, {}) /\ regs[5] = Addr(-16) /\ StoredX64(mem, Saved)
  BY DEF AtBodyX64
<1>2. pc \in DOMAIN text /\ BodyInst(text[pc], dyn_alloca)
  BY DEF InX64, CodeX64, BodyCode
<1>3. text[pc].op \in {"work", "alloca"} /\ (text[pc].op = "alloca" => dyn_alloca)
  BY <1>2 DEF BodyInst, Inst
<1>4. ExecBody
  <2>1. Is(text, pc, text[pc])
    BY <1>2 DEF Is
  <2> QED BY <1>3, <2>1, ExecOf
<1>5. Goes /\ sp' \in {sp, sp - 16} /\ (~dyn_alloca => sp' = sp)
  BY <1>3, <1>4 DEF ExecBody, Goes, At
<1>6. pc' \in Targets
  BY <1>4 DEF ExecBody, Targets
<1>7. /\ DOMAIN regs' = DOMAIN regs
      /\ \A r \in DOMAIN regs : r \notin clobbered \cup {30} => regs'[r] = regs[r]
  BY <1>4 DEF ExecBody, LR
<1>8. \A a, v : Is(mem, a, v) /\ ~Overwritten(a) => Is(mem', a, v)
  BY <1>4 DEF ExecBody, Is
<1>9. A \in Nat /\ frame_size \in Nat /\ frame_size <= A /\ low \in Nat /\ low <= frame_size
      /\ Cardinality(CsrX64) \in Nat /\ Cardinality(Saved) <= Cardinality(CsrX64)
      /\ Cardinality(Saved) \in Nat /\ Saved \in SUBSET Regs
  <2>1. frame_size \in Nat /\ Base(arch) <= frame_size /\ Base(arch) = low
    BY DEF InX64, FnTypes, Base, Csr
  <2>2. A \in Nat /\ frame_size <= A
    BY <2>1, AlignUp
  <2>3. /\ Cardinality(CsrX64) \in Nat /\ Cardinality(Saved) <= Cardinality(CsrX64)
        /\ Cardinality(Saved) \in Nat /\ Saved \in SUBSET Regs
    BY SavedX64 DEF InX64
  <2> HIDE DEF A
  <2>4. low \in Nat
    BY <2>3
  <2> QED BY <2>1, <2>2, <2>3, <2>4
<1>10. SlotBytes = -16 - frame_size .. -16 - low - 1
  <2>1. fp = -16 /\ arch = "x64" /\ Base(arch) = low
    BY <1>1 DEF fp, FP, InX64, Addr, Base, Csr
  <2> QED BY <2>1 DEF SlotBytes
<1> HIDE DEF A, low
<1>11. \A a \in Int : -16 - low <= a /\ a <= -8 => ~Overwritten(a)
  <2> SUFFICES ASSUME NEW a \in Int, -16 - low <= a PROVE ~Overwritten(a)
    OBVIOUS
  <2>1. ~(a < sp)
    BY <1>1, <1>9
  <2>2. (a .. a + 7) \cap SlotBytes = {}
    BY <1>9, <1>10
  <2> QED BY <2>1, <2>2 DEF Overwritten
<1>12. StoredX64(mem', Saved)
  <2>1. \A r \in Saved : SlotX64(r) \in Int /\ -16 - low <= SlotX64(r) /\ SlotX64(r) <= -8
    <3> SUFFICES ASSUME NEW r \in Saved
                 PROVE  SlotX64(r) \in Int /\ -16 - low <= SlotX64(r) /\ SlotX64(r) <= -8
      OBVIOUS
    <3>1. Cardinality(BelowIn(Saved, r)) \in Nat
          /\ Cardinality(BelowIn(Saved, r)) + 1 <= Cardinality(Saved)
      BY <1>9, BelowRoom
    <3> QED BY <1>9, <3>1 DEF SlotX64, low
  <2>2. -8 \in Int /\ -16 \in Int /\ -16 - low <= -8 /\ -16 - low <= -16
    BY <1>9
  <2> QED BY <1>1, <1>8, <1>11, <2>1, <2>2 DEF StoredX64
<1>13. KeptX64(regs', {}) /\ regs'[5] = Addr(-16)
  <2>1. 5 \notin clobbered \cup {30} /\ 30 \notin CsrX64
    BY CsrRegs DEF InX64, FnTypes, Csr
  <2>2. \A r \in CsrX64 : r \notin Saved => r \notin clobbered
    BY DEF Saved, InX64, Csr
  <2> QED BY <1>1, <1>7, <2>1, <2>2 DEF KeptX64
<1>14. sp' \in Int /\ sp' <= -16 - A /\ sp' % 16 = 0 /\ (~dyn_alloca => sp' = -16 - A)
  <2>1. CASE sp' = sp
    BY <1>1, <2>1
  <2>2. CASE sp' = sp - 16 /\ dyn_alloca
    <3>1. sp \in Int /\ sp <= -16 - A /\ sp % 16 = 0 /\ A \in Nat
      BY <1>1, <1>9
    <3> QED BY ONLY <2>2, <3>1
  <2> QED BY <1>5, <2>1, <2>2
<1> QED BY <1>5, <1>6, <1>12, <1>13, <1>14 DEF AtBodyX64, A

\* The first instruction of an epilogue gives up the slots and allocas.
LEMMA BackStep ==
    ASSUME InX64, Executes, AtBodyX64(pc, sp, regs, mem), pc \in Rets
    PROVE  AtPop(pc, {}, pc', sp', regs', mem') /\ Goes
<1> DEFINE A == align_up(frame_size, 16)
           N == Cardinality(Saved)
           i == BackX64
<1>1. /\ sp \in Int /\ (~dyn_alloca => sp = -16 - A)
      /\ KeptX64(regs, {}) /\ regs[5] = Addr(-16) /\ StoredX64(mem, Saved)
  BY DEF AtBodyX64
<1>2. Is(text, pc, i)
  BY DEF InX64, CodeX64, TailX64, EpiX64
<1>3. A \in Nat /\ N \in Nat /\ fp = -16
  <2>1. A \in Nat
    BY AlignUp DEF InX64, FnTypes
  <2>2. N \in Nat
    BY SavedX64 DEF InX64
  <2> HIDE DEF A, N
  <2> QED BY <1>1, <2>1, <2>2 DEF fp, FP, InX64, Addr
<1>4. \/ ~dyn_alloca /\ i.op = "add_sp" /\ i.arg = A - 8 * N
      \/ dyn_alloca /\ N = 0 /\ i.op = "mov_sp_fp"
      \/ dyn_alloca /\ i.op = "lea_sp" /\ i.arg = 8 * N
  BY DEF BackX64, FinalX64, Inst
<1> HIDE DEF A, N, i
<1>5. i.op \in FrameOps
  BY <1>4 DEF FrameOps
<1>6. /\ pc' = pc + i.size /\ mem' = mem /\ Goes /\ regs' = regs
      /\ i.op = "add_sp" => sp' = sp + i.arg
      /\ i.op = "mov_sp_fp" => sp' = fp
      /\ i.op = "lea_sp" => sp' = fp - i.arg
  <2>1. i.op # "mov_fp_sp"
    BY <1>4
  <2> QED BY <1>2, <1>5, <2>1, FrameDoes
<1>7. sp' = -16 - 8 * N
  <2>1. CASE ~dyn_alloca
    BY <1>1, <1>3, <1>4, <1>6, <2>1
  <2>2. CASE dyn_alloca
    BY <1>3, <1>4, <1>6, <2>2
  <2> QED BY <2>1, <2>2
<1>8. Bytes({}) = 0 /\ Cardinality({}) = 0
  <2>1. {} \in SUBSET Regs
    OBVIOUS
  <2> QED BY <2>1, BytesSize, FS_EmptySet
<1>9. i.size \in Nat /\ pc \in Nat
  <2>1. i.size \in {3, 4, 7}
    BY DEF i, BackX64, Inst
  <2>2. pc \in Nat
    BY TargetTypes DEF InX64
  <2> QED BY <2>1, <2>2
<1>10. pc' = pc + i.size + Bytes({}) /\ sp' = -16 - 8 * (N - Cardinality({}))
  BY <1>3, <1>6, <1>7, <1>8, <1>9
<1>11. UpperSet({}, Saved)
  BY DEF UpperSet
<1> QED BY <1>1, <1>6, <1>10, <1>11 DEF AtPop, N, i

\* pop a callee-saved register, then rbp
LEMMA PopStep ==
    ASSUME InX64, Executes, NEW f \in Rets, NEW D \in SUBSET Saved, AtPop(f, D, pc, sp, regs, mem)
    PROVE  /\ \/ \E E \in SUBSET Saved : AtPop(f, E, pc', sp', regs', mem')
              \/ AtRetX64(f, pc', sp', regs', mem')
           /\ Goes
<1> DEFINE N == Cardinality(Saved)
           k == BackX64.size
<1>1. /\ UpperSet(D, Saved) /\ pc = f + k + Bytes(D) /\ sp = -16 - 8 * (N - Cardinality(D))
      /\ KeptX64(regs, D) /\ regs[5] = Addr(-16) /\ StoredX64(mem, Saved)
  BY DEF AtPop
<1>2. EpiX64(Saved, BackX64, text, f)
  BY DEF InX64, CodeX64, TailX64
<1>3. /\ Saved \in SUBSET Regs /\ D \in SUBSET Regs /\ Saved \in SUBSET CsrX64 /\ 5 \notin Saved
      /\ N \in Nat /\ f \in Nat /\ 5 \notin CsrX64
  BY SavedX64, TargetTypes, CsrRegs DEF InX64
<1>4. Bytes(D) \in Nat /\ Cardinality(D) \in Nat /\ k \in Nat
  <2>1. k \in {3, 4, 7}
    BY DEF BackX64, Inst
  <2> QED BY <1>3, <2>1, BytesSize, RegSets
<1>5. DOMAIN regs = CsrX64 \cup {5}
  BY <1>1 DEF KeptX64
<1> HIDE DEF N, k
<1>6. CASE D = Saved
  <2>1. Is(text, pc, Pop(5))
    BY <1>1, <1>2, <1>6 DEF EpiX64, k
  <2>2. sp = -16
    BY <1>1, <1>3, <1>4, <1>6 DEF N
  <2>3. Is(mem, sp, Old(5)) /\ Is(mem, -8, Link)
    BY <1>1, <2>2 DEF StoredX64
  <2>4. /\ pc' = pc + PushSize(5) /\ sp' = sp + 8 /\ mem' = mem /\ Goes
        /\ DOMAIN regs' = DOMAIN regs /\ regs'[5] = Old(5)
        /\ \A q \in DOMAIN regs : q # 5 => regs'[q] = regs[q]
    BY <1>5, <2>1, <2>3, PopDoes
  <2>5. pc' = f + k + Bytes(Saved) + 1 /\ sp' = -8
    BY <1>1, <1>6, <2>2, <2>4 DEF PushSize
  <2>6. KeptX64(regs', Saved)
    BY <1>1, <1>3, <1>5, <1>6, <2>4 DEF KeptX64
  <2> QED BY <2>3, <2>4, <2>5, <2>6 DEF AtRetX64, k
<1>7. CASE D # Saved
  <2>1. PICK r \in Saved : r \notin D /\ D = AboveIn(Saved, r) /\ UpperSet(D \cup {r}, Saved)
    BY <1>1, <1>3, <1>7, NextDown
  <2>2. Is(text, pc, Pop(r))
    BY <1>1, <1>2, <2>1 DEF EpiX64, k
  <2>3. sp = SlotX64(r)
    <3>1. Cardinality(D) + Cardinality(BelowIn(Saved, r)) + 1 = N
          /\ Cardinality(BelowIn(Saved, r)) \in Nat
      BY <1>3, <2>1, AboveRoom, BelowRoom DEF N
    <3> QED BY <1>1, <1>3, <1>4, <3>1 DEF SlotX64
  <2>4. Is(mem, sp, Old(r))
    BY <1>1, <2>3 DEF StoredX64
  <2>5. /\ pc' = pc + PushSize(r) /\ sp' = sp + 8 /\ mem' = mem /\ Goes
        /\ DOMAIN regs' = DOMAIN regs /\ regs'[r] = Old(r)
        /\ \A q \in DOMAIN regs : q # r => regs'[q] = regs[q]
    <3>1. r \in DOMAIN regs
      BY <1>3, <1>5
    <3> QED BY <2>2, <2>4, <3>1, PopDoes
  <2>6. Cardinality(D \cup {r}) = Cardinality(D) + 1 /\ Bytes(D \cup {r}) = Bytes(D) + PushSize(r)
        /\ PushSize(r) \in Nat
    BY <1>3, <2>1, AddReg DEF PushSize
  <2>7. pc' = f + k + Bytes(D \cup {r}) /\ sp' = -16 - 8 * (N - Cardinality(D \cup {r}))
    BY <1>1, <1>3, <1>4, <2>5, <2>6
  <2>8. KeptX64(regs', D \cup {r}) /\ regs'[5] = Addr(-16)
    <3>1. r # 5
      BY <1>3
    <3> QED BY <1>1, <1>5, <2>5, <3>1 DEF KeptX64
  <2>9. AtPop(f, D \cup {r}, pc', sp', regs', mem')
    BY <1>1, <2>1, <2>5, <2>7, <2>8 DEF AtPop, N, k
  <2> QED BY <2>1, <2>5, <2>9
<1> QED BY <1>6, <1>7

\* ret
LEMMA RetStepX64 ==
    ASSUME InX64, Executes, NEW f \in Rets, AtRetX64(f, pc, sp, regs, mem)
    PROVE  phase' = "returned" /\ CalleeRestored' /\ UNCHANGED <<config, emit>>
<1> DEFINE i == Inst("ret", 0, 1)
<1>1. /\ Is(text, pc, i) /\ sp = -8 /\ KeptX64(regs, Saved) /\ regs[5] = Old(5)
      /\ Is(mem, -8, Link)
  BY DEF InX64, CodeX64, TailX64, EpiX64, AtRetX64
<1>2. ExecRet
  BY <1>1, ExecOf DEF Inst
<1> DEFINE one == LR :> Load(sp)
<1>3. /\ phase' = "returned" /\ sp' = 0 /\ regs' = one @@ regs
      /\ UNCHANGED <<config, emit>> /\ arch' = arch
  BY <1>1, <1>2 DEF ExecRet, InX64, config
<1>4. Load(sp) = Link
  BY <1>1 DEF Load, Is
<1>5. DOMAIN one = {LR} /\ Is(one, LR, Link)
  BY <1>4, SMT DEF :>, Is
<1> HIDE DEF one
<1>6. regs'[LR] = Link
  <2>1. Is(one @@ regs, LR, Link)
    BY <1>5, Merged
  <2> QED BY <1>3, <2>1 DEF Is
<1>7. \A r \in CsrX64 \cup {5} : regs'[r] = Old(r)
  <2> SUFFICES ASSUME NEW r \in CsrX64 \cup {5} PROVE regs'[r] = Old(r)
    OBVIOUS
  <2>1. r # LR
    BY CsrRegs DEF LR
  <2>2. Is(regs, r, Old(r))
    BY <1>1 DEF KeptX64, Is
  <2>3. Is(one @@ regs, r, Old(r))
    BY <1>5, <2>1, <2>2, Merged
  <2> QED BY <1>3, <2>3 DEF Is
<1>8. CalleeRestored'
  <2>1. Csr(arch) = CsrX64 /\ FP(arch) = 5 /\ arch' = "x64"
    BY <1>3 DEF Csr, FP, InX64
  <2>2. Csr(arch') = CsrX64 /\ FP(arch') = 5
    BY <2>1 DEF Csr, FP
  <2> QED BY <1>3, <1>6, <1>7, <2>2 DEF CalleeRestored, Old, Link
<1> QED BY <1>3, <1>8
----------------------------------------------------------------------------
(***************************************************************************)
(* AArch64: the registers of each bank in pairs, and the rows of code that *)
(* store or load them.                                                     *)
(***************************************************************************)
Bank(r) == IF Gp(r) THEN SavedGp ELSE Saved \ SavedGp

\* The saved registers below one are those of its bank, and all
\* general-purpose registers below a floating-point one.
LEMMA BelowParts ==
    ASSUME Saved \in SUBSET Regs, NEW r \in Saved
    PROVE  /\ r \in Nat /\ Lower(r) \in SUBSET Bank(r) /\ r \notin Lower(r) /\ r \in Bank(r)
           /\ Bank(r) \in SUBSET Regs /\ Cardinality(Lower(r)) \in Nat
           /\ Cardinality(Bank(r)) \in Nat /\ Cardinality(Lower(r)) + 1 <= Cardinality(Bank(r))
           /\ Below(r) = BelowIn(Saved, r) /\ Cardinality(Below(r)) \in Nat
           /\ Gp(r) => Below(r) = Lower(r)
           /\ ~Gp(r) => Below(r) = SavedGp \cup Lower(r)
           /\ \A q \in Saved : q < r /\ Gp(q) = Gp(r) => q \in Lower(r)
<1>1. \A q \in Saved : q \in Nat /\ q \in Regs
  BY DEF Regs
<1>2. Below(r) = BelowIn(Saved, r)
  BY DEF Below, BelowIn
<1>3. Lower(r) \in SUBSET Bank(r) /\ r \notin Lower(r) /\ r \in Bank(r) /\ Bank(r) \in SUBSET Regs
  <2>1. r \in Bank(r) /\ Bank(r) \in SUBSET Regs
    BY <1>1 DEF Bank, SavedGp
  <2>2. \A q \in Lower(r) : q \in Bank(r) /\ q # r
    BY <1>1 DEF Bank, SavedGp, Lower, Below
  <2> QED BY <2>1, <2>2
<1>4. Gp(r) => Below(r) = Lower(r)
  BY <1>1 DEF Lower, Below, Gp
<1>5. ~Gp(r) => Below(r) = SavedGp \cup Lower(r)
  BY <1>1 DEF Lower, Below, Gp, SavedGp
<1>6. \A q \in Saved : q < r /\ Gp(q) = Gp(r) => q \in Lower(r)
  BY DEF Lower, Below
<1>7. /\ Cardinality(Lower(r)) \in Nat /\ Cardinality(Bank(r)) \in Nat
      /\ Cardinality(Lower(r)) + 1 <= Cardinality(Bank(r))
  <2> DEFINE L == Lower(r)
             B == Bank(r)
  <2>1. L \in SUBSET Regs /\ B \in SUBSET Regs /\ L \cup {r} \in SUBSET B /\ r \in Regs /\ r \notin L
    BY <1>1, <1>3
  <2> HIDE DEF L, B
  <2>2. Cardinality(L \cup {r}) = Cardinality(L) + 1
    BY <2>1, AddReg
  <2>3. Cardinality(L \cup {r}) <= Cardinality(B) /\ Cardinality(B) \in Nat /\ Cardinality(L) \in Nat
    BY <2>1, RegSets
  <2> QED BY <2>2, <2>3 DEF L, B
<1>8. Cardinality(Below(r)) \in Nat
  BY <1>2, BelowRoom
<1> QED BY <1>1, <1>2, <1>3, <1>4, <1>5, <1>6, <1>7, <1>8

\* In a bank the number of registers below grows.
LEMMA LowerGrows ==
    ASSUME Saved \in SUBSET Regs, NEW q \in Saved, NEW r \in Saved, q < r, Gp(q) = Gp(r)
    PROVE  q \in Lower(r) /\ Cardinality(Lower(q)) + 1 <= Cardinality(Lower(r))
<1> DEFINE L == Lower(q)
           U == Lower(r)
<1>1. q \in U /\ q \notin L /\ q \in Nat /\ r \in Nat /\ q \in Regs
  BY BelowParts
<1>2. L \cup {q} \in SUBSET U /\ U \in SUBSET Regs /\ L \in SUBSET Regs
  <2>1. \A x \in L : x \in Saved /\ x \in Nat /\ x < q /\ Gp(x) = Gp(q)
    BY DEF Lower, Below, Regs
  <2>2. \A x \in L : x \in U
    BY <1>1, <2>1 DEF Lower, Below
  <2>3. U \in SUBSET Regs
    BY DEF Lower, Below
  <2> QED BY <1>1, <2>2, <2>3
<1> HIDE DEF L, U
<1>3. Cardinality(L \cup {q}) = Cardinality(L) + 1
  BY <1>1, <1>2, AddReg
<1>4. Cardinality(L \cup {q}) <= Cardinality(U)
  BY <1>2, RegSets
<1> QED BY <1>1, <1>3, <1>4 DEF L, U

\* The partner of a register follows it.
LEMMA PartnerOf ==
    ASSUME Saved \in SUBSET Regs, NEW r \in Saved, NEW q \in Partner(r)
    PROVE  /\ q \in Saved /\ r < q /\ q # r /\ Gp(q) = Gp(r) /\ Partner(r) = {q}
           /\ Below(q) = Below(r) \cup {r}
           /\ Cardinality(Lower(q)) = Cardinality(Lower(r)) + 1
           /\ First(r) => ~First(q)
           /\ FrameOff(q) = FrameOff(r) + 8
<1>1. q \in Saved /\ Gp(q) = Gp(r) /\ Lower(q) = Lower(r) \cup {r}
  BY DEF Partner
<1>2. r < q /\ q # r
  <2>1. r \in Below(q)
    BY <1>1 DEF Lower
  <2> QED BY <1>1, <2>1, BelowParts DEF Below
<1>3. Below(q) = Below(r) \cup {r}
  BY <1>1, BelowParts
<1>4. Cardinality(Lower(q)) = Cardinality(Lower(r)) + 1 /\ Cardinality(Below(q)) = Cardinality(Below(r)) + 1
  <2> DEFINE L == Lower(r)
             B == Below(r)
  <2>1. L \in SUBSET Regs /\ B \in SUBSET Regs /\ r \notin L /\ r \notin B /\ r \in Regs
    <3>1. B \in SUBSET Saved /\ r \notin B
      BY BelowParts, BelowRoom
    <3>2. L \in SUBSET B
      BY DEF Lower
    <3> QED BY <3>1, <3>2
  <2> HIDE DEF L, B
  <2> QED BY <1>1, <1>3, <2>1, AddReg DEF L, B
<1>5. Cardinality(Lower(r)) \in Nat /\ Cardinality(Below(r)) \in Nat
  BY BelowParts
<1>6. First(r) => ~First(q)
  BY <1>4, <1>5 DEF First
<1>7. FrameOff(q) = FrameOff(r) + 8
  BY <1>4, <1>5 DEF FrameOff
<1>8. ASSUME NEW x \in Partner(r) PROVE x = q
  <2>1. x \in Saved /\ Gp(x) = Gp(q) /\ Lower(x) = Lower(q)
    BY <1>1 DEF Partner
  <2>2. ~(x < q) /\ ~(q < x)
    <3>1. x \notin Lower(q) /\ q \notin Lower(x)
      BY <1>1, <2>1, BelowParts
    <3> QED BY <1>1, <2>1, <3>1, LowerGrows
  <2>3. x \in Nat /\ q \in Nat
    BY <1>1, <2>1, BelowParts
  <2> QED BY <2>2, <2>3
<1> QED BY <1>1, <1>2, <1>3, <1>4, <1>6, <1>7, <1>8
\* How many rows the registers of D take.
RowsOf(D) == HalfUp(D \cap SavedGp) + HalfUp(D \ SavedGp)
\* The registers of the first rows.
RowSet(D) == /\ LowerSet(D, Saved)
             /\ \A r \in D : First(r) => Partner(r) \subseteq D

\* Each register that opens a row has a row of its own.
LEMMA RowOwn ==
    ASSUME Saved \in SUBSET Regs
    PROVE  /\ Rows \in Nat /\ HalfUp(SavedGp) \in Nat
           /\ \A r \in Saved : First(r) => Row(r) \in Nat /\ Row(r) < Rows
           /\ \A q, r \in Saved : First(q) /\ First(r) /\ Row(q) = Row(r) => q = r
<1> DEFINE G == HalfUp(SavedGp)
           V == HalfUp(Saved \ SavedGp)
           c(r) == Cardinality(Lower(r))
<1>1. G \in Nat /\ V \in Nat /\ Rows = G + V
  <2>1. SavedGp \in SUBSET Regs /\ Saved \ SavedGp \in SUBSET Regs
    BY DEF SavedGp
  <2> QED BY <2>1, RoomTypes DEF Rows
<1>2. ASSUME NEW r \in Saved, First(r)
      PROVE  /\ c(r) \in Nat /\ c(r) % 2 = 0
             /\ Row(r) = (c(r) \div 2) + (IF Gp(r) THEN 0 ELSE G)
             /\ c(r) + 1 <= 2 * (IF Gp(r) THEN G ELSE V)
  <2>1. Cardinality(Bank(r)) <= 2 * HalfUp(Bank(r)) /\ HalfUp(Bank(r)) \in Nat
    <3>1. Bank(r) \in SUBSET Regs
      BY BelowParts
    <3> QED BY <3>1, RoomTypes
  <2>2. c(r) \in Nat /\ Cardinality(Bank(r)) \in Nat /\ c(r) + 1 <= Cardinality(Bank(r))
    BY BelowParts
  <2>3. HalfUp(Bank(r)) = IF Gp(r) THEN G ELSE V
    BY DEF Bank
  <2>4. c(r) % 2 = 0 /\ Row(r) = (c(r) \div 2) + (IF Gp(r) THEN 0 ELSE G)
    BY <1>2 DEF First, Row
  <2> HIDE DEF c, G, V
  <2> QED BY <1>1, <2>1, <2>2, <2>3, <2>4
<1> HIDE DEF c, G, V
<1>3. ASSUME NEW r \in Saved, First(r)
      PROVE  /\ Row(r) \in Nat /\ Row(r) < Rows
             /\ c(r) = 2 * (Row(r) - (IF Gp(r) THEN 0 ELSE G))
             /\ Gp(r) <=> Row(r) < G
  <2>1. /\ c(r) \in Nat /\ c(r) % 2 = 0
        /\ Row(r) = (c(r) \div 2) + (IF Gp(r) THEN 0 ELSE G)
        /\ c(r) + 1 <= 2 * (IF Gp(r) THEN G ELSE V)
    BY <1>2, <1>3
  <2>2. CASE Gp(r)
    BY <1>1, <2>1, <2>2
  <2>3. CASE ~Gp(r)
    BY <1>1, <2>1, <2>3
  <2> QED BY <2>2, <2>3
<1>4. ASSUME NEW q \in Saved, NEW r \in Saved, First(q), First(r), Row(q) = Row(r) PROVE q = r
  <2>1. Gp(q) = Gp(r) /\ c(q) = c(r)
    <3>1. (Gp(q) <=> Row(q) < G) /\ c(q) = 2 * (Row(q) - (IF Gp(q) THEN 0 ELSE G))
      BY <1>3, <1>4
    <3>2. (Gp(r) <=> Row(r) < G) /\ c(r) = 2 * (Row(r) - (IF Gp(r) THEN 0 ELSE G))
      BY <1>3, <1>4
    <3>3. Gp(q) \in BOOLEAN /\ Gp(r) \in BOOLEAN
      BY DEF Gp
    <3> QED BY <1>4, <3>1, <3>2, <3>3
  <2>2. c(q) \in Nat /\ c(r) \in Nat /\ q \in Nat /\ r \in Nat
    BY BelowParts DEF c
  <2>3. CASE q < r
    <3>1. c(q) + 1 <= c(r)
      BY <2>1, <2>3, LowerGrows DEF c
    <3> QED BY <2>1, <2>2, <3>1
  <2>4. CASE r < q
    <3>1. c(r) + 1 <= c(q)
      BY <2>1, <2>4, LowerGrows DEF c
    <3> QED BY <2>1, <2>2, <3>1
  <2> QED BY <2>2, <2>3, <2>4
<1> QED BY <1>1, <1>3, <1>4 DEF G

\* Adding a row of one or two registers to the rows before it.
LEMMA HalfUpAdd ==
    ASSUME NEW X \in SUBSET Regs, Cardinality(X) % 2 = 0, NEW r \in Regs, r \notin X
    PROVE  /\ HalfUp(X) = Cardinality(X) \div 2
           /\ HalfUp(X \cup {r}) = HalfUp(X) + 1
           /\ \A q \in Regs : q \notin X /\ q # r => HalfUp((X \cup {r}) \cup {q}) = HalfUp(X) + 1
<1>1. Cardinality(X \cup {r}) = Cardinality(X) + 1 /\ Cardinality(X) \in Nat
  BY AddReg, RegSets
<1>2. \A q \in Regs : q \notin X /\ q # r =>
        Cardinality((X \cup {r}) \cup {q}) = Cardinality(X) + 2
  <2> SUFFICES ASSUME NEW q \in Regs, q \notin X, q # r
               PROVE  Cardinality((X \cup {r}) \cup {q}) = Cardinality(X) + 2
    OBVIOUS
  <2>1. X \cup {r} \in SUBSET Regs /\ q \notin X \cup {r}
    OBVIOUS
  <2>2. Cardinality((X \cup {r}) \cup {q}) = Cardinality(X \cup {r}) + 1
    BY <2>1, AddReg
  <2> QED BY <1>1, <2>2
<1>3. /\ HalfUp(X) = (Cardinality(X) + 1) \div 2
      /\ HalfUp(X \cup {r}) = (Cardinality(X) + 2) \div 2
      /\ \A q \in Regs : q \notin X /\ q # r =>
            HalfUp((X \cup {r}) \cup {q}) = (Cardinality(X) + 3) \div 2
  BY <1>1, <1>2 DEF HalfUp
<1> QED BY <1>1, <1>3

\* The next row starts with the first register that is left.
LEMMA NextRow ==
    ASSUME Saved \in SUBSET Regs, NEW D \in SUBSET Saved, RowSet(D), D # Saved
    PROVE  \E r \in Saved : /\ r \notin D /\ D = Below(r) /\ First(r) /\ Row(r) = RowsOf(D)
                            /\ RowSet((D \cup {r}) \cup Partner(r))
                            /\ (D \cup {r}) \cup Partner(r) \in SUBSET Saved
                            /\ RowsOf((D \cup {r}) \cup Partner(r)) = RowsOf(D) + 1
<1>1. PICK r \in Saved : r \notin D /\ D = BelowIn(Saved, r) /\ LowerSet(D \cup {r}, Saved)
  BY NextUp DEF RowSet
<1>2. D = Below(r) /\ r \in Regs /\ Lower(r) \in SUBSET D /\ Lower(r) \in SUBSET Regs
  BY <1>1, BelowParts DEF Lower
<1>3. Cardinality(Lower(r)) \in Nat
  BY BelowParts
<1>4. First(r)
  <2> SUFFICES ASSUME ~First(r) PROVE FALSE
    OBVIOUS
  <2>1. Lower(r) # {}
    <3>1. Cardinality({}) = 0
      BY FS_EmptySet
    <3> QED BY <3>1 DEF First
  <2>2. PICK p \in Lower(r) : \A x \in Lower(r) : x <= p
    BY <1>2, <2>1, LastReg
  <2>3. p \in Saved /\ p \in D /\ Gp(p) = Gp(r) /\ p < r /\ p \in Regs
    BY <1>2 DEF Lower, Below
  <2>4. Lower(r) = Lower(p) \cup {p}
    <3>1. \A x \in Lower(r) : x \in Lower(p) \/ x = p
      <4> SUFFICES ASSUME NEW x \in Lower(r), x # p PROVE x \in Lower(p)
        OBVIOUS
      <4>1. x \in Saved /\ Gp(x) = Gp(p) /\ x <= p
        BY <2>2, <2>3 DEF Lower, Below
      <4>2. x \in Nat /\ p \in Nat
        BY <2>3, <4>1, BelowParts
      <4> QED BY <2>3, <4>1, <4>2, BelowParts
    <3>2. \A x \in Lower(p) : x \in Lower(r)
      <4> SUFFICES ASSUME NEW x \in Lower(p) PROVE x \in Lower(r)
        OBVIOUS
      <4>1. x \in Saved /\ Gp(x) = Gp(r) /\ x < p
        BY <2>3 DEF Lower, Below
      <4>2. x \in Nat /\ p \in Nat /\ r \in Nat
        BY <2>3, <4>1, BelowParts
      <4> QED BY <2>3, <4>1, <4>2, BelowParts
    <3> QED BY <3>1, <3>2
  <2>5. r \in Partner(p)
    BY <2>3, <2>4 DEF Partner
  <2>6. Cardinality(Lower(r)) = Cardinality(Lower(p)) + 1 /\ Cardinality(Lower(p)) \in Nat
    BY <2>3, <2>5, PartnerOf, BelowParts
  <2>7. First(p)
    <3>1. Cardinality(Lower(r)) % 2 # 0
      BY DEF First
    <3>2. Cardinality(Lower(p)) % 2 = 0
      BY ONLY <1>3, <2>6, <3>1
    <3> QED BY <3>2 DEF First
  <2> QED BY <1>1, <2>3, <2>5, <2>7 DEF RowSet
<1> DEFINE X == Lower(r)
           E == (D \cup {r}) \cup Partner(r)
           h == IF Gp(r) THEN HalfUp({}) ELSE HalfUp(SavedGp)
<1>5. Partner(r) = {} \/ \E q \in Saved : Partner(r) = {q} /\ q # r /\ q \notin D /\ r < q
                                          /\ Gp(q) = Gp(r) /\ Below(q) = D \cup {r} /\ ~First(q)
  <2>1. CASE Partner(r) # {}
    <3>1. PICK q \in Partner(r) : TRUE
      BY <2>1
    <3>2. /\ q \in Saved /\ r < q /\ q # r /\ Gp(q) = Gp(r) /\ Partner(r) = {q}
          /\ Below(q) = Below(r) \cup {r} /\ ~First(q)
      BY <1>4, <3>1, PartnerOf
    <3>3. q \notin D
      <4>1. q \notin Below(q)
        BY <3>2, BelowRoom, BelowParts
      <4> QED BY <1>2, <3>2, <4>1
    <3> QED BY <1>2, <3>2, <3>3
  <2> QED BY <2>1
<1>6. E \in SUBSET Saved
  BY <1>5
<1>7. RowSet(E)
  <2>1. LowerSet(E, Saved)
    <3>1. CASE Partner(r) = {}
      <4>1. E = D \cup {r}
        BY <3>1
      <4> QED BY <1>1, <4>1
    <3>2. ASSUME NEW q \in Saved, Partner(r) = {q}, Below(q) = D \cup {r}
          PROVE  LowerSet(E, Saved)
      <4>1. BelowIn(Saved, q) = D \cup {r}
        BY <3>2, BelowParts
      <4>2. E = (D \cup {r}) \cup {q}
        BY <3>2
      <4> HIDE DEF E
      <4> QED BY <1>1, <4>1, <4>2 DEF LowerSet
    <3> QED BY <1>5, <3>1, <3>2
  <2>2. ASSUME NEW x \in E, First(x) PROVE Partner(x) \subseteq E
    <3>1. CASE x \in D
      BY <2>2, <3>1 DEF RowSet
    <3>2. CASE x = r
      BY <3>2
    <3>3. CASE x \in Partner(r)
      BY <1>5, <2>2, <3>3
    <3> QED BY <3>1, <3>2, <3>3
  <2> HIDE DEF E
  <2> QED BY <2>1, <2>2 DEF RowSet
<1>8. X \in SUBSET Regs /\ r \notin X /\ Cardinality(X) % 2 = 0 /\ Partner(r) \cap X = {}
  BY <1>1, <1>2, <1>4, <1>5 DEF First
<1>9. HalfUp(X) = Cardinality(X) \div 2 /\ HalfUp((X \cup {r}) \cup Partner(r)) = HalfUp(X) + 1
  <2> HIDE DEF X
  <2>1. CASE Partner(r) = {}
    <3>1. (X \cup {r}) \cup Partner(r) = X \cup {r}
      BY <2>1
    <3> QED BY <1>2, <1>8, <3>1, HalfUpAdd
  <2>2. ASSUME NEW q \in Saved, Partner(r) = {q}, q # r
        PROVE  HalfUp(X) = Cardinality(X) \div 2 /\ HalfUp((X \cup {r}) \cup Partner(r)) = HalfUp(X) + 1
    <3>1. q \in Regs /\ q \notin X
      BY <1>8, <2>2
    <3>2. HalfUp(X) = Cardinality(X) \div 2 /\ HalfUp((X \cup {r}) \cup {q}) = HalfUp(X) + 1
      BY <1>2, <1>8, <2>2, <3>1, HalfUpAdd
    <3> QED BY <2>2, <3>2
  <2> QED BY <1>5, <2>1, <2>2
<1>10. RowsOf(D) = HalfUp(X) + h /\ RowsOf(E) = HalfUp((X \cup {r}) \cup Partner(r)) + h
  <2>1. CASE Gp(r)
    <3>1. D = X /\ X \in SUBSET SavedGp /\ r \in SavedGp
      <4>1. Bank(r) = SavedGp
        BY <2>1 DEF Bank
      <4> QED BY <1>2, <2>1, <4>1, BelowParts
    <3>2. Partner(r) \in SUBSET SavedGp
      <4>1. \A q \in Partner(r) : q \in Saved /\ Gp(q) = Gp(r)
        BY DEF Partner
      <4>2. \A q \in Partner(r) : Gp(q)
        BY <2>1, <4>1 DEF Gp
      <4> QED BY <4>1, <4>2 DEF SavedGp
    <3>3. /\ D \cap SavedGp = X /\ D \ SavedGp = {}
          /\ E \cap SavedGp = (X \cup {r}) \cup Partner(r) /\ E \ SavedGp = {}
      BY <3>1, <3>2
    <3> HIDE DEF X, E
    <3> QED BY <2>1, <3>3 DEF RowsOf
  <2>2. CASE ~Gp(r)
    <3>1. D = SavedGp \cup X /\ X \cap SavedGp = {} /\ r \notin SavedGp
      <4>1. X \in SUBSET (Saved \ SavedGp)
        BY <2>2, BelowParts DEF Bank
      <4> QED BY <1>2, <2>2, <4>1, BelowParts DEF SavedGp
    <3>2. Partner(r) \cap SavedGp = {}
      BY <1>5, <2>2 DEF SavedGp
    <3>3. /\ D \cap SavedGp = SavedGp /\ D \ SavedGp = X
          /\ E \cap SavedGp = SavedGp /\ E \ SavedGp = (X \cup {r}) \cup Partner(r)
      BY <3>1, <3>2
    <3>4. HalfUp(SavedGp) \in Nat /\ HalfUp(X) \in Nat /\ HalfUp((X \cup {r}) \cup Partner(r)) \in Nat
      <4>1. SavedGp \in SUBSET Regs /\ X \in SUBSET Regs /\ (X \cup {r}) \cup Partner(r) \in SUBSET Regs
        BY <1>2, <1>6 DEF SavedGp
      <4> HIDE DEF X
      <4> QED BY <4>1, RoomTypes
    <3> HIDE DEF X, E
    <3>5. RowsOf(D) = HalfUp(SavedGp) + HalfUp(X)
          /\ RowsOf(E) = HalfUp(SavedGp) + HalfUp((X \cup {r}) \cup Partner(r))
      BY <3>3 DEF RowsOf
    <3>6. h = HalfUp(SavedGp)
      BY <2>2
    <3> HIDE DEF h
    <3> QED BY <3>4, <3>5, <3>6
  <2> QED BY <2>1, <2>2
<1>11. h \in Nat /\ Row(r) = HalfUp(X) + h /\ HalfUp(X) \in Nat
  <2>1. HalfUp({}) = 0
    BY FS_EmptySet DEF HalfUp
  <2>2. HalfUp(SavedGp) \in Nat /\ HalfUp(X) \in Nat
    BY <1>3, <1>9, RowOwn
  <2>3. Row(r) = HalfUp(X) + (IF Gp(r) THEN 0 ELSE HalfUp(SavedGp))
    BY <1>9 DEF Row
  <2> HIDE DEF X
  <2> QED BY <2>1, <2>2, <2>3
<1>12. Row(r) = RowsOf(D) /\ RowsOf(E) = RowsOf(D) + 1
  <2> HIDE DEF X, E, h
  <2> QED BY <1>9, <1>10, <1>11
<1> QED BY <1>1, <1>2, <1>4, <1>6, <1>7, <1>12
(***************************************************************************)
(* The code of AArch64.                                                    *)
(***************************************************************************)
EpiA64(t, f) ==
    /\ Is(t, f, IF dyn_alloca THEN Inst("mov_sp_fp", 0, 4) ELSE FrameRecord("ldp"))
    /\ \A r \in Saved : First(r) => Is(t, f + 4 + 4 * Row(r), PairInst("ldp", "ldr", StackReg, r))
    /\ dyn_alloca => Is(t, f + 4 + 4 * Rows, FrameRecord("ldp"))
    /\ Is(t, f + (SizeA64 - 8), Inst("add_sp", FinalA64, 4))
    /\ Is(t, f + (SizeA64 - 4), Inst("ret", 0, 4))

HeadA64(t, start) ==
    /\ start \in Nat /\ start % 16 = 0 /\ start + 4 * LenA64 = PrologueRoom("a64")
    /\ Is(t, start, Inst("sub_sp", FinalA64, 4))
    /\ Is(t, start + 4, FrameRecord("stp"))
    /\ Is(t, start + 8, Inst("mov_fp_sp", 0, 4))
    /\ \A r \in Saved : First(r) => Is(t, start + 12 + 4 * Row(r), PairInst("stp", "str", StackReg, r))
    /\ \A k \in 3 + Rows .. LenA64 - 1 : Is(t, start + 4 * k, Inst("nop", 0, 4))
    /\ stack_args => Is(t, PrologueRoom("a64"), Inst("arg_ptr", FinalA64, 4))

TailA64(t, end) == \A f \in Rets : EpiA64(t, f) /\ f + SizeA64 <= end

CodeA64(t, start, end) == HeadA64(t, start) /\ BodyCode(t, end) /\ TailA64(t, end)

\* Each row has its instruction.
LEMMA RowsAt ==
    ASSUME Saved \in SUBSET Regs, NEW off \in Nat, NEW pair, NEW single
    PROVE  LET e == PairLoop(off, pair, single)
           IN  /\ \A o \in DOMAIN e : o \in Nat /\ off <= o /\ o < off + 4 * Rows
               /\ \A r \in Saved : First(r) => Is(e, off + 4 * Row(r), PairInst(pair, single, StackReg, r))
<1> DEFINE T == {r \in Saved : First(r)}
           pos(r) == off + 4 * Row(r)
           e == PairLoop(off, pair, single)
<1>1. e = [o \in {pos(r) : r \in T} |-> PairInst(pair, single, StackReg, CHOOSE r \in T : pos(r) = o)]
  BY DEF PairLoop, Each
<1>2. /\ Rows \in Nat
      /\ \A r \in T : r \in Saved /\ Row(r) \in Nat /\ Row(r) < Rows
      /\ \A q, r \in T : Row(q) = Row(r) => q = r
  BY RowOwn
<1>3. \A q, r \in T : pos(q) = pos(r) => q = r
  BY <1>2
<1>4. \A r \in T : pos(r) \in Nat /\ off <= pos(r) /\ pos(r) < off + 4 * Rows
  BY <1>2
<1> HIDE DEF pos, e
<1>5. \A r \in T : Is(e, pos(r), PairInst(pair, single, StackReg, r))
  <2> HIDE DEF T
  <2> QED BY <1>1, <1>3 DEF Is
<1>6. \A o \in DOMAIN e : o \in Nat /\ off <= o /\ o < off + 4 * Rows
  <2> HIDE DEF T
  <2> QED BY <1>1, <1>4
<1> QED BY <1>5, <1>6 DEF pos, e

\* The rows fit in the room that is reserved for them.
LEMMA RowsFit ==
    ASSUME FnTypes, arch = "a64"
    PROVE  /\ Saved \in SUBSET Regs /\ Saved \in SUBSET CsrA64 /\ 29 \notin Saved /\ 30 \notin Saved
           /\ Rows \in Nat /\ SaveRoom("a64") \in Nat /\ 4 * Rows <= SaveRoom("a64")
           /\ SaveRoom("a64") % 4 = 0
           /\ SizeA64 = 12 + 4 * Rows + (IF dyn_alloca THEN 4 ELSE 0)
           /\ Room = SaveRoom("a64") + 12 + (IF dyn_alloca THEN 4 ELSE 0)
           /\ clobbered \cap CsrA64 = Saved
<1> DEFINE CG == {r \in CsrA64 : Gp(r)}
           CV == {r \in CsrA64 : ~Gp(r)}
<1>1. /\ Saved \in SUBSET CsrA64 /\ clobbered \cap CsrA64 = Saved
  BY DEF Saved, Csr
<1>2. /\ Saved \in SUBSET Regs /\ 29 \notin Saved /\ 30 \notin Saved /\ CG \in SUBSET Regs /\ CV \in SUBSET Regs
      /\ SavedGp \in SUBSET CG /\ Saved \ SavedGp \in SUBSET CV
  BY <1>1, CsrRegs DEF SavedGp
<1>3. SaveRoom("a64") = 4 * (HalfUp(CG) + HalfUp(CV)) /\ Rows = HalfUp(SavedGp) + HalfUp(Saved \ SavedGp)
  <2>1. SaveRoom("a64") = 4 * (HalfUp(CG) + HalfUp(CV))
    BY DEF SaveRoom
  <2> QED BY <2>1 DEF Rows
<1> HIDE DEF CG, CV
<1>4. \A X \in SUBSET Regs : \A Y \in SUBSET X :
         HalfUp(X) \in Nat /\ HalfUp(Y) \in Nat /\ HalfUp(Y) <= HalfUp(X)
  <2> SUFFICES ASSUME NEW X \in SUBSET Regs, NEW Y \in SUBSET X
               PROVE  HalfUp(X) \in Nat /\ HalfUp(Y) \in Nat /\ HalfUp(Y) <= HalfUp(X)
    OBVIOUS
  <2>1. Cardinality(Y) <= Cardinality(X) /\ Cardinality(X) \in Nat /\ Cardinality(Y) \in Nat
    BY RegSets
  <2> QED BY ONLY <2>1 DEF HalfUp
<1>5. /\ HalfUp(CG) \in Nat /\ HalfUp(SavedGp) \in Nat /\ HalfUp(SavedGp) <= HalfUp(CG)
      /\ HalfUp(CV) \in Nat /\ HalfUp(Saved \ SavedGp) \in Nat /\ HalfUp(Saved \ SavedGp) <= HalfUp(CV)
  BY <1>2, <1>4
<1>6. /\ Rows \in Nat /\ SaveRoom("a64") \in Nat /\ 4 * Rows <= SaveRoom("a64")
      /\ SaveRoom("a64") % 4 = 0
  BY ONLY <1>3, <1>5
<1>7. Room = SaveRoom("a64") + 12 + (IF dyn_alloca THEN 4 ELSE 0)
  BY DEF Room, EpilogueRoom
<1>8. SizeA64 = 12 + 4 * Rows + (IF dyn_alloca THEN 4 ELSE 0)
  BY <1>6 DEF SizeA64
<1> QED BY <1>1, <1>2, <1>6, <1>7, <1>8

\* The epilogue fits in the room that gen_func_epilog left for it.
LEMMA EpilogueA64Is ==
    ASSUME FnTypes, arch = "a64"
    PROVE  /\ EpiA64(EpilogueA64, 0)
           /\ \A p \in DOMAIN EpilogueA64 : p \in Nat /\ p < Room
           /\ SizeA64 \in Nat /\ 12 <= SizeA64 /\ SizeA64 <= Room /\ Room \in Nat
<1> DEFINE i == IF dyn_alloca THEN Inst("mov_sp_fp", 0, 4) ELSE FrameRecord("ldp")
           a == 0 :> i
           b == PairLoop(4, "ldp", "ldr")
           c == IF dyn_alloca THEN 4 + 4 * Rows :> FrameRecord("ldp") ELSE <<>>
           d == SizeA64 - 8 :> Inst("add_sp", FinalA64, 4)
           e == SizeA64 - 4 :> Inst("ret", 0, 4)
           ab == a @@ b
           abc == ab @@ c
           abcd == abc @@ d
<1>1. EpilogueA64 = abcd @@ e
  BY DEF EpilogueA64
<1>2. /\ Rows \in Nat /\ SizeA64 = 12 + 4 * Rows + (IF dyn_alloca THEN 4 ELSE 0)
      /\ SizeA64 <= Room /\ SizeA64 \in Nat /\ 12 <= SizeA64 /\ Room \in Nat
  BY RowsFit
<1>3. DOMAIN a = {0} /\ Is(a, 0, i)
  BY SMT DEF :>, Is
<1>4. /\ \A o \in DOMAIN b : o \in Nat /\ 4 <= o /\ o < 4 + 4 * Rows
      /\ \A r \in Saved : First(r) => Is(b, 4 + 4 * Row(r), PairInst("ldp", "ldr", StackReg, r))
  <2>1. 4 \in Nat /\ Saved \in SUBSET Regs
    BY RowsFit
  <2> QED BY <2>1, RowsAt
<1>5. /\ dyn_alloca => DOMAIN c = {4 + 4 * Rows} /\ Is(c, 4 + 4 * Rows, FrameRecord("ldp"))
      /\ ~dyn_alloca => DOMAIN c = {}
  <2>1. CASE dyn_alloca
    <3>1. c = (4 + 4 * Rows :> FrameRecord("ldp"))
      BY <2>1
    <3> HIDE DEF c
    <3> QED BY <2>1, <3>1, SMT DEF :>, Is
  <2>2. CASE ~dyn_alloca
    <3>1. c = <<>>
      BY <2>2
    <3> QED BY <2>2, <3>1
  <2> QED BY <2>1, <2>2
<1>6. DOMAIN d = {SizeA64 - 8} /\ Is(d, SizeA64 - 8, Inst("add_sp", FinalA64, 4))
  BY SMT DEF :>, Is
<1>7. DOMAIN e = {SizeA64 - 4} /\ Is(e, SizeA64 - 4, Inst("ret", 0, 4))
  BY SMT DEF :>, Is
<1> HIDE DEF i, a, b, c, d, e
<1>8. /\ DOMAIN ab = DOMAIN a \cup DOMAIN b /\ DOMAIN abc = DOMAIN ab \cup DOMAIN c
      /\ DOMAIN abcd = DOMAIN abc \cup DOMAIN d /\ DOMAIN EpilogueA64 = DOMAIN abcd \cup DOMAIN e
  BY <1>1, Merged
<1>9. /\ \A o, x : Is(ab, o, x) => Is(abc, o, x)
      /\ \A o, x : Is(abc, o, x) => Is(abcd, o, x)
      /\ \A o, x : Is(abcd, o, x) => Is(EpilogueA64, o, x)
  BY <1>1, Merged
<1>10. \A r \in Saved : First(r) => Row(r) \in Nat
  BY RowsFit, RowOwn
<1>11. /\ \A r \in Saved : First(r) => 4 + 4 * Row(r) \notin DOMAIN a
       /\ dyn_alloca => 4 + 4 * Rows \notin DOMAIN ab
       /\ SizeA64 - 8 \notin DOMAIN abc /\ SizeA64 - 4 \notin DOMAIN abcd
  <2>1. \A r \in Saved : First(r) => 4 + 4 * Row(r) # 0
    BY <1>10
  <2>2. \A o \in DOMAIN ab : o \in Nat /\ o < 4 + 4 * Rows
    BY <1>2, <1>3, <1>4, <1>8
  <2>3. \A o \in DOMAIN abc : o \in Nat /\ o < SizeA64 - 8
    <3>1. CASE dyn_alloca
      BY <1>2, <1>5, <1>8, <2>2, <3>1
    <3>2. CASE ~dyn_alloca
      BY <1>2, <1>5, <1>8, <2>2, <3>2
    <3> QED BY <3>1, <3>2
  <2>4. \A o \in DOMAIN abcd : o # SizeA64 - 4
    BY <1>2, <1>6, <1>8, <2>3
  <2>5. ~(SizeA64 - 8 < SizeA64 - 8) /\ ~(4 + 4 * Rows < 4 + 4 * Rows)
    BY <1>2
  <2> QED BY <1>3, <2>1, <2>2, <2>3, <2>4, <2>5
<1>12. /\ Is(ab, 0, i)
       /\ \A r \in Saved : First(r) => Is(ab, 4 + 4 * Row(r), PairInst("ldp", "ldr", StackReg, r))
       /\ dyn_alloca => Is(abc, 4 + 4 * Rows, FrameRecord("ldp"))
       /\ Is(abcd, SizeA64 - 8, Inst("add_sp", FinalA64, 4))
       /\ Is(EpilogueA64, SizeA64 - 4, Inst("ret", 0, 4))
  BY <1>1, <1>3, <1>4, <1>5, <1>6, <1>7, <1>11, Merged
<1> HIDE DEF ab, abc, abcd
<1>13. /\ Is(EpilogueA64, 0, i)
       /\ \A r \in Saved : First(r) =>
             Is(EpilogueA64, 4 + 4 * Row(r), PairInst("ldp", "ldr", StackReg, r))
       /\ dyn_alloca => Is(EpilogueA64, 4 + 4 * Rows, FrameRecord("ldp"))
       /\ Is(EpilogueA64, SizeA64 - 8, Inst("add_sp", FinalA64, 4))
       /\ Is(EpilogueA64, SizeA64 - 4, Inst("ret", 0, 4))
  BY <1>9, <1>12
<1>14. EpiA64(EpilogueA64, 0)
  <2>1. /\ 0 + (SizeA64 - 8) = SizeA64 - 8 /\ 0 + (SizeA64 - 4) = SizeA64 - 4
        /\ 0 + 4 + 4 * Rows = 4 + 4 * Rows
        /\ \A r \in Saved : First(r) => 0 + 4 + 4 * Row(r) = 4 + 4 * Row(r)
    BY <1>2, <1>10
  <2> QED BY <1>13, <2>1 DEF EpiA64, i
<1>15. ASSUME NEW p \in DOMAIN EpilogueA64 PROVE p \in Nat /\ p < Room
  <2>1. p \in DOMAIN a \/ p \in DOMAIN b \/ p \in DOMAIN c \/ p \in DOMAIN d \/ p \in DOMAIN e
    BY <1>8
  <2>2. p \in Nat /\ p < SizeA64
    <3>1. CASE dyn_alloca
      BY <1>2, <1>3, <1>4, <1>5, <1>6, <1>7, <2>1, <3>1
    <3>2. CASE ~dyn_alloca
      BY <1>2, <1>3, <1>4, <1>5, <1>6, <1>7, <2>1, <3>2
    <3> QED BY <3>1, <3>2
  <2> QED BY <1>2, <2>2
<1> QED BY <1>2, <1>14, <1>15

\* The prologue ends where its room ends, and starts at a multiple of 16.
LEMMA SkipIs ==
    ASSUME FnTypes, arch = "a64"
    PROVE  LET skip == align_down(PrologueRoom("a64") - 4 * LenA64, 16)
           IN  /\ skip \in Nat /\ skip % 16 = 0 /\ skip + 4 * LenA64 = PrologueRoom("a64")
               /\ LenA64 \in Nat /\ 3 + Rows <= LenA64
<1> DEFINE P == SaveRoom("a64") \div 4 + 3
           x == P - (3 + Rows)
<1>1. Rows \in Nat /\ SaveRoom("a64") \in Nat /\ 4 * Rows <= SaveRoom("a64") /\ SaveRoom("a64") % 4 = 0
  BY RowsFit
<1>2. PrologueRoom("a64") = SaveRoom("a64") + 12
  BY DEF PrologueRoom
<1>3. P \in Nat /\ PrologueRoom("a64") = 4 * P /\ PrologueRoom("a64") \div 4 = P /\ x \in Nat /\ P = x + 3 + Rows
  BY ONLY <1>1, <1>2
<1>4. Padding = x % 4 /\ LenA64 = 3 + Rows + (x % 4)
  BY <1>3 DEF Padding, LenA64
<1> HIDE DEF P, x
<1>5. PICK y \in Nat : x = 4 * y + (x % 4)
  <2>1. x = 4 * (x \div 4) + (x % 4) /\ x \div 4 \in Nat
    BY ONLY <1>3
  <2> QED BY <2>1
<1>6. x % 4 \in Nat
  BY <1>3
<1>7. PrologueRoom("a64") - 4 * LenA64 = 16 * y
  BY <1>1, <1>3, <1>4, <1>5, <1>6
<1>8. align_down(16 * y, 16) = 16 * y /\ (16 * y) % 16 = 0 /\ 16 * y \in Nat
  BY ONLY <1>5 DEF align_down
<1>9. LenA64 \in Nat /\ 3 + Rows <= LenA64
  BY <1>1, <1>4, <1>6
<1> QED BY <1>1, <1>3, <1>7, <1>8, <1>9

\* The prologue at the offset off.
LEMMA PrologueA64Is ==
    ASSUME FnTypes, arch = "a64", NEW off \in Nat
    PROVE  /\ \A o \in DOMAIN PrologueA64(off) : o \in Nat /\ off <= o /\ o < off + 4 * LenA64
           /\ Is(PrologueA64(off), off, Inst("sub_sp", FinalA64, 4))
           /\ Is(PrologueA64(off), off + 4, FrameRecord("stp"))
           /\ Is(PrologueA64(off), off + 8, Inst("mov_fp_sp", 0, 4))
           /\ \A r \in Saved : First(r) =>
                 Is(PrologueA64(off), off + 12 + 4 * Row(r), PairInst("stp", "str", StackReg, r))
           /\ \A k \in 3 + Rows .. LenA64 - 1 : Is(PrologueA64(off), off + 4 * k, Inst("nop", 0, 4))
<1> DEFINE K == 3 + Rows .. LenA64 - 1
           a == off :> Inst("sub_sp", FinalA64, 4)
           b == off + 4 :> FrameRecord("stp")
           c == off + 8 :> Inst("mov_fp_sp", 0, 4)
           d == PairLoop(off + 12, "stp", "str")
           e == Each(K, LAMBDA k : off + 4 * k, LAMBDA k : Inst("nop", 0, 4))
           ab == a @@ b
           abc == ab @@ c
           abcd == abc @@ d
           all == abcd @@ e
<1>1. PrologueA64(off) = all
  BY DEF PrologueA64
<1>2. Rows \in Nat /\ LenA64 \in Nat /\ 3 + Rows <= LenA64
  BY RowsFit, SkipIs
<1>3. DOMAIN a = {off} /\ Is(a, off, Inst("sub_sp", FinalA64, 4))
  BY SMT DEF :>, Is
<1>4. DOMAIN b = {off + 4} /\ Is(b, off + 4, FrameRecord("stp"))
  BY SMT DEF :>, Is
<1>5. DOMAIN c = {off + 8} /\ Is(c, off + 8, Inst("mov_fp_sp", 0, 4))
  BY SMT DEF :>, Is
<1>6. /\ \A o \in DOMAIN d : o \in Nat /\ off + 12 <= o /\ o < off + 12 + 4 * Rows
      /\ \A r \in Saved : First(r) => Is(d, off + 12 + 4 * Row(r), PairInst("stp", "str", StackReg, r))
  <2>1. off + 12 \in Nat /\ Saved \in SUBSET Regs
    BY RowsFit
  <2> QED BY <2>1, RowsAt
<1>7. /\ DOMAIN e = {off + 4 * k : k \in K}
      /\ \A k \in K : Is(e, off + 4 * k, Inst("nop", 0, 4))
  <2>1. e = [o \in {off + 4 * k : k \in K} |-> Inst("nop", 0, 4)]
    BY DEF Each
  <2> HIDE DEF e, K
  <2> QED BY <2>1 DEF Is
<1>8. \A k \in K : k \in Nat /\ 3 + Rows <= k /\ k < LenA64
  BY <1>2
<1> HIDE DEF K, a, b, c, d, e
<1>9. /\ DOMAIN ab = DOMAIN a \cup DOMAIN b /\ DOMAIN abc = DOMAIN ab \cup DOMAIN c
      /\ DOMAIN abcd = DOMAIN abc \cup DOMAIN d /\ DOMAIN all = DOMAIN abcd \cup DOMAIN e
  BY Merged
<1>10. /\ \A o, i : Is(ab, o, i) => Is(abc, o, i)
       /\ \A o, i : Is(abc, o, i) => Is(abcd, o, i)
       /\ \A o, i : Is(abcd, o, i) => Is(all, o, i)
  BY Merged
<1>11. /\ \A o \in DOMAIN abc : o \in Nat /\ off <= o /\ o < off + 12
       /\ off + 4 \notin DOMAIN a /\ off + 8 \notin DOMAIN ab
  BY <1>3, <1>4, <1>5, <1>9
<1>12. \A r \in Saved : First(r) => off + 12 + 4 * Row(r) \notin DOMAIN abc
  <2>1. \A r \in Saved : First(r) => Row(r) \in Nat
    BY RowsFit, RowOwn
  <2>2. \A r \in Saved : First(r) => ~(off + 12 + 4 * Row(r) < off + 12)
    BY <2>1
  <2> QED BY <1>11, <2>2
<1>13. \A k \in K : off + 4 * k \notin DOMAIN abcd
  <2> SUFFICES ASSUME NEW k \in K, off + 4 * k \in DOMAIN abcd PROVE FALSE
    OBVIOUS
  <2>1. off + 4 * k < off + 12 + 4 * Rows
    BY <1>2, <1>6, <1>9, <1>11
  <2> QED BY <1>2, <1>8, <2>1
<1>14. /\ Is(ab, off, Inst("sub_sp", FinalA64, 4)) /\ Is(ab, off + 4, FrameRecord("stp"))
       /\ Is(abc, off + 8, Inst("mov_fp_sp", 0, 4))
  BY <1>3, <1>4, <1>5, <1>11, Merged
<1>15. /\ \A r \in Saved : First(r) => Is(abcd, off + 12 + 4 * Row(r), PairInst("stp", "str", StackReg, r))
       /\ \A k \in K : Is(all, off + 4 * k, Inst("nop", 0, 4))
  BY <1>6, <1>7, <1>12, <1>13, Merged
<1>16. ASSUME NEW o \in DOMAIN all PROVE o \in Nat /\ off <= o /\ o < off + 4 * LenA64
  <2>1. CASE o \in DOMAIN abc
    BY <1>2, <1>11, <2>1
  <2>2. CASE o \in DOMAIN d
    BY <1>2, <1>6, <2>2
  <2>3. CASE o \in DOMAIN e
    <3>1. PICK k \in K : o = off + 4 * k
      BY <1>7, <2>3
    <3> QED BY <1>2, <1>8, <3>1
  <2> QED BY <1>9, <2>1, <2>2, <2>3
<1> HIDE DEF ab, abc, abcd, all
<1> QED BY <1>1, <1>10, <1>14, <1>15, <1>16 DEF K

\* finish_func produces this code.
LEMMA StartA64Code ==
    ASSUME FnTypes, EmitRooms, Terminated, Start_a64
    PROVE  CodeA64(text', func_start_off', End)
<1> DEFINE skip == align_down(PrologueRoom("a64") - 4 * LenA64, 16)
           room == PrologueRoom("a64")
           arg == IF stack_args THEN room :> Inst("arg_ptr", FinalA64, 4) ELSE <<>>
           head == PrologueA64(skip)
           t0 == (head @@ arg) @@ text
<1>1. arch = "a64" /\ text' = WithEpilogues(t0) /\ func_start_off' = skip
  BY DEF Start_a64
<1>2. skip \in Nat /\ skip % 16 = 0 /\ skip + 4 * LenA64 = room /\ LenA64 \in Nat /\ 3 + Rows <= LenA64
      /\ Rows \in Nat
  BY <1>1, SkipIs, RowsFit
<1>3. /\ EpiA64(Epilogue, 0)
      /\ \A p \in DOMAIN Epilogue : p \in Nat /\ p < Room
      /\ SizeA64 \in Nat /\ 12 <= SizeA64 /\ SizeA64 <= Room /\ Room \in Nat
  <2>1. Epilogue = EpilogueA64
    BY <1>1 DEF Epilogue
  <2> QED BY <1>1, <2>1, EpilogueA64Is
<1>4. /\ Rets \in SUBSET Nat /\ body \in SUBSET Nat /\ Targets \in SUBSET Nat
      /\ Apart(Rets, Room) /\ Top \in Nat /\ Top = room + (IF stack_args THEN 4 ELSE 0)
  BY <1>1, TargetTypes DEF FnTypes, EmitRooms, Top
<1>5. /\ \A f \in Rets : \A p, i : Is(Epilogue, p, i) => Is(text', f + p, i)
      /\ \A o \in Nat : \A i : /\ \A f \in Rets : o < f \/ f + Room <= o
                               /\ Is(t0, o, i)
                               => Is(text', o, i)
  <2> HIDE DEF t0
  <2> QED BY <1>1, <1>3, <1>4, EpiloguesIn
<1>6. /\ \A o \in DOMAIN head : o \in Nat /\ skip <= o /\ o < room
      /\ Is(head, skip, Inst("sub_sp", FinalA64, 4)) /\ Is(head, skip + 4, FrameRecord("stp"))
      /\ Is(head, skip + 8, Inst("mov_fp_sp", 0, 4))
      /\ \A r \in Saved : First(r) =>
            Is(head, skip + 12 + 4 * Row(r), PairInst("stp", "str", StackReg, r))
      /\ \A k \in 3 + Rows .. LenA64 - 1 : Is(head, skip + 4 * k, Inst("nop", 0, 4))
  <2> HIDE DEF skip, room
  <2> QED BY <1>1, <1>2, PrologueA64Is
<1>7. /\ stack_args => DOMAIN arg = {room} /\ Is(arg, room, Inst("arg_ptr", FinalA64, 4))
      /\ ~stack_args => DOMAIN arg = {}
  <2>1. CASE stack_args
    <3>1. arg = (room :> Inst("arg_ptr", FinalA64, 4))
      BY <2>1
    <3> HIDE DEF arg, room
    <3> QED BY <2>1, <3>1, SMT DEF :>, Is
  <2>2. CASE ~stack_args
    <3>1. arg = <<>>
      BY <2>2
    <3> QED BY <2>2, <3>1
  <2> QED BY <2>1, <2>2
<1> HIDE DEF head, arg, skip, room
<1>8. room \in Nat /\ skip < room /\ room <= Top /\ room \notin DOMAIN head
  <2>1. room \in Nat /\ skip < room
    BY <1>2
  <2>2. ~(room < room)
    BY <2>1
  <2> QED BY <1>4, <1>6, <2>1, <2>2
<1>9. /\ \A o, i : Is(head, o, i) => Is(t0, o, i)
      /\ stack_args => Is(t0, room, Inst("arg_ptr", FinalA64, 4))
      /\ \A o, i : o \notin DOMAIN head /\ o \notin DOMAIN arg /\ Is(text, o, i) => Is(t0, o, i)
  <2>1. /\ \A o, i : Is(head, o, i) => Is(head @@ arg, o, i)
        /\ \A o, i : Is(head @@ arg, o, i) => Is(t0, o, i)
        /\ DOMAIN (head @@ arg) = DOMAIN head \cup DOMAIN arg
    BY Merged
  <2>2. stack_args => Is(head @@ arg, room, Inst("arg_ptr", FinalA64, 4))
    BY <1>7, <1>8, Merged
  <2>3. \A o, i : o \notin DOMAIN (head @@ arg) /\ Is(text, o, i) => Is(t0, o, i)
    BY Merged
  <2> QED BY <2>1, <2>2, <2>3
<1> HIDE DEF t0
<1>10. \A o \in Nat : \A i : o < Top /\ Is(t0, o, i) => Is(text', o, i)
  <2>1. \A o \in Nat : o < Top => \A f \in Rets : o < f \/ f + Room <= o
    <3> SUFFICES ASSUME NEW o \in Nat, o < Top, NEW f \in Rets PROVE o < f
      OBVIOUS
    <3>1. Top <= f /\ f \in Nat
      BY <1>4 DEF EmitRooms
    <3> QED BY <1>4, <3>1
  <2> QED BY <1>5, <2>1
<1>11. HeadA64(text', skip)
  <2>1. \A o, i : Is(head, o, i) => Is(text', o, i)
    <3> SUFFICES ASSUME NEW o, NEW i, Is(head, o, i) PROVE Is(text', o, i)
      OBVIOUS
    <3>1. o \in Nat /\ o < room
      BY <1>6 DEF Is
    <3>2. o < Top
      BY <1>4, <1>8, <3>1
    <3> QED BY <1>9, <1>10, <3>1, <3>2
  <2>2. stack_args => Is(text', room, Inst("arg_ptr", FinalA64, 4))
    <3>1. stack_args => room < Top
      BY <1>4, <1>8
    <3> QED BY <1>8, <1>9, <1>10, <3>1
  <2> QED BY <1>2, <1>6, <2>1, <2>2 DEF HeadA64, room
<1>12. Unused = Room - SizeA64 /\ 0 < SizeA64
  BY <1>1, <1>3 DEF Unused, Room
<1>13. End \in Nat /\ (\A o \in body : o + 4 <= End) /\ \A f \in Rets : f + SizeA64 <= End
  BY <1>3, <1>12, EndCovers
<1>14. ASSUME NEW o \in body PROVE o \in DOMAIN text' /\ BodyInst(text'[o], dyn_alloca)
  <2>1. /\ o \in Nat /\ Top <= o /\ o \in DOMAIN text /\ BodyInst(text[o], dyn_alloca)
        /\ \A f \in Rets : o + 4 <= f \/ f + Room <= o
    BY <1>4 DEF EmitRooms
  <2>2. \A f \in Rets : o < f \/ f + Room <= o
    BY <1>4, <2>1
  <2>3. o \notin DOMAIN head /\ o \notin DOMAIN arg
    <3>1. ~(o < room)
      BY <1>4, <1>8, <2>1
    <3>2. stack_args => o # room
      BY <1>4, <1>8, <2>1
    <3> QED BY <1>6, <1>7, <3>1, <3>2
  <2>4. Is(text', o, text[o])
    <3>1. Is(text, o, text[o])
      BY <2>1 DEF Is
    <3> QED BY <1>5, <1>9, <2>1, <2>2, <2>3, <3>1
  <2> QED BY <2>1, <2>4 DEF Is
<1>15. BodyCode(text', End)
  BY <1>3, <1>12, <1>13, <1>14, BodyCodeOf
<1>16. TailA64(text', End)
  <2> SUFFICES ASSUME NEW f \in Rets PROVE EpiA64(text', f)
    BY <1>13 DEF TailA64
  <2>1. f \in Nat /\ \A r \in Saved : First(r) => Row(r) \in Nat
    BY <1>1, <1>4, RowsFit, RowOwn
  <2>2. /\ f + 0 = f
        /\ \A r \in Saved : First(r) => f + (0 + 4 + 4 * Row(r)) = f + 4 + 4 * Row(r)
        /\ f + (0 + 4 + 4 * Rows) = f + 4 + 4 * Rows
        /\ f + (0 + (SizeA64 - 8)) = f + (SizeA64 - 8)
        /\ f + (0 + (SizeA64 - 4)) = f + (SizeA64 - 4)
    BY <1>2, <1>3, <2>1
  <2>3. /\ Is(text', f + 0, IF dyn_alloca THEN Inst("mov_sp_fp", 0, 4) ELSE FrameRecord("ldp"))
        /\ \A r \in Saved : First(r) =>
              Is(text', f + (0 + 4 + 4 * Row(r)), PairInst("ldp", "ldr", StackReg, r))
        /\ dyn_alloca => Is(text', f + (0 + 4 + 4 * Rows), FrameRecord("ldp"))
        /\ Is(text', f + (0 + (SizeA64 - 8)), Inst("add_sp", FinalA64, 4))
        /\ Is(text', f + (0 + (SizeA64 - 4)), Inst("ret", 0, 4))
    BY <1>3, <1>5 DEF EpiA64
  <2> QED BY <2>2, <2>3 DEF EpiA64
<1> QED BY <1>1, <1>11, <1>15, <1>16 DEF CodeA64, skip
----------------------------------------------------------------------------
(***************************************************************************)
(* AArch64: execution.                                                     *)
(***************************************************************************)
\* What a store does.
LEMMA StpDoes ==
    ASSUME Executes, NEW x, NEW y, NEW b, NEW o, Is(text, pc, Inst("stp", <<x, y, b, o>>, 4)),
           NEW a \in Int, a = From(b) + o
    PROVE  /\ pc' = pc + 4 /\ sp' = sp /\ regs' = regs /\ Goes
           /\ Is(mem', a, regs[x]) /\ Is(mem', a + 8, regs[y])
           /\ \A c, v : c # a /\ c # a + 8 /\ Is(mem, c, v) => Is(mem', c, v)
<1> DEFINE i == Inst("stp", <<x, y, b, o>>, 4)
           one == a :> regs[x]
           two == a + 8 :> regs[y]
<1>1. i.op = "stp" /\ i.size = 4 /\ i.arg = <<x, y, b, o>>
  BY DEF Inst
<1> HIDE DEF i
<1>2. ExecStore /\ text[pc] = i
  <2>1. Is(text, pc, i)
    BY DEF i
  <2>2. i.op \in {"stp", "str"}
    BY <1>1
  <2> QED BY <2>1, <2>2, ExecOf
<1>3. At("stp") /\ ~At("str")
  BY <1>1, <1>2 DEF ExecStore, At
<1>4. Arg = <<x, y, b, o>>
  BY <1>1, <1>2 DEF Arg
<1>5. mem' = (one @@ two) @@ mem
  <2>1. LET c == From(Arg[3]) + Arg[4]
        IN  mem' = ((c :> regs[Arg[1]]) @@ (c + 8 :> regs[Arg[2]])) @@ mem
    BY <1>2, <1>3 DEF ExecStore
  <2>2. Arg[1] = x /\ Arg[2] = y /\ Arg[3] = b /\ Arg[4] = o
    BY <1>4
  <2> QED BY <2>1, <2>2
<1>6. pc' = pc + 4 /\ sp' = sp /\ regs' = regs /\ Goes
  BY <1>1, <1>2 DEF ExecStore, GoOn, Goes
<1>7. DOMAIN one = {a} /\ Is(one, a, regs[x])
  BY SMT DEF :>, Is
<1>8. DOMAIN two = {a + 8} /\ Is(two, a + 8, regs[y])
  BY SMT DEF :>, Is
<1> HIDE DEF one, two
<1>9. DOMAIN (one @@ two) = {a, a + 8} /\ Is(one @@ two, a, regs[x]) /\ Is(one @@ two, a + 8, regs[y])
  <2>1. a + 8 \notin DOMAIN one
    BY <1>7
  <2>2. DOMAIN (one @@ two) = DOMAIN one \cup DOMAIN two
    BY Merged
  <2> QED BY <1>7, <1>8, <2>1, <2>2, Merged
<1>10. /\ Is(mem', a, regs[x]) /\ Is(mem', a + 8, regs[y])
       /\ \A c, v : c # a /\ c # a + 8 /\ Is(mem, c, v) => Is(mem', c, v)
  BY <1>5, <1>9, Merged
<1> QED BY <1>6, <1>10

\* What str does.
LEMMA StrDoes ==
    ASSUME Executes, NEW x, NEW b, NEW o, Is(text, pc, Inst("str", <<x, b, o>>, 4)),
           NEW a \in Int, a = From(b) + o
    PROVE  /\ pc' = pc + 4 /\ sp' = sp /\ regs' = regs /\ Goes
           /\ Is(mem', a, regs[x])
           /\ \A c, v : c # a /\ Is(mem, c, v) => Is(mem', c, v)
<1> DEFINE i == Inst("str", <<x, b, o>>, 4)
           one == a :> regs[x]
<1>1. i.op = "str" /\ i.size = 4 /\ i.arg = <<x, b, o>>
  BY DEF Inst
<1> HIDE DEF i
<1>2. ExecStore /\ text[pc] = i
  <2>1. Is(text, pc, i)
    BY DEF i
  <2>2. i.op \in {"stp", "str"}
    BY <1>1
  <2> QED BY <2>1, <2>2, ExecOf
<1>3. At("str") /\ ~At("stp")
  BY <1>1, <1>2 DEF ExecStore, At
<1>4. Arg[1] = x /\ Arg[2] = b /\ Arg[3] = o
  BY <1>1, <1>2 DEF Arg
<1>5. mem' = one @@ mem
  <2>1. mem' = (From(Arg[2]) + Arg[3] :> regs[Arg[1]]) @@ mem
    BY <1>2, <1>3 DEF ExecStore
  <2> QED BY <1>4, <2>1
<1>6. pc' = pc + 4 /\ sp' = sp /\ regs' = regs /\ Goes
  BY <1>1, <1>2 DEF ExecStore, GoOn, Goes
<1>7. DOMAIN one = {a} /\ Is(one, a, regs[x])
  BY SMT DEF :>, Is
<1> HIDE DEF one
<1>8. /\ Is(mem', a, regs[x])
      /\ \A c, v : c # a /\ Is(mem, c, v) => Is(mem', c, v)
  BY <1>5, <1>7, Merged
<1> QED BY <1>6, <1>8

\* What a load does.
LEMMA LdpDoes ==
    ASSUME Executes, NEW x, NEW y, NEW b, NEW o, Is(text, pc, Inst("ldp", <<x, y, b, o>>, 4)),
           NEW a \in Int, a = From(b) + o, NEW v, NEW w, Is(mem, a, v), Is(mem, a + 8, w),
           x \in DOMAIN regs, y \in DOMAIN regs, x # y
    PROVE  /\ pc' = pc + 4 /\ sp' = sp /\ mem' = mem /\ Goes
           /\ DOMAIN regs' = DOMAIN regs /\ regs'[x] = v /\ regs'[y] = w
           /\ \A q \in DOMAIN regs : q # x /\ q # y => regs'[q] = regs[q]
<1> DEFINE i == Inst("ldp", <<x, y, b, o>>, 4)
<1>1. i.op = "ldp" /\ i.size = 4 /\ i.arg = <<x, y, b, o>>
  BY DEF Inst
<1> HIDE DEF i
<1>2. ExecLoad /\ text[pc] = i
  <2>1. Is(text, pc, i)
    BY DEF i
  <2>2. i.op \in {"ldp", "ldr"}
    BY <1>1
  <2> QED BY <2>1, <2>2, ExecOf
<1>3. At("ldp") /\ ~At("ldr")
  BY <1>1, <1>2 DEF ExecLoad, At
<1>4. Arg[1] = x /\ Arg[2] = y /\ Arg[3] = b /\ Arg[4] = o
  BY <1>1, <1>2 DEF Arg
<1>5. Load(a) = v /\ Load(a + 8) = w
  BY DEF Load, Is
<1>6. regs' = [regs EXCEPT ![x] = v, ![y] = w]
  <2>1. LET c == From(Arg[3]) + Arg[4]
        IN  regs' = [regs EXCEPT ![Arg[1]] = Load(c), ![Arg[2]] = Load(c + 8)]
    BY <1>2, <1>3 DEF ExecLoad
  <2> QED BY <1>4, <1>5, <2>1
<1>7. pc' = pc + 4 /\ sp' = sp /\ mem' = mem /\ Goes
  BY <1>1, <1>2 DEF ExecLoad, GoOn, Goes
<1> QED BY <1>6, <1>7

\* What ldr does.
LEMMA LdrDoes ==
    ASSUME Executes, NEW x, NEW b, NEW o, Is(text, pc, Inst("ldr", <<x, b, o>>, 4)),
           NEW a \in Int, a = From(b) + o, NEW v, Is(mem, a, v), x \in DOMAIN regs
    PROVE  /\ pc' = pc + 4 /\ sp' = sp /\ mem' = mem /\ Goes
           /\ DOMAIN regs' = DOMAIN regs /\ regs'[x] = v
           /\ \A q \in DOMAIN regs : q # x => regs'[q] = regs[q]
<1> DEFINE i == Inst("ldr", <<x, b, o>>, 4)
<1>1. i.op = "ldr" /\ i.size = 4 /\ i.arg = <<x, b, o>>
  BY DEF Inst
<1> HIDE DEF i
<1>2. ExecLoad /\ text[pc] = i
  <2>1. Is(text, pc, i)
    BY DEF i
  <2>2. i.op \in {"ldp", "ldr"}
    BY <1>1
  <2> QED BY <2>1, <2>2, ExecOf
<1>3. At("ldr") /\ ~At("ldp")
  BY <1>1, <1>2 DEF ExecLoad, At
<1>4. Arg[1] = x /\ Arg[2] = b /\ Arg[3] = o
  BY <1>1, <1>2 DEF Arg
<1>5. Load(a) = v
  BY DEF Load, Is
<1>6. regs' = [regs EXCEPT ![x] = v]
  <2>1. regs' = [regs EXCEPT ![Arg[1]] = Load(From(Arg[2]) + Arg[3])]
    BY <1>2, <1>3 DEF ExecLoad
  <2> QED BY <1>4, <1>5, <2>1
<1>7. pc' = pc + 4 /\ sp' = sp /\ mem' = mem /\ Goes
  BY <1>1, <1>2 DEF ExecLoad, GoOn, Goes
<1> QED BY <1>6, <1>7
InA64 == FnTypes /\ arch = "a64" /\ CodeA64(text, func_start_off, offset)

SlotA64(r) == FrameOff(r) - FinalA64
KeptA64(g, D) == /\ DOMAIN g = (CsrA64 \cup {29}) \cup {30}
                 /\ \A r \in CsrA64 : r \notin Saved \/ r \in D => g[r] = Old(r)
StoredA64(m, D) == /\ Is(m, -FinalA64, Old(29)) /\ Is(m, 8 - FinalA64, Link)
                   /\ \A r \in D : Is(m, SlotA64(r), Old(r))

\* The size of the frame, and where the registers are in it.
LEMMA FrameA64 ==
    ASSUME FnTypes, arch = "a64"
    PROVE  /\ FinalA64 \in Nat /\ FinalA64 % 16 = 0 /\ frame_size <= FinalA64
           /\ Base("a64") \in Nat /\ Base("a64") <= frame_size /\ 16 <= Base("a64")
           /\ \A r \in Saved : /\ FrameOff(r) \in Nat /\ 16 <= FrameOff(r)
                               /\ FrameOff(r) + 8 <= Base("a64")
                               /\ SlotA64(r) \in Int
           /\ \A q, r \in Saved : q < r => FrameOff(q) + 8 <= FrameOff(r)
<1> DEFINE n == align_up(frame_size, 16)
<1>1. frame_size \in Nat /\ Base("a64") <= frame_size
  BY DEF FnTypes
<1>2. n \in Nat /\ frame_size <= n /\ n % 16 = 0
  BY <1>1, AlignUp
<1> HIDE DEF n
<1>3. align_up(n, 4096) \in Nat /\ n <= align_up(n, 4096) /\ align_up(n, 4096) % 16 = 0
  <2>1. align_up(n, 4096) \in Nat /\ n <= align_up(n, 4096) /\ align_up(n, 4096) % 4096 = 0
    <3>1. n \in Nat
      BY <1>2
    <3> QED BY ONLY <3>1, AlignUp
  <2> QED BY ONLY <2>1
<1>4. FinalA64 = IF n > 4095 THEN align_up(n, 4096) ELSE n
  BY DEF FinalA64, n
<1>5. FinalA64 \in Nat /\ FinalA64 % 16 = 0 /\ frame_size <= FinalA64
  BY <1>1, <1>2, <1>3, <1>4
<1>6. Saved \in SUBSET Regs /\ Saved \in SUBSET CsrA64
  BY RowsFit
<1>7. /\ Cardinality(Saved) \in Nat /\ Cardinality(CsrA64) \in Nat
      /\ Cardinality(Saved) <= Cardinality(CsrA64)
  BY <1>6, CsrRegs, RegSets
<1>8. Base("a64") \in Nat /\ 16 + 8 * Cardinality(CsrA64) <= Base("a64")
  <2>1. Base("a64") = 16 + align_up(8 * Cardinality(CsrA64), 16)
    BY DEF Base, Csr
  <2>2. 8 * Cardinality(CsrA64) \in Nat
    BY <1>7
  <2>3. align_up(8 * Cardinality(CsrA64), 16) \in Nat
        /\ 8 * Cardinality(CsrA64) <= align_up(8 * Cardinality(CsrA64), 16)
    BY <2>2, AlignUp
  <2> QED BY <2>1, <2>2, <2>3
<1>9. ASSUME NEW r \in Saved
      PROVE  /\ FrameOff(r) \in Nat /\ 16 <= FrameOff(r) /\ FrameOff(r) + 8 <= Base("a64")
             /\ SlotA64(r) \in Int
  <2>1. /\ Cardinality(Below(r)) \in Nat /\ Cardinality(Below(r)) + 1 <= Cardinality(Saved)
    BY <1>6, BelowParts, BelowRoom
  <2> QED BY <1>5, <1>7, <1>8, <2>1 DEF FrameOff, SlotA64
<1>10. ASSUME NEW q \in Saved, NEW r \in Saved, q < r PROVE FrameOff(q) + 8 <= FrameOff(r)
  <2>1. Below(q) = BelowIn(Saved, q) /\ Below(r) = BelowIn(Saved, r)
        /\ Cardinality(Below(q)) \in Nat /\ Cardinality(Below(r)) \in Nat
    BY <1>6, BelowParts
  <2>2. Cardinality(BelowIn(Saved, q)) + 1 <= Cardinality(BelowIn(Saved, r))
    BY <1>6, <1>10, BelowRoom
  <2> QED BY <2>1, <2>2 DEF FrameOff
<1> QED BY <1>1, <1>5, <1>7, <1>8, <1>9, <1>10

\* A row of stores stores its registers at their places.
LEMMA StoreRow ==
    ASSUME InA64, Executes, NEW r \in Saved, First(r), From(StackReg) = -FinalA64,
           Is(text, pc, PairInst("stp", "str", StackReg, r))
    PROVE  /\ pc' = pc + 4 /\ sp' = sp /\ regs' = regs /\ Goes
           /\ Is(mem', SlotA64(r), regs[r])
           /\ \A q \in Partner(r) : Is(mem', SlotA64(q), regs[q])
           /\ \A c, v : /\ c # SlotA64(r) /\ \A q \in Partner(r) : c # SlotA64(q)
                        /\ Is(mem, c, v)
                        => Is(mem', c, v)
<1>1. FinalA64 \in Nat /\ FrameOff(r) \in Nat /\ SlotA64(r) \in Int /\ Saved \in SUBSET Regs
  BY FrameA64, RowsFit DEF InA64
<1>2. SlotA64(r) = From(StackReg) + FrameOff(r)
  BY <1>1 DEF SlotA64
<1>3. CASE Partner(r) = {}
  <2>1. Is(text, pc, Inst("str", <<r, StackReg, FrameOff(r)>>, 4))
    BY <1>3 DEF PairInst
  <2> QED BY <1>1, <1>2, <1>3, <2>1, StrDoes
<1>4. CASE Partner(r) # {}
  <2> DEFINE q == CHOOSE q \in Partner(r) : TRUE
  <2>1. q \in Partner(r)
    BY <1>4
  <2>2. Is(text, pc, Inst("stp", <<r, q, StackReg, FrameOff(r)>>, 4))
    BY <1>4 DEF PairInst
  <2> HIDE DEF q
  <2>3. q \in Saved /\ Partner(r) = {q} /\ FrameOff(q) = FrameOff(r) + 8
    BY <1>1, <2>1, PartnerOf
  <2>4. SlotA64(q) = SlotA64(r) + 8
    BY <1>1, <2>3 DEF SlotA64
  <2>5. /\ pc' = pc + 4 /\ sp' = sp /\ regs' = regs /\ Goes
        /\ Is(mem', SlotA64(r), regs[r]) /\ Is(mem', SlotA64(r) + 8, regs[q])
        /\ \A c, v : c # SlotA64(r) /\ c # SlotA64(r) + 8 /\ Is(mem, c, v) => Is(mem', c, v)
    BY <1>1, <1>2, <2>2, StpDoes
  <2> QED BY <2>3, <2>4, <2>5
<1> QED BY <1>3, <1>4

\* A row of loads loads them from there.
LEMMA LoadRow ==
    ASSUME InA64, Executes, NEW r \in Saved, First(r), From(StackReg) = -FinalA64,
           Is(text, pc, PairInst("ldp", "ldr", StackReg, r)),
           StoredA64(mem, Saved), Saved \in SUBSET DOMAIN regs
    PROVE  /\ pc' = pc + 4 /\ sp' = sp /\ mem' = mem /\ Goes
           /\ DOMAIN regs' = DOMAIN regs
           /\ \A q \in {r} \cup Partner(r) : regs'[q] = Old(q)
           /\ \A q \in DOMAIN regs : q \notin {r} \cup Partner(r) => regs'[q] = regs[q]
<1>1. FinalA64 \in Nat /\ FrameOff(r) \in Nat /\ SlotA64(r) \in Int /\ Saved \in SUBSET Regs
  BY FrameA64, RowsFit DEF InA64
<1>2. SlotA64(r) = From(StackReg) + FrameOff(r) /\ Is(mem, SlotA64(r), Old(r)) /\ r \in DOMAIN regs
  BY <1>1 DEF SlotA64, StoredA64
<1>3. CASE Partner(r) = {}
  <2>1. Is(text, pc, Inst("ldr", <<r, StackReg, FrameOff(r)>>, 4))
    BY <1>3 DEF PairInst
  <2>2. /\ pc' = pc + 4 /\ sp' = sp /\ mem' = mem /\ Goes
        /\ DOMAIN regs' = DOMAIN regs /\ regs'[r] = Old(r)
        /\ \A q \in DOMAIN regs : q # r => regs'[q] = regs[q]
    BY <1>1, <1>2, <2>1, LdrDoes
  <2> QED BY <1>3, <2>2
<1>4. CASE Partner(r) # {}
  <2> DEFINE q == CHOOSE q \in Partner(r) : TRUE
  <2>1. q \in Partner(r)
    BY <1>4
  <2>2. Is(text, pc, Inst("ldp", <<r, q, StackReg, FrameOff(r)>>, 4))
    BY <1>4 DEF PairInst
  <2> HIDE DEF q
  <2>3. q \in Saved /\ Partner(r) = {q} /\ FrameOff(q) = FrameOff(r) + 8 /\ q # r
    BY <1>1, <2>1, PartnerOf
  <2>4. SlotA64(q) = SlotA64(r) + 8
    BY <1>1, <2>3 DEF SlotA64
  <2>5. Is(mem, SlotA64(r) + 8, Old(q)) /\ q \in DOMAIN regs
    BY <2>3, <2>4 DEF StoredA64
  <2>6. /\ pc' = pc + 4 /\ sp' = sp /\ mem' = mem /\ Goes
        /\ DOMAIN regs' = DOMAIN regs /\ regs'[r] = Old(r) /\ regs'[q] = Old(q)
        /\ \A x \in DOMAIN regs : x # r /\ x # q => regs'[x] = regs[x]
    BY <1>1, <1>2, <2>2, <2>3, <2>5, LdpDoes
  <2> QED BY <2>3, <2>6
<1> QED BY <1>3, <1>4
(***************************************************************************)
(* AArch64: how far the execution is, for pc = p, sp = s, regs = g, mem = m *)
(***************************************************************************)
AtSub(p, s, g, m) ==
    /\ p = func_start_off /\ s = 0
    /\ KeptA64(g, Saved) /\ g[29] = Old(29) /\ g[30] = Link
AtRecord(p, s, g, m) ==
    /\ p = func_start_off + 4 /\ s = -FinalA64
    /\ KeptA64(g, Saved) /\ g[29] = Old(29) /\ g[30] = Link
AtMovA64(p, s, g, m) ==
    /\ p = func_start_off + 8 /\ s = -FinalA64
    /\ KeptA64(g, Saved) /\ StoredA64(m, {})
AtStore(D, p, s, g, m) ==
    /\ RowSet(D) /\ p = func_start_off + 12 + 4 * RowsOf(D) /\ s = -FinalA64
    /\ KeptA64(g, Saved) /\ g[29] = Addr(-FinalA64) /\ StoredA64(m, D)
AtNop(k, p, s, g, m) ==
    /\ p = func_start_off + 4 * k /\ s = -FinalA64
    /\ KeptA64(g, Saved) /\ g[29] = Addr(-FinalA64) /\ StoredA64(m, Saved)
AtBodyA64(p, s, g, m) ==
    /\ p \in Targets
    /\ s \in Int /\ s <= -FinalA64 /\ s % 16 = 0 /\ (~dyn_alloca => s = -FinalA64)
    /\ KeptA64(g, {}) /\ g[29] = Addr(-FinalA64) /\ StoredA64(m, Saved)
AtLoad(f, D, p, s, g, m) ==
    /\ f \in Rets /\ RowSet(D) /\ p = f + 4 + 4 * RowsOf(D) /\ s = -FinalA64
    /\ KeptA64(g, D) /\ StoredA64(m, Saved)
    /\ dyn_alloca => g[29] = Addr(-FinalA64)
    /\ ~dyn_alloca => g[29] = Old(29) /\ g[30] = Link
AtAdd(f, p, s, g, m) ==
    /\ f \in Rets /\ p = f + (SizeA64 - 8) /\ s = -FinalA64
    /\ KeptA64(g, Saved) /\ g[29] = Old(29) /\ g[30] = Link
AtRetA64(f, p, s, g, m) ==
    /\ f \in Rets /\ p = f + (SizeA64 - 4) /\ s = 0
    /\ KeptA64(g, Saved) /\ g[29] = Old(29) /\ g[30] = Link

StageA64(p, s, g, m) ==
    \/ AtSub(p, s, g, m) \/ AtRecord(p, s, g, m) \/ AtMovA64(p, s, g, m)
    \/ \E D \in SUBSET Saved : AtStore(D, p, s, g, m)
    \/ \E k \in 3 + Rows .. LenA64 : AtNop(k, p, s, g, m)
    \/ AtBodyA64(p, s, g, m)
    \/ \E f \in Rets, D \in SUBSET Saved : AtLoad(f, D, p, s, g, m)
    \/ \E f \in Rets : AtAdd(f, p, s, g, m) \/ AtRetA64(f, p, s, g, m)

\* Facts about the function that every step uses.
LEMMA FnA64 ==
    ASSUME InA64
    PROVE  /\ HeadA64(text, func_start_off) /\ BodyCode(text, offset) /\ TailA64(text, offset)
           /\ func_start_off \in Nat /\ FinalA64 \in Nat /\ FinalA64 % 16 = 0
           /\ Saved \in SUBSET Regs /\ Saved \in SUBSET CsrA64 /\ 29 \notin CsrA64 /\ 30 \notin CsrA64
           /\ Rets \in SUBSET Nat /\ Targets \in SUBSET Nat
           /\ Rows \in Nat /\ LenA64 \in Nat /\ 3 + Rows <= LenA64
           /\ SizeA64 \in Nat /\ SizeA64 = 12 + 4 * Rows + (IF dyn_alloca THEN 4 ELSE 0)
           /\ func_start_off + 4 * LenA64 = PrologueRoom("a64")
           /\ Top = PrologueRoom("a64") + (IF stack_args THEN 4 ELSE 0)
           /\ FP(arch) = 29 /\ LR = 30
<1>1. FnTypes /\ arch = "a64" /\ CodeA64(text, func_start_off, offset)
  BY DEF InA64
<1>2. /\ HeadA64(text, func_start_off) /\ BodyCode(text, offset) /\ TailA64(text, offset)
      /\ func_start_off \in Nat /\ func_start_off + 4 * LenA64 = PrologueRoom("a64")
  BY <1>1 DEF CodeA64, HeadA64
<1>3. FinalA64 \in Nat /\ FinalA64 % 16 = 0
  BY <1>1, FrameA64
<1>4. Saved \in SUBSET Regs /\ Saved \in SUBSET CsrA64 /\ 29 \notin CsrA64 /\ 30 \notin CsrA64
  BY <1>1, RowsFit, CsrRegs
<1>5. Rows \in Nat /\ LenA64 \in Nat /\ 3 + Rows <= LenA64
      /\ SizeA64 = 12 + 4 * Rows + (IF dyn_alloca THEN 4 ELSE 0)
  BY <1>1, RowsFit, SkipIs
<1>6. SizeA64 \in Nat
  BY <1>1, EpilogueA64Is
<1>7. Top = PrologueRoom("a64") + (IF stack_args THEN 4 ELSE 0) /\ FP(arch) = 29 /\ LR = 30
  BY <1>1 DEF Top, FP, LR
<1>8. Rets \in SUBSET Nat /\ Targets \in SUBSET Nat
  BY <1>1, TargetTypes
<1> QED BY <1>2, <1>3, <1>4, <1>5, <1>6, <1>7, <1>8

\* Saving no register takes no row, and all of them take all rows.
LEMMA RowEnds ==
    /\ RowsOf({}) = 0 /\ RowSet({})
    /\ RowsOf(Saved) = Rows
<1>1. HalfUp({}) = 0
  BY FS_EmptySet DEF HalfUp
<1>2. {} \cap SavedGp = {} /\ {} \ SavedGp = {} /\ Saved \cap SavedGp = SavedGp
  BY DEF SavedGp
<1> QED BY <1>1, <1>2 DEF RowsOf, Rows, RowSet, LowerSet

\* sub sp
LEMMA SubStep ==
    ASSUME InA64, Executes, AtSub(pc, sp, regs, mem)
    PROVE  AtRecord(pc', sp', regs', mem') /\ Goes
<1> DEFINE i == Inst("sub_sp", FinalA64, 4)
<1>1. /\ Is(text, pc, i) /\ pc = func_start_off /\ sp = 0
      /\ KeptA64(regs, Saved) /\ regs[29] = Old(29) /\ regs[30] = Link
  BY FnA64 DEF HeadA64, AtSub
<1>2. i.op = "sub_sp" /\ i.size = 4 /\ i.op \in FrameOps /\ i.arg = FinalA64
  BY DEF Inst, FrameOps
<1> HIDE DEF i
<1>3. pc' = pc + 4 /\ mem' = mem /\ Goes /\ sp' = sp - FinalA64 /\ regs' = regs
  BY <1>1, <1>2, FrameDoes
<1>4. sp' = -FinalA64
  BY <1>1, <1>3, FnA64
<1> QED BY <1>1, <1>3, <1>4 DEF AtRecord

\* stp x29, x30
LEMMA RecordStep ==
    ASSUME InA64, Executes, AtRecord(pc, sp, regs, mem)
    PROVE  AtMovA64(pc', sp', regs', mem') /\ Goes
<1>1. /\ Is(text, pc, FrameRecord("stp")) /\ pc = func_start_off + 4 /\ sp = -FinalA64
      /\ KeptA64(regs, Saved) /\ regs[29] = Old(29) /\ regs[30] = Link
  BY FnA64 DEF HeadA64, AtRecord
<1>2. FrameRecord("stp") = Inst("stp", <<29, 30, "sp", 0>>, 4)
  BY DEF FrameRecord, FP, LR
<1>3. FinalA64 \in Nat /\ -FinalA64 \in Int /\ -FinalA64 = From("sp") + 0
  BY <1>1, FnA64 DEF From
<1>4. /\ pc' = pc + 4 /\ sp' = sp /\ regs' = regs /\ Goes
      /\ Is(mem', -FinalA64, regs[29]) /\ Is(mem', -FinalA64 + 8, regs[30])
  <2>1. Is(text, pc, Inst("stp", <<29, 30, "sp", 0>>, 4))
    BY <1>1, <1>2
  <2> QED BY <1>3, <2>1, StpDoes
<1>5. pc' = func_start_off + 8 /\ -FinalA64 + 8 = 8 - FinalA64
  BY <1>1, <1>3, <1>4, FnA64
<1> QED BY <1>1, <1>4, <1>5 DEF AtMovA64, StoredA64

\* mov x29, sp
LEMMA MovStepA64 ==
    ASSUME InA64, Executes, AtMovA64(pc, sp, regs, mem)
    PROVE  AtStore({}, pc', sp', regs', mem') /\ Goes
<1> DEFINE i == Inst("mov_fp_sp", 0, 4)
<1>1. /\ Is(text, pc, i) /\ pc = func_start_off + 8 /\ sp = -FinalA64
      /\ KeptA64(regs, Saved) /\ StoredA64(mem, {})
  BY FnA64 DEF HeadA64, AtMovA64
<1>2. i.op = "mov_fp_sp" /\ i.size = 4 /\ i.op \in FrameOps /\ FP(arch) = 29
  BY FnA64 DEF Inst, FrameOps
<1> HIDE DEF i
<1>3. pc' = pc + 4 /\ mem' = mem /\ Goes /\ sp' = sp /\ regs' = [regs EXCEPT ![29] = Addr(-FinalA64)]
  BY <1>1, <1>2, FrameDoes
<1>4. pc' = func_start_off + 12 + 4 * RowsOf({})
  <2>1. RowsOf({}) = 0
    BY RowEnds
  <2> QED BY <1>1, <1>3, <2>1, FnA64
<1>5. KeptA64(regs', Saved) /\ regs'[29] = Addr(-FinalA64)
  <2>1. DOMAIN regs = (CsrA64 \cup {29}) \cup {30} /\ 29 \notin CsrA64
    BY <1>1, FnA64 DEF KeptA64
  <2> QED BY <1>1, <1>3, <2>1 DEF KeptA64
<1> QED BY <1>1, <1>3, <1>4, <1>5, RowEnds DEF AtStore

\* stp or str of the next registers
LEMMA StoreStep ==
    ASSUME InA64, Executes, NEW D \in SUBSET Saved, AtStore(D, pc, sp, regs, mem), D # Saved
    PROVE  (\E E \in SUBSET Saved : AtStore(E, pc', sp', regs', mem')) /\ Goes
<1>1. /\ RowSet(D) /\ pc = func_start_off + 12 + 4 * RowsOf(D) /\ sp = -FinalA64
      /\ KeptA64(regs, Saved) /\ regs[29] = Addr(-FinalA64) /\ StoredA64(mem, D)
  BY DEF AtStore
<1>2. Saved \in SUBSET Regs /\ Saved \in SUBSET CsrA64 /\ FP(arch) = 29 /\ FinalA64 \in Nat
      /\ func_start_off \in Nat
  BY FnA64
<1>3. PICK r \in Saved : /\ r \notin D /\ D = Below(r) /\ First(r) /\ Row(r) = RowsOf(D)
                         /\ RowSet((D \cup {r}) \cup Partner(r))
                         /\ (D \cup {r}) \cup Partner(r) \in SUBSET Saved
                         /\ RowsOf((D \cup {r}) \cup Partner(r)) = RowsOf(D) + 1
  BY <1>1, <1>2, NextRow
<1>4. Is(text, pc, PairInst("stp", "str", StackReg, r))
  BY <1>1, <1>3, FnA64 DEF HeadA64
<1>5. From(StackReg) = -FinalA64
  BY <1>1, <1>2 DEF From, StackReg, fp, Addr
<1>6. /\ pc' = pc + 4 /\ sp' = sp /\ regs' = regs /\ Goes
      /\ Is(mem', SlotA64(r), regs[r])
      /\ \A q \in Partner(r) : Is(mem', SlotA64(q), regs[q])
      /\ \A c, v : /\ c # SlotA64(r) /\ \A q \in Partner(r) : c # SlotA64(q)
                   /\ Is(mem, c, v)
                   => Is(mem', c, v)
  BY <1>3, <1>4, <1>5, StoreRow
<1> DEFINE E == (D \cup {r}) \cup Partner(r)
<1>7. pc' = func_start_off + 12 + 4 * RowsOf(E)
  <2>1. RowsOf(D) \in Nat
    BY <1>2, <1>3, RowOwn
  <2> HIDE DEF E
  <2>2. RowsOf(E) = RowsOf(D) + 1
    BY <1>3 DEF E
  <2> QED BY <1>1, <1>2, <1>6, <2>1, <2>2
<1>8. StoredA64(mem', E)
  <2>1. \A q \in E \ D : q \in Saved /\ ~(q < r) /\ (q = r \/ q \in Partner(r)) /\ q \in Nat
    <3> SUFFICES ASSUME NEW q \in E \ D
                 PROVE  q \in Saved /\ ~(q < r) /\ (q = r \/ q \in Partner(r)) /\ q \in Nat
      OBVIOUS
    <3>1. q \in Saved /\ (q = r \/ q \in Partner(r))
      BY <1>3
    <3>2. ~(q < r)
      BY <1>3, <3>1 DEF Below
    <3>3. q \in Nat
      BY <1>2, <3>1, BelowParts
    <3> QED BY <3>1, <3>2, <3>3
  <2>2. ASSUME NEW q \in E \ D PROVE Is(mem', SlotA64(q), Old(q))
    <3>1. regs[q] = Old(q)
      BY <1>1, <1>2, <2>1 DEF KeptA64
    <3> QED BY <1>6, <2>1, <3>1
  <2>3. \A q \in E \ D : /\ 16 <= FrameOff(q) /\ FrameOff(q) \in Nat
                         /\ \A x \in D : FrameOff(x) \in Nat /\ FrameOff(x) + 8 <= FrameOff(q)
    <3> SUFFICES ASSUME NEW q \in E \ D
                 PROVE  /\ 16 <= FrameOff(q) /\ FrameOff(q) \in Nat
                        /\ \A x \in D : FrameOff(x) \in Nat /\ FrameOff(x) + 8 <= FrameOff(q)
      OBVIOUS
    <3>1. \A x \in D : x \in Saved /\ x < q
      <4> SUFFICES ASSUME NEW x \in D PROVE x \in Saved /\ x < q
        OBVIOUS
      <4>1. x \in Saved /\ x < r
        BY <1>3 DEF Below
      <4>2. x \in Nat /\ r \in Nat /\ q \in Nat
        BY <1>2, <2>1, <4>1, BelowParts
      <4> QED BY <2>1, <4>1, <4>2
    <3>2. FnTypes /\ arch = "a64"
      BY DEF InA64
    <3> QED BY <2>1, <3>1, <3>2, FrameA64
  <2>4. \A q \in E \ D : /\ SlotA64(q) # -FinalA64 /\ SlotA64(q) # 8 - FinalA64
                         /\ \A x \in D : SlotA64(q) # SlotA64(x)
    BY <1>2, <2>3 DEF SlotA64
  <2>5. r \in E \ D /\ Partner(r) \in SUBSET (E \ D)
    <3>1. ASSUME NEW q \in Partner(r) PROVE q \notin D
      <4>1. q \in Saved /\ r < q
        BY <1>2, <1>3, PartnerOf
      <4>2. r \in Nat /\ q \in Nat
        BY <1>2, <4>1, BelowParts
      <4> QED BY <1>3, <4>1, <4>2 DEF Below
    <3> QED BY <1>3, <3>1
  <2>6. \A c, v : (\A q \in E \ D : SlotA64(q) # c) /\ Is(mem, c, v) => Is(mem', c, v)
    <3> HIDE DEF E
    <3> QED BY <1>6, <2>5
  <2>7. Is(mem', -FinalA64, Old(29)) /\ Is(mem', 8 - FinalA64, Link)
        /\ \A x \in D : Is(mem', SlotA64(x), Old(x))
    BY <1>1, <2>4, <2>6 DEF StoredA64
  <2>8. \A x \in E : Is(mem', SlotA64(x), Old(x))
    BY <2>2, <2>7
  <2> HIDE DEF E
  <2> QED BY <2>7, <2>8 DEF StoredA64
<1>9. AtStore(E, pc', sp', regs', mem') /\ E \in SUBSET Saved
  <2>1. RowSet(E) /\ E \in SUBSET Saved
    BY <1>3
  <2> HIDE DEF E
  <2> QED BY <1>1, <1>6, <1>7, <1>8, <2>1 DEF AtStore
<1> HIDE DEF E
<1> QED BY <1>6, <1>9

\* Once the registers are stored, the padding follows.
LEMMA StoredAll ==
    ASSUME InA64, AtStore(Saved, pc, sp, regs, mem)
    PROVE  3 + Rows \in 3 + Rows .. LenA64 /\ AtNop(3 + Rows, pc, sp, regs, mem)
<1>1. Rows \in Nat /\ LenA64 \in Nat /\ 3 + Rows <= LenA64 /\ func_start_off \in Nat
  BY FnA64
<1>2. pc = func_start_off + 12 + 4 * Rows
  BY RowEnds DEF AtStore
<1>3. pc = func_start_off + 4 * (3 + Rows) /\ 3 + Rows \in 3 + Rows .. LenA64
  BY <1>1, <1>2
<1> QED BY <1>3 DEF AtStore, AtNop

\* nop
LEMMA NopStep ==
    ASSUME InA64, Executes, NEW k \in 3 + Rows .. LenA64, AtNop(k, pc, sp, regs, mem), k # LenA64
    PROVE  k + 1 \in 3 + Rows .. LenA64 /\ AtNop(k + 1, pc', sp', regs', mem') /\ Goes
<1> DEFINE i == Inst("nop", 0, 4)
<1>1. Rows \in Nat /\ LenA64 \in Nat /\ func_start_off \in Nat
  BY FnA64
<1>2. k \in Nat /\ k \in 3 + Rows .. LenA64 - 1 /\ k + 1 \in 3 + Rows .. LenA64
  BY <1>1
<1>3. Is(text, pc, i)
  BY <1>2, FnA64 DEF HeadA64, AtNop
<1>4. i.op = "nop" /\ i.size = 4 /\ i.op \in FrameOps
  BY DEF Inst, FrameOps
<1> HIDE DEF i
<1>5. pc' = pc + 4 /\ mem' = mem /\ Goes /\ sp' = sp /\ regs' = regs
  BY <1>3, <1>4, FrameDoes
<1>6. pc' = func_start_off + 4 * (k + 1)
  BY <1>1, <1>2, <1>5 DEF AtNop
<1> QED BY <1>2, <1>5, <1>6 DEF AtNop

\* The padding ends where the body starts,
LEMMA NoppedAll ==
    ASSUME InA64, AtNop(LenA64, pc, sp, regs, mem), ~stack_args
    PROVE  AtBodyA64(pc, sp, regs, mem)
<1>1. /\ pc = Top /\ Top \in Targets /\ FinalA64 \in Nat /\ FinalA64 % 16 = 0
  <2>1. func_start_off + 4 * LenA64 = Top /\ Top \in Targets
    <3>1. PrologueRoom("a64") \in Nat
      BY RoomTypes
    <3> QED BY <3>1, FnA64 DEF BodyCode
  <2> QED BY <2>1, FnA64 DEF AtNop
<1>2. -FinalA64 \in Int /\ -FinalA64 <= -FinalA64 /\ (-FinalA64) % 16 = 0
  BY ONLY <1>1
<1>3. KeptA64(regs, {})
  BY DEF AtNop, KeptA64
<1> QED BY <1>1, <1>2, <1>3 DEF AtNop, AtBodyA64

\* ... or at the address of the stack arguments.
LEMMA ArgStep ==
    ASSUME InA64, Executes, AtNop(LenA64, pc, sp, regs, mem), stack_args
    PROVE  AtBodyA64(pc', sp', regs', mem') /\ Goes
<1> DEFINE i == Inst("arg_ptr", FinalA64, 4)
<1>1. /\ Is(text, pc, i) /\ pc = PrologueRoom("a64") /\ Top = pc + 4
      /\ Top \in Targets /\ FinalA64 \in Nat /\ FinalA64 % 16 = 0 /\ sp = -FinalA64
  BY FnA64 DEF HeadA64, AtNop, BodyCode
<1>2. i.op = "arg_ptr" /\ i.size = 4 /\ i.op \in FrameOps
  BY DEF Inst, FrameOps
<1> HIDE DEF i
<1>3. pc' = pc + 4 /\ mem' = mem /\ Goes /\ sp' = sp /\ regs' = regs
  BY <1>1, <1>2, FrameDoes
<1>4. -FinalA64 \in Int /\ -FinalA64 <= -FinalA64 /\ (-FinalA64) % 16 = 0
  BY ONLY <1>1
<1>5. KeptA64(regs', {})
  BY <1>3 DEF AtNop, KeptA64
<1> QED BY <1>1, <1>3, <1>4, <1>5 DEF AtNop, AtBodyA64

\* An instruction of the body.
LEMMA BodyStepA64 ==
    ASSUME InA64, Executes, AtBodyA64(pc, sp, regs, mem), pc \in body
    PROVE  AtBodyA64(pc', sp', regs', mem') /\ Goes
<1> DEFINE low == Base("a64")
<1>1. /\ sp \in Int /\ sp <= -FinalA64 /\ sp % 16 = 0 /\ (~dyn_alloca => sp = -FinalA64)
      /\ KeptA64(regs, {}) /\ regs[29] = Addr(-FinalA64) /\ StoredA64(mem, Saved)
  BY DEF AtBodyA64
<1>2. pc \in DOMAIN text /\ BodyInst(text[pc], dyn_alloca)
  BY FnA64 DEF BodyCode
<1>3. text[pc].op \in {"work", "alloca"} /\ (text[pc].op = "alloca" => dyn_alloca)
  BY <1>2 DEF BodyInst, Inst
<1>4. ExecBody
  <2>1. Is(text, pc, text[pc])
    BY <1>2 DEF Is
  <2> QED BY <1>3, <2>1, ExecOf
<1>5. Goes /\ sp' \in {sp, sp - 16} /\ (~dyn_alloca => sp' = sp)
  BY <1>3, <1>4 DEF ExecBody, Goes, At
<1>6. pc' \in Targets
  BY <1>4 DEF ExecBody, Targets
<1>7. /\ DOMAIN regs' = DOMAIN regs
      /\ \A r \in DOMAIN regs : r \notin clobbered \cup {30} => regs'[r] = regs[r]
  BY <1>4 DEF ExecBody, LR
<1>8. \A a, v : Is(mem, a, v) /\ ~Overwritten(a) => Is(mem', a, v)
  BY <1>4 DEF ExecBody, Is
<1>9. FnTypes /\ arch = "a64"
  BY DEF InA64
<1>10. FinalA64 \in Nat /\ low \in Nat /\ 16 <= low /\ frame_size \in Nat
  BY <1>9, FrameA64 DEF FnTypes
<1>11. SlotBytes = low - FinalA64 .. frame_size - FinalA64 - 1
  <2>1. fp = -FinalA64 /\ Base(arch) = low
    BY <1>1, <1>9, FnA64 DEF fp, Addr
  <2>2. SlotBytes = fp + low .. fp + frame_size - 1
    BY <1>9, <2>1 DEF SlotBytes
  <2> QED BY <1>10, <2>1, <2>2
<1> HIDE DEF low
<1>12. \A a \in Int : -FinalA64 <= a /\ a + 8 <= low - FinalA64 => ~Overwritten(a)
  <2> SUFFICES ASSUME NEW a \in Int, -FinalA64 <= a, a + 8 <= low - FinalA64 PROVE ~Overwritten(a)
    OBVIOUS
  <2>1. ~(a < sp)
    BY <1>1, <1>10
  <2>2. (a .. a + 7) \cap SlotBytes = {}
    BY <1>10, <1>11
  <2> QED BY <2>1, <2>2 DEF Overwritten
<1>13. StoredA64(mem', Saved)
  <2>1. ASSUME NEW r \in Saved
        PROVE  SlotA64(r) \in Int /\ -FinalA64 <= SlotA64(r) /\ SlotA64(r) + 8 <= low - FinalA64
    <3>1. FrameOff(r) \in Nat /\ FrameOff(r) + 8 <= low
      BY <1>9, FrameA64 DEF low
    <3> QED BY <1>10, <3>1 DEF SlotA64
  <2>2. /\ -FinalA64 \in Int /\ 8 - FinalA64 \in Int /\ -FinalA64 <= -FinalA64
        /\ -FinalA64 + 8 <= low - FinalA64 /\ -FinalA64 <= 8 - FinalA64
        /\ (8 - FinalA64) + 8 <= low - FinalA64
    BY <1>10
  <2> QED BY <1>1, <1>8, <1>12, <2>1, <2>2 DEF StoredA64
<1>14. KeptA64(regs', {}) /\ regs'[29] = Addr(-FinalA64)
  <2>1. 29 \notin clobbered \cup {30} /\ 30 \notin CsrA64
    BY <1>9, CsrRegs DEF FnTypes, Csr
  <2>2. \A r \in CsrA64 : r \notin Saved => r \notin clobbered
    BY <1>9 DEF Saved, Csr
  <2> QED BY <1>1, <1>7, <2>1, <2>2 DEF KeptA64
<1>15. sp' \in Int /\ sp' <= -FinalA64 /\ sp' % 16 = 0 /\ (~dyn_alloca => sp' = -FinalA64)
  <2>1. CASE sp' = sp
    BY <1>1, <2>1
  <2>2. CASE sp' = sp - 16 /\ dyn_alloca
    <3>1. sp \in Int /\ sp <= -FinalA64 /\ sp % 16 = 0 /\ FinalA64 \in Nat
      BY <1>1, <1>10
    <3> QED BY ONLY <2>2, <3>1
  <2> QED BY <1>5, <2>1, <2>2
<1> QED BY <1>5, <1>6, <1>13, <1>14, <1>15 DEF AtBodyA64

\* ldp x29, x30
LEMMA RecordLoad ==
    ASSUME InA64, Executes, Is(text, pc, FrameRecord("ldp")), sp = -FinalA64,
           NEW D, KeptA64(regs, D), StoredA64(mem, Saved)
    PROVE  /\ pc' = pc + 4 /\ sp' = sp /\ mem' = mem /\ Goes
           /\ KeptA64(regs', D) /\ regs'[29] = Old(29) /\ regs'[30] = Link
<1>1. FrameRecord("ldp") = Inst("ldp", <<29, 30, "sp", 0>>, 4)
  BY DEF FrameRecord, FP, LR
<1>2. FinalA64 \in Nat /\ -FinalA64 \in Int /\ -FinalA64 = From("sp") + 0 /\ -FinalA64 + 8 = 8 - FinalA64
      /\ 29 \notin CsrA64 /\ 30 \notin CsrA64
  BY FnA64 DEF From
<1>3. DOMAIN regs = (CsrA64 \cup {29}) \cup {30} /\ 29 \in DOMAIN regs /\ 30 \in DOMAIN regs /\ 29 # 30
  BY DEF KeptA64
<1>4. Is(mem, -FinalA64, Old(29)) /\ Is(mem, -FinalA64 + 8, Link)
  BY <1>2 DEF StoredA64
<1>5. /\ pc' = pc + 4 /\ sp' = sp /\ mem' = mem /\ Goes
      /\ DOMAIN regs' = DOMAIN regs /\ regs'[29] = Old(29) /\ regs'[30] = Link
      /\ \A q \in DOMAIN regs : q # 29 /\ q # 30 => regs'[q] = regs[q]
  <2>1. Is(text, pc, Inst("ldp", <<29, 30, "sp", 0>>, 4))
    BY <1>1
  <2> QED BY <1>2, <1>3, <1>4, <2>1, LdpDoes
<1>6. KeptA64(regs', D)
  BY <1>2, <1>3, <1>5 DEF KeptA64
<1> QED BY <1>5, <1>6

\* The first instruction of an epilogue gives up the allocas, or loads the frame record.
LEMMA BackStepA64 ==
    ASSUME InA64, Executes, AtBodyA64(pc, sp, regs, mem), pc \in Rets
    PROVE  AtLoad(pc, {}, pc', sp', regs', mem') /\ Goes
<1>1. /\ sp \in Int /\ (~dyn_alloca => sp = -FinalA64)
      /\ KeptA64(regs, {}) /\ regs[29] = Addr(-FinalA64) /\ StoredA64(mem, Saved)
  BY DEF AtBodyA64
<1>2. Is(text, pc, IF dyn_alloca THEN Inst("mov_sp_fp", 0, 4) ELSE FrameRecord("ldp"))
  BY FnA64 DEF TailA64, EpiA64
<1>3. RowsOf({}) = 0 /\ RowSet({}) /\ pc \in Nat /\ FP(arch) = 29
  BY RowEnds, FnA64
<1>4. CASE ~dyn_alloca
  <2>1. Is(text, pc, FrameRecord("ldp"))
    BY <1>2, <1>4
  <2>2. /\ pc' = pc + 4 /\ sp' = sp /\ mem' = mem /\ Goes
        /\ KeptA64(regs', {}) /\ regs'[29] = Old(29) /\ regs'[30] = Link
    BY <1>1, <1>4, <2>1, RecordLoad
  <2>3. pc' = pc + 4 + 4 * RowsOf({})
    BY <1>3, <2>2
  <2> QED BY <1>1, <1>3, <1>4, <2>2, <2>3 DEF AtLoad
<1>5. CASE dyn_alloca
  <2> DEFINE i == Inst("mov_sp_fp", 0, 4)
  <2>1. Is(text, pc, i)
    BY <1>2, <1>5
  <2>2. i.op = "mov_sp_fp" /\ i.size = 4 /\ i.op \in FrameOps
    BY DEF Inst, FrameOps
  <2> HIDE DEF i
  <2>3. pc' = pc + 4 /\ mem' = mem /\ Goes /\ sp' = fp /\ regs' = regs
    BY <2>1, <2>2, FrameDoes
  <2>4. fp = -FinalA64
    BY <1>1, <1>3 DEF fp, Addr
  <2>5. pc' = pc + 4 + 4 * RowsOf({})
    BY <1>3, <2>3
  <2> QED BY <1>1, <1>3, <1>5, <2>3, <2>4, <2>5 DEF AtLoad
<1> QED BY <1>4, <1>5

\* ldp or ldr of the next registers
LEMMA LoadStep ==
    ASSUME InA64, Executes, NEW f \in Rets, NEW D \in SUBSET Saved,
           AtLoad(f, D, pc, sp, regs, mem), D # Saved
    PROVE  (\E E \in SUBSET Saved : AtLoad(f, E, pc', sp', regs', mem')) /\ Goes
<1>1. /\ RowSet(D) /\ pc = f + 4 + 4 * RowsOf(D) /\ sp = -FinalA64
      /\ KeptA64(regs, D) /\ StoredA64(mem, Saved)
      /\ dyn_alloca => regs[29] = Addr(-FinalA64)
      /\ ~dyn_alloca => regs[29] = Old(29) /\ regs[30] = Link
  BY DEF AtLoad
<1>2. Saved \in SUBSET Regs /\ Saved \in SUBSET CsrA64 /\ FP(arch) = 29 /\ f \in Nat
      /\ 29 \notin CsrA64 /\ 30 \notin CsrA64
  BY FnA64
<1>3. PICK r \in Saved : /\ r \notin D /\ D = Below(r) /\ First(r) /\ Row(r) = RowsOf(D)
                         /\ RowSet((D \cup {r}) \cup Partner(r))
                         /\ (D \cup {r}) \cup Partner(r) \in SUBSET Saved
                         /\ RowsOf((D \cup {r}) \cup Partner(r)) = RowsOf(D) + 1
  BY <1>1, <1>2, NextRow
<1>4. Is(text, pc, PairInst("ldp", "ldr", StackReg, r))
  BY <1>1, <1>3, FnA64 DEF TailA64, EpiA64
<1>5. From(StackReg) = -FinalA64
  <2>1. CASE dyn_alloca
    BY <1>1, <1>2, <2>1 DEF From, StackReg, fp, Addr
  <2>2. CASE ~dyn_alloca
    BY <1>1, <2>2 DEF From, StackReg
  <2> QED BY <2>1, <2>2
<1>6. DOMAIN regs = (CsrA64 \cup {29}) \cup {30}
  BY <1>1 DEF KeptA64
<1>7. /\ pc' = pc + 4 /\ sp' = sp /\ mem' = mem /\ Goes
      /\ DOMAIN regs' = DOMAIN regs
      /\ \A q \in {r} \cup Partner(r) : regs'[q] = Old(q)
      /\ \A q \in DOMAIN regs : q \notin {r} \cup Partner(r) => regs'[q] = regs[q]
  <2>1. Saved \in SUBSET DOMAIN regs
    BY <1>2, <1>6
  <2> QED BY <1>1, <1>3, <1>4, <1>5, <2>1, LoadRow
<1> DEFINE E == (D \cup {r}) \cup Partner(r)
<1>8. KeptA64(regs', E) /\ regs'[29] = regs[29] /\ regs'[30] = regs[30]
  <2>1. {r} \cup Partner(r) \in SUBSET Saved
    BY <1>3
  <2>2. 29 \notin {r} \cup Partner(r) /\ 30 \notin {r} \cup Partner(r)
    BY <1>2, <2>1
  <2> QED BY <1>1, <1>6, <1>7, <2>2 DEF KeptA64
<1>9. pc' = f + 4 + 4 * RowsOf(E) /\ E \in SUBSET Saved /\ RowSet(E)
  <2>1. RowsOf(D) \in Nat
    BY <1>2, <1>3, RowOwn
  <2>2. RowsOf(E) = RowsOf(D) + 1 /\ E \in SUBSET Saved /\ RowSet(E)
    BY <1>3
  <2> HIDE DEF E
  <2> QED BY <1>1, <1>2, <1>7, <2>1, <2>2
<1> HIDE DEF E
<1>10. AtLoad(f, E, pc', sp', regs', mem')
  BY <1>1, <1>7, <1>8, <1>9 DEF AtLoad
<1> QED BY <1>7, <1>9, <1>10

\* Once the registers are loaded, the frame record is, if it was not before.
LEMMA LoadedAll ==
    ASSUME InA64, NEW f \in Rets, AtLoad(f, Saved, pc, sp, regs, mem), ~dyn_alloca
    PROVE  AtAdd(f, pc, sp, regs, mem)
<1>1. SizeA64 = 12 + 4 * Rows /\ Rows \in Nat /\ f \in Nat
  BY FnA64
<1>2. pc = f + 4 + 4 * Rows
  BY RowEnds DEF AtLoad
<1>3. pc = f + (SizeA64 - 8)
  BY <1>1, <1>2
<1> QED BY <1>3 DEF AtLoad, AtAdd

\* With dynamic allocas the frame record is loaded last.
LEMMA RecordLoadStep ==
    ASSUME InA64, Executes, NEW f \in Rets, AtLoad(f, Saved, pc, sp, regs, mem), dyn_alloca
    PROVE  AtAdd(f, pc', sp', regs', mem') /\ Goes
<1>1. SizeA64 = 12 + 4 * Rows + 4 /\ Rows \in Nat /\ f \in Nat
  BY FnA64
<1>2. /\ pc = f + 4 + 4 * Rows /\ sp = -FinalA64
      /\ KeptA64(regs, Saved) /\ StoredA64(mem, Saved)
  BY RowEnds DEF AtLoad
<1>3. Is(text, pc, FrameRecord("ldp"))
  BY <1>2, FnA64 DEF TailA64, EpiA64
<1>4. /\ pc' = pc + 4 /\ sp' = sp /\ mem' = mem /\ Goes
      /\ KeptA64(regs', Saved) /\ regs'[29] = Old(29) /\ regs'[30] = Link
  BY <1>2, <1>3, RecordLoad
<1>5. pc' = f + (SizeA64 - 8)
  BY <1>1, <1>2, <1>4
<1> QED BY <1>2, <1>4, <1>5 DEF AtAdd

\* add sp
LEMMA AddStep ==
    ASSUME InA64, Executes, NEW f \in Rets, AtAdd(f, pc, sp, regs, mem)
    PROVE  AtRetA64(f, pc', sp', regs', mem') /\ Goes
<1> DEFINE i == Inst("add_sp", FinalA64, 4)
<1>1. Is(text, pc, i) /\ pc = f + (SizeA64 - 8) /\ sp = -FinalA64
  BY FnA64 DEF TailA64, EpiA64, AtAdd
<1>2. i.op = "add_sp" /\ i.size = 4 /\ i.op \in FrameOps /\ i.arg = FinalA64
  BY DEF Inst, FrameOps
<1> HIDE DEF i
<1>3. pc' = pc + 4 /\ mem' = mem /\ Goes /\ sp' = sp + FinalA64 /\ regs' = regs
  BY <1>1, <1>2, FrameDoes
<1>4. SizeA64 \in Nat /\ FinalA64 \in Nat /\ f \in Nat
  BY FnA64
<1>5. pc' = f + (SizeA64 - 4) /\ sp' = 0
  BY <1>1, <1>3, <1>4
<1> QED BY <1>3, <1>5 DEF AtAdd, AtRetA64

\* ret
LEMMA RetStepA64 ==
    ASSUME InA64, Executes, NEW f \in Rets, AtRetA64(f, pc, sp, regs, mem)
    PROVE  phase' = "returned" /\ CalleeRestored' /\ UNCHANGED <<config, emit>>
<1>1. /\ Is(text, pc, Inst("ret", 0, 4)) /\ sp = 0 /\ KeptA64(regs, Saved)
      /\ regs[29] = Old(29) /\ regs[30] = Link
  BY FnA64 DEF TailA64, EpiA64, AtRetA64
<1>2. ExecRet
  BY <1>1, ExecOf DEF Inst
<1>3. /\ phase' = "returned" /\ sp' = 0 /\ regs' = regs
      /\ UNCHANGED <<config, emit>> /\ arch' = arch
  BY <1>1, <1>2 DEF ExecRet, InA64, config
<1>4. Csr(arch') = CsrA64 /\ FP(arch') = 29
  BY <1>3 DEF Csr, FP, InA64
<1>5. \A r \in CsrA64 \cup {29} : regs[r] = Old(r)
  BY <1>1 DEF KeptA64
<1>6. CalleeRestored'
  BY <1>1, <1>3, <1>4, <1>5 DEF CalleeRestored, Old, Link, LR
<1> QED BY <1>3, <1>6
----------------------------------------------------------------------------
(***************************************************************************)
(* What is fixed when the function is finished, and what depends on it.    *)
(***************************************************************************)
Static == <<config, clobbered, frame_size, body, func_ret_offs>>

\* The saved registers, the returns and where the body starts are fixed.
LEMMA FixedSets ==
    ASSUME UNCHANGED Static
    PROVE  /\ UNCHANGED <<arch, dyn_alloca, stack_args, clobbered, frame_size, body, func_ret_offs>>
           /\ UNCHANGED <<Saved, Rets, Targets, SavedGp, Top>>
<1>1. UNCHANGED <<arch, dyn_alloca, stack_args, clobbered, frame_size, body, func_ret_offs>>
  BY DEF Static, config
<1>2. Saved' = Saved
  BY <1>1 DEF Saved
<1>3. Rets' = Rets /\ Top' = Top
  BY <1>1 DEF Rets, Top
<1>4. Targets' = Targets
  BY <1>1, <1>3 DEF Targets
<1>5. SavedGp' = SavedGp
  BY <1>2 DEF SavedGp
<1> QED BY <1>1, <1>2, <1>3, <1>4, <1>5

\* The code of the body is the same in a text that is.
LEMMA FixedBody ==
    ASSUME UNCHANGED Static
    PROVE  /\ FnTypes => FnTypes'
           /\ BodyCode(text', offset') => BodyCode(text, offset)'
<1>1. /\ UNCHANGED <<arch, dyn_alloca, stack_args, clobbered, frame_size, body, func_ret_offs>>
      /\ UNCHANGED <<Saved, Rets, Targets, SavedGp, Top>>
  BY FixedSets
<1> QED BY <1>1 DEF BodyCode, FnTypes

\* x86-64: the code and the stages.
LEMMA FixedX64 ==
    ASSUME UNCHANGED Static
    PROVE  /\ CodeX64(text', offset') => CodeX64(text, offset)'
           /\ StageX64(pc', sp', regs', mem') => StageX64(pc, sp, regs, mem)'
           /\ UNCHANGED CfiX64
<1>1. /\ UNCHANGED <<arch, dyn_alloca, stack_args, clobbered, frame_size, body, func_ret_offs>>
      /\ UNCHANGED <<Saved, Rets, Targets, SavedGp, Top>>
  BY FixedSets
<1>2. UNCHANGED Grow
  BY <1>1 DEF Grow, FinalX64
<1>3. UNCHANGED <<BackX64, SizeX64>>
  <2>1. UNCHANGED BackX64
    BY <1>1 DEF BackX64, FinalX64
  <2> QED BY <1>1, <2>1 DEF SizeX64
<1>4. CodeX64(text', offset') => CodeX64(text, offset)'
  <2>1. HeadX64(text') => HeadX64(text)'
    BY <1>1, <1>2 DEF HeadX64
  <2>2. BodyCode(text', offset') => BodyCode(text, offset)'
    BY FixedBody
  <2>3. TailX64(text', offset') => TailX64(text, offset)'
    BY <1>1, <1>3 DEF TailX64, EpiX64
  <2> QED BY <2>1, <2>2, <2>3 DEF CodeX64
<1>5. ASSUME NEW r PROVE UNCHANGED SlotX64(r)
  BY <1>1 DEF SlotX64
<1>6. StageX64(pc', sp', regs', mem') => StageX64(pc, sp, regs, mem)'
  <2>1. AtEntry(pc', sp', regs', mem') => AtEntry(pc, sp, regs, mem)'
    BY <1>1, <1>5 DEF AtEntry, KeptX64, StoredX64
  <2>2. AtMov(pc', sp', regs', mem') => AtMov(pc, sp, regs, mem)'
    BY <1>1, <1>5 DEF AtMov, KeptX64, StoredX64
  <2>3. ASSUME NEW D PROVE AtPush(D, pc', sp', regs', mem') => AtPush(D, pc, sp, regs, mem)'
    BY <1>1, <1>5 DEF AtPush, KeptX64, StoredX64
  <2>4. AtSetup(pc', sp', regs', mem') => AtSetup(pc, sp, regs, mem)'
    BY <1>1, <1>5 DEF AtSetup, KeptX64, StoredX64
  <2>5. AtBodyX64(pc', sp', regs', mem') => AtBodyX64(pc, sp, regs, mem)'
    BY <1>1, <1>5 DEF AtBodyX64, KeptX64, StoredX64
  <2>6. ASSUME NEW f, NEW D
        PROVE  AtPop(f, D, pc', sp', regs', mem') => AtPop(f, D, pc, sp, regs, mem)'
    BY <1>1, <1>3, <1>5 DEF AtPop, KeptX64, StoredX64
  <2>7. ASSUME NEW f
        PROVE  AtRetX64(f, pc', sp', regs', mem') => AtRetX64(f, pc, sp, regs, mem)'
    BY <1>1, <1>3, <1>5 DEF AtRetX64, KeptX64, StoredX64
  <2> QED BY <1>1, <2>1, <2>2, <2>3, <2>4, <2>5, <2>6, <2>7 DEF StageX64
<1>7. UNCHANGED CfiX64
  <2>1. ASSUME NEW r PROVE UNCHANGED Below(r)
    BY <1>1 DEF Below
  <2> QED BY <1>1, <2>1 DEF CfiX64
<1> QED BY <1>4, <1>6, <1>7

\* AArch64: the rows.
LEMMA FixedRows ==
    ASSUME UNCHANGED Static
    PROVE  /\ UNCHANGED <<FinalA64, StackReg, Rows, LenA64, SizeA64>>
           /\ \A r : UNCHANGED <<First(r), Row(r), Partner(r), FrameOff(r)>>
           /\ \A pair, single, base, r : UNCHANGED PairInst(pair, single, base, r)
<1>1. /\ UNCHANGED <<arch, dyn_alloca, stack_args, clobbered, frame_size, body, func_ret_offs>>
      /\ UNCHANGED <<Saved, Rets, Targets, SavedGp, Top>>
  BY FixedSets
<1>2. ASSUME NEW r PROVE UNCHANGED Below(r)
  BY <1>1 DEF Below
<1>3. ASSUME NEW r PROVE UNCHANGED Lower(r)
  BY <1>2 DEF Lower
<1>4. ASSUME NEW r PROVE UNCHANGED <<First(r), Row(r), FrameOff(r)>>
  BY <1>1, <1>2, <1>3 DEF First, Row, FrameOff
<1>5. ASSUME NEW r PROVE UNCHANGED Partner(r)
  BY <1>1, <1>3 DEF Partner
<1>6. ASSUME NEW pair, NEW single, NEW base, NEW r PROVE UNCHANGED PairInst(pair, single, base, r)
  <2>1. UNCHANGED <<Partner(r), FrameOff(r)>>
    BY <1>4, <1>5
  <2>2. UNCHANGED CHOOSE q \in Partner(r) : TRUE
    BY <2>1
  <2> QED BY <2>1, <2>2 DEF PairInst
<1>7. UNCHANGED <<FinalA64, StackReg>>
  BY <1>1 DEF FinalA64, StackReg
<1>8. UNCHANGED Rows
  BY <1>1 DEF Rows
<1>9. UNCHANGED LenA64
  BY <1>8 DEF LenA64, Padding
<1>10. UNCHANGED SizeA64
  BY <1>1, <1>8 DEF SizeA64
<1> QED BY <1>4, <1>5, <1>6, <1>7, <1>8, <1>9, <1>10

\* The code and the stages of AArch64.
LEMMA FixedA64 ==
    ASSUME UNCHANGED Static
    PROVE  /\ CodeA64(text', func_start_off', offset') => CodeA64(text, func_start_off, offset)'
           /\ StageA64(pc', sp', regs', mem') /\ UNCHANGED func_start_off
              => StageA64(pc, sp, regs, mem)'
<1>1. /\ UNCHANGED <<arch, dyn_alloca, stack_args, clobbered, frame_size, body, func_ret_offs>>
      /\ UNCHANGED <<Saved, Rets, Targets, SavedGp, Top>>
  BY FixedSets
<1>2. /\ UNCHANGED <<FinalA64, StackReg, Rows, LenA64, SizeA64>>
      /\ \A r : UNCHANGED <<First(r), Row(r), Partner(r), FrameOff(r)>>
      /\ \A pair, single, base, r : UNCHANGED PairInst(pair, single, base, r)
  BY FixedRows
<1>3. HeadA64(text', func_start_off') => HeadA64(text, func_start_off)'
  BY <1>1, <1>2 DEF HeadA64
<1>4. BodyCode(text', offset') => BodyCode(text, offset)'
  BY FixedBody
<1>5. TailA64(text', offset') => TailA64(text, offset)'
  <2>1. ASSUME NEW f PROVE EpiA64(text', f) => EpiA64(text, f)'
    BY <1>1, <1>2 DEF EpiA64
  <2> SUFFICES ASSUME TailA64(text', offset'), NEW f \in Rets'
               PROVE  EpiA64(text, f)' /\ f + SizeA64' <= offset'
    BY DEF TailA64
  <2>2. f \in Rets
    BY <1>1
  <2>3. EpiA64(text', f) /\ f + SizeA64 <= offset'
    BY <2>2 DEF TailA64
  <2> QED BY <1>2, <2>1, <2>3
<1>6. ASSUME NEW r PROVE UNCHANGED SlotA64(r)
  BY <1>2 DEF SlotA64
<1>7. ASSUME NEW D PROVE UNCHANGED RowsOf(D) /\ (RowSet(D) => RowSet(D)')
  <2>1. UNCHANGED RowsOf(D)
    BY <1>1 DEF RowsOf
  <2> QED BY <1>1, <1>2, <2>1 DEF RowSet, LowerSet
<1>8. StageA64(pc', sp', regs', mem') /\ UNCHANGED func_start_off => StageA64(pc, sp, regs, mem)'
  <2> SUFFICES ASSUME UNCHANGED func_start_off
               PROVE  StageA64(pc', sp', regs', mem') => StageA64(pc, sp, regs, mem)'
    OBVIOUS
  <2>1. /\ AtSub(pc', sp', regs', mem') => AtSub(pc, sp, regs, mem)'
        /\ AtRecord(pc', sp', regs', mem') => AtRecord(pc, sp, regs, mem)'
        /\ AtMovA64(pc', sp', regs', mem') => AtMovA64(pc, sp, regs, mem)'
    BY <1>1, <1>2, <1>6 DEF AtSub, AtRecord, AtMovA64, KeptA64, StoredA64
  <2>2. ASSUME NEW D PROVE AtStore(D, pc', sp', regs', mem') => AtStore(D, pc, sp, regs, mem)'
    BY <1>1, <1>2, <1>6, <1>7 DEF AtStore, KeptA64, StoredA64
  <2>3. ASSUME NEW k PROVE AtNop(k, pc', sp', regs', mem') => AtNop(k, pc, sp, regs, mem)'
    BY <1>1, <1>2, <1>6 DEF AtNop, KeptA64, StoredA64
  <2>4. AtBodyA64(pc', sp', regs', mem') => AtBodyA64(pc, sp, regs, mem)'
    BY <1>1, <1>2, <1>6 DEF AtBodyA64, KeptA64, StoredA64
  <2>5. ASSUME NEW f, NEW D
        PROVE  AtLoad(f, D, pc', sp', regs', mem') => AtLoad(f, D, pc, sp, regs, mem)'
    BY <1>1, <1>2, <1>6, <1>7 DEF AtLoad, KeptA64, StoredA64
  <2>6. ASSUME NEW f
        PROVE  /\ AtAdd(f, pc', sp', regs', mem') => AtAdd(f, pc, sp, regs, mem)'
               /\ AtRetA64(f, pc', sp', regs', mem') => AtRetA64(f, pc, sp, regs, mem)'
    BY <1>1, <1>2 DEF AtAdd, AtRetA64, KeptA64
  <2> QED BY <1>1, <1>2, <2>1, <2>2, <2>3, <2>4, <2>5, <2>6 DEF StageA64
<1> QED BY <1>3, <1>4, <1>5, <1>8 DEF CodeA64
----------------------------------------------------------------------------
(***************************************************************************)
(* The inductive invariant.                                                *)
(***************************************************************************)
RunX64 == /\ InX64 /\ func_start_off = 0 /\ cfi = [cfa |-> 16, rules |-> CfiX64]
          /\ StageX64(pc, sp, regs, mem)
RunA64 == InA64 /\ StageA64(pc, sp, regs, mem)

FrameInv ==
    /\ FnTypes /\ EmitInv
    /\ phase \in {"emit", "run", "returned"}
    /\ phase = "run" /\ arch = "x64" => RunX64
    /\ phase = "run" /\ arch = "a64" => RunA64
    /\ CalleeRestored
    /\ arch \in Archs /\ (arch = "a64" => frame_size <= MaxFrame)

\* A step of the finished function on x86-64 leads to the next stage, or back
\* to the caller.
LEMMA RunStepX64 ==
    ASSUME RunX64, Executes
    PROVE  /\ UNCHANGED <<config, emit>>
           /\ \/ phase' = phase /\ StageX64(pc', sp', regs', mem')
              \/ phase' = "returned" /\ CalleeRestored'
<1>1. InX64 /\ StageX64(pc, sp, regs, mem)
  BY DEF RunX64
<1>2. CASE AtEntry(pc, sp, regs, mem)
  BY <1>1, <1>2, EntryStep DEF Goes, StageX64
<1>3. CASE AtMov(pc, sp, regs, mem)
  BY <1>1, <1>3, MovStep DEF Goes, StageX64
<1>4. CASE AtSetup(pc, sp, regs, mem)
  BY <1>1, <1>4, SetupStep DEF Goes, StageX64
<1>5. ASSUME NEW D \in SUBSET Saved, AtPush(D, pc, sp, regs, mem)
      PROVE  /\ UNCHANGED <<config, emit>>
             /\ phase' = phase /\ StageX64(pc', sp', regs', mem')
  <2>1. CASE pc = Setup
    <3>1. AtSetup(pc, sp, regs, mem)
      BY <1>1, <1>5, <2>1, PushedAll
    <3> QED BY <1>1, <3>1, SetupStep DEF Goes, StageX64
  <2>2. CASE pc # Setup
    BY <1>1, <1>5, <2>2, PushStep DEF Goes, StageX64
  <2> QED BY <2>1, <2>2
<1>6. CASE AtBodyX64(pc, sp, regs, mem)
  <2>1. CASE pc \in body
    BY <1>1, <1>6, <2>1, BodyStepX64 DEF Goes, StageX64
  <2>2. CASE pc \in Rets
    <3>1. AtPop(pc, {}, pc', sp', regs', mem') /\ Goes
      BY <1>1, <1>6, <2>2, BackStep
    <3>2. {} \in SUBSET Saved
      OBVIOUS
    <3> QED BY <2>2, <3>1, <3>2 DEF Goes, StageX64
  <2> QED BY <1>6, <2>1, <2>2 DEF AtBodyX64, Targets
<1>7. ASSUME NEW f \in Rets, NEW D \in SUBSET Saved, AtPop(f, D, pc, sp, regs, mem)
      PROVE  /\ UNCHANGED <<config, emit>>
             /\ phase' = phase /\ StageX64(pc', sp', regs', mem')
  BY <1>1, <1>7, PopStep DEF Goes, StageX64
<1>8. ASSUME NEW f \in Rets, AtRetX64(f, pc, sp, regs, mem)
      PROVE  UNCHANGED <<config, emit>> /\ phase' = "returned" /\ CalleeRestored'
  BY <1>1, <1>8, RetStepX64
<1> QED BY <1>1, <1>2, <1>3, <1>4, <1>5, <1>6, <1>7, <1>8 DEF StageX64

\* The same on AArch64.
LEMMA RunStepA64 ==
    ASSUME RunA64, Executes
    PROVE  /\ UNCHANGED <<config, emit>>
           /\ \/ phase' = phase /\ StageA64(pc', sp', regs', mem')
              \/ phase' = "returned" /\ CalleeRestored'
<1>1. InA64 /\ StageA64(pc, sp, regs, mem)
  BY DEF RunA64
<1>2. CASE AtSub(pc, sp, regs, mem)
  BY <1>1, <1>2, SubStep DEF Goes, StageA64
<1>3. CASE AtRecord(pc, sp, regs, mem)
  BY <1>1, <1>3, RecordStep DEF Goes, StageA64
<1>4. CASE AtMovA64(pc, sp, regs, mem)
  <2>1. AtStore({}, pc', sp', regs', mem') /\ Goes
    BY <1>1, <1>4, MovStepA64
  <2>2. {} \in SUBSET Saved
    OBVIOUS
  <2> QED BY <2>1, <2>2 DEF Goes, StageA64
<1>5. ASSUME AtBodyA64(pc, sp, regs, mem)
      PROVE  UNCHANGED <<config, emit>> /\ phase' = phase /\ StageA64(pc', sp', regs', mem')
  <2>1. CASE pc \in body
    BY <1>1, <1>5, <2>1, BodyStepA64 DEF Goes, StageA64
  <2>2. CASE pc \in Rets
    <3>1. AtLoad(pc, {}, pc', sp', regs', mem') /\ Goes
      BY <1>1, <1>5, <2>2, BackStepA64
    <3>2. {} \in SUBSET Saved
      OBVIOUS
    <3> QED BY <2>2, <3>1, <3>2 DEF Goes, StageA64
  <2> QED BY <1>5, <2>1, <2>2 DEF AtBodyA64, Targets
<1>6. ASSUME NEW k \in 3 + Rows .. LenA64, AtNop(k, pc, sp, regs, mem)
      PROVE  UNCHANGED <<config, emit>> /\ phase' = phase /\ StageA64(pc', sp', regs', mem')
  <2>1. CASE k # LenA64
    BY <1>1, <1>6, <2>1, NopStep DEF Goes, StageA64
  <2>2. CASE k = LenA64 /\ stack_args
    BY <1>1, <1>6, <2>2, ArgStep DEF Goes, StageA64
  <2>3. CASE k = LenA64 /\ ~stack_args
    <3>1. AtBodyA64(pc, sp, regs, mem)
      BY <1>1, <1>6, <2>3, NoppedAll
    <3> QED BY <1>5, <3>1
  <2> QED BY <2>1, <2>2, <2>3
<1>7. ASSUME NEW D \in SUBSET Saved, AtStore(D, pc, sp, regs, mem)
      PROVE  UNCHANGED <<config, emit>> /\ phase' = phase /\ StageA64(pc', sp', regs', mem')
  <2>1. CASE D # Saved
    BY <1>1, <1>7, <2>1, StoreStep DEF Goes, StageA64
  <2>2. CASE D = Saved
    <3>1. 3 + Rows \in 3 + Rows .. LenA64 /\ AtNop(3 + Rows, pc, sp, regs, mem)
      BY <1>1, <1>7, <2>2, StoredAll
    <3> QED BY <1>6, <3>1
  <2> QED BY <2>1, <2>2
<1>8. ASSUME NEW f \in Rets, AtAdd(f, pc, sp, regs, mem)
      PROVE  UNCHANGED <<config, emit>> /\ phase' = phase /\ StageA64(pc', sp', regs', mem')
  BY <1>1, <1>8, AddStep DEF Goes, StageA64
<1>9. ASSUME NEW f \in Rets, NEW D \in SUBSET Saved, AtLoad(f, D, pc, sp, regs, mem)
      PROVE  UNCHANGED <<config, emit>> /\ phase' = phase /\ StageA64(pc', sp', regs', mem')
  <2>1. CASE D # Saved
    BY <1>1, <1>9, <2>1, LoadStep DEF Goes, StageA64
  <2>2. CASE D = Saved /\ dyn_alloca
    BY <1>1, <1>9, <2>2, RecordLoadStep DEF Goes, StageA64
  <2>3. CASE D = Saved /\ ~dyn_alloca
    <3>1. AtAdd(f, pc, sp, regs, mem)
      BY <1>1, <1>9, <2>3, LoadedAll
    <3> QED BY <1>8, <3>1
  <2> QED BY <2>1, <2>2, <2>3
<1>10. ASSUME NEW f \in Rets, AtRetA64(f, pc, sp, regs, mem)
       PROVE  UNCHANGED <<config, emit>> /\ phase' = "returned" /\ CalleeRestored'
  BY <1>1, <1>10, RetStepA64
<1> QED BY <1>1, <1>2, <1>3, <1>4, <1>5, <1>6, <1>7, <1>8, <1>9, <1>10 DEF StageA64

\* The finished function is called, on x86-64
LEMMA FinishX64 ==
    ASSUME FnTypes, EmitRooms, EmitHead, arch = "x64", finish_func
    PROVE  RunX64' /\ phase' = "run" /\ FnTypes'
<1>1. /\ UNCHANGED <<config, clobbered, frame_size, func_ret_offs, body>>
      /\ Terminated /\ Start_x64 /\ offset' = End /\ phase' = "run"
      /\ pc' = 0 /\ sp' = -8 /\ func_start_off' = 0
      /\ cfi' = [cfa |-> 16, rules |-> CfiX64]
  <2>1. Start_x64
    BY DEF finish_func, Start_a64
  <2> QED BY <2>1 DEF finish_func, Start_x64
<1>2. UNCHANGED Static
  BY <1>1 DEF Static
<1>3. CodeX64(text', offset')
  BY <1>1, StartX64Code
<1>4. mem' = (-8 :> Link) /\ regs' = [r \in CsrX64 \cup {5} |-> Old(r)] @@ <<>>
  BY <1>1 DEF finish_func, Csr, FP, Link, Old
<1>5. Is(mem', -8, Link)
  BY <1>4, SMT DEF :>, Is
<1>6. DOMAIN regs' = CsrX64 \cup {5} /\ \A r \in CsrX64 \cup {5} : regs'[r] = Old(r)
  BY <1>4 DEF @@
<1>7. AtEntry(pc', sp', regs', mem')
  BY <1>1, <1>5, <1>6 DEF AtEntry, KeptX64
<1>8. /\ CodeX64(text, offset)' /\ StageX64(pc, sp, regs, mem)' /\ UNCHANGED CfiX64
  BY <1>2, <1>3, <1>7, FixedX64 DEF StageX64
<1>9. FnTypes' /\ arch' = arch
  BY <1>2, FixedBody, FixedSets
<1> QED BY <1>1, <1>8, <1>9 DEF RunX64, InX64

\* ... and on AArch64.
LEMMA FinishA64 ==
    ASSUME FnTypes, EmitRooms, EmitHead, arch = "a64", finish_func
    PROVE  RunA64' /\ phase' = "run" /\ FnTypes'
<1>1. /\ UNCHANGED <<config, clobbered, frame_size, func_ret_offs, body>>
      /\ Terminated /\ Start_a64 /\ offset' = End /\ phase' = "run"
      /\ pc' = func_start_off' /\ sp' = 0
  <2>1. Start_a64
    BY DEF finish_func, Start_x64
  <2> QED BY <2>1 DEF finish_func
<1>2. UNCHANGED Static
  BY <1>1 DEF Static
<1>3. CodeA64(text', func_start_off', offset')
  BY <1>1, StartA64Code
<1> DEFINE link == 30 :> Link
           old  == [r \in CsrA64 \cup {29} |-> Old(r)]
<1>4. regs' = old @@ link
  BY <1>1 DEF finish_func, Csr, FP, LR, Link, Old
<1>5. DOMAIN link = {30} /\ Is(link, 30, Link)
  BY SMT DEF :>, Is
<1>6. DOMAIN old = CsrA64 \cup {29} /\ \A r \in CsrA64 \cup {29} : old[r] = Old(r)
  OBVIOUS
<1> HIDE DEF link, old
<1>7. 30 \notin CsrA64 \cup {29}
  BY CsrRegs
<1>8. /\ DOMAIN regs' = (CsrA64 \cup {29}) \cup {30}
      /\ \A r \in CsrA64 \cup {29} : regs'[r] = Old(r)
      /\ regs'[30] = Link
  BY <1>4, <1>5, <1>6, <1>7 DEF @@, Is
<1>9. FnTypes' /\ arch' = arch /\ Saved' = Saved
  BY <1>2, FixedBody, FixedSets
<1>10. AtSub(pc, sp, regs, mem)'
  BY <1>1, <1>8, <1>9 DEF AtSub, KeptA64
<1>11. CodeA64(text, func_start_off, offset)'
  BY <1>2, <1>3, FixedA64
<1> QED BY <1>1, <1>9, <1>10, <1>11 DEF RunA64, InA64, StageA64

\* The areas of the prologue are small.
LEMMA FrameStart ==
    /\ MaxFrame \in Nat
    /\ Base("a64") + VarargArea("a64") <= MaxFrame
<1>1. Cardinality(CsrA64) \in Nat /\ Cardinality(CsrA64) <= 64
  BY RegSets, CsrRegs
<1>2. 8 * Cardinality(CsrA64) \in Nat /\ 8 * Cardinality(CsrA64) <= 512
  BY ONLY <1>1
<1>3. align_up(8 * Cardinality(CsrA64), 16) <= 528 /\ align_up(8 * Cardinality(CsrA64), 16) \in Nat
  <2>1. align_up(8 * Cardinality(CsrA64), 16) < 8 * Cardinality(CsrA64) + 16
        /\ align_up(8 * Cardinality(CsrA64), 16) \in Nat
    BY <1>2, AlignUp
  <2> QED BY <1>2, <2>1
<1>4. Base("a64") = 16 + align_up(8 * Cardinality(CsrA64), 16) /\ VarargArea("a64") = 208
  BY DEF Base, Csr, VarargArea
<1> QED BY <1>3, <1>4 DEF MaxFrame

\* FrameInv holds at first
LEMMA FrameInvInit ==
    ASSUME Init PROVE FrameInv
<1>1. FnTypes /\ EmitInv
  BY EmitInit
<1>2. phase = "emit" /\ arch \in Archs
  BY DEF Init
<1>3. arch = "a64" => frame_size <= MaxFrame
  <2> SUFFICES ASSUME arch = "a64" PROVE frame_size <= MaxFrame
    OBVIOUS
  <2>1. frame_size = Base("a64") + (IF vararg THEN VarargArea("a64") ELSE 0)
    BY DEF Init
  <2>2. Base("a64") \in Nat /\ VarargArea("a64") \in Nat
    BY RoomTypes
  <2> QED BY <2>1, <2>2, FrameStart
<1> QED BY <1>1, <1>2, <1>3 DEF FrameInv, CalleeRestored

\* ... and is kept by every step.
LEMMA FrameInvStep ==
    ASSUME FrameInv, [Next]_vars PROVE FrameInv'
<1>1. /\ FnTypes /\ EmitInv /\ phase \in {"emit", "run", "returned"} /\ arch \in Archs
      /\ arch = "a64" => frame_size <= MaxFrame
      /\ arch \in {"x64", "a64"}
  BY DEF FrameInv, FnTypes
<1>2. ASSUME NEW op \in {"work", "alloca"}, EmitBody(op) PROVE FrameInv'
  <2>1. phase = "emit" /\ phase' = "emit" /\ UNCHANGED <<arch, frame_size>>
    BY <1>2 DEF EmitBody, config
  <2>2. EmitRooms /\ EmitHead
    BY <1>1, <2>1 DEF EmitInv
  <2>3. FnTypes' /\ EmitRooms' /\ EmitHead'
    BY <1>1, <1>2, <2>2, EmitBodyStep
  <2> QED BY <1>1, <2>1, <2>3 DEF FrameInv, EmitInv, CalleeRestored
<1>3. CASE gen_func_epilog
  <2>1. phase = "emit" /\ phase' = "emit" /\ UNCHANGED <<arch, frame_size>>
    BY <1>3 DEF gen_func_epilog, config
  <2>2. EmitRooms /\ EmitHead
    BY <1>1, <2>1 DEF EmitInv
  <2>3. FnTypes' /\ EmitRooms' /\ EmitHead'
    BY <1>1, <1>3, <2>2, EpilogStep
  <2> QED BY <1>1, <2>1, <2>3 DEF FrameInv, EmitInv, CalleeRestored
<1>4. CASE \/ \E r \in Csr(arch) : mark_clobbered(r)
           \/ \E n \in FrameSizes : allocate_stack_slot(n)
  <2>1. /\ phase = "emit" /\ phase' = "emit"
        /\ UNCHANGED <<arch, dyn_alloca, stack_args, text, offset, body, func_ret_offs>>
    BY <1>4 DEF mark_clobbered, allocate_stack_slot, config
  <2>2. EmitRooms /\ EmitHead
    BY <1>1, <2>1 DEF EmitInv
  <2>3. UNCHANGED <<Rets, Targets, Top, Room>>
    <3>1. UNCHANGED Rets
      BY <2>1 DEF Rets
    <3> QED BY <2>1, <3>1 DEF Targets, Top, Room
  <2>4. EmitRooms' /\ EmitHead'
    BY <2>1, <2>2, <2>3 DEF EmitRooms, EmitHead
  <2>5. CASE \E r \in Csr(arch) : mark_clobbered(r)
    <3>1. frame_size' = frame_size /\ \E r \in Csr(arch) : clobbered' = clobbered \cup {r}
      BY <2>5 DEF mark_clobbered
    <3>2. FnTypes'
      BY <1>1, <2>1, <3>1 DEF FnTypes
    <3> QED BY <1>1, <2>1, <2>4, <3>1, <3>2 DEF FrameInv, EmitInv, CalleeRestored
  <2>6. CASE \E n \in FrameSizes : allocate_stack_slot(n)
    <3>1. PICK n \in FrameSizes : frame_size < n /\ frame_size' = n /\ clobbered' = clobbered
      BY <2>6 DEF allocate_stack_slot
    <3>2. n \in Nat /\ frame_size \in Nat /\ Base(arch) \in Nat /\ Base(arch) <= frame_size
      BY <1>1, FrameAssumption, RoomTypes DEF FnTypes
    <3>3. FnTypes'
      <4>1. Base(arch) <= n
        BY <3>1, <3>2
      <4> QED BY <1>1, <2>1, <3>1, <3>2, <4>1 DEF FnTypes
    <3>4. arch = "a64" => n <= MaxFrame
      BY <1>1, FrameSizeAssumption
    <3> QED BY <1>1, <2>1, <2>4, <3>1, <3>3, <3>4 DEF FrameInv, EmitInv, CalleeRestored
  <2> QED BY <1>4, <2>5, <2>6
<1>5. CASE finish_func
  <2>1. phase = "emit" /\ UNCHANGED <<arch, frame_size>>
    BY <1>5 DEF finish_func, config
  <2>2. EmitRooms /\ EmitHead
    BY <1>1, <2>1 DEF EmitInv
  <2>3. CASE arch = "x64"
    <3>1. RunX64' /\ phase' = "run" /\ FnTypes'
      BY <1>1, <1>5, <2>2, <2>3, FinishX64
    <3> QED BY <1>1, <2>1, <2>3, <3>1 DEF FrameInv, EmitInv, CalleeRestored
  <2>4. CASE arch = "a64"
    <3>1. RunA64' /\ phase' = "run" /\ FnTypes'
      BY <1>1, <1>5, <2>2, <2>4, FinishA64
    <3> QED BY <1>1, <2>1, <2>4, <3>1 DEF FrameInv, EmitInv, CalleeRestored
  <2> QED BY <1>1, <2>3, <2>4
<1>6. ASSUME UNCHANGED <<config, emit>>
      PROVE  /\ UNCHANGED Static /\ FnTypes'
             /\ UNCHANGED <<arch, frame_size, text, offset, func_start_off, cfi>>
  <2>1. UNCHANGED Static /\ UNCHANGED <<arch, frame_size, text, offset, func_start_off, cfi>>
    BY <1>6 DEF Static, config, emit
  <2> QED BY <1>1, <2>1, FixedBody
<1>7. CASE Executes /\ arch = "x64"
  <2>1. phase = "run"
    BY <1>7 DEF Executes, ExecPush, ExecPop, ExecFrame, ExecStore, ExecLoad, ExecBody, ExecRet, At
  <2>2. RunX64
    BY <1>7, <2>1 DEF FrameInv
  <2>3. /\ UNCHANGED <<config, emit>>
        /\ \/ phase' = phase /\ StageX64(pc', sp', regs', mem')
           \/ phase' = "returned" /\ CalleeRestored'
    BY <1>7, <2>2, RunStepX64
  <2>4. /\ UNCHANGED Static /\ FnTypes'
        /\ UNCHANGED <<arch, frame_size, text, offset, func_start_off, cfi>>
    BY <1>6, <2>3
  <2>5. CASE phase' = "returned" /\ CalleeRestored'
    BY <1>1, <2>4, <2>5 DEF FrameInv, EmitInv
  <2>6. CASE phase' = phase /\ StageX64(pc', sp', regs', mem')
    <3>1. StageX64(pc, sp, regs, mem)' /\ UNCHANGED CfiX64
      BY <2>4, <2>6, FixedX64
    <3>2. CodeX64(text, offset)'
      <4>1. CodeX64(text', offset')
        BY <2>2, <2>4 DEF RunX64, InX64
      <4> QED BY <2>4, <4>1, FixedX64
    <3>3. RunX64'
      BY <1>7, <2>2, <2>4, <3>1, <3>2 DEF RunX64, InX64
    <3> QED BY <1>1, <1>7, <2>1, <2>4, <2>6, <3>3 DEF FrameInv, EmitInv, CalleeRestored
  <2> QED BY <2>3, <2>5, <2>6
<1>8. CASE Executes /\ arch = "a64"
  <2>1. phase = "run"
    BY <1>8 DEF Executes, ExecPush, ExecPop, ExecFrame, ExecStore, ExecLoad, ExecBody, ExecRet, At
  <2>2. RunA64
    BY <1>8, <2>1 DEF FrameInv
  <2>3. /\ UNCHANGED <<config, emit>>
        /\ \/ phase' = phase /\ StageA64(pc', sp', regs', mem')
           \/ phase' = "returned" /\ CalleeRestored'
    BY <1>8, <2>2, RunStepA64
  <2>4. /\ UNCHANGED Static /\ FnTypes'
        /\ UNCHANGED <<arch, frame_size, text, offset, func_start_off, cfi>>
    BY <1>6, <2>3
  <2>5. CASE phase' = "returned" /\ CalleeRestored'
    BY <1>1, <2>4, <2>5 DEF FrameInv, EmitInv
  <2>6. CASE phase' = phase /\ StageA64(pc', sp', regs', mem')
    <3>1. StageA64(pc, sp, regs, mem)'
      BY <2>4, <2>6, FixedA64
    <3>2. CodeA64(text, func_start_off, offset)'
      <4>1. CodeA64(text', func_start_off', offset')
        BY <2>2, <2>4 DEF RunA64, InA64
      <4> QED BY <2>4, <4>1, FixedA64
    <3>3. RunA64'
      BY <1>8, <2>2, <2>4, <3>1, <3>2 DEF RunA64, InA64
    <3> QED BY <1>1, <1>8, <2>1, <2>4, <2>6, <3>3 DEF FrameInv, EmitInv, CalleeRestored
  <2> QED BY <2>3, <2>5, <2>6
<1>9. CASE UNCHANGED vars
  <2>1. UNCHANGED <<config, emit>> /\ UNCHANGED <<phase, pc, sp, regs, mem>>
    BY <1>9 DEF vars, config, emit
  <2>2. /\ UNCHANGED Static /\ FnTypes'
        /\ UNCHANGED <<arch, frame_size, text, offset, func_start_off, cfi>>
    BY <1>6, <2>1
  <2>3. CalleeRestored'
    BY <2>1, <2>2 DEF FrameInv, CalleeRestored
  <2>4. EmitInv'
    <3>1. UNCHANGED <<arch, dyn_alloca, stack_args, body, text, offset>> /\ UNCHANGED <<Rets, Targets, Top>>
      BY <2>2, FixedSets
    <3>2. UNCHANGED Room
      BY <3>1 DEF Room
    <3> QED BY <1>1, <2>1, <3>1, <3>2 DEF EmitInv, EmitRooms, EmitHead
  <2>5. phase = "run" /\ arch = "x64" => RunX64'
    <3> SUFFICES ASSUME RunX64, arch = "x64" PROVE RunX64'
      BY DEF FrameInv
    <3>1. StageX64(pc', sp', regs', mem') /\ CodeX64(text', offset')
      BY <2>1, <2>2 DEF RunX64, InX64
    <3>2. StageX64(pc, sp, regs, mem)' /\ UNCHANGED CfiX64 /\ CodeX64(text, offset)'
      BY <2>2, <3>1, FixedX64
    <3> QED BY <2>2, <3>2 DEF RunX64, InX64
  <2>6. phase = "run" /\ arch = "a64" => RunA64'
    <3> SUFFICES ASSUME RunA64, arch = "a64" PROVE RunA64'
      BY DEF FrameInv
    <3>1. StageA64(pc', sp', regs', mem') /\ CodeA64(text', func_start_off', offset')
      BY <2>1, <2>2 DEF RunA64, InA64
    <3>2. StageA64(pc, sp, regs, mem)' /\ CodeA64(text, func_start_off, offset)'
      BY <2>2, <3>1, FixedA64
    <3> QED BY <2>2, <3>2 DEF RunA64, InA64
  <2> QED BY <1>1, <2>1, <2>2, <2>3, <2>4, <2>5, <2>6 DEF FrameInv
<1>10. Next => \/ \E op \in {"work", "alloca"} : EmitBody(op)
               \/ \E r \in Csr(arch) : mark_clobbered(r)
               \/ \E n \in FrameSizes : allocate_stack_slot(n)
               \/ gen_func_epilog \/ finish_func \/ Executes \/ UNCHANGED vars
  BY DEF Next, Executes, Returned
<1> QED BY <1>1, <1>2, <1>3, <1>4, <1>5, <1>7, <1>8, <1>9, <1>10

\* The inductive invariant holds in every reachable state.
THEOREM FrameInvAlways == Spec => []FrameInv
<1>1. Init => FrameInv
  BY FrameInvInit
<1>2. FrameInv /\ [Next]_vars => FrameInv'
  BY FrameInvStep
<1> QED BY <1>1, <1>2, PTL DEF Spec
----------------------------------------------------------------------------
(***************************************************************************)
(* The instruction at pc, and what it tells about the stage.               *)
(***************************************************************************)
FoundX64(i) ==
    /\ Is(text, pc, i) /\ pc \in Nat /\ pc + i.size <= offset /\ i.op # "arg_ptr"
    /\ i.op \in {"work", "alloca"} => AtBodyX64(pc, sp, regs, mem)

\* On x86-64 there is an instruction, and it is in the function.
LEMMA FindX64 ==
    ASSUME RunX64 PROVE \E i : FoundX64(i)
<1>1. /\ InX64 /\ HeadX64(text) /\ BodyCode(text, offset) /\ TailX64(text, offset)
      /\ StageX64(pc, sp, regs, mem)
  BY DEF RunX64, InX64, CodeX64
<1>2. /\ Saved \in SUBSET Regs /\ Bytes(Saved) \in Nat /\ Bytes(CsrX64) \in Nat
      /\ Bytes(Saved) <= Bytes(CsrX64) /\ Top = Setup + 7 /\ Setup \in Nat
      /\ Setup = 4 + Bytes(CsrX64)
  BY <1>1, SavedX64 DEF InX64, Setup
<1>3. offset \in Nat /\ Top < offset /\ Top \in Nat /\ \A f \in Rets : f \in Nat
  <2>1. offset \in Nat /\ Top < offset /\ Top \in Nat
    BY <1>1 DEF BodyCode
  <2> QED BY <1>1, <2>1, TargetTypes DEF InX64
<1>5. \A f \in Rets : EpiX64(Saved, BackX64, text, f) /\ f + SizeX64 <= offset
  BY <1>1 DEF TailX64
<1>6. BackX64.size \in {3, 4, 7} /\ SizeX64 = BackX64.size + Bytes(Saved) + 2
      /\ BackX64.op \notin {"work", "alloca", "arg_ptr"}
  BY DEF BackX64, SizeX64, Inst
<1>7. \A r : /\ Push(r).op = "push" /\ Push(r).size = PushSize(r) /\ PushSize(r) \in 1 .. 2
             /\ Pop(r).op = "pop" /\ Pop(r).size = PushSize(r)
  BY DEF Push, Pop, Inst, PushSize
<1> DEFINE k == BackX64.size
<1>8. CASE AtEntry(pc, sp, regs, mem) \/ AtMov(pc, sp, regs, mem)
  <2> DEFINE i == IF pc = 0 THEN Push(5) ELSE Inst("mov_fp_sp", 0, 3)
  <2>1. (pc = 0 \/ pc = 1) /\ Is(text, pc, i)
    BY <1>1, <1>8 DEF HeadX64, AtEntry, AtMov
  <2>2. i.op \notin {"work", "alloca", "arg_ptr"} /\ i.size \in 1 .. 3
    BY <1>7 DEF Inst
  <2>3. 10 < offset
    BY <1>2, <1>3
  <2> HIDE DEF i
  <2>4. pc \in Nat /\ pc + i.size <= offset
    BY <1>3, <2>1, <2>2, <2>3
  <2> QED BY <2>1, <2>2, <2>4 DEF FoundX64
<1>9. CASE AtSetup(pc, sp, regs, mem)
  <2> DEFINE i == Inst("sub_sp", Grow, 7)
  <2>1. pc = Setup /\ Is(text, pc, i)
    BY <1>1, <1>9 DEF HeadX64, AtSetup
  <2>2. i.op \notin {"work", "alloca", "arg_ptr"} /\ i.size = 7
    BY DEF Inst
  <2> HIDE DEF i
  <2>3. pc \in Nat /\ pc + i.size <= offset
    BY <1>2, <1>3, <2>1, <2>2
  <2> QED BY <2>1, <2>2, <2>3 DEF FoundX64
<1>10. ASSUME NEW D \in SUBSET Saved, AtPush(D, pc, sp, regs, mem) PROVE \E i : FoundX64(i)
  <2>1. LowerSet(D, Saved) /\ pc = 4 + Bytes(D) /\ Bytes(D) \in Nat /\ Bytes(D) <= Bytes(Saved)
    BY <1>2, <1>10, BytesSize DEF AtPush
  <2>2. CASE pc = Setup
    BY <1>1, <1>9, <1>10, <2>2, PushedAll
  <2>3. CASE D = Saved /\ pc # Setup
    <3> DEFINE i == Inst("nop", 0, Bytes(CsrX64) - Bytes(Saved))
    <3>1. Bytes(Saved) # Bytes(CsrX64)
      BY <1>2, <2>1, <2>3
    <3>2. Is(text, pc, i)
      BY <1>1, <2>1, <2>3, <3>1 DEF HeadX64
    <3>3. i.op \notin {"work", "alloca", "arg_ptr"} /\ i.size = Bytes(CsrX64) - Bytes(Saved)
      BY DEF Inst
    <3> HIDE DEF i
    <3>4. pc \in Nat /\ pc + i.size <= offset
      BY <1>2, <1>3, <2>1, <2>3, <3>3
    <3> QED BY <3>2, <3>3, <3>4 DEF FoundX64
  <2>4. CASE D # Saved
    <3>1. PICK r \in Saved : r \notin D /\ D = BelowIn(Saved, r) /\ LowerSet(D \cup {r}, Saved)
      BY <1>2, <2>1, <2>4, NextUp
    <3>2. Is(text, pc, Push(r))
      BY <1>1, <2>1, <3>1 DEF HeadX64
    <3>3. pc \in Nat /\ pc + PushSize(r) <= offset
      BY <1>2, <1>3, <1>7, <2>1
    <3> QED BY <1>7, <3>2, <3>3 DEF FoundX64
  <2> QED BY <2>2, <2>3, <2>4
<1>11. CASE AtBodyX64(pc, sp, regs, mem)
  <2>1. CASE pc \in body
    <3>1. Is(text, pc, text[pc]) /\ text[pc].size = 4 /\ text[pc].op \in {"work", "alloca"}
          /\ pc + 4 <= offset
      BY <1>1, <2>1 DEF BodyCode, BodyInst, Is, Inst
    <3>2. pc \in Nat
      BY <1>1, <2>1 DEF InX64, FnTypes
    <3> QED BY <1>11, <3>1, <3>2 DEF FoundX64
  <2>2. CASE pc \in Rets
    <3>1. Is(text, pc, BackX64) /\ pc + SizeX64 <= offset /\ pc \in Nat
      BY <1>3, <1>5, <2>2 DEF EpiX64
    <3> HIDE DEF k
    <3>2. pc + BackX64.size <= offset
      BY <1>2, <1>3, <1>6, <3>1
    <3> QED BY <1>6, <3>1, <3>2 DEF FoundX64
  <2> QED BY <1>11, <2>1, <2>2 DEF AtBodyX64, Targets
<1>12. ASSUME NEW f \in Rets, NEW D \in SUBSET Saved, AtPop(f, D, pc, sp, regs, mem)
       PROVE  \E i : FoundX64(i)
  <2>1. /\ UpperSet(D, Saved) /\ pc = f + k + Bytes(D)
        /\ Bytes(D) \in Nat /\ Bytes(D) <= Bytes(Saved)
    BY <1>2, <1>12, BytesSize DEF AtPop
  <2>2. f \in Nat /\ f + SizeX64 <= offset /\ EpiX64(Saved, BackX64, text, f)
    BY <1>3, <1>5
  <2>3. PICK r : Is(text, pc, Pop(r))
    <3>1. CASE D = Saved
      BY <2>1, <2>2, <3>1 DEF EpiX64
    <3>2. CASE D # Saved
      <4>1. PICK r \in Saved : r \notin D /\ D = AboveIn(Saved, r) /\ UpperSet(D \cup {r}, Saved)
        BY <1>2, <2>1, <3>2, NextDown
      <4> QED BY <2>1, <2>2, <4>1 DEF EpiX64
    <3> QED BY <3>1, <3>2
  <2> HIDE DEF k
  <2>4. pc \in Nat /\ pc + PushSize(r) <= offset
    <3>1. k \in Nat /\ SizeX64 = k + Bytes(Saved) + 2
      BY <1>6 DEF k
    <3> QED BY <1>2, <1>3, <1>7, <2>1, <2>2, <3>1
  <2> QED BY <1>7, <2>3, <2>4 DEF FoundX64
<1>13. ASSUME NEW f \in Rets, AtRetX64(f, pc, sp, regs, mem) PROVE \E i : FoundX64(i)
  <2> DEFINE i == Inst("ret", 0, 1)
  <2>1. Is(text, pc, i) /\ pc = f + k + Bytes(Saved) + 1
    BY <1>5, <1>13 DEF AtRetX64, EpiX64
  <2>2. i.op \notin {"work", "alloca", "arg_ptr"} /\ i.size = 1
    BY DEF Inst
  <2> HIDE DEF i, k
  <2>3. f \in Nat /\ f + SizeX64 <= offset /\ k \in Nat /\ SizeX64 = k + Bytes(Saved) + 2
    BY <1>3, <1>5, <1>6 DEF k
  <2>4. pc \in Nat /\ pc + i.size <= offset
    BY <1>2, <1>3, <2>1, <2>2, <2>3
  <2> QED BY <2>1, <2>2, <2>4 DEF FoundX64
<1> HIDE DEF k
<1> QED BY <1>1, <1>8, <1>9, <1>10, <1>11, <1>12, <1>13 DEF StageX64
FrameImm == {"sub_sp", "add_sp", "arg_ptr"}
FoundA64(i) ==
    /\ Is(text, pc, i) /\ pc \in Nat /\ func_start_off <= pc /\ pc + i.size <= offset
    /\ i.op \in {"work", "alloca"} => AtBodyA64(pc, sp, regs, mem)
    /\ i.op \in FrameImm => i.arg = FinalA64
    /\ i.op = "arg_ptr" => sp = -FinalA64

\* The same on AArch64, where the function starts behind unused room.
LEMMA FindA64 ==
    ASSUME RunA64 PROVE \E i : FoundA64(i)
<1>1. /\ InA64 /\ HeadA64(text, func_start_off) /\ BodyCode(text, offset) /\ TailA64(text, offset)
      /\ StageA64(pc, sp, regs, mem)
  BY DEF RunA64, InA64, CodeA64
<1>2. /\ func_start_off \in Nat /\ Saved \in SUBSET Regs
      /\ Rows \in Nat /\ LenA64 \in Nat /\ 3 + Rows <= LenA64
      /\ SizeA64 \in Nat /\ SizeA64 = 12 + 4 * Rows + (IF dyn_alloca THEN 4 ELSE 0)
      /\ func_start_off + 4 * LenA64 = PrologueRoom("a64")
      /\ Top = PrologueRoom("a64") + (IF stack_args THEN 4 ELSE 0)
      /\ \A f \in Rets : f \in Nat
  BY <1>1, FnA64
<1>3. /\ offset \in Nat /\ Top \in Nat /\ Top < offset
      /\ \A x \in Targets : x \in Nat /\ Top <= x
      /\ \A f \in Rets : EpiA64(text, f) /\ f + SizeA64 <= offset
  BY <1>1 DEF BodyCode, TailA64
<1>4. func_start_off + 4 * LenA64 <= Top /\ (stack_args => func_start_off + 4 * LenA64 + 4 = Top)
  <2>1. PrologueRoom("a64") \in Nat
    BY RoomTypes
  <2> QED BY <1>2, <2>1
<1>5. \A f \in Rets : func_start_off <= f /\ f \in Nat
  <2> SUFFICES ASSUME NEW f \in Rets PROVE func_start_off <= f /\ f \in Nat
    OBVIOUS
  <2>1. f \in Nat /\ Top <= f
    BY <1>3 DEF Targets
  <2> QED BY <1>2, <1>3, <1>4, <2>1
<1>6. \A x \in {"stp", "ldp"} : LET i == FrameRecord(x)
                                IN  i.size = 4 /\ i.op \notin {"work", "alloca"} \cup FrameImm
  BY DEF FrameRecord, Inst, FrameImm
<1>7. \A r : /\ LET i == PairInst("stp", "str", StackReg, r)
                IN  i.size = 4 /\ i.op \notin {"work", "alloca"} \cup FrameImm
             /\ LET i == PairInst("ldp", "ldr", StackReg, r)
                IN  i.size = 4 /\ i.op \notin {"work", "alloca"} \cup FrameImm
  BY DEF PairInst, Inst, FrameImm
<1>8. CASE \/ AtSub(pc, sp, regs, mem) \/ AtRecord(pc, sp, regs, mem)
           \/ AtMovA64(pc, sp, regs, mem)
  <2>1. PICK i : /\ Is(text, pc, i) /\ i.size = 4 /\ i.op \notin {"work", "alloca", "arg_ptr"}
                 /\ i.op \in FrameImm => i.arg = FinalA64
    <3>1. CASE AtSub(pc, sp, regs, mem)
      <4> DEFINE i == Inst("sub_sp", FinalA64, 4)
      <4>1. Is(text, pc, i)
        BY <1>1, <3>1 DEF HeadA64, AtSub
      <4> QED BY <4>1 DEF Inst
    <3>2. CASE AtRecord(pc, sp, regs, mem)
      <4>1. Is(text, pc, FrameRecord("stp"))
        BY <1>1, <3>2 DEF HeadA64, AtRecord
      <4> QED BY <1>6, <4>1 DEF FrameImm
    <3>3. CASE AtMovA64(pc, sp, regs, mem)
      <4> DEFINE i == Inst("mov_fp_sp", 0, 4)
      <4>1. Is(text, pc, i)
        BY <1>1, <3>3 DEF HeadA64, AtMovA64
      <4> QED BY <4>1 DEF Inst, FrameImm
    <3> QED BY <1>8, <3>1, <3>2, <3>3
  <2>2. pc \in Nat /\ func_start_off <= pc /\ pc <= func_start_off + 8
    BY <1>2, <1>8 DEF AtSub, AtRecord, AtMovA64
  <2>3. pc + i.size <= offset
    BY <1>2, <1>3, <1>4, <2>1, <2>2
  <2> QED BY <2>1, <2>2, <2>3 DEF FoundA64
<1>9. CASE AtBodyA64(pc, sp, regs, mem)
  <2>1. CASE pc \in body
    <3>1. Is(text, pc, text[pc]) /\ text[pc].size = 4 /\ text[pc].op \in {"work", "alloca"}
          /\ pc + 4 <= offset
      BY <1>1, <2>1 DEF BodyCode, BodyInst, Is, Inst
    <3>2. pc \in Nat /\ Top <= pc
      BY <1>3, <2>1 DEF Targets
    <3>3. func_start_off <= pc
      BY <1>2, <1>3, <1>4, <3>2
    <3> QED BY <1>9, <3>1, <3>2, <3>3 DEF FoundA64, FrameImm
  <2>2. CASE pc \in Rets
    <3> DEFINE i == IF dyn_alloca THEN Inst("mov_sp_fp", 0, 4) ELSE FrameRecord("ldp")
    <3>1. Is(text, pc, i) /\ pc + SizeA64 <= offset /\ pc \in Nat /\ func_start_off <= pc
      BY <1>3, <1>5, <2>2 DEF EpiA64
    <3>2. i.size = 4 /\ i.op \notin {"work", "alloca"} \cup FrameImm
      BY <1>6 DEF Inst, FrameImm
    <3> HIDE DEF i
    <3>3. pc + i.size <= offset
      BY <1>2, <1>3, <3>1, <3>2
    <3> QED BY <3>1, <3>2, <3>3 DEF FoundA64, FrameImm
  <2> QED BY <1>9, <2>1, <2>2 DEF AtBodyA64, Targets
<1>10. ASSUME NEW k \in 3 + Rows .. LenA64, AtNop(k, pc, sp, regs, mem) PROVE \E i : FoundA64(i)
  <2>1. k \in Nat /\ pc = func_start_off + 4 * k /\ sp = -FinalA64 /\ k <= LenA64
    BY <1>2, <1>10 DEF AtNop
  <2>2. CASE k # LenA64
    <3> DEFINE i == Inst("nop", 0, 4)
    <3>1. k \in 3 + Rows .. LenA64 - 1
      BY <1>2, <1>10, <2>1, <2>2
    <3>2. Is(text, pc, i)
      BY <1>1, <2>1, <3>1 DEF HeadA64
    <3>3. i.size = 4 /\ i.op \notin {"work", "alloca"} \cup FrameImm
      BY DEF Inst, FrameImm
    <3> HIDE DEF i
    <3>4. pc \in Nat /\ func_start_off <= pc /\ pc + i.size <= offset
      BY <1>2, <1>3, <1>4, <2>1, <2>2, <3>3
    <3> QED BY <3>2, <3>3, <3>4 DEF FoundA64, FrameImm
  <2>3. CASE k = LenA64 /\ stack_args
    <3> DEFINE i == Inst("arg_ptr", FinalA64, 4)
    <3>1. Is(text, pc, i)
      BY <1>1, <1>2, <2>1, <2>3 DEF HeadA64
    <3>2. i.size = 4 /\ i.op = "arg_ptr" /\ i.arg = FinalA64
      BY DEF Inst
    <3> HIDE DEF i
    <3>3. pc \in Nat /\ func_start_off <= pc /\ pc + i.size <= offset
      BY <1>2, <1>3, <1>4, <2>1, <2>3, <3>2
    <3> QED BY <2>1, <3>1, <3>2, <3>3 DEF FoundA64
  <2>4. CASE k = LenA64 /\ ~stack_args
    BY <1>1, <1>9, <1>10, <2>4, NoppedAll
  <2> QED BY <2>2, <2>3, <2>4
<1>11. ASSUME NEW D \in SUBSET Saved, AtStore(D, pc, sp, regs, mem) PROVE \E i : FoundA64(i)
  <2>1. CASE D = Saved
    <3>1. 3 + Rows \in 3 + Rows .. LenA64 /\ AtNop(3 + Rows, pc, sp, regs, mem)
      BY <1>1, <1>11, <2>1, StoredAll
    <3> QED BY <1>10, <3>1
  <2>2. CASE D # Saved
    <3>1. PICK r \in Saved : First(r) /\ Row(r) = RowsOf(D)
      BY <1>2, <1>11, <2>2, NextRow DEF AtStore
    <3>2. Row(r) \in Nat /\ Row(r) < Rows
      BY <1>2, <3>1, RowOwn
    <3> DEFINE i == PairInst("stp", "str", StackReg, r)
    <3>3. pc = func_start_off + 12 + 4 * Row(r) /\ Is(text, pc, i)
      BY <1>1, <1>11, <3>1 DEF AtStore, HeadA64
    <3>4. i.size = 4 /\ i.op \notin {"work", "alloca"} \cup FrameImm
      BY <1>7
    <3> HIDE DEF i
    <3>5. pc \in Nat /\ func_start_off <= pc /\ pc + i.size <= offset
      BY <1>2, <1>3, <1>4, <3>2, <3>3, <3>4
    <3> QED BY <3>3, <3>4, <3>5 DEF FoundA64, FrameImm
  <2> QED BY <2>1, <2>2
<1>12. ASSUME NEW f \in Rets, AtAdd(f, pc, sp, regs, mem) PROVE \E i : FoundA64(i)
  <2> DEFINE i == Inst("add_sp", FinalA64, 4)
  <2>1. Is(text, pc, i) /\ pc = f + (SizeA64 - 8)
    BY <1>3, <1>12 DEF AtAdd, EpiA64
  <2>2. i.size = 4 /\ i.op = "add_sp" /\ i.arg = FinalA64
    BY DEF Inst
  <2> HIDE DEF i
  <2>3. f \in Nat /\ func_start_off <= f /\ f + SizeA64 <= offset /\ 12 <= SizeA64
    BY <1>2, <1>3, <1>5
  <2>4. pc \in Nat /\ func_start_off <= pc /\ pc + i.size <= offset
    BY <1>2, <1>3, <2>1, <2>2, <2>3
  <2> QED BY <2>1, <2>2, <2>4 DEF FoundA64
<1>13. ASSUME NEW f \in Rets, NEW D \in SUBSET Saved, AtLoad(f, D, pc, sp, regs, mem)
       PROVE  \E i : FoundA64(i)
  <2>1. f \in Nat /\ func_start_off <= f /\ f + SizeA64 <= offset /\ EpiA64(text, f)
    BY <1>3, <1>5
  <2>2. CASE D = Saved /\ ~dyn_alloca
    BY <1>1, <1>12, <1>13, <2>2, LoadedAll
  <2>3. CASE D = Saved /\ dyn_alloca
    <3> DEFINE i == FrameRecord("ldp")
    <3>1. pc = f + 4 + 4 * Rows /\ Is(text, pc, i)
      BY <1>13, <2>1, <2>3, RowEnds DEF AtLoad, EpiA64
    <3>2. i.size = 4 /\ i.op \notin {"work", "alloca"} \cup FrameImm
      BY <1>6
    <3> HIDE DEF i
    <3>3. pc \in Nat /\ func_start_off <= pc /\ pc + i.size <= offset
      BY <1>2, <1>3, <2>1, <2>3, <3>1, <3>2
    <3> QED BY <3>1, <3>2, <3>3 DEF FoundA64, FrameImm
  <2>4. CASE D # Saved
    <3>1. PICK r \in Saved : First(r) /\ Row(r) = RowsOf(D)
      BY <1>2, <1>13, <2>4, NextRow DEF AtLoad
    <3>2. Row(r) \in Nat /\ Row(r) < Rows
      BY <1>2, <3>1, RowOwn
    <3> DEFINE i == PairInst("ldp", "ldr", StackReg, r)
    <3>3. pc = f + 4 + 4 * Row(r) /\ Is(text, pc, i)
      BY <1>13, <2>1, <3>1 DEF AtLoad, EpiA64
    <3>4. i.size = 4 /\ i.op \notin {"work", "alloca"} \cup FrameImm
      BY <1>7
    <3> HIDE DEF i
    <3>5. pc \in Nat /\ func_start_off <= pc /\ pc + i.size <= offset
      BY <1>2, <1>3, <2>1, <3>2, <3>3, <3>4
    <3> QED BY <3>3, <3>4, <3>5 DEF FoundA64, FrameImm
  <2> QED BY <2>2, <2>3, <2>4
<1>14. ASSUME NEW f \in Rets, AtRetA64(f, pc, sp, regs, mem) PROVE \E i : FoundA64(i)
  <2> DEFINE i == Inst("ret", 0, 4)
  <2>1. Is(text, pc, i) /\ pc = f + (SizeA64 - 4)
    BY <1>3, <1>14 DEF AtRetA64, EpiA64
  <2>2. i.size = 4 /\ i.op \notin {"work", "alloca"} \cup FrameImm
    BY DEF Inst, FrameImm
  <2> HIDE DEF i
  <2>3. f \in Nat /\ func_start_off <= f /\ f + SizeA64 <= offset /\ 12 <= SizeA64
    BY <1>2, <1>3, <1>5
  <2>4. pc \in Nat /\ func_start_off <= pc /\ pc + i.size <= offset
    BY <1>2, <1>3, <2>1, <2>2, <2>3
  <2> QED BY <2>1, <2>2, <2>4 DEF FoundA64, FrameImm
<1> QED BY <1>1, <1>8, <1>9, <1>10, <1>11, <1>12, <1>13, <1>14 DEF StageA64
----------------------------------------------------------------------------
(***************************************************************************)
(* The properties follow from the invariant.                               *)
(***************************************************************************)

\* A frame that the assertion allows has a size that SUB and ADD can encode.
LEMMA FinalEncodable ==
    ASSUME FnTypes, arch = "a64", frame_size <= MaxFrame
    PROVE  Encodable(FinalA64)
<1> DEFINE n == align_up(frame_size, 16)
<1>1. frame_size \in Nat
  BY DEF FnTypes
<1>2. n \in Nat /\ n < frame_size + 16 /\ n % 16 = 0
  BY <1>1, AlignUp
<1> HIDE DEF n
<1>3. n <= 16773120
  <2>1. frame_size <= 16773120
    BY DEF MaxFrame
  <2> QED BY ONLY <1>1, <1>2, <2>1
<1>4. align_up(n, 4096) < n + 4096 /\ align_up(n, 4096) % 4096 = 0 /\ align_up(n, 4096) \in Nat
  <2>1. n \in Nat
    BY <1>2
  <2> QED BY <2>1, AlignUp
<1>5. FinalA64 = IF n > 4095 THEN align_up(n, 4096) ELSE n
  BY DEF FinalA64, n
<1>6. CASE n > 4095
  <2>1. FinalA64 = align_up(n, 4096)
    BY <1>5, <1>6
  <2>2. FinalA64 % 4096 = 0 /\ FinalA64 < 16777216
    BY <1>2, <1>3, <1>4, <2>1
  <2> QED BY <2>2 DEF Encodable
<1>7. CASE ~(n > 4095)
  <2>1. FinalA64 = n /\ n < 4096
    BY <1>2, <1>5, <1>7
  <2> QED BY <2>1 DEF Encodable
<1> QED BY <1>6, <1>7

\* Only the body stage is in the body.
LEMMA BodyStage ==
    ASSUME FrameInv, InBody
    PROVE  /\ arch = "x64" => RunX64 /\ AtBodyX64(pc, sp, regs, mem)
           /\ arch = "a64" => RunA64 /\ AtBodyA64(pc, sp, regs, mem)
<1>1. phase = "run" /\ pc \in body
  BY DEF InBody
<1>2. CASE arch = "x64"
  <2>1. RunX64
    BY <1>1, <1>2 DEF FrameInv
  <2>2. PICK i : FoundX64(i)
    BY <2>1, FindX64
  <2>3. i.op \in {"work", "alloca"}
    <3>1. BodyInst(text[pc], dyn_alloca)
      BY <1>1, <2>1 DEF RunX64, InX64, CodeX64, BodyCode
    <3> QED BY <2>2, <3>1 DEF FoundX64, Is, BodyInst, Inst
  <2> QED BY <1>2, <2>1, <2>2, <2>3 DEF FoundX64
<1>3. CASE arch = "a64"
  <2>1. RunA64
    BY <1>1, <1>3 DEF FrameInv
  <2>2. PICK i : FoundA64(i)
    BY <2>1, FindA64
  <2>3. i.op \in {"work", "alloca"}
    <3>1. BodyInst(text[pc], dyn_alloca)
      BY <1>1, <2>1 DEF RunA64, InA64, CodeA64, BodyCode
    <3> QED BY <2>2, <3>1 DEF FoundA64, Is, BodyInst, Inst
  <2> QED BY <1>3, <2>1, <2>2, <2>3 DEF FoundA64
<1> QED BY <1>2, <1>3

\* The execution stays in the function.
LEMMA FrameInvCode ==
    ASSUME FrameInv PROVE CodeIntact
<1> SUFFICES ASSUME phase = "run"
             PROVE  /\ pc \in DOMAIN text
                    /\ func_start_off <= pc /\ pc + text[pc].size <= offset
                    /\ func_start_off % 16 = 0
  BY DEF CodeIntact
<1>1. CASE arch = "x64"
  <2>1. RunX64
    BY <1>1 DEF FrameInv
  <2>2. PICK i : FoundX64(i)
    BY <2>1, FindX64
  <2>3. func_start_off = 0
    BY <2>1 DEF RunX64
  <2> QED BY <2>2, <2>3 DEF FoundX64, Is
<1>2. CASE arch = "a64"
  <2>1. RunA64
    BY <1>2 DEF FrameInv
  <2>2. PICK i : FoundA64(i)
    BY <2>1, FindA64
  <2>3. func_start_off % 16 = 0
    BY <2>1 DEF RunA64, InA64, CodeA64, HeadA64
  <2> QED BY <2>2, <2>3 DEF FoundA64, Is
<1> QED BY <1>1, <1>2 DEF FrameInv, FnTypes

\* The stack pointer is right in the body, and the immediates are.
LEMMA FrameInvFrame ==
    ASSUME FrameInv PROVE FrameRight
<1>1. FnTypes /\ (arch = "x64" \/ arch = "a64") /\ (arch = "a64" => frame_size <= MaxFrame)
      /\ frame_size \in Nat
  BY DEF FrameInv, FnTypes
<1>2. ASSUME InBody PROVE sp % 16 = 0 /\ \A a \in SlotBytes : a >= sp
  <2>1. CASE arch = "x64"
    <3> DEFINE A == align_up(frame_size, 16)
    <3>1. RunX64 /\ AtBodyX64(pc, sp, regs, mem)
      BY <1>2, <2>1, BodyStage
    <3>2. A \in Nat /\ frame_size <= A
      BY <1>1, AlignUp
    <3>3. sp \in Int /\ sp <= -16 - A /\ sp % 16 = 0 /\ regs[5] = Addr(-16)
      BY <3>1 DEF AtBodyX64
    <3>4. fp = -16 /\ Base(arch) \in Nat
      BY <1>1, <2>1, <3>3, RoomTypes DEF fp, FP, Addr
    <3> HIDE DEF A
    <3>5. SlotBytes = -16 - frame_size .. -16 - Base(arch) - 1
      BY <2>1, <3>4 DEF SlotBytes
    <3> QED BY <1>1, <3>2, <3>3, <3>4, <3>5
  <2>2. CASE arch = "a64"
    <3>1. RunA64 /\ AtBodyA64(pc, sp, regs, mem)
      BY <1>2, <2>2, BodyStage
    <3>2. FinalA64 \in Nat
      BY <1>1, <2>2, FrameA64
    <3>3. sp \in Int /\ sp <= -FinalA64 /\ sp % 16 = 0 /\ regs[29] = Addr(-FinalA64)
      BY <3>1 DEF AtBodyA64
    <3>4. fp = -FinalA64 /\ Base(arch) \in Nat
      BY <1>1, <2>2, <3>3, RoomTypes DEF fp, FP, Addr
    <3>5. SlotBytes = -FinalA64 + Base(arch) .. -FinalA64 + frame_size - 1
      BY <2>2, <3>4 DEF SlotBytes
    <3> QED BY <1>1, <3>2, <3>3, <3>4, <3>5
  <2> QED BY <1>1, <2>1, <2>2
<1>3. ASSUME phase = "run", pc \in DOMAIN text
      PROVE  /\ arch = "a64" /\ text[pc].op \in {"sub_sp", "add_sp", "arg_ptr"} => Encodable(Arg)
             /\ text[pc].op = "arg_ptr" => sp + Arg = 0
  <2>1. CASE arch = "x64"
    <3>1. RunX64
      BY <1>3, <2>1 DEF FrameInv
    <3>2. PICK i : FoundX64(i)
      BY <3>1, FindX64
    <3>3. text[pc].op # "arg_ptr"
      BY <3>2 DEF FoundX64, Is
    <3> QED BY <2>1, <3>3
  <2>2. CASE arch = "a64"
    <3>1. RunA64
      BY <1>3, <2>2 DEF FrameInv
    <3>2. PICK i : FoundA64(i)
      BY <3>1, FindA64
    <3>3. text[pc] = i
      BY <3>2 DEF FoundA64, Is
    <3>4. Encodable(FinalA64) /\ FinalA64 \in Nat
      BY <1>1, <2>2, FinalEncodable, FrameA64
    <3>5. i.op \in {"sub_sp", "add_sp", "arg_ptr"} => Arg = FinalA64
      BY <3>2, <3>3 DEF FoundA64, FrameImm, Arg
    <3>6. i.op = "arg_ptr" => sp = -FinalA64
      BY <3>2 DEF FoundA64
    <3>7. i.op = "arg_ptr" => sp + Arg = 0
      BY <3>4, <3>5, <3>6
    <3> QED BY <3>3, <3>4, <3>5, <3>7
  <2> QED BY <1>1, <2>1, <2>2
<1> QED BY <1>2, <1>3 DEF FrameRight

\* The frame description finds the CFA and the caller's registers.
LEMMA FrameInvUnwind ==
    ASSUME FrameInv PROVE UnwindX64
<1> SUFFICES ASSUME arch = "x64", InBody
             PROVE  /\ fp + cfi.cfa = 0
                    /\ \A r \in Csr(arch) \cup {FP(arch)} : Unwound(r) = <<"old", r>>
  BY DEF UnwindX64, UnwindSound
<1>1. RunX64 /\ AtBodyX64(pc, sp, regs, mem)
  BY BodyStage
<1>2. KeptX64(regs, {}) /\ regs[5] = Addr(-16) /\ StoredX64(mem, Saved)
  BY <1>1 DEF AtBodyX64
<1>3. fp = -16 /\ cfi.cfa = 16 /\ cfi.rules = CfiX64
  BY <1>1, <1>2 DEF RunX64, fp, FP, Addr
<1>4. /\ Saved \in SUBSET Regs /\ Saved \in SUBSET CsrX64 /\ 5 \notin Saved /\ 5 \notin CsrX64
  BY <1>1, SavedX64, CsrRegs DEF RunX64, InX64
<1> DEFINE one == 5 :> 2
           two == [r \in Saved |-> Cardinality(Below(r)) + 1 + 2]
<1>5. CfiX64 = one @@ two
  BY DEF CfiX64, FP
<1>6. DOMAIN one = {5} /\ one[5] = 2
  BY SMT DEF :>
<1> HIDE DEF one
<1>7. /\ DOMAIN CfiX64 = {5} \cup Saved /\ CfiX64[5] = 2
      /\ \A r \in Saved : CfiX64[r] = Cardinality(Below(r)) + 1 + 2
  BY <1>4, <1>5, <1>6 DEF @@
<1>8. ASSUME NEW r \in CsrX64 \cup {5} PROVE Unwound(r) = Old(r)
  <2>1. CASE r = 5
    <3>1. Unwound(r) = Load(-16)
      BY <1>3, <1>7, <2>1 DEF Unwound
    <3> QED BY <1>2, <2>1, <3>1 DEF StoredX64, Load, Is
  <2>2. CASE r \in Saved
    <3>1. Below(r) = BelowIn(Saved, r) /\ Cardinality(Below(r)) \in Nat
      BY <1>4, <2>2, BelowParts
    <3>2. fp + cfi.cfa - 8 * cfi.rules[r] = SlotX64(r)
      <4> DEFINE c == Cardinality(Below(r))
      <4>1. fp + cfi.cfa - 8 * cfi.rules[r] = -16 + 16 - 8 * (c + 1 + 2)
        BY <1>3, <1>7, <2>2
      <4>2. SlotX64(r) = -24 - 8 * c
        BY <3>1 DEF SlotX64
      <4>3. c \in Nat
        BY <3>1
      <4> HIDE DEF c
      <4> QED BY <4>1, <4>2, <4>3
    <3>3. Unwound(r) = Load(SlotX64(r))
      BY <1>3, <1>7, <2>2, <3>2 DEF Unwound
    <3> QED BY <1>2, <2>2, <3>3 DEF StoredX64, Load, Is
  <2>3. CASE r \notin Saved /\ r # 5
    <3>1. Unwound(r) = regs[r]
      BY <1>3, <1>7, <2>3 DEF Unwound
    <3> QED BY <1>2, <2>3, <3>1 DEF KeptX64
  <2> QED BY <2>1, <2>2, <2>3
<1> QED BY <1>3, <1>8 DEF Csr, FP, Old

\* The caller gets its registers and its stack pointer back.
THEOREM CalleeRestoredAlways == Spec => []CalleeRestored
<1>1. FrameInv => CalleeRestored
  BY DEF FrameInv
<1> QED BY <1>1, FrameInvAlways, PTL

\* Only instructions of the function are executed.
THEOREM CodeIntactAlways == Spec => []CodeIntact
BY FrameInvCode, FrameInvAlways, PTL

\* The stack pointer is aligned and below all slots in the body; the immediates
\* of the frame code can be encoded, and stack arguments are found.
THEOREM FrameRightAlways == Spec => []FrameRight
BY FrameInvFrame, FrameInvAlways, PTL

\* On x86-64 the unwinder finds the caller's frame at every call of the body.
THEOREM UnwindX64Always == Spec => []UnwindX64
BY FrameInvUnwind, FrameInvAlways, PTL
====
