---------------------------- MODULE PhiMovePlaces ----------------------------
(***************************************************************************)
(* The places of the values during the phi moves: registers, stack slots   *)
(* and what the wrappers took away.  On a forward edge the phis have no    *)
(* place until their node is moved, and are never displaced; on the back   *)
(* edge of a loop they keep the places they have.                          *)
(***************************************************************************)
EXTENDS PhiMoveProofs

\* Types of the bookkeeping.
PlaceTypes ==
    /\ num_parts \in 1 .. 3 /\ back \in BOOLEAN
    /\ live \in [Vals -> BOOLEAN] /\ fixed \in [Vals -> BOOLEAN] /\ dirty \in [Parts -> BOOLEAN]
    /\ slot \in [Vals -> Slots \cup {NoSlot}] /\ reg \in [Parts -> Regs \cup {NoReg}]
    /\ own \in [Regs -> Parts \cup WrapperSet \cup {Free, Held}]
    /\ cur_reg \in [WrapperSet -> Regs \cup {NoReg}]
    /\ backup \in [WrapperSet -> Parts \cup {None}] /\ was_modified \in [WrapperSet -> BOOLEAN]

\* The slots that can be handed out, and the one of the temporary.
StackInv ==
    /\ free_list \subseteq Slots /\ fresh \subseteq Slots
    /\ tmp_slot \in Slots \cup {NoSlot}
    /\ pc = "free_tmp" => tmp_slot # NoSlot

\* Registers, live values and wrappers agree on who owns what.
OwnersInv ==
    /\ \A r \in Regs : own[r] \in Parts => live[Val(own[r])] /\ reg[own[r]] = r
    /\ \A p \in Parts : reg[p] # NoReg => own[reg[p]] = p
    /\ \A w \in WrapperSet : cur_reg[w] # NoReg => own[cur_reg[w]] = w

\* A live value is on the stack if it is not dirty, and so is one that a
\* wrapper took its register from; no other wrapper took it too.
Displaced(w) == backup[w] # None /\ live[Val(backup[w])]
SlotsInv ==
    /\ \A p \in Parts : live[Val(p)] /\ ~dirty[p] => slot[Val(p)] # NoSlot
    /\ \A w \in WrapperSet : Displaced(w) =>
          /\ ~dirty[backup[w]] /\ reg[backup[w]] = NoReg
          /\ \A x \in WrapperSet : Displaced(x) /\ backup[x] = backup[w] => x = w

\* What a phi has on a forward edge, and on the back edge of a loop.
EdgeInv ==
    /\ ~back => /\ \A n \in Nodes : inc[n] \notin Nodes
                /\ \A r \in Regs : own[r] \in Parts /\ Val(own[r]) \in Nodes => fixed[Val(own[r])]
                /\ \A w \in WrapperSet : backup[w] # None => Val(backup[w]) \notin Nodes
    /\ back => \A n \in Nodes : live[n] /\ (fixed[n] \/ slot[n] # NoSlot)

\* A phi that is left on a forward edge is not on the stack before its move.
UnplacedInv ==
    ~back => \A n \in Left : (pc = "move" /\ n = Head(ready)) \/ \A i \in Idx : dirty[<<n, i>>]

Places == PlaceTypes /\ OwnersInv /\ SlotsInv /\ EdgeInv
PlaceInv == Places /\ StackInv /\ UnplacedInv /\ part \in Nat

----------------------------------------------------------------------------
(***************************************************************************)
(* Facts about the constants.                                              *)
(***************************************************************************)
\* Parts, wrappers and the other owners of registers are different things.
LEMMA NotAPart ==
    ASSUME num_parts \in 1 .. 3
    PROVE  /\ \A w \in WrapperSet : w \notin Parts
           /\ Free \notin Parts /\ Held \notin Parts /\ None \notin Parts
           /\ Free \notin WrapperSet /\ Held \notin WrapperSet
           /\ NoReg \notin Regs /\ NoSlot \notin Slots
           /\ Vals \subseteq Slots /\ Nodes \subseteq Vals
           /\ 0 \in Idx /\ \A p \in Parts : Val(p) \in Vals /\ p[2] \in Idx /\ p = <<Val(p), p[2]>>
<1>1. Idx \subseteq 0 .. 2 /\ 0 \in Idx
  BY DEF Idx
<1>2. Parts \subseteq Vals \X (0 .. 2)
  BY <1>1 DEF Parts
<1>3. \A p \in Parts : Val(p) \in Vals /\ p[2] \in Idx /\ p = <<Val(p), p[2]>>
  BY DEF Parts, Val
<1>4. Vals \subseteq Slots /\ Nodes \subseteq Vals
  BY PhiAssumption DEF Vals, Others, Nodes, Slots
<1>5. Free \notin WrapperSet /\ Held \notin WrapperSet /\ NoReg \notin Regs /\ NoSlot \notin Slots
  BY PhiAssumption
<1>6. \A x \in WrapperSet \cup {Free, Held, None} : x \notin Parts
  BY <1>2, PhiAssumption
<1> QED BY <1>1, <1>3, <1>4, <1>5, <1>6

\* The registers are finitely many numbers, so the lowest one of a set that is
\* not empty is in it.
LEMMA LowestReg == ASSUME NEW R \in SUBSET Regs, R # {} PROVE Lowest(R) \in R
<1>1. IsFiniteSet(R) /\ R \in SUBSET Nat
  BY PhiAssumption, FS_Subset
<1> QED BY <1>1, LowestIn

----------------------------------------------------------------------------
(***************************************************************************)
(* ScratchWrapper.                                                         *)
(***************************************************************************)
\* reset: the part gets its register and its state back, unless it is freed.
LEMMA ResetPlaces ==
    ASSUME Places, NEW w \in WrapperSet, reset(w), UNCHANGED <<inc, back, num_parts>>
    PROVE  Places'
<1> DEFINE r == cur_reg[w]
           p == backup[w]
<1>1. /\ r # NoReg /\ cur_reg' = [cur_reg EXCEPT ![w] = NoReg] /\ backup' = [backup EXCEPT ![w] = None]
      /\ UNCHANGED <<live, fixed, slot, was_modified>>
  BY DEF reset
<1>2. /\ r \in Regs /\ own[r] = w /\ num_parts \in 1 .. 3
      /\ \A q \in Parts : reg[q] # r
      /\ \A x \in WrapperSet : x # w => cur_reg[x] # r
  <2>1. r \in Regs /\ own[r] = w /\ num_parts \in 1 .. 3
    BY <1>1 DEF Places, PlaceTypes, OwnersInv
  <2>2. \A q \in Parts : reg[q] # r
    BY <1>1, <2>1, NotAPart DEF Places, OwnersInv
  <2>3. \A x \in WrapperSet : x # w => cur_reg[x] # r
    BY <1>1, <2>1 DEF Places, OwnersInv
  <2> QED BY <2>1, <2>2, <2>3
<1>3. Parts' = Parts /\ Idx' = Idx
  BY DEF Parts, Idx
<1>4. \A x \in WrapperSet : /\ Displaced(x)' => x # w /\ Displaced(x)
                            /\ x # w => backup'[x] = backup[x]
  BY <1>1, <1>2, NotAPart DEF Displaced, Places, PlaceTypes, Val
<1>5. EdgeInv'
  <2>1. \A q \in Regs : own'[q] \in Parts => own'[q] = own[q] \/ (own'[q] = p /\ p # None)
    <3>1. own' = [own EXCEPT ![r] = p] \/ own' = [own EXCEPT ![r] = Free]
      BY DEF reset
    <3>2. own \in [Regs -> Parts \cup WrapperSet \cup {Free, Held}] /\ Free \notin Parts /\ None \notin Parts
      BY <1>2, NotAPart DEF Places, PlaceTypes
    <3> HIDE DEF r, p
    <3> QED BY <3>1, <3>2
  <2>2. p # None /\ ~back => Val(p) \notin Nodes
    BY DEF Places, EdgeInv
  <2>3. \A x \in WrapperSet : backup'[x] # None => backup'[x] = backup[x] /\ backup[x] # None
    BY <1>1 DEF Places, PlaceTypes
  <2> QED BY <1>1, <1>3, <2>1, <2>2, <2>3 DEF Places, EdgeInv
<1>6. CASE p # None /\ live[Val(p)]
  <2>1. /\ own' = [own EXCEPT ![r] = p] /\ reg' = [reg EXCEPT ![p] = r]
        /\ dirty' = [dirty EXCEPT ![p] = was_modified[w]]
    BY <1>6 DEF reset, RestoredDirty
  <2>2. p \in Parts /\ reg[p] = NoReg /\ slot[Val(p)] # NoSlot
        /\ \A x \in WrapperSet : Displaced(x) /\ backup[x] = p => x = w
    <3>1. p \in Parts /\ Displaced(w)
      BY <1>6 DEF Places, PlaceTypes, Displaced
    <3>2. /\ ~dirty[p] /\ reg[p] = NoReg
          /\ \A x \in WrapperSet : Displaced(x) /\ backup[x] = p => x = w
      BY <3>1 DEF Places, SlotsInv
    <3>3. slot[Val(p)] # NoSlot
      BY <1>6, <3>1, <3>2 DEF Places, SlotsInv
    <3> QED BY <3>1, <3>2, <3>3
  <2> HIDE DEF p, r
  <2>3. PlaceTypes'
    BY <1>1, <1>2, <1>3, <2>1, <2>2 DEF p, Places, PlaceTypes
  <2>4. OwnersInv'
    <3>1. \A q \in Regs : own[q] # p
      BY <2>2, <1>2, NotAPart DEF Places, OwnersInv
    <3>2. ASSUME NEW q \in Regs, own'[q] \in Parts PROVE live'[Val(own'[q])] /\ reg'[own'[q]] = q
      BY <1>1, <1>2, <1>6, <2>1, <2>2, <3>1, <3>2 DEF Places, OwnersInv, PlaceTypes
    <3>3. ASSUME NEW k \in Parts, reg'[k] # NoReg PROVE own'[reg'[k]] = k
      BY <1>2, <2>1, <2>2, <3>3 DEF Places, OwnersInv, PlaceTypes
    <3>4. ASSUME NEW x \in WrapperSet, cur_reg'[x] # NoReg PROVE own'[cur_reg'[x]] = x
      <4>1. x # w /\ cur_reg'[x] = cur_reg[x] /\ cur_reg[x] \in Regs /\ cur_reg[x] # r
        BY <1>1, <1>2, <3>4 DEF Places, PlaceTypes, r
      <4>2. own[cur_reg[x]] = x
        BY <3>4, <4>1 DEF Places, OwnersInv
      <4> QED BY <2>1, <4>1, <4>2 DEF Places, PlaceTypes
    <3> QED BY <1>3, <3>2, <3>3, <3>4 DEF OwnersInv
  <2>5. SlotsInv'
    <3>1. ASSUME NEW k \in Parts, live'[Val(k)], ~dirty'[k] PROVE slot'[Val(k)] # NoSlot
      BY <1>1, <2>1, <2>2, <3>1 DEF Places, SlotsInv, PlaceTypes
    <3>2. ASSUME NEW x \in WrapperSet, Displaced(x)'
          PROVE  /\ ~dirty'[backup'[x]] /\ reg'[backup'[x]] = NoReg
                 /\ \A y \in WrapperSet : Displaced(y)' /\ backup'[y] = backup'[x] => y = x
      <4>1. x # w /\ Displaced(x) /\ backup'[x] = backup[x] /\ backup[x] # p /\ backup[x] \in Parts
        BY <1>4, <2>2, <3>2 DEF Displaced, Places, PlaceTypes
      <4>2. ~dirty[backup[x]] /\ reg[backup[x]] = NoReg
        BY <4>1 DEF Places, SlotsInv
      <4>3. \A y \in WrapperSet : Displaced(y)' => Displaced(y) /\ backup'[y] = backup[y]
        BY <1>4
      <4>4. \A y \in WrapperSet : Displaced(y)' /\ backup'[y] = backup'[x] => y = x
        BY <4>1, <4>3 DEF Places, SlotsInv
      <4> QED BY <2>1, <2>2, <4>1, <4>2, <4>4 DEF Places, PlaceTypes
    <3> QED BY <1>3, <3>1, <3>2 DEF SlotsInv
  <2> QED BY <1>5, <2>3, <2>4, <2>5 DEF Places
<1>7. CASE ~(p # None /\ live[Val(p)])
  <2>1. own' = [own EXCEPT ![r] = Free] /\ UNCHANGED <<reg, dirty>>
    BY <1>7 DEF reset
  <2>2. PlaceTypes'
    BY <1>1, <1>2, <1>3, <2>1 DEF Places, PlaceTypes
  <2> HIDE DEF p, r
  <2>3. OwnersInv'
    <3>1. ASSUME NEW q \in Regs, own'[q] \in Parts PROVE live'[Val(own'[q])] /\ reg'[own'[q]] = q
      <4>1. own'[q] = own[q]
        BY <1>2, <2>1, <3>1, NotAPart DEF Places, PlaceTypes
      <4> QED BY <1>1, <2>1, <3>1, <4>1 DEF Places, OwnersInv
    <3>2. ASSUME NEW k \in Parts, reg'[k] # NoReg PROVE own'[reg'[k]] = k
      BY <1>2, <2>1, <3>2 DEF Places, OwnersInv, PlaceTypes
    <3>3. ASSUME NEW x \in WrapperSet, cur_reg'[x] # NoReg PROVE own'[cur_reg'[x]] = x
      <4>1. x # w /\ cur_reg'[x] = cur_reg[x] /\ cur_reg[x] \in Regs /\ cur_reg[x] # r
        BY <1>1, <1>2, <3>3 DEF Places, PlaceTypes, r
      <4>2. own[cur_reg[x]] = x
        BY <3>3, <4>1 DEF Places, OwnersInv
      <4> QED BY <2>1, <4>1, <4>2 DEF Places, PlaceTypes
    <3> QED BY <1>3, <3>1, <3>2, <3>3 DEF OwnersInv
  <2>4. SlotsInv'
    BY <1>1, <1>3, <1>4, <2>1 DEF Places, SlotsInv
  <2> QED BY <1>5, <2>2, <2>3, <2>4 DEF Places
<1> QED BY <1>6, <1>7

\* Freed and unused slots are slots.
SlotLists == free_list \subseteq Slots /\ fresh \subseteq Slots

\* The register alloc_from_bank finds is free, or that of a value.
LEMMA AllocReg ==
    ASSUME Places, NEW w, NEW b, alloc_from_bank(w, b)
    PROVE  LET r == Lowest(IF FreeIn(b) # {} THEN FreeIn(b) ELSE Takeable(b))
           IN  /\ r \in Regs
               /\ FreeIn(b) # {} => own[r] = Free
               /\ FreeIn(b) = {} => own[r] \in Parts /\ ~fixed[Val(own[r])]
<1> DEFINE r == Lowest(IF FreeIn(b) # {} THEN FreeIn(b) ELSE Takeable(b))
<1>1. CASE FreeIn(b) # {}
  <2>1. FreeIn(b) \in SUBSET Regs
    BY DEF FreeIn
  <2>2. r \in FreeIn(b)
    BY <1>1, <2>1, LowestReg
  <2> HIDE DEF r
  <2>3. r \in Regs /\ own[r] = Free
    BY <2>2 DEF FreeIn
  <2> QED BY <1>1, <2>3 DEF r
<1>2. CASE FreeIn(b) = {}
  <2>1. Takeable(b) \in SUBSET Regs /\ Takeable(b) # {}
    BY <1>2 DEF Takeable, alloc_from_bank
  <2>2. r \in Takeable(b)
    BY <1>2, <2>1, LowestReg
  <2> HIDE DEF r
  <2>3. r \in Regs /\ own[r] \in Parts /\ ~fixed[Val(own[r])]
    BY <2>2 DEF Takeable
  <2> QED BY <1>2, <2>3 DEF r
<1> QED BY <1>1, <1>2

\* alloc_from_bank: a free register, or one of a value, which is spilled first.
LEMMA AllocPlaces ==
    ASSUME Places, SlotLists, NEW w \in WrapperSet, NEW b, alloc_from_bank(w, b),
           UNCHANGED <<inc, back, num_parts>>
    PROVE  Places' /\ SlotLists'
<1> DEFINE r == Lowest(IF FreeIn(b) # {} THEN FreeIn(b) ELSE Takeable(b))
           p == own[r]
<1>1. /\ cur_reg[w] = NoReg /\ own' = [own EXCEPT ![r] = w] /\ cur_reg' = [cur_reg EXCEPT ![w] = r]
      /\ UNCHANGED <<live, fixed, refs>>
  BY DEF alloc_from_bank
<1>2. /\ r \in Regs /\ num_parts \in 1 .. 3
      /\ FreeIn(b) # {} => p = Free
      /\ FreeIn(b) = {} => p \in Parts /\ ~fixed[Val(p)]
  BY AllocReg DEF Places, PlaceTypes
<1>3. Parts' = Parts /\ Idx' = Idx
  BY DEF Parts, Idx
<1>4. \A x \in WrapperSet : x # w => cur_reg[x] # r
  BY <1>2, NotAPart DEF Places, OwnersInv
<1>5. w \notin Parts /\ Free \notin Parts /\ NoReg \notin Regs /\ NoSlot \notin Slots
  BY <1>2, NotAPart
<1>6. CASE FreeIn(b) # {}
  <2>1. UNCHANGED <<slot, stack, dirty, reg, backup, was_modified>>
    BY <1>6 DEF alloc_from_bank
  <2>2. p = Free
    BY <1>2, <1>6
  <2> HIDE DEF r
  <2>3. PlaceTypes'
    BY <1>1, <1>2, <1>3, <2>1 DEF Places, PlaceTypes
  <2>4. \A q \in Regs : own'[q] \in Parts => own'[q] = own[q]
    BY <1>1, <1>2, <1>5 DEF Places, PlaceTypes
  <2>5. OwnersInv'
    <3>1. \A k \in Parts : reg[k] # NoReg => reg[k] \in Regs /\ reg[k] # r
      BY <1>5, <2>2 DEF Places, PlaceTypes, OwnersInv, p
    <3>2. ASSUME NEW x \in WrapperSet, cur_reg'[x] # NoReg PROVE own'[cur_reg'[x]] = x
      BY <1>1, <1>2, <1>4, <3>2 DEF Places, PlaceTypes, OwnersInv
    <3>3. ASSUME NEW k \in Parts, reg'[k] # NoReg PROVE own'[reg'[k]] = k
      BY <1>1, <2>1, <3>1, <3>3 DEF Places, PlaceTypes, OwnersInv
    <3> QED BY <1>1, <1>3, <2>1, <2>4, <3>2, <3>3 DEF Places, OwnersInv
  <2>6. SlotsInv'
    BY <1>1, <1>3, <2>1 DEF Places, SlotsInv, Displaced
  <2>7. EdgeInv'
    BY <1>1, <1>3, <2>1, <2>4 DEF Places, EdgeInv
  <2> QED BY <2>1, <2>3, <2>5, <2>6, <2>7 DEF Places, SlotLists, stack
<1>7. CASE FreeIn(b) = {}
  <2> DEFINE v == Val(p)
  <2>1. /\ p \in Parts /\ ~fixed[v] /\ live[v] /\ reg[p] = r /\ v \in Vals
    <3>1. p \in Parts /\ ~fixed[v]
      BY <1>2, <1>7
    <3>2. v \in Vals
      BY <1>2, <3>1, NotAPart
    <3> QED BY <1>2, <3>1, <3>2 DEF Places, OwnersInv
  <2>2. Backup(w, r)
    BY <1>7 DEF alloc_from_bank
  <2>3. /\ dirty' = [dirty EXCEPT ![p] = FALSE] /\ reg' = [reg EXCEPT ![p] = NoReg]
        /\ backup' = [backup EXCEPT ![w] = p] /\ was_modified' = [was_modified EXCEPT ![w] = dirty[p]]
    BY <2>2 DEF Backup, SetStackValid
  <2>4. /\ slot' \in [Vals -> Slots \cup {NoSlot}] /\ slot'[v] # NoSlot
        /\ \A u \in Vals : u # v => slot'[u] = slot[u]
        /\ SlotLists'
    <3>1. CASE dirty[p] /\ slot[v] = NoSlot
      <4>1. PICK s \in Slots : NewSlot(s) /\ slot' = [slot EXCEPT ![v] = s]
        BY <2>2, <3>1 DEF Backup
      <4> QED BY <1>5, <2>1, <4>1 DEF NewSlot, SlotLists, Places, PlaceTypes
    <3>2. CASE ~(dirty[p] /\ slot[v] = NoSlot)
      <4>1. slot' = slot /\ UNCHANGED stack
        BY <2>2, <3>2 DEF Backup
      <4>2. slot[v] # NoSlot
        BY <2>1, <3>2 DEF Places, SlotsInv
      <4> QED BY <4>1, <4>2 DEF SlotLists, stack, Places, PlaceTypes
    <3> QED BY <3>1, <3>2
  <2>5. \A x \in WrapperSet : Displaced(x) => backup[x] # p
    BY <1>2, <1>5, <2>1 DEF Places, SlotsInv
  <2> HIDE DEF p, r
  <2>6. PlaceTypes'
    BY <1>1, <1>2, <1>3, <2>1, <2>3, <2>4 DEF Places, PlaceTypes
  <2>7. \A q \in Regs : own'[q] \in Parts => own'[q] = own[q] /\ q # r
    BY <1>1, <1>2, <1>5 DEF Places, PlaceTypes
  <2>8. OwnersInv'
    <3>1. ASSUME NEW q \in Regs, own'[q] \in Parts PROVE live'[Val(own'[q])] /\ reg'[own'[q]] = q
      <4>1. own'[q] = own[q] /\ q # r /\ reg[own[q]] = q /\ live[Val(own[q])]
        BY <2>7, <3>1 DEF Places, OwnersInv
      <4> QED BY <1>1, <2>1, <2>3, <3>1, <4>1 DEF Places, PlaceTypes
    <3>2. ASSUME NEW x \in WrapperSet, cur_reg'[x] # NoReg PROVE own'[cur_reg'[x]] = x
      BY <1>1, <1>2, <1>4, <3>2 DEF Places, PlaceTypes, OwnersInv
    <3>3. ASSUME NEW k \in Parts, reg'[k] # NoReg PROVE own'[reg'[k]] = k
      <4>1. k # p /\ reg'[k] = reg[k] /\ reg[k] \in Regs /\ own[reg[k]] = k
        BY <2>1, <2>3, <3>3 DEF Places, PlaceTypes, OwnersInv
      <4>2. reg[k] # r
        BY <4>1 DEF p
      <4> QED BY <1>1, <4>1, <4>2 DEF Places, PlaceTypes
    <3> QED BY <1>3, <3>1, <3>2, <3>3 DEF OwnersInv
  <2>9. \A x \in WrapperSet : /\ Displaced(x)' /\ x # w => Displaced(x) /\ backup'[x] = backup[x]
                              /\ x = w => backup'[x] = p
    BY <1>1, <2>3 DEF Displaced, Places, PlaceTypes, Val
  <2>10. SlotsInv'
    <3>1. ASSUME NEW k \in Parts, live'[Val(k)], ~dirty'[k] PROVE slot'[Val(k)] # NoSlot
      <4>1. CASE Val(k) = v
        BY <2>4, <4>1
      <4>2. CASE Val(k) # v
        <5>1. k # p /\ Val(k) \in Vals
          BY <1>2, <4>2, NotAPart
        <5>2. ~dirty[k] /\ live[Val(k)]
          BY <1>1, <2>3, <3>1, <5>1 DEF Places, PlaceTypes
        <5> QED BY <2>4, <4>2, <5>1, <5>2 DEF Places, SlotsInv
      <4> QED BY <4>1, <4>2
    <3>2. ASSUME NEW x \in WrapperSet, Displaced(x)'
          PROVE  /\ ~dirty'[backup'[x]] /\ reg'[backup'[x]] = NoReg
                 /\ \A y \in WrapperSet : Displaced(y)' /\ backup'[y] = backup'[x] => y = x
      <4>1. CASE x = w
        <5>1. backup'[x] = p
          BY <2>9, <4>1
        <5> QED BY <2>1, <2>3, <2>5, <2>9, <4>1, <5>1 DEF Places, PlaceTypes
      <4>2. CASE x # w
        <5>1. Displaced(x) /\ backup'[x] = backup[x] /\ backup[x] # p /\ backup[x] \in Parts
          BY <2>5, <2>9, <3>2, <4>2 DEF Displaced, Places, PlaceTypes
        <5>2. ~dirty[backup[x]] /\ reg[backup[x]] = NoReg
          BY <5>1 DEF Places, SlotsInv
        <5>3. \A y \in WrapperSet : Displaced(y)' /\ backup'[y] = backup'[x] => y = x
          BY <2>9, <4>2, <5>1 DEF Places, SlotsInv
        <5> QED BY <2>1, <2>3, <5>1, <5>2, <5>3 DEF Places, PlaceTypes
      <4> QED BY <4>1, <4>2
    <3> QED BY <1>3, <3>1, <3>2 DEF SlotsInv
  <2>11. EdgeInv'
    <3>1. CASE back
      <4>1. \A n \in Nodes : n \in Vals
        BY <1>2, NotAPart
      <4> QED BY <1>1, <2>4, <3>1, <4>1 DEF Places, EdgeInv
    <3>2. CASE ~back
      <4>1. v \notin Nodes
        BY <1>2, <2>1, <3>2 DEF Places, EdgeInv, p
      <4>2. \A x \in WrapperSet : backup'[x] # None => Val(backup'[x]) \notin Nodes
        BY <2>3, <3>2, <4>1 DEF Places, EdgeInv, PlaceTypes
      <4> QED BY <1>1, <1>3, <2>7, <3>2, <4>2 DEF Places, EdgeInv
    <3> QED BY <3>1, <3>2
  <2> QED BY <2>4, <2>6, <2>8, <2>10, <2>11 DEF Places
<1> QED BY <1>6, <1>7

----------------------------------------------------------------------------
(***************************************************************************)
(* The nodes.                                                              *)
(***************************************************************************)
\* Release: a value that is freed has no place any more, and no wrapper gives
\* it its register back; the phis of a loop are not freed.
LEMMA ReleasePlaces ==
    ASSUME Places, SlotLists, NEW use, Release(use),
           UNCHANGED <<inc, back, num_parts, cur_reg, backup, was_modified>>
    PROVE  Places' /\ SlotLists'
<1> DEFINE dead == {v \in Vals : use[v] > 0 /\ refs[v] - use[v] = 0 /\ ~Pending(v)}
<1>1. /\ live' = [v \in Vals |-> live[v] /\ v \notin dead]
      /\ own' = [r \in Regs |-> IF own[r] \in Parts /\ Val(own[r]) \in dead THEN Free ELSE own[r]]
      /\ reg' = [p \in Parts |-> IF Val(p) \in dead THEN NoReg ELSE reg[p]]
      /\ fixed' = [v \in Vals |-> fixed[v] /\ v \notin dead]
      /\ slot' = [v \in Vals |-> IF v \in dead THEN NoSlot ELSE slot[v]]
      /\ free_list' = free_list \cup ({slot[v] : v \in dead} \ {NoSlot})
      /\ dirty' = dirty /\ fresh' = fresh
  BY DEF Release
<1>2. dead \subseteq Vals /\ \A n \in Nodes : back => n \notin dead
  BY DEF Pending
<1> HIDE DEF dead
<1>3. num_parts \in 1 .. 3 /\ Parts' = Parts /\ Idx' = Idx
  BY DEF Parts, Idx, Places, PlaceTypes
<1>4. \A p \in Parts : Val(p) \in Vals
  BY <1>3, NotAPart
<1>5. Free \notin Parts /\ Nodes \subseteq Vals /\ NoReg \notin Regs /\ NoSlot \notin Slots
  BY <1>3, NotAPart
<1>6. PlaceTypes'
  <2>1. live' \in [Vals -> BOOLEAN] /\ fixed' \in [Vals -> BOOLEAN]
    BY <1>1
  <2>2. slot' \in [Vals -> Slots \cup {NoSlot}] /\ reg' \in [Parts -> Regs \cup {NoReg}]
    BY <1>1 DEF Places, PlaceTypes
  <2>3. own' \in [Regs -> Parts \cup WrapperSet \cup {Free, Held}]
    BY <1>1 DEF Places, PlaceTypes
  <2> QED BY <1>1, <1>3, <2>1, <2>2, <2>3 DEF Places, PlaceTypes
<1>7. \A r \in Regs : own'[r] \in Parts => own'[r] = own[r] /\ Val(own[r]) \notin dead
  BY <1>1, <1>5
<1>8. OwnersInv'
  <2>1. ASSUME NEW r \in Regs, own'[r] \in Parts PROVE live'[Val(own'[r])] /\ reg'[own'[r]] = r
    <3>1. own'[r] = own[r] /\ Val(own[r]) \notin dead /\ live[Val(own[r])] /\ reg[own[r]] = r
      BY <1>7, <2>1 DEF Places, OwnersInv
    <3> QED BY <1>1, <1>4, <2>1, <3>1
  <2>2. ASSUME NEW p \in Parts, reg'[p] # NoReg PROVE own'[reg'[p]] = p
    <3>1. Val(p) \notin dead /\ reg'[p] = reg[p] /\ reg[p] \in Regs /\ own[reg[p]] = p
      BY <1>1, <2>2 DEF Places, PlaceTypes, OwnersInv
    <3> QED BY <1>1, <3>1
  <2>3. ASSUME NEW w \in WrapperSet, cur_reg'[w] # NoReg PROVE own'[cur_reg'[w]] = w
    <3>1. cur_reg[w] \in Regs /\ own[cur_reg[w]] = w /\ w \notin Parts
      BY <1>3, <2>3, NotAPart DEF Places, PlaceTypes, OwnersInv
    <3> QED BY <1>1, <3>1
  <2> QED BY <1>3, <2>1, <2>2, <2>3 DEF OwnersInv
<1>9. SlotsInv'
  <2>1. ASSUME NEW p \in Parts, live'[Val(p)], ~dirty'[p] PROVE slot'[Val(p)] # NoSlot
    <3>1. Val(p) \in Vals /\ Val(p) \notin dead /\ live[Val(p)]
      BY <1>1, <1>4, <2>1
    <3> QED BY <1>1, <2>1, <3>1 DEF Places, SlotsInv
  <2>2. \A w \in WrapperSet : Displaced(w)' => Displaced(w) /\ backup[w] \in Parts /\ Val(backup[w]) \notin dead
    <3> SUFFICES ASSUME NEW w \in WrapperSet, Displaced(w)'
                 PROVE  Displaced(w) /\ backup[w] \in Parts /\ Val(backup[w]) \notin dead
      OBVIOUS
    <3>1. backup[w] # None /\ live'[Val(backup[w])]
      BY DEF Displaced, Val
    <3>2. backup[w] \in Parts
      BY <3>1 DEF Places, PlaceTypes
    <3> QED BY <1>1, <1>4, <3>1, <3>2 DEF Displaced
  <2>3. ASSUME NEW w \in WrapperSet, Displaced(w)'
        PROVE  /\ ~dirty'[backup'[w]] /\ reg'[backup'[w]] = NoReg
               /\ \A x \in WrapperSet : Displaced(x)' /\ backup'[x] = backup'[w] => x = w
    <3>1. /\ ~dirty[backup[w]] /\ reg[backup[w]] = NoReg /\ backup[w] \in Parts
          /\ Val(backup[w]) \notin dead /\ Displaced(w)
      BY <2>2, <2>3 DEF Places, SlotsInv
    <3>2. \A x \in WrapperSet : Displaced(x)' /\ backup[x] = backup[w] => x = w
      BY <2>2, <3>1 DEF Places, SlotsInv
    <3> QED BY <1>1, <3>1, <3>2
  <2> QED BY <1>3, <2>1, <2>3 DEF SlotsInv
<1>10. EdgeInv'
  <2>1. CASE back
    BY <1>1, <1>2, <1>5, <2>1 DEF Places, EdgeInv
  <2>2. CASE ~back
    <3>1. ASSUME NEW r \in Regs, own'[r] \in Parts, Val(own'[r]) \in Nodes PROVE fixed'[Val(own'[r])]
      BY <1>1, <1>5, <1>7, <2>2, <3>1 DEF Places, EdgeInv
    <3> QED BY <1>3, <2>2, <3>1 DEF Places, EdgeInv
  <2> QED BY <2>1, <2>2
<1>11. SlotLists'
  BY <1>1, <1>2 DEF SlotLists, Places, PlaceTypes
<1> QED BY <1>6, <1>8, <1>9, <1>10, <1>11 DEF Places
\* BeginMove: a phi without a place becomes live, maybe with a fixed register.
LEMMA BeginMovePlaces ==
    ASSUME Places, ListInv, UnplacedInv, BeginMove
    PROVE  Places'
<1> DEFINE n == Head(ready)
<1>1. /\ pc = "next" /\ ready # <<>> /\ live' = [live EXCEPT ![n] = TRUE]
      /\ UNCHANGED <<inc, back, num_parts, dirty, slot, cur_reg, backup, was_modified>>
  BY DEF BeginMove, edge, wraps
<1>2. n \in Nodes /\ n \in Left
  BY <1>1, NextReady DEF Left
<1>3. num_parts \in 1 .. 3 /\ Parts' = Parts /\ Idx' = Idx
  BY <1>1 DEF Parts, Idx, Places, PlaceTypes
<1>4. /\ n \in Vals /\ <<n, 0>> \in Parts /\ 0 \in Idx /\ Nodes \subseteq Vals
      /\ \A p \in Parts : Val(p) \in Vals /\ p[2] \in Idx /\ p = <<Val(p), p[2]>>
      /\ Free \notin Parts /\ None \notin Parts /\ NoReg \notin Regs
  BY <1>2, <1>3, NotAPart DEF Parts
<1>5. ~live[n] => ~back
  BY <1>2 DEF Places, EdgeInv
<1>6. ~live[n] => \A p \in Parts : Val(p) = n => dirty[p]
  <2> SUFFICES ASSUME ~live[n], NEW p \in Parts, Val(p) = n PROVE dirty[p]
    OBVIOUS
  <2>1. \A i \in Idx : dirty[<<n, i>>]
    BY <1>1, <1>2, <1>5 DEF UnplacedInv
  <2> QED BY <1>4, <2>1
<1>7. ~live[n] => \A x \in WrapperSet : backup[x] # None => Val(backup[x]) # n
  BY <1>2, <1>5 DEF Places, EdgeInv
<1> HIDE DEF n
<1>8. \A x \in WrapperSet : Displaced(x)' => Displaced(x) /\ backup[x] \in Parts
                                             /\ (~live[n] => Val(backup[x]) # n)
  <2> SUFFICES ASSUME NEW x \in WrapperSet, Displaced(x)'
               PROVE  Displaced(x) /\ backup[x] \in Parts /\ (~live[n] => Val(backup[x]) # n)
    OBVIOUS
  <2>1. backup[x] # None /\ live'[Val(backup[x])] /\ backup[x] \in Parts
    BY <1>1 DEF Displaced, Places, PlaceTypes, Val
  <2>2. Val(backup[x]) \in Vals /\ live \in [Vals -> BOOLEAN]
    BY <1>4, <2>1 DEF Places, PlaceTypes
  <2> QED BY <1>1, <1>7, <2>1, <2>2 DEF Displaced
<1>9. live' \in [Vals -> BOOLEAN] /\ \A v \in Vals : live[v] => live'[v]
  BY <1>1 DEF Places, PlaceTypes
<1>10. \A p \in Parts : live'[Val(p)] /\ ~dirty[p] => live[Val(p)]
  BY <1>1, <1>4, <1>6 DEF Places, PlaceTypes
<1>11. CASE UNCHANGED <<fixed, reg, own>>
  <2>1. PlaceTypes'
    BY <1>1, <1>3, <1>9, <1>11 DEF Places, PlaceTypes
  <2>2. OwnersInv'
    BY <1>1, <1>3, <1>4, <1>9, <1>11 DEF Places, OwnersInv
  <2>3. SlotsInv'
    BY <1>1, <1>3, <1>8, <1>10, <1>11 DEF Places, SlotsInv
  <2>4. EdgeInv'
    BY <1>1, <1>3, <1>4, <1>9, <1>11 DEF Places, EdgeInv
  <2> QED BY <2>1, <2>2, <2>3, <2>4 DEF Places
<1>12. ASSUME ~live[n], NEW r \in Regs, own[r] = Free, own' = [own EXCEPT ![r] = <<n, 0>>],
              reg' = [reg EXCEPT ![<<n, 0>>] = r], fixed' = [fixed EXCEPT ![n] = TRUE]
       PROVE  Places'
  <2> DEFINE p == <<n, 0>>
  <2>1. p \in Parts /\ Val(p) = n
    BY <1>4 DEF Val
  <2>2. ~back /\ (\A q \in Regs : own[q] # p) /\ (\A k \in Parts : reg[k] # r)
    <3>1. \A q \in Regs : own[q] # p
      BY <1>12, <2>1 DEF Places, OwnersInv
    <3>2. \A k \in Parts : reg[k] # r
      BY <1>4, <1>12 DEF Places, OwnersInv
    <3> QED BY <1>5, <1>12, <3>1, <3>2
  <2>3. own' = [own EXCEPT ![r] = p] /\ reg' = [reg EXCEPT ![p] = r]
    BY <1>12
  <2> HIDE DEF p
  <2>4. PlaceTypes'
    <3>1. reg' \in [Parts -> Regs \cup {NoReg}] /\ fixed' \in [Vals -> BOOLEAN]
      BY ZenonT(60), <1>12, <2>1, <2>3 DEF Places, PlaceTypes
    <3>2. own' \in [Regs -> Parts \cup WrapperSet \cup {Free, Held}]
      BY <2>1, <2>3 DEF Places, PlaceTypes
    <3> QED BY <1>1, <1>3, <1>9, <3>1, <3>2 DEF Places, PlaceTypes
  <2>5. OwnersInv'
    <3>1. ASSUME NEW q \in Regs, own'[q] \in Parts PROVE live'[Val(own'[q])] /\ reg'[own'[q]] = q
      <4>1. CASE q = r
        BY <1>1, <1>4, <2>1, <2>3, <4>1 DEF Places, PlaceTypes
      <4>2. CASE q # r
        <5>1. own'[q] = own[q] /\ own[q] # p /\ live[Val(own[q])] /\ reg[own[q]] = q
          BY <2>2, <2>3, <3>1, <4>2 DEF Places, PlaceTypes, OwnersInv
        <5> QED BY <1>4, <1>9, <2>3, <3>1, <5>1 DEF Places, PlaceTypes
      <4> QED BY <4>1, <4>2
    <3>2. ASSUME NEW k \in Parts, reg'[k] # NoReg PROVE own'[reg'[k]] = k
      BY <1>12, <2>1, <2>2, <2>3, <3>2 DEF Places, PlaceTypes, OwnersInv
    <3>3. ASSUME NEW w \in WrapperSet, cur_reg[w] # NoReg PROVE own'[cur_reg[w]] = w
      <4>1. Free \notin WrapperSet
        BY PhiAssumption
      <4> QED BY <1>12, <2>3, <3>3, <4>1 DEF Places, PlaceTypes, OwnersInv
    <3> QED BY <1>1, <1>3, <3>1, <3>2, <3>3 DEF OwnersInv
  <2>6. SlotsInv'
    <3>1. ASSUME NEW w \in WrapperSet, Displaced(w)'
          PROVE  /\ ~dirty[backup[w]] /\ reg'[backup[w]] = NoReg
                 /\ \A x \in WrapperSet : Displaced(x)' /\ backup[x] = backup[w] => x = w
      <4>1. Displaced(w) /\ backup[w] \in Parts /\ backup[w] # p
        BY <1>8, <1>12, <2>1, <3>1
      <4>2. ~dirty[backup[w]] /\ reg[backup[w]] = NoReg
        BY <4>1 DEF Places, SlotsInv
      <4>3. \A x \in WrapperSet : Displaced(x)' /\ backup[x] = backup[w] => x = w
        BY <1>8, <4>1 DEF Places, SlotsInv
      <4> QED BY <2>1, <2>3, <4>1, <4>2, <4>3 DEF Places, PlaceTypes
    <3> QED BY <1>1, <1>3, <1>10, <3>1 DEF Places, SlotsInv
  <2>7. EdgeInv'
    <3>1. ASSUME NEW q \in Regs, own'[q] \in Parts, Val(own'[q]) \in Nodes PROVE fixed'[Val(own'[q])]
      BY <1>4, <1>12, <2>1, <2>2, <2>3, <3>1 DEF Places, PlaceTypes, EdgeInv
    <3> QED BY <1>1, <1>3, <2>2, <3>1 DEF Places, EdgeInv
  <2> QED BY <2>4, <2>5, <2>6, <2>7 DEF Places
<1> QED BY <1>11, <1>12 DEF BeginMove, n
\* MovePart: a part of the phi is written to its fixed register or its slot.
LEMMA MovePartPlaces ==
    ASSUME Places, SlotLists, ListInv, StageInv, MovePart
    PROVE  Places' /\ SlotLists' /\ \A p \in Parts : Val(p) # Head(ready) => dirty'[p] = dirty[p]
<1> DEFINE n == Head(ready)
<1>1. /\ pc = "move" /\ UNCHANGED <<inc, back, num_parts, live, fixed, reg, own, cur_reg, backup, was_modified>>
  BY DEF MovePart, edge, wraps
<1>2. n \in Nodes /\ n \in Vals
  BY <1>1, NextReady, NoneIsNoValue DEF StageInv
<1>3. num_parts \in 1 .. 3 /\ Parts' = Parts /\ Idx' = Idx
  BY <1>1 DEF Parts, Idx, Places, PlaceTypes
<1>4. /\ Nodes \subseteq Vals /\ NoSlot \notin Slots
      /\ \A p \in Parts : Val(p) \in Vals /\ p[2] \in Idx /\ p = <<Val(p), p[2]>>
  BY <1>3, NotAPart
<1>5. CASE fixed[n]
  <2>1. UNCHANGED <<slot, stack, dirty>>
    BY <1>5 DEF MovePart
  <2>2. Places'
    BY <1>1, <1>3, <2>1 DEF Places, PlaceTypes, OwnersInv, SlotsInv, Displaced, EdgeInv
  <2> QED BY <2>1, <2>2 DEF SlotLists, stack
<1>6. CASE ~fixed[n]
  <2>1. dirty' = [dirty EXCEPT ![<<n, part>>] = FALSE]
    BY <1>6 DEF MovePart, SetStackValid
  <2>2. /\ slot' \in [Vals -> Slots \cup {NoSlot}] /\ slot'[n] # NoSlot
        /\ \A v \in Vals : slot[v] # NoSlot => slot'[v] # NoSlot
        /\ SlotLists'
    <3>1. CASE slot[n] = NoSlot
      <4>1. PICK s \in Slots : NewSlot(s) /\ slot' = [slot EXCEPT ![n] = s]
        BY <1>6, <3>1 DEF MovePart
      <4> HIDE DEF n
      <4> QED BY <1>2, <1>4, <4>1 DEF NewSlot, SlotLists, Places, PlaceTypes
    <3>2. CASE slot[n] # NoSlot
      BY <1>6, <3>2 DEF MovePart, SlotLists, stack, Places, PlaceTypes
    <3> QED BY <3>1, <3>2
  <2> HIDE DEF n
  <2>3. \A p \in Parts : /\ ~dirty[p] => ~dirty'[p]
                         /\ Val(p) # n => dirty'[p] = dirty[p]
    <3>1. Val(<<n, part>>) = n
      BY DEF Val
    <3>2. dirty \in [Parts -> BOOLEAN]
      BY DEF Places, PlaceTypes
    <3> QED BY <2>1, <3>1, <3>2
  <2>4. PlaceTypes'
    BY <1>1, <1>3, <2>1, <2>2 DEF Places, PlaceTypes
  <2>5. OwnersInv'
    BY <1>1, <1>3 DEF Places, OwnersInv
  <2>6. SlotsInv'
    <3>1. ASSUME NEW p \in Parts, live[Val(p)], ~dirty'[p] PROVE slot'[Val(p)] # NoSlot
      BY <1>4, <2>2, <2>3, <3>1 DEF Places, SlotsInv
    <3>2. \A w \in WrapperSet : backup[w] # None => backup[w] \in Parts
      BY DEF Places, PlaceTypes
    <3> QED BY <1>1, <1>3, <2>3, <3>1, <3>2 DEF Places, SlotsInv, Displaced
  <2>7. EdgeInv'
    BY <1>1, <1>3, <1>4, <2>2 DEF Places, EdgeInv
  <2> QED BY <2>2, <2>3, <2>4, <2>5, <2>6, <2>7 DEF Places, n
<1> QED BY <1>5, <1>6
\* Steps that touch none of it.
LEMMA PlacesFrame ==
    ASSUME Places, UNCHANGED <<inc, back, num_parts, live, fixed, reg, dirty, slot, own,
                               cur_reg, backup, was_modified>>
    PROVE  Places'
<1>1. Parts' = Parts
  BY DEF Parts, Idx
<1>2. \A w \in WrapperSet : Displaced(w)' <=> Displaced(w)
  BY DEF Displaced, Val
<1>3. PlaceTypes' /\ EdgeInv'
  BY <1>1 DEF Places, PlaceTypes, EdgeInv
<1>4. OwnersInv' /\ SlotsInv'
  BY <1>1, <1>2 DEF Places, OwnersInv, SlotsInv
<1> QED BY <1>3, <1>4 DEF Places

\* A step that needs a register wants it for a wrapper.
LEMMA WantedWrapper == ASSUME NEW x \in Wanted PROVE x[1] \in WrapperSet
<1> DEFINE b == PartBank[part]
<1>1. part # num_parts
  BY DEF Wanted
<1>2. \/ x = <<"scratch", b>>
      \/ x = <<IF part = 0 THEN "tmp_reg1" ELSE "tmp_reg2", b>>
      \/ x = <<"tmp_reg1", b>>
  BY <1>1 DEF Wanted
<1> QED BY <1>2 DEF WrapperSet

\* The destructors run for wrappers.
LEMMA FinishWrapper ==
    ASSUME Finish
    PROVE  \/ pc' = "done" /\ UNCHANGED <<values, stack, code, wraps>>
           \/ pc' = pc /\ \E w \in WrapperSet : reset(w)
<1> DEFINE S == {k \in 1 .. 3 : cur_reg[Wrappers[k]] # NoReg}
<1>1. CASE \A w \in WrapperSet : cur_reg[w] = NoReg
  BY <1>1 DEF Finish
<1>2. CASE ~ \A w \in WrapperSet : cur_reg[w] = NoReg
  <2>1. \A w \in WrapperSet : \E k \in 1 .. 3 : Wrappers[k] = w
    BY DEF WrapperSet, Wrappers
  <2>2. S # {}
    BY <1>2, <2>1
  <2>3. S \in SUBSET Nat /\ IsFiniteSet(S)
    <3>1. IsFiniteSet(1 .. 3)
      BY FS_Interval, 1 \in Int, 3 \in Int
    <3> QED BY <3>1, FS_Subset
  <2>4. Lowest(S) \in S
    BY <2>2, <2>3, LowestIn
  <2>5. \A k \in 1 .. 3 : Wrappers[k] \in WrapperSet
    BY DEF Wrappers, WrapperSet
  <2>6. Wrappers[Lowest(S)] \in WrapperSet
    BY <2>4, <2>5
  <2>7. reset(Wrappers[Lowest(S)]) /\ pc' = pc
    BY <1>2 DEF Finish
  <2> QED BY <2>6, <2>7
<1> QED BY <1>1, <1>2
\* Every step keeps the places and the slots right.
LEMMA PlacesStep ==
    ASSUME PhiInv, PlaceInv, [Next]_vars
    PROVE  Places' /\ StackInv' /\ part' \in Nat
<1> USE DEF PlaceInv
<1>1. SlotLists /\ Places /\ ListInv /\ StageInv /\ UnplacedInv /\ part \in Nat
  BY DEF SlotLists, StackInv, PhiInv
<1>2. CASE Collect \/ SavePart \/ RestorePart \/ BeginRestore \/ Done \/ UNCHANGED vars
  <2>1. /\ UNCHANGED <<inc, back, num_parts, live, fixed, reg, dirty, slot, own,
                       cur_reg, backup, was_modified, free_list, fresh, tmp_slot>>
        /\ part' \in {part, part + 1} /\ (pc' = pc \/ pc' # "free_tmp")
    BY <1>2 DEF Collect, SavePart, RestorePart, BeginRestore, Done, vars, edge, values, wraps, stack, temps
  <2> QED BY <1>1, <2>1, PlacesFrame DEF StackInv
<1>3. CASE Prepare
  <2>1. PICK x \in Wanted : reset(x[1]) \/ alloc_from_bank(x[1], x[2])
    BY <1>3 DEF Prepare
  <2>2. x[1] \in WrapperSet
    BY WantedWrapper
  <2>3. UNCHANGED <<inc, back, num_parts, tmp_slot, pc, part>>
    BY <1>3 DEF Prepare, edge, temps, ctrl
  <2>4. CASE reset(x[1])
    <3>1. UNCHANGED stack
      BY <2>4 DEF reset
    <3> QED BY <1>1, <2>2, <2>3, <2>4, <3>1, ResetPlaces DEF StackInv, stack
  <2>5. CASE alloc_from_bank(x[1], x[2])
    BY <1>1, <2>2, <2>3, <2>5, AllocPlaces DEF StackInv, SlotLists
  <2> QED BY <2>1, <2>4, <2>5
<1>4. CASE Break
  <2>1. UNCHANGED <<inc, back, num_parts, live, fixed, reg, dirty, slot, own,
                    cur_reg, backup, was_modified>> /\ pc' = "save" /\ part' = 0
    BY <1>4 DEF Break, edge, values, wraps
  <2>2. SlotLists' /\ tmp_slot' \in Slots \cup {NoSlot}
    BY <1>4 DEF Break, NewSlot, stack, StackInv, SlotLists
  <2> QED BY <1>1, <2>1, <2>2, PlacesFrame DEF StackInv, SlotLists
<1>5. CASE SaveEnd \/ KeepPhi \/ RestoreEnd \/ MoveEnd
  <2>1. \E use : Release(use)
    BY <1>5 DEF SaveEnd, KeepPhi, RestoreEnd, MoveEnd
  <2>2. UNCHANGED <<inc, back, num_parts, cur_reg, backup, was_modified, tmp_slot>>
    BY <1>5 DEF SaveEnd, KeepPhi, RestoreEnd, MoveEnd, edge, wraps, temps
  <2>3. Places' /\ SlotLists'
    BY <1>1, <2>1, <2>2, ReleasePlaces
  <2>4. part' \in {0, part} /\ (pc' = "free_tmp" => tmp_slot # NoSlot)
    BY <1>5 DEF SaveEnd, KeepPhi, RestoreEnd, MoveEnd, ctrl
  <2> QED BY <1>1, <2>2, <2>3, <2>4 DEF StackInv, SlotLists
<1>6. CASE BeginMove
  <2>1. UNCHANGED <<free_list, fresh, tmp_slot>> /\ pc' = "move" /\ part' = 0
    BY <1>6 DEF BeginMove, stack, temps
  <2> QED BY <1>1, <1>6, <2>1, BeginMovePlaces DEF StackInv
<1>7. CASE MovePart
  <2>1. UNCHANGED tmp_slot /\ pc' = "move" /\ part' = part + 1
    BY <1>7 DEF MovePart, temps
  <2> QED BY <1>1, <1>7, <2>1, MovePartPlaces DEF StackInv, SlotLists
<1>8. CASE FreeTmp
  <2>1. UNCHANGED <<inc, back, num_parts, live, fixed, reg, dirty, slot, own,
                    cur_reg, backup, was_modified>>
        /\ fresh' = fresh /\ free_list' = free_list \cup {tmp_slot} /\ tmp_slot' = NoSlot
        /\ pc = "free_tmp" /\ pc' = "next" /\ part' = part
    BY <1>8 DEF FreeTmp, edge, values, wraps
  <2>2. tmp_slot \in Slots
    BY <2>1 DEF StackInv
  <2> QED BY <1>1, <2>1, <2>2, PlacesFrame DEF StackInv
<1>9. CASE Finish
  <2>1. UNCHANGED <<inc, back, num_parts, tmp_slot, part>> /\ pc = "next"
    BY <1>9 DEF Finish, edge, temps
  <2>2. CASE pc' = "done" /\ UNCHANGED <<values, stack, code, wraps>>
    <3>1. UNCHANGED <<live, fixed, reg, dirty, slot, own, cur_reg, backup, was_modified, free_list, fresh>>
      BY <2>2 DEF values, wraps, stack
    <3> QED BY <1>1, <2>1, <2>2, <3>1, PlacesFrame DEF StackInv
  <2>3. ASSUME pc' = pc, NEW w \in WrapperSet, reset(w) PROVE Places' /\ StackInv' /\ part' \in Nat
    <3>1. UNCHANGED stack
      BY <2>3 DEF reset
    <3> QED BY <1>1, <2>1, <2>3, <3>1, ResetPlaces DEF StackInv, stack
  <2> QED BY <1>9, <2>2, <2>3, FinishWrapper
<1> QED BY <1>2, <1>3, <1>4, <1>5, <1>6, <1>7, <1>8, <1>9 DEF Next
----------------------------------------------------------------------------
(***************************************************************************)
(* A forward edge: no phi is read on it, so nothing is saved or restored,  *)
(* and the wrappers leave the phis alone.                                  *)
(***************************************************************************)
\* The wrappers do not change where the phis are.
LEMMA PhisAlone ==
    ASSUME Places, ~back, NEW w \in WrapperSet, NEW b, reset(w) \/ alloc_from_bank(w, b)
    PROVE  \A p \in Parts : Val(p) \in Nodes => dirty'[p] = dirty[p]
<1> SUFFICES ASSUME NEW p \in Parts, Val(p) \in Nodes PROVE dirty'[p] = dirty[p]
  OBVIOUS
<1>1. dirty \in [Parts -> BOOLEAN]
  BY DEF Places, PlaceTypes
<1>2. CASE reset(w)
  <2>1. \/ dirty' = dirty
        \/ backup[w] # None /\ dirty' = [dirty EXCEPT ![backup[w]] = was_modified[w]]
    BY <1>2 DEF reset, RestoredDirty
  <2>2. backup[w] # None => backup[w] # p
    BY DEF Places, EdgeInv
  <2> QED BY <1>1, <2>1, <2>2
<1>3. CASE alloc_from_bank(w, b)
  <2> DEFINE r == Lowest(IF FreeIn(b) # {} THEN FreeIn(b) ELSE Takeable(b))
  <2>1. FreeIn(b) # {} => dirty' = dirty
    BY <1>3 DEF alloc_from_bank
  <2>2. FreeIn(b) = {} => dirty' = [dirty EXCEPT ![own[r]] = FALSE]
    BY <1>3 DEF alloc_from_bank, Backup, SetStackValid
  <2>3. r \in Regs /\ (FreeIn(b) = {} => own[r] \in Parts /\ ~fixed[Val(own[r])])
    BY <1>3, AllocReg
  <2> HIDE DEF r
  <2>4. FreeIn(b) = {} => own[r] # p
    BY <2>3 DEF Places, EdgeInv
  <2> QED BY <1>1, <2>1, <2>2, <2>4
<1> QED BY <1>2, <1>3

\* There are no cycles and no phis that keep their value.
LEMMA ForwardSteps ==
    ASSUME PhiInv, EdgeInv, ~back, [Next]_vars
    PROVE  \/ Collect \/ Prepare \/ Break \/ FreeTmp \/ BeginMove \/ MovePart \/ MoveEnd
           \/ Finish \/ UNCHANGED vars
<1>1. \A m \in Nodes : inc[m] \notin Nodes /\ inc[m] \in Vals \cup Consts
  BY DEF EdgeInv, PhiInv, ListInv
<1>2. pc # "save"
  <2>1. pc = "save" => \E m \in Left : inc[m] = tmp /\ tmp \in Nodes
    BY DEF PhiInv, StageInv, OneReader, Readers_left
  <2>2. Left \in SUBSET Nodes
    BY LeftNodes DEF PhiInv
  <2> QED BY <1>1, <2>1, <2>2
<1>3. ready # <<>> => Head(ready) \in Nodes /\ inc[Head(ready)] # Head(ready) /\ inc[Head(ready)] # tmp
  <2> SUFFICES ASSUME ready # <<>>
               PROVE  Head(ready) \in Nodes /\ inc[Head(ready)] # Head(ready) /\ inc[Head(ready)] # tmp
    OBVIOUS
  <2>1. Head(ready) \in Nodes
    BY NextReady DEF PhiInv
  <2>2. tmp \in Nodes \cup {None} /\ None \notin Vals \cup Consts
    BY NoneIsNoValue DEF PhiInv, ListInv
  <2> QED BY <1>1, <2>1, <2>2
<1>4. pc # "restore"
  BY <1>3 DEF PhiInv, StageInv
<1> QED BY <1>2, <1>3, <1>4 DEF Next, SavePart, SaveEnd, KeepPhi, BeginRestore, RestorePart, RestoreEnd, Done

\* A phi gets a slot only when its node is moved.
LEMMA UnplacedStep ==
    ASSUME PhiInv, PhiInv', PlaceInv, [Next]_vars
    PROVE  UnplacedInv'
<1> SUFFICES ASSUME ~back', NEW n \in Left', ~(pc' = "move" /\ n = Head(ready'))
             PROVE  \A i \in Idx' : dirty'[<<n, i>>]
  BY DEF UnplacedInv
<1>1. UNCHANGED <<inc, back, num_parts>>
  BY DEF Next, edge, vars, Collect, Prepare, Break, SavePart, SaveEnd, KeepPhi, BeginRestore, RestorePart,
         RestoreEnd, FreeTmp, BeginMove, MovePart, MoveEnd, Finish, Done
<1>2. /\ ~back /\ Idx' = Idx /\ Places /\ SlotLists /\ ListInv /\ StageInv /\ num_parts \in 1 .. 3
      /\ n \in Nodes
  <2>1. n \in Nodes
    BY LeftNodes DEF PhiInv, ListInv, Left, InReady
  <2> QED BY <1>1, <2>1 DEF Idx, PlaceInv, Places, PlaceTypes, SlotLists, StackInv, PhiInv
<1>3. \A i \in Idx : <<n, i>> \in Parts /\ Val(<<n, i>>) = n
  BY <1>2, NotAPart DEF Parts, Val
<1>4. ASSUME n \in Left, ~(pc = "move" /\ n = Head(ready)) PROVE \A i \in Idx : dirty[<<n, i>>]
  BY <1>2, <1>4 DEF PlaceInv, UnplacedInv
<1>5. CASE Collect
  <2>1. Left = Nodes /\ pc # "move" /\ dirty' = dirty
    BY <1>5 DEF Collect, values, Left
  <2> QED BY <1>2, <1>4, <2>1
<1>6. CASE Prepare
  <2>1. PICK x \in Wanted : reset(x[1]) \/ alloc_from_bank(x[1], x[2])
    BY <1>6 DEF Prepare
  <2>2. x[1] \in WrapperSet
    BY WantedWrapper
  <2>3. Left' = Left /\ pc' = pc /\ ready' = ready
    BY <1>6 DEF Prepare, lists, ctrl, Left, InReady
  <2>4. \A i \in Idx : dirty'[<<n, i>>] = dirty[<<n, i>>]
    BY <1>2, <1>3, <2>1, <2>2, PhisAlone
  <2> QED BY <1>2, <1>4, <2>3, <2>4
<1>7. CASE Break \/ FreeTmp \/ BeginMove
  <2>1. /\ dirty' = dirty /\ waiting' = waiting /\ ready' = ready
        /\ pc \in {"next", "free_tmp"} /\ pc' \in {"save", "next", "move"}
    BY <1>7 DEF Break, FreeTmp, BeginMove, values, lists
  <2>2. Left' = Left
    BY <2>1 DEF Left, InReady
  <2> QED BY <1>2, <1>4, <2>1, <2>2
<1>8. CASE MovePart
  <2>1. Left' = Left /\ ready' = ready /\ pc = "move" /\ pc' = "move"
    BY <1>8 DEF MovePart, lists, Left, InReady
  <2>2. \A i \in Idx : dirty'[<<n, i>>] = dirty[<<n, i>>]
    BY <1>2, <1>3, <1>8, <2>1, MovePartPlaces
  <2> QED BY <1>2, <1>4, <2>1, <2>2
<1>9. CASE MoveEnd
  <2>1. pc = "move" /\ ready # <<>> /\ pc' = "next" /\ waiting' = waiting \ {} /\ ready' = Tail(ready)
        /\ handled' = handled + 1 /\ inc' = inc /\ tmp' = tmp
    <3>1. pc = "move" /\ ready # <<>> /\ Head(ready) \in Nodes
      BY <1>9, NextReady DEF MoveEnd, PhiInv, StageInv
    <3>2. ~ReadyAfter(Head(ready))
      BY <1>2, <3>1 DEF ReadyAfter, Places, EdgeInv
    <3> QED BY <1>9, <3>1, <3>2 DEF MoveEnd, edge, temps
  <2>2. Left' = Left \ {Head(ready)}
    <3>1. ref_count' \in [Nodes -> Nat] /\ waiting' = {v \in Nodes : ref_count'[v] > 0}
          /\ pc' \in Pcs \ {"collect"} /\ tmp' \in Nodes \cup {None} /\ pc # "collect"
      BY <2>1 DEF PhiInv, ListInv, Pcs
    <3>2. PICK X \in SUBSET waiting : X = {}
      OBVIOUS
    <3>3. waiting' = waiting \ X
      BY <2>1, <3>2
    <3> QED BY <1>2, <2>1, <3>1, <3>2, <3>3, NodeHandled
  <2>3. dirty' = dirty
    BY <1>9 DEF MoveEnd, Release
  <2> QED BY <1>2, <1>4, <2>2, <2>3
<1>10. CASE Finish
  <2>1. Left' = Left /\ pc = "next"
    BY <1>10 DEF Finish, lists, Left, InReady
  <2>2. \A i \in Idx : dirty'[<<n, i>>] = dirty[<<n, i>>]
    <3>1. CASE UNCHANGED values
      BY <3>1 DEF values
    <3>2. CASE \E w \in WrapperSet : reset(w)
      BY <1>2, <1>3, <3>2, PhisAlone
    <3> QED BY <1>10, <3>1, <3>2, FinishWrapper
  <2> QED BY <1>2, <1>4, <2>1, <2>2
<1>11. CASE UNCHANGED vars
  BY <1>2, <1>4, <1>11 DEF vars, Left, InReady
<1> QED BY <1>2, <1>5, <1>6, <1>7, <1>8, <1>9, <1>10, <1>11, ForwardSteps DEF Places
----------------------------------------------------------------------------
(***************************************************************************)
(* The invariant.                                                          *)
(***************************************************************************)
\* Before the edge no wrapper has a register, and a value is in the register
\* that it owns and in its slot.
LEMMA PlacesInit == Init => PlaceInv
<1> SUFFICES ASSUME Init PROVE PlaceInv
  OBVIOUS
<1>1. back \in BOOLEAN /\ num_parts \in 1 .. 3
  BY PhiAssumption DEF Init
<1>2. /\ Nodes \subseteq Vals /\ Vals \subseteq Slots /\ NoSlot \notin Slots /\ 0 \in Idx
      /\ Free \notin Parts /\ NoReg \notin Regs
      /\ \A p \in Parts : Val(p) \in Vals /\ p[2] \in Idx /\ p = <<Val(p), p[2]>>
  BY <1>1, NotAPart
<1>3. \A n \in Nodes : n \notin Others /\ n \notin Consts
  BY PhiAssumption DEF Nodes, Others, Consts
<1>4. /\ live = [v \in Vals |-> v \in Others \/ back]
      /\ own \in [Regs -> Parts \cup {Free, Held}]
      /\ \A r \in Regs : own[r] \in Parts =>
            live[Val(own[r])] /\ \A q \in Regs : own[q] = own[r] => q = r
      /\ reg = [p \in Parts |-> IF \E r \in Regs : own[r] = p
                                THEN CHOOSE r \in Regs : own[r] = p ELSE NoReg]
      /\ slot = [v \in Vals |-> IF \E i \in Idx : ~dirty[<<v, i>>] THEN v ELSE NoSlot]
      /\ fresh = {s \in Slots : \A v \in Vals : slot[v] # s} /\ free_list = {}
      /\ cur_reg = [w \in WrapperSet |-> NoReg] /\ backup = [w \in WrapperSet |-> None]
      /\ was_modified = [w \in WrapperSet |-> FALSE]
      /\ tmp_slot = NoSlot /\ pc = "collect" /\ part = 0
  BY DEF Init
<1>5. fixed \in [Vals -> BOOLEAN]
  <2>1. \E F \in SUBSET {v \in Vals : num_parts = 1 /\ reg[<<v, 0>>] # NoReg} :
           /\ Cardinality(F) <= MaxFixed
           /\ fixed = [v \in Vals |-> v \in F]
    BY Zenon DEF Init
  <2>2. PICK F : fixed = [v \in Vals |-> v \in F]
    BY <2>1
  <2> QED BY <2>2
<1>6. PICK D : /\ D \subseteq {p \in Parts : Val(p) \in Others /\ reg[p] # NoReg}
               /\ dirty = [p \in Parts |-> p \in D \/ fixed[Val(p)] \/ ~live[Val(p)]]
  <2>1. \E D \in SUBSET {p \in Parts : Val(p) \in Others /\ reg[p] # NoReg} :
           dirty = [p \in Parts |-> p \in D \/ fixed[Val(p)] \/ ~live[Val(p)]]
    BY Zenon DEF Init
  <2> QED BY <2>1
<1>7. dirty \in [Parts -> BOOLEAN] /\ live \in [Vals -> BOOLEAN]
  BY <1>4, <1>6
<1>8. \A p \in Parts : IF \E r \in Regs : own[r] = p THEN reg[p] \in Regs /\ own[reg[p]] = p
                       ELSE reg[p] = NoReg
  BY <1>4
<1>9. PlaceTypes
  <2>1. slot \in [Vals -> Slots \cup {NoSlot}]
    BY <1>2, <1>4
  <2>2. reg \in [Parts -> Regs \cup {NoReg}]
    BY <1>4, <1>8
  <2> QED BY <1>1, <1>4, <1>5, <1>7, <2>1, <2>2 DEF PlaceTypes
<1>10. OwnersInv
  <2>1. ASSUME NEW r \in Regs, own[r] \in Parts PROVE live[Val(own[r])] /\ reg[own[r]] = r
    BY <1>4, <1>8, <2>1
  <2>2. \A p \in Parts : reg[p] # NoReg => own[reg[p]] = p
    BY <1>8
  <2> QED BY <1>4, <2>1, <2>2 DEF OwnersInv
<1>11. SlotsInv
  <2>1. ASSUME NEW p \in Parts, ~dirty[p] PROVE slot[Val(p)] # NoSlot
    BY <1>2, <1>4, <2>1
  <2> QED BY <1>4, <2>1 DEF SlotsInv, Displaced
<1>12. EdgeInv
  <2>1. ASSUME ~back
        PROVE  /\ \A n \in Nodes : inc[n] \notin Nodes
               /\ \A r \in Regs : own[r] \in Parts => Val(own[r]) \notin Nodes
    <3>1. inc \in [Nodes -> Others \cup Consts]
      BY <2>1 DEF Init
    <3> QED BY <1>2, <1>3, <1>4, <2>1, <3>1
  <2>2. ASSUME back, NEW n \in Nodes PROVE live[n] /\ (fixed[n] \/ slot[n] # NoSlot)
    <3>1. <<n, 0>> \in Parts /\ Val(<<n, 0>>) = n /\ n \in Vals
      BY <1>2 DEF Parts, Val
    <3>2. ~fixed[n] => ~dirty[<<n, 0>>]
      BY <1>3, <1>4, <1>6, <2>2, <3>1
    <3> QED BY <1>2, <1>4, <2>2, <3>1, <3>2
  <2> QED BY <1>4, <2>1, <2>2 DEF EdgeInv
<1>13. StackInv
  BY <1>4 DEF StackInv
<1>14. UnplacedInv
  <2> SUFFICES ASSUME ~back, NEW n \in Nodes, NEW i \in Idx PROVE dirty[<<n, i>>]
    BY <1>4 DEF UnplacedInv, Left
  <2>1. <<n, i>> \in Parts /\ Val(<<n, i>>) = n /\ n \in Vals
    BY <1>2 DEF Parts, Val
  <2> QED BY <1>3, <1>4, <1>6, <2>1
<1> QED BY <1>4, <1>9, <1>10, <1>11, <1>12, <1>13, <1>14 DEF PlaceInv, Places

\* Values, registers, slots and wrappers agree about the places.
THEOREM PlaceInvAlways == ASSUME N <= WordBits PROVE Spec => []PlaceInv
<1>1. Init => PlaceInv
  BY PlacesInit
<1>2. PhiInv /\ PhiInv' /\ PlaceInv /\ [Next]_vars => PlaceInv'
  BY PlacesStep, UnplacedStep DEF PlaceInv
<1> QED BY <1>1, <1>2, PhiInvAlways, PTL DEF Spec

\* The asserts of the moves: each phi left in a cycle has one reader, reset
\* finds the value in its slot, and move_from_tmp_phi a place to write to.
THEOREM AssertsAlways == ASSUME N <= WordBits PROVE Spec => []Asserts
<1>1. PhiInv /\ PlaceInv => Asserts
  <2> SUFFICES ASSUME PhiInv, PlaceInv PROVE Asserts
    OBVIOUS
  <2>1. num_parts \in 1 .. 3
    BY DEF PlaceInv, Places, PlaceTypes
  <2>2. pc = "save" => tmp \in Nodes /\ ref_count[tmp] = 1
    BY DEF PhiInv, StageInv
  <2>3. ASSUME NEW w \in WrapperSet, Displaced(w)
        PROVE  ~dirty[backup[w]] /\ slot[Val(backup[w])] # NoSlot
    <3>1. backup[w] \in Parts /\ live[Val(backup[w])] /\ ~dirty[backup[w]]
      BY <2>3 DEF Displaced, PlaceInv, Places, PlaceTypes, SlotsInv
    <3> QED BY <3>1 DEF PlaceInv, Places, SlotsInv
  <2>4. ASSUME pc = "restore" PROVE fixed[Head(ready)] \/ slot[Head(ready)] # NoSlot
    <3>1. ready # <<>> /\ inc[Head(ready)] = tmp
      BY <2>4 DEF PhiInv, StageInv
    <3>2. Head(ready) \in Nodes
      BY <3>1, NextReady DEF PhiInv
    <3>3. tmp \in Nodes
      BY <3>1, <3>2, NoneIsNoValue DEF PhiInv, ListInv
    <3> QED BY <3>1, <3>2, <3>3 DEF PlaceInv, Places, EdgeInv
  <2> QED BY <2>2, <2>3, <2>4 DEF Asserts, Displaced
<1> QED BY <1>1, PhiInvAlways, PlaceInvAlways, PTL
====
