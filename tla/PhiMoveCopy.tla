----------------------------- MODULE PhiMoveCopy -----------------------------
(***************************************************************************)
(* The phi moves are a parallel copy, and leave no trace on the path       *)
(* around them.                                                            *)
(*                                                                         *)
(* A value that may still be read has its old content wherever the         *)
(* bookkeeping says it is (ContentInv), the phi that broke a cycle is in   *)
(* the temporary (SavedInv), and a phi that has been moved has its new     *)
(* content where the code behind the edge expects it (PlacedInv, HomeInv). *)
(* Readers come before the move, so no phi has to have both.               *)
(***************************************************************************)
EXTENDS PhiMovePlaces

\* A stack slot belongs to one value, to the temporary, or to nobody.
SlotOwners ==
    /\ \A u, v \in Vals : slot[u] # NoSlot /\ slot[u] = slot[v] => u = v
    /\ \A v \in Vals : slot[v] \notin free_list \cup fresh
    /\ tmp_slot \notin free_list \cup fresh
    /\ tmp_slot # NoSlot => \A v \in Vals : slot[v] # tmp_slot

\* A fixed value is always in its register; the phis of a loop are on the
\* stack otherwise, also while a wrapper has their register.
FixedInv ==
    /\ \A v \in Vals : fixed[v] => num_parts = 1 /\ reg[<<v, 0>>] # NoReg
    /\ back => \A n \in Nodes : ~fixed[n] =>
          /\ \A i \in Idx : ~dirty[<<n, i>>]
          /\ \A w \in WrapperSet : backup[w] # None /\ Val(backup[w]) = n => ~was_modified[w]

\* Values with references left are live, and a phi is when it gets its value.
LiveInv ==
    /\ \A v \in Vals : refs[v] > 0 /\ v \notin Nodes \cap Left => live[v]
    /\ pc = "move" => live[Head(ready)]

\* Parts are counted within a stage.
PartInv ==
    /\ part \in 0 .. num_parts
    /\ pc \in {"collect", "next", "free_tmp", "done"} => part = 0

\* A wrapper without register has nothing to give back.
BackupInv ==
    /\ \A w \in WrapperSet : cur_reg[w] = NoReg => backup[w] = None
    /\ pc = "done" => \A w \in WrapperSet : cur_reg[w] = NoReg

\* The values that were there before the edge are where they were, or a wrapper
\* knows where that was.
Before(v) == live[v] /\ (back \/ v \in Others)
AroundInv ==
    /\ \A p \in Parts : Before(Val(p)) /\ ~was.dirty[p] => was.slot[Val(p)] # NoSlot
    /\ \A v \in Vals : Before(v) /\ was.slot[v] # NoSlot => slot[v] = was.slot[v]
    /\ \A p \in Parts : Before(Val(p)) =>
          \/ reg[p] = was.reg[p] /\ dirty[p] = was.dirty[p] /\ \A w \in WrapperSet : backup[w] # p
          \/ \E w \in WrapperSet : /\ backup[w] = p /\ cur_reg[w] = was.reg[p]
                                   /\ was_modified[w] = was.dirty[p]

\* The values that may still be read where they are, and their contents.
Moving == IF pc \in {"move", "restore"} THEN {Head(ready)} ELSE {}
Readable(v) == v \in Others \/ (back /\ v \in Left /\ v \notin Moving)

CodeTypes ==
    /\ DOMAIN rc = Regs /\ DOMAIN mem = Slots
    /\ \A s \in Slots : DOMAIN mem[s] = Idx

Right(v, i) ==
    /\ reg[<<v, i>>] # NoReg => rc[reg[<<v, i>>]] = <<v, i>>
    /\ ~dirty[<<v, i>>] => mem[slot[v]][i] = <<v, i>>
    /\ reg[<<v, i>>] # NoReg \/ ~dirty[<<v, i>>]
ContentInv == \A v \in Vals, i \in Idx : live[v] /\ Readable(v) => Right(v, i)

\* The parts of the phi in the temporary.
TmpReg(i) == IF i = 0 THEN "tmp_reg1" ELSE "tmp_reg2"
SavedInv ==
    /\ pc = "free_tmp" => tmp \notin Nodes
    /\ tmp \in Nodes /\ num_parts > 2 => tmp_slot # NoSlot
    /\ tmp \in Nodes => \A i \in Idx : (pc = "save" => i < part) =>
          IF num_parts <= 2 THEN cur_reg[TmpReg(i)] # NoReg /\ rc[cur_reg[TmpReg(i)]] = <<tmp, i>>
          ELSE mem[tmp_slot][i] = <<tmp, i>>

\* The parts of the phis that have been moved, and where they are.
Moved(n, i) == n \notin Left \/ (n \in Moving /\ i < part)
Placed(n, i) == IF fixed[n] THEN rc[reg[<<n, 0>>]] = <<inc[n], i>>
                ELSE ~dirty[<<n, i>>] /\ mem[slot[n]][i] = <<inc[n], i>>
PlacedInv == \A n \in Nodes, i \in Idx : live[n] /\ Moved(n, i) => Placed(n, i)

Place(n) == IF fixed[n] THEN <<"reg", reg[<<n, 0>>]>> ELSE <<"slot", slot[n]>>
HomeInv ==
    /\ DOMAIN was.home = Nodes
    /\ \A n \in Nodes : live[n] /\ (back \/ Moved(n, 0)) => was.home[n] = Place(n)

RoleInv == SlotOwners /\ FixedInv /\ LiveInv /\ PartInv /\ BackupInv /\ AroundInv
CopyInv == CodeTypes /\ ContentInv /\ SavedInv /\ PlacedInv /\ HomeInv
----------------------------------------------------------------------------
(***************************************************************************)
(* What the wrappers do.                                                   *)
(***************************************************************************)
\* reset gives the register back to the part it was taken from, or frees it.
GivesBack(w, r, p) ==
    /\ p = backup[w] /\ live[Val(p)] /\ reg[p] = NoReg /\ ~dirty[p] /\ slot[Val(p)] # NoSlot
    /\ \A x \in WrapperSet : backup[x] = p => x = w
    /\ reg' = [reg EXCEPT ![p] = r] /\ dirty' = [dirty EXCEPT ![p] = was_modified[w]]
    /\ rc' = [rc EXCEPT ![r] = mem[slot[Val(p)]][p[2]]]

\* The register of the wrapper goes back to its part, unless that was freed.
LEMMA ResetFacts ==
    ASSUME Places, NEW w \in WrapperSet, reset(w)
    PROVE  /\ cur_reg' = [cur_reg EXCEPT ![w] = NoReg] /\ backup' = [backup EXCEPT ![w] = None]
           /\ UNCHANGED <<live, fixed, slot, refs, was_modified, stack, mem>>
           /\ \E r \in Regs :
                /\ r = cur_reg[w] /\ \A q \in Parts : reg[q] # r
                /\ \A x \in WrapperSet : x # w => cur_reg[x] # r
                /\ \/ \E p \in Parts : GivesBack(w, r, p)
                   \/ /\ UNCHANGED <<reg, dirty, rc>>
                      /\ backup[w] # None => backup[w] \in Parts /\ ~live[Val(backup[w])]
<1> DEFINE r == cur_reg[w]
           p == backup[w]
<1>1. /\ r # NoReg /\ cur_reg' = [cur_reg EXCEPT ![w] = NoReg] /\ backup' = [backup EXCEPT ![w] = None]
      /\ UNCHANGED <<live, fixed, slot, refs, was_modified, stack, mem>>
  BY DEF reset
<1>2. r \in Regs /\ own[r] = w /\ num_parts \in 1 .. 3 /\ (p # None => p \in Parts)
  BY <1>1 DEF Places, PlaceTypes, OwnersInv
<1>3. \A q \in Parts : reg[q] # r
  BY <1>1, <1>2, NotAPart DEF Places, OwnersInv
<1>4. \A x \in WrapperSet : x # w => cur_reg[x] # r
  BY <1>1, <1>2 DEF Places, OwnersInv
<1>5. CASE p # None /\ live[Val(p)]
  <2>1. reg[p] = NoReg /\ ~dirty[p] /\ slot[Val(p)] # NoSlot
    BY <1>2, <1>5 DEF Places, SlotsInv, Displaced
  <2>2. \A x \in WrapperSet : backup[x] = p => x = w
    BY <1>5 DEF Places, SlotsInv, Displaced
  <2>3. GivesBack(w, r, p)
    BY <1>5, <2>1, <2>2 DEF reset, RestoredDirty, Reloaded, GivesBack
  <2> HIDE DEF r, p
  <2> QED BY <1>1, <1>2, <1>3, <1>4, <1>5, <2>3 DEF r
<1>6. CASE ~(p # None /\ live[Val(p)])
  <2>1. UNCHANGED <<reg, dirty, rc>>
    BY <1>6 DEF reset
  <2> QED BY <1>1, <1>2, <1>3, <1>4, <1>6, <2>1
<1> QED BY <1>5, <1>6

\* alloc_from_bank takes a free register, or that of a part p, and spills p if
\* the stack does not have it.
Takes(w, r, p) ==
    /\ own[r] = p /\ reg[p] = r /\ live[Val(p)] /\ ~fixed[Val(p)]
    /\ \A x \in WrapperSet : backup[x] # p
    /\ reg' = [reg EXCEPT ![p] = NoReg] /\ dirty' = [dirty EXCEPT ![p] = FALSE]
    /\ backup' = [backup EXCEPT ![w] = p] /\ was_modified' = [was_modified EXCEPT ![w] = dirty[p]]
    /\ slot'[Val(p)] # NoSlot
    /\ \/ UNCHANGED <<slot, free_list, fresh>>
       \/ /\ dirty[p] /\ slot[Val(p)] = NoSlot
          /\ \E s \in Slots : NewSlot(s) /\ slot' = [slot EXCEPT ![Val(p)] = s]
    /\ mem' = IF dirty[p] THEN Store(slot'[Val(p)], p[2], rc[r]) ELSE mem

\* The wrapper gets a register that nobody or the part p had.
LEMMA AllocFacts ==
    ASSUME Places, NEW w \in WrapperSet, NEW b, alloc_from_bank(w, b)
    PROVE  /\ cur_reg[w] = NoReg /\ UNCHANGED <<live, fixed, refs, rc>>
           /\ \E r \in Regs :
                /\ cur_reg' = [cur_reg EXCEPT ![w] = r]
                /\ \A x \in WrapperSet : x # w => cur_reg[x] # r
                /\ \/ /\ UNCHANGED <<slot, free_list, fresh, mem, dirty, reg, backup, was_modified>>
                      /\ \A q \in Parts : reg[q] # r
                   \/ \E p \in Parts : Takes(w, r, p)
<1> DEFINE r == Lowest(IF FreeIn(b) # {} THEN FreeIn(b) ELSE Takeable(b))
           p == own[r]
<1>1. /\ cur_reg[w] = NoReg /\ cur_reg' = [cur_reg EXCEPT ![w] = r]
      /\ UNCHANGED <<live, fixed, refs, rc>>
  BY DEF alloc_from_bank
<1>2. /\ r \in Regs /\ num_parts \in 1 .. 3
      /\ FreeIn(b) # {} => p = Free
      /\ FreeIn(b) = {} => p \in Parts /\ ~fixed[Val(p)]
  BY AllocReg DEF Places, PlaceTypes
<1>3. \A x \in WrapperSet : x # w => cur_reg[x] # r
  BY <1>2, NotAPart DEF Places, OwnersInv
<1>4. CASE FreeIn(b) # {}
  <2>1. UNCHANGED <<slot, free_list, fresh, mem, dirty, reg, backup, was_modified>>
    BY <1>4 DEF alloc_from_bank, stack
  <2>2. \A q \in Parts : reg[q] # r
    BY <1>2, <1>4, NotAPart DEF Places, OwnersInv
  <2> QED BY <1>1, <1>2, <1>3, <2>1, <2>2
<1>5. CASE FreeIn(b) = {}
  <2> DEFINE v == Val(p)
  <2>1. /\ p \in Parts /\ ~fixed[v] /\ live[v] /\ reg[p] = r /\ v \in Vals
    <3>1. p \in Parts /\ ~fixed[v]
      BY <1>2, <1>5
    <3>2. v \in Vals
      BY <1>2, <3>1, NotAPart
    <3> QED BY <1>2, <3>1, <3>2 DEF Places, OwnersInv
  <2>2. Backup(w, r)
    BY <1>5 DEF alloc_from_bank
  <2>3. /\ dirty' = [dirty EXCEPT ![p] = FALSE] /\ reg' = [reg EXCEPT ![p] = NoReg]
        /\ backup' = [backup EXCEPT ![w] = p] /\ was_modified' = [was_modified EXCEPT ![w] = dirty[p]]
        /\ mem' = IF dirty[p] THEN Store(slot'[v], p[2], rc[r]) ELSE mem
    BY <2>2 DEF Backup, SetStackValid
  <2>4. \A x \in WrapperSet : backup[x] # p
    BY <1>2, <2>1, NotAPart DEF Places, SlotsInv, Displaced
  <2>5. CASE dirty[p] /\ slot[v] = NoSlot
    <3>1. PICK s \in Slots : NewSlot(s) /\ slot' = [slot EXCEPT ![v] = s]
      BY <2>2, <2>5 DEF Backup
    <3>2. slot'[v] # NoSlot
      BY <1>2, <2>1, <3>1, NotAPart DEF Places, PlaceTypes
    <3>3. Takes(w, r, p)
      BY <2>1, <2>3, <2>4, <2>5, <3>1, <3>2 DEF Takes
    <3> HIDE DEF r, p, v
    <3> QED BY <1>1, <1>2, <1>3, <2>1, <3>3
  <2>6. CASE ~(dirty[p] /\ slot[v] = NoSlot)
    <3>1. UNCHANGED <<slot, free_list, fresh>>
      BY <2>2, <2>6 DEF Backup, stack
    <3>2. slot'[v] # NoSlot
      BY <2>1, <2>6, <3>1 DEF Places, SlotsInv
    <3>3. Takes(w, r, p)
      BY <2>1, <2>3, <2>4, <2>6, <3>1, <3>2 DEF Takes
    <3> HIDE DEF r, p, v
    <3> QED BY <1>1, <1>2, <1>3, <2>1, <3>3
  <2> QED BY <2>5, <2>6
<1> QED BY <1>4, <1>5

\* Values are where they were, given what the wrappers took away.
LEMMA ResetRoles ==
    ASSUME Places, SlotOwners, FixedInv, BackupInv, AroundInv, NEW w \in WrapperSet, reset(w),
           UNCHANGED <<inc, back, num_parts, was, tmp_slot>>
    PROVE  SlotOwners' /\ FixedInv' /\ AroundInv'
           /\ \A x \in WrapperSet : cur_reg'[x] = NoReg => backup'[x] = None
<1>1. /\ cur_reg' = [cur_reg EXCEPT ![w] = NoReg] /\ backup' = [backup EXCEPT ![w] = None]
      /\ UNCHANGED <<live, fixed, slot, refs, was_modified, free_list, fresh>>
  BY ResetFacts DEF stack
<1>2. PICK r \in Regs :
        /\ r = cur_reg[w]
        /\ \/ \E p \in Parts : GivesBack(w, r, p)
           \/ /\ UNCHANGED <<reg, dirty, rc>>
              /\ backup[w] # None => backup[w] \in Parts /\ ~live[Val(backup[w])]
  BY ResetFacts
<1>3. /\ cur_reg \in [WrapperSet -> Regs \cup {NoReg}] /\ backup \in [WrapperSet -> Parts \cup {None}]
      /\ reg \in [Parts -> Regs \cup {NoReg}] /\ dirty \in [Parts -> BOOLEAN] /\ num_parts \in 1 .. 3
  BY DEF Places, PlaceTypes
<1>4. /\ Parts' = Parts /\ Idx' = Idx /\ None \notin Parts /\ NoReg \notin Regs /\ Nodes \subseteq Vals
      /\ \A v \in Vals, i \in Idx : <<v, i>> \in Parts /\ Val(<<v, i>>) = v
      /\ 0 \in Idx
  BY <1>3, NotAPart DEF Parts, Idx, Val
<1>5. SlotOwners'
  BY <1>1 DEF SlotOwners
<1>6. \A x \in WrapperSet : /\ x # w => backup'[x] = backup[x] /\ cur_reg'[x] = cur_reg[x]
                            /\ x = w => backup'[x] = None /\ cur_reg'[x] = NoReg
  BY <1>1, <1>3
<1>7. \A x \in WrapperSet : cur_reg'[x] = NoReg => backup'[x] = None
  BY <1>6 DEF BackupInv
<1>8. \A v : Before(v)' <=> Before(v)
  BY <1>1 DEF Before
<1>9. ASSUME NEW p \in Parts, GivesBack(w, r, p) PROVE FixedInv' /\ AroundInv'
  <2>1. /\ \A q \in Parts : reg'[q] = IF q = p THEN r ELSE reg[q]
        /\ \A q \in Parts : dirty'[q] = IF q = p THEN was_modified[w] ELSE dirty[q]
        /\ backup[w] = p /\ \A x \in WrapperSet : backup[x] = p => x = w
    BY <1>3, <1>9 DEF GivesBack
  <2>2. FixedInv'
    <3>1. ASSUME NEW v \in Vals, fixed[v] PROVE num_parts = 1 /\ reg'[<<v, 0>>] # NoReg
      BY <1>4, <2>1, <3>1 DEF FixedInv
    <3>2. ASSUME back, NEW n \in Nodes, ~fixed[n], NEW i \in Idx PROVE ~dirty'[<<n, i>>]
      BY <1>4, <2>1, <3>2 DEF FixedInv
    <3>3. ASSUME back, NEW n \in Nodes, ~fixed[n], NEW x \in WrapperSet, backup'[x] # None, Val(backup'[x]) = n
          PROVE  ~was_modified[x]
      BY <1>6, <3>3 DEF FixedInv
    <3> QED BY <1>1, <1>4, <3>1, <3>2, <3>3 DEF FixedInv, Val
  <2>3. AroundInv'
    <3> SUFFICES ASSUME NEW q \in Parts, Before(Val(q))
                 PROVE  \/ reg'[q] = was.reg[q] /\ dirty'[q] = was.dirty[q] /\ \A x \in WrapperSet : backup'[x] # q
                        \/ \E x \in WrapperSet : /\ backup'[x] = q /\ cur_reg'[x] = was.reg[q]
                                                 /\ was_modified[x] = was.dirty[q]
      BY <1>1, <1>4, <1>8 DEF AroundInv
    <3>1. CASE q = p
      <4>1. cur_reg[w] = was.reg[q] /\ was_modified[w] = was.dirty[q]
        BY <2>1, <3>1 DEF AroundInv
      <4> QED BY <1>2, <1>4, <1>6, <2>1, <3>1, <4>1
    <3>2. CASE q # p
      <4>1. CASE reg[q] = was.reg[q] /\ dirty[q] = was.dirty[q] /\ \A x \in WrapperSet : backup[x] # q
        BY <1>4, <1>6, <2>1, <3>2, <4>1
      <4>2. ASSUME NEW x \in WrapperSet, backup[x] = q, cur_reg[x] = was.reg[q], was_modified[x] = was.dirty[q]
            PROVE  \E y \in WrapperSet : /\ backup'[y] = q /\ cur_reg'[y] = was.reg[q]
                                         /\ was_modified[y] = was.dirty[q]
        BY <1>6, <2>1, <3>2, <4>2
      <4> QED BY <4>1, <4>2 DEF AroundInv
    <3> QED BY <3>1, <3>2
  <2> QED BY <2>2, <2>3
<1>10. ASSUME UNCHANGED <<reg, dirty>>, backup[w] # None => backup[w] \in Parts /\ ~live[Val(backup[w])]
       PROVE  FixedInv' /\ AroundInv'
  <2>1. FixedInv'
    BY <1>1, <1>4, <1>6, <1>10 DEF FixedInv, Val
  <2>2. AroundInv'
    <3> SUFFICES ASSUME NEW q \in Parts, Before(Val(q))
                 PROVE  \/ reg[q] = was.reg[q] /\ dirty[q] = was.dirty[q] /\ \A x \in WrapperSet : backup'[x] # q
                        \/ \E x \in WrapperSet : /\ backup'[x] = q /\ cur_reg'[x] = was.reg[q]
                                                 /\ was_modified[x] = was.dirty[q]
      BY <1>1, <1>4, <1>8, <1>10 DEF AroundInv
    <3>1. backup[w] # q
      BY <1>4, <1>10 DEF Before
    <3>2. CASE reg[q] = was.reg[q] /\ dirty[q] = was.dirty[q] /\ \A x \in WrapperSet : backup[x] # q
      BY <1>4, <1>6, <3>2
    <3>3. ASSUME NEW x \in WrapperSet, backup[x] = q, cur_reg[x] = was.reg[q], was_modified[x] = was.dirty[q]
          PROVE  \E y \in WrapperSet : /\ backup'[y] = q /\ cur_reg'[y] = was.reg[q]
                                       /\ was_modified[y] = was.dirty[q]
      BY <1>6, <3>1, <3>3
    <3> QED BY <3>2, <3>3 DEF AroundInv
  <2> QED BY <2>1, <2>2
<1> QED BY <1>2, <1>5, <1>7, <1>9, <1>10

\* A slot that is handed out belonged to nobody.
LEMMA NewSlotOwner ==
    ASSUME SlotOwners, SlotLists, NoSlot \notin Slots, DOMAIN slot = Vals,
           NEW s \in Slots, NewSlot(s), NEW v \in Vals, slot' = [slot EXCEPT ![v] = s], tmp_slot' = tmp_slot
    PROVE  SlotOwners'
<1>1. /\ s \in free_list \cup fresh
      /\ free_list' = free_list \ {s} /\ fresh' = fresh \ {s}
  BY DEF NewSlot
<1>2. (\A u \in Vals : slot[u] # s) /\ tmp_slot # s
  BY <1>1 DEF SlotOwners
<1>3. \A u \in Vals : slot'[u] = IF u = v THEN s ELSE slot[u]
  OBVIOUS
<1> QED BY <1>1, <1>2, <1>3 DEF SlotOwners

\* A part that is spilled gets a slot of its own, and its wrapper knows its place.
LEMMA AllocRoles ==
    ASSUME Places, SlotLists, SlotOwners, FixedInv, BackupInv, AroundInv,
           NEW w \in WrapperSet, NEW b, alloc_from_bank(w, b),
           UNCHANGED <<inc, back, num_parts, was, tmp_slot>>
    PROVE  SlotOwners' /\ FixedInv' /\ AroundInv'
           /\ \A x \in WrapperSet : cur_reg'[x] = NoReg => backup'[x] = None
<1>1. cur_reg[w] = NoReg /\ UNCHANGED <<live, fixed, refs, rc>>
  BY AllocFacts
<1>2. PICK r \in Regs :
        /\ cur_reg' = [cur_reg EXCEPT ![w] = r]
        /\ \/ UNCHANGED <<slot, free_list, fresh, mem, dirty, reg, backup, was_modified>>
           \/ \E p \in Parts : Takes(w, r, p)
  BY AllocFacts
<1>3. /\ cur_reg \in [WrapperSet -> Regs \cup {NoReg}] /\ backup \in [WrapperSet -> Parts \cup {None}]
      /\ reg \in [Parts -> Regs \cup {NoReg}] /\ dirty \in [Parts -> BOOLEAN] /\ num_parts \in 1 .. 3
      /\ slot \in [Vals -> Slots \cup {NoSlot}] /\ was_modified \in [WrapperSet -> BOOLEAN]
  BY DEF Places, PlaceTypes
<1>4. /\ Parts' = Parts /\ Idx' = Idx /\ None \notin Parts /\ NoReg \notin Regs /\ NoSlot \notin Slots
      /\ \A v \in Vals, i \in Idx : <<v, i>> \in Parts /\ Val(<<v, i>>) = v
      /\ 0 \in Idx /\ Nodes \subseteq Vals /\ \A p \in Parts : Val(p) \in Vals
  BY <1>3, NotAPart DEF Parts, Idx, Val
<1>5. \A x \in WrapperSet : cur_reg'[x] = IF x = w THEN r ELSE cur_reg[x]
  BY <1>2, <1>3
<1>6. backup[w] = None
  BY <1>1 DEF BackupInv
<1>7. \A v : Before(v)' <=> Before(v)
  BY <1>1 DEF Before
<1>8. CASE UNCHANGED <<slot, free_list, fresh, mem, dirty, reg, backup, was_modified>>
  <2>1. SlotOwners' /\ FixedInv'
    BY <1>1, <1>4, <1>8 DEF SlotOwners, FixedInv, Val
  <2>2. \A x \in WrapperSet : cur_reg'[x] = NoReg => backup'[x] = None
    BY <1>4, <1>5, <1>8 DEF BackupInv
  <2>3. AroundInv'
    <3> SUFFICES ASSUME NEW q \in Parts, Before(Val(q))
                 PROVE  \/ reg[q] = was.reg[q] /\ dirty[q] = was.dirty[q] /\ \A x \in WrapperSet : backup[x] # q
                        \/ \E x \in WrapperSet : /\ backup[x] = q /\ cur_reg'[x] = was.reg[q]
                                                 /\ was_modified[x] = was.dirty[q]
      BY <1>1, <1>4, <1>7, <1>8 DEF AroundInv
    <3>1. ASSUME NEW x \in WrapperSet, backup[x] = q, cur_reg[x] = was.reg[q], was_modified[x] = was.dirty[q]
          PROVE  \E y \in WrapperSet : /\ backup[y] = q /\ cur_reg'[y] = was.reg[q]
                                       /\ was_modified[y] = was.dirty[q]
      BY <1>4, <1>5, <1>6, <3>1
    <3> QED BY <3>1 DEF AroundInv
  <2> QED BY <2>1, <2>2, <2>3
<1>9. ASSUME NEW p \in Parts, Takes(w, r, p)
      PROVE  SlotOwners' /\ FixedInv' /\ AroundInv'
             /\ \A x \in WrapperSet : cur_reg'[x] = NoReg => backup'[x] = None
  <2>1. /\ \A q \in Parts : reg'[q] = IF q = p THEN NoReg ELSE reg[q]
        /\ \A q \in Parts : dirty'[q] = IF q = p THEN FALSE ELSE dirty[q]
        /\ \A x \in WrapperSet : backup'[x] = IF x = w THEN p ELSE backup[x]
        /\ \A x \in WrapperSet : was_modified'[x] = IF x = w THEN dirty[p] ELSE was_modified[x]
        /\ \A x \in WrapperSet : backup[x] # p
        /\ reg[p] = r /\ live[Val(p)] /\ ~fixed[Val(p)] /\ Val(p) \in Vals
    BY <1>3, <1>4, <1>9 DEF Takes
  <2>2. SlotOwners' /\ \A v \in Vals : slot[v] # NoSlot => slot'[v] = slot[v]
    <3>1. CASE UNCHANGED <<slot, free_list, fresh>>
      BY <3>1 DEF SlotOwners
    <3>2. ASSUME slot[Val(p)] = NoSlot, NEW s \in Slots, NewSlot(s), slot' = [slot EXCEPT ![Val(p)] = s]
          PROVE  SlotOwners' /\ \A v \in Vals : slot[v] # NoSlot => slot'[v] = slot[v]
      <4>1. SlotOwners'
        BY <1>3, <1>4, <2>1, <3>2, NewSlotOwner
      <4> QED BY <1>3, <3>2, <4>1
    <3> QED BY <1>9, <3>1, <3>2 DEF Takes
  <2>3. FixedInv'
    <3>1. ASSUME NEW v \in Vals, fixed[v] PROVE num_parts = 1 /\ reg'[<<v, 0>>] # NoReg
      BY <1>4, <2>1, <3>1 DEF FixedInv
    <3>2. ASSUME back, NEW n \in Nodes, ~fixed[n], NEW i \in Idx PROVE ~dirty'[<<n, i>>]
      BY <1>4, <2>1, <3>2 DEF FixedInv
    <3>3. ASSUME back, NEW n \in Nodes, ~fixed[n], NEW x \in WrapperSet, backup'[x] # None, Val(backup'[x]) = n
          PROVE  ~was_modified'[x]
      <4>1. CASE x = w
        <5>1. p = <<n, p[2]>> /\ p[2] \in Idx
          BY <1>3, <2>1, <3>3, <4>1, NotAPart
        <5> QED BY <2>1, <3>3, <4>1, <5>1 DEF FixedInv
      <4>2. CASE x # w
        BY <2>1, <3>3, <4>2 DEF FixedInv
      <4> QED BY <4>1, <4>2
    <3> QED BY <1>1, <1>4, <3>1, <3>2, <3>3 DEF FixedInv, Val
  <2>4. AroundInv'
    <3>1. ASSUME NEW v \in Vals, Before(v), was.slot[v] # NoSlot PROVE slot'[v] = was.slot[v]
      BY <2>2, <3>1 DEF AroundInv
    <3>2. ASSUME NEW q \in Parts, Before(Val(q))
          PROVE  \/ reg'[q] = was.reg[q] /\ dirty'[q] = was.dirty[q] /\ \A x \in WrapperSet : backup'[x] # q
                 \/ \E x \in WrapperSet : /\ backup'[x] = q /\ cur_reg'[x] = was.reg[q]
                                          /\ was_modified'[x] = was.dirty[q]
      <4>1. CASE q = p
        <5>1. reg[q] = was.reg[q] /\ dirty[q] = was.dirty[q]
          BY <2>1, <3>2, <4>1 DEF AroundInv
        <5> QED BY <1>5, <2>1, <4>1, <5>1
      <4>2. CASE q # p /\ reg[q] = was.reg[q] /\ dirty[q] = was.dirty[q] /\ \A x \in WrapperSet : backup[x] # q
        BY <2>1, <4>2
      <4>3. ASSUME q # p, NEW x \in WrapperSet, backup[x] = q, cur_reg[x] = was.reg[q], was_modified[x] = was.dirty[q]
            PROVE  \E y \in WrapperSet : /\ backup'[y] = q /\ cur_reg'[y] = was.reg[q]
                                         /\ was_modified'[y] = was.dirty[q]
        <5>1. x # w
          BY <1>4, <1>6, <4>3
        <5> QED BY <1>5, <2>1, <4>3, <5>1
      <4> QED BY <3>2, <4>1, <4>2, <4>3 DEF AroundInv
    <3> QED BY <1>4, <1>7, <3>1, <3>2 DEF AroundInv
  <2>5. \A x \in WrapperSet : cur_reg'[x] = NoReg => backup'[x] = None
    BY <1>4, <1>5, <2>1 DEF BackupInv
  <2> QED BY <2>2, <2>3, <2>4, <2>5
<1> QED BY <1>2, <1>8, <1>9

\* What is freed belongs to nobody; the other values stay where they are.
LEMMA ReleaseRoles ==
    ASSUME Places, SlotLists, SlotOwners, FixedInv, AroundInv, refs \in [Vals -> Int],
           NEW use, \A v \in Vals : use[v] \in Nat, Release(use),
           UNCHANGED <<inc, back, num_parts, was, tmp_slot, cur_reg, backup, was_modified>>
    PROVE  /\ SlotOwners' /\ FixedInv' /\ AroundInv'
           /\ \A v \in Vals : refs'[v] > 0 => refs[v] > 0 /\ live'[v] = live[v]
<1> DEFINE dead == {v \in Vals : use[v] > 0 /\ refs[v] - use[v] = 0 /\ ~Pending(v)}
<1>1. /\ refs' = [v \in Vals |-> refs[v] - use[v]]
      /\ live' = [v \in Vals |-> live[v] /\ v \notin dead]
      /\ reg' = [p \in Parts |-> IF Val(p) \in dead THEN NoReg ELSE reg[p]]
      /\ fixed' = [v \in Vals |-> fixed[v] /\ v \notin dead]
      /\ slot' = [v \in Vals |-> IF v \in dead THEN NoSlot ELSE slot[v]]
      /\ free_list' = free_list \cup ({slot[v] : v \in dead} \ {NoSlot})
      /\ dirty' = dirty /\ fresh' = fresh
  BY DEF Release
<1>2. /\ dead \subseteq Vals /\ \A n \in Nodes : back => n \notin dead
      /\ \A v \in Vals : refs[v] - use[v] > 0 => v \notin dead
  BY DEF Pending
<1> HIDE DEF dead
<1>3. /\ num_parts \in 1 .. 3 /\ Parts' = Parts /\ Idx' = Idx
      /\ live \in [Vals -> BOOLEAN] /\ slot \in [Vals -> Slots \cup {NoSlot}]
  BY DEF Parts, Idx, Places, PlaceTypes
<1>4. /\ NoSlot \notin Slots /\ Nodes \subseteq Vals /\ 0 \in Idx
      /\ \A v \in Vals, i \in Idx : <<v, i>> \in Parts /\ Val(<<v, i>>) = v
      /\ \A p \in Parts : Val(p) \in Vals
  BY <1>3, NotAPart DEF Parts, Val
<1>5. SlotOwners'
  <2>1. \A v \in Vals : slot'[v] # NoSlot => slot'[v] = slot[v] /\ v \notin dead
    BY <1>1
  <2>2. ASSUME NEW u \in Vals, NEW v \in Vals, slot'[u] # NoSlot, slot'[u] = slot'[v] PROVE u = v
    BY <2>1, <2>2 DEF SlotOwners
  <2>3. ASSUME NEW v \in Vals PROVE slot'[v] \notin free_list' \cup fresh'
    <3>1. CASE slot'[v] = NoSlot
      BY <1>1, <1>4, <3>1 DEF SlotLists
    <3>2. CASE slot'[v] # NoSlot
      <4>1. slot[v] \notin {slot[u] : u \in dead}
        BY <1>2, <2>1, <3>2 DEF SlotOwners
      <4> QED BY <1>1, <2>1, <3>2, <4>1 DEF SlotOwners
    <3> QED BY <3>1, <3>2
  <2>4. tmp_slot \notin free_list' \cup fresh'
    <3>1. tmp_slot \notin {slot[u] : u \in dead} \ {NoSlot}
      BY <1>2 DEF SlotOwners
    <3> QED BY <1>1, <3>1 DEF SlotOwners
  <2>5. tmp_slot # NoSlot => \A v \in Vals : slot'[v] # tmp_slot
    BY <2>1 DEF SlotOwners
  <2> QED BY <2>2, <2>3, <2>4, <2>5 DEF SlotOwners
<1>6. FixedInv'
  <2>1. ASSUME NEW v \in Vals, fixed'[v] PROVE num_parts = 1 /\ reg'[<<v, 0>>] # NoReg
    BY <1>1, <1>4, <2>1 DEF FixedInv
  <2>2. ASSUME back, NEW n \in Nodes, ~fixed'[n] PROVE ~fixed[n]
    BY <1>1, <1>2, <1>4, <2>2
  <2> QED BY <1>1, <1>3, <2>1, <2>2 DEF FixedInv, Val
<1>7. AroundInv'
  <2>1. \A v \in Vals : Before(v)' => Before(v) /\ v \notin dead
    BY <1>1 DEF Before
  <2>2. \A p \in Parts : Before(Val(p))' => Before(Val(p)) /\ reg'[p] = reg[p]
    BY <1>1, <1>4, <2>1
  <2>3. \A v \in Vals : Before(v)' => slot'[v] = slot[v]
    BY <1>1, <2>1
  <2>4. \A p \in Parts : Before(Val(p))' /\ ~was.dirty[p] => was.slot[Val(p)] # NoSlot
    BY <2>2 DEF AroundInv
  <2>5. \A v \in Vals : Before(v)' /\ was.slot[v] # NoSlot => slot'[v] = was.slot[v]
    BY <2>1, <2>3 DEF AroundInv
  <2>6. ASSUME NEW q \in Parts, Before(Val(q))'
        PROVE  \/ reg'[q] = was.reg[q] /\ dirty[q] = was.dirty[q] /\ \A x \in WrapperSet : backup[x] # q
               \/ \E x \in WrapperSet : /\ backup[x] = q /\ cur_reg[x] = was.reg[q]
                                        /\ was_modified[x] = was.dirty[q]
    BY <2>2, <2>6 DEF AroundInv
  <2>7. \A p : Val(p)' = Val(p)
    BY DEF Val
  <2> QED BY <1>1, <1>3, <2>4, <2>5, <2>6, <2>7 DEF AroundInv, Before, Val
<1>8. ASSUME NEW v \in Vals, refs'[v] > 0 PROVE refs[v] > 0 /\ live'[v] = live[v]
  BY <1>1, <1>2, <1>3, <1>8
<1> QED BY <1>5, <1>6, <1>7, <1>8
----------------------------------------------------------------------------
(***************************************************************************)
(* The steps of a move.                                                    *)
(***************************************************************************)
\* A part goes to the fixed register or the slot of the phi, through a scratch
\* register if the incoming value is not in one.
WrittenTo(n, c, rc1) ==
    \/ /\ fixed[n] /\ UNCHANGED <<slot, free_list, fresh, mem, dirty>>
       /\ rc' = [rc1 EXCEPT ![reg[<<n, 0>>]] = c]
    \/ /\ ~fixed[n] /\ slot'[n] # NoSlot /\ rc' = rc1
       /\ mem' = Store(slot'[n], part, c) /\ dirty' = [dirty EXCEPT ![<<n, part>>] = FALSE]
       /\ \/ UNCHANGED <<slot, free_list, fresh>>
          \/ /\ slot[n] = NoSlot
             /\ \E s \in Slots : NewSlot(s) /\ slot' = [slot EXCEPT ![n] = s]

\* What move_to_phi does for one part of the phi, maybe through the scratch
\* register.
LEMMA MovePartFacts ==
    ASSUME PhiInv, Places, part \in Nat, MovePart
    PROVE  LET n == Head(ready)
               c == Read(<<inc[n], part>>)
           IN  /\ pc = "move" /\ n \in Nodes /\ n \in Left /\ inc[n] # n /\ inc[n] # tmp /\ part \in Idx
               /\ part < num_parts /\ part' = part + 1
               /\ UNCHANGED <<inc, back, num_parts, live, fixed, reg, refs, own, cur_reg, backup,
                              was_modified, ref_count, ready, waiting, handled, tmp, tmp_slot, pc>>
               /\ was'.reg = was.reg /\ was'.dirty = was.dirty /\ was'.slot = was.slot
               /\ was'.later = was.later
               /\ was'.home = [was.home EXCEPT ![n] = Place(n)']
               /\ \/ WrittenTo(n, c, rc)
                  \/ cur_reg["scratch"] # NoReg /\ WrittenTo(n, c, [rc EXCEPT ![cur_reg["scratch"]] = c])
<1> DEFINE n == Head(ready)
           c == Read(<<inc[n], part>>)
           rc1 == IF Wanted # {} THEN [rc EXCEPT ![cur_reg["scratch"]] = c] ELSE rc
<1>1. /\ pc = "move" /\ part < num_parts /\ part' = part + 1 /\ Prepared
      /\ UNCHANGED <<inc, back, num_parts, live, fixed, reg, refs, own, cur_reg, backup,
                     was_modified, ref_count, ready, waiting, handled, tmp, tmp_slot, pc>>
  BY DEF MovePart, edge, wraps, lists, temps
<1>2. n \in Nodes /\ n \in Left /\ inc[n] # n /\ inc[n] # tmp
  BY <1>1, NextReady DEF PhiInv, StageInv, Left
<1>3. part \in Idx /\ num_parts \in 1 .. 3 /\ n \in Vals /\ NoSlot \notin Slots
  BY <1>1, <1>2, NotAPart DEF Idx, Places, PlaceTypes
<1>4. Wanted # {} => cur_reg["scratch"] # NoReg
  <2>1. Wanted \subseteq {<<"scratch", PartBank[part]>>}
    BY <1>1 DEF Wanted
  <2>2. Wanted # {} => Has("scratch", PartBank[part])
    BY <1>1, <2>1 DEF Prepared
  <2> QED BY <2>2 DEF Has
<1>5. WrittenTo(n, c, rc1) /\ was' = [was EXCEPT !.home = [@ EXCEPT ![n] = Place(n)']]
  <2>1. CASE fixed[n]
    <3>1. /\ rc' = [rc1 EXCEPT ![reg[<<n, 0>>]] = c]
          /\ was' = [was EXCEPT !.home = [@ EXCEPT ![n] = <<"reg", reg[<<n, 0>>]>>]]
          /\ UNCHANGED <<slot, stack, mem, dirty>>
      BY <2>1 DEF MovePart
    <3>2. Place(n)' = <<"reg", reg[<<n, 0>>]>>
      BY <1>1, <2>1 DEF Place
    <3> QED BY <2>1, <3>1, <3>2 DEF WrittenTo, stack
  <2>2. CASE ~fixed[n]
    <3>1. /\ IF slot[n] = NoSlot
             THEN \E s \in Slots : NewSlot(s) /\ slot' = [slot EXCEPT ![n] = s]
             ELSE UNCHANGED <<slot, stack>>
          /\ rc' = rc1
          /\ mem' = Store(slot'[n], part, c)
          /\ dirty' = SetStackValid(<<n, part>>)
          /\ was' = [was EXCEPT !.home = [@ EXCEPT ![n] = <<"slot", slot'[n]>>]]
      BY <2>2 DEF MovePart
    <3>2. Place(n)' = <<"slot", slot'[n]>>
      BY <1>1, <2>2 DEF Place
    <3>3. slot'[n] # NoSlot
      BY <1>3, <3>1 DEF Places, PlaceTypes
    <3> QED BY <2>2, <3>1, <3>2, <3>3 DEF WrittenTo, SetStackValid, stack
  <2> QED BY <2>1, <2>2
<1>6. /\ was'.reg = was.reg /\ was'.dirty = was.dirty /\ was'.slot = was.slot
      /\ was'.later = was.later /\ was'.home = [was.home EXCEPT ![n] = Place(n)']
  BY <1>5 DEF PhiInv, RefInv
<1>7. WrittenTo(n, c, rc) \/ (cur_reg["scratch"] # NoReg /\ WrittenTo(n, c, [rc EXCEPT ![cur_reg["scratch"]] = c]))
  BY <1>4, <1>5
<1> QED BY <1>1, <1>2, <1>3, <1>6, <1>7

\* The phi that is moved gets its own slot if it has none.
LEMMA MovePartRoles ==
    ASSUME PhiInv, Places, SlotLists, RoleInv, MovePart
    PROVE  SlotOwners' /\ FixedInv' /\ AroundInv'
<1> DEFINE n == Head(ready)
<1>0. part \in Nat /\ num_parts \in 1 .. 3
  BY DEF RoleInv, PartInv, Places, PlaceTypes
<1>1. /\ n \in Nodes /\ part \in Idx
      /\ UNCHANGED <<inc, back, num_parts, live, fixed, reg, cur_reg, backup, was_modified, tmp_slot>>
      /\ was'.reg = was.reg /\ was'.dirty = was.dirty /\ was'.slot = was.slot
      /\ \E c, x : WrittenTo(n, c, x)
  BY <1>0, MovePartFacts
<1> HIDE DEF n
<1>2. /\ Parts' = Parts /\ Idx' = Idx /\ NoSlot \notin Slots /\ Nodes \subseteq Vals
      /\ \A v \in Vals, i \in Idx : <<v, i>> \in Parts /\ Val(<<v, i>>) = v
      /\ \A p \in Parts : Val(p) \in Vals /\ p = <<Val(p), p[2]>> /\ p[2] \in Idx
      /\ slot \in [Vals -> Slots \cup {NoSlot}] /\ dirty \in [Parts -> BOOLEAN]
      /\ \A m \in Nodes : m \notin Others
  BY <1>0, <1>1, NotAPart, PhiAssumption DEF Parts, Idx, Val, Places, PlaceTypes, Nodes, Others
<1>3. \A p \in Parts : /\ p # <<n, part>> => dirty'[p] = dirty[p]
                       /\ dirty'[p] => dirty[p]
                       /\ dirty'[p] \in BOOLEAN
  BY <1>1, <1>2 DEF WrittenTo
<1>4. SlotOwners' /\ \A v \in Vals : slot[v] # NoSlot => slot'[v] = slot[v]
  <2>1. CASE UNCHANGED <<slot, free_list, fresh>>
    BY <1>1, <2>1 DEF RoleInv, SlotOwners
  <2>2. ASSUME slot[n] = NoSlot, NEW s \in Slots, NewSlot(s), slot' = [slot EXCEPT ![n] = s]
        PROVE  SlotOwners' /\ \A v \in Vals : slot[v] # NoSlot => slot'[v] = slot[v]
    <3>1. SlotOwners'
      BY <1>1, <1>2, <2>2, NewSlotOwner DEF RoleInv
    <3> QED BY <1>2, <2>2, <3>1
  <2> QED BY <1>1, <2>1, <2>2 DEF WrittenTo
<1>5. FixedInv'
  BY <1>1, <1>2, <1>3 DEF RoleInv, FixedInv, Val
<1>6. \A p \in Parts : Before(Val(p)) => dirty'[p] = dirty[p]
  <2> SUFFICES ASSUME Before(n), NEW p \in Parts, p = <<n, part>> PROVE dirty'[p] = dirty[p]
    BY <1>3 DEF Val
  <2>1. back
    BY <1>1, <1>2 DEF Before
  <2>2. fixed[n] => dirty' = dirty
    BY <1>1 DEF WrittenTo
  <2>3. ~fixed[n] => ~dirty[p]
    BY <1>1, <2>1 DEF RoleInv, FixedInv
  <2> QED BY <1>2, <1>3, <2>2, <2>3
<1>7. AroundInv'
  <2>1. \A v : Before(v)' <=> Before(v)
    BY <1>1 DEF Before
  <2>2. \A v \in Vals : Before(v) /\ was.slot[v] # NoSlot => slot'[v] = was.slot[v]
    BY <1>4 DEF RoleInv, AroundInv
  <2> QED BY <1>1, <1>2, <1>6, <2>1, <2>2 DEF RoleInv, AroundInv, Val
<1> QED BY <1>4, <1>5, <1>7

\* The phi of the node is live from now on.
LEMMA BeginMoveFacts ==
    ASSUME PhiInv, Places, BeginMove
    PROVE  LET n == Head(ready)
           IN  /\ pc = "next" /\ pc' = "move" /\ part' = 0 /\ n \in Nodes /\ n \in Left
               /\ inc[n] # n /\ inc[n] # tmp /\ live' = [live EXCEPT ![n] = TRUE]
               /\ UNCHANGED <<inc, back, num_parts, dirty, slot, refs, free_list, fresh, rc, mem, cur_reg,
                              backup, was_modified, ref_count, ready, waiting, handled, tmp, tmp_slot, was>>
               /\ \/ UNCHANGED <<fixed, reg>>
                  \/ /\ ~back /\ num_parts = 1 /\ ~live[n]
                     /\ \E r \in Regs : own[r] = Free /\ reg' = [reg EXCEPT ![<<n, 0>>] = r]
                     /\ fixed' = [fixed EXCEPT ![n] = TRUE]
<1> DEFINE n == Head(ready)
<1>1. /\ pc = "next" /\ pc' = "move" /\ part' = 0 /\ ready # <<>>
      /\ inc[n] # n /\ inc[n] # tmp /\ live' = [live EXCEPT ![n] = TRUE]
      /\ UNCHANGED <<inc, back, num_parts, dirty, slot, refs, free_list, fresh, rc, mem, cur_reg,
                     backup, was_modified, ref_count, ready, waiting, handled, tmp, tmp_slot, was>>
  BY DEF BeginMove, edge, stack, code, wraps, lists, temps
<1>2. n \in Nodes /\ n \in Left
  BY <1>1, NextReady DEF PhiInv, Left
<1>3. ~live[n] => ~back
  BY <1>2 DEF Places, EdgeInv
<1>4. \/ UNCHANGED <<fixed, reg>>
      \/ /\ ~back /\ num_parts = 1 /\ ~live[n]
         /\ \E r \in Regs : own[r] = Free /\ reg' = [reg EXCEPT ![<<n, 0>>] = r]
         /\ fixed' = [fixed EXCEPT ![n] = TRUE]
  BY <1>3 DEF BeginMove
<1> QED BY <1>1, <1>2, <1>4

\* The new assignment takes nothing away from another value.
LEMMA BeginMoveRoles ==
    ASSUME PhiInv, Places, RoleInv, BeginMove
    PROVE  SlotOwners' /\ FixedInv' /\ AroundInv'
<1> DEFINE n == Head(ready)
<1>1. /\ n \in Nodes /\ live' = [live EXCEPT ![n] = TRUE]
      /\ UNCHANGED <<inc, back, num_parts, dirty, slot, free_list, fresh, cur_reg, backup, was_modified,
                     tmp_slot, was>>
      /\ \/ UNCHANGED <<fixed, reg>>
         \/ /\ ~back /\ num_parts = 1
            /\ \E r \in Regs : reg' = [reg EXCEPT ![<<n, 0>>] = r]
            /\ fixed' = [fixed EXCEPT ![n] = TRUE]
  BY BeginMoveFacts
<1>2. back => live[n]
  BY <1>1 DEF Places, EdgeInv
<1> HIDE DEF n
<1>3. num_parts \in 1 .. 3 /\ live \in [Vals -> BOOLEAN] /\ fixed \in [Vals -> BOOLEAN]
      /\ reg \in [Parts -> Regs \cup {NoReg}]
  BY DEF Places, PlaceTypes
<1>4. /\ Parts' = Parts /\ Idx' = Idx /\ NoReg \notin Regs /\ Nodes \subseteq Vals /\ 0 \in Idx
      /\ \A v \in Vals, i \in Idx : <<v, i>> \in Parts /\ Val(<<v, i>>) = v
      /\ \A p \in Parts : Val(p) \in Vals
      /\ \A m \in Nodes : m \notin Others
  BY <1>1, <1>3, NotAPart, PhiAssumption DEF Parts, Idx, Val, Nodes, Others
<1>5. SlotOwners'
  BY <1>1 DEF RoleInv, SlotOwners
<1>6. FixedInv'
  <2>1. CASE UNCHANGED <<fixed, reg>>
    BY <1>1, <1>4, <2>1 DEF RoleInv, FixedInv, Val
  <2>2. ASSUME ~back, num_parts = 1, NEW r \in Regs, reg' = [reg EXCEPT ![<<n, 0>>] = r],
               fixed' = [fixed EXCEPT ![n] = TRUE], NEW v \in Vals, fixed'[v]
        PROVE  reg'[<<v, 0>>] # NoReg
    <3>1. CASE v = n
      BY <1>3, <1>4, <2>2, <3>1
    <3>2. CASE v # n
      <4>1. fixed[v] /\ reg[<<v, 0>>] # NoReg /\ <<v, 0>> \in Parts /\ <<v, 0>> # <<n, 0>>
        BY <1>3, <1>4, <2>2, <3>2 DEF RoleInv, FixedInv
      <4> QED BY <1>3, <2>2, <4>1
    <3> QED BY <3>1, <3>2
  <2> QED BY <1>1, <2>1, <2>2 DEF FixedInv
<1>7. \A v \in Vals : Before(v)' => Before(v)
  <2> SUFFICES ASSUME NEW v \in Vals, live'[v], back \/ v \in Others PROVE live[v]
    BY <1>1 DEF Before
  <2>1. v # n => live'[v] = live[v]
    BY <1>1, <1>3
  <2> QED BY <1>1, <1>2, <1>4, <2>1
<1>8. \A p \in Parts : Before(Val(p)) => reg'[p] = reg[p]
  <2> SUFFICES ASSUME NEW p \in Parts, Before(Val(p)), ~back, NEW r \in Regs,
                      reg' = [reg EXCEPT ![<<n, 0>>] = r]
               PROVE  reg'[p] = reg[p]
    BY <1>1
  <2>1. Val(p) # n /\ Val(<<n, 0>>) = n
    BY <1>1, <1>4 DEF Before, Val
  <2> QED BY <1>3, <2>1
<1>9. AroundInv'
  BY <1>1, <1>4, <1>7, <1>8 DEF RoleInv, AroundInv, Val
<1> QED BY <1>5, <1>6, <1>9
----------------------------------------------------------------------------
(***************************************************************************)
(* Every step keeps the roles.                                             *)
(***************************************************************************)
\* KeepPhi, RestoreEnd and MoveEnd handle the first ready node; no other step
\* changes which nodes are left.
HandlesNode == KeepPhi \/ RestoreEnd \/ MoveEnd

\* The node handled is not left any more.
LEMMA EndLeft ==
    ASSUME PhiInv, PhiInv', HandlesNode
    PROVE  /\ pc \in {"next", "restore", "move"} /\ (MoveEnd => pc = "move") /\ ready # <<>>
           /\ Head(ready) \in Nodes /\ Head(ready) \in Left /\ Left' = Left \ {Head(ready)}
<1> DEFINE n == Head(ready)
           m == inc[n]
           X == IF MoveEnd /\ ReadyAfter(n) THEN {m} ELSE {}
<1>1. /\ pc \in {"next", "restore", "move"} /\ (MoveEnd => pc = "move")
      /\ handled' = handled + 1 /\ inc' = inc /\ pc' \in Pcs \ {"collect"}
  BY DEF HandlesNode, KeepPhi, RestoreEnd, MoveEnd, edge, ctrl, Pcs
<1>2. ready # <<>> /\ n \in Nodes
  <2>1. ready # <<>>
    BY DEF HandlesNode, KeepPhi, RestoreEnd, MoveEnd, PhiInv, StageInv
  <2> QED BY <2>1, NextReady DEF PhiInv
<1>3. /\ waiting' = waiting \ X
      /\ \/ X = {} /\ ready' = Tail(ready)
         \/ \E k : X = {k} /\ ready' = Append(Tail(ready), k)
  <2>1. CASE MoveEnd
    <3>1. IF ReadyAfter(n) THEN ready' = Append(Tail(ready), m) /\ waiting' = waiting \ {m}
          ELSE ready' = Tail(ready) /\ waiting' = waiting
      BY <2>1 DEF MoveEnd
    <3> QED BY <2>1, <3>1
  <2>2. CASE ~MoveEnd
    <3>1. ready' = Tail(ready) /\ waiting' = waiting
      BY <2>2 DEF HandlesNode, KeepPhi, RestoreEnd
    <3> QED BY <2>2, <3>1
  <2> QED BY <2>1, <2>2
<1>4. X \in SUBSET waiting
  <2>1. ReadyAfter(n) => m \in Nodes /\ ref_count[m] > 0
    BY DEF ReadyAfter
  <2> QED BY <2>1 DEF PhiInv, ListInv
<1>5. /\ ref_count' \in [Nodes -> Nat] /\ waiting' = {k \in Nodes : ref_count'[k] > 0}
      /\ tmp' \in Nodes \cup {None} /\ ListInv
  BY DEF PhiInv, ListInv
<1> HIDE DEF X, m
<1>6. Left' = Left \ {n} /\ n \in Left
  BY <1>1, <1>2, <1>3, <1>4, <1>5, NodeHandled
<1> QED BY <1>1, <1>2, <1>6

\* The other steps keep the nodes that are left.
LEMMA LeftSame == ASSUME PhiInv, PhiInv', [Next]_vars, ~HandlesNode PROVE Left' = Left
<1>1. CASE UNCHANGED <<waiting, ready>> /\ pc # "collect"
  <2>1. pc' # "collect"
    BY <1>1 DEF Next, vars, ctrl, Collect, Prepare, Break, SavePart, SaveEnd, KeepPhi, BeginRestore, RestorePart,
         RestoreEnd, FreeTmp, BeginMove, MovePart, MoveEnd, Finish, Done
  <2> QED BY <1>1, <2>1 DEF Left, InReady
<1>2. CASE Collect \/ SaveEnd
  <2>1. handled' = handled
    BY <1>2 DEF Collect, SaveEnd
  <2>2. Left' \subseteq Left
    <3>1. CASE Collect
      <4>1. Left = Nodes
        BY <3>1 DEF Collect, Left
      <4>2. Left' \subseteq Nodes
        BY DEF PhiInv, ListInv, Left, InReady
      <4> QED BY <4>1, <4>2
    <3>2. CASE SaveEnd
      <4>1. /\ ready' = Append(ready, tmp) /\ waiting' = waiting \ {tmp} /\ pc = "save" /\ pc' = "next"
        BY <3>2 DEF SaveEnd
      <4>2. tmp \in waiting /\ tmp \in Nodes /\ ready \in Seq(Nodes)
        BY <4>1 DEF PhiInv, StageInv, ListInv
      <4>3. \A k \in 1 .. Len(ready') : ready'[k] = tmp \/ (k \in 1 .. Len(ready) /\ ready'[k] = ready[k])
        BY <4>1, <4>2
      <4> QED BY <4>1, <4>2, <4>3 DEF Left, InReady
    <3> QED BY <1>2, <3>1, <3>2
  <2>3. IsFiniteSet(Left) /\ Cardinality(Left) = Cardinality(Left')
    <3>1. IsFiniteSet(Left) /\ Cardinality(Left) \in Nat
      BY LeftNodes DEF PhiInv
    <3>2. Left' \subseteq Nodes
      BY DEF PhiInv, ListInv, Left, InReady
    <3>3. Cardinality(Left') \in Nat
      BY <3>2, NodesFinite
    <3> QED BY <2>1, <3>1, <3>3 DEF PhiInv, ListInv
  <2> QED BY <2>2, <2>3, FS_Subset
<1>3. CASE pc = "collect" /\ ~Collect
  <2>1. UNCHANGED <<waiting, ready, pc>>
    BY <1>3 DEF Next, vars, lists, ctrl, Prepare, Break, SavePart, SaveEnd, KeepPhi, BeginRestore, RestorePart,
         RestoreEnd, FreeTmp, BeginMove, MovePart, MoveEnd, Finish, Done
  <2> QED BY <1>3, <2>1 DEF Left, InReady
<1>4. Collect \/ SaveEnd \/ UNCHANGED <<waiting, ready>>
  BY DEF HandlesNode, Next, vars, lists, Prepare, Break, SavePart, BeginRestore, RestorePart,
         FreeTmp, BeginMove, MovePart, Finish, Done
<1> QED BY <1>1, <1>2, <1>3, <1>4

\* What the steps that use up references do to the values.
LEMMA Releases ==
    ASSUME PhiInv, SaveEnd \/ KeepPhi \/ RestoreEnd \/ MoveEnd
    PROVE  \E use : Release(use) /\ \A u \in Vals : use[u] \in Nat
<1>1. \A S : \A u \in Vals : UseOf(S)[u] \in Nat
  BY DEF UseOf
<1>2. \A n \in Vals : \A u \in Vals : [UseOf({n}) EXCEPT ![n] = 2][u] \in Nat
  BY DEF UseOf
<1>3. CASE SaveEnd
  BY <1>1, <1>3 DEF SaveEnd
<1>4. CASE KeepPhi
  <2>1. Release([UseOf({Head(ready)}) EXCEPT ![Head(ready)] = 2]) /\ Head(ready) \in Vals
    BY <1>4, NextReady, NoneIsNoValue DEF KeepPhi, PhiInv
  <2> QED BY <1>2, <2>1
<1>5. CASE RestoreEnd
  BY <1>1, <1>5 DEF RestoreEnd
<1>6. CASE MoveEnd
  BY <1>1, <1>6 DEF MoveEnd
<1> QED BY <1>3, <1>4, <1>5, <1>6

\* A value that has references after a step was live and had them before, or
\* the step makes it live.
LEMMA RefsLive ==
    ASSUME PhiInv, Places, [Next]_vars, NEW v \in Vals, refs'[v] > 0
    PROVE  refs[v] > 0 /\ (live[v] => live'[v])
<1>1. refs \in [Vals -> Int] /\ live \in [Vals -> BOOLEAN]
  BY DEF PhiInv, RefInv, Places, PlaceTypes
<1>2. CASE \E use : Release(use) /\ \A u \in Vals : use[u] \in Nat
  <2>1. PICK use : Release(use) /\ \A u \in Vals : use[u] \in Nat
    BY <1>2
  <2>2. /\ refs'[v] = refs[v] - use[v]
        /\ live'[v] <=> live[v] /\ ~(use[v] > 0 /\ refs[v] - use[v] = 0 /\ ~Pending(v))
    BY <2>1 DEF Release
  <2> QED BY <1>1, <2>1, <2>2
<1>3. CASE refs' = refs /\ (live' = live \/ \E n : live' = [live EXCEPT ![n] = TRUE])
  BY <1>1, <1>3
<1>4. CASE SaveEnd \/ KeepPhi \/ RestoreEnd \/ MoveEnd
  BY <1>2, <1>4, Releases
<1>5. CASE ~(SaveEnd \/ KeepPhi \/ RestoreEnd \/ MoveEnd)
  <2>1. CASE Finish \/ Prepare
    <3>1. refs' = refs /\ live' = live
      BY <2>1 DEF Finish, Prepare, reset, alloc_from_bank, values
    <3> QED BY <1>3, <3>1
  <2>2. CASE ~(Finish \/ Prepare)
    BY <1>3, <1>5, <2>2 DEF Next, vars, values, Collect, Break, SavePart, BeginRestore, RestorePart, FreeTmp,
       BeginMove, MovePart, Done
  <2> QED BY <2>1, <2>2
<1> QED BY <1>4, <1>5

\* A phi is live before its node is handled.
LEMMA LiveStep == ASSUME PhiInv, PhiInv', Places, LiveInv, [Next]_vars PROVE LiveInv'
<1>1. live \in [Vals -> BOOLEAN]
  BY DEF Places, PlaceTypes
<1>2. ASSUME NEW v \in Vals, refs'[v] > 0, v \notin Nodes \cap Left' PROVE live'[v]
  <2>1. refs[v] > 0 /\ (live[v] => live'[v])
    BY <1>2, RefsLive
  <2>2. CASE v \notin Nodes \cap Left
    BY <2>1, <2>2 DEF LiveInv
  <2>3. CASE v \in Nodes \cap Left
    <3>1. HandlesNode
      BY <1>2, <2>3, LeftSame
    <3>2. v = Head(ready) /\ (MoveEnd => pc = "move")
      BY <1>2, <2>3, <3>1, EndLeft
    <3>3. back => live[v]
      BY <2>3 DEF Places, EdgeInv
    <3>4. ~back => MoveEnd
      <4>1. ~back => Collect \/ Prepare \/ Break \/ FreeTmp \/ BeginMove \/ MovePart \/ MoveEnd
                     \/ Finish \/ UNCHANGED vars
        BY ForwardSteps DEF Places
      <4>2. handled' = handled + 1 /\ handled \in Nat
        BY <3>1 DEF HandlesNode, KeepPhi, RestoreEnd, MoveEnd, PhiInv, ListInv
      <4> QED BY <4>1, <4>2 DEF Collect, Prepare, Break, FreeTmp, BeginMove, MovePart, Finish, vars, lists
    <3>5. live[v]
      BY <3>2, <3>3, <3>4 DEF LiveInv
    <3> QED BY <2>1, <3>5
  <2> QED BY <2>2, <2>3
<1>3. ASSUME pc' = "move" PROVE live'[Head(ready')]
  <2>1. BeginMove \/ (UNCHANGED <<pc, ready, live>>)
    BY <1>3 DEF Next, vars, values, lists, ctrl, Collect, Prepare, reset, alloc_from_bank, Break, SavePart,
       SaveEnd, KeepPhi, BeginRestore, RestorePart, RestoreEnd, FreeTmp, BeginMove, MovePart, MoveEnd, Finish, Done
  <2>2. CASE BeginMove
    BY <1>1, <2>2, BeginMoveFacts, NoneIsNoValue
  <2>3. CASE UNCHANGED <<pc, ready, live>>
    BY <1>3, <2>3 DEF LiveInv
  <2> QED BY <2>1, <2>2, <2>3
<1> QED BY <1>2, <1>3 DEF LiveInv

\* Parts are counted from 0 in each stage.
LEMMA PartStep == ASSUME Places, PartInv, [Next]_vars PROVE PartInv'
<1>1. num_parts' = num_parts /\ num_parts \in 1 .. 3 /\ part \in 0 .. num_parts
  BY DEF Places, PlaceTypes, PartInv, Next, vars, edge, Collect, Prepare, Break, SavePart, SaveEnd, KeepPhi,
     BeginRestore, RestorePart, RestoreEnd, FreeTmp, BeginMove, MovePart, MoveEnd, Finish, Done
<1>2. CASE part' = 0
  BY <1>1, <1>2 DEF PartInv
<1>3. CASE part' = part /\ (pc' = pc \/ (pc' \in {"restore", "done", "next"} /\ part = 0))
  BY <1>1, <1>3 DEF PartInv
<1>4. CASE SavePart \/ RestorePart \/ MovePart
  <2>1. part < num_parts /\ part' = part + 1 /\ pc' = pc /\ pc \in {"save", "restore", "move"}
    BY <1>4 DEF SavePart, RestorePart, MovePart
  <2> QED BY <1>1, <2>1 DEF PartInv
<1>5. CASE Break \/ SaveEnd \/ RestoreEnd \/ BeginMove \/ MoveEnd
  BY <1>2, <1>5 DEF Break, SaveEnd, RestoreEnd, BeginMove, MoveEnd
<1>6. CASE Collect \/ BeginRestore \/ FreeTmp \/ Finish
  <2>1. part' = part /\ pc \in {"collect", "next", "free_tmp"} /\ pc' \in {"restore", "done", "next"}
    BY <1>6 DEF Collect, BeginRestore, FreeTmp, Finish
  <2> QED BY <1>3, <2>1 DEF PartInv
<1>7. CASE Prepare \/ KeepPhi \/ Done \/ UNCHANGED vars
  BY <1>3, <1>7 DEF Prepare, KeepPhi, Done, vars, ctrl
<1> QED BY <1>4, <1>5, <1>6, <1>7 DEF Next

\* Steps that leave values, slots and wrappers alone.
LEMMA RolesFrame ==
    ASSUME SlotOwners, FixedInv, AroundInv,
           UNCHANGED <<inc, back, num_parts, live, fixed, reg, dirty, slot, free_list, fresh,
                       cur_reg, backup, was_modified, tmp_slot, was>>
    PROVE  SlotOwners' /\ FixedInv' /\ AroundInv'
<1>1. SlotOwners' /\ FixedInv'
  BY DEF SlotOwners, FixedInv, Val, Idx
<1>2. AroundInv'
  BY DEF AroundInv, Before, Parts, Idx, Val
<1> QED BY <1>1, <1>2

\* The steps that take or give back the temporary slot.
LEMMA TmpSlotRoles ==
    ASSUME Places, StackInv, SlotOwners, FixedInv, AroundInv, Break \/ FreeTmp
    PROVE  SlotOwners' /\ FixedInv' /\ AroundInv'
<1>1. UNCHANGED <<inc, back, num_parts, live, fixed, reg, dirty, slot, cur_reg, backup, was_modified, was>>
  BY DEF Break, FreeTmp, edge, values, wraps
<1>2. FixedInv'
  BY <1>1 DEF FixedInv, Val, Idx
<1>3. AroundInv'
  BY <1>1 DEF AroundInv, Before, Parts, Idx, Val
<1>4. NoSlot \notin Slots
  BY PhiAssumption
<1>5. SlotOwners'
  <2>1. CASE UNCHANGED <<free_list, fresh, tmp_slot>>
    BY <1>1, <2>1 DEF SlotOwners
  <2>2. ASSUME NEW s \in Slots, NewSlot(s), tmp_slot' = s PROVE SlotOwners'
    <3>1. s \in free_list \cup fresh /\ free_list' = free_list \ {s} /\ fresh' = fresh \ {s}
      BY <2>2 DEF NewSlot
    <3> QED BY <1>1, <2>2, <3>1 DEF SlotOwners
  <2>3. CASE FreeTmp
    <3>1. free_list' = free_list \cup {tmp_slot} /\ fresh' = fresh /\ tmp_slot' = NoSlot
          /\ tmp_slot # NoSlot
      BY <2>3 DEF FreeTmp, StackInv
    <3> QED BY <1>1, <1>4, <3>1 DEF SlotOwners, StackInv
  <2>4. CASE Break
    <3>1. IF num_parts > 2 THEN \E s \in Slots : NewSlot(s) /\ tmp_slot' = s
                           ELSE UNCHANGED <<tmp_slot, stack>>
      BY <2>4 DEF Break
    <3> QED BY <2>1, <2>2, <3>1 DEF stack
  <2> QED BY <2>3, <2>4
<1> QED BY <1>2, <1>3, <1>5

\* Every step keeps the roles of slots, fixed registers and wrappers.
LEMMA RoleStep == ASSUME PhiInv, PhiInv', PlaceInv, RoleInv, [Next]_vars PROVE RoleInv'
<1>1. LiveInv' /\ PartInv'
  BY LiveStep, PartStep DEF PlaceInv, RoleInv
<1>2. Places /\ StackInv /\ SlotLists /\ SlotOwners /\ FixedInv /\ BackupInv /\ AroundInv
  BY DEF PlaceInv, StackInv, SlotLists, RoleInv
<1> SUFFICES SlotOwners' /\ FixedInv' /\ BackupInv' /\ AroundInv'
  BY <1>1 DEF RoleInv
<1> DEFINE Freed == \A w \in WrapperSet : cur_reg[w] = NoReg => backup[w] = None
<1>3. CASE Collect \/ SavePart \/ BeginRestore \/ RestorePart \/ Done \/ UNCHANGED vars
  <2>1. /\ UNCHANGED <<inc, back, num_parts, live, fixed, reg, dirty, slot, free_list, fresh,
                       cur_reg, backup, was_modified, tmp_slot, was>>
        /\ (pc' = "done" => pc = "done")
    BY <1>3 DEF Collect, SavePart, BeginRestore, RestorePart, Done, vars, edge, values, stack, wraps, temps
  <2> QED BY <1>2, <2>1, RolesFrame DEF BackupInv
<1>4. CASE Prepare
  <2>1. PICK x \in Wanted : reset(x[1]) \/ alloc_from_bank(x[1], x[2])
    BY <1>4 DEF Prepare
  <2>2. x[1] \in WrapperSet
    BY WantedWrapper
  <2>3. UNCHANGED <<inc, back, num_parts, was, tmp_slot, pc>>
    BY <1>4 DEF Prepare, edge, temps, ctrl
  <2>4. pc # "done"
    BY DEF Wanted
  <2>5. SlotOwners' /\ FixedInv' /\ AroundInv' /\ Freed'
    <3>1. CASE reset(x[1])
      BY <1>2, <2>2, <2>3, <3>1, ResetRoles
    <3>2. CASE alloc_from_bank(x[1], x[2])
      BY <1>2, <2>2, <2>3, <3>2, AllocRoles
    <3> QED BY <2>1, <3>1, <3>2
  <2> QED BY <2>3, <2>4, <2>5 DEF BackupInv
<1>5. CASE Break \/ FreeTmp
  <2>1. UNCHANGED <<cur_reg, backup>> /\ pc' # "done"
    BY <1>5 DEF Break, FreeTmp, wraps
  <2> QED BY <1>2, <1>5, <2>1, TmpSlotRoles DEF BackupInv
<1>6. CASE SaveEnd \/ KeepPhi \/ RestoreEnd \/ MoveEnd
  <2>1. PICK use : Release(use) /\ \A u \in Vals : use[u] \in Nat
    BY <1>6, Releases
  <2>2. UNCHANGED <<inc, back, num_parts, was, tmp_slot, cur_reg, backup, was_modified>> /\ pc' # "done"
    BY <1>6 DEF SaveEnd, KeepPhi, RestoreEnd, MoveEnd, edge, wraps, temps, ctrl
  <2>3. refs \in [Vals -> Int]
    BY DEF PhiInv, RefInv
  <2>4. SlotOwners' /\ FixedInv' /\ AroundInv'
    BY <1>2, <2>1, <2>2, <2>3, ReleaseRoles
  <2> QED BY <1>2, <2>2, <2>4 DEF BackupInv
<1>7. CASE BeginMove
  <2>1. UNCHANGED <<cur_reg, backup>> /\ pc' # "done"
    BY <1>7 DEF BeginMove, wraps
  <2> QED BY <1>2, <1>7, <2>1, BeginMoveRoles DEF BackupInv
<1>8. CASE MovePart
  <2>1. UNCHANGED <<cur_reg, backup, pc>> /\ pc = "move"
    BY <1>8 DEF MovePart, wraps
  <2> QED BY <1>2, <1>8, <2>1, MovePartRoles DEF BackupInv
<1>9. CASE Finish
  <2>1. UNCHANGED <<inc, back, num_parts, was, tmp_slot>> /\ pc = "next"
    BY <1>9 DEF Finish, edge, temps
  <2>2. CASE \A w \in WrapperSet : cur_reg[w] = NoReg
    <3>1. UNCHANGED <<live, fixed, reg, dirty, slot, free_list, fresh, cur_reg, backup, was_modified>>
      BY <1>9, <2>2 DEF Finish, values, stack, wraps
    <3> QED BY <1>2, <2>1, <2>2, <3>1, RolesFrame DEF BackupInv
  <2>3. CASE ~ \A w \in WrapperSet : cur_reg[w] = NoReg
    <3>1. pc' = pc
      BY <1>9, <2>3 DEF Finish
    <3>2. PICK w \in WrapperSet : reset(w)
      BY <1>9, <2>1, <3>1, FinishWrapper
    <3>3. SlotOwners' /\ FixedInv' /\ AroundInv' /\ Freed'
      BY <1>2, <2>1, <3>2, ResetRoles
    <3> QED BY <2>1, <3>1, <3>3 DEF BackupInv
  <2> QED BY <2>2, <2>3
<1> QED BY <1>3, <1>4, <1>5, <1>6, <1>7, <1>8, <1>9 DEF Next

\* Before the edge a value has its own slot, or none.
LEMMA RolesInit == Init => RoleInv
<1> SUFFICES ASSUME Init PROVE RoleInv
  OBVIOUS
<1>1. Places /\ num_parts \in 1 .. 3
  BY PlacesInit DEF PlaceInv, Places, PlaceTypes
<1>2. /\ Nodes \subseteq Vals /\ NoSlot \notin Slots /\ 0 \in Idx
      /\ \A v \in Vals, i \in Idx : <<v, i>> \in Parts /\ Val(<<v, i>>) = v
      /\ \A p \in Parts : Val(p) \in Vals
      /\ \A n \in Nodes : n \notin Others
      /\ Vals = Nodes \cup Others /\ Vals \subseteq Slots
  BY <1>1, NotAPart, PhiAssumption DEF Parts, Val, Vals, Nodes, Others
<1>3. /\ live = [v \in Vals |-> v \in Others \/ back]
      /\ slot = [v \in Vals |-> IF \E i \in Idx : ~dirty[<<v, i>>] THEN v ELSE NoSlot]
      /\ fresh = {s \in Slots : \A v \in Vals : slot[v] # s} /\ free_list = {}
      /\ cur_reg = [w \in WrapperSet |-> NoReg] /\ backup = [w \in WrapperSet |-> None]
      /\ was_modified = [w \in WrapperSet |-> FALSE]
      /\ tmp_slot = NoSlot /\ pc = "collect" /\ part = 0
  BY DEF Init
<1>4. was.reg = reg /\ was.dirty = dirty /\ was.slot = slot
  BY DEF Init
<1>5. PICK F : /\ F \subseteq {v \in Vals : num_parts = 1 /\ reg[<<v, 0>>] # NoReg}
               /\ fixed = [v \in Vals |-> v \in F]
  <2>1. \E F \in SUBSET {v \in Vals : num_parts = 1 /\ reg[<<v, 0>>] # NoReg} :
           /\ Cardinality(F) <= MaxFixed
           /\ fixed = [v \in Vals |-> v \in F]
    BY Zenon DEF Init
  <2> QED BY <2>1
<1>6. PICK D : /\ D \subseteq {p \in Parts : Val(p) \in Others /\ reg[p] # NoReg}
               /\ dirty = [p \in Parts |-> p \in D \/ fixed[Val(p)] \/ ~live[Val(p)]]
  <2>1. \E D \in SUBSET {p \in Parts : Val(p) \in Others /\ reg[p] # NoReg} :
           dirty = [p \in Parts |-> p \in D \/ fixed[Val(p)] \/ ~live[Val(p)]]
    BY Zenon DEF Init
  <2> QED BY <2>1
<1>7. SlotOwners
  <2>1. \A v \in Vals : slot[v] \in {v, NoSlot}
    BY <1>3
  <2> QED BY <1>2, <1>3, <2>1 DEF SlotOwners
<1>8. FixedInv
  <2>1. ASSUME back, NEW n \in Nodes, ~fixed[n], NEW i \in Idx PROVE ~dirty[<<n, i>>]
    BY <1>2, <1>3, <1>6, <2>1
  <2> QED BY <1>3, <1>5, <2>1 DEF FixedInv
<1>9. LiveInv /\ PartInv /\ BackupInv
  <2>1. LiveInv
    BY <1>2, <1>3 DEF LiveInv, Left
  <2>2. PartInv
    BY <1>1, <1>3 DEF PartInv
  <2>3. BackupInv
    BY <1>3 DEF BackupInv
  <2> QED BY <2>1, <2>2, <2>3
<1>10. AroundInv
  <2>1. \A p \in Parts : live[Val(p)] /\ ~dirty[p] => slot[Val(p)] # NoSlot
    BY <1>1 DEF Places, SlotsInv
  <2>2. \A p \in Parts, w \in WrapperSet : backup[w] # p
    BY <1>1, <1>3, NotAPart
  <2> QED BY <1>4, <2>1, <2>2 DEF AroundInv, Before
<1> QED BY <1>7, <1>8, <1>9, <1>10 DEF RoleInv
----------------------------------------------------------------------------
(***************************************************************************)
(* Contents.                                                               *)
(***************************************************************************)
\* Values and parts.
LEMMA PartFacts ==
    ASSUME Places
    PROVE  /\ num_parts \in 1 .. 3 /\ NoReg \notin Regs /\ NoSlot \notin Slots /\ 0 \in Idx
           /\ Vals = Nodes \cup Others /\ Vals \subseteq Slots /\ \A n \in Nodes : n \notin Others
           /\ \A v \in Vals, i \in Idx : <<v, i>> \in Parts /\ Val(<<v, i>>) = v /\ <<v, i>>[2] = i
           /\ \A p \in Parts : Val(p) \in Vals /\ p[2] \in Idx /\ p = <<Val(p), p[2]>>
<1>1. num_parts \in 1 .. 3
  BY DEF Places, PlaceTypes
<1>2. \A n \in Nodes : n \notin Others
  BY PhiAssumption DEF Nodes, Others
<1> QED BY <1>1, <1>2, NotAPart DEF Vals, Parts, Val

\* No register is used twice.
LEMMA OneUser ==
    ASSUME Places
    PROVE  /\ \A p \in Parts : reg[p] # NoReg => reg[p] \in Regs
           /\ \A p, q \in Parts : reg[p] # NoReg /\ reg[p] = reg[q] => p = q
           /\ \A w \in WrapperSet : cur_reg[w] # NoReg =>
                 /\ cur_reg[w] \in Regs
                 /\ \A p \in Parts : reg[p] # cur_reg[w]
                 /\ \A x \in WrapperSet : cur_reg[x] = cur_reg[w] => x = w
<1>1. num_parts \in 1 .. 3
  BY DEF Places, PlaceTypes
<1>2. reg \in [Parts -> Regs \cup {NoReg}] /\ cur_reg \in [WrapperSet -> Regs \cup {NoReg}]
  BY DEF Places, PlaceTypes
<1> QED BY <1>1, <1>2, NotAPart DEF Places, OwnersInv

\* A store changes one part of one slot, and no slot has two users.
LEMMA StoreKeeps ==
    ASSUME Places, CodeTypes, SlotOwners', slot' \in [Vals -> Slots \cup {NoSlot}],
           tmp_slot \in Slots \cup {NoSlot}, UNCHANGED <<num_parts, tmp_slot>>,
           NEW p \in Parts, NEW c, slot'[Val(p)] # NoSlot,
           mem' = Store(slot'[Val(p)], p[2], c), \A v \in Vals : slot[v] # NoSlot => slot'[v] = slot[v]
    PROVE  /\ DOMAIN mem' = Slots /\ \A s \in Slots : DOMAIN mem'[s] = Idx
           /\ mem'[slot'[Val(p)]][p[2]] = c
           /\ \A v \in Vals, i \in Idx : slot[v] # NoSlot /\ <<v, i>> # p =>
                 mem'[slot'[v]][i] = mem[slot[v]][i]
           /\ tmp_slot # NoSlot => mem'[tmp_slot] = mem[tmp_slot]
<1> DEFINE s == slot'[Val(p)]
<1>1. /\ s \in Slots /\ Val(p) \in Vals /\ p[2] \in Idx /\ p = <<Val(p), p[2]>>
  BY PartFacts
<1>2. mem' = [mem EXCEPT ![s] = [mem[s] EXCEPT ![p[2]] = c]]
  BY DEF Store
<1>3. DOMAIN mem = Slots /\ \A t \in Slots : DOMAIN mem[t] = Idx
  BY DEF CodeTypes
<1>4. /\ \A v \in Vals : slot'[v] # NoSlot /\ slot'[v] = s => v = Val(p)
      /\ tmp_slot # NoSlot => tmp_slot # s
  BY <1>1 DEF SlotOwners
<1> HIDE DEF s
<1>5. /\ DOMAIN mem' = Slots
      /\ mem'[s] = [mem[s] EXCEPT ![p[2]] = c] /\ \A t \in Slots : t # s => mem'[t] = mem[t]
  BY <1>1, <1>2, <1>3
<1>6. mem'[s][p[2]] = c /\ \A i \in Idx : i # p[2] => mem'[s][i] = mem[s][i]
  BY <1>1, <1>3, <1>5
<1>7. \A t \in Slots : DOMAIN mem'[t] = Idx
  BY <1>1, <1>3, <1>5
<1>8. ASSUME NEW v \in Vals, NEW i \in Idx, slot[v] # NoSlot, <<v, i>> # p
      PROVE  mem'[slot'[v]][i] = mem[slot[v]][i]
  <2>1. slot'[v] = slot[v] /\ slot'[v] \in Slots
    BY <1>8
  <2>2. CASE slot'[v] = s
    BY <1>1, <1>4, <1>6, <1>8, <2>1, <2>2
  <2>3. CASE slot'[v] # s
    BY <1>5, <2>1, <2>3
  <2> QED BY <2>2, <2>3
<1>9. tmp_slot # NoSlot => mem'[tmp_slot] = mem[tmp_slot]
  BY <1>4, <1>5
<1> QED BY <1>5, <1>6, <1>7, <1>8, <1>9 DEF s

\* Where a value that may be read is, there is its content; so is a constant.
LEMMA ReadRight ==
    ASSUME Places, ContentInv, NEW v \in Vals \cup Consts, NEW i \in Idx,
           v \in Vals => live[v] /\ Readable(v)
    PROVE  Read(<<v, i>>) = <<v, i>>
<1>1. Val(<<v, i>>) = v
  BY DEF Val
<1>2. CASE v \in Consts
  BY <1>1, <1>2 DEF Read
<1>3. CASE v \notin Consts
  <2>1. <<v, i>> \in Parts /\ <<v, i>>[2] = i /\ live[v] /\ Readable(v)
    BY <1>3, PartFacts
  <2>2. Right(v, i)
    BY <1>3, <2>1 DEF ContentInv
  <2> QED BY <1>1, <1>3, <2>1, <2>2 DEF Read, Right
<1> QED BY <1>2, <1>3

\* The code of a step that changes neither the places of the values nor the
\* contents of those places.
LEMMA CopyFrame ==
    ASSUME Places, FixedInv, ContentInv, PlacedInv, HomeInv,
           UNCHANGED <<inc, back, num_parts, live, fixed, reg, dirty, slot, was>>,
           \A v \in Vals : Readable(v)' => Readable(v),
           \A n \in Nodes, i \in Idx : Moved(n, i)' => Moved(n, i),
           \A p \in Parts : reg[p] # NoReg => rc'[reg[p]] = rc[reg[p]],
           \A v \in Vals, i \in Idx : slot[v] # NoSlot => mem'[slot[v]][i] = mem[slot[v]][i]
    PROVE  ContentInv' /\ PlacedInv' /\ HomeInv'
<1>1. Idx' = Idx /\ Parts' = Parts /\ 0 \in Idx /\ Nodes \subseteq Vals
      /\ \A v \in Vals, i \in Idx : <<v, i>> \in Parts /\ Val(<<v, i>>) = v /\ <<v, i>>[2] = i
      /\ \A p \in Parts : Val(p) \in Vals /\ p[2] \in Idx /\ p = <<Val(p), p[2]>>
  BY PartFacts DEF Idx, Parts
<1>2. ContentInv'
  <2> SUFFICES ASSUME NEW v \in Vals, NEW i \in Idx, live[v], Readable(v)' PROVE Right(v, i)'
    BY <1>1 DEF ContentInv
  <2>1. Right(v, i) /\ (~dirty[<<v, i>>] => slot[v] # NoSlot)
    BY <1>1 DEF ContentInv, Places, SlotsInv
  <2> QED BY <1>1, <2>1 DEF Right
<1>3. PlacedInv'
  <2> SUFFICES ASSUME NEW n \in Nodes, NEW i \in Idx, live[n], Moved(n, i)' PROVE Placed(n, i)'
    BY <1>1 DEF PlacedInv
  <2>1. Placed(n, i) /\ <<n, i>> \in Parts /\ <<n, 0>> \in Parts /\ n \in Vals
    BY <1>1 DEF PlacedInv
  <2>2. CASE fixed[n]
    BY <1>1, <2>1, <2>2 DEF Placed, FixedInv
  <2>3. CASE ~fixed[n]
    <3>1. slot[n] # NoSlot
      BY <1>1, <2>1, <2>3 DEF Placed, Places, SlotsInv
    <3> QED BY <1>1, <2>1, <2>3, <3>1 DEF Placed
  <2> QED BY <2>2, <2>3
<1>4. HomeInv'
  BY <1>1 DEF HomeInv, Place
<1> QED BY <1>2, <1>3, <1>4

\* move_to_phi reads the incoming value, which has not been overwritten.
LEMMA MoveReads ==
    ASSUME PhiInv, Places, LiveInv, ContentInv, pc = "move", NEW i \in Idx
    PROVE  Read(<<inc[Head(ready)], i>>) = <<inc[Head(ready)], i>>
<1> DEFINE n == Head(ready)
           m == inc[n]
<1>1. n \in Nodes /\ n \in Left /\ m # n /\ m # tmp /\ m \in Vals \cup Consts
  <2>1. ready # <<>> /\ m # n /\ m # tmp
    BY DEF PhiInv, StageInv
  <2>2. n \in Nodes /\ n \in Left
    BY <2>1, NextReady DEF PhiInv, Left
  <2> QED BY <2>1, <2>2 DEF PhiInv, ListInv
<1>2. n \in Readers_left(m) \ {m}
  BY <1>1 DEF Readers_left
<1> HIDE DEF n
<1>3. CASE m \in Nodes
  <2>1. back
    BY <1>1, <1>3 DEF Places, EdgeInv
  <2>2. ref_count[m] = Cardinality(Readers_left(m) \ {m}) /\ ref_count[m] \in Nat
    BY <1>1, <1>3 DEF PhiInv, CountInv, Kept, ListInv
  <2>3. ref_count[m] # 0
    <3>1. Readers_left(m) \in SUBSET Nodes
      BY LeftNodes DEF PhiInv
    <3>2. IsFiniteSet(Readers_left(m) \ {m})
      BY <3>1, NodesFinite, FS_Subset
    <3> QED BY <1>2, <2>2, <3>2, FS_EmptySet
  <2>4. m \in waiting
    BY <1>3, <2>2, <2>3 DEF PhiInv, ListInv
  <2>5. Readable(m)
    BY <1>1, <2>1, <2>4 DEF Readable, Left, Moving, n
  <2>6. live[m]
    BY <1>3, <2>1 DEF Places, EdgeInv
  <2> QED BY <1>1, <2>5, <2>6, ReadRight DEF n
<1>4. CASE m \in Others
  <2>1. m \in Vals /\ m \notin Nodes
    BY <1>4, PartFacts
  <2>2. m \notin Left /\ ~Kept(m)
    <3>1. Left \in SUBSET Nodes /\ tmp \in Nodes \cup {None}
      BY LeftNodes DEF PhiInv, ListInv
    <3> QED BY <1>1, <2>1, <3>1 DEF Kept
  <2>3. refs[m] > 0
    <3>1. refs[m] = was.later[m] + Cardinality(Readers_left(m)) /\ was.later[m] \in Nat
      BY <2>1, <2>2, LeftNodes DEF PhiInv, RefInv
    <3>2. Cardinality(Readers_left(m)) \in Nat /\ Cardinality(Readers_left(m)) # 0
      BY <1>2, LeftNodes, FS_EmptySet DEF PhiInv
    <3> QED BY <3>1, <3>2
  <2>4. live[m]
    BY <2>1, <2>3 DEF LiveInv
  <2> QED BY <1>1, <1>4, <2>4, ReadRight DEF n, Readable
<1>5. CASE m \in Consts /\ m \notin Vals
  BY <1>1, <1>5, ReadRight DEF n
<1> QED BY <1>1, <1>3, <1>4, <1>5, PartFacts

\* A phi that breaks a cycle has not been overwritten when it is saved.
LEMMA SaveReads ==
    ASSUME PhiInv, Places, ContentInv, pc = "save", NEW i \in Idx
    PROVE  Read(<<tmp, i>>) = <<tmp, i>>
<1>1. tmp \in Nodes /\ ref_count[tmp] = 1 /\ \E m \in Left : inc[m] = tmp
  BY DEF PhiInv, StageInv, OneReader, Readers_left
<1>2. tmp \in waiting /\ back
  <2>1. Left \in SUBSET Nodes
    BY LeftNodes DEF PhiInv
  <2> QED BY <1>1, <2>1 DEF PhiInv, ListInv, Places, EdgeInv
<1>3. live[tmp] /\ Readable(tmp)
  BY <1>1, <1>2 DEF Places, EdgeInv, Readable, Left, Moving
<1> QED BY <1>1, <1>3, ReadRight, PartFacts

\* A part of a phi that nobody reads any more is written.
LEMMA WriteCopy ==
    ASSUME Places, RoleInv, CopyInv, SlotOwners', tmp_slot \in Slots \cup {NoSlot},
           pc \in {"move", "restore"}, NEW n \in Nodes, n = Head(ready), live[n],
           part \in Idx, part' = part + 1,
           UNCHANGED <<inc, back, num_parts, live, fixed, reg, ready, waiting, cur_reg, tmp, tmp_slot, pc>>,
           NEW x, WrittenTo(n, <<inc[n], part>>, x), DOMAIN x = Regs,
           \A p \in Parts : reg[p] # NoReg => x[reg[p]] = rc[reg[p]],
           tmp \in Nodes /\ num_parts <= 2 => \A i \in Idx : x[cur_reg[TmpReg(i)]] = rc[cur_reg[TmpReg(i)]],
           DOMAIN was'.home = Nodes, was'.home[n] = Place(n)',
           \A m \in Nodes : m # n => was'.home[m] = was.home[m]
    PROVE  CopyInv'
<1> DEFINE c == <<inc[n], part>>
           p == <<n, part>>
           h == reg[<<n, 0>>]
<1>1. /\ num_parts \in 1 .. 3 /\ NoReg \notin Regs /\ NoSlot \notin Slots /\ 0 \in Idx
      /\ Vals = Nodes \cup Others /\ n \in Vals /\ n \notin Others
      /\ \A v \in Vals, i \in Idx : <<v, i>> \in Parts /\ Val(<<v, i>>) = v /\ <<v, i>>[2] = i
      /\ Idx' = Idx /\ Parts' = Parts /\ \A i \in Idx : i \in Nat
  BY PartFacts DEF Idx, Parts
<1>2. /\ \A v : Readable(v)' <=> Readable(v)
      /\ \A m \in Nodes, i \in Idx : Moved(m, i)' <=> Moved(m, i) \/ (m = n /\ i = part)
      /\ \A v \in Vals : Readable(v) => v # n
  <2>1. Left' = Left /\ Moving' = Moving /\ Moving = {n}
    BY DEF Left, InReady, Moving
  <2>2. \A i \in Idx : i < part + 1 <=> i < part \/ i = part
    BY <1>1
  <2> QED BY <1>1, <2>1, <2>2 DEF Readable, Moved
<1>3. SlotOwners /\ FixedInv /\ CodeTypes /\ ContentInv /\ SavedInv /\ PlacedInv /\ HomeInv
  BY DEF RoleInv, CopyInv
<1>4. \A v \in Vals, i \in Idx : live[v] /\ ~dirty[<<v, i>>] => slot[v] # NoSlot
  BY <1>1 DEF Places, SlotsInv
<1>5. /\ dirty \in [Parts -> BOOLEAN] /\ slot \in [Vals -> Slots \cup {NoSlot}]
      /\ reg \in [Parts -> Regs \cup {NoReg}] /\ cur_reg \in [WrapperSet -> Regs \cup {NoReg}]
  BY DEF Places, PlaceTypes
<1>6. \A i \in Idx : TmpReg(i) \in WrapperSet
  BY DEF TmpReg, WrapperSet
<1>7. CASE fixed[n]
  <2>1. /\ UNCHANGED <<slot, mem, dirty>> /\ rc' = [x EXCEPT ![h] = c]
    BY <1>7 DEF WrittenTo
  <2>2. h \in Regs /\ part = 0 /\ Idx = {0}
    BY <1>1, <1>3, <1>5, <1>7 DEF FixedInv, Idx
  <2>3. /\ \A v \in Vals, i \in Idx : v # n /\ reg[<<v, i>>] # NoReg => rc'[reg[<<v, i>>]] = rc[reg[<<v, i>>]]
        /\ rc'[h] = c
    <3>1. \A v \in Vals, i \in Idx : v # n /\ reg[<<v, i>>] # NoReg => reg[<<v, i>>] # h /\ reg[<<v, i>>] \in Regs
      BY <1>1, OneUser
    <3> QED BY <1>1, <2>1, <2>2, <3>1
  <2>4. CodeTypes'
    BY <1>1, <1>3, <2>1 DEF CodeTypes
  <2>5. ContentInv'
    <3> SUFFICES ASSUME NEW v \in Vals, NEW i \in Idx, live[v], Readable(v) PROVE Right(v, i)'
      BY <1>1, <1>2 DEF ContentInv
    <3>1. v # n /\ Right(v, i)
      BY <1>2, <1>3 DEF ContentInv
    <3>2. reg[<<v, i>>] # NoReg => rc'[reg[<<v, i>>]] = rc[reg[<<v, i>>]]
      BY <2>3, <3>1
    <3> QED BY <2>1, <3>1, <3>2 DEF Right
  <2>6. SavedInv'
    <3>1. tmp \in Nodes /\ num_parts <= 2 => \A i \in Idx : cur_reg[TmpReg(i)] # NoReg =>
             rc'[cur_reg[TmpReg(i)]] = rc[cur_reg[TmpReg(i)]]
      <4>1. \A i \in Idx : cur_reg[TmpReg(i)] # NoReg => h # cur_reg[TmpReg(i)] /\ cur_reg[TmpReg(i)] \in Regs
        BY <1>1, <1>6, OneUser
      <4> QED BY <2>1, <2>2, <4>1
    <3> QED BY <1>1, <1>3, <2>1, <3>1 DEF SavedInv
  <2>7. PlacedInv'
    <3> SUFFICES ASSUME NEW m \in Nodes, NEW i \in Idx, live[m], Moved(m, i)' PROVE Placed(m, i)'
      BY <1>1 DEF PlacedInv
    <3>1. CASE m = n
      BY <1>7, <2>2, <2>3, <3>1 DEF Placed
    <3>2. CASE m # n
      <4>1. Placed(m, i) /\ m \in Vals
        BY <1>1, <1>2, <1>3, <3>2 DEF PlacedInv
      <4>2. fixed[m] => reg[<<m, 0>>] # NoReg
        BY <1>3, <4>1 DEF FixedInv
      <4> QED BY <1>1, <2>1, <2>3, <3>2, <4>1, <4>2 DEF Placed
    <3> QED BY <3>1, <3>2
  <2>8. HomeInv'
    BY <1>1, <1>2, <1>3, <2>1 DEF HomeInv, Place
  <2> QED BY <2>4, <2>5, <2>6, <2>7, <2>8 DEF CopyInv
<1>8. CASE ~fixed[n]
  <2>1. /\ slot'[n] # NoSlot /\ rc' = x /\ mem' = Store(slot'[n], part, c)
        /\ dirty' = [dirty EXCEPT ![p] = FALSE]
        /\ slot' = slot \/ (slot[n] = NoSlot /\ \E s \in Slots : slot' = [slot EXCEPT ![n] = s])
    BY <1>8 DEF WrittenTo
  <2>2. /\ slot' \in [Vals -> Slots \cup {NoSlot}] /\ \A v \in Vals : slot[v] # NoSlot => slot'[v] = slot[v]
        /\ \A v \in Vals : v # n => slot'[v] = slot[v]
    BY <1>1, <1>5, <2>1
  <2>3. p \in Parts /\ Val(p) = n /\ p[2] = part
    BY <1>1
  <2>4. /\ DOMAIN mem' = Slots /\ \A s \in Slots : DOMAIN mem'[s] = Idx
        /\ mem'[slot'[n]][part] = c
        /\ \A v \in Vals, i \in Idx : slot[v] # NoSlot /\ <<v, i>> # p => mem'[slot'[v]][i] = mem[slot[v]][i]
        /\ tmp_slot # NoSlot => mem'[tmp_slot] = mem[tmp_slot]
    <3>1. slot'[Val(p)] # NoSlot /\ mem' = Store(slot'[Val(p)], p[2], c)
      BY <2>1, <2>3
    <3> HIDE DEF c, p
    <3>2. /\ DOMAIN mem' = Slots /\ \A s \in Slots : DOMAIN mem'[s] = Idx
          /\ mem'[slot'[Val(p)]][p[2]] = c
          /\ \A v \in Vals, i \in Idx : slot[v] # NoSlot /\ <<v, i>> # p => mem'[slot'[v]][i] = mem[slot[v]][i]
          /\ tmp_slot # NoSlot => mem'[tmp_slot] = mem[tmp_slot]
      BY <1>3, <2>2, <2>3, <3>1, StoreKeeps
    <3> QED BY <2>3, <3>2
  <2>5. \A v \in Vals, i \in Idx : dirty'[<<v, i>>] = IF v = n /\ i = part THEN FALSE ELSE dirty[<<v, i>>]
    BY <1>1, <1>5, <2>1
  <2>6. CodeTypes'
    BY <1>1, <2>1, <2>4 DEF CodeTypes
  <2>7. ContentInv'
    <3> SUFFICES ASSUME NEW v \in Vals, NEW i \in Idx, live[v], Readable(v) PROVE Right(v, i)'
      BY <1>1, <1>2 DEF ContentInv
    <3>1. v # n /\ Right(v, i) /\ <<v, i>> # p
      BY <1>2, <1>3 DEF ContentInv
    <3>2. dirty'[<<v, i>>] = dirty[<<v, i>>]
      BY <2>5, <3>1
    <3>3. reg[<<v, i>>] # NoReg => rc'[reg[<<v, i>>]] = rc[reg[<<v, i>>]]
      BY <1>1, <2>1
    <3>4. ~dirty[<<v, i>>] => mem'[slot'[v]][i] = mem[slot[v]][i]
      BY <1>4, <2>4, <3>1
    <3> QED BY <3>1, <3>2, <3>3, <3>4 DEF Right
  <2>8. SavedInv'
    <3>1. pc # "save" /\ pc # "free_tmp"
      OBVIOUS
    <3>2. tmp \in Nodes /\ num_parts <= 2 => \A i \in Idx :
             cur_reg[TmpReg(i)] # NoReg /\ x[cur_reg[TmpReg(i)]] = <<tmp, i>>
      BY <1>3, <3>1 DEF SavedInv
    <3>3. tmp \in Nodes /\ ~(num_parts <= 2) => tmp_slot # NoSlot /\ \A i \in Idx : mem'[tmp_slot][i] = <<tmp, i>>
      <4>1. tmp \in Nodes /\ ~(num_parts <= 2) => tmp_slot # NoSlot
        BY <1>1, <1>3 DEF SavedInv
      <4> QED BY <1>3, <2>4, <3>1, <4>1 DEF SavedInv
    <3> QED BY <1>1, <2>1, <3>1, <3>2, <3>3 DEF SavedInv
  <2>9. PlacedInv'
    <3> SUFFICES ASSUME NEW m \in Nodes, NEW i \in Idx, live[m], Moved(m, i)' PROVE Placed(m, i)'
      BY <1>1 DEF PlacedInv
    <3>1. CASE m = n /\ i = part
      BY <1>1, <1>8, <2>4, <2>5, <3>1 DEF Placed
    <3>2. CASE ~(m = n /\ i = part)
      <4>1. Placed(m, i) /\ m \in Vals /\ <<m, i>> # p
        BY <1>1, <1>2, <1>3, <3>2 DEF PlacedInv
      <4>2. CASE fixed[m]
        <5>1. reg[<<m, 0>>] # NoReg
          BY <1>3, <4>1, <4>2 DEF FixedInv
        <5> QED BY <1>1, <2>1, <4>1, <4>2, <5>1 DEF Placed
      <4>3. CASE ~fixed[m]
        <5>1. slot[m] # NoSlot
          BY <1>4, <4>1, <4>3 DEF Placed
        <5> QED BY <2>4, <2>5, <3>2, <4>1, <4>3, <5>1 DEF Placed
      <4> QED BY <4>2, <4>3
    <3> QED BY <3>1, <3>2
  <2>10. HomeInv'
    BY <1>1, <1>2, <1>3, <2>2 DEF HomeInv, Place
  <2> QED BY <2>6, <2>7, <2>8, <2>9, <2>10 DEF CopyInv
<1> QED BY <1>7, <1>8

\* What a wrapper's register holds is not read as the content of a value, nor as
\* that of the temporary unless it is one of the temporary's.
LEMMA WrapperCode ==
    ASSUME Places, CodeTypes, NEW w \in WrapperSet, cur_reg[w] # NoReg, NEW c, NEW x,
           x = [rc EXCEPT ![cur_reg[w]] = c]
    PROVE  /\ DOMAIN x = Regs /\ x[cur_reg[w]] = c
           /\ \A p \in Parts : reg[p] # NoReg => x[reg[p]] = rc[reg[p]]
           /\ \A y \in WrapperSet : y # w /\ cur_reg[y] # NoReg => x[cur_reg[y]] = rc[cur_reg[y]]
BY OneUser DEF CodeTypes

\* Every part of a phi gets that of its incoming value.
LEMMA MovePartCopy ==
    ASSUME PhiInv, PlaceInv, RoleInv, CopyInv, MovePart
    PROVE  CopyInv'
<1> DEFINE n == Head(ready)
           c == Read(<<inc[n], part>>)
           y == [rc EXCEPT ![cur_reg["scratch"]] = c]
<1>0. Places /\ SlotLists /\ StackInv /\ part \in Nat /\ CodeTypes /\ LiveInv
  BY DEF PlaceInv, StackInv, SlotLists, RoleInv, CopyInv
<1>1. /\ pc = "move" /\ n \in Nodes /\ n \in Left /\ part \in Idx /\ part' = part + 1
      /\ UNCHANGED <<inc, back, num_parts, live, fixed, reg, ready, waiting, cur_reg, tmp, tmp_slot, pc>>
      /\ was'.home = [was.home EXCEPT ![n] = Place(n)']
      /\ WrittenTo(n, c, rc) \/ (cur_reg["scratch"] # NoReg /\ WrittenTo(n, c, y))
  BY <1>0, MovePartFacts
<1>2. c = <<inc[n], part>>
  BY <1>0, <1>1, MoveReads DEF CopyInv
<1>3. live[n]
  BY <1>0, <1>1 DEF LiveInv
<1>4. SlotOwners'
  BY <1>0, MovePartRoles
<1>5. /\ DOMAIN was'.home = Nodes /\ was'.home[n] = Place(n)'
      /\ \A m \in Nodes : m # n => was'.home[m] = was.home[m]
  BY <1>1 DEF CopyInv, HomeInv
<1>6. tmp_slot \in Slots \cup {NoSlot} /\ pc \in {"move", "restore"}
  BY <1>0, <1>1 DEF StackInv
<1>7. tmp \in Nodes /\ num_parts <= 2 => \A i \in Idx : cur_reg[TmpReg(i)] # NoReg
  BY <1>1 DEF CopyInv, SavedInv
<1>8. "scratch" \in WrapperSet /\ \A i \in Idx : TmpReg(i) # "scratch" /\ TmpReg(i) \in WrapperSet
  BY DEF WrapperSet, TmpReg
<1> HIDE DEF n, c
<1>9. CASE WrittenTo(n, c, rc)
  <2>1. DOMAIN rc = Regs
    BY <1>0 DEF CodeTypes
  <2> QED BY <1>0, <1>1, <1>2, <1>3, <1>4, <1>5, <1>6, <1>9, <2>1, WriteCopy DEF n
<1>10. CASE cur_reg["scratch"] # NoReg /\ WrittenTo(n, c, y)
  <2>1. /\ DOMAIN y = Regs /\ \A p \in Parts : reg[p] # NoReg => y[reg[p]] = rc[reg[p]]
        /\ \A z \in WrapperSet : z # "scratch" /\ cur_reg[z] # NoReg => y[cur_reg[z]] = rc[cur_reg[z]]
    BY <1>0, <1>8, <1>10, WrapperCode
  <2>2. tmp \in Nodes /\ num_parts <= 2 => \A i \in Idx : y[cur_reg[TmpReg(i)]] = rc[cur_reg[TmpReg(i)]]
    BY <1>7, <1>8, <2>1
  <2> HIDE DEF y
  <2> QED BY <1>0, <1>1, <1>2, <1>3, <1>4, <1>5, <1>6, <1>10, <2>1, <2>2, WriteCopy DEF n
<1> QED BY <1>1, <1>9, <1>10

\* move_from_tmp_phi: the reader of the phi in the temporary gets it from there.
LEMMA RestorePartCopy ==
    ASSUME PhiInv, PlaceInv, RoleInv, CopyInv, RestorePart
    PROVE  CopyInv'
<1> DEFINE n == Head(ready)
           c == <<inc[n], part>>
           w == IF part = 0 \/ num_parts > 2 THEN "tmp_reg1" ELSE "tmp_reg2"
           y == [rc EXCEPT ![cur_reg["tmp_reg1"]] = c]
<1>0. Places /\ StackInv /\ part \in Nat /\ num_parts \in 1 .. 3 /\ CodeTypes
      /\ FixedInv /\ SavedInv /\ HomeInv /\ SlotOwners
  BY PartFacts DEF PlaceInv, RoleInv, CopyInv
<1>1. /\ pc = "restore" /\ part \in Idx /\ part' = part + 1 /\ Prepared
      /\ UNCHANGED <<inc, back, num_parts, live, fixed, reg, dirty, slot, free_list, fresh, ready, waiting,
                     cur_reg, tmp, tmp_slot, pc, was>>
  BY <1>0 DEF RestorePart, Idx, edge, values, stack, wraps, lists, temps
<1>2. /\ n \in Nodes /\ inc[n] = tmp /\ tmp \in Nodes /\ back /\ n \in Vals
  <2>1. n \in Nodes /\ inc[n] = tmp
    BY <1>1, NextReady DEF PhiInv, StageInv
  <2>2. tmp \in Nodes
    BY <2>1, NoneIsNoValue DEF PhiInv, ListInv
  <2> QED BY <1>0, <2>1, <2>2, NoneIsNoValue DEF Places, EdgeInv
<1>3. live[n] /\ (fixed[n] \/ slot[n] # NoSlot)
  BY <1>0, <1>2 DEF Places, EdgeInv
<1>4. fixed[n] => num_parts = 1
  BY <1>0, <1>2 DEF FixedInv
<1>5. ~fixed[n] => ~dirty[<<n, part>>]
  BY <1>0, <1>1, <1>2 DEF FixedInv
<1>6. SlotOwners'
  BY <1>0, <1>1 DEF SlotOwners
<1>7. was.home[n] = Place(n)' /\ DOMAIN was.home = Nodes
  BY <1>0, <1>1, <1>2, <1>3 DEF HomeInv, Place
<1>8. /\ num_parts <= 2 => \A i \in Idx : cur_reg[TmpReg(i)] # NoReg /\ rc[cur_reg[TmpReg(i)]] = <<tmp, i>>
      /\ ~(num_parts <= 2) => \A i \in Idx : mem[tmp_slot][i] = <<tmp, i>>
  BY <1>0, <1>1, <1>2 DEF SavedInv
<1>9. dirty \in [Parts -> BOOLEAN] /\ <<n, part>> \in Parts /\ tmp_slot \in Slots \cup {NoSlot}
  BY <1>0, <1>1, <1>2, PartFacts DEF StackInv, Places, PlaceTypes
<1>10. ~fixed[n] => dirty' = [dirty EXCEPT ![<<n, part>>] = FALSE]
  BY <1>1, <1>5, <1>9
<1>11. CASE num_parts <= 2
  <2>1. w = TmpReg(part)
    BY <1>0, <1>11 DEF TmpReg
  <2>2. Put(n, part, c)
    BY <1>1, <1>2, <1>8, <1>11, <2>1 DEF RestorePart
  <2>3. WrittenTo(n, c, rc)
    BY <1>1, <1>3, <1>10, <2>2 DEF Put, WrittenTo
  <2>4. DOMAIN rc = Regs
    BY <1>0 DEF CodeTypes
  <2> HIDE DEF n
  <2> QED BY <1>0, <1>1, <1>2, <1>3, <1>6, <1>7, <1>9, <2>3, <2>4, WriteCopy DEF n
<1>12. CASE ~(num_parts <= 2)
  <2>1. num_parts = 3 /\ ~fixed[n] /\ w = "tmp_reg1"
    BY <1>0, <1>4, <1>12
  <2>2. cur_reg["tmp_reg1"] # NoReg /\ "tmp_reg1" \in WrapperSet
    <3>1. <<"tmp_reg1", PartBank[part]>> \in Wanted
      BY <1>1, <2>1 DEF Wanted, Idx
    <3> QED BY <1>1, <3>1 DEF Prepared, Has, WrapperSet
  <2>3. mem' = Store(slot[n], part, c) /\ rc' = y
    BY <1>1, <1>2, <1>8, <1>12, <2>1 DEF RestorePart
  <2>4. WrittenTo(n, c, y)
    BY <1>1, <1>3, <1>10, <2>1, <2>3 DEF WrittenTo
  <2>5. DOMAIN y = Regs /\ \A p \in Parts : reg[p] # NoReg => y[reg[p]] = rc[reg[p]]
    <3> HIDE DEF n
    <3>1. y = [rc EXCEPT ![cur_reg["tmp_reg1"]] = c]
      OBVIOUS
    <3> HIDE DEF y, c
    <3> QED BY <1>0, <2>2, <3>1, WrapperCode
  <2> HIDE DEF n, y
  <2> QED BY <1>0, <1>1, <1>2, <1>3, <1>6, <1>7, <1>9, <1>12, <2>4, <2>5, WriteCopy DEF n
<1> QED BY <1>11, <1>12

\* The phi that breaks a cycle is copied to the temporary, part by part.
LEMMA SavePartCopy ==
    ASSUME PhiInv, PlaceInv, RoleInv, CopyInv, SavePart
    PROVE  CopyInv'
<1> DEFINE c == <<tmp, part>>
           w == TmpReg(part)
           y == [rc EXCEPT ![cur_reg["tmp_reg1"]] = c]
           z == [rc EXCEPT ![cur_reg[w]] = c]
<1>0. Places /\ StackInv /\ num_parts \in 1 .. 3 /\ CodeTypes /\ part \in Nat
      /\ FixedInv /\ SavedInv /\ HomeInv /\ PlacedInv /\ ContentInv /\ SlotOwners /\ NoSlot \notin Slots
  BY PartFacts DEF PlaceInv, RoleInv, CopyInv
<1>1. /\ pc = "save" /\ part \in Idx /\ part < num_parts /\ part' = part + 1 /\ Prepared
      /\ UNCHANGED <<inc, back, num_parts, live, fixed, reg, dirty, slot, free_list, fresh, ready, waiting,
                     cur_reg, tmp, tmp_slot, pc, was>>
  BY <1>0 DEF SavePart, Idx, edge, values, stack, wraps, lists, temps
<1>2. Read(<<tmp, part>>) = c
  BY <1>0, <1>1, SaveReads
<1>3. tmp \in Nodes
  BY <1>1 DEF PhiInv, StageInv
<1>4. /\ IF num_parts <= 2
         THEN rc' = z /\ UNCHANGED mem
         ELSE /\ mem' = Store(tmp_slot, part, c)
              /\ rc' = IF reg[<<tmp, part>>] = NoReg THEN y ELSE rc
  BY <1>2 DEF SavePart, TmpReg
<1>5. \A i \in Idx : i < part + 1 <=> i < part \/ i = part
  BY <1>0 DEF Idx
<1>6. /\ \A v \in Vals : Readable(v)' => Readable(v)
      /\ \A n \in Nodes, i \in Idx : Moved(n, i)' => Moved(n, i)
      /\ Idx' = Idx /\ "tmp_reg1" \in WrapperSet /\ \A i : TmpReg(i) \in WrapperSet /\ TmpReg(i)' = TmpReg(i)
  <2>1. Left' = Left /\ Moving' = {} /\ Moving = {}
    BY <1>1 DEF Left, InReady, Moving
  <2> QED BY <1>1, <2>1 DEF Readable, Moved, Idx, TmpReg, WrapperSet
<1>7. CASE num_parts <= 2
  <2>1. cur_reg[w] # NoReg
    <3>1. <<w, PartBank[part]>> \in Wanted
      BY <1>0, <1>1, <1>7 DEF Wanted, TmpReg
    <3> QED BY <1>1, <3>1 DEF Prepared, Has
  <2>2. /\ DOMAIN z = Regs /\ z[cur_reg[w]] = c
        /\ \A p \in Parts : reg[p] # NoReg => z[reg[p]] = rc[reg[p]]
        /\ \A x \in WrapperSet : x # w /\ cur_reg[x] # NoReg => z[cur_reg[x]] = rc[cur_reg[x]]
    <3>1. z = [rc EXCEPT ![cur_reg[w]] = c]
      OBVIOUS
    <3> HIDE DEF z, c, w
    <3>2. w \in WrapperSet
      BY <1>6 DEF w
    <3> QED BY <1>0, <2>1, <3>1, <3>2, WrapperCode
  <2>3. rc' = z /\ mem' = mem
    BY <1>4, <1>7
  <2>4. \A i \in Idx : i < part => TmpReg(i) # w
    BY <1>0, <1>1, <1>7 DEF TmpReg, Idx
  <2> HIDE DEF z
  <2>5. ContentInv' /\ PlacedInv' /\ HomeInv'
    BY <1>0, <1>1, <1>6, <2>2, <2>3, CopyFrame
  <2>6. SavedInv'
    <3> SUFFICES ASSUME NEW i \in Idx, i < part + 1
                 PROVE  cur_reg[TmpReg(i)] # NoReg /\ z[cur_reg[TmpReg(i)]] = <<tmp, i>>
      BY <1>0, <1>1, <1>6, <1>7, <2>3 DEF SavedInv
    <3>1. CASE i = part
      BY <2>1, <2>2, <3>1
    <3>2. CASE i < part
      BY <1>0, <1>1, <1>3, <1>6, <1>7, <2>2, <2>4, <3>2 DEF SavedInv
    <3> QED BY <1>5, <3>1, <3>2
  <2>7. CodeTypes'
    BY <1>0, <1>6, <2>2, <2>3 DEF CodeTypes
  <2> QED BY <2>5, <2>6, <2>7 DEF CopyInv
<1>8. CASE ~(num_parts <= 2)
  <2>1. tmp_slot # NoSlot /\ tmp_slot \in Slots /\ \A v \in Vals : slot[v] # tmp_slot
    BY <1>0, <1>3, <1>8 DEF SavedInv, StackInv, SlotOwners
  <2>2. /\ DOMAIN rc' = Regs
        /\ \A p \in Parts : reg[p] # NoReg => rc'[reg[p]] = rc[reg[p]]
    <3>1. CASE reg[<<tmp, part>>] = NoReg
      <4>1. <<"tmp_reg1", PartBank[part]>> \in Wanted
        BY <1>0, <1>1, <1>8, <3>1 DEF Wanted, InReg
      <4>2. cur_reg["tmp_reg1"] # NoReg
        BY <1>1, <4>1 DEF Prepared, Has
      <4>3. rc' = y
        BY <1>4, <1>8, <3>1
      <4>4. y = [rc EXCEPT ![cur_reg["tmp_reg1"]] = c]
        OBVIOUS
      <4> HIDE DEF y, c
      <4> QED BY <1>0, <1>6, <4>2, <4>3, <4>4, WrapperCode
    <3>2. CASE reg[<<tmp, part>>] # NoReg
      BY <1>0, <1>4, <1>8, <3>2 DEF CodeTypes
    <3> QED BY <3>1, <3>2
  <2>3. /\ DOMAIN mem' = Slots /\ \A s \in Slots : DOMAIN mem'[s] = Idx
        /\ mem'[tmp_slot][part] = c /\ \A i \in Idx : i # part => mem'[tmp_slot][i] = mem[tmp_slot][i]
        /\ \A s \in Slots : s # tmp_slot => mem'[s] = mem[s]
    <3>1. mem' = [mem EXCEPT ![tmp_slot] = [mem[tmp_slot] EXCEPT ![part] = c]]
      BY <1>4, <1>8 DEF Store
    <3>2. DOMAIN mem = Slots /\ \A s \in Slots : DOMAIN mem[s] = Idx
      BY <1>0 DEF CodeTypes
    <3> HIDE DEF c
    <3>3. /\ DOMAIN mem' = Slots /\ mem'[tmp_slot] = [mem[tmp_slot] EXCEPT ![part] = c]
          /\ \A s \in Slots : s # tmp_slot => mem'[s] = mem[s]
      BY <2>1, <3>1, <3>2
    <3> QED BY <1>1, <2>1, <3>2, <3>3
  <2>4. \A v \in Vals, i \in Idx : slot[v] # NoSlot => mem'[slot[v]][i] = mem[slot[v]][i]
    <3>1. slot \in [Vals -> Slots \cup {NoSlot}]
      BY <1>0 DEF Places, PlaceTypes
    <3> QED BY <2>1, <2>3, <3>1
  <2>5. ContentInv' /\ PlacedInv' /\ HomeInv'
    BY <1>0, <1>1, <1>6, <2>2, <2>4, CopyFrame
  <2>6. SavedInv'
    <3> SUFFICES ASSUME NEW i \in Idx, i < part + 1 PROVE mem'[tmp_slot][i] = <<tmp, i>>
      BY <1>0, <1>1, <1>6, <1>8, <2>1 DEF SavedInv
    <3>1. CASE i = part
      BY <2>3, <3>1
    <3>2. CASE i < part
      BY <1>0, <1>1, <1>3, <1>8, <2>3, <3>2 DEF SavedInv
    <3> QED BY <1>5, <3>1, <3>2
  <2>7. CodeTypes'
    BY <1>6, <2>2, <2>3 DEF CodeTypes
  <2> QED BY <2>5, <2>6, <2>7 DEF CopyInv
<1> QED BY <1>7, <1>8

\* The wrapper does not hold a part of the phi in the temporary.
Unused(w) == tmp \in Nodes /\ num_parts <= 2 => \A i \in Idx : (pc = "save" => i < part) => TmpReg(i) # w

\* reset gives the part its content back together with the register.
LEMMA ResetCopy ==
    ASSUME Places, RoleInv, CopyInv, NEW w \in WrapperSet, Unused(w), reset(w),
           UNCHANGED <<inc, back, num_parts, ready, waiting, tmp, tmp_slot, pc, part, was>>
    PROVE  CopyInv'
<1>0. CodeTypes /\ FixedInv /\ SavedInv /\ HomeInv /\ PlacedInv /\ ContentInv
  BY DEF RoleInv, CopyInv
<1>1. /\ cur_reg' = [cur_reg EXCEPT ![w] = NoReg] /\ UNCHANGED <<live, fixed, slot, was_modified, mem>>
  BY ResetFacts
<1>2. PICK r \in Regs :
        /\ r = cur_reg[w] /\ \A q \in Parts : reg[q] # r
        /\ \A x \in WrapperSet : x # w => cur_reg[x] # r
        /\ \/ \E p \in Parts : GivesBack(w, r, p)
           \/ UNCHANGED <<reg, dirty, rc>>
  BY ResetFacts
<1>3. /\ \A v : Readable(v)' <=> Readable(v)
      /\ \A n \in Nodes, i \in Idx : Moved(n, i)' <=> Moved(n, i)
      /\ Idx' = Idx /\ Parts' = Parts
      /\ \A i \in Idx : TmpReg(i) \in WrapperSet
  BY DEF Readable, Moved, Left, InReady, Moving, Idx, Parts, TmpReg, WrapperSet
<1>4. /\ Nodes \subseteq Vals /\ 0 \in Idx /\ NoReg \notin Regs
      /\ \A v \in Vals, i \in Idx : <<v, i>> \in Parts /\ Val(<<v, i>>) = v /\ <<v, i>>[2] = i
      /\ \A p \in Parts : Val(p) \in Vals /\ p[2] \in Idx /\ p = <<Val(p), p[2]>>
  BY PartFacts
<1>5. /\ cur_reg \in [WrapperSet -> Regs \cup {NoReg}] /\ dirty \in [Parts -> BOOLEAN]
      /\ reg \in [Parts -> Regs \cup {NoReg}] /\ backup \in [WrapperSet -> Parts \cup {None}]
      /\ DOMAIN rc = Regs /\ None \notin Parts
  <2>1. num_parts \in 1 .. 3
    BY PartFacts
  <2> QED BY <1>0, <2>1, NotAPart DEF Places, PlaceTypes, CodeTypes
<1>6. /\ \A p \in Parts : reg[p] # NoReg => rc'[reg[p]] = rc[reg[p]]
      /\ \A x \in WrapperSet : x # w /\ cur_reg[x] # NoReg => rc'[cur_reg[x]] = rc[cur_reg[x]]
      /\ DOMAIN rc' = Regs
  <2>1. rc' = rc \/ \E c : rc' = [rc EXCEPT ![r] = c]
    BY <1>2 DEF GivesBack
  <2> QED BY <1>2, <1>5, <2>1
<1>7. CodeTypes'
  BY <1>0, <1>1, <1>3, <1>6 DEF CodeTypes
<1>8. SavedInv'
  <2>1. ASSUME tmp \in Nodes, num_parts <= 2, NEW i \in Idx, pc = "save" => i < part
        PROVE  cur_reg'[TmpReg(i)] # NoReg /\ rc'[cur_reg'[TmpReg(i)]] = <<tmp, i>>
    <3>1. TmpReg(i) # w /\ TmpReg(i) \in WrapperSet
      BY <1>3, <2>1 DEF Unused
    <3>2. cur_reg[TmpReg(i)] # NoReg /\ rc[cur_reg[TmpReg(i)]] = <<tmp, i>>
      BY <1>0, <2>1 DEF SavedInv
    <3> QED BY <1>1, <1>5, <1>6, <3>1, <3>2
  <2>2. \A i \in Idx : TmpReg(i)' = TmpReg(i)
    BY DEF TmpReg
  <2>3. /\ pc = "free_tmp" => tmp \notin Nodes
        /\ tmp \in Nodes /\ num_parts > 2 => tmp_slot # NoSlot
    BY <1>0 DEF SavedInv
  <2>4. ASSUME tmp \in Nodes, ~(num_parts <= 2), NEW i \in Idx, pc = "save" => i < part
        PROVE  mem[tmp_slot][i] = <<tmp, i>>
    BY <1>0, <2>4 DEF SavedInv
  <2> QED BY <1>1, <1>3, <2>1, <2>2, <2>3, <2>4 DEF SavedInv
<1>9. CASE UNCHANGED <<reg, dirty, rc>>
  <2>1. ContentInv' /\ PlacedInv' /\ HomeInv'
    BY <1>0, <1>1, <1>3, <1>9, CopyFrame
  <2> QED BY <1>7, <1>8, <2>1 DEF CopyInv
<1>10. ASSUME NEW p \in Parts, GivesBack(w, r, p) PROVE CopyInv'
  <2> DEFINE u == Val(p)
  <2>1. /\ p = backup[w] /\ reg[p] = NoReg /\ ~dirty[p] /\ live[u] /\ u \in Vals /\ p = <<u, p[2]>> /\ p[2] \in Idx
        /\ reg' = [reg EXCEPT ![p] = r] /\ dirty' = [dirty EXCEPT ![p] = was_modified[w]]
        /\ rc' = [rc EXCEPT ![r] = mem[slot[u]][p[2]]]
    BY <1>4, <1>10 DEF GivesBack
  <2> HIDE DEF u
  <2>2. /\ \A q \in Parts : q # p => reg'[q] = reg[q] /\ dirty'[q] = dirty[q]
        /\ reg'[p] = r /\ dirty'[p] = was_modified[w] /\ rc'[r] = mem[slot[u]][p[2]]
    BY <1>5, <2>1
  <2>3. ContentInv'
    <3> SUFFICES ASSUME NEW v \in Vals, NEW i \in Idx, live[v], Readable(v) PROVE Right(v, i)'
      BY <1>1, <1>3 DEF ContentInv
    <3>1. Right(v, i) /\ <<v, i>> \in Parts
      BY <1>0, <1>4 DEF ContentInv
    <3>2. CASE <<v, i>> = p
      <4>1. v = u /\ i = p[2]
        BY <1>4, <2>1, <3>2
      <4>2. mem[slot[v]][i] = <<v, i>>
        BY <2>1, <3>1, <3>2 DEF Right
      <4>3. reg'[<<v, i>>] = r /\ rc'[r] = <<v, i>>
        BY <2>2, <3>2, <4>1, <4>2
      <4> QED BY <1>1, <1>4, <4>2, <4>3 DEF Right
    <3>3. CASE <<v, i>> # p
      BY <1>1, <1>6, <2>2, <3>1, <3>3 DEF Right
    <3> QED BY <3>2, <3>3
  <2>4. \A n \in Nodes : fixed[n] => <<n, 0>> # p /\ <<n, 0>> \in Parts
    BY <1>0, <1>4, <2>1 DEF FixedInv
  <2>5. \A n \in Nodes, i \in Idx : ~fixed[n] /\ <<n, i>> = p => ~was_modified[w]
    <3> SUFFICES ASSUME NEW n \in Nodes, NEW i \in Idx, ~fixed[n], <<n, i>> = p PROVE ~was_modified[w]
      OBVIOUS
    <3>1. backup[w] # None /\ Val(backup[w]) = n
      BY <1>4, <1>5, <2>1
    <3>2. back
      BY <3>1 DEF Places, EdgeInv, PlaceTypes
    <3> QED BY <1>0, <3>1, <3>2 DEF FixedInv
  <2>6. PlacedInv'
    <3> SUFFICES ASSUME NEW n \in Nodes, NEW i \in Idx, live[n], Moved(n, i) PROVE Placed(n, i)'
      BY <1>1, <1>3 DEF PlacedInv
    <3>1. Placed(n, i) /\ <<n, i>> \in Parts /\ <<n, 0>> \in Parts
      BY <1>0, <1>4 DEF PlacedInv
    <3>2. CASE fixed[n]
      <4>1. reg[<<n, 0>>] # NoReg
        BY <1>0, <1>4, <3>2 DEF FixedInv
      <4> QED BY <1>1, <1>6, <2>2, <2>4, <3>1, <3>2, <4>1 DEF Placed
    <3>3. CASE ~fixed[n]
      BY <1>1, <2>2, <2>5, <3>1, <3>3 DEF Placed
    <3> QED BY <3>2, <3>3
  <2>7. HomeInv'
    <3>1. \A n \in Nodes : Place(n)' = Place(n)
      BY <1>1, <2>2, <2>4 DEF Place
    <3> QED BY <1>0, <1>1, <1>3, <1>4, <3>1 DEF HomeInv
  <2> QED BY <1>7, <1>8, <2>3, <2>6, <2>7 DEF CopyInv
<1> QED BY <1>2, <1>9, <1>10

\* alloc_from_bank spills a part with its content before it takes the register.
LEMMA AllocCopy ==
    ASSUME Places, SlotLists, RoleInv, CopyInv, tmp_slot \in Slots \cup {NoSlot},
           NEW w \in WrapperSet, NEW b, alloc_from_bank(w, b),
           UNCHANGED <<inc, back, num_parts, ready, waiting, tmp, tmp_slot, pc, part, was>>
    PROVE  CopyInv'
<1>0. CodeTypes /\ FixedInv /\ SavedInv /\ HomeInv /\ PlacedInv /\ ContentInv
  BY DEF RoleInv, CopyInv
<1>1. cur_reg[w] = NoReg /\ UNCHANGED <<live, fixed, refs, rc>>
  BY AllocFacts
<1>2. PICK r \in Regs :
        /\ cur_reg' = [cur_reg EXCEPT ![w] = r]
        /\ \/ UNCHANGED <<slot, free_list, fresh, mem, dirty, reg, backup, was_modified>>
           \/ \E p \in Parts : Takes(w, r, p)
  BY AllocFacts
<1>3. /\ \A v : Readable(v)' <=> Readable(v)
      /\ \A n \in Nodes, i \in Idx : Moved(n, i)' <=> Moved(n, i)
      /\ Idx' = Idx /\ Parts' = Parts
      /\ \A i \in Idx : TmpReg(i) \in WrapperSet /\ TmpReg(i)' = TmpReg(i)
  BY DEF Readable, Moved, Left, InReady, Moving, Idx, Parts, TmpReg, WrapperSet
<1>4. /\ Nodes \subseteq Vals /\ 0 \in Idx /\ NoReg \notin Regs /\ NoSlot \notin Slots
      /\ \A v \in Vals, i \in Idx : <<v, i>> \in Parts /\ Val(<<v, i>>) = v /\ <<v, i>>[2] = i
      /\ \A p \in Parts : Val(p) \in Vals /\ p[2] \in Idx /\ p = <<Val(p), p[2]>>
  BY PartFacts
<1>5. /\ cur_reg \in [WrapperSet -> Regs \cup {NoReg}] /\ dirty \in [Parts -> BOOLEAN]
      /\ reg \in [Parts -> Regs \cup {NoReg}] /\ slot \in [Vals -> Slots \cup {NoSlot}]
  BY DEF Places, PlaceTypes
<1>6. SlotOwners'
  BY AllocRoles DEF RoleInv
<1>7. tmp \in Nodes /\ num_parts <= 2 => \A i \in Idx : (pc = "save" => i < part) =>
         cur_reg'[TmpReg(i)] # NoReg /\ rc'[cur_reg'[TmpReg(i)]] = <<tmp, i>>
  <2> SUFFICES ASSUME tmp \in Nodes, num_parts <= 2, NEW i \in Idx, pc = "save" => i < part
               PROVE  cur_reg'[TmpReg(i)] # NoReg /\ rc'[cur_reg'[TmpReg(i)]] = <<tmp, i>>
    OBVIOUS
  <2>1. cur_reg[TmpReg(i)] # NoReg /\ rc[cur_reg[TmpReg(i)]] = <<tmp, i>>
    BY <1>0 DEF SavedInv
  <2> QED BY <1>1, <1>2, <1>3, <1>5, <2>1
<1>8. ASSUME tmp_slot # NoSlot => mem'[tmp_slot] = mem[tmp_slot] PROVE SavedInv'
  <2>1. /\ pc = "free_tmp" => tmp \notin Nodes
        /\ tmp \in Nodes /\ num_parts > 2 => tmp_slot # NoSlot
    BY <1>0 DEF SavedInv
  <2>2. ASSUME tmp \in Nodes, ~(num_parts <= 2), NEW i \in Idx, pc = "save" => i < part
        PROVE  mem'[tmp_slot][i] = <<tmp, i>>
    <3>1. num_parts > 2
      BY <2>2, PartFacts
    <3> QED BY <1>0, <1>8, <2>1, <2>2, <3>1 DEF SavedInv
  <2> QED BY <1>3, <1>7, <2>1, <2>2 DEF SavedInv
<1>9. CASE UNCHANGED <<slot, free_list, fresh, mem, dirty, reg, backup, was_modified>>
  <2>1. ContentInv' /\ PlacedInv' /\ HomeInv'
    BY <1>0, <1>1, <1>3, <1>9, CopyFrame
  <2>2. CodeTypes'
    BY <1>0, <1>1, <1>3, <1>9 DEF CodeTypes
  <2> QED BY <1>8, <1>9, <2>1, <2>2 DEF CopyInv
<1>10. ASSUME NEW p \in Parts, Takes(w, r, p) PROVE CopyInv'
  <2> DEFINE u == Val(p)
  <2>1. /\ reg[p] = r /\ live[u] /\ ~fixed[u] /\ u \in Vals /\ p = <<u, p[2]>> /\ p[2] \in Idx
        /\ reg' = [reg EXCEPT ![p] = NoReg] /\ dirty' = [dirty EXCEPT ![p] = FALSE]
        /\ slot'[u] # NoSlot
        /\ \/ UNCHANGED <<slot, free_list, fresh>>
           \/ /\ dirty[p] /\ slot[u] = NoSlot
              /\ \E s \in Slots : slot' = [slot EXCEPT ![u] = s]
        /\ mem' = IF dirty[p] THEN Store(slot'[u], p[2], rc[r]) ELSE mem
    BY <1>4, <1>10 DEF Takes
  <2>2. /\ \A q \in Parts : q # p => reg'[q] = reg[q] /\ dirty'[q] = dirty[q]
        /\ reg'[p] = NoReg /\ ~dirty'[p]
        /\ slot' \in [Vals -> Slots \cup {NoSlot}] /\ \A v \in Vals : slot[v] # NoSlot => slot'[v] = slot[v]
    BY <1>5, <2>1
  <2>3. /\ DOMAIN mem' = Slots /\ \A s \in Slots : DOMAIN mem'[s] = Idx
        /\ dirty[p] => mem'[slot'[u]][p[2]] = rc[r]
        /\ ~dirty[p] => mem' = mem /\ slot' = slot
        /\ \A v \in Vals, i \in Idx : slot[v] # NoSlot /\ <<v, i>> # p => mem'[slot'[v]][i] = mem[slot[v]][i]
        /\ tmp_slot # NoSlot => mem'[tmp_slot] = mem[tmp_slot]
    <3>1. CASE dirty[p]
      <4>1. mem' = Store(slot'[Val(p)], p[2], rc[r]) /\ slot'[Val(p)] # NoSlot
        BY <2>1, <3>1
      <4> HIDE DEF u
      <4>2. /\ DOMAIN mem' = Slots /\ \A s \in Slots : DOMAIN mem'[s] = Idx
            /\ mem'[slot'[Val(p)]][p[2]] = rc[r]
            /\ \A v \in Vals, i \in Idx : slot[v] # NoSlot /\ <<v, i>> # p => mem'[slot'[v]][i] = mem[slot[v]][i]
            /\ tmp_slot # NoSlot => mem'[tmp_slot] = mem[tmp_slot]
        BY <1>0, <1>6, <2>2, <4>1, StoreKeeps
      <4> QED BY <3>1, <4>2 DEF u
    <3>2. CASE ~dirty[p]
      BY <1>0, <2>1, <3>2 DEF CodeTypes
    <3> QED BY <3>1, <3>2
  <2> HIDE DEF u
  <2>4. \A v \in Vals, i \in Idx : live[v] /\ ~dirty[<<v, i>>] => slot[v] # NoSlot
    BY <1>4 DEF Places, SlotsInv
  <2>5. ContentInv'
    <3> SUFFICES ASSUME NEW v \in Vals, NEW i \in Idx, live[v], Readable(v) PROVE Right(v, i)'
      BY <1>1, <1>3 DEF ContentInv
    <3>1. Right(v, i) /\ <<v, i>> \in Parts
      BY <1>0, <1>4 DEF ContentInv
    <3>2. CASE <<v, i>> = p
      <4>1. v = u /\ i = p[2]
        BY <1>4, <3>2 DEF u
      <4>2. rc[r] = <<v, i>> /\ (~dirty[p] => mem[slot[v]][i] = <<v, i>>)
        BY <1>4, <2>1, <3>1, <3>2 DEF Right
      <4>3. mem'[slot'[v]][i] = <<v, i>>
        BY <2>3, <4>1, <4>2
      <4> QED BY <2>2, <3>2, <4>3 DEF Right
    <3>3. CASE <<v, i>> # p
      <4>1. reg'[<<v, i>>] = reg[<<v, i>>] /\ dirty'[<<v, i>>] = dirty[<<v, i>>]
        BY <2>2, <3>1, <3>3
      <4>2. ~dirty[<<v, i>>] => mem'[slot'[v]][i] = mem[slot[v]][i]
        BY <2>3, <2>4, <3>3
      <4> QED BY <1>1, <3>1, <4>1, <4>2 DEF Right
    <3> QED BY <3>2, <3>3
  <2>6. PlacedInv'
    <3> SUFFICES ASSUME NEW n \in Nodes, NEW i \in Idx, live[n], Moved(n, i) PROVE Placed(n, i)'
      BY <1>1, <1>3 DEF PlacedInv
    <3>1. Placed(n, i) /\ <<n, i>> \in Parts /\ <<n, 0>> \in Parts /\ n \in Vals
      BY <1>0, <1>4 DEF PlacedInv
    <3>2. CASE fixed[n]
      <4>1. <<n, 0>> # p
        BY <1>4, <2>1, <3>2 DEF u
      <4> QED BY <1>1, <2>2, <3>1, <3>2, <4>1 DEF Placed
    <3>3. CASE ~fixed[n]
      <4>1. ~dirty[<<n, i>>] /\ mem[slot[n]][i] = <<inc[n], i>> /\ slot[n] # NoSlot
        BY <2>4, <3>1, <3>3 DEF Placed
      <4>2. ~dirty'[<<n, i>>] /\ mem'[slot'[n]][i] = mem[slot[n]][i]
        <5>1. CASE <<n, i>> = p
          BY <2>2, <2>3, <4>1, <5>1
        <5>2. CASE <<n, i>> # p
          BY <2>2, <2>3, <3>1, <4>1, <5>2
        <5> QED BY <5>1, <5>2
      <4> QED BY <1>1, <3>3, <4>1, <4>2 DEF Placed
    <3> QED BY <3>2, <3>3
  <2>7. HomeInv'
    <3>1. ASSUME NEW n \in Nodes, live[n], back \/ Moved(n, 0) PROVE Place(n)' = Place(n)
      <4>1. CASE fixed[n]
        <5>1. <<n, 0>> # p /\ <<n, 0>> \in Parts
          BY <1>4, <2>1, <4>1 DEF u
        <5> QED BY <1>1, <2>2, <4>1, <5>1 DEF Place
      <4>2. CASE ~fixed[n]
        <5>1. slot[n] # NoSlot
          <6>1. CASE back
            BY <4>2, <6>1 DEF Places, EdgeInv
          <6>2. CASE Moved(n, 0)
            BY <1>0, <1>4, <2>4, <3>1, <4>2, <6>2 DEF PlacedInv, Placed
          <6> QED BY <3>1, <6>1, <6>2
        <5> QED BY <1>1, <1>4, <2>2, <4>2, <5>1 DEF Place
      <4> QED BY <4>1, <4>2
    <3> QED BY <1>0, <1>1, <1>3, <1>4, <3>1 DEF HomeInv
  <2>8. CodeTypes'
    BY <1>0, <1>1, <1>3, <2>3 DEF CodeTypes
  <2> QED BY <1>8, <2>3, <2>5, <2>6, <2>7, <2>8 DEF CopyInv
<1> QED BY <1>2, <1>9, <1>10

\* When references are used up, what stays live stays where it is.
LEMMA ReleaseCopy ==
    ASSUME Places, RoleInv, CopyInv, NEW use, Release(use),
           UNCHANGED <<inc, back, num_parts, rc, mem, was>>,
           \A v \in Vals : Readable(v)' => Readable(v),
           \A n \in Nodes, i \in Idx : live[n] /\ Moved(n, i)' => Placed(n, i) /\ (back \/ Moved(n, 0))
    PROVE  CodeTypes' /\ ContentInv' /\ PlacedInv' /\ HomeInv'
<1> DEFINE dead == {v \in Vals : use[v] > 0 /\ refs[v] - use[v] = 0 /\ ~Pending(v)}
<1>0. CodeTypes /\ HomeInv /\ ContentInv /\ FixedInv
  BY DEF RoleInv, CopyInv
<1>1. /\ live' = [v \in Vals |-> live[v] /\ v \notin dead]
      /\ reg' = [p \in Parts |-> IF Val(p) \in dead THEN NoReg ELSE reg[p]]
      /\ fixed' = [v \in Vals |-> fixed[v] /\ v \notin dead]
      /\ slot' = [v \in Vals |-> IF v \in dead THEN NoSlot ELSE slot[v]]
      /\ dirty' = dirty
  BY DEF Release
<1> HIDE DEF dead
<1>2. /\ Nodes \subseteq Vals /\ 0 \in Idx /\ Idx' = Idx
      /\ \A v \in Vals, i \in Idx : <<v, i>> \in Parts /\ Val(<<v, i>>) = v
  BY PartFacts DEF Idx
<1>3. live \in [Vals -> BOOLEAN] /\ fixed \in [Vals -> BOOLEAN]
  BY DEF Places, PlaceTypes
<1>4. \A v \in Vals : live'[v] => /\ live[v] /\ v \notin dead /\ fixed'[v] = fixed[v] /\ slot'[v] = slot[v]
                                  /\ \A i \in Idx : reg'[<<v, i>>] = reg[<<v, i>>]
  BY <1>1, <1>2, <1>3
<1>5. CodeTypes'
  BY <1>0, <1>2 DEF CodeTypes
<1>6. ContentInv'
  <2> SUFFICES ASSUME NEW v \in Vals, NEW i \in Idx, live'[v], Readable(v)' PROVE Right(v, i)'
    BY <1>2 DEF ContentInv
  <2>1. Right(v, i)
    BY <1>0, <1>4 DEF ContentInv
  <2> QED BY <1>1, <1>4, <2>1 DEF Right
<1>7. PlacedInv'
  <2> SUFFICES ASSUME NEW n \in Nodes, NEW i \in Idx, live'[n], Moved(n, i)' PROVE Placed(n, i)'
    BY <1>2 DEF PlacedInv
  <2>1. Placed(n, i)
    BY <1>2, <1>4
  <2> QED BY <1>1, <1>2, <1>4, <2>1 DEF Placed
<1>8. HomeInv'
  <2> SUFFICES ASSUME NEW n \in Nodes, live'[n], back \/ Moved(n, 0)' PROVE was.home[n] = Place(n)'
    BY <1>0 DEF HomeInv
  <2>1. was.home[n] = Place(n)
    BY <1>0, <1>2, <1>4 DEF HomeInv
  <2> QED BY <1>2, <1>4, <2>1 DEF Place
<1> QED BY <1>5, <1>6, <1>7, <1>8

\* A phi that reads itself is left alone.
LEMMA KeepPhiPlaced ==
    ASSUME PhiInv, Places, FixedInv, CopyInv, pc = "next", ready # <<>>, inc[Head(ready)] = Head(ready),
           NEW i \in Idx
    PROVE  back /\ Placed(Head(ready), i)
<1> DEFINE n == Head(ready)
<1>1. n \in Nodes /\ n \in Left /\ n \in Vals
  BY NextReady, PartFacts DEF PhiInv, Left
<1>2. back /\ live[n]
  BY <1>1 DEF Places, EdgeInv
<1>3. Readable(n)
  BY <1>1, <1>2 DEF Readable, Moving
<1>4. Right(n, i) /\ Right(n, 0)
  BY <1>1, <1>2, <1>3, PartFacts DEF CopyInv, ContentInv
<1>5. CASE fixed[n]
  <2>1. i = 0 /\ reg[<<n, 0>>] # NoReg
    BY <1>1, <1>5 DEF FixedInv, Idx
  <2> QED BY <1>2, <1>4, <1>5, <2>1 DEF Right, Placed
<1>6. CASE ~fixed[n]
  BY <1>1, <1>2, <1>4, <1>6 DEF FixedInv, Right, Placed
<1> QED BY <1>2, <1>5, <1>6

\* The steps at the end of a stage.
LEMMA EndCopy ==
    ASSUME PhiInv, PhiInv', PlaceInv, RoleInv, CopyInv, SaveEnd \/ HandlesNode
    PROVE  CopyInv'
<1> DEFINE n == Head(ready)
<1>0. Places /\ FixedInv /\ SavedInv /\ PlacedInv /\ num_parts \in 1 .. 3 /\ 0 \in Idx
  BY PartFacts DEF PlaceInv, RoleInv, CopyInv
<1>1. PICK use : Release(use)
  BY Releases DEF HandlesNode
<1>2. /\ UNCHANGED <<inc, back, num_parts, rc, mem, was, cur_reg, tmp_slot>> /\ pc' \in {"next", "free_tmp"}
      /\ pc' = "free_tmp" => tmp' = None
      /\ (tmp' = tmp \/ tmp' = None)
      /\ (pc = "next" => inc[n] = n) /\ (pc \in {"save", "restore", "move"} => part = num_parts)
  BY DEF HandlesNode, SaveEnd, KeepPhi, RestoreEnd, MoveEnd, edge, code, wraps, temps, ctrl
<1>3. \/ pc = "save" /\ Left' = Left /\ SaveEnd
      \/ pc \in {"next", "restore", "move"} /\ ready # <<>> /\ Left' = Left \ {n}
  <2>1. CASE HandlesNode
    BY <2>1, EndLeft
  <2>2. CASE ~HandlesNode
    <3>1. Left' = Left
      BY <2>2, LeftSame DEF HandlesNode, Next
    <3> QED BY <2>2, <3>1 DEF SaveEnd
  <2> QED BY <2>1, <2>2
<1>4. Idx' = Idx /\ Moving' = {} /\ (pc \in {"save", "next"} => Moving = {})
      /\ (pc \in {"restore", "move"} => Moving = {n})
  BY <1>2 DEF Idx, Moving
<1>5. \A v \in Vals : Readable(v)' => Readable(v)
  BY <1>2, <1>3, <1>4 DEF Readable
<1>6. ASSUME NEW m \in Nodes, NEW i \in Idx, live[m], Moved(m, i)'
      PROVE  Placed(m, i) /\ (back \/ Moved(m, 0))
  <2>1. m \notin Left'
    BY <1>4, <1>6 DEF Moved
  <2>2. CASE m \notin Left
    BY <1>0, <1>6, <2>2 DEF Moved, PlacedInv
  <2>3. CASE m \in Left
    <3>1. m = n /\ pc \in {"next", "restore", "move"} /\ ready # <<>>
      BY <1>3, <2>1, <2>3
    <3>2. CASE pc = "next"
      BY <1>0, <1>2, <3>1, <3>2, KeepPhiPlaced
    <3>3. CASE pc \in {"restore", "move"}
      <4>1. Moved(m, i) /\ Moved(m, 0)
        BY <1>0, <1>2, <1>4, <3>1, <3>3 DEF Moved, Idx
      <4> QED BY <1>0, <1>6, <4>1 DEF PlacedInv
    <3> QED BY <3>1, <3>2, <3>3
  <2> QED BY <2>2, <2>3
<1>7. CodeTypes' /\ ContentInv' /\ PlacedInv' /\ HomeInv'
  BY <1>0, <1>1, <1>2, <1>5, <1>6, ReleaseCopy
<1>8. SavedInv'
  <2>1. None \notin Nodes
    BY NoneIsNoValue
  <2>2. \A i \in Idx : i < num_parts
    BY <1>0 DEF Idx
  <2>3. tmp' \in Nodes => tmp' = tmp /\ \A i \in Idx : pc = "save" => i < part
    BY <1>2, <2>1, <2>2
  <2>4. pc' = "free_tmp" => tmp' \notin Nodes
    BY <1>2, <2>1
  <2>5. \A i \in Idx : TmpReg(i)' = TmpReg(i)
    BY DEF TmpReg
  <2>6. ASSUME tmp' \in Nodes, NEW i \in Idx
        PROVE  IF num_parts <= 2 THEN cur_reg[TmpReg(i)] # NoReg /\ rc[cur_reg[TmpReg(i)]] = <<tmp, i>>
               ELSE mem[tmp_slot][i] = <<tmp, i>>
    BY <1>0, <2>3, <2>6 DEF SavedInv
  <2>7. tmp' \in Nodes /\ num_parts > 2 => tmp_slot # NoSlot
    BY <1>0, <2>3 DEF SavedInv
  <2> QED BY <1>2, <1>4, <2>3, <2>4, <2>5, <2>6, <2>7 DEF SavedInv
<1> QED BY <1>7, <1>8 DEF CopyInv

\* A phi whose move begins is not read any more, and has nothing yet.
LEMMA BeginMoveCopy ==
    ASSUME PhiInv, PlaceInv, RoleInv, CopyInv, BeginMove
    PROVE  CopyInv'
<1> DEFINE n == Head(ready)
<1>0. Places /\ CodeTypes /\ ContentInv /\ SavedInv /\ PlacedInv /\ HomeInv
  BY DEF PlaceInv, CopyInv
<1>1. /\ pc = "next" /\ pc' = "move" /\ part' = 0 /\ n \in Nodes /\ n \in Left
      /\ live' = [live EXCEPT ![n] = TRUE]
      /\ UNCHANGED <<inc, back, num_parts, dirty, slot, rc, mem, cur_reg, ready, waiting, tmp, tmp_slot, was>>
      /\ \/ UNCHANGED <<fixed, reg>>
         \/ /\ ~back
            /\ \E r \in Regs : reg' = [reg EXCEPT ![<<n, 0>>] = r]
            /\ fixed' = [fixed EXCEPT ![n] = TRUE]
  BY <1>0, BeginMoveFacts
<1>2. /\ Vals = Nodes \cup Others /\ n \in Vals /\ n \notin Others /\ 0 \in Idx /\ Idx' = Idx
      /\ \A v \in Vals, i \in Idx : <<v, i>> \in Parts
      /\ \A i \in Idx : i \in Nat /\ TmpReg(i)' = TmpReg(i)
  BY <1>0, <1>1, PartFacts DEF Idx, TmpReg
<1>3. Left' = Left /\ Moving = {} /\ Moving' = {n}
  BY <1>1 DEF Left, InReady, Moving
<1> HIDE DEF n
<1>4. /\ \A v \in Vals : Readable(v)' => Readable(v) /\ v # n
      /\ \A m \in Nodes, i \in Idx : Moved(m, i)' => Moved(m, i) /\ m # n
  <2>1. \A i \in Idx : ~(i < 0)
    BY <1>2
  <2> QED BY <1>1, <1>2, <1>3, <2>1 DEF Readable, Moved
<1>5. \A v \in Vals : v # n => /\ live'[v] = live[v] /\ fixed'[v] = fixed[v]
                               /\ \A i \in Idx : reg'[<<v, i>>] = reg[<<v, i>>]
  BY <1>0, <1>1, <1>2 DEF Places, PlaceTypes
<1>6. CodeTypes'
  BY <1>0, <1>1, <1>2 DEF CodeTypes
<1>7. ContentInv'
  <2> SUFFICES ASSUME NEW v \in Vals, NEW i \in Idx, live'[v], Readable(v)' PROVE Right(v, i)'
    BY <1>2 DEF ContentInv
  <2>1. Right(v, i)
    BY <1>0, <1>4, <1>5 DEF ContentInv
  <2> QED BY <1>1, <1>4, <1>5, <2>1 DEF Right
<1>8. SavedInv'
  BY <1>0, <1>1, <1>2 DEF SavedInv
<1>9. PlacedInv'
  <2> SUFFICES ASSUME NEW m \in Nodes, NEW i \in Idx, live'[m], Moved(m, i)' PROVE Placed(m, i)'
    BY <1>2 DEF PlacedInv
  <2>1. Placed(m, i) /\ m # n
    BY <1>0, <1>2, <1>4, <1>5 DEF PlacedInv
  <2> QED BY <1>1, <1>2, <1>5, <2>1 DEF Placed
<1>10. HomeInv'
  <2> SUFFICES ASSUME NEW m \in Nodes, live'[m], back \/ Moved(m, 0)' PROVE was.home[m] = Place(m)'
    BY <1>0, <1>1 DEF HomeInv
  <2>1. CASE m = n
    <3>1. back /\ UNCHANGED <<fixed, reg>>
      BY <1>1, <1>2, <1>4, <2>1
    <3>2. live[m]
      BY <1>0, <3>1 DEF Places, EdgeInv
    <3> QED BY <1>0, <1>1, <3>1, <3>2 DEF HomeInv, Place
  <2>2. CASE m # n
    BY <1>0, <1>1, <1>2, <1>4, <1>5, <2>2 DEF HomeInv, Place
  <2> QED BY <2>1, <2>2
<1> QED BY <1>6, <1>7, <1>8, <1>9, <1>10 DEF CopyInv

\* The steps between the stages touch no value.
LEMMA BetweenCopy ==
    ASSUME PhiInv, PhiInv', PlaceInv, RoleInv, CopyInv,
           Collect \/ BeginRestore \/ Break \/ FreeTmp \/ Done \/ UNCHANGED vars
               \/ (Finish /\ UNCHANGED <<values, stack, code, wraps>>)
    PROVE  CopyInv'
<1>0. Places /\ CodeTypes /\ FixedInv /\ PartInv /\ ContentInv /\ SavedInv /\ PlacedInv /\ HomeInv
  BY DEF PlaceInv, RoleInv, CopyInv
<1>1. UNCHANGED <<inc, back, num_parts, live, fixed, reg, dirty, slot, rc, mem, cur_reg, was>>
  BY DEF Collect, BeginRestore, Break, FreeTmp, Done, Finish, vars, edge, values, code, wraps
<1>2. Left' = Left
  <2>1. [Next]_vars
    BY DEF Next
  <2>2. CASE ~HandlesNode
    BY <2>1, <2>2, LeftSame
  <2>3. CASE HandlesNode
    BY <2>3 DEF HandlesNode, KeepPhi, RestoreEnd, MoveEnd, Collect, BeginRestore, Break, FreeTmp, Done, Finish, vars
  <2> QED BY <2>2, <2>3
<1>3. /\ num_parts \in 1 .. 3 /\ Idx' = Idx /\ \A i \in Idx : i \in Nat /\ TmpReg(i)' = TmpReg(i)
  BY <1>0, <1>1, PartFacts DEF Idx, TmpReg
<1>4. \/ UNCHANGED <<pc, part, ready, tmp, tmp_slot>>
      \/ Moving = {} /\ Moving' = {} /\ UNCHANGED part /\ pc' # "save" /\ pc # "save"
         /\ (tmp \in Nodes => UNCHANGED <<tmp, tmp_slot>> /\ pc' # "free_tmp") /\ UNCHANGED tmp
      \/ Moving = {} /\ pc' = "restore" /\ part = 0 /\ part' = 0 /\ UNCHANGED <<tmp, tmp_slot>> /\ pc # "save"
      \/ Break
  <2>1. CASE Collect \/ Finish
    BY <2>1 DEF Collect, Finish, temps, Moving
  <2>2. CASE FreeTmp
    BY <1>0, <2>2 DEF FreeTmp, Moving, SavedInv
  <2>3. CASE BeginRestore
    BY <1>0, <2>3 DEF BeginRestore, temps, Moving, PartInv
  <2>4. CASE Done \/ UNCHANGED vars
    BY <2>4 DEF Done, vars
  <2> QED BY <2>1, <2>2, <2>3, <2>4
<1>5. /\ \A v \in Vals : Readable(v)' => Readable(v)
      /\ \A n \in Nodes, i \in Idx : Moved(n, i)' => Moved(n, i)
      /\ SavedInv'
  <2>1. CASE UNCHANGED <<pc, part, ready, tmp, tmp_slot>>
    <3>1. Moving' = Moving
      BY <2>1 DEF Moving
    <3> QED BY <1>0, <1>1, <1>2, <1>3, <2>1, <3>1 DEF Readable, Moved, SavedInv
  <2>2. CASE Moving = {} /\ Moving' = {} /\ UNCHANGED part /\ pc' # "save" /\ pc # "save"
             /\ (tmp \in Nodes => UNCHANGED <<tmp, tmp_slot>> /\ pc' # "free_tmp") /\ UNCHANGED tmp
    BY <1>0, <1>1, <1>2, <1>3, <2>2 DEF Readable, Moved, SavedInv
  <2>3. CASE Moving = {} /\ pc' = "restore" /\ part = 0 /\ part' = 0 /\ UNCHANGED <<tmp, tmp_slot>> /\ pc # "save"
    BY <1>0, <1>1, <1>2, <1>3, <2>3 DEF Readable, Moved, SavedInv
  <2>4. CASE Break
    <3>1. pc = "next" /\ pc' = "save" /\ part' = 0
          /\ (num_parts > 2 => tmp_slot' \in Slots)
      BY <2>4 DEF Break
    <3>2. Moving = {} /\ Moving' = {} /\ NoSlot \notin Slots
      BY <3>1, PhiAssumption DEF Moving
    <3>3. SavedInv'
      <4>1. tmp' \in Nodes /\ num_parts' > 2 => tmp_slot' # NoSlot
        BY <1>1, <3>1, <3>2
      <4>2. \A i \in Idx : ~(i < 0)
        BY <1>3
      <4> QED BY <1>3, <3>1, <4>1, <4>2 DEF SavedInv
    <3> QED BY <1>2, <1>1, <3>2, <3>3 DEF Readable, Moved
  <2> QED BY <1>4, <2>1, <2>2, <2>3, <2>4
<1>6. ContentInv' /\ PlacedInv' /\ HomeInv'
  BY <1>0, <1>1, <1>5, CopyFrame
<1>7. CodeTypes'
  BY <1>0, <1>1, <1>3 DEF CodeTypes
<1> QED BY <1>5, <1>6, <1>7 DEF CopyInv

\* A step gets the register it needs for a wrapper that holds no part of the
\* phi in the temporary, and at the end nothing is in the temporary.
LEMMA WrapperCopy ==
    ASSUME PhiInv, PlaceInv, RoleInv, CopyInv,
           Prepare \/ (Finish /\ ~UNCHANGED <<values, stack, code, wraps>>)
    PROVE  CopyInv'
<1>0. Places /\ SlotLists /\ StackInv /\ PartInv /\ num_parts \in 1 .. 3
  BY PartFacts DEF PlaceInv, StackInv, SlotLists, RoleInv
<1>1. CASE Prepare
  <2>1. UNCHANGED <<inc, back, num_parts, ready, waiting, tmp, tmp_slot, pc, part, was>>
    BY <1>1 DEF Prepare, edge, lists, temps, ctrl
  <2>2. PICK x \in Wanted : reset(x[1]) \/ alloc_from_bank(x[1], x[2])
    BY <1>1 DEF Prepare
  <2>3. x[1] \in WrapperSet
    BY WantedWrapper
  <2>4. CASE alloc_from_bank(x[1], x[2])
    BY <1>0, <2>1, <2>3, <2>4, AllocCopy DEF StackInv
  <2>5. CASE reset(x[1])
    <3>1. \/ pc = "move" /\ x[1] = "scratch"
          \/ pc = "save" /\ num_parts <= 2 /\ x[1] = TmpReg(part) /\ part # num_parts
          \/ num_parts > 2
      <4>1. Wanted # {} /\ part # num_parts
        BY DEF Wanted
      <4>2. pc = "move" => x = <<"scratch", PartBank[part]>>
        BY <4>1 DEF Wanted
      <4>3. pc = "save" /\ num_parts <= 2 => x = <<IF part = 0 THEN "tmp_reg1" ELSE "tmp_reg2", PartBank[part]>>
        <5>1. ASSUME pc = "save", num_parts <= 2
              PROVE  Wanted = {<<IF part = 0 THEN "tmp_reg1" ELSE "tmp_reg2", PartBank[part]>>}
          BY <1>0, <4>1, <5>1 DEF Wanted
        <5> QED BY <5>1
      <4>4. pc = "move" \/ pc = "save" \/ num_parts > 2
        BY <4>1 DEF Wanted
      <4>5. num_parts <= 2 \/ num_parts > 2
        BY <1>0
      <4> QED BY <4>1, <4>2, <4>3, <4>4, <4>5 DEF TmpReg
    <3>2. Unused(x[1])
      <4>1. CASE pc = "move" /\ x[1] = "scratch"
        BY <4>1 DEF Unused, TmpReg
      <4>2. CASE pc = "save" /\ num_parts <= 2 /\ x[1] = TmpReg(part) /\ part # num_parts
        <5>1. part \in {0, 1} /\ \A i \in Idx : i < part => i = 0 /\ part = 1
          BY <1>0, <4>2 DEF PartInv, Idx
        <5> QED BY <4>2, <5>1 DEF Unused, TmpReg
      <4>3. CASE num_parts > 2
        BY <1>0, <4>3 DEF Unused
      <4> QED BY <3>1, <4>1, <4>2, <4>3
    <3> QED BY <1>0, <2>1, <2>3, <2>5, <3>2, ResetCopy
  <2> QED BY <2>2, <2>4, <2>5
<1>2. CASE Finish /\ ~UNCHANGED <<values, stack, code, wraps>>
  <2>1. pc' = pc /\ \E w \in WrapperSet : reset(w)
    BY <1>2, FinishWrapper
  <2>2. UNCHANGED <<inc, back, num_parts, ready, waiting, tmp, tmp_slot, pc, part, was>>
    BY <1>2, <2>1 DEF Finish, edge, lists, temps
  <2>3. tmp \notin Nodes
    <3>1. \A n \in Nodes : ~Kept(n)
      BY <1>2, CyclesLeft DEF Finish
    <3>2. pc = "next"
      BY <1>2 DEF Finish
    <3> QED BY <3>1, <3>2 DEF Kept
  <2> QED BY <1>0, <2>1, <2>2, <2>3, ResetCopy DEF Unused
<1> QED BY <1>1, <1>2

\* Every step keeps the contents where they belong.
LEMMA CopyStep == ASSUME PhiInv, PhiInv', PlaceInv, RoleInv, CopyInv, [Next]_vars PROVE CopyInv'
<1>1. CASE Collect \/ BeginRestore \/ Break \/ FreeTmp \/ Done \/ UNCHANGED vars
  BY <1>1, BetweenCopy
<1>2. CASE Prepare
  BY <1>2, WrapperCopy
<1>3. CASE Finish
  BY <1>3, BetweenCopy, WrapperCopy
<1>4. CASE SaveEnd \/ KeepPhi \/ RestoreEnd \/ MoveEnd
  BY <1>4, EndCopy DEF HandlesNode
<1>5. CASE SavePart \/ RestorePart \/ MovePart
  BY <1>5, SavePartCopy, RestorePartCopy, MovePartCopy
<1>6. CASE BeginMove
  BY <1>6, BeginMoveCopy
<1> QED BY <1>1, <1>2, <1>3, <1>4, <1>5, <1>6 DEF Next

\* Before the edge every value has its content in its places, and the phis of a
\* loop are where they belong.
LEMMA CopyInit == Init => CopyInv
<1> SUFFICES ASSUME Init PROVE CopyInv
  OBVIOUS
<1>1. Places
  BY PlacesInit DEF PlaceInv
<1>2. /\ num_parts \in 1 .. 3 /\ NoReg \notin Regs /\ NoSlot \notin Slots /\ 0 \in Idx
      /\ Vals = Nodes \cup Others /\ Vals \subseteq Slots /\ \A n \in Nodes : n \notin Others
      /\ \A v \in Vals, i \in Idx : <<v, i>> \in Parts /\ Val(<<v, i>>) = v
  BY <1>1, PartFacts
<1>3. /\ live = [v \in Vals |-> v \in Others \/ back]
      /\ slot = [v \in Vals |-> IF \E i \in Idx : ~dirty[<<v, i>>] THEN v ELSE NoSlot]
      /\ rc = [r \in Regs |-> IF own[r] \in Parts THEN own[r] ELSE Junk]
      /\ mem = [s \in Slots |-> [i \in Idx |->
                   IF s \in Vals /\ slot[s] = s /\ ~dirty[<<s, i>>] THEN <<s, i>> ELSE Junk]]
      /\ tmp = None /\ pc = "collect" /\ part = 0
      /\ was.home = [n \in Nodes |-> IF fixed[n] THEN <<"reg", reg[<<n, 0>>]>> ELSE <<"slot", slot[n]>>]
  <2>1. /\ live = [v \in Vals |-> v \in Others \/ back]
        /\ slot = [v \in Vals |-> IF \E i \in Idx : ~dirty[<<v, i>>] THEN v ELSE NoSlot]
    BY DEF Init
  <2>2. rc = [r \in Regs |-> IF own[r] \in Parts THEN own[r] ELSE Junk]
    BY DEF Init
  <2>3. mem = [s \in Slots |-> [i \in Idx |->
                   IF s \in Vals /\ slot[s] = s /\ ~dirty[<<s, i>>] THEN <<s, i>> ELSE Junk]]
    BY DEF Init
  <2>4. tmp = None /\ pc = "collect" /\ part = 0
    BY DEF Init
  <2>5. was.home = [n \in Nodes |-> IF fixed[n] THEN <<"reg", reg[<<n, 0>>]>> ELSE <<"slot", slot[n]>>]
    BY DEF Init
  <2> QED BY <2>1, <2>2, <2>3, <2>4, <2>5
<1>4. PICK D : /\ D \subseteq {p \in Parts : Val(p) \in Others /\ reg[p] # NoReg}
               /\ dirty = [p \in Parts |-> p \in D \/ fixed[Val(p)] \/ ~live[Val(p)]]
  <2>1. \E D \in SUBSET {p \in Parts : Val(p) \in Others /\ reg[p] # NoReg} :
           dirty = [p \in Parts |-> p \in D \/ fixed[Val(p)] \/ ~live[Val(p)]]
    BY Zenon DEF Init
  <2> QED BY <2>1
<1>5. \A n \in Nodes, i \in Idx : ~Moved(n, i)
  BY <1>3 DEF Moved, Left, Moving
<1>6. CodeTypes
  BY <1>3 DEF CodeTypes
<1>7. ContentInv
  <2> SUFFICES ASSUME NEW v \in Vals, NEW i \in Idx, live[v], Readable(v) PROVE Right(v, i)
    BY DEF ContentInv
  <2> DEFINE p == <<v, i>>
  <2>1. p \in Parts /\ Val(p) = v
    BY <1>2
  <2>2. reg[p] # NoReg => rc[reg[p]] = p
    BY <1>1, <1>3, <2>1, OneUser DEF Places, OwnersInv
  <2>3. ~dirty[p] => mem[slot[v]][i] = p
    BY <1>2, <1>3, <2>1
  <2>4. reg[p] # NoReg \/ ~dirty[p]
    <3>1. dirty[p] => p \in D \/ fixed[v]
      BY <1>4, <2>1
    <3>2. fixed[v] => i = 0 /\ reg[p] # NoReg
      <4>1. FixedInv
        BY RolesInit DEF RoleInv
      <4>2. fixed[v] => num_parts = 1 /\ reg[<<v, 0>>] # NoReg
        BY <4>1 DEF FixedInv
      <4>3. num_parts = 1 => i = 0
        BY DEF Idx
      <4> QED BY <4>2, <4>3
    <3> QED BY <1>4, <3>1, <3>2
  <2> QED BY <2>2, <2>3, <2>4 DEF Right
<1>8. SavedInv
  BY <1>3, NoneIsNoValue DEF SavedInv
<1>9. PlacedInv
  BY <1>5 DEF PlacedInv
<1>10. HomeInv
  BY <1>3 DEF HomeInv, Place
<1> QED BY <1>6, <1>7, <1>8, <1>9, <1>10 DEF CopyInv
----------------------------------------------------------------------------
(***************************************************************************)
(* Theorems, for edges to at most WordBits phis.                           *)
(***************************************************************************)
\* During the moves, what may still be read has its old content and what has
\* been written its new one, wherever the bookkeeping says it is.
CopyAndRoleInv == RoleInv /\ CopyInv

\* Every step keeps both parts of the invariant.
THEOREM CopyInvAlways == ASSUME N <= WordBits PROVE Spec => []CopyAndRoleInv
<1>1. Init => CopyAndRoleInv
  BY RolesInit, CopyInit DEF CopyAndRoleInv
<1>2. PhiInv /\ PhiInv' /\ PlaceInv /\ CopyAndRoleInv /\ [Next]_vars => CopyAndRoleInv'
  BY RoleStep, CopyStep DEF CopyAndRoleInv
<1> QED BY <1>1, <1>2, PhiInvAlways, PlaceInvAlways, PTL DEF Spec

\* The moves are a parallel copy: in the end every phi that is used has the
\* value its incoming value had before the edge, whatever chains and cycles
\* there are and wherever the values were.
THEOREM ParallelCopyAlways == ASSUME N <= WordBits PROVE Spec => []ParallelCopy
<1>1. PhiInv /\ PlaceInv /\ CopyAndRoleInv /\ HandledInv => ParallelCopy
  <2> SUFFICES ASSUME PhiInv, PlaceInv, CopyAndRoleInv, HandledInv, pc = "done",
                      NEW n \in Nodes, NEW i \in Idx, back \/ was.later[n] > 0
               PROVE  AtHome(n, i) = <<inc[n], i>>
    BY DEF ParallelCopy
  <2>1. Left = {}
    BY DEF HandledInv
  <2>2. n \in Vals /\ Places /\ PlacedInv /\ HomeInv /\ LiveInv /\ FixedInv
    BY NoneIsNoValue DEF PlaceInv, CopyAndRoleInv, CopyInv, RoleInv
  <2>3. live[n]
    <3>1. CASE back
      BY <2>2, <3>1 DEF Places, EdgeInv
    <3>2. CASE was.later[n] > 0
      BY <2>1, <2>2, <3>2, FinishedUsed DEF LiveInv
    <3> QED BY <3>1, <3>2
  <2>4. Placed(n, i) /\ was.home[n] = Place(n)
    BY <2>1, <2>2, <2>3 DEF PlacedInv, HomeInv, Moved
  <2>5. CASE fixed[n]
    BY <2>4, <2>5 DEF Placed, Place, AtHome
  <2>6. CASE ~fixed[n]
    BY <2>4, <2>6 DEF Placed, Place, AtHome
  <2> QED BY <2>5, <2>6
<1> QED BY <1>1, PhiInvAlways, PlaceInvAlways, CopyInvAlways, HandledAlways, PTL

\* The other values survive the moves, on the path through them and on the path
\* around them, although the wrappers spilled and reloaded them.
THEOREM PlacesKeptAlways == ASSUME N <= WordBits PROVE Spec => []PlacesKept
<1>1. PlaceInv /\ CopyAndRoleInv => PlacesKept
  <2> SUFFICES ASSUME PlaceInv, CopyAndRoleInv, pc = "done" PROVE AfterMoves /\ AroundMoves
    BY DEF PlacesKept
  <2>1. Places /\ ContentInv /\ AroundInv /\ BackupInv
    BY DEF PlaceInv, CopyAndRoleInv, CopyInv, RoleInv
  <2>2. /\ Vals = Nodes \cup Others /\ None \notin Parts
        /\ \A p \in Parts : Val(p) \in Vals
        /\ \A v \in Vals, i \in Idx : <<v, i>> \in Parts
    BY <2>1, PartFacts, NotAPart
  <2>3. AfterMoves
    <3>1. \A v \in Others, i \in Idx : live[v] => Right(v, i)
      BY <2>1, <2>2 DEF ContentInv, Readable
    <3> QED BY <3>1 DEF AfterMoves, Right
  <2>4. AroundMoves
    <3> SUFFICES ASSUME NEW p \in Parts, Before(Val(p))
                 PROVE  reg[p] = was.reg[p] /\ (~dirty[p] => ~was.dirty[p] /\ slot[Val(p)] = was.slot[Val(p)])
      BY DEF AroundMoves, Before
    <3>1. \A w \in WrapperSet : backup[w] # p
      BY <2>1, <2>2 DEF BackupInv
    <3>2. reg[p] = was.reg[p] /\ dirty[p] = was.dirty[p]
      BY <2>1, <3>1 DEF AroundInv
    <3>3. ~was.dirty[p] => was.slot[Val(p)] # NoSlot /\ slot[Val(p)] = was.slot[Val(p)]
      BY <2>1, <2>2 DEF AroundInv
    <3>4. dirty[p] \in BOOLEAN
      BY <2>1 DEF Places, PlaceTypes
    <3> QED BY <3>2, <3>3, <3>4
  <2> QED BY <2>3, <2>4
<1> QED BY <1>1, PlaceInvAlways, CopyInvAlways, PTL
====
