--------------------------- MODULE RegAllocProofs ---------------------------
(***************************************************************************)
(* References, ownership and locking of registers in RegAlloc, for every   *)
(* choice of its constants: RefsAccounted; OwnerConsistent,                *)
(* LockAccounting, HandleStable, LockedStays.                              *)
(*                                                                         *)
(* None of the last four is inductive alone.  LinkInv ties the handles to  *)
(* the ValueRefs and assignments they were made from, and RegInv says of   *)
(* each register that it is free, a temporary's, or a part's, and who may  *)
(* have locked it.  Evicting or freeing a register is right because nobody *)
(* who could rely on it is left, and that is a fact about all three.       *)
(***************************************************************************)
EXTENDS RegAlloc, FiniteSetTheorems, TLAPS

(***************************************************************************)
(* Reference counting.  Only a few operations touch the variables that     *)
(* RefsAccounted is about.                                                 *)
(***************************************************************************)
refvars == <<st, refs, delay, may_emit_calls, vref>>

\* The types of these variables; only ordinary values have counted references.
RefTypeOK ==
    /\ st \in [AllVals -> {"none", "live", "pending"}]
    /\ refs \in [AllVals -> Nat]
    /\ delay \subseteq Values
    /\ may_emit_calls \in MayEmitCalls
    /\ vref \in [VRefs -> [val : AllVals \cup {NoVal}, mode : 0 .. 2]]
    /\ \A x \in VRefs : vref[x].mode # 0 => vref[x].val \in Values

RefInv == RefTypeOK /\ RefsAccounted

\* The counted references to a value can be counted.
LEMMA CountedFinite == ASSUME NEW v PROVE IsFiniteSet(Counted(v)) /\ Cardinality(Counted(v)) \in Nat
<1>1. Counted(v) \subseteq VRefs
  BY DEF Counted, RefsTo
<1>2. IsFiniteSet(Counted(v))
  BY <1>1, HandleAssumption, FS_Subset DEF HandleAssumption
<1> QED BY <1>2, FS_CardinalityType

\* The operations of a ValuePart leave assignments and ValueRefs alone.
LEMMA PartStepRefs == ASSUME NEW h \in PRefs, PartStep(h) PROVE UNCHANGED refvars
<1> USE DEF refvars, life, handles
<1>1. CASE Lock(h) BY <1>1 DEF Lock
<1>2. CASE Unlock(h) BY <1>2 DEF Unlock
<1>3. CASE alloc_reg(h) BY <1>3 DEF alloc_reg
<1>4. CASE load_to_reg(h) BY <1>4 DEF load_to_reg
<1>5. CASE WriteResult(h) BY <1>5 DEF WriteResult
<1>6. ASSUME NEW r \in Regs, alloc_specific(h, r) PROVE UNCHANGED refvars
  BY <1>6 DEF alloc_specific
<1>7. ASSUME NEW r \in Regs, load_to_specific(h, r) PROVE UNCHANGED refvars
  BY <1>7 DEF load_to_specific
<1>8. ASSUME NEW k, temporary(h, k) PROVE UNCHANGED refvars
  BY <1>8 DEF temporary
<1>9. ASSUME NEW r \in Regs, alloc_temp(h, r) PROVE UNCHANGED refvars
  BY <1>9 DEF alloc_temp, ClaimTemp
<1>10. ASSUME NEW r \in Regs, alloc_temp_specific(h, r) PROVE UNCHANGED refvars
  BY <1>10 DEF alloc_temp_specific, ClaimTemp
<1>11. ASSUME NEW o \in PRefs, set_value_temp_move(h, o) PROVE UNCHANGED refvars
  BY <1>11 DEF set_value_temp_move
<1>12. ASSUME NEW o \in PRefs, set_value_temp_copy(h, o) PROVE UNCHANGED refvars
  BY <1>12 DEF set_value_temp_copy
<1>13. ASSUME NEW o \in PRefs, set_value_temp_salvage(h, o) PROVE UNCHANGED refvars
  BY <1>13 DEF set_value_temp_salvage
<1>14. ASSUME NEW o \in PRefs, set_value_copy(h, o) PROVE UNCHANGED refvars
  BY <1>14 DEF set_value_copy
<1>15. ASSUME NEW o \in PRefs, NEW u \in BOOLEAN, set_value_salvage(h, o, u)
       PROVE UNCHANGED refvars
  BY <1>15 DEF set_value_salvage
<1>16. ASSUME NEW s \in SRegs, set_value_scratch(h, s) PROVE UNCHANGED refvars
  BY <1>16 DEF set_value_scratch
<1>17. ASSUME NEW s \in SRegs, set_value_scratch_temp(h, s) PROVE UNCHANGED refvars
  BY <1>17 DEF set_value_scratch_temp
<1>18. ASSUME NEW s \in SRegs, into_scratch(h, s) PROVE UNCHANGED refvars
  BY <1>18 DEF into_scratch
<1>19. ASSUME NEW r \in RetRegs, set_value_reg(h, r) PROVE UNCHANGED refvars
  BY <1>19 DEF set_value_reg
<1>20. ASSUME NEW r \in RetRegs, set_value_reg_temp(h, r) PROVE UNCHANGED refvars
  BY <1>20 DEF set_value_reg_temp
<1>21. ASSUME NEW r \in ArgRegs, add_arg(h, r) PROVE UNCHANGED refvars
  BY <1>21 DEF add_arg
<1>22. CASE call_reg(h) BY <1>22 DEF call_reg, CallEffect
<1>23. CASE ValuePart_reset(h) BY <1>23 DEF ValuePart_reset
<1> QED BY <1>1, <1>2, <1>3, <1>4, <1>5, <1>6, <1>7, <1>8, <1>9, <1>10, <1>11,
           <1>12, <1>13, <1>14, <1>15, <1>16, <1>17, <1>18, <1>19, <1>20, <1>21,
           <1>22, <1>23 DEF PartStep

\* So do those of a ScratchReg.
LEMMA ScratchStepRefs ==
    ASSUME NEW s \in SRegs, ScratchStep(s) PROVE UNCHANGED refvars
<1> USE DEF refvars, life, handles
<1>1. ASSUME NEW r \in Regs, ScratchReg_alloc(s, r) PROVE UNCHANGED refvars
  BY <1>1 DEF ScratchReg_alloc, ClaimTemp
<1>2. ASSUME NEW r \in Regs, ScratchReg_alloc_specific(s, r) PROVE UNCHANGED refvars
  BY <1>2 DEF ScratchReg_alloc_specific, ClaimTemp
<1>3. CASE ScratchReg_reset(s) BY <1>3 DEF ScratchReg_reset
<1> QED BY <1>1, <1>2, <1>3 DEF ScratchStep

\* Counting the references after x has become one of value v.
LEMMA CountedAdd ==
    ASSUME RefTypeOK, NEW x \in VRefs, vref[x].val = NoVal,
           NEW v \in AllVals, NEW m \in 0 .. 2,
           vref' = [vref EXCEPT ![x] = [val |-> v, mode |-> m]]
    PROVE  /\ \A u \in AllVals :
                Counted(u)' = IF u = v /\ m # 0 THEN Counted(u) \cup {x} ELSE Counted(u)
           /\ m # 0 => Cardinality(Counted(v)') = Cardinality(Counted(v)) + 1
<1>1. ASSUME NEW u \in AllVals
      PROVE Counted(u)' = IF u = v /\ m # 0 THEN Counted(u) \cup {x} ELSE Counted(u)
  BY ValueAssumption DEF Counted, RefsTo, RefTypeOK, ValueAssumption
<1>2. x \notin Counted(v)
  BY ValueAssumption DEF Counted, RefsTo, ValueAssumption
<1>3. ASSUME m # 0 PROVE Cardinality(Counted(v)') = Cardinality(Counted(v)) + 1
  BY <1>1, <1>2, <1>3, CountedFinite, FS_AddElement
<1> QED BY <1>1, <1>3

\* The same after reference x to v has been given up.
LEMMA CountedRemove ==
    ASSUME RefTypeOK, NEW x \in VRefs, NEW v \in AllVals, vref[x].val = v,
           vref' = [vref EXCEPT ![x] = Unused]
    PROVE  /\ \A u \in AllVals : Counted(u)' = Counted(u) \ {x}
           /\ vref[x].mode # 0 =>
                x \in Counted(v) /\ Cardinality(Counted(v)') = Cardinality(Counted(v)) - 1
<1>1. ASSUME NEW u \in AllVals PROVE Counted(u)' = Counted(u) \ {x}
  BY ValueAssumption DEF Counted, RefsTo, RefTypeOK, ValueAssumption, Unused
<1>2. ASSUME vref[x].mode # 0
      PROVE x \in Counted(v) /\ Cardinality(Counted(v)') = Cardinality(Counted(v)) - 1
  <2>1. x \in Counted(v) BY <1>2 DEF Counted, RefsTo
  <2> QED BY <1>1, <2>1, CountedFinite, FS_RemoveElement
<1> QED BY <1>1, <1>2

\* Initially there are no assignments and no references.
LEMMA RefInvInit == Init => RefInv
<1> SUFFICES ASSUME Init PROVE RefInv OBVIOUS
<1>1. RefTypeOK
  BY ValueAssumption DEF Init, RefTypeOK, Unused
<1>2. ASSUME NEW v \in Values PROVE Counted(v) = {}
  BY ValueAssumption DEF Init, Counted, RefsTo, Unused
<1>3. ASSUME NEW v \in Values
      PROVE /\ (st[v] = "live") = (refs[v] > 0)
            /\ Cardinality(Counted(v)) <= refs[v]
            /\ \A x \in Counted(v) : vref[x].mode = 2 => refs[v] = 1
  <2>1. Cardinality(Counted(v)) = 0 BY <1>2, FS_EmptySet
  <2>2. st[v] = "none" /\ refs[v] = 0 BY DEF Init, AllVals
  <2> QED BY <1>2, <2>1, <2>2
<1> QED BY <1>1, <1>3 DEF RefInv, RefsAccounted

\* A new value: both forms of result_ref.
LEMMA ResultRefs ==
    ASSUME RefInv, NEW x \in VRefs, NEW v \in Values, NEW n \in 1 .. MaxRefs,
           NEW d \in BOOLEAN, vref[x].val = NoVal, st[v] = "none",
           InitAssignment(v, n, d), UNCHANGED may_emit_calls,
           vref' = [vref EXCEPT ![x] = [val |-> v, mode |-> Mode(n, d)]]
    PROVE  RefInv'
<1>1. Mode(n, d) \in 1 .. 2 /\ (Mode(n, d) = 2 => n = 1)
  BY ValueAssumption DEF Mode, ValueAssumption
<1>2. v \in AllVals BY DEF AllVals
<1>3. RefTypeOK'
  BY <1>1, <1>2, ValueAssumption DEF RefInv, RefTypeOK, InitAssignment, ValueAssumption, AllVals
<1>4. \A u \in AllVals : Counted(u)' = IF u = v THEN Counted(u) \cup {x} ELSE Counted(u)
  <2> DEFINE m == Mode(n, d)
  <2>1. m \in 0 .. 2 /\ m # 0 /\ vref' = [vref EXCEPT ![x] = [val |-> v, mode |-> m]]
    BY <1>1
  <2> HIDE DEF m
  <2> QED BY ZenonT(60), <1>2, <2>1, CountedAdd DEF RefInv
<1>5. Counted(v) = {}
  BY CountedFinite, FS_EmptySet DEF RefInv, RefTypeOK, RefsAccounted, AllVals
<1>6. Counted(v)' = {x} BY <1>2, <1>4, <1>5
<1>7. Cardinality(Counted(v)') = 1 BY <1>6, FS_Singleton
<1>8. ASSUME NEW u \in Values
      PROVE /\ (st'[u] = "live") = (refs'[u] > 0)
            /\ Cardinality(Counted(u)') <= refs'[u]
            /\ \A y \in Counted(u)' : vref'[y].mode = 2 => refs'[u] = 1
  <2>1. CASE u = v
    <3>1. st'[v] = "live" /\ refs'[v] = n /\ n \in Nat /\ n >= 1
      BY <1>2, ValueAssumption DEF RefInv, RefTypeOK, InitAssignment, ValueAssumption
    <3>2. vref'[x].mode = Mode(n, d) BY DEF RefInv, RefTypeOK
    <3> QED BY SMTT(30), <1>1, <1>6, <1>7, <2>1, <3>1, <3>2
  <2>2. CASE u # v
    <3>1. Counted(u)' = Counted(u) /\ u \in AllVals BY <1>4, <2>2 DEF AllVals
    <3>2. \A y \in Counted(u) : y \in VRefs /\ y # x BY ValueAssumption DEF Counted, RefsTo, ValueAssumption, AllVals
    <3> QED BY <2>2, <3>1, <3>2 DEF RefInv, RefTypeOK, RefsAccounted, InitAssignment
  <2> QED BY <2>1, <2>2
<1> QED BY <1>3, <1>8 DEF RefInv, RefsAccounted

\* val_ref: a counted reference takes one of the references left.
LEMMA ValRefs == ASSUME RefInv, NEW x \in VRefs, NEW v \in AllVals, val_ref(x, v)
                 PROVE RefInv'
<1> DEFINE m == IF v \in VarRefs THEN 0 ELSE Mode(refs[v], v \in delay)
<1>1. /\ m \in 0 .. 2 /\ (m # 0 => v \in Values)
      /\ vref' = [vref EXCEPT ![x] = [val |-> v, mode |-> m]]
      /\ vref[x].val = NoVal
      /\ UNCHANGED <<st, refs, delay, may_emit_calls>>
  BY DEF val_ref, Mode, life, AllVals
<1>2. RefTypeOK'
  BY <1>1 DEF RefInv, RefTypeOK
<1>3. /\ \A u \in AllVals : Counted(u)' = IF u = v /\ m # 0 THEN Counted(u) \cup {x} ELSE Counted(u)
      /\ m # 0 => Cardinality(Counted(v)') = Cardinality(Counted(v)) + 1
  BY <1>1, CountedAdd DEF RefInv
<1>4. ASSUME NEW u \in Values
      PROVE /\ (st'[u] = "live") = (refs'[u] > 0)
            /\ Cardinality(Counted(u)') <= refs'[u]
            /\ \A y \in Counted(u)' : vref'[y].mode = 2 => refs'[u] = 1
  <2>0. u \in AllVals /\ refs[u] \in Nat BY DEF RefInv, RefTypeOK, AllVals
  <2>1. \A y \in Counted(u) : y \in VRefs /\ y # x
    BY <1>1, ValueAssumption DEF Counted, RefsTo, ValueAssumption, AllVals
  <2>2. CASE u = v /\ m # 0
    <3>1. st[v] = "live" /\ Cardinality(Counted(v)) < refs[v]
      BY <2>2 DEF val_ref
    <3>2. m = 2 => refs[v] = 1
      BY <2>0, <2>2, <3>1, ValueAssumption DEF Mode, RefInv, RefsAccounted, ValueAssumption
    <3>3. Cardinality(Counted(u)') <= refs'[u]
      BY <1>1, <1>3, <2>0, <2>2, <3>1, CountedFinite
    <3>4. \A y \in Counted(u)' : vref'[y].mode = 2 => refs'[u] = 1
      BY <1>1, <1>3, <2>0, <2>1, <2>2, <3>2 DEF RefInv, RefTypeOK, RefsAccounted
    <3> QED BY <1>1, <3>3, <3>4 DEF RefInv, RefsAccounted
  <2>3. CASE ~(u = v /\ m # 0)
    BY <1>1, <1>3, <2>0, <2>1, <2>3 DEF RefInv, RefTypeOK, RefsAccounted
  <2> QED BY <2>2, <2>3
<1> QED BY <1>2, <1>4 DEF RefInv, RefsAccounted

\* disowned: an uncounted reference.
LEMMA DisownedRefs == ASSUME RefInv, NEW x \in VRefs, NEW y \in VRefs, disowned(x, y)
                      PROVE RefInv'
<1>1. PICK v \in AllVals : vref[y].val = v
  BY DEF disowned, RefInv, RefTypeOK
<1>2. /\ vref' = [vref EXCEPT ![x] = [val |-> v, mode |-> 0]] /\ vref[x].val = NoVal
      /\ UNCHANGED <<st, refs, delay, may_emit_calls>>
  BY <1>1 DEF disowned, life
<1>3. RefTypeOK' BY <1>1, <1>2 DEF RefInv, RefTypeOK
<1>4. \A u \in AllVals : Counted(u)' = Counted(u)
  <2>1. PICK m \in 0 .. 2 : m = 0 OBVIOUS
  <2>2. vref' = [vref EXCEPT ![x] = [val |-> v, mode |-> m]] BY <1>2, <2>1
  <2> QED BY ZenonT(60), <1>1, <1>2, <2>1, <2>2, CountedAdd DEF RefInv
<1>5. \A u \in AllVals : \A z \in Counted(u) : vref'[z] = vref[z]
  BY <1>2, ValueAssumption DEF Counted, RefsTo, RefInv, RefTypeOK, ValueAssumption
<1> QED BY <1>2, <1>3, <1>4, <1>5 DEF RefInv, RefsAccounted, AllVals

\* ValueRef::reset: the reference, and with the last one the assignment, goes.
LEMMA ResetRefs == ASSUME RefInv, NEW x \in VRefs, ValueRef_reset(x) PROVE RefInv'
<1>1. PICK v \in AllVals : vref[x].val = v
  BY DEF ValueRef_reset, RefInv, RefTypeOK
<1> DEFINE last == vref[x].mode # 0 /\ refs[v] = 1
<1>2. /\ vref' = [vref EXCEPT ![x] = Unused]
      /\ refs' = IF vref[x].mode # 0 THEN [refs EXCEPT ![v] = @ - 1] ELSE refs
  BY <1>1 DEF ValueRef_reset
<1>3. /\ IF last THEN \E s \in {"none", "pending"} : st' = [st EXCEPT ![v] = s]
                 ELSE st' = st
      /\ delay' \subseteq delay /\ UNCHANGED may_emit_calls
  BY <1>1 DEF ValueRef_reset, FreeAssignment
<1>4. /\ \A u \in AllVals : Counted(u)' = Counted(u) \ {x}
      /\ vref[x].mode # 0 =>
           x \in Counted(v) /\ Cardinality(Counted(v)') = Cardinality(Counted(v)) - 1
  BY <1>1, <1>2, CountedRemove DEF RefInv
<1>5. vref[x].mode # 0 => v \in Values /\ refs[v] > 0
  <2> SUFFICES ASSUME vref[x].mode # 0 PROVE v \in Values /\ refs[v] > 0 OBVIOUS
  <2>1. v \in Values /\ refs[v] \in Nat BY <1>1 DEF RefInv, RefTypeOK
  <2>2. Cardinality(Counted(v)) <= refs[v] BY <2>1 DEF RefInv, RefsAccounted
  <2>3. Cardinality(Counted(v)') \in Nat
    <3>1. IsFiniteSet(Counted(v)') BY <1>4, CountedFinite, FS_Subset
    <3> QED BY <3>1, FS_CardinalityType
  <2> QED BY <1>4, <2>1, <2>2, <2>3, CountedFinite
<1>6. RefTypeOK'
  <2>1. refs' \in [AllVals -> Nat] BY <1>2, <1>5 DEF RefInv, RefTypeOK
  <2>2. st' \in [AllVals -> {"none", "live", "pending"}] BY <1>3 DEF RefInv, RefTypeOK
  <2>3. /\ vref' \in [VRefs -> [val : AllVals \cup {NoVal}, mode : 0 .. 2]]
        /\ \A y \in VRefs : vref'[y].mode # 0 => vref'[y].val \in Values
    BY <1>2 DEF RefInv, RefTypeOK, Unused
  <2> QED BY <1>3, <2>1, <2>2, <2>3 DEF RefInv, RefTypeOK
<1>7. ASSUME NEW u \in Values
      PROVE /\ (st'[u] = "live") = (refs'[u] > 0)
            /\ Cardinality(Counted(u)') <= refs'[u]
            /\ \A y \in Counted(u)' : vref'[y].mode = 2 => refs'[u] = 1
  <2>1. u \in AllVals /\ refs[u] \in Nat BY DEF RefInv, RefTypeOK, AllVals
  <2>2. \A y \in Counted(u)' : y \in Counted(u) /\ vref'[y] = vref[y]
    BY <1>2, <1>4, <2>1 DEF RefInv, RefTypeOK, Counted, RefsTo
  <2>3. CASE u = v /\ vref[x].mode # 0
    <3>1. refs'[u] = refs[u] - 1 BY <1>2, <2>1, <2>3 DEF RefInv, RefTypeOK
    <3>2. (st'[u] = "live") = (refs'[u] > 0)
      <4>1. CASE last
        BY <1>3, <2>1, <2>3, <3>1, <4>1 DEF RefInv, RefTypeOK
      <4>2. CASE ~last
        <5>1. st[u] = "live" /\ refs[u] > 1
          BY <1>5, <2>1, <2>3, <4>2 DEF RefInv, RefsAccounted
        <5> QED BY <1>3, <2>1, <3>1, <4>2, <5>1
      <4> QED BY <4>1, <4>2
    <3>3. Cardinality(Counted(u)') <= refs'[u]
      BY <1>4, <2>1, <2>3, <3>1, CountedFinite DEF RefInv, RefsAccounted
    <3>4. ASSUME NEW y \in Counted(u)', vref'[y].mode = 2 PROVE FALSE
      <4>1. refs[u] = 1 /\ Cardinality(Counted(u)) <= 1
        BY <2>2, <3>4 DEF RefInv, RefsAccounted
      <4>2. Cardinality(Counted(u)') <= 0
        BY <1>4, <2>3, <4>1, CountedFinite
      <4>3. IsFiniteSet(Counted(u)') BY <1>4, <2>1, CountedFinite, FS_Subset
      <4>4. Cardinality(Counted(u)') = 0 BY <4>2, <4>3, FS_CardinalityType
      <4> QED BY <3>4, <4>3, <4>4, FS_EmptySet
    <3> QED BY <3>2, <3>3, <3>4
  <2>4. CASE u = v /\ vref[x].mode = 0
    <3>1. Counted(u)' = Counted(u) BY <1>4, <2>1, <2>4 DEF Counted
    <3> QED BY <1>2, <1>3, <2>2, <2>4, <3>1 DEF RefInv, RefsAccounted
  <2>5. CASE u # v
    <3>1. Counted(u)' = Counted(u) BY <1>1, <1>4, <2>1, <2>5 DEF Counted, RefsTo
    <3>2. refs'[u] = refs[u] /\ st'[u] = st[u]
      BY <1>2, <1>3, <2>1, <2>5 DEF RefInv, RefTypeOK
    <3> QED BY <2>2, <3>1, <3>2 DEF RefInv, RefsAccounted
  <2> QED BY <2>3, <2>4, <2>5 DEF RefInv, RefTypeOK
<1> QED BY <1>6, <1>7 DEF RefInv, RefsAccounted

\* What the compiler does between the operations of the handles.
LEMMA CompilerStepRefs == ASSUME RefInv, CompilerStep PROVE RefInv'
<1>1. ASSUME NEW w \in VarRefs, init_variable_ref(w) PROVE RefInv'
  <2>1. /\ st' = [st EXCEPT ![w] = "live"] /\ UNCHANGED <<refs, delay, vref, may_emit_calls>>
    BY <1>1 DEF init_variable_ref, handles
  <2>2. RefTypeOK' BY <2>1 DEF RefInv, RefTypeOK, AllVals
  <2>3. \A v \in AllVals : Counted(v)' = Counted(v) BY <2>1 DEF Counted, RefsTo
  <2>4. \A v \in Values : st'[v] = st[v]
    BY <2>1, ValueAssumption DEF RefInv, RefTypeOK, ValueAssumption, AllVals
  <2> QED BY <2>1, <2>2, <2>3, <2>4 DEF RefInv, RefsAccounted, AllVals
<1>2. ASSUME NEW w \in Values, delayed_free(w) PROVE RefInv'
  <2>1. /\ st[w] = "pending" /\ st' = [st EXCEPT ![w] = "none"]
        /\ delay' \subseteq delay /\ UNCHANGED <<refs, vref, may_emit_calls>>
    BY <1>2 DEF delayed_free, FreeAssignment, handles
  <2>2. RefTypeOK' BY <2>1 DEF RefInv, RefTypeOK
  <2>3. \A v \in AllVals : Counted(v)' = Counted(v) BY <2>1 DEF Counted, RefsTo
  <2>4. \A v \in Values : (st'[v] = "live") = (st[v] = "live")
    BY <2>1 DEF RefInv, RefTypeOK, AllVals
  <2> QED BY <2>1, <2>2, <2>3, <2>4 DEF RefInv, RefsAccounted, AllVals
<1>3. CASE compile_func
  <2>1. RefTypeOK' BY <1>3, ValueAssumption DEF compile_func, RefTypeOK, Unused
  <2>2. ASSUME NEW v \in Values PROVE Counted(v)' = {} /\ st'[v] = "none" /\ refs'[v] = 0
    BY <1>3 DEF compile_func, Counted, RefsTo, Unused, AllVals
  <2>3. ASSUME NEW v \in Values PROVE Cardinality(Counted(v)') = 0
    BY <2>2, <2>3, FS_EmptySet
  <2>4. RefsAccounted' BY <2>2, <2>3 DEF RefsAccounted
  <2> QED BY <2>1, <2>4 DEF RefInv
<1>4. ASSUME UNCHANGED refvars PROVE RefInv'
  BY <1>4 DEF refvars, RefInv, RefTypeOK, RefsAccounted, Counted, RefsTo
<1>5. ASSUME NEW p \in Parts, spill(p) PROVE UNCHANGED refvars
  BY <1>5 DEF spill, refvars, life, handles
<1>6. ASSUME NEW r \in Regs, evict_reg(r) PROVE UNCHANGED refvars
  BY <1>6 DEF evict_reg, refvars, life, handles
<1>7. ASSUME NEW R \in SUBSET Regs, release_spilled_regs(R) PROVE UNCHANGED refvars
  BY <1>7 DEF release_spilled_regs, FreeRegs, refvars, life, handles
<1>8. CASE call_sym BY <1>4, <1>8 DEF call_sym, CallEffect, refvars, life
<1>9. CASE ret BY <1>4, <1>9 DEF ret, FreeRegs, refvars, life, handles
<1> QED BY <1>1, <1>2, <1>3, <1>4, <1>5, <1>6, <1>7, <1>8, <1>9 DEF CompilerStep

\* The operations of a ValueRef.
LEMMA RefStepRefs == ASSUME RefInv, NEW x \in VRefs, RefStep(x) PROVE RefInv'
<1>1. ASSUME NEW v \in Values, NEW n \in 1 .. MaxRefs, NEW d \in BOOLEAN,
             result_ref(x, v, n, d) \/ result_ref_fixed(x, v, n, d)
      PROVE RefInv'
  <2>1. /\ vref[x].val = NoVal /\ st[v] = "none" /\ InitAssignment(v, n, d)
        /\ UNCHANGED may_emit_calls
        /\ vref' = [vref EXCEPT ![x] = [val |-> v, mode |-> Mode(n, d)]]
    BY <1>1 DEF result_ref, result_ref_fixed
  <2> QED BY <2>1, ResultRefs
<1>2. ASSUME NEW h \in PRefs, NEW p \in Parts, NEW u \in BOOLEAN, part(h, x, p, u)
      PROVE RefInv'
  BY <1>2 DEF part, life, RefInv, RefTypeOK, RefsAccounted, Counted, RefsTo
<1> QED BY <1>1, <1>2, ValRefs, DisownedRefs, ResetRefs DEF RefStep

\* One step of the specification keeps the reference counts right.
LEMMA RefInvStep == RefInv /\ [Next]_vars => RefInv'
<1> SUFFICES ASSUME RefInv, [Next]_vars PROVE RefInv' OBVIOUS
<1>1. ASSUME UNCHANGED refvars PROVE RefInv'
  BY <1>1 DEF refvars, RefInv, RefTypeOK, RefsAccounted, Counted, RefsTo
<1>2. CASE UNCHANGED vars BY <1>1, <1>2 DEF vars, refvars
<1> QED BY <1>1, <1>2, PartStepRefs, ScratchStepRefs, RefStepRefs, CompilerStepRefs DEF Next

\* Reference counting is right for any number of values, references and
\* handles: an assignment is live exactly while references are left, there
\* are never more counted ValueRefs than references, and a ValueRef that owns
\* its value is the only counted one (ValueRef's constructor and reset).
THEOREM RefsAccountedAlways == Spec => []RefsAccounted
<1>1. RefInv => RefsAccounted BY DEF RefInv
<1> QED BY RefInvInit, RefInvStep, <1>1, PTL DEF Spec

----------------------------------------------------------------------------
(***************************************************************************)
(* Ownership and locks.                                                    *)
(***************************************************************************)
\* Handles: an empty ValuePart has no register, a temporary owns what it has,
\* a part belongs to the value of its ValueRef and is owned only if that one
\* owns the value.  A value that is referred to is live, and one that is owned
\* is not freed with a delay.
Blank(h)     == pref[h] = NoHandle /\ hreg[h] = NoReg
Temporary(h) == pref[h] \in {TempHandle("temp"), TempHandle("const")}
OfPart(h)    == /\ pref[h].kind = "val" /\ pref[h].ref \in VRefs /\ pref[h].part \in Parts
                /\ pref[h].owned \in BOOLEAN
                /\ vref[pref[h].ref].val = Val(pref[h].part)
                /\ pref[h].owned => vref[pref[h].ref].mode = 2

LinkInv ==
    /\ pref \in [PRefs -> Handles]
    /\ hreg \in [PRefs -> Regs \cup {NoReg}]
    /\ scratch \in [SRegs -> Regs \cup {NoReg}]
    /\ \A h \in PRefs : Blank(h) \/ Temporary(h) \/ OfPart(h)
    /\ \A x \in VRefs : vref[x].val # NoVal => st[vref[x].val] = "live"
    /\ \A x \in VRefs : vref[x].mode = 2 => vref[x].val \notin delay

\* Registers: free, held by one temporary or ScratchReg, or by a part and
\* locked by handles of that part and by its fixed assignment.
NotHeld(r)   == (\A h \in PRefs : hreg[h] # r) /\ (\A s \in SRegs : scratch[s] # r)
HeldBy(r, h) == /\ hreg[h] = r /\ pref[h].kind \in {"temp", "const"}
                /\ \A g \in PRefs : hreg[g] = r => g = h
                /\ \A s \in SRegs : scratch[s] # r
ScratchOf(r, s) == /\ scratch[s] = r
                   /\ \A t \in SRegs : scratch[t] = r => t = s
                   /\ \A h \in PRefs : hreg[h] # r
NoPartIn(r)  == \A p \in Parts : reg[p] # r

FreeReg(r) == own[r] = Free /\ lock[r] = 0 /\ NotHeld(r) /\ NoPartIn(r)
TempReg(r) == /\ own[r] = Temp /\ lock[r] = 1 /\ NoPartIn(r)
              /\ (\E h \in PRefs : HeldBy(r, h)) \/ (\E s \in SRegs : ScratchOf(r, s))
FixedLock(p) == IF fixed[p] THEN 1 ELSE 0
PartReg(r, p) == /\ own[r] = p
                 /\ \A q \in Parts : reg[q] = r <=> q = p
                 /\ \A s \in SRegs : scratch[s] # r
                 /\ \A h \in PRefs : hreg[h] = r => pref[h].kind = "val" /\ pref[h].part = p
                 /\ lock[r] = Cardinality(Lockers(r)) + FixedLock(p)
RegOK(r) == FreeReg(r) \/ TempReg(r) \/ (\E p \in Parts : PartReg(r, p))

RegInv ==
    /\ own \in [Regs -> Parts \cup {Free, Temp}]
    /\ lock \in [Regs -> Nat]
    /\ reg \in [Parts -> Regs \cup {NoReg}]
    /\ fixed \in [Parts -> BOOLEAN]
    /\ \A r \in Regs : RegOK(r)
    /\ \A p \in Parts : fixed[p] => reg[p] # NoReg
    /\ \A p \in Parts : reg[p] # NoReg => st[Val(p)] # "none"


----------------------------------------------------------------------------
(***************************************************************************)
(* Facts about the constants.                                              *)
(***************************************************************************)
\* Owners and contents that are no parts are different from each other.
LEMMA Distinct ==
    /\ Free # Temp /\ Free \notin Parts /\ Temp \notin Parts
    /\ Arg # Junk /\ Arg # Temp /\ Junk # Temp /\ Arg \notin Parts /\ Junk \notin Parts
    /\ NoReg \notin Regs
<1>1. ASSUME NEW a, NEW b, NEW c PROVE Cardinality({a, b, c}) <= 3
  <2>1. IsFiniteSet({a}) /\ Cardinality({a}) = 1 BY FS_Singleton
  <2>2. {a, b} = {a} \cup {b} /\ {a, b, c} = {a, b} \cup {c} OBVIOUS
  <2>3. IsFiniteSet({a, b}) /\ Cardinality({a, b}) \in 1 .. 2 BY <2>1, <2>2, FS_AddElement
  <2>4. Cardinality({a, b, c}) \in 1 .. 3 BY <2>2, <2>3, FS_AddElement
  <2> QED BY <2>4
<1>2. Cardinality({Free, Temp, Arg, Junk}) = 4 BY ValueAssumption DEF ValueAssumption
<1>3. ASSUME NEW a, NEW b, NEW c, {Free, Temp, Arg, Junk} = {a, b, c} PROVE FALSE
  <2>1. Cardinality({a, b, c}) = 4 BY <1>2, <1>3, Zenon
  <2>2. Cardinality({a, b, c}) <= 3 BY <1>1
  <2> QED BY <2>1, <2>2
<1>4. Free # Temp
  <2> SUFFICES ASSUME Free = Temp PROVE FALSE OBVIOUS
  <2>1. {Free, Temp, Arg, Junk} = {Free, Arg, Junk} OBVIOUS
  <2> QED BY <1>3, <2>1
<1>5. Arg # Junk
  <2> SUFFICES ASSUME Arg = Junk PROVE FALSE OBVIOUS
  <2>1. {Free, Temp, Arg, Junk} = {Free, Temp, Arg} OBVIOUS
  <2> QED BY <1>3, <2>1
<1>6. Arg # Temp
  <2> SUFFICES ASSUME Arg = Temp PROVE FALSE OBVIOUS
  <2>1. {Free, Temp, Arg, Junk} = {Free, Temp, Junk} OBVIOUS
  <2> QED BY <1>3, <2>1
<1>7. Junk # Temp
  <2> SUFFICES ASSUME Junk = Temp PROVE FALSE OBVIOUS
  <2>1. {Free, Temp, Arg, Junk} = {Free, Temp, Arg} OBVIOUS
  <2> QED BY <1>3, <2>1
<1> QED BY <1>4, <1>5, <1>6, <1>7, ValueAssumption, RegAssumption DEF ValueAssumption, RegAssumption

\* A part belongs to one value.
LEMMA PartsOfValue ==
    /\ \A p \in Parts : Val(p) \in AllVals
    /\ \A v \in AllVals : PartsOf(v) = {p \in Parts : Val(p) = v}
    /\ \A v \in AllVals : <<v, 0>> \in Parts /\ Val(<<v, 0>>) = v
<1>1. ASSUME NEW v \in AllVals PROVE PartsOf(v) = {p \in Parts : Val(p) = v}
  BY DEF Parts, PartsOf, Val
<1>2. \A p \in Parts : Val(p) \in AllVals BY DEF Parts, PartsOf, Val
<1>3. ASSUME NEW v \in AllVals PROVE <<v, 0>> \in PartsOf(v) /\ Val(<<v, 0>>) = v
  BY ValueAssumption DEF PartsOf, ValueAssumption, Val
<1> QED BY <1>1, <1>2, <1>3

\* The handles that lock a register can be counted.
LEMMA LockersFinite == ASSUME NEW r PROVE IsFiniteSet(Lockers(r)) /\ Cardinality(Lockers(r)) \in Nat
<1>1. Lockers(r) \subseteq PRefs BY DEF Lockers
<1>2. IsFiniteSet(Lockers(r)) BY <1>1, HandleAssumption, FS_Subset DEF HandleAssumption
<1> QED BY <1>2, FS_CardinalityType

\* Handles of the three kinds.
LEMMA HandleKinds ==
    ASSUME LinkInv, NEW h \in PRefs
    PROVE  /\ pref[h].kind \in {"none", "val", "temp", "const"}
           /\ pref[h].kind = "none" <=> Blank(h)
           /\ pref[h].kind \in {"temp", "const"} <=> Temporary(h)
           /\ pref[h].kind = "val" <=> OfPart(h)
           /\ pref[h].kind = "none" => hreg[h] = NoReg /\ ~pref[h].owned
           /\ pref[h].kind \in {"temp", "const"} => pref[h].owned
           /\ pref[h].kind = "val" => pref[h].part \in Parts /\ pref[h].owned \in BOOLEAN
           /\ pref[h].kind = "val" => st[Val(pref[h].part)] = "live"
<1>1. Blank(h) \/ Temporary(h) \/ OfPart(h) BY DEF LinkInv
<1>2. Blank(h) => pref[h].kind = "none" /\ hreg[h] = NoReg /\ pref[h].owned = FALSE BY DEF Blank, NoHandle
<1>3. Temporary(h) => pref[h].kind \in {"temp", "const"} /\ pref[h].owned = TRUE
  BY DEF Temporary, TempHandle
<1>4. OfPart(h) => pref[h].kind = "val" /\ pref[h].part \in Parts /\ pref[h].owned \in BOOLEAN
  BY DEF OfPart
<1>5. OfPart(h) => st[Val(pref[h].part)] = "live"
  <2> SUFFICES ASSUME OfPart(h) PROVE st[Val(pref[h].part)] = "live" OBVIOUS
  <2>1. pref[h].ref \in VRefs /\ vref[pref[h].ref].val = Val(pref[h].part) /\ pref[h].part \in Parts
    BY DEF OfPart
  <2>2. Val(pref[h].part) # NoVal
    BY <2>1, PartsOfValue, ValueAssumption DEF ValueAssumption
  <2> QED BY <2>1, <2>2 DEF LinkInv
<1> QED BY <1>1, <1>2, <1>3, <1>4, <1>5

\* The register file and the assignments agree.
LEMMA OwnersAgree ==
    ASSUME RegInv
    PROVE  /\ \A r \in Regs, p \in Parts : own[r] = p <=> reg[p] = r
           /\ \A p \in Parts : reg[p] # NoReg => reg[p] \in Regs /\ own[reg[p]] = p
<1>1. ASSUME NEW r \in Regs, NEW p \in Parts PROVE own[r] = p <=> reg[p] = r
  <2>1. RegOK(r) BY DEF RegInv
  <2>2. CASE FreeReg(r) BY <2>2, Distinct DEF FreeReg, NoPartIn
  <2>3. CASE TempReg(r) BY <2>3, Distinct DEF TempReg, NoPartIn
  <2>4. CASE \E q \in Parts : PartReg(r, q) BY <2>4 DEF PartReg
  <2> QED BY <2>1, <2>2, <2>3, <2>4 DEF RegOK
<1> QED BY <1>1 DEF RegInv

\* A register that may be claimed or evicted has no locks: nobody holds it,
\* and no fixed assignment is in it.
LEMMA UnlockedUnheld ==
    ASSUME RegInv, NEW r \in Regs, own[r] = Free \/ (own[r] \in Parts /\ lock[r] = 0)
    PROVE  /\ lock[r] = 0 /\ NotHeld(r)
           /\ \A p \in Parts : reg[p] = r => ~fixed[p]
<1>1. RegOK(r) BY DEF RegInv
<1>2. CASE FreeReg(r) BY <1>2 DEF FreeReg, NoPartIn
<1>3. CASE TempReg(r) BY <1>3, Distinct DEF TempReg
<1>4. ASSUME NEW p \in Parts, PartReg(r, p) PROVE NotHeld(r) /\ lock[r] = 0 /\ ~fixed[p]
  <2>1. lock[r] = 0 /\ own[r] = p BY <1>4, Distinct DEF PartReg
  <2>2. Cardinality(Lockers(r)) = 0 /\ ~fixed[p]
    BY <1>4, <2>1, LockersFinite DEF PartReg, FixedLock
  <2>3. Lockers(r) = {} BY <2>2, LockersFinite, FS_EmptySet
  <2> QED BY <1>4, <2>1, <2>2, <2>3 DEF Lockers, NotHeld, PartReg
<1>5. ASSUME NEW p \in Parts, PartReg(r, p) PROVE \A q \in Parts : reg[q] = r => q = p
  BY <1>5 DEF PartReg
<1> QED BY <1>1, <1>2, <1>3, <1>4, <1>5 DEF RegOK

\* A register selected or asked for can be claimed.
LEMMA SelectClaims == ASSUME NEW b, NEW excl, NEW r \in Regs, select_reg(b, excl, r) PROVE Claimable(r)
  BY DEF select_reg, Lowest, FreeRegsOf, Claimable

\* The owner of the last use of a part is the only one who may have locked it.
LEMMA SoleLockerAlone ==
    ASSUME LinkInv, RegInv, NEW h \in PRefs, pref[h].kind = "val", reg[pref[h].part] # NoReg, SoleLocker(h)
    PROVE  /\ \A g \in PRefs : hreg[g] = reg[pref[h].part] => g = h
           /\ \A s \in SRegs : scratch[s] # reg[pref[h].part]
<1> DEFINE p == pref[h].part
           r == reg[p]
<1>1. p \in Parts /\ r \in Regs /\ own[r] = p BY HandleKinds, OwnersAgree
<1>2. RegOK(r) BY <1>1 DEF RegInv
<1>3. PartReg(r, p) BY <1>1, <1>2, Distinct DEF RegOK, FreeReg, TempReg, PartReg
<1>4. lock[r] = (IF hreg[h] # NoReg THEN 1 ELSE 0) + FixedLock(p) BY DEF SoleLocker, FixedLock
<1>5. Cardinality(Lockers(r)) = IF hreg[h] # NoReg THEN 1 ELSE 0
  BY <1>3, <1>4, LockersFinite DEF PartReg, FixedLock
<1> HIDE DEF p, r
<1>6. CASE hreg[h] = NoReg
  <2>1. Lockers(r) = {} BY <1>5, <1>6, LockersFinite, FS_EmptySet
  <2> QED BY <1>3, <2>1 DEF Lockers, PartReg, p, r
<1>7. CASE hreg[h] # NoReg
  <2>1. PICK g : Lockers(r) = {g} BY <1>5, <1>7, LockersFinite, FS_Singleton
  <2>2. hreg[h] \in Regs /\ hreg[h] # NoReg BY <1>7 DEF LinkInv
  <2>3. RegOK(hreg[h]) BY <2>2 DEF RegInv
  <2>4. pref[h].kind = "val" OBVIOUS
  <2>5. hreg[h] = r
    <3>1. ~FreeReg(hreg[h]) BY DEF FreeReg, NotHeld
    <3>2. ~TempReg(hreg[h]) BY <2>4 DEF TempReg, HeldBy, ScratchOf
    <3>3. PICK q \in Parts : PartReg(hreg[h], q) BY <2>3, <3>1, <3>2 DEF RegOK
    <3>4. q = p BY <3>3 DEF PartReg, p
    <3> QED BY <1>1, <3>3, <3>4 DEF PartReg, r
  <2>6. g = h BY <2>1, <2>5 DEF Lockers
  <2> QED BY <1>3, <2>1, <2>6 DEF Lockers, PartReg, p, r
<1> QED BY <1>6, <1>7 DEF p, r

\* Evicting registers takes them from exactly the parts that are in them.
LEMMA EvictedParts ==
    ASSUME RegInv, NEW R \in SUBSET Regs
    PROVE  /\ \A p \in Parts : p \in Out(R) <=> reg[p] \in R
           /\ \A p \in Parts : RegAfter(R)[p] = IF reg[p] \in R THEN NoReg ELSE reg[p]
           /\ RegAfter(R) \in [Parts -> Regs \cup {NoReg}]
<1>1. \A p \in Parts : p \in Out(R) <=> reg[p] \in R
  BY OwnersAgree, Distinct DEF Out, RegInv
<1> QED BY <1>1 DEF RegAfter, RegInv

----------------------------------------------------------------------------
(***************************************************************************)
(* A step leaves alone the registers it does not touch.                    *)
(***************************************************************************)
SameRole(h) == \/ pref'[h] = pref[h]
               \/ pref[h].kind \in {"temp", "const"} /\ pref'[h].kind \in {"temp", "const"}

\* A register whose owner, lock count and holders a step leaves alone is still accounted for.
LEMMA RegFrame ==
    ASSUME RegInv, NEW q \in Regs, own'[q] = own[q], lock'[q] = lock[q],
           \A p \in Parts : reg'[p] = q <=> reg[p] = q,
           \A h \in PRefs : hreg'[h] = q <=> hreg[h] = q,
           \A s \in SRegs : scratch'[s] = q <=> scratch[s] = q,
           \A h \in PRefs : hreg[h] = q => SameRole(h),
           \A p \in Parts : reg[p] = q => fixed'[p] = fixed[p]
    PROVE  RegOK(q)'
<1>1. RegOK(q) BY DEF RegInv
<1>2. CASE FreeReg(q) BY <1>2 DEF RegOK, FreeReg, NotHeld, NoPartIn
<1>3. CASE TempReg(q)
  <2>1. own'[q] = Temp /\ lock'[q] = 1 /\ NoPartIn(q)' BY <1>3 DEF TempReg, NoPartIn
  <2>2. ASSUME NEW h \in PRefs, HeldBy(q, h) PROVE HeldBy(q, h)' BY <2>2 DEF HeldBy, SameRole
  <2>3. ASSUME NEW s \in SRegs, ScratchOf(q, s) PROVE ScratchOf(q, s)' BY <2>3 DEF ScratchOf
  <2> QED BY <1>3, <2>1, <2>2, <2>3 DEF RegOK, TempReg
<1>4. ASSUME NEW p \in Parts, PartReg(q, p) PROVE PartReg(q, p)'
  <2>1. Lockers(q)' = Lockers(q) BY DEF Lockers
  <2>2. FixedLock(p)' = FixedLock(p) BY <1>4 DEF FixedLock, PartReg
  <2>3. \A h \in PRefs : hreg'[h] = q => pref'[h].kind = "val" /\ pref'[h].part = p
    BY <1>4 DEF PartReg, SameRole
  <2> QED BY <1>4, <2>1, <2>2, <2>3 DEF PartReg
<1> QED BY <1>1, <1>2, <1>3, <1>4 DEF RegOK

\* The operations of ValueParts and ScratchRegs keep the links of a handle to
\* its ValueRef.
LEMMA LinksKept ==
    ASSUME LinkInv, UNCHANGED refvars,
           pref' \in [PRefs -> Handles],
           hreg' \in [PRefs -> Regs \cup {NoReg}],
           scratch' \in [SRegs -> Regs \cup {NoReg}],
           \A h \in PRefs : \/ Blank(h)' \/ Temporary(h)'
                            \/ pref'[h] = pref[h] /\ (pref[h].kind = "none" => hreg'[h] = NoReg)
    PROVE  LinkInv'
<1>1. ASSUME NEW h \in PRefs PROVE (Blank(h) \/ Temporary(h) \/ OfPart(h))'
  <2>1. CASE Blank(h)' \/ Temporary(h)' BY <2>1
  <2>2. CASE pref'[h] = pref[h] /\ (pref[h].kind = "none" => hreg'[h] = NoReg)
    <3>1. CASE Blank(h) BY <2>2, <3>1 DEF Blank, NoHandle
    <3>2. CASE Temporary(h) BY <2>2, <3>2 DEF Temporary
    <3>3. CASE OfPart(h) BY <2>2, <3>3 DEF OfPart, refvars
    <3> QED BY <3>1, <3>2, <3>3 DEF LinkInv
  <2> QED BY <2>1, <2>2
<1>2. /\ \A x \in VRefs : vref'[x].val # NoVal => st'[vref'[x].val] = "live"
      /\ \A x \in VRefs : vref'[x].mode = 2 => vref'[x].val \notin delay'
  BY DEF LinkInv, refvars
<1> QED BY <1>1, <1>2 DEF LinkInv

CoreInv == LinkInv /\ RegInv

(***************************************************************************)
(* What every operation does to the registers: those in T get a new holder *)
(* or owner, those in D are given up, and handle h lets go of its register.*)
(* The others stay as they are.                                            *)
(***************************************************************************)
Moves(D, T, h) ==
    /\ \A q \in Regs \ T :
         /\ own'[q] = IF q \in D THEN Free ELSE own[q]
         /\ lock'[q] = IF q \in D THEN 0
                       ELSE IF h \in PRefs /\ hreg[h] = q THEN lock[q] - 1 ELSE lock[q]
         /\ \A p \in Parts : reg'[p] = q <=> reg[p] = q /\ q \notin D
         /\ \A g \in PRefs : hreg'[g] = q <=> hreg[g] = q /\ g # h
         /\ \A s \in SRegs : scratch'[s] = q <=> scratch[s] = q /\ q \notin D
         /\ \A p \in Parts : reg[p] = q /\ q \notin D => fixed'[p] = fixed[p]
         /\ \A g \in PRefs : hreg[g] = q /\ g # h => q \notin D /\ SameRole(g)
         /\ h \in PRefs /\ hreg[h] = q /\ q \notin D => pref[h].kind = "val"

\* Outside T, a step of the form Moves(D, T, h) keeps every register accounted for.
LEMMA MovesOK ==
    ASSUME CoreInv, NEW D, NEW T, NEW h, Moves(D, T, h), NEW q \in Regs \ T
    PROVE  RegOK(q)'
<1> USE DEF CoreInv
<1>1. CASE q \in D
  <2>1. own'[q] = Free /\ lock'[q] = 0 BY <1>1 DEF Moves
  <2>2. NoPartIn(q)' BY <1>1 DEF Moves, NoPartIn
  <2>3. \A g \in PRefs : hreg'[g] # q BY <1>1 DEF Moves
  <2>4. \A s \in SRegs : scratch'[s] # q BY <1>1 DEF Moves
  <2> QED BY <2>1, <2>2, <2>3, <2>4 DEF RegOK, FreeReg, NotHeld
<1>2. CASE q \notin D /\ ~(h \in PRefs /\ hreg[h] = q)
  <2>1. own'[q] = own[q] /\ lock'[q] = lock[q] BY <1>2 DEF Moves
  <2>2. \A p \in Parts : reg'[p] = q <=> reg[p] = q BY <1>2 DEF Moves
  <2>3. \A g \in PRefs : hreg'[g] = q <=> hreg[g] = q BY <1>2 DEF Moves
  <2>4. \A s \in SRegs : scratch'[s] = q <=> scratch[s] = q BY <1>2 DEF Moves
  <2>5. \A p \in Parts : reg[p] = q => fixed'[p] = fixed[p] BY <1>2 DEF Moves
  <2>6. \A g \in PRefs : hreg[g] = q => SameRole(g) BY <1>2 DEF Moves
  <2> QED BY <2>1, <2>2, <2>3, <2>4, <2>5, <2>6, RegFrame
<1>3. CASE q \notin D /\ h \in PRefs /\ hreg[h] = q
  <2>1. pref[h].kind = "val" BY <1>3 DEF Moves
  <2>2. RegOK(q) /\ ~FreeReg(q) /\ ~TempReg(q)
    BY <1>3, <2>1 DEF RegInv, FreeReg, TempReg, NotHeld, HeldBy, ScratchOf
  <2>3. PICK p \in Parts : PartReg(q, p) BY <2>2 DEF RegOK
  <2>4. Lockers(q)' = Lockers(q) \ {h} BY <1>3 DEF Moves, Lockers
  <2>5. Cardinality(Lockers(q)') = Cardinality(Lockers(q)) - 1
    <3>1. h \in Lockers(q) BY <1>3 DEF Lockers
    <3> QED BY <2>4, <3>1, LockersFinite, FS_RemoveElement
  <2>6. FixedLock(p)' = FixedLock(p) /\ FixedLock(p) \in Nat BY <1>3, <2>3 DEF Moves, FixedLock, PartReg
  <2>7. own'[q] = p /\ lock'[q] = lock[q] - 1 BY <1>3, <2>3 DEF Moves, PartReg
  <2>8. \A k \in Parts : reg'[k] = q <=> k = p BY <1>3, <2>3 DEF Moves, PartReg
  <2>9. \A s \in SRegs : scratch'[s] # q BY <1>3, <2>3 DEF Moves, PartReg
  <2>10. \A g \in PRefs : hreg'[g] = q => pref'[g].kind = "val" /\ pref'[g].part = p
    <3> SUFFICES ASSUME NEW g \in PRefs, hreg'[g] = q
                 PROVE pref'[g].kind = "val" /\ pref'[g].part = p OBVIOUS
    <3>1. hreg[g] = q /\ SameRole(g) BY <1>3 DEF Moves
    <3> QED BY <2>3, <3>1 DEF PartReg, SameRole
  <2>11. lock'[q] = Cardinality(Lockers(q)') + FixedLock(p)'
    BY <2>3, <2>5, <2>6, <2>7, LockersFinite DEF PartReg
  <2>12. PartReg(q, p)' BY <2>7, <2>8, <2>9, <2>10, <2>11 DEF PartReg
  <2> QED BY <2>12 DEF RegOK
<1> QED BY <1>1, <1>2, <1>3

\* A register with a new owner.
LEMMA NowPart ==
    ASSUME NEW r \in Regs, NEW p \in Parts, own'[r] = p,
           \A k \in Parts : reg'[k] = r <=> k = p,
           \A s \in SRegs : scratch'[s] # r,
           \A g \in PRefs : hreg'[g] = r => pref'[g].kind = "val" /\ pref'[g].part = p,
           lock'[r] = Cardinality(Lockers(r)') + FixedLock(p)'
    PROVE  RegOK(r)'
<1>1. PartReg(r, p)' BY DEF PartReg
<1> QED BY <1>1 DEF RegOK

\* A register a step turns into a temporary, held once by a handle or a ScratchReg, is accounted for.
LEMMA NowTemp ==
    ASSUME NEW r \in Regs, own'[r] = Temp, lock'[r] = 1, NoPartIn(r)',
           \/ \E h \in PRefs : HeldBy(r, h)'
           \/ \E s \in SRegs : ScratchOf(r, s)'
    PROVE  RegOK(r)'
  BY DEF RegOK, TempReg

\* The invariant of the registers, put together.
LEMMA RegInvFrom ==
    ASSUME own' \in [Regs -> Parts \cup {Free, Temp}], lock' \in [Regs -> Nat],
           reg' \in [Parts -> Regs \cup {NoReg}], fixed' \in [Parts -> BOOLEAN],
           \A q \in Regs : RegOK(q)',
           \A p \in Parts : fixed'[p] => reg'[p] # NoReg,
           \A p \in Parts : reg'[p] # NoReg => st'[Val(p)] # "none"
    PROVE  RegInv'
  BY DEF RegInv

\* A handle with a register holds it: HandleStable, handle by handle.
LEMMA HeldReg ==
    ASSUME CoreInv, NEW h \in PRefs, hreg[h] # NoReg
    PROVE  /\ hreg[h] \in Regs /\ lock[hreg[h]] >= 1
           /\ \A s \in SRegs : scratch[s] # hreg[h]
           /\ \/ /\ pref[h].kind = "val" /\ pref[h].part \in Parts
                 /\ reg[pref[h].part] = hreg[h] /\ own[hreg[h]] = pref[h].part
              \/ /\ pref[h].kind \in {"temp", "const"} /\ own[hreg[h]] = Temp
                 /\ lock[hreg[h]] = 1 /\ NoPartIn(hreg[h])
                 /\ \A g \in PRefs : hreg[g] = hreg[h] => g = h
<1> DEFINE r == hreg[h]
<1>1. r \in Regs /\ RegOK(r) BY DEF CoreInv, LinkInv, RegInv
<1>2. ~FreeReg(r) BY DEF FreeReg, NotHeld
<1>3. ASSUME TempReg(r)
      PROVE /\ pref[h].kind \in {"temp", "const"} /\ own[r] = Temp /\ lock[r] = 1 /\ NoPartIn(r)
            /\ \A g \in PRefs : hreg[g] = r => g = h
            /\ \A s \in SRegs : scratch[s] # r
  BY <1>3 DEF TempReg, HeldBy, ScratchOf
<1>4. ASSUME NEW p \in Parts, PartReg(r, p)
      PROVE /\ pref[h].kind = "val" /\ pref[h].part = p /\ reg[p] = r /\ own[r] = p
            /\ lock[r] >= 1 /\ \A s \in SRegs : scratch[s] # r
  <2>1. h \in Lockers(r) BY DEF Lockers
  <2>2. Cardinality(Lockers(r)) \in Nat /\ Cardinality(Lockers(r)) # 0
    BY <2>1, LockersFinite, FS_EmptySet
  <2> QED BY <1>4, <2>2 DEF PartReg, FixedLock
<1> QED BY <1>1, <1>2, <1>3, <1>4 DEF RegOK

\* The register of a ScratchReg is a temporary that nobody else holds and no part lives in.
LEMMA HeldScratch ==
    ASSUME CoreInv, NEW s \in SRegs, scratch[s] # NoReg
    PROVE  /\ scratch[s] \in Regs /\ own[scratch[s]] = Temp /\ lock[scratch[s]] = 1
           /\ NoPartIn(scratch[s])
           /\ \A t \in SRegs : scratch[t] = scratch[s] => t = s
           /\ \A h \in PRefs : hreg[h] # scratch[s]
<1> DEFINE r == scratch[s]
<1>1. r \in Regs /\ RegOK(r) BY DEF CoreInv, LinkInv, RegInv
<1>2. ~FreeReg(r) BY DEF FreeReg, NotHeld
<1>3. \A p \in Parts : ~PartReg(r, p) BY DEF PartReg
<1> QED BY <1>1, <1>2, <1>3 DEF RegOK, TempReg, HeldBy, ScratchOf

----------------------------------------------------------------------------
(***************************************************************************)
(* Giving up registers: nobody but handle h, which lets go, holds one of   *)
(* them.  This is eviction, the reset of handles, and free_assignment.     *)
(***************************************************************************)
LEMMA Freed ==
    ASSUME CoreInv, NEW D \in SUBSET Regs, NEW h,
           own' = [q \in Regs |-> IF q \in D THEN Free ELSE own[q]],
           lock' = [q \in Regs |-> IF q \in D THEN 0
                                   ELSE IF h \in PRefs /\ hreg[h] = q THEN lock[q] - 1 ELSE lock[q]],
           reg' = [p \in Parts |-> IF reg[p] \in D THEN NoReg ELSE reg[p]],
           fixed' = [p \in Parts |-> fixed[p] /\ reg[p] \notin D],
           hreg' = [g \in PRefs |-> IF g = h THEN NoReg ELSE hreg[g]],
           scratch' = [s \in SRegs |-> IF scratch[s] \in D THEN NoReg ELSE scratch[s]],
           \A g \in PRefs : g # h => pref'[g] = pref[g],
           \A g \in PRefs : hreg[g] \in D => g = h,
           h \in PRefs /\ hreg[h] # NoReg /\ hreg[h] \notin D => pref[h].kind = "val",
           \A p \in Parts : reg[p] # NoReg /\ reg[p] \notin D => st'[Val(p)] # "none"
    PROVE  RegInv'
<1> USE DEF CoreInv
<1>1. /\ own' \in [Regs -> Parts \cup {Free, Temp}]
      /\ reg' \in [Parts -> Regs \cup {NoReg}] /\ fixed' \in [Parts -> BOOLEAN]
  BY DEF RegInv
<1>2. lock' \in [Regs -> Nat]
  <2>1. ASSUME NEW q \in Regs, h \in PRefs, hreg[h] = q PROVE lock[q] >= 1
    BY <2>1, HeldReg, Distinct
  <2> QED BY <2>1 DEF RegInv
<1>3. Moves(D, {}, h)
  BY Distinct DEF Moves, SameRole, LinkInv, RegInv
<1>4. \A q \in Regs : RegOK(q)' BY <1>3, MovesOK
<1>5. /\ \A p \in Parts : fixed'[p] => reg'[p] # NoReg
      /\ \A p \in Parts : reg'[p] # NoReg => st'[Val(p)] # "none"
  BY DEF RegInv
<1> QED BY <1>1, <1>2, <1>4, <1>5, RegInvFrom

\* unlock
LEMMA UnlockCore == ASSUME CoreInv, NEW h \in PRefs, Unlock(h) PROVE CoreInv'
<1> USE DEF CoreInv
<1> DEFINE D == {}
<1>1. /\ own' = [q \in Regs |-> IF q \in D THEN Free ELSE own[q]]
      /\ lock' = [q \in Regs |-> IF q \in D THEN 0
                    ELSE IF h \in PRefs /\ hreg[h] = q THEN lock[q] - 1 ELSE lock[q]]
      /\ reg' = [p \in Parts |-> IF reg[p] \in D THEN NoReg ELSE reg[p]]
      /\ fixed' = [p \in Parts |-> fixed[p] /\ reg[p] \notin D]
      /\ hreg' = [g \in PRefs |-> IF g = h THEN NoReg ELSE hreg[g]]
      /\ scratch' = [s \in SRegs |-> IF scratch[s] \in D THEN NoReg ELSE scratch[s]]
      /\ UNCHANGED <<pref, refvars>>
      /\ pref[h].kind = "val" /\ st' = st
  BY HeldReg DEF Unlock, RegInv, LinkInv, asgn, life, refvars
<1>2. D \in SUBSET Regs /\ \A g \in PRefs : hreg[g] \in D => g = h OBVIOUS
<1> HIDE DEF D
<1>3. RegInv'
  <2>1. \A p \in Parts : reg[p] # NoReg /\ reg[p] \notin D => st'[Val(p)] # "none"
    BY <1>1 DEF RegInv
  <2> QED BY <1>1, <1>2, <2>1, Freed
<1>4. LinkInv'
  BY <1>1, <1>2, HandleKinds, LinksKept DEF LinkInv
<1> QED BY <1>3, <1>4

\* The registers R are evicted: evict_reg, release_spilled_regs, the calls and
\* returns.
LEMMA EvictedCore ==
    ASSUME CoreInv, NEW R \in SUBSET Regs, \A r \in R : Evictable(r),
           own' = [q \in Regs |-> IF q \in R THEN Free ELSE own[q]],
           reg' = RegAfter(R),
           UNCHANGED <<lock, fixed, pref, hreg, scratch, refvars>>
    PROVE  CoreInv'
<1> USE DEF CoreInv
<1>1. PICK h : h \notin PRefs BY NoSetContainsEverything
<1>2. \A r \in R : lock[r] = 0 /\ NotHeld(r) /\ \A p \in Parts : reg[p] = r => ~fixed[p]
  BY UnlockedUnheld DEF Evictable
<1>3. reg' = [p \in Parts |-> IF reg[p] \in R THEN NoReg ELSE reg[p]]
  BY EvictedParts DEF RegAfter, RegInv
<1>4. lock' = [q \in Regs |-> IF q \in R THEN 0
                 ELSE IF h \in PRefs /\ hreg[h] = q THEN lock[q] - 1 ELSE lock[q]]
  BY <1>1, <1>2 DEF RegInv
<1>5. fixed' = [p \in Parts |-> fixed[p] /\ reg[p] \notin R] BY <1>2 DEF RegInv
<1>6. /\ hreg' = [g \in PRefs |-> IF g = h THEN NoReg ELSE hreg[g]]
      /\ scratch' = [s \in SRegs |-> IF scratch[s] \in R THEN NoReg ELSE scratch[s]]
  BY <1>1, <1>2 DEF LinkInv, NotHeld
<1>7. \A g \in PRefs : hreg[g] \in R => g = h BY <1>2 DEF NotHeld
<1>8. \A p \in Parts : reg[p] # NoReg /\ reg[p] \notin R => st'[Val(p)] # "none"
  BY DEF RegInv, refvars
<1>9. RegInv' BY <1>1, <1>3, <1>4, <1>5, <1>6, <1>7, <1>8, Freed
<1>10. LinkInv' BY HandleKinds, LinksKept DEF LinkInv
<1> QED BY <1>9, <1>10

\* The registers R are evicted and handle h is reset, which gives up its
\* register if it owns one and unlocks it otherwise: reset, add_arg, call_reg.
LEMMA ResetCore ==
    ASSUME CoreInv, NEW R \in SUBSET Regs, \A r \in R : Claimable(r),
           NEW h \in PRefs, pref[h].kind # "none", NEW salv \in BOOLEAN,
           salv => pref[h].owned /\ RegOf(h) # NoReg /\ SoleLocker(h),
           ~salv => ~pref[h].owned \/ hreg[h] = NoReg,
           own' = [q \in Regs |-> IF q \in R \/ (salv /\ q = RegOf(h)) THEN Free ELSE own[q]],
           lock' = [q \in Regs |-> IF salv /\ q = RegOf(h) THEN 0
                                   ELSE IF pref[h].kind = "val" /\ hreg[h] = q
                                        THEN lock[q] - 1 ELSE lock[q]],
           reg' = [p \in Parts |-> IF salv /\ Lost(h, p) THEN NoReg ELSE RegAfter(R)[p]],
           fixed' = [p \in Parts |-> fixed[p] /\ ~(salv /\ Lost(h, p))],
           pref' = [pref EXCEPT ![h] = NoHandle], hreg' = [hreg EXCEPT ![h] = NoReg],
           UNCHANGED <<scratch, refvars>>
    PROVE  CoreInv'
<1> USE DEF CoreInv
<1> DEFINE D == R \cup (IF salv THEN {RegOf(h)} ELSE {})
<1>1. \A r \in R : lock[r] = 0 /\ NotHeld(r) /\ \A p \in Parts : reg[p] = r => ~fixed[p]
  BY UnlockedUnheld DEF Claimable, Evictable
<1>2. pref[h].kind = "val" => pref[h].part \in Parts /\ (hreg[h] # NoReg => reg[pref[h].part] = hreg[h])
  BY HandleKinds, HeldReg
<1>3. ~salv /\ hreg[h] # NoReg => pref[h].kind = "val"
  BY HandleKinds
<1>4. RegOf(h) # NoReg => RegOf(h) \in Regs
  BY HandleKinds, OwnersAgree DEF RegOf, LinkInv
<1>5. ASSUME salv
      PROVE /\ \A p \in Parts : reg[p] = RegOf(h) <=> Lost(h, p)
            /\ \A g \in PRefs : hreg[g] = RegOf(h) => g = h
            /\ \A s \in SRegs : scratch[s] # RegOf(h)
            /\ hreg[h] # NoReg => hreg[h] = RegOf(h)
  <2>1. CASE pref[h].kind = "val"
    BY <1>2, <1>5, <2>1, OwnersAgree, SoleLockerAlone DEF RegOf, Lost
  <2>2. CASE pref[h].kind # "val"
    BY <1>5, <2>2, HeldReg DEF RegOf, Lost, NoPartIn
  <2> QED BY <2>1, <2>2
<1>6. D \in SUBSET Regs BY <1>4
<1>7. own' = [q \in Regs |-> IF q \in D THEN Free ELSE own[q]] OBVIOUS
<1>8. lock' = [q \in Regs |-> IF q \in D THEN 0
                 ELSE IF h \in PRefs /\ hreg[h] = q THEN lock[q] - 1 ELSE lock[q]]
  <2>1. ASSUME NEW q \in Regs
        PROVE lock'[q] = IF q \in D THEN 0 ELSE IF hreg[h] = q THEN lock[q] - 1 ELSE lock[q]
    <3>1. CASE salv BY <1>1, <1>5, <3>1, Distinct DEF NotHeld
    <3>2. CASE ~salv BY <1>1, <1>3, <3>2, Distinct DEF NotHeld
    <3> QED BY <3>1, <3>2
  <2> QED BY <2>1
<1>9. reg' = [p \in Parts |-> IF reg[p] \in D THEN NoReg ELSE reg[p]]
  BY <1>5, EvictedParts
<1>10. fixed' = [p \in Parts |-> fixed[p] /\ reg[p] \notin D]
  BY <1>1, <1>5 DEF RegInv
<1>11. /\ hreg' = [g \in PRefs |-> IF g = h THEN NoReg ELSE hreg[g]]
       /\ scratch' = [s \in SRegs |-> IF scratch[s] \in D THEN NoReg ELSE scratch[s]]
  BY <1>1, <1>5 DEF LinkInv, NotHeld
<1>12. \A g \in PRefs : /\ g # h => pref'[g] = pref[g]
                        /\ hreg[g] \in D => g = h
  BY <1>1, <1>5 DEF LinkInv, NotHeld
<1>13. hreg[h] # NoReg /\ hreg[h] \notin D => pref[h].kind = "val"
  BY <1>3, <1>5
<1>14. \A p \in Parts : reg[p] # NoReg /\ reg[p] \notin D => st'[Val(p)] # "none"
  BY DEF RegInv, refvars
<1> HIDE DEF D
<1>15. RegInv'
  BY ONLY CoreInv, <1>6, <1>7, <1>8, <1>9, <1>10, <1>11, <1>12, <1>13, <1>14, h \in PRefs, Freed
<1>16. LinkInv'
  <2>1. pref' \in [PRefs -> Handles] /\ hreg' \in [PRefs -> Regs \cup {NoReg}]
    BY DEF LinkInv, NoHandle, Handles
  <2>2. \A g \in PRefs : \/ Blank(g)'
                         \/ pref'[g] = pref[g] /\ (pref[g].kind = "none" => hreg'[g] = NoReg)
    BY HandleKinds DEF LinkInv, Blank
  <2> QED BY <2>1, <2>2, LinksKept DEF LinkInv
<1> QED BY <1>15, <1>16

\* A handle that cannot salvage has nothing of its own to give up.
LEMMA NoSalvage ==
    ASSUME CoreInv, NEW h \in PRefs, ~can_salvage(h)
    PROVE  /\ ~pref[h].owned \/ hreg[h] = NoReg
           /\ Dropped(h) = {}
  BY HandleKinds, HeldReg DEF can_salvage, Dropped, CoreInv

\* ValuePart::reset keeps locks and owners consistent.
LEMMA PartResetCore == ASSUME CoreInv, NEW h \in PRefs, ValuePart_reset(h) PROVE CoreInv'
<1> DEFINE salv == pref[h].owned /\ hreg[h] # NoReg
           R == {}
<1>1. /\ R \in SUBSET Regs /\ \A r \in R : Claimable(r)
      /\ pref[h].kind # "none"
      /\ \A p \in Parts : RegAfter(R)[p] = reg[p]
  BY EvictedParts DEF ValuePart_reset, CoreInv
<1>2. salv => RegOf(h) = hreg[h] BY HeldReg DEF RegOf
<1>3. salv \in BOOLEAN /\ (salv => pref[h].owned /\ RegOf(h) # NoReg /\ SoleLocker(h))
  BY <1>1, <1>2, HandleKinds DEF ValuePart_reset, ResetOK, Dropped, CoreInv
<1>4. /\ own' = [q \in Regs |-> IF q \in R \/ (salv /\ q = RegOf(h)) THEN Free ELSE own[q]]
      /\ lock' = [q \in Regs |-> IF salv /\ q = RegOf(h) THEN 0
                    ELSE IF pref[h].kind = "val" /\ hreg[h] = q THEN lock[q] - 1 ELSE lock[q]]
  BY <1>2, <1>3 DEF ValuePart_reset, OwnReset, LockReset, Dropped
<1>5. /\ reg' = [p \in Parts |-> IF salv /\ Lost(h, p) THEN NoReg ELSE RegAfter(R)[p]]
      /\ fixed' = [p \in Parts |-> fixed[p] /\ ~(salv /\ Lost(h, p))]
  BY <1>1, <1>3 DEF ValuePart_reset, GivesUp, Dropped, Lost
<1>6. /\ pref' = [pref EXCEPT ![h] = NoHandle] /\ hreg' = [hreg EXCEPT ![h] = NoReg]
      /\ UNCHANGED <<scratch, refvars>>
  BY DEF ValuePart_reset, life, refvars
<1>7. ~salv => ~pref[h].owned \/ hreg[h] = NoReg OBVIOUS
<1> HIDE DEF salv, R
<1> QED BY <1>1, <1>3, <1>4, <1>5, <1>6, <1>7, ResetCore

\* CallBuilder's add_arg, evicting the argument register and giving up the handle, keeps locks and owners consistent.
LEMMA AddArgCore == ASSUME CoreInv, NEW h \in PRefs, NEW r \in Regs, add_arg(h, r) PROVE CoreInv'
<1> DEFINE salv == can_salvage(h)
           R == IF salv /\ RegOf(h) = r THEN {} ELSE {r}
<1>1. /\ R \in SUBSET Regs /\ \A q \in R : Claimable(q)
      /\ pref[h].kind # "none"
  BY DEF add_arg
<1>2. salv \in BOOLEAN /\ (salv => pref[h].owned /\ RegOf(h) # NoReg /\ SoleLocker(h))
  BY <1>1, HandleKinds DEF add_arg, can_salvage, RegOf, CoreInv
<1>3. ~salv => ~pref[h].owned \/ hreg[h] = NoReg BY NoSalvage
<1>4. own' = [q \in Regs |-> IF q \in R \/ (salv /\ q = RegOf(h)) THEN Free ELSE own[q]]
  BY DEF add_arg
<1>5. lock' = [q \in Regs |-> IF salv /\ q = RegOf(h) THEN 0
                 ELSE IF pref[h].kind = "val" /\ hreg[h] = q THEN lock[q] - 1 ELSE lock[q]]
  <2>1. CASE salv
    <3>1. pref[h].kind = "val" => hreg[h] \in {NoReg, RegOf(h)} BY HeldReg DEF RegOf
    <3>2. lock' = [lock EXCEPT ![RegOf(h)] = 0] BY <2>1 DEF add_arg
    <3> QED BY <2>1, <3>1, <3>2, Distinct DEF CoreInv, RegInv
  <2>2. CASE ~salv BY <2>2, NoSalvage DEF add_arg, LockReset
  <2> QED BY <2>1, <2>2
<1>6. /\ reg' = [p \in Parts |-> IF salv /\ Lost(h, p) THEN NoReg ELSE RegAfter(R)[p]]
      /\ fixed' = [p \in Parts |-> fixed[p] /\ ~(salv /\ Lost(h, p))]
      /\ pref' = [pref EXCEPT ![h] = NoHandle] /\ hreg' = [hreg EXCEPT ![h] = NoReg]
      /\ UNCHANGED <<scratch, refvars>>
  BY DEF add_arg, life, refvars
<1> HIDE DEF salv, R
<1> QED BY <1>1, <1>2, <1>3, <1>4, <1>5, <1>6, ResetCore

\* A call through a register keeps locks and owners consistent.
LEMMA CallRegCore == ASSUME CoreInv, NEW h \in PRefs, call_reg(h) PROVE CoreInv'
<1> DEFINE salv == can_salvage(h)
           skip == IF salv THEN args \cup {RegOf(h)} ELSE args
           R == CallEvicted(skip)
           P == IF salv THEN {p \in Parts : Lost(h, p)} ELSE {}
<1>1. CallEffect(skip, IF salv THEN {RegOf(h)} ELSE {}, P) BY DEF call_reg
<1>2. /\ R \in SUBSET Regs /\ \A q \in R : Claimable(q)
      /\ pref[h].kind # "none"
  BY <1>1 DEF call_reg, CallEffect, CallEvicted, CallClobbered, Claimable
<1>3. salv \in BOOLEAN /\ (salv => pref[h].owned /\ RegOf(h) # NoReg /\ SoleLocker(h))
  BY <1>2, HandleKinds DEF call_reg, can_salvage, RegOf, CoreInv
<1>4. ~salv => ~pref[h].owned \/ hreg[h] = NoReg BY NoSalvage
<1>5. own' = [q \in Regs |-> IF q \in R \/ (salv /\ q = RegOf(h)) THEN Free ELSE own[q]]
  BY <1>1 DEF CallEffect
<1>6. lock' = [q \in Regs |-> IF salv /\ q = RegOf(h) THEN 0
                 ELSE IF pref[h].kind = "val" /\ hreg[h] = q THEN lock[q] - 1 ELSE lock[q]]
  <2>1. CASE salv
    <3>1. pref[h].kind = "val" => hreg[h] \in {NoReg, RegOf(h)} BY HeldReg DEF RegOf
    <3>2. lock' = [lock EXCEPT ![RegOf(h)] = 0] BY <2>1 DEF call_reg
    <3> QED BY <2>1, <3>1, <3>2, Distinct DEF CoreInv, RegInv
  <2>2. CASE ~salv BY <2>2, NoSalvage DEF call_reg, LockReset
  <2> QED BY <2>1, <2>2
<1>7. /\ reg' = [p \in Parts |-> IF salv /\ Lost(h, p) THEN NoReg ELSE RegAfter(R)[p]]
      /\ fixed' = [p \in Parts |-> fixed[p] /\ ~(salv /\ Lost(h, p))]
  BY <1>1 DEF CallEffect
<1>8. /\ pref' = [pref EXCEPT ![h] = NoHandle] /\ hreg' = [hreg EXCEPT ![h] = NoReg]
      /\ UNCHANGED <<scratch, refvars>>
  BY <1>1 DEF call_reg, CallEffect, life, refvars
<1> HIDE DEF salv, R
<1> QED BY <1>2, <1>3, <1>4, <1>5, <1>6, <1>7, <1>8, ResetCore

\* free_assignment: nobody holds a part of the value any more.
LEMMA FreeAssignmentRegs ==
    ASSUME CoreInv, RefTypeOK, NEW v \in AllVals, FreeAssignment(v),
           \A g \in PRefs : pref[g].kind = "val" => Val(pref[g].part) # v,
           UNCHANGED <<pref, hreg, scratch>>
    PROVE  RegInv'
<1> USE DEF CoreInv
<1> DEFINE D == {r \in Regs : \E p \in PartsOf(v) : reg[p] = r}
<1>1. PICK h : h \notin PRefs BY NoSetContainsEverything
<1>2. /\ D \in SUBSET Regs
      /\ \A p \in Parts : p \in PartsOf(v) <=> Val(p) = v
      /\ \A p \in Parts : reg[p] # NoReg => (reg[p] \in D <=> p \in PartsOf(v))
      /\ \A r \in D : own[r] \in PartsOf(v) /\ own[r] \in Parts
  BY PartsOfValue, OwnersAgree
<1>3. \A r \in D : NotHeld(r)
  <2>1. ASSUME NEW r \in D, NEW g \in PRefs, hreg[g] = r PROVE FALSE
    <3>1. own[r] \in Parts /\ Val(own[r]) = v BY <1>2
    <3> QED BY <2>1, <3>1, HeldReg, Distinct
  <2>2. ASSUME NEW r \in D, NEW s \in SRegs, scratch[s] = r PROVE FALSE
    <3>1. own[r] \in Parts BY <1>2
    <3> QED BY <2>2, <3>1, HeldScratch, Distinct
  <2> QED BY <2>1, <2>2 DEF NotHeld
<1>4. /\ own' = [q \in Regs |-> IF q \in D THEN Free ELSE own[q]]
      /\ lock' = [q \in Regs |-> IF q \in D THEN 0
                    ELSE IF h \in PRefs /\ hreg[h] = q THEN lock[q] - 1 ELSE lock[q]]
  BY <1>1 DEF FreeAssignment
<1>5. NoReg \notin D BY Distinct
<1>6. /\ reg' = [p \in Parts |-> IF reg[p] \in D THEN NoReg ELSE reg[p]]
      /\ fixed' = [p \in Parts |-> fixed[p] /\ reg[p] \notin D]
  BY <1>2, <1>5 DEF FreeAssignment, RegInv
<1>7. /\ hreg' = [g \in PRefs |-> IF g = h THEN NoReg ELSE hreg[g]]
      /\ scratch' = [s \in SRegs |-> IF scratch[s] \in D THEN NoReg ELSE scratch[s]]
      /\ \A g \in PRefs : g # h => pref'[g] = pref[g]
      /\ \A g \in PRefs : hreg[g] \in D => g = h
  BY <1>1, <1>3 DEF LinkInv, NotHeld
<1>8. \A p \in Parts : reg[p] # NoReg /\ reg[p] \notin D => st'[Val(p)] # "none"
  BY <1>2, PartsOfValue DEF FreeAssignment, RefTypeOK, RegInv
<1> HIDE DEF D
<1> QED BY ONLY CoreInv, <1>1, <1>2, <1>4, <1>6, <1>7, <1>8, Freed

\* A ScratchReg gives up its register: ScratchReg::reset, and set_value of a
\* part that stays in its fixed register.
LEMMA ScratchFreed ==
    ASSUME CoreInv, NEW s \in SRegs, scratch[s] # NoReg,
           own' = [own EXCEPT ![scratch[s]] = Free], lock' = [lock EXCEPT ![scratch[s]] = 0],
           scratch' = [scratch EXCEPT ![s] = NoReg],
           UNCHANGED <<reg, fixed, pref, hreg, refvars>>
    PROVE  CoreInv'
<1> USE DEF CoreInv
<1> DEFINE D == {scratch[s]}
<1>1. PICK h : h \notin PRefs BY NoSetContainsEverything
<1>2. D \in SUBSET Regs
  BY HeldScratch
<1>3. /\ own' = [q \in Regs |-> IF q \in D THEN Free ELSE own[q]]
      /\ lock' = [q \in Regs |-> IF q \in D THEN 0
                    ELSE IF h \in PRefs /\ hreg[h] = q THEN lock[q] - 1 ELSE lock[q]]
  BY <1>1, <1>2 DEF RegInv
<1>4. /\ reg' = [p \in Parts |-> IF reg[p] \in D THEN NoReg ELSE reg[p]]
      /\ fixed' = [p \in Parts |-> fixed[p] /\ reg[p] \notin D]
  BY <1>2, HeldScratch DEF RegInv, NoPartIn
<1>5. /\ hreg' = [g \in PRefs |-> IF g = h THEN NoReg ELSE hreg[g]]
      /\ scratch' = [t \in SRegs |-> IF scratch[t] \in D THEN NoReg ELSE scratch[t]]
      /\ \A g \in PRefs : g # h => pref'[g] = pref[g]
      /\ \A g \in PRefs : hreg[g] \in D => g = h
  BY <1>1, <1>2, HeldScratch DEF LinkInv
<1>6. \A p \in Parts : reg[p] # NoReg /\ reg[p] \notin D => st'[Val(p)] # "none"
  BY DEF RegInv, refvars
<1>7. RegInv'
  <2> HIDE DEF D
  <2> QED BY ONLY CoreInv, <1>1, <1>2, <1>3, <1>4, <1>5, <1>6, Freed
<1>8. LinkInv'
  BY HandleKinds, LinksKept DEF LinkInv
<1> QED BY <1>7, <1>8

\* ScratchReg::reset frees its register, if any, and keeps locks and owners consistent.
LEMMA ScratchResetCore == ASSUME CoreInv, NEW s \in SRegs, ScratchReg_reset(s) PROVE CoreInv'
  BY ScratchFreed DEF ScratchReg_reset, asgn, life, refvars

----------------------------------------------------------------------------
(***************************************************************************)
(* Claiming a register.                                                    *)
(***************************************************************************)
\* ... for a part, which may leave another register for it: alloc_reg,
\* load_to_reg, alloc_specific and load_to_specific.
LEMMA ClaimedByPart ==
    ASSUME CoreInv, NEW h \in PRefs, NEW p, p = pref[h].part, NEW r \in Regs, Claimable(r),
           pref[h].kind = "val", hreg[h] = NoReg, reg[p] # r, ~fixed[p],
           reg[p] # NoReg => lock[reg[p]] = 0,
           own' = [q \in Regs |-> IF q = r THEN p ELSE IF q = reg[p] THEN Free ELSE own[q]],
           lock' = [lock EXCEPT ![r] = 1],
           reg' = [RegAfter({r}) EXCEPT ![p] = r],
           hreg' = [hreg EXCEPT ![h] = r],
           UNCHANGED <<fixed, pref, scratch, refvars>>
    PROVE  CoreInv'
<1> USE DEF CoreInv
<1>1. /\ p \in Parts /\ st[Val(p)] = "live" /\ own[r] # p
      /\ \A q \in Parts : reg'[q] = IF q = p THEN r ELSE IF reg[q] = r THEN NoReg ELSE reg[q]
      /\ reg' \in [Parts -> Regs \cup {NoReg}]
  BY HandleKinds, EvictedParts, OwnersAgree DEF RegInv
<1>2. NotHeld(r) /\ \A q \in Parts : reg[q] = r => ~fixed[q]
  BY UnlockedUnheld DEF Claimable, Evictable
<1>3. hreg' \in [PRefs -> Regs \cup {NoReg}] BY DEF LinkInv
<1>4. LinkInv' BY <1>3, HandleKinds, LinksKept DEF LinkInv
<1>5. /\ own' \in [Regs -> Parts \cup {Free, Temp}] /\ lock' \in [Regs -> Nat]
  BY <1>1 DEF RegInv
<1>6. ASSUME NEW q \in Regs \ {r} PROVE RegOK(q)'
  <2>1. reg[p] # NoReg => NotHeld(reg[p]) /\ lock[reg[p]] = 0 /\ own[reg[p]] = p
    BY <1>1, UnlockedUnheld, OwnersAgree
  <2>2. \A k \in Parts : reg[k] = reg[p] /\ reg[p] # NoReg => k = p BY <1>1, OwnersAgree
  <2>3. Moves({reg[p]}, {r}, h)
    BY ZenonT(60), <1>1, <2>1, <2>2, Distinct DEF Moves, SameRole, NotHeld, LinkInv, RegInv
  <2> QED BY <2>3, MovesOK
<1>7. RegOK(r)'
  <2>1. Lockers(r)' = {h} BY <1>2 DEF Lockers, NotHeld, LinkInv
  <2>2. Cardinality(Lockers(r)') = 1 BY <2>1, FS_Singleton
  <2>3. lock'[r] = Cardinality(Lockers(r)') + FixedLock(p)' BY <2>2 DEF FixedLock, RegInv
  <2>4. \A k \in Parts : reg'[k] = r <=> k = p BY <1>1, Distinct
  <2>5. \A g \in PRefs : hreg'[g] = r => pref'[g].kind = "val" /\ pref'[g].part = p
    BY <2>1 DEF Lockers
  <2>6. own'[r] = p /\ \A s \in SRegs : scratch'[s] # r BY <1>2 DEF NotHeld
  <2> QED BY <1>1, <2>2, <2>3, <2>4, <2>5, <2>6, NowPart
<1>8. /\ \A k \in Parts : fixed'[k] => reg'[k] # NoReg
      /\ \A k \in Parts : reg'[k] # NoReg => st'[Val(k)] # "none"
  BY <1>1, <1>2, Distinct DEF RegInv, refvars
<1> QED BY <1>1, <1>4, <1>5, <1>6, <1>7, <1>8, RegInvFrom DEF RegInv

\* The allocations and reloads of a part's register keep locks and owners consistent.
LEMMA PartClaimCore ==
    ASSUME CoreInv, NEW h \in PRefs,
           \/ alloc_reg(h) \/ load_to_reg(h)
           \/ \E r \in Regs : alloc_specific(h, r) \/ load_to_specific(h, r)
    PROVE  CoreInv'
<1> DEFINE p == pref[h].part
<1>1. PICK r \in Regs :
        /\ Claimable(r) /\ pref[h].kind = "val" /\ hreg[h] = NoReg /\ reg[p] # r /\ ~fixed[p]
        /\ reg[p] # NoReg => lock[reg[p]] = 0
        /\ own' = [q \in Regs |-> IF q = r THEN p ELSE IF q = reg[p] THEN Free ELSE own[q]]
        /\ lock' = [lock EXCEPT ![r] = 1]
        /\ reg' = [RegAfter({r}) EXCEPT ![p] = r]
        /\ hreg' = [hreg EXCEPT ![h] = r]
        /\ UNCHANGED <<fixed, pref, scratch, refvars>>
  <2>1. pref[h].kind = "val" /\ reg[p] = NoReg => ~fixed[p]
    BY HandleKinds DEF CoreInv, RegInv
  <2>2. ASSUME NEW r \in Regs, own' = [own EXCEPT ![r] = p], reg[p] = NoReg
        PROVE own' = [q \in Regs |-> IF q = r THEN p ELSE IF q = reg[p] THEN Free ELSE own[q]]
    BY <2>2, Distinct DEF CoreInv, RegInv
  <2>3. CASE alloc_reg(h)
    <3>1. PICK r \in Regs : /\ \E excl \in Masks : select_reg(BankOf[Val(p)], excl, r)
                            /\ Claim(r, p, 1) /\ reg' = [RegAfter({r}) EXCEPT ![p] = r]
                            /\ hreg' = [hreg EXCEPT ![h] = r]
      BY <2>3 DEF alloc_reg
    <3>2. Claimable(r) BY <3>1, SelectClaims
    <3>3. /\ pref[h].kind = "val" /\ hreg[h] = NoReg /\ reg[p] = NoReg
          /\ UNCHANGED <<fixed, pref, scratch, refvars>>
      BY <2>3 DEF alloc_reg, life, refvars
    <3> QED BY <2>1, <2>2, <3>1, <3>2, <3>3, Distinct DEF Claim
  <2>4. CASE load_to_reg(h)
    <3>1. PICK r \in Regs : /\ select_reg(BankOf[Val(p)], {}, r)
                            /\ Claim(r, p, 1) /\ reg' = [RegAfter({r}) EXCEPT ![p] = r]
                            /\ hreg' = [hreg EXCEPT ![h] = r]
      BY <2>4 DEF load_to_reg
    <3>2. Claimable(r) BY <3>1, SelectClaims
    <3> QED BY <2>1, <2>2, <2>4, <3>1, <3>2, Distinct DEF load_to_reg, Claim, life, refvars
  <2>5. ASSUME NEW r \in Regs, alloc_specific(h, r)
        PROVE own' = [q \in Regs |-> IF q = r THEN p ELSE IF q = reg[p] THEN Free ELSE own[q]]
    BY <2>2, <2>5 DEF alloc_specific, Claim
  <2>6. CASE \E r \in Regs : alloc_specific(h, r)
    BY ZenonT(60), <2>5, <2>6, Distinct DEF alloc_specific, Claim, life, refvars
  <2>7. CASE \E r \in Regs : load_to_specific(h, r)
    BY <2>7, Distinct DEF load_to_specific, life, refvars
  <2> QED BY <2>3, <2>4, <2>6, <2>7
<1> HIDE DEF p
<1> QED BY <1>1, ClaimedByPart DEF p

\* ... for a temporary h, while handle o of a part lets go of its register.
LEMMA TempByHandle ==
    ASSUME CoreInv, NEW h \in PRefs, pref[h].kind \in {"temp", "const"}, hreg[h] = NoReg,
           NEW o, o # h, o \in PRefs => pref[o].kind = "val",
           NEW r \in Regs, Claimable(r),
           own' = [own EXCEPT ![r] = Temp],
           lock' = [q \in Regs |-> IF q = r THEN 1
                                   ELSE IF o \in PRefs /\ hreg[o] = q THEN lock[q] - 1 ELSE lock[q]],
           reg' = RegAfter({r}),
           hreg' = [g \in PRefs |-> IF g = h THEN r ELSE IF g = o THEN NoReg ELSE hreg[g]],
           UNCHANGED <<fixed, pref, scratch, refvars>>
    PROVE  CoreInv'
<1> USE DEF CoreInv
<1>1. /\ \A p \in Parts : reg'[p] = IF reg[p] = r THEN NoReg ELSE reg[p]
      /\ reg' \in [Parts -> Regs \cup {NoReg}]
  BY EvictedParts
<1>2. NotHeld(r) /\ \A p \in Parts : reg[p] = r => ~fixed[p]
  BY UnlockedUnheld DEF Claimable, Evictable
<1>3. own' \in [Regs -> Parts \cup {Free, Temp}] /\ hreg' \in [PRefs -> Regs \cup {NoReg}]
  BY DEF RegInv, LinkInv
<1>4. lock' \in [Regs -> Nat]
  <2>1. ASSUME NEW q \in Regs, o \in PRefs, hreg[o] = q PROVE lock[q] >= 1
    BY <2>1, HeldReg, Distinct
  <2> QED BY <2>1 DEF RegInv
<1>5. LinkInv' BY <1>3, HandleKinds, LinksKept DEF LinkInv
<1>6. Moves({}, {r}, o)
  BY <1>1, Distinct DEF Moves, SameRole, LinkInv, RegInv
<1>7. \A q \in Regs \ {r} : RegOK(q)' BY <1>6, MovesOK
<1>8. RegOK(r)'
  <2>1. own'[r] = Temp /\ lock'[r] = 1 BY DEF RegInv
  <2>2. NoPartIn(r)' BY <1>1, Distinct DEF NoPartIn
  <2>3. HeldBy(r, h)' BY <1>2, Distinct DEF HeldBy, NotHeld, LinkInv
  <2> QED BY <2>1, <2>2, <2>3, NowTemp
<1>9. /\ \A k \in Parts : fixed'[k] => reg'[k] # NoReg
      /\ \A k \in Parts : reg'[k] # NoReg => st'[Val(k)] # "none"
  BY <1>1, <1>2, Distinct DEF RegInv, refvars
<1>10. \A q \in Regs : RegOK(q)' BY <1>7, <1>8
<1> QED BY <1>1, <1>3, <1>4, <1>5, <1>9, <1>10, RegInvFrom DEF RegInv

\* ... for a ScratchReg.
LEMMA TempByScratch ==
    ASSUME CoreInv, NEW s \in SRegs, scratch[s] = NoReg,
           NEW r \in Regs, Claimable(r),
           own' = [own EXCEPT ![r] = Temp], lock' = [lock EXCEPT ![r] = 1],
           reg' = RegAfter({r}), scratch' = [scratch EXCEPT ![s] = r],
           UNCHANGED <<fixed, pref, hreg, refvars>>
    PROVE  CoreInv'
<1> USE DEF CoreInv
<1>1. /\ \A p \in Parts : reg'[p] = IF reg[p] = r THEN NoReg ELSE reg[p]
      /\ reg' \in [Parts -> Regs \cup {NoReg}]
  BY EvictedParts
<1>2. NotHeld(r) /\ \A p \in Parts : reg[p] = r => ~fixed[p]
  BY UnlockedUnheld DEF Claimable, Evictable
<1>3. /\ own' \in [Regs -> Parts \cup {Free, Temp}] /\ lock' \in [Regs -> Nat]
      /\ scratch' \in [SRegs -> Regs \cup {NoReg}]
  BY DEF RegInv, LinkInv
<1>4. LinkInv' BY <1>3, HandleKinds, LinksKept DEF LinkInv
<1>5. PICK h : h \notin PRefs BY NoSetContainsEverything
<1>6. Moves({}, {r}, h)
  BY <1>1, <1>5, Distinct DEF Moves, SameRole, LinkInv, RegInv
<1>7. \A q \in Regs \ {r} : RegOK(q)' BY <1>6, MovesOK
<1>8. RegOK(r)'
  <2>1. own'[r] = Temp /\ lock'[r] = 1 BY DEF RegInv
  <2>2. NoPartIn(r)' BY <1>1, Distinct DEF NoPartIn
  <2>3. ScratchOf(r, s)' BY <1>2, Distinct DEF ScratchOf, NotHeld, LinkInv
  <2> QED BY <2>1, <2>2, <2>3, NowTemp
<1>9. /\ \A k \in Parts : fixed'[k] => reg'[k] # NoReg
      /\ \A k \in Parts : reg'[k] # NoReg => st'[Val(k)] # "none"
  BY <1>1, <1>2, Distinct DEF RegInv, refvars
<1>10. \A q \in Regs : RegOK(q)' BY <1>7, <1>8
<1> QED BY <1>1, <1>3, <1>4, <1>9, <1>10, RegInvFrom DEF RegInv

\* ... for a part nobody has locked yet: it takes over the register r of a
\* ScratchReg, or a free one that holds a result.
LEMMA AdoptedCore ==
    ASSUME CoreInv, NEW h \in PRefs, pref[h].kind = "val", NEW p, p = pref[h].part, reg[p] = NoReg,
           NEW r \in Regs, \A g \in PRefs : hreg[g] # r, NoPartIn(r),
           own' = [own EXCEPT ![r] = p], lock' = [lock EXCEPT ![r] = 0],
           reg' = [reg EXCEPT ![p] = r],
           scratch' = [s \in SRegs |-> IF scratch[s] = r THEN NoReg ELSE scratch[s]],
           UNCHANGED <<fixed, pref, hreg, refvars>>
    PROVE  CoreInv'
<1> USE DEF CoreInv
<1>1. p \in Parts /\ st[Val(p)] = "live" /\ ~fixed[p] BY HandleKinds DEF RegInv
<1>2. /\ own' \in [Regs -> Parts \cup {Free, Temp}] /\ lock' \in [Regs -> Nat]
      /\ reg' \in [Parts -> Regs \cup {NoReg}] /\ scratch' \in [SRegs -> Regs \cup {NoReg}]
  BY <1>1 DEF RegInv, LinkInv
<1>3. LinkInv' BY <1>2, HandleKinds, LinksKept DEF LinkInv
<1>4. PICK n : n \notin PRefs BY NoSetContainsEverything
<1>5. Moves({}, {r}, n)
  BY <1>1, <1>4, Distinct DEF Moves, SameRole, LinkInv, RegInv
<1>6. \A q \in Regs \ {r} : RegOK(q)' BY <1>5, MovesOK
<1>7. RegOK(r)'
  <2>1. Lockers(r)' = {} BY DEF Lockers
  <2>2. Cardinality(Lockers(r)') = 0 BY <2>1, FS_EmptySet
  <2>3. FixedLock(p)' = 0 /\ lock'[r] = 0 /\ own'[r] = p BY <1>1 DEF FixedLock, RegInv
  <2>4. \A k \in Parts : reg'[k] = r <=> k = p BY <1>1 DEF NoPartIn, RegInv
  <2>5. /\ \A t \in SRegs : scratch'[t] # r
        /\ \A g \in PRefs : hreg'[g] = r => pref'[g].kind = "val" /\ pref'[g].part = p
    BY Distinct DEF LinkInv
  <2>6. lock'[r] = Cardinality(Lockers(r)') + FixedLock(p)' BY <2>2, <2>3
  <2> QED BY <1>1, <2>3, <2>4, <2>5, <2>6, NowPart
<1>8. /\ \A k \in Parts : fixed'[k] => reg'[k] # NoReg
      /\ \A k \in Parts : reg'[k] # NoReg => st'[Val(k)] # "none"
  BY <1>1, Distinct DEF RegInv, refvars
<1>9. \A q \in Regs : RegOK(q)' BY <1>6, <1>7
<1> QED BY <1>2, <1>3, <1>8, <1>9, RegInvFrom DEF RegInv

\* The operations that claim a register for a temporary.
LEMMA TempClaimCore ==
    ASSUME CoreInv, NEW h \in PRefs, NEW r \in Regs, alloc_temp(h, r) \/ alloc_temp_specific(h, r)
    PROVE  CoreInv'
<1>1. PICK o : o \notin PRefs BY NoSetContainsEverything
<1>2. Claimable(r) BY SelectClaims DEF alloc_temp, alloc_temp_specific
<1>3. /\ pref[h].kind \in {"temp", "const"} /\ hreg[h] = NoReg
      /\ own' = [own EXCEPT ![r] = Temp] /\ reg' = RegAfter({r})
      /\ UNCHANGED <<fixed, pref, scratch, refvars>>
  BY DEF alloc_temp, alloc_temp_specific, ClaimTemp, Claim, life, refvars
<1>4. /\ lock' = [q \in Regs |-> IF q = r THEN 1
                    ELSE IF o \in PRefs /\ hreg[o] = q THEN lock[q] - 1 ELSE lock[q]]
      /\ hreg' = [g \in PRefs |-> IF g = h THEN r ELSE IF g = o THEN NoReg ELSE hreg[g]]
  BY <1>1 DEF alloc_temp, alloc_temp_specific, ClaimTemp, Claim, CoreInv, RegInv, LinkInv
<1> QED BY <1>1, <1>2, <1>3, <1>4, TempByHandle

\* Copying a value into a temporary keeps locks and owners consistent.
LEMMA TempCopyCore ==
    ASSUME CoreInv, NEW h \in PRefs, NEW o \in PRefs, set_value_temp_copy(h, o) PROVE CoreInv'
<1>1. PICK r \in Regs :
        /\ select_reg(BankOf[Val(pref[o].part)], {}, r)
        /\ own' = [own EXCEPT ![r] = Temp]
        /\ lock' = [LockReset(o) EXCEPT ![r] = 1]
        /\ reg' = RegAfter({r})
        /\ hreg' = [hreg EXCEPT ![h] = r, ![o] = NoReg]
  BY DEF set_value_temp_copy
<1>2. Claimable(r) BY <1>1, SelectClaims
<1>3. /\ pref[h].kind = "temp" /\ hreg[h] = NoReg /\ pref[o].kind = "val" /\ o # h
      /\ UNCHANGED <<fixed, pref, scratch, refvars>>
  BY DEF set_value_temp_copy, life, refvars
<1>4. Dropped(o) = {} BY NoSalvage DEF set_value_temp_copy
<1>5. lock' = [q \in Regs |-> IF q = r THEN 1
                 ELSE IF o \in PRefs /\ hreg[o] = q THEN lock[q] - 1 ELSE lock[q]]
  BY <1>1, <1>3, <1>4 DEF LockReset
<1>6. hreg' = [g \in PRefs |-> IF g = h THEN r ELSE IF g = o THEN NoReg ELSE hreg[g]]
  BY <1>1, <1>3 DEF CoreInv, LinkInv
<1>7. pref[h].kind \in {"temp", "const"} /\ (o \in PRefs => pref[o].kind = "val") BY <1>3
<1>8. own' = [own EXCEPT ![r] = Temp] /\ reg' = RegAfter({r}) BY <1>1
<1> QED BY ONLY CoreInv, h \in PRefs, r \in Regs, <1>2, <1>3, <1>5, <1>6, <1>7, <1>8, TempByHandle

\* A temporary that takes over a return register keeps locks and owners consistent.
LEMMA RegTempCore ==
    ASSUME CoreInv, NEW h \in PRefs, NEW r \in Regs, set_value_reg_temp(h, r) PROVE CoreInv'
<1>1. PICK o : o \notin PRefs BY NoSetContainsEverything
<1>2. /\ Claimable(r) /\ own[r] = Free
      /\ pref[h].kind = "temp" /\ hreg[h] = NoReg
      /\ own' = [own EXCEPT ![r] = Temp] /\ reg' = reg
      /\ UNCHANGED <<fixed, pref, scratch, refvars>>
  BY DEF set_value_reg_temp, Claimable, asgn, life, refvars
<1>3. reg' = RegAfter({r})
  <2>1. \A p \in Parts : reg[p] # r BY <1>2, OwnersAgree, Distinct DEF CoreInv
  <2>2. reg \in [Parts -> Regs \cup {NoReg}] BY DEF CoreInv, RegInv
  <2> QED BY <1>2, <2>1, <2>2, EvictedParts DEF CoreInv
<1>4. /\ lock' = [q \in Regs |-> IF q = r THEN 1
                    ELSE IF o \in PRefs /\ hreg[o] = q THEN lock[q] - 1 ELSE lock[q]]
      /\ hreg' = [g \in PRefs |-> IF g = h THEN r ELSE IF g = o THEN NoReg ELSE hreg[g]]
  BY <1>1 DEF set_value_reg_temp, CoreInv, RegInv, LinkInv
<1> QED BY <1>1, <1>2, <1>3, <1>4, TempByHandle

\* Both allocations of a ScratchReg keep locks and owners consistent.
LEMMA ScratchClaimCore ==
    ASSUME CoreInv, NEW s \in SRegs, NEW r \in Regs,
           ScratchReg_alloc(s, r) \/ ScratchReg_alloc_specific(s, r)
    PROVE  CoreInv'
<1>1. Claimable(r) BY SelectClaims DEF ScratchReg_alloc, ScratchReg_alloc_specific
<1>2. /\ scratch[s] = NoReg /\ scratch' = [scratch EXCEPT ![s] = r]
      /\ own' = [own EXCEPT ![r] = Temp] /\ lock' = [lock EXCEPT ![r] = 1]
      /\ reg' = RegAfter({r}) /\ UNCHANGED <<fixed, pref, hreg, refvars>>
  BY DEF ScratchReg_alloc, ScratchReg_alloc_specific, ClaimTemp, Claim, life, refvars
<1> QED BY <1>1, <1>2, TempByScratch

\* Taking over a register that the owner of the last use gives up.  Nobody
\* else has locked it.
LEMMA Salvaged ==
    ASSUME CoreInv, NEW o \in PRefs, pref[o].kind # "none", can_salvage(o), SoleLocker(o)
    PROVE  /\ RegOf(o) \in Regs
           /\ \A p \in Parts : reg[p] = RegOf(o) <=> Lost(o, p)
           /\ \A g \in PRefs : hreg[g] = RegOf(o) => g = o
           /\ \A s \in SRegs : scratch[s] # RegOf(o)
           /\ hreg[o] \in {NoReg, RegOf(o)}
           /\ pref[o].kind = "val" => own[RegOf(o)] = pref[o].part /\ pref[o].part \in Parts
           /\ pref[o].kind # "val" => own[RegOf(o)] = Temp /\ hreg[o] = RegOf(o)
<1>1. CASE pref[o].kind = "val"
  <2>1. pref[o].part \in Parts /\ reg[pref[o].part] # NoReg /\ RegOf(o) = reg[pref[o].part]
    BY <1>1, HandleKinds DEF CoreInv, can_salvage, RegOf
  <2>2. RegOf(o) \in Regs /\ own[RegOf(o)] = pref[o].part BY <2>1, OwnersAgree DEF CoreInv
  <2>3. \A p \in Parts : reg[p] = RegOf(o) <=> Lost(o, p)
    BY <1>1, <2>1, <2>2, OwnersAgree DEF CoreInv, Lost
  <2> QED BY <1>1, <2>1, <2>2, <2>3, SoleLockerAlone, HeldReg DEF CoreInv
<1>2. CASE pref[o].kind # "val"
  BY <1>2, HeldReg DEF can_salvage, RegOf, Lost, NoPartIn
<1> QED BY <1>1, <1>2

\* A temporary that takes over the register of a dying value keeps locks and owners consistent.
LEMMA TempSalvageCore ==
    ASSUME CoreInv, NEW h \in PRefs, NEW o \in PRefs, set_value_temp_salvage(h, o) PROVE CoreInv'
<1> USE DEF CoreInv
<1>0. /\ pref[h].kind = "temp" /\ pref[o].kind = "val" /\ can_salvage(o) /\ SoleLocker(o) /\ h # o
  BY DEF set_value_temp_salvage, Salvageable
<1>a. PICK r \in Regs : r = RegOf(o) BY <1>0, Salvaged
<1>b. PICK p \in Parts : p = pref[o].part BY <1>0, Salvaged
<1>1. /\ own' = [OwnReset(h) EXCEPT ![r] = Temp] /\ lock' = [LockReset(h) EXCEPT ![r] = 1]
      /\ reg' = [reg EXCEPT ![p] = NoReg] /\ fixed' = [fixed EXCEPT ![p] = FALSE]
      /\ hreg' = [hreg EXCEPT ![h] = r, ![o] = NoReg]
      /\ UNCHANGED <<pref, scratch, refvars>>
  BY <1>a, <1>b DEF set_value_temp_salvage, life, refvars
<1>2. /\ own[r] = p /\ reg[p] = r
      /\ \A g \in PRefs : hreg[g] = r => g = o
      /\ \A s \in SRegs : scratch[s] # r
      /\ hreg[o] \in {NoReg, r}
      /\ \A k \in Parts : reg[k] = r <=> k = p
  BY <1>0, <1>a, <1>b, Salvaged, OwnersAgree DEF Lost
<1>3. Dropped(h) = {hreg[h]} \ {NoReg}
  BY <1>0, HandleKinds DEF Dropped
<1>4. /\ hreg[h] # NoReg => /\ hreg[h] \in Regs /\ hreg[h] # r /\ NoPartIn(hreg[h])
                            /\ \A s \in SRegs : scratch[s] # hreg[h]
                            /\ \A g \in PRefs : hreg[g] = hreg[h] => g = h
  BY <1>0, <1>2, HeldReg, Distinct
<1>5. \A q \in Regs : /\ OwnReset(h)[q] = IF q = hreg[h] THEN Free ELSE own[q]
                      /\ LockReset(h)[q] = IF q = hreg[h] THEN 0 ELSE lock[q]
  BY <1>0, <1>3, Distinct DEF OwnReset, LockReset
<1>6. /\ own' \in [Regs -> Parts \cup {Free, Temp}] /\ lock' \in [Regs -> Nat]
      /\ reg' \in [Parts -> Regs \cup {NoReg}] /\ fixed' \in [Parts -> BOOLEAN]
      /\ hreg' \in [PRefs -> Regs \cup {NoReg}]
  BY <1>1, <1>2, <1>5 DEF RegInv, LinkInv, OwnReset, LockReset
<1>7. LinkInv'
  <2>1. \A g \in PRefs : pref[g].kind = "none" => g \notin {h, o} /\ hreg[g] = NoReg
    BY <1>0, HandleKinds
  <2>2. \A g \in PRefs : pref'[g] = pref[g] /\ (pref[g].kind = "none" => hreg'[g] = NoReg)
    BY <1>1, <2>1 DEF LinkInv
  <2> QED BY <1>1, <1>6, <2>2, LinksKept DEF LinkInv
<1>8. Moves({hreg[h]}, {r}, h)
  BY ZenonT(60), <1>0, <1>1, <1>2, <1>4, <1>5, Distinct DEF Moves, SameRole, LinkInv, RegInv, NoPartIn, OwnReset, LockReset
<1>9. \A q \in Regs \ {r} : RegOK(q)' BY <1>8, MovesOK
<1>10. RegOK(r)'
  <2>1. own'[r] = Temp /\ lock'[r] = 1 BY <1>1 DEF OwnReset, LockReset
  <2>2. NoPartIn(r)' BY <1>1, <1>2, Distinct DEF NoPartIn, RegInv
  <2>3. HeldBy(r, h)' BY <1>0, <1>1, <1>2, Distinct DEF HeldBy, LinkInv
  <2> QED BY <2>1, <2>2, <2>3, NowTemp
<1>11. /\ \A k \in Parts : fixed'[k] => reg'[k] # NoReg
       /\ \A k \in Parts : reg'[k] # NoReg => st'[Val(k)] # "none"
  BY <1>1, <1>2 DEF RegInv, refvars
<1>12. \A q \in Regs : RegOK(q)' BY <1>9, <1>10
<1> QED BY <1>6, <1>7, <1>11, <1>12, RegInvFrom

\* A ScratchReg that takes over or copies a value keeps locks and owners consistent.
LEMMA IntoScratchCore ==
    ASSUME CoreInv, NEW h \in PRefs, NEW s \in SRegs, into_scratch(h, s) PROVE CoreInv'
<1> USE DEF CoreInv
<1>0. scratch[s] = NoReg /\ pref[h].kind # "none" BY DEF into_scratch
<1>1. ASSUME NEW r \in Regs, select_reg(BankOf[Val(pref[h].part)], {}, r), Claim(r, Temp, 1),
             reg' = RegAfter({r}), scratch' = [scratch EXCEPT ![s] = r],
             UNCHANGED <<fixed, life, vref, pref, hreg>>
      PROVE CoreInv'
  <2>1. Claimable(r) BY <1>1, SelectClaims
  <2>2. /\ own' = [own EXCEPT ![r] = Temp] /\ lock' = [lock EXCEPT ![r] = 1]
        /\ UNCHANGED <<fixed, pref, hreg, refvars>>
    BY <1>1 DEF Claim, life, refvars
  <2> QED BY <1>0, <1>1, <2>1, <2>2, TempByScratch
<1>2. ASSUME can_salvage(h), SoleLocker(h), NEW r \in Regs, r = RegOf(h),
             own' = [own EXCEPT ![r] = Temp], lock' = [lock EXCEPT ![r] = 1],
             reg' = [p \in Parts |-> IF Lost(h, p) THEN NoReg ELSE reg[p]],
             fixed' = [p \in Parts |-> fixed[p] /\ ~Lost(h, p)],
             scratch' = [scratch EXCEPT ![s] = r], hreg' = [hreg EXCEPT ![h] = NoReg],
             UNCHANGED <<life, vref, pref>>
      PROVE CoreInv'
  <2>1. /\ \A p \in Parts : reg[p] = r <=> Lost(h, p)
        /\ \A g \in PRefs : hreg[g] = r => g = h
        /\ \A t \in SRegs : scratch[t] # r
        /\ hreg[h] \in {NoReg, r}
    BY <1>0, <1>2, Salvaged
  <2>2. /\ own' \in [Regs -> Parts \cup {Free, Temp}] /\ lock' \in [Regs -> Nat]
        /\ reg' \in [Parts -> Regs \cup {NoReg}] /\ fixed' \in [Parts -> BOOLEAN]
        /\ hreg' \in [PRefs -> Regs \cup {NoReg}] /\ scratch' \in [SRegs -> Regs \cup {NoReg}]
    BY <1>2, <2>1 DEF RegInv, LinkInv
  <2>3. UNCHANGED refvars BY <1>2 DEF life, refvars
  <2>4. LinkInv' BY <1>2, <2>2, <2>3, HandleKinds, LinksKept DEF LinkInv
  <2>5. Moves({}, {r}, h)
    BY <1>0, <1>2, <2>1, Distinct DEF Moves, SameRole, LinkInv, RegInv
  <2>6. \A q \in Regs \ {r} : RegOK(q)' BY <2>5, MovesOK
  <2>7. RegOK(r)'
    <3>1. own'[r] = Temp /\ lock'[r] = 1 BY <1>2 DEF RegInv
    <3>2. NoPartIn(r)' BY <1>2, <2>1, Distinct DEF NoPartIn, RegInv
    <3>3. ScratchOf(r, s)' BY <1>2, <2>1, Distinct DEF ScratchOf, LinkInv
    <3> QED BY <3>1, <3>2, <3>3, NowTemp
  <2>8. /\ \A k \in Parts : fixed'[k] => reg'[k] # NoReg
        /\ \A k \in Parts : reg'[k] # NoReg => st'[Val(k)] # "none"
    BY <1>2, <2>1, <2>3 DEF RegInv, refvars
  <2>9. \A q \in Regs : RegOK(q)' BY <2>6, <2>7
  <2> QED BY <2>2, <2>4, <2>8, <2>9, RegInvFrom
<1>3. CASE Salvageable(h)
  <2>1. can_salvage(h) /\ SoleLocker(h) BY <1>3 DEF Salvageable
  <2>2. PICK r \in Regs : r = RegOf(h) BY <1>0, <2>1, Salvaged
  <2> QED BY <1>2, <2>1, <2>2 DEF into_scratch
<1>4. CASE ~Salvageable(h) BY <1>1, <1>4 DEF into_scratch
<1> QED BY <1>3, <1>4

\* A temporary takes over the register of another one, if that has one.
LEMMA TempMoveCore ==
    ASSUME CoreInv, NEW h \in PRefs, NEW o \in PRefs, set_value_temp_move(h, o) PROVE CoreInv'
<1> USE DEF CoreInv
<1>1. /\ h # o /\ pref[h].kind = "temp" /\ pref[o].kind \in {"temp", "const"}
      /\ own' = OwnReset(h) /\ lock' = LockReset(h)
      /\ pref' = [pref EXCEPT ![h] = pref[o], ![o] = TempHandle("temp")]
      /\ hreg' = [hreg EXCEPT ![h] = hreg[o], ![o] = NoReg]
      /\ UNCHANGED <<reg, fixed, scratch, refvars>>
  BY DEF set_value_temp_move, asgn, life, refvars
<1>2. PICK T \in SUBSET Regs : T = {hreg[o]} \cap Regs OBVIOUS
<1>3. Dropped(h) = {hreg[h]} \ {NoReg}
  BY <1>1, HandleKinds DEF Dropped
<1>4. /\ hreg[h] # NoReg => /\ hreg[h] \in Regs /\ NoPartIn(hreg[h])
                            /\ \A s \in SRegs : scratch[s] # hreg[h]
                            /\ \A g \in PRefs : hreg[g] = hreg[h] => g = h
  BY <1>1, HeldReg, Distinct
<1>5. \A q \in Regs : /\ own'[q] = IF q = hreg[h] THEN Free ELSE own[q]
                      /\ lock'[q] = IF q = hreg[h] THEN 0 ELSE lock[q]
  BY <1>1, <1>3, Distinct DEF OwnReset, LockReset
<1>6. /\ own' \in [Regs -> Parts \cup {Free, Temp}] /\ lock' \in [Regs -> Nat]
      /\ reg' \in [Parts -> Regs \cup {NoReg}] /\ fixed' \in [Parts -> BOOLEAN]
      /\ hreg' \in [PRefs -> Regs \cup {NoReg}] /\ pref' \in [PRefs -> Handles]
  BY <1>1, <1>5 DEF RegInv, LinkInv, OwnReset, LockReset, TempHandle, Handles
<1>7. LinkInv'
  <2>1. ASSUME NEW g \in PRefs
        PROVE \/ Temporary(g)'
              \/ pref'[g] = pref[g] /\ (pref[g].kind = "none" => hreg'[g] = NoReg)
    <3>1. CASE g \in {h, o} BY <1>1, <3>1, HandleKinds DEF LinkInv, Temporary
    <3>2. CASE g \notin {h, o} BY <1>1, <3>2, HandleKinds DEF LinkInv
    <3> QED BY <3>1, <3>2
  <2> QED BY <1>1, <1>6, <2>1, LinksKept DEF LinkInv
<1>8. Moves({hreg[h]}, T, h)
  BY <1>1, <1>2, <1>4, <1>5, Distinct DEF Moves, SameRole, LinkInv, RegInv, NoPartIn
<1>9. \A q \in Regs \ T : RegOK(q)' BY <1>8, MovesOK
<1>10. ASSUME NEW r \in T PROVE RegOK(r)'
  <2>1. r = hreg[o] /\ r \in Regs /\ r # NoReg BY <1>2, Distinct
  <2>2. /\ own[r] = Temp /\ lock[r] = 1 /\ NoPartIn(r) /\ \A s \in SRegs : scratch[s] # r
        /\ \A g \in PRefs : hreg[g] = r => g = o
    BY <1>1, <2>1, HeldReg
  <2>3. own'[r] = Temp /\ lock'[r] = 1 /\ NoPartIn(r)' BY <1>1, <1>4, <1>5, <2>1, <2>2 DEF NoPartIn
  <2>4. HeldBy(r, h)' BY <1>1, <2>1, <2>2 DEF HeldBy, LinkInv
  <2> QED BY <2>1, <2>3, <2>4, NowTemp
<1>11. /\ \A k \in Parts : fixed'[k] => reg'[k] # NoReg
       /\ \A k \in Parts : reg'[k] # NoReg => st'[Val(k)] # "none"
  BY <1>1 DEF RegInv, refvars
<1>12. \A q \in Regs : RegOK(q)' BY <1>9, <1>10
<1> QED BY <1>6, <1>7, <1>11, <1>12, RegInvFrom

\* A part copies into a new register, or into the one it has: then the source
\* is reset, and is not in the part's register.
LEMMA CopyCore ==
    ASSUME CoreInv, NEW h \in PRefs, NEW o \in PRefs, set_value_copy(h, o) PROVE CoreInv'
<1> USE DEF CoreInv
<1>0. /\ h # o /\ pref[h].kind = "val" /\ hreg[h] = NoReg /\ pref[h].part \in Parts
      /\ Source(o) /\ ResetOK(o) /\ (fixed[pref[h].part] \/ ~can_salvage(o))
      /\ pref[o].kind = "val" => pref[o].part # pref[h].part
      /\ hreg' = [hreg EXCEPT ![o] = NoReg]
      /\ UNCHANGED <<pref, scratch, refvars>>
  BY HandleKinds DEF set_value_copy, life, refvars
<1>a. PICK p \in Parts : p = pref[h].part BY <1>0
<1>b. PICK r \in Regs :
        LET R == IF reg[pref[h].part] = NoReg THEN {r} ELSE {}
        IN  /\ IF reg[pref[h].part] = NoReg THEN select_reg(BankOf[Val(pref[h].part)], {}, r)
                                            ELSE r = reg[pref[h].part]
            /\ own' = [OwnReset(o) EXCEPT ![r] = pref[h].part]
            /\ lock' = [q \in Regs |-> IF q \in R THEN 0 ELSE LockReset(o)[q]]
            /\ reg' = [q \in Parts |-> IF q = pref[h].part THEN r
                                       ELSE IF GivesUp(o, q) THEN NoReg ELSE RegAfter(R)[q]]
            /\ fixed' = [q \in Parts |-> fixed[q] /\ ~GivesUp(o, q)]
  BY Zenon DEF set_value_copy
<1>1. /\ IF reg[p] = NoReg THEN select_reg(BankOf[Val(p)], {}, r) ELSE r = reg[p]
      /\ own' = [OwnReset(o) EXCEPT ![r] = p]
      /\ lock' = [q \in Regs |-> IF q \in (IF reg[p] = NoReg THEN {r} ELSE {})
                                 THEN 0 ELSE LockReset(o)[q]]
      /\ reg' = [q \in Parts |-> IF q = p THEN r
                                 ELSE IF GivesUp(o, q) THEN NoReg
                                 ELSE RegAfter(IF reg[p] = NoReg THEN {r} ELSE {})[q]]
      /\ fixed' = [q \in Parts |-> fixed[q] /\ ~GivesUp(o, q)]
  BY <1>a, <1>b
<1>2. LinkInv'
  <2>1. hreg' \in [PRefs -> Regs \cup {NoReg}] BY <1>0 DEF LinkInv
  <2>2. \A g \in PRefs : pref[g].kind = "none" => hreg[g] = NoReg BY HandleKinds
  <2> QED BY <1>0, <2>1, <2>2, LinksKept DEF LinkInv
<1>3. CASE reg[p] = NoReg
  <2>1. ~fixed[p] /\ ~can_salvage(o) /\ Dropped(o) = {} /\ st[Val(p)] = "live"
    BY <1>0, <1>a, <1>3, NoSalvage, HandleKinds DEF RegInv
  <2>2. Claimable(r) BY <1>1, <1>3, SelectClaims
  <2>3. NotHeld(r) /\ \A k \in Parts : reg[k] = r => ~fixed[k]
    BY <2>2, UnlockedUnheld DEF Claimable, Evictable
  <2>4. hreg[o] # NoReg => pref[o].kind = "val"
    BY <2>1, HandleKinds, NoSalvage
  <2>5. /\ own' = [own EXCEPT ![r] = p]
        /\ \A q \in Regs : lock'[q] = IF q = r THEN 0
                                      ELSE IF hreg[o] = q THEN lock[q] - 1 ELSE lock[q]
        /\ \A k \in Parts : reg'[k] = IF k = p THEN r ELSE IF reg[k] = r THEN NoReg ELSE reg[k]
        /\ fixed' = fixed
    <3>1. OwnReset(o) = own BY <2>1 DEF OwnReset, RegInv
    <3>2. \A k \in Parts : ~GivesUp(o, k) BY <2>1 DEF GivesUp
    <3>3. \A q \in Regs : LockReset(o)[q] = IF hreg[o] = q THEN lock[q] - 1 ELSE lock[q]
      BY <2>1, <2>4, Distinct DEF LockReset
    <3>4. \A k \in Parts : RegAfter({r})[k] = IF reg[k] = r THEN NoReg ELSE reg[k]
      BY EvictedParts
    <3> QED BY <1>1, <1>3, <3>1, <3>2, <3>3, <3>4 DEF RegInv
  <2>6. lock' \in [Regs -> Nat]
    <3>1. ASSUME NEW q \in Regs, hreg[o] = q PROVE lock[q] >= 1
      BY <3>1, HeldReg, Distinct
    <3>2. \A q \in Regs : lock'[q] \in Nat BY <2>5, <3>1 DEF RegInv
    <3> QED BY <1>1, <3>2
  <2>7. /\ own' \in [Regs -> Parts \cup {Free, Temp}]
        /\ reg' \in [Parts -> Regs \cup {NoReg}] /\ fixed' \in [Parts -> BOOLEAN]
    BY ZenonT(60), <1>1, <2>5 DEF RegInv
  <2>8. Moves({}, {r}, o)
    BY <1>0, <1>3, <2>4, <2>5, Distinct DEF Moves, SameRole, LinkInv, RegInv
  <2>9. \A q \in Regs \ {r} : RegOK(q)' BY <2>8, MovesOK
  <2>10. RegOK(r)'
    <3>1. \A g \in PRefs : hreg'[g] # r BY <1>0, <2>3, Distinct DEF NotHeld, LinkInv
    <3>2. Lockers(r)' = {} BY <3>1 DEF Lockers
    <3>3. Cardinality(Lockers(r)') = 0 BY <3>2, FS_EmptySet
    <3>4. FixedLock(p)' = 0 /\ lock'[r] = 0 /\ own'[r] = p BY <2>1, <2>5 DEF FixedLock, RegInv
    <3>5. lock'[r] = Cardinality(Lockers(r)') + FixedLock(p)' BY <3>3, <3>4
    <3>6. \A k \in Parts : reg'[k] = r <=> k = p BY <2>5, Distinct
    <3>7. \A t \in SRegs : scratch'[t] # r BY <1>0, <2>3 DEF NotHeld
    <3> QED BY <3>1, <3>4, <3>5, <3>6, <3>7, NowPart
  <2>11. /\ \A k \in Parts : fixed'[k] => reg'[k] # NoReg
         /\ \A k \in Parts : reg'[k] # NoReg => st'[Val(k)] # "none"
    BY <1>0, <2>1, <2>3, <2>5, Distinct DEF RegInv, refvars
  <2>12. \A q \in Regs : RegOK(q)' BY <2>9, <2>10
  <2> QED BY <1>2, <2>6, <2>7, <2>11, <2>12, RegInvFrom
<1>4. CASE reg[p] # NoReg
  <2>0. r = reg[p] /\ own[r] = p BY <1>1, <1>4, OwnersAgree
  <2> DEFINE D == Dropped(o)
  <2>1. D \in SUBSET Regs BY DEF Dropped, LinkInv
  <2>2. ASSUME D # {}
        PROVE /\ D = {hreg[o]} /\ hreg[o] # NoReg /\ pref[o].owned /\ SoleLocker(o)
              /\ \A k \in Parts : reg[k] = hreg[o] <=> Lost(o, k)
              /\ \A g \in PRefs : hreg[g] = hreg[o] => g = o
              /\ \A t \in SRegs : scratch[t] # hreg[o]
    <3>1. D = {hreg[o]} /\ hreg[o] # NoReg /\ pref[o].owned /\ SoleLocker(o)
      BY <1>0, <2>2 DEF Dropped, ResetOK
    <3>2. can_salvage(o) /\ RegOf(o) = hreg[o] /\ pref[o].kind # "none"
      BY <3>1, HeldReg, HandleKinds DEF can_salvage, RegOf
    <3> QED BY <3>1, <3>2, Salvaged
  <2>3. r \notin D BY <1>0, <1>a, <2>0, <2>2 DEF Lost
  <2>4. \A k \in Parts : reg[k] \in D <=> GivesUp(o, k)
    BY <2>2, Distinct DEF GivesUp, Lost, Dropped
  <2>5. own' = [q \in Regs |-> IF q \in D THEN Free ELSE own[q]]
    BY <1>1, <2>0, <2>3 DEF OwnReset
  <2>6. hreg[o] # NoReg /\ hreg[o] \notin D => pref[o].kind = "val"
    BY HandleKinds DEF Dropped
  <2>7. lock' = [q \in Regs |-> IF q \in D THEN 0
                   ELSE IF o \in PRefs /\ hreg[o] = q THEN lock[q] - 1 ELSE lock[q]]
    BY <1>1, <1>4, <2>6, Distinct DEF LockReset
  <2>8. reg' = [k \in Parts |-> IF reg[k] \in D THEN NoReg ELSE reg[k]]
    <3>1. \A k \in Parts : RegAfter({})[k] = reg[k] BY EvictedParts
    <3> QED BY <1>1, <1>4, <2>0, <2>3, <2>4, <3>1
  <2>9. fixed' = [k \in Parts |-> fixed[k] /\ reg[k] \notin D] BY <1>1, <2>4
  <2>10. /\ hreg' = [g \in PRefs |-> IF g = o THEN NoReg ELSE hreg[g]]
         /\ scratch' = [t \in SRegs |-> IF scratch[t] \in D THEN NoReg ELSE scratch[t]]
         /\ \A g \in PRefs : g # o => pref'[g] = pref[g]
         /\ \A g \in PRefs : hreg[g] \in D => g = o
    BY <1>0, <2>2 DEF LinkInv
  <2>11. \A k \in Parts : reg[k] # NoReg /\ reg[k] \notin D => st'[Val(k)] # "none"
    BY <1>0 DEF RegInv, refvars
  <2> HIDE DEF D
  <2>12. RegInv'
    BY ONLY CoreInv, o \in PRefs, <2>1, <2>5, <2>6, <2>7, <2>8, <2>9, <2>10, <2>11, Freed
  <2> QED BY <1>2, <2>12
<1> QED BY <1>3, <1>4

\* A part takes over the register of the source and leaves its own.
LEMMA SalvageCore ==
    ASSUME CoreInv, NEW h \in PRefs, NEW o \in PRefs, NEW reuse \in BOOLEAN,
           set_value_salvage(h, o, reuse)
    PROVE  CoreInv'
<1> USE DEF CoreInv
<1>0. /\ h # o /\ pref[h].kind = "val" /\ pref[h].part \in Parts /\ ~fixed[pref[h].part]
      /\ pref[o].kind # "none" /\ can_salvage(o) /\ SoleLocker(o) /\ ~Lost(o, pref[h].part)
      /\ st[Val(pref[h].part)] = "live"
  BY HandleKinds DEF set_value_salvage, Salvageable, can_salvage
<1>a. PICK p \in Parts : p = pref[h].part BY <1>0
<1>b. PICK r \in Regs : r = RegOf(o) BY <1>0, Salvaged
<1>1. /\ reg[p] # NoReg => SoleLocker(h)
      /\ reuse => hreg[h] = NoReg /\ reg[p] = NoReg
      /\ own' = [q \in Regs |-> IF q = r THEN p ELSE IF q = reg[p] THEN Free ELSE own[q]]
      /\ lock' = [q \in Regs |-> IF q = r THEN (IF reuse THEN 1 ELSE 0)
                                 ELSE IF q = reg[p] THEN 0 ELSE lock[q]]
      /\ reg' = [q \in Parts |-> IF q = p THEN r ELSE IF Lost(o, q) THEN NoReg ELSE reg[q]]
      /\ fixed' = [q \in Parts |-> fixed[q] /\ ~Lost(o, q)]
      /\ hreg' = [hreg EXCEPT ![h] = IF reuse THEN r ELSE NoReg, ![o] = NoReg]
      /\ UNCHANGED <<pref, scratch, refvars>>
  BY <1>a, <1>b DEF set_value_salvage, life, refvars
<1>2. /\ \A k \in Parts : reg[k] = r <=> Lost(o, k)
      /\ \A g \in PRefs : hreg[g] = r => g = o
      /\ \A s \in SRegs : scratch[s] # r
      /\ hreg[o] \in {NoReg, r}
  BY <1>0, <1>b, Salvaged
<1>3. /\ reg[p] # r /\ ~fixed[p]
      /\ hreg[h] # NoReg => hreg[h] = reg[p]
      /\ reg[p] # NoReg => /\ \A g \in PRefs : hreg[g] = reg[p] => g = h
                           /\ \A s \in SRegs : scratch[s] # reg[p]
                           /\ \A k \in Parts : reg[k] = reg[p] => k = p
  BY <1>0, <1>1, <1>2, <1>a, HeldReg, SoleLockerAlone, OwnersAgree
<1>4. /\ own' \in [Regs -> Parts \cup {Free, Temp}] /\ lock' \in [Regs -> Nat]
      /\ reg' \in [Parts -> Regs \cup {NoReg}] /\ fixed' \in [Parts -> BOOLEAN]
      /\ hreg' \in [PRefs -> Regs \cup {NoReg}]
  BY <1>1 DEF RegInv, LinkInv
<1>5. LinkInv'
  <2>1. \A g \in PRefs : pref[g].kind = "none" => g # h /\ hreg[g] = NoReg
    BY <1>0, HandleKinds
  <2>2. \A g \in PRefs : pref'[g] = pref[g] /\ (pref[g].kind = "none" => hreg'[g] = NoReg)
    BY <1>1, <2>1 DEF LinkInv
  <2> QED BY <1>1, <1>4, <2>2, LinksKept DEF LinkInv
<1>6. Moves({reg[p]}, {r}, h)
  BY <1>0, <1>1, <1>2, <1>3, Distinct DEF Moves, SameRole, LinkInv, RegInv
<1>7. \A q \in Regs \ {r} : RegOK(q)' BY <1>6, MovesOK
<1>8. RegOK(r)'
  <2>1. Lockers(r)' = IF reuse THEN {h} ELSE {}
    BY <1>0, <1>1, <1>2, Distinct DEF Lockers, LinkInv
  <2>2. Cardinality(Lockers(r)') = IF reuse THEN 1 ELSE 0
    BY <2>1, FS_EmptySet, FS_Singleton
  <2>3. FixedLock(p)' = 0 /\ own'[r] = p /\ lock'[r] = IF reuse THEN 1 ELSE 0
    BY <1>1, <1>3 DEF FixedLock
  <2>4. lock'[r] = Cardinality(Lockers(r)') + FixedLock(p)' BY <2>2, <2>3
  <2>5. \A k \in Parts : reg'[k] = r <=> k = p BY <1>1, <1>2, Distinct
  <2>6. /\ \A t \in SRegs : scratch'[t] # r
        /\ \A g \in PRefs : hreg'[g] = r => pref'[g].kind = "val" /\ pref'[g].part = p
    BY <1>0, <1>1, <1>2, <1>a, Distinct DEF LinkInv
  <2> QED BY <2>3, <2>4, <2>5, <2>6, NowPart
<1>9. /\ \A k \in Parts : fixed'[k] => reg'[k] # NoReg
      /\ \A k \in Parts : reg'[k] # NoReg => st'[Val(k)] # "none"
  BY <1>0, <1>1, <1>3, <1>a, Distinct DEF RegInv, refvars
<1>10. \A q \in Regs : RegOK(q)' BY <1>7, <1>8
<1> QED BY <1>4, <1>5, <1>9, <1>10, RegInvFrom

\* A temporary takes over the register of a ScratchReg.
LEMMA ScratchTempCore ==
    ASSUME CoreInv, NEW h \in PRefs, NEW s \in SRegs, set_value_scratch_temp(h, s) PROVE CoreInv'
<1> USE DEF CoreInv
<1>0. /\ pref[h].kind = "temp" /\ hreg[h] = NoReg /\ scratch[s] # NoReg
      /\ hreg' = [hreg EXCEPT ![h] = scratch[s]] /\ scratch' = [scratch EXCEPT ![s] = NoReg]
      /\ UNCHANGED <<own, lock, reg, fixed, pref, refvars>>
  BY DEF set_value_scratch_temp, file, asgn, life, refvars
<1>1. PICK r \in Regs : r = scratch[s] BY <1>0, HeldScratch
<1>2. /\ own[r] = Temp /\ lock[r] = 1 /\ NoPartIn(r)
      /\ \A t \in SRegs : scratch[t] = r => t = s
      /\ \A g \in PRefs : hreg[g] # r
  BY <1>0, <1>1, HeldScratch
<1>3. hreg' \in [PRefs -> Regs \cup {NoReg}] /\ scratch' \in [SRegs -> Regs \cup {NoReg}]
  BY <1>0, <1>1 DEF LinkInv
<1>4. LinkInv'
  <2>1. \A g \in PRefs : pref[g].kind = "none" => g # h /\ hreg[g] = NoReg BY <1>0, HandleKinds
  <2>2. \A g \in PRefs : pref'[g] = pref[g] /\ (pref[g].kind = "none" => hreg'[g] = NoReg)
    BY <1>0, <2>1 DEF LinkInv
  <2> QED BY <1>0, <1>3, <2>2, LinksKept DEF LinkInv
<1>5. PICK n : n \notin PRefs BY NoSetContainsEverything
<1>6. Moves({}, {r}, n)
  BY <1>0, <1>1, <1>2, <1>5, Distinct DEF Moves, SameRole, LinkInv, RegInv
<1>7. \A q \in Regs \ {r} : RegOK(q)' BY <1>6, MovesOK
<1>8. RegOK(r)'
  <2>1. own'[r] = Temp /\ lock'[r] = 1 /\ NoPartIn(r)' BY <1>0, <1>2 DEF NoPartIn
  <2>2. HeldBy(r, h)' BY <1>0, <1>1, <1>2, Distinct DEF HeldBy, LinkInv
  <2> QED BY <2>1, <2>2, NowTemp
<1>9. \A q \in Regs : RegOK(q)' BY <1>7, <1>8
<1> QED BY <1>0, <1>4, <1>9 DEF RegInv, refvars

\* lock: one more handle relies on the register of the part.
LEMMA LockCore == ASSUME CoreInv, NEW h \in PRefs, Lock(h) PROVE CoreInv'
<1> USE DEF CoreInv
<1>0. /\ pref[h].kind = "val" /\ hreg[h] = NoReg /\ reg[pref[h].part] # NoReg /\ pref[h].part \in Parts
      /\ lock' = [lock EXCEPT ![reg[pref[h].part]] = @ + 1]
      /\ hreg' = [hreg EXCEPT ![h] = reg[pref[h].part]]
      /\ UNCHANGED <<own, reg, fixed, pref, scratch, refvars>>
  BY HandleKinds DEF Lock, asgn, life, refvars
<1>a. PICK p \in Parts : p = pref[h].part BY <1>0
<1>1. PICK r \in Regs : r = reg[p] /\ own[r] = p BY <1>0, <1>a, OwnersAgree
<1>2. PartReg(r, p) BY <1>1, Distinct DEF RegInv, RegOK, FreeReg, TempReg, PartReg
<1>3. hreg' \in [PRefs -> Regs \cup {NoReg}] /\ lock' \in [Regs -> Nat]
  BY <1>0, <1>1, <1>a DEF LinkInv, RegInv
<1>4. LinkInv'
  <2>1. \A g \in PRefs : pref[g].kind = "none" => g # h /\ hreg[g] = NoReg BY <1>0, HandleKinds
  <2>2. \A g \in PRefs : pref'[g] = pref[g] /\ (pref[g].kind = "none" => hreg'[g] = NoReg)
    BY <1>0, <2>1 DEF LinkInv
  <2> QED BY <1>0, <1>3, <2>2, LinksKept DEF LinkInv
<1>5. PICK n : n \notin PRefs BY NoSetContainsEverything
<1>6. Moves({}, {r}, n)
  BY <1>0, <1>a, <1>1, <1>5, Distinct DEF Moves, SameRole, LinkInv, RegInv
<1>7. \A q \in Regs \ {r} : RegOK(q)' BY <1>6, MovesOK
<1>8. RegOK(r)'
  <2>1. Lockers(r)' = Lockers(r) \cup {h} /\ h \notin Lockers(r)
    BY <1>0, <1>a, <1>1, Distinct DEF Lockers, LinkInv
  <2>2. Cardinality(Lockers(r)') = Cardinality(Lockers(r)) + 1
    BY <2>1, LockersFinite, FS_AddElement
  <2>3. FixedLock(p)' = FixedLock(p) /\ FixedLock(p) \in Nat BY <1>0 DEF FixedLock
  <2>4. lock'[r] = lock[r] + 1 BY <1>0, <1>a, <1>1 DEF RegInv
  <2>5. lock'[r] = Cardinality(Lockers(r)') + FixedLock(p)'
    BY <1>2, <2>2, <2>3, <2>4, LockersFinite DEF PartReg
  <2>6. /\ own'[r] = p /\ \A k \in Parts : reg'[k] = r <=> k = p
        /\ \A t \in SRegs : scratch'[t] # r
    BY <1>0, <1>2 DEF PartReg
  <2>7. \A g \in PRefs : hreg'[g] = r => pref'[g].kind = "val" /\ pref'[g].part = p
    BY <1>0, <1>a, <1>2 DEF PartReg, LinkInv
  <2> QED BY <2>5, <2>6, <2>7, NowPart
<1>9. \A q \in Regs : RegOK(q)' BY <1>7, <1>8
<1> QED BY <1>0, <1>3, <1>4, <1>9 DEF RegInv, refvars

\* set_value from a ScratchReg or from a register that holds a result: a part
\* in a fixed register stays there, another one takes the register over.
LEMMA SetScratchCore ==
    ASSUME CoreInv, NEW h \in PRefs, NEW s \in SRegs, set_value_scratch(h, s) PROVE CoreInv'
<1> USE DEF CoreInv
<1>0. /\ pref[h].kind = "val" /\ scratch[s] # NoReg
      /\ scratch' = [scratch EXCEPT ![s] = NoReg]
      /\ UNCHANGED <<fixed, pref, hreg, refvars>>
  BY DEF set_value_scratch, life, refvars
<1>1. PICK r \in Regs : r = scratch[s] BY <1>0, HeldScratch
<1>2. \/ /\ own' = [own EXCEPT ![r] = Free] /\ lock' = [lock EXCEPT ![r] = 0] /\ UNCHANGED reg
      \/ /\ reg[pref[h].part] = NoReg
         /\ own' = [own EXCEPT ![r] = pref[h].part] /\ lock' = [lock EXCEPT ![r] = 0]
         /\ reg' = [reg EXCEPT ![pref[h].part] = r]
  BY <1>1 DEF set_value_scratch, Adopt
<1>3. /\ NoPartIn(r) /\ \A g \in PRefs : hreg[g] # r
      /\ scratch' = [t \in SRegs |-> IF scratch[t] = r THEN NoReg ELSE scratch[t]]
  BY <1>0, <1>1, HeldScratch DEF LinkInv
<1>4. CASE UNCHANGED reg /\ own' = [own EXCEPT ![r] = Free] /\ lock' = [lock EXCEPT ![r] = 0]
  BY <1>0, <1>1, <1>4, ScratchFreed
<1>5. ASSUME reg[pref[h].part] = NoReg,
             own' = [own EXCEPT ![r] = pref[h].part], lock' = [lock EXCEPT ![r] = 0],
             reg' = [reg EXCEPT ![pref[h].part] = r]
      PROVE CoreInv'
  BY <1>0, <1>3, <1>5, AdoptedCore
<1> QED BY <1>2, <1>4, <1>5

\* Nothing that the invariant speaks of changes.
LEMMA CoreFrame ==
    ASSUME CoreInv, UNCHANGED <<own, lock, reg, fixed, pref, hreg, scratch, refvars>> PROVE CoreInv'
<1>1. \A q \in Regs : RegOK(q)' BY RegFrame DEF CoreInv, SameRole
<1>2. LinkInv' BY HandleKinds, LinksKept DEF CoreInv, LinkInv
<1> QED BY <1>1, <1>2 DEF CoreInv, RegInv, refvars

\* A result that takes over a return register keeps locks and owners consistent.
LEMMA SetRegCore ==
    ASSUME CoreInv, NEW h \in PRefs, NEW r \in Regs, set_value_reg(h, r) PROVE CoreInv'
<1> USE DEF CoreInv
<1>0. /\ pref[h].kind = "val" /\ own[r] = Free
      /\ UNCHANGED <<fixed, pref, hreg, scratch, refvars>>
  BY DEF set_value_reg, life, refvars, handles
<1>1. \/ UNCHANGED <<own, lock, reg>>
      \/ /\ reg[pref[h].part] = NoReg
         /\ own' = [own EXCEPT ![r] = pref[h].part] /\ lock' = [lock EXCEPT ![r] = 0]
         /\ reg' = [reg EXCEPT ![pref[h].part] = r]
  BY DEF set_value_reg, Adopt
<1>2. NotHeld(r) /\ NoPartIn(r) BY <1>0, UnlockedUnheld, OwnersAgree, Distinct DEF NoPartIn
<1>3. scratch' = [t \in SRegs |-> IF scratch[t] = r THEN NoReg ELSE scratch[t]]
  BY <1>0, <1>2 DEF LinkInv, NotHeld
<1> QED BY <1>0, <1>1, <1>2, <1>3, CoreFrame, AdoptedCore DEF NotHeld

----------------------------------------------------------------------------
(***************************************************************************)
(* References and assignments.                                             *)
(***************************************************************************)
\* The registers are left alone, and no part in a register loses its value.
LEMMA RegsKept ==
    ASSUME RegInv, UNCHANGED <<own, lock, reg, fixed, hreg, scratch>>,
           \A g \in PRefs : hreg[g] # NoReg => pref'[g] = pref[g],
           \A p \in Parts : reg[p] # NoReg => st'[Val(p)] # "none"
    PROVE  RegInv'
<1>1. \A q \in Regs : RegOK(q)' BY RegFrame, Distinct DEF SameRole
<1> QED BY <1>1 DEF RegInv

\* A new ValueRef x of value v: nothing was made from x before.
LEMMA LinksAdded ==
    ASSUME LinkInv, RefTypeOK, NEW x \in VRefs, vref[x].val = NoVal, NEW v \in AllVals, NEW m \in 0 .. 2,
           vref' = [vref EXCEPT ![x] = [val |-> v, mode |-> m]],
           UNCHANGED <<pref, hreg, scratch>>,
           st'[v] = "live", \A u \in AllVals \ {v} : st'[u] = st[u],
           m = 2 => v \notin delay',
           \A u \in AllVals : (\E y \in VRefs : vref[y].val = u) => (u \in delay' => u \in delay)
    PROVE  LinkInv'
<1>1. NoVal \notin AllVals BY ValueAssumption DEF ValueAssumption
<1>2. vref'[x] = [val |-> v, mode |-> m] /\ \A y \in VRefs \ {x} : vref'[y] = vref[y]
  BY DEF RefTypeOK
<1>3. ASSUME NEW h \in PRefs PROVE (Blank(h) \/ Temporary(h) \/ OfPart(h))'
  <2>1. CASE Blank(h) BY <2>1 DEF Blank
  <2>2. CASE Temporary(h) BY <2>2 DEF Temporary
  <2>3. CASE OfPart(h)
    <3>1. pref[h].ref # x BY <1>1, <2>3, PartsOfValue DEF OfPart
    <3> QED BY <1>2, <2>3, <3>1 DEF OfPart
  <2> QED BY <2>1, <2>2, <2>3 DEF LinkInv
<1>4. \A y \in VRefs : vref'[y].val # NoVal => st'[vref'[y].val] = "live"
  BY <1>2 DEF LinkInv, RefTypeOK
<1>5. ASSUME NEW y \in VRefs, vref'[y].mode = 2 PROVE vref'[y].val \notin delay'
  <2>1. CASE y = x BY <1>2, <1>5, <2>1
  <2>2. CASE y # x
    <3>1. vref[y].mode = 2 /\ vref[y].val \in AllVals
      BY <1>2, <1>5, <2>2 DEF RefTypeOK, AllVals
    <3> QED BY <1>2, <2>2, <3>1 DEF LinkInv
  <2> QED BY <2>1, <2>2
<1> QED BY <1>3, <1>4, <1>5 DEF LinkInv

\* ValueRef x goes away, after everything that was made from it; a value that
\* is freed with it had no other reference.
LEMMA LinksRemoved ==
    ASSUME LinkInv, RefTypeOK, NEW x \in VRefs, vref' = [vref EXCEPT ![x] = Unused],
           \A h \in PRefs : pref[h].ref # x,
           \A u \in AllVals : st'[u] # st[u] => RefsTo(u) \subseteq {x},
           delay' \subseteq delay, UNCHANGED <<pref, hreg, scratch>>
    PROVE  LinkInv'
<1>2. vref'[x] = Unused /\ \A y \in VRefs \ {x} : vref'[y] = vref[y] BY DEF RefTypeOK
<1>3. ASSUME NEW h \in PRefs PROVE (Blank(h) \/ Temporary(h) \/ OfPart(h))'
  <2>1. CASE Blank(h) BY <2>1 DEF Blank
  <2>2. CASE Temporary(h) BY <2>2 DEF Temporary
  <2>3. CASE OfPart(h) BY <1>2, <2>3 DEF OfPart
  <2> QED BY <2>1, <2>2, <2>3 DEF LinkInv
<1>4. ASSUME NEW y \in VRefs, vref'[y].val # NoVal PROVE st'[vref'[y].val] = "live"
  <2>1. y # x BY <1>2, <1>4 DEF Unused
  <2>2. vref'[y] = vref[y] /\ vref[y].val \in AllVals BY <1>2, <1>4, <2>1 DEF RefTypeOK
  <2>3. y \in RefsTo(vref[y].val) BY DEF RefsTo
  <2> QED BY <1>4, <2>1, <2>2, <2>3 DEF LinkInv
<1>5. \A y \in VRefs : vref'[y].mode = 2 => vref'[y].val \notin delay'
  BY <1>2 DEF LinkInv, Unused
<1> QED BY <1>3, <1>4, <1>5 DEF LinkInv

\* A fixed assignment gets an unused allocatable register.
LEMMA FixedCandidatesFree ==
    ASSUME NEW b
    PROVE  \A r \in FixedCandidates(b) : r \in Regs /\ r \in alloc /\ own[r] = Free
BY RegAssumption DEF FixedCandidates, RegAssumption

\* A part of a value that is gone is in no register, and no handle is on it.
LEMMA ResultCore ==
    ASSUME RefInv, CoreInv, NEW x \in VRefs, NEW v \in Values, NEW n \in 1 .. MaxRefs, NEW d \in BOOLEAN,
           result_ref(x, v, n, d) \/ result_ref_fixed(x, v, n, d)
    PROVE  CoreInv'
<1> USE DEF CoreInv
<1>1. /\ vref[x].val = NoVal /\ st[v] = "none" /\ v \in AllVals
      /\ st' = [st EXCEPT ![v] = "live"]
      /\ delay' = (IF d THEN delay \cup {v} ELSE delay \ {v})
      /\ vref' = [vref EXCEPT ![x] = [val |-> v, mode |-> Mode(n, d)]]
      /\ UNCHANGED <<pref, hreg, scratch>>
  BY DEF result_ref, result_ref_fixed, InitAssignment, AllVals
<1>2. /\ st'[v] = "live" /\ \A u \in AllVals \ {v} : st'[u] = st[u]
      /\ Mode(n, d) \in 0 .. 2 /\ (Mode(n, d) = 2 => v \notin delay')
  BY <1>1 DEF Mode, RefInv, RefTypeOK
<1>3. \A u \in AllVals : (\E y \in VRefs : vref[y].val = u) => (u \in delay' => u \in delay)
  <2>1. \A y \in VRefs : vref[y].val # v
    BY <1>1, ValueAssumption DEF LinkInv, ValueAssumption
  <2> QED BY <1>1, <2>1
<1>4. LinkInv' BY <1>1, <1>2, <1>3, LinksAdded DEF RefInv
<1>5. \A p \in Parts : Val(p) = v => reg[p] = NoReg BY <1>1 DEF RegInv
<1>6. CASE result_ref(x, v, n, d)
  <2>1. UNCHANGED <<own, lock, reg, fixed, hreg, scratch, pref>>
    BY <1>6 DEF result_ref, file, asgn
  <2>2. \A p \in Parts : reg[p] # NoReg => st'[Val(p)] # "none"
    BY <1>2, <1>5, PartsOfValue DEF RegInv
  <2> QED BY <1>4, <2>1, <2>2, RegsKept
<1>7. CASE result_ref_fixed(x, v, n, d)
  <2>1. PICK p \in Parts : p = <<v, 0>> /\ Val(p) = v BY <1>1, PartsOfValue
  <2>2. PICK r \in Regs : /\ own[r] = Free
                          /\ own' = [own EXCEPT ![r] = p] /\ lock' = [lock EXCEPT ![r] = 1]
                          /\ reg' = [reg EXCEPT ![p] = r]
    <3>1. \E r \in FixedCandidates(BankOf[v]) :
             /\ own' = [own EXCEPT ![r] = p] /\ lock' = [lock EXCEPT ![r] = 1]
             /\ reg' = [reg EXCEPT ![p] = r]
      BY <1>7, <2>1 DEF result_ref_fixed
    <3>2. \A r \in FixedCandidates(BankOf[v]) : r \in Regs /\ own[r] = Free
      BY FixedCandidatesFree
    <3> QED BY <3>1, <3>2
  <2>3. fixed' = [fixed EXCEPT ![p] = TRUE] BY <1>7, <2>1 DEF result_ref_fixed
  <2>4. NotHeld(r) /\ NoPartIn(r) BY <2>2, UnlockedUnheld, OwnersAgree, Distinct DEF NoPartIn
  <2>5. reg[p] = NoReg BY <1>5, <2>1
  <2>6. /\ own' \in [Regs -> Parts \cup {Free, Temp}] /\ lock' \in [Regs -> Nat]
        /\ reg' \in [Parts -> Regs \cup {NoReg}] /\ fixed' \in [Parts -> BOOLEAN]
    BY <2>2, <2>3 DEF RegInv
  <2>7. PICK g : g \notin PRefs BY NoSetContainsEverything
  <2>8. Moves({}, {r}, g)
    BY ZenonT(60), <1>1, <2>2, <2>3, <2>5, <2>7, Distinct DEF Moves, SameRole, LinkInv, RegInv
  <2>9. \A q \in Regs \ {r} : RegOK(q)' BY <2>8, MovesOK
  <2>10. RegOK(r)'
    <3>1. \A h \in PRefs : hreg'[h] # r BY <1>1, <2>4 DEF NotHeld
    <3>2. Lockers(r)' = {} BY <3>1 DEF Lockers
    <3>3. Cardinality(Lockers(r)') = 0 BY <3>2, FS_EmptySet
    <3>4. FixedLock(p)' = 1 /\ lock'[r] = 1 /\ own'[r] = p BY <2>2, <2>3 DEF FixedLock, RegInv
    <3>5. lock'[r] = Cardinality(Lockers(r)') + FixedLock(p)' BY <3>3, <3>4
    <3>6. \A k \in Parts : reg'[k] = r <=> k = p BY <2>2, <2>4 DEF NoPartIn, RegInv
    <3>7. \A t \in SRegs : scratch'[t] # r BY <1>1, <2>4 DEF NotHeld
    <3> QED BY <3>1, <3>4, <3>5, <3>6, <3>7, NowPart
  <2>11. /\ \A k \in Parts : fixed'[k] => reg'[k] # NoReg
         /\ \A k \in Parts : reg'[k] # NoReg => st'[Val(k)] # "none"
    BY <1>2, <1>5, <2>1, <2>2, <2>3, Distinct, PartsOfValue DEF RegInv
  <2>12. \A q \in Regs : RegOK(q)' BY <2>9, <2>10
  <2> QED BY <1>4, <2>6, <2>11, <2>12, RegInvFrom
<1> QED BY <1>6, <1>7

\* A new reference to a value keeps locks and owners consistent.
LEMMA ValRefCore ==
    ASSUME RefInv, CoreInv, NEW x \in VRefs, NEW v \in AllVals, val_ref(x, v) PROVE CoreInv'
<1>1. PICK m \in 0 .. 2 : m = (IF v \in VarRefs THEN 0 ELSE Mode(refs[v], v \in delay)) BY DEF Mode
<1>2. /\ vref[x].val = NoVal /\ st[v] = "live"
      /\ vref' = [vref EXCEPT ![x] = [val |-> v, mode |-> m]]
      /\ UNCHANGED <<own, lock, reg, fixed, pref, hreg, scratch, st, delay>>
  BY <1>1 DEF val_ref, file, asgn, life
<1>3. m = 2 => v \notin delay' BY <1>1, <1>2 DEF Mode
<1>4. LinkInv' BY <1>2, <1>3, LinksAdded DEF CoreInv, RefInv
<1>5. RegInv' BY <1>2, RegsKept DEF CoreInv, RegInv
<1> QED BY <1>4, <1>5 DEF CoreInv

\* A reference derived from another without ownership keeps locks and owners consistent.
LEMMA DisownedCore ==
    ASSUME RefInv, CoreInv, NEW x \in VRefs, NEW y \in VRefs, disowned(x, y) PROVE CoreInv'
<1>1. PICK v \in AllVals : v = vref[y].val /\ st[v] = "live"
  BY DEF disowned, RefInv, RefTypeOK, CoreInv, LinkInv
<1>2. /\ vref[x].val = NoVal
      /\ vref' = [vref EXCEPT ![x] = [val |-> v, mode |-> 0]]
      /\ UNCHANGED <<own, lock, reg, fixed, pref, hreg, scratch, st, delay>>
  BY <1>1 DEF disowned, file, asgn, life
<1>3. 0 \in 0 .. 2 /\ 0 # 2 OBVIOUS
<1>4. LinkInv' BY <1>1, <1>2, <1>3, LinksAdded DEF CoreInv, RefInv
<1>5. RegInv' BY <1>2, RegsKept DEF CoreInv, RegInv
<1> QED BY <1>4, <1>5 DEF CoreInv

\* part(), and a temporary.
LEMMA NewHandleCore ==
    ASSUME RefInv, CoreInv, NEW h \in PRefs,
           \/ \E x \in VRefs, p \in Parts, u \in BOOLEAN : part(h, x, p, u)
           \/ \E k \in {"temp", "const"} : temporary(h, k)
    PROVE  CoreInv'
<1>0. /\ pref[h].kind = "none"
      /\ UNCHANGED <<own, lock, reg, fixed, hreg, scratch, refvars>>
      /\ \A g \in PRefs \ {h} : pref'[g] = pref[g]
  BY DEF part, temporary, file, asgn, life, refvars, CoreInv, LinkInv
<1>1. hreg[h] = NoReg BY <1>0, HandleKinds DEF CoreInv
<1>2. RegInv' BY <1>0, <1>1, RegsKept DEF CoreInv, RegInv, refvars
<1>3. pref' \in [PRefs -> Handles] /\ (Temporary(h) \/ OfPart(h))'
  <2>1. ASSUME NEW k \in {"temp", "const"}, temporary(h, k)
        PROVE pref' \in [PRefs -> Handles] /\ Temporary(h)'
    BY <2>1 DEF temporary, CoreInv, LinkInv, Temporary, TempHandle, Handles
  <2>2. ASSUME NEW x \in VRefs, NEW p \in Parts, NEW u \in BOOLEAN, part(h, x, p, u)
        PROVE pref' \in [PRefs -> Handles] /\ OfPart(h)'
    <3>1. PICK w \in BOOLEAN : w = (~u /\ vref[x].mode = 2) OBVIOUS
    <3>2. pref' = [pref EXCEPT ![h] = [kind |-> "val", ref |-> x, part |-> p, owned |-> w]]
      BY <2>2, <3>1 DEF part
    <3>3. [kind |-> "val", ref |-> x, part |-> p, owned |-> w] \in Handles BY DEF Handles
    <3>4. pref' \in [PRefs -> Handles] BY <3>2, <3>3 DEF CoreInv, LinkInv
    <3>5. pref'[h] = [kind |-> "val", ref |-> x, part |-> p, owned |-> w]
      BY <3>2 DEF CoreInv, LinkInv
    <3>6. vref'[x].val = Val(p) /\ (w => vref'[x].mode = 2) BY <2>2, <3>1 DEF part
    <3> QED BY <3>4, <3>5, <3>6 DEF OfPart
  <2> QED BY <2>1, <2>2
<1>4. ASSUME NEW g \in PRefs PROVE (Blank(g) \/ Temporary(g) \/ OfPart(g))'
  <2>1. CASE g = h BY <1>3, <2>1
  <2>2. CASE g # h
    BY <1>0, <2>2 DEF CoreInv, LinkInv, Blank, Temporary, OfPart, refvars
  <2> QED BY <2>1, <2>2
<1>5. LinkInv' BY <1>0, <1>3, <1>4 DEF CoreInv, LinkInv, refvars
<1> QED BY <1>2, <1>5 DEF CoreInv

\* ValueRef::reset.  The last counted reference frees the value, now or with
\* the block.
LEMMA RefResetCore == ASSUME RefInv, CoreInv, NEW x \in VRefs, ValueRef_reset(x) PROVE CoreInv'
<1> USE DEF CoreInv
<1>1. PICK v \in AllVals : v = vref[x].val
  BY DEF ValueRef_reset, RefInv, RefTypeOK
<1> DEFINE last == vref[x].mode # 0 /\ refs[v] = 1
<1>2. /\ \A h \in PRefs : pref[h].ref # x
      /\ vref' = [vref EXCEPT ![x] = Unused]
      /\ last => RefsTo(v) = {x}
      /\ UNCHANGED <<pref, hreg, scratch>>
  BY <1>1 DEF ValueRef_reset
<1>3. last => \A h \in PRefs : pref[h].kind = "val" => Val(pref[h].part) # v
  <2> SUFFICES ASSUME last, NEW h \in PRefs, pref[h].kind = "val", Val(pref[h].part) = v PROVE FALSE
    OBVIOUS
  <2>1. OfPart(h) BY HandleKinds
  <2>2. pref[h].ref \in RefsTo(v) BY <2>1 DEF OfPart, RefsTo
  <2> QED BY <1>2, <2>2
<1>4. ASSUME last, FreeAssignment(v) PROVE CoreInv'
  <2>1. RegInv' BY <1>2, <1>3, <1>4, FreeAssignmentRegs DEF RefInv
  <2>2. st' = [st EXCEPT ![v] = "none"] /\ delay' \subseteq delay BY <1>4 DEF FreeAssignment
  <2>3. \A u \in AllVals : st'[u] # st[u] => RefsTo(u) \subseteq {x}
    BY <1>2, <1>4, <2>2 DEF RefInv, RefTypeOK
  <2>4. LinkInv' BY <1>2, <2>2, <2>3, LinksRemoved DEF RefInv
  <2> QED BY <2>1, <2>4
<1>5. ASSUME UNCHANGED <<own, lock, reg, fixed, delay>>,
             (last /\ st' = [st EXCEPT ![v] = "pending"]) \/ UNCHANGED st
      PROVE CoreInv'
  <2>1. \A u \in AllVals : st'[u] # st[u] => RefsTo(u) \subseteq {x}
    BY <1>2, <1>5 DEF RefInv, RefTypeOK
  <2>2. LinkInv' BY <1>2, <1>5, <2>1, LinksRemoved DEF RefInv
  <2>3. \A p \in Parts : reg[p] # NoReg => st'[Val(p)] # "none"
    BY <1>5, PartsOfValue DEF RefInv, RefTypeOK, RegInv
  <2>4. RegInv' BY <1>2, <1>5, <2>3, RegsKept
  <2> QED BY <2>2, <2>4
<1>6. \/ last /\ FreeAssignment(v)
      \/ /\ UNCHANGED <<own, lock, reg, fixed, delay>>
         /\ (last /\ st' = [st EXCEPT ![v] = "pending"]) \/ UNCHANGED st
  BY <1>1 DEF ValueRef_reset, file, asgn
<1> HIDE DEF last
<1> QED BY <1>4, <1>5, <1>6

\* Nothing is in a register and no handle is in use: the start of a function.
LEMMA FreshCore ==
    ASSUME own' = [r \in Regs |-> Free], lock' = [r \in Regs |-> 0],
           reg' = [p \in Parts |-> NoReg], fixed' = [p \in Parts |-> FALSE], delay' = {},
           vref' = [x \in VRefs |-> Unused], pref' = [h \in PRefs |-> NoHandle],
           hreg' = [h \in PRefs |-> NoReg], scratch' = [s \in SRegs |-> NoReg]
    PROVE  CoreInv'
<1>1. \A h \in PRefs : Blank(h)' BY DEF Blank
<1>2. LinkInv' BY <1>1 DEF LinkInv, Handles, NoHandle, Unused
<1>3. \A r \in Regs : FreeReg(r)' BY Distinct DEF FreeReg, NotHeld, NoPartIn
<1>4. RegInv' BY <1>3 DEF RegInv, RegOK
<1> QED BY <1>2, <1>4 DEF CoreInv

\* No register is in use in an initial state.
LEMMA CoreInit == Init => CoreInv
<1> SUFFICES ASSUME Init PROVE CoreInv OBVIOUS
<1>1. \A h \in PRefs : Blank(h) BY DEF Blank, Init
<1>2. LinkInv BY <1>1 DEF LinkInv, Init, Handles, NoHandle, Unused
<1>3. \A r \in Regs : FreeReg(r) BY Distinct DEF FreeReg, NotHeld, NoPartIn, Init
<1>4. RegInv BY <1>3 DEF RegInv, RegOK, Init
<1> QED BY <1>2, <1>4 DEF CoreInv

\* What the compiler does between the operations of the handles.
LEMMA CompilerStepCore == ASSUME RefInv, CoreInv, CompilerStep PROVE CoreInv'
<1>1. ASSUME NEW v \in VarRefs, init_variable_ref(v) PROVE CoreInv'
  <2>1. /\ v \in AllVals /\ st' = [st EXCEPT ![v] = "live"]
        /\ UNCHANGED <<own, lock, reg, fixed, delay, vref, pref, hreg, scratch>>
    BY <1>1 DEF init_variable_ref, file, asgn, handles, AllVals
  <2>2. RegInv'
    <3>1. \A p \in Parts : reg[p] # NoReg => st'[Val(p)] # "none"
      BY <2>1, PartsOfValue DEF RefInv, RefTypeOK, CoreInv, RegInv
    <3> QED BY <2>1, <3>1, RegsKept DEF CoreInv
  <2>3. \A x \in VRefs : vref'[x].val # NoVal => st'[vref'[x].val] = "live"
    BY <2>1 DEF CoreInv, LinkInv, RefInv, RefTypeOK
  <2>4. LinkInv' BY <2>1, <2>3 DEF CoreInv, LinkInv, Blank, Temporary, OfPart
  <2> QED BY <2>2, <2>4 DEF CoreInv
<1>2. ASSUME NEW v \in Values, delayed_free(v) PROVE CoreInv'
  <2>1. /\ v \in AllVals /\ FreeAssignment(v) /\ delay' \subseteq delay
        /\ UNCHANGED <<vref, pref, hreg, scratch>>
        /\ \A x \in VRefs : vref[x].val = NoVal
        /\ \A h \in PRefs : pref[h].kind = "none"
    BY <1>2 DEF delayed_free, FreeAssignment, handles, AllVals, Idle, NoHandles
  <2>2. RegInv' BY <2>1, FreeAssignmentRegs DEF RefInv
  <2>3. LinkInv' BY <2>1 DEF CoreInv, LinkInv, Blank, Temporary, OfPart
  <2> QED BY <2>2, <2>3 DEF CoreInv
<1>3. ASSUME NEW p \in Parts, spill(p) PROVE CoreInv'
  BY <1>3, CoreFrame DEF spill, file, life, handles, refvars
<1>4. ASSUME NEW r \in Regs, evict_reg(r) PROVE CoreInv'
  <2>1. /\ {r} \in SUBSET Regs /\ \A q \in {r} : Evictable(q)
        /\ own' = [q \in Regs |-> IF q \in {r} THEN Free ELSE own[q]]
        /\ reg' = RegAfter({r}) /\ UNCHANGED <<lock, fixed, pref, hreg, scratch, refvars>>
    BY <1>4 DEF evict_reg, handles, life, refvars, CoreInv, RegInv
  <2> QED BY <2>1, EvictedCore
<1>5. ASSUME NEW R \in SUBSET Regs, \A r \in R : Evictable(r), FreeRegs(R) PROVE CoreInv'
  <2>1. /\ own' = [q \in Regs |-> IF q \in R THEN Free ELSE own[q]]
        /\ reg' = RegAfter(R) /\ UNCHANGED <<lock, fixed, pref, hreg, scratch, refvars>>
    BY <1>5 DEF FreeRegs, handles, life, refvars
  <2> QED BY <1>5, <2>1, EvictedCore
<1>6. ASSUME NEW R \in SUBSET Regs, release_spilled_regs(R) PROVE CoreInv'
  BY <1>5, <1>6 DEF release_spilled_regs
<1>7. CASE ret BY <1>5, <1>7 DEF ret
<1>8. CASE call_sym
  <2> DEFINE R == CallEvicted(args)
  <2>1. /\ R \in SUBSET Regs /\ \A q \in R : Evictable(q)
        /\ own' = [q \in Regs |-> IF q \in R THEN Free ELSE own[q]]
        /\ reg' = RegAfter(R) /\ UNCHANGED <<lock, fixed, pref, hreg, scratch, refvars>>
    BY <1>8, EvictedParts DEF call_sym, CallEffect, CallEvicted, CallClobbered, life, refvars,
       CoreInv, RegInv, RegAfter
  <2> HIDE DEF R
  <2> QED BY <2>1, EvictedCore
<1>9. CASE compile_func BY <1>9, FreshCore DEF compile_func
<1> QED BY <1>1, <1>2, <1>3, <1>4, <1>6, <1>7, <1>8, <1>9 DEF CompilerStep

\* The operations of a ValueRef, a ValuePart, a ScratchReg.
LEMMA RefStepCore == ASSUME RefInv, CoreInv, NEW x \in VRefs, RefStep(x) PROVE CoreInv'
  BY ResultCore, ValRefCore, DisownedCore, NewHandleCore, RefResetCore DEF RefStep

\* Every operation on a ValuePart keeps locks and owners consistent.
LEMMA PartStepCore == ASSUME RefInv, CoreInv, NEW h \in PRefs, PartStep(h) PROVE CoreInv'
<1>1. ASSUME WriteResult(h) PROVE CoreInv'
  BY <1>1, CoreFrame DEF WriteResult, file, life, handles, refvars
<1>2. RetRegs \subseteq Regs /\ ArgRegs \subseteq Regs BY RegAssumption DEF RegAssumption
<1>3. ASSUME \/ Lock(h) \/ Unlock(h) \/ alloc_reg(h) \/ load_to_reg(h)
             \/ \E r \in Regs : alloc_specific(h, r) \/ load_to_specific(h, r)
             \/ \E k \in {"temp", "const"} : temporary(h, k)
             \/ \E r \in Regs : alloc_temp(h, r) \/ alloc_temp_specific(h, r)
      PROVE CoreInv'
  BY <1>3, LockCore, UnlockCore, PartClaimCore, NewHandleCore, TempClaimCore
<1>4. ASSUME NEW o \in PRefs,
             \/ set_value_temp_move(h, o) \/ set_value_temp_copy(h, o)
             \/ set_value_temp_salvage(h, o) \/ set_value_copy(h, o)
             \/ \E u \in BOOLEAN : set_value_salvage(h, o, u)
      PROVE CoreInv'
  BY <1>4, TempMoveCore, TempCopyCore, TempSalvageCore, CopyCore, SalvageCore
<1>5. ASSUME NEW s \in SRegs,
             set_value_scratch(h, s) \/ set_value_scratch_temp(h, s) \/ into_scratch(h, s)
      PROVE CoreInv'
  BY <1>5, SetScratchCore, ScratchTempCore, IntoScratchCore
<1>6. ASSUME NEW r \in Regs, set_value_reg(h, r) \/ set_value_reg_temp(h, r) \/ add_arg(h, r)
      PROVE CoreInv'
  BY <1>6, SetRegCore, RegTempCore, AddArgCore
<1>7. ASSUME call_reg(h) \/ ValuePart_reset(h) PROVE CoreInv'
  BY <1>7, CallRegCore, PartResetCore
<1> QED BY <1>1, <1>2, <1>3, <1>4, <1>5, <1>6, <1>7 DEF PartStep

\* Every operation on a ScratchReg keeps locks and owners consistent.
LEMMA ScratchStepCore == ASSUME CoreInv, NEW s \in SRegs, ScratchStep(s) PROVE CoreInv'
  BY ScratchClaimCore, ScratchResetCore DEF ScratchStep

\* Locks and owners are consistent after every step of the compiler.
LEMMA CoreStep == RefInv /\ CoreInv /\ [Next]_vars => CoreInv'
<1> SUFFICES ASSUME RefInv, CoreInv, [Next]_vars PROVE CoreInv' OBVIOUS
<1>1. CASE UNCHANGED vars BY <1>1, CoreFrame DEF vars, refvars
<1> QED BY <1>1, RefStepCore, PartStepCore, ScratchStepCore, CompilerStepCore DEF Next

\* The invariant all theorems below rest on.
THEOREM CoreInvAlways == Spec => [](RefInv /\ CoreInv)
  BY RefInvInit, RefInvStep, CoreInit, CoreStep, PTL DEF Spec

----------------------------------------------------------------------------
(***************************************************************************)
(* The properties of the registers.                                        *)
(***************************************************************************)
\* The register file and the value assignments agree at every step, for any
\* number of registers, values, parts and handles: what compile_block asserts
\* between two blocks.
THEOREM OwnerConsistentAlways == Spec => []OwnerConsistent
<1>1. CoreInv => OwnerConsistent BY OwnersAgree DEF CoreInv, RegInv, OwnerConsistent
<1> QED BY CoreInvAlways, <1>1, PTL

\* The lock count of every register is the number of handles and ScratchRegs
\* that rely on it plus one for a fixed assignment, however many there are.
THEOREM LockAccountingAlways == Spec => []LockAccounting
<1>1. ASSUME CoreInv, NEW r \in Regs
      PROVE lock[r] = Cardinality(Lockers(r)) + Cardinality(ScratchLockers(r))
                    + Cardinality({p \in Parts : fixed[p] /\ reg[p] = r})
  <2> DEFINE F == {p \in Parts : fixed[p] /\ reg[p] = r}
  <2>1. RegOK(r) BY <1>1 DEF CoreInv, RegInv
  <2>2. CASE FreeReg(r)
    <3>1. Lockers(r) = {} /\ ScratchLockers(r) = {} /\ F = {}
      BY <2>2 DEF FreeReg, NotHeld, NoPartIn, Lockers, ScratchLockers
    <3> QED BY <2>2, <3>1, FS_EmptySet DEF FreeReg
  <2>3. CASE TempReg(r)
    <3>1. F = {} BY <2>3 DEF TempReg, NoPartIn
    <3>2. CASE \E h \in PRefs : HeldBy(r, h)
      <4>1. PICK h \in PRefs : HeldBy(r, h) BY <3>2
      <4>2. Lockers(r) = {h} /\ ScratchLockers(r) = {} BY <4>1 DEF HeldBy, Lockers, ScratchLockers
      <4>3. Cardinality(Lockers(r)) = 1 /\ Cardinality(ScratchLockers(r)) = 0 /\ Cardinality(F) = 0
        BY <3>1, <4>2, FS_EmptySet, FS_Singleton
      <4> QED BY <2>3, <4>3 DEF TempReg
    <3>3. CASE \E s \in SRegs : ScratchOf(r, s)
      <4>1. PICK s \in SRegs : ScratchOf(r, s) BY <3>3
      <4>2. Lockers(r) = {} /\ ScratchLockers(r) = {s} BY <4>1 DEF ScratchOf, Lockers, ScratchLockers
      <4>3. Cardinality(Lockers(r)) = 0 /\ Cardinality(ScratchLockers(r)) = 1 /\ Cardinality(F) = 0
        BY <3>1, <4>2, FS_EmptySet, FS_Singleton
      <4> QED BY <2>3, <4>3 DEF TempReg
    <3> QED BY <2>3, <3>2, <3>3 DEF TempReg
  <2>4. ASSUME NEW p \in Parts, PartReg(r, p)
        PROVE lock[r] = Cardinality(Lockers(r)) + Cardinality(ScratchLockers(r)) + Cardinality(F)
    <3>1. ScratchLockers(r) = {} BY <2>4 DEF PartReg, ScratchLockers
    <3>2. F = IF fixed[p] THEN {p} ELSE {} BY <2>4 DEF PartReg
    <3>3. Cardinality(F) = FixedLock(p) BY <3>2, FS_EmptySet, FS_Singleton DEF FixedLock
    <3>4. Cardinality(ScratchLockers(r)) = 0 BY <3>1, FS_EmptySet
    <3> QED BY <2>4, <3>3, <3>4, LockersFinite DEF PartReg, FixedLock
  <2> QED BY <2>1, <2>2, <2>3, <2>4 DEF RegOK
<1>2. CoreInv => LockAccounting BY <1>1 DEF LockAccounting
<1> QED BY CoreInvAlways, <1>2, PTL

\* A handle that keeps a register locked finds its part there, a temporary or
\* ScratchReg has its register for itself: no sequence of operations the
\* asserts allow takes a register from under a handle.
THEOREM HandleStableAlways == Spec => []HandleStable
<1>1. ASSUME CoreInv, NEW h \in PRefs, hreg[h] # NoReg
      PROVE IF pref[h].kind = "val" THEN reg[pref[h].part] = hreg[h]
            ELSE own[hreg[h]] = Temp /\ Lockers(hreg[h]) = {h}
  BY <1>1, HeldReg DEF Lockers
<1>2. ASSUME CoreInv, NEW s \in SRegs, scratch[s] # NoReg
      PROVE /\ own[scratch[s]] = Temp
            /\ ScratchLockers(scratch[s]) = {s} /\ Lockers(scratch[s]) = {}
  BY <1>2, HeldScratch DEF Lockers, ScratchLockers
<1>3. CoreInv => HandleStable BY <1>1, <1>2 DEF HandleStable
<1> QED BY CoreInvAlways, <1>3, PTL

\* While a handle keeps its register it stays what it is.
LEMMA RolesKept ==
    ASSUME CoreInv, [Next]_vars, NEW h \in PRefs, hreg[h] # NoReg, hreg'[h] = hreg[h]
    PROVE  SameRole(h)
<1> USE DEF CoreInv, SameRole
<1>1. CASE UNCHANGED pref BY <1>1
<1>2. pref[h].kind # "none" BY HandleKinds
<1>3. CASE UNCHANGED vars BY <1>1, <1>3 DEF vars
<1>4. ASSUME NEW g \in PRefs, pref[g].kind = "none", NEW w, pref' = [pref EXCEPT ![g] = w]
      PROVE SameRole(h)
  BY <1>2, <1>4 DEF LinkInv
<1>5. ASSUME NEW g \in PRefs, pref' = [pref EXCEPT ![g] = NoHandle],
             hreg' = [hreg EXCEPT ![g] = NoReg]
      PROVE SameRole(h)
  BY <1>5 DEF LinkInv
<1>6. ASSUME NEW x \in VRefs, RefStep(x) PROVE SameRole(h)
  <2>1. ASSUME NEW v \in Values, NEW n \in 1 .. MaxRefs, NEW d \in BOOLEAN,
               result_ref(x, v, n, d) \/ result_ref_fixed(x, v, n, d)
        PROVE UNCHANGED pref
    BY <2>1 DEF result_ref, result_ref_fixed
  <2>2. ASSUME NEW v \in AllVals, val_ref(x, v) PROVE UNCHANGED pref BY <2>2 DEF val_ref
  <2>3. ASSUME NEW y \in VRefs, disowned(x, y) PROVE UNCHANGED pref BY <2>3 DEF disowned
  <2>4. ASSUME NEW g \in PRefs, NEW p \in Parts, NEW u \in BOOLEAN, part(g, x, p, u) PROVE SameRole(h)
    BY <1>4, <2>4 DEF part
  <2>5. CASE ValueRef_reset(x) BY <1>1, <2>5 DEF ValueRef_reset
  <2> QED BY <1>1, <1>6, <2>1, <2>2, <2>3, <2>4, <2>5 DEF RefStep
<1>7. ASSUME NEW g \in PRefs, PartStep(g) PROVE SameRole(h)
  <2>1. ASSUME Lock(g) \/ Unlock(g) \/ alloc_reg(g) \/ load_to_reg(g) \/ WriteResult(g)
        PROVE UNCHANGED pref
    BY <2>1 DEF Lock, Unlock, alloc_reg, load_to_reg, WriteResult, handles
  <2>2. ASSUME NEW r \in Regs, \/ alloc_specific(g, r) \/ load_to_specific(g, r)
                               \/ alloc_temp(g, r) \/ alloc_temp_specific(g, r)
        PROVE UNCHANGED pref
    BY <2>2 DEF alloc_specific, load_to_specific, alloc_temp, alloc_temp_specific, ClaimTemp
  <2>3. ASSUME NEW k \in {"temp", "const"}, temporary(g, k) PROVE SameRole(h)
    BY <1>4, <2>3 DEF temporary
  <2>4. ASSUME NEW o \in PRefs, \/ set_value_temp_copy(g, o) \/ set_value_temp_salvage(g, o)
                                \/ set_value_copy(g, o)
                                \/ \E u \in BOOLEAN : set_value_salvage(g, o, u)
        PROVE UNCHANGED pref
    BY <2>4 DEF set_value_temp_copy, set_value_temp_salvage, set_value_copy, set_value_salvage
  <2>5. ASSUME NEW o \in PRefs, set_value_temp_move(g, o) PROVE SameRole(h)
    <3>1. /\ pref[g].kind = "temp" /\ pref[o].kind \in {"temp", "const"} /\ g # o
          /\ pref' = [pref EXCEPT ![g] = pref[o], ![o] = TempHandle("temp")]
      BY <2>5 DEF set_value_temp_move
    <3> QED BY <3>1 DEF LinkInv, TempHandle
  <2>6. ASSUME NEW s \in SRegs,
               set_value_scratch(g, s) \/ set_value_scratch_temp(g, s) \/ into_scratch(g, s)
        PROVE UNCHANGED pref
    BY <2>6 DEF set_value_scratch, set_value_scratch_temp, into_scratch
  <2>7. ASSUME NEW r, set_value_reg(g, r) \/ set_value_reg_temp(g, r) PROVE UNCHANGED pref
    BY <2>7 DEF set_value_reg, set_value_reg_temp, handles
  <2>8. ASSUME NEW r, add_arg(g, r) PROVE SameRole(h)
    <3>1. pref' = [pref EXCEPT ![g] = NoHandle] /\ hreg' = [hreg EXCEPT ![g] = NoReg]
      BY <2>8 DEF add_arg
    <3> QED BY <1>5, <3>1
  <2>9. CASE call_reg(g) BY <1>5, <2>9 DEF call_reg
  <2>10. CASE ValuePart_reset(g) BY <1>5, <2>10 DEF ValuePart_reset
  <2> QED BY <1>1, <1>7, <2>1, <2>2, <2>3, <2>4, <2>5, <2>6, <2>7, <2>8, <2>9, <2>10 DEF PartStep
<1>8. ASSUME NEW s \in SRegs, ScratchStep(s) PROVE UNCHANGED pref
  BY <1>8 DEF ScratchStep, ScratchReg_alloc, ScratchReg_alloc_specific, ClaimTemp, ScratchReg_reset
<1>9. ASSUME CompilerStep PROVE SameRole(h)
  <2>1. CASE compile_func BY <2>1 DEF compile_func
  <2>2. ASSUME NEW v, init_variable_ref(v) \/ delayed_free(v) PROVE UNCHANGED pref
    BY <2>2 DEF init_variable_ref, delayed_free, handles
  <2>3. ASSUME NEW p, spill(p) \/ evict_reg(p) \/ release_spilled_regs(p) PROVE UNCHANGED pref
    BY <2>3 DEF spill, evict_reg, release_spilled_regs, FreeRegs, handles
  <2>4. ASSUME call_sym \/ ret PROVE UNCHANGED pref
    BY <2>4 DEF call_sym, ret, FreeRegs, handles
  <2> QED BY <1>1, <1>9, <2>1, <2>2, <2>3, <2>4 DEF CompilerStep
<1> QED BY <1>1, <1>3, <1>6, <1>7, <1>8, <1>9 DEF Next

\* A register that a handle keeps locked does not change hands in any step.
THEOREM LockedStaysAlways == Spec => LockedStays
<1> DEFINE Stays == \A h \in PRefs : LET r == hreg[h]
                                     IN  r # NoReg /\ hreg'[h] = r => own'[r] = own[r]
<1>1. ASSUME CoreInv, CoreInv', [Next]_vars PROVE Stays
  <2> SUFFICES ASSUME NEW h \in PRefs, hreg[h] # NoReg, hreg'[h] = hreg[h]
               PROVE own'[hreg[h]] = own[hreg[h]]
    OBVIOUS
  <2>1. SameRole(h) BY <1>1, RolesKept
  <2>2. \/ pref[h].kind = "val" /\ own[hreg[h]] = pref[h].part
        \/ pref[h].kind \in {"temp", "const"} /\ own[hreg[h]] = Temp
    BY <1>1, HeldReg
  <2>3. (hreg[h] # NoReg => \/ pref[h].kind = "val" /\ own[hreg[h]] = pref[h].part
                            \/ pref[h].kind \in {"temp", "const"} /\ own[hreg[h]] = Temp)'
    BY <1>1, HeldReg, PTL
  <2>4. \/ pref'[h].kind = "val" /\ own'[hreg[h]] = pref'[h].part
        \/ pref'[h].kind \in {"temp", "const"} /\ own'[hreg[h]] = Temp
    BY <2>3
  <2> QED BY <2>1, <2>2, <2>4 DEF SameRole
<1>2. (RefInv /\ CoreInv) /\ (RefInv /\ CoreInv)' /\ [Next]_vars => [Stays]_vars BY <1>1
<1> QED BY CoreInvAlways, <1>2, PTL DEF Spec, LockedStays
====
