------------------------------ MODULE RegAlloc ------------------------------
(***************************************************************************)
(* The value and register bookkeeping of TPDE's single-pass code           *)
(* generator: the register file, the value assignments, and the handles    *)
(* (ValueRef, ValuePart, ScratchReg, CallBuilder) through which an         *)
(* instruction compiler reads and defines values.                          *)
(*                                                                         *)
(* An instruction compiler may call the operations in any order the        *)
(* asserts of the code allow, so every operation is an action and the      *)
(* caller's obligations are its guards.  What the *generated* code does is *)
(* tracked next to the bookkeeping: regHas says what a register holds and  *)
(* memHas whether the spill slot of a part holds the part's value.         *)
(*                                                                         *)
(* The program keeps `used' and `assignments' (register file), and the     *)
(* register-valid bit and register number (part), as separate fields and   *)
(* never reads the second of a pair while the first is false.  Here        *)
(* own[r] = Free stands for an unused register and reg[p] = NoReg for a    *)
(* part whose register-valid bit is clear.                                 *)
(*                                                                         *)
(* An operator named Op_fault is a deliberately faulty variant of Op.  No  *)
(* action uses it: it stands for a plausible mistake in the code that Op   *)
(* models, to make sure that the properties notice it.                     *)
(***************************************************************************)
EXTENDS Naturals, FiniteSets

CONSTANTS
    Regs,          \* register numbers
    RegsPerBank,   \* size of a register bank
    Allocatable,   \* CCInfo::allocatable_regs
    CalleeSaved,   \* CCInfo::callee_saved_regs
    FixedMask,     \* fixed_assignment_nonallocatable_mask
    MayEmitCalls,  \* what cur_func_may_emit_calls says of the functions
    ArgRegs,       \* registers assign_arg may hand out
    RetRegs,       \* registers assign_ret may hand out
    Values,        \* local value indices with an ordinary assignment
    VarRefs,       \* local value indices that are variable references
    NumParts,      \* number of parts of every value
    BankOf,        \* register bank of every value
    NumFixed,      \* Derived::NUM_FIXED_ASSIGNMENTS, per bank
    MaxRefs,       \* bound on the reference count of a value
    VRefs,         \* ValueRef objects
    PRefs,         \* ValuePart objects
    SRegs,         \* ScratchReg objects
    NoReg, NoVal, NoPart,    \* invalid register, value, part
    Free, Temp, Arg, Junk    \* owners and contents of registers

VARIABLES
    \* register file
    own,        \* assignments[r] while r is used: a part, or Temp
    lock,       \* lock_counts
    clob,       \* clobbered, of which only the callee-saved ones matter
    alloc,      \* allocatable
    \* value assignments
    reg,        \* register of a part, NoReg unless register_valid
    dirty,      \* the IM bit: the register value is not on the stack
    fixed,      \* the FA bit: the part is a fixed assignment
    st,         \* "none" (nullptr), "live", "pending" (delayed free)
    refs,       \* references_left
    delay,      \* values with delay_free
    slot,       \* values with a spill slot (frame_off # 0)
    fixedCount, \* cur_fixed_assignment_count, per bank
    may_emit_calls, \* cur_func_may_emit_calls of this function
    \* handles
    vref,       \* ValueRef objects: value and mode
    pref,       \* ValuePart objects: state without the register
    hreg,       \* ValuePart objects: the register held (state.v.reg, state.c.reg)
    scratch,    \* register of a ScratchReg object
    args,       \* CallBuilder::arg_regs
    \* the generated code
    regHas,     \* contents of the registers
    memHas,     \* does the spill slot hold the part's value?
    def         \* has the generated code given the part a value: "no", "yes",
                \* or "gone" with the register that the value's owner gave up

file    == <<own, lock, clob, alloc>>
asgn    == <<reg, dirty, fixed>>
life    == <<st, refs, delay, fixedCount, may_emit_calls>>
handles == <<vref, pref, hreg, scratch>>
code    == <<regHas, def>>
memory  == <<slot, memHas>>
vars    == <<own, lock, clob, alloc, reg, dirty, fixed, st, refs, delay, slot,
             fixedCount, may_emit_calls, vref, pref, hreg, scratch, args, regHas, memHas, def>>

AllVals    == Values \cup VarRefs
PartsOf(v) == {v} \X (0 .. NumParts[v] - 1)
Parts      == UNION {PartsOf(v) : v \in AllVals}
Val(p)     == p[1]
IsVar(p)   == Val(p) \in VarRefs
reg_bank(r) == r \div RegsPerBank
InBank(r, p) == reg_bank(r) = BankOf[Val(p)]
Banks      == {reg_bank(r) : r \in Regs}

\* The alternatives of the anonymous state of a ValuePart.
NoHandle == [kind |-> "none", ref |-> NoVal, part |-> NoPart, owned |-> FALSE]
\* A temporary or constant owns the register it has, if it has one.
TempHandle(k) == [kind |-> k, ref |-> NoVal, part |-> NoPart, owned |-> TRUE]
Handles  == [kind : {"none", "val", "temp", "const"}, ref : VRefs \cup {NoVal},
             part : Parts \cup {NoPart}, owned : BOOLEAN]
Unused   == [val |-> NoVal, mode |-> 0]

ASSUME RegAssumption ==
    /\ Regs \subseteq Nat /\ IsFiniteSet(Regs)
    /\ RegsPerBank \in Nat \ {0}
    /\ Allocatable \subseteq Regs /\ CalleeSaved \subseteq Regs /\ FixedMask \subseteq Regs
    /\ ArgRegs \subseteq Allocatable \ CalleeSaved
    /\ RetRegs \subseteq Regs \ CalleeSaved
    /\ NoReg \notin Regs

ASSUME ValueAssumption ==
    /\ Values \cap VarRefs = {}
    /\ NumParts \in [AllVals -> Nat \ {0}]
    /\ \A v \in VarRefs : NumParts[v] = 1
    /\ BankOf \in [AllVals -> Banks]
    /\ NumFixed \in [Banks -> Nat]
    /\ MayEmitCalls \subseteq BOOLEAN
    /\ MaxRefs \in Nat \ {0}
    /\ NoVal \notin AllVals \cup VRefs
    /\ NoPart \notin Parts
    /\ {Free, Temp, Arg, Junk} \cap Parts = {}
    /\ Cardinality({Free, Temp, Arg, Junk}) = 4

ASSUME HandleAssumption ==
    /\ IsFiniteSet(PRefs) /\ IsFiniteSet(SRegs) /\ IsFiniteSet(VRefs)

Init ==
    /\ own = [r \in Regs |-> Free]
    /\ lock = [r \in Regs |-> 0]
    /\ clob = {}
    /\ alloc = Allocatable
    /\ reg = [p \in Parts |-> NoReg]
    /\ dirty = [p \in Parts |-> TRUE]
    /\ fixed = [p \in Parts |-> FALSE]
    /\ st = [v \in AllVals |-> "none"]
    /\ refs = [v \in AllVals |-> 0]
    /\ delay = {}
    /\ slot = {}
    /\ fixedCount = [b \in Banks |-> 0]
    /\ may_emit_calls \in MayEmitCalls
    /\ vref = [x \in VRefs |-> Unused]
    /\ pref = [h \in PRefs |-> NoHandle]
    /\ hreg = [h \in PRefs |-> NoReg]
    /\ scratch = [s \in SRegs |-> NoReg]
    /\ args = {}
    /\ regHas = [r \in Regs |-> Junk]
    /\ memHas = [p \in Parts |-> FALSE]
    /\ def = [p \in Parts |-> "no"]

----------------------------------------------------------------------------
\* mark_clobbered, as far as the prologue cares.
mark_clobbered_not(r) == clob
mark_clobbered(r) == clob \cup ({r} \cap CalleeSaved)

(***************************************************************************)
(* Eviction.  evict_reg spills the part in a register if its value is not  *)
(* on the stack (allocating the spill slot of the value on first use),     *)
(* clears the register-valid bit and releases the register.  The operators *)
(* give the state after the registers R have been evicted; an unused       *)
(* register in R is skipped, as by the callers.                            *)
(***************************************************************************)
Out(R)     == {p \in Parts : \E r \in R : own[r] = p}
Spilled(R) == {p \in Out(R) : dirty[p] /\ ~IsVar(p)}

RegAfter_kept(R) == reg
RegAfter(R)   == [p \in Parts |-> IF p \in Out(R) THEN NoReg ELSE reg[p]]
DirtyAfter(R) == [p \in Parts |-> dirty[p] /\ p \notin Spilled(R)]
MemAfter(R)   == [p \in Parts |-> IF p \in Spilled(R) THEN regHas[reg[p]] = p
                                                      ELSE memHas[p]]
SlotAfter(R)  == slot \cup {Val(p) : p \in Spilled(R)}

\* evict_reg asserts that the register is unlocked and belongs to a value.
Evictable_locked(r) == own[r] \in Parts
Evictable(r) == own[r] \in Parts /\ lock[r] = 0
\* A register the caller may claim with alloc_specific and the like.
Claimable(r) == own[r] = Free \/ Evictable(r)

(***************************************************************************)
(* select_reg: the lowest free allocatable register of the bank, else a    *)
(* victim of select_reg_evict: the first variable reference, otherwise any *)
(* unlocked register (the score that ranks them is not modelled).          *)
(***************************************************************************)
Lowest(r, S) == r \in S /\ \A q \in S : r <= q

\* find_first_free_excluding chooses from these.
FreeRegsOf_all(b, excl) == {q \in Regs \ excl : reg_bank(q) = b /\ own[q] = Free}
FreeRegsOf(b, excl) == {q \in alloc \ excl : reg_bank(q) = b /\ own[q] = Free}

select_reg(b, excl, r) ==
    LET free == FreeRegsOf(b, excl)
        cand == {q \in Regs \ excl : reg_bank(q) = b /\ Evictable(q)}
        vars_ == {q \in cand : IsVar(own[q])}
    IN  \/ Lowest(r, free)
        \/ free = {} /\ Lowest(r, vars_)
        \/ free = {} /\ vars_ = {} /\ r \in cand

Masks == {{}} \cup {{r} : r \in Regs}

\* What reading part p yields once R is evicted: its value, or something else.
ReadOK(p, R) == IF RegAfter(R)[p] # NoReg THEN regHas[reg[p]] = p
                                          ELSE IsVar(p) \/ MemAfter(R)[p]
\* reload_to_reg asserts that a part without a register is on the stack.
Readable(p) == def[p] = "yes" /\ (reg[p] # NoReg \/ ~dirty[p] \/ IsVar(p))

\* The registers after the generated code puts content c into register r.
Put(r, c) == [regHas EXCEPT ![r] = c]
\* The same when r is a new value of part p: other copies become outdated.
\* A copy taken from a place that did not hold its value (~ok) yields junk.
Define(r, p, ok) ==
    [q \in Regs |-> IF q = r THEN (IF ok THEN p ELSE Junk)
                    ELSE IF regHas[q] = p THEN Junk ELSE regHas[q]]
\* The spill slot, if there is one, still holds the old value.
Outdate(p, mem) == [mem EXCEPT ![p] = FALSE]
\* The parts P lose their registers; the values not on the stack are gone.
DefAfter(P) == [p \in Parts |-> IF p \in P /\ def[p] = "yes" /\ dirty[p]
                                THEN "gone" ELSE def[p]]

\* A register that is neither used nor an argument may be overwritten at any
\* time, so its content f[r] counts for nothing.
Settle(f) == [r \in Regs |-> IF own'[r] = Free /\ r \notin args' THEN Junk ELSE f[r]]

(***************************************************************************)
(* ValueRef.  A counted reference (mode 1, or 2 if it owns the value       *)
(* because it is the last one) takes one of the references the analyzer    *)
(* counted, so there are never more of them than references_left.          *)
(***************************************************************************)
RefsTo(v)     == {x \in VRefs : vref[x].val = v}
Counted(v)    == {x \in RefsTo(v) : vref[x].mode # 0}
HandlesTo(v)  == {h \in PRefs : pref[h].kind = "val" /\ Val(pref[h].part) = v}
Mode_early(n, d) == IF n <= 2 /\ ~d THEN 2 ELSE 1
Mode_undelayed(n, d) == IF n <= 1 THEN 2 ELSE 1
Mode(n, d)    == IF n <= 1 /\ ~d THEN 2 ELSE 1

\* init_assignment without a fixed register; the value gets n references.
InitAssignment(v, n, d) ==
    /\ st' = [st EXCEPT ![v] = "live"]
    /\ refs' = [refs EXCEPT ![v] = n]
    /\ delay' = IF d THEN delay \cup {v} ELSE delay \ {v}

result_ref(x, v, n, d) ==
    /\ vref[x].val = NoVal
    /\ st[v] = "none"
    /\ InitAssignment(v, n, d)
    /\ vref' = [vref EXCEPT ![x] = [val |-> v, mode |-> Mode(n, d)]]
    /\ UNCHANGED <<file, asgn, memory, fixedCount, may_emit_calls, pref, hreg, scratch, args,
                   code>>

\* Is there room for another fixed assignment in the bank?
FixedRoom_one_more(b) == fixedCount[b] <= NumFixed[b]
FixedRoom(b) == fixedCount[b] < NumFixed[b]

\* select_fixed_assignment_reg takes the lowest of these unused registers: in a
\* function that makes calls callee-saved ones, which survive them, in others
\* preferably the rest, which need not be saved.
FixedCandidates(b) ==
    LET unused(S) == {q \in (alloc \cap S) \ FixedMask : reg_bank(q) = b /\ own[q] = Free}
        others == unused(Regs \ CalleeSaved)
    IN  IF may_emit_calls \/ others = {} THEN unused(CalleeSaved) ELSE others

\* The same if init_assignment hands out a fixed register.
result_ref_fixed(x, v, n, d) ==
    LET p == <<v, 0>>
        b == BankOf[v]
        cand == FixedCandidates(b)
    IN  /\ vref[x].val = NoVal
        /\ st[v] = "none"
        /\ NumParts[v] = 1
        /\ FixedRoom(b)
        /\ \E r \in cand :
             /\ Lowest(r, cand)
             /\ own' = [own EXCEPT ![r] = p]
             /\ lock' = [lock EXCEPT ![r] = 1]
             /\ clob' = mark_clobbered(r)
             /\ reg' = [reg EXCEPT ![p] = r]
             /\ regHas' = Put(r, Junk)
        /\ fixed' = [fixed EXCEPT ![p] = TRUE]
        /\ fixedCount' = [fixedCount EXCEPT ![b] = @ + 1]
        /\ InitAssignment(v, n, d)
        /\ vref' = [vref EXCEPT ![x] = [val |-> v, mode |-> Mode(n, d)]]
        /\ UNCHANGED <<alloc, dirty, memory, may_emit_calls, pref, hreg, scratch, args, def>>

val_ref(x, v) ==
    /\ vref[x].val = NoVal
    /\ st[v] = "live"
    /\ v \in Values => Cardinality(Counted(v)) < refs[v]
    /\ vref' = [vref EXCEPT ![x] =
                  [val |-> v, mode |-> IF v \in VarRefs THEN 0
                                       ELSE Mode(refs[v], v \in delay)]]
    /\ UNCHANGED <<file, asgn, life, memory, pref, hreg, scratch, args, code>>

disowned(x, y) ==
    /\ vref[x].val = NoVal
    /\ vref[y].val # NoVal
    /\ vref' = [vref EXCEPT ![x] = [val |-> vref[y].val, mode |-> 0]]
    /\ UNCHANGED <<file, asgn, life, memory, pref, hreg, scratch, args, code>>

\* part() and, with unowned, part_unowned().
part(h, x, p, unowned) ==
    /\ pref[h].kind = "none"
    /\ vref[x].val = Val(p)
    /\ pref' = [pref EXCEPT ![h] =
                  [kind |-> "val", ref |-> x, part |-> p,
                   owned |-> ~unowned /\ vref[x].mode = 2]]
    /\ UNCHANGED <<file, asgn, life, memory, vref, hreg, scratch, args, code>>

init_variable_ref(v) ==
    /\ st[v] = "none"
    /\ st' = [st EXCEPT ![v] = "live"]
    /\ def' = [p \in Parts |-> IF p \in PartsOf(v) THEN "yes" ELSE def[p]]
    /\ UNCHANGED <<file, asgn, memory, refs, delay, fixedCount, may_emit_calls, handles,
                   args, regHas>>

(***************************************************************************)
(* free_assignment releases the registers of all parts (the lock of a      *)
(* fixed assignment with it) and the spill slot.                           *)
(***************************************************************************)
FreeAssignment(v) ==
    LET ps == PartsOf(v)
        rs == {r \in Regs : \E p \in ps : reg[p] = r}
    IN  /\ own' = [r \in Regs |-> IF r \in rs THEN Free ELSE own[r]]
        /\ lock' = [r \in Regs |-> IF r \in rs THEN 0 ELSE lock[r]]
        /\ reg' = [p \in Parts |-> IF p \in ps THEN NoReg ELSE reg[p]]
        /\ dirty' = [p \in Parts |-> p \in ps \/ dirty[p]]
        /\ fixed' = [p \in Parts |-> p \notin ps /\ fixed[p]]
        /\ fixedCount' = IF \E p \in ps : fixed[p]
                         THEN [fixedCount EXCEPT ![BankOf[v]] = @ - 1]
                         ELSE fixedCount
        /\ st' = [st EXCEPT ![v] = "none"]
        /\ delay' = delay \ {v}
        /\ slot' = slot \ {v}
        /\ memHas' = [p \in Parts |-> p \notin ps /\ memHas[p]]
        /\ def' = [p \in Parts |-> IF p \in ps THEN "no" ELSE def[p]]
        /\ args' = args
        /\ regHas' = Settle(regHas)

\* ValueRef::reset and its destructor.  Parts do not outlive their ValueRef,
\* and nothing refers to a value whose last counted reference goes away.
ValueRef_reset(x) ==
    LET v == vref[x].val
        last == vref[x].mode # 0 /\ refs[v] = 1
    IN  /\ v # NoVal
        /\ \A h \in PRefs : pref[h].ref # x
        /\ vref' = [vref EXCEPT ![x] = Unused]
        /\ IF vref[x].mode # 0 THEN refs' = [refs EXCEPT ![v] = @ - 1]
                               ELSE UNCHANGED refs
        /\ last => RefsTo(v) = {x}
        /\ \/ last /\ v \notin delay /\ FreeAssignment(v) /\ UNCHANGED <<clob, alloc>>
           \/ /\ last /\ v \in delay
              /\ st' = [st EXCEPT ![v] = "pending"]
              /\ UNCHANGED <<file, asgn, memory, delay, fixedCount, code, args>>
           \/ /\ ~last
              /\ UNCHANGED <<file, asgn, memory, st, delay, fixedCount, code, args>>
        /\ UNCHANGED <<may_emit_calls, pref, hreg, scratch>>

\* The end of compile_block frees what was released with delay_free.
NoHandles == /\ \A x \in VRefs : vref[x].val = NoVal
             /\ \A h \in PRefs : pref[h].kind = "none"
             /\ \A s \in SRegs : scratch[s] = NoReg
Idle == NoHandles /\ args = {}

delayed_free(v) ==
    /\ Idle
    /\ st[v] = "pending"
    /\ FreeAssignment(v)
    /\ UNCHANGED <<clob, alloc, refs, may_emit_calls, handles>>

----------------------------------------------------------------------------
(***************************************************************************)
(* ValuePart.  lock/unlock count the handles that rely on a register.      *)
(***************************************************************************)
can_salvage(h) ==
    /\ pref[h].owned
    /\ IF pref[h].kind = "val" THEN reg[pref[h].part] # NoReg
                               ELSE hreg[h] # NoReg
RegOf(h) == IF pref[h].kind = "val" THEN reg[pref[h].part] ELSE hreg[h]

\* salvage and the reset of an owned part assert that the register has no
\* locks but the handle's own and the one of a fixed assignment.
SoleLocker(h) ==
    pref[h].kind = "val" =>
        lock[reg[pref[h].part]] = (IF hreg[h] # NoReg THEN 1 ELSE 0)
                                + (IF fixed[pref[h].part] THEN 1 ELSE 0)

\* evict_reg(r) if r is used, mark_used(r, o), mark_clobbered(r), then n locks.
Claim(r, o, n) ==
    /\ own' = [own EXCEPT ![r] = o]
    /\ lock' = [lock EXCEPT ![r] = n]
    /\ clob' = mark_clobbered(r)
    /\ memHas' = MemAfter({r})
    /\ slot' = SlotAfter({r})
    /\ UNCHANGED alloc

\* lock(), and alloc_reg, load_to_reg or alloc_specific of the register that
\* the part already has.
Lock(h) ==
    LET p == pref[h].part
    IN  /\ pref[h].kind = "val" /\ hreg[h] = NoReg /\ reg[p] # NoReg
        /\ lock' = [lock EXCEPT ![reg[p]] = @ + 1]
        /\ hreg' = [hreg EXCEPT ![h] = reg[p]]
        /\ UNCHANGED <<own, clob, alloc, asgn, life, memory, vref, pref, scratch,
                       args, code>>

Unlock(h) ==
    /\ pref[h].kind = "val" /\ hreg[h] # NoReg
    /\ lock' = [lock EXCEPT ![hreg[h]] = @ - 1]
    /\ hreg' = [hreg EXCEPT ![h] = NoReg]
    /\ UNCHANGED <<own, clob, alloc, asgn, life, memory, vref, pref, scratch, args,
                   code>>

\* alloc_reg for a part that has no value yet.
alloc_reg(h) ==
    LET p == pref[h].part
    IN  /\ pref[h].kind = "val" /\ hreg[h] = NoReg
        /\ reg[p] = NoReg /\ dirty[p] /\ ~IsVar(p)
        /\ \E excl \in Masks, r \in Regs :
             /\ select_reg(BankOf[Val(p)], excl, r)
             /\ Claim(r, p, 1)
             /\ reg' = [RegAfter({r}) EXCEPT ![p] = r]
             /\ dirty' = DirtyAfter({r})
             /\ hreg' = [hreg EXCEPT ![h] = r]
             /\ regHas' = Put(r, Junk)
        /\ UNCHANGED <<fixed, life, vref, pref, scratch, args, def>>

load_to_reg(h) ==
    LET p == pref[h].part
    IN  /\ pref[h].kind = "val" /\ hreg[h] = NoReg
        /\ reg[p] = NoReg /\ Readable(p)
        /\ \E r \in Regs :
             /\ select_reg(BankOf[Val(p)], {}, r)
             /\ Claim(r, p, 1)
             /\ reg' = [RegAfter({r}) EXCEPT ![p] = r]
             /\ dirty' = DirtyAfter({r})
             /\ hreg' = [hreg EXCEPT ![h] = r]
             /\ regHas' = Put(r, IF ReadOK(p, {r}) THEN p ELSE Junk)
        /\ UNCHANGED <<fixed, life, vref, pref, scratch, args, def>>

\* alloc_specific, which callers use for a part that has no register: the code
\* would leave another one marked as used by the part.
alloc_specific(h, r) ==
    LET p == pref[h].part
    IN  /\ pref[h].kind = "val" /\ hreg[h] = NoReg
        /\ InBank(r, p) /\ Claimable(r) /\ r \notin args
        /\ dirty[p] /\ ~fixed[p] /\ ~IsVar(p)
        /\ reg[p] = NoReg
        /\ Claim(r, p, 1)
        /\ reg' = [RegAfter({r}) EXCEPT ![p] = r]
        /\ dirty' = DirtyAfter({r})
        /\ hreg' = [hreg EXCEPT ![h] = r]
        /\ regHas' = Put(r, Junk)
        /\ UNCHANGED <<fixed, life, vref, pref, scratch, args, def>>

load_to_specific(h, r) ==
    LET p == pref[h].part
        old == reg[p]
    IN  /\ pref[h].kind = "val" /\ hreg[h] = NoReg
        /\ InBank(r, p) /\ Claimable(r) /\ r \notin args
        /\ Readable(p) /\ old # r /\ ~fixed[p]
        /\ old # NoReg => lock[old] = 0
        /\ own' = [q \in Regs |-> IF q = r THEN p
                                  ELSE IF q = old THEN Free ELSE own[q]]
        /\ lock' = [lock EXCEPT ![r] = 1]
        /\ clob' = mark_clobbered(r)
        /\ memHas' = MemAfter({r})
        /\ slot' = SlotAfter({r})
        /\ reg' = [RegAfter({r}) EXCEPT ![p] = r]
        /\ dirty' = DirtyAfter({r})
        /\ hreg' = [hreg EXCEPT ![h] = r]
        /\ UNCHANGED <<alloc, fixed, life, vref, pref, scratch, args, def>>
        /\ regHas' = Settle(Put(r, IF ReadOK(p, {r}) THEN p ELSE Junk))

\* The instruction's code writes the register, then set_modified().
WriteResult_unmodified(h) ==
    LET p == pref[h].part
    IN  /\ pref[h].kind = "val" /\ hreg[h] # NoReg /\ ~IsVar(p)
        /\ regHas' = Define(hreg[h], p, TRUE)
        /\ memHas' = Outdate(p, memHas)
        /\ def' = [def EXCEPT ![p] = "yes"]
        /\ UNCHANGED <<file, asgn, life, slot, handles, args>>

WriteResult(h) ==
    LET p == pref[h].part
    IN  /\ pref[h].kind = "val" /\ hreg[h] # NoReg /\ ~IsVar(p)
        /\ regHas' = Define(hreg[h], p, TRUE)
        /\ memHas' = Outdate(p, memHas)
        /\ dirty' = [dirty EXCEPT ![p] = TRUE]
        /\ def' = [def EXCEPT ![p] = "yes"]
        /\ UNCHANGED <<file, reg, fixed, life, slot, handles, args>>

\* A temporary (or constant) without an assignment.
temporary(h, k) ==
    /\ pref[h].kind = "none"
    /\ pref' = [pref EXCEPT ![h] = TempHandle(k)]
    /\ UNCHANGED <<file, asgn, life, memory, vref, hreg, scratch, args, code>>

\* The register r becomes a temporary's, its content written by the caller.
ClaimTemp(r) ==
    /\ Claim(r, Temp, 1)
    /\ reg' = RegAfter({r})
    /\ dirty' = DirtyAfter({r})
    /\ regHas' = Put(r, Temp)
    /\ UNCHANGED <<fixed, life, vref, pref, args, def>>

\* alloc_reg and load_to_reg of a temporary or constant.
alloc_temp(h, r) ==
    /\ pref[h].kind \in {"temp", "const"} /\ hreg[h] = NoReg
    /\ select_reg(reg_bank(r), {}, r)
    /\ ClaimTemp(r)
    /\ hreg' = [hreg EXCEPT ![h] = r]
    /\ UNCHANGED scratch

\* alloc_specific and load_to_specific of a temporary or constant.
alloc_temp_specific(h, r) ==
    /\ pref[h].kind \in {"temp", "const"} /\ hreg[h] = NoReg
    /\ Claimable(r) /\ r \notin args
    /\ ClaimTemp(r)
    /\ hreg' = [hreg EXCEPT ![h] = r]
    /\ UNCHANGED scratch

\* reset() and the destructor: an owned part gives up its register (and its
\* fixed assignment, leaving cur_fixed_assignment_count as it is), an unowned
\* one its lock.
Dropped(h) == IF pref[h].owned /\ hreg[h] # NoReg THEN {hreg[h]} ELSE {}
OwnReset(h)  == [r \in Regs |-> IF r \in Dropped(h) THEN Free ELSE own[r]]
LockReset_kept(h) == [r \in Regs |-> IF r \in Dropped(h) THEN 0 ELSE lock[r]]
LockReset(h) == [r \in Regs |-> IF r \in Dropped(h) THEN 0
                                ELSE IF pref[h].kind = "val" /\ hreg[h] = r
                                     THEN lock[r] - 1 ELSE lock[r]]
GivesUp(h, p) == pref[h].kind = "val" /\ Dropped(h) # {} /\ p = pref[h].part
ResetOK(h)   == Dropped(h) # {} => SoleLocker(h)

ValuePart_reset(h) ==
    /\ pref[h].kind # "none"
    /\ ResetOK(h)
    /\ own' = OwnReset(h)
    /\ lock' = LockReset(h)
    /\ reg' = [p \in Parts |-> IF GivesUp(h, p) THEN NoReg ELSE reg[p]]
    /\ fixed' = [p \in Parts |-> fixed[p] /\ ~GivesUp(h, p)]
    /\ def' = DefAfter({p \in Parts : GivesUp(h, p)})
    /\ pref' = [pref EXCEPT ![h] = NoHandle]
    /\ hreg' = [hreg EXCEPT ![h] = NoReg]
    /\ UNCHANGED <<clob, alloc, dirty, life, memory, vref, scratch, args>>
    /\ regHas' = Settle(regHas)

----------------------------------------------------------------------------
(***************************************************************************)
(* ScratchReg.                                                             *)
(***************************************************************************)
ScratchReg_alloc(s, r) ==
    /\ scratch[s] = NoReg
    /\ select_reg(reg_bank(r), {}, r)
    /\ ClaimTemp(r)
    /\ scratch' = [scratch EXCEPT ![s] = r]
    /\ UNCHANGED hreg

ScratchReg_alloc_specific(s, r) ==
    /\ scratch[s] = NoReg
    /\ Claimable(r) /\ r \notin args
    /\ ClaimTemp(r)
    /\ scratch' = [scratch EXCEPT ![s] = r]
    /\ UNCHANGED hreg

ScratchReg_reset(s) ==
    /\ scratch[s] # NoReg
    /\ own' = [own EXCEPT ![scratch[s]] = Free]
    /\ lock' = [lock EXCEPT ![scratch[s]] = 0]
    /\ scratch' = [scratch EXCEPT ![s] = NoReg]
    /\ UNCHANGED <<clob, alloc, asgn, life, memory, vref, pref, hreg, args, def>>
    /\ regHas' = Settle(regHas)

----------------------------------------------------------------------------
(***************************************************************************)
(* set_value(ValuePart&&).  A source is read from its register, its spill  *)
(* slot or (a constant) materialized; a salvaged one gives its register.   *)
(***************************************************************************)
Source(o) == \/ pref[o].kind = "val" /\ Readable(pref[o].part)
             \/ pref[o].kind = "temp" /\ hreg[o] # NoReg
             \/ pref[o].kind = "const"
SourceOK(o, R) == \/ pref[o].kind = "val" /\ ReadOK(pref[o].part, R)
                  \/ pref[o].kind # "val" /\ hreg[o] # NoReg
                     /\ regHas[hreg[o]] = Temp
                  \/ pref[o].kind = "const" /\ hreg[o] = NoReg
Salvageable(o) == can_salvage(o) /\ SoleLocker(o) /\ Source(o)
SalvageOK(o) == regHas[RegOf(o)] = IF pref[o].kind = "val" THEN pref[o].part
                                                           ELSE Temp
\* The part, if any, that salvaging o leaves without a register.
Lost(o, p) == pref[o].kind = "val" /\ p = pref[o].part

\* A temporary takes over another temporary or constant.
set_value_temp_move(h, o) ==
    /\ h # o /\ pref[h].kind = "temp" /\ pref[o].kind \in {"temp", "const"}
    /\ own' = OwnReset(h)
    /\ lock' = LockReset(h)
    /\ pref' = [pref EXCEPT ![h] = pref[o], ![o] = TempHandle("temp")]
    /\ hreg' = [hreg EXCEPT ![h] = hreg[o], ![o] = NoReg]
    /\ UNCHANGED <<clob, alloc, asgn, life, memory, vref, scratch, args, def>>
    /\ regHas' = Settle(regHas)

\* A temporary copies a value it cannot take the register of.
set_value_temp_copy(h, o) ==
    /\ pref[h].kind = "temp" /\ hreg[h] = NoReg
    /\ pref[o].kind = "val" /\ Source(o) /\ ~can_salvage(o)
    /\ \E r \in Regs :
         /\ select_reg(BankOf[Val(pref[o].part)], {}, r)
         /\ own' = [own EXCEPT ![r] = Temp]
         /\ lock' = [LockReset(o) EXCEPT ![r] = 1]
         /\ clob' = mark_clobbered(r)
         /\ memHas' = MemAfter({r})
         /\ slot' = SlotAfter({r})
         /\ reg' = RegAfter({r})
         /\ dirty' = DirtyAfter({r})
         /\ regHas' = Put(r, IF SourceOK(o, {r}) THEN Temp ELSE Junk)
         /\ hreg' = [hreg EXCEPT ![h] = r, ![o] = NoReg]
    /\ UNCHANGED <<alloc, fixed, life, vref, pref, scratch, args, def>>

\* A temporary salvages the register of a value in its last use.
set_value_temp_salvage(h, o) ==
    LET r == RegOf(o)
    IN  /\ pref[h].kind = "temp"
        /\ pref[o].kind = "val" /\ Salvageable(o)
        /\ own' = [OwnReset(h) EXCEPT ![r] = Temp]
        /\ lock' = [LockReset(h) EXCEPT ![r] = 1]
        /\ reg' = [reg EXCEPT ![pref[o].part] = NoReg]
        /\ fixed' = [fixed EXCEPT ![pref[o].part] = FALSE]
        /\ hreg' = [hreg EXCEPT ![h] = r, ![o] = NoReg]
        /\ def' = DefAfter({pref[o].part})
        /\ UNCHANGED <<clob, alloc, dirty, life, memory, vref, pref, scratch, args>>
        /\ regHas' = Settle(Put(r, IF SalvageOK(o) THEN Temp ELSE Junk))

\* A value copies: alloc_reg, reload_into_specific_fixed, other.reset, unlock.
set_value_copy(h, o) ==
    LET p == pref[h].part
        b == BankOf[Val(p)]
    IN  /\ h # o /\ pref[h].kind = "val" /\ hreg[h] = NoReg /\ ~IsVar(p)
        /\ Source(o) /\ (fixed[p] \/ ~can_salvage(o)) /\ ResetOK(o)
        /\ pref[o].kind = "val" => pref[o].part # p /\ BankOf[Val(pref[o].part)] = b
        /\ reg[p] = NoReg => dirty[p]
        /\ \E r \in Regs :
             LET R == IF reg[p] = NoReg THEN {r} ELSE {}
             IN  /\ IF reg[p] = NoReg THEN select_reg(b, {}, r) ELSE r = reg[p]
                 /\ own' = [OwnReset(o) EXCEPT ![r] = p]
                 /\ lock' = [q \in Regs |-> IF q \in R THEN 0 ELSE LockReset(o)[q]]
                 /\ clob' = mark_clobbered(r)
                 /\ memHas' = Outdate(p, MemAfter(R))
                 /\ slot' = SlotAfter(R)
                 /\ reg' = [q \in Parts |-> IF q = p THEN r
                                            ELSE IF GivesUp(o, q) THEN NoReg
                                            ELSE RegAfter(R)[q]]
                 /\ fixed' = [q \in Parts |-> fixed[q] /\ ~GivesUp(o, q)]
                 /\ dirty' = [DirtyAfter(R) EXCEPT ![p] = TRUE]
                 /\ args' = args
                 /\ regHas' = Settle(Define(r, p, SourceOK(o, R)))
        /\ hreg' = [hreg EXCEPT ![o] = NoReg]
        /\ def' = [DefAfter({q \in Parts : GivesUp(o, q)}) EXCEPT ![p] = "yes"]
        /\ UNCHANGED <<alloc, life, vref, pref, scratch>>

\* A value takes the register of the source; alloc_try_reuse then locks it.
set_value_salvage(h, o, reuse) ==
    LET p == pref[h].part
        r == RegOf(o)
    IN  /\ h # o /\ pref[h].kind = "val" /\ ~fixed[p] /\ ~IsVar(p)
        /\ Salvageable(o) /\ ~Lost(o, p) /\ InBank(r, p)
        /\ reg[p] # NoReg => SoleLocker(h)
        /\ reuse => hreg[h] = NoReg /\ reg[p] = NoReg /\ hreg[o] # NoReg
        /\ own' = [q \in Regs |-> IF q = r THEN p
                                  ELSE IF q = reg[p] THEN Free ELSE own[q]]
        /\ lock' = [q \in Regs |-> IF q = r THEN (IF reuse THEN 1 ELSE 0)
                                   ELSE IF q = reg[p] THEN 0 ELSE lock[q]]
        /\ reg' = [q \in Parts |-> IF q = p THEN r
                                   ELSE IF Lost(o, q) THEN NoReg ELSE reg[q]]
        /\ fixed' = [q \in Parts |-> fixed[q] /\ ~Lost(o, q)]
        /\ dirty' = [dirty EXCEPT ![p] = TRUE]
        /\ memHas' = Outdate(p, memHas)
        /\ def' = [DefAfter({q \in Parts : Lost(o, q)}) EXCEPT ![p] = "yes"]
        /\ hreg' = [hreg EXCEPT ![h] = IF reuse THEN r ELSE NoReg,
                                ![o] = NoReg]
        /\ UNCHANGED <<clob, alloc, life, slot, vref, pref, scratch, args>>
        /\ regHas' = Settle(Define(r, p, SalvageOK(o)))

----------------------------------------------------------------------------
(***************************************************************************)
(* set_value(ScratchReg&&), set_value_reg, into_scratch.                   *)
(***************************************************************************)
\* The register r, until now the caller's, becomes part p's.
Adopt(r, p, ok) ==
    /\ own' = [own EXCEPT ![r] = p]
    /\ lock' = [lock EXCEPT ![r] = 0]
    /\ reg' = [reg EXCEPT ![p] = r]
    /\ regHas' = Define(r, p, ok)
    /\ def' = [def EXCEPT ![p] = "yes"]
    /\ memHas' = Outdate(p, memHas)

set_value_scratch_temp(h, s) ==
    /\ pref[h].kind = "temp" /\ hreg[h] = NoReg /\ scratch[s] # NoReg
    /\ hreg' = [hreg EXCEPT ![h] = scratch[s]]
    /\ scratch' = [scratch EXCEPT ![s] = NoReg]
    /\ UNCHANGED <<file, asgn, life, memory, vref, pref, args, code>>

set_value_scratch(h, s) ==
    LET p == pref[h].part
        r == scratch[s]
    IN  /\ pref[h].kind = "val" /\ hreg[h] = NoReg /\ r # NoReg
        /\ InBank(r, p) /\ ~IsVar(p) /\ dirty[p]
        /\ \/ /\ fixed[p]
              /\ own' = [own EXCEPT ![r] = Free]
              /\ lock' = [lock EXCEPT ![r] = 0]
              /\ args' = args
              /\ regHas' = Settle(Define(reg[p], p, regHas[r] = Temp))
              /\ memHas' = Outdate(p, memHas)
              /\ def' = [def EXCEPT ![p] = "yes"]
              /\ UNCHANGED reg
           \/ reg[p] = NoReg /\ Adopt(r, p, regHas[r] = Temp) /\ args' = args
        /\ scratch' = [scratch EXCEPT ![s] = NoReg]
        /\ UNCHANGED <<clob, alloc, dirty, fixed, life, slot, vref, pref, hreg>>

\* r holds a call's result or an argument of the function.
set_value_reg_temp(h, r) ==
    /\ pref[h].kind = "temp" /\ hreg[h] = NoReg /\ own[r] = Free
    /\ r \notin args
    /\ own' = [own EXCEPT ![r] = Temp]
    /\ lock' = [lock EXCEPT ![r] = 1]
    /\ regHas' = Put(r, Temp)
    /\ hreg' = [hreg EXCEPT ![h] = r]
    /\ UNCHANGED <<clob, alloc, asgn, life, memory, vref, pref, scratch, args, def>>

set_value_reg(h, r) ==
    LET p == pref[h].part
    IN  /\ pref[h].kind = "val" /\ hreg[h] = NoReg /\ own[r] = Free
        /\ r \notin args /\ InBank(r, p) /\ ~IsVar(p)
        /\ \/ /\ fixed[p]
              /\ regHas' = Define(reg[p], p, TRUE)
              /\ memHas' = Outdate(p, memHas)
              /\ def' = [def EXCEPT ![p] = "yes"]
              /\ UNCHANGED <<own, lock, clob, reg>>
           \/ reg[p] = NoReg /\ dirty[p] /\ Adopt(r, p, TRUE) /\ clob' = mark_clobbered(r)
        /\ dirty' = [dirty EXCEPT ![p] = TRUE]
        /\ UNCHANGED <<alloc, fixed, life, slot, handles, args>>

into_scratch(h, s) ==
    /\ scratch[s] = NoReg /\ pref[h].kind # "none" /\ Source(h)
    /\ \/ /\ Salvageable(h)
          /\ LET r == RegOf(h)
             IN  /\ own' = [own EXCEPT ![r] = Temp]
                 /\ lock' = [lock EXCEPT ![r] = 1]
                 /\ clob' = mark_clobbered(r)
                 /\ reg' = [p \in Parts |-> IF Lost(h, p) THEN NoReg ELSE reg[p]]
                 /\ fixed' = [p \in Parts |-> fixed[p] /\ ~Lost(h, p)]
                 /\ regHas' = Put(r, IF SalvageOK(h) THEN Temp ELSE Junk)
                 /\ scratch' = [scratch EXCEPT ![s] = r]
                 /\ hreg' = [hreg EXCEPT ![h] = NoReg]
                 /\ def' = DefAfter({p \in Parts : Lost(h, p)})
          /\ UNCHANGED <<alloc, dirty, life, memory, vref, pref, args>>
       \/ /\ ~can_salvage(h) /\ pref[h].kind = "val"
          /\ \E r \in Regs :
               /\ select_reg(BankOf[Val(pref[h].part)], {}, r)
               /\ Claim(r, Temp, 1)
               /\ reg' = RegAfter({r})
               /\ dirty' = DirtyAfter({r})
               /\ regHas' = Put(r, IF SourceOK(h, {r}) THEN Temp ELSE Junk)
               /\ scratch' = [scratch EXCEPT ![s] = r]
          /\ UNCHANGED <<fixed, life, vref, pref, hreg, args, def>>

----------------------------------------------------------------------------
(***************************************************************************)
(* CallBuilder (and RetBuilder::add, which treats the return registers the *)
(* same way).  An argument register is vacated, filled, and kept out of    *)
(* `allocatable' until the call; it is not `used' meanwhile.               *)
(***************************************************************************)
is_in_reg(h, r) == hreg[h] = r \/ (pref[h].kind = "val" /\ reg[pref[h].part] = r)

add_arg(h, r) ==
    LET salv == can_salvage(h)
        src  == RegOf(h)
        R    == IF salv /\ src = r THEN {} ELSE {r}
        ok   == IF salv THEN SalvageOK(h)
                ELSE IF is_in_reg(h, r) THEN regHas[r] = pref[h].part
                ELSE SourceOK(h, R)
    IN  /\ pref[h].kind # "none" /\ Source(h) /\ r \notin args
        /\ pref[h].kind = "val" => InBank(r, pref[h].part)
        /\ salv => SoleLocker(h)
        /\ \A q \in R : Claimable(q)
        /\ own' = [q \in Regs |-> IF q = r \/ (salv /\ q = src) THEN Free ELSE own[q]]
        /\ lock' = IF salv THEN [lock EXCEPT ![src] = 0] ELSE LockReset(h)
        /\ clob' = mark_clobbered(r)
        /\ alloc' = alloc \ {r}
        /\ args' = args \cup {r}
        /\ memHas' = MemAfter(R)
        /\ slot' = SlotAfter(R)
        /\ dirty' = DirtyAfter(R)
        /\ reg' = [p \in Parts |-> IF salv /\ Lost(h, p) THEN NoReg
                                                         ELSE RegAfter(R)[p]]
        /\ fixed' = [p \in Parts |-> fixed[p] /\ ~(salv /\ Lost(h, p))]
        /\ regHas' = Settle(Put(r, IF ok THEN Arg ELSE Junk))
        /\ pref' = [pref EXCEPT ![h] = NoHandle]
        /\ hreg' = [hreg EXCEPT ![h] = NoReg]
        /\ def' = DefAfter({p \in Parts : salv /\ Lost(h, p)})
        /\ UNCHANGED <<life, vref, scratch>>

\* The registers a call to any function may overwrite.
CallClobbered == Regs \ CalleeSaved

\* call() evicts what the callee may overwrite, except the registers in skip.
CallEvicted_unlocked(skip) == {r \in CallClobbered \ skip : Evictable(r)}
CallEvicted(skip) == {r \in CallClobbered \ skip : own[r] # Free}

\* drop is the register of a salvaged call target, freed after the call, and
\* P the parts that lose their register with it.
CallEffect(skip, drop, P) ==
    LET R == CallEvicted(skip)
    IN  /\ may_emit_calls
        /\ \A r \in R : Evictable(r)
        /\ own' = [r \in Regs |-> IF r \in R \cup drop THEN Free ELSE own[r]]
        /\ UNCHANGED clob
        /\ alloc' = alloc \cup args
        /\ args' = {}
        /\ memHas' = MemAfter(R)
        /\ slot' = SlotAfter(R)
        /\ dirty' = DirtyAfter(R)
        /\ reg' = [p \in Parts |-> IF p \in P THEN NoReg ELSE RegAfter(R)[p]]
        /\ fixed' = [p \in Parts |-> fixed[p] /\ p \notin P]
        /\ regHas' = Settle([r \in Regs |-> IF r \in CallClobbered THEN Junk
                                            ELSE regHas[r]])
        /\ def' = DefAfter(P)
        /\ UNCHANGED <<life, vref, scratch>>

call_sym ==
    /\ CallEffect(args, {}, {})
    /\ UNCHANGED <<lock, pref, hreg>>

\* An indirect call: the target is salvaged or read where it is after the
\* evictions, and its handle reset.
call_reg(h) ==
    LET salv == can_salvage(h)
        src  == RegOf(h)
    IN  /\ pref[h].kind # "none" /\ Source(h)
        /\ salv => SoleLocker(h)
        /\ IF salv THEN CallEffect(args \cup {src}, {src},
                                   {p \in Parts : Lost(h, p)})
                   ELSE CallEffect(args, {}, {})
        /\ lock' = IF salv THEN [lock EXCEPT ![src] = 0] ELSE LockReset(h)
        /\ pref' = [pref EXCEPT ![h] = NoHandle]
        /\ hreg' = [hreg EXCEPT ![h] = NoReg]

----------------------------------------------------------------------------
(***************************************************************************)
(* spill, evict_reg and free_reg called directly, release_regs_after_return*)
(* (with the return registers allocatable again), and a new function.      *)
(***************************************************************************)
spill(p) ==
    /\ reg[p] # NoReg /\ dirty[p] /\ ~IsVar(p) /\ ~fixed[p]
    /\ slot' = slot \cup {Val(p)}
    /\ memHas' = [memHas EXCEPT ![p] = regHas[reg[p]] = p]
    /\ dirty' = [dirty EXCEPT ![p] = FALSE]
    /\ UNCHANGED <<file, reg, fixed, life, handles, args, code>>

evict_reg(r) ==
    /\ Evictable(r)
    /\ own' = [own EXCEPT ![r] = Free]
    /\ memHas' = MemAfter({r})
    /\ slot' = SlotAfter({r})
    /\ reg' = RegAfter({r})
    /\ dirty' = DirtyAfter({r})
    /\ UNCHANGED <<lock, clob, alloc, fixed, life, handles, args, def>>
    /\ regHas' = Settle(regHas)

\* free_reg for a set of registers: asserts that nothing is lost.
FreeRegs(R) ==
    /\ \A r \in R : ~dirty[own[r]] \/ IsVar(own[r])
    /\ own' = [r \in Regs |-> IF r \in R THEN Free ELSE own[r]]
    /\ reg' = RegAfter(R)
    /\ UNCHANGED <<lock, clob, dirty, fixed, life, memory, handles, def>>

\* release_spilled_regs
release_spilled_regs(R) ==
    /\ Idle
    /\ FreeRegs({r \in R : Evictable(r)})
    /\ UNCHANGED <<alloc, args>>
    /\ regHas' = Settle(regHas)

\* RetBuilder::ret
ret ==
    /\ FreeRegs({r \in Regs : Evictable(r)})
    /\ alloc' = alloc \cup args
    /\ args' = {}
    /\ regHas' = Settle(regHas)

\* compile_func: whatever the last function left behind is reset, whether it
\* was compiled to the end or given up, which destroyed the handles.
compile_func ==
    /\ NoHandles
    /\ own' = [r \in Regs |-> Free] /\ lock' = [r \in Regs |-> 0]
    /\ clob' = {} /\ alloc' = Allocatable
    /\ reg' = [p \in Parts |-> NoReg] /\ dirty' = [p \in Parts |-> TRUE]
    /\ fixed' = [p \in Parts |-> FALSE]
    /\ st' = [v \in AllVals |-> "none"] /\ refs' = [v \in AllVals |-> 0]
    /\ delay' = {} /\ slot' = {} /\ fixedCount' = [b \in Banks |-> 0]
    /\ may_emit_calls' \in MayEmitCalls
    /\ vref' = [x \in VRefs |-> Unused] /\ pref' = [h \in PRefs |-> NoHandle]
    /\ hreg' = [h \in PRefs |-> NoReg]
    /\ scratch' = [s \in SRegs |-> NoReg] /\ args' = {}
    /\ regHas' = [r \in Regs |-> Junk] /\ memHas' = [p \in Parts |-> FALSE]
    /\ def' = [p \in Parts |-> "no"]

RefStep(x) ==
    \/ \E v \in Values, n \in 1 .. MaxRefs, d \in BOOLEAN :
          result_ref(x, v, n, d) \/ result_ref_fixed(x, v, n, d)
    \/ \E v \in AllVals : val_ref(x, v)
    \/ \E y \in VRefs : disowned(x, y)
    \/ \E h \in PRefs, p \in Parts, u \in BOOLEAN : part(h, x, p, u)
    \/ ValueRef_reset(x)

PartStep(h) ==
    \/ Lock(h) \/ Unlock(h) \/ alloc_reg(h) \/ load_to_reg(h) \/ WriteResult(h)
    \/ \E r \in Regs : alloc_specific(h, r) \/ load_to_specific(h, r)
    \/ \E k \in {"temp", "const"} : temporary(h, k)
    \/ \E r \in Regs : alloc_temp(h, r) \/ alloc_temp_specific(h, r)
    \/ \E o \in PRefs : \/ set_value_temp_move(h, o) \/ set_value_temp_copy(h, o)
                        \/ set_value_temp_salvage(h, o) \/ set_value_copy(h, o)
                        \/ \E u \in BOOLEAN : set_value_salvage(h, o, u)
    \/ \E s \in SRegs : \/ set_value_scratch(h, s) \/ set_value_scratch_temp(h, s)
                        \/ into_scratch(h, s)
    \/ \E r \in RetRegs : set_value_reg(h, r) \/ set_value_reg_temp(h, r)
    \/ \E r \in ArgRegs : add_arg(h, r)
    \/ call_reg(h)
    \/ ValuePart_reset(h)

ScratchStep(s) ==
    \/ \E r \in Regs : ScratchReg_alloc(s, r) \/ ScratchReg_alloc_specific(s, r)
    \/ ScratchReg_reset(s)

CompilerStep ==
    \/ \E v \in VarRefs : init_variable_ref(v)
    \/ \E v \in Values : delayed_free(v)
    \/ \E p \in Parts : spill(p)
    \/ \E r \in Regs : evict_reg(r)
    \/ \E R \in SUBSET Regs : release_spilled_regs(R)
    \/ call_sym \/ ret \/ compile_func

Next == \/ \E x \in VRefs : RefStep(x)
        \/ \E h \in PRefs : PartStep(h)
        \/ \E s \in SRegs : ScratchStep(s)
        \/ CompilerStep

Spec == Init /\ [][Next]_vars

----------------------------------------------------------------------------
(***************************************************************************)
(* Properties.                                                             *)
(***************************************************************************)
\* The variables have the types of the fields they stand for.
TypeOK ==
    /\ own \in [Regs -> Parts \cup {Free, Temp}]
    /\ lock \in [Regs -> Nat]
    /\ clob \subseteq Regs /\ alloc \subseteq Regs /\ args \subseteq Regs
    /\ reg \in [Parts -> Regs \cup {NoReg}]
    /\ dirty \in [Parts -> BOOLEAN] /\ fixed \in [Parts -> BOOLEAN]
    /\ st \in [AllVals -> {"none", "live", "pending"}]
    /\ refs \in [AllVals -> Nat]
    /\ delay \subseteq Values /\ slot \subseteq Values
    /\ fixedCount \in [Banks -> Nat]
    /\ may_emit_calls \in MayEmitCalls
    /\ vref \in [VRefs -> [val : AllVals \cup {NoVal}, mode : 0 .. 2]]
    /\ pref \in [PRefs -> Handles]
    /\ hreg \in [PRefs -> Regs \cup {NoReg}]
    /\ scratch \in [SRegs -> Regs \cup {NoReg}]
    /\ regHas \in [Regs -> Parts \cup {Temp, Arg, Junk}]
    /\ memHas \in [Parts -> BOOLEAN]
    /\ def \in [Parts -> {"no", "yes", "gone"}]

\* The consistency checks of compile_block, at every step and in both
\* directions: the register file says r belongs to part p exactly if p says
\* it is in r, and only parts of assignments that exist own registers.
OwnerConsistent ==
    /\ \A r \in Regs, p \in Parts : own[r] = p <=> reg[p] = r
    /\ \A p \in Parts : reg[p] # NoReg => st[Val(p)] # "none"

Lockers(r) == {h \in PRefs : hreg[h] = r}
ScratchLockers(r) == {s \in SRegs : scratch[s] = r}

\* The lock count of a register is the number of handles that rely on it,
\* plus one for a fixed assignment: an unlocked register can be evicted, and
\* dec_lock_count_must_zero and unmark_fixed never meet another count.
LockAccounting ==
    \A r \in Regs :
        lock[r] = Cardinality(Lockers(r)) + Cardinality(ScratchLockers(r))
                + Cardinality({p \in Parts : fixed[p] /\ reg[p] = r})

\* A handle that has locked a register finds its part in that register, a
\* temporary or ScratchReg its own register, shared with nobody.
HandleStable ==
    /\ \A h \in PRefs : hreg[h] # NoReg =>
          IF pref[h].kind = "val" THEN reg[pref[h].part] = hreg[h]
          ELSE own[hreg[h]] = Temp /\ Lockers(hreg[h]) = {h}
    /\ \A s \in SRegs : scratch[s] # NoReg =>
          /\ own[scratch[s]] = Temp
          /\ ScratchLockers(scratch[s]) = {s} /\ Lockers(scratch[s]) = {}

\* Whatever the bookkeeping says of a value is true of the generated code: a
\* register it names holds the part's value, and so does a spill slot that is
\* said to be valid.  Such a slot exists: the assert of allocate_spill_slot.
ContentSound ==
    \A p \in Parts :
        /\ def[p] = "yes" /\ reg[p] # NoReg => regHas[reg[p]] = p
        /\ def[p] = "yes" /\ ~dirty[p] => memHas[p]
        /\ ~dirty[p] => Val(p) \in slot

\* A value that will be used again is not lost: it is in its register or in
\* its spill slot (or is a reference that can be recomputed).  Only the owner
\* of the last reference to a value may give up the one place it is in.
NoValueLost ==
    \A p \in Parts :
        /\ def[p] = "yes" => reg[p] # NoReg \/ ~dirty[p] \/ IsVar(p)
        /\ def[p] = "gone" => /\ refs[Val(p)] = 1 /\ Val(p) \notin delay
                              /\ Counted(Val(p)) # {}

\* The content of a temporary survives until its holder gives it up.
TempSound == \A r \in Regs : own[r] = Temp => regHas[r] = Temp /\ lock[r] = 1

\* Arguments stay in their registers until the call, although these are not
\* marked as used.
ArgsIntact == \A r \in args : own[r] = Free /\ regHas[r] = Arg /\ r \notin alloc

\* Every callee-saved register ever used is saved by the prologue.
SavedIfUsed == \A r \in CalleeSaved : own[r] # Free => r \in clob

\* At most NUM_FIXED_ASSIGNMENTS parts of a bank are fixed, and none that the
\* counter does not know of.
FixedParts(b) == {p \in Parts : fixed[p] /\ BankOf[Val(p)] = b}
FixedBounded == \A b \in Banks : /\ Cardinality(FixedParts(b)) <= fixedCount[b]
                                 /\ fixedCount[b] <= NumFixed[b]

\* An assignment exists exactly while references are left or its free is
\* pending, and an owning reference is the only counted one.
RefsAccounted ==
    \A v \in Values :
        /\ (st[v] = "live") = (refs[v] > 0)
        /\ Cardinality(Counted(v)) <= refs[v]
        /\ \A x \in Counted(v) : vref[x].mode = 2 => refs[v] = 1

\* A register that a handle keeps locked does not change hands.
LockedStays ==
    [][\A h \in PRefs : LET r == hreg[h]
                        IN  r # NoReg /\ hreg'[h] = r => own'[r] = own[r]]_vars
====
