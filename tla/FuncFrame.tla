----------------------------- MODULE FuncFrame -----------------------------
(***************************************************************************)
(* The frame code of a function: gen_func_prolog_and_args, gen_func_epilog *)
(* and finish_func of CompilerX64 and CompilerA64.                         *)
(*                                                                         *)
(* The compiler reserves room for the prologue and for an epilogue at each *)
(* return before it knows which callee-saved registers the body will       *)
(* clobber and how large the frame gets; finish_func fills the room in,    *)
(* moves the start of the function (AArch64) and cuts off what is left at  *)
(* its end.  The code is then executed here: text maps the offset of an    *)
(* instruction to the instruction, and an offset without one is padding or *)
(* the middle of an instruction.                                           *)
(*                                                                         *)
(* Addresses are relative to the canonical frame address (CFA), the        *)
(* caller's stack pointer at the call.  Values are pairs: <<"old", r>> is  *)
(* the caller's value of r, <<"addr", a>> an address, <<"ret", 0>> the     *)
(* return address.  Stack slots are abstracted to the bytes between the    *)
(* area of the prologue and frame_size, where StackFrame keeps them.       *)
(* Op_fault is a faulty variant of Op that no action uses.                 *)
(***************************************************************************)
EXTENDS Integers, Sequences, FiniteSets

CONSTANTS
    Archs,       \* targets: "x64", "a64"
    CsrX64,      \* callee_saved_regs of CompilerX64's CCInfo
    CsrA64,      \* ... and of CompilerA64's, with floating-point registers
    FrameSizes,  \* sizes to which stack slots may extend the frame
    MaxItems     \* bound on the number of instructions and returns of the body

\* Register numbers of AsmReg: V0 of AArch64 is 32.
FP(a) == IF a = "x64" THEN 5 ELSE 29
LR    == 30
Csr(a) == IF a = "x64" THEN CsrX64 ELSE CsrA64
Gp(r) == r < 32

ASSUME FrameAssumption ==
    /\ Archs \subseteq {"x64", "a64"}
    /\ CsrX64 \subseteq (0 .. 15) \ {4, 5}
    /\ CsrA64 \subseteq (0 .. 28) \cup (32 .. 63)
    /\ FrameSizes \subseteq Nat \ {0} /\ MaxItems \in Nat \ {0}

\* assert(final_frame_size < 16 * 1024 * 1024), which is rounded up to 4096.
MaxFrame == 4095 * 4096
ASSUME FrameSizeAssumption == "a64" \in Archs => \A n \in FrameSizes : n <= MaxFrame

VARIABLES
    arch, vararg, dyn_alloca, stack_args,   \* of the function
    phase,            \* "emit", "run", "returned"
    clobbered, frame_size,
    text, offset,     \* the code, and text_writer.offset()
    func_start_off, func_ret_offs, body,
    cfi,              \* the frame description entry
    pc, sp, regs, mem \* the execution

config == <<arch, vararg, dyn_alloca, stack_args>>
emit   == <<clobbered, frame_size, text, offset, func_start_off, func_ret_offs, body, cfi>>
exec   == <<pc, sp, regs, mem>>
vars   == <<arch, vararg, dyn_alloca, stack_args, phase, clobbered, frame_size, text,
            offset, func_start_off, func_ret_offs, body, cfi, pc, sp, regs, mem>>

\* x mapped to y, and f where it is defined and g elsewhere, as in TLC.tla.
x :> y == [z \in {x} |-> y]
f @@ g == [z \in DOMAIN f \cup DOMAIN g |-> IF z \in DOMAIN f THEN f[z] ELSE g[z]]

align_up(n, k) == ((n + k - 1) \div k) * k
align_down(n, k) == (n \div k) * k
Saved == clobbered \cap Csr(arch)
Below(r) == {q \in Saved : q < r}
Above(r) == {q \in Saved : q > r}

----------------------------------------------------------------------------
(***************************************************************************)
(* Code.                                                                   *)
(***************************************************************************)
Inst(op, arg, size) == [op |-> op, arg |-> arg, size |-> size]

\* inst(r) at the offset pos(r) for each r of S.
Each(S, pos(_), inst(_)) ==
    [o \in {pos(r) : r \in S} |-> inst(CHOOSE r \in S : pos(r) = o)]

\* x86-64: registers from r8 on need a prefix; immediates of one byte are short.
Push(r) == Inst("push", r, IF r < 8 THEN 1 ELSE 2)
Pop(r)  == Inst("pop", r, IF r < 8 THEN 1 ELSE 2)
Bytes(S) == Cardinality(S) + Cardinality({r \in S : r >= 8})
Short(n) == n \in -128 .. 127
Nop(off, n) == IF n = 0 THEN <<>> ELSE off :> Inst("nop", 0, n)

\* Room for the saves: reg_save_size.
HalfUp(S) == (Cardinality(S) + 1) \div 2
SaveRoom(a) ==
    IF a = "x64" THEN Bytes(CsrX64)
    ELSE 4 * (HalfUp({r \in CsrA64 : Gp(r)}) + HalfUp({r \in CsrA64 : ~Gp(r)}))

\* func_prologue_alloc and the size of an epilogue.
PrologueRoom(a) == IF a = "x64" THEN 4 + SaveRoom(a) + 7 ELSE SaveRoom(a) + 12
EpilogueRoom(a, dyn) ==
    IF a = "x64" THEN 7 + 1 + 1 + SaveRoom(a)
    ELSE SaveRoom(a) + 12 + (IF dyn THEN 4 ELSE 0)

\* The area that the prologue reserves: saved registers, frame record.
Base(a) == IF a = "x64" THEN 8 * Cardinality(Csr(a))
           ELSE 16 + align_up(8 * Cardinality(Csr(a)), 16)
VarargArea(a) == IF a = "x64" THEN 6 * 8 + 8 * 16 ELSE 8 * 8 + 8 * 16 + 16

----------------------------------------------------------------------------
(***************************************************************************)
(* gen_func_prolog_and_args; the function starts at a multiple of 16.      *)
(***************************************************************************)
Init ==
    /\ arch \in Archs /\ vararg \in BOOLEAN /\ dyn_alloca \in BOOLEAN
    /\ stack_args \in BOOLEAN /\ (arch = "x64" => ~stack_args)
    /\ phase = "emit"
    /\ clobbered = {}
    /\ frame_size = Base(arch) + (IF vararg THEN VarargArea(arch) ELSE 0)
    /\ LET room == PrologueRoom(arch)
       IN  /\ text = IF arch = "x64"
                     THEN (0 :> Push(FP(arch))) @@ (1 :> Inst("mov_fp_sp", 0, 3))
                          @@ (4 + SaveRoom(arch) :> Inst("sub_sp", 2147483647, 7))
                     ELSE IF stack_args THEN room :> Inst("arg_ptr", 0, 4) ELSE <<>>
           /\ offset = IF stack_args THEN room + 4 ELSE room
    /\ func_start_off = 0 /\ func_ret_offs = <<>> /\ body = {} /\ cfi = <<>>
    /\ pc = 0 /\ sp = 0 /\ regs = <<>> /\ mem = <<>>

(***************************************************************************)
(* The body: instructions that may clobber everything the function owns,   *)
(* stack slots, dynamic allocas, returns.                                  *)
(***************************************************************************)
Items == Cardinality(body) + Len(func_ret_offs)

EmitBody(op) ==
    /\ phase = "emit" /\ Items < MaxItems
    /\ op = "alloca" => dyn_alloca /\ Items + 1 < MaxItems    \* before a branch
    /\ text' = (offset :> Inst(op, 0, 4)) @@ text
    /\ body' = body \cup {offset}
    /\ offset' = offset + 4
    /\ UNCHANGED <<config, phase, clobbered, frame_size, func_start_off, func_ret_offs, cfi, exec>>

mark_clobbered(r) ==
    /\ phase = "emit" /\ r \notin clobbered
    /\ clobbered' = clobbered \cup {r}
    /\ UNCHANGED <<config, phase, frame_size, text, offset, func_start_off, func_ret_offs,
                   body, cfi, exec>>

allocate_stack_slot(n) ==
    /\ phase = "emit" /\ frame_size < n
    /\ frame_size' = n
    /\ UNCHANGED <<config, phase, clobbered, text, offset, func_start_off, func_ret_offs,
                   body, cfi, exec>>

gen_func_epilog ==
    /\ phase = "emit" /\ Items < MaxItems
    /\ func_ret_offs' = Append(func_ret_offs, offset)
    /\ offset' = offset + EpilogueRoom(arch, dyn_alloca)
    /\ UNCHANGED <<config, phase, clobbered, frame_size, text, func_start_off, body, cfi, exec>>

----------------------------------------------------------------------------
(***************************************************************************)
(* finish_func, x86-64.                                                    *)
(***************************************************************************)
FinalX64_total(n) == align_up(frame_size, 16)
FinalX64(n) == align_up(frame_size, 16) - 8 * n

PushesX64 == Each(Saved, LAMBDA r : 4 + Bytes(Below(r)), Push)

\* Offsets are relative to the start of the epilogue.
BackX64 ==
    LET n == Cardinality(Saved)
    IN  IF ~dyn_alloca THEN Inst("add_sp", FinalX64(n), IF Short(FinalX64(n)) THEN 4 ELSE 7)
        ELSE IF n = 0 THEN Inst("mov_sp_fp", 0, 3)
        ELSE Inst("lea_sp", 8 * n, 4)
SizeX64 == BackX64.size + Bytes(Saved) + 2
EpilogueX64 ==
    (0 :> BackX64) @@ Each(Saved, LAMBDA r : BackX64.size + Bytes(Above(r)), Pop)
    @@ (SizeX64 - 2 :> Pop(FP("x64"))) @@ (SizeX64 - 1 :> Inst("ret", 0, 1))
    @@ Nop(SizeX64, EpilogueRoom("x64", dyn_alloca) - SizeX64)

\* The frame description: the CFA relative to the frame pointer, and for each
\* register its distance from the CFA in units of 8 bytes.
CfiX64_first == (FP("x64") :> 2) @@ [r \in Saved |-> Cardinality(Below(r)) + 2]
CfiX64 == (FP("x64") :> 2) @@ [r \in Saved |-> Cardinality(Below(r)) + 1 + 2]

----------------------------------------------------------------------------
(***************************************************************************)
(* finish_func, AArch64.                                                   *)
(***************************************************************************)
\* SUB and ADD take 12 bits, or 12 bits shifted by 12.
FinalA64 == LET n == align_up(frame_size, 16)
            IN  IF n > 4095 THEN align_up(n, 4096) ELSE n

\* The DWARF number the code computes, and the register that has it.
DwarfOf(r)   == (IF r < 32 THEN 64 ELSE 0) + (r % 32)
DwarfReg(d)  == IF d >= 64 THEN d - 64 + 32 ELSE d

\* Two registers of a bank that follow each other are stored or loaded together,
\* a lone one alone: the offset from the frame's base and the instruction, as
\* counted by the loops over the saved registers.
Lower(r)   == {q \in Below(r) : Gp(q) = Gp(r)}
First(r)   == Cardinality(Lower(r)) % 2 = 0
Partner(r) == {q \in Saved : Gp(q) = Gp(r) /\ Lower(q) = Lower(r) \cup {r}}
FrameOff(r) == 16 + 8 * Cardinality(Below(r))
SavedGp == {r \in Saved : Gp(r)}
Row(r)  == Cardinality(Lower(r)) \div 2 + (IF Gp(r) THEN 0 ELSE HalfUp(SavedGp))
Rows    == HalfUp(SavedGp) + HalfUp(Saved \ SavedGp)

PairInst(pair, single, base, r) ==
    IF Partner(r) = {} THEN Inst(single, <<r, base, FrameOff(r)>>, 4)
    ELSE Inst(pair, <<r, CHOOSE q \in Partner(r) : TRUE, base, FrameOff(r)>>, 4)
StackReg == IF dyn_alloca THEN "fp" ELSE "sp"
PairLoop(off, pair, single) ==
    Each({r \in Saved : First(r)}, LAMBDA r : off + 4 * Row(r),
         LAMBDA r : PairInst(pair, single, StackReg, r))

FrameRecord(op) == Inst(op, <<FP("a64"), LR, "sp", 0>>, 4)

\* NOPs until the start of the function can move by a multiple of 16.
Padding == (PrologueRoom("a64") \div 4 - (3 + Rows)) % 4
LenA64  == 3 + Rows + Padding
PrologueA64(off) ==
    (off :> Inst("sub_sp", FinalA64, 4)) @@ (off + 4 :> FrameRecord("stp"))
    @@ (off + 8 :> Inst("mov_fp_sp", 0, 4))
    @@ PairLoop(off + 12, "stp", "str")
    @@ Each(3 + Rows .. LenA64 - 1, LAMBDA k : off + 4 * k, LAMBDA k : Inst("nop", 0, 4))

\* With dynamic allocas the stack pointer is restored before the frame record.
SizeA64 == 4 + 4 * Rows + (IF dyn_alloca THEN 4 ELSE 0) + 8
EpilogueA64_early ==
    (0 :> FrameRecord("ldp"))
    @@ (IF dyn_alloca THEN 4 :> Inst("mov_sp_fp", 0, 4) ELSE <<>>)
    @@ PairLoop(IF dyn_alloca THEN 8 ELSE 4, "ldp", "ldr")
    @@ (SizeA64 - 8 :> Inst("add_sp", FinalA64, 4)) @@ (SizeA64 - 4 :> Inst("ret", 0, 4))
EpilogueA64 ==
    (0 :> IF dyn_alloca THEN Inst("mov_sp_fp", 0, 4) ELSE FrameRecord("ldp"))
    @@ PairLoop(4, "ldp", "ldr")
    @@ (IF dyn_alloca THEN 4 + 4 * Rows :> FrameRecord("ldp") ELSE <<>>)
    @@ (SizeA64 - 8 :> Inst("add_sp", FinalA64, 4)) @@ (SizeA64 - 4 :> Inst("ret", 0, 4))

\* Only the register that opens a pair gets an entry, and none after a lone one
\* of the other bank.  A later entry for a register replaces an earlier one.
Recorded == {r \in Saved : First(r) /\ (Gp(r) \/ Lower(r) # {} \/ Cardinality(SavedGp) % 2 = 0)}
CfiA64 ==
    Each(Recorded, LAMBDA r : DwarfReg(DwarfOf(r)),
         LAMBDA r : (FinalA64 - FrameOff(r)) \div 8)
    @@ (FP("a64") :> FinalA64 \div 8) @@ (LR :> (FinalA64 \div 8) - 1)

----------------------------------------------------------------------------
(***************************************************************************)
(* The rest of finish_func: the epilogues, and the end of the function.    *)
(***************************************************************************)
Epilogue == IF arch = "x64" THEN EpilogueX64 ELSE EpilogueA64
Unused == EpilogueRoom(arch, dyn_alloca) - (IF arch = "x64" THEN SizeX64 ELSE SizeA64)

\* The text with a copy of the epilogue at each return.
Rets == {func_ret_offs[k] : k \in DOMAIN func_ret_offs}
WithEpilogues(t) ==
    LET code == Epilogue
        in(o) == CHOOSE f \in Rets : o - f \in DOMAIN code
    IN  [o \in {f + p : f \in Rets, p \in DOMAIN code} |-> code[o - in(o)]] @@ t

\* If the function ends with a return, the unused end of it is cut off.
End_cut == offset - Unused
EndsInRet == offset - EpilogueRoom(arch, dyn_alloca) \in Rets
End == IF EndsInRet THEN offset - Unused ELSE offset

Start_x64 ==
    LET setup == 4 + SaveRoom("x64")
        saved == 4 + Bytes(Saved)
    IN  /\ arch = "x64"
        /\ text' = WithEpilogues(PushesX64 @@ Nop(saved, setup - saved)
                        @@ [text EXCEPT ![setup] = Inst("sub_sp", FinalX64(Cardinality(Saved)), 7)])
        /\ func_start_off' = 0
        /\ cfi' = [cfa |-> 16, rules |-> CfiX64]

\* The prologue is written to the end of its room; the function starts there.
Start_a64 ==
    LET skip == align_down(PrologueRoom("a64") - 4 * LenA64, 16)
        arg  == IF stack_args THEN PrologueRoom("a64") :> Inst("arg_ptr", FinalA64, 4) ELSE <<>>
    IN  /\ arch = "a64"
        /\ text' = WithEpilogues(PrologueA64(skip) @@ arg @@ text)
        /\ func_start_off' = skip
        /\ cfi' = [cfa |-> FinalA64, rules |-> CfiA64]

\* The last block of the body ends with a branch or a return.
Terminated == \/ EndsInRet
              \/ offset - 4 \in body /\ text[offset - 4].op = "work"

\* Then the function is called.
finish_func ==
    /\ phase = "emit" /\ Terminated
    /\ Start_x64 \/ Start_a64
    /\ offset' = End
    /\ phase' = "run"
    /\ pc' = func_start_off'
    /\ sp' = IF arch = "x64" THEN -8 ELSE 0
    /\ mem' = IF arch = "x64" THEN (-8 :> <<"ret", 0>>) ELSE <<>>
    /\ regs' = [r \in Csr(arch) \cup {FP(arch)} |-> <<"old", r>>]
               @@ (IF arch = "x64" THEN <<>> ELSE (LR :> <<"ret", 0>>))
    /\ UNCHANGED <<config, clobbered, frame_size, func_ret_offs, body>>

----------------------------------------------------------------------------
(***************************************************************************)
(* Execution.                                                              *)
(***************************************************************************)
Junk == <<"junk", 0>>
Load(a) == IF a \in DOMAIN mem THEN mem[a] ELSE Junk
fp == regs[FP(arch)][2]

At(op) == phase = "run" /\ pc \in DOMAIN text /\ text[pc].op = op
Arg    == text[pc].arg
GoOn   == /\ pc' = pc + text[pc].size
          /\ UNCHANGED <<config, phase, emit>>

ExecPush ==
    /\ At("push")
    /\ sp' = sp - 8
    /\ mem' = (sp - 8 :> regs[Arg]) @@ mem
    /\ GoOn /\ UNCHANGED regs

ExecPop ==
    /\ At("pop")
    /\ sp' = sp + 8
    /\ regs' = [regs EXCEPT ![Arg] = Load(sp)]
    /\ GoOn /\ UNCHANGED mem

ExecFrame ==
    /\ \/ At("mov_fp_sp") /\ regs' = [regs EXCEPT ![FP(arch)] = <<"addr", sp>>] /\ UNCHANGED sp
       \/ At("mov_sp_fp") /\ sp' = fp /\ UNCHANGED regs
       \/ At("sub_sp") /\ sp' = sp - Arg /\ UNCHANGED regs
       \/ At("add_sp") /\ sp' = sp + Arg /\ UNCHANGED regs
       \/ At("lea_sp") /\ sp' = fp - Arg /\ UNCHANGED regs
       \/ At("nop") /\ UNCHANGED <<sp, regs>>
       \/ At("arg_ptr") /\ UNCHANGED <<sp, regs>>
    /\ GoOn /\ UNCHANGED mem

From(b) == IF b = "sp" THEN sp ELSE fp
ExecStore ==
    /\ \/ At("stp") /\ LET a == From(Arg[3]) + Arg[4]
                       IN  mem' = (a :> regs[Arg[1]]) @@ (a + 8 :> regs[Arg[2]]) @@ mem
       \/ At("str") /\ mem' = (From(Arg[2]) + Arg[3] :> regs[Arg[1]]) @@ mem
    /\ GoOn /\ UNCHANGED <<sp, regs>>

ExecLoad ==
    /\ \/ At("ldp") /\ LET a == From(Arg[3]) + Arg[4]
                       IN  regs' = [regs EXCEPT ![Arg[1]] = Load(a), ![Arg[2]] = Load(a + 8)]
       \/ At("ldr") /\ regs' = [regs EXCEPT ![Arg[1]] = Load(From(Arg[2]) + Arg[3])]
    /\ GoOn /\ UNCHANGED <<sp, mem>>

\* The body writes its registers and slots, and calls write below the stack
\* pointer and the link register.
SlotBytes == IF arch = "x64" THEN fp - frame_size .. fp - Base(arch) - 1
             ELSE fp + Base(arch) .. fp + frame_size - 1
Overwritten(a) == a < sp \/ (a .. a + 7) \cap SlotBytes # {}

Targets == body \cup Rets

ExecBody ==
    /\ \/ At("work") /\ UNCHANGED sp
       \/ At("alloca") /\ sp' = sp - 16
    /\ regs' = [r \in DOMAIN regs |-> IF r \in clobbered \cup {LR} THEN Junk ELSE regs[r]]
    /\ mem' = [a \in DOMAIN mem |-> IF Overwritten(a) THEN Junk ELSE mem[a]]
    /\ \/ pc' \in {t \in Targets : t > pc}
       \/ At("work") /\ pc' = pc
    /\ UNCHANGED <<config, phase, emit>>

ExecRet ==
    /\ At("ret")
    /\ phase' = "returned"
    /\ pc' = -1
    /\ IF arch = "x64" THEN /\ sp' = sp + 8
                            /\ regs' = (LR :> Load(sp)) @@ regs    \* where to
                       ELSE UNCHANGED <<sp, regs>>
    /\ UNCHANGED <<config, emit, mem>>

Returned == phase = "returned" /\ UNCHANGED vars

Next == \/ \E op \in {"work", "alloca"} : EmitBody(op)
        \/ \E r \in Csr(arch) : mark_clobbered(r)
        \/ \E n \in FrameSizes : allocate_stack_slot(n)
        \/ gen_func_epilog
        \/ finish_func
        \/ ExecPush \/ ExecPop \/ ExecFrame \/ ExecStore \/ ExecLoad \/ ExecBody \/ ExecRet
        \/ Returned

Spec == Init /\ [][Next]_vars

----------------------------------------------------------------------------
\* Offsets, sizes and execution state have the types of what they stand for.
TypeOK ==
    /\ frame_size \in Nat /\ offset \in Nat /\ func_start_off \in Nat
    /\ clobbered \subseteq Csr(arch)
    /\ \A k \in DOMAIN func_ret_offs : func_ret_offs[k] \in Nat
    /\ pc \in Int /\ sp \in Int
    /\ \A o \in DOMAIN text : text[o].size \in Nat \ {0}

\* Whichever registers the body clobbers and however it returns, the caller
\* finds its callee-saved registers, frame pointer and stack pointer as they
\* were, and execution goes on behind the call.
CalleeRestored ==
    phase = "returned" =>
        /\ \A r \in Csr(arch) \cup {FP(arch)} : regs[r] = <<"old", r>>
        /\ sp = 0
        /\ regs[LR] = <<"ret", 0>>

\* Only instructions are executed: no zeroed or unpatched room, nothing that
\* was cut off at the end, and nothing outside of the function's symbol.
CodeIntact ==
    phase = "run" => /\ pc \in DOMAIN text
                     /\ func_start_off <= pc /\ pc + text[pc].size <= offset
                     /\ func_start_off % 16 = 0

InBody == phase = "run" /\ pc \in body

Encodable(n) == n < 4096 \/ (n % 4096 = 0 /\ n < 16777216)

\* In the body the stack pointer is aligned for calls, also after allocas,
\* and no slot reaches below it.
\* The immediates of the AArch64 frame code can be encoded, and stack arguments
\* are found at the caller's stack pointer.
FrameRight ==
    /\ InBody => sp % 16 = 0 /\ \A a \in SlotBytes : a >= sp
    /\ phase = "run" /\ pc \in DOMAIN text =>
          /\ arch = "a64" /\ text[pc].op \in {"sub_sp", "add_sp", "arg_ptr"} => Encodable(Arg)
          /\ text[pc].op = "arg_ptr" => sp + Arg = 0

\* What the unwinder restores for register r.
Unwound(r) == IF r \in DOMAIN cfi.rules THEN Load(fp + cfi.cfa - 8 * cfi.rules[r]) ELSE regs[r]
\* At every call site the frame description gives the caller's frame: the CFA,
\* and the values of the callee-saved registers, clobbered here or not.
UnwindSound ==
    InBody => /\ fp + cfi.cfa = 0
              /\ \A r \in Csr(arch) \cup {FP(arch)} : Unwound(r) = <<"old", r>>
UnwindX64 == arch = "x64" => UnwindSound
====
