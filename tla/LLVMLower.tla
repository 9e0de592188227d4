----------------------------- MODULE LLVMLower -----------------------------
(***************************************************************************)
(* Lowering LLVM instructions: LLVMCompilerBase::compile_inst and the       *)
(* handlers it dispatches to, with the parts of LLVMCompilerX64 and         *)
(* LLVMCompilerArm64 they call.                                             *)
(*                                                                          *)
(* A handler takes references to its operands (val_ref), creates a result   *)
(* (result_ref), may compile instructions that follow it along with itself  *)
(* (fusing), and emits code.  The references are what the register allocator*)
(* (RegAlloc) frees values by: a handler that takes one reference too few   *)
(* keeps a register occupied, one too many frees a value that is still      *)
(* needed.  Fusing moves the point at which a result comes to life and      *)
(* leaves values without a register that nobody may ask for any more.  The  *)
(* emitted code is represented by what it computes from whole registers     *)
(* (IntOps); values that are not integers of at most 64 bits are opaque.    *)
(*                                                                          *)
(* A program is a sequence of instructions on a chain of blocks.  It is     *)
(* built instruction by instruction, then compiled; the compiled code is run*)
(* as it is emitted, on argument registers whose upper bits are arbitrary.  *)
(***************************************************************************)
EXTENDS IntOps, TLC

CONSTANTS
  Targets,     \* subset of {"x64", "a64"}
  Widths,      \* widths of the integer arguments
  ChainWidth,  \* width of the arguments of the longer programs
  MaxChain,    \* length of the programs in which instructions fuse
  CaseLists,   \* ascending sequences of case values of a switch
  Wide128      \* predicates of the i128 comparisons

VARIABLES
  phase,  \* "build", "compile", "done" or "failed": a handler returned false
  tgt,    \* the target
  iw,     \* width of the integer arguments
  prog,   \* the function: a sequence of instructions
  refs,   \* value -> references left (ValueAssignment::references_left)
  fused,  \* positions compiled with an earlier one (inst_fused)
  pc,     \* position the block loop has reached
  val,    \* value with an assignment -> [c: register content, blk: block]
  mem,    \* address -> content, where it differs from InitMem
  out,    \* observable effects so far
  free    \* register content where an instruction writes the low part only

vars == <<phase, tgt, iw, prog, refs, fused, pc, val, mem, out, free>>

\* Arguments: a pointer, two integers, two values of other types.
Ptr == 1
ArgX == 2
ArgY == 3
NArgs == 5
Value(i) == NArgs + i
Opaque == -1        \* content of values that are not narrow integers
Poison == -2

Arg(v) == [c |-> FALSE, v |-> v]
Const(n) == [c |-> TRUE, v |-> n]

\* op and the operands a; w the width of the integer operands, rw the result's
\* (0 for none, Opaque); var tells apart the cases the handlers distinguish;
\* blk the block, pred the predicate of a comparison, cases those of a switch.
Inst(op, a, w, rw, var) ==
  [op |-> op, a |-> a, w |-> w, rw |-> rw, var |-> var, blk |-> 1, pred |-> "eq", cases |-> <<>>]

Blk(p) == 1 + Cardinality({i \in 1..Len(p) : p[i].op \in {"br", "switch", "invoke"}})
Uses(v) == Cardinality({x \in UNION {{<<i, k>> : k \in 1..Len(prog[i].a)} : i \in 1..Len(prog)} :
                          prog[x[1]].a[x[2]] = Arg(v)})
UsesBy(i, v) == Cardinality({k \in 1..Len(prog[i].a) : prog[i].a[k] = Arg(v)})
HasOneUse(i) == Uses(Value(i)) = 1
Users(i) == {j \in 1..Len(prog) : UsesBy(j, Value(i)) > 0}
IsUserNext(i) == Users(i) = {i + 1}

\* The content of the register an operand is in.  val_ref_constant yields a
\* constant zero-extended and without a reference.
val_ref(o) == IF o.c THEN o.v ELSE IF o.v \in DOMAIN val THEN val[o.v].c ELSE Poison

InitMem(addr) == (addr * 37 + 11) % 2^W64
Mem(m, addr) == IF addr \in DOMAIN m THEN m[addr] ELSE InitMem(addr)

\* What a handler did: use the references it took to operands, def the results
\* it defined, extra the values of which it took a further result_ref, fuse the
\* positions it marked fused.
Emit(use, def) ==
  [ok |-> TRUE, use |-> use, def |-> def, extra |-> {}, fuse |-> {}, eff |-> <<>>, mem |-> mem]
Fail == [Emit(<<>>, <<>>) EXCEPT !.ok = FALSE]
Effect(use, e) == [Emit(use, <<>>) EXCEPT !.eff = <<e>>]
Self(c) == Value(pc) :> c
Alongside(r, more) == [r EXCEPT !.fuse = @ \cup more]
Checked(cond, r) == IF cond THEN r ELSE Fail

\* ValueRef: every reference taken is given back; a result starts with one
\* reference of its own (Analyzer: 1 + number of uses).
Taken(r, v) == Cardinality({k \in 1..Len(r.use) : r.use[k] = Arg(v)})
             + Cardinality({v} \cap DOMAIN r.def) + Cardinality({v} \cap r.extra)

\* compile_block's loop: instructions already compiled are skipped.
NextPc(fs) == CHOOSE p \in (pc + 1)..(Len(prog) + 1) :
                /\ p \notin fs
                /\ \A q \in (pc + 1)..(p - 1) : q \in fs

compile_inst(ops, r) ==
  /\ phase = "compile"
  /\ pc <= Len(prog)
  /\ prog[pc].op \in ops
  /\ IF ~r.ok THEN phase' = "failed" /\ UNCHANGED <<refs, fused, pc, val, mem, out>>
     ELSE /\ refs' = [v \in DOMAIN refs |-> refs[v] - Taken(r, v)]
          /\ val' = [v \in DOMAIN r.def |-> [c |-> r.def[v], blk |-> prog[pc].blk]] @@ val
          /\ fused' = fused \cup r.fuse
          /\ pc' = NextPc(fused \cup r.fuse)
          /\ mem' = r.mem
          /\ out' = out \o r.eff
          /\ phase' = IF pc' > Len(prog) THEN "done" ELSE "compile"
  /\ UNCHANGED <<tgt, iw, prog, free>>

I == prog[pc]
O(k) == I.a[k]
R(k) == val_ref(I.a[k])

\* The plain handler: one reference to every operand, one opaque result.
Plain == Emit(I.a, IF I.rw = 0 THEN <<>> ELSE Self(Opaque))
Data(c) == Emit(I.a, Self(c))

-----------------------------------------------------------------------------
(* Memory.                                                                  *)

\* Memory is read and written in whole bytes.
Bytes(w) == IF w <= W8 THEN W8 ELSE w

\* Atomic accesses are of 8 to 64 bits and aligned.
atomic_load(i, addr, use) ==
  Checked(prog[i].rw \in Byteish, Emit(use, Value(i) :> Low(Mem(mem, addr), prog[i].rw)))

\* The load at position i, of which addr is the address.  A truncation or
\* extension that is its only user and in its block becomes part of it.
compile_load_generic_fault(i, addr, use) ==  \* users in other blocks are fused, too
  LET ld == prog[i]
      c == Mem(mem, addr)
      user == IF HasOneUse(i) THEN CHOOSE j \in Users(i) : TRUE ELSE i
      near == user # i
      ext == /\ near
             /\ prog[user].op \in {"zext", "sext"}
             /\ prog[user].rw <= W64
             /\ ld.rw \in Byteish
      target == IF ext \/ (near /\ prog[user].op = "trunc") THEN user ELSE i
  IN CASE ld.var = "atomic" -> atomic_load(i, addr, use)
       [] ld.var = "unaligned" -> Fail
       [] ld.var = "wide" -> Emit(use, Value(i) :> Opaque)
       [] OTHER ->
            Alongside(Emit(use, Value(target) :>
                             IF ext /\ prog[user].op = "sext" THEN into_extended(TRUE, c, ld.rw, W64)
                             ELSE Low(c, Bytes(ld.rw))),
                      {target} \ {i})

compile_load_generic(i, addr, use) ==
  LET ld == prog[i]
      c == Mem(mem, addr)
      user == IF HasOneUse(i) THEN CHOOSE j \in Users(i) : TRUE ELSE i
      near == user # i /\ prog[user].blk = ld.blk
      ext == /\ near
             /\ prog[user].op \in {"zext", "sext"}
             /\ prog[user].rw <= W64
             /\ ld.rw \in Byteish
      target == IF ext \/ (near /\ prog[user].op = "trunc") THEN user ELSE i
  IN CASE ld.var = "atomic" -> atomic_load(i, addr, use)
       [] ld.var = "unaligned" -> Fail
       [] ld.var = "wide" -> Emit(use, Value(i) :> Opaque)
       [] OTHER ->
            Alongside(Emit(use, Value(target) :>
                             IF ext /\ prog[user].op = "sext" THEN into_extended(TRUE, c, ld.rw, W64)
                             ELSE Low(c, Bytes(ld.rw))),
                      {target} \ {i})

compile_load == compile_inst({"load"}, compile_load_generic(pc, R(1), I.a))

\* The store at position i; its operands are the value and the pointer.
compile_store_generic(i, addr, use) ==
  LET st == prog[i]
      c == val_ref(st.a[1])
      done == [Effect(Append(use, st.a[1]), <<"store", addr, IF c < 0 THEN c ELSE Low(c, st.w)>>)
                 EXCEPT !.mem = (addr :> IF c < 0 THEN 0 ELSE Low(c, Bytes(st.w))) @@ mem]
  IN CASE st.var = "atomic" -> Checked(st.w \in Byteish, done)
       [] st.var = "unaligned" -> Fail
       [] OTHER -> done

compile_store == compile_inst({"store"}, compile_store_generic(pc, R(2), <<O(2)>>))

\* Address computations follow each other into one addressing mode; a load or
\* store through the last one is compiled with them.
GepLink_fault(i) == i < Len(prog) /\ i + 1 \in Users(i) /\ prog[i + 1].op = "gep"  \* other uses forgotten
GepLink(i) == i < Len(prog) /\ HasOneUse(i) /\ IsUserNext(i) /\ prog[i + 1].op = "gep"
GepLast == CHOOSE n \in pc..Len(prog) : ~GepLink(n) /\ \A j \in pc..(n - 1) : GepLink(j)

\* base + index * scale + displacement; an index is sign-extended to 64 bits.
GepAddr ==
  LET idx(i) == into_extended(TRUE, val_ref(prog[i].a[2]), prog[i].w, W64)
      sum[n \in pc..Len(prog)] == (IF n = pc THEN R(1) ELSE sum[n - 1]) + idx(n)
  IN Low(sum[GepLast], W64)
GepUse == <<O(1)>> \o [k \in 1..(GepLast - pc + 1) |-> prog[pc + k - 1].a[2]]

compile_gep ==
  LET last == GepLast
      next == IF last < Len(prog) /\ HasOneUse(last) /\ IsUserNext(last) THEN last + 1 ELSE last
      nop == prog[next].op
      r == CASE I.var \in {"vector", "wide"} -> Fail
             [] next # last /\ nop = "store" /\ prog[next].a[2] = Arg(Value(last)) ->
                  Alongside(compile_store_generic(next, GepAddr, GepUse), {next})
             [] next # last /\ nop = "load" ->
                  Alongside(compile_load_generic(next, GepAddr, GepUse), {next})
             [] OTHER -> Emit(GepUse, Value(last) :> GepAddr)
  IN compile_inst({"gep"}, Alongside(r, (pc + 1)..last))

\* cmpxchg and atomicrmw need an integer of 8 to 64 bits, the latter aligned.
compile_cmpxchg == compile_inst({"cmpxchg"}, Checked(I.var = "", Plain))
compile_atomicrmw == compile_inst({"atomicrmw"}, Checked(I.var = "", Plain))
compile_fence == compile_inst({"fence"}, Plain)

\* Only an alloca of a size known at compile time in the entry block is a stack
\* variable; the others get here, the array size zero-extended.
compile_alloca ==
  compile_inst({"alloca"},
    CASE I.var = "scalable" -> Fail
      [] I.var = "fixed" -> Plain
      [] OTHER -> [Plain EXCEPT !.eff = << <<"alloca", IF I.w = W64 THEN R(1)
                                                       ELSE into_extended(FALSE, R(1), I.w, W64)>> >>])

-----------------------------------------------------------------------------
(* Integer arithmetic and conversions.                                      *)

\* Instructions on both halves, or a library call for divisions.
compile_int_binary_op_i128 == Plain

compile_int_binary_op ==
  compile_inst(BinOps,
    CASE I.var = "i128" -> compile_int_binary_op_i128
      [] I.var = "vec" -> Plain
      [] I.var = "vec_i1" -> Fail
      [] OTHER -> Data(int_binary_op(I.op, I.w, R(1), R(2), O(1).c, O(2).c)))

\* A truncation copies the register: users extend.
compile_int_trunc ==
  compile_inst({"trunc"},
    CASE I.var = "vec" -> Plain [] I.var = "vec_other" -> Fail [] OTHER -> Data(R(1)))

compile_int_ext ==
  compile_inst({"zext", "sext"},
    CASE I.var \in {"vec", "from128"} -> Fail
      [] I.var = "to128" -> Plain
      [] OTHER -> Data(IF I.w < W64 THEN into_extended(I.op = "sext", R(1), I.w, I.rw) ELSE R(1)))

compile_ptr_to_int == compile_inst({"ptrtoint"}, Checked(I.var = "", Data(R(1))))
compile_int_to_ptr ==
  compile_inst({"inttoptr"},
    Checked(I.var = "", Data(IF I.w = W64 THEN R(1) ELSE into_extended(FALSE, R(1), I.w, W64))))

\* The number converted is what the converted value stands for.
compile_int_to_float ==
  compile_inst({"sitofp", "uitofp"},
    LET n == AlignUp32(I.w)
        sign == I.op = "sitofp"
        x == IF I.w = n THEN R(1) ELSE into_extended(sign, R(1), I.w, n)
    IN CASE I.var \in {"vec", "wide", "f128_narrow"} -> Fail
         [] I.var = "f128" -> Plain
         [] OTHER -> Data(IF sign THEN Low(SVal(x, n), W64) ELSE Low(x, n)))

compile_float_to_int == compile_inst({"fptoint"}, Checked(I.var \in {"", "f128"}, Plain))
compile_float_ext_trunc == compile_inst({"fpext"}, Checked(I.var \in {"", "f128"}, Plain))
compile_fneg == compile_inst({"fneg"}, Checked(I.var = "", Plain))

\* Values are copied part by part; through the stack when the parts differ.
compile_bitcast == compile_inst({"bitcast"}, Plain)
compile_freeze == compile_inst({"freeze"}, IF I.rw = Opaque THEN Plain ELSE Data(R(1)))
compile_extract_value == compile_inst({"extractvalue"}, Plain)
compile_insert_value == compile_inst({"insertvalue"}, Plain)

\* frem and all operations on fp128 are calls; frem of fp128 or vectors is not
\* supported.
compile_float_binary_op == compile_inst({"fadd", "frem"}, Checked(I.var # "none", Plain))

compile_select ==
  compile_inst({"select"},
    CASE I.var = "vec" -> Fail
      [] I.rw = Opaque -> Plain
      [] OTHER -> Data(IF R(1) % 2 = 1 THEN R(2) ELSE R(3)))

-----------------------------------------------------------------------------
(* Vectors.  The content of an extracted element is its index.              *)

VecLen(var) == CASE var = "v2" -> 2 [] var = "v4" -> 4 [] var = "v3" -> 3

compile_extract_element ==
  compile_inst({"extractelement"},
    LET n == VecLen(I.var) IN
    CASE O(1).c -> Fail
      [] I.var = "i1" -> Plain
      [] OTHER -> Data(IF O(2).c THEN IF O(2).v < n THEN O(2).v ELSE 0 ELSE element_index(n, R(2))))

\* The new element, the vector and the index, in this order.
compile_insert_element ==
  compile_inst({"insertelement"},
    LET n == VecLen(I.var)
        use == <<O(2), O(1), O(3)>>
    IN IF I.var = "i1" THEN Emit(use, Self(Opaque))
       ELSE Emit(use, Self(IF O(3).c THEN IF O(3).v < n THEN O(3).v ELSE 0 ELSE element_index(n, R(3)))))

compile_shuffle_vector == compile_inst({"shufflevector"}, Checked(I.var = "", Plain))

-----------------------------------------------------------------------------
(* Comparisons and branches.                                                *)

\* The branch or extension after a comparison that is compiled with it.
FuseBr == pc < Len(prog) /\ prog[pc + 1].op = "br" /\ prog[pc + 1].a = <<Arg(Value(pc))>>
FuseExt == /\ pc < Len(prog)
           /\ HasOneUse(pc) /\ IsUserNext(pc)
           /\ prog[pc + 1].op \in {"zext", "sext"}
           /\ prog[pc + 1].rw <= W64

\* A comparison result: setcc writes the low byte (x64), cset a register (a64).
SetFlag(bit, zext) == IF tgt = "x64" THEN raw_set(bit, zext, free) ELSE bit

compile_icmp ==
  LET bit == IF I.op = "icmp_i128" THEN icmp_i128(tgt, I.pred, R(1), R(2))
             ELSE icmp_flag(I.pred, I.w, R(1), R(2), O(1).c, O(2).c)
      nxt == pc + 1
  IN compile_inst({"icmp", "icmp_i128"},
       CASE FuseBr ->
              [Effect(I.a, <<"br", bit>>) EXCEPT
                 !.fuse = {nxt},
                 !.def = IF HasOneUse(pc) THEN <<>> ELSE Self(SetFlag(bit, FALSE)),
                 !.extra = IF HasOneUse(pc) THEN {} ELSE {Value(pc)}]
         [] ~FuseBr /\ FuseExt ->
              Alongside(Emit(I.a, Value(nxt) :> IF prog[nxt].op = "zext" THEN SetFlag(bit, TRUE)
                                                ELSE raw_mask(bit)), {nxt})
         [] OTHER -> Data(SetFlag(bit, FALSE)))

compile_icmp_vector ==
  LET ext == /\ pc < Len(prog) /\ HasOneUse(pc) /\ IsUserNext(pc)
             /\ prog[pc + 1].op \in {"zext", "sext"} /\ prog[pc + 1].var = "vec"
  IN compile_inst({"icmp_vector"},
       IF I.var = "other" THEN Fail
       ELSE IF ext THEN Alongside(Emit(I.a, Value(pc + 1) :> Opaque), {pc + 1})
       ELSE Plain)

\* The operands of a comparison that is always true or false are referenced too.
compile_fcmp == compile_inst({"fcmp"}, Checked(I.var \in {"", "const", "f128"}, Plain))

compile_br ==
  compile_inst({"br"}, IF I.a = <<>> THEN Effect(<<>>, <<"br", 1>>) ELSE Effect(I.a, <<"br", R(1) % 2>>))

compile_switch ==
  compile_inst({"switch"}, Checked(I.var = "", Effect(I.a, <<"switch", switch_target(tgt, I.cases, I.w, R(1))>>)))

compile_unreachable == compile_inst({"unreachable"}, Plain)

\* A returned value is extended to 32 or 64 bits where the attribute asks for it.
compile_ret ==
  compile_inst({"ret"},
    LET n == AlignUp32(I.w) IN
    IF I.w = 0 \/ R(1) < 0 THEN Plain
    ELSE IF I.var # "" /\ I.w \notin {W32, W64}
    THEN Effect(I.a, <<"ret", into_extended(I.var = "sext", R(1), I.w, n)>>)
    ELSE Effect(I.a, <<"ret", Low(R(1), I.w)>>))

-----------------------------------------------------------------------------
(* Calls.                                                                   *)

\* An argument with an extension attribute is extended to 64 bits.
add_arg(o) ==
  IF val_ref(o) < 0 THEN Opaque
  ELSE IF I.var \in {"zext", "sext"} THEN into_extended(I.var = "sext", val_ref(o), I.w, W64)
  ELSE Low(val_ref(o), I.w)

\* Only empty inline assembly without operands.
compile_inline_asm == Checked(I.var = "asm", Emit(<<>>, <<>>))

\* The arguments, then an indirect target (the last operand), then the result.
compile_call_generic ==
  LET nargs == IF I.var = "indirect" THEN Len(I.a) - 1 ELSE Len(I.a) IN
  CASE I.var \in {"musttail", "bundle", "cc"} -> Fail
    [] I.var \in {"asm", "asm_other"} -> compile_inline_asm
    [] OTHER -> [Plain EXCEPT !.eff = << <<"call", [k \in 1..nargs |-> add_arg(I.a[k])]>> >>]

compile_call == compile_inst({"call", "asm"}, compile_call_generic)

compile_invoke == compile_inst({"invoke"}, Checked(I.var # "filter", compile_call_generic))
compile_landing_pad == compile_inst({"landingpad"}, Plain)
compile_resume == compile_inst({"resume"}, Plain)

-----------------------------------------------------------------------------
(* compile_intrin, by groups of cases.  Groups that only differ in the      *)
(* instruction or library function they choose share an operation name.     *)

\* Nothing to emit, and no operand that is counted.
intrin_nop == compile_inst({"donothing"}, Emit(<<>>, <<>>))
\* Nothing to emit; the references are given back.
intrin_assume == compile_inst({"assume", "vaend"}, Plain)
\* The second operand is dropped first, the first one copied.
intrin_expect == compile_inst({"expect"}, Emit(<<O(2), O(1)>>, Self(R(1))))
\* memcpy, memset and memmove are library calls.
intrin_memory == compile_inst({"memop"}, Plain)
intrin_load_relative == compile_inst({"load_relative"}, Checked(I.var = "", Plain))
\* The operand is a global, not a value.
intrin_threadlocal == compile_inst({"threadlocal"}, Emit(<<>>, Self(Opaque)))
\* floor to exp; minnum, maxnum, copysign; fabs and sqrt.
intrin_fp_libcall == compile_inst({"fp_libcall"}, Checked(I.var = "", Plain))
intrin_fp_binary == compile_inst({"fp_binary"}, Checked(I.var = "", Plain))
intrin_fp_unary == compile_inst({"fabs", "sqrt"}, Checked(I.var = "" \/ (I.op = "fabs" /\ I.var = "f128"), Plain))
\* For fp128 two library calls; the product is a temporary.
intrin_fmuladd == compile_inst({"fmuladd"}, Checked(I.var # "vec", Plain))

intrin_abs ==
  compile_inst({"abs"},
    CASE I.var \in {"vec", "wide"} -> Fail
      [] I.var = "i128" -> Plain
      [] OTHER -> Data(abs_intrin(I.w, R(1))))
intrin_minmax ==
  compile_inst(MinMax, IF I.var \in {"vec", "wide"} THEN Fail ELSE Data(minmax_intrin(I.op, I.w, R(1), R(2))))
intrin_ptrmask == compile_inst({"ptrmask"}, Data(R(1) & R(2)))

\* arm64 has no 128-bit multiplication with overflow.
handle_overflow_intrin_128_x64 == Plain
handle_overflow_intrin_128_a64 == Checked(I.op \notin {"umul_o", "smul_o"}, Plain)

\* The result and the overflow bit.
compile_overflow_intrin ==
  compile_inst(OverflowOps,
    CASE I.var = "i128" /\ tgt = "x64" -> handle_overflow_intrin_128_x64
      [] I.var = "i128" /\ tgt = "a64" -> handle_overflow_intrin_128_a64
      [] I.w \notin Byteish -> Fail
      [] OTHER -> Data(overflow_intrin(I.op, I.w, R(1), R(2))))
compile_saturating_intrin ==
  compile_inst(SaturatingOps,
    Checked(I.var # "vec" /\ I.w \in Byteish, Data(saturating_intrin(I.op, I.w, R(1), R(2)))))

\* With equal operands a rotation, which drops one reference first.
intrin_fsh_fault ==  \* the rotation's second reference is not given back
  compile_inst({"fshl", "fshr"},
    Checked(I.var # "vec" /\ I.w \in Byteish,
      Emit(IF O(1) = O(2) THEN <<O(1), O(3)>> ELSE I.a,
           Self(fsh_intrin(I.op, I.w, R(1), R(2), R(3))))))
intrin_fsh ==
  compile_inst({"fshl", "fshr"},
    Checked(I.var # "vec" /\ I.w \in Byteish,
      Emit(IF O(1) = O(2) THEN <<O(2), O(1), O(3)>> ELSE I.a,
           Self(fsh_intrin(I.op, I.w, R(1), R(2), R(3))))))
intrin_bswap == compile_inst({"bswap"}, Checked(I.var \in {"", "i128"}, Plain))
intrin_ctpop == compile_inst({"ctpop"}, IF I.var \in {"vec", "wide"} THEN Fail ELSE Data(ctpop_intrin(I.w, R(1))))
intrin_count_zeros ==
  compile_inst({"ctlz", "cttz", "cttz_nz"},
    Checked(I.w \in Byteish, Data(count_zeros_intrin(I.op, I.w, R(1)))))
intrin_bitreverse ==
  compile_inst({"bitreverse"}, IF I.var \in {"vec", "wide"} THEN Fail ELSE Data(bitreverse_intrin(I.w, R(1))))

intrin_trap == compile_inst({"trap"}, Plain)
intrin_prefetch == compile_inst({"prefetch"}, Plain)
\* Constants: the number of a type in the exception table, and false.
intrin_typeid == compile_inst({"typeid"}, Emit(<<>>, Self(Opaque)))
intrin_is_constant == compile_inst({"is_constant"}, Data(0))
compile_is_fpclass == compile_inst({"is_fpclass"}, Checked(I.var = "", Plain))

\* handle_intrin: va_start, va_copy, the stack pointer, the frame and crc32 on
\* both targets, a multiplication of vectors on arm64, a pause on x64; all
\* others are not supported.
handle_intrin_x64 ==
  tgt = "x64" /\ compile_inst({"va_copy", "va_start", "stacksave", "umull", "pause", "unknown"},
                              Checked(I.op \notin {"umull", "unknown"}, Plain))
handle_intrin_a64 ==
  tgt = "a64" /\ compile_inst({"va_copy", "va_start", "stacksave", "umull", "pause", "unknown"},
                              Checked(I.op \notin {"pause", "unknown"}, Plain))

-----------------------------------------------------------------------------
(* The programs.                                                            *)

\* Operations on integers, each with every operand pattern.
Pairs(w) == {<<Arg(ArgX), Arg(ArgY)>>, <<Arg(ArgX), Arg(ArgX)>>}
            \cup {<<Arg(ArgX), Const(c)>> : c \in {1, 2^w - 1}}
            \cup {<<Const(2^(w - 1)), Arg(ArgX)>>}
X == <<Arg(ArgX)>>
IntInsts(w) ==
  {Inst(op, a, w, w, "") : op \in BinOps \cup MinMax \cup SaturatingOps, a \in Pairs(w)}
  \cup {Inst(op, a, w, w + 1, "") : op \in OverflowOps, a \in Pairs(w)}
  \cup {[Inst("icmp", a, w, 1, "") EXCEPT !.pred = p] : p \in Preds, a \in Pairs(w)}
  \cup {Inst(op, X, w, rw, "") : op \in {"zext", "sext"}, rw \in {n \in Widths : n > w}}
  \cup {Inst(op, X, w, w, "") : op \in {"abs", "ctpop", "ctlz", "cttz", "cttz_nz", "bitreverse", "freeze"}}
  \cup {Inst(op, X, w, W64, "") : op \in {"inttoptr", "sitofp", "uitofp"}}
  \cup {Inst(op, a, w, w, "") : op \in {"fshl", "fshr"},
           a \in {<<Arg(ArgX), Arg(ArgX), Arg(ArgY)>>, <<Arg(ArgX), Arg(ArgY), Arg(ArgY)>>}}
  \cup {Inst("expect", a, w, w, "") : a \in Pairs(w)}
  \cup {Inst(op, <<Arg(4), Arg(5), Arg(ArgX)>>, w, W64, n) : n \in {"v2", "v4", "v3"},
           op \in IF w < W8 THEN {} ELSE {"insertelement"}}
  \cup {Inst("extractelement", <<Arg(4), Arg(ArgX)>>, v, W64, n) : n \in {"v2", "v4", "v3"},
           v \in {w} \cap W8..W64}
  \cup {Inst("gep", <<Arg(Ptr), Arg(ArgX)>>, w, W64, ""), Inst("store", <<Arg(ArgX), Arg(Ptr)>>, w, 0, ""),
         Inst("store", <<Arg(ArgX), Arg(Ptr)>>, w, 0, "atomic"), Inst("load", <<Arg(Ptr)>>, W64, w, "atomic"),
         Inst("alloca", X, w, Opaque, "dynamic"), Inst("ret", X, w, 0, ""), Inst("call", X, w, 0, ""),
         Inst("is_constant", X, w, 1, "")}
  \cup {Inst("ret", X, w, 0, e) : e \in {"zext", "sext"}}
  \cup {Inst("call", X, v, 0, e) : e \in {"zext", "sext"}, v \in {w} \ {W64}}
  \cup {[Inst("switch", X, w, 0, "") EXCEPT !.cases = cs] :
           cs \in {l \in CaseLists : \A k \in 1..Len(l) : l[k] < 2^w}}
  \cup (IF w = 1 THEN {Inst("br", X, 1, 0, ""), Inst("select", <<Arg(ArgX), Arg(Ptr), Const(3)>>, W64, W64, "")} ELSE {})
  \cup (IF w < W64 THEN {} ELSE
          {[Inst("icmp_i128", a, w, 1, "") EXCEPT !.pred = p] : p \in Wide128, a \in Pairs(w)}
          \cup {Inst("ptrtoint", X, w, rw, "") : rw \in Widths}
          \cup {Inst("trunc", X, w, rw, "") : rw \in Widths \ {W64}}
          \cup {Inst("ptrmask", a, w, W64, "") : a \in Pairs(w)})

\* Operations on values whose content is opaque: number of operands, whether
\* there is a result, and the variants the handler tells apart.
Shape(n, res, vars_) == [n |-> n, rw |-> IF res THEN Opaque ELSE 0, vars |-> vars_]
Shapes ==
  [add |-> Shape(2, TRUE, {"i128", "vec", "vec_i1"}),
   trunc |-> Shape(1, TRUE, {"vec", "vec_other"}), zext |-> Shape(1, TRUE, {"vec", "from128", "to128"}),
   ptrtoint |-> Shape(1, TRUE, {"vec"}), inttoptr |-> Shape(1, TRUE, {"vec"}),
   sitofp |-> Shape(1, TRUE, {"vec", "wide", "f128_narrow", "f128"}),
   fptoint |-> Shape(1, TRUE, {"", "f128", "vec"}), fpext |-> Shape(1, TRUE, {"", "f128", "vec"}),
   fneg |-> Shape(1, TRUE, {"", "other"}), bitcast |-> Shape(1, TRUE, {""}), freeze |-> Shape(1, TRUE, {""}),
   extractvalue |-> Shape(1, TRUE, {""}), insertvalue |-> Shape(2, TRUE, {""}),
   fadd |-> Shape(2, TRUE, {"", "f128", "none"}), frem |-> Shape(2, TRUE, {"", "none"}),
   select |-> Shape(3, TRUE, {"", "vec"}), extractelement |-> Shape(2, TRUE, {"i1"}),
   insertelement |-> Shape(3, TRUE, {"i1"}), shufflevector |-> Shape(2, TRUE, {"", "other"}),
   icmp_vector |-> Shape(2, TRUE, {"", "other"}), fcmp |-> Shape(2, TRUE, {"", "const", "f128", "other"}),
   load |-> Shape(1, TRUE, {"wide", "unaligned"}), store |-> Shape(2, FALSE, {"", "unaligned"}),
   gep |-> Shape(2, TRUE, {"vector", "wide"}), cmpxchg |-> Shape(3, TRUE, {"", "other"}),
   atomicrmw |-> Shape(2, TRUE, {"", "other"}), fence |-> Shape(0, FALSE, {""}),
   alloca |-> Shape(0, TRUE, {"fixed", "scalable"}), br |-> Shape(0, FALSE, {""}),
   switch |-> Shape(1, FALSE, {"wide"}), unreachable |-> Shape(0, FALSE, {""}), ret |-> Shape(1, FALSE, {""}),
   asm |-> Shape(0, FALSE, {"asm"}), call |-> Shape(2, TRUE, {"", "indirect", "musttail", "bundle", "cc", "asm_other"}),
   invoke |-> Shape(2, TRUE, {"", "indirect", "filter"}), landingpad |-> Shape(0, TRUE, {""}),
   resume |-> Shape(1, FALSE, {""}), donothing |-> Shape(0, FALSE, {""}), assume |-> Shape(2, FALSE, {""}),
   vaend |-> Shape(1, FALSE, {""}), memop |-> Shape(3, FALSE, {""}), load_relative |-> Shape(2, TRUE, {"", "narrow"}),
   threadlocal |-> Shape(0, TRUE, {""}), fp_libcall |-> Shape(2, TRUE, {"", "f128"}),
   fp_binary |-> Shape(2, TRUE, {"", "f128"}), fabs |-> Shape(1, TRUE, {"", "f128", "vec"}),
   sqrt |-> Shape(1, TRUE, {"", "f128"}), fmuladd |-> Shape(3, TRUE, {"", "f128", "vec"}),
   abs |-> Shape(1, TRUE, {"i128", "vec", "wide"}), smin |-> Shape(2, TRUE, {"vec", "wide"}),
   sadd_o |-> Shape(2, TRUE, {"i128"}), umul_o |-> Shape(2, TRUE, {"i128"}), uadd_sat |-> Shape(2, TRUE, {"vec"}),
   fshl |-> Shape(3, TRUE, {"vec"}), bswap |-> Shape(1, TRUE, {"", "i128", "odd"}),
   ctpop |-> Shape(1, TRUE, {"vec", "wide"}), bitreverse |-> Shape(1, TRUE, {"vec", "wide"}),
   trap |-> Shape(0, FALSE, {""}), prefetch |-> Shape(1, FALSE, {""}), typeid |-> Shape(0, TRUE, {""}),
   is_fpclass |-> Shape(1, TRUE, {"", "f128"}),
   va_copy |-> Shape(2, FALSE, {""}), va_start |-> Shape(1, FALSE, {""}), stacksave |-> Shape(0, TRUE, {""}),
   umull |-> Shape(2, TRUE, {""}), pause |-> Shape(0, FALSE, {""}), unknown |-> Shape(1, TRUE, {""})]
Operand == {Arg(4), Arg(5), Const(0)}
OpaqueInsts == UNION {{Inst(op, a, W64, Shapes[op].rw, v) :
                         a \in [1..Shapes[op].n -> Operand], v \in Shapes[op].vars} : op \in DOMAIN Shapes}

\* Instructions that may be compiled together.  Each uses an earlier result.
WidthOf(p, v) == CASE v = Ptr -> W64 [] v \in {ArgX, ArgY} -> iw [] v > NArgs -> p[v - NArgs].rw
Ints(p) == {Value(i) : i \in {j \in 1..Len(p) : p[j].rw > 0 /\ p[j].op # "gep"}} \cup {ArgX}
Ptrs(p) == {Value(i) : i \in {j \in 1..Len(p) : p[j].op = "gep"}} \cup {Ptr}
ChainInsts(p) ==
  LET last == Value(Len(p))
      ints == {v \in Ints(p) : WidthOf(p, v) <= W64}
  IN {Inst("gep", <<Arg(b), x>>, iw, W64, "") : b \in Ptrs(p), x \in {Arg(ArgX), Const(1)}}
     \cup {Inst("load", <<Arg(b)>>, W64, w, "") : b \in Ptrs(p), w \in {1, W8, W32}}
     \cup {Inst("store", <<Arg(v), Arg(b)>>, WidthOf(p, v), 0, "") : v \in ints, b \in Ptrs(p)}
     \cup UNION {{Inst(op, <<Arg(v)>>, WidthOf(p, v), rw, "") : op \in {"zext", "sext"},
                    rw \in {n \in {W32, W64} : n > WidthOf(p, v)}} : v \in ints}
     \cup UNION {{Inst("trunc", <<Arg(v)>>, WidthOf(p, v), rw, "") :
                    rw \in {n \in {1} : n < WidthOf(p, v)}} : v \in ints}
     \cup {[Inst("icmp", <<Arg(v), Arg(v2)>>, iw, 1, "") EXCEPT !.pred = q] :
             v \in {u \in ints : WidthOf(p, u) = iw}, v2 \in {ArgX}, q \in {"sgt"}}
     \cup {Inst("br", <<Arg(v)>>, 1, 0, "") : v \in {u \in ints : WidthOf(p, u) = 1}}
     \cup {Inst("br", <<>>, 1, 0, "")}
Chainable == {"gep", "load", "store", "zext", "sext", "trunc", "icmp", "br"}
Connected(p, i) == \/ p = <<>> /\ i.op \in {"gep", "load", "icmp"}
                   \/ p # <<>> /\ (i.op = "br" \/ \E k \in 1..Len(i.a) : ~i.a[k].c /\ i.a[k].v > NArgs)

Add(i) == /\ prog' = Append(prog, [i EXCEPT !.blk = Blk(prog)])
          /\ UNCHANGED <<phase, tgt, iw, refs, fused, pc, val, mem, out, free>>

BuildInt == phase = "build" /\ prog = <<>> /\ \E i \in IntInsts(iw) : Add(i)
BuildOpaque ==
  /\ phase = "build" /\ iw = ChainWidth
  /\ \/ prog = <<>> /\ \E i \in OpaqueInsts : Add(i)
     \/ /\ Len(prog) = 1 /\ prog[1].rw = Opaque
        /\ \E op \in {"freeze"} \cup (IF prog[1].op = "icmp_vector" THEN {"zext"} ELSE {}) :
             Add(Inst(op, <<Arg(Value(1))>>, W64, Opaque, IF op = "zext" THEN "vec" ELSE ""))
BuildChain ==
  /\ phase = "build" /\ iw = ChainWidth
  /\ Len(prog) < MaxChain
  /\ \A k \in 1..Len(prog) : prog[k].op \in Chainable /\ prog[k].rw # Opaque /\ prog[k].var = ""
  /\ \E i \in ChainInsts(prog) : Connected(prog, i) /\ Add(i)

\* Register contents of a w-bit argument: every value of a narrow one, edges
\* of a wide one, each with the bits above it clear and set.
LowParts(w) == IF w <= W32 THEN 0..(2^w - 1) ELSE {0, 1, 2^(w - 1) - 1, 2^(w - 1), 2^w - 1}
Contents(w) == {l + 2^w * u : l \in LowParts(w), u \in {0, 2^(W64 - w) - 1}}
Halves == {hi * 2^(W64 \div 2) + lo : hi \in {0, 1, 7, 8, 15}, lo \in {0, 1, 15}}

\* switch_func: the argument values are in their registers; the analyzer has
\* counted one reference for each use and one for the definition.
switch_func ==
  /\ phase = "build" /\ prog # <<>>
  /\ \E x \in IF Len(prog) > 1 THEN {2^W64 - 2}
             ELSE IF Uses(ArgX) = 0 THEN {0} ELSE IF prog[1].op = "icmp_i128" THEN Halves ELSE Contents(iw),
        y \in IF Len(prog) > 1 \/ Uses(ArgY) = 0 THEN {0}
             ELSE IF prog[1].op = "icmp_i128" THEN Halves ELSE Contents(iw),
        g \in {2^W64 - 1} \cup {0 : k \in {k \in 1..Len(prog) : prog[k].op \in {"icmp", "icmp_i128"}}} :
        /\ val' = [v \in 1..NArgs |-> [c |-> CASE v = Ptr -> 64 [] v = ArgX -> x [] v = ArgY -> y
                                               [] OTHER -> Opaque, blk |-> 1]]
        /\ free' = g
  /\ refs' = [v \in 1..Value(Len(prog)) |-> Uses(v) + IF v > NArgs THEN 1 ELSE 0]
  /\ phase' = "compile" /\ pc' = 1
  /\ UNCHANGED <<tgt, iw, prog, fused, mem, out>>

Init == /\ phase = "build" /\ tgt \in Targets /\ iw \in Widths
        /\ prog = <<>> /\ refs = <<>> /\ fused = {} /\ pc = 0 /\ val = <<>>
        /\ mem = <<>> /\ out = <<>> /\ free = 0

Next ==
  \/ BuildInt \/ BuildOpaque \/ BuildChain \/ switch_func
  \/ compile_load \/ compile_store \/ compile_gep \/ compile_cmpxchg \/ compile_atomicrmw
  \/ compile_fence \/ compile_alloca
  \/ compile_int_binary_op \/ compile_int_trunc \/ compile_int_ext \/ compile_ptr_to_int
  \/ compile_int_to_ptr \/ compile_int_to_float \/ compile_float_to_int \/ compile_float_ext_trunc
  \/ compile_fneg \/ compile_bitcast \/ compile_freeze \/ compile_extract_value
  \/ compile_insert_value \/ compile_float_binary_op \/ compile_select
  \/ compile_extract_element \/ compile_insert_element \/ compile_shuffle_vector
  \/ compile_icmp \/ compile_icmp_vector \/ compile_fcmp \/ compile_br \/ compile_switch
  \/ compile_unreachable \/ compile_ret \/ compile_call \/ compile_invoke
  \/ compile_landing_pad \/ compile_resume
  \/ intrin_nop \/ intrin_assume \/ intrin_expect \/ intrin_memory \/ intrin_load_relative
  \/ intrin_threadlocal \/ intrin_fp_libcall \/ intrin_fp_binary \/ intrin_fp_unary
  \/ intrin_fmuladd \/ intrin_abs \/ intrin_minmax \/ intrin_ptrmask
  \/ compile_overflow_intrin \/ compile_saturating_intrin \/ intrin_fsh \/ intrin_bswap
  \/ intrin_ctpop \/ intrin_count_zeros \/ intrin_bitreverse \/ intrin_trap
  \/ intrin_prefetch \/ intrin_typeid \/ intrin_is_constant \/ compile_is_fpclass
  \/ handle_intrin_x64 \/ handle_intrin_a64

Spec == Init /\ [][Next]_vars

-----------------------------------------------------------------------------
(* What LLVM defines: the function run instruction by instruction on the    *)
(* low bits of its arguments.                                               *)

IsPoison(ins, x, y) ==
  LET w == ins.w IN
  \/ Poison \in {x, y}
  \/ ins.op \in {"udiv", "urem", "sdiv", "srem"} /\ y = 0
  \/ ins.op \in {"sdiv", "srem"} /\ y = 2^w - 1 /\ x = 2^(w - 1)
  \/ ins.op \in Shifts /\ y >= w
  \/ ins.op = "cttz_nz" /\ x = 0
  \/ ins.op \in {"extractelement", "insertelement"} /\ ins.var # "i1" /\ y >= VecLen(ins.var)

\* The value of instruction ins; x, y, z are its operands, m the memory.
Defined(ins, x, y, z, m) ==
  LET w == ins.w
      op == ins.op
      sx == SVal(x, w)
      sy == SVal(y, w)
      less == IF op \in {"smin", "smax", "scmp"} THEN sx < sy ELSE x < y
  IN CASE IsPoison(ins, x, y) -> Poison
       [] op \in BinOps -> EncodeBin(op, w, x, y)
       [] op \in {"icmp", "icmp_i128"} -> IF Compare(ins.pred, w, x, y) THEN 1 ELSE 0
       [] op \in {"zext", "expect", "freeze", "uitofp", "inttoptr"} -> x
       [] op = "sext" -> Low(sx, ins.rw)
       [] op \in {"trunc", "ptrtoint"} -> Low(x, ins.rw)
       [] op = "sitofp" -> Low(sx, W64)
       [] op = "ptrmask" -> x & y
       [] op = "abs" -> Low(Abs(sx), w)
       [] op \in {"smin", "umin"} -> IF less THEN x ELSE y
       [] op \in {"smax", "umax"} -> IF less THEN y ELSE x
       [] op \in {"scmp", "ucmp"} -> IF x = y THEN 0 ELSE IF less THEN 2^w - 1 ELSE Low(1, w)
       [] op \in OverflowOps -> overflow_intrin(op, w, x, y)
       [] op \in SaturatingOps -> saturating_intrin(op, w, x, y)
       [] op = "fshl" -> Low((x * 2^w + y) \div 2^(w - (z % w)), w)
       [] op = "fshr" -> Low((x * 2^w + y) \div 2^(z % w), w)
       [] op = "ctpop" -> Low(Ones(x, w), w)
       [] op = "ctlz" -> Low(LeadingZeros(x, w), w)
       [] op \in {"cttz", "cttz_nz"} -> Low(TrailingZeros(x, w), w)
       [] op = "bitreverse" -> Reversed[w, x]
       [] op = "is_constant" -> 0
       [] op \in {"extractelement", "insertelement"} -> y
       [] op = "select" -> IF x = 1 THEN y ELSE z
       [] op = "gep" -> Low(x + sy, W64)
       [] op = "load" -> IF x \notin DOMAIN m THEN Low(InitMem(x), ins.rw)
                         ELSE IF m[x].w \in Byteish \/ m[x].w = ins.rw THEN Low(m[x].c, ins.rw)
                         ELSE Poison

\* What instruction ins does that can be observed.
Observed(ins, x, y) ==
  LET ext(n) == IF ins.var = "sext" THEN Low(SVal(x, ins.w), n) ELSE x IN
  CASE Poison \in {x, y} -> << <<"poison">> >>
    [] ins.op = "store" -> << <<"store", y, x>> >>
    [] ins.op = "alloca" /\ ins.var = "dynamic" -> << <<"alloca", x>> >>
    [] ins.op = "br" -> << <<"br", IF ins.a = <<>> THEN 1 ELSE x>> >>
    [] ins.op = "switch" -> << <<"switch", IF \E k \in 1..Len(ins.cases) : ins.cases[k] = x THEN x ELSE NoCase>> >>
    [] ins.op = "ret" /\ x # Opaque -> << <<"ret", IF ins.var = "" THEN x ELSE ext(AlignUp32(ins.w))>> >>
    [] ins.op \in {"call", "invoke"} ->
         << <<"call", [k \in 1..(IF ins.var = "indirect" THEN Len(ins.a) - 1 ELSE Len(ins.a)) |->
                        IF x = Opaque \/ ins.rw = Opaque THEN IF ins.a[k].c THEN 0 ELSE Opaque
                        ELSE IF ins.var = "" THEN x ELSE ext(W64)]>> >>
    [] OTHER -> <<>>

\* Values, memory and effects after the first n instructions.
RefState ==
  LET S[n \in 0..Len(prog)] ==
        IF n = 0 THEN [v |-> [v \in 1..NArgs |-> IF val[v].c < 0 THEN Opaque
                                                  ELSE Low(val[v].c, WidthOf(prog, v))],
                       m |-> <<>>, out |-> <<>>]
        ELSE LET ins == prog[n]
                 s == S[n - 1]
                 o(k) == IF k > Len(ins.a) THEN 0
                         ELSE IF ins.a[k].c THEN ins.a[k].v
                         ELSE s.v[ins.a[k].v]
                 y == IF ins.op = "insertelement" THEN o(3) ELSE o(2)
             IN [v |-> Append(s.v, IF ins.rw <= 0 THEN Opaque
                                   ELSE Defined(ins, o(1), y, o(3), s.m)),
                 m |-> IF ins.op # "store" \/ ins.rw = Opaque THEN s.m
                       ELSE (o(2) :> [c |-> o(1), w |-> ins.w]) @@ s.m,
                 out |-> s.out \o Observed(ins, o(1), y)]
  IN S[Len(prog)]

-----------------------------------------------------------------------------
(* Properties.                                                              *)

\* The instructions compiled so far, alone or with an earlier one.
Compiled == {i \in 1..Len(prog) : i < pc \/ i \in fused}
PendingUses(v) == Cardinality({x \in UNION {{<<i, k>> : k \in 1..Len(prog[i].a)} : i \in 1..Len(prog)} :
                                 x[1] \notin Compiled /\ prog[x[1]].a[x[2]] = Arg(v)})
Running == phase \in {"compile", "done"}

\* Cases where the emitted code looks at bits LLVM leaves undefined (see the
\* README), and the i128 comparisons of arm64.
Deviates(ins) ==
  \/ ins.op \in Shifts /\ 2^ins.w < AlignUp32(ins.w)
  \/ ins.op \in {"extractelement", "insertelement"} /\ ins.var = "v3" /\ ins.w < W64
  \/ ins.op = "icmp_i128" /\ tgt = "a64" /\ ins.pred \in {"ugt", "ule", "sgt", "sle"}

\* Once a value is in a register, the references the allocator still counts for
\* it are exactly the uses in instructions still to be compiled, whichever
\* instructions were compiled together and on whichever path of the handler: a
\* missing val_ref would keep it alive for ever, one too many free it early.
RefsPending == Running => \A v \in DOMAIN val : refs[v] = PendingUses(v)

\* An operand of an instruction still to be compiled whose own instruction has
\* been compiled has a value: fusing leaves no value behind that is asked for.
NeededDefined ==
  Running => \A j \in (1..Len(prog)) \ Compiled : \A k \in 1..Len(prog[j].a) :
    LET o == prog[j].a[k] IN
    ~o.c /\ (o.v <= NArgs \/ o.v - NArgs \in Compiled) => o.v \in DOMAIN val

\* A result comes to life in the block of its own instruction, also when it is
\* defined by an instruction before it: the live range the analyzer computed
\* starts there.
DefInBlock == Running => \A v \in DOMAIN val : v > NArgs => val[v].blk = prog[v - NArgs].blk

\* The low bits of every integer in a register are those LLVM defines, whatever
\* the upper bits of its operands hold.
LowBits ==
  Running => LET s == RefState IN
    \A i \in 1..Len(prog) :
      /\ Value(i) \in DOMAIN val
      /\ s.v[Value(i)] >= 0
      /\ ~\E j \in 1..i : Deviates(prog[j])
      => Low(val[Value(i)].c, prog[i].rw) = s.v[Value(i)]

\* Stores, branches, calls and returns happen in program order with the values
\* LLVM defines, up to the first that depends on poison.
EffectsRight ==
  Running => LET s == RefState IN
    \A k \in 1..Len(out) :
      out[k] = s.out[k] \/ \E j \in 1..k : s.out[j] = <<"poison">>

\* Comparisons of 128-bit integers, on both targets: "Compare the ints using
\* carried subtraction" yields the predicate of the two numbers.
Compares128 ==
  phase = "done" /\ prog[1].op = "icmp_i128" => val[Value(1)].c % 2 = RefState.v[Value(1)]

=============================================================================
