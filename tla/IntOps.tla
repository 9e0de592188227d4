------------------------------- MODULE IntOps -------------------------------
(***************************************************************************)
(* Integers in registers.  A value of an integer type of w bits lives in a  *)
(* register of W64 bits of which only the low w bits mean anything: "For    *)
(* integers, the upper bits are undefined".  Every instruction that looks at*)
(* more than the low bits of its result's width has to extend its operands  *)
(* first.  This module holds, for the integer instructions of LLVM, what    *)
(* the code emitted for them computes from whole registers and what LLVM    *)
(* defines, so that LLVMLower can compare the two.                          *)
(*                                                                          *)
(* The widths 8, 16, 32 and 64 are constants, so that small numbers of bits *)
(* can stand for them.                                                      *)
(***************************************************************************)
EXTENDS Integers, Sequences, FiniteSets, Bitwise

CONSTANTS W8, W16, W32, W64

ASSUME WidthsAssumption ==
  /\ {W8, W16, W32, W64} \subseteq Nat
  /\ 0 < W8 /\ W8 < W16 /\ W16 < W32 /\ W32 < W64

Byteish == {W8, W16, W32, W64}

Low(x, w) == x % 2^w
SVal(x, w) == LET l == Low(x, w) IN IF l >= 2^(w - 1) THEN l - 2^w ELSE l

\* util::align_up(width, 32) for a width of at most 64.
AlignUp32(w) == IF w <= W32 THEN W32 ELSE W64

\* ValuePartRef::into_extended: the low `from` bits as a number of `to` bits.
into_extended(sign, x, from, to) ==
  Low(IF sign THEN SVal(x, from) ELSE Low(x, from), to)

-----------------------------------------------------------------------------
(* The encode functions (encode_template.c): C functions on n-bit registers.*)

BinOps == {"add", "sub", "mul", "udiv", "sdiv", "urem", "srem",
           "and", "or", "xor", "shl", "lshr", "ashr"}
Symmetric == {"add", "mul", "and", "or", "xor"}
SignedOps == {"sdiv", "srem", "ashr"}
NeedsLhsExt_fault == {"udiv", "sdiv", "urem", "srem", "ashr"}  \* lshr shifts garbage in
NeedsLhsExt == {"udiv", "sdiv", "urem", "srem", "lshr", "ashr"}
NeedsRhsExt == {"udiv", "sdiv", "urem", "srem"}
Shifts == {"shl", "lshr", "ashr"}

Abs(x) == IF x < 0 THEN -x ELSE x
\* C's division truncates towards zero.
QuotC(a, b) == LET q == Abs(a) \div Abs(b) IN IF (a < 0) = (b < 0) THEN q ELSE -q
RemC(a, b) == a - b * QuotC(a, b)

\* One n-bit machine operation; a shift uses its amount modulo n.
EncodeBin(op, n, x, y) ==
  LET a == Low(x, n)  b == Low(y, n)  k == b % n IN
  Low(CASE op = "add" -> a + b
        [] op = "sub" -> a - b
        [] op = "mul" -> a * b
        [] op = "udiv" -> IF b = 0 THEN 0 ELSE a \div b
        [] op = "urem" -> IF b = 0 THEN 0 ELSE a % b
        [] op = "sdiv" -> IF b = 0 THEN 0 ELSE QuotC(SVal(a, n), SVal(b, n))
        [] op = "srem" -> IF b = 0 THEN 0 ELSE RemC(SVal(a, n), SVal(b, n))
        [] op = "and" -> a & b
        [] op = "or" -> a | b
        [] op = "xor" -> a ^^ b
        [] op = "shl" -> a * 2^k
        [] op = "lshr" -> a \div 2^k
        [] op = "ashr" -> SVal(a, n) \div 2^k, n)

Preds == {"eq", "ne", "ugt", "uge", "ult", "ule", "sgt", "sge", "slt", "sle"}
SignedPreds == {"sgt", "sge", "slt", "sle"}

Compare(p, n, x, y) ==
  LET a == IF p \in SignedPreds THEN SVal(x, n) ELSE Low(x, n)
      b == IF p \in SignedPreds THEN SVal(y, n) ELSE Low(y, n)
  IN CASE p = "eq" -> a = b
       [] p = "ne" -> a # b
       [] p \in {"ugt", "sgt"} -> a > b
       [] p \in {"uge", "sge"} -> a >= b
       [] p \in {"ult", "slt"} -> a < b
       [] p \in {"ule", "sle"} -> a <= b

\* swap_jump: the predicate of the exchanged operands.
swap_jump(p) ==
  CASE p \in {"eq", "ne"} -> p
    [] p = "ugt" -> "ult" [] p = "uge" -> "ule" [] p = "ult" -> "ugt" [] p = "ule" -> "uge"
    [] p = "sgt" -> "slt" [] p = "sge" -> "sle" [] p = "slt" -> "sgt" [] p = "sle" -> "sge"

BitAt(x, k) == (x \div 2^k) % 2
Ones(x, n) == Cardinality({k \in 0..(n - 1) : BitAt(x, k) = 1})
LeadingZeros(x, n) == Cardinality({k \in 0..(n - 1) : x < 2^(n - 1 - k)})
TrailingZeros(x, n) == Cardinality({k \in 0..(n - 1) : x % 2^(k + 1) = 0})
Reversed[n \in Nat, x \in Nat] ==
  IF n = 0 THEN 0 ELSE 2^(n - 1) * (x % 2) + Reversed[n - 1, x \div 2]

-----------------------------------------------------------------------------
(* The values the emitted code computes: x, y, z are whole registers, xc    *)
(* and yc say whether an operand is a constant, g is what a register held   *)
(* where an instruction writes only its low part.                           *)

\* compile_int_binary_op for one scalar part.
int_binary_op(op, w, x, y, xc, yc) ==
  LET swap == op \in Symmetric /\ xc /\ ~yc
      l == IF swap THEN y ELSE x
      r == IF swap THEN x ELSE y
      n == AlignUp32(w)
      ext(v, needed) == IF n # w /\ op \in needed
                        THEN into_extended(op \in SignedOps, v, w, n) ELSE v
  IN EncodeBin(op, n, ext(l, NeedsLhsExt), ext(r, NeedsRhsExt))

\* compile_icmp: the operands extended to 32 or 64 bits, a constant on the right.
icmp_flag(p, w, x, y, xc, yc) ==
  LET swap == xc /\ ~yc
      q == IF swap THEN swap_jump(p) ELSE p
      n == AlignUp32(w)
      ext(v) == IF w \notin {W32, W64} THEN into_extended(p \in SignedPreds, v, w, n) ELSE v
  IN IF Compare(q, n, ext(IF swap THEN y ELSE x), ext(IF swap THEN x ELSE y)) THEN 1 ELSE 0

\* Flags of the subtraction a - b - borrow of n-bit numbers, as both targets
\* derive their conditions from them (carry: no borrow was needed).
SubFlags(n, a, b, borrow) ==
  LET r == Low(a - b - borrow, n) IN
  [z |-> r = 0, c |-> a >= b + borrow, n |-> r >= 2^(n - 1),
   v |-> SVal(a, n) - SVal(b, n) - borrow # SVal(r, n)]
Condition(p, f) ==
  CASE p = "eq" -> f.z
    [] p = "ne" -> ~f.z
    [] p = "uge" -> f.c
    [] p = "ult" -> ~f.c
    [] p = "ugt" -> f.c /\ ~f.z
    [] p = "ule" -> ~f.c \/ f.z
    [] p = "sge" -> f.n = f.v
    [] p = "slt" -> f.n # f.v
    [] p = "sgt" -> ~f.z /\ f.n = f.v
    [] p = "sle" -> f.z \/ f.n # f.v

\* compile_icmp for i128: x and y stand for two registers of half the width.
\* Equality looks at both parts; the others subtract the low parts, then the
\* high parts with the borrow.  x64 exchanges the operands of the conditions
\* that depend on the zero flag.
icmp_i128(target, p, x, y) ==
  LET h == W64 \div 2
      swap == target = "x64" /\ p \in {"ugt", "ule", "sgt", "sle"}
      q == IF swap THEN swap_jump(p) ELSE p
      a == IF swap THEN y ELSE x
      b == IF swap THEN x ELSE y
      low == SubFlags(h, a % 2^h, b % 2^h, 0)
      high == SubFlags(h, a \div 2^h, b \div 2^h, IF low.c THEN 0 ELSE 1)
      holds == CASE p = "eq" -> a = b [] p = "ne" -> a # b [] OTHER -> Condition(q, high)
  IN IF holds THEN 1 ELSE 0

\* generate_raw_set writes the low byte, the rest keeps what it held; with
\* zext, and for generate_raw_mask, the whole register.
raw_set(bit, zext, g) == IF zext THEN bit ELSE Low(bit, W8) + 2^W8 * Low(g, W64 - W8)
raw_mask(bit) == IF bit = 1 THEN 2^W64 - 1 ELSE 0

\* abs, minimum, maximum and three-way comparison: sign- or zero-extended first.
abs_intrin(w, x) ==
  LET n == AlignUp32(w) IN Low(Abs(SVal(IF w = n THEN x ELSE into_extended(TRUE, x, w, n), n)), n)
MinMax == {"smin", "smax", "umin", "umax", "scmp", "ucmp"}
minmax_intrin(op, w, x, y) ==
  LET n == AlignUp32(w)
      sign == op \in {"scmp", "smin", "smax"}
      ext(v) == IF w = n THEN v ELSE into_extended(sign, v, w, n)
      num(v) == IF sign THEN SVal(ext(v), n) ELSE Low(ext(v), n)
  IN Low(CASE op \in {"smin", "umin"} -> IF num(x) < num(y) THEN num(x) ELSE num(y)
           [] op \in {"smax", "umax"} -> IF num(x) > num(y) THEN num(x) ELSE num(y)
           [] op \in {"scmp", "ucmp"} -> IF num(x) < num(y) THEN -1 ELSE IF num(x) > num(y) THEN 1 ELSE 0, n)

\* The encode functions of the overflow and saturating intrinsics take numbers
\* of 8 to 64 bits: the exact result, reduced or clamped.
OverflowOps == {"uadd_o", "sadd_o", "usub_o", "ssub_o", "umul_o", "smul_o"}
SaturatingOps == {"uadd_sat", "sadd_sat", "usub_sat", "ssub_sat"}
Exact(op, w, x, y) ==
  LET sign == op \in {"sadd_o", "ssub_o", "smul_o", "sadd_sat", "ssub_sat"}
      a == IF sign THEN SVal(x, w) ELSE Low(x, w)
      b == IF sign THEN SVal(y, w) ELSE Low(y, w)
  IN [r |-> CASE op \in {"uadd_o", "sadd_o", "uadd_sat", "sadd_sat"} -> a + b
              [] op \in {"usub_o", "ssub_o", "usub_sat", "ssub_sat"} -> a - b
              [] op \in {"umul_o", "smul_o"} -> a * b,
      lo |-> IF sign THEN -(2^(w - 1)) ELSE 0,
      hi |-> IF sign THEN 2^(w - 1) - 1 ELSE 2^w - 1]
overflow_intrin(op, w, x, y) ==
  LET e == Exact(op, w, x, y) IN
  Low(e.r, w) + 2^w * (IF e.r < e.lo \/ e.r > e.hi THEN 1 ELSE 0)
saturating_intrin(op, w, x, y) ==
  LET e == Exact(op, w, x, y) IN
  Low(IF e.r < e.lo THEN e.lo ELSE IF e.r > e.hi THEN e.hi ELSE e.r, w)

\* fshl and fshr; the rotate functions get the first operand twice.
fsh_intrin(op, w, x, y, z) ==
  LET k == Low(z, w) % w  a == Low(x, w)  b == Low(y, w) IN
  IF op = "fshl" THEN Low((a * 2^k) | (b \div 2^(w - k)), w)
  ELSE Low((a * 2^(w - k)) | (b \div 2^k), w)

\* ctpop extends, cttz and ctlz of 8 and 16 bits look at the low part only.
ctpop_intrin(w, x) ==
  LET n == AlignUp32(w) IN Ones(IF w = n THEN Low(x, w) ELSE into_extended(FALSE, x, w, n), n)
count_zeros_intrin(op, w, x) ==
  CASE op = "ctlz" -> LeadingZeros(Low(x, w), w)
    [] op = "cttz" -> IF Low(x, w) = 0 THEN w ELSE TrailingZeros(Low(x, AlignUp32(w)), AlignUp32(w))
    [] op = "cttz_nz" -> TrailingZeros(Low(x, AlignUp32(w)), AlignUp32(w))

\* bitreverse: the value is shifted to the top of the register first.
bitreverse_intrin(w, x) ==
  LET n == AlignUp32(w) IN Reversed[n, Low(x * 2^(n - w), n)]

\* The element a variable index selects: masked, or reduced by a 64-bit urem.
element_index(n, x) ==
  IF \E k \in 0..W64 : n = 2^k THEN x & (n - 1) ELSE Low(x, W64) % n

-----------------------------------------------------------------------------
(* compile_switch: the cases sorted as unsigned numbers, and the code that  *)
(* finds the one equal to the condition: comparisons for a few cases, a jump*)
(* table where they lie densely (x64), else one step of a binary search.    *)
CONSTANTS MaxLinear,  \* number of cases compared one by one; 4 in the code
          MaxSpread   \* values per case below which a table is built; 8

NoCase == -1

\* The case the code jumps to for the n-bit register content x, NoCase for the
\* default label.  sorted is the ascending sequence of the case values.
build_range(target, sorted, n, x) ==
  LET c == Low(x, n)
      R[b \in 0..Len(sorted), e \in 0..Len(sorted)] ==
        LET num == e - b
            case(i) == sorted[i + 1]
            spread == case(e - 1) - case(b)
            half == b + num \div 2
        IN IF num <= MaxLinear
           THEN IF \E i \in b..(e - 1) : c = case(i) THEN c ELSE NoCase
           ELSE IF target = "x64" /\ spread # 2^W64 - 1 /\ spread \div num < MaxSpread
           THEN IF c < case(b) \/ c > case(e - 1) THEN NoCase
                ELSE IF spread + 1 = num THEN case(b + (c - case(b)))
                ELSE IF \E i \in b..(e - 1) : case(i) - case(b) = c - case(b) THEN c ELSE NoCase
           ELSE IF c = case(half) THEN c
           ELSE IF c > case(half) THEN R[half + 1, e] ELSE R[b, half]
  IN R[0, Len(sorted)]

\* The condition is zero-extended to 32 or 64 bits.
switch_target_fault(target, sorted, w, x) ==  \* the condition is not extended
  build_range(target, sorted, AlignUp32(w), x)
switch_target(target, sorted, w, x) ==
  LET n == AlignUp32(w) IN build_range(target, sorted, n, IF w = n THEN x ELSE into_extended(FALSE, x, w, n))

=============================================================================
