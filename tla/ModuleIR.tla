------------------------------ MODULE ModuleIR ------------------------------
(***************************************************************************)
(* The part of an LLVM module that its object file is about.               *)
(*                                                                         *)
(* A module has a target (x86-64 or AArch64), functions, variables,        *)
(* aliases, constructors and the kinds of its comdats.  A function's body  *)
(* is a sequence of items: a call (with clauses for an invoke), an address *)
(* taken, code of n bytes, the landing pad n, or an instruction that the   *)
(* compiler does not support.  An initializer is a tree of arrays and      *)
(* structs with integers, pointers and relative pointers at its leaves.    *)
(***************************************************************************)
EXTENDS Integers, Sequences, SequencesExt

Prologue == 4     \* bytes before the first item

\* The bytes of a call or a jump, and of an item.  An invoke (n = 0) whose
\* unwind block has phis is followed by a jump to its normal block, the landing
\* pad, and a jump from there to the unwind block.
CallLen(x64) == IF x64 THEN 5 ELSE 4
HasPhi(it) == it.op = "invoke" /\ it.n = 0
ItemLen(x64, it) == CASE it.op \in {"call", "invoke", "libcall"} ->
                             CallLen(x64) * IF HasPhi(it) THEN 3 ELSE 1
                      [] it.op = "addr" -> IF x64 THEN 7 ELSE 8
                      [] it.op = "code" -> it.n
                      [] OTHER -> 0
ItemOff(x64, f, k) ==
    FoldLeft(LAMBDA n, it : n + ItemLen(x64, it), Prologue, SubSeq(f.body, 1, k - 1))
ReturnOff(x64, f, k) == ItemOff(x64, f, k) + CallLen(x64)
PadOff(x64, f, k) ==
    IF HasPhi(f.body[k]) THEN ReturnOff(x64, f, k) + CallLen(x64)
    ELSE ItemOff(x64, f, CHOOSE j \in DOMAIN f.body :
                             f.body[j].op = "pad" /\ f.body[j].n = f.body[k].n)

Defined(m) == SelectSeq(m.funcs, LAMBDA f : ~f.decl)
Calls(f) == {k \in DOMAIN f.body : f.body[k].op \in {"call", "invoke", "libcall"}}

\* The leaves of an initializer, with their offsets.
RECURSIVE Leaves(_, _)
Leaves(c, off) ==
    CASE c.k \in {"array", "struct"} ->
             UNION {Leaves(c.elts[i], off + (IF c.k = "array" THEN (i - 1) * c.esz ELSE c.offs[i])) :
                       i \in DOMAIN c.elts}
      [] c.k = "fold" -> Leaves(c.elts[1], off)
      [] c.k \in {"zero", "undef"} -> {}
      [] OTHER -> {<<off, c>>}
====
