---------------------------- MODULE MCFuncFrame ----------------------------
(* Instances of FuncFrame for TLC. *)
EXTENDS FuncFrame

\* bx, r12, r13
SomeX64 == {3, 12, 13}
\* x19 to x21, d8 to d10
SomeA64 == {19, 20, 21, 40, 41, 42}
====
