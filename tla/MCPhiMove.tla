----------------------------- MODULE MCPhiMove -----------------------------
(***************************************************************************)
(* Instances of PhiMove for TLC.  SpecLong is one edge, with more phis     *)
(* than a word of the bit set has bits: they keep their values on the back *)
(* edge of a loop, except the last two, which are exchanged.               *)
(***************************************************************************)
EXTENDS PhiMove

TwoBanks == [i \in 0 .. 2 |-> i % 2]

Exchanged == [n \in Nodes |-> CASE n = N - 1 -> N - 2 [] n = N - 2 -> N - 1 [] OTHER -> n]
InitLong  == /\ back = TRUE /\ num_parts = 1
             /\ inc = Exchanged /\ own = [r \in Regs |-> Free]
             /\ Init
SpecLong  == InitLong /\ [][Next]_vars
====
