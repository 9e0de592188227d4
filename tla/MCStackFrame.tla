---------------------------- MODULE MCStackFrame ----------------------------
(* Instances of StackFrame for TLC. *)
EXTENDS StackFrame

\* Values of one or more parts, and allocas.
SomeRequests == {[size |-> 1, align |-> 1], [size |-> 2, align |-> 2],
                 [size |-> 3, align |-> 1], [size |-> 8, align |-> 8],
                 [size |-> 16, align |-> 16], [size |-> 24, align |-> 8]}

\* The padding loop of allocate_stack_slot, as it is written.
cnt_tz(n) == CHOOSE k \in 0 .. 31 : n % 2^k = 0 /\ (n \div 2^k) % 2 = 1
RECURSIVE PadLoop(_, _)
PadLoop(fs, a) ==
    LET k == 2^cnt_tz(fs)
    IN  IF k >= a THEN {} ELSE {SlotAt(fs, k)} \cup PadLoop(fs + k, a)

\* The closed form of the padding is what the loop pushes to the free lists.
ASSUME PadIsLoop ==
    \A fs \in 1 .. 256, a \in Aligns : Pad(fs, a) = PadLoop(fs, a)
====
