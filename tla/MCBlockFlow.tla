---------------------------- MODULE MCBlockFlow ----------------------------
(***************************************************************************)
(* Instances of BlockFlow.  CFGs: all graphs of four blocks with up to two *)
(* successors each, in which every block has an edge from an earlier one,  *)
(* or the last block is not reachable; and some with five blocks.          *)
(***************************************************************************)
EXTENDS BlockFlow

Lists(S) == {<<>>} \cup {<<a>> : a \in S}
              \cup {s \in S \X S : s[1] < s[2]}
Follows(g, b) == \E p \in 0 .. b - 1 : b \in ToSet(g[p])
Small == {g \in [0 .. 3 -> Lists(1 .. 3)] :
            /\ Follows(g, 1) /\ Follows(g, 2)
            /\ Follows(g, 3) \/ g[3] = <<1>>}

Graph(s) == [b \in 0 .. Len(s) - 1 |-> s[b + 1]]
Five == {Graph(<< <<1>>, <<2, 4>>, <<3>>, <<2, 1>>, <<>> >>),     \* nested loops
         Graph(<< <<1>>, <<2>>, <<3>>, <<3, 4>>, <<2, 1>> >>),    \* three levels
         Graph(<< <<1>>, <<2>>, <<3, 4>>, <<1, 2>>, <<4>> >>),    \* out of two loops into another
         Graph(<< <<1, 2>>, <<2, 3>>, <<1, 4>>, <<1>>, <<2>> >>), \* irreducible
         Graph(<< <<1>>, <<3, 2>>, <<1, 4>>, <<1, 4>>, <<>> >>)}  \* two back edges

MCCFGs == Small \cup Five

\* A loop of one block, entered from the block before it.
SelfLoop == {Graph(<< <<1>>, <<1, 2>>, <<>> >>)}
====
