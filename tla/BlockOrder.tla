----------------------------- MODULE BlockOrder -----------------------------
(***************************************************************************)
(* Analyzer::build_block_layout: the order in which the blocks of a        *)
(* function are compiled, and its loops, from the control-flow graph.      *)
(*                                                                         *)
(* The blocks are 0 .. n-1 in the order of the IR, 0 is the entry, which   *)
(* has no predecessors.  A graph is a function g from blocks to the        *)
(* sequences of their successors.  The walks over the graph keep their     *)
(* state in a record and are written as recursions where the code has an   *)
(* explicit stack of states (identify_loops) or a lambda that calls itself.*)
(* Op_fault is a faulty variant of Op.                                     *)
(***************************************************************************)
EXTENDS Integers, Sequences, FiniteSets, SequencesExt

NoLoop == -1

----------------------------------------------------------------------------
(* Reverse post-order.  `seen' and `listed' are the bits 0b100 and 0b1000  *)
(* of block_info2, `incoming' its two low bits.                            *)

\* The successors to visit, by their place in the IR: each is visited before
\* the ones left of it, and thus listed behind them.
NewSuccs(g, b, seen) == SortSeq(SelectSeq(g[b], LAMBDA s : s \notin seen), <)

Capped(n) == IF n > 2 THEN 2 ELSE n
Counted(g, b, incoming) ==
    [s \in DOMAIN g |->
        Capped(incoming[s] + Len(SelectSeq(g[b], LAMBDA t : t = s)))]

RECURSIVE Walk(_, _)
Walk(g, w) ==
    IF w.stack = <<>> THEN w
    ELSE LET b == Last(w.stack)
         IN  Walk(g,
               IF b \in w.listed THEN [w EXCEPT !.stack = Front(@)]
               ELSE IF b \in w.seen
               THEN [w EXCEPT !.stack = Front(@), !.listed = @ \cup {b}, !.out = <<b>> \o @]
               ELSE [w EXCEPT !.stack = @ \o NewSuccs(g, b, w.seen \cup {b}),
                              !.seen = @ \cup {b},
                              !.incoming = Counted(g, b, @)])

\* The reachable blocks; unreachable ones are dropped from the list.
build_rpo_block_order(g) ==
    Walk(g, [stack |-> <<0>>, seen |-> {}, listed |-> {}, out |-> <<>>,
             incoming |-> [b \in DOMAIN g |-> 0]])

----------------------------------------------------------------------------
(* Loops.  From here on blocks are numbered in reverse post-order, and     *)
(* header 0 stands for none.                                               *)

RECURSIVE tag_lhead_rec(_, _, _)
tag_lhead_rec(i, cur1, cur2) ==
    LET ih == i.iloop_header[cur1]
    IN  IF ih = 0 THEN [i EXCEPT !.iloop_header[cur1] = cur2]
        ELSE IF ih = cur2 THEN i
        ELSE IF i.dfsp_pos[ih] < i.dfsp_pos[cur2]
        THEN tag_lhead_rec([i EXCEPT !.iloop_header[cur1] = cur2], cur2, ih)
        ELSE tag_lhead_rec(i, ih, cur2)
tag_lhead(i, b, h) == IF b = h \/ h = 0 THEN i ELSE tag_lhead_rec(i, b, h)

\* The innermost header around h on the current path, h included.
OnPath_left(i, h) == IF i.dfsp_pos[h] > 0 THEN h ELSE 0
RECURSIVE OnPath(_, _)
OnPath(i, h) == IF h = 0 \/ i.dfsp_pos[h] > 0 THEN h ELSE OnPath(i, i.iloop_header[h])

\* Blocks on the path have a position; a block that was left has 0.
RECURSIVE Traverse(_, _, _, _)
Traverse(g, i, b, pos) ==
    LET Succ(j, s) ==
            LET k == IF s = b THEN [j EXCEPT !.self_loop = @ \cup {b}] ELSE j
            IN  IF s \notin k.traversed
                THEN LET m == Traverse(g, k, s, pos + 1) IN tag_lhead(m, b, m.iloop_header[s])
                ELSE tag_lhead(k, b, OnPath(k, s))
        entered == [i EXCEPT !.traversed = @ \cup {b}, !.dfsp_pos[b] = pos]
    IN  [FoldLeft(Succ, entered, g[b]) EXCEPT !.dfsp_pos[b] = 0]

identify_loops(g) ==
    LET zero == [b \in DOMAIN g |-> 0]
        i == Traverse(g, [traversed |-> {}, self_loop |-> {}, dfsp_pos |-> zero,
                          iloop_header |-> zero], 0, 1)
    IN  [loop_parent |-> i.iloop_header,
         loop_heads  |-> {0} \cup i.self_loop
                            \cup {i.iloop_header[b] : b \in DOMAIN g}]

----------------------------------------------------------------------------
(* The loop tree: `loops' from 0, the whole function, and `loop_idx', the  *)
(* loop of each block.                                                     *)

AddLoop(t, b, parent) ==
    LET l == Cardinality(DOMAIN t.loops)
    IN  [t EXCEPT !.loops = [k \in 0 .. l |->
                        IF k < l THEN t.loops[k]
                        ELSE [level |-> t.loops[parent].level + 1, parent |-> parent,
                              num_blocks |-> 0, begin |-> -1, end |-> -1]],
                  !.loop_idx[b] = l]

\* The tree with the loop of b's parent header, which may come after b only
\* in irreducible control flow.
RECURSIVE build_or_get_parent_loop(_, _, _)
build_or_get_parent_loop(t, loop_parent, b) ==
    LET p == loop_parent[b]
    IN  IF t.loop_idx[p] # NoLoop THEN t
        ELSE LET u == build_or_get_parent_loop(t, loop_parent, p)
             IN  AddLoop(u, p, u.loop_idx[loop_parent[p]])

AddBlock(t, id, b) ==
    LET u == build_or_get_parent_loop(t, id.loop_parent, b)
        parent == u.loop_idx[id.loop_parent[b]]
        v == IF b \notin id.loop_heads THEN [u EXCEPT !.loop_idx[b] = parent]
             ELSE IF u.loop_idx[b] = NoLoop THEN AddLoop(u, b, parent) ELSE u
    IN  [v EXCEPT !.loops[v.loop_idx[b]].num_blocks = @ + 1]

\* 0 .. n-1 as a sequence
Below(n) == [k \in 1 .. n |-> k - 1]

\* Add the blocks of the inner loops to those of the loops around them.
Accumulate(loops) ==
    FoldLeft(LAMBDA ls, k : [ls EXCEPT ![ls[k].parent].num_blocks = @ + ls[k].num_blocks],
             loops, Reverse(Tail(Below(Cardinality(DOMAIN loops)))))

RECURSIVE layout_loop(_, _)
layout_loop(loops, l) ==
    LET p  == loops[l].parent
        ls == IF loops[p].begin = -1 THEN layout_loop(loops, p) ELSE loops
        at == ls[p].end
    IN  [ls EXCEPT ![p].end = at + ls[l].num_blocks, ![l].begin = at, ![l].end = at]

\* Place a block at the end of what its loop has so far, or the whole loop at
\* the end of its parent.
PlaceBlock(t, b) ==
    LET l  == t.loop_idx[b]
        ls == IF t.loops[l].begin = -1 THEN layout_loop(t.loops, l) ELSE t.loops
    IN  [t EXCEPT !.loops = [ls EXCEPT ![l].end = @ + 1],
                  !.block_idx[b] = ls[l].end]

build_loop_tree_and_block_layout(n, id) ==
    LET root == [level |-> 0, parent |-> 0, num_blocks |-> 1, begin |-> -1, end |-> -1]
        none == [b \in 0 .. n - 1 |-> NoLoop]
        tree == FoldLeft(LAMBDA t, b : AddBlock(t, id, b),
                         [loops |-> [k \in {0} |-> root], loop_idx |-> [none EXCEPT ![0] = 0],
                          block_idx |-> none],
                         Tail(Below(n)))
        sums == Accumulate(tree.loops)
    IN  FoldLeft(PlaceBlock,
                 [tree EXCEPT !.loops = [sums EXCEPT ![0].begin = 0, ![0].end = 0]],
                 Below(n))

\* Number the blocks of g anew: those in seq by their position in it.
Position(seq, b) == CHOOSE k \in 0 .. Len(seq) - 1 : seq[k + 1] = b
Renumber(g, seq) ==
    [k \in 0 .. Len(seq) - 1 |->
        [j \in DOMAIN g[seq[k + 1]] |-> Position(seq, g[seq[k + 1]][j])]]

\* The result: the graph with blocks numbered in layout order, the loops, the
\* loop of each block and the blocks with more than one incoming edge.
build_block_layout(g) ==
    LET w    == build_rpo_block_order(g)
        rpo  == Renumber(g, w.out)
        n    == Len(w.out)
        t    == build_loop_tree_and_block_layout(n, identify_loops(rpo))
        At(k) == CHOOSE b \in 0 .. n - 1 : t.block_idx[b] = k
    IN  [n       |-> n,
         succs   |-> [k \in 0 .. n - 1 |->
                        [j \in DOMAIN rpo[At(k)] |-> t.block_idx[rpo[At(k)][j]]]],
         loops   |-> t.loops,
         loop_of |-> [k \in 0 .. n - 1 |-> t.loop_idx[At(k)]],
         multi   |-> {k \in 0 .. n - 1 : w.incoming[w.out[At(k) + 1]] = 2}]
====
