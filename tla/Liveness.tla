------------------------------ MODULE Liveness ------------------------------
(***************************************************************************)
(* Analyzer::compute_liveness for one value: the interval of blocks, in    *)
(* layout order, in which the value needs a place, and its number of       *)
(* references, built from one visit per definition, use and phi edge.      *)
(* Values do not influence each other.                                     *)
(*                                                                         *)
(* `an' is the result of build_block_layout; a loop is an index of         *)
(* an.loops, the whole function is loop 0.  info.count = 0 stands for an   *)
(* entry of an old epoch.  Op_fault is a faulty variant of Op.             *)
(***************************************************************************)
EXTENDS BlockOrder

Smaller(a, b) == IF a <= b THEN a ELSE b
Larger(a, b)  == IF a >= b THEN a ELSE b

update_for_block_only(i, b) ==
    LET last == Larger(i.last, b)
    IN  [i EXCEPT !.first = Smaller(i.first, b), !.last = last,
                  !.last_full = i.last = last /\ i.last_full]

update_for_loop_part(i, l) ==
    [i EXCEPT !.last = Larger(i.last, l.end - 1)]
update_for_loop(i, l) ==
    LET last == Larger(i.last, l.end - 1)
    IN  [i EXCEPT !.first = Smaller(i.first, l.begin), !.last = last,
                  !.last_full = i.last # last \/ i.last_full]

\* The loop l and those around it.
Around(an, l) ==
    LET up[k \in DOMAIN an.loops] == IF k = 0 THEN {0} ELSE {k} \cup up[an.loops[k].parent]
    IN  up[l]

\* The loop around l at the given level.
AtLevel(an, l, n) == CHOOSE m \in Around(an, l) : an.loops[m].level = n

\* The lowest loop around both l and m.
CommonLoop(an, l, m) ==
    LET both == Around(an, l) \cap Around(an, m)
    IN  CHOOSE c \in both : \A d \in both : an.loops[d].level <= an.loops[c].level

\* The loop directly inside c that contains l, or l itself if that is c.
Inner(an, l, c) == an.loops[IF l = c THEN c ELSE AtLevel(an, l, an.loops[c].level + 1)]

NestedIn(an, l, lcl) == /\ an.loops[lcl].level < an.loops[l].level
                        /\ an.loops[l].begin < an.loops[lcl].end

NotVisited == [first |-> 0, last |-> 0, count |-> 0, lcl |-> 0, last_full |-> FALSE]
FirstVisit(an, b) == [first |-> b, last |-> b, count |-> 1, lcl |-> an.loop_of[b],
                      last_full |-> FALSE]

\* Extend the interval for a use in block b of another loop.
OtherLoop(an, i, b) ==
    LET l == an.loop_of[b]
        c == CommonLoop(an, i.lcl, l)
        j == update_for_loop([i EXCEPT !.lcl = c], Inner(an, i.lcl, c))
    IN  IF c = l THEN update_for_block_only(j, b) ELSE update_for_loop(j, Inner(an, l, c))

visit(an, i, b) ==
    LET l == an.loop_of[b]
        j == [i EXCEPT !.count = @ + 1]
    IN  IF i.count = 0 THEN FirstVisit(an, b)
        ELSE IF i.lcl = l THEN update_for_block_only(j, b)
        ELSE IF NestedIn(an, l, i.lcl) THEN update_for_loop(j, Inner(an, l, i.lcl))
        ELSE OtherLoop(an, j, b)

----------------------------------------------------------------------------
(* A value v: an instruction result (v.phi is FALSE) or a phi in block     *)
(* v.def; v.slots are the incoming blocks of the phi in the order of its   *)
(* slots.  v.uses are the blocks with an instruction that uses the value,  *)
(* v.edges the edges <<b, s>> along which a phi of s takes the value.      *)

\* The visits of block b: as an incoming value and as a phi, for each slot;
\* then its instructions, results before operands.
EdgeVisits(an, v, b) ==
    LET taken == SelectSeq(Below(an.n), LAMBDA p : <<p, b>> \in v.edges)
        slots == IF v.phi /\ v.def = b THEN v.slots ELSE <<>>
    IN  IF slots = <<>> THEN taken
        ELSE FlattenSeq([k \in DOMAIN slots |->
                IF <<slots[k], b>> \in v.edges THEN <<slots[k], slots[k]>>
                                               ELSE <<slots[k]>>])
InstVisits(v, b) == (IF ~v.phi /\ v.def = b THEN <<b>> ELSE <<>>)
                    \o (IF b \in v.uses THEN <<b>> ELSE <<>>)
Visits(an, v) ==
    FlattenSeq([k \in 1 .. an.n |-> EdgeVisits(an, v, k - 1) \o InstVisits(v, k - 1)])

compute_liveness(an, v) ==
    FoldLeft(LAMBDA i, b : visit(an, i, b), NotVisited, Visits(an, v))
====
