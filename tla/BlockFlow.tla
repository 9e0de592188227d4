----------------------------- MODULE BlockFlow ------------------------------
(***************************************************************************)
(* From the control-flow graph to the code of one value: a function is     *)
(* analysed (BlockOrder, Liveness), its blocks are compiled in layout      *)
(* order, and the code is run along its branches.                          *)
(*                                                                         *)
(* The compiler keeps one state for the value, which it carries from block *)
(* to block in layout order; the run meets the blocks in another order.    *)
(* spill_before_branch, release_spilled_regs, the phi moves and the delayed*)
(* frees at the end of a block have to make both agree.                    *)
(*                                                                         *)
(* `code' has the instructions that touch the value's register or stack    *)
(* slot.  What the compiler has not given to the value may belong to       *)
(* others: code compiled while the value does not hold the register        *)
(* ("takereg") or the slot ("takemem") overwrites them.  Which blocks evict*)
(* the value, and whether it gets a fixed register, is left open.          *)
(*                                                                         *)
(* After build_block_layout blocks are numbered in layout order.           *)
(* Op_fault is a faulty variant of Op.                                     *)
(***************************************************************************)
EXTENDS Liveness, TLC

CONSTANTS
    CFGs,       \* control-flow graphs, as in BlockOrder
    MaxUses,    \* bound on the uses of the value
    AllowEarly  \* also for values that are freed too early?

VARIABLES
    phase,      \* "layout", "liveness", "compile", "run"
    an,         \* the graph of the IR; then the result of build_block_layout
    val,        \* the value, as in Liveness
    info,       \* its LivenessInfo
    cs,         \* its assignment, as the compiler sees it
    code,       \* the code of blocks and edges
    cur,        \* cur_block_idx; the block that runs next
    mach,       \* what the register and the slot hold when the code runs
    failed      \* the asserts that failed

vars == <<phase, an, val, info, cs, code, cur, mach, failed>>

Blocks     == 0 .. an.n - 1
Succs(b)   == ToSet(an.succs[b])
Preds(b)   == {p \in Blocks : b \in Succs(p)}

\* Blocks reachable from the entry without passing through d.
Without(a, d) ==
    LET grow[k \in 0 .. a.n] ==
            IF k = 0 THEN {0} \ {d}
            ELSE LET R == grow[k - 1]
                 IN  R \cup (UNION {ToSet(a.succs[b]) : b \in R} \ {d})
    IN  grow[a.n]
Dom(a, d) == (0 .. a.n - 1) \ Without(a, d)

----------------------------------------------------------------------------
NoAssignment == [alive |-> FALSE, reg |-> FALSE, stk |-> FALSE, slot |-> FALSE,
                 fixed |-> FALSE, refs |-> 0, pending |-> FALSE]
NoVal  == [phi |-> FALSE, def |-> 0, slots |-> <<>>, uses |-> {}, edges |-> {}]
NoMach == [reg |-> FALSE, mem |-> FALSE, right |-> TRUE]

Init ==
    /\ phase = "layout" /\ an \in {[n |-> 0, succs |-> g] : g \in CFGs}
    /\ val = NoVal /\ info = NotVisited
    /\ cs = NoAssignment /\ code = [block |-> <<>>, edge |-> <<>>]
    /\ cur = 0 /\ mach = NoMach /\ failed = {}

BuildLayout ==
    /\ phase = "layout" /\ phase' = "liveness"
    /\ an' = LET a == build_block_layout(an.succs)
             IN  [n |-> a.n, succs |-> a.succs, loops |-> a.loops, loop_of |-> a.loop_of,
                  multi |-> a.multi, dom |-> [d \in 0 .. a.n - 1 |-> Dom(a, d)]]
    /\ UNCHANGED <<val, info, cs, code, cur, mach, failed>>

\* The values of valid IR: the definition dominates the uses.  A phi takes
\* something along every edge into its block.
Edges(S)   == {e \in S \X Blocks : e[2] \in Succs(e[1])}
UseSets(d) == UNION {kSubset(k, an.dom[d]) \X kSubset(m, Edges(an.dom[d])) :
                        <<k, m>> \in {p \in (0 .. MaxUses) \X (0 .. MaxUses) :
                                        p[1] + p[2] \in 1 .. MaxUses}}
Orders(d)  == {s \in [1 .. Cardinality(Preds(d)) -> Preds(d)] :
                 s # <<>> /\ ToSet(s) = Preds(d)}
Values(d) ==
    {[phi |-> FALSE, def |-> d, slots |-> <<>>, uses |-> u[1], edges |-> u[2]] :
        u \in UseSets(d)}
    \cup {[phi |-> TRUE, def |-> d, slots |-> s, uses |-> u[1], edges |-> u[2]] :
             s \in Orders(d), u \in UseSets(d)}

\* Blocks at whose start the value is needed: a use follows on some path
\* without a new definition before it.
LiveIn(v) ==
    LET Uses == v.uses \cup {e[1] : e \in v.edges}
        grow[k \in 0 .. an.n] ==
            IF k = 0 THEN Uses \ {v.def}
            ELSE grow[k - 1] \cup {b \in Blocks \ {v.def} : Succs(b) \cap grow[k - 1] # {}}
    IN  grow[an.n] \cup (IF v.phi THEN {v.def} ELSE {})

\* The value is needed after the block with its last use, but may be freed in it.
FreedEarly(v, i) == ~i.last_full /\ Succs(i.last) \cap LiveIn(v) # {}

ComputeLiveness ==
    /\ phase = "liveness" /\ phase' = "compile"
    /\ val' \in UNION {Values(d) : d \in Blocks}
    /\ info' = compute_liveness(an, val')
    /\ AllowEarly \/ ~FreedEarly(val', info')
    /\ UNCHANGED <<an, cs, code, cur, mach, failed>>

----------------------------------------------------------------------------
(* Compiling.  A state of the compiler c is the assignment with the code   *)
(* of the current block or edge and the asserts that failed.               *)

Emit(c, op)   == [c EXCEPT !.ops = Append(@, op)]
Check(c, P, name) == IF P THEN c ELSE [c EXCEPT !.failed = @ \cup {name}]

\* Code of others, in places that the value does not hold.
Others(c) ==
    [c EXCEPT !.ops = @ \o (IF c.reg THEN <<>> ELSE <<"takereg">>)
                        \o (IF c.slot THEN <<>> ELSE <<"takemem">>)]

\* try_fixed: the value lives beyond the current block; whether a register is
\* left is not modelled.
init_assignment(c, fix) ==
    [c EXCEPT !.alive = TRUE, !.reg = FALSE, !.stk = FALSE, !.slot = FALSE,
              !.fixed = fix /\ info.last > cur, !.refs = info.count, !.pending = FALSE]

free_assignment(c) ==
    Others([c EXCEPT !.alive = FALSE, !.reg = FALSE, !.stk = FALSE, !.slot = FALSE,
                     !.fixed = FALSE])

release_assignment(c) ==
    IF info.last_full THEN [c EXCEPT !.pending = TRUE] ELSE free_assignment(c)

\* The asserts of a ValueRef's constructor.
ValueRef(c) ==
    LET usable == c.alive /\ ~c.pending /\ c.refs # 0
    IN  Check(Check(c, usable, "access of free'd assignment"),
              /\ info.last >= cur
              /\ c.refs = 1 /\ ~info.last_full => info.last = cur,
              "used outside of its live range")

\* ValueRef::reset
Deref(c) ==
    IF ~c.alive \/ c.refs = 0 THEN c
    ELSE IF c.refs = 1 THEN release_assignment([c EXCEPT !.refs = 0])
    ELSE [c EXCEPT !.refs = @ - 1]

spill(c) ==
    IF c.stk THEN c
    ELSE Emit([Check(c, c.reg, "cannot spill uninitialized assignment part")
                EXCEPT !.slot = TRUE, !.stk = TRUE], "store")

evict(c) == Others([spill(c) EXCEPT !.reg = FALSE])

free_reg(c) == [Check(c, c.stk, "modified") EXCEPT !.reg = FALSE]

\* The result of an instruction, in a register.
Define(c, fix) ==
    Deref(Emit([ValueRef(init_assignment(c, fix)) EXCEPT !.reg = TRUE], "def"))

Load(c) == IF c.reg THEN c
           ELSE Emit([Check(c, c.stk, "not on the stack") EXCEPT !.reg = TRUE], "load")
Use(c)  == Deref(Emit(Load(ValueRef(c)), "use"))

----------------------------------------------------------------------------
(* Branches                                                                *)

\* Is the value spilled before the branch of the current block, and is its
\* register released after it?
NextIsSucc   == cur + 1 \in Succs(cur)
MustSpill_next == ~NextIsSucc
MustSpill    == ~NextIsSucc \/ cur + 1 \in an.multi
LiveLater    == \E s \in Succs(cur) : cur + 1 < s /\ s <= info.last
OnlyNext     == Len(an.succs[cur]) = 1 /\ ~MustSpill

spill_before_branch_late(c) ==
    IF /\ ~OnlyNext /\ c.reg /\ ~c.fixed /\ ~c.stk
       /\ info.last > cur + 1 /\ (MustSpill \/ LiveLater)
    THEN spill(c) ELSE c
spill_before_branch(c) ==
    IF /\ ~OnlyNext /\ c.reg /\ ~c.fixed /\ ~c.stk
       /\ info.last > cur /\ (MustSpill \/ LiveLater)
    THEN spill(c) ELSE c

release_spilled_regs(c) ==
    IF MustSpill /\ c.reg /\ ~c.fixed THEN free_reg(c) ELSE c

release_regs_after_return(c) == IF c.reg /\ ~c.fixed THEN free_reg(c) ELSE c

\* The moves into the phis of block s, as far as they concern the value: it
\* is one of the phis, or the incoming value of one, or both.
MovesSelf(s) == val.phi /\ val.def = s /\ <<cur, s>> \in val.edges
move_to_phi(c, fix) ==
    LET d == ValueRef(IF c.alive THEN c ELSE init_assignment(c, fix))
    IN  Deref(IF d.fixed THEN Emit([d EXCEPT !.reg = TRUE], "phireg")
              ELSE Emit([d EXCEPT !.slot = TRUE, !.stk = TRUE], "phimem"))
MoveFrom(c) ==
    LET d == ValueRef(c)
    IN  Deref(Emit(Check(d, d.reg \/ d.stk, "not on the stack"),
                   IF d.reg THEN "use" ELSE "usemem"))
move_to_phi_nodes(c, s, fix) ==
    IF MovesSelf(s) THEN Deref(Deref(ValueRef(ValueRef(c))))
    ELSE IF val.phi /\ val.def = s THEN move_to_phi(c, fix)
    ELSE IF <<cur, s>> \in val.edges THEN MoveFrom(c) ELSE c

\* generate_conditional_branch: the target that follows comes last; otherwise
\* one without phis is jumped to first.
HasPhis(s)  == (val.phi /\ val.def = s) \/ <<cur, s>> \in val.edges
EdgeOrder ==
    LET t == an.succs[cur]
    IN  IF Len(t) = 2 /\ (t[1] = cur + 1 \/ (t[2] # cur + 1 /\ HasPhis(t[1])))
        THEN <<t[2], t[1]>> ELSE t

\* The branch: the state after it, and the code of each edge.
Edge(r, s, fix) ==
    LET c == move_to_phi_nodes([r.c EXCEPT !.ops = <<>>], s, fix)
    IN  [c |-> c, code |-> [t \in DOMAIN r.code \cup {s} |->
                               IF t = s THEN c.ops ELSE r.code[t]]]
Branch(c, fix) ==
    FoldLeft(LAMBDA r, s : Edge(r, s, fix), [c |-> c, code |-> [t \in {} |-> <<>>]],
             EdgeOrder)

----------------------------------------------------------------------------
\* The instructions of the current block, up to its branch.
Body(fix, evicts) ==
    LET start == Others([ops |-> <<>>, failed |-> {}] @@ cs)
        def   == IF ~val.phi /\ val.def = cur THEN Define(start, fix) ELSE start
        use   == IF cur \in val.uses THEN Use(def) ELSE def
    IN  IF evicts /\ use.reg /\ ~use.fixed THEN evict(use) ELSE use

\* Free at the end of the last block what was released before.
delayed_free(c) ==
    IF c.pending /\ c.alive /\ info.last = cur THEN free_assignment(c) ELSE c

Assignment(c) == [f \in DOMAIN NoAssignment |-> c[f]]

\* compile_block for a block that branches and for one that does not.
compile_block(fix, evicts) ==
    LET body == Body(fix, evicts)
        out  == IF Succs(cur) = {}
                THEN [c |-> release_regs_after_return(body), code |-> <<>>]
                ELSE Branch(spill_before_branch(body), fix)
        end  == delayed_free(IF Succs(cur) = {} THEN out.c ELSE release_spilled_regs(out.c))
    IN  /\ phase = "compile" /\ failed = {}
        /\ fix => ~cs.alive
        /\ cs' = Assignment(end)
        /\ code' = [block |-> Append(code.block,
                                IF Succs(cur) = {} THEN body.ops
                                ELSE spill_before_branch(body).ops),
                    edge  |-> Append(code.edge, out.code)]
        /\ IF cur + 1 = an.n
           THEN /\ phase' = "run" /\ cur' = 0
                /\ failed' = Check(end, ~end.alive, "non-freed assignment").failed
           ELSE cur' = cur + 1 /\ failed' = end.failed /\ UNCHANGED phase
        /\ UNCHANGED <<an, val, info, mach>>

----------------------------------------------------------------------------
(* Running.  mach.reg and mach.mem say whether register and slot hold the  *)
(* value of the latest definition.                                         *)

Exec(m, op) ==
    CASE op = "def"     -> [m EXCEPT !.reg = TRUE, !.mem = FALSE]
      [] op = "phireg"  -> [m EXCEPT !.reg = TRUE, !.mem = FALSE]
      [] op = "phimem"  -> [m EXCEPT !.reg = FALSE, !.mem = TRUE]
      [] op = "store"   -> [m EXCEPT !.mem = m.reg]
      [] op = "load"    -> [m EXCEPT !.reg = m.mem]
      [] op = "use"     -> [m EXCEPT !.right = @ /\ m.reg]
      [] op = "usemem"  -> [m EXCEPT !.right = @ /\ m.mem]
      [] op = "takereg" -> [m EXCEPT !.reg = FALSE]
      [] op = "takemem" -> [m EXCEPT !.mem = FALSE]

RunBlock(s) ==
    /\ phase = "run" /\ failed = {} /\ s \in Succs(cur)
    /\ mach' = FoldLeft(Exec, mach, code.block[cur + 1] \o code.edge[cur + 1][s])
    /\ cur' = s
    /\ UNCHANGED <<phase, an, val, info, cs, code, failed>>

RunReturn ==
    /\ phase = "run" /\ failed = {} /\ Succs(cur) = {}
    /\ mach' = FoldLeft(Exec, mach, code.block[cur + 1])
    /\ phase' = "done"
    /\ UNCHANGED <<an, val, info, cs, code, cur, failed>>

Next ==
    \/ BuildLayout
    \/ ComputeLiveness
    \/ \E fix, evicts \in BOOLEAN : compile_block(fix, evicts)
    \/ \E s \in Blocks : RunBlock(s)
    \/ RunReturn

Spec == Init /\ [][Next]_vars

----------------------------------------------------------------------------
\* The asserts of the compiler hold: a value is used inside its interval and
\* before it is freed, is stored before its register is given up, and is freed
\* when the function has been compiled.
AssertsHold == failed = {}

\* Blocks from which block t is reached, on paths that h may only begin.
Reaching(t, h) ==
    LET grow[k \in 0 .. an.n] ==
            IF k = 0 THEN {t}
            ELSE grow[k - 1] \cup {b \in Blocks : Succs(b) \cap (grow[k - 1] \ {h}) # {}}
    IN  grow[an.n]
InLoop(b, l) == an.loops[l].begin <= b /\ b < an.loops[l].end

\* The layout: a block comes after those that dominate it; the loops are ranges
\* that nest like the loop tree says; every backward edge is in one, with the
\* natural loop if it has one, and the header first unless the loop has another
\* entry; no loop has a block that is not on a cycle with the others.
LayoutRight ==
    phase = "liveness" =>
        /\ \A d \in Blocks : \A b \in an.dom[d] : d <= b
        /\ \A b \in Blocks : {l \in DOMAIN an.loops : InLoop(b, l)} = Around(an, an.loop_of[b])
        /\ \A t \in Blocks : \A h \in {s \in Succs(t) : s <= t} :
              \E l \in DOMAIN an.loops \ {0} :
                 /\ InLoop(t, l) /\ InLoop(h, l)
                 /\ t \in an.dom[h] => \A b \in Reaching(t, h) : InLoop(b, l)
                 /\ (\A b \in Blocks : InLoop(b, l) => b \in an.dom[h]) => an.loops[l].begin = h
        /\ \A l \in DOMAIN an.loops \ {0} :
              \A a, b \in {c \in Blocks : InLoop(c, l)} : a \in Reaching(b, an.n)

\* The loops the value is live around: it is visited in the loop and outside.
Visited == ToSet(Visits(an, val))
Crossed == {l \in DOMAIN an.loops : /\ \E b \in Visited : InLoop(b, l)
                                    /\ \E b \in Visited : ~InLoop(b, l)}
Covered == Visited \cup {b \in Blocks : \E l \in Crossed : InLoop(b, l)}

\* The interval has every block in which the value is needed, whatever the path;
\* that of an instruction result is the smallest with all visits and all loops
\* that have visits inside and outside, and it is kept to the end of its last
\* block only if that ends such a loop.
IntervalRight ==
    phase = "compile" /\ cur = 0 =>
        /\ \A b \in LiveIn(val) : info.first <= b /\ b <= info.last
        /\ ~val.phi =>
              /\ info.first \in Covered /\ info.last \in Covered
              /\ \A b \in Covered : info.first <= b /\ b <= info.last
              /\ info.last_full => \E l \in Crossed : info.last = an.loops[l].end - 1

\* Every use reads the value of the latest definition, in whatever order the
\* blocks run, and whatever other code does with the places that the compiler
\* has not given to the value.
UsesRead == mach.right
====
