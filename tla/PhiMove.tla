------------------------------- MODULE PhiMove -------------------------------
(***************************************************************************)
(* move_to_phi_nodes_impl of CompilerBase: the code for one control-flow   *)
(* edge that gives every phi node of the target block the value it has on  *)
(* that edge.  The phis are assigned one after the other, although their   *)
(* incoming values are all read before the edge; chains and cycles of phis *)
(* that read each other are ordered and broken with temporaries.           *)
(*                                                                         *)
(* Values are numbered: the phis in the order of the sorted vector, other  *)
(* values with an assignment, constants.  The contents of registers and    *)
(* stack slots are parts <<v, i>> of the values before the edge.  Scratch  *)
(* registers come from ScratchWrapper, which takes a register away from a  *)
(* value if none is free, without changing the value's state for good: the *)
(* moves of a conditional branch are on a path of their own, and the code  *)
(* compiled next is reached without them.                                  *)
(*                                                                         *)
(* Not modelled: variable references, and phis that differ in their parts. *)
(* Op_fault is a faulty variant of Op that no action uses.                 *)
(***************************************************************************)
EXTENDS Naturals, Sequences, FiniteSets

CONSTANTS
    N,            \* number of phis of the target block
    NumOthers,    \* number of other values with an assignment
    NumConsts,    \* number of constants
    PartCounts,   \* numbers of parts that the values may have
    PartBank,     \* register bank of part i
    Regs,         \* allocatable registers
    RegsPerBank,
    WordBits,     \* bits per word of SmallBitSet (64)
    BackEdges,    \* kinds of edges: TRUE, to a loop header compiled before
    MaxFixed,     \* bound on the number of fixed assignments
    MaxMulti,     \* bound on the phis that move, if values have several parts
    HeldRegs,     \* registers that another value of the loop has for itself then
    NoReg, NoSlot, None, Free, Held, Junk

Nodes  == 0 .. N - 1
Others == N .. N + NumOthers - 1
Vals   == Nodes \cup Others            \* values with an assignment
Consts == N + NumOthers .. N + NumOthers + NumConsts - 1
Bank(r) == r \div RegsPerBank
Slots  == 0 .. N + NumOthers           \* one per value, and one more

\* The ScratchWrapper objects, in the order of their destructors.
Wrappers == <<"tmp_reg2", "tmp_reg1", "scratch">>
WrapperSet == {"tmp_reg2", "tmp_reg1", "scratch"}

ASSUME PhiAssumption ==
    /\ N \in Nat \ {0} /\ NumOthers \in Nat /\ NumConsts \in Nat
    /\ PartCounts \subseteq 1 .. 3 /\ WordBits \in Nat \ {0}
    /\ Regs \subseteq Nat /\ IsFiniteSet(Regs) /\ RegsPerBank \in Nat \ {0}
    /\ PartBank \in [0 .. 2 -> {Bank(r) : r \in Regs}]
    /\ BackEdges \subseteq BOOLEAN /\ MaxFixed \in Nat /\ MaxMulti \in Nat
    /\ NoReg \notin Regs /\ NoSlot \notin Slots /\ None \notin Vals \cup Consts
    /\ {Free, Held, Junk} \cap WrapperSet = {} /\ HeldRegs \subseteq Regs
    /\ \A x \in WrapperSet \cup {Free, Held, Junk, None} : x \notin Vals \X (0 .. 2)
    \* the temporaries find a register; only values of one part are fixed
    /\ Cardinality({r \in Regs : Bank(r) = PartBank[0]}) >= MaxFixed + 2
    /\ \A i \in 0 .. 2 :
          Cardinality({r \in Regs \ HeldRegs : Bank(r) = PartBank[i]}) >= 2

VARIABLES
    inc,        \* the incoming value of each phi
    back,       \* is this the back edge of a loop?
    num_parts,  \* part_count of the values
    \* assignments and register file, as in RegAlloc
    live, fixed, reg, dirty, slot, refs, own,
    free_list, fresh,   \* freed stack slots, and those never used
    \* the generated code: contents of registers and stack slots
    rc, mem,
    \* the wrappers: register, the part it was taken from, was that modified?
    cur_reg, backup, was_modified,
    \* the algorithm
    ref_count, ready, waiting, handled,
    tmp,        \* cur_tmp_val
    tmp_slot,   \* cur_tmp_slot
    pc, part,
    was         \* assignments before the edge, and where the phis belong

edge   == <<inc, back, num_parts>>
values == <<live, fixed, reg, dirty, slot, refs, own>>
stack  == <<free_list, fresh>>
code   == <<rc, mem>>
wraps  == <<cur_reg, backup, was_modified>>
lists  == <<ref_count, ready, waiting, handled>>
temps  == <<tmp, tmp_slot>>
ctrl   == <<pc, part>>
vars   == <<inc, back, num_parts, live, fixed, reg, dirty, slot, refs, own, free_list, fresh, rc,
            mem, cur_reg, backup, was_modified, ref_count, ready, waiting, handled,
            tmp, tmp_slot, pc, part, was>>

Idx    == 0 .. num_parts - 1
Parts  == Vals \X Idx
Val(p) == p[1]

----------------------------------------------------------------------------
(***************************************************************************)
(* Before the edge every value is in a register, on the stack or both.     *)
(* On a back edge the phis have had their places since the loop was        *)
(* entered, on the stack or in a fixed register; on a forward edge they    *)
(* have no assignment yet, and cannot be read.  A value has a reference    *)
(* for every use on the edge and for the uses after it; the analyzer also  *)
(* counts one of the phi for every edge into its block.                    *)
(***************************************************************************)
\* One use of every value in S.
UseOf(S) == [v \in Vals |-> IF v \in S THEN 1 ELSE 0]
Uses(v) == Cardinality({n \in Nodes : inc[n] = v}) + (IF v \in Nodes THEN 1 ELSE 0)

Init ==
    /\ back \in BackEdges /\ num_parts \in PartCounts
    /\ inc \in [Nodes -> IF back THEN Vals \cup Consts ELSE Others \cup Consts]
    /\ num_parts > 1 => /\ back
                        /\ \A n \in Nodes : inc[n] \in IF n < MaxMulti THEN (0 .. MaxMulti - 1) \cup Others
                                                       ELSE {n}
    /\ live = [v \in Vals |-> v \in Others \/ back]
    /\ own \in [Regs -> Parts \cup {Free, Held}]
    /\ \A r \in Regs : own[r] = Held <=> num_parts > 1 /\ r \in HeldRegs
    /\ \A r \in Regs : own[r] \in Parts =>
          /\ live[Val(own[r])] /\ PartBank[own[r][2]] = Bank(r)
          /\ num_parts > 1 => Val(own[r]) \notin MaxMulti .. N - 1
          /\ \A q \in Regs : own[q] = own[r] => q = r
    /\ reg = [p \in Parts |-> IF \E r \in Regs : own[r] = p
                              THEN CHOOSE r \in Regs : own[r] = p ELSE NoReg]
    /\ \E F \in SUBSET {v \in Vals : num_parts = 1 /\ reg[<<v, 0>>] # NoReg} :
          /\ Cardinality(F) <= MaxFixed
          /\ fixed = [v \in Vals |-> v \in F]
    /\ \E D \in SUBSET {p \in Parts : Val(p) \in Others /\ reg[p] # NoReg} :
          dirty = [p \in Parts |-> p \in D \/ fixed[Val(p)] \/ ~live[Val(p)]]
    /\ slot = [v \in Vals |-> IF \E i \in Idx : ~dirty[<<v, i>>] THEN v ELSE NoSlot]
    /\ fresh = {s \in Slots : \A v \in Vals : slot[v] # s}
    /\ free_list = {}
    /\ \E later \in {UseOf(S) : S \in SUBSET (IF back THEN Others ELSE Vals)} :
        /\ refs = [v \in Vals |-> Uses(v) + later[v]]
        /\ was = [reg |-> reg, dirty |-> dirty, slot |-> slot, later |-> later,
                  home |-> [n \in Nodes |-> IF fixed[n] THEN <<"reg", reg[<<n, 0>>]>>
                                            ELSE <<"slot", slot[n]>>]]
    /\ \A v \in Others : refs[v] > 0
    /\ rc = [r \in Regs |-> IF own[r] \in Parts THEN own[r] ELSE Junk]
    /\ mem = [s \in Slots |-> [i \in Idx |->
                 IF s \in Vals /\ slot[s] = s /\ ~dirty[<<s, i>>] THEN <<s, i>> ELSE Junk]]
    /\ cur_reg = [w \in WrapperSet |-> NoReg]
    /\ backup = [w \in WrapperSet |-> None]
    /\ was_modified = [w \in WrapperSet |-> FALSE]
    /\ ref_count = [n \in Nodes |-> 0]
    /\ ready = <<>> /\ waiting = {} /\ handled = 0
    /\ tmp = None /\ tmp_slot = NoSlot
    /\ pc = "collect" /\ part = 0

----------------------------------------------------------------------------
(***************************************************************************)
(* Building blocks.                                                        *)
(***************************************************************************)
\* allocate_stack_slot: a freed slot if there is one (all have one size).
NewSlot(s) ==
    /\ s \in (IF free_list # {} THEN free_list ELSE fresh)
    /\ free_list' = free_list \ {s}
    /\ fresh' = fresh \ {s}

\* The generated code stores content c to part i of slot s.
Store(s, i, c) == [mem EXCEPT ![s] = [@ EXCEPT ![i] = c]]

\* What reading a part yields, and a constant.
Read(p) == IF Val(p) \in Consts THEN p
           ELSE IF reg[p] # NoReg THEN rc[reg[p]] ELSE mem[slot[Val(p)]][p[2]]

Lowest(S) == CHOOSE x \in S : \A y \in S : x <= y

\* A phi is live around the loop and freed at the end of its last block only.
Pending(v) == v \in Nodes /\ back

\* The ValueRefs to the values in use are destroyed: the last reference frees
\* the assignment, its registers and its slot, unless the free is delayed.
Release(use) ==
    LET left == [v \in Vals |-> refs[v] - use[v]]
        dead == {v \in Vals : use[v] > 0 /\ left[v] = 0 /\ ~Pending(v)}
    IN  /\ refs' = left
        /\ live' = [v \in Vals |-> live[v] /\ v \notin dead]
        /\ own' = [r \in Regs |-> IF own[r] \in Parts /\ Val(own[r]) \in dead
                                  THEN Free ELSE own[r]]
        /\ reg' = [p \in Parts |-> IF Val(p) \in dead THEN NoReg ELSE reg[p]]
        /\ fixed' = [v \in Vals |-> fixed[v] /\ v \notin dead]
        /\ slot' = [v \in Vals |-> IF v \in dead THEN NoSlot ELSE slot[v]]
        /\ free_list' = free_list \cup ({slot[v] : v \in dead} \ {NoSlot})
        /\ UNCHANGED <<dirty, fresh>>

----------------------------------------------------------------------------
(***************************************************************************)
(* ScratchWrapper.                                                         *)
(***************************************************************************)
\* reset: the register goes back to the part it was taken from, with its old
\* value and state, unless that has been freed in the meantime.
RestoredDirty(w) == [dirty EXCEPT ![backup[w]] = was_modified[w]]

Reloaded_not(r, p) == rc
Reloaded(r, p) == [rc EXCEPT ![r] = mem[slot[Val(p)]][p[2]]]

reset(w) ==
    LET r == cur_reg[w]
        p == backup[w]
    IN  /\ r # NoReg
        /\ IF p # None /\ live[Val(p)]
           THEN /\ own' = [own EXCEPT ![r] = p]
                /\ reg' = [reg EXCEPT ![p] = r]
                /\ dirty' = RestoredDirty(w)
                /\ rc' = Reloaded(r, p)
           ELSE own' = [own EXCEPT ![r] = Free] /\ UNCHANGED <<reg, dirty, rc>>
        /\ cur_reg' = [cur_reg EXCEPT ![w] = NoReg]
        /\ backup' = [backup EXCEPT ![w] = None]
        /\ UNCHANGED <<live, fixed, slot, refs, was_modified, stack, mem>>

\* Registers that alloc_from_bank may take from a value.
Takeable(b) == {r \in Regs : Bank(r) = b /\ own[r] \in Parts /\ ~fixed[Val(own[r])]}

SetStackValid_not(p) == dirty
SetStackValid(p) == [dirty EXCEPT ![p] = FALSE]

\* The part in the register is spilled if the stack does not have it.
Backup(w, r) ==
    LET p == own[r]
        v == Val(p)
        spill == dirty[p]
    IN  /\ IF spill /\ slot[v] = NoSlot
           THEN \E s \in Slots : NewSlot(s) /\ slot' = [slot EXCEPT ![v] = s]
           ELSE UNCHANGED <<slot, stack>>
        /\ mem' = IF spill THEN Store(slot'[v], p[2], rc[r]) ELSE mem
        /\ dirty' = SetStackValid(p)
        /\ reg' = [reg EXCEPT ![p] = NoReg]
        /\ backup' = [backup EXCEPT ![w] = p]
        /\ was_modified' = [was_modified EXCEPT ![w] = spill]

\* find_first_free_excluding
FreeIn_any(b) == {r \in Regs : own[r] = Free}
FreeIn(b) == {r \in Regs : Bank(r) = b /\ own[r] = Free}

alloc_from_bank(w, b) ==
    LET free == FreeIn(b)
        r    == Lowest(IF free # {} THEN free ELSE Takeable(b))
    IN  /\ cur_reg[w] = NoReg
        /\ free # {} \/ Takeable(b) # {}      \* TPDE_FATAL otherwise
        /\ IF free # {} THEN UNCHANGED <<slot, stack, mem, dirty, reg, backup, was_modified>>
           ELSE Backup(w, r)
        /\ own' = [own EXCEPT ![r] = w]
        /\ cur_reg' = [cur_reg EXCEPT ![w] = r]
        /\ UNCHANGED <<live, fixed, refs, rc>>

\* The wrapper and bank the next step needs a register from.
InReg(v) == v \in Vals /\ reg[<<v, part>>] # NoReg
Wanted ==
    LET b == PartBank[part]
    IN  IF part = num_parts THEN {}
        ELSE CASE pc = "move" /\ ~InReg(inc[Head(ready)]) -> {<<"scratch", b>>}
               [] pc = "save" /\ num_parts <= 2 ->
                    {<<IF part = 0 THEN "tmp_reg1" ELSE "tmp_reg2", b>>}
               [] pc = "save" /\ num_parts > 2 /\ ~InReg(tmp) -> {<<"tmp_reg1", b>>}
               [] pc = "restore" /\ num_parts > 2 -> {<<"tmp_reg1", b>>}
               [] OTHER -> {}
Has(w, b) == cur_reg[w] # NoReg /\ Bank(cur_reg[w]) = b
Prepared == \A x \in Wanted : Has(x[1], x[2])

\* alloc_from_bank gives back a register of the other bank first.
Prepare ==
    /\ \E x \in Wanted : /\ ~Has(x[1], x[2])
                         /\ reset(x[1]) \/ alloc_from_bank(x[1], x[2])
    /\ UNCHANGED <<edge, lists, temps, ctrl, was>>

----------------------------------------------------------------------------
(***************************************************************************)
(* The algorithm.                                                          *)
(***************************************************************************)
\* Does node m wait for the phi of node n to be read?
Reads(m, n) == inc[m] = n /\ m # n

Readers_none(n) == 0
Readers(n) == Cardinality({m \in Nodes : Reads(m, n)})

\* The elements of a set of nodes in ascending order.
Rank(S, x) == Cardinality({y \in S : y < x})
InOrder(S) == [k \in 1 .. Cardinality(S) |-> CHOOSE x \in S : Rank(S, x) = k - 1]

\* Count the readers of each phi.  Nodes without any are ready; without
\* chains all of them are, in order.
Collect ==
    /\ pc = "collect"
    /\ ref_count' = [n \in Nodes |-> Readers(n)]
    /\ waiting' = {n \in Nodes : ref_count'[n] > 0}
    /\ ready' = InOrder(Nodes \ waiting')
    /\ pc' = "next"
    /\ UNCHANGED <<edge, values, stack, code, wraps, handled, temps, part, was>>

\* SmallBitSet::first_set
first_set(S) ==
    LET word == Lowest({n \div WordBits : n \in S})
    IN  word + Lowest({n % WordBits : n \in {m \in S : m \div WordBits = word}})

\* No node is ready: break a cycle, keeping a phi in a temporary.
Break ==
    /\ pc = "next" /\ handled # N /\ ready = <<>>
    /\ tmp' = first_set(waiting)
    /\ IF num_parts > 2 THEN \E s \in Slots : NewSlot(s) /\ tmp_slot' = s
                       ELSE UNCHANGED <<tmp_slot, stack>>
    /\ pc' = "save" /\ part' = 0
    /\ UNCHANGED <<edge, values, code, wraps, lists, was>>

\* Copy part `part' of the phi to the temporary.
SavePart ==
    LET c == Read(<<tmp, part>>)
        w == IF part = 0 THEN "tmp_reg1" ELSE "tmp_reg2"
    IN  /\ pc = "save" /\ part < num_parts /\ Prepared
        /\ IF num_parts <= 2
           THEN rc' = [rc EXCEPT ![cur_reg[w]] = c] /\ UNCHANGED mem
           ELSE /\ mem' = Store(tmp_slot, part, c)
                /\ rc' = IF reg[<<tmp, part>>] = NoReg
                         THEN [rc EXCEPT ![cur_reg["tmp_reg1"]] = c] ELSE rc
        /\ part' = part + 1
        /\ UNCHANGED <<edge, values, stack, wraps, lists, temps, pc, was>>

\* The node of the saved phi is ready.
SaveEnd_kept ==
    /\ pc = "save" /\ part = num_parts
    /\ ref_count' = [ref_count EXCEPT ![tmp] = 0]
    /\ ready' = Append(ready, tmp)
    /\ waiting' = waiting \ {tmp}
    /\ pc' = "next" /\ part' = 0
    /\ UNCHANGED <<edge, values, stack, code, wraps, handled, temps, was>>
SaveEnd ==
    /\ pc = "save" /\ part = num_parts
    /\ Release(UseOf({tmp}))
    /\ ref_count' = [ref_count EXCEPT ![tmp] = 0]
    /\ ready' = Append(ready, tmp)
    /\ waiting' = waiting \ {tmp}
    /\ pc' = "next" /\ part' = 0
    /\ UNCHANGED <<edge, code, wraps, handled, temps, was>>

\* The next ready node: a phi that keeps its value, ...
KeepPhi ==
    LET n == Head(ready)
    IN  /\ pc = "next" /\ ready # <<>> /\ inc[n] = n
        /\ Release([UseOf({n}) EXCEPT ![n] = 2])
        /\ ready' = Tail(ready)
        /\ handled' = handled + 1
        /\ UNCHANGED <<edge, code, wraps, ref_count, waiting, temps, ctrl, was>>

\* ... one that reads the saved phi, ...
BeginRestore ==
    /\ pc = "next" /\ ready # <<>>
    /\ inc[Head(ready)] # Head(ready) /\ inc[Head(ready)] = tmp
    /\ pc' = "restore"
    /\ UNCHANGED <<edge, values, stack, code, wraps, lists, temps, part, was>>

\* The place of part i of phi n gets content c.
Put(n, i, c) ==
    IF fixed[n] THEN rc' = [rc EXCEPT ![reg[<<n, 0>>]] = c] /\ UNCHANGED mem
                ELSE mem' = Store(slot[n], i, c) /\ UNCHANGED rc

\* move_from_tmp_phi
RestorePart ==
    LET n == Head(ready)
        w == IF part = 0 \/ num_parts > 2 THEN "tmp_reg1" ELSE "tmp_reg2"
    IN  /\ pc = "restore" /\ part < num_parts /\ Prepared
        /\ IF num_parts <= 2 THEN Put(n, part, rc[cur_reg[w]])
           ELSE /\ mem' = Store(slot[n], part, mem[tmp_slot][part])
                /\ rc' = [rc EXCEPT ![cur_reg[w]] = mem[tmp_slot][part]]
        /\ part' = part + 1
        /\ UNCHANGED <<edge, values, stack, wraps, lists, temps, pc, was>>

RestoreEnd ==
    LET n == Head(ready)
    IN  /\ pc = "restore" /\ part = num_parts
        /\ Release(UseOf({n}))
        /\ ready' = Tail(ready)
        /\ handled' = handled + 1
        /\ tmp' = None
        /\ pc' = IF tmp_slot = NoSlot THEN "next" ELSE "free_tmp"
        /\ part' = 0
        /\ UNCHANGED <<edge, code, wraps, ref_count, waiting, tmp_slot, was>>

\* free_stack_slot of the temporary
FreeTmp ==
    /\ pc = "free_tmp"
    /\ free_list' = free_list \cup {tmp_slot}
    /\ tmp_slot' = NoSlot
    /\ pc' = "next"
    /\ UNCHANGED <<edge, values, fresh, code, wraps, lists, tmp, part, was>>

\* ... or one that reads another value.  On its first edge the phi gets its
\* assignment, maybe with a fixed register.
BeginMove ==
    LET n == Head(ready)
    IN  /\ pc = "next" /\ ready # <<>> /\ inc[n] # n /\ inc[n] # tmp
        /\ live' = [live EXCEPT ![n] = TRUE]
        /\ \/ UNCHANGED <<fixed, reg, own>>
           \/ /\ ~live[n] /\ num_parts = 1
              /\ Cardinality({v \in Vals : fixed[v]}) < MaxFixed
              /\ \E r \in Regs :
                   /\ own[r] = Free /\ Bank(r) = PartBank[0]
                   /\ own' = [own EXCEPT ![r] = <<n, 0>>]
                   /\ reg' = [reg EXCEPT ![<<n, 0>>] = r]
              /\ fixed' = [fixed EXCEPT ![n] = TRUE]
        /\ pc' = "move" /\ part' = 0
        /\ UNCHANGED <<edge, dirty, slot, refs, stack, code, wraps, lists, temps, was>>

\* move_to_phi, for one part
MovePart ==
    LET n == Head(ready)
        p == <<inc[n], part>>
        c == Read(p)
        reloaded == Wanted # {}
        rc1 == IF reloaded THEN [rc EXCEPT ![cur_reg["scratch"]] = c] ELSE rc
    IN  /\ pc = "move" /\ part < num_parts /\ Prepared
        /\ IF fixed[n]
           THEN /\ rc' = [rc1 EXCEPT ![reg[<<n, 0>>]] = c]
                /\ was' = [was EXCEPT !.home = [@ EXCEPT ![n] = <<"reg", reg[<<n, 0>>]>>]]
                /\ UNCHANGED <<slot, stack, mem, dirty>>
           ELSE /\ IF slot[n] = NoSlot
                   THEN \E s \in Slots : NewSlot(s) /\ slot' = [slot EXCEPT ![n] = s]
                   ELSE UNCHANGED <<slot, stack>>
                /\ rc' = rc1
                /\ mem' = Store(slot'[n], part, c)
                /\ dirty' = SetStackValid(<<n, part>>)
                /\ was' = [was EXCEPT !.home = [@ EXCEPT ![n] = <<"slot", slot'[n]>>]]
        /\ part' = part + 1
        /\ UNCHANGED <<edge, live, fixed, reg, refs, own, wraps, lists, temps, pc>>

\* The node is done; its incoming phi may be ready now.
ReadyAfter(n) == inc[n] \in Nodes /\ ref_count[inc[n]] = 1

MoveEnd ==
    LET n == Head(ready)
        m == inc[n]
    IN  /\ pc = "move" /\ part = num_parts
        /\ Release(UseOf({n, m}))
        /\ handled' = handled + 1
        /\ ref_count' = IF m \in Nodes THEN [ref_count EXCEPT ![m] = @ - 1] ELSE ref_count
        /\ IF ReadyAfter(n)
           THEN ready' = Append(Tail(ready), m) /\ waiting' = waiting \ {m}
           ELSE ready' = Tail(ready) /\ UNCHANGED waiting
        /\ pc' = "next" /\ part' = 0
        /\ UNCHANGED <<edge, code, wraps, temps, was>>

\* At the end the destructors of the wrappers run.
Finish ==
    /\ pc = "next" /\ handled = N /\ ready = <<>>
    /\ IF \A w \in WrapperSet : cur_reg[w] = NoReg
       THEN pc' = "done" /\ UNCHANGED <<values, stack, code, wraps>>
       ELSE /\ reset(Wrappers[Lowest({k \in 1 .. 3 : cur_reg[Wrappers[k]] # NoReg})])
            /\ UNCHANGED pc
    /\ UNCHANGED <<edge, lists, temps, part, was>>

Done == pc = "done" /\ UNCHANGED vars

Next == \/ Collect \/ Prepare
        \/ Break \/ SavePart \/ SaveEnd
        \/ KeepPhi \/ BeginRestore \/ RestorePart \/ RestoreEnd \/ FreeTmp
        \/ BeginMove \/ MovePart \/ MoveEnd
        \/ Finish \/ Done

Spec == Init /\ [][Next]_vars /\ WF_vars(Next)

----------------------------------------------------------------------------
\* The variables have the types of the fields and locals they stand for.
TypeOK ==
    /\ reg \in [Parts -> Regs \cup {NoReg}]
    /\ own \in [Regs -> Parts \cup WrapperSet \cup {Free, Held}]
    /\ slot \in [Vals -> Slots \cup {NoSlot}]
    /\ refs \in [Vals -> Nat]
    /\ free_list \subseteq Slots /\ fresh \subseteq Slots
    /\ cur_reg \in [WrapperSet -> Regs \cup {NoReg}]
    /\ ref_count \in [Nodes -> Nat]
    /\ ready \in Seq(Nodes) /\ waiting \subseteq Nodes /\ handled \in 0 .. N

\* What the next instruction after the moves finds at the place of a phi.
AtHome(n, i) == LET h == was.home[n]
                IN  IF h[1] = "reg" THEN rc[h[2]] ELSE mem[h[2]][i]

\* The moves are a parallel copy: in the end every phi has the value that its
\* incoming value had before the edge, whatever chains and cycles there are
\* and wherever the values were.  (A phi that is never used again after a
\* forward edge does not need one.)
ParallelCopy ==
    pc = "done" => \A n \in Nodes, i \in Idx :
        back \/ was.later[n] > 0 => AtHome(n, i) = <<inc[n], i>>

AfterMoves ==
    \A v \in Others, i \in Idx : live[v] =>
        /\ reg[<<v, i>>] # NoReg => rc[reg[<<v, i>>]] = <<v, i>>
        /\ ~dirty[<<v, i>>] => mem[slot[v]][i] = <<v, i>>
        /\ reg[<<v, i>>] # NoReg \/ ~dirty[<<v, i>>]
AroundMoves ==
    \A p \in Parts : live[Val(p)] /\ (back \/ Val(p) \in Others) =>
        /\ reg[p] = was.reg[p]
        /\ ~dirty[p] => ~was.dirty[p] /\ slot[Val(p)] = was.slot[Val(p)]

\* Where the bookkeeping says a value is after the moves, it is: both if the
\* generated code has executed the moves, and if it has taken the other way at
\* the conditional branch, although ScratchWrapper spilled and reloaded values.
PlacesKept == pc = "done" => AfterMoves /\ AroundMoves

\* Every node uses one reference of its phi and one of its incoming value,
\* also if these were used through a temporary.
RefsUsed == pc = "done" => \A v \in Vals : refs[v] = was.later[v]

\* The asserts of the moves: before a cycle is broken, each phi left has one
\* reader; ScratchWrapper::reset finds the value it took the register from in
\* its slot; move_from_tmp_phi finds a place to write to.
Asserts ==
    /\ pc = "save" => tmp \in Nodes /\ ref_count[tmp] = 1
    /\ \A w \in WrapperSet : backup[w] # None /\ live[Val(backup[w])] =>
          ~dirty[backup[w]] /\ slot[Val(backup[w])] # NoSlot
    /\ pc = "restore" => fixed[Head(ready)] \/ slot[Head(ready)] # NoSlot

\* All nodes are handled, and the function returns.
Terminates == <>(pc = "done")
====
