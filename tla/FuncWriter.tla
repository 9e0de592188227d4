----------------------------- MODULE FuncWriter -----------------------------
(***************************************************************************)
(* The text writer of AArch64 functions: FunctionWriter and                *)
(* FunctionWriterA64, with generate_raw_jump of CompilerA64.               *)
(*                                                                         *)
(* A conditional branch reaches only a short way forwards.  When reserved  *)
(* memory runs out, more_space may put a region of veneers into the code,  *)
(* one slot for each conditional branch whose label is not placed yet and  *)
(* a branch in front that skips the region.  handle_fixups patches the     *)
(* branches when the function is complete; those that are too far from     *)
(* their labels go through a slot of the region behind them.               *)
(*                                                                         *)
(* Offsets and sizes are in bytes and an instruction has 4; how far the    *)
(* branches reach and the sizes of the section are parameters.  Only       *)
(* branches and slots are kept in text, with the label they are for.       *)
(* wr.chunk remembers the largest stretch of memory that was reserved at a *)
(* time; the code has no such field.  Op_fault is a faulty variant of Op   *)
(* that no action uses.                                                    *)
(***************************************************************************)
EXTENDS Integers, Sequences, FiniteSets, SequencesExt

CONSTANTS
    TestReach,    \* how far forwards TBZ and TBNZ reach: 4 << (14 - 1)
    CondReach,    \* how far CBZ, CBNZ and B.cond reach: 4 << (19 - 1)
    Capacities,   \* initial capacities of the section's storage: 256
    Expected,     \* sizes that compile_func may expect of a function
    MaxGrowth,    \* limit of growth_size: 16 MiB
    Limit,        \* limit of the text section: 128 MiB
    Labels,       \* labels of a function
    Kinds,        \* kinds of branches in use
    MaxBranches,  \* bound on the number of branches of a function
    MaxStart      \* bound on the offset of a function

ASSUME WriterAssumption ==
    /\ TestReach \in Nat /\ CondReach \in Nat /\ TestReach <= CondReach
    /\ Capacities \subseteq Nat /\ Expected \subseteq Nat \ {0}
    /\ MaxGrowth \in Nat \ {0} /\ Limit \in Nat
    /\ MaxBranches \in Nat /\ MaxStart \in Nat
    /\ Kinds \subseteq {"b", "cond", "test"}
    /\ -1 \notin Labels

VARIABLES
    phase,          \* "idle", "emit", "fixups", "fatal", "assert"
    wr,             \* the section's storage and the writer's position, see TypeOK
    text,           \* branches and veneer slots of the function
    label_offsets,  \* offsets of the labels that are placed
    label_fixups,   \* references to labels before they are placed
    handled,        \* how many of them handle_fixups is done with
    failed          \* the assertion of handle_fixups that does not hold, or "none"

vars == <<phase, wr, text, label_offsets, label_fixups, handled, failed>>

align_up(n, k) == ((n + k - 1) \div k) * k
Larger(a, b) == IF a < b THEN b ELSE a
Smaller(a, b) == IF a < b THEN a ELSE b

\* How far forwards a conditional branch reaches.
Reach(kind) == IF kind = "test" THEN TestReach ELSE CondReach

\* An instruction of interest: its operation, where it branches to (-1 if
\* that is not known yet), the label it is for, and whether it is a slot.
Branch(op, dest, label) == [op |-> op, dest |-> dest, label |-> label, slot |-> FALSE]
Slot == [op |-> "zero", dest |-> -1, label |-> -1, slot |-> TRUE]

\* The function f with the value y at x.
With(f, x, y) == [z \in DOMAIN f \cup {x} |-> IF z = x THEN y ELSE f[z]]

----------------------------------------------------------------------------
(***************************************************************************)
(* Space.  s is a state of the storage and the writer, together with the   *)
(* text.                                                                   *)
(***************************************************************************)
\* FunctionWriter::more_space with SmallVector::resize_uninitialized.
reserve(s, n) ==
    IF s.size + n <= s.cap THEN [s EXCEPT !.size = s.cap]
    ELSE LET new == s.size + Larger(n, s.growth)
         IN  [s EXCEPT !.size = new,
                       !.cap = Larger(2 * s.cap + 1, new),
                       !.growth = Smaller(s.growth + s.growth \div 2, MaxGrowth)]

\* Can every counted branch reach the end of the reserved memory?  The code
\* computes with 32 bits: a sum below 0 wraps to a large one.
Reachable_kinds(s, allocated) ==
    LET last == IF s.veneers = <<>> THEN 0 ELSE Last(s.veneers)
        end  == last + CondReach - 4 * (s.test + s.cond)
    IN  end < 0 \/ end > allocated
Reachable(s, allocated) ==
    LET last == IF s.veneers = <<>> THEN 0 ELSE Last(s.veneers)
        max  == IF s.test > 0 THEN TestReach ELSE CondReach
        end  == last + max - 4 * (s.test + s.cond)
    IN  end < 0 \/ end > allocated

\* The section's storage for n bytes more and a region of so many bytes.
Grown_short(s, n, size) ==
    LET g == reserve(s, n) IN [g EXCEPT !.chunk = Larger(@, g.size - s.off)]
Grown(s, n, size) ==
    LET g == reserve(s, n + size + 4) IN [g EXCEPT !.chunk = Larger(@, g.size - s.off)]

\* FunctionWriterA64::more_space.
more_space(s, n) ==
    LET size == 4 * (s.test + s.cond)
        r    == Grown(s, n, size)
        slots == {s.off + 4 * k : k \in 1 .. s.test + s.cond}
    IN  IF size = 0 \/ Reachable(s, r.size) THEN r
        ELSE [r EXCEPT !.veneers = Append(@, s.off + 4),
                       !.test = 0, !.cond = 0,
                       !.off = @ + size + 4,
                       !.text = With([o \in DOMAIN @ \cup slots |-> IF o \in slots THEN Slot ELSE @[o]],
                                     s.off, Branch("b", s.off + 4 + size, -1))]

ensure_space(s, n) == IF s.size - s.off < n THEN more_space(s, n) ELSE s
TooLarge(s, n) == s.size - s.off < n /\ s.size >= Limit

WriterFields == {"size", "cap", "off", "growth", "test", "cond", "veneers", "chunk"}
Writer == [f \in WriterFields \cup {"text", "failed"} |->
              IF f = "text" THEN text ELSE IF f = "failed" THEN failed ELSE wr[f]]
Become(s) == /\ wr' = [f \in WriterFields |-> s[f]]
             /\ text' = s.text

----------------------------------------------------------------------------
Init ==
    /\ phase = "idle"
    /\ \E c \in Capacities :
        wr = [size |-> 0, cap |-> c, off |-> 0, growth |-> 65536,
              test |-> 0, cond |-> 0, veneers |-> <<>>, chunk |-> 0]
    /\ text = <<>> /\ label_offsets = <<>> /\ label_fixups = <<>> /\ handled = 0
    /\ failed = "none"

\* begin_func, and start_func, which aligns the function.
begin_func(n) ==
    LET s == [Writer EXCEPT !.veneers = <<>>, !.test = 0, !.cond = 0, !.growth = n, !.text = <<>>,
                            !.chunk = wr.size - wr.off]
        e == ensure_space(s, n)
        a == ensure_space(e, 16)
    IN  /\ phase = "idle" /\ wr.off <= MaxStart
        /\ ~TooLarge(s, n) /\ ~TooLarge(e, 16)
        /\ Become([a EXCEPT !.off = align_up(@, 16)])
        /\ label_offsets' = <<>> /\ label_fixups' = <<>> /\ handled' = 0
        /\ phase' = "emit"
        /\ UNCHANGED failed

\* An instruction that is no branch, or a pair that has to be contiguous.
write_inst(n) ==
    LET s == ensure_space(Writer, 4 * n)
    IN  /\ phase = "emit" /\ ~TooLarge(Writer, 4 * n)
        /\ Become([s EXCEPT !.off = @ + 4 * n])
        /\ UNCHANGED <<phase, label_offsets, label_fixups, handled, failed>>

label_place(l) ==
    /\ phase = "emit" /\ l \notin DOMAIN label_offsets
    /\ label_offsets' = With(label_offsets, l, wr.off)
    /\ UNCHANGED <<phase, wr, text, label_fixups, handled, failed>>

Branches == Cardinality({o \in DOMAIN text : text[o].label # -1})

\* label_ref counts the conditional branches by kind.
Counted(s, kind) == CASE kind = "test" -> [s EXCEPT !.test = @ + 1]
                      [] kind = "cond" -> [s EXCEPT !.cond = @ + 1]
                      [] OTHER         -> s

\* generate_raw_jump to a label that is not placed yet.
jump_pending(kind, l) ==
    LET s == ensure_space(Writer, 4)
    IN  /\ phase = "emit" /\ Branches < MaxBranches
        /\ l \notin DOMAIN label_offsets
        /\ ~TooLarge(Writer, 4)
        /\ Become(Counted([s EXCEPT !.off = @ + 4, !.text = With(@, s.off, Branch(kind, -1, l))],
                          kind))
        /\ label_fixups' = Append(label_fixups, [label |-> l, off |-> s.off, kind |-> kind])
        /\ UNCHANGED <<phase, label_offsets, handled, failed>>

\* ... and to one that is: directly if it is near enough,
jump_back_near_stale(kind, l) ==
    LET s == ensure_space(Writer, 4)
    IN  /\ phase = "emit" /\ Branches < MaxBranches
        /\ l \in DOMAIN label_offsets
        /\ ~TooLarge(Writer, 4)
        /\ kind # "b" => s.off - label_offsets[l] <= Reach(kind)
        /\ Become([s EXCEPT !.off = @ + 4,
                            !.text = With(@, s.off, Branch(kind, s.off - (wr.off - label_offsets[l]), l))])
        /\ UNCHANGED <<phase, label_offsets, label_fixups, handled, failed>>
jump_back_near(kind, l) ==
    LET s == ensure_space(Writer, 4)
    IN  /\ phase = "emit" /\ Branches < MaxBranches
        /\ l \in DOMAIN label_offsets
        /\ ~TooLarge(Writer, 4)
        /\ kind # "b" => s.off - label_offsets[l] <= Reach(kind)
        /\ Become([s EXCEPT !.off = @ + 4,
                            !.text = With(@, s.off, Branch(kind, label_offsets[l], l))])
        /\ UNCHANGED <<phase, label_offsets, label_fixups, handled, failed>>

\* otherwise with a B that the inverted branch skips.  The distance is taken
\* before space for the two is ensured.
jump_back_far(kind, l) ==
    LET s == ensure_space(Writer, 4)
        e == ensure_space(s, 8)
        d == s.off - label_offsets[l]
    IN  /\ phase = "emit" /\ Branches < MaxBranches
        /\ l \in DOMAIN label_offsets /\ kind # "b"
        /\ ~TooLarge(Writer, 4) /\ ~TooLarge(s, 8)
        /\ d > Reach(kind)
        /\ Become([e EXCEPT !.off = @ + 8,
                            !.text = With(With(@, e.off + 4, Branch("b", e.off - d, l)),
                                          e.off, Branch(kind, e.off + 8, -1))])
        /\ UNCHANGED <<phase, label_offsets, label_fixups, handled, failed>>

----------------------------------------------------------------------------
(***************************************************************************)
(* handle_fixups.  h is the writer: the text, the veneers (the next free   *)
(* slot of each region), the two counts and the assertion that failed.     *)
(***************************************************************************)
\* The index of the region for a branch at off, as lower_bound finds it.
lower_bound_first(veneers, off) == 1
lower_bound(veneers, off) == Cardinality({k \in DOMAIN veneers : veneers[k] < off}) + 1

\* The destination after the immediate is written, -1 if it does not fit.
Patch(h, f, diff) ==
    [h EXCEPT !.text[f.off].dest = IF diff < Reach(f.kind) THEN f.off + diff ELSE -1]

fix_condbr(h, f) ==
    LET label == label_offsets[f.label]
        k     == lower_bound(h.veneers, f.off)
        slot  == h.veneers[k]
    IN  IF label - f.off < Reach(f.kind) THEN Patch(h, f, label - f.off)
        ELSE IF k \notin DOMAIN h.veneers THEN [h EXCEPT !.failed = "missing"]
        ELSE IF slot \notin DOMAIN h.text \/ h.text[slot].op # "zero"
        THEN [h EXCEPT !.failed = "overwriting"]
        ELSE Patch([h EXCEPT !.text[slot].op = "b", !.text[slot].dest = label,
                             !.veneers[k] = @ + 4],
                   f, slot - f.off)

\* Branches behind the last region are still counted.
Uncounted(h, f) ==
    IF h.veneers # <<>> /\ Last(h.veneers) >= f.off THEN h
    ELSE IF h[f.kind] = 0 THEN [h EXCEPT !.failed = "count"]
    ELSE [h EXCEPT ![f.kind] = @ - 1]

Fix(h, f) ==
    IF h.failed # "none" THEN h
    ELSE IF f.kind = "b" THEN [h EXCEPT !.text[f.off].dest = label_offsets[f.label]]
    ELSE LET u == Uncounted(h, f)
         IN  IF u.failed # "none" THEN u ELSE fix_condbr(u, f)

\* One turn of handle_fixups' loop.
handle_fixup ==
    LET h == Fix(Writer, label_fixups[handled + 1])
    IN  /\ phase = "fixups"
        /\ Become(h) /\ failed' = h.failed /\ handled' = handled + 1
        /\ phase' = IF h.failed # "none" THEN "assert"
                    ELSE IF handled' = Len(label_fixups) THEN "idle" ELSE "fixups"
        /\ UNCHANGED <<label_offsets, label_fixups>>

\* finish_func; the next function follows in the same section.
finish_func ==
    /\ phase = "emit"
    /\ \A k \in DOMAIN label_fixups : label_fixups[k].label \in DOMAIN label_offsets
    /\ phase' = IF label_fixups = <<>> THEN "idle" ELSE "fixups"
    /\ UNCHANGED <<wr, text, label_offsets, label_fixups, handled, failed>>

\* The exception tables or the end of the module flush the writer.
flush ==
    /\ phase = "idle"
    /\ wr' = [wr EXCEPT !.size = wr.off]
    /\ UNCHANGED <<phase, text, label_offsets, label_fixups, handled, failed>>

\* more_space gives up when the section is too large.
fatal ==
    /\ \/ phase = "idle" /\ wr.off <= MaxStart /\ \E n \in Expected \cup {16} : TooLarge(Writer, n)
       \/ phase = "emit" /\ TooLarge(Writer, 8)
    /\ phase' = "fatal"
    /\ UNCHANGED <<wr, text, label_offsets, label_fixups, handled, failed>>

Stopped == \/ phase \in {"fatal", "assert"} /\ UNCHANGED vars
           \/ phase = "idle" /\ wr.off > MaxStart /\ UNCHANGED vars

Next == \/ \E n \in Expected : begin_func(n)
        \/ \E n \in 1 .. 2 : write_inst(n)
        \/ \E l \in Labels : label_place(l)
        \/ \E kind \in Kinds, l \in Labels :
              jump_pending(kind, l) \/ jump_back_near(kind, l) \/ jump_back_far(kind, l)
        \/ finish_func \/ handle_fixup \/ flush \/ fatal \/ Stopped

Spec == Init /\ [][Next]_vars

----------------------------------------------------------------------------
\* The fields of the writer, the labels and the references have their types.
TypeOK ==
    /\ wr.size \in Nat /\ wr.cap \in Nat /\ wr.off \in Nat /\ wr.growth \in Nat
    /\ wr.test \in Nat /\ wr.cond \in Nat /\ wr.chunk \in Nat /\ wr.veneers \in Seq(Nat)
    /\ DOMAIN label_offsets \subseteq Labels
    /\ \A k \in DOMAIN label_fixups : label_fixups[k] \in [label : Labels, off : Nat, kind : Kinds]

\* Instructions and veneers are written into reserved memory, also when the
\* reservation itself puts a region of veneers in front of them.
WithinReserve == wr.off <= wr.size /\ wr.size <= wr.cap

BehindRegion(o) == o - 4 \in DOMAIN text /\ text[o - 4].slot
\* The second of two instructions of a far branch, with a region in front.
FarBehindRegion(o) == text[o].op = "b" /\ BehindRegion(o - 4)

\* When a function is finished, a branch goes to its label or to a slot that
\* does: no slot serves two branches and none lies before its branch.  Excepted
\* are branches whose immediate is too small, see NearSuffices, and far
\* backward branches directly behind a region.
Leads(o) ==
    LET d == text[o].dest
        l == label_offsets[text[o].label]
    IN  d = l \/ (d \in DOMAIN text /\ text[d].slot /\ text[d].op = "b" /\ text[d].dest = l)
BranchesLead ==
    phase = "idle" =>
        \A o \in DOMAIN text : /\ text[o].label # -1 /\ text[o].dest # -1 /\ ~FarBehindRegion(o)
                               => Leads(o)

\* While no more memory is reserved at a time than a test branch reaches, less
\* a slot for each branch, every branch that is too far from its label has a
\* region behind it, and a slot of it within reach.
NearSuffices ==
    phase \in {"idle", "assert"} /\ wr.chunk + 4 * MaxBranches < TestReach =>
        /\ failed # "missing"
        /\ phase = "idle" => \A o \in DOMAIN text : text[o].label # -1 => text[o].dest # -1

\* The assertion that a veneer overwrites nothing fails in one case only: a
\* branch directly behind a region whose slots are all used takes the end of
\* that region for a slot.
OverwritesOnlyBehind ==
    failed = "overwriting" => \E k \in DOMAIN label_fixups : BehindRegion(label_fixups[k].off)

\* The assertions of handle_fixups: a branch that is too far from its label has
\* a region of veneers behind it, ...
VeneerFound == failed # "missing"
\* ... and the veneer overwrites no instruction, also when the slots of a region
\* are used up and the branches go on directly behind it.
NothingOverwritten == failed # "overwriting"

\* The B of a far backward branch lies 4 bytes behind the place from which the
\* distance to the label was taken (the comment at generate_raw_jump's ASMNC(B)),
\* so that it leads there even if the memory had to grow for it.
FarBranchesLead ==
    phase = "idle" =>
        \A o \in DOMAIN text : text[o].label # -1 /\ FarBehindRegion(o) => Leads(o)
====
