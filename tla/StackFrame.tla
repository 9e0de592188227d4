----------------------------- MODULE StackFrame -----------------------------
(***************************************************************************)
(* The stack frame of the function being compiled: allocate_stack_slot and *)
(* free_stack_slot of CompilerBase, on top of the area that the prologue   *)
(* reserves for callee-saved registers and the variable-argument area.     *)
(*                                                                         *)
(* Slots are addressed relative to the frame pointer, downwards on x86-64  *)
(* (FRAME_INDEXING_NEGATIVE) and upwards on AArch64.  Freed slots and the  *)
(* padding skipped for alignment go to free lists by size; which slot of a *)
(* list is handed out first makes no difference to the properties, so a    *)
(* list is a set here.  An operator named Op_fault is a faulty variant of  *)
(* Op that no action uses: a mistake the properties have to notice.        *)
(***************************************************************************)
EXTENDS Integers, FiniteSets

CONSTANTS
    Negative,    \* Config::FRAME_INDEXING_NEGATIVE
    BaseSizes,   \* sizes of the area the prologue may reserve
    Requests,    \* the requests: size in bytes and alignment needed
    MaxFrame,    \* bound on the frame size, for TLC
    MaxLive      \* bound on the number of slots in use, for TLC

VARIABLES
    base,        \* size of the area reserved by the prologue
    frame_size,  \* stack.frame_size
    free,        \* fixed_free_lists and dynamic_free_lists
    live         \* slots handed out and not freed yet

vars == <<base, frame_size, free, live>>

\* The alignments that values and allocas have.
Aligns == {1, 2, 4, 8, 16}

\* A value has max_part_size * part_count bytes and its parts are accessed
\* with their natural alignment; the size of an alloca is aligned up.
ASSUME RequestAssumption ==
    /\ Negative \in BOOLEAN
    /\ BaseSizes \subseteq {n \in Nat \ {0} : n % 8 = 0}
    /\ Requests \subseteq [size : Nat \ {0}, align : Aligns]
    /\ \A q \in Requests : q.size % q.align = 0
    /\ MaxFrame \in Nat /\ MaxLive \in Nat

align_up(n, a) == ((n + a - 1) \div a) * a

\* The size of the slot for a request of `size' bytes: a power of two up to
\* 16 bytes, otherwise a multiple of 16.
SlotSize(size) ==
    CASE size = 1 -> 1 [] size = 2 -> 2 [] size \in 3 .. 4 -> 4
      [] size \in 5 .. 8 -> 8 [] size \in 9 .. 16 -> 16
      [] OTHER -> align_up(size, 16)
\* Its alignment, 1 << align_bits.
SlotAlign(sz) == IF sz <= 16 THEN sz ELSE 16

\* The distance of a slot from the frame pointer, away from the frame's start,
\* and the slot at such a distance.
Off(s) == IF Negative THEN -(s.slot + s.size) ELSE s.slot
SlotAt_end(off, sz) == [slot |-> IF Negative THEN -off ELSE off, size |-> sz]
SlotAt(off, sz) == [slot |-> IF Negative THEN -(off + sz) ELSE off, size |-> sz]

\* The padding up to an `a'-aligned frame size, as pieces for the free lists:
\* while the frame size is not aligned, its lowest set bit is the size of the
\* next piece.
PadAt(fs, k) == align_up(fs, k) % (2 * k) # 0
Pad(fs, a) == {SlotAt(align_up(fs, k), k) : k \in {j \in Aligns : j < a /\ PadAt(fs, j)}}

Init ==
    /\ base \in BaseSizes
    /\ frame_size = base
    /\ free = {}
    /\ live = {}

\* compile_func clears the free lists; the prologue sets the frame size.
compile_func ==
    /\ base' \in BaseSizes
    /\ frame_size' = base'
    /\ free' = {}
    /\ live' = {}

\* allocate_stack_slot, from a free list ...
allocate_reused(q) ==
    /\ Cardinality(live) < MaxLive
    /\ \E s \in free :
        /\ s.size = SlotSize(q.size)
        /\ free' = free \ {s}
        /\ live' = live \cup {s}
        /\ UNCHANGED <<base, frame_size>>

\* ... or by growing the frame.
allocate_new_unaligned(q) ==
    LET sz == SlotSize(q.size)
    IN  /\ Cardinality(live) < MaxLive
        /\ \A s \in free : s.size # sz
        /\ frame_size + sz <= MaxFrame
        /\ live' = live \cup {SlotAt(frame_size, sz)}
        /\ frame_size' = frame_size + sz
        /\ UNCHANGED <<base, free>>
allocate_new(q) ==
    LET sz  == SlotSize(q.size)
        off == align_up(frame_size, SlotAlign(sz))
    IN  /\ Cardinality(live) < MaxLive
        /\ \A s \in free : s.size # sz
        /\ off + sz <= MaxFrame
        /\ free' = free \cup Pad(frame_size, SlotAlign(sz))
        /\ live' = live \cup {SlotAt(off, sz)}
        /\ frame_size' = off + sz
        /\ UNCHANGED base

\* free_stack_slot rounds the size as allocate_stack_slot did.
free_stack_slot(s) ==
    /\ live' = live \ {s}
    /\ free' = free \cup {s}
    /\ UNCHANGED <<base, frame_size>>

Next == \/ compile_func
        \/ \E q \in Requests : allocate_reused(q) \/ allocate_new(q)
        \/ \E s \in live : free_stack_slot(s)

Spec == Init /\ [][Next]_vars

----------------------------------------------------------------------------
\* Frame size, slots in use and free slots have the types of the fields.
TypeOK ==
    /\ base \in Nat \ {0} /\ frame_size \in Nat
    /\ free \subseteq [slot : Int, size : Nat \ {0}]
    /\ live \subseteq [slot : Int, size : Nat \ {0}]

\* Do the bytes of two slots overlap?
Disjoint(s, t) == s.slot + s.size <= t.slot \/ t.slot + t.size <= s.slot

\* However slots are allocated, freed and reused, two slots never share a
\* byte: a spilled value is not overwritten by the spill of another one, and
\* no slot is on a free list while it is in use.
SlotsDisjoint ==
    /\ \A s, t \in live \cup free : s # t => Disjoint(s, t)
    /\ live \cap free = {}

\* Slots lie above the area of the prologue (saved registers) and within the
\* frame that finish_func reserves.
InFrame == \A s \in live \cup free : base <= Off(s) /\ Off(s) + s.size <= frame_size

\* A slot has the alignment that vector spills and AArch64's scaled offsets
\* need, whatever list it comes from.
Aligned == \A s \in live \cup free : s.slot % SlotAlign(s.size) = 0

\* ... which is at least the alignment the request asked for.
AlignEnough == \A q \in Requests : SlotAlign(SlotSize(q.size)) % q.align = 0
                                   /\ q.size <= SlotSize(q.size)
====
