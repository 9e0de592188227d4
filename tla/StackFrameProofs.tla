-------------------------- MODULE StackFrameProofs --------------------------
(* Theorems about StackFrame, for every choice of its constants. *)
EXTENDS StackFrame, TLAPS

\* What align_up computes for the alignments in use.
LEMMA AlignUp ==
    ASSUME NEW n \in Nat, NEW a \in Aligns
    PROVE  /\ align_up(n, a) \in Nat
           /\ n <= align_up(n, a) /\ align_up(n, a) < n + a
           /\ align_up(n, a) % a = 0
  BY DEF align_up, Aligns

\* A slot is at least as large as the request.
LEMMA SlotSizes ==
    ASSUME NEW n \in Nat \ {0}
    PROVE  /\ SlotSize(n) \in Nat \ {0} /\ n <= SlotSize(n)
           /\ SlotAlign(SlotSize(n)) \in Aligns
           /\ SlotSize(n) % SlotAlign(SlotSize(n)) = 0
<1>1. CASE n <= 16
  BY <1>1 DEF SlotSize, SlotAlign, Aligns
<1>2. CASE n > 16
  <2>1. SlotSize(n) = align_up(n, 16) BY <1>2 DEF SlotSize
  <2>2. 16 \in Aligns BY DEF Aligns
  <2>3. /\ SlotSize(n) \in Nat /\ n <= SlotSize(n) /\ SlotSize(n) % 16 = 0
    BY <2>1, <2>2, AlignUp
  <2>4. SlotAlign(SlotSize(n)) = 16 BY <1>2, <2>3 DEF SlotAlign
  <2> QED BY <1>2, <2>2, <2>3, <2>4
<1> QED BY <1>1, <1>2

\* The slot for a request has the alignment the request needs: the natural
\* alignment of the parts of a value, or the one of an alloca.
THEOREM AlignEnoughAlways == AlignEnough
<1> SUFFICES ASSUME NEW q \in Requests
             PROVE  SlotAlign(SlotSize(q.size)) % q.align = 0 /\ q.size <= SlotSize(q.size)
  BY DEF AlignEnough
<1>1. q.size \in Nat \ {0} /\ q.align \in Aligns /\ q.size % q.align = 0
  BY RequestAssumption DEF RequestAssumption
<1>2. q.size <= SlotSize(q.size) BY <1>1, SlotSizes
<1>3. CASE q.size <= 16
  <2>1. SlotAlign(SlotSize(q.size)) = SlotSize(q.size)
    BY <1>1, <1>3 DEF SlotAlign, SlotSize
  <2>2. SlotSize(q.size) \in Aligns /\ q.align <= SlotSize(q.size)
    <3>1. q.align <= q.size BY <1>1 DEF Aligns
    <3> QED BY <1>1, <1>2, <1>3, <3>1 DEF SlotSize, Aligns
  <2> QED BY <1>1, <1>2, <2>1, <2>2 DEF Aligns
<1>4. CASE q.size > 16
  <2>1. SlotAlign(SlotSize(q.size)) = 16
    BY <1>1, <1>2, <1>4, SlotSizes DEF SlotAlign
  <2> QED BY <1>1, <1>2, <2>1 DEF Aligns
<1> QED BY <1>1, <1>3, <1>4
(***************************************************************************)
(* The slots, described by their distance from the frame pointer: disjoint *)
(* intervals in [base, frame_size), each with a size and an alignment that *)
(* some list has.                                                          *)
(***************************************************************************)
Slots == live \cup free

SlotOK(s) == /\ SlotAlign(s.size) \in Aligns /\ s.size % SlotAlign(s.size) = 0
             /\ s.slot % SlotAlign(s.size) = 0

Apart(s, t) == Off(s) + s.size <= Off(t) \/ Off(t) + t.size <= Off(s)

Inv == /\ TypeOK
       /\ \A s \in Slots : SlotOK(s)
       /\ InFrame
       /\ base <= frame_size
       /\ \A s, t \in Slots : s # t => Apart(s, t)
       /\ live \cap free = {}

\* The two ways to measure distances agree.
LEMMA ApartDisjoint ==
    ASSUME NEW s \in [slot : Int, size : Nat], NEW t \in [slot : Int, size : Nat]
    PROVE  Apart(s, t) <=> Disjoint(s, t)
  BY RequestAssumption DEF Apart, Disjoint, Off, RequestAssumption

\* A slot placed at an aligned distance is an aligned slot.
LEMMA Placed ==
    ASSUME NEW off \in Nat, NEW sz \in Nat \ {0}, SlotAlign(sz) \in Aligns,
           off % SlotAlign(sz) = 0, sz % SlotAlign(sz) = 0
    PROVE  /\ SlotAt(off, sz) \in [slot : Int, size : Nat \ {0}]
           /\ Off(SlotAt(off, sz)) = off /\ SlotAt(off, sz).size = sz
           /\ SlotOK(SlotAt(off, sz))
<1>1. /\ SlotAt(off, sz) \in [slot : Int, size : Nat \ {0}]
      /\ Off(SlotAt(off, sz)) = off /\ SlotAt(off, sz).size = sz
  BY RequestAssumption DEF SlotAt, Off, RequestAssumption
<1>2. SlotAt(off, sz).slot = off \/ SlotAt(off, sz).slot = -(off + sz)
  BY DEF SlotAt
<1>3. \A a \in Aligns : off % a = 0 /\ sz % a = 0 => (-(off + sz)) % a = 0
  BY DEF Aligns
<1>4. SlotAt(off, sz).slot % SlotAlign(sz) = 0
  BY <1>2, <1>3
<1> QED BY <1>1, <1>4 DEF SlotOK

\* The padding consists of aligned pieces between the old frame size and the
\* aligned one, no two of them overlapping.
LEMMA PadPieces ==
    ASSUME NEW fs \in Nat, NEW a \in Aligns
    PROVE  /\ \A s \in Pad(fs, a) :
                /\ s \in [slot : Int, size : Nat \ {0}] /\ SlotOK(s)
                /\ fs <= Off(s) /\ Off(s) + s.size <= align_up(fs, a)
           /\ \A s, t \in Pad(fs, a) : s # t => Apart(s, t)
<1> DEFINE K == {j \in Aligns : j < a /\ PadAt(fs, j)}
<1>1. ASSUME NEW k \in K
      PROVE  /\ align_up(fs, k) \in Nat /\ align_up(fs, k) % k = 0 /\ fs <= align_up(fs, k)
             /\ align_up(fs, k) + k <= align_up(fs, a)
             /\ k \in Nat \ {0} /\ SlotAlign(k) = k
  BY DEF align_up, Aligns, PadAt, SlotAlign
<1>2. ASSUME NEW k \in K, NEW j \in K, k < j
      PROVE align_up(fs, k) + k <= align_up(fs, j)
  BY <1>2 DEF align_up, Aligns, PadAt
<1>3. ASSUME NEW k \in K
      PROVE LET s == SlotAt(align_up(fs, k), k)
            IN  /\ s \in [slot : Int, size : Nat \ {0}] /\ SlotOK(s)
                /\ Off(s) = align_up(fs, k) /\ s.size = k
  <2>1. k % SlotAlign(k) = 0 /\ SlotAlign(k) \in Aligns BY <1>1 DEF Aligns
  <2> QED BY <1>1, <2>1, Placed
<1>4. Pad(fs, a) = {SlotAt(align_up(fs, k), k) : k \in K} BY DEF Pad
<1>5. ASSUME NEW s \in Pad(fs, a), NEW t \in Pad(fs, a), s # t PROVE Apart(s, t)
  <2>1. PICK k \in K : s = SlotAt(align_up(fs, k), k) BY <1>4
  <2>2. PICK j \in K : t = SlotAt(align_up(fs, j), j) BY <1>4
  <2>3. k # j BY <1>5, <2>1, <2>2
  <2>4. k \in Nat /\ j \in Nat BY <1>1
  <2>5. CASE k < j BY <1>2, <1>3, <2>1, <2>2, <2>5 DEF Apart
  <2>6. CASE j < k BY <1>2, <1>3, <2>1, <2>2, <2>6 DEF Apart
  <2> QED BY <2>3, <2>4, <2>5, <2>6
<1>6. ASSUME NEW s \in Pad(fs, a)
      PROVE  /\ s \in [slot : Int, size : Nat \ {0}] /\ SlotOK(s)
             /\ fs <= Off(s) /\ Off(s) + s.size <= align_up(fs, a)
  <2>1. PICK k \in K : s = SlotAt(align_up(fs, k), k) BY <1>4
  <2> QED BY <1>1, <1>3, <2>1
<1> QED BY <1>5, <1>6

\* compile_func and Init: a frame with the prologue area and no slots.
LEMMA FreshFrame ==
    ASSUME base \in BaseSizes, frame_size = base, free = {}, live = {} PROVE Inv
  BY RequestAssumption DEF RequestAssumption, Inv, TypeOK, Slots, InFrame

\* Slots that change lists only.
LEMMA SameSlots ==
    ASSUME Inv, (live \cup free)' = live \cup free, (live \cap free)' = {},
           UNCHANGED <<base, frame_size>>
    PROVE  Inv'
<1>1. Slots' = Slots BY DEF Slots
<1>2. TypeOK'
  <2>1. live' \subseteq Slots /\ free' \subseteq Slots BY DEF Slots
  <2> QED BY <2>1 DEF Inv, TypeOK, Slots
<1>3. InFrame' BY DEF Inv, InFrame, Off
<1>4. (\A s \in Slots : SlotOK(s))' BY <1>1 DEF Inv, SlotOK
<1>5. (\A s, t \in Slots : s # t => Apart(s, t))' BY <1>1 DEF Inv, Apart, Off
<1> QED BY <1>2, <1>3, <1>4, <1>5 DEF Inv

\* Growing the frame, with the padding put on the free lists, keeps Inv.
LEMMA NewSlot == ASSUME Inv, NEW q \in Requests, allocate_new(q) PROVE Inv'
<1> DEFINE sz  == SlotSize(q.size)
           a   == SlotAlign(sz)
           off == align_up(frame_size, a)
           n   == SlotAt(off, sz)
           pad == Pad(frame_size, a)
<1>1. /\ free' = free \cup pad /\ live' = live \cup {n}
      /\ frame_size' = off + sz /\ base' = base
  BY DEF allocate_new
<1>2. /\ q.size \in Nat \ {0} BY RequestAssumption DEF RequestAssumption
<1>3. sz \in Nat \ {0} /\ a \in Aligns /\ sz % a = 0 BY <1>2, SlotSizes
<1>4. frame_size \in Nat /\ base \in Nat /\ base <= frame_size BY DEF Inv, TypeOK
<1>5. off \in Nat /\ frame_size <= off /\ off % a = 0 BY <1>3, <1>4, AlignUp
<1>6. /\ n \in [slot : Int, size : Nat \ {0}] /\ SlotOK(n)
      /\ Off(n) = off /\ n.size = sz
  BY <1>3, <1>5, Placed
<1>7. /\ \A s \in pad : /\ s \in [slot : Int, size : Nat \ {0}] /\ SlotOK(s)
                        /\ frame_size <= Off(s) /\ Off(s) + s.size <= off
      /\ \A s, t \in pad : s # t => Apart(s, t)
  BY <1>3, <1>4, PadPieces
<1> HIDE DEF sz, a, off, n, pad
<1>8. ASSUME NEW s \in Slots
      PROVE  /\ s \in [slot : Int, size : Nat \ {0}] /\ SlotOK(s)
             /\ base <= Off(s) /\ Off(s) + s.size <= frame_size
  BY DEF Inv, TypeOK, Slots, InFrame
<1>9. ASSUME NEW s \in [slot : Int, size : Nat \ {0}] PROVE Off(s) \in Int /\ s.size \in Nat \ {0}
  BY RequestAssumption DEF Off, RequestAssumption
<1>10. Slots' = Slots \cup pad \cup {n} BY <1>1 DEF Slots
<1>11. TypeOK' BY <1>1, <1>3, <1>5, <1>6, <1>7 DEF Inv, TypeOK
<1>12. \A s \in Slots' : SlotOK(s) BY <1>6, <1>7, <1>8, <1>10
<1>13. \A s \in Slots' : base <= Off(s) /\ Off(s) + s.size <= off + sz
  BY <1>3, <1>4, <1>5, <1>6, <1>7, <1>8, <1>9, <1>10
<1>14. ASSUME NEW s \in Slots, NEW t \in pad PROVE Apart(s, t)
  BY <1>4, <1>7, <1>8, <1>9 DEF Apart
<1>15. ASSUME NEW s \in Slots \cup pad PROVE Apart(s, n)
  BY <1>4, <1>5, <1>6, <1>7, <1>8, <1>9 DEF Apart
<1>16. \A s, t \in Slots' : s # t => Apart(s, t)
  BY <1>7, <1>10, <1>14, <1>15 DEF Inv, Apart
<1>17. \A s \in Slots, t \in pad \cup {n} : s # t
  BY <1>5, <1>4, <1>6, <1>7, <1>8, <1>9
<1>18. n \notin pad BY <1>3, <1>5, <1>6, <1>7, <1>9
<1>19. live' \cap free' = {} BY <1>1, <1>17, <1>18 DEF Inv, Slots
<1>20. InFrame' BY <1>1, <1>13 DEF InFrame, Slots, Off
<1>21. base' <= frame_size' BY <1>1, <1>3, <1>4, <1>5
<1> QED BY <1>11, <1>12, <1>16, <1>19, <1>20, <1>21 DEF Inv, SlotOK, Apart, Off, Slots

\* The invariant holds of the frame that the prologue sets up.
LEMMA InvInit == Init => Inv
  BY FreshFrame DEF Init

\* Every operation on the frame keeps the invariant.
LEMMA InvStep == Inv /\ [Next]_vars => Inv'
<1> SUFFICES ASSUME Inv, [Next]_vars PROVE Inv' OBVIOUS
<1>1. CASE compile_func
  BY <1>1, RequestAssumption
     DEF compile_func, RequestAssumption, Inv, TypeOK, Slots, InFrame
<1>2. ASSUME NEW q \in Requests, allocate_reused(q) PROVE Inv'
  <2>1. PICK s \in free : free' = free \ {s} /\ live' = live \cup {s} /\ UNCHANGED <<base, frame_size>>
    BY <1>2 DEF allocate_reused
  <2>2. (live \cup free)' = live \cup free BY <2>1
  <2>3. (live \cap free)' = {} BY <2>1 DEF Inv
  <2> QED BY <2>1, <2>2, <2>3, SameSlots
<1>3. ASSUME NEW q \in Requests, allocate_new(q) PROVE Inv' BY <1>3, NewSlot
<1>4. ASSUME NEW s \in live, free_stack_slot(s) PROVE Inv'
  <2>1. free' = free \cup {s} /\ live' = live \ {s} /\ UNCHANGED <<base, frame_size>>
    BY <1>4 DEF free_stack_slot
  <2>2. (live \cup free)' = live \cup free BY <2>1
  <2>3. (live \cap free)' = {} BY <2>1 DEF Inv
  <2> QED BY <2>1, <2>2, <2>3, SameSlots
<1>5. CASE UNCHANGED vars
  <2>1. (live \cap free)' = {} BY <1>5 DEF vars, Inv
  <2> QED BY <1>5, <2>1, SameSlots DEF vars
<1> QED BY <1>1, <1>2, <1>3, <1>4, <1>5 DEF Next

\* The inductive invariant: all slots, in use or free, are typed, aligned, in the
\* frame and apart from each other, whatever allocate_stack_slot and
\* free_stack_slot were asked to do.
THEOREM InvAlways == Spec => []Inv
  BY InvInit, InvStep, PTL DEF Spec

\* Frame size and slots keep their types under allocate_stack_slot and
\* free_stack_slot; no slot is empty.
THEOREM TypeOKAlways == Spec => []TypeOK
<1>1. Inv => TypeOK BY DEF Inv
<1> QED BY <1>1, InvAlways, PTL

\* allocate_stack_slot and free_stack_slot never hand out overlapping slots,
\* nor one that is on a free list, whatever the sizes requested and the area
\* the prologue reserved.
THEOREM SlotsDisjointAlways == Spec => []SlotsDisjoint
<1>1. Inv => SlotsDisjoint
  <2> SUFFICES ASSUME Inv, NEW s \in live \cup free, NEW t \in live \cup free, s # t
               PROVE  Disjoint(s, t)
    BY DEF SlotsDisjoint, Inv
  <2>1. s \in [slot : Int, size : Nat] /\ t \in [slot : Int, size : Nat]
    BY DEF Inv, TypeOK
  <2>2. Apart(s, t) BY DEF Inv, Slots
  <2> QED BY <2>1, <2>2, ApartDisjoint
<1> QED BY <1>1, InvAlways, PTL

\* All slots lie in the frame, above the area of the prologue.
THEOREM InFrameAlways == Spec => []InFrame
<1>1. Inv => InFrame BY DEF Inv
<1> QED BY <1>1, InvAlways, PTL

\* All slots are aligned, also those cut from padding or reused.
THEOREM AlignedAlways == Spec => []Aligned
<1>1. Inv => Aligned BY DEF Inv, Aligned, Slots, SlotOK
<1> QED BY <1>1, InvAlways, PTL
====
