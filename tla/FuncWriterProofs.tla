-------------------------- MODULE FuncWriterProofs --------------------------
(***************************************************************************)
(* The text writer stays within the memory it reserved; each branch of a   *)
(* complete function leads to its label, directly or through a slot of its *)
(* own; no instruction is overwritten by a veneer; and no region is        *)
(* missing while reservations are smaller than a branch reaches.  All of   *)
(* it for any reaches, capacities, expected sizes and limits.              *)
(***************************************************************************)
EXTENDS FuncWriter, FiniteSetTheorems, FunctionTheorems, SequenceTheorems, TLAPS

Fields == WriterFields \cup {"text", "failed"}
Fixups == [label : Labels, off : Nat, kind : Kinds]

\* A writer whose position lies within its section and the section within its
\* storage, with counts of branches that more_space can compute with.
Room(s) ==
    /\ DOMAIN s = Fields
    /\ s["size"] \in Nat /\ s["cap"] \in Nat /\ s["off"] \in Nat /\ s["growth"] \in Nat
    /\ s["test"] \in Nat /\ s["cond"] \in Nat /\ s["chunk"] \in Nat
    /\ s["off"] <= s["size"] /\ s["size"] <= s["cap"]

\* The inductive invariant.  Between functions the counts are what
\* handle_fixups left of them; begin_func resets them before they are used.
WriterInv ==
    /\ DOMAIN wr = WriterFields
    /\ wr.size \in Nat /\ wr.cap \in Nat /\ wr.off \in Nat /\ wr.growth \in Nat /\ wr.chunk \in Nat
    /\ phase = "emit" => wr.test \in Nat /\ wr.cond \in Nat
    /\ WithinReserve
    /\ label_fixups \in Seq(Fixups) /\ handled \in 0 .. Len(label_fixups)
    /\ phase = "emit" => handled = 0
    /\ phase = "fixups" => handled < Len(label_fixups)
    /\ phase = "idle" => handled = Len(label_fixups)

\* SmallVector's growth leaves n bytes behind the old end of the section.
LEMMA ReserveRoom ==
    ASSUME NEW s, Room(s), NEW n \in Nat
    PROVE  /\ Room(reserve(s, n))
           /\ reserve(s, n).size >= s.size + n
           /\ reserve(s, n).off = s.off /\ reserve(s, n).test = s.test /\ reserve(s, n).cond = s.cond
<1>1. Larger(n, s.growth) \in Nat /\ Larger(n, s.growth) >= n
  BY DEF Room, Larger
<1>2. Smaller(s.growth + s.growth \div 2, MaxGrowth) \in Nat
  BY WriterAssumption DEF Room, Smaller
<1>3. CASE s.size + n <= s.cap
  BY <1>3 DEF Room, reserve, Fields, WriterFields
<1>4. CASE ~(s.size + n <= s.cap)
  <2> DEFINE new == s.size + Larger(n, s.growth)
  <2>1. new \in Nat /\ new >= s.size + n
    BY <1>1 DEF Room
  <2>2. Larger(2 * s.cap + 1, new) \in Nat /\ Larger(2 * s.cap + 1, new) >= new
    BY <2>1 DEF Room, Larger
  <2>3. reserve(s, n) = [s EXCEPT !.size = new, !.cap = Larger(2 * s.cap + 1, new),
                                  !.growth = Smaller(s.growth + s.growth \div 2, MaxGrowth)]
    BY <1>4 DEF reserve
  <2> HIDE DEF new
  <2> QED BY <1>2, <2>1, <2>2, <2>3 DEF Room, Fields, WriterFields
<1> QED BY <1>3, <1>4

\* FunctionWriterA64::more_space leaves n bytes, also behind the region of
\* veneers that it may put in front of them.
LEMMA MoreSpaceRoom ==
    ASSUME NEW s, Room(s), NEW n \in Nat
    PROVE  /\ Room(more_space(s, n))
           /\ more_space(s, n).size - more_space(s, n).off >= n
<1> DEFINE size == 4 * (s.test + s.cond)
           g == reserve(s, n + size + 4)
           r == Grown(s, n, size)
<1>1. size \in Nat /\ n + size + 4 \in Nat
  BY DEF Room
<1>2. /\ Room(g) /\ g.size >= s.size + n + size + 4 /\ g.off = s.off
  <2> HIDE DEF size
  <2>1. /\ Room(g) /\ g.size >= s.size + (n + size + 4) /\ g.off = s.off
    BY <1>1, ReserveRoom
  <2> QED BY <1>1, <2>1 DEF Room
<1>3. /\ Room(r) /\ r.size = g.size /\ r.off = s.off
  <2>1. r = [g EXCEPT !.chunk = Larger(@, g.size - s.off)]
    BY DEF Grown
  <2>2. Larger(g.chunk, g.size - s.off) \in Nat
    <3> HIDE DEF g, r
    <3> QED BY <1>2 DEF Room, Larger
  <2> HIDE DEF g, r
  <2> QED BY <1>2, <2>1, <2>2 DEF Room, Fields, WriterFields
<1>4. CASE size = 0 \/ Reachable(s, r.size)
  <2>1. more_space(s, n) = r
    BY <1>4 DEF more_space
  <2> HIDE DEF g, r, size
  <2> QED BY <1>1, <1>2, <1>3, <2>1 DEF Room
<1>5. CASE ~(size = 0 \/ Reachable(s, r.size))
  <2>1. \E v, t : more_space(s, n) = [r EXCEPT !.veneers = v, !.test = 0, !.cond = 0,
                                                !.off = @ + size + 4, !.text = t]
    BY <1>5 DEF more_space
  <2> HIDE DEF g, r, size
  <2> QED BY <1>1, <1>2, <1>3, <2>1 DEF Room, Fields, WriterFields
<1> QED BY <1>4, <1>5

\* FunctionWriter::ensure_space leaves n bytes behind the position.
LEMMA EnsureSpaceRoom ==
    ASSUME NEW s, Room(s), NEW n \in Nat
    PROVE  /\ Room(ensure_space(s, n))
           /\ ensure_space(s, n).size - ensure_space(s, n).off >= n
<1>1. CASE s.size - s.off < n
  BY <1>1, MoreSpaceRoom DEF ensure_space
<1>2. CASE ~(s.size - s.off < n)
  BY <1>2 DEF ensure_space, Room
<1> QED BY <1>1, <1>2

\* The writer of a function under way has room in this sense.
LEMMA WriterRoom == ASSUME WriterInv, phase = "emit" PROVE Room(Writer)
  BY DEF Writer, Room, WriterInv, WithinReserve, Fields, WriterFields

\* A step that leaves the writer with room keeps the invariant.
LEMMA BecomeInv ==
    ASSUME NEW s, Room(s), Become(s), phase' = "emit", label_fixups' \in Seq(Fixups), handled' = 0
    PROVE  WriterInv'
  BY DEF Room, Become, WriterInv, WithinReserve, Fields, WriterFields

\* begin_func resets the counts and aligns the position within 16 bytes it
\* ensured.
LEMMA BeginInv == ASSUME WriterInv, NEW n \in Expected, begin_func(n) PROVE WriterInv'
<1> DEFINE s == [Writer EXCEPT !.veneers = <<>>, !.test = 0, !.cond = 0, !.growth = n, !.text = <<>>,
                               !.chunk = wr.size - wr.off]
           e == ensure_space(s, n)
           a == ensure_space(e, 16)
<1>1. n \in Nat /\ Become([a EXCEPT !.off = align_up(@, 16)])
  BY WriterAssumption DEF begin_func
<1>2. Room(s)
  <2>1. wr.size - wr.off \in Nat
    BY DEF WriterInv, WithinReserve
  <2> QED BY <1>1, <2>1 DEF Writer, Room, WriterInv, WithinReserve, Fields, WriterFields
<1>3. Room(e)
  <2> HIDE DEF s
  <2> QED BY <1>1, <1>2, EnsureSpaceRoom
<1>4. Room(a) /\ a.size - a.off >= 16
  <2> HIDE DEF e
  <2> QED BY <1>3, EnsureSpaceRoom
<1> HIDE DEF a
<1>5. \A k \in Nat : align_up(k, 16) \in Nat /\ align_up(k, 16) <= k + 15
  BY DEF align_up
<1>6. Room([a EXCEPT !.off = align_up(@, 16)])
  BY <1>4, <1>5 DEF Room, Fields, WriterFields
<1>7. phase' = "emit" /\ label_fixups' \in Seq(Fixups) /\ handled' = 0
  BY DEF begin_func
<1> QED BY <1>1, <1>6, <1>7, BecomeInv

\* Instructions and branches advance by what they ensured.
LEMMA EmitInv ==
    ASSUME WriterInv,
           \/ \E n \in 1 .. 2 : write_inst(n)
           \/ \E kind \in Kinds, l \in Labels :
                 jump_pending(kind, l) \/ jump_back_near(kind, l) \/ jump_back_far(kind, l)
    PROVE  WriterInv'
<1>0. Room(Writer)
  BY WriterRoom DEF write_inst, jump_pending, jump_back_near, jump_back_far
<1>1. ASSUME NEW n \in 1 .. 2, write_inst(n) PROVE WriterInv'
  <2> DEFINE s == ensure_space(Writer, 4 * n)
  <2>1. Room(s) /\ s.size - s.off >= 4 * n /\ 4 * n \in Nat
    BY <1>0, EnsureSpaceRoom
  <2>2. Become([s EXCEPT !.off = @ + 4 * n])
    BY <1>1 DEF write_inst
  <2> HIDE DEF s
  <2>3. Room([s EXCEPT !.off = @ + 4 * n])
    BY <2>1 DEF Room, Fields, WriterFields
  <2>4. phase' = "emit" /\ label_fixups' \in Seq(Fixups) /\ handled' = 0
    BY <1>1 DEF write_inst, WriterInv
  <2> QED BY <2>2, <2>3, <2>4, BecomeInv
<1>2. ASSUME NEW kind \in Kinds, NEW l \in Labels, jump_pending(kind, l) PROVE WriterInv'
  <2> DEFINE s == ensure_space(Writer, 4)
             b == [s EXCEPT !.off = @ + 4, !.text = With(@, s.off, Branch(kind, -1, l))]
  <2>1. Room(s) /\ s.size - s.off >= 4
    BY <1>0, EnsureSpaceRoom
  <2>2. Become(Counted(b, kind))
    BY <1>2 DEF jump_pending
  <2>3. Room(b)
    <3> HIDE DEF s
    <3> QED BY <2>1 DEF Room, Fields, WriterFields
  <2> HIDE DEF b
  <2>4. Room(Counted(b, kind))
    BY <2>3 DEF Counted, Room, Fields, WriterFields
  <2>5. label_fixups' = Append(label_fixups, [label |-> l, off |-> s.off, kind |-> kind])
    BY <1>2 DEF jump_pending
  <2>6. phase' = "emit" /\ handled' = 0 /\ label_fixups \in Seq(Fixups)
    BY <1>2 DEF jump_pending, WriterInv
  <2>7. label_fixups' \in Seq(Fixups)
    <3> HIDE DEF s
    <3> QED BY <2>1, <2>5, <2>6 DEF Room, Fixups
  <2> QED BY <2>2, <2>4, <2>6, <2>7, BecomeInv
<1>3. ASSUME NEW kind \in Kinds, NEW l \in Labels, jump_back_near(kind, l) PROVE WriterInv'
  <2> DEFINE s == ensure_space(Writer, 4)
             b == [s EXCEPT !.off = @ + 4,
                            !.text = With(@, s.off, Branch(kind, label_offsets[l], l))]
  <2>1. Room(s) /\ s.size - s.off >= 4
    BY <1>0, EnsureSpaceRoom
  <2>2. Become(b)
    BY <1>3 DEF jump_back_near
  <2>3. Room(b)
    <3> HIDE DEF s
    <3> QED BY <2>1 DEF Room, Fields, WriterFields
  <2>4. phase' = "emit" /\ label_fixups' \in Seq(Fixups) /\ handled' = 0
    BY <1>3 DEF jump_back_near, WriterInv
  <2> QED BY <2>2, <2>3, <2>4, BecomeInv
<1>4. ASSUME NEW kind \in Kinds, NEW l \in Labels, jump_back_far(kind, l) PROVE WriterInv'
  <2> DEFINE s == ensure_space(Writer, 4)
             e == ensure_space(s, 8)
             d == s.off - label_offsets[l]
             b == [e EXCEPT !.off = @ + 8,
                            !.text = With(With(@, e.off + 4, Branch("b", e.off - d, l)),
                                          e.off, Branch(kind, e.off + 8, -1))]
  <2>1. Room(s)
    BY <1>0, EnsureSpaceRoom
  <2>2. Room(e) /\ e.size - e.off >= 8
    <3> HIDE DEF s
    <3> QED BY <2>1, EnsureSpaceRoom
  <2>3. Become(b)
    BY <1>4 DEF jump_back_far
  <2>4. Room(b)
    <3> HIDE DEF e, d
    <3> QED BY <2>2 DEF Room, Fields, WriterFields
  <2>5. phase' = "emit" /\ label_fixups' \in Seq(Fixups) /\ handled' = 0
    BY <1>4 DEF jump_back_far, WriterInv
  <2> QED BY <2>3, <2>4, <2>5, BecomeInv
<1> QED BY <1>1, <1>2, <1>3, <1>4

\* Handling a reference changes the text, the regions and the counts only.
LEMMA FixKeeps ==
    ASSUME NEW s, DOMAIN s = Fields, NEW f \in Fixups
    PROVE  /\ DOMAIN Fix(s, f) = Fields
           /\ \A x \in {"size", "cap", "off", "growth", "chunk"} : Fix(s, f)[x] = s[x]
<1> DEFINE Same(h) == /\ DOMAIN h = Fields
                      /\ \A x \in {"size", "cap", "off", "growth", "chunk"} : h[x] = s[x]
<1>0. f.kind \in {"b", "cond", "test"}
  BY WriterAssumption DEF Fixups
<1>1. ASSUME NEW h, Same(h), NEW d PROVE Same(Patch(h, f, d))
  BY <1>1 DEF Patch, Fields, WriterFields
<1>2. ASSUME NEW h, Same(h) PROVE Same(fix_condbr(h, f))
  <2> DEFINE label == label_offsets[f.label]
             k == lower_bound(h.veneers, f.off)
             slot == h.veneers[k]
             g == [h EXCEPT !.text[slot].op = "b", !.text[slot].dest = label, !.veneers[k] = @ + 4]
  <2>1. Same(g) /\ Same([h EXCEPT !.failed = "missing"]) /\ Same([h EXCEPT !.failed = "overwriting"])
    BY <1>2 DEF Fields, WriterFields
  <2>2. Same(Patch(h, f, label - f.off)) /\ Same(Patch(g, f, slot - f.off))
    <3> HIDE DEF g, Same
    <3> QED BY <1>1, <1>2, <2>1
  <2>3. \/ fix_condbr(h, f) = Patch(h, f, label - f.off)
        \/ fix_condbr(h, f) = [h EXCEPT !.failed = "missing"]
        \/ fix_condbr(h, f) = [h EXCEPT !.failed = "overwriting"]
        \/ fix_condbr(h, f) = Patch(g, f, slot - f.off)
    BY DEF fix_condbr
  <2> HIDE DEF g, Same
  <2> QED BY <2>1, <2>2, <2>3
<1>3. CASE f.kind # "b"
  <2>1. Same(Uncounted(s, f))
    BY <1>0, <1>3 DEF Uncounted, Fields, WriterFields
  <2> HIDE DEF Same
  <2>2. Same(fix_condbr(Uncounted(s, f), f))
    BY <2>1, <1>2
  <2>3. Same(s)
    BY DEF Same
  <2> QED BY <1>3, <2>1, <2>2, <2>3 DEF Fix, Same
<1>4. CASE f.kind = "b"
  BY <1>4 DEF Fix, Fields, WriterFields
<1> QED BY <1>3, <1>4

\* Every step keeps the invariant.
LEMMA WriterStep == WriterInv /\ [Next]_vars => WriterInv'
<1> SUFFICES ASSUME WriterInv, [Next]_vars PROVE WriterInv'
  OBVIOUS
<1>1. ASSUME NEW n \in Expected, begin_func(n) PROVE WriterInv'
  BY <1>1, BeginInv
<1>2. ASSUME \/ \E n \in 1 .. 2 : write_inst(n)
             \/ \E kind \in Kinds, l \in Labels :
                   jump_pending(kind, l) \/ jump_back_near(kind, l) \/ jump_back_far(kind, l)
      PROVE  WriterInv'
  BY <1>2, EmitInv
<1>3. ASSUME NEW l \in Labels, label_place(l) PROVE WriterInv'
  BY <1>3 DEF label_place, WriterInv, WithinReserve
<1>4. CASE finish_func
  BY <1>4 DEF finish_func, WriterInv, WithinReserve, WriterFields
<1>7. CASE handle_fixup
  <2> DEFINE f == label_fixups[handled + 1]
             h == Fix(Writer, f)
  <2>1. f \in Fixups /\ DOMAIN Writer = Fields /\ handled + 1 \in 0 .. Len(label_fixups)
    BY <1>7 DEF handle_fixup, WriterInv, Writer, Fields
  <2>2. \A x \in {"size", "cap", "off", "growth", "chunk"} : h[x] = wr[x]
    <3>1. \A x \in {"size", "cap", "off", "growth", "chunk"} : h[x] = Writer[x]
      <4> HIDE DEF f
      <4> QED BY <2>1, FixKeeps
    <3> QED BY <3>1 DEF Writer, WriterFields
  <2>3. Become(h) /\ phase' \in {"assert", "idle", "fixups"} /\ handled' = handled + 1
        /\ label_fixups' = label_fixups
        /\ (phase' = "idle" => handled' = Len(label_fixups))
        /\ (phase' = "fixups" => handled' # Len(label_fixups))
    BY <1>7 DEF handle_fixup
  <2> HIDE DEF h
  <2> QED BY <2>1, <2>2, <2>3 DEF Become, WriterInv, WithinReserve, WriterFields
<1>5. CASE flush
  BY <1>5 DEF flush, WriterInv, WithinReserve, WriterFields
<1>6. CASE fatal \/ Stopped \/ UNCHANGED vars
  BY <1>6 DEF fatal, Stopped, vars, WriterInv, WithinReserve
<1> QED BY <1>1, <1>2, <1>3, <1>4, <1>5, <1>6, <1>7 DEF Next

\* FunctionWriter and FunctionWriterA64 never write behind the memory they
\* reserved: neither instructions, nor the two of a far branch, nor a region
\* of veneers that more_space puts in front of them.
THEOREM WithinReserveAlways == Spec => []WithinReserve
<1>1. Init => WriterInv
  BY WriterAssumption DEF Init, WriterInv, WithinReserve, WriterFields
<1>2. WriterInv => WithinReserve
  BY DEF WriterInv
<1> QED BY <1>1, <1>2, WriterStep, PTL DEF Spec
----------------------------------------------------------------------------
(***************************************************************************)
(* Regions of veneers.  Region k has N[k] slots from B[k] on, one for each *)
(* conditional branch that it serves: those in front of it and behind the  *)
(* regions before it.  A branch behind all regions is still open.          *)
(***************************************************************************)
EndOf(B, N, k) == B[k] + 4 * N[k]
LastEnd(B, N) == IF B = <<>> THEN 0 ELSE EndOf(B, N, Len(B))
Open(F, B, N) == {i \in DOMAIN F : F[i].kind # "b" /\ \A k \in DOMAIN B : EndOf(B, N, k) <= F[i].off}
Served(F, B, N, k) ==
    {i \in DOMAIN F : /\ F[i].kind # "b" /\ F[i].off < B[k]
                      /\ \A j \in 1 .. k - 1 : EndOf(B, N, j) <= F[i].off}

\* How many elements of S are at most i.
UpTo(S, i) == Cardinality({j \in S : j <= i})

\* No more memory was reserved at a time than NearSuffices asks for.
Small(s) == s.chunk + 4 * MaxBranches < TestReach

Inst == [op : {"b", "cond", "test", "zero"}, dest : Int, label : Labels \cup {-1}, slot : BOOLEAN]

\* Finitely many instructions are in text, all in front of the position.
Texts(s) ==
    /\ IsFiniteSet(DOMAIN s.text)
    /\ \A o \in DOMAIN s.text : o \in Nat /\ o + 4 <= s.off /\ s.text[o] \in Inst

\* The references F are in the order of their branches.
Refs(s, F) ==
    /\ F \in Seq(Fixups)
    /\ \A i, j \in DOMAIN F : i < j => F[i].off < F[j].off
    /\ \A i \in DOMAIN F : /\ F[i].off \in DOMAIN s.text
                           /\ ~s.text[F[i].off].slot /\ s.text[F[i].off].label = F[i].label
                           /\ s.text[F[i].off].op = F[i].kind

\* Region k lies behind the branches it serves and the regions before it.
Placed(s, F, B, N, k) ==
    /\ B[k] >= 4 /\ N[k] = Cardinality(Served(F, B, N, k)) /\ N[k] >= 1
    /\ \A j \in 1 .. k - 1 : EndOf(B, N, j) + 4 <= B[k]
    /\ EndOf(B, N, k) <= s.off
    /\ \A i \in DOMAIN F : F[i].off + 8 <= B[k] \/ EndOf(B, N, k) <= F[i].off

\* Its first u slots are used, at most one for each of the first h references
\* that it serves; the others are zero.
Used(s, F, h, B, N, k, u) ==
    /\ s.veneers[k] = B[k] + 4 * u /\ u <= UpTo(Served(F, B, N, k), h)
    /\ \A m \in 0 .. N[k] - 1 :
          /\ B[k] + 4 * m \in DOMAIN s.text
          /\ s.text[B[k] + 4 * m].slot /\ s.text[B[k] + 4 * m].label = -1
          /\ m >= u => s.text[B[k] + 4 * m].op = "zero"

Regions(s, F, h, B, N) ==
    /\ B \in Seq(Nat) /\ N \in Seq(Nat) /\ s.veneers \in Seq(Nat)
    /\ Len(B) = Len(s.veneers) /\ Len(N) = Len(s.veneers)
    /\ \A k \in DOMAIN B : /\ Placed(s, F, B, N, k)
                           /\ \E u \in 0 .. N[k] : Used(s, F, h, B, N, k, u)

\* The counts of label_ref are those of the open branches.
Counts(s, F, B, N) ==
    /\ s.test + s.cond = Cardinality(Open(F, B, N)) /\ s.test + s.cond <= MaxBranches
    /\ LastEnd(B, N) + 4 * Cardinality(Open(F, B, N)) <= s.off
    /\ \A i \in Open(F, B, N) :
          /\ F[i].kind = "test" => s.test > 0
          /\ LastEnd(B, N) + 4 * UpTo(Open(F, B, N), i) <= F[i].off + 4

\* An open branch reaches a slot at the end of the reserved memory, a served
\* one the slot that its number among the served ones gives it.
OpenNear(s, F, B, N) ==
    Small(s) => \A i \in Open(F, B, N) :
                   s.size + 4 * UpTo(Open(F, B, N), i) < F[i].off + Reach(F[i].kind)

ServedNear(s, F, B, N) ==
    Small(s) => \A k \in DOMAIN B : \A i \in Served(F, B, N, k) :
                   B[k] + 4 * UpTo(Served(F, B, N, k), i) < F[i].off + Reach(F[i].kind) + 4

\* All of it, for a function under way.
Layout(s, F, h, B, N) ==
    /\ Texts(s) /\ Refs(s, F) /\ Regions(s, F, h, B, N)
    /\ OpenNear(s, F, B, N) /\ ServedNear(s, F, B, N)

----------------------------------------------------------------------------
\* Counting the elements of a finite set of numbers up to one of them.
LEMMA UpToCounts ==
    ASSUME NEW n \in Nat, NEW S \in SUBSET (1 .. n)
    PROVE  /\ IsFiniteSet(S) /\ Cardinality(S) \in Nat
           /\ \A i \in Int : UpTo(S, i) \in Nat /\ UpTo(S, i) <= Cardinality(S)
           /\ UpTo(S, 0) = 0
           /\ \A i \in 1 .. n : UpTo(S, i) = UpTo(S, i - 1) + (IF i \in S THEN 1 ELSE 0)
           /\ \A i \in S : UpTo(S, i - 1) < Cardinality(S)
<1>0. \A j \in S : j \in Nat /\ 1 <= j /\ j <= n
  OBVIOUS
<1>1. IsFiniteSet(S) /\ Cardinality(S) \in Nat
  <2>1. IsFiniteSet(1 .. n)
    BY FS_Interval
  <2> QED BY <2>1, FS_Subset, FS_CardinalityType
<1>2. ASSUME NEW i \in Int PROVE /\ IsFiniteSet({j \in S : j <= i})
                                 /\ UpTo(S, i) \in Nat /\ UpTo(S, i) <= Cardinality(S)
  BY <1>1, FS_Subset, FS_CardinalityType DEF UpTo
<1>3. UpTo(S, 0) = 0
  <2>0. \A j \in S : ~(j <= 0)
    BY <1>0
  <2>1. {j \in S : j <= 0} = {}
    BY <2>0
  <2> QED BY <2>1, FS_EmptySet DEF UpTo
<1>4. ASSUME NEW i \in 1 .. n PROVE UpTo(S, i) = UpTo(S, i - 1) + (IF i \in S THEN 1 ELSE 0)
  <2> DEFINE T == {j \in S : j <= i - 1}
  <2>0. i \in Int /\ i - 1 \in Int /\ ~(i <= i - 1)
    OBVIOUS
  <2>1. IsFiniteSet(T) /\ i \notin T /\ Cardinality(T) \in Nat
    BY <1>2, <2>0, FS_CardinalityType
  <2>2. CASE i \in S
    <3>0. \A j \in S : j <= i <=> j <= i - 1 \/ j = i
      BY <1>0
    <3>1. {j \in S : j <= i} = T \cup {i}
      BY <2>2, <3>0, <2>0
    <3> HIDE DEF T
    <3>2. Cardinality(T \cup {i}) = Cardinality(T) + 1
      BY <2>1, FS_AddElement
    <3> QED BY <2>2, <3>1, <3>2 DEF UpTo, T
  <2>3. CASE i \notin S
    <3>0. \A j \in S : j <= i <=> j <= i - 1
      BY <1>0, <2>3
    <3>1. {j \in S : j <= i} = T
      BY <3>0
    <3>2. UpTo(S, i) = Cardinality(T) /\ UpTo(S, i - 1) = Cardinality(T)
      BY <3>1 DEF UpTo
    <3> HIDE DEF T
    <3> QED BY <2>1, <2>3, <3>2
  <2> QED BY <2>2, <2>3
<1>5. ASSUME NEW i \in S PROVE UpTo(S, i - 1) < Cardinality(S)
  <2>1. i \in 1 .. n /\ i - 1 \in Int /\ i \in Int
    OBVIOUS
  <2>2. UpTo(S, i) = UpTo(S, i - 1) + 1 /\ UpTo(S, i) <= Cardinality(S) /\ UpTo(S, i - 1) \in Nat
    <3>1. UpTo(S, i) = UpTo(S, i - 1) + (IF i \in S THEN 1 ELSE 0)
      BY <1>4, <2>1
    <3>2. UpTo(S, i) = UpTo(S, i - 1) + 1
      BY <3>1
    <3> QED BY <1>2, <2>1, <3>2
  <2> QED BY <1>1, <2>2
<1> QED BY <1>1, <1>2, <1>3, <1>4, <1>5

\* Two sets with the same elements up to i count them alike.
LEMMA UpToSame ==
    ASSUME NEW S, NEW T, NEW i, \A j : j <= i => (j \in S <=> j \in T)
    PROVE  UpTo(S, i) = UpTo(T, i)
<1>1. {j \in S : j <= i} = {j \in T : j <= i}
  OBVIOUS
<1> QED BY <1>1 DEF UpTo

\* A set of numbers up to n is counted whole.
LEMMA UpToAll ==
    ASSUME NEW n \in Nat, NEW S \in SUBSET (1 .. n), NEW i \in Int, i >= n
    PROVE  UpTo(S, i) = Cardinality(S)
<1>0. \A j \in S : j <= i
  <2>1. \A j \in S : j \in Nat /\ j <= n
    OBVIOUS
  <2> QED BY <2>1
<1>1. {j \in S : j <= i} = S
  BY <1>0
<1> QED BY <1>1 DEF UpTo

\* The branches served and those open are references.
LEMMA RefSets ==
    ASSUME NEW F \in Seq(Fixups), NEW B, NEW N
    PROVE  /\ DOMAIN F = 1 .. Len(F) /\ Len(F) \in Nat
           /\ Open(F, B, N) \in SUBSET (1 .. Len(F))
           /\ \A k : Served(F, B, N, k) \in SUBSET (1 .. Len(F))
           /\ \A i \in DOMAIN F : F[i].off \in Nat /\ F[i].label \in Labels
                                  /\ F[i].kind \in {"b", "cond", "test"}
<1>1. DOMAIN F = 1 .. Len(F) /\ Len(F) \in Nat /\ \A i \in DOMAIN F : F[i] \in Fixups
  OBVIOUS
<1> QED BY <1>1, WriterAssumption DEF Open, Served, Fixups

\* What a writer's layout is depends on these fields only.
LEMMA SameLayout ==
    ASSUME NEW s, NEW t, t.text = s.text, t.off = s.off, t.veneers = s.veneers,
           t.size = s.size, t.chunk = s.chunk, NEW F, NEW h, NEW B, NEW N, Layout(s, F, h, B, N)
    PROVE  Layout(t, F, h, B, N)
<1>1. Texts(t)
  BY DEF Layout, Texts
<1>2. Refs(t, F)
  BY DEF Layout, Refs
<1>3. Regions(t, F, h, B, N)
  <2>1. ASSUME NEW k \in DOMAIN B PROVE Placed(t, F, B, N, k) /\ \E u \in 0 .. N[k] : Used(t, F, h, B, N, k, u)
    <3>1. Placed(s, F, B, N, k) /\ \E u \in 0 .. N[k] : Used(s, F, h, B, N, k, u)
      BY <2>1 DEF Layout, Regions
    <3> QED BY <3>1 DEF Placed, Used
  <2> QED BY <2>1 DEF Layout, Regions
<1>4. OpenNear(t, F, B, N) /\ ServedNear(t, F, B, N)
  BY DEF Layout, OpenNear, ServedNear, Small
<1> QED BY <1>1, <1>2, <1>3, <1>4 DEF Layout
----------------------------------------------------------------------------
\* The text with a region of c slots at the position.
RegionIn(s, c) ==
    With([o \in DOMAIN s.text \cup {s.off + 4 * k : k \in 1 .. c} |->
             IF o \in {s.off + 4 * k : k \in 1 .. c} THEN Slot ELSE s.text[o]],
         s.off, Branch("b", s.off + 4 + 4 * c, -1))

\* What FunctionWriterA64::more_space does: it reserves memory and leaves the
\* rest, or puts a region behind the position.
LEMMA MoreSpaceIs ==
    ASSUME NEW s, Room(s), NEW n \in Nat, NEW t, t = more_space(s, n), NEW c, c = s.test + s.cond
    PROVE  /\ t.size >= s.size /\ t.chunk >= s.chunk /\ t.size - s.off <= t.chunk
           /\ \/ /\ t.veneers = s.veneers /\ t.text = s.text /\ t.off = s.off
                 /\ t.test = s.test /\ t.cond = s.cond
                 /\ c = 0 \/ Reachable(s, t.size)
              \/ /\ c >= 1 /\ t.veneers = Append(s.veneers, s.off + 4) /\ t.off = s.off + 4 * c + 4
                 /\ t.test = 0 /\ t.cond = 0
                 /\ t.text = RegionIn(s, c)
<1> DEFINE size == 4 * (s.test + s.cond)
           g == reserve(s, n + size + 4)
           r == Grown(s, n, size)
<1>0. c \in Nat /\ size = 4 * c
  BY DEF Room
<1>1. /\ Room(g) /\ g.size >= s.size + n + size + 4
      /\ \A x \in {"off", "test", "cond", "veneers", "chunk", "text"} : g[x] = s[x]
  <2>1. n + size + 4 \in Nat
    BY <1>0
  <2>2. Room(g) /\ g.size >= s.size + (n + size + 4)
    <3> HIDE DEF size
    <3> QED BY <2>1, ReserveRoom
  <2>3. \A x \in {"off", "test", "cond", "veneers", "chunk", "text"} : g[x] = s[x]
    <3> HIDE DEF size
    <3> QED BY DEF reserve, Room, Fields, WriterFields
  <2> HIDE DEF g
  <2> QED BY <1>0, <2>2, <2>3 DEF Room
<1>2. /\ DOMAIN r = Fields /\ r.size = g.size /\ r.chunk = Larger(s.chunk, g.size - s.off)
      /\ \A x \in {"off", "test", "cond", "veneers", "text"} : r[x] = s[x]
  <2>1. r = [g EXCEPT !.chunk = Larger(@, g.size - s.off)]
    BY DEF Grown
  <2> HIDE DEF g, r
  <2> QED BY <1>1, <2>1 DEF Room, Fields, WriterFields
<1>3. r.size >= s.size /\ r.chunk >= s.chunk /\ r.size - s.off <= r.chunk
  <2> HIDE DEF g, r, size
  <2> QED BY <1>0, <1>1, <1>2 DEF Room, Larger
<1>4. CASE size = 0 \/ Reachable(s, r.size)
  <2>1. t = r
    BY <1>4 DEF more_space
  <2>2. c = 0 \/ Reachable(s, t.size)
    <3> HIDE DEF r
    <3> QED BY <1>0, <1>4, <2>1
  <2> HIDE DEF g, r, size
  <2> QED BY <1>2, <1>3, <2>1, <2>2
<1>5. CASE ~(size = 0 \/ Reachable(s, r.size))
  <2> DEFINE slots == {s.off + 4 * k : k \in 1 .. s.test + s.cond}
  <2>1. t = [r EXCEPT !.veneers = Append(@, s.off + 4), !.test = 0, !.cond = 0,
                      !.off = @ + size + 4,
                      !.text = With([o \in DOMAIN @ \cup slots |-> IF o \in slots THEN Slot ELSE @[o]],
                                    s.off, Branch("b", s.off + 4 + size, -1))]
    BY <1>5 DEF more_space
  <2>2. c >= 1
    BY <1>0, <1>5
  <2>3. /\ t.size = r.size /\ t.chunk = r.chunk /\ t.veneers = Append(r.veneers, s.off + 4)
        /\ t.test = 0 /\ t.cond = 0 /\ t.off = r.off + size + 4
        /\ t.text = With([o \in DOMAIN r.text \cup slots |-> IF o \in slots THEN Slot ELSE r.text[o]],
                         s.off, Branch("b", s.off + 4 + size, -1))
    <3> HIDE DEF r, size, slots
    <3> QED BY <1>2, <2>1 DEF Fields, WriterFields
  <2>4. slots = {s.off + 4 * k : k \in 1 .. c} /\ s.off + 4 + size = s.off + 4 + 4 * c
    OBVIOUS
  <2>5. t.off = s.off + 4 * c + 4
    <3> HIDE DEF r, size
    <3> QED BY <1>0, <1>2, <2>3 DEF Room
  <2>6. t.text = RegionIn(s, c)
    <3>1. r.text = s.text
      BY <1>2
    <3> HIDE DEF r, size, slots
    <3> QED BY <2>3, <2>4, <3>1 DEF RegionIn
  <2> HIDE DEF g, r, size, slots
  <2> QED BY <1>2, <1>3, <2>2, <2>3, <2>5, <2>6
<1> QED BY <1>4, <1>5

\* B2 and N2 have one region more, for the branches that were open.
OneMore(F, B, N, b, c, B2, N2) ==
    /\ B2 \in Seq(Nat) /\ N2 \in Seq(Nat) /\ Len(B2) = Len(B) + 1 /\ Len(N2) = Len(B) + 1
    /\ \A k \in DOMAIN B : B2[k] = B[k] /\ N2[k] = N[k] /\ EndOf(B2, N2, k) = EndOf(B, N, k)
    /\ B2[Len(B) + 1] = b /\ N2[Len(B) + 1] = c /\ EndOf(B2, N2, Len(B) + 1) = b + 4 * c
    /\ LastEnd(B2, N2) = b + 4 * c
    /\ \A k \in DOMAIN B : Served(F, B2, N2, k) = Served(F, B, N, k)
    /\ Served(F, B2, N2, Len(B) + 1) = Open(F, B, N)
    /\ Open(F, B2, N2) = {}

\* A region behind every reference serves those that were open.
LEMMA RegionBehind ==
    ASSUME NEW F \in Seq(Fixups), NEW B \in Seq(Nat), NEW N \in Seq(Nat), Len(N) = Len(B),
           NEW b \in Nat, NEW c \in Nat, \A i \in DOMAIN F : F[i].off < b,
           NEW B2, B2 = Append(B, b), NEW N2, N2 = Append(N, c)
    PROVE  OneMore(F, B, N, b, c, B2, N2)
<1> DEFINE n == Len(B)
<1>0. n \in Nat /\ DOMAIN B = 1 .. n /\ DOMAIN N = 1 .. n
  OBVIOUS
<1>1. B2 \in Seq(Nat) /\ N2 \in Seq(Nat) /\ Len(B2) = n + 1 /\ Len(N2) = n + 1
  OBVIOUS
<1>2. \A k \in DOMAIN B : B2[k] = B[k] /\ N2[k] = N[k]
  OBVIOUS
<1>3. \A k \in DOMAIN B : EndOf(B2, N2, k) = EndOf(B, N, k)
  BY <1>2 DEF EndOf
<1>4. B2[n + 1] = b /\ N2[n + 1] = c
  OBVIOUS
<1>5. EndOf(B2, N2, n + 1) = b + 4 * c /\ LastEnd(B2, N2) = b + 4 * c
  <2>1. B2 # <<>>
    BY ONLY <1>0, <1>1
  <2> QED BY <1>1, <1>4, <2>1 DEF EndOf, LastEnd
<1>6. ASSUME NEW k \in DOMAIN B PROVE Served(F, B2, N2, k) = Served(F, B, N, k)
  <2>1. \A j \in 1 .. k - 1 : j \in DOMAIN B
    BY <1>0
  <2>2. \A j \in 1 .. k - 1 : EndOf(B2, N2, j) = EndOf(B, N, j)
    BY <1>3, <2>1
  <2> QED BY <1>2, <2>2 DEF Served
<1>7. Served(F, B2, N2, n + 1) = Open(F, B, N)
  <2>1. (n + 1) - 1 = n
    BY <1>0
  <2>2. \A j \in 1 .. (n + 1) - 1 : j \in DOMAIN B
    BY <1>0, <2>1
  <2>3. \A j \in DOMAIN B : j \in 1 .. (n + 1) - 1
    BY <1>0, <2>1
  <2> HIDE DEF n
  <2> QED BY <1>3, <1>4, <2>2, <2>3 DEF Served, Open
<1>8. Open(F, B2, N2) = {}
  <2>1. n + 1 \in DOMAIN B2
    BY <1>0, <1>1
  <2>2. ASSUME NEW i \in DOMAIN F PROVE ~(b + 4 * c <= F[i].off)
    <3>1. F[i].off \in Nat /\ F[i].off < b
      BY RefSets
    <3> QED BY <3>1
  <2> QED BY <1>5, <2>1, <2>2 DEF Open
<1> HIDE DEF n
<1> QED BY <1>1, <1>2, <1>3, <1>4, <1>5, <1>6, <1>7, <1>8 DEF n, OneMore

\* Without a new region every open branch still reaches the end of the
\* reserved memory and a slot behind it: more_space made sure.
LEMMA NoRegion ==
    ASSUME NEW s, Room(s), NEW F, NEW B, NEW N, Layout(s, F, 0, B, N), Counts(s, F, B, N),
           NEW t, Room(t), t.veneers = s.veneers, t.text = s.text, t.off = s.off,
           t.test = s.test, t.cond = s.cond, t.chunk >= s.chunk,
           s.test + s.cond = 0 \/ Reachable(s, t.size)
    PROVE  Layout(t, F, 0, B, N) /\ Counts(t, F, B, N)
<1>1. Texts(t) /\ Refs(t, F) /\ Counts(t, F, B, N)
  BY DEF Layout, Texts, Refs, Counts
<1>2. Regions(t, F, 0, B, N)
  <2>1. ASSUME NEW k \in DOMAIN B PROVE Placed(t, F, B, N, k) /\ \E u \in 0 .. N[k] : Used(t, F, 0, B, N, k, u)
    <3>1. Placed(s, F, B, N, k) /\ \E u \in 0 .. N[k] : Used(s, F, 0, B, N, k, u)
      BY <2>1 DEF Layout, Regions
    <3> QED BY <3>1 DEF Placed, Used
  <2> QED BY <2>1 DEF Layout, Regions
<1>3. s.chunk \in Nat /\ t.chunk \in Nat /\ s.test \in Nat /\ s.cond \in Nat /\ t.size \in Nat
  BY DEF Room
<1>4. Small(t) => Small(s)
  BY <1>3, WriterAssumption DEF Small
<1>5. ServedNear(t, F, B, N)
  BY <1>4 DEF Layout, ServedNear
<1>6. OpenNear(t, F, B, N)
  <2> SUFFICES ASSUME Small(t), NEW i \in Open(F, B, N)
               PROVE  t.size + 4 * UpTo(Open(F, B, N), i) < F[i].off + Reach(F[i].kind)
    BY DEF OpenNear
  <2> DEFINE S == Open(F, B, N)
             last == IF s.veneers = <<>> THEN 0 ELSE Last(s.veneers)
             max == IF s.test > 0 THEN TestReach ELSE CondReach
             c == s.test + s.cond
  <2>1. F \in Seq(Fixups) /\ S \in SUBSET (1 .. Len(F)) /\ Len(F) \in Nat
        /\ i \in DOMAIN F /\ F[i].off \in Nat
    BY RefSets DEF Layout, Refs
  <2>2. UpTo(S, i) \in Nat /\ c = Cardinality(S) /\ c >= 1 /\ 4 * c <= 4 * MaxBranches /\ c \in Nat
    <3>1. i \in Int /\ i - 1 \in Int /\ i \in S
      BY <2>1
    <3>2. UpTo(S, i) \in Nat /\ Cardinality(S) \in Nat /\ UpTo(S, i - 1) < Cardinality(S)
          /\ UpTo(S, i - 1) \in Nat
      <4> HIDE DEF S
      <4> QED BY ONLY <2>1, <3>1, UpToCounts
    <3>3. c = Cardinality(S) /\ c <= MaxBranches
      BY DEF Counts
    <3> QED BY <3>2, <3>3, WriterAssumption
  <2>3. max \in Nat /\ TestReach <= max /\ max <= Reach(F[i].kind) /\ Reach(F[i].kind) \in Nat
    <3>1. F[i].kind = "test" => s.test > 0
      BY DEF Counts
    <3> QED BY <3>1, <1>3, WriterAssumption DEF Reach
  <2>4. last \in Nat /\ LastEnd(B, N) \in Nat /\ last <= LastEnd(B, N)
    <3>1. B \in Seq(Nat) /\ N \in Seq(Nat) /\ Len(B) = Len(s.veneers) /\ Len(N) = Len(B)
          /\ s.veneers \in Seq(Nat)
      BY DEF Layout, Regions
    <3>2. CASE s.veneers = <<>>
      <4>1. B = <<>>
        BY <3>1, <3>2
      <4> QED BY <3>2, <4>1 DEF LastEnd
    <3>3. CASE s.veneers # <<>>
      <4>1. Len(B) \in DOMAIN B /\ B # <<>> /\ Len(B) \in 1 .. Len(N)
        BY <3>1, <3>3
      <4>2. PICK u \in 0 .. N[Len(B)] : Used(s, F, 0, B, N, Len(B), u)
        BY <4>1 DEF Layout, Regions
      <4>3. Last(s.veneers) = B[Len(B)] + 4 * u
        BY <3>1, <4>2 DEF Used, Last
      <4>4. B[Len(B)] \in Nat /\ N[Len(B)] \in Nat /\ u \in Nat /\ u <= N[Len(B)]
        BY <3>1, <4>1
      <4> QED BY <3>3, <4>1, <4>3, <4>4 DEF LastEnd, EndOf
    <3> QED BY <3>2, <3>3
  <2>5. LastEnd(B, N) + 4 * UpTo(S, i) <= F[i].off + 4
    BY DEF Counts
  <2>6. 4 * MaxBranches < TestReach
    BY <1>3, WriterAssumption DEF Small
  <2>7. Reachable(s, t.size)
    BY <2>2
  <2>8. last + max - 4 * c < 0 \/ last + max - 4 * c > t.size
    BY <2>7 DEF Reachable
  <2>9. last + max - 4 * c >= 0
    <3> HIDE DEF last, max, c
    <3> QED BY <2>2, <2>3, <2>4, <2>6, WriterAssumption
  <2> HIDE DEF last, max, c, S
  <2>10. t.size < last + max - 4 * c
    BY <2>2, <2>3, <2>4, <2>8, <2>9, <1>3
  <2>11. t.size + 4 * UpTo(S, i) < F[i].off + Reach(F[i].kind)
    <3>1. t.size < last + max - 4
      <4>1. \A x, e, r, u \in Int : x < e + r - 4 * u /\ u >= 1 => x < e + r - 4
        OBVIOUS
      <4> QED BY ONLY <4>1, <2>2, <2>3, <2>4, <2>10, <1>3
    <3>2. t.size < LastEnd(B, N) + Reach(F[i].kind) - 4
      BY ONLY <2>3, <2>4, <3>1, <1>3
    <3>3. \A x, e, o, r, u \in Int : x < e + r - 4 /\ e + 4 * u <= o + 4 => x + 4 * u < o + r
      OBVIOUS
    <3>4. /\ t.size \in Int /\ LastEnd(B, N) \in Int /\ F[i].off \in Int
          /\ Reach(F[i].kind) \in Int /\ UpTo(S, i) \in Int
      <4>1. t.size \in Nat /\ LastEnd(B, N) \in Nat /\ UpTo(S, i) \in Nat
        BY ONLY <1>3, <2>2, <2>4
      <4>2. F[i].off \in Nat /\ Reach(F[i].kind) \in Nat
        BY ONLY <2>1, <2>3
      <4> QED BY ONLY <4>1, <4>2
    <3> QED BY ONLY <2>5, <3>2, <3>3, <3>4
  <2> QED BY <2>11 DEF S
<1> QED BY <1>1, <1>2, <1>5, <1>6 DEF Layout

\* The text with a new region: its slots and the branch in front of it are
\* behind what was there.
LEMMA RegionText ==
    ASSUME NEW s, Room(s), Texts(s), NEW c \in Nat, c >= 1, NEW t, t.off = s.off + 4 * c + 4,
           t.text = RegionIn(s, c)
    PROVE  /\ Texts(t)
           /\ \A o \in DOMAIN s.text : o \in DOMAIN t.text /\ t.text[o] = s.text[o]
           /\ \A o \in DOMAIN t.text : o \notin DOMAIN s.text => t.text[o].label = -1
           /\ \A m \in 0 .. c - 1 : /\ (s.off + 4) + 4 * m \in DOMAIN t.text
                                    /\ t.text[(s.off + 4) + 4 * m] = Slot
<1> DEFINE slots == {s.off + 4 * k : k \in 1 .. c}
           b == Branch("b", s.off + 4 + 4 * c, -1)
<1>0. s.off \in Nat
  BY DEF Room
<1>1. /\ DOMAIN t.text = DOMAIN s.text \cup slots \cup {s.off}
      /\ \A o \in DOMAIN t.text :
            t.text[o] = IF o = s.off THEN b ELSE IF o \in slots THEN Slot ELSE s.text[o]
  <2> HIDE DEF slots, b
  <2> QED BY DEF RegionIn, With, slots, b
<1>2. \A o \in slots : o \in Nat /\ o > s.off /\ o + 4 <= t.off
  BY <1>0
<1>3. ASSUME NEW o \in DOMAIN s.text PROVE o # s.off /\ o \notin slots /\ o + 4 <= t.off
  <2>1. o \in Nat /\ o + 4 <= s.off
    BY DEF Texts
  <2> QED BY <1>0, <1>2, <2>1
<1>4. \A o \in DOMAIN s.text : o \in DOMAIN t.text /\ t.text[o] = s.text[o]
  <2> HIDE DEF slots, b
  <2> QED BY <1>1, <1>3
<1>5. b \in Inst /\ b.label = -1 /\ Slot \in Inst /\ Slot.label = -1
  BY <1>0 DEF Branch, Slot, Inst
<1>6. \A o \in DOMAIN t.text : o \notin DOMAIN s.text => t.text[o].label = -1
  <2> HIDE DEF slots, b
  <2> QED BY <1>1, <1>5
<1>7. \A o \in DOMAIN t.text : o \in Nat /\ o + 4 <= t.off /\ t.text[o] \in Inst
  <2> SUFFICES ASSUME NEW o \in DOMAIN t.text PROVE o \in Nat /\ o + 4 <= t.off /\ t.text[o] \in Inst
    OBVIOUS
  <2> HIDE DEF slots, b
  <2>1. CASE o \in DOMAIN s.text
    BY <1>3, <1>4, <2>1 DEF Texts
  <2>2. CASE o = s.off
    BY <1>0, <1>1, <1>5, <2>2
  <2>3. CASE o \in slots
    BY <1>1, <1>2, <1>5, <2>3
  <2> QED BY <1>1, <2>1, <2>2, <2>3
<1>8. IsFiniteSet(DOMAIN t.text)
  <2>1. slots \cup {s.off} \in SUBSET (0 .. t.off) /\ t.off \in Int
    BY <1>0, <1>2
  <2>2. IsFiniteSet(0 .. t.off)
    BY <2>1, FS_Interval
  <2> HIDE DEF slots, b
  <2>3. IsFiniteSet(slots \cup {s.off})
    BY <2>1, <2>2, FS_Subset
  <2>4. IsFiniteSet(DOMAIN s.text \cup (slots \cup {s.off}))
    BY <2>3, FS_Union DEF Texts
  <2>5. DOMAIN t.text = DOMAIN s.text \cup (slots \cup {s.off})
    BY <1>1
  <2> QED BY <2>4, <2>5
<1>9. ASSUME NEW m \in 0 .. c - 1
      PROVE  (s.off + 4) + 4 * m \in DOMAIN t.text /\ t.text[(s.off + 4) + 4 * m] = Slot
  <2>1. m + 1 \in 1 .. c /\ (s.off + 4) + 4 * m = s.off + 4 * (m + 1)
    BY <1>0
  <2>2. (s.off + 4) + 4 * m \in slots
    BY <2>1
  <2>3. (s.off + 4) + 4 * m # s.off
    BY <1>0
  <2> HIDE DEF slots, b
  <2> QED BY <1>1, <2>2, <2>3
<1> QED BY <1>4, <1>6, <1>7, <1>8, <1>9 DEF Texts

\* A new region serves the branches that were open; none is open behind it.
LEMMA NewRegion ==
    ASSUME NEW s, Room(s), NEW F, NEW B, NEW N, Layout(s, F, 0, B, N), Counts(s, F, B, N),
           NEW c, c = s.test + s.cond, c >= 1,
           NEW t, Room(t), t.veneers = Append(s.veneers, s.off + 4), t.off = s.off + 4 * c + 4,
           t.test = 0, t.cond = 0, t.chunk >= s.chunk,
           t.text = RegionIn(s, c)
    PROVE  \E B2, N2 : Layout(t, F, 0, B2, N2) /\ Counts(t, F, B2, N2)
<1> DEFINE b == s.off + 4
           B2 == Append(B, b)
           N2 == Append(N, c)
<1>a. c \in Nat /\ s.off \in Nat /\ s.size \in Nat /\ s.off <= s.size /\ s.chunk \in Nat
  <2>1. /\ s.test \in Nat /\ s.cond \in Nat /\ s.off \in Nat /\ s.size \in Nat
        /\ s.off <= s.size /\ s.chunk \in Nat
    BY DEF Room
  <2> QED BY <2>1
<1>b. t.chunk \in Nat /\ t.off \in Nat /\ t.chunk >= s.chunk
  BY DEF Room
<1>0. b \in Nat /\ b = s.off + 4
  BY <1>a
<1>1. /\ Texts(t)
      /\ \A o \in DOMAIN s.text : o \in DOMAIN t.text /\ t.text[o] = s.text[o]
      /\ \A m \in 0 .. c - 1 : b + 4 * m \in DOMAIN t.text /\ t.text[b + 4 * m] = Slot
  <2>1. Texts(s)
    BY DEF Layout
  <2> QED BY <1>a, <2>1, RegionText
<1>c. B2 = Append(B, b) /\ N2 = Append(N, c)
  OBVIOUS
<1> HIDE DEF b, B2, N2
<1>2. /\ F \in Seq(Fixups) /\ B \in Seq(Nat) /\ N \in Seq(Nat) /\ Len(N) = Len(B) /\ Len(s.veneers) = Len(B)
      /\ s.veneers \in Seq(Nat) /\ Len(B) \in Nat /\ DOMAIN B = 1 .. Len(B)
  BY DEF Layout, Regions, Refs
<1>3. \A i \in DOMAIN F : F[i].off \in Nat /\ F[i].off + 4 <= s.off
  BY <1>2, RefSets DEF Layout, Refs, Texts
<1>4. \A i \in DOMAIN F : F[i].off < b
  BY <1>0, <1>a, <1>3
<1>d. OneMore(F, B, N, b, c, B2, N2)
  <2>1. Len(N) = Len(B) /\ F \in Seq(Fixups) /\ B \in Seq(Nat) /\ N \in Seq(Nat)
    BY <1>2
  <2> QED BY <1>0, <1>a, <1>c, <2>1, <1>4, RegionBehind
<1>5. /\ B2 \in Seq(Nat) /\ N2 \in Seq(Nat) /\ Len(B2) = Len(B) + 1 /\ Len(N2) = Len(B) + 1
      /\ \A k \in DOMAIN B : B2[k] = B[k] /\ N2[k] = N[k] /\ EndOf(B2, N2, k) = EndOf(B, N, k)
      /\ B2[Len(B) + 1] = b /\ N2[Len(B) + 1] = c /\ EndOf(B2, N2, Len(B) + 1) = b + 4 * c
      /\ LastEnd(B2, N2) = b + 4 * c
      /\ \A k \in DOMAIN B : Served(F, B2, N2, k) = Served(F, B, N, k)
      /\ Served(F, B2, N2, Len(B) + 1) = Open(F, B, N)
      /\ Open(F, B2, N2) = {}
  BY <1>d DEF OneMore
<1>6. Refs(t, F)
  BY <1>1 DEF Layout, Refs
<1>7. /\ t.veneers \in Seq(Nat) /\ Len(t.veneers) = Len(B) + 1 /\ t.veneers[Len(B) + 1] = b
      /\ \A k \in DOMAIN B : t.veneers[k] = s.veneers[k]
  <2>1. t.veneers = Append(s.veneers, b)
    BY <1>0
  <2>2. /\ Append(s.veneers, b) \in Seq(Nat) /\ Len(Append(s.veneers, b)) = Len(s.veneers) + 1
        /\ Append(s.veneers, b)[Len(s.veneers) + 1] = b
        /\ \A k \in 1 .. Len(s.veneers) : Append(s.veneers, b)[k] = s.veneers[k]
    <3>1. s.veneers \in Seq(Nat) /\ b \in Nat
      BY ONLY <1>0, <1>2
    <3> QED BY ONLY <3>1, AppendProperties
  <2> QED BY ONLY <1>2, <2>1, <2>2
<1>8. DOMAIN B2 = 1 .. Len(B) + 1 /\ \A k \in DOMAIN B2 : k \in DOMAIN B \/ k = Len(B) + 1
  <2>1. DOMAIN B2 = 1 .. Len(B) + 1
    BY <1>5
  <2> QED BY <1>2, <2>1
<1>9. b + 4 * c = t.off
  BY <1>0, <1>a
<1>10. ASSUME NEW k \in DOMAIN B
       PROVE  Placed(t, F, B2, N2, k) /\ \E u \in 0 .. N2[k] : Used(t, F, 0, B2, N2, k, u)
  <2>1. Placed(s, F, B, N, k)
    BY DEF Layout, Regions
  <2>2. PICK u \in 0 .. N[k] : Used(s, F, 0, B, N, k, u)
    BY DEF Layout, Regions
  <2>3. \A j \in 1 .. k - 1 : j \in DOMAIN B
    BY <1>2
  <2>4. Placed(t, F, B2, N2, k)
    <3>1. EndOf(B, N, k) <= s.off /\ EndOf(B, N, k) \in Int
      <4>1. k \in 1 .. Len(B) /\ k \in 1 .. Len(N)
        BY ONLY <1>2, k \in DOMAIN B
      <4>2. B[k] \in Nat /\ N[k] \in Nat
        BY ONLY <1>2, <4>1, ElementOfSeq
      <4> QED BY ONLY <2>1, <4>2 DEF Placed, EndOf
    <3>2. EndOf(B, N, k) <= t.off
      BY <1>a, <1>b, <3>1
    <3> QED BY <1>5, <2>1, <2>3, <3>2 DEF Placed
  <2>5. Used(t, F, 0, B2, N2, k, u)
    <3>1. \A m \in 0 .. N[k] - 1 : /\ B[k] + 4 * m \in DOMAIN t.text
                                    /\ t.text[B[k] + 4 * m] = s.text[B[k] + 4 * m]
      BY <1>1, <2>2 DEF Used
    <3>2. B2[k] = B[k] /\ N2[k] = N[k] /\ Served(F, B2, N2, k) = Served(F, B, N, k)
          /\ t.veneers[k] = s.veneers[k]
      BY <1>5, <1>7
    <3>3. s.veneers[k] = B[k] + 4 * u /\ u <= UpTo(Served(F, B, N, k), 0)
      BY <2>2 DEF Used
    <3>4. \A m \in 0 .. N[k] - 1 : /\ B[k] + 4 * m \in DOMAIN t.text
                                   /\ t.text[B[k] + 4 * m].slot /\ t.text[B[k] + 4 * m].label = -1
                                   /\ m >= u => t.text[B[k] + 4 * m].op = "zero"
      BY <2>2, <3>1 DEF Used
    <3>5. \A m \in 0 .. N2[k] - 1 : /\ B2[k] + 4 * m \in DOMAIN t.text
                                    /\ t.text[B2[k] + 4 * m].slot /\ t.text[B2[k] + 4 * m].label = -1
                                    /\ m >= u => t.text[B2[k] + 4 * m].op = "zero"
      BY <3>2, <3>4
    <3>6. t.veneers[k] = B2[k] + 4 * u /\ u <= UpTo(Served(F, B2, N2, k), 0)
      BY <3>2, <3>3
    <3> QED BY <3>5, <3>6 DEF Used
  <2> QED BY <1>5, <2>4, <2>5
<1>11. Placed(t, F, B2, N2, Len(B) + 1) /\ \E u \in 0 .. N2[Len(B) + 1] : Used(t, F, 0, B2, N2, Len(B) + 1, u)
  <2>1. c = Cardinality(Open(F, B, N))
    BY DEF Counts
  <2>2. \A j \in 1 .. (Len(B) + 1) - 1 : j \in DOMAIN B
    BY <1>2
  <2>3. \A j \in DOMAIN B : EndOf(B, N, j) <= s.off /\ EndOf(B, N, j) \in Int
    <3>1. ASSUME NEW j \in DOMAIN B PROVE B[j] \in Nat /\ N[j] \in Nat
      <4>1. j \in 1 .. Len(B) /\ j \in 1 .. Len(N)
        BY <1>2
      <4> QED BY <1>2, <4>1, ElementOfSeq
    <3> QED BY <3>1 DEF Layout, Regions, Placed, EndOf
  <2>4. \A j \in 1 .. (Len(B) + 1) - 1 : EndOf(B2, N2, j) + 4 <= b
    <3>1. \A j \in DOMAIN B : EndOf(B, N, j) + 4 <= b
      BY ONLY <1>0, <1>a, <2>3
    <3> QED BY <1>5, <2>2, <3>1
  <2>5. \A i \in DOMAIN F : F[i].off + 8 <= b
    BY ONLY <1>0, <1>a, <1>3
  <2>6. Placed(t, F, B2, N2, Len(B) + 1)
    <3>1. b >= 4 /\ t.off <= t.off
      BY <1>0, <1>a, <1>b
    <3> QED BY <1>5, <1>9, <2>1, <2>4, <2>5, <3>1 DEF Placed
  <2>7. UpTo(Open(F, B, N), 0) = 0
    <3>1. Open(F, B, N) \in SUBSET (1 .. Len(F)) /\ Len(F) \in Nat
      BY ONLY <1>2, RefSets
    <3> QED BY ONLY <3>1, UpToCounts
  <2>8. \A m \in 0 .. c - 1 : t.text[b + 4 * m].slot /\ t.text[b + 4 * m].label = -1
                              /\ t.text[b + 4 * m].op = "zero"
    BY <1>1 DEF Slot
  <2>9. Used(t, F, 0, B2, N2, Len(B) + 1, 0)
    <3>1. t.veneers[Len(B) + 1] = B2[Len(B) + 1] + 4 * 0
      BY <1>0, <1>5, <1>7
    <3>2. 0 <= UpTo(Open(F, B, N), 0)
      BY <2>7
    <3> QED BY <1>1, <1>5, <2>8, <3>1, <3>2 DEF Used
  <2>10. 0 \in 0 .. N2[Len(B) + 1]
    BY <1>a, <1>5
  <2> QED BY <2>6, <2>9, <2>10
<1>12. Regions(t, F, 0, B2, N2)
  BY <1>5, <1>7, <1>8, <1>10, <1>11 DEF Regions
<1>13. OpenNear(t, F, B2, N2) /\ Counts(t, F, B2, N2)
  <2>1. Cardinality({}) = 0
    BY FS_EmptySet
  <2>2. OpenNear(t, F, B2, N2)
    BY <1>5 DEF OpenNear
  <2>3. t.test + t.cond = Cardinality({}) /\ t.test + t.cond <= MaxBranches
    BY <2>1, WriterAssumption
  <2>4. LastEnd(B2, N2) + 4 * Cardinality({}) <= t.off
    BY <1>5, <1>9, <1>b, <2>1
  <2> QED BY <1>5, <2>2, <2>3, <2>4 DEF Counts
<1>14. ServedNear(t, F, B2, N2)
  <2> SUFFICES ASSUME Small(t), NEW k \in DOMAIN B2, NEW i \in Served(F, B2, N2, k)
               PROVE  B2[k] + 4 * UpTo(Served(F, B2, N2, k), i) < F[i].off + Reach(F[i].kind) + 4
    BY DEF ServedNear
  <2>1. Small(s)
    BY ONLY <1>a, <1>b, Small(t), WriterAssumption DEF Small
  <2>2. CASE k \in DOMAIN B
    BY <1>5, <2>1, <2>2 DEF Layout, ServedNear
  <2>3. CASE k = Len(B) + 1
    <3> DEFINE S == Open(F, B, N)
    <3>1. i \in S /\ Served(F, B2, N2, k) = S /\ B2[k] = s.off + 4
      BY <1>0, <1>5, <2>3
    <3>2. s.size + 4 * UpTo(S, i) < F[i].off + Reach(F[i].kind)
      BY <2>1, <3>1 DEF Layout, OpenNear
    <3>3. UpTo(S, i) \in Int /\ F[i].off \in Int /\ Reach(F[i].kind) \in Int
      <4>1. S \in SUBSET (1 .. Len(F)) /\ Len(F) \in Nat /\ i \in Int /\ i \in DOMAIN F
        BY <1>2, <3>1, RefSets
      <4>2. UpTo(S, i) \in Int
        <5> HIDE DEF S
        <5>1. UpTo(S, i) \in Nat
          BY <4>1, UpToCounts
        <5> QED BY <5>1
      <4> QED BY <1>3, <4>1, <4>2, WriterAssumption DEF Reach
    <3>4. \A z, o, p, r, u \in Int : z + 4 * u < o + r /\ p <= z => p + 4 + 4 * u < o + r + 4
      OBVIOUS
    <3>5. s.off + 4 + 4 * UpTo(S, i) < F[i].off + Reach(F[i].kind) + 4
      <4> HIDE DEF S
      <4>1. s.off \in Int /\ s.size \in Int /\ s.off <= s.size
        BY <1>a
      <4> QED BY <4>1, <3>2, <3>3, <3>4
    <3> QED BY <3>1, <3>5
  <2> QED BY <1>8, <2>2, <2>3
<1> QED BY <1>1, <1>6, <1>12, <1>13, <1>14 DEF Layout

\* The layout of a function that is being written, for some regions.
Laid(s, F) ==
    /\ s.size - s.off <= s.chunk
    /\ \E B, N : Layout(s, F, 0, B, N) /\ Counts(s, F, B, N)

\* The writer t has the text of s, and possibly one more region directly in
\* front of its position.
Kept(s, t) == \A o \in DOMAIN s.text : o \in DOMAIN t.text /\ t.text[o] = s.text[o]
Spaced(s, t) ==
    /\ Kept(s, t)
    /\ \A o \in DOMAIN t.text : o \notin DOMAIN s.text => t.text[o].label = -1
    /\ t.off >= s.off /\ t.chunk >= s.chunk
    /\ t.off # s.off => t.off - 4 \in DOMAIN t.text /\ t.text[t.off - 4].slot

\* FunctionWriter::ensure_space keeps the layout.
LEMMA EnsureLaid ==
    ASSUME NEW s, Room(s), NEW F, Laid(s, F), NEW n \in Nat, NEW t, t = ensure_space(s, n)
    PROVE  Room(t) /\ t.size - t.off >= n /\ Laid(t, F) /\ Spaced(s, t)
<1>0. Room(t) /\ t.size - t.off >= n
  BY EnsureSpaceRoom
<1>1. CASE t = s
  BY <1>0, <1>1 DEF Spaced, Kept, Room
<1>2. CASE t = more_space(s, n)
  <2> DEFINE c == s.test + s.cond
  <2>0. c \in Nat /\ s.size \in Nat /\ s.off \in Nat /\ s.chunk \in Nat
    BY DEF Room
  <2>1. PICK B, N : Layout(s, F, 0, B, N) /\ Counts(s, F, B, N)
    BY DEF Laid
  <2>2. /\ t.size >= s.size /\ t.chunk >= s.chunk /\ t.size - s.off <= t.chunk
        /\ \/ /\ t.veneers = s.veneers /\ t.text = s.text /\ t.off = s.off
              /\ t.test = s.test /\ t.cond = s.cond
              /\ c = 0 \/ Reachable(s, t.size)
           \/ /\ c >= 1 /\ t.veneers = Append(s.veneers, s.off + 4) /\ t.off = s.off + 4 * c + 4
              /\ t.test = 0 /\ t.cond = 0
              /\ t.text = RegionIn(s, c)
    BY <1>2, MoreSpaceIs
  <2>3. t.size \in Nat /\ t.off \in Nat /\ t.chunk \in Nat
    BY <1>0 DEF Room
  <2>4. CASE /\ t.veneers = s.veneers /\ t.text = s.text /\ t.off = s.off
             /\ t.test = s.test /\ t.cond = s.cond
             /\ c = 0 \/ Reachable(s, t.size)
    <3>1. Layout(t, F, 0, B, N) /\ Counts(t, F, B, N)
      BY <1>0, <2>1, <2>2, <2>4, NoRegion
    <3>2. Laid(t, F)
      BY <2>2, <2>4, <3>1 DEF Laid
    <3>3. Spaced(s, t)
      BY <2>2, <2>3, <2>4 DEF Spaced, Kept
    <3> QED BY <1>0, <3>2, <3>3
  <2>5. CASE /\ c >= 1 /\ t.veneers = Append(s.veneers, s.off + 4) /\ t.off = s.off + 4 * c + 4
             /\ t.test = 0 /\ t.cond = 0
             /\ t.text = RegionIn(s, c)
    <3>1. \E B2, N2 : Layout(t, F, 0, B2, N2) /\ Counts(t, F, B2, N2)
      BY <1>0, <2>1, <2>2, <2>5, NewRegion
    <3>2. t.size - t.off <= t.chunk
      <4>1. t.size - s.off <= t.chunk /\ t.off = s.off + 4 * c + 4
        BY <2>2, <2>5
      <4> HIDE DEF c
      <4> QED BY ONLY <2>0, <2>3, <4>1
    <3>3. Laid(t, F)
      BY <3>1, <3>2 DEF Laid
    <3>4. Texts(s)
      BY <2>1 DEF Layout
    <3> HIDE DEF c
    <3>5. /\ \A o \in DOMAIN s.text : o \in DOMAIN t.text /\ t.text[o] = s.text[o]
          /\ \A o \in DOMAIN t.text : o \notin DOMAIN s.text => t.text[o].label = -1
          /\ \A m \in 0 .. c - 1 : /\ (s.off + 4) + 4 * m \in DOMAIN t.text
                                   /\ t.text[(s.off + 4) + 4 * m] = Slot
      BY <2>0, <2>5, <3>4, RegionText
    <3>6. t.off - 4 \in DOMAIN t.text /\ t.text[t.off - 4].slot
      <4>1. c - 1 \in 0 .. c - 1 /\ (s.off + 4) + 4 * (c - 1) = t.off - 4
        BY <2>0, <2>5
      <4>2. t.off - 4 \in DOMAIN t.text /\ t.text[t.off - 4] = Slot
        BY <3>5, <4>1
      <4> QED BY <4>2 DEF Slot
    <3>7. t.off >= s.off
      BY <2>0, <2>5
    <3>8. Spaced(s, t)
      BY <2>2, <3>5, <3>6, <3>7 DEF Spaced, Kept
    <3> QED BY <1>0, <3>3, <3>8
  <2> QED BY <2>2, <2>4, <2>5
<1> QED BY <1>1, <1>2 DEF ensure_space

\* Instructions at the position change nothing of it, unless they are
\* references.
LEMMA ExtendedLaid ==
    ASSUME NEW s, Room(s), NEW F, Laid(s, F), NEW t, Room(t), Texts(t), Kept(s, t), t.off >= s.off,
           t.veneers = s.veneers, t.size = s.size, t.chunk = s.chunk, t.test = s.test, t.cond = s.cond
    PROVE  Laid(t, F)
<1>0. s.off \in Nat /\ t.off \in Nat /\ s.size \in Nat /\ s.chunk \in Nat
  BY DEF Room
<1>1. PICK B, N : Layout(s, F, 0, B, N) /\ Counts(s, F, B, N)
  BY DEF Laid
<1>2. Refs(t, F)
  BY <1>1 DEF Layout, Refs, Kept
<1>3. B \in Seq(Nat) /\ N \in Seq(Nat) /\ Len(N) = Len(B) /\ F \in Seq(Fixups)
  BY <1>1 DEF Layout, Regions, Refs
<1>4. Regions(t, F, 0, B, N)
  <2>1. ASSUME NEW k \in DOMAIN B PROVE Placed(t, F, B, N, k) /\ \E u \in 0 .. N[k] : Used(t, F, 0, B, N, k, u)
    <3>1. Placed(s, F, B, N, k)
      BY <1>1 DEF Layout, Regions
    <3>2. PICK u \in 0 .. N[k] : Used(s, F, 0, B, N, k, u)
      BY <1>1 DEF Layout, Regions
    <3>3. EndOf(B, N, k) <= t.off
      <4>1. k \in 1 .. Len(B) /\ k \in 1 .. Len(N)
        BY <1>3
      <4>2. EndOf(B, N, k) \in Int
        BY <1>3, <4>1, ElementOfSeq DEF EndOf
      <4> QED BY <1>0, <3>1, <4>2 DEF Placed
    <3>4. \A m \in 0 .. N[k] - 1 : t.text[B[k] + 4 * m] = s.text[B[k] + 4 * m] /\ B[k] + 4 * m \in DOMAIN t.text
      BY <3>2 DEF Used, Kept
    <3>5. s.veneers[k] = B[k] + 4 * u /\ u <= UpTo(Served(F, B, N, k), 0)
      BY <3>2 DEF Used
    <3>6. \A m \in 0 .. N[k] - 1 :
             /\ t.text[B[k] + 4 * m].slot /\ t.text[B[k] + 4 * m].label = -1
             /\ m >= u => t.text[B[k] + 4 * m].op = "zero"
      BY <3>2, <3>4 DEF Used
    <3>7. Used(t, F, 0, B, N, k, u)
      BY <3>4, <3>5, <3>6 DEF Used
    <3> QED BY <3>1, <3>3, <3>7 DEF Placed
  <2> QED BY <1>1, <2>1 DEF Layout, Regions
<1>5. OpenNear(t, F, B, N) /\ ServedNear(t, F, B, N)
  BY <1>1 DEF Layout, OpenNear, ServedNear, Small
<1>6. Counts(t, F, B, N)
  <2>1. Cardinality(Open(F, B, N)) \in Nat
    BY <1>3, RefSets, UpToCounts
  <2>2. LastEnd(B, N) \in Int
    <3>1. CASE B = <<>>
      BY <3>1 DEF LastEnd
    <3>2. CASE B # <<>>
      <4>1. Len(B) \in 1 .. Len(B)
        BY <1>3, <3>2
      <4>2. B[Len(B)] \in Nat /\ N[Len(B)] \in Nat
        BY <1>3, <4>1, ElementOfSeq
      <4> QED BY <3>2, <4>2 DEF LastEnd, EndOf
    <3> QED BY <3>1, <3>2
  <2>3. LastEnd(B, N) + 4 * Cardinality(Open(F, B, N)) <= t.off
    <3>1. LastEnd(B, N) + 4 * Cardinality(Open(F, B, N)) <= s.off
      BY <1>1 DEF Counts
    <3> QED BY <1>0, <2>1, <2>2, <3>1
  <2> QED BY <1>1, <2>3 DEF Counts
<1>7. t.size - t.off <= t.chunk
  BY <1>0 DEF Laid
<1> QED BY <1>1, <1>2, <1>4, <1>5, <1>6, <1>7 DEF Laid, Layout
----------------------------------------------------------------------------
\* The instruction b is written at the position.
Written(s, t, b) ==
    /\ Texts(t) /\ Kept(s, t) /\ s.off \notin DOMAIN s.text
    /\ DOMAIN t.text = DOMAIN s.text \cup {s.off} /\ t.text[s.off] = b

\* It is behind what was in text.
LEMMA WithText ==
    ASSUME NEW s, Room(s), Texts(s), NEW b \in Inst, NEW t, t.text = With(s.text, s.off, b),
           t.off \in Nat, t.off >= s.off + 4
    PROVE  Written(s, t, b)
<1>0. s.off \in Nat
  BY DEF Room
<1>1. DOMAIN t.text = DOMAIN s.text \cup {s.off} /\ t.text[s.off] = b
      /\ \A o \in DOMAIN s.text : o # s.off => t.text[o] = s.text[o]
  BY DEF With
<1>2. \A o \in DOMAIN s.text : o \in Nat /\ o + 4 <= s.off /\ s.text[o] \in Inst
  BY DEF Texts
<1>3. \A o \in DOMAIN s.text : o # s.off
  BY <1>0, <1>2
<1>4. Kept(s, t)
  BY <1>1, <1>3 DEF Kept
<1>5. IsFiniteSet(DOMAIN t.text)
  BY <1>1, FS_AddElement DEF Texts
<1>6. ASSUME NEW o \in DOMAIN t.text PROVE o \in Nat /\ o + 4 <= t.off /\ t.text[o] \in Inst
  <2>1. CASE o = s.off
    BY <1>0, <1>1, <2>1
  <2>2. CASE o \in DOMAIN s.text
    <3>1. o \in Nat /\ o + 4 <= s.off /\ t.text[o] \in Inst
      BY <1>2, <1>4, <2>2 DEF Kept
    <3> QED BY <1>0, <3>1
  <2> QED BY <1>1, <2>1, <2>2
<1> QED BY <1>1, <1>3, <1>4, <1>5, <1>6 DEF Texts, Written

\* The labels that are referenced: the branches of the function.
Labelled(s) == {o \in DOMAIN s.text : s.text[o].label # -1}

\* There are no more open branches than branches.
LEMMA OpenCounted ==
    ASSUME NEW s, NEW F, NEW B, NEW N, Texts(s), Refs(s, F)
    PROVE  Cardinality(Open(F, B, N)) <= Cardinality(Labelled(s)) /\ Cardinality(Labelled(s)) \in Nat
<1> DEFINE S == Open(F, B, N)
           L == Labelled(s)
           f == [i \in S |-> F[i].off]
<1>1. IsFiniteSet(L) /\ Cardinality(L) \in Nat
  <2>1. L \in SUBSET (DOMAIN s.text) /\ IsFiniteSet(DOMAIN s.text)
    BY DEF Labelled, Texts
  <2> QED BY <2>1, FS_Subset, FS_CardinalityType
<1>2. F \in Seq(Fixups)
  BY DEF Refs
<1>3. S \in SUBSET (1 .. Len(F)) /\ DOMAIN F = 1 .. Len(F) /\ Len(F) \in Nat
      /\ \A i \in DOMAIN F : F[i].off \in Nat /\ F[i].label \in Labels
  BY <1>2, RefSets
<1>4. ASSUME NEW i \in S PROVE F[i].off \in L
  <2>1. i \in DOMAIN F /\ F[i].label # -1
    BY <1>3, WriterAssumption
  <2> QED BY <2>1 DEF Labelled, Refs
<1>5. ASSUME NEW i \in S, NEW j \in S, F[i].off = F[j].off PROVE i = j
  <2>1. i \in DOMAIN F /\ j \in DOMAIN F /\ i \in Nat /\ j \in Nat
    BY <1>3
  <2>2. F[i].off \in Nat
    BY <1>3, <2>1
  <2>3. ~(i < j) /\ ~(j < i)
    BY <1>5, <2>1, <2>2 DEF Refs
  <2> QED BY <2>1, <2>3
<1>6. f \in [S -> L] /\ \A i, j \in S : f[i] = f[j] => i = j
  <2> HIDE DEF S, L
  <2> QED BY <1>4, <1>5
<1>7. f \in Injection(S, L)
  <2> HIDE DEF f, S, L
  <2> QED BY <1>6, Fun_IsInj
<1>8. Cardinality(S) <= Cardinality(L)
  <2> HIDE DEF f, S, L
  <2> QED BY <1>1, <1>7, FS_Injection
<1> QED BY <1>1, <1>8

\* A reference f is added that is open and served by no region.
RefAdded(F, B, N, f) ==
    /\ \A k \in DOMAIN B : Served(Append(F, f), B, N, k) = Served(F, B, N, k)
    /\ Open(Append(F, f), B, N) = Open(F, B, N) \cup (IF f.kind = "b" THEN {} ELSE {Len(F) + 1})
    /\ \A i \in 1 .. Len(F) : UpTo(Open(Append(F, f), B, N), i) = UpTo(Open(F, B, N), i)

\* So is one to the branch at the position.
LEMMA RefBehind ==
    ASSUME NEW F \in Seq(Fixups), NEW B \in Seq(Nat), NEW N \in Seq(Nat), Len(N) = Len(B),
           NEW f \in Fixups, \A k \in DOMAIN B : EndOf(B, N, k) <= f.off
    PROVE  RefAdded(F, B, N, f)
<1> DEFINE G == Append(F, f)
           n == Len(F)
<1>1. /\ G \in Seq(Fixups) /\ Len(G) = n + 1 /\ n \in Nat /\ DOMAIN F = 1 .. n /\ DOMAIN G = 1 .. n + 1
      /\ \A i \in 1 .. n : G[i] = F[i]
      /\ G[n + 1] = f
  OBVIOUS
<1>2. \A i \in 1 .. n + 1 : i \in 1 .. n \/ i = n + 1
  <2> HIDE DEF n
  <2> QED BY <1>1
<1> HIDE DEF G
<1>3. ASSUME NEW k \in DOMAIN B PROVE Served(G, B, N, k) = Served(F, B, N, k)
  <2>1. B[k] \in Nat /\ N[k] \in Nat /\ f.off \in Nat
    <3>1. k \in 1 .. Len(B) /\ k \in 1 .. Len(N)
      OBVIOUS
    <3> QED BY <3>1, ElementOfSeq DEF Fixups
  <2>2. ~(f.off < B[k])
    <3>1. B[k] + 4 * N[k] <= f.off
      BY DEF EndOf
    <3> QED BY ONLY <2>1, <3>1
  <2>3. n + 1 \notin Served(G, B, N, k)
    BY <1>1, <2>2 DEF Served
  <2>4. n + 1 \notin Served(F, B, N, k)
    <3>1. n + 1 \notin 1 .. n
      BY <1>1
    <3> QED BY <1>1, <3>1 DEF Served
  <2>5. \A i \in 1 .. n : i \in Served(G, B, N, k) <=> i \in Served(F, B, N, k)
    <3>1. \A i \in 1 .. n : i \in 1 .. n + 1
      BY <1>1
    <3> HIDE DEF n
    <3> QED BY <1>1, <3>1 DEF Served
  <2>6. Served(G, B, N, k) \subseteq 1 .. n + 1 /\ Served(F, B, N, k) \subseteq 1 .. n
    BY <1>1 DEF Served
  <2> HIDE DEF n
  <2> QED BY <1>2, <2>3, <2>4, <2>5, <2>6
<1>4. Open(G, B, N) = Open(F, B, N) \cup (IF f.kind = "b" THEN {} ELSE {n + 1})
  <2>1. n + 1 \in Open(G, B, N) <=> f.kind # "b"
    <3>1. n + 1 \in 1 .. n + 1
      BY <1>1
    <3> HIDE DEF n
    <3> QED BY <1>1, <3>1 DEF Open
  <2>2. n + 1 \notin Open(F, B, N)
    <3>1. n + 1 \notin 1 .. n
      BY <1>1
    <3> QED BY <1>1, <3>1 DEF Open
  <2>3. \A i \in 1 .. n : i \in Open(G, B, N) <=> i \in Open(F, B, N)
    <3>1. \A i \in 1 .. n : i \in 1 .. n + 1
      BY <1>1
    <3> HIDE DEF n
    <3> QED BY <1>1, <3>1 DEF Open
  <2>4. Open(G, B, N) \subseteq 1 .. n + 1 /\ Open(F, B, N) \subseteq 1 .. n
    BY <1>1 DEF Open
  <2> HIDE DEF n
  <2> QED BY <1>2, <2>1, <2>2, <2>3, <2>4
<1>5. ASSUME NEW i \in 1 .. n PROVE UpTo(Open(G, B, N), i) = UpTo(Open(F, B, N), i)
  <2>1. ~(n + 1 <= i)
    BY <1>1
  <2>2. \A j : j <= i => (j \in Open(G, B, N) <=> j \in Open(F, B, N))
    BY <1>4, <2>1
  <2> HIDE DEF n
  <2> QED BY <2>2, UpToSame
<1> QED BY <1>3, <1>4, <1>5 DEF G, RefAdded

\* The regions are as they were when a reference is behind them all.
LEMMA RegionsKept ==
    ASSUME NEW s, Room(s), NEW F \in Seq(Fixups), NEW B, NEW N, Regions(s, F, 0, B, N),
           NEW t, Room(t), Kept(s, t), t.off >= s.off, t.veneers = s.veneers,
           NEW f \in Fixups, f.off = s.off
    PROVE  /\ \A k \in DOMAIN B : EndOf(B, N, k) <= f.off
           /\ Regions(t, Append(F, f), 0, B, N)
<1>0. s.off \in Nat /\ t.off \in Nat
  BY DEF Room
<1>1. B \in Seq(Nat) /\ N \in Seq(Nat) /\ Len(N) = Len(B)
  BY DEF Regions
<1>2. ASSUME NEW k \in DOMAIN B PROVE EndOf(B, N, k) \in Int /\ EndOf(B, N, k) <= s.off
  <2>1. k \in 1 .. Len(B) /\ k \in 1 .. Len(N)
    BY <1>1
  <2>2. EndOf(B, N, k) \in Int
    BY <1>1, <2>1, ElementOfSeq DEF EndOf
  <2> QED BY <2>2 DEF Regions, Placed
<1>3. \A k \in DOMAIN B : EndOf(B, N, k) <= f.off
  BY <1>2
<1>4. \A k \in DOMAIN B : Served(Append(F, f), B, N, k) = Served(F, B, N, k)
  BY <1>1, <1>3, RefBehind DEF RefAdded
<1>5. \A i \in DOMAIN Append(F, f) : \/ i \in DOMAIN F /\ Append(F, f)[i] = F[i]
                                     \/ Append(F, f)[i] = f
  OBVIOUS
<1>6. ASSUME NEW k \in DOMAIN B
      PROVE  Placed(t, Append(F, f), B, N, k) /\ \E u \in 0 .. N[k] : Used(t, Append(F, f), 0, B, N, k, u)
  <2>1. Placed(s, F, B, N, k)
    BY DEF Regions
  <2>2. PICK u \in 0 .. N[k] : Used(s, F, 0, B, N, k, u)
    BY DEF Regions
  <2>3. EndOf(B, N, k) <= t.off
    BY <1>0, <1>2
  <2>4. Placed(t, Append(F, f), B, N, k)
    BY <1>3, <1>4, <1>5, <2>1, <2>3 DEF Placed
  <2>5. \A m \in 0 .. N[k] - 1 : t.text[B[k] + 4 * m] = s.text[B[k] + 4 * m] /\ B[k] + 4 * m \in DOMAIN t.text
    BY <2>2 DEF Used, Kept
  <2>6. s.veneers[k] = B[k] + 4 * u /\ u <= UpTo(Served(F, B, N, k), 0)
    BY <2>2 DEF Used
  <2>7. \A m \in 0 .. N[k] - 1 :
           /\ t.text[B[k] + 4 * m].slot /\ t.text[B[k] + 4 * m].label = -1
           /\ m >= u => t.text[B[k] + 4 * m].op = "zero"
    BY <2>2, <2>5 DEF Used
  <2>8. Used(t, Append(F, f), 0, B, N, k, u)
    BY <1>4, <2>5, <2>6, <2>7 DEF Used
  <2> QED BY <2>4, <2>8
<1>7. Regions(t, Append(F, f), 0, B, N)
  BY <1>6 DEF Regions
<1> QED BY <1>3, <1>7

\* label_ref and the branch it is for: a conditional one is open, and reaches
\* a slot behind the reserved memory if it is Small.
LEMMA RefLaid ==
    ASSUME NEW s, Room(s), NEW F, Laid(s, F), Cardinality(Labelled(s)) < MaxBranches,
           NEW kind \in Kinds, NEW l \in Labels,
           NEW t, Room(t), t.text = With(s.text, s.off, Branch(kind, -1, l)), t.off = s.off + 4,
           t.veneers = s.veneers, t.size = s.size, t.chunk = s.chunk,
           t.test = s.test + (IF kind = "test" THEN 1 ELSE 0),
           t.cond = s.cond + (IF kind = "cond" THEN 1 ELSE 0),
           NEW f, f = [label |-> l, off |-> s.off, kind |-> kind]
    PROVE  Laid(t, Append(F, f)) /\ Kept(s, t) /\ Texts(t) /\ s.off \notin DOMAIN s.text
<1>0. /\ s.off \in Nat /\ t.off \in Nat /\ s.size \in Nat /\ s.chunk \in Nat
      /\ s.test \in Nat /\ s.cond \in Nat /\ s.off <= s.size /\ s.size - s.off <= s.chunk
  BY DEF Room, Laid
<1>1. PICK B, N : Layout(s, F, 0, B, N) /\ Counts(s, F, B, N)
  BY DEF Laid
<1>2. B \in Seq(Nat) /\ N \in Seq(Nat) /\ Len(N) = Len(B) /\ F \in Seq(Fixups) /\ Texts(s) /\ Refs(s, F)
  BY <1>1 DEF Layout, Regions, Refs
<1>k. kind \in {"b", "cond", "test"} /\ l # -1
  BY WriterAssumption
<1>3. /\ Branch(kind, -1, l) \in Inst /\ Branch(kind, -1, l).label = l
      /\ ~Branch(kind, -1, l).slot /\ Branch(kind, -1, l).op = kind
  BY <1>k DEF Branch, Inst
<1>4. /\ Texts(t) /\ Kept(s, t) /\ s.off \notin DOMAIN s.text
      /\ s.off \in DOMAIN t.text /\ t.text[s.off] = Branch(kind, -1, l)
  <2>1. t.off >= s.off + 4
    BY <1>0
  <2> DEFINE b == Branch(kind, -1, l)
  <2>2. b \in Inst /\ t.text = With(s.text, s.off, b) /\ t.off \in Nat
    BY <1>0, <1>3
  <2> HIDE DEF b
  <2>3. /\ Texts(t) /\ Kept(s, t) /\ s.off \notin DOMAIN s.text
        /\ DOMAIN t.text = DOMAIN s.text \cup {s.off} /\ t.text[s.off] = b
    <3>1. Texts(s)
      BY <1>2
    <3>2. Written(s, t, b)
      BY ONLY Room(s), <3>1, <2>1, <2>2, WithText
    <3> QED BY <3>2 DEF Written
  <2> QED BY <2>3 DEF b
<1>5. f \in Fixups /\ f.off = s.off /\ f.label = l /\ f.kind = kind
  BY <1>0 DEF Fixups
<1> DEFINE G == Append(F, f)
           n == Len(F)
           S == Open(F, B, N)
           T == Open(G, B, N)
<1>6. /\ G \in Seq(Fixups) /\ Len(G) = n + 1 /\ n \in Nat /\ DOMAIN F = 1 .. n /\ DOMAIN G = 1 .. n + 1
      /\ \A i \in 1 .. n : G[i] = F[i]
      /\ G[n + 1] = f
  BY <1>2, <1>5
<1>7. \A i \in DOMAIN G : (i \in DOMAIN F /\ G[i] = F[i]) \/ (i = n + 1 /\ G[i] = f)
  <2>1. \A m \in Nat : \A i \in 1 .. m + 1 : i \in 1 .. m \/ i = m + 1
    OBVIOUS
  <2> HIDE DEF G, n
  <2>2. \A i \in 1 .. n + 1 : i \in 1 .. n \/ i = n + 1
    BY <1>6, <2>1
  <2>3. /\ DOMAIN F = 1 .. n /\ DOMAIN G = 1 .. n + 1
        /\ (\A i \in 1 .. n : G[i] = F[i]) /\ G[n + 1] = f
    BY <1>6
  <2> QED BY ONLY <2>2, <2>3
<1>8. /\ \A k \in DOMAIN B : EndOf(B, N, k) <= f.off
      /\ Regions(t, G, 0, B, N)
  <2>1. t.off >= s.off /\ Regions(s, F, 0, B, N)
    BY <1>0, <1>1 DEF Layout
  <2> QED BY <1>2, <1>4, <1>5, <2>1, RegionsKept
<1>9. /\ \A k \in DOMAIN B : Served(G, B, N, k) = Served(F, B, N, k)
      /\ T = S \cup (IF kind = "b" THEN {} ELSE {n + 1})
      /\ \A i \in 1 .. n : UpTo(T, i) = UpTo(S, i)
  <2>1. F \in Seq(Fixups) /\ B \in Seq(Nat) /\ N \in Seq(Nat) /\ Len(N) = Len(B)
    BY <1>2
  <2>2. f \in Fixups /\ \A k \in DOMAIN B : EndOf(B, N, k) <= f.off
    BY <1>5, <1>8
  <2>3. RefAdded(F, B, N, f)
    BY ONLY <2>1, <2>2, RefBehind
  <2> QED BY <1>5, <2>3 DEF RefAdded
<1>10. Refs(t, G)
  <2>1. \A i \in DOMAIN F : F[i].off \in Nat /\ F[i].off + 4 <= s.off
    BY <1>2, RefSets DEF Refs, Texts
  <2>2. ASSUME NEW i \in DOMAIN G, NEW j \in DOMAIN G, i < j PROVE G[i].off < G[j].off
    <3>1. i \in DOMAIN F
      BY <1>6, <1>7, <2>2
    <3>2. CASE j \in DOMAIN F
      BY <1>6, <1>2, <2>2, <3>1, <3>2 DEF Refs
    <3>3. CASE j = n + 1
      <4>1. G[j].off = s.off /\ G[i] = F[i]
        BY <1>5, <1>6, <3>1, <3>3
      <4>2. s.off \in Nat
        BY <1>0
      <4>3. F[i].off \in Nat /\ F[i].off + 4 <= s.off
        BY ONLY <2>1, <3>1
      <4> QED BY ONLY <4>1, <4>2, <4>3
    <3> HIDE DEF G, n
    <3> QED BY <1>7, <3>2, <3>3
  <2>3. ASSUME NEW i \in DOMAIN G
        PROVE  /\ G[i].off \in DOMAIN t.text
               /\ ~t.text[G[i].off].slot /\ t.text[G[i].off].label = G[i].label
               /\ t.text[G[i].off].op = G[i].kind
    <3>1. CASE i \in DOMAIN F /\ G[i] = F[i]
      BY <1>2, <1>4, <3>1 DEF Refs, Kept
    <3>2. CASE i = n + 1 /\ G[i] = f
      BY <1>3, <1>4, <1>5, <3>2
    <3> HIDE DEF G, n
    <3> QED BY <1>7, <3>1, <3>2
  <2> HIDE DEF G
  <2> QED BY <1>6, <2>2, <2>3 DEF Refs
<1>11. /\ S \in SUBSET (1 .. n) /\ T \in SUBSET (1 .. n + 1) /\ n + 1 \notin S
       /\ IsFiniteSet(S) /\ Cardinality(S) \in Nat /\ Cardinality(T) \in Nat
  <2>1. S \in SUBSET (1 .. n) /\ T \in SUBSET (1 .. n + 1)
    BY <1>2, <1>6, RefSets
  <2>2. n + 1 \notin 1 .. n /\ n + 1 \in Nat
    BY <1>6
  <2> HIDE DEF S, T, n, G
  <2> QED BY <1>6, <2>1, <2>2, UpToCounts
<1>12. Cardinality(T) = Cardinality(S) + (IF kind = "b" THEN 0 ELSE 1)
  <2>1. CASE kind = "b"
    <3>1. T = S
      BY <1>9, <2>1
    <3> HIDE DEF S, T
    <3> QED BY <1>11, <2>1, <3>1
  <2>2. CASE kind # "b"
    <3>1. T = S \cup {n + 1}
      BY <1>9, <2>2
    <3> HIDE DEF S, T
    <3> QED BY <1>11, <2>2, <3>1, FS_AddElement
  <2> QED BY <2>1, <2>2
<1>13. /\ s.test + s.cond = Cardinality(S)
       /\ LastEnd(B, N) + 4 * Cardinality(S) <= s.off
       /\ \A i \in S : /\ F[i].kind = "test" => s.test > 0
                       /\ LastEnd(B, N) + 4 * UpTo(S, i) <= F[i].off + 4
  BY <1>1 DEF Counts
<1>14. LastEnd(B, N) \in Int
  <2>1. CASE B = <<>>
    BY <2>1 DEF LastEnd
  <2>2. CASE B # <<>>
    <3>1. Len(B) \in 1 .. Len(B)
      BY <1>2, <2>2
    <3>2. B[Len(B)] \in Nat /\ N[Len(B)] \in Nat
      BY <1>2, <3>1, ElementOfSeq
    <3> QED BY <2>2, <3>2 DEF LastEnd, EndOf
  <2> QED BY <2>1, <2>2
<1>15. Cardinality(T) <= MaxBranches
  <2>1. Cardinality(S) <= Cardinality(Labelled(s)) /\ Cardinality(Labelled(s)) \in Nat
    BY <1>2, OpenCounted
  <2> HIDE DEF S, T
  <2> QED BY <1>11, <1>12, <2>1, WriterAssumption
<1>16. UpTo(T, n + 1) = Cardinality(T)
  <2>1. n + 1 \in Nat /\ n + 1 \in Int /\ n + 1 >= n + 1
    BY <1>6
  <2> HIDE DEF T, n
  <2> QED BY <1>11, <2>1, UpToAll
<1>17. \A i \in T : (i \in S /\ i \in 1 .. n /\ G[i] = F[i]) \/ (kind # "b" /\ i = n + 1 /\ G[i] = f)
  <2>1. \A i \in T : i \in S \/ (kind # "b" /\ i = n + 1)
    <3>1. T = S \cup (IF kind = "b" THEN {} ELSE {n + 1})
      BY <1>9
    <3> HIDE DEF S, T, G, n
    <3>2. CASE kind = "b"
      BY <3>1, <3>2
    <3>3. CASE kind # "b"
      BY <3>1, <3>3
    <3> QED BY <3>2, <3>3
  <2> HIDE DEF S, T, G, n
  <2>2. \A i \in S : i \in 1 .. n
    BY <1>11
  <2> QED BY <1>6, <2>1, <2>2
<1>18. Counts(t, G, B, N)
  <2>1. t.test + t.cond = Cardinality(T)
    <3> HIDE DEF S, T, n
    <3> QED BY <1>0, <1>12, <1>13, <1>k
  <2>2. LastEnd(B, N) + 4 * Cardinality(T) <= t.off
    <3> HIDE DEF S, T, n
    <3> QED BY <1>0, <1>11, <1>12, <1>13, <1>14
  <2>3. ASSUME NEW i \in T
        PROVE  /\ G[i].kind = "test" => t.test > 0
               /\ LastEnd(B, N) + 4 * UpTo(T, i) <= G[i].off + 4
    <3>1. CASE i \in S /\ i \in 1 .. n /\ G[i] = F[i]
      <4> HIDE DEF S, T, G, n
      <4>1. F[i].kind = "test" => s.test > 0
        BY <1>13, <3>1
      <4>2. LastEnd(B, N) + 4 * UpTo(T, i) <= F[i].off + 4
        BY <1>9, <1>13, <3>1
      <4>3. s.test > 0 => t.test > 0
        BY <1>0
      <4> QED BY <3>1, <4>1, <4>2, <4>3
    <3>2. CASE kind # "b" /\ i = n + 1 /\ G[i] = f
      <4>1. LastEnd(B, N) + 4 * UpTo(T, i) <= s.off + 4
        <5> HIDE DEF T, n, G
        <5> QED BY <1>16, <2>2, <3>2
      <4>2. kind = "test" => t.test > 0
        BY <1>0
      <4> HIDE DEF T, G
      <4> QED BY <1>5, <3>2, <4>1, <4>2
    <3> HIDE DEF S, T, G, n
    <3> QED BY <1>17, <3>1, <3>2
  <2>4. t.test + t.cond <= MaxBranches
    BY <1>15, <2>1
  <2> HIDE DEF G
  <2> QED BY <2>1, <2>2, <2>3, <2>4 DEF Counts
<1>19. OpenNear(t, G, B, N)
  <2> SUFFICES ASSUME Small(t), NEW i \in T
               PROVE  t.size + 4 * UpTo(T, i) < G[i].off + Reach(G[i].kind)
    <3> HIDE DEF G
    <3> QED BY DEF OpenNear
  <2>0. Small(s) /\ s.chunk + 4 * MaxBranches < TestReach
    BY DEF Small
  <2>1. CASE i \in S /\ i \in 1 .. n /\ G[i] = F[i]
    <3>1. s.size + 4 * UpTo(S, i) < F[i].off + Reach(F[i].kind)
      BY <1>1, <2>0, <2>1 DEF Layout, OpenNear
    <3> HIDE DEF S, T, G, n
    <3> QED BY <1>9, <2>1, <3>1
  <2>2. CASE kind # "b" /\ i = n + 1 /\ G[i] = f
    <3>1. TestReach <= Reach(kind) /\ Reach(kind) \in Nat
      BY <1>k, WriterAssumption DEF Reach
    <3>2. UpTo(T, i) = Cardinality(T) /\ G[i].off = s.off /\ G[i].kind = kind
      <4> HIDE DEF T, G, n
      <4> QED BY <1>5, <1>16, <2>2
    <3>3. s.size + 4 * Cardinality(T) < s.off + Reach(kind)
      <4> HIDE DEF T
      <4>1. \A z, c, o, r, k, b, x \in Int : /\ z - o <= k /\ c <= b /\ k + 4 * b < x /\ x <= r
                                              => z + 4 * c < o + r
        OBVIOUS
      <4>2. Cardinality(T) \in Int /\ MaxBranches \in Int /\ TestReach \in Int
        BY <1>11, WriterAssumption
      <4> QED BY <1>0, <1>15, <2>0, <3>1, <4>1, <4>2
    <3> HIDE DEF T, G
    <3> QED BY <3>2, <3>3
  <2> HIDE DEF S, T, G, n
  <2> QED BY <1>17, <2>1, <2>2
<1>20. ServedNear(t, G, B, N)
  <2> SUFFICES ASSUME Small(t), NEW k \in DOMAIN B, NEW i \in Served(G, B, N, k)
               PROVE  B[k] + 4 * UpTo(Served(G, B, N, k), i) < G[i].off + Reach(G[i].kind) + 4
    <3> HIDE DEF G
    <3> QED BY DEF ServedNear
  <2>1. Served(G, B, N, k) = Served(F, B, N, k)
    BY <1>9
  <2>2. i \in Served(F, B, N, k) /\ G[i] = F[i]
    <3>1. i \in 1 .. n
      BY <1>2, <2>1, RefSets
    <3> HIDE DEF G
    <3> QED BY <1>6, <2>1, <3>1
  <2>3. Small(s)
    BY DEF Small
  <2>4. B[k] + 4 * UpTo(Served(F, B, N, k), i) < F[i].off + Reach(F[i].kind) + 4
    BY <1>1, <2>2, <2>3 DEF Layout, ServedNear
  <2> HIDE DEF G
  <2> QED BY <2>1, <2>2, <2>4
<1>21. t.size - t.off <= t.chunk
  BY <1>0
<1> HIDE DEF G
<1>22. Laid(t, G)
  BY <1>4, <1>8, <1>10, <1>18, <1>19, <1>20, <1>21 DEF Laid, Layout
<1> QED BY <1>4, <1>22 DEF G
----------------------------------------------------------------------------
\* handle_fixups.  The next free slot of a region is one of its slots or the
\* end of it, and the regions are in order.
LEMMA RegionFacts ==
    ASSUME NEW s, NEW F, NEW h, NEW B, NEW N, Regions(s, F, h, B, N)
    PROVE  /\ s.veneers \in Seq(Nat) /\ DOMAIN s.veneers = DOMAIN B
           /\ DOMAIN B = 1 .. Len(B) /\ Len(B) \in Nat
           /\ \A k \in DOMAIN B :
                 /\ B[k] \in Nat /\ N[k] \in Nat /\ N[k] >= 1 /\ s.veneers[k] \in Nat
                 /\ EndOf(B, N, k) = B[k] + 4 * N[k]
                 /\ B[k] <= s.veneers[k] /\ s.veneers[k] <= EndOf(B, N, k)
           /\ \A j, k \in DOMAIN B : j < k => EndOf(B, N, j) + 4 <= B[k]
<1>1. /\ B \in Seq(Nat) /\ N \in Seq(Nat) /\ s.veneers \in Seq(Nat)
      /\ Len(B) = Len(s.veneers) /\ Len(N) = Len(s.veneers)
  BY DEF Regions
<1>2. DOMAIN s.veneers = DOMAIN B /\ DOMAIN B = 1 .. Len(B) /\ Len(B) \in Nat
  BY <1>1
<1>3. ASSUME NEW k \in DOMAIN B
      PROVE  /\ B[k] \in Nat /\ N[k] \in Nat /\ N[k] >= 1 /\ s.veneers[k] \in Nat
             /\ EndOf(B, N, k) = B[k] + 4 * N[k]
             /\ B[k] <= s.veneers[k] /\ s.veneers[k] <= EndOf(B, N, k)
  <2>1. k \in 1 .. Len(B) /\ k \in 1 .. Len(N) /\ k \in 1 .. Len(s.veneers)
    BY <1>1
  <2>2. B[k] \in Nat /\ N[k] \in Nat /\ s.veneers[k] \in Nat
    BY <1>1, <2>1, ElementOfSeq
  <2>3. PICK u \in 0 .. N[k] : s.veneers[k] = B[k] + 4 * u
    BY DEF Regions, Used
  <2>4. N[k] >= 1
    BY DEF Regions, Placed
  <2> QED BY <2>2, <2>3, <2>4 DEF EndOf
<1>4. ASSUME NEW j \in DOMAIN B, NEW k \in DOMAIN B, j < k PROVE EndOf(B, N, j) + 4 <= B[k]
  <2>1. j \in 1 .. k - 1
    BY <1>2, <1>4
  <2> QED BY <2>1 DEF Regions, Placed
<1> QED BY <1>1, <1>2, <1>3, <1>4

\* std::lower_bound finds the first of the sorted veneers at or behind off.
LEMMA LowerBound ==
    ASSUME NEW v \in Seq(Nat), NEW off \in Nat, \A j, k \in DOMAIN v : j < k => v[j] <= v[k]
    PROVE  /\ lower_bound(v, off) \in 1 .. Len(v) + 1
           /\ \A j \in DOMAIN v : j < lower_bound(v, off) => v[j] < off
           /\ \A j \in DOMAIN v : j >= lower_bound(v, off) => v[j] >= off
<1> DEFINE n == Len(v)
           Q == {k \in DOMAIN v : v[k] < off}
           C == {k \in DOMAIN v : ~(v[k] < off)}
<1>1. DOMAIN v = 1 .. n /\ n \in Nat /\ \A k \in DOMAIN v : v[k] \in Nat
  OBVIOUS
<1>2. lower_bound(v, off) = Cardinality(Q) + 1
  BY DEF lower_bound
<1>3. ASSUME NEW m \in 1 .. n + 1, \A j \in DOMAIN v : j < m => v[j] < off, m <= n => ~(v[m] < off)
      PROVE  lower_bound(v, off) = m /\ \A j \in DOMAIN v : j >= m => v[j] >= off
  <2>1. \A j \in DOMAIN v : j >= m => ~(v[j] < off)
    <3> SUFFICES ASSUME NEW j \in DOMAIN v, j >= m PROVE ~(v[j] < off)
      OBVIOUS
    <3>1. m \in DOMAIN v /\ ~(v[m] < off)
      BY <1>1, <1>3
    <3>2. m <= j /\ m \in Nat /\ j \in Nat
      BY <1>1
    <3>3. CASE m = j
      BY <3>1, <3>3
    <3>4. CASE m < j
      <4>1. v[m] <= v[j] /\ v[m] \in Nat /\ v[j] \in Nat
        BY <1>1, <3>1, <3>4
      <4> QED BY <3>1, <4>1
    <3> QED BY <3>2, <3>3, <3>4
  <2>2. Q = 1 .. m - 1
    <3>1. \A j \in Q : j \in 1 .. m - 1
      BY <1>1, <2>1
    <3>2. \A j \in 1 .. m - 1 : j \in DOMAIN v /\ j < m
      BY <1>1
    <3> QED BY <1>3, <3>1, <3>2
  <2>3. Cardinality(1 .. m - 1) = m - 1
    <3>1. 1 \in Int /\ m - 1 \in Int
      OBVIOUS
    <3>2. Cardinality(1 .. m - 1) = IF 1 > m - 1 THEN 0 ELSE (m - 1) - 1 + 1
      BY <3>1, FS_Interval
    <3> QED BY <3>2
  <2> HIDE DEF Q
  <2>4. \A j \in DOMAIN v : j >= m => v[j] >= off
    BY <1>1, <2>1
  <2> QED BY <1>2, <2>2, <2>3, <2>4
<1>4. CASE C = {}
  <2>1. \A j \in DOMAIN v : v[j] < off
    BY <1>4
  <2>2. n + 1 \in 1 .. n + 1 /\ ~(n + 1 <= n)
    BY <1>1
  <2> HIDE DEF Q, C
  <2>3. lower_bound(v, off) = n + 1 /\ \A j \in DOMAIN v : j >= n + 1 => v[j] >= off
    BY <1>3, <2>1, <2>2
  <2> QED BY <2>1, <2>2, <2>3
<1>5. CASE C # {}
  <2>1. C \subseteq Nat
    BY <1>1
  <2>2. PICK m \in C : \A j \in C : <<j, m>> \notin OpToRel(<, Nat)
    <3> HIDE DEF C
    <3> QED BY <1>5, <2>1, NatLessThanWellFounded, WFMin, Zenon
  <2>3. \A j \in C : ~(j < m)
    <3> HIDE DEF C
    <3> SUFFICES ASSUME NEW j \in C, j < m PROVE FALSE
      OBVIOUS
    <3>1. j \in Nat /\ m \in Nat
      BY <2>1
    <3>2. <<j, m>> \in OpToRel(<, Nat)
      BY <3>1, Zenon DEF OpToRel
    <3> QED BY <2>2, <3>2, Zenon
  <2>4. m \in 1 .. n + 1 /\ (m <= n => ~(v[m] < off)) /\ m \in Nat /\ m <= n
    BY <1>1
  <2>5. \A j \in DOMAIN v : j < m => v[j] < off
    BY <2>3
  <2> HIDE DEF Q, C
  <2>6. lower_bound(v, off) = m /\ \A j \in DOMAIN v : j >= m => v[j] >= off
    BY <1>3, <2>4, <2>5
  <2> QED BY <2>4, <2>5, <2>6
<1> QED BY <1>4, <1>5

\* A slot in region k that is free, and the ones of the other regions.
LEMMA SlotApart ==
    ASSUME NEW s, NEW F, NEW h, NEW B, NEW N, Regions(s, F, h, B, N),
           NEW k \in DOMAIN B, NEW j \in DOMAIN B, j # k, s.veneers[k] < EndOf(B, N, k),
           NEW m \in 0 .. N[j] - 1
    PROVE  B[j] + 4 * m # s.veneers[k]
<1>1. /\ DOMAIN B = 1 .. Len(B) /\ Len(B) \in Nat
      /\ \A i \in DOMAIN B :
            /\ B[i] \in Nat /\ N[i] \in Nat /\ N[i] >= 1 /\ s.veneers[i] \in Nat
            /\ EndOf(B, N, i) = B[i] + 4 * N[i]
            /\ B[i] <= s.veneers[i] /\ s.veneers[i] <= EndOf(B, N, i)
      /\ \A a, b \in DOMAIN B : a < b => EndOf(B, N, a) + 4 <= B[b]
  BY RegionFacts
<1>2. B[j] + 4 * m < EndOf(B, N, j) /\ m \in Nat /\ j \in Nat /\ k \in Nat /\ j # k
  <2>1. B[j] \in Nat /\ N[j] \in Nat /\ EndOf(B, N, j) = B[j] + 4 * N[j]
    BY <1>1
  <2>2. m \in 0 .. N[j] - 1 /\ j # k
    OBVIOUS
  <2> QED BY ONLY <1>1, <2>1, <2>2, j \in DOMAIN B, k \in DOMAIN B
<1>3. CASE j < k
  <2>1. EndOf(B, N, j) + 4 <= B[k]
    BY <1>1, <1>3
  <2>2. EndOf(B, N, j) \in Nat /\ B[j] \in Nat /\ B[k] \in Nat /\ s.veneers[k] \in Nat
        /\ B[k] <= s.veneers[k] /\ EndOf(B, N, j) = B[j] + 4 * N[j]
    BY <1>1
  <2> QED BY ONLY <1>2, <2>1, <2>2
<1>4. CASE k < j
  <2>1. EndOf(B, N, k) + 4 <= B[j]
    BY <1>1, <1>4
  <2>2. EndOf(B, N, k) \in Nat /\ B[j] \in Nat /\ s.veneers[k] \in Nat
        /\ s.veneers[k] < EndOf(B, N, k)
    <3>1. B[k] \in Nat /\ N[k] \in Nat /\ EndOf(B, N, k) = B[k] + 4 * N[k]
      BY <1>1
    <3>2. B[j] \in Nat /\ s.veneers[k] \in Nat /\ s.veneers[k] < EndOf(B, N, k)
      BY <1>1
    <3> QED BY ONLY <3>1, <3>2
  <2> QED BY ONLY <1>2, <2>1, <2>2
<1> QED BY ONLY <1>2, <1>3, <1>4

\* Reference i is handled with no slot, or with the next one of region k, if
\* there is a region k.
Handles(s, t, F, i, B, N, k) ==
    /\ DOMAIN t.text = DOMAIN s.text
    /\ \A o \in DOMAIN s.text : t.text[o].slot = s.text[o].slot /\ t.text[o].label = s.text[o].label
    /\ t.off = s.off /\ t.size = s.size /\ t.chunk = s.chunk
    /\ \A o \in DOMAIN s.text : (k \in DOMAIN B /\ o = s.veneers[k]) \/ t.text[o].op = s.text[o].op
    /\ k \in DOMAIN B =>
          /\ i \in Served(F, B, N, k) /\ t.veneers = [s.veneers EXCEPT ![k] = @ + 4]
          /\ s.text[s.veneers[k]].slot /\ s.veneers[k] < EndOf(B, N, k)
    /\ k \notin DOMAIN B => t.veneers = s.veneers

\* That keeps the layout.
LEMMA TurnLayout ==
    ASSUME NEW s, NEW F, NEW h \in Nat, h + 1 \in DOMAIN F, NEW B, NEW N, Layout(s, F, h, B, N),
           NEW t, Texts(t), NEW k, Handles(s, t, F, h + 1, B, N, k)
    PROVE  Layout(t, F, h + 1, B, N)
<1>0. /\ DOMAIN t.text = DOMAIN s.text
      /\ \A o \in DOMAIN s.text : t.text[o].slot = s.text[o].slot /\ t.text[o].label = s.text[o].label
      /\ t.off = s.off /\ t.size = s.size /\ t.chunk = s.chunk
      /\ \A o \in DOMAIN s.text : (k \in DOMAIN B /\ o = s.veneers[k]) \/ t.text[o].op = s.text[o].op
      /\ k \in DOMAIN B =>
            /\ h + 1 \in Served(F, B, N, k) /\ t.veneers = [s.veneers EXCEPT ![k] = @ + 4]
            /\ s.text[s.veneers[k]].slot /\ s.veneers[k] < EndOf(B, N, k)
      /\ k \notin DOMAIN B => t.veneers = s.veneers
  BY DEF Handles
<1>1. /\ s.veneers \in Seq(Nat) /\ DOMAIN s.veneers = DOMAIN B
      /\ DOMAIN B = 1 .. Len(B) /\ Len(B) \in Nat
      /\ \A j \in DOMAIN B :
            /\ B[j] \in Nat /\ N[j] \in Nat /\ s.veneers[j] \in Nat /\ EndOf(B, N, j) = B[j] + 4 * N[j]
  <2>1. Regions(s, F, h, B, N)
    BY DEF Layout
  <2> QED BY <2>1, RegionFacts
<1>2. F \in Seq(Fixups) /\ DOMAIN F = 1 .. Len(F) /\ Len(F) \in Nat
      /\ \A j : Served(F, B, N, j) \in SUBSET (1 .. Len(F))
  <2>1. F \in Seq(Fixups)
    BY DEF Layout, Refs
  <2> QED BY <2>1, RefSets
<1>3. Refs(t, F)
  <2>1. ASSUME NEW i \in DOMAIN F
        PROVE  /\ F[i].off \in DOMAIN t.text
               /\ ~t.text[F[i].off].slot /\ t.text[F[i].off].label = F[i].label
               /\ t.text[F[i].off].op = F[i].kind
    <3>1. F[i].off \in DOMAIN s.text /\ ~s.text[F[i].off].slot
          /\ s.text[F[i].off].label = F[i].label /\ s.text[F[i].off].op = F[i].kind
      BY DEF Layout, Refs
    <3>2. ~(k \in DOMAIN B /\ F[i].off = s.veneers[k])
      BY <1>0, <3>1
    <3> QED BY <1>0, <3>1, <3>2
  <2> QED BY <2>1 DEF Layout, Refs
<1>4. ASSUME NEW j \in DOMAIN B
      PROVE  UpTo(Served(F, B, N, j), h + 1) = UpTo(Served(F, B, N, j), h)
                                               + (IF h + 1 \in Served(F, B, N, j) THEN 1 ELSE 0)
             /\ UpTo(Served(F, B, N, j), h) \in Nat
  <2> DEFINE S == Served(F, B, N, j)
  <2>1. S \in SUBSET (1 .. Len(F)) /\ Len(F) \in Nat /\ h + 1 \in 1 .. Len(F) /\ h \in Int
        /\ (h + 1) - 1 = h
    BY <1>2
  <2> HIDE DEF S
  <2>2. UpTo(S, h) \in Nat /\ UpTo(S, h + 1) = UpTo(S, (h + 1) - 1) + (IF h + 1 \in S THEN 1 ELSE 0)
    <3>1. /\ \A i \in Int : UpTo(S, i) \in Nat
          /\ \A i \in 1 .. Len(F) : UpTo(S, i) = UpTo(S, i - 1) + (IF i \in S THEN 1 ELSE 0)
      BY ONLY <2>1, UpToCounts
    <3> QED BY ONLY <2>1, <3>1
  <2> QED BY <2>1, <2>2 DEF S
<1>5. ASSUME NEW j \in DOMAIN B PROVE Placed(t, F, B, N, j) /\ \E u \in 0 .. N[j] : Used(t, F, h + 1, B, N, j, u)
  <2>1. Placed(s, F, B, N, j)
    BY DEF Layout, Regions
  <2>2. PICK u \in 0 .. N[j] : Used(s, F, h, B, N, j, u)
    BY DEF Layout, Regions
  <2>3. s.veneers[j] = B[j] + 4 * u /\ u <= UpTo(Served(F, B, N, j), h) /\ u \in Nat
    BY <2>2 DEF Used
  <2>4. \A m \in 0 .. N[j] - 1 :
           /\ B[j] + 4 * m \in DOMAIN s.text
           /\ s.text[B[j] + 4 * m].slot /\ s.text[B[j] + 4 * m].label = -1
           /\ m >= u => s.text[B[j] + 4 * m].op = "zero"
    BY <2>2 DEF Used
  <2>5. \A m \in 0 .. N[j] - 1 :
           /\ B[j] + 4 * m \in DOMAIN t.text
           /\ t.text[B[j] + 4 * m].slot /\ t.text[B[j] + 4 * m].label = -1
    BY <1>0, <2>4
  <2>8. Placed(t, F, B, N, j)
    <3>1. t.off = s.off
      BY <1>0
    <3> QED BY <2>1, <3>1 DEF Placed
  <2>6. CASE j # k \/ k \notin DOMAIN B
    <3>1. t.veneers[j] = s.veneers[j]
      BY <1>0, <1>1, <2>6
    <3>2. u <= UpTo(Served(F, B, N, j), h + 1)
      BY <1>4, <2>3
    <3>3. ASSUME NEW m \in 0 .. N[j] - 1, m >= u PROVE t.text[B[j] + 4 * m].op = "zero"
      <4>1. ~(k \in DOMAIN B /\ B[j] + 4 * m = s.veneers[k])
        <5> SUFFICES ASSUME k \in DOMAIN B PROVE B[j] + 4 * m # s.veneers[k]
          OBVIOUS
        <5>1. Regions(s, F, h, B, N) /\ j # k /\ s.veneers[k] < EndOf(B, N, k)
          BY <1>0, <2>6 DEF Layout
        <5> QED BY <5>1, SlotApart
      <4>2. B[j] + 4 * m \in DOMAIN s.text /\ s.text[B[j] + 4 * m].op = "zero"
        BY <2>4, <3>3
      <4> QED BY <1>0, <4>1, <4>2
    <3>4. Used(t, F, h + 1, B, N, j, u)
      BY <2>3, <2>5, <3>1, <3>2, <3>3 DEF Used
    <3> QED BY <2>8, <3>4
  <2>7. CASE j = k /\ k \in DOMAIN B
    <3>1. h + 1 \in Served(F, B, N, j) /\ t.veneers = [s.veneers EXCEPT ![k] = @ + 4]
          /\ s.veneers[j] < EndOf(B, N, j)
      BY <1>0, <2>7
    <3>a. DOMAIN s.veneers = DOMAIN B /\ EndOf(B, N, j) = B[j] + 4 * N[j]
          /\ B[j] \in Nat /\ N[j] \in Nat
      BY <1>1
    <3>2. t.veneers[j] = s.veneers[j] + 4
      BY ONLY <2>7, <3>1, <3>a
    <3>3. t.veneers[j] = B[j] + 4 * (u + 1) /\ u + 1 \in 0 .. N[j]
      BY ONLY <2>3, <3>1, <3>2, <3>a
    <3>4. u + 1 <= UpTo(Served(F, B, N, j), h + 1)
      BY <1>4, <2>3, <3>1
    <3>5. ASSUME NEW m \in 0 .. N[j] - 1, m >= u + 1 PROVE t.text[B[j] + 4 * m].op = "zero"
      <4>1. B[j] + 4 * m # s.veneers[k] /\ m >= u
        BY ONLY <2>3, <2>7, <3>a, <3>5, m \in 0 .. N[j] - 1
      <4>2. B[j] + 4 * m \in DOMAIN s.text /\ s.text[B[j] + 4 * m].op = "zero"
        BY <2>4, <4>1
      <4> QED BY <1>0, <4>1, <4>2
    <3>6. Used(t, F, h + 1, B, N, j, u + 1)
      BY <2>5, <3>3, <3>4, <3>5 DEF Used
    <3> QED BY <2>8, <3>3, <3>6
  <2> QED BY <2>6, <2>7
<1>6. t.veneers \in Seq(Nat) /\ Len(t.veneers) = Len(s.veneers)
  <2>1. CASE k \in DOMAIN B
    <3>1. t.veneers = [s.veneers EXCEPT ![k] = s.veneers[k] + 4] /\ s.veneers[k] + 4 \in Nat
          /\ k \in 1 .. Len(s.veneers)
      <4>1. t.veneers = [s.veneers EXCEPT ![k] = s.veneers[k] + 4]
        BY <1>0, <2>1
      <4>2. s.veneers[k] \in Nat /\ k \in 1 .. Len(s.veneers)
        BY <1>1, <2>1
      <4> QED BY ONLY <4>1, <4>2
    <3> QED BY <1>1, <3>1, ExceptSeq
  <2>2. CASE k \notin DOMAIN B
    BY <1>0, <1>1, <2>2
  <2> QED BY <2>1, <2>2
<1>7. Regions(t, F, h + 1, B, N)
  BY <1>5, <1>6 DEF Layout, Regions
<1>8. OpenNear(t, F, B, N) /\ ServedNear(t, F, B, N)
  BY <1>0 DEF Layout, OpenNear, ServedNear, Small
<1> QED BY <1>3, <1>7, <1>8 DEF Layout

\* The region that lower_bound finds is the one that serves the branch, or
\* the branch is directly behind it and its slots are all used.
LEMMA Serving ==
    ASSUME NEW s, NEW F, NEW h, NEW B, NEW N, Layout(s, F, h, B, N),
           NEW i \in DOMAIN F, F[i].kind # "b", NEW k, k = lower_bound(s.veneers, F[i].off)
    PROVE  \/ k \notin DOMAIN B /\ i \in Open(F, B, N)
           \/ k \in DOMAIN B /\ i \in Served(F, B, N, k)
           \/ k \in DOMAIN B /\ s.veneers[k] = F[i].off /\ EndOf(B, N, k) = F[i].off
<1> DEFINE off == F[i].off
<1>1. /\ s.veneers \in Seq(Nat) /\ DOMAIN s.veneers = DOMAIN B
      /\ DOMAIN B = 1 .. Len(B) /\ Len(B) \in Nat
      /\ \A j \in DOMAIN B :
            /\ B[j] \in Nat /\ N[j] \in Nat /\ N[j] >= 1 /\ s.veneers[j] \in Nat
            /\ EndOf(B, N, j) = B[j] + 4 * N[j]
            /\ B[j] <= s.veneers[j] /\ s.veneers[j] <= EndOf(B, N, j)
      /\ \A a, b \in DOMAIN B : a < b => EndOf(B, N, a) + 4 <= B[b]
  <2>1. Regions(s, F, h, B, N)
    BY DEF Layout
  <2> QED BY <2>1, RegionFacts
<1>2. off \in Nat
  <2>1. F \in Seq(Fixups)
    BY DEF Layout, Refs
  <2> QED BY <2>1, RefSets
<1>3. \A j \in DOMAIN B : off + 8 <= B[j] \/ EndOf(B, N, j) <= off
  BY DEF Layout, Regions, Placed
<1> HIDE DEF off
<1>4. \A a, b \in DOMAIN s.veneers : a < b => s.veneers[a] <= s.veneers[b]
  <2> SUFFICES ASSUME NEW a \in DOMAIN B, NEW b \in DOMAIN B, a < b PROVE s.veneers[a] <= s.veneers[b]
    BY <1>1
  <2>1. EndOf(B, N, a) + 4 <= B[b]
    BY <1>1
  <2>3. s.veneers[a] <= EndOf(B, N, a) /\ B[b] <= s.veneers[b]
    <3>1. \A j \in DOMAIN B : B[j] <= s.veneers[j] /\ s.veneers[j] <= EndOf(B, N, j)
      BY <1>1
    <3> QED BY ONLY <3>1
  <2>2. EndOf(B, N, a) \in Int /\ B[b] \in Int /\ s.veneers[a] \in Int /\ s.veneers[b] \in Int
    <3>1. \A j \in DOMAIN B : B[j] \in Nat /\ N[j] \in Nat /\ s.veneers[j] \in Nat
      BY <1>1
    <3>2. \A j \in DOMAIN B : EndOf(B, N, j) \in Int /\ B[j] \in Int /\ s.veneers[j] \in Int
      BY ONLY <3>1 DEF EndOf
    <3> QED BY ONLY <3>2
  <2> QED BY <2>1, <2>2, <2>3
<1>5. /\ k \in 1 .. Len(s.veneers) + 1
      /\ \A j \in DOMAIN s.veneers : j < k => s.veneers[j] < off
      /\ \A j \in DOMAIN s.veneers : j >= k => s.veneers[j] >= off
  <2>1. k = lower_bound(s.veneers, off)
    BY DEF off
  <2> QED BY <1>1, <1>2, <1>4, <2>1, LowerBound
<1>6. ASSUME NEW j \in DOMAIN B, j < k PROVE EndOf(B, N, j) <= off
  <2>1. s.veneers[j] < off /\ B[j] <= s.veneers[j] /\ B[j] \in Nat /\ s.veneers[j] \in Nat
    BY <1>1, <1>5, <1>6
  <2>2. ~(off + 8 <= B[j])
    BY <1>2, <2>1
  <2> QED BY <1>3, <2>2
<1>7. CASE k \notin DOMAIN B
  <2>1. \A j \in DOMAIN B : j < k
    BY <1>1, <1>5, <1>7
  <2> QED BY <1>6, <1>7, <2>1 DEF Open, off
<1>8. CASE k \in DOMAIN B /\ off + 8 <= B[k]
  <2>1. \A j \in 1 .. k - 1 : j \in DOMAIN B /\ j < k
    BY <1>1, <1>8
  <2>2. off < B[k]
    BY <1>1, <1>2, <1>8
  <2> QED BY <1>6, <1>8, <2>1, <2>2 DEF Served, off
<1>9. CASE k \in DOMAIN B /\ EndOf(B, N, k) <= off
  <2>1. s.veneers[k] >= off /\ s.veneers[k] <= EndOf(B, N, k) /\ s.veneers[k] \in Nat
        /\ EndOf(B, N, k) \in Int
    <3>1. k \in DOMAIN s.veneers /\ k >= k
      BY <1>1, <1>9
    <3> QED BY <1>1, <1>5, <1>9, <3>1
  <2>2. s.veneers[k] = off /\ EndOf(B, N, k) = off
    BY <1>2, <1>9, <2>1
  <2> QED BY <1>9, <2>2 DEF off
<1> QED BY <1>3, <1>7, <1>8, <1>9

\* Writing the destination of a branch.
DestWritten(s, t, o, d) ==
    /\ DOMAIN t = Fields /\ \A x \in Fields \ {"text"} : t[x] = s[x]
    /\ DOMAIN t.text = DOMAIN s.text /\ \A p \in DOMAIN s.text : p # o => t.text[p] = s.text[p]
    /\ t.text[o] \in Inst /\ t.text[o].dest = d
    /\ t.text[o].op = s.text[o].op /\ t.text[o].slot = s.text[o].slot
    /\ t.text[o].label = s.text[o].label

\* An EXCEPT does that.
LEMMA DestIs ==
    ASSUME NEW s, DOMAIN s = Fields, NEW o \in DOMAIN s.text, s.text[o] \in Inst, NEW d \in Int,
           NEW t, t = [s EXCEPT !.text[o].dest = d]
    PROVE  DestWritten(s, t, o, d)
<1> DEFINE b == [s.text[o] EXCEPT !.dest = d]
           x == [s.text EXCEPT ![o] = b]
<1>1. b \in Inst /\ b.dest = d /\ b.op = s.text[o].op /\ b.slot = s.text[o].slot /\ b.label = s.text[o].label
  BY DEF Inst
<1>2. t = [s EXCEPT !.text = x]
  OBVIOUS
<1>3. DOMAIN x = DOMAIN s.text /\ x[o] = b /\ \A p \in DOMAIN s.text : p # o => x[p] = s.text[p]
  <2> HIDE DEF b
  <2> QED OBVIOUS
<1> HIDE DEF x, b
<1>4. DOMAIN t = Fields /\ t.text = x /\ \A y \in Fields \ {"text"} : t[y] = s[y]
  BY <1>2 DEF Fields
<1> QED BY <1>1, <1>3, <1>4 DEF DestWritten

\* Writing a veneer.
SlotWritten(s, t, o, d, k) ==
    /\ DOMAIN t = Fields /\ \A x \in Fields \ {"text", "veneers"} : t[x] = s[x]
    /\ DOMAIN t.text = DOMAIN s.text /\ \A p \in DOMAIN s.text : p # o => t.text[p] = s.text[p]
    /\ t.text[o] \in Inst /\ t.text[o].op = "b" /\ t.text[o].dest = d
    /\ t.text[o].slot = s.text[o].slot /\ t.text[o].label = s.text[o].label
    /\ t.veneers = [s.veneers EXCEPT ![k] = @ + 4]

\* An EXCEPT does that, too.
LEMMA SlotIs ==
    ASSUME NEW s, DOMAIN s = Fields, NEW o \in DOMAIN s.text, s.text[o] \in Inst, NEW d \in Int,
           NEW k \in DOMAIN s.veneers,
           NEW t, t = [s EXCEPT !.text[o].op = "b", !.text[o].dest = d, !.veneers[k] = @ + 4]
    PROVE  SlotWritten(s, t, o, d, k)
<1> DEFINE b == [s.text[o] EXCEPT !.op = "b"]
           x == [s.text EXCEPT ![o] = b]
           u == [s EXCEPT !.text = x]
           v == [u EXCEPT !.text[o].dest = d]
<1>1. b \in Inst /\ b.op = "b" /\ b.slot = s.text[o].slot /\ b.label = s.text[o].label
  BY DEF Inst
<1>2. DOMAIN x = DOMAIN s.text /\ x[o] = b /\ \A p \in DOMAIN s.text : p # o => x[p] = s.text[p]
  <2> HIDE DEF b
  <2> QED OBVIOUS
<1>3. DOMAIN u = Fields /\ u.text = x /\ \A y \in Fields \ {"text"} : u[y] = s[y]
  <2> HIDE DEF x
  <2> QED BY DEF Fields
<1>4. t = [v EXCEPT !.veneers = [v.veneers EXCEPT ![k] = @ + 4]]
  OBVIOUS
<1>5. /\ DOMAIN v = Fields /\ \A y \in Fields \ {"text"} : v[y] = u[y]
      /\ DOMAIN v.text = DOMAIN u.text /\ \A p \in DOMAIN u.text : p # o => v.text[p] = u.text[p]
      /\ v.text[o] \in Inst /\ v.text[o].dest = d
      /\ v.text[o].op = u.text[o].op /\ v.text[o].slot = u.text[o].slot
      /\ v.text[o].label = u.text[o].label
  <2>1. o \in DOMAIN u.text /\ u.text[o] \in Inst
    <3> HIDE DEF u, x, b
    <3> QED BY <1>1, <1>2, <1>3
  <2>2. v = [u EXCEPT !.text[o].dest = d]
    OBVIOUS
  <2> HIDE DEF u, v
  <2>3. DOMAIN u = Fields
    BY <1>3
  <2>4. DestWritten(u, v, o, d)
    BY ONLY <2>1, <2>2, <2>3, d \in Int, DestIs
  <2> QED BY <2>4 DEF DestWritten
<1> HIDE DEF v, u, x, b
<1>6. /\ DOMAIN t = Fields /\ \A y \in Fields \ {"veneers"} : t[y] = v[y]
      /\ t.veneers = [v.veneers EXCEPT ![k] = @ + 4]
  BY <1>4, <1>5 DEF Fields, WriterFields
<1>7. t.text = v.text /\ v.veneers = s.veneers
  BY <1>3, <1>5, <1>6 DEF Fields, WriterFields
<1> QED BY <1>1, <1>2, <1>3, <1>5, <1>6, <1>7 DEF SlotWritten

\* One turn of handle_fixups for reference i, to a label at l: its branch goes
\* to the label or to a slot that does, unless it cannot reach it and more
\* memory was reserved at a time than Small allows.  A slot that was zero may
\* be written; everything else stays.
Turned(s, t, F, i, l) ==
    /\ DOMAIN t.text = DOMAIN s.text
    /\ \A o \in DOMAIN s.text : t.text[o].slot = s.text[o].slot /\ t.text[o].label = s.text[o].label
    /\ \A o \in DOMAIN s.text : o # F[i].off /\ s.text[o].op # "zero" => t.text[o] = s.text[o]
    /\ \A o \in DOMAIN s.text : o # F[i].off /\ s.text[o].label # -1 => t.text[o] = s.text[o]
    /\ t.text[F[i].off].op = s.text[F[i].off].op
    /\ \/ t.text[F[i].off].dest = l
       \/ t.text[F[i].off].dest = -1 /\ ~Small(s)
       \/ \E d \in DOMAIN t.text : /\ t.text[F[i].off].dest = d /\ t.text[d].slot
                                   /\ t.text[d].op = "b" /\ t.text[d].dest = l

\* A slot o of region k that is free, within reach of branch i if Small.
Free(s, F, i, B, N, k, o) ==
    /\ o \in DOMAIN s.text /\ s.text[o].slot /\ s.text[o].label = -1 /\ s.text[o].op = "zero"
    /\ o \in Nat /\ o < EndOf(B, N, k) /\ k \in Nat /\ k \in DOMAIN s.veneers
    /\ Small(s) => o < F[i].off + Reach(F[i].kind)

\* The region that serves a branch has one left when it is handled.
LEMMA FreeSlot ==
    ASSUME NEW s, NEW F, NEW h \in Nat, h + 1 \in DOMAIN F, NEW B, NEW N, Layout(s, F, h, B, N),
           NEW k \in DOMAIN B, h + 1 \in Served(F, B, N, k), NEW o, o = s.veneers[k]
    PROVE  Free(s, F, h + 1, B, N, k, o)
<1> DEFINE S == Served(F, B, N, k)
<1>1. /\ k \in Nat /\ B[k] \in Nat /\ N[k] \in Nat /\ EndOf(B, N, k) = B[k] + 4 * N[k] /\ o \in Nat
      /\ k \in DOMAIN s.veneers
  <2>1. Regions(s, F, h, B, N)
    BY DEF Layout
  <2>2. k \in DOMAIN s.veneers /\ DOMAIN B = 1 .. Len(B) /\ Len(B) \in Nat
    BY <2>1, RegionFacts
  <2>3. B[k] \in Nat /\ N[k] \in Nat /\ EndOf(B, N, k) = B[k] + 4 * N[k] /\ s.veneers[k] \in Nat
    BY <2>1, RegionFacts
  <2> QED BY <2>2, <2>3
<1>2. PICK u \in 0 .. N[k] : Used(s, F, h, B, N, k, u)
  BY DEF Layout, Regions
<1>3. o = B[k] + 4 * u /\ u <= UpTo(S, h) /\ u \in Nat /\ N[k] = Cardinality(S)
  BY <1>2 DEF Used, Layout, Regions, Placed
<1>4. F \in Seq(Fixups)
  BY DEF Layout, Refs
<1>5. S \in SUBSET (1 .. Len(F)) /\ Len(F) \in Nat /\ h + 1 \in S /\ h + 1 \in 1 .. Len(F)
      /\ F[h + 1].off \in Nat
  BY <1>4, RefSets
<1> HIDE DEF S
<1>6. UpTo(S, h) < N[k] /\ UpTo(S, h) \in Nat /\ UpTo(S, h + 1) = UpTo(S, h) + 1
  <2>1. h \in Int /\ (h + 1) - 1 = h /\ h + 1 \in Int
    OBVIOUS
  <2>2. /\ \A i \in S : UpTo(S, i - 1) < Cardinality(S)
        /\ \A i \in Int : UpTo(S, i) \in Nat
        /\ \A i \in 1 .. Len(F) : UpTo(S, i) = UpTo(S, i - 1) + (IF i \in S THEN 1 ELSE 0)
    BY ONLY <1>5, UpToCounts
  <2>3. UpTo(S, (h + 1) - 1) < Cardinality(S)
    BY <1>5, <2>2
  <2>4. UpTo(S, h + 1) = UpTo(S, (h + 1) - 1) + 1
    BY <1>5, <2>2
  <2> QED BY <1>3, <2>1, <2>2, <2>3, <2>4
<1>7. u \in 0 .. N[k] - 1
  BY <1>1, <1>3, <1>6
<1>8. B[k] + 4 * u \in DOMAIN s.text /\ s.text[B[k] + 4 * u].slot /\ s.text[B[k] + 4 * u].label = -1
      /\ s.text[B[k] + 4 * u].op = "zero"
  <2>1. u >= u
    BY <1>3
  <2> QED BY <1>2, <1>7, <2>1 DEF Used
<1>9. o < EndOf(B, N, k)
  BY <1>1, <1>3, <1>7
<1>10. ASSUME Small(s) PROVE o < F[h + 1].off + Reach(F[h + 1].kind)
  <2>1. B[k] + 4 * UpTo(S, h + 1) < F[h + 1].off + Reach(F[h + 1].kind) + 4
    BY <1>5, <1>10 DEF Layout, ServedNear, S
  <2>2. Reach(F[h + 1].kind) \in Int
    BY WriterAssumption DEF Reach
  <2>3. \A b, v, w, x, r \in Int : /\ b + 4 * (w + 1) < x + r + 4 /\ v <= w
                                   => b + 4 * v < x + r
    OBVIOUS
  <2>4. B[k] + 4 * (UpTo(S, h) + 1) < F[h + 1].off + Reach(F[h + 1].kind) + 4
    BY <1>6, <2>1
  <2>5. /\ B[k] \in Int /\ u \in Int /\ UpTo(S, h) \in Int /\ F[h + 1].off \in Int
        /\ u <= UpTo(S, h)
    BY <1>1, <1>3, <1>5, <1>6
  <2>6. B[k] + 4 * u < F[h + 1].off + Reach(F[h + 1].kind)
    BY ONLY <2>2, <2>3, <2>4, <2>5
  <2> QED BY <1>3, <2>6
<1> QED BY <1>1, <1>3, <1>8, <1>9, <1>10 DEF Free

\* A branch that is patched alone.
LEMMA DirectTurn ==
    ASSUME NEW s, DOMAIN s = Fields, NEW F, NEW h \in Nat, h + 1 \in DOMAIN F, NEW B, NEW N,
           Layout(s, F, h, B, N), NEW l \in Int, NEW d \in Int, d = l \/ (d = -1 /\ ~Small(s)),
           NEW t, t = [s EXCEPT !.text[F[h + 1].off].dest = d]
    PROVE  Layout(t, F, h + 1, B, N) /\ Turned(s, t, F, h + 1, l) /\ t.failed = s.failed
<1> DEFINE o == F[h + 1].off
<1>1. /\ o \in DOMAIN s.text /\ s.text[o] \in Inst /\ Texts(s)
      /\ \A p \in DOMAIN s.text : p \in Nat /\ p + 4 <= s.off /\ s.text[p] \in Inst
  BY DEF Layout, Refs, Texts
<1>2. t = [s EXCEPT !.text[o].dest = d]
  OBVIOUS
<1> HIDE DEF o
<1>3. /\ DOMAIN t = Fields /\ \A x \in Fields \ {"text"} : t[x] = s[x]
      /\ DOMAIN t.text = DOMAIN s.text /\ \A p \in DOMAIN s.text : p # o => t.text[p] = s.text[p]
      /\ t.text[o] \in Inst /\ t.text[o].dest = d
      /\ t.text[o].op = s.text[o].op /\ t.text[o].slot = s.text[o].slot
      /\ t.text[o].label = s.text[o].label
  BY <1>1, <1>2, DestIs DEF DestWritten
<1>4. /\ t.off = s.off /\ t.size = s.size /\ t.chunk = s.chunk /\ t.veneers = s.veneers
      /\ t.failed = s.failed
  BY <1>3 DEF Fields, WriterFields
<1>5. Texts(t)
  BY <1>1, <1>3, <1>4 DEF Texts
<1>6. \A p \in DOMAIN s.text : /\ t.text[p].slot = s.text[p].slot /\ t.text[p].label = s.text[p].label
                               /\ t.text[p].op = s.text[p].op
  BY <1>3
<1>7. 0 \notin DOMAIN B
  <2>1. Regions(s, F, h, B, N)
    BY DEF Layout
  <2>2. DOMAIN B = 1 .. Len(B) /\ Len(B) \in Nat
    BY <2>1, RegionFacts
  <2> QED BY <2>2
<1>8. Layout(t, F, h + 1, B, N)
  <2>1. /\ DOMAIN t.text = DOMAIN s.text
        /\ \A p \in DOMAIN s.text : t.text[p].slot = s.text[p].slot /\ t.text[p].label = s.text[p].label
        /\ \A p \in DOMAIN s.text : (0 \in DOMAIN B /\ p = s.veneers[0]) \/ t.text[p].op = s.text[p].op
    BY <1>3, <1>6
  <2>2. Handles(s, t, F, h + 1, B, N, 0)
    BY <1>4, <1>7, <2>1 DEF Handles
  <2> QED BY <1>5, <2>2, TurnLayout
<1>9. Turned(s, t, F, h + 1, l)
  BY <1>3, <1>6 DEF Turned, o
<1> QED BY <1>4, <1>8, <1>9

\* The next slot of region k is filled with a branch to l.
Filled(s, k, l) ==
    [s EXCEPT !.text[s.veneers[k]].op = "b", !.text[s.veneers[k]].dest = l, !.veneers[k] = @ + 4]

\* A branch that goes through a veneer.
LEMMA SlotTurn ==
    ASSUME NEW s, DOMAIN s = Fields, NEW F, NEW h \in Nat, h + 1 \in DOMAIN F, NEW B, NEW N,
           Layout(s, F, h, B, N), NEW l \in Int,
           NEW k \in DOMAIN B, h + 1 \in Served(F, B, N, k),
           NEW t, t = Patch(Filled(s, k, l), F[h + 1], s.veneers[k] - F[h + 1].off)
    PROVE  Layout(t, F, h + 1, B, N) /\ Turned(s, t, F, h + 1, l) /\ t.failed = s.failed
<1> DEFINE o == s.veneers[k]
           v == Filled(s, k, l)
           b == F[h + 1].off
           d == IF o - b < Reach(F[h + 1].kind) THEN b + (o - b) ELSE -1
<1>1. /\ o \in DOMAIN s.text /\ s.text[o].slot /\ s.text[o].label = -1 /\ s.text[o].op = "zero"
      /\ o \in Nat /\ o < EndOf(B, N, k) /\ k \in Nat /\ k \in DOMAIN s.veneers
      /\ Small(s) => o < b + Reach(F[h + 1].kind)
  <2>1. Free(s, F, h + 1, B, N, k, o)
    BY FreeSlot
  <2> QED BY <2>1 DEF Free
<1>2. /\ b \in DOMAIN s.text /\ ~s.text[b].slot /\ Texts(s) /\ b \in Nat
      /\ \A p \in DOMAIN s.text : p \in Nat /\ p + 4 <= s.off /\ s.text[p] \in Inst
  BY DEF Layout, Refs, Texts
<1>3. d \in Int /\ (d = o \/ (d = -1 /\ ~Small(s)))
  <2>1. Reach(F[h + 1].kind) \in Int
    BY WriterAssumption DEF Reach
  <2> HIDE DEF b
  <2>2. o - b < Reach(F[h + 1].kind) => b + (o - b) = o
    BY <1>1, <1>2
  <2>3. ~(o - b < Reach(F[h + 1].kind)) => ~Small(s)
    BY <1>1, <1>2, <2>1
  <2> QED BY <1>1, <2>2, <2>3
<1>4. t = [v EXCEPT !.text[b].dest = d]
  BY DEF Patch
<1>5. o # b
  BY <1>1, <1>2
<1>v. o = s.veneers[k] /\ v = [s EXCEPT !.text[o].op = "b", !.text[o].dest = l, !.veneers[k] = @ + 4]
  BY DEF Filled
<1> HIDE DEF b, d, o, v
<1>6. /\ DOMAIN v = Fields /\ \A x \in Fields \ {"text", "veneers"} : v[x] = s[x]
      /\ DOMAIN v.text = DOMAIN s.text /\ \A p \in DOMAIN s.text : p # o => v.text[p] = s.text[p]
      /\ v.text[o] \in Inst /\ v.text[o].op = "b" /\ v.text[o].dest = l
      /\ v.text[o].slot = s.text[o].slot /\ v.text[o].label = s.text[o].label
      /\ v.veneers = [s.veneers EXCEPT ![k] = @ + 4]
  <2>1. s.text[o] \in Inst
    BY <1>1, <1>2
  <2>2. SlotWritten(s, v, o, l, k)
    BY <1>1, <1>v, <2>1, SlotIs
  <2> QED BY <2>2 DEF SlotWritten
<1>7. b \in DOMAIN v.text /\ v.text[b] = s.text[b] /\ v.text[b] \in Inst
  BY <1>2, <1>5, <1>6
<1>8. /\ DOMAIN t = Fields /\ \A x \in Fields \ {"text"} : t[x] = v[x]
      /\ DOMAIN t.text = DOMAIN v.text /\ \A p \in DOMAIN v.text : p # b => t.text[p] = v.text[p]
      /\ t.text[b] \in Inst /\ t.text[b].dest = d
      /\ t.text[b].op = v.text[b].op /\ t.text[b].slot = v.text[b].slot
      /\ t.text[b].label = v.text[b].label
  <2>1. DOMAIN v = Fields
    BY <1>6
  <2>2. DestWritten(v, t, b, d)
    BY ONLY <1>3, <1>4, <1>7, <2>1, DestIs
  <2> QED BY <2>2 DEF DestWritten
<1>9. /\ t.off = s.off /\ t.size = s.size /\ t.chunk = s.chunk /\ t.failed = s.failed
      /\ t.veneers = [s.veneers EXCEPT ![k] = @ + 4]
  <2>1. /\ t.off = v.off /\ t.size = v.size /\ t.chunk = v.chunk /\ t.failed = v.failed
        /\ t.veneers = v.veneers
    <3>1. \A x \in Fields \ {"text"} : t[x] = v[x]
      BY <1>8
    <3> QED BY ONLY <3>1 DEF Fields, WriterFields
  <2>2. v.off = s.off /\ v.size = s.size /\ v.chunk = s.chunk /\ v.failed = s.failed
    <3>1. \A x \in Fields \ {"text", "veneers"} : v[x] = s[x]
      BY <1>6
    <3> QED BY ONLY <3>1 DEF Fields, WriterFields
  <2> QED BY <1>6, <2>1, <2>2
<1>10. ASSUME NEW p \in DOMAIN s.text
       PROVE  /\ t.text[p] \in Inst /\ t.text[p].slot = s.text[p].slot /\ t.text[p].label = s.text[p].label
              /\ p # o => t.text[p].op = s.text[p].op
              /\ p # b /\ p # o => t.text[p] = s.text[p]
  <2>1. CASE p = b
    BY ONLY <1>5, <1>7, <1>8, <2>1
  <2>2. CASE p = o
    <3>1. t.text[o] = v.text[o]
      BY ONLY <1>1, <1>5, <1>6, <1>8, <2>2
    <3> QED BY ONLY <1>6, <2>2, <3>1
  <2>3. CASE p # b /\ p # o
    <3>1. t.text[p] = v.text[p] /\ v.text[p] = s.text[p]
      BY <1>6, <1>8, <2>3
    <3> QED BY <1>2, <2>3, <3>1
  <2> QED BY <2>1, <2>2, <2>3
<1>11. DOMAIN t.text = DOMAIN s.text
  BY <1>6, <1>8
<1>12. Texts(t)
  BY <1>2, <1>9, <1>10, <1>11 DEF Texts
<1>13. Layout(t, F, h + 1, B, N)
  <2>1. \A p \in DOMAIN s.text : (k \in DOMAIN B /\ p = s.veneers[k]) \/ t.text[p].op = s.text[p].op
    BY <1>10, <1>v
  <2>2. \A p \in DOMAIN s.text : t.text[p].slot = s.text[p].slot /\ t.text[p].label = s.text[p].label
    BY <1>10
  <2>3. /\ h + 1 \in Served(F, B, N, k) /\ t.veneers = [s.veneers EXCEPT ![k] = @ + 4]
        /\ s.text[s.veneers[k]].slot /\ s.veneers[k] < EndOf(B, N, k)
    BY <1>1, <1>9, <1>v
  <2>4. Handles(s, t, F, h + 1, B, N, k)
    BY ONLY <1>9, <1>11, <2>1, <2>2, <2>3, k \in DOMAIN B DEF Handles
  <2>5. h \in Nat /\ h + 1 \in DOMAIN F /\ Layout(s, F, h, B, N)
    OBVIOUS
  <2> QED BY ONLY <1>12, <2>4, <2>5, TurnLayout
<1>14. Turned(s, t, F, h + 1, l)
  <2>1. \A p \in DOMAIN s.text : t.text[p].slot = s.text[p].slot /\ t.text[p].label = s.text[p].label
    BY <1>10
  <2>2. \A p \in DOMAIN s.text : p # b /\ s.text[p].op # "zero" => t.text[p] = s.text[p]
    BY <1>1, <1>10
  <2>3. \A p \in DOMAIN s.text : p # b /\ s.text[p].label # -1 => t.text[p] = s.text[p]
    BY <1>1, <1>10
  <2>4. t.text[b].op = s.text[b].op
    BY <1>7, <1>8
  <2>5. o \in DOMAIN t.text /\ t.text[o].slot /\ t.text[o].op = "b" /\ t.text[o].dest = l
    <3>1. t.text[o] = v.text[o]
      BY ONLY <1>1, <1>5, <1>6, <1>8
    <3> QED BY ONLY <1>1, <1>6, <1>11, <3>1
  <2>6. \/ t.text[b].dest = -1 /\ ~Small(s)
        \/ \E x \in DOMAIN t.text : t.text[b].dest = x /\ t.text[x].slot /\ t.text[x].op = "b" /\ t.text[x].dest = l
    BY <1>3, <1>8, <2>5
  <2> QED BY <1>11, <2>1, <2>2, <2>3, <2>4, <2>6 DEF Turned, b
<1> QED BY <1>9, <1>13, <1>14

\* The turn, or the assertion that stops it: a region is missing only if not
\* Small, and a veneer would overwrite something only directly behind a region.
FixResult(s, t, F, i, l, B, N) ==
    \/ t.failed = "none" /\ Layout(t, F, i, B, N) /\ Turned(s, t, F, i, l)
    \/ /\ t.failed # "none" /\ t.text = s.text
       /\ t.failed = "missing" => ~Small(s)
       /\ t.failed = "overwriting" => F[i].off - 4 \in DOMAIN s.text /\ s.text[F[i].off - 4].slot

\* fix_condbr does that for a conditional branch.
LEMMA CondTurn ==
    ASSUME NEW s, DOMAIN s = Fields, s.failed = "none", s.size \in Nat,
           NEW F, NEW h \in Nat, h + 1 \in DOMAIN F, NEW B, NEW N, Layout(s, F, h, B, N),
           F[h + 1].kind # "b", NEW l \in Nat, l <= s.size, l = label_offsets[F[h + 1].label],
           NEW t, t = fix_condbr(s, F[h + 1])
    PROVE  FixResult(s, t, F, h + 1, l, B, N)
<1> DEFINE f == F[h + 1]
           b == f.off
           k == lower_bound(s.veneers, b)
           o == s.veneers[k]
<1>1. b \in Nat /\ b \in DOMAIN s.text /\ ~s.text[b].slot /\ s.text[b].op = f.kind /\ F \in Seq(Fixups)
      /\ f.kind \in {"cond", "test"} /\ Reach(f.kind) \in Nat
  <2>1. F \in Seq(Fixups)
    BY DEF Layout, Refs
  <2>2. b \in Nat /\ f.kind \in {"b", "cond", "test"}
    BY <2>1, RefSets
  <2> QED BY <2>1, <2>2, WriterAssumption DEF Layout, Refs, Reach
<1>2. /\ DOMAIN s.veneers = DOMAIN B
      /\ \A j \in DOMAIN B : /\ B[j] \in Nat /\ N[j] \in Nat /\ N[j] >= 1
                             /\ EndOf(B, N, j) = B[j] + 4 * N[j]
  <2>1. Regions(s, F, h, B, N)
    BY DEF Layout
  <2> QED BY <2>1, RegionFacts
<1>3. CASE l - b < Reach(f.kind)
  <2>1. t = Patch(s, f, l - b)
    BY <1>3 DEF fix_condbr
  <2>2. b + (l - b) = l
    <3> HIDE DEF b
    <3> QED BY <1>1
  <2>3. t = [s EXCEPT !.text[F[h + 1].off].dest = l]
    BY <1>3, <2>1, <2>2 DEF Patch
  <2>4. Layout(t, F, h + 1, B, N) /\ Turned(s, t, F, h + 1, l) /\ t.failed = s.failed
    BY <2>3, DirectTurn
  <2> QED BY <2>4 DEF FixResult
<1>4. CASE ~(l - b < Reach(f.kind))
  <2>0. \/ k \notin DOMAIN B /\ h + 1 \in Open(F, B, N)
        \/ k \in DOMAIN B /\ h + 1 \in Served(F, B, N, k)
        \/ k \in DOMAIN B /\ s.veneers[k] = b /\ EndOf(B, N, k) = b
    BY Serving
  <2>1. CASE k \notin DOMAIN B /\ h + 1 \in Open(F, B, N)
    <3>1. t = [s EXCEPT !.failed = "missing"]
      BY <1>2, <1>4, <2>1 DEF fix_condbr
    <3>2. t.failed = "missing" /\ t.text = s.text
      BY <3>1 DEF Fields, WriterFields
    <3>3. ASSUME Small(s) PROVE FALSE
      <4> DEFINE S == Open(F, B, N)
      <4>1. s.size + 4 * UpTo(S, h + 1) < b + Reach(f.kind)
        BY <2>1, <3>3 DEF Layout, OpenNear
      <4>2. S \in SUBSET (1 .. Len(F)) /\ Len(F) \in Nat /\ h + 1 \in Int
        BY <1>1, RefSets
      <4> HIDE DEF S, b
      <4>3. UpTo(S, h + 1) \in Nat
        BY ONLY <4>2, UpToCounts
      <4> QED BY <1>1, <1>4, <4>1, <4>3
    <3> QED BY <3>2, <3>3 DEF FixResult
  <2>2. CASE k \in DOMAIN B /\ h + 1 \in Served(F, B, N, k)
    <3>1. o \in DOMAIN s.text /\ s.text[o].op = "zero"
      <4> HIDE DEF k
      <4>1. Free(s, F, h + 1, B, N, k, o)
        BY <2>2, FreeSlot
      <4> QED BY <4>1 DEF Free
    <3>2. t = Patch(Filled(s, k, l), f, o - b)
      BY <1>2, <1>4, <2>2, <3>1 DEF fix_condbr, Filled
    <3>3. Layout(t, F, h + 1, B, N) /\ Turned(s, t, F, h + 1, l) /\ t.failed = s.failed
      <4> HIDE DEF k
      <4>1. k \in DOMAIN B /\ h + 1 \in Served(F, B, N, k)
            /\ t = Patch(Filled(s, k, l), F[h + 1], s.veneers[k] - F[h + 1].off)
        BY <2>2, <3>2
      <4> QED BY <4>1, SlotTurn
    <3> QED BY <3>3 DEF FixResult
  <2>3. CASE k \in DOMAIN B /\ s.veneers[k] = b /\ EndOf(B, N, k) = b
    <3>1. s.text[o].op # "zero"
      BY <1>1, <2>3
    <3>2. t = [s EXCEPT !.failed = "overwriting"]
      BY <1>2, <1>4, <2>3, <3>1 DEF fix_condbr
    <3>3. t.failed = "overwriting" /\ t.text = s.text
      BY <3>2 DEF Fields, WriterFields
    <3>4. b - 4 \in DOMAIN s.text /\ s.text[b - 4].slot
      <4> HIDE DEF k, b
      <4>1. PICK u \in 0 .. N[k] : Used(s, F, h, B, N, k, u)
        BY <2>3 DEF Layout, Regions
      <4>2. N[k] - 1 \in 0 .. N[k] - 1 /\ B[k] + 4 * (N[k] - 1) = b - 4
        <5>1. B[k] \in Nat /\ N[k] \in Nat /\ N[k] >= 1 /\ EndOf(B, N, k) = B[k] + 4 * N[k]
          BY <1>2, <2>3
        <5>2. EndOf(B, N, k) = b
          BY <2>3
        <5> QED BY ONLY <5>1, <5>2
      <4>3. B[k] + 4 * (N[k] - 1) \in DOMAIN s.text /\ s.text[B[k] + 4 * (N[k] - 1)].slot
        BY <4>1, <4>2 DEF Used
      <4> QED BY <4>2, <4>3
    <3> QED BY <3>3, <3>4 DEF FixResult
  <2> QED BY <2>0, <2>1, <2>2, <2>3
<1> QED BY <1>3, <1>4

\* One turn of handle_fixups' loop.
LEMMA FixTurn ==
    ASSUME NEW s, DOMAIN s = Fields, s.failed = "none", s.size \in Nat,
           NEW F, NEW h \in Nat, h + 1 \in DOMAIN F, NEW B, NEW N, Layout(s, F, h, B, N),
           NEW l \in Nat, l <= s.size, l = label_offsets[F[h + 1].label],
           NEW t, t = Fix(s, F[h + 1])
    PROVE  FixResult(s, t, F, h + 1, l, B, N)
<1> DEFINE f == F[h + 1]
           u == Uncounted(s, f)
<1>1. f.kind \in {"b", "cond", "test"}
  <2>1. F \in Seq(Fixups)
    BY DEF Layout, Refs
  <2> QED BY <2>1, RefSets
<1>2. CASE f.kind = "b"
  <2>1. t = [s EXCEPT !.text[F[h + 1].off].dest = l]
    BY <1>2 DEF Fix
  <2>2. Layout(t, F, h + 1, B, N) /\ Turned(s, t, F, h + 1, l) /\ t.failed = s.failed
    BY <2>1, DirectTurn
  <2> QED BY <2>2 DEF FixResult
<1>3. CASE f.kind # "b"
  <2>1. t = IF u.failed # "none" THEN u ELSE fix_condbr(u, f)
    BY <1>3 DEF Fix
  <2>2. /\ DOMAIN u = Fields /\ u.text = s.text /\ u.off = s.off /\ u.size = s.size
        /\ u.chunk = s.chunk /\ u.veneers = s.veneers /\ u.failed \in {"none", "count"}
    <3> HIDE DEF f
    <3>1. f.kind \in {"cond", "test"}
      BY <1>1, <1>3
    <3> QED BY <3>1 DEF Uncounted, Fields, WriterFields
  <2> HIDE DEF u
  <2>3. CASE u.failed # "none"
    <3>1. t.failed = "count" /\ t.text = s.text
      BY <2>1, <2>2, <2>3
    <3> QED BY <3>1 DEF FixResult
  <2>4. CASE u.failed = "none"
    <3>1. t = fix_condbr(u, F[h + 1]) /\ DOMAIN u = Fields /\ u.size \in Nat /\ l <= u.size
      BY <2>1, <2>2, <2>4
    <3>2. Layout(u, F, h, B, N)
      BY <2>2, SameLayout
    <3>3. FixResult(u, t, F, h + 1, l, B, N)
      BY <1>3, <2>4, <3>1, <3>2, CondTurn
    <3>4. Turned(u, t, F, h + 1, l) => Turned(s, t, F, h + 1, l)
      BY <2>2 DEF Turned, Small
    <3>5. Small(u) <=> Small(s)
      BY ONLY <2>2 DEF Small
    <3> QED BY <2>2, <3>3, <3>4, <3>5 DEF FixResult
  <2> QED BY <2>3, <2>4
<1> QED BY <1>2, <1>3
----------------------------------------------------------------------------
(***************************************************************************)
(* Branches lead to their labels, and veneers suffice, for every reach of  *)
(* the branches and every number of them.  A branch that has a label goes  *)
(* to it when it is written, or waits for its reference to be handled.     *)
(***************************************************************************)
Labels_right ==
    /\ DOMAIN label_offsets \subseteq Labels
    /\ \A l \in DOMAIN label_offsets : label_offsets[l] \in Nat /\ label_offsets[l] <= wr.off

Reached(o) ==
    text[o].dest # -1 => FarBehindRegion(o) \/ (text[o].label \in DOMAIN label_offsets /\ Leads(o))

\* If Small, the reference is among those that are still to be handled.
Pending(o) ==
    text[o].dest = -1 => \E i \in DOMAIN label_fixups :
                            label_fixups[i].off = o /\ (Small(wr) => i > handled)

LayoutInv ==
    /\ WriterInv /\ Texts(Writer) /\ Labels_right
    /\ phase \in {"idle", "emit", "fixups", "fatal", "assert"}
    /\ \A o \in DOMAIN text : text[o].label # -1 => Reached(o)
    /\ phase \in {"emit", "fixups"} =>
          failed = "none" /\ \A o \in DOMAIN text : text[o].label # -1 => Pending(o)
    /\ phase = "emit" => Laid(Writer, label_fixups)
    /\ phase = "fixups" =>
          /\ \A k \in DOMAIN label_fixups : label_fixups[k].label \in DOMAIN label_offsets
          /\ \E B, N : Layout(Writer, label_fixups, handled, B, N)
    /\ phase = "idle" =>
          failed = "none" /\ (Small(wr) => \A o \in DOMAIN text : text[o].label # -1 => text[o].dest # -1)
    /\ phase = "fatal" => failed = "none"
    /\ phase = "assert" => (failed = "missing" => ~Small(wr)) /\ OverwritesOnlyBehind

\* What a step makes of the writer.
LEMMA WriterIs ==
    ASSUME NEW s, Become(s)
    PROVE  /\ Writer'.text = s.text /\ text' = s.text
           /\ \A x \in WriterFields : Writer'[x] = s[x] /\ wr'[x] = s[x]
BY DEF Become, Writer, WriterFields

\* A writer with the same fields is laid out alike.
LEMMA SameLaid ==
    ASSUME NEW s, NEW t, t.text = s.text, \A x \in WriterFields : t[x] = s[x], NEW F, Laid(s, F)
    PROVE  Laid(t, F)
<1>1. /\ t.off = s.off /\ t.veneers = s.veneers /\ t.size = s.size /\ t.chunk = s.chunk
      /\ t.test = s.test /\ t.cond = s.cond
  BY DEF WriterFields
<1>2. PICK B, N : Layout(s, F, 0, B, N) /\ Counts(s, F, B, N)
  BY DEF Laid
<1>3. Layout(t, F, 0, B, N)
  BY <1>1, <1>2, SameLayout
<1>4. Counts(t, F, B, N)
  BY <1>1, <1>2 DEF Counts
<1>5. t.size - t.off <= t.chunk
  BY <1>1 DEF Laid
<1> QED BY <1>3, <1>4, <1>5 DEF Laid

\* A function under way is extended by text whose branches go to their labels
\* or have a reference.
LEMMA EmitStep ==
    ASSUME LayoutInv, WriterInv', phase = "emit", phase' = "emit", failed' = failed, handled' = 0,
           label_offsets' = label_offsets,
           NEW t, Room(t), Become(t), Texts(t), Kept(Writer, t), t.off >= wr.off, t.chunk >= wr.chunk,
           Laid(t, label_fixups'),
           \A i \in DOMAIN label_fixups : i \in DOMAIN label_fixups' /\ label_fixups'[i] = label_fixups[i],
           \A o \in DOMAIN text' :
              \/ o \in DOMAIN text \/ text'[o].label = -1
              \/ text'[o].dest = -1 /\ \E i \in DOMAIN label_fixups' : label_fixups'[i].off = o
              \/ text'[o].dest # -1 /\ (FarBehindRegion(o)' \/ (/\ text'[o].label \in DOMAIN label_offsets
                                                               /\ text'[o].dest = label_offsets[text'[o].label]))
    PROVE  LayoutInv'
<1>1. /\ Writer'.text = t.text /\ text' = t.text
      /\ \A x \in WriterFields : Writer'[x] = t[x] /\ wr'[x] = t[x]
  BY WriterIs
<1>2. wr'.off = t.off /\ wr'.chunk = t.chunk /\ Writer'.off = t.off /\ Writer.text = text
      /\ wr.chunk \in Nat /\ wr.off \in Nat /\ t.chunk \in Nat /\ t.off \in Nat
  BY <1>1 DEF WriterFields, Writer, LayoutInv, WriterInv, Room
<1>3. \A o \in DOMAIN text : o \in DOMAIN text' /\ text'[o] = text[o]
  BY <1>1, <1>2 DEF Kept
<1>4. Texts(Writer)'
  BY <1>1, <1>2 DEF Texts
<1>5. Labels_right'
  BY <1>2 DEF LayoutInv, Labels_right
<1>6. Laid(Writer, label_fixups)'
  BY <1>1, SameLaid
<1>7. Small(wr)' => Small(wr)
  BY <1>2, WriterAssumption DEF Small
<1>8. handled = 0 /\ label_fixups \in Seq(Fixups) /\ label_fixups' \in Seq(Fixups) /\ failed = "none"
  BY DEF LayoutInv, WriterInv
<1>9. \A i \in DOMAIN label_fixups' : i > 0
  BY <1>8
<1>10. ASSUME NEW o \in DOMAIN text', text'[o].label # -1 PROVE Reached(o)' /\ Pending(o)'
  <2>1. CASE o \in DOMAIN text
    <3>1. Reached(o) /\ Pending(o) /\ text'[o] = text[o]
      BY <1>3, <1>10, <2>1 DEF LayoutInv
    <3>2. FarBehindRegion(o) => FarBehindRegion(o)'
      BY <1>3, <3>1 DEF FarBehindRegion, BehindRegion
    <3>3. Leads(o) => Leads(o)'
      BY <1>3, <3>1 DEF Leads
    <3>4. Reached(o)'
      BY <3>1, <3>2, <3>3 DEF Reached
    <3>5. Pending(o)'
      <4> SUFFICES ASSUME text[o].dest = -1
                   PROVE  \E i \in DOMAIN label_fixups' : label_fixups'[i].off = o /\ (Small(wr)' => i > handled')
        BY <3>1 DEF Pending
      <4>1. PICK i \in DOMAIN label_fixups : label_fixups[i].off = o
        BY <3>1 DEF Pending
      <4> QED BY <1>9, <4>1
    <3> QED BY <3>4, <3>5
  <2>2. CASE o \notin DOMAIN text
    <3>1. \/ text'[o].dest = -1 /\ \E i \in DOMAIN label_fixups' : label_fixups'[i].off = o
          \/ text'[o].dest # -1 /\ (FarBehindRegion(o)' \/ (/\ text'[o].label \in DOMAIN label_offsets
                                                           /\ text'[o].dest = label_offsets[text'[o].label]))
      BY <1>10, <2>2
    <3>2. Reached(o)'
      BY <3>1 DEF Reached, Leads
    <3>3. Pending(o)'
      BY <1>9, <3>1 DEF Pending
    <3> QED BY <3>2, <3>3
  <2> QED BY <2>1, <2>2
<1> QED BY <1>4, <1>5, <1>6, <1>8, <1>10 DEF LayoutInv

\* An empty function.
LEMMA EmptyLaid ==
    ASSUME NEW s, Room(s), s.text = <<>>, s.veneers = <<>>, s.test = 0, s.cond = 0,
           s.size - s.off <= s.chunk
    PROVE  Laid(s, <<>>)
<1> DEFINE E == <<>>
<1>1. Texts(s) /\ Refs(s, E)
  <2>1. DOMAIN s.text = {}
    OBVIOUS
  <2> QED BY <2>1, FS_EmptySet DEF Texts, Refs
<1>2. Regions(s, E, 0, E, E)
  BY DEF Regions
<1>3. Open(E, E, E) = {} /\ Cardinality({}) = 0
  BY FS_EmptySet DEF Open
<1>4. OpenNear(s, E, E, E) /\ ServedNear(s, E, E, E)
  BY <1>3 DEF OpenNear, ServedNear
<1>5. Counts(s, E, E, E)
  <2>1. s.off \in Nat /\ MaxBranches \in Nat
    BY WriterAssumption DEF Room
  <2>2. LastEnd(E, E) = 0
    BY DEF LastEnd
  <2>3. s.test + s.cond = 0
    OBVIOUS
  <2> HIDE DEF E
  <2> QED BY ONLY <1>3, <2>1, <2>2, <2>3 DEF Counts
<1>6. Layout(s, E, 0, E, E)
  BY <1>1, <1>2, <1>4 DEF Layout
<1> QED BY <1>5, <1>6 DEF Laid

\* begin_func starts one.
LEMMA BeginStep ==
    ASSUME LayoutInv, WriterInv', NEW n \in Expected, begin_func(n) PROVE LayoutInv'
<1> DEFINE s == [Writer EXCEPT !.veneers = <<>>, !.test = 0, !.cond = 0, !.growth = n, !.text = <<>>,
                               !.chunk = wr.size - wr.off]
           e == ensure_space(s, n)
           a == ensure_space(e, 16)
           t == [a EXCEPT !.off = align_up(@, 16)]
<1>1. n \in Nat /\ Become(t) /\ phase' = "emit" /\ label_offsets' = <<>> /\ label_fixups' = <<>>
      /\ handled' = 0 /\ failed' = failed /\ failed = "none"
  BY WriterAssumption DEF begin_func, LayoutInv
<1>2. Room(s) /\ s.text = <<>> /\ s.veneers = <<>> /\ s.test = 0 /\ s.cond = 0 /\ s.size - s.off <= s.chunk
  <2>1. wr.size - wr.off \in Nat /\ n \in Nat
    BY <1>1 DEF LayoutInv, WriterInv, WithinReserve
  <2> QED BY <2>1 DEF Writer, Room, LayoutInv, WriterInv, WithinReserve, Fields, WriterFields
<1>3. Laid(s, <<>>)
  <2> HIDE DEF s
  <2> QED BY <1>2, EmptyLaid
<1>4. Room(e) /\ Laid(e, <<>>) /\ Spaced(s, e)
  <2> HIDE DEF s
  <2> QED BY <1>1, <1>2, <1>3, EnsureLaid
<1>5. Room(a) /\ a.size - a.off >= 16 /\ Laid(a, <<>>) /\ Spaced(e, a)
  <2> HIDE DEF e
  <2> QED BY <1>4, EnsureLaid
<1>6. \A o \in DOMAIN a.text : a.text[o].label = -1
  <2> HIDE DEF a, e, s
  <2>1. DOMAIN s.text = {}
    BY <1>2
  <2>2. \A o \in DOMAIN e.text : e.text[o].label = -1
    BY <1>4, <2>1 DEF Spaced
  <2> QED BY <1>5, <2>2 DEF Spaced, Kept
<1> HIDE DEF a
<1>7. \A k \in Nat : align_up(k, 16) \in Nat /\ align_up(k, 16) >= k /\ align_up(k, 16) <= k + 15
  BY DEF align_up
<1>8. /\ Room(t) /\ t.off >= a.off /\ t.veneers = a.veneers /\ t.size = a.size /\ t.chunk = a.chunk
      /\ t.test = a.test /\ t.cond = a.cond /\ t.text = a.text
  BY <1>5, <1>7 DEF Room, Fields, WriterFields
<1> HIDE DEF t
<1>9. Texts(t) /\ Kept(a, t)
  <2>1. Texts(a)
    BY <1>5 DEF Laid, Layout
  <2>2. a.off \in Nat /\ t.off \in Nat
    BY <1>5, <1>8 DEF Room
  <2> QED BY <1>8, <2>1, <2>2 DEF Texts, Kept
<1>10. Laid(t, <<>>)
  BY <1>5, <1>8, <1>9, ExtendedLaid
<1>11. /\ Writer'.text = t.text /\ text' = t.text
       /\ \A x \in WriterFields : Writer'[x] = t[x] /\ wr'[x] = t[x]
  BY <1>1, WriterIs
<1>12. Laid(Writer, label_fixups)'
  BY <1>1, <1>10, <1>11, SameLaid
<1>13. Texts(Writer)' /\ Labels_right'
  BY <1>1, <1>9, <1>11 DEF Texts, Labels_right, WriterFields
<1>14. \A o \in DOMAIN text' : text'[o].label = -1
  BY <1>6, <1>8, <1>11
<1> QED BY <1>1, <1>12, <1>13, <1>14 DEF LayoutInv

\* What LayoutInv says of a function under way.
LEMMA Under ==
    ASSUME LayoutInv, phase = "emit"
    PROVE  /\ Room(Writer) /\ Laid(Writer, label_fixups) /\ Texts(Writer)
           /\ Writer.text = text /\ Writer.off = wr.off /\ Writer.chunk = wr.chunk
           /\ wr.off \in Nat /\ wr.chunk \in Nat
           /\ label_fixups \in Seq(Fixups) /\ handled = 0
           /\ \A l \in DOMAIN label_offsets : /\ l \in Labels /\ l # -1
                                              /\ label_offsets[l] \in Nat /\ label_offsets[l] <= wr.off
<1>1. WriterInv
  BY DEF LayoutInv
<1>2. Room(Writer)
  BY <1>1, WriterRoom
<1> QED BY <1>1, <1>2, WriterAssumption DEF LayoutInv, Writer, WriterFields, Labels_right, WriterInv

\* An instruction that is no branch.
LEMMA InstStep ==
    ASSUME LayoutInv, WriterInv', NEW n \in 1 .. 2, write_inst(n) PROVE LayoutInv'
<1> DEFINE s == ensure_space(Writer, 4 * n)
           t == [s EXCEPT !.off = @ + 4 * n]
<1>1. /\ phase = "emit" /\ phase' = "emit" /\ failed' = failed /\ handled' = 0
      /\ label_offsets' = label_offsets /\ label_fixups' = label_fixups /\ Become(t)
  BY DEF write_inst, LayoutInv, WriterInv
<1>2. 4 * n \in Nat /\ n \in Nat
  OBVIOUS
<1>3. Room(s) /\ s.size - s.off >= 4 * n /\ Laid(s, label_fixups) /\ Spaced(Writer, s)
  BY <1>1, <1>2, Under, EnsureLaid
<1> HIDE DEF s
<1>4. /\ Room(t) /\ t.off >= s.off /\ t.veneers = s.veneers /\ t.size = s.size /\ t.chunk = s.chunk
      /\ t.test = s.test /\ t.cond = s.cond /\ t.text = s.text
  BY <1>2, <1>3 DEF Room, Fields, WriterFields
<1> HIDE DEF t
<1>5. Texts(t) /\ Kept(s, t)
  <2>1. Texts(s)
    BY <1>3 DEF Laid, Layout
  <2>2. s.off \in Nat /\ t.off \in Nat
    BY <1>3, <1>4 DEF Room
  <2> QED BY <1>4, <2>1, <2>2 DEF Texts, Kept
<1>6. Laid(t, label_fixups)
  BY <1>3, <1>4, <1>5, ExtendedLaid
<1>7. Kept(Writer, t) /\ t.off >= wr.off /\ t.chunk >= wr.chunk
      /\ \A o \in DOMAIN t.text : o \in DOMAIN text \/ t.text[o].label = -1
  <2>1. s.off \in Nat /\ t.off \in Nat /\ s.chunk \in Nat
    BY <1>3, <1>4 DEF Room
  <2> QED BY <1>1, <1>3, <1>4, <2>1, Under DEF Spaced, Kept
<1>8. text' = t.text
  BY <1>1, WriterIs
<1> QED BY <1>1, <1>4, <1>5, <1>6, <1>7, <1>8, EmitStep

\* A branch to a label that is not placed waits for its reference.
LEMMA PendingStep ==
    ASSUME LayoutInv, WriterInv', NEW kind \in Kinds, NEW l \in Labels, jump_pending(kind, l)
    PROVE  LayoutInv'
<1> DEFINE s == ensure_space(Writer, 4)
           u == [s EXCEPT !.off = @ + 4, !.text = With(@, s.off, Branch(kind, -1, l))]
           t == Counted(u, kind)
           f == [label |-> l, off |-> s.off, kind |-> kind]
<1>1. /\ phase = "emit" /\ phase' = "emit" /\ failed' = failed /\ handled' = 0
      /\ label_offsets' = label_offsets /\ label_fixups' = Append(label_fixups, f) /\ Become(t)
      /\ Branches < MaxBranches
  BY DEF jump_pending, LayoutInv, WriterInv
<1>2. Room(s) /\ s.size - s.off >= 4 /\ Laid(s, label_fixups) /\ Spaced(Writer, s)
  BY <1>1, Under, EnsureLaid
<1>f. f = [label |-> l, off |-> s.off, kind |-> kind]
  OBVIOUS
<1> HIDE DEF s, f
<1>3. /\ Room(u) /\ u.off = s.off + 4 /\ u.text = With(s.text, s.off, Branch(kind, -1, l))
      /\ u.veneers = s.veneers /\ u.size = s.size /\ u.chunk = s.chunk
      /\ u.test = s.test /\ u.cond = s.cond
  BY <1>2 DEF Room, Fields, WriterFields
<1>k. kind \in {"b", "cond", "test"}
  BY WriterAssumption
<1> HIDE DEF u
<1>4. /\ Room(t) /\ t.off = s.off + 4 /\ t.text = With(s.text, s.off, Branch(kind, -1, l))
      /\ t.veneers = s.veneers /\ t.size = s.size /\ t.chunk = s.chunk
      /\ t.test = s.test + (IF kind = "test" THEN 1 ELSE 0)
      /\ t.cond = s.cond + (IF kind = "cond" THEN 1 ELSE 0)
  <2>1. s.test \in Nat /\ s.cond \in Nat
    BY <1>2 DEF Room
  <2>2. CASE kind = "b"
    BY <1>3, <2>1, <2>2 DEF Counted
  <2>3. CASE kind = "cond"
    BY <1>3, <2>1, <2>3 DEF Counted, Room, Fields, WriterFields
  <2>4. CASE kind = "test"
    BY <1>3, <2>1, <2>4 DEF Counted, Room, Fields, WriterFields
  <2> QED BY <1>k, <2>2, <2>3, <2>4
<1> HIDE DEF t
<1>5. Cardinality(Labelled(s)) < MaxBranches
  <2>1. Labelled(s) = {o \in DOMAIN text : text[o].label # -1}
    BY <1>1, <1>2, Under DEF Labelled, Spaced, Kept
  <2> QED BY <1>1, <2>1 DEF Branches
<1>6. Laid(t, Append(label_fixups, f)) /\ Kept(s, t) /\ Texts(t) /\ s.off \notin DOMAIN s.text
  <2>1. f = [label |-> l, off |-> s.off, kind |-> kind] /\ kind \in Kinds /\ l \in Labels
    BY <1>f
  <2> QED BY ONLY <1>2, <1>4, <1>5, <2>1, RefLaid
<1>7. /\ Kept(Writer, t) /\ t.off >= wr.off /\ t.chunk >= wr.chunk
      /\ \A o \in DOMAIN t.text : o \in DOMAIN text \/ t.text[o].label = -1 \/ o = s.off
      /\ t.text[s.off].dest = -1
  <2>1. s.off \in Nat /\ t.off \in Nat /\ s.chunk \in Nat
    BY <1>2, <1>4 DEF Room
  <2>2. t.off >= wr.off /\ t.chunk >= wr.chunk
    BY <1>1, <1>2, <1>4, <2>1, Under DEF Spaced
  <2>3. DOMAIN t.text = DOMAIN s.text \cup {s.off} /\ t.text[s.off] = Branch(kind, -1, l)
    BY <1>4 DEF With
  <2>4. \A o \in DOMAIN s.text : t.text[o] = s.text[o]
    BY <1>6 DEF Kept
  <2>5. Kept(Writer, t)
    BY <1>2, <1>6 DEF Spaced, Kept
  <2>6. \A o \in DOMAIN s.text : o \in DOMAIN text \/ s.text[o].label = -1
    BY <1>1, <1>2, Under DEF Spaced
  <2> QED BY <2>2, <2>3, <2>4, <2>5, <2>6 DEF Branch
<1>8. text' = t.text
  BY <1>1, WriterIs
<1>9. label_fixups \in Seq(Fixups) /\ f.off = s.off
  BY <1>1, <1>f, Under
<1>10. /\ \A i \in DOMAIN label_fixups : i \in DOMAIN label_fixups' /\ label_fixups'[i] = label_fixups[i]
       /\ \E i \in DOMAIN label_fixups' : label_fixups'[i].off = s.off
  <2>1. \A i \in DOMAIN label_fixups : i \in DOMAIN label_fixups' /\ label_fixups'[i] = label_fixups[i]
    BY <1>1, <1>9
  <2>2. Len(label_fixups) + 1 \in DOMAIN label_fixups' /\ label_fixups'[Len(label_fixups) + 1] = f
    BY <1>1, <1>9
  <2> QED BY <1>9, <2>1, <2>2
<1>11. \A o \in DOMAIN text' :
          \/ o \in DOMAIN text \/ text'[o].label = -1
          \/ text'[o].dest = -1 /\ \E i \in DOMAIN label_fixups' : label_fixups'[i].off = o
  BY <1>7, <1>8, <1>10
<1>12. Laid(t, label_fixups')
  BY <1>1, <1>6
<1> QED BY <1>1, <1>4, <1>6, <1>7, <1>10, <1>11, <1>12, EmitStep

\* A branch back that is near enough goes to its label.
LEMMA NearStep ==
    ASSUME LayoutInv, WriterInv', NEW kind \in Kinds, NEW l \in Labels, jump_back_near(kind, l)
    PROVE  LayoutInv'
<1> DEFINE s == ensure_space(Writer, 4)
           b == Branch(kind, label_offsets[l], l)
           t == [s EXCEPT !.off = @ + 4, !.text = With(@, s.off, b)]
<1>1. /\ phase = "emit" /\ phase' = "emit" /\ failed' = failed /\ handled' = 0
      /\ label_offsets' = label_offsets /\ label_fixups' = label_fixups /\ Become(t)
      /\ l \in DOMAIN label_offsets
  BY DEF jump_back_near, LayoutInv, WriterInv
<1>2. Room(s) /\ s.size - s.off >= 4 /\ Laid(s, label_fixups) /\ Spaced(Writer, s)
  BY <1>1, Under, EnsureLaid
<1>3. b \in Inst /\ b.dest = label_offsets[l] /\ b.label = l /\ b.dest \in Nat
  <2>1. label_offsets[l] \in Nat /\ kind \in {"b", "cond", "test"}
    BY <1>1, Under, WriterAssumption
  <2> QED BY <2>1 DEF Branch, Inst
<1> HIDE DEF s, b
<1>4. /\ Room(t) /\ t.off = s.off + 4 /\ t.text = With(s.text, s.off, b)
      /\ t.veneers = s.veneers /\ t.size = s.size /\ t.chunk = s.chunk
      /\ t.test = s.test /\ t.cond = s.cond
  BY <1>2 DEF Room, Fields, WriterFields
<1> HIDE DEF t
<1>5. s.off \in Nat /\ t.off \in Nat /\ s.chunk \in Nat /\ Texts(s) /\ t.off >= s.off + 4
  BY <1>2, <1>4 DEF Room, Laid, Layout
<1>6. /\ Texts(t) /\ Kept(s, t) /\ s.off \notin DOMAIN s.text
      /\ DOMAIN t.text = DOMAIN s.text \cup {s.off} /\ t.text[s.off] = b
  <2>1. Written(s, t, b)
    BY ONLY <1>2, <1>3, <1>4, <1>5, WithText
  <2> QED BY <2>1 DEF Written
<1>7. Laid(t, label_fixups)
  BY <1>2, <1>4, <1>5, <1>6, ExtendedLaid
<1>8. /\ Kept(Writer, t) /\ t.off >= wr.off /\ t.chunk >= wr.chunk
      /\ \A o \in DOMAIN t.text : o \in DOMAIN text \/ t.text[o].label = -1 \/ o = s.off
  <2>1. t.off >= wr.off /\ t.chunk >= wr.chunk
    BY <1>1, <1>2, <1>4, <1>5, Under DEF Spaced
  <2>2. Kept(Writer, t)
    BY <1>2, <1>6 DEF Spaced, Kept
  <2>3. \A o \in DOMAIN s.text : o \in DOMAIN text \/ s.text[o].label = -1
    BY <1>1, <1>2, Under DEF Spaced
  <2> QED BY <1>6, <2>1, <2>2, <2>3 DEF Kept
<1>9. text' = t.text
  BY <1>1, WriterIs
<1>10. \A o \in DOMAIN text' :
          \/ o \in DOMAIN text \/ text'[o].label = -1
          \/ text'[o].dest # -1 /\ text'[o].label \in DOMAIN label_offsets
             /\ text'[o].dest = label_offsets[text'[o].label]
  BY <1>1, <1>3, <1>6, <1>8, <1>9
<1>11. Laid(t, label_fixups')
  BY <1>1, <1>7
<1> QED BY <1>1, <1>4, <1>6, <1>8, <1>10, <1>11, EmitStep

\* Two instructions may be written in either order.
LEMMA WithWith ==
    ASSUME NEW f, NEW x, NEW y, x # y, NEW a, NEW b
    PROVE  With(With(f, y, b), x, a) = With(With(f, x, a), y, b)
<1> DEFINE g == With(With(f, y, b), x, a)
           h == With(With(f, x, a), y, b)
           D == DOMAIN f \cup {x, y}
<1>1. g = [z \in D |-> IF z = x THEN a ELSE IF z = y THEN b ELSE f[z]]
  <2>1. DOMAIN With(f, y, b) \cup {x} = D
    BY DEF With
  <2>2. \A z \in D : z # x => With(f, y, b)[z] = IF z = y THEN b ELSE f[z]
    BY DEF With
  <2>3. g = [z \in D |-> IF z = x THEN a ELSE With(f, y, b)[z]]
    BY <2>1 DEF With
  <2> HIDE DEF D, g
  <2> QED BY <2>2, <2>3
<1>2. h = [z \in D |-> IF z = x THEN a ELSE IF z = y THEN b ELSE f[z]]
  <2>1. DOMAIN With(f, x, a) \cup {y} = D
    BY DEF With
  <2>2. \A z \in D : z # y => With(f, x, a)[z] = IF z = x THEN a ELSE f[z]
    BY DEF With
  <2>3. h = [z \in D |-> IF z = y THEN b ELSE With(f, x, a)[z]]
    BY <2>1 DEF With
  <2> HIDE DEF D, h
  <2> QED BY <2>2, <2>3
<1> HIDE DEF g, h, D
<1>3. g = h
  BY <1>1, <1>2
<1> QED BY <1>3 DEF g, h

\* A branch back that is too far goes to its label through a B, or is directly
\* behind a region that the second ensure_space put there.
LEMMA FarStep ==
    ASSUME LayoutInv, WriterInv', NEW kind \in Kinds, NEW l \in Labels, jump_back_far(kind, l)
    PROVE  LayoutInv'
<1> DEFINE s == ensure_space(Writer, 4)
           e == ensure_space(s, 8)
           d == s.off - label_offsets[l]
           x == Branch(kind, e.off + 8, -1)
           y == Branch("b", e.off - d, l)
           m == [e EXCEPT !.off = @ + 4, !.text = With(@, e.off, x)]
           t == [e EXCEPT !.off = @ + 8, !.text = With(With(@, e.off + 4, y), e.off, x)]
<1>1. /\ phase = "emit" /\ phase' = "emit" /\ failed' = failed /\ handled' = 0
      /\ label_offsets' = label_offsets /\ label_fixups' = label_fixups /\ Become(t)
      /\ l \in DOMAIN label_offsets
  BY DEF jump_back_far, LayoutInv, WriterInv
<1>2. Room(s) /\ Laid(s, label_fixups) /\ Spaced(Writer, s)
  BY <1>1, Under, EnsureLaid
<1>d. d = s.off - label_offsets[l]
  OBVIOUS
<1> HIDE DEF s, d
<1>3. Room(e) /\ e.size - e.off >= 8 /\ Laid(e, label_fixups) /\ Spaced(s, e)
  BY <1>2, EnsureLaid
<1>4. s.off \in Nat /\ e.off \in Nat /\ e.off >= s.off /\ e.chunk \in Nat /\ s.chunk \in Nat /\ Texts(e)
  BY <1>2, <1>3 DEF Room, Laid, Layout, Spaced
<1>5. label_offsets[l] \in Nat /\ kind \in {"b", "cond", "test"} /\ l # -1
  BY <1>1, Under, WriterAssumption
<1>6. e.off - d \in Nat /\ (e.off = s.off => e.off - d = label_offsets[l])
  <2> HIDE DEF e
  <2> QED BY <1>4, <1>5, <1>d
<1>xy. x = Branch(kind, e.off + 8, -1) /\ y = Branch("b", e.off - d, l)
  OBVIOUS
<1> HIDE DEF e, x, y
<1>7. x \in Inst /\ x.label = -1
  BY <1>4, <1>5, <1>xy DEF Branch, Inst
<1>8. y \in Inst /\ y.label = l /\ y.dest = e.off - d /\ y.op = "b"
  BY <1>5, <1>6, <1>xy DEF Branch, Inst
<1>9. /\ Room(m) /\ m.off = e.off + 4 /\ m.text = With(e.text, e.off, x)
      /\ m.veneers = e.veneers /\ m.size = e.size /\ m.chunk = e.chunk
      /\ m.test = e.test /\ m.cond = e.cond
  BY <1>3 DEF Room, Fields, WriterFields
<1>10. /\ Room(t) /\ t.off = e.off + 8 /\ t.text = With(With(e.text, e.off + 4, y), e.off, x)
       /\ t.veneers = e.veneers /\ t.size = e.size /\ t.chunk = e.chunk
       /\ t.test = e.test /\ t.cond = e.cond
  BY <1>3 DEF Room, Fields, WriterFields
<1> HIDE DEF m, t
<1>11. t.text = With(m.text, m.off, y)
  <2>1. e.off # e.off + 4
    BY <1>4
  <2>2. With(With(e.text, e.off + 4, y), e.off, x) = With(With(e.text, e.off, x), e.off + 4, y)
    BY <2>1, WithWith
  <2> QED BY <1>9, <1>10, <2>2
<1>12. m.off \in Nat /\ m.off >= e.off + 4 /\ t.off \in Nat /\ t.off >= m.off + 4
  BY <1>4, <1>9, <1>10
<1>13. /\ Texts(m) /\ Kept(e, m) /\ e.off \notin DOMAIN e.text
       /\ DOMAIN m.text = DOMAIN e.text \cup {e.off} /\ m.text[e.off] = x
  <2>1. Written(e, m, x)
    BY ONLY <1>3, <1>4, <1>7, <1>9, <1>12, WithText
  <2> QED BY <2>1 DEF Written
<1>14. /\ Texts(t) /\ Kept(m, t) /\ m.off \notin DOMAIN m.text
       /\ DOMAIN t.text = DOMAIN m.text \cup {m.off} /\ t.text[m.off] = y
  <2>1. Written(m, t, y)
    BY ONLY <1>8, <1>9, <1>11, <1>12, <1>13, WithText
  <2> QED BY <2>1 DEF Written
<1>15. Kept(e, t)
  BY <1>13, <1>14 DEF Kept
<1>16. Laid(t, label_fixups)
  <2>1. t.off >= e.off
    BY <1>4, <1>12
  <2> QED BY ONLY <1>3, <1>10, <1>14, <1>15, <2>1, ExtendedLaid
<1>17. Kept(Writer, t) /\ t.off >= wr.off /\ t.chunk >= wr.chunk
  <2>1. Kept(Writer, t)
    BY <1>2, <1>3, <1>15 DEF Spaced, Kept
  <2>2. t.off >= wr.off
    BY <1>1, <1>2, <1>4, <1>10, Under DEF Spaced
  <2>3. t.chunk >= wr.chunk
    BY <1>1, <1>2, <1>3, <1>4, <1>10, Under DEF Spaced
  <2> QED BY <2>1, <2>2, <2>3
<1>18. text' = t.text
  BY <1>1, WriterIs
<1>19. \A o \in DOMAIN t.text : o \in DOMAIN text \/ t.text[o].label = -1 \/ o = m.off
  <2>1. \A o \in DOMAIN s.text : o \in DOMAIN text \/ s.text[o].label = -1
    BY <1>1, <1>2, Under DEF Spaced
  <2>2. \A o \in DOMAIN e.text : o \in DOMAIN text \/ e.text[o].label = -1
    BY <1>3, <2>1 DEF Spaced, Kept
  <2>3. \A o \in DOMAIN m.text : o \in DOMAIN text \/ m.text[o].label = -1
    BY <1>7, <1>13, <2>2 DEF Kept
  <2> QED BY <1>14, <2>3 DEF Kept
<1>20. ASSUME NEW o, o = m.off
       PROVE  /\ t.text[o].dest # -1 /\ t.text[o].label \in DOMAIN label_offsets
              /\ FarBehindRegion(o)' \/ t.text[o].dest = label_offsets[t.text[o].label]
  <2>1. t.text[o].dest = e.off - d /\ t.text[o].label = l /\ t.text[o].op = "b"
    BY <1>8, <1>14, <1>20
  <2>2. CASE e.off = s.off
    BY <1>1, <1>6, <2>1, <2>2
  <2>3. CASE e.off # s.off
    <3>1. e.off - 4 \in DOMAIN e.text /\ e.text[e.off - 4].slot
      BY <1>3, <2>3 DEF Spaced
    <3>2. (o - 4) - 4 = e.off - 4
      BY <1>4, <1>9, <1>20
    <3>3. (o - 4) - 4 \in DOMAIN t.text /\ t.text[(o - 4) - 4].slot
      BY <1>15, <3>1, <3>2 DEF Kept
    <3>4. FarBehindRegion(o)'
      BY <1>18, <2>1, <3>3 DEF FarBehindRegion, BehindRegion
    <3> QED BY <1>1, <1>6, <2>1, <3>4
  <2> QED BY <2>2, <2>3
<1>21. \A o \in DOMAIN text' :
          \/ o \in DOMAIN text \/ text'[o].label = -1
          \/ text'[o].dest # -1 /\ (FarBehindRegion(o)' \/ (/\ text'[o].label \in DOMAIN label_offsets
                                                           /\ text'[o].dest = label_offsets[text'[o].label]))
  BY <1>18, <1>19, <1>20
<1>22. Laid(t, label_fixups')
  BY <1>1, <1>16
<1> QED BY <1>1, <1>10, <1>14, <1>17, <1>21, <1>22, EmitStep

\* A label is placed at the position.
LEMMA PlaceStep ==
    ASSUME LayoutInv, WriterInv', NEW l \in Labels, label_place(l) PROVE LayoutInv'
<1>1. /\ phase = "emit" /\ phase' = "emit" /\ failed' = failed /\ handled' = handled /\ handled = 0
      /\ wr' = wr /\ text' = text /\ label_fixups' = label_fixups
      /\ label_offsets' = With(label_offsets, l, wr.off) /\ l \notin DOMAIN label_offsets
  BY DEF label_place, LayoutInv, WriterInv
<1>2. /\ DOMAIN label_offsets' = DOMAIN label_offsets \cup {l} /\ label_offsets'[l] = wr.off
      /\ \A k \in DOMAIN label_offsets : label_offsets'[k] = label_offsets[k]
  BY <1>1 DEF With
<1>3. /\ Writer'.text = Writer.text /\ \A x \in WriterFields : Writer'[x] = Writer[x]
      /\ Writer'.off = Writer.off
  BY <1>1 DEF Writer, WriterFields
<1>4. Laid(Writer, label_fixups)'
  <2>1. Laid(Writer, label_fixups)
    BY <1>1 DEF LayoutInv
  <2> QED BY <1>1, <1>3, <2>1, SameLaid
<1>5. Texts(Writer)'
  BY <1>3 DEF LayoutInv, Texts
<1>6. Labels_right'
  <2>1. wr.off \in Nat /\ wr.off <= wr.off
    BY DEF LayoutInv, WriterInv
  <2> QED BY <1>1, <1>2, <2>1 DEF LayoutInv, Labels_right
<1>7. ASSUME NEW o \in DOMAIN text', text'[o].label # -1 PROVE Reached(o)' /\ Pending(o)'
  <2>1. Reached(o) /\ Pending(o)
    BY <1>1, <1>7 DEF LayoutInv
  <2>2. FarBehindRegion(o) => FarBehindRegion(o)'
    BY <1>1 DEF FarBehindRegion, BehindRegion
  <2>3. text[o].label \in DOMAIN label_offsets /\ Leads(o) => Leads(o)'
    BY <1>1, <1>2 DEF Leads
  <2>4. Reached(o)'
    BY <1>1, <1>2, <2>1, <2>2, <2>3 DEF Reached
  <2>5. Pending(o)'
    BY <1>1, <2>1 DEF Pending, Small
  <2> QED BY <2>4, <2>5
<1>8. failed' = "none"
  BY <1>1 DEF LayoutInv
<1> QED BY <1>1, <1>4, <1>5, <1>6, <1>7, <1>8 DEF LayoutInv

\* A step that leaves the text, the labels and what was reserved.
LEMMA Kept_text ==
    ASSUME LayoutInv, text' = text, label_offsets' = label_offsets, wr'.off = wr.off, wr'.chunk = wr.chunk
    PROVE  Texts(Writer)' /\ Labels_right' /\ (\A o \in DOMAIN text : text[o].label # -1 => Reached(o))'
           /\ (Small(wr)' <=> Small(wr))
<1>1. Texts(Writer)'
  BY DEF LayoutInv, Texts, Writer, WriterFields
<1>2. Labels_right'
  BY DEF LayoutInv, Labels_right
<1>3. (\A o \in DOMAIN text : text[o].label # -1 => Reached(o))'
  BY DEF LayoutInv, Reached, FarBehindRegion, BehindRegion, Leads
<1>4. Small(wr)' <=> Small(wr)
  BY DEF Small
<1> QED BY <1>1, <1>2, <1>3, <1>4

\* finish_func has all labels placed.
LEMMA FinishStep == ASSUME LayoutInv, WriterInv', finish_func PROVE LayoutInv'
<1>1. /\ phase = "emit" /\ phase' = (IF label_fixups = <<>> THEN "idle" ELSE "fixups")
      /\ wr' = wr /\ text' = text /\ label_offsets' = label_offsets /\ label_fixups' = label_fixups
      /\ handled' = handled /\ failed' = failed /\ handled = 0 /\ failed = "none"
      /\ \A k \in DOMAIN label_fixups : label_fixups[k].label \in DOMAIN label_offsets
      /\ \A o \in DOMAIN text : text[o].label # -1 => Pending(o)
  BY DEF finish_func, LayoutInv, WriterInv
<1>2. Texts(Writer)' /\ Labels_right' /\ (\A o \in DOMAIN text : text[o].label # -1 => Reached(o))'
      /\ (Small(wr)' <=> Small(wr))
  BY <1>1, Kept_text
<1>3. CASE label_fixups = <<>>
  <2>1. \A o \in DOMAIN text : text[o].label # -1 => text[o].dest # -1
    BY <1>1, <1>3 DEF Pending
  <2> QED BY <1>1, <1>2, <1>3, <2>1 DEF LayoutInv
<1>4. CASE label_fixups # <<>>
  <2>1. PICK B, N : Layout(Writer, label_fixups, handled, B, N)
    BY <1>1 DEF LayoutInv, Laid
  <2>2. /\ Writer'.text = Writer.text /\ Writer'.off = Writer.off /\ Writer'.veneers = Writer.veneers
        /\ Writer'.size = Writer.size /\ Writer'.chunk = Writer.chunk
    BY <1>1 DEF Writer, WriterFields
  <2>3. Layout(Writer', label_fixups, handled, B, N)
    BY <2>1, <2>2, SameLayout
  <2>4. (\E x, y : Layout(Writer, label_fixups, handled, x, y))'
    BY <1>1, <2>3
  <2>5. \A o \in DOMAIN text : text[o].label # -1 => Pending(o)'
    BY <1>1 DEF Pending, Small
  <2> QED BY <1>1, <1>2, <1>4, <2>4, <2>5 DEF LayoutInv
<1> QED BY <1>3, <1>4

\* The others change neither the text nor the labels.
LEMMA RestStep ==
    ASSUME LayoutInv, WriterInv', flush \/ fatal \/ Stopped \/ UNCHANGED vars PROVE LayoutInv'
<1>1. CASE flush
  <2>1. /\ phase = "idle" /\ phase' = "idle" /\ wr' = [wr EXCEPT !.size = wr.off] /\ text' = text
        /\ label_offsets' = label_offsets /\ failed' = failed /\ DOMAIN wr = WriterFields
    BY <1>1 DEF flush, LayoutInv, WriterInv
  <2>2. wr'.off = wr.off /\ wr'.chunk = wr.chunk
    BY <2>1 DEF WriterFields
  <2>3. Texts(Writer)' /\ Labels_right' /\ (\A o \in DOMAIN text : text[o].label # -1 => Reached(o))'
        /\ (Small(wr)' <=> Small(wr))
    BY <2>1, <2>2, Kept_text
  <2> QED BY <2>1, <2>3 DEF LayoutInv
<1>2. CASE fatal
  <2>1. /\ phase \in {"idle", "emit"} /\ phase' = "fatal" /\ wr' = wr /\ text' = text
        /\ label_offsets' = label_offsets /\ failed' = failed
    BY <1>2 DEF fatal
  <2>2. Texts(Writer)' /\ Labels_right' /\ (\A o \in DOMAIN text : text[o].label # -1 => Reached(o))'
    BY <2>1, Kept_text
  <2>3. failed = "none"
    BY <2>1 DEF LayoutInv
  <2> QED BY <2>1, <2>2, <2>3 DEF LayoutInv
<1>3. CASE Stopped \/ UNCHANGED vars
  <2>1. UNCHANGED vars
    BY <1>3 DEF Stopped
  <2>2. /\ phase' = phase /\ wr' = wr /\ text' = text /\ label_offsets' = label_offsets
        /\ label_fixups' = label_fixups /\ handled' = handled /\ failed' = failed
    BY <2>1 DEF vars
  <2>3. Writer' = Writer
    BY <2>2 DEF Writer
  <2>4. Texts(Writer)' /\ Labels_right' /\ (\A o \in DOMAIN text : text[o].label # -1 => Reached(o))'
        /\ (Small(wr)' <=> Small(wr))
    BY <2>2, Kept_text
  <2>5. \A o \in DOMAIN text : Pending(o) => Pending(o)'
    BY <2>2, <2>4 DEF Pending
  <2>6. OverwritesOnlyBehind => OverwritesOnlyBehind'
    BY <2>2 DEF OverwritesOnlyBehind, BehindRegion
  <2> QED BY <2>2, <2>3, <2>4, <2>5, <2>6 DEF LayoutInv
<1> QED BY <1>1, <1>2, <1>3

\* handle_fixups handles the next reference, or an assertion fails.
LEMMA FixStep == ASSUME LayoutInv, WriterInv', handle_fixup PROVE LayoutInv'
<1> DEFINE F == label_fixups
           i == handled + 1
           f == F[i]
           h == Fix(Writer, f)
           l == label_offsets[f.label]
<1>1. /\ phase = "fixups" /\ failed = "none" /\ Become(h) /\ failed' = h.failed /\ handled' = i
      /\ phase' = (IF h.failed # "none" THEN "assert" ELSE IF handled' = Len(F) THEN "idle" ELSE "fixups")
      /\ label_offsets' = label_offsets /\ label_fixups' = F
      /\ handled \in Nat /\ F \in Seq(Fixups) /\ i \in DOMAIN F /\ i \in Nat
      /\ \A k \in DOMAIN F : F[k].label \in DOMAIN label_offsets
      /\ \A o \in DOMAIN text : text[o].label # -1 => Reached(o) /\ Pending(o)
  BY DEF handle_fixup, LayoutInv, WriterInv
<1>2. /\ DOMAIN Writer = Fields /\ Writer.failed = "none" /\ Writer.text = text /\ Writer.size = wr.size
      /\ Writer.off = wr.off /\ Writer.chunk = wr.chunk /\ f \in Fixups /\ wr.size \in Nat
  BY <1>1 DEF LayoutInv, WriterInv, Writer, Fields, WriterFields
<1>3. l \in Nat /\ l <= wr.size /\ f.label \in DOMAIN label_offsets
  <2>1. f.label \in DOMAIN label_offsets
    BY <1>1
  <2>2. l \in Nat /\ l <= wr.off
    BY <2>1 DEF LayoutInv, Labels_right
  <2>3. wr.off <= wr.size /\ wr.off \in Nat /\ wr.size \in Nat
    BY DEF LayoutInv, WriterInv, WithinReserve
  <2> HIDE DEF l
  <2> QED BY <2>1, <2>2, <2>3
<1>4. PICK B, N : Layout(Writer, F, handled, B, N)
  BY <1>1 DEF LayoutInv
<1>5. DOMAIN h = Fields /\ \A x \in {"size", "cap", "off", "growth", "chunk"} : h[x] = Writer[x]
  <2> HIDE DEF f
  <2> QED BY <1>2, FixKeeps
<1>6. FixResult(Writer, h, F, i, l, B, N)
  <2>1. h = Fix(Writer, F[handled + 1]) /\ l = label_offsets[F[handled + 1].label] /\ handled + 1 \in DOMAIN F
    BY <1>1
  <2>2. l <= Writer.size /\ Writer.size \in Nat
    BY <1>2, <1>3
  <2> HIDE DEF h, l, F
  <2>3. FixResult(Writer, h, F, handled + 1, l, B, N)
    BY ONLY <1>1, <1>2, <1>3, <1>4, <2>1, <2>2, FixTurn
  <2> QED BY <2>3
<1> HIDE DEF h, l
<1>7. /\ Writer'.text = h.text /\ text' = h.text
      /\ \A x \in WriterFields : Writer'[x] = h[x] /\ wr'[x] = h[x]
  BY <1>1, WriterIs
<1>8. wr'.off = wr.off /\ wr'.chunk = wr.chunk /\ h.off = wr.off /\ h.chunk = wr.chunk
  BY <1>2, <1>5, <1>7 DEF WriterFields
<1>9. CASE h.failed # "none"
  <2>1. /\ h.text = text
        /\ h.failed = "missing" => ~Small(Writer)
        /\ h.failed = "overwriting" => F[i].off - 4 \in DOMAIN text /\ text[F[i].off - 4].slot
    BY <1>2, <1>6, <1>9 DEF FixResult
  <2>2. Texts(Writer)' /\ Labels_right' /\ (\A o \in DOMAIN text : text[o].label # -1 => Reached(o))'
        /\ (Small(wr)' <=> Small(wr))
    BY <1>1, <1>7, <1>8, <2>1, Kept_text
  <2>3. Small(Writer) <=> Small(wr)
    BY <1>2 DEF Small
  <2>4. failed' = "overwriting" => \E k \in DOMAIN label_fixups' :
                                      /\ label_fixups'[k].off - 4 \in DOMAIN text'
                                      /\ text'[label_fixups'[k].off - 4].slot
    BY <1>1, <1>7, <2>1
  <2>5. OverwritesOnlyBehind'
    BY <2>4 DEF OverwritesOnlyBehind, BehindRegion
  <2>6. phase' = "assert" /\ (failed' = "missing" => ~Small(wr)')
    BY <1>1, <1>9, <2>1, <2>2, <2>3
  <2> QED BY <2>2, <2>5, <2>6 DEF LayoutInv
<1>10. CASE h.failed = "none"
  <2>1. Layout(h, F, i, B, N) /\ Turned(Writer, h, F, i, l)
    BY <1>6, <1>10 DEF FixResult
  <2>2. Layout(Writer', F, i, B, N)
    <3>1. /\ Writer'.off = h.off /\ Writer'.veneers = h.veneers /\ Writer'.size = h.size
          /\ Writer'.chunk = h.chunk
      BY <1>7 DEF WriterFields
    <3> QED BY <1>7, <2>1, <3>1, SameLayout
  <2>3. Texts(Writer)'
    BY <2>2 DEF Layout
  <2>4. Labels_right'
    BY <1>1, <1>8 DEF LayoutInv, Labels_right
  <2>5. (Small(wr)' <=> Small(wr)) /\ (Small(Writer) <=> Small(wr))
    BY <1>2, <1>8 DEF Small
  <2>6. /\ F[i].off \in DOMAIN text /\ ~text[F[i].off].slot /\ text[F[i].off].label = F[i].label
        /\ \A o \in DOMAIN text : o \in Nat
    BY <1>1, <1>2, <1>4 DEF Layout, Refs, Texts
  <2>7. /\ DOMAIN text' = DOMAIN text
        /\ \A o \in DOMAIN text : text'[o].slot = text[o].slot /\ text'[o].label = text[o].label
        /\ \A o \in DOMAIN text : o # F[i].off /\ text[o].op # "zero" => text'[o] = text[o]
        /\ \A o \in DOMAIN text : o # F[i].off /\ text[o].label # -1 => text'[o] = text[o]
        /\ text'[F[i].off].op = text[F[i].off].op
        /\ \/ text'[F[i].off].dest = l
           \/ text'[F[i].off].dest = -1 /\ ~Small(wr)
           \/ \E d \in DOMAIN text' : /\ text'[F[i].off].dest = d /\ text'[d].slot
                                      /\ text'[d].op = "b" /\ text'[d].dest = l
    BY <1>2, <1>7, <2>1, <2>5 DEF Turned
  <2>8. ASSUME NEW o \in DOMAIN text', text'[o].label # -1 PROVE Reached(o)' /\ Pending(o)'
    <3>0. o \in DOMAIN text /\ text[o].label # -1 /\ Reached(o) /\ Pending(o)
      BY <1>1, <2>7, <2>8
    <3>1. CASE o # F[i].off
      <4>1. text'[o] = text[o]
        BY <2>7, <3>0, <3>1
      <4>2. FarBehindRegion(o) => FarBehindRegion(o)'
        BY <2>7, <4>1 DEF FarBehindRegion, BehindRegion
      <4>3. Leads(o) => Leads(o)'
        <5> SUFFICES ASSUME Leads(o) PROVE Leads(o)'
          OBVIOUS
        <5>1. CASE text[o].dest = label_offsets[text[o].label]
          BY <1>1, <4>1, <5>1 DEF Leads
        <5>2. CASE text[o].dest \in DOMAIN text /\ text[text[o].dest].slot
                   /\ text[text[o].dest].op = "b" /\ text[text[o].dest].dest = label_offsets[text[o].label]
          <6>1. text'[text[o].dest] = text[text[o].dest]
            BY <2>6, <2>7, <5>2
          <6> QED BY <1>1, <2>7, <4>1, <5>2, <6>1 DEF Leads
        <5> QED BY <5>1, <5>2 DEF Leads
      <4>4. Reached(o)'
        BY <1>1, <3>0, <4>1, <4>2, <4>3 DEF Reached
      <4>5. Pending(o)'
        <5> SUFFICES ASSUME text[o].dest = -1
                     PROVE  \E k \in DOMAIN F : F[k].off = o /\ (Small(wr) => k > i)
          BY <1>1, <2>5, <4>1 DEF Pending
        <5>1. PICK k \in DOMAIN F : F[k].off = o /\ (Small(wr) => k > handled)
          BY <3>0 DEF Pending
        <5>2. k # i /\ k \in Nat
          BY <1>1, <3>1, <5>1
        <5>3. k > handled => k > i
          BY <1>1, <5>2
        <5> QED BY <5>1, <5>3
      <4> QED BY <4>4, <4>5
    <3>2. CASE o = F[i].off
      <4>1. text'[o].label = f.label
        BY <2>6, <2>7, <3>2
      <4>2. CASE text'[o].dest = l
        <5>1. text'[o].dest # -1
          BY <1>3, <4>2
        <5>2. text'[o].dest = label_offsets'[text'[o].label] /\ text'[o].label \in DOMAIN label_offsets'
          BY <1>1, <1>3, <4>1, <4>2 DEF l
        <5> QED BY <5>1, <5>2 DEF Reached, Leads, Pending
      <4>3. CASE text'[o].dest = -1 /\ ~Small(wr)
        <5>1. Reached(o)'
          BY <4>3 DEF Reached
        <5>2. Pending(o)'
          BY <1>1, <2>5, <3>2, <4>3 DEF Pending
        <5> QED BY <5>1, <5>2
      <4>4. CASE \E d \in DOMAIN text' : /\ text'[o].dest = d /\ text'[d].slot
                                         /\ text'[d].op = "b" /\ text'[d].dest = l
        <5>1. PICK d \in DOMAIN text' : /\ text'[o].dest = d /\ text'[d].slot
                                        /\ text'[d].op = "b" /\ text'[d].dest = l
          BY <4>4
        <5>2. text'[o].dest # -1
          BY <2>6, <2>7, <5>1
        <5>3. text'[d].dest = label_offsets'[text'[o].label] /\ text'[o].label \in DOMAIN label_offsets'
          BY <1>1, <1>3, <4>1, <5>1 DEF l
        <5> QED BY <5>1, <5>2, <5>3 DEF Reached, Leads, Pending
      <4> QED BY <2>7, <3>2, <4>2, <4>3, <4>4
    <3> QED BY <3>1, <3>2
  <2>9. failed' = "none" /\ (phase' = "fixups" \/ (phase' = "idle" /\ i = Len(F)))
    BY <1>1, <1>10
  <2>10. (\E x, y : Layout(Writer, label_fixups, handled, x, y))'
    BY <1>1, <2>2
  <2>11. phase' = "idle" => (Small(wr)' => \A o \in DOMAIN text' : text'[o].label # -1 => text'[o].dest # -1)
    <3> SUFFICES ASSUME i = Len(F), Small(wr)', NEW o \in DOMAIN text', text'[o].label # -1,
                        text'[o].dest = -1
                 PROVE  FALSE
      BY <2>9
    <3>1. PICK k \in DOMAIN label_fixups' : Small(wr)' => k > handled'
      BY <2>8 DEF Pending
    <3>2. k \in 1 .. Len(F) /\ k > i
      BY <1>1, <3>1
    <3> QED BY <1>1, <3>2
  <2>12. \A k \in DOMAIN label_fixups' : label_fixups'[k].label \in DOMAIN label_offsets'
    BY <1>1
  <2> QED BY <2>3, <2>4, <2>8, <2>9, <2>10, <2>11, <2>12 DEF LayoutInv
<1> QED BY <1>9, <1>10

\* Every step keeps the invariant.
LEMMA LayoutStep == LayoutInv /\ [Next]_vars => LayoutInv'
<1> SUFFICES ASSUME LayoutInv, [Next]_vars PROVE LayoutInv'
  OBVIOUS
<1>0. WriterInv'
  BY WriterStep DEF LayoutInv
<1>1. ASSUME NEW n \in Expected, begin_func(n) PROVE LayoutInv'
  BY <1>0, <1>1, BeginStep
<1>2. ASSUME NEW n \in 1 .. 2, write_inst(n) PROVE LayoutInv'
  BY <1>0, <1>2, InstStep
<1>3. ASSUME NEW l \in Labels, label_place(l) PROVE LayoutInv'
  BY <1>0, <1>3, PlaceStep
<1>4. ASSUME NEW kind \in Kinds, NEW l \in Labels, jump_pending(kind, l) PROVE LayoutInv'
  BY <1>0, <1>4, PendingStep
<1>5. ASSUME NEW kind \in Kinds, NEW l \in Labels, jump_back_near(kind, l) PROVE LayoutInv'
  BY <1>0, <1>5, NearStep
<1>6. ASSUME NEW kind \in Kinds, NEW l \in Labels, jump_back_far(kind, l) PROVE LayoutInv'
  BY <1>0, <1>6, FarStep
<1>7. CASE finish_func
  BY <1>0, <1>7, FinishStep
<1>8. CASE handle_fixup
  BY <1>0, <1>8, FixStep
<1>9. CASE flush \/ fatal \/ Stopped \/ UNCHANGED vars
  BY <1>0, <1>9, RestStep
<1> QED BY <1>1, <1>2, <1>3, <1>4, <1>5, <1>6, <1>7, <1>8, <1>9 DEF Next

\* No function is written yet.
LEMMA LayoutInit == Init => LayoutInv
<1> SUFFICES ASSUME Init PROVE LayoutInv
  OBVIOUS
<1>1. WriterInv
  BY WriterAssumption DEF Init, WriterInv, WithinReserve, WriterFields
<1>2. phase = "idle" /\ text = <<>> /\ label_offsets = <<>> /\ failed = "none"
  BY DEF Init
<1>3. DOMAIN text = {} /\ DOMAIN label_offsets = {}
  BY <1>2
<1>4. Texts(Writer)
  BY <1>3, FS_EmptySet DEF Texts, Writer
<1> QED BY <1>1, <1>2, <1>3, <1>4 DEF LayoutInv, Labels_right

\* handle_fixups never writes a veneer over anything else, unless a branch
\* directly behind a region takes the end of that region for a slot.
THEOREM OverwritesOnlyBehindAlways == Spec => []OverwritesOnlyBehind
<1>1. LayoutInv => OverwritesOnlyBehind
  <2>1. phase \in {"emit", "fixups", "idle", "fatal"} /\ LayoutInv => failed = "none"
    BY DEF LayoutInv
  <2>2. phase = "assert" /\ LayoutInv => OverwritesOnlyBehind
    BY DEF LayoutInv
  <2>3. LayoutInv => phase \in {"emit", "fixups", "idle", "fatal", "assert"}
    BY DEF LayoutInv
  <2> QED BY <2>1, <2>2, <2>3 DEF OverwritesOnlyBehind
<1> QED BY <1>1, LayoutInit, LayoutStep, PTL DEF Spec

\* In a finished function the patched branches go to their labels, or to slots
\* of regions that do, however many regions more_space inserted.
THEOREM BranchesLeadAlways == Spec => []BranchesLead
<1>1. LayoutInv => BranchesLead
  BY DEF LayoutInv, BranchesLead, Reached
<1> QED BY <1>1, LayoutInit, LayoutStep, PTL DEF Spec

\* more_space inserts its regions early enough, if no more memory is reserved
\* at a time than a test branch reaches, less a slot for each branch: every
\* branch that is too far from its label has a slot within reach.
THEOREM NearSufficesAlways == Spec => []NearSuffices
<1>1. LayoutInv => NearSuffices
  BY DEF LayoutInv, NearSuffices, Small
<1> QED BY <1>1, LayoutInit, LayoutStep, PTL DEF Spec
====
