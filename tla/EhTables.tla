------------------------------ MODULE EhTables ------------------------------
(***************************************************************************)
(* The unwind tables that AssemblerElf writes: .eh_frame (one CIE per run  *)
(* of functions with the same personality, one FDE per function) and       *)
(* .gcc_except_table (call sites, actions and types of each function), and *)
(* what the unwinder and the personality routine read in them.             *)
(*                                                                         *)
(* a.eh is what eh_writer has written and finalize will store in the       *)
(* section.  Byte layouts are the code's; a field of four bytes is held in *)
(* its first byte.  CFA instructions are bytes that no property reads.     *)
(***************************************************************************)
EXTENDS ElfObject

CONSTANTS CieInstrs,   \* target_info.cie_instrs.size()
          FdeInstrs    \* bytes of CFA instructions of a function

ASSUME EhAssumption == CieInstrs \in Nat /\ FdeInstrs \in Nat

Omit == 255                        \* DW_EH_PE_omit
PcrelIndirect == 155               \* DW_EH_PE_pcrel, sdata4, indirect
Pcrel == 27                        \* DW_EH_PE_pcrel, sdata4
zR == <<122, 82, 0>>               \* the augmentation strings
zPLR == <<122, 80, 76, 82, 0>>

----------------------------------------------------------------------------
(***************************************************************************)
(* LEB128.                                                                 *)
(***************************************************************************)
RECURSIVE uleb_write(_), sleb_write(_)
uleb_write(v) == IF v < 128 THEN <<v>> ELSE <<128 + (v % 128)>> \o uleb_write(v \div 128)
uleb_len(v) == Len(uleb_write(v))
\* The sign is looked for in what is left of the value, not in the byte written
\* (bit 6 of which is the sign to a reader): either of 0 and -1 ends the number.
sleb_write(v) == IF v \div 128 \in {0, -1} THEN <<v % 128>>
                 ELSE <<128 + (v % 128)>> \o sleb_write(v \div 128)

----------------------------------------------------------------------------
(***************************************************************************)
(* .eh_frame.                                                              *)
(***************************************************************************)
eh_align_frame(a) == [a EXCEPT !.eh = @ \o Zeros(align_up(Len(@), 8) - Len(@))]

eh_init_cie(a, personality) ==
    LET off  == Len(a.eh)
        head == U32(0) \o U32(0) \o <<1>>
                \o (IF personality = 0 THEN zR ELSE zPLR)
                \o <<1, -8, 16>>
                \o (IF personality = 0 THEN <<1>> ELSE <<7>>)
        ptr  == off + Len(head) + 1
        b    == IF personality = 0 THEN a
                ELSE reloc_sec(a, a.ref["eh_frame"], personality, "PC32", ptr, 0)
        body == (IF personality = 0 THEN <<>> ELSE <<PcrelIndirect>> \o U32(0) \o <<Pcrel>>)
                \o <<Pcrel>> \o Zeros(CieInstrs)
        c    == eh_align_frame([b EXCEPT !.eh = @ \o head \o body])
    IN  [c EXCEPT !.cie = off, !.eh[off + 1] = Len(c.eh) - off - 4,
                  !.first_fde = IF off = 0 THEN Len(c.eh) ELSE @]

eh_begin_fde_fault(a, personality) ==
    LET b == IF personality \notin {a.personality, 0}
             THEN [eh_init_cie(a, personality) EXCEPT !.personality = personality] ELSE a
        off == Len(b.eh)
    IN  [b EXCEPT !.eh = @ \o U32(0) \o U32(off - b.cie + 4) \o U32(0) \o U32(0)
                           \o (IF b.personality = 0 THEN <<0>> ELSE <<4>> \o U32(0))]
\* The FDE starts at the end of what b, the tables before it, hold.
eh_begin_fde(a, personality) ==
    LET b == IF personality # a.personality
             THEN [eh_init_cie(a, personality) EXCEPT !.personality = personality] ELSE a
        off == Len(b.eh)
    IN  [b EXCEPT !.eh = @ \o U32(0) \o U32(off - b.cie + 4) \o U32(0) \o U32(0)
                           \o (IF b.personality = 0 THEN <<0>> ELSE <<4>> \o U32(0))]
FdeSize(a) == IF a.personality = 0 THEN 17 ELSE 21

eh_write_insts(a) == [a EXCEPT !.eh = @ \o [i \in 1 .. FdeInstrs |-> 9]]

CloseFde(a, fde, func) ==
    LET sym == sym_ptr(a, func)
    IN  [reloc_sec(a, a.ref["eh_frame"], a.secs[sym_section(a, func)].sym, "PC32", fde + 8, sym.value)
            EXCEPT !.eh[fde + 13] = sym.size, !.eh[fde + 1] = Len(a.eh) - fde - 4]
PointToLsda(a, fde) ==
    reloc_sec(a, a.ref["eh_frame"], a.secs[a.ref["except"]].sym, "PC32", fde + 17,
              Len(a.secs[a.ref["except"]].data))
eh_end_fde(a, fde, func) ==
    LET d == CloseFde(eh_align_frame(a), fde, func)
    IN  IF a.personality = 0 THEN d ELSE PointToLsda(get_or_create_section(d, "except"), fde)

----------------------------------------------------------------------------
(***************************************************************************)
(* .gcc_except_table.  The first entry of the action table is the cleanup, *)
(* which ends chains of actions.                                           *)
(***************************************************************************)
except_begin_func(a) == [a EXCEPT !.sites = <<>>, !.actions = <<0, 0>>, !.types = <<>>, !.spec = <<>>]

except_add_call_site(a, off, len, pad, is_cleanup) ==
    [a EXCEPT !.sites = Append(@, [start |-> off, len |-> len, pad |-> pad,
                                   action |-> IF is_cleanup THEN 0 ELSE Len(a.actions) + 1])]

\* Replaces the 0 after the last action by what leads to the next one.
ChainTo(actions, next) == Front(actions) \o next

except_add_cleanup_action(a) ==
    [a EXCEPT !.actions = ChainTo(@, sleb_write(0 - Len(Front(@))))]

\* except_type_idx_for_sym, and the index of a new type.
TypeIdx(a, type) == IF type = 0 THEN 0
                    ELSE IF Contains(a.types, type) THEN CHOOSE i \in DOMAIN a.types : a.types[i] = type
                    ELSE Len(a.types) + 1

except_add_action(a, first, type) ==
    [a EXCEPT !.actions = (IF first THEN @ ELSE ChainTo(@, <<1>>))
                          \o sleb_write(TypeIdx(a, type) + 1) \o <<0>>,
              !.types = IF TypeIdx(a, type) > Len(@) THEN Append(@, type) ELSE @]

except_add_empty_spec_action(a, first) ==
    [a EXCEPT !.actions = (IF first THEN @ ELSE ChainTo(@, <<1>>)) \o <<127, 0>>,
              !.spec = IF @ = <<>> THEN U32(0) ELSE @]

\* Call sites, with what lies between them and after them as sites without a
\* landing pad.
RECURSIVE EncodeSites(_, _, _, _)
Site(start, len, pad, action) ==
    uleb_write(start) \o uleb_write(len) \o uleb_write(pad) \o uleb_write(action)
EncodeSites(sites, sym, cur, label) ==
    IF sites = <<>>
    THEN (IF cur < sym.value + sym.size
          THEN Site(cur - sym.value, sym.value + sym.size - cur, 0, 0) ELSE <<>>) \o <<0, 0>>
    ELSE LET s == Head(sites)
         IN  (IF s.start > cur THEN Site(cur - sym.value, s.start - cur, 0, 0) ELSE <<>>)
             \o Site(s.start - sym.value, s.len, label[s.pad] - sym.value, s.action)
             \o EncodeSites(Tail(sites), sym, s.start + s.len, label)

RECURSIVE RelocTypes(_, _, _)
RelocTypes(a, types, off) ==
    IF types = <<>> THEN a
    ELSE RelocTypes(reloc_sec(a, a.ref["except"], Head(types), "PC32", off, 0), Tail(types), off - 4)

except_encode_func(a, func, label) ==
    IF a.personality = 0 THEN a
    ELSE LET sec   == a.ref["except"]
             sites == EncodeSites(a.sites, sym_ptr(a, func), sym_ptr(a, func).value, label)
             table == (Len(a.types) + 1) * 4
             info  == table + Len(a.actions) + Len(sites) + uleb_len(Len(sites)) + 1
             b     == [a EXCEPT !.secs[sec].data =
                           @ \o <<Omit, PcrelIndirect>> \o uleb_write(info)
                             \o <<1>> \o uleb_write(Len(sites)) \o sites
                             \o a.actions \o Zeros(table)]
             c     == RelocTypes(b, a.types, Len(b.secs[sec].data) - 8)
         IN  [c EXCEPT !.secs[sec].data = @ \o a.spec]

finalize(a) == [a EXCEPT !.secs[a.ref["eh_frame"]].data = a.eh]

----------------------------------------------------------------------------
(***************************************************************************)
(* The readers: libgcc's unwinder and the C++ personality routine, which   *)
(* the code writes for.  mem is the memory, Byte(mem, p) its content at p. *)
(***************************************************************************)
Byte(mem, p) == IF p \in DOMAIN mem THEN mem[p] ELSE 0

\* A number and the address after it, with at most Fuel bytes.
Fuel == 4
RECURSIVE ReadUleb(_, _, _), ReadSleb(_, _, _)
ReadUleb(mem, p, n) ==
    LET r == ReadUleb(mem, p + 1, n - 1)
    IN  IF Byte(mem, p) < 128 \/ n = 0 THEN <<Byte(mem, p), p + 1>>
        ELSE <<(Byte(mem, p) % 128) + 128 * r[1], r[2]>>
ReadSleb(mem, p, n) ==
    LET r == ReadSleb(mem, p + 1, n - 1)
        b == Byte(mem, p)
    IN  IF b < 128 \/ n = 0 THEN <<IF b >= 64 THEN b - 128 ELSE b, p + 1>>
        ELSE <<(b % 128) + 128 * r[1], r[2]>>

Follow(mem, p) == IF Byte(mem, p) = 0 THEN 0 ELSE p + Byte(mem, p)     \* pcrel
FollowIndirect(mem, p) == IF Byte(mem, p) = 0 THEN 0 ELSE Byte(mem, p + Byte(mem, p))

\* The addresses of the FDEs of a registered frame, up to the terminator.
Fdes(mem, frame) ==
    LET from[p \in Int] == IF Byte(mem, p) <= 0 THEN {}
                           ELSE (IF Byte(mem, p + 4) = 0 THEN {} ELSE {p})
                                \cup from[p + 4 + Byte(mem, p)]
    IN  from[frame]

FuncOf(mem, fde) == Follow(mem, fde + 8)
Covers(mem, fde, pc) == pc >= FuncOf(mem, fde) /\ pc < FuncOf(mem, fde) + Byte(mem, fde + 12)
CieOf(mem, fde) == fde + 4 - Byte(mem, fde + 4)
HasPersonality(mem, fde) == Byte(mem, CieOf(mem, fde) + 10) = zPLR[2]
PersonalityOf(mem, fde) == FollowIndirect(mem, CieOf(mem, fde) + 19)
LsdaOf(mem, fde) == Follow(mem, fde + 17)

\* The clauses of the actions that start at action: a type (0 for any), an
\* empty filter or a cleanup; at most ChainFuel of them.
ChainFuel == 64
Chain(mem, ttbase, action) ==
    LET filter(p) == ReadSleb(mem, p, Fuel)
        next(p)   == ReadSleb(mem, filter(p)[2], Fuel)[1]
        clause(f) == CASE f = 0 -> <<"cleanup">>
                       [] f > 0 -> <<"catch", FollowIndirect(mem, ttbase - 4 * f)>>
                       [] f < 0 -> <<"filter", Byte(mem, ttbase - f - 1)>>
        from[p \in Int, n \in Nat] ==
            <<clause(filter(p)[1])>>
            \o IF next(p) = 0 \/ n = 0 THEN <<>> ELSE from[filter(p)[2] + next(p), n - 1]
    IN  from[action, ChainFuel]

\* The first call site that does not end before rel; the table is a sequence of
\* numbers, four for each site.
FindSite(mem, start, end, rel) ==
    LET from[p \in Int] == IF p >= end THEN <<>>
                           ELSE <<ReadUleb(mem, p, Fuel)[1]>> \o from[ReadUleb(mem, p, Fuel)[2]]
        Find(t) == LET k == CHOOSE k \in 0 .. Len(t) \div 4 :
                               /\ k < Len(t) \div 4 => rel < t[4 * k + 1] + t[4 * k + 2]
                               /\ \A j \in 0 .. k - 1 : rel >= t[4 * j + 1] + t[4 * j + 2]
                   IN  IF k = Len(t) \div 4 \/ rel < t[4 * k + 1] THEN [pad |-> 0, action |-> 0]
                       ELSE [pad |-> t[4 * k + 3], action |-> t[4 * k + 4]]
    IN  CHOOSE s \in {Find(t) : t \in {from[start]}} : TRUE

\* What a throw by the call before pc leads to.
NoHandler == [personality |-> 0, pad |-> 0, clauses |-> <<>>]
NoFde == [personality |-> -1, pad |-> 0, clauses |-> <<>>]
Lsda(mem, lsda, func, pc) ==
    LET info   == ReadUleb(mem, lsda + 2, Fuel)
        ttbase == info[2] + info[1]
        size   == ReadUleb(mem, info[2] + 1, Fuel)
        site   == FindSite(mem, size[2], size[2] + size[1], pc - 1 - func)
    IN  IF site.pad = 0 THEN [pad |-> 0, clauses |-> <<>>]
        ELSE [pad |-> func + site.pad,
              clauses |-> IF site.action = 0 THEN << <<"cleanup">> >>
                          ELSE Chain(mem, ttbase, size[2] + size[1] + site.action - 1)]
Throw(mem, frames, pc) ==
    LET fdes == {f \in UNION {Fdes(mem, p) : p \in frames} : Covers(mem, f, pc - 1)}
        fde  == CHOOSE f \in fdes : TRUE
    IN  IF fdes = {} THEN NoFde
        ELSE IF ~HasPersonality(mem, fde) THEN NoHandler
        ELSE [personality |-> PersonalityOf(mem, fde)]
             @@ Lsda(mem, LsdaOf(mem, fde), FuncOf(mem, fde), pc)
====
