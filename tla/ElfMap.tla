------------------------------- MODULE ElfMap -------------------------------
(***************************************************************************)
(* ElfMapper: an assembler's sections are laid out by permission, copied   *)
(* into fresh memory, relocated, protected, and their unwind information   *)
(* is registered.                                                          *)
(*                                                                         *)
(* The operating system and libgcc are a record os with the mapped ranges, *)
(* the memory and the registered frames.  A mapper is a record with        *)
(* mapped_addr, mapped_size, registered_frame_off and sym_addrs.           *)
(***************************************************************************)
EXTENDS EhTables, ModuleIR

CONSTANTS
    PageSize,     \* getpagesize()
    AdrPage,      \* 0x1000, what adrp counts in
    Range32,      \* 2^31
    Range28       \* 2^27

ASSUME MapAssumption ==
    {PageSize, AdrPage, Range32, Range28} \subseteq Nat \ {0}

PLT_ENTRY_SIZE == 16
JmpSlot == 0 - 1             \* the jump through the address 8 bytes further
NoFlags == {"none"}

Fits(v, range) == v >= 0 - range /\ v < range
Truncate(v, range) == ((v + range) % (2 * range)) - range
align_down(n, k) == (n \div k) * k

----------------------------------------------------------------------------
(***************************************************************************)
(* The layout.                                                             *)
(***************************************************************************)
sort_key(sec) == (IF "EXEC" \in sec.flags THEN 0 ELSE 4) + (IF "WRITE" \in sec.flags THEN 2 ELSE 0)
                 + (IF sec.type = "NOBITS" THEN 1 ELSE 0)
alloc_sections(a) ==
    LET key(k) == SelectSeq([i \in DOMAIN a.secs |-> i],
                            LAMBDA i : "ALLOC" \in a.secs[i].flags /\ sort_key(a.secs[i]) = k)
    IN  FoldLeft(LAMBDA s, k : s \o key(k), <<>>, [i \in 1 .. 8 |-> i - 1])

got_plt_slot_count(a) == LocalCount(a) + Len(a.globals)

\* Where the section goes when off bytes are taken and flags were last.
Place(off, flags, sec) ==
    IF flags # sec.flags THEN align_up(off, PageSize) ELSE align_up(off, sec.align)

Layout(a) ==
    LET Add(l, i) ==
            LET addr == Place(l.off, l.flags, a.secs[i])
                size == SecSize(a.secs[i]) + IF i = a.ref["eh_frame"] THEN 4 ELSE 0
            IN  [off |-> addr + size, flags |-> a.secs[i].flags, addr |-> [l.addr EXCEPT ![i] = addr],
                 perm |-> IF l.flags = a.secs[i].flags THEN l.perm
                          ELSE Append(l.perm, [from |-> addr, flags |-> a.secs[i].flags])]
        plt == [off |-> got_plt_slot_count(a) * PLT_ENTRY_SIZE, flags |-> {"ALLOC", "EXEC"},
                addr |-> [i \in DOMAIN a.secs |-> 0],
                perm |-> <<[from |-> 0, flags |-> {"ALLOC", "EXEC"}]>>]
        l   == FoldLeft(Add, plt, alloc_sections(a))
    IN  [l EXCEPT !.perm = Append(@, [from |-> l.off, flags |-> NoFlags])]

----------------------------------------------------------------------------
(***************************************************************************)
(* Addresses and relocations.  A link has the memory written so far, the   *)
(* addresses found, the slots and success.                                 *)
(***************************************************************************)
AllSyms(a) == (1 .. Len(a.locals)) \cup {GlobalBit + i : i \in 0 .. Len(a.globals) - 1}

\* The address sym_addr finds.
AddrOf(a, lay, base, resolver, s) ==
    IF sym_ptr(a, s).shndx = Undef THEN resolver[sym_ptr(a, s).name]
    ELSE base + lay.addr[sym_section(a, s)] + sym_ptr(a, s).value

Write(k, pc, v) == [k EXCEPT !.mem[pc] = v]
Write32(k, pc, v) == [Write(k, pc, Truncate(v, Range32)) EXCEPT !.success = @ /\ Fits(v, Range32)]

\* The slot of a symbol, made at its first use.
plt_entry(k, s, addr) ==
    IF k.slot[s] # 0 THEN k
    ELSE [k EXCEPT !.slot[s] = k.next, !.next = @ + PLT_ENTRY_SIZE,
                   !.mem[k.next] = JmpSlot, !.mem[k.next + 8] = addr]

resolve_reloc_x64_fault(k, pc, rel, sym) ==
    LET syma == sym + rel.addend
        plt  == plt_entry(k, rel.sym, sym)
        got  == plt.slot[rel.sym] + 8
    IN  CASE rel.type = "64" -> Write(k, pc, syma)
          [] rel.type = "PC32" -> Write32(k, pc, syma - pc)
          [] rel.type = "PLT32" -> IF Fits(syma - pc, Range32) THEN Write32(k, pc, syma - pc)
                                   ELSE Write32(plt, pc, plt.slot[rel.sym] - pc)
          [] rel.type = "GOTPCREL" -> Write32(plt, pc, got + rel.addend - pc)
          [] OTHER -> [k EXCEPT !.success = FALSE]
resolve_reloc_x64(k, pc, rel, sym) ==
    LET syma == sym + rel.addend
        plt  == plt_entry(k, rel.sym, sym)
        got  == plt.slot[rel.sym] + 8
    IN  CASE rel.type = "64" -> Write(k, pc, syma)
          [] rel.type = "PC32" -> Write32(k, pc, syma - pc)
          [] rel.type = "PLT32" -> IF Fits(syma - pc, Range32) THEN Write32(k, pc, syma - pc)
                                   ELSE Write32(plt, pc, plt.slot[rel.sym] + rel.addend - pc)
          [] rel.type = "GOTPCREL" -> Write32(plt, pc, got + rel.addend - pc)
          [] OTHER -> [k EXCEPT !.success = FALSE]

\* A page distance has 33 bits, a call 28; through its slot a call is only
\* checked for 32.
resolve_reloc_a64(k, pc, rel, sym) ==
    LET syma == sym + rel.addend
        plt  == plt_entry(k, rel.sym, sym)
        got  == plt.slot[rel.sym] + 8
        page(x) == align_down(x, AdrPage) - align_down(pc, AdrPage)
        Adrp(l, v) == [Write(l, pc, v) EXCEPT !.success = @ /\ Fits(v, 2 * Range32)]
        near == (syma - pc) % 4 = 0 /\ Fits(syma - pc, Range28)
        v    == IF near THEN syma - pc ELSE plt.slot[rel.sym] + rel.addend - pc
    IN  CASE rel.type = "64" -> Write(k, pc, syma)
          [] rel.type = "PC32" -> Write32(k, pc, syma - pc)
          [] rel.type = "CALL26" -> [Write(IF near THEN k ELSE plt, pc, Truncate(v, Range28))
                                        EXCEPT !.success = @ /\ Fits(v, Range32)]
          [] rel.type = "ADR_PREL_PG_HI21" -> Adrp(k, page(syma))
          [] rel.type = "ADD_ABS_LO12_NC" -> Write(k, pc, syma % AdrPage)
          [] rel.type = "ADR_GOT_PAGE" -> Adrp(plt, page(got))
          [] rel.type = "LD64_GOT_LO12_NC" -> Write(plt, pc, got % AdrPage)
          [] OTHER -> [k EXCEPT !.success = FALSE]

resolve_reloc(x64, k, pc, rel, sym) ==
    IF x64 THEN resolve_reloc_x64(k, pc, rel, sym) ELSE resolve_reloc_a64(k, pc, rel, sym)

Link(a, lay, base, resolver) ==
    LET secs == {i \in Range(alloc_sections(a)) : a.secs[i].type # "NOBITS"}
        content(p) == LET at == {i \in secs :
                                    p \in lay.addr[i] .. lay.addr[i] + Len(a.secs[i].data) - 1}
                      IN  IF at = {} THEN 0
                          ELSE LET i == CHOOSE i \in at : TRUE IN a.secs[i].data[p - lay.addr[i] + 1]
        start == [mem |-> [p \in base .. base + lay.off - 1 |-> content(p - base)],
                  known |-> {s \in AllSyms(a) : s >= GlobalBit /\ sym_ptr(a, s).shndx # Undef},
                  slot |-> [s \in AllSyms(a) |-> 0], next |-> base, success |-> TRUE]
        Section(k, i) ==
            FoldLeft(LAMBDA l, rel :
                        [resolve_reloc(a.x64, l, base + lay.addr[i] + rel.off, rel,
                                       AddrOf(a, lay, base, resolver, rel.sym))
                            EXCEPT !.known = @ \cup {rel.sym}],
                     k, a.secs[i].relocs)
    IN  FoldLeft(Section, start, alloc_sections(a))

----------------------------------------------------------------------------
(***************************************************************************)
(* map and reset.                                                          *)
(***************************************************************************)
NewMapper == [mapped_addr |-> 0, mapped_size |-> 0, registered_frame_off |-> 0,
              sym_addrs |-> <<>>]
NewOS == [mem |-> <<>>, prot |-> <<>>, frames |-> {}]

munmap(os, addr, size) ==
    LET rest(f) == [p \in DOMAIN f \ (addr .. addr + size - 1) |-> f[p]]
    IN  [os EXCEPT !.mem = rest(@), !.prot = rest(@)]
\* libgcc ignores a frame without FDEs.
__register_frame(os, p) == IF Byte(os.mem, p) = 0 THEN os ELSE [os EXCEPT !.frames = @ \cup {p}]
__deregister_frame(os, p) == IF Byte(os.mem, p) = 0 THEN os ELSE [os EXCEPT !.frames = @ \ {p}]

reset_fault(mapper, os) ==
    [mapper |-> [mapper EXCEPT !.mapped_addr = 0, !.sym_addrs = <<>>],
     os |-> munmap(os, mapper.mapped_addr, mapper.mapped_size)]
reset(mapper, os) ==
    IF mapper.mapped_addr = 0 THEN [mapper |-> mapper, os |-> os]
    ELSE LET os1 == IF mapper.registered_frame_off = 0 THEN os
                    ELSE __deregister_frame(os, mapper.mapped_addr + mapper.registered_frame_off)
         IN  [mapper |-> [mapper EXCEPT !.mapped_addr = 0, !.sym_addrs = <<>>],
              os |-> munmap(os1, mapper.mapped_addr, mapper.mapped_size)]

\* What the ranges of the layout are protected to; whole pages are.
Prot(flags) == {"READ"} \cup (IF "EXEC" \in flags THEN {"EXEC"} ELSE {})
                        \cup (IF "WRITE" \in flags THEN {"WRITE"} ELSE {})
mprotect(os, base, from, to, prot) ==
    [os EXCEPT !.prot = [p \in DOMAIN @ |->
        IF p >= base + from /\ p < base + align_up(to, PageSize) THEN prot ELSE @[p]]]

\* env gives the address that mmap finds, or 0, the call of mprotect that
\* fails, or 0, and what the resolver answers.
MapFails(mapper, os) ==
    [success |-> FALSE, mapper |-> reset(mapper, os).mapper, os |-> reset(mapper, os).os]
Protected(os, base, perm) ==
    FoldLeft(LAMBDA o, i : mprotect(o, base, perm[i].from, perm[i + 1].from, Prot(perm[i].flags)),
             os, [i \in 1 .. Len(perm) - 1 |-> i])
MapLinked(mapper, os, a, env, lay, link) ==
    LET m1   == [mapper EXCEPT !.mapped_addr = env.base, !.mapped_size = lay.off,
                     !.sym_addrs = [s \in AllSyms(a) |->
                         IF s \in link.known THEN AddrOf(a, lay, env.base, env.resolver, s) ELSE 0]]
        os1  == [os EXCEPT !.mem = link.mem @@ @,
                           !.prot = [p \in DOMAIN link.mem |-> {"READ", "WRITE"}] @@ @]
        off  == lay.addr[a.ref["eh_frame"]] + a.first_fde
    IN  IF ~link.success \/ env.failing \in 1 .. Len(lay.perm) - 1 THEN MapFails(m1, os1)
        ELSE [success |-> TRUE, mapper |-> [m1 EXCEPT !.registered_frame_off = off],
              os |-> __register_frame(Protected(os1, env.base, lay.perm), env.base + off)]
MapLaidOut(mapper, os, a, env, lay) ==
    MapLinked(mapper, os, a, env, lay, Link(a, lay, env.base, env.resolver))
map(mapper, os, a, env) ==
    IF env.base = 0 THEN [success |-> FALSE, mapper |-> [mapper EXCEPT !.mapped_addr = 0], os |-> os]
    ELSE MapLaidOut(mapper, os, a, env, Layout(a))

get_sym_addr(mapper, s) == mapper.sym_addrs[s]
====
