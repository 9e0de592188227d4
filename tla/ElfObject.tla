----------------------------- MODULE ElfObject -----------------------------
(***************************************************************************)
(* The sections, symbols and relocations of Assembler and AssemblerElf,    *)
(* and the object file made of them.                                       *)
(*                                                                         *)
(* The assembler is a record, and each method an operator from assembler   *)
(* to assembler.  SecRefs are indices into secs, SymRefs are indices into  *)
(* locals, or GlobalBit plus an index from 0 into globals; 0 is the        *)
(* invalid reference, which the code keeps for the null section and the    *)
(* null symbol.  A byte of data is a number; a field of more bytes is held *)
(* in its first one.  Names are strings; the string tables are left out.   *)
(* Op_fault is a faulty variant of Op.                                     *)
(***************************************************************************)
EXTENDS Integers, Sequences, FiniteSets, SequencesExt

CONSTANTS
    LoReserve,   \* SHN_LORESERVE, scaled down
    GlobalBit    \* 0x8000'0000, scaled down

ASSUME ObjectAssumption == LoReserve \in Nat \ {0} /\ GlobalBit \in Nat \ {0}

XIndex == 0 - 1                       \* SHN_XINDEX
Undef  == 0                           \* SHN_UNDEF
PredefCount == 4                      \* predef_sec_count() without the null section

align_up(n, k) == ((n + k - 1) \div k) * k
Zeros(n) == [i \in 1 .. n |-> 0]
U32(v) == <<v, 0, 0, 0>>
U64(v) == <<v, 0, 0, 0, 0, 0, 0, 0>>

NewSection(type, flags) ==
    [type |-> type, flags |-> flags, data |-> <<>>, vsize |-> 0, align |-> 1, sym |-> 0,
     relocs |-> <<>>, has_relocs |-> FALSE]
SecSize(sec) == IF sec.type = "NOBITS" THEN sec.vsize ELSE Len(sec.data)

----------------------------------------------------------------------------
(***************************************************************************)
(* Symbols.                                                                *)
(***************************************************************************)
sym_is_local(s) == s < GlobalBit
sym_idx(s) == s % GlobalBit
sym_ptr(a, s) == IF sym_is_local(s) THEN a.locals[s] ELSE a.globals[sym_idx(s) + 1]
SetSym(a, s, sym) == IF sym_is_local(s) THEN [a EXCEPT !.locals[s] = sym]
                     ELSE [a EXCEPT !.globals[sym_idx(s) + 1] = sym]

\* The table of large section indices grows to the symbol's index.
SetAt(t, i, v) == [k \in 1 .. (IF i > Len(t) THEN i ELSE Len(t)) |->
                      IF k = i THEN v ELSE IF k <= Len(t) THEN t[k] ELSE 0]
sec_is_xindex(ref) == ref >= LoReserve
sym_def_xindex(a, s, ref) ==
    IF sym_is_local(s) THEN [a EXCEPT !.lshndx = SetAt(@, sym_idx(s) + 1, ref)]
    ELSE [a EXCEPT !.gshndx = SetAt(@, sym_idx(s) + 1, ref)]

sym_section(a, s) ==
    IF sym_ptr(a, s).shndx # XIndex THEN sym_ptr(a, s).shndx
    ELSE (IF sym_is_local(s) THEN a.lshndx ELSE a.gshndx)[sym_idx(s) + 1]

sym_add(a, name, bind, type) ==
    LET sym == [name |-> name, bind |-> bind, type |-> type, shndx |-> Undef,
                value |-> 0, size |-> 0]
    IN  IF bind = "LOCAL" THEN [a EXCEPT !.locals = Append(@, sym)]
        ELSE [a EXCEPT !.globals = Append(@, sym)]
\* ... and the reference it returns.
sym_added(a, bind) == IF bind = "LOCAL" THEN Len(a.locals) + 1 ELSE GlobalBit + Len(a.globals)

sym_def(a, s, ref, pos, size) ==
    LET b == SetSym(a, s, [sym_ptr(a, s) EXCEPT !.value = pos, !.size = size,
                               !.shndx = IF sec_is_xindex(ref) THEN XIndex ELSE ref])
    IN  IF sec_is_xindex(ref) THEN sym_def_xindex(b, s, ref) ELSE b

sym_copy_fault(a, dst, src) ==
    SetSym(a, dst, [sym_ptr(a, dst) EXCEPT !.shndx = sym_ptr(a, src).shndx,
                        !.size = sym_ptr(a, src).size, !.value = sym_ptr(a, src).value])
sym_copy(a, dst, src) ==
    LET b == SetSym(a, dst, [sym_ptr(a, dst) EXCEPT !.shndx = sym_ptr(a, src).shndx,
                        !.size = sym_ptr(a, src).size, !.value = sym_ptr(a, src).value])
    IN  IF sym_ptr(a, src).shndx = XIndex THEN sym_def_xindex(b, dst, sym_section(a, src)) ELSE b

----------------------------------------------------------------------------
(***************************************************************************)
(* Sections and relocations.                                               *)
(***************************************************************************)
reloc_sec(a, ref, sym, type, off, addend) ==
    [a EXCEPT !.secs[ref].relocs =
        Append(@, [off |-> off, sym |-> sym, type |-> type, addend |-> addend])]

\* A section and, with_rela, the section number after it for its relocations.
AddSection(a, type, flags, with_rela) ==
    [a EXCEPT !.secs = @ \o <<NewSection(type, flags)>>
                         \o (IF with_rela THEN <<NewSection("RESERVED", {})>> ELSE <<>>)]

create_section_symbol(a, ref) ==
    LET s == sym_added(a, "LOCAL")
        b == sym_add(a, "section", "LOCAL", "SECTION")
    IN  [sym_def(b, s, ref, 0, 0) EXCEPT !.secs[ref].sym = s]

\* create_section: a section of a group is listed in it, with its relocations.
create_section(a, type, flags, with_rela, group) ==
    LET ref == Len(a.secs) + 1
        b   == AddSection(a, type, flags \cup IF group = 0 THEN {} ELSE {"GROUP"}, with_rela)
        c   == IF group = 0 THEN b
               ELSE [b EXCEPT !.secs[group].data =
                         @ \o <<ref>> \o (IF with_rela THEN <<ref + 1>> ELSE <<>>)]
    IN  [create_section_symbol(c, ref) EXCEPT !.secs[ref].has_relocs = with_rela]

create_structor_section(a, init, group) ==
    LET b == create_section(a, IF init THEN "INIT_ARRAY" ELSE "FINI_ARRAY",
                            {"ALLOC", "WRITE"}, TRUE, group)
    IN  [b EXCEPT !.secs[Len(a.secs) + 1].align = 8]

create_group_section(a, signature, is_comdat) ==
    LET b == AddSection(a, "GRP", {}, FALSE)
    IN  [b EXCEPT !.secs[Len(b.secs)] =
            [@ EXCEPT !.align = 4, !.sym = signature, !.data = <<IF is_comdat THEN 1 ELSE 0>>]]

\* The sections that are made at their first use.
Default(kind) ==
    CASE kind = "text"     -> [type |-> "PROGBITS", flags |-> {"ALLOC", "EXEC"}, align |-> 16]
      [] kind = "eh_frame" -> [type |-> "PROGBITS", flags |-> {"ALLOC"}, align |-> 8]
      [] kind = "except"   -> [type |-> "PROGBITS", flags |-> {"ALLOC"}, align |-> 8]
      [] kind = "rodata"   -> [type |-> "PROGBITS", flags |-> {"ALLOC"}, align |-> 1]
      [] kind \in {"relro", "data"} -> [type |-> "PROGBITS", flags |-> {"ALLOC", "WRITE"}, align |-> 1]
      [] kind = "bss"      -> [type |-> "NOBITS", flags |-> {"ALLOC", "WRITE"}, align |-> 1]
      [] kind = "tdata"    -> [type |-> "PROGBITS", flags |-> {"ALLOC", "WRITE", "TLS"}, align |-> 1]
      [] kind = "tbss"     -> [type |-> "NOBITS", flags |-> {"ALLOC", "WRITE", "TLS"}, align |-> 1]
DefaultKinds == {"text", "eh_frame", "except", "rodata", "relro", "data", "bss", "tdata", "tbss"}

get_or_create_section(a, kind) ==
    IF a.ref[kind] # 0 THEN a
    ELSE LET ref  == Len(a.secs) + 1
             rela == Default(kind).type # "NOBITS"
             b    == create_section_symbol(
                         AddSection(a, Default(kind).type, Default(kind).flags, rela), ref)
         IN  [b EXCEPT !.ref[kind] = ref, !.secs[ref].align = Default(kind).align,
                       !.secs[ref].has_relocs = rela]

DataKind(rodata, relro) == IF ~rodata THEN "data" ELSE IF relro THEN "relro" ELSE "rodata"

\* Where the next definition with this alignment goes.
NextPos(a, ref, align) == align_up(SecSize(a.secs[ref]), align)
Realign(sec, align) == [sec EXCEPT !.align = IF align > @ THEN align ELSE @]

sym_def_predef_data(a, ref, s, data, align) ==
    LET pos == NextPos(a, ref, align)
        b   == sym_def(a, s, ref, pos, Len(data))
        pad == pos - SecSize(a.secs[ref])
    IN  [b EXCEPT !.secs[ref] = [Realign(@, align) EXCEPT !.data = @ \o Zeros(pad) \o data]]

sym_def_predef_zero(a, ref, s, size, align) ==
    LET pos == NextPos(a, ref, align)
        b   == sym_def(a, s, ref, pos, size)
        pad == pos - SecSize(a.secs[ref])
    IN  [b EXCEPT !.secs[ref] =
            IF @.type = "NOBITS" THEN [Realign(@, align) EXCEPT !.vsize = pos + size]
            ELSE [Realign(@, align) EXCEPT !.data = @ \o Zeros(pad + size)]]

\* A new assembler, and init_sections.  reset leaves the tables of large
\* section indices as they are.
NoSections == [k \in DefaultKinds |-> 0]
init_sections(x64, lshndx, gshndx) ==
    LET a == [x64 |-> x64, secs |-> [i \in 1 .. PredefCount |-> NewSection("NULL", {})], locals |-> <<>>,
              globals |-> <<>>, lshndx |-> lshndx, gshndx |-> gshndx, ref |-> NoSections,
              eh |-> <<>>, cie |-> 0, first_fde |-> 0, personality |-> 0,
              sites |-> <<>>, actions |-> <<>>, types |-> <<>>, spec |-> <<>>]
    IN  get_or_create_section(get_or_create_section(a, "text"), "eh_frame")

----------------------------------------------------------------------------
(***************************************************************************)
(* build_object_file.                                                      *)
(***************************************************************************)
\* Indices of symbols count from the null symbol.
LocalCount(a) == Len(a.locals) + 1
LargeObject(a) == Len(a.secs) + 1 >= LoReserve
SymbolNumber(a, s) ==
    IF sym_is_local(s) THEN s ELSE (s + GlobalBit + LocalCount(a)) % (2 * GlobalBit)

Header(a, i) ==
    LET sec == a.secs[i]
    IN  [type |-> sec.type, flags |-> sec.flags, size |-> SecSize(sec), align |-> sec.align,
         data |-> sec.data, info |-> IF sec.type = "GRP" THEN SymbolNumber(a, sec.sym) ELSE 0]
\* The relocation section i of section i - 1.
RelaHeader(a, i) ==
    LET sec == a.secs[i - 1]
    IN  [type |-> "RELA", flags |-> sec.flags \cap {"GROUP"}, size |-> Len(sec.relocs), align |-> 8,
         data |-> [k \in DOMAIN sec.relocs |->
                      [sec.relocs[k] EXCEPT !.sym = SymbolNumber(a, sec.relocs[k].sym)]],
         info |-> i - 1]

\* The large section indices, filled up to the number of symbols.
FillUp(t, n) == t \o Zeros(n - Len(t))

build_object_file(a) ==
    [shdrs |-> [i \in 1 .. Len(a.secs) |->
                   IF i > 1 /\ a.secs[i].type = "RESERVED" THEN RelaHeader(a, i) ELSE Header(a, i)],
     symtab |-> a.locals \o a.globals,
     first_global |-> LocalCount(a),
     shndx |-> IF LargeObject(a)
               THEN FillUp(a.lshndx, LocalCount(a)) \o FillUp(a.gshndx, Len(a.globals)) ELSE <<>>]

\* What build_object_file needs: no large indices of an earlier module, neither
\* without a table for them nor more than the table has room for.
CanBuild(a) ==
    /\ ~LargeObject(a) => a.lshndx = <<>> /\ a.gshndx = <<>>
    /\ Len(a.lshndx) <= LocalCount(a) /\ Len(a.gshndx) <= Len(a.globals)
====
