----------------------------- MODULE JitModule -----------------------------
(***************************************************************************)
(* From a module to an object file or to mapped code: the parts of         *)
(* CompilerBase::compile and of LLVMCompilerBase that create symbols,      *)
(* initialise data, choose sections, and emit the references and unwind    *)
(* tables of functions; compile_to_elf, compile_and_map, and the life of a *)
(* JITMapper.  One compiler compiles several modules, one after another.   *)
(*                                                                         *)
(* com is what the compiler keeps: the assembler a, global_syms,           *)
(* group_secs, type_info_syms, personality_syms, libfunc_syms,             *)
(* used_globals and the text writer.  The tables are functions from names. *)
(***************************************************************************)
EXTENDS ElfMap

CONSTANTS
    Modules,       \* the modules given to the compiler
    MaxCompiles,   \* bound on the modules compiled
    Spread,        \* distance of the addresses at which mmap finds room
    Resolvers      \* what the client's resolver may answer, functions from names

VARIABLES
    count,         \* compilations so far
    phase,         \* what the compiler does next
    mod,           \* the module, adaptor->mod
    next,          \* the index of the next function
    com,
    success,       \* no function failed yet
    buf,           \* the object file built of the module
    os,            \* memory and registered frames
    mappers,       \* the client's JITMappers, by the number of the compilation
    catches        \* what the unwinder finds in os for throws through their calls

vars == <<count, phase, mod, next, com, success, buf, os, mappers, catches>>

Images == 1 .. MaxCompiles
NoFile == [symtab |-> <<>>]
ObjectOf(m, name) == CHOOSE g \in Range(m.vars \o m.funcs \o m.aliases) : g.name = name
Named(m, name) == \E g \in Range(m.vars \o m.funcs \o m.aliases) : g.name = name

----------------------------------------------------------------------------
(***************************************************************************)
(* Symbols and sections.                                                   *)
(***************************************************************************)
convert_linkage(g) == CASE g.link = "local" -> "LOCAL"
                        [] g.link \in {"weak", "extern_weak"} -> "WEAK"
                        [] OTHER -> "GLOBAL"

\* canBenefitFromLocalAlias is LLVM's; the modules here have default visibility.
canBenefitFromLocalAlias(m, g) ==
    g.link = "external" /\ ~g.decl /\ ~(g.comdat # "" /\ m.comdats[g.comdat] = "any")
use_local_access(m, g) ==
    g.dso_local /\ g.link # "extern_weak" /\ ~canBenefitFromLocalAlias(m, g)

Declare(c, g, type) ==
    [c EXCEPT !.a = sym_add(c.a, g.name, convert_linkage(g), type),
              !.gsyms = (g.name :> sym_added(c.a, convert_linkage(g))) @@ @]

get_libfunc_sym(c, name) ==
    IF name \in DOMAIN c.libs THEN c
    ELSE [c EXCEPT !.a = sym_add(c.a, name, "GLOBAL", "NOTYPE"),
                   !.libs = (name :> sym_added(c.a, "GLOBAL")) @@ @]

\* The group section of g's comdat is c.groups[g.comdat] afterwards.
InGroup(m, g) == g.comdat # "" /\ m.comdats[g.comdat] # "other"
get_group_section(c, m, g, hint) ==
    IF ~InGroup(m, g) \/ g.comdat \in DOMAIN c.groups THEN c
    ELSE LET own  == hint # 0 /\ g.name = g.comdat
             new  == ~own /\ ~Named(m, g.comdat)
             b    == IF new THEN sym_add(c.a, g.comdat, "LOCAL", "NOTYPE") ELSE c.a
             sym  == IF own THEN hint ELSE IF new THEN sym_added(c.a, "LOCAL") ELSE c.gsyms[g.comdat]
             d    == create_group_section(b, sym, m.comdats[g.comdat] = "any")
             ref  == Len(d.secs)
         IN  [c EXCEPT !.a = IF new THEN sym_def(d, sym, ref, 0, 0) ELSE d,
                       !.groups = (g.comdat :> ref) @@ @]
GroupOf(c, m, g) == IF InGroup(m, g) THEN c.groups[g.comdat] ELSE 0

\* The section for g is sec in what select_section returns.
IsZero(g) == ~g.func /\ g.init.k = "zero"
KindOf(g, needs_relocs) ==
    IF g.func THEN "text"
    ELSE IF g.tls THEN IF IsZero(g) THEN "tbss" ELSE "tdata"
    ELSE IF ~g.const /\ IsZero(g) THEN "bss"
    ELSE DataKind(g.const, needs_relocs)
OwnSection(d, m, g, needs_relocs) ==
    LET default == Default(KindOf(g, needs_relocs))
    IN  [c |-> [d EXCEPT !.a = create_section(@, default.type,
                    default.flags \cup IF g.name \in d.used THEN {"RETAIN"} ELSE {},
                    needs_relocs, GroupOf(d, m, g))],
         sec |-> Len(d.a.secs) + 1]
SharedSection(c, kind) == [c |-> c, sec |-> c.a.ref[kind]]
select_section(c, m, g, needs_relocs) ==
    LET kind == KindOf(g, needs_relocs)
    IN  IF g.name \notin c.used /\ g.comdat = "" /\ ~g.section
        THEN SharedSection([c EXCEPT !.a = get_or_create_section(@, kind)], kind)
        ELSE OwnSection(get_group_section(c, m, g, c.gsyms[g.name]), m, g, needs_relocs)

----------------------------------------------------------------------------
(***************************************************************************)
(* Data: hook_post_func_sym_init.                                          *)
(***************************************************************************)
NoData == [ok |-> TRUE, data |-> <<>>, relocs |-> <<>>]
JoinData(r, s) == [ok |-> r.ok /\ s.ok, data |-> s.data @@ r.data, relocs |-> r.relocs \o s.relocs]
DataReloc(off, type, to, addend) ==
    [NoData EXCEPT !.relocs = <<[off |-> off, type |-> type, to |-> to, addend |-> addend]>>]

\* The bytes and the relocations of the constant k at off.
RECURSIVE global_init_to_data(_, _)
global_init_to_data(k, off) ==
    CASE k.k \in {"zero", "undef"} -> NoData
      [] k.k = "int" -> [NoData EXCEPT !.data = off :> k.v]
      [] k.k = "array" ->
             FoldLeft(LAMBDA r, i : JoinData(r, global_init_to_data(k.elts[i], off + (i - 1) * k.esz)),
                      NoData, [i \in DOMAIN k.elts |-> i])
      [] k.k = "struct" ->
             FoldLeft(LAMBDA r, i : JoinData(r, global_init_to_data(k.elts[i], off + k.offs[i])),
                      NoData, [i \in DOMAIN k.elts |-> i])
      [] k.k = "ptr" -> DataReloc(off, "64", k.to, k.add)
      [] k.k = "rel" -> DataReloc(off, "PC32", k.to, off)
      [] k.k = "fold" -> global_init_to_data(k.elts[1], off)
      [] OTHER -> [NoData EXCEPT !.ok = FALSE]

\* The variable in section s.sec, with the bytes and relocations of init.
DefineVariable(s, g, init) ==
    LET sym   == s.c.gsyms[g.name]
        bytes == [i \in 1 .. g.size |-> IF i - 1 \in DOMAIN init.data THEN init.data[i - 1] ELSE 0]
    IN  IF IsZero(g) THEN sym_def_predef_zero(s.c.a, s.sec, sym, g.size, g.align)
        ELSE sym_def_predef_data(s.c.a, s.sec, sym, bytes, g.align)
PlaceVariable(s, g, init) ==
    LET off == NextPos(s.c.a, s.sec, g.align)
    IN  [s.c EXCEPT !.a =
            FoldLeft(LAMBDA x, rel : reloc_sec(x, s.sec, s.c.gsyms[rel.to], rel.type,
                                               off + rel.off, rel.addend),
                     DefineVariable(s, g, init), init.relocs)]
\* One variable; ok tells whether the variables so far could be initialised.
InitVariable(r, m, g) ==
    LET init == IF IsZero(g) THEN NoData ELSE global_init_to_data(g.init, 0)
    IN  IF ~r.ok \/ g.decl THEN r
        ELSE IF ~init.ok THEN [r EXCEPT !.ok = FALSE]
        ELSE [r EXCEPT !.c = PlaceVariable(select_section(@, m, g, init.relocs # <<>>), g, init)]

\* llvm.global_ctors: one array per group, in the order of the groups.
StructorGroups(c, m) ==
    FoldLeft(LAMBDA d, s : IF s.comdat = "" THEN d
                           ELSE get_group_section(d, m, ObjectOf(m, s.comdat), 0), c, m.ctors)
StructorGroup(c, m, s) == IF s.comdat = "" THEN 0 ELSE GroupOf(c, m, ObjectOf(m, s.comdat))
\* The orders that std::sort, which is not stable, may leave the constructors in.
InGroups(c, m, seq) ==
    {order \in {[i \in DOMAIN seq |-> seq[p[i]]] : p \in Permutations(DOMAIN seq)} :
        \A i \in DOMAIN seq : \A j \in 1 .. i - 1 :
            StructorGroup(c, m, order[j]) <= StructorGroup(c, m, order[i])}
\* An entry at the end of the latest array.
AddStructor(a, sym) ==
    LET ref == CHOOSE k \in DOMAIN a.secs :
                  a.secs[k].type = "INIT_ARRAY" /\ \A j \in k + 1 .. Len(a.secs) :
                                                      a.secs[j].type # "INIT_ARRAY"
    IN  reloc_sec([a EXCEPT !.secs[ref].data = @ \o U64(0)], ref, sym, "64",
                  Len(a.secs[ref].data), 0)
StructorArrays(c, m, order) ==
    LET group(i)  == StructorGroup(c, m, order[i])
        Add(a, i) == AddStructor(IF i = 1 \/ group(i - 1) # group(i)
                                 THEN create_structor_section(a, TRUE, group(i)) ELSE a,
                                 c.gsyms[order[i].name])
    IN  [c EXCEPT !.a = FoldLeft(Add, @, [i \in DOMAIN order |-> i])]
Structors(c, m, live) == {StructorArrays(c, m, order) : order \in InGroups(c, m, live)}
InitStructors(r, m) ==
    LET live == SelectSeq(m.ctors, LAMBDA s : s.comdat = "" \/ ~ObjectOf(m, s.comdat).decl)
    IN  IF ~r.ok THEN {r}
        ELSE IF \E s \in Range(live) : s.prio # 65535 THEN {[r EXCEPT !.ok = FALSE]}
        ELSE {[r EXCEPT !.c = c] :
                 c \in Structors(StructorGroups(r.c, [m EXCEPT !.ctors = live]), m, live)}

\* What the data of the module may be initialised to.
Globals(c, m) ==
    LET used == [c EXCEPT !.used = @ \cup m.used]
        d == FoldLeft(LAMBDA x, g : Declare(x, g, IF g.tls THEN "TLS" ELSE IF g.decl THEN "NOTYPE"
                                                  ELSE "OBJECT"), used, m.vars)
        e == FoldLeft(LAMBDA x, g : Declare(x, g, "OBJECT"), d, m.aliases)
        r == FoldLeft(LAMBDA x, g : InitVariable(x, m, g), [ok |-> TRUE, c |-> e], m.vars)
    IN  InitStructors(r, m)

----------------------------------------------------------------------------
(***************************************************************************)
(* Functions.                                                              *)
(***************************************************************************)
TextOff(c) == Len(c.tw.data)
Emit(c, n) == [c EXCEPT !.tw.data = @ \o Zeros(n)]
reloc_text(c, sym, type, off, addend) ==
    [c EXCEPT !.a = reloc_sec(@, c.tw.sec, sym, type, off, addend)]
flush(c) == [c EXCEPT !.a.secs[c.tw.sec].data = c.tw.data]
switch_section(c, sec) == [c EXCEPT !.tw = [sec |-> sec, data |-> c.a.secs[sec].data]]

CallSymbol(c, x64, sym) ==
    IF x64 THEN reloc_text(Emit(c, CallLen(x64)), sym, "PLT32", TextOff(c) + 1, -4)
    ELSE reloc_text(Emit(c, CallLen(x64)), sym, "CALL26", TextOff(c), 0)

load_address_of_var_reference(c, m, g) ==
    LET sym == c.gsyms[g.name]
        loc == use_local_access(m, g)
    IN  IF m.x64
        THEN reloc_text(Emit(c, 7), sym, IF loc THEN "PC32" ELSE "GOTPCREL", TextOff(c) + 3, -4)
        ELSE reloc_text(
                 reloc_text(Emit(c, 8), sym, IF loc THEN "ADR_PREL_PG_HI21" ELSE "ADR_GOT_PAGE",
                            TextOff(c), 0),
                 sym, IF loc THEN "ADD_ABS_LO12_NC" ELSE "LD64_GOT_LO12_NC", TextOff(c) + 4, 0)

\* A word of read-only data with the address of a symbol, for tables that
\* refer to it indirectly.  Its symbol is the last local one.
AddAddress(c, a, of) ==
    LET ref == a.ref["relro"]
        b   == sym_def_predef_data(sym_add(a, "", "LOCAL", "OBJECT"), ref, sym_added(a, "LOCAL"),
                                   U64(0), 8)
    IN  [c EXCEPT !.a = reloc_sec(b, ref, of, "64", NextPos(a, ref, 8), 0)]
DefAddress(c, of) == AddAddress(c, get_or_create_section(c.a, DataKind(TRUE, TRUE)), of)
LastLocal(c) == Len(c.a.locals)

KeepTypeInfo(c, type) == [c EXCEPT !.tinfo = (type :> LastLocal(c)) @@ @]
lookup_type_info_sym(c, type) ==
    IF type \in DOMAIN c.tinfo THEN c ELSE KeepTypeInfo(DefAddress(c, c.gsyms[type]), type)

KeepPersonality(c, sym) == [c EXCEPT !.pers = (sym :> LastLocal(c)) @@ @]
get_personality_sym(c, f) ==
    IF f.personality = "" \/ c.gsyms[f.personality] \in DOMAIN c.pers THEN c
    ELSE KeepPersonality(DefAddress(c, c.gsyms[f.personality]), c.gsyms[f.personality])
PersonalitySym(c, f) == IF f.personality = "" THEN 0 ELSE c.pers[c.gsyms[f.personality]]

AddCatch(c, first, type) == [c EXCEPT !.a = except_add_action(@, first, c.tinfo[type])]
AddClause(c, first, clause) ==
    CASE clause = "filter" -> [c EXCEPT !.a = except_add_empty_spec_action(@, first)]
      [] clause = "all" -> [c EXCEPT !.a = except_add_action(@, first, 0)]
      [] OTHER -> AddCatch(lookup_type_info_sym(c, clause), first, clause)

\* A label is the number of a landing pad, or the negative offset that it has.
OnlyCleanup(it) == it.cleanup /\ it.clauses = <<>>
AddSite(c, x64, it, start) ==
    LET len   == CallLen(x64)
        label == IF HasPhi(it) THEN 0 - (TextOff(c) + len) ELSE it.n
        e     == IF HasPhi(it) THEN Emit(c, 2 * len) ELSE c
    IN  [e EXCEPT !.a = except_add_call_site(@, start, TextOff(c) - start, label, OnlyCleanup(it))]
AddClauses(c, it) ==
    FoldLeft(LAMBDA x, i : AddClause(x, i = 1, it.clauses[i]), c, [i \in DOMAIN it.clauses |-> i])
AddCleanup(c, it) ==
    IF it.cleanup /\ ~OnlyCleanup(it) THEN [c EXCEPT !.a = except_add_cleanup_action(@)] ELSE c
compile_invoke(c, x64, it) ==
    AddCleanup(AddClauses(AddSite(CallSymbol(c, x64, c.gsyms[it.to]), x64, it, TextOff(c)), it), it)

\* An item of the body; labels has the offsets of the pads placed.
Invoked(r, c) ==
    LET l == Last(c.a.sites).pad
    IN  [r EXCEPT !.c = c, !.labels = IF l < 0 THEN (l :> 0 - l) @@ @ ELSE @]
CallLib(c, x64, name) == CallSymbol(c, x64, c.libs[name])
CompileItem(r, m, it) ==
    LET c == r.c
    IN  IF ~r.ok THEN r
        ELSE CASE it.op = "call" -> [r EXCEPT !.c = CallSymbol(c, m.x64, c.gsyms[it.to])]
               [] it.op = "libcall" -> [r EXCEPT !.c = CallLib(get_libfunc_sym(c, it.to), m.x64, it.to)]
               [] it.op = "invoke" -> Invoked(r, compile_invoke(c, m.x64, it))
               [] it.op = "addr" ->
                      [r EXCEPT !.c = load_address_of_var_reference(c, m, ObjectOf(m, it.to))]
               [] it.op = "code" -> [r EXCEPT !.c = Emit(c, it.n)]
               [] it.op = "pad" -> [r EXCEPT !.labels = (it.n :> TextOff(c)) @@ @]
               [] OTHER -> [r EXCEPT !.ok = FALSE]

\* The FDE at the end of a, of the function in [start, end) of section sec.
WriteFde(a, sym, sec, start, end) ==
    eh_end_fde(sym_def(eh_write_insts(a), sym, sec, start, end - start), Len(a.eh) - FdeSize(a), sym)
FinishFunc(c, sym, start, labels, personality) ==
    [c EXCEPT !.a = except_encode_func(
        WriteFde(eh_begin_fde(@, personality), sym, c.tw.sec, start, TextOff(c)), sym, labels)]
EndFunc(c, f, start, labels) ==
    FinishFunc(c, c.gsyms[f.name], start, labels, PersonalitySym(c, f))
finish_func(c, f, start, labels) == EndFunc(get_personality_sym(c, f), f, start, labels)

\* The function starts, aligned, behind what is in its section.
BeginFunc(s, f) ==
    LET c == IF s.c.tw.sec # s.sec THEN switch_section(flush(s.c), s.sec) ELSE s.c
    IN  [c EXCEPT !.tw.data = @ \o Zeros(align_up(Len(@), 16) - Len(@)) \o U32(f.id),
                  !.a = except_begin_func(@)]
CompileBody(c, m, f) ==
    FoldLeft(LAMBDA x, it : CompileItem(x, m, it),
             [ok |-> TRUE, c |-> c, labels |-> <<>>, start |-> TextOff(c) - Len(U32(0))], f.body)
Finished(r, f) ==
    IF r.ok THEN [r EXCEPT !.c = finish_func(@, f, r.start, r.labels)] ELSE r
CompileFunc(c, m, f) ==
    Finished(CompileBody(BeginFunc(select_section(c, m, f, TRUE), f), m, f), f)

----------------------------------------------------------------------------
(***************************************************************************)
(* The compiler's steps.                                                   *)
(***************************************************************************)
NewCompiler(x64, used, lshndx, gshndx) ==
    [a |-> eh_init_cie(init_sections(x64, lshndx, gshndx), 0), gsyms |-> <<>>, groups |-> <<>>,
     tinfo |-> <<>>, pers |-> <<>>, libs |-> <<>>, used |-> used, tw |-> [sec |-> 0, data |-> <<>>]]

NoModule == [funcs |-> <<>>]

Init == /\ count = 0 /\ phase = "idle" /\ mod = NoModule /\ next = 1 /\ success = TRUE
        /\ com = NewCompiler(TRUE, {}, <<>>, <<>>)
        /\ buf = NoFile /\ os = NewOS /\ mappers = <<>> /\ catches = <<>>

\* A compiler has one target.  reset of the assembler keeps the tables of large
\* section indices.
compile(m) ==
    /\ count > 0 => m.x64 = com.a.x64
    /\ phase = "idle" /\ count < MaxCompiles /\ count' = count + 1
    /\ LET c == NewCompiler(m.x64, com.used, com.a.lshndx, com.a.gshndx)
           d == FoldLeft(LAMBDA x, f : Declare(x, f, IF f.decl THEN "NOTYPE" ELSE "FUNC"), c, m.funcs)
       IN  com' = switch_section(d, d.a.ref["text"])
    /\ mod' = m /\ next' = 1 /\ success' = TRUE /\ phase' = "globals" /\ buf' = NoFile
    /\ UNCHANGED <<os, mappers, catches>>

hook_post_func_sym_init ==
    /\ phase = "globals"
    /\ \E r \in Globals(com, mod) :
          com' = r.c /\ phase' = IF r.ok THEN "funcs" ELSE "fail"
    /\ UNCHANGED <<count, mod, next, success, buf, os, mappers, catches>>

compile_func ==
    /\ phase = "funcs" /\ next <= Len(mod.funcs)
    /\ next' = next + 1
    /\ IF mod.funcs[next].decl THEN UNCHANGED <<com, success>>
       ELSE \E r \in {CompileFunc(com, mod, mod.funcs[next])} :
               com' = r.c /\ success' = (success /\ r.ok)
    /\ UNCHANGED <<count, phase, mod, buf, os, mappers, catches>>

\* The end of compile, and the definitions of aliases.
compile_end ==
    /\ phase = "funcs" /\ next > Len(mod.funcs)
    /\ LET c == [flush(com) EXCEPT !.a = finalize(@)]
       IN  com' = IF ~success THEN c
                  ELSE [c EXCEPT !.a = FoldLeft(LAMBDA a, g :
                           sym_copy(a, c.gsyms[g.name], c.gsyms[g.target]), @, mod.aliases)]
    /\ phase' = IF success THEN "done" ELSE "fail"
    /\ UNCHANGED <<count, mod, next, success, buf, os, mappers, catches>>

\* compile returned false, and so does what called it; the client may go on.
compile_fails ==
    /\ phase = "fail" /\ phase' = "idle"
    /\ UNCHANGED <<count, mod, next, com, success, buf, os, mappers, catches>>

\* The address of a name for the holder h of a JITMapper: lookup_global, or what
\* the client's resolver answers.
Addr(h, name) == IF Named(h.mod, name) /\ ~ObjectOf(h.mod, name).decl
                 THEN get_sym_addr(h.mapper, h.globals[name]) ELSE h.resolver[name]

\* Where the functions and variables of a live module are, and what the unwinder
\* finds in memory for throws through its calls.
Placement(h) == [mod |-> h.mod,
                 addr |-> [n \in {g.name : g \in Range(h.mod.funcs \o h.mod.vars)} |-> Addr(h, n)]]
Caught(o, h) ==
    UNION {{LET pc == Addr(h, f.name) + ReturnOff(h.mod.x64, f, k)
            IN  <<pc, Throw(o.mem, o.frames, pc)>> : k \in Calls(f)} :
              f \in {f \in Range(Defined(h.mod)) : Addr(h, f.name) # 0}}
CaughtBy(o, holders) == [i \in DOMAIN holders |-> Caught(o, holders[i])]

\* build_object_file asserts that no large index of an earlier module is left.
compile_to_elf ==
    /\ phase = "done"
    /\ IF CanBuild(com.a) THEN phase' = "idle" /\ buf' = build_object_file(com.a)
       ELSE phase' = "assert" /\ UNCHANGED buf
    /\ UNCHANGED <<count, mod, next, com, success, os, mappers, catches>>

\* The effect of a step on the process.
Become(o, holders) == os' = o /\ mappers' = holders /\ catches' = CaughtBy(o, holders)

\* compile_and_map: the resolver, mmap and mprotect are the environment's.  On
\* failure the mapper is destroyed, which resets it once more.
compile_and_map ==
    /\ phase = "done" /\ phase' = "idle"
    /\ \E resolver \in Resolvers, failing \in 0 .. 2, room \in BOOLEAN :
          \E r \in {map(NewMapper, os, com.a,
                        [base |-> IF room THEN count * Spread ELSE 0, failing |-> failing,
                         resolver |-> resolver])} :
             LET h == [mapper |-> r.mapper, globals |-> com.gsyms, mod |-> mod,
                       resolver |-> resolver]
             IN  Become(IF r.success THEN r.os ELSE reset(r.mapper, r.os).os,
                        IF r.success THEN (count :> h) @@ mappers ELSE mappers)
    /\ com' = [com EXCEPT !.gsyms = <<>>]
    /\ UNCHANGED <<count, mod, next, success, buf>>

\* The client destroys a JITMapper.
destroy(i) ==
    /\ phase = "idle" /\ i \in DOMAIN mappers
    /\ Become(reset(mappers[i].mapper, os).os, [j \in DOMAIN mappers \ {i} |-> mappers[j]])
    /\ UNCHANGED <<count, phase, mod, next, com, success, buf>>

Done == (phase = "assert" \/ (phase = "idle" /\ count = MaxCompiles)) /\ UNCHANGED vars

Next == \/ \E m \in Modules : compile(m)
        \/ hook_post_func_sym_init \/ compile_func \/ compile_end \/ compile_fails
        \/ compile_to_elf \/ compile_and_map
        \/ \E i \in Images : destroy(i)
        \/ Done
Spec == Init /\ [][Next]_vars

----------------------------------------------------------------------------
(***************************************************************************)
(* The object file, as a linker reads it.                                  *)
(***************************************************************************)
Symbols(name) == {n \in DOMAIN buf.symtab : buf.symtab[n].name = name}
SymbolOf(name) == CHOOSE n \in Symbols(name) : TRUE
SectionOf(n) == IF buf.symtab[n].shndx = XIndex THEN buf.shndx[n + 1] ELSE buf.symtab[n].shndx

\* The relocations of the bytes off .. off + size - 1 of a section.
RelocsIn(sec, off, size) ==
    UNION {{[r EXCEPT !.off = @ - off] : r \in {r \in Range(buf.shdrs[k].data) :
                                                   r.off >= off /\ r.off < off + size}} :
              k \in {k \in DOMAIN buf.shdrs : buf.shdrs[k].type = "RELA" /\ buf.shdrs[k].info = sec}}
To(off, name, type, addend) == [off |-> off, sym |-> SymbolOf(name), type |-> type, addend |-> addend]

InitRelocs(g) == {LET off == l[1]  k == l[2]
                  IN  To(off, k.to, IF k.k = "ptr" THEN "64" ELSE "PC32",
                         IF k.k = "ptr" THEN k.add ELSE off) :
                     l \in {l \in Leaves(g.init, 0) : l[2].k # "int"}}
InitBytes(g) == [i \in 1 .. g.size |->
                   IF \E l \in Leaves(g.init, 0) : l[1] = i - 1 /\ l[2].k = "int"
                   THEN (CHOOSE l \in Leaves(g.init, 0) : l[1] = i - 1)[2].v ELSE 0]

\* The relocations of calls and addresses in a function's code.
CodeRelocs(m, f) ==
    UNION {LET off == ItemOff(m.x64, f, k)
               it  == f.body[k]
               loc == use_local_access(m, ObjectOf(m, it.to))
           IN  CASE it.op \in {"call", "invoke", "libcall"} ->
                        {IF m.x64 THEN To(off + 1, it.to, "PLT32", -4) ELSE To(off, it.to, "CALL26", 0)}
                 [] it.op = "addr" /\ m.x64 ->
                        {To(off + 3, it.to, IF loc THEN "PC32" ELSE "GOTPCREL", -4)}
                 [] it.op = "addr" /\ ~m.x64 ->
                        {To(off, it.to, IF loc THEN "ADR_PREL_PG_HI21" ELSE "ADR_GOT_PAGE", 0),
                         To(off + 4, it.to, IF loc THEN "ADD_ABS_LO12_NC" ELSE "LD64_GOT_LO12_NC", 0)}
                 [] OTHER -> {} : k \in DOMAIN f.body}
FuncLen(m, f) == ItemOff(m.x64, f, Len(f.body) + 1)

\* A section of a comdat is in the group of this name, with its relocations.
GroupRight(m, g, sec) ==
    LET group == {k \in DOMAIN buf.shdrs : /\ buf.shdrs[k].type = "GRP"
                                           /\ buf.symtab[buf.shdrs[k].info].name = g.comdat}
    IN  IF ~InGroup(m, g) THEN "GROUP" \notin buf.shdrs[sec].flags
        ELSE /\ Cardinality(group) = 1
             /\ LET data == buf.shdrs[CHOOSE k \in group : TRUE].data
                IN  /\ data[1] = IF m.comdats[g.comdat] = "any" THEN 1 ELSE 0
                    /\ \A k \in DOMAIN buf.shdrs :
                          k = sec \/ (buf.shdrs[k].type = "RELA" /\ buf.shdrs[k].info = sec) =>
                              k \in Range(Tail(data)) /\ "GROUP" \in buf.shdrs[k].flags

\* A definition is where its symbol says, whole, aligned and with its content.
DefinitionRight(m, g) ==
    LET n     == SymbolOf(g.name)
        sym   == buf.symtab[n]
        ref   == SectionOf(n)
        sec   == buf.shdrs[ref]
        size  == IF g.func THEN FuncLen(m, g) ELSE g.size
        align == IF g.func THEN 16 ELSE g.align
        bytes == SubSeq(sec.data, sym.value + 1, sym.value + size)
    IN  /\ Cardinality(Symbols(g.name)) = 1
        /\ sym.bind = convert_linkage(g) /\ ((n < buf.first_global) = (sym.bind = "LOCAL"))
        /\ IF g.decl THEN sym.shndx = Undef
           ELSE /\ ref \in DOMAIN buf.shdrs
                /\ sym.size = size /\ sym.value + size <= sec.size
                /\ sym.value % align = 0 /\ (sec.align % align = 0 \/ g.func)
                /\ IF g.func THEN Head(bytes) = g.id /\ RelocsIn(ref, sym.value, size) = CodeRelocs(m, g)
                   ELSE /\ sec.type # "NOBITS" => bytes = InitBytes(g)
                        /\ sec.type = "NOBITS" => IsZero(g)
                        /\ RelocsIn(ref, sym.value, size) = InitRelocs(g)
                /\ ("EXEC" \in sec.flags) = g.func
                /\ ~g.func /\ ~g.const => "WRITE" \in sec.flags
                /\ ~g.func => ("TLS" \in sec.flags) = g.tls
                /\ g.name \in m.used => "RETAIN" \in sec.flags
                /\ GroupRight(m, g, ref)

Extent(g) == LET n == SymbolOf(g.name)
             IN  {<<SectionOf(n), p>> : p \in buf.symtab[n].value ..
                                              buf.symtab[n].value + buf.symtab[n].size - 1}
AliasRight(g) ==
    LET sym == buf.symtab[SymbolOf(g.name)]
        of  == buf.symtab[SymbolOf(g.target)]
    IN  /\ sym.bind = convert_linkage(g)
        /\ <<SectionOf(SymbolOf(g.name)), sym.value, sym.size>>
              = <<SectionOf(SymbolOf(g.target)), of.value, of.size>>

\* Each constructor is called once, from an array of its comdat.
StructorRight(m, s) ==
    Cardinality({<<k, r>> \in UNION {{<<k, r>> : r \in Range(buf.shdrs[k].data)} :
                     k \in {k \in DOMAIN buf.shdrs :
                               /\ buf.shdrs[k].type = "RELA"
                               /\ buf.shdrs[buf.shdrs[k].info].type = "INIT_ARRAY"}} :
                   /\ r.sym = SymbolOf(s.name)
                   /\ s.comdat # "" => GroupRight(m, ObjectOf(m, s.comdat), buf.shdrs[k].info)})
      = IF s.comdat # "" /\ ObjectOf(m, s.comdat).decl THEN 0 ELSE 1

(***************************************************************************)
(* The object file is the module: each function and variable has one       *)
(* symbol of its binding (local ones first), which leads (also by the      *)
(* table of large section indices) to a section with its attributes and    *)
(* there to its bytes, aligned, with the relocations of its pointers,      *)
(* calls and addresses and no others, overlapping no other definition;     *)
(* comdat groups have all their sections, with the relocation sections, so *)
(* that a linker keeps or drops them together; aliases are where what they *)
(* name is; constructors are called once.  (AssemblerElf, select_section,  *)
(* get_group_section, global_init_to_data, sym_copy, build_object_file.)   *)
(***************************************************************************)
ObjectRight ==
    buf # NoFile /\ phase = "idle" =>
        /\ \A g \in Range(mod.vars \o mod.funcs) : DefinitionRight(mod, g)
        /\ \A g, h \in {g \in Range(mod.vars \o mod.funcs) : ~g.decl} :
              g # h => Extent(g) \cap Extent(h) = {}
        /\ \A g \in Range(mod.aliases) : AliasRight(g)
        /\ \A s \in Range(mod.ctors) : StructorRight(mod, s)

\* The assertion of build_object_file that a module with few sections leaves no
\* section number in the tables for large ones, whatever the compiler compiled
\* before it.
NoLargeIndexLeft == phase # "assert"

----------------------------------------------------------------------------
(***************************************************************************)
(* The mapped image, as the processor and the unwinder read it.            *)
(***************************************************************************)
\* Where the call at pc goes, and which address the code at pc loads.
CallTarget(x64, pc) ==
    LET t == IF x64 THEN pc + 5 + Byte(os.mem, pc + 1) ELSE pc + Byte(os.mem, pc)
    IN  IF Byte(os.mem, t) = JmpSlot THEN Byte(os.mem, t + 8) ELSE t
AddressLoaded(x64, pc, loc) ==
    LET p == IF x64 THEN pc + 7 + Byte(os.mem, pc + 3)
             ELSE align_down(pc, AdrPage) + Byte(os.mem, pc) + Byte(os.mem, pc + 4)
    IN  IF loc THEN p ELSE Byte(os.mem, p)

FuncMapped(i, f) ==
    LET m == mappers[i].mod
        start == Addr(mappers[i], f.name)
        Item(k) == LET it == f.body[k]
                       pc == start + ItemOff(m.x64, f, k)
                   IN  /\ k \in Calls(f) => CallTarget(m.x64, pc) = Addr(mappers[i], it.to)
                       /\ it.op = "addr" =>
                             AddressLoaded(m.x64, pc, use_local_access(m, ObjectOf(m, it.to)))
                                = Addr(mappers[i], it.to)
    IN  /\ Byte(os.mem, start) = f.id
        /\ \A p \in start .. start + FuncLen(m, f) - 1 : os.prot[p] = {"READ", "EXEC"}
        /\ \A k \in DOMAIN f.body : Item(k)

VarMapped(i, g) ==
    LET start == Addr(mappers[i], g.name)
        value(l) == CASE l[2].k = "int" -> l[2].v
                      [] l[2].k = "ptr" -> Addr(mappers[i], l[2].to) + l[2].add
                      [] l[2].k = "rel" -> Addr(mappers[i], l[2].to) - start
    IN  /\ start % g.align = 0
        /\ \A l \in Leaves(g.init, 0) : Byte(os.mem, start + l[1]) = value(l)
        /\ \A p \in start .. start + g.size - 1 :
              /\ "EXEC" \notin os.prot[p] /\ (~g.const => "WRITE" \in os.prot[p])
              /\ (\A l \in Leaves(g.init, 0) : p # start + l[1]) => os.mem[p] = 0

(***************************************************************************)
(* Mapped code runs: at the address that lookup_global gives for it, each  *)
(* function of each live JITMapper is executable and not writable, each of *)
(* its calls and loads of an address leads to what it names (in the image, *)
(* or where the client's resolver says, through a slot when that is out of *)
(* reach), and each variable is aligned, initialised, writable unless      *)
(* constant; whatever was mapped, failed to map or was destroyed since.  A *)
(* symbol that is local and was never relocated has no address.            *)
(* (ElfMapper::map, resolve_reloc.)                                        *)
(***************************************************************************)
ImageRight ==
    \A i \in DOMAIN mappers :
        LET m == mappers[i].mod
            found(g) == ~g.decl /\ Addr(mappers[i], g.name) # 0
        IN  /\ \A f \in Range(m.funcs) : found(f) => FuncMapped(i, f)
            /\ \A g \in Range(m.vars) : found(g) => VarMapped(i, g)

(***************************************************************************)
(* The process has the memory of the live JITMappers and no other, and the *)
(* unwinder knows frames in that memory only, one of each module with      *)
(* functions: also after a map that failed half way, whose mapper is reset *)
(* twice, nothing is leaked, left registered or taken away from another    *)
(* mapper.  (ElfMapper::reset, compile_and_map.)                           *)
(***************************************************************************)
FramesLive ==
    /\ DOMAIN os.mem = UNION {LET h == mappers[i].mapper
                              IN  h.mapped_addr .. h.mapped_addr + h.mapped_size - 1 :
                                  i \in DOMAIN mappers}
    /\ DOMAIN os.prot = DOMAIN os.mem
    /\ os.frames = {mappers[i].mapper.mapped_addr + mappers[i].mapper.registered_frame_off :
                       i \in {i \in DOMAIN mappers : Defined(mappers[i].mod) # <<>>}}

(***************************************************************************)
(* "Add a cleanup action to the action table": a throw through an invoke   *)
(* whose landing pad is a cleanup finds that cleanup, right after the      *)
(* clauses of the landing pad.  Does not hold: see sleb_write.             *)
(***************************************************************************)
CleanupsRun ==
    \A i \in DOMAIN mappers :
        LET m == mappers[i].mod
        IN  \A f \in Range(Defined(m)) : \A k \in Calls(f) : f.body[k].cleanup =>
                \E c \in catches[i] : /\ c[1] = Addr(mappers[i], f.name) + ReturnOff(m.x64, f, k)
                                      /\ Len(c[2].clauses) = Len(f.body[k].clauses) + 1
                                      /\ Last(c[2].clauses) = <<"cleanup">>

Unwinding == INSTANCE UnwindSpec
                 WITH loaded  <- [i \in DOMAIN mappers |-> Placement(mappers[i])],
                      catches <- catches

(***************************************************************************)
(* The tables that the compiler writes, the mapper relocates and registers *)
(* and the unwinder reads implement UnwindSpec: a throw through any call   *)
(* of a live module goes to that call's landing pad with its clauses, its  *)
(* cleanup and its function's personality, from the map that succeeded     *)
(* until destruction, and compiling, mapping or destroying other modules   *)
(* changes none of it.  (eh_init_cie, eh_begin_fde, eh_end_fde,            *)
(* except_encode_func, compile_invoke, ElfMapper::map.)                    *)
(***************************************************************************)
Unwinds == Unwinding!Spec
====
