---------------------------- MODULE MCJitModule ----------------------------
(***************************************************************************)
(* The modules for JitModule: for each target, one with landing pads of    *)
(* every shape and two personalities, one with every kind of data, one     *)
(* with comdats in all their forms and more sections than LoReserve, two   *)
(* that cannot be compiled, one without functions, and one whose reference *)
(* may be out of reach.                                                    *)
(***************************************************************************)
EXTENDS JitModule

Var(name, link, decl, const, size, align, init) ==
    [func |-> FALSE, name |-> name, link |-> link, decl |-> decl, const |-> const, tls |-> FALSE,
     section |-> FALSE, comdat |-> "", dso_local |-> FALSE, size |-> size, align |-> align,
     init |-> init]
Func(name, link, id, personality, body) ==
    [func |-> TRUE, name |-> name, link |-> link, decl |-> id = 0, id |-> id, section |-> FALSE,
     comdat |-> "", dso_local |-> FALSE, personality |-> personality, body |-> body]
Item(op, to, n) == [op |-> op, to |-> to, n |-> n, clauses |-> <<>>, cleanup |-> FALSE]
Invoke(to, n, clauses, cleanup) ==
    [op |-> "invoke", to |-> to, n |-> n, clauses |-> clauses, cleanup |-> cleanup]
Pad(n) == Item("pad", "", n)
Code(n) == Item("code", "", n)
Call(to) == Item("call", to, 0)
Address(to) == Item("addr", to, 0)

Zero == [k |-> "zero"]
Num(v) == [k |-> "int", v |-> v]
Ptr(to, add) == [k |-> "ptr", to |-> to, add |-> add]
Rel(to) == [k |-> "rel", to |-> to]
Struct(offs, elts) == [k |-> "struct", offs |-> offs, elts |-> elts]
Array(esz, elts) == [k |-> "array", esz |-> esz, elts |-> elts]
Fold(c) == [k |-> "fold", elts |-> <<c>>]

Module(x64, vars_, funcs) ==
    [x64 |-> x64, vars |-> vars_, funcs |-> funcs, aliases |-> <<>>, ctors |-> <<>>, used |-> {},
     comdats |-> <<>>]
Extern(name) == Func(name, "external", 0, "", <<>>)
TypeInfo(name) == Var(name, "external", TRUE, TRUE, 8, 8, Zero)

Tables(x64) ==
    Module(x64, <<TypeInfo("T1"), TypeInfo("T2")>>,
        <<Extern("ext"), Extern("pers"), Extern("pers2"),
          Func("f", "external", 71, "pers",
               <<Invoke("ext", 1, <<"T1", "all">>, FALSE), Call("g"), Invoke("ext", 0, <<>>, TRUE),
                 Code(200), Invoke("g", 2, <<"T2", "T1", "filter">>, TRUE), Pad(1), Code(8), Pad(2),
                 Item("libcall", "_Unwind_Resume", 0)>>),
          Func("g", "local", 72, "", <<Call("ext"), Code(4)>>),
          Func("h", "weak", 73, "pers2", <<Invoke("f", 1, <<"T2">>, TRUE), Code(4), Pad(1), Call("g")>>),
          Func("k", "external", 74, "pers", <<Code(4), Invoke("ext", 1, <<"T1">>, FALSE), Pad(1), Code(4)>>)>>)

Data(x64) ==
    [Module(x64,
        <<Var("v1", "external", FALSE, TRUE, 4, 4, Num(41)),
          Var("v2", "local", FALSE, TRUE, 24, 8, Array(8, <<Ptr("v1", 0), Zero, Ptr("v4", 8)>>)),
          Var("v3", "external", FALSE, FALSE, 8, 16, Zero),
          Var("v4", "external", FALSE, FALSE, 24, 8,
              Struct(<<0, 8, 16>>, <<Num(44), Fold(Ptr("v3", 4)), Rel("v1")>>)),
          Var("v5", "weak", FALSE, FALSE, 1, 1, Num(45)),
          [Var("v6", "external", FALSE, FALSE, 4, 4, Num(46)) EXCEPT !.tls = TRUE],
          [Var("v7", "external", FALSE, FALSE, 4, 4, Zero) EXCEPT !.tls = TRUE],
          Var("xv", "external", TRUE, FALSE, 8, 8, Zero),
          Var("wv", "extern_weak", TRUE, FALSE, 8, 8, Zero)>>,
        <<Extern("ext"),
          Func("f", "external", 71, "", <<Address("v2"), Address("xv"), Address("v4"), Address("wv"), Call("ext")>>),
          [Func("g", "local", 72, "", <<Call("f")>>) EXCEPT !.section = TRUE],
          Func("h", "external", 73, "", <<Call("g"), Address("v5")>>)>>)
     EXCEPT !.aliases = <<[name |-> "al", link |-> "external", decl |-> FALSE, target |-> "v4"],
                          [name |-> "wf", link |-> "weak", decl |-> FALSE, target |-> "f"]>>,
            !.used = {"v5"},
            !.vars[2].dso_local = TRUE, !.vars[9].dso_local = TRUE,
            !.ctors = <<[name |-> "f", comdat |-> "", prio |-> 65535],
                        [name |-> "h", comdat |-> "", prio |-> 65535]>>]

Comdats(x64) ==
    [Module(x64,
        <<[Var("cv", "weak", FALSE, TRUE, 8, 8, Ptr("cz", 0)) EXCEPT !.comdat = "cv"],
          [Var("cz", "weak", FALSE, FALSE, 8, 4, Zero) EXCEPT !.comdat = "cv"],
          [Var("co", "external", FALSE, FALSE, 4, 4, Num(43)) EXCEPT !.comdat = "odd"],
          [Var("xc", "external", TRUE, FALSE, 8, 8, Zero) EXCEPT !.comdat = "cv"]>>,
        <<[Func("cf", "local", 71, "", <<Call("d"), Address("cv")>>) EXCEPT !.comdat = "grp"],
          Func("d", "external", 72, "", <<Call("cf"), Code(4)>>),
          [Func("e", "weak", 73, "", <<Address("co")>>) EXCEPT !.comdat = "cv"]>>)
     EXCEPT !.comdats = [cv |-> "any", grp |-> "nodup", odd |-> "other"],
            !.used = {"cz"},
            !.aliases = <<[name |-> "al", link |-> "local", decl |-> FALSE, target |-> "e"]>>,
            !.ctors = <<[name |-> "e", comdat |-> "cv", prio |-> 65535],
                        [name |-> "d", comdat |-> "", prio |-> 65535],
                        [name |-> "cf", comdat |-> "xc", prio |-> 65535]>>]

Failing(x64) ==
    {Module(x64, <<Var("v1", "external", FALSE, FALSE, 8, 8, [k |-> "bad"]),
                   Var("v2", "external", FALSE, FALSE, 8, 8, Num(42))>>, <<>>),
     [Module(x64, <<>>, <<Func("f", "external", 71, "", <<Code(4)>>)>>)
        EXCEPT !.ctors = <<[name |-> "f", comdat |-> "", prio |-> 1]>>],
     Module(x64, <<TypeInfo("T1")>>,
        <<Extern("ext"), Extern("pers"),
          Func("f", "external", 71, "pers",
               <<Invoke("ext", 1, <<"T1">>, TRUE), Pad(1), Item("bad", "", 0), Code(4)>>),
          Func("g", "external", 72, "", <<Code(4)>>)>>)}

Small(x64) ==
    {Module(x64, <<Var("v1", "external", FALSE, TRUE, 4, 4, Num(41))>>, <<>>),
     Module(x64, <<[Var("xv", "external", TRUE, FALSE, 8, 8, Zero) EXCEPT !.dso_local = TRUE]>>,
        <<Extern("pers"), Func("f", "external", 71, "pers", <<Address("xv"), Call("f")>>)>>)}

MCModules == UNION {{Tables(x), Data(x), Comdats(x)} \cup Failing(x) \cup Small(x) : x \in BOOLEAN}

\* Names that the resolver is asked for, and its answers: all near the first
\* image, all far from every image, or none.
Externals == <<"ext", "pers", "pers2", "T1", "T2", "xv", "wv", "xc", "_Unwind_Resume">>
Answer(start, step) == [n \in Range(Externals) |->
                           start + step * CHOOSE k \in DOMAIN Externals : Externals[k] = n]
MCResolvers == {Answer(8000, 8), Answer(100000, 8), Answer(0, 0)}

\* A landing pad with 33 clauses, whose actions take more than 64 bytes, in a
\* function that is followed by one with many landing pads.
ManyClauses ==
    Module(TRUE, <<TypeInfo("T1"), TypeInfo("T2")>>,
        <<Extern("ext"), Extern("pers"),
          Func("f", "external", 71, "pers",
               <<Invoke("ext", 1, [i \in 1 .. 33 |-> IF i = 33 THEN "T2" ELSE "T1"], TRUE), Code(4),
                 Pad(1), Code(4)>>),
          Func("g", "external", 72, "pers",
               [i \in 1 .. 12 |-> Invoke("ext", 1, <<"T1">>, FALSE)] \o <<Pad(1), Code(4)>>)>>)
MCManyClauses == {ManyClauses, Tables(TRUE)}
====
