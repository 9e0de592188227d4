-------------------------- MODULE RegAllocContent --------------------------
(***************************************************************************)
(* What the code that RegAlloc generates finds in registers and spill      *)
(* slots, for every choice of the constants: ContentSound, NoValueLost,    *)
(* TempSound, ArgsIntact, SavedIfUsed, and FixedBounded and TypeOK.        *)
(*                                                                         *)
(* Register by register and part by part: an operation that moves or       *)
(* evicts a value is right because the bookkeeping it reads was right      *)
(* before, and ownership and locks (RegAllocProofs) say who is affected.   *)
(***************************************************************************)
EXTENDS RegAllocProofs

Contents == Parts \cup {Temp, Arg, Junk}

\* A used register holds what its owner believes, an argument register the
\* argument; one that the callee saves has been noted for the prologue.
RegContent(r) ==
    /\ own[r] = Temp => regHas[r] = Temp
    /\ r \in args => own[r] = Free /\ regHas[r] = Arg /\ r \notin alloc
    /\ r \in CalleeSaved /\ own[r] # Free => r \in clob
    /\ \A p \in Parts : own[r] = p /\ def[p] = "yes" => regHas[r] = p

\* A value is where the assignment says, and only the owner of the last
\* reference may have given it up; a part of no assignment has no value.
LastOwned(v) == refs[v] = 1 /\ v \notin delay /\ Counted(v) # {}
PartContent(p) ==
    /\ def[p] = "yes" /\ ~dirty[p] => memHas[p]
    /\ ~dirty[p] => Val(p) \in slot
    /\ IsVar(p) => dirty[p]
    /\ def[p] = "yes" => reg[p] # NoReg \/ ~dirty[p] \/ IsVar(p)
    /\ def[p] = "gone" => LastOwned(Val(p))
    /\ st[Val(p)] = "none" => def[p] = "no"

ContentInv ==
    /\ clob \subseteq Regs /\ alloc \subseteq Regs /\ args \subseteq Regs
    /\ dirty \in [Parts -> BOOLEAN] /\ memHas \in [Parts -> BOOLEAN]
    /\ slot \subseteq Values
    /\ def \in [Parts -> {"no", "yes", "gone"}]
    /\ regHas \in [Regs -> Contents]
    /\ \A r \in Regs : RegContent(r)
    /\ \A p \in Parts : PartContent(p)

\* The counters cover the fixed assignments, of which there are finitely many.
FixedInv ==
    /\ fixedCount \in [Banks -> Nat]
    /\ IsFiniteSet({p \in Parts : fixed[p]})
    /\ FixedBounded

----------------------------------------------------------------------------
(***************************************************************************)
(* Eviction and reading.                                                   *)
(***************************************************************************)
\* A part is in its register exactly if the register holds it.
LEMMA InRegister ==
    ASSUME CoreInv, ContentInv, NEW p \in Parts, def[p] = "yes", reg[p] # NoReg
    PROVE  reg[p] \in Regs /\ regHas[reg[p]] = p
  BY OwnersAgree DEF CoreInv, ContentInv, RegContent

\* Evicting any registers R keeps every value where the assignment then says
\* it is, and a part that can be read is read right.
LEMMA EvictedContent ==
    ASSUME CoreInv, ContentInv, NEW R \in SUBSET Regs
    PROVE  /\ DirtyAfter(R) \in [Parts -> BOOLEAN] /\ MemAfter(R) \in [Parts -> BOOLEAN]
           /\ SlotAfter(R) \subseteq Values
           /\ \A p \in Parts :
                /\ def[p] = "yes" /\ ~DirtyAfter(R)[p] => MemAfter(R)[p]
                /\ ~DirtyAfter(R)[p] => Val(p) \in SlotAfter(R)
                /\ IsVar(p) => DirtyAfter(R)[p]
                /\ def[p] = "yes" => RegAfter(R)[p] # NoReg \/ ~DirtyAfter(R)[p] \/ IsVar(p)
                /\ Readable(p) => ReadOK(p, R)
<1>1. \A p \in Parts : p \in Out(R) <=> reg[p] \in R BY EvictedParts DEF CoreInv
<1>2. \A p \in Parts : p \in Spilled(R) <=> p \in Out(R) /\ dirty[p] /\ ~IsVar(p) BY DEF Spilled
<1>3. /\ \A p \in Parts : DirtyAfter(R)[p] = (dirty[p] /\ p \notin Spilled(R))
      /\ DirtyAfter(R) \in [Parts -> BOOLEAN]
  BY DEF DirtyAfter
<1>4. /\ \A p \in Parts : MemAfter(R)[p] = IF p \in Spilled(R) THEN regHas[reg[p]] = p ELSE memHas[p]
      /\ MemAfter(R) \in [Parts -> BOOLEAN]
  BY DEF MemAfter, ContentInv
<1>5. \A p \in Parts : RegAfter(R)[p] = IF reg[p] \in R THEN NoReg ELSE reg[p]
  BY EvictedParts DEF CoreInv
<1>6. SlotAfter(R) \subseteq Values
  <2>1. \A p \in Spilled(R) : Val(p) \in Values
    BY PartsOfValue DEF Spilled, Out, IsVar, AllVals
  <2> QED BY <2>1 DEF SlotAfter, ContentInv
<1>7. ASSUME NEW p \in Parts
      PROVE /\ def[p] = "yes" /\ ~DirtyAfter(R)[p] => MemAfter(R)[p]
            /\ ~DirtyAfter(R)[p] => Val(p) \in SlotAfter(R)
            /\ IsVar(p) => DirtyAfter(R)[p]
            /\ def[p] = "yes" => RegAfter(R)[p] # NoReg \/ ~DirtyAfter(R)[p] \/ IsVar(p)
            /\ Readable(p) => ReadOK(p, R)
  <2>0. PartContent(p) BY DEF ContentInv
  <2>a. dirty[p] \in BOOLEAN BY DEF ContentInv
  <2>b. p \in Spilled(R) /\ def[p] = "yes" => regHas[reg[p]] = p
    BY <1>1, <1>2, InRegister, Distinct
  <2>1. def[p] = "yes" /\ ~DirtyAfter(R)[p] => MemAfter(R)[p]
    BY <1>3, <1>4, <2>0, <2>b DEF PartContent
  <2>2. ~DirtyAfter(R)[p] => Val(p) \in SlotAfter(R)
    BY <1>3, <2>0 DEF PartContent, SlotAfter
  <2>3. IsVar(p) => DirtyAfter(R)[p] BY <1>2, <1>3, <2>0 DEF PartContent
  <2>4. def[p] = "yes" => RegAfter(R)[p] # NoReg \/ ~DirtyAfter(R)[p] \/ IsVar(p)
    BY <1>1, <1>2, <1>3, <1>5, <2>0 DEF PartContent
  <2>5. ASSUME Readable(p) PROVE ReadOK(p, R)
    <3>1. def[p] = "yes" BY <2>5 DEF Readable
    <3>2. CASE RegAfter(R)[p] # NoReg
      BY <1>5, <3>1, <3>2, InRegister DEF ReadOK
    <3>3. CASE RegAfter(R)[p] = NoReg
      BY <2>1, <2>4, <3>1, <3>3 DEF ReadOK
    <3> QED BY <3>2, <3>3
  <2> QED BY <2>1, <2>2, <2>3, <2>4, <2>5
<1> QED BY <1>3, <1>4, <1>6, <1>7

\* Evicting nothing, or registers that are not used, changes nothing.
LEMMA NothingEvicted ==
    ASSUME CoreInv, ContentInv, NEW R \in SUBSET Regs, Spilled(R) = {}
    PROVE  DirtyAfter(R) = dirty /\ MemAfter(R) = memHas /\ SlotAfter(R) = slot
  BY DEF DirtyAfter, MemAfter, SlotAfter, ContentInv

\* Evicting no register spills no part.
LEMMA NothingSpilled == Spilled({}) = {}
  BY DEF Spilled, Out

\* The parts after a step that evicts R, takes the registers of the parts P
\* from them, and gives the parts W new values in registers.
PartsMove(R, P, W) ==
    /\ dirty' \in [Parts -> BOOLEAN] /\ memHas' \in [Parts -> BOOLEAN]
    /\ def' \in [Parts -> {"no", "yes", "gone"}]
    /\ slot' = SlotAfter(R)
    /\ UNCHANGED refvars
    /\ \A k \in Parts :
         /\ dirty'[k] = (k \in W \/ DirtyAfter(R)[k])
         /\ memHas'[k] = (k \notin W /\ MemAfter(R)[k])
         /\ def'[k] = IF k \in W THEN "yes"
                      ELSE IF k \in P /\ def[k] = "yes" /\ dirty[k] THEN "gone" ELSE def[k]
         /\ k \in W => reg'[k] # NoReg /\ st[Val(k)] # "none"
         /\ k \notin W /\ k \notin P => reg'[k] # NoReg \/ reg'[k] = RegAfter(R)[k]
         /\ k \in P => LastOwned(Val(k)) /\ st[Val(k)] # "none"

\* After a step of the form PartsMove every part is where its bookkeeping says.
LEMMA PartsContent ==
    ASSUME CoreInv, ContentInv, NEW R \in SUBSET Regs, NEW P, NEW W, PartsMove(R, P, W)
    PROVE  slot' \subseteq Values /\ \A k \in Parts : PartContent(k)'
<1>1. slot' \subseteq Values BY EvictedContent DEF PartsMove
<1>2. ASSUME NEW k \in Parts PROVE PartContent(k)'
  <2>0. PartContent(k) BY DEF ContentInv
  <2>1. /\ def[k] = "yes" /\ ~DirtyAfter(R)[k] => MemAfter(R)[k]
        /\ ~DirtyAfter(R)[k] => Val(k) \in SlotAfter(R)
        /\ IsVar(k) => DirtyAfter(R)[k]
        /\ def[k] = "yes" => RegAfter(R)[k] # NoReg \/ ~DirtyAfter(R)[k] \/ IsVar(k)
    BY EvictedContent
  <2>2. LastOwned(Val(k))' <=> LastOwned(Val(k)) BY DEF LastOwned, Counted, RefsTo, refvars, PartsMove
  <2>3. st'[Val(k)] = st[Val(k)] /\ slot' = SlotAfter(R) BY DEF refvars, PartsMove
  <2>4. DirtyAfter(R)[k] => dirty[k] BY DEF DirtyAfter
  <2>5. /\ dirty'[k] = (k \in W \/ DirtyAfter(R)[k])
        /\ memHas'[k] = (k \notin W /\ MemAfter(R)[k])
        /\ def'[k] = IF k \in W THEN "yes"
                     ELSE IF k \in P /\ def[k] = "yes" /\ dirty[k] THEN "gone" ELSE def[k]
        /\ k \in W => reg'[k] # NoReg /\ st[Val(k)] # "none"
        /\ k \notin W /\ k \notin P => reg'[k] # NoReg \/ reg'[k] = RegAfter(R)[k]
        /\ k \in P => LastOwned(Val(k)) /\ st[Val(k)] # "none"
    BY DEF PartsMove
  <2>6. CASE k \in W BY <2>2, <2>3, <2>5, <2>6 DEF PartContent
  <2>7. CASE k \notin W /\ k \in P
    BY <2>0, <2>1, <2>2, <2>3, <2>4, <2>5, <2>7 DEF PartContent
  <2>8. CASE k \notin W /\ k \notin P
    BY <2>0, <2>1, <2>2, <2>3, <2>5, <2>8 DEF PartContent
  <2> QED BY <2>6, <2>7, <2>8
<1> QED BY <1>1, <1>2

\* The registers after a step that fills those in T and only frees others.
RegKept(q) ==
    /\ own'[q] = own[q] \/ (own'[q] = Free /\ q \notin args')
    /\ own'[q] # Free \/ q \in args' => \/ regHas'[q] = regHas[q]
                                        \/ regHas[q] \in Parts /\ regHas[q] # own[q]
    /\ q \in args' => q \in args /\ (q \in alloc' => q \in alloc)
    /\ \A p \in Parts : own'[q] = p /\ def'[p] = "yes" => def[p] = "yes"

\* Registers outside T that a step keeps as they are stay right; the step answers for those in T.
LEMMA RegsContent ==
    ASSUME CoreInv, ContentInv, NEW T, \A q \in Regs \ T : RegKept(q), clob \subseteq clob',
           \A q \in Regs : q \in T => RegContent(q)'
    PROVE  \A q \in Regs : RegContent(q)'
<1> SUFFICES ASSUME NEW q \in Regs \ T PROVE RegContent(q)' OBVIOUS
<1>0. RegKept(q) OBVIOUS
<1>1. RegContent(q) BY DEF ContentInv
<1>2. CASE own'[q] = Free /\ q \notin args' BY <1>2, Distinct DEF RegContent
<1>3. CASE own'[q] = own[q] /\ (own'[q] # Free \/ q \in args')
  <2>1. regHas'[q] = regHas[q] \/ (regHas[q] \in Parts /\ regHas[q] # own[q]) BY <1>0, <1>3 DEF RegKept
  <2>2. own'[q] = Temp => regHas'[q] = Temp BY <1>1, <1>3, <2>1, Distinct DEF RegContent
  <2>3. q \in args' => own'[q] = Free /\ regHas'[q] = Arg /\ q \notin alloc'
    BY <1>0, <1>1, <1>3, <2>1, Distinct DEF RegContent, RegKept
  <2>4. q \in CalleeSaved /\ own'[q] # Free => q \in clob' BY <1>1, <1>3 DEF RegContent
  <2>5. \A p \in Parts : own'[q] = p /\ def'[p] = "yes" => regHas'[q] = p
    BY <1>0, <1>1, <1>3, <2>1 DEF RegContent, RegKept
  <2> QED BY <2>2, <2>3, <2>4, <2>5 DEF RegContent
<1> QED BY <1>0, <1>2, <1>3 DEF RegKept

\* Putting the two together.
FileMove ==
    /\ clob' \subseteq Regs /\ clob \subseteq clob' /\ alloc' \subseteq Regs /\ args' \subseteq Regs
    /\ regHas' \in [Regs -> Contents]

\* The shape every content lemma below uses: the parts move, the register file grows, registers outside T are kept.
LEMMA ContentStep ==
    ASSUME CoreInv, ContentInv, NEW R \in SUBSET Regs, NEW P, NEW W, PartsMove(R, P, W), FileMove,
           NEW T, \A q \in Regs \ T : RegKept(q), \A q \in Regs : q \in T => RegContent(q)'
    PROVE  ContentInv'
<1>1. \A q \in Regs : RegContent(q)' BY RegsContent DEF FileMove
<1>2. slot' \subseteq Values /\ \A k \in Parts : PartContent(k)' BY PartsContent
<1> QED BY <1>1, <1>2 DEF ContentInv, PartsMove, FileMove

\* A register that is filled with what its new owner expects.
LEMMA Filled ==
    ASSUME NEW r \in Regs, r \notin args', r \in CalleeSaved => r \in clob',
           NEW c \in Parts \cup {Temp}, own'[r] = c, regHas'[r] = c
    PROVE  RegContent(r)'
  BY Distinct DEF RegContent

\* A register that is selected holds no argument.
LEMMA SelectNoArg ==
    ASSUME ContentInv, NEW b, NEW excl, NEW r \in Regs, select_reg(b, excl, r) PROVE r \notin args
<1>1. RegContent(r) BY DEF ContentInv
<1> QED BY <1>1, Distinct DEF select_reg, Lowest, FreeRegsOf, Evictable, RegContent

\* The owner of a part has the last reference to its value.
LEMMA OwnedLast ==
    ASSUME RefInv, CoreInv, NEW h \in PRefs, pref[h].kind = "val", pref[h].owned
    PROVE  LastOwned(Val(pref[h].part)) /\ st[Val(pref[h].part)] # "none"
<1>1. OfPart(h) /\ st[Val(pref[h].part)] = "live" BY HandleKinds DEF CoreInv
<1> DEFINE x == pref[h].ref
           v == Val(pref[h].part)
<1>2. x \in VRefs /\ vref[x].val = v /\ vref[x].mode = 2 BY <1>1 DEF OfPart
<1>3. v \in Values /\ x \in Counted(v) BY <1>2 DEF RefInv, RefTypeOK, Counted, RefsTo
<1>4. refs[v] = 1 BY <1>2, <1>3 DEF RefInv, RefsAccounted
<1>5. v \notin delay BY <1>2 DEF CoreInv, LinkInv
<1> QED BY <1>1, <1>3, <1>4, <1>5 DEF LastOwned

\* The contents of the registers after the generated code has written one.
LEMMA PutType ==
    ASSUME ContentInv, NEW r \in Regs, NEW c \in Contents
    PROVE  Put(r, c) \in [Regs -> Contents] /\ \A q \in Regs : Put(r, c)[q] = IF q = r THEN c ELSE regHas[q]
  BY DEF Put, ContentInv
NewValue(r, p) == [q \in Regs |-> IF q = r THEN p ELSE IF regHas[q] = p THEN Junk ELSE regHas[q]]
\* Defining a part in a register puts it there and turns any other register with its old value into junk.
LEMMA DefineType ==
    ASSUME ContentInv, NEW r, NEW p \in Parts
    PROVE  /\ NewValue(r, p) \in [Regs -> Contents]
           /\ \A q \in Regs : NewValue(r, p)[q] = IF q = r THEN p
                                                ELSE IF regHas[q] = p THEN Junk ELSE regHas[q]
           /\ Define(r, p, TRUE) = NewValue(r, p)
  BY DEF Define, NewValue, ContentInv, Contents
\* Settle forgets only what free registers hold that are not arguments.
LEMMA SettleType ==
    ASSUME NEW f \in [Regs -> Contents], regHas' = Settle(f)
    PROVE  /\ regHas' \in [Regs -> Contents]
           /\ \A q \in Regs : own'[q] # Free \/ q \in args' => regHas'[q] = f[q]
  BY DEF Settle, Contents

----------------------------------------------------------------------------
(***************************************************************************)
(* The operations of ValueParts and ScratchRegs.                           *)
(***************************************************************************)
\* A part gets register r: alloc_reg, alloc_specific (which find no value yet
\* to lose), load_to_reg and load_to_specific (which read it).
LEMMA PartClaimContent ==
    ASSUME CoreInv, ContentInv, NEW h \in PRefs,
           \/ alloc_reg(h) \/ load_to_reg(h)
           \/ \E r \in Regs : alloc_specific(h, r) \/ load_to_specific(h, r)
    PROVE  ContentInv'
<1>0. pref[h].kind = "val"
  BY DEF alloc_reg, load_to_reg, alloc_specific, load_to_specific
<1>a. PICK p \in Parts : p = pref[h].part BY <1>0, HandleKinds DEF CoreInv
<1>b. reg[p] = NoReg /\ dirty[p] /\ ~IsVar(p) => def[p] # "yes"
  <2>1. PartContent(p) BY DEF ContentInv
  <2> QED BY <2>1 DEF PartContent
<1>c. UNCHANGED <<alloc, args, def, refvars>>
  BY DEF alloc_reg, load_to_reg, alloc_specific, load_to_specific, Claim, life, refvars
<1>1. PICK r \in Regs :
        /\ r \notin args
        /\ own'[r] = p /\ \A q \in Regs \ {r} : own'[q] = own[q] \/ (own'[q] = Free /\ own[q] # Free)
        /\ clob' = mark_clobbered(r) /\ memHas' = MemAfter({r}) /\ slot' = SlotAfter({r})
        /\ dirty' = DirtyAfter({r}) /\ reg' = [RegAfter({r}) EXCEPT ![p] = r]
        /\ \E c \in {p, Junk} : /\ def[p] = "yes" => c = p
                                /\ regHas' = Put(r, c) \/ regHas' = Settle(Put(r, c))
  <2>1. CASE alloc_reg(h)
    <3>1. PICK r \in Regs :
            /\ \E excl \in Masks : select_reg(BankOf[Val(p)], excl, r)
            /\ Claim(r, p, 1) /\ reg' = [RegAfter({r}) EXCEPT ![p] = r]
            /\ dirty' = DirtyAfter({r}) /\ regHas' = Put(r, Junk)
      BY <1>a, <2>1 DEF alloc_reg
    <3>2. r \notin args BY <3>1, SelectNoArg
    <3>3. def[p] # "yes" BY <1>a, <1>b, <2>1 DEF alloc_reg
    <3> QED BY <3>1, <3>2, <3>3 DEF Claim, CoreInv, RegInv
  <2>2. CASE load_to_reg(h)
    <3>1. PICK r \in Regs :
            /\ select_reg(BankOf[Val(p)], {}, r)
            /\ Claim(r, p, 1) /\ reg' = [RegAfter({r}) EXCEPT ![p] = r]
            /\ dirty' = DirtyAfter({r}) /\ regHas' = Put(r, IF ReadOK(p, {r}) THEN p ELSE Junk)
      BY <1>a, <2>2 DEF load_to_reg
    <3>2. r \notin args BY <3>1, SelectNoArg
    <3>3. ReadOK(p, {r}) BY <1>a, <2>2, EvictedContent DEF load_to_reg
    <3> QED BY <3>1, <3>2, <3>3 DEF Claim, CoreInv, RegInv
  <2>3. ASSUME NEW r \in Regs, alloc_specific(h, r)
        PROVE /\ r \notin args /\ Claim(r, p, 1) /\ reg' = [RegAfter({r}) EXCEPT ![p] = r]
              /\ dirty' = DirtyAfter({r}) /\ regHas' = Put(r, Junk) /\ def[p] # "yes"
    BY <1>a, <1>b, <2>3 DEF alloc_specific
  <2>4. CASE \E r \in Regs : alloc_specific(h, r)
    BY <2>3, <2>4 DEF Claim, CoreInv, RegInv
  <2>5. ASSUME NEW r \in Regs, load_to_specific(h, r)
        PROVE /\ r \notin args /\ reg' = [RegAfter({r}) EXCEPT ![p] = r]
              /\ own' = [q \in Regs |-> IF q = r THEN p ELSE IF q = reg[p] THEN Free ELSE own[q]]
              /\ clob' = mark_clobbered(r) /\ memHas' = MemAfter({r}) /\ slot' = SlotAfter({r})
              /\ dirty' = DirtyAfter({r}) /\ regHas' = Settle(Put(r, p))
    <3>1. Readable(p) BY <1>a, <2>5 DEF load_to_specific
    <3>2. {r} \in SUBSET Regs OBVIOUS
    <3>3. ReadOK(p, {r}) BY <3>1, <3>2, EvictedContent
    <3> QED BY <1>a, <2>5, <3>3 DEF load_to_specific
  <2>6. CASE \E r \in Regs : load_to_specific(h, r)
    <3>1. PICK r \in Regs : load_to_specific(h, r) BY <2>6
    <3>2. \A q \in Regs : q = reg[p] => own[q] # Free BY OwnersAgree, Distinct DEF CoreInv
    <3> QED BY <2>5, <3>1, <3>2
  <2> QED BY <2>1, <2>2, <2>4, <2>6
<1>2. PICK c \in {p, Junk} : /\ def[p] = "yes" => c = p
                             /\ regHas' = Put(r, c) \/ regHas' = Settle(Put(r, c))
  BY <1>1
<1>3. /\ regHas' \in [Regs -> Contents]
      /\ \A q \in Regs : own'[q] # Free \/ q \in args' => regHas'[q] = IF q = r THEN c ELSE regHas[q]
  BY <1>2, PutType, SettleType DEF Contents
<1>4. RegContent(r)'
  <2>1. r \in clob' \/ r \notin CalleeSaved BY <1>1 DEF mark_clobbered
  <2>2. own'[r] # Free /\ own'[r] # Temp BY <1>1, Distinct
  <2>3. regHas'[r] = c BY <1>3, <2>2
  <2> QED BY <1>1, <1>2, <1>c, <2>1, <2>2, <2>3 DEF RegContent
<1>5. \A q \in Regs \ {r} : RegKept(q)
  <2>1. \A q \in args : own[q] = Free BY DEF ContentInv, RegContent
  <2> QED BY <1>1, <1>3, <1>c, <2>1 DEF RegKept
<1>6. PartsMove({r}, {}, {})
  <2>1. \A k \in Parts : reg'[k] # NoReg \/ reg'[k] = RegAfter({r})[k]
    BY <1>1, EvictedParts, Distinct DEF CoreInv
  <2>2. dirty' \in [Parts -> BOOLEAN] /\ memHas' \in [Parts -> BOOLEAN] BY <1>1, EvictedContent
  <2> QED BY <1>1, <1>c, <2>1, <2>2 DEF PartsMove, ContentInv
<1>7. FileMove BY <1>1, <1>3, <1>c DEF FileMove, mark_clobbered, ContentInv
<1>8. \A q \in Regs : q \in {r} => RegContent(q)' BY <1>4
<1> QED BY <1>5, <1>6, <1>7, <1>8, ContentStep

\* A register becomes a temporary's.
LEMMA NewTempContent ==
    ASSUME CoreInv, ContentInv, NEW r \in Regs, r \notin args,
           own' = [own EXCEPT ![r] = Temp], clob' \subseteq Regs, clob \subseteq clob',
           r \in CalleeSaved => r \in clob', memHas' = MemAfter({r}), slot' = SlotAfter({r}),
           dirty' = DirtyAfter({r}), reg' = RegAfter({r}), regHas' = Put(r, Temp),
           UNCHANGED <<alloc, args, def, refvars>>
    PROVE  ContentInv'
<1>1. /\ regHas' \in [Regs -> Contents]
      /\ \A q \in Regs : regHas'[q] = IF q = r THEN Temp ELSE regHas[q]
  BY PutType DEF Contents
<1>2. \A q \in Regs : q \in {r} => RegContent(q)'
  <2>1. own'[r] = Temp /\ regHas'[r] = Temp /\ r \notin args' BY <1>1 DEF CoreInv, RegInv
  <2> QED BY <2>1, Filled
<1>3. \A q \in Regs \ {r} : RegKept(q) BY <1>1 DEF RegKept, CoreInv, RegInv
<1>4. PartsMove({r}, {}, {})
  <2>1. dirty' \in [Parts -> BOOLEAN] /\ memHas' \in [Parts -> BOOLEAN] BY EvictedContent
  <2> QED BY <2>1 DEF PartsMove, ContentInv
<1>5. FileMove BY <1>1 DEF FileMove, ContentInv
<1> QED BY <1>2, <1>3, <1>4, <1>5, ContentStep

\* A source that can be read is read right, before and after an eviction.
LEMMA SourceRead ==
    ASSUME CoreInv, ContentInv, NEW o \in PRefs, Source(o), NEW R \in SUBSET Regs PROVE SourceOK(o, R)
<1>1. CASE pref[o].kind = "val"
  <2>1. pref[o].part \in Parts /\ Readable(pref[o].part) BY <1>1, HandleKinds DEF CoreInv, Source
  <2> QED BY <1>1, <2>1, EvictedContent DEF SourceOK
<1>2. CASE pref[o].kind # "val" /\ hreg[o] # NoReg
  <2>1. hreg[o] \in Regs /\ own[hreg[o]] = Temp BY <1>2, HeldReg
  <2> QED BY <1>2, <2>1 DEF SourceOK, ContentInv, RegContent
<1>3. CASE pref[o].kind # "val" /\ hreg[o] = NoReg BY <1>3 DEF Source, SourceOK
<1> QED BY <1>1, <1>2, <1>3

\* The register that a handle gives up holds what the handle stands for.
LEMMA SalvageRead ==
    ASSUME CoreInv, ContentInv, NEW o \in PRefs, Source(o), can_salvage(o)
    PROVE  SalvageOK(o) /\ RegOf(o) \in Regs /\ own[RegOf(o)] # Free /\ RegOf(o) \notin args
<1>1. CASE pref[o].kind = "val"
  <2>1. /\ pref[o].part \in Parts /\ def[pref[o].part] = "yes" /\ reg[pref[o].part] # NoReg
        /\ RegOf(o) = reg[pref[o].part]
    BY <1>1, HandleKinds DEF CoreInv, Source, Readable, can_salvage, RegOf
  <2>2. RegOf(o) \in Regs /\ regHas[RegOf(o)] = pref[o].part /\ own[RegOf(o)] = pref[o].part
    BY <2>1, InRegister, OwnersAgree DEF CoreInv
  <2> QED BY <1>1, <2>1, <2>2, Distinct DEF SalvageOK, ContentInv, RegContent
<1>2. CASE pref[o].kind # "val"
  <2>1. RegOf(o) = hreg[o] /\ hreg[o] \in Regs /\ own[hreg[o]] = Temp
    BY <1>2, HeldReg DEF can_salvage, RegOf
  <2> QED BY <1>2, <2>1, Distinct DEF SalvageOK, ContentInv, RegContent
<1> QED BY <1>1, <1>2

\* alloc_reg, load_to_reg etc. of a temporary, and ScratchReg::alloc.
LEMMA TempClaimContent ==
    ASSUME CoreInv, ContentInv, NEW r \in Regs,
           \/ \E h \in PRefs : alloc_temp(h, r) \/ alloc_temp_specific(h, r)
           \/ \E s \in SRegs : ScratchReg_alloc(s, r) \/ ScratchReg_alloc_specific(s, r)
    PROVE  ContentInv'
<1>1. ClaimTemp(r) /\ r \notin args
  BY SelectNoArg DEF alloc_temp, alloc_temp_specific, ScratchReg_alloc, ScratchReg_alloc_specific
<1>2. clob' \subseteq Regs /\ clob \subseteq clob' /\ (r \in CalleeSaved => r \in clob')
  BY <1>1 DEF ClaimTemp, Claim, mark_clobbered, ContentInv
<1>3. /\ own' = [own EXCEPT ![r] = Temp] /\ memHas' = MemAfter({r}) /\ slot' = SlotAfter({r})
      /\ dirty' = DirtyAfter({r}) /\ reg' = RegAfter({r}) /\ regHas' = Put(r, Temp)
      /\ UNCHANGED <<alloc, args, def, refvars>>
  BY <1>1 DEF ClaimTemp, Claim, life, refvars
<1> QED BY <1>1, <1>2, <1>3, NewTempContent

\* Copying a value into a temporary reads the right value and loses none.
LEMMA TempCopyContent ==
    ASSUME CoreInv, ContentInv, NEW h \in PRefs, NEW o \in PRefs, set_value_temp_copy(h, o)
    PROVE  ContentInv'
<1>1. PICK r \in Regs :
        /\ select_reg(BankOf[Val(pref[o].part)], {}, r)
        /\ own' = [own EXCEPT ![r] = Temp] /\ clob' = mark_clobbered(r)
        /\ memHas' = MemAfter({r}) /\ slot' = SlotAfter({r})
        /\ reg' = RegAfter({r}) /\ dirty' = DirtyAfter({r})
        /\ regHas' = Put(r, IF SourceOK(o, {r}) THEN Temp ELSE Junk)
  BY DEF set_value_temp_copy
<1>2. r \notin args BY <1>1, SelectNoArg
<1>3. clob' \subseteq Regs /\ clob \subseteq clob' /\ (r \in CalleeSaved => r \in clob')
  BY <1>1 DEF mark_clobbered, ContentInv
<1>4. {r} \in SUBSET Regs /\ Source(o) BY DEF set_value_temp_copy
<1>5. regHas' = Put(r, Temp) BY <1>1, <1>4, SourceRead
<1>6. UNCHANGED <<alloc, args, def, refvars>> BY DEF set_value_temp_copy, life, refvars
<1> QED BY <1>1, <1>2, <1>3, <1>5, <1>6, NewTempContent

\* A call's result, in a register that no callee saves.
LEMMA RegTempContent ==
    ASSUME CoreInv, ContentInv, NEW h \in PRefs, NEW r \in RetRegs, set_value_reg_temp(h, r)
    PROVE  ContentInv'
<1>1. r \in Regs /\ r \notin CalleeSaved BY RegAssumption DEF RegAssumption
<1>2. own[r] = Free /\ r \notin args /\ UNCHANGED <<reg, dirty, clob, memHas, slot>>
  BY DEF set_value_reg_temp, asgn, memory
<1>3. {r} \in SUBSET Regs /\ Out({r}) = {} BY <1>1, <1>2, Distinct DEF Out
<1>4. Spilled({r}) = {} BY <1>3 DEF Spilled
<1>5. RegAfter({r}) = reg BY <1>3 DEF RegAfter, CoreInv, RegInv
<1>6. memHas' = MemAfter({r}) /\ slot' = SlotAfter({r}) /\ dirty' = DirtyAfter({r}) /\ reg' = RegAfter({r})
  BY <1>2, <1>3, <1>4, <1>5, NothingEvicted
<1>7. /\ own' = [own EXCEPT ![r] = Temp] /\ regHas' = Put(r, Temp)
      /\ UNCHANGED <<alloc, args, def, refvars>>
  BY DEF set_value_reg_temp, life, refvars
<1>8. clob' \subseteq Regs /\ clob \subseteq clob' BY <1>2 DEF ContentInv
<1> QED BY <1>1, <1>2, <1>6, <1>7, <1>8, NewTempContent

\* Parts give up their registers, and registers are freed or become a
\* temporary's; nothing is evicted or written to memory.
LEMMA GiveUpParts ==
    ASSUME CoreInv, ContentInv, NEW P \in SUBSET Parts, \A k \in P : LastOwned(Val(k)) /\ st[Val(k)] # "none",
           UNCHANGED <<dirty, memHas, slot, refvars>>, def' = DefAfter(P),
           \A k \in Parts \ P : reg'[k] = reg[k]
    PROVE  PartsMove({}, P, {})
<1>1. DirtyAfter({}) = dirty /\ MemAfter({}) = memHas /\ SlotAfter({}) = slot
  BY NothingEvicted, NothingSpilled
<1>2. \A k \in Parts : RegAfter({})[k] = reg[k] BY EvictedParts DEF CoreInv
<1> QED BY <1>1, <1>2 DEF PartsMove, ContentInv, DefAfter

\* A temporary takes over a register only from a part at its last, owned use.
LEMMA TempSalvageContent ==
    ASSUME RefInv, CoreInv, ContentInv, NEW h \in PRefs, NEW o \in PRefs, set_value_temp_salvage(h, o)
    PROVE  ContentInv'
<1>0. /\ pref[o].kind = "val" /\ Source(o) /\ can_salvage(o)
      /\ UNCHANGED <<dirty, memHas, slot, refvars, alloc, args, clob>>
  BY DEF set_value_temp_salvage, Salvageable, life, memory, refvars
<1>1. pref[o].owned BY <1>0, HandleKinds DEF can_salvage, CoreInv
<1>a. PICK r \in Regs : r = RegOf(o) /\ own[r] # Free /\ r \notin args BY <1>0, SalvageRead
<1>b. PICK p \in Parts : p = pref[o].part BY <1>0, HandleKinds DEF CoreInv
<1>2. /\ own' = [OwnReset(h) EXCEPT ![r] = Temp]
      /\ reg' = [reg EXCEPT ![p] = NoReg]
      /\ def' = DefAfter({p})
      /\ regHas' = Settle(Put(r, Temp))
  BY <1>0, <1>a, <1>b, SalvageRead DEF set_value_temp_salvage
<1>3. PartsMove({}, {p}, {})
  <2>1. \A k \in {p} : LastOwned(Val(k)) /\ st[Val(k)] # "none" BY <1>0, <1>1, <1>b, OwnedLast
  <2> QED BY <1>0, <1>2, <2>1, GiveUpParts DEF CoreInv, RegInv
<1>4. /\ regHas' \in [Regs -> Contents]
      /\ \A q \in Regs : own'[q] # Free \/ q \in args' => regHas'[q] = IF q = r THEN Temp ELSE regHas[q]
  BY <1>2, PutType, SettleType DEF Contents
<1>5. FileMove BY <1>0, <1>4 DEF FileMove, ContentInv
<1>6. own'[r] = Temp /\ \A q \in Regs \ {r} : own'[q] = own[q] \/ (own'[q] = Free /\ own[q] # Free)
  <2>1. \A q \in Dropped(h) : q \in Regs /\ own[q] # Free BY HeldReg, Distinct DEF Dropped
  <2> QED BY <1>2, <2>1 DEF OwnReset
<1>7. \A q \in Regs \ {r} : RegKept(q)
  <2>1. \A q \in args : own[q] = Free BY DEF ContentInv, RegContent
  <2>2. \A k \in Parts : def'[k] = "yes" => def[k] = "yes" BY <1>2 DEF DefAfter
  <2> QED BY <1>0, <1>4, <1>6, <2>1, <2>2 DEF RegKept
<1>8. \A q \in Regs : q \in {r} => RegContent(q)'
  <2>1. regHas'[r] = Temp BY <1>4, <1>6, Distinct
  <2>2. r \in CalleeSaved => r \in clob' BY <1>0, <1>a DEF ContentInv, RegContent
  <2> QED BY <1>0, <1>a, <1>6, <2>1, <2>2, Filled
<1>9. {} \in SUBSET Regs OBVIOUS
<1> QED BY <1>3, <1>5, <1>7, <1>8, <1>9, ContentStep

\* A ScratchReg gets the value its handle stands for, and no other part loses its own.
LEMMA IntoScratchContent ==
    ASSUME RefInv, CoreInv, ContentInv, NEW h \in PRefs, NEW s \in SRegs, into_scratch(h, s)
    PROVE  ContentInv'
<1>0. pref[h].kind # "none" /\ Source(h) BY DEF into_scratch
<1>1. ASSUME NEW r \in Regs, select_reg(BankOf[Val(pref[h].part)], {}, r), Claim(r, Temp, 1),
             reg' = RegAfter({r}), dirty' = DirtyAfter({r}),
             regHas' = Put(r, IF SourceOK(h, {r}) THEN Temp ELSE Junk),
             UNCHANGED <<life, vref, args, def>>
      PROVE ContentInv'
  <2>1. r \notin args BY <1>1, SelectNoArg
  <2>2. clob' \subseteq Regs /\ clob \subseteq clob' /\ (r \in CalleeSaved => r \in clob')
    BY <1>1 DEF Claim, mark_clobbered, ContentInv
  <2>3. {r} \in SUBSET Regs OBVIOUS
  <2>4. regHas' = Put(r, Temp) BY <1>0, <1>1, <2>3, SourceRead
  <2>5. /\ own' = [own EXCEPT ![r] = Temp] /\ memHas' = MemAfter({r}) /\ slot' = SlotAfter({r})
        /\ UNCHANGED <<alloc, args, def, refvars>>
    BY <1>1 DEF Claim, life, refvars
  <2> QED BY <1>1, <2>1, <2>2, <2>4, <2>5, NewTempContent
<1>2. ASSUME can_salvage(h), NEW r \in Regs, r = RegOf(h),
             own' = [own EXCEPT ![r] = Temp], clob' = mark_clobbered(r),
             reg' = [p \in Parts |-> IF Lost(h, p) THEN NoReg ELSE reg[p]],
             regHas' = Put(r, IF SalvageOK(h) THEN Temp ELSE Junk),
             def' = DefAfter({p \in Parts : Lost(h, p)}),
             UNCHANGED <<alloc, dirty, life, memory, vref, args>>
      PROVE ContentInv'
  <2>0. UNCHANGED <<alloc, args, dirty, memHas, slot, refvars>> BY <1>2 DEF life, memory, refvars
  <2>1. SalvageOK(h) /\ own[r] # Free /\ r \notin args BY <1>0, <1>2, SalvageRead
  <2>2. PICK P \in SUBSET Parts : P = {p \in Parts : Lost(h, p)} OBVIOUS
  <2>3. PartsMove({}, P, {})
    <3>1. \A k \in P : LastOwned(Val(k)) /\ st[Val(k)] # "none"
      BY <1>2, <2>2, OwnedLast, HandleKinds DEF Lost, can_salvage, CoreInv
    <3> QED BY <1>2, <2>0, <2>2, <3>1, GiveUpParts
  <2>4. /\ regHas' \in [Regs -> Contents]
        /\ \A q \in Regs : regHas'[q] = IF q = r THEN Temp ELSE regHas[q]
    BY <1>2, <2>1, PutType DEF Contents
  <2>5. FileMove BY <1>2, <2>0, <2>4 DEF FileMove, ContentInv, mark_clobbered
  <2>6. \A q \in Regs \ {r} : RegKept(q)
    <3>1. \A k \in Parts : def'[k] = "yes" => def[k] = "yes" BY <1>2 DEF DefAfter
    <3> QED BY <1>2, <2>0, <2>4, <3>1 DEF RegKept, CoreInv, RegInv
  <2>7. \A q \in Regs : q \in {r} => RegContent(q)'
    <3>1. own'[r] = Temp /\ regHas'[r] = Temp /\ r \notin args' BY <1>2, <2>0, <2>1, <2>4 DEF CoreInv, RegInv
    <3>2. r \in CalleeSaved => r \in clob' BY <1>2 DEF mark_clobbered
    <3> QED BY <3>1, <3>2, Filled
  <2>8. {} \in SUBSET Regs OBVIOUS
  <2> QED BY <2>3, <2>5, <2>6, <2>7, <2>8, ContentStep
<1>3. CASE Salvageable(h)
  <2>1. can_salvage(h) BY <1>3 DEF Salvageable
  <2>2. PICK r \in Regs : r = RegOf(h) BY <1>0, <2>1, SalvageRead
  <2> QED BY <1>2, <2>1, <2>2 DEF into_scratch
<1>4. CASE ~Salvageable(h) BY <1>1, <1>4 DEF into_scratch
<1> QED BY <1>3, <1>4

\* Registers D are freed and parts P lose theirs with it: resets.
LEMMA ResetContent ==
    ASSUME CoreInv, ContentInv, NEW P \in SUBSET Parts, \A k \in P : LastOwned(Val(k)) /\ st[Val(k)] # "none",
           NEW D, \A q \in D : q \in Regs /\ own[q] # Free,
           own' = [q \in Regs |-> IF q \in D THEN Free ELSE own[q]],
           regHas' = Settle(regHas), def' = DefAfter(P),
           \A k \in Parts \ P : reg'[k] = reg[k],
           UNCHANGED <<clob, alloc, args, dirty, memHas, slot, refvars>>
    PROVE  ContentInv'
<1>1. PartsMove({}, P, {}) BY GiveUpParts
<1>2. /\ regHas' \in [Regs -> Contents]
      /\ \A q \in Regs : own'[q] # Free \/ q \in args' => regHas'[q] = regHas[q]
  BY SettleType DEF ContentInv
<1>3. FileMove BY <1>2 DEF FileMove, ContentInv
<1>4. \A q \in Regs \ {} : RegKept(q)
  <2>1. \A q \in args : own[q] = Free BY DEF ContentInv, RegContent
  <2>2. \A k \in Parts : def'[k] = "yes" => def[k] = "yes" BY DEF DefAfter
  <2> QED BY <1>2, <2>1, <2>2 DEF RegKept
<1>5. {} \in SUBSET Regs /\ \A q \in Regs : q \in {} => RegContent(q)' OBVIOUS
<1> QED BY <1>1, <1>3, <1>4, <1>5, ContentStep

\* Nothing is given up that has a value in the register alone.
LEMMA NoneGone == ASSUME ContentInv PROVE DefAfter({}) = def
  BY DEF DefAfter, ContentInv

\* Moving a temporary between handles changes no content.
LEMMA TempMoveContent ==
    ASSUME CoreInv, ContentInv, NEW h \in PRefs, NEW o \in PRefs, set_value_temp_move(h, o)
    PROVE  ContentInv'
<1>1. \A q \in Dropped(h) : q \in Regs /\ own[q] # Free BY HeldReg, Distinct DEF Dropped
<1>2. /\ own' = [q \in Regs |-> IF q \in Dropped(h) THEN Free ELSE own[q]]
      /\ regHas' = Settle(regHas)
      /\ UNCHANGED <<clob, alloc, args, reg, dirty, memHas, slot, refvars, def>>
  BY DEF set_value_temp_move, OwnReset, asgn, life, memory, refvars
<1>3. def' = DefAfter({}) BY <1>2, NoneGone
<1>4. {} \in SUBSET Parts /\ \A k \in Parts \ {} : reg'[k] = reg[k] BY <1>2
<1> DEFINE P == {}
<1>5. \A k \in P : LastOwned(Val(k)) /\ st[Val(k)] # "none" OBVIOUS
<1>6. P \in SUBSET Parts /\ def' = DefAfter(P) /\ \A k \in Parts \ P : reg'[k] = reg[k] BY <1>3, <1>4
<1> HIDE DEF P
<1> QED BY <1>1, <1>2, <1>5, <1>6, ResetContent

\* Freeing a ScratchReg's register loses no part's value.
LEMMA ScratchResetContent ==
    ASSUME CoreInv, ContentInv, NEW s \in SRegs, ScratchReg_reset(s) PROVE ContentInv'
<1>0. PICK D : D = {scratch[s]} OBVIOUS
<1>1. \A q \in D : q \in Regs /\ own[q] # Free
  BY <1>0, HeldScratch, Distinct DEF ScratchReg_reset
<1>2. /\ own' = [q \in Regs |-> IF q \in D THEN Free ELSE own[q]]
      /\ regHas' = Settle(regHas)
      /\ UNCHANGED <<clob, alloc, args, reg, dirty, memHas, slot, refvars, def>>
  BY <1>0 DEF ScratchReg_reset, asgn, life, memory, refvars, CoreInv, RegInv
<1> DEFINE P == {}
<1>3. \A k \in P : LastOwned(Val(k)) /\ st[Val(k)] # "none" OBVIOUS
<1>4. P \in SUBSET Parts /\ def' = DefAfter(P) /\ \A k \in Parts \ P : reg'[k] = reg[k]
  BY <1>2, NoneGone
<1> HIDE DEF P
<1> QED BY <1>1, <1>2, <1>3, <1>4, ResetContent

\* Resetting a handle gives up a register only when its part is at its last, owned use.
LEMMA PartResetContent ==
    ASSUME RefInv, CoreInv, ContentInv, NEW h \in PRefs, ValuePart_reset(h) PROVE ContentInv'
<1>1. \A q \in Dropped(h) : q \in Regs /\ own[q] # Free BY HeldReg, Distinct DEF Dropped
<1>2. PICK P \in SUBSET Parts : P = {p \in Parts : GivesUp(h, p)} OBVIOUS
<1>3. \A k \in P : LastOwned(Val(k)) /\ st[Val(k)] # "none"
  BY <1>2, OwnedLast, HandleKinds DEF GivesUp, Dropped, CoreInv
<1>4. /\ own' = [q \in Regs |-> IF q \in Dropped(h) THEN Free ELSE own[q]]
      /\ regHas' = Settle(regHas) /\ def' = DefAfter(P)
      /\ \A k \in Parts \ P : reg'[k] = reg[k]
      /\ UNCHANGED <<clob, alloc, args, dirty, memHas, slot, refvars>>
  BY <1>2 DEF ValuePart_reset, OwnReset, life, memory, refvars
<1> QED BY <1>1, <1>3, <1>4, ResetContent

----------------------------------------------------------------------------
(***************************************************************************)
(* Definitions of values.                                                  *)
(***************************************************************************)
\* Part p has a new value in register r, which is or becomes its own; the
\* parts in P give up theirs and R is evicted.
DefineMove(R, P, p, r) ==
    /\ \A k \in P : LastOwned(Val(k)) /\ st[Val(k)] # "none"
    /\ st[Val(p)] # "none"
    /\ own'[r] = p /\ reg'[p] = r /\ r \notin args
    /\ r \in CalleeSaved => r \in clob'
    /\ reg[p] \in Regs \ {r} => own'[reg[p]] = Free
    /\ \A q \in Regs \ {r} : own'[q] = own[q] \/ (own'[q] = Free /\ own[q] # Free)
    /\ \A k \in Parts \ P : k # p => reg'[k] # NoReg \/ reg'[k] = RegAfter(R)[k]
    /\ clob' \subseteq Regs /\ clob \subseteq clob' /\ slot' = SlotAfter(R)
    /\ dirty' = [DirtyAfter(R) EXCEPT ![p] = TRUE]
    /\ memHas' = Outdate(p, MemAfter(R))
    /\ def' = [DefAfter(P) EXCEPT ![p] = "yes"]
    /\ regHas' = NewValue(r, p) \/ regHas' = Settle(NewValue(r, p))
    /\ UNCHANGED <<alloc, args, refvars>>

\* A step of the form DefineMove leaves part p, newly defined, in register r and every other part in place.
LEMMA DefinedContent ==
    ASSUME CoreInv, ContentInv, NEW R \in SUBSET Regs, NEW P \in SUBSET Parts, NEW p \in Parts, NEW r \in Regs,
           DefineMove(R, P, p, r)
    PROVE  ContentInv'
<1> USE DEF DefineMove
<1>1. /\ regHas' \in [Regs -> Contents]
      /\ \A q \in Regs : own'[q] # Free \/ q \in args' =>
                           regHas'[q] = IF q = r THEN p ELSE IF regHas[q] = p THEN Junk ELSE regHas[q]
  <2>1. PICK f \in [Regs -> Contents] : f = NewValue(r, p) BY DefineType
  <2>2. \A q \in Regs : f[q] = IF q = r THEN p ELSE IF regHas[q] = p THEN Junk ELSE regHas[q]
    BY <2>1 DEF NewValue
  <2>3. CASE regHas' = f BY <2>2, <2>3
  <2>4. CASE regHas' = Settle(f) BY <2>2, <2>4, SettleType
  <2> QED BY <2>1, <2>3, <2>4
<1>2. PartsMove(R, P, {p})
  <2>1. dirty' \in [Parts -> BOOLEAN] /\ memHas' \in [Parts -> BOOLEAN]
    BY EvictedContent DEF Outdate
  <2>2. def' \in [Parts -> {"no", "yes", "gone"}] BY DEF DefAfter, ContentInv
  <2>3. ASSUME NEW k \in Parts
        PROVE /\ dirty'[k] = (k \in {p} \/ DirtyAfter(R)[k])
              /\ memHas'[k] = (k \notin {p} /\ MemAfter(R)[k])
              /\ def'[k] = IF k \in {p} THEN "yes"
                           ELSE IF k \in P /\ def[k] = "yes" /\ dirty[k] THEN "gone" ELSE def[k]
    <3>1. DirtyAfter(R) \in [Parts -> BOOLEAN] /\ MemAfter(R) \in [Parts -> BOOLEAN] BY EvictedContent
    <3>2. dirty'[k] = (k \in {p} \/ DirtyAfter(R)[k]) BY <3>1
    <3>3. memHas'[k] = (k \notin {p} /\ MemAfter(R)[k]) BY <3>1 DEF Outdate
    <3>4. def'[k] = IF k \in {p} THEN "yes"
                    ELSE IF k \in P /\ def[k] = "yes" /\ dirty[k] THEN "gone" ELSE def[k]
      BY DEF DefAfter
    <3> QED BY <3>2, <3>3, <3>4
  <2>4. reg'[p] # NoReg BY Distinct
  <2> QED BY <2>1, <2>2, <2>3, <2>4 DEF PartsMove
<1>3. FileMove BY <1>1 DEF FileMove, ContentInv
<1>4. \A q \in Regs \ {r} : RegKept(q)
  <2>1. \A q \in args : own[q] = Free BY DEF ContentInv, RegContent
  <2>2. \A k \in Parts : k # p /\ def'[k] = "yes" => def[k] = "yes" BY DEF DefAfter, ContentInv
  <2>3. \A q \in Regs \ {r} : own'[q] # p
    BY OwnersAgree, Distinct DEF CoreInv
  <2>4. \A q \in Regs \ {r} : own[q] = p => own'[q] = Free /\ q \notin args
    BY <2>1, OwnersAgree, Distinct DEF CoreInv
  <2>5. ASSUME NEW q \in Regs \ {r} PROVE RegKept(q)
    <3>1. own'[q] = own[q] \/ (own'[q] = Free /\ q \notin args') BY <2>1
    <3>2. own'[q] # Free \/ q \in args' => \/ regHas'[q] = regHas[q]
                                           \/ regHas[q] \in Parts /\ regHas[q] # own[q]
      BY <1>1, <2>4
    <3>3. \A k \in Parts : own'[q] = k /\ def'[k] = "yes" => def[k] = "yes" BY <2>2, <2>3
    <3> QED BY <3>1, <3>2, <3>3 DEF RegKept
  <2> QED BY <2>5
<1>5. \A q \in Regs : q \in {r} => RegContent(q)'
  <2>1. regHas'[r] = p BY <1>1, Distinct
  <2> QED BY <2>1, Filled
<1> QED BY <1>2, <1>3, <1>4, <1>5, ContentStep

\* What DefineMove asks for of the memory if nothing is evicted or given up.
LEMMA NoEviction ==
    ASSUME CoreInv, ContentInv
    PROVE  /\ DirtyAfter({}) = dirty /\ MemAfter({}) = memHas /\ SlotAfter({}) = slot
           /\ DefAfter({}) = def /\ \A k \in Parts : RegAfter({})[k] = reg[k]
           /\ {} \in SUBSET Regs /\ {} \in SUBSET Parts
<1>1. DirtyAfter({}) = dirty /\ MemAfter({}) = memHas /\ SlotAfter({}) = slot
  BY NothingEvicted, NothingSpilled
<1>2. \A k \in Parts : RegAfter({})[k] = reg[k] BY EvictedParts DEF CoreInv
<1> QED BY <1>1, <1>2, NoneGone

\* A part's own register holds no argument and has been noted if need be.
LEMMA OwnRegister ==
    ASSUME CoreInv, ContentInv, NEW p \in Parts, reg[p] # NoReg
    PROVE  /\ reg[p] \in Regs /\ own[reg[p]] = p /\ reg[p] \notin args
           /\ reg[p] \in CalleeSaved => reg[p] \in clob
<1>1. reg[p] \in Regs /\ own[reg[p]] = p BY OwnersAgree DEF CoreInv
<1>2. RegContent(reg[p]) BY <1>1 DEF ContentInv
<1> QED BY <1>1, <1>2, Distinct DEF RegContent

\* Writing a result into its register makes the spilled copy stale and marks it so.
LEMMA WriteResultContent ==
    ASSUME CoreInv, ContentInv, NEW h \in PRefs, WriteResult(h) PROVE ContentInv'
<1>0. pref[h].kind = "val" /\ hreg[h] # NoReg BY DEF WriteResult
<1>1. PICK p \in Parts : p = pref[h].part /\ st[Val(p)] = "live" BY <1>0, HandleKinds DEF CoreInv
<1>2. PICK r \in Regs : r = hreg[h] /\ reg[p] = r /\ own[r] = p /\ r \notin args /\ (r \in CalleeSaved => r \in clob)
  <2>1. hreg[h] = reg[p] /\ reg[p] # NoReg BY <1>0, <1>1, HeldReg
  <2> QED BY <2>1, OwnRegister
<1>3. /\ regHas' = NewValue(r, p) /\ memHas' = Outdate(p, memHas)
      /\ dirty' = [dirty EXCEPT ![p] = TRUE] /\ def' = [def EXCEPT ![p] = "yes"]
      /\ UNCHANGED <<own, clob, alloc, reg, slot, args, refvars>>
  BY <1>1, <1>2 DEF WriteResult, Define, NewValue, file, life, handles, refvars
<1>4. DefineMove({}, {}, p, r)
  <2> DEFINE E == {}
  <2>1. /\ DirtyAfter(E) = dirty /\ MemAfter(E) = memHas /\ SlotAfter(E) = slot
        /\ DefAfter(E) = def /\ \A k \in Parts : RegAfter(E)[k] = reg[k]
    BY NoEviction
  <2>2. \A k : k \notin E OBVIOUS
  <2> HIDE DEF E
  <2>3. DefineMove(E, E, p, r) BY <1>1, <1>2, <1>3, <2>1, <2>2 DEF DefineMove, ContentInv
  <2> QED BY <2>3 DEF E
<1> QED BY <1>4, NoEviction, DefinedContent

\* A value copies another one, into a register of its own or a selected one.
LEMMA CopyContent ==
    ASSUME RefInv, CoreInv, ContentInv, NEW h \in PRefs, NEW o \in PRefs, set_value_copy(h, o)
    PROVE  ContentInv'
<1>0. /\ pref[h].kind = "val" /\ Source(o)
      /\ def' = [DefAfter({q \in Parts : GivesUp(o, q)}) EXCEPT ![pref[h].part] = "yes"]
      /\ UNCHANGED <<alloc, refvars>>
  BY DEF set_value_copy, life, refvars
<1>a. PICK p \in Parts : p = pref[h].part /\ st[Val(p)] = "live" BY <1>0, HandleKinds DEF CoreInv
<1>b. PICK r \in Regs :
        LET R == IF reg[pref[h].part] = NoReg THEN {r} ELSE {}
        IN  /\ IF reg[pref[h].part] = NoReg THEN select_reg(BankOf[Val(pref[h].part)], {}, r)
                                            ELSE r = reg[pref[h].part]
            /\ own' = [OwnReset(o) EXCEPT ![r] = pref[h].part]
            /\ clob' = mark_clobbered(r)
            /\ memHas' = Outdate(pref[h].part, MemAfter(R))
            /\ slot' = SlotAfter(R)
            /\ reg' = [q \in Parts |-> IF q = pref[h].part THEN r
                                       ELSE IF GivesUp(o, q) THEN NoReg ELSE RegAfter(R)[q]]
            /\ dirty' = [DirtyAfter(R) EXCEPT ![pref[h].part] = TRUE]
            /\ args' = args
            /\ regHas' = Settle(Define(r, pref[h].part, SourceOK(o, R)))
  BY Zenon DEF set_value_copy
<1>c. PICK R \in SUBSET Regs : R = IF reg[p] = NoReg THEN {r} ELSE {} OBVIOUS
<1>1. /\ IF reg[p] = NoReg THEN select_reg(BankOf[Val(p)], {}, r) ELSE r = reg[p]
      /\ own' = [OwnReset(o) EXCEPT ![r] = p]
      /\ clob' = mark_clobbered(r) /\ memHas' = Outdate(p, MemAfter(R)) /\ slot' = SlotAfter(R)
      /\ reg' = [q \in Parts |-> IF q = p THEN r
                                 ELSE IF GivesUp(o, q) THEN NoReg ELSE RegAfter(R)[q]]
      /\ dirty' = [DirtyAfter(R) EXCEPT ![p] = TRUE] /\ args' = args
      /\ regHas' = Settle(Define(r, p, SourceOK(o, R)))
  BY <1>a, <1>b, <1>c
<1>2. PICK P \in SUBSET Parts : P = {q \in Parts : GivesUp(o, q)} OBVIOUS
<1>3. \A k \in P : LastOwned(Val(k)) /\ st[Val(k)] # "none"
  BY <1>2, OwnedLast, HandleKinds DEF GivesUp, Dropped, CoreInv
<1>4. Settle(Define(r, p, SourceOK(o, R))) = Settle(NewValue(r, p))
  <2>1. SourceOK(o, R) BY <1>0, SourceRead
  <2>2. Define(r, p, SourceOK(o, R)) = NewValue(r, p) BY <2>1 DEF Define, NewValue
  <2> QED BY <2>2
<1>5. r \notin args
  <2>1. CASE reg[p] = NoReg BY <1>1, <2>1, SelectNoArg
  <2>2. CASE reg[p] # NoReg BY <1>1, <2>2, OwnRegister
  <2> QED BY <2>1, <2>2
<1>6. /\ own'[r] = p
      /\ \A q \in Regs \ {r} : own'[q] = own[q] \/ (own'[q] = Free /\ own[q] # Free)
  <2>1. \A q \in Dropped(o) : q \in Regs /\ own[q] # Free BY HeldReg, Distinct DEF Dropped
  <2> QED BY <1>1, <2>1 DEF OwnReset
<1>7. reg[p] \in Regs \ {r} => own'[reg[p]] = Free BY <1>1, Distinct
<1>8. DefineMove(R, P, p, r)
  <2>1. (r \in CalleeSaved => r \in clob') /\ clob' \subseteq Regs /\ clob \subseteq clob'
    BY <1>1 DEF mark_clobbered, ContentInv
  <2>2. reg'[p] = r /\ \A k \in Parts \ P : k # p => reg'[k] = RegAfter(R)[k] BY <1>1, <1>2
  <2>3. def' = [DefAfter(P) EXCEPT ![p] = "yes"] BY <1>0, <1>a, <1>2
  <2> QED BY <1>0, <1>a, <1>1, <1>3, <1>4, <1>5, <1>6, <1>7, <2>1, <2>2, <2>3 DEF DefineMove
<1> QED BY <1>8, DefinedContent

\* A value takes the register of the source over and leaves its own.
LEMMA SalvageContent ==
    ASSUME RefInv, CoreInv, ContentInv, NEW h \in PRefs, NEW o \in PRefs, NEW reuse \in BOOLEAN,
           set_value_salvage(h, o, reuse)
    PROVE  ContentInv'
<1>0. /\ pref[h].kind = "val" /\ ~Lost(o, pref[h].part) /\ Source(o) /\ can_salvage(o)
      /\ UNCHANGED <<clob, alloc, slot, args, refvars>>
  BY DEF set_value_salvage, Salvageable, life, refvars
<1>a. PICK p \in Parts : p = pref[h].part /\ st[Val(p)] = "live" BY <1>0, HandleKinds DEF CoreInv
<1>b. PICK r \in Regs : r = RegOf(o) /\ own[r] # Free /\ r \notin args /\ SalvageOK(o)
  BY <1>0, SalvageRead
<1>1. /\ own' = [q \in Regs |-> IF q = r THEN p ELSE IF q = reg[p] THEN Free ELSE own[q]]
      /\ reg' = [q \in Parts |-> IF q = p THEN r ELSE IF Lost(o, q) THEN NoReg ELSE reg[q]]
      /\ dirty' = [dirty EXCEPT ![p] = TRUE] /\ memHas' = Outdate(p, memHas)
      /\ def' = [DefAfter({q \in Parts : Lost(o, q)}) EXCEPT ![p] = "yes"]
      /\ regHas' = Settle(Define(r, p, SalvageOK(o)))
  BY <1>a, <1>b DEF set_value_salvage
<1>2. PICK P \in SUBSET Parts : P = {q \in Parts : Lost(o, q)} OBVIOUS
<1>3. \A k \in P : LastOwned(Val(k)) /\ st[Val(k)] # "none"
  BY <1>0, <1>2, OwnedLast, HandleKinds DEF Lost, can_salvage, CoreInv
<1>4. Settle(Define(r, p, SalvageOK(o))) = Settle(NewValue(r, p))
  <2>1. Define(r, p, SalvageOK(o)) = NewValue(r, p) BY <1>b DEF Define, NewValue
  <2> QED BY <2>1
<1>5. \A q \in Regs : q = reg[p] => own[q] # Free BY OwnersAgree, Distinct DEF CoreInv
<1>6. DefineMove({}, P, p, r)
  <2> DEFINE E == {}
  <2>1. /\ DirtyAfter(E) = dirty /\ MemAfter(E) = memHas /\ SlotAfter(E) = slot
        /\ \A k \in Parts : RegAfter(E)[k] = reg[k]
    BY NoEviction
  <2> HIDE DEF E
  <2>2. (r \in CalleeSaved => r \in clob') /\ clob' \subseteq Regs /\ clob \subseteq clob'
    BY <1>0, <1>b DEF ContentInv, RegContent
  <2>3. own'[r] = p /\ reg'[p] = r BY <1>1
  <2>4. reg[p] \in Regs \ {r} => own'[reg[p]] = Free BY <1>1
  <2>5. \A q \in Regs \ {r} : own'[q] = own[q] \/ (own'[q] = Free /\ own[q] # Free) BY <1>1, <1>5
  <2>6. \A k \in Parts \ P : k # p => reg'[k] = RegAfter(E)[k] BY <1>1, <1>2, <2>1
  <2>7. DefineMove(E, P, p, r)
    BY <1>0, <1>a, <1>b, <1>1, <1>2, <1>3, <1>4, <2>1, <2>2, <2>3, <2>4, <2>5, <2>6 DEF DefineMove
  <2> QED BY <2>7 DEF E
<1>7. {} \in SUBSET Regs OBVIOUS
<1> QED BY <1>6, <1>7, DefinedContent

\* A value in a register that nobody else has: a ScratchReg's or a call's
\* result register, or moved to the part's own if that is fixed.
LEMMA GivenContent ==
    ASSUME CoreInv, ContentInv, NEW p \in Parts, NEW r \in Regs, st[Val(p)] # "none",
           own'[r] = p, reg'[p] = r, r \notin args, r \in CalleeSaved => r \in clob',
           reg[p] = NoReg \/ reg[p] = r, \A k \in Parts : k # p => reg'[k] = reg[k],
           \A q \in Regs \ {r} : own'[q] = own[q] \/ (own'[q] = Free /\ own[q] # Free),
           clob' \subseteq Regs, clob \subseteq clob', dirty' = [dirty EXCEPT ![p] = TRUE],
           memHas' = Outdate(p, memHas), def' = [def EXCEPT ![p] = "yes"],
           regHas' = NewValue(r, p) \/ regHas' = Settle(NewValue(r, p)),
           UNCHANGED <<alloc, args, slot, refvars>>
    PROVE  ContentInv'
<1>1. DefineMove({}, {}, p, r)
  <2> DEFINE E == {}
  <2>1. /\ DirtyAfter(E) = dirty /\ MemAfter(E) = memHas /\ SlotAfter(E) = slot
        /\ DefAfter(E) = def /\ \A k \in Parts : RegAfter(E)[k] = reg[k]
    BY NoEviction
  <2>2. \A k : k \notin E OBVIOUS
  <2> HIDE DEF E
  <2>3. reg[p] \in Regs \ {r} => own'[reg[p]] = Free BY Distinct
  <2>4. DefineMove(E, E, p, r) BY <2>1, <2>2, <2>3 DEF DefineMove
  <2> QED BY <2>4 DEF E
<1> QED BY <1>1, NoEviction, DefinedContent

\* A result takes the value of a ScratchReg into its own bookkeeping.
LEMMA SetScratchContent ==
    ASSUME CoreInv, ContentInv, NEW h \in PRefs, NEW s \in SRegs, set_value_scratch(h, s)
    PROVE  ContentInv'
<1>0. /\ pref[h].kind = "val" /\ scratch[s] # NoReg /\ dirty[pref[h].part]
      /\ UNCHANGED <<clob, alloc, dirty, slot, args, refvars>>
  BY DEF set_value_scratch, life, refvars
<1>a. PICK p \in Parts : p = pref[h].part /\ st[Val(p)] = "live" BY <1>0, HandleKinds DEF CoreInv
<1>b. PICK t \in Regs : /\ t = scratch[s] /\ own[t] = Temp /\ regHas[t] = Temp /\ t \notin args
                        /\ t \in CalleeSaved => t \in clob
  <2>1. scratch[s] \in Regs /\ own[scratch[s]] = Temp BY <1>0, HeldScratch
  <2>2. RegContent(scratch[s]) BY <2>1 DEF ContentInv
  <2> QED BY <2>1, <2>2, Distinct DEF RegContent
<1>c. dirty' = [dirty EXCEPT ![p] = TRUE] /\ clob' \subseteq Regs /\ clob \subseteq clob'
  BY <1>0, <1>a DEF ContentInv
<1>1. CASE fixed[p] /\ own' = [own EXCEPT ![t] = Free] /\ regHas' = Settle(Define(reg[p], p, regHas[t] = Temp))
           /\ memHas' = Outdate(p, memHas) /\ def' = [def EXCEPT ![p] = "yes"] /\ UNCHANGED reg
  <2>1. reg[p] # NoReg BY <1>1 DEF CoreInv, RegInv
  <2>2. PICK r \in Regs : r = reg[p] /\ own[r] = p /\ r \notin args /\ (r \in CalleeSaved => r \in clob)
    BY <2>1, OwnRegister
  <2>3. Define(reg[p], p, regHas[t] = Temp) = NewValue(r, p) BY <1>b, <2>2 DEF Define, NewValue
  <2>4. regHas' = Settle(NewValue(r, p)) BY <1>1, <2>3
  <2>5. /\ own'[r] = p
        /\ \A q \in Regs \ {r} : own'[q] = own[q] \/ (own'[q] = Free /\ own[q] # Free)
    BY <1>1, <1>b, <2>2, Distinct DEF CoreInv, RegInv
  <2> QED BY <1>0, <1>a, <1>c, <1>1, <2>2, <2>4, <2>5, GivenContent
<1>2. CASE reg[p] = NoReg /\ Adopt(t, p, regHas[t] = Temp)
  <2>1. Define(t, p, regHas[t] = Temp) = NewValue(t, p) BY <1>b DEF Define, NewValue
  <2>2. /\ own'[t] = p /\ \A q \in Regs \ {t} : own'[q] = own[q]
        /\ reg'[p] = t /\ \A k \in Parts : k # p => reg'[k] = reg[k]
        /\ regHas' = NewValue(t, p) /\ def' = [def EXCEPT ![p] = "yes"] /\ memHas' = Outdate(p, memHas)
    BY <1>2, <2>1 DEF Adopt, CoreInv, RegInv
  <2> QED BY ZenonT(60), <1>0, <1>a, <1>b, <1>c, <1>2, <2>2, GivenContent
<1> QED BY <1>a, <1>b, <1>1, <1>2 DEF set_value_scratch

\* A result takes the value of a return register into its own bookkeeping.
LEMMA SetRegContent ==
    ASSUME CoreInv, ContentInv, NEW h \in PRefs, NEW r \in RetRegs, set_value_reg(h, r)
    PROVE  ContentInv'
<1>0. /\ pref[h].kind = "val" /\ own[r] = Free /\ r \notin args
      /\ UNCHANGED <<alloc, slot, args, refvars>>
  BY DEF set_value_reg, life, handles, refvars
<1>a. PICK p \in Parts : p = pref[h].part /\ st[Val(p)] = "live" BY <1>0, HandleKinds DEF CoreInv
<1>b. r \in Regs /\ r \notin CalleeSaved BY RegAssumption DEF RegAssumption
<1>c. dirty' = [dirty EXCEPT ![p] = TRUE] BY <1>a DEF set_value_reg
<1>1. CASE fixed[p] /\ regHas' = Define(reg[p], p, TRUE)
           /\ memHas' = Outdate(p, memHas) /\ def' = [def EXCEPT ![p] = "yes"] /\ UNCHANGED <<own, clob, reg>>
  <2>1. reg[p] # NoReg BY <1>1 DEF CoreInv, RegInv
  <2>2. PICK q \in Regs : q = reg[p] /\ own[q] = p /\ q \notin args /\ (q \in CalleeSaved => q \in clob)
    BY <2>1, OwnRegister
  <2>3. regHas' = NewValue(q, p) BY <1>1, <2>2 DEF Define, NewValue
  <2>4. clob' \subseteq Regs /\ clob \subseteq clob' BY <1>1 DEF ContentInv
  <2> QED BY <1>0, <1>a, <1>c, <1>1, <2>2, <2>3, <2>4, GivenContent
<1>2. CASE reg[p] = NoReg /\ Adopt(r, p, TRUE) /\ clob' = mark_clobbered(r)
  <2>1. Define(r, p, TRUE) = NewValue(r, p) BY DEF Define, NewValue
  <2>2. /\ own'[r] = p /\ \A q \in Regs \ {r} : own'[q] = own[q]
        /\ reg'[p] = r /\ \A k \in Parts : k # p => reg'[k] = reg[k]
        /\ regHas' = NewValue(r, p) /\ def' = [def EXCEPT ![p] = "yes"] /\ memHas' = Outdate(p, memHas)
    BY <1>b, <1>2, <2>1 DEF Adopt, CoreInv, RegInv
  <2>3. clob' \subseteq Regs /\ clob \subseteq clob' BY <1>b, <1>2 DEF ContentInv, mark_clobbered
  <2> QED BY <1>0, <1>a, <1>b, <1>c, <1>2, <2>2, <2>3, GivenContent
<1> QED BY <1>a, <1>1, <1>2 DEF set_value_reg

----------------------------------------------------------------------------
(***************************************************************************)
(* Arguments, calls, evictions.                                            *)
(***************************************************************************)
\* The parts P give up their registers and R is evicted.
LEMMA EvictGive ==
    ASSUME CoreInv, ContentInv, NEW R \in SUBSET Regs, NEW P \in SUBSET Parts,
           \A k \in P : LastOwned(Val(k)) /\ st[Val(k)] # "none",
           dirty' = DirtyAfter(R), memHas' = MemAfter(R), slot' = SlotAfter(R), def' = DefAfter(P),
           UNCHANGED refvars, \A k \in Parts \ P : reg'[k] = RegAfter(R)[k]
    PROVE  PartsMove(R, P, {})
<1>1. dirty' \in [Parts -> BOOLEAN] /\ memHas' \in [Parts -> BOOLEAN] BY EvictedContent
<1>2. /\ def' \in [Parts -> {"no", "yes", "gone"}]
      /\ \A k \in Parts : def'[k] = IF k \in P /\ def[k] = "yes" /\ dirty[k] THEN "gone" ELSE def[k]
  BY DEF DefAfter, ContentInv
<1> QED BY <1>1, <1>2 DEF PartsMove

\* CallBuilder::add_arg: what is passed is what was meant, and the register
\* that is filled with it is nobody's.
LEMMA AddArgContent ==
    ASSUME RefInv, CoreInv, ContentInv, NEW h \in PRefs, NEW r \in Regs, add_arg(h, r) PROVE ContentInv'
<1>a. PICK salv \in BOOLEAN : salv <=> can_salvage(h) OBVIOUS
<1>b. PICK src : src = RegOf(h) OBVIOUS
<1>c. PICK R \in SUBSET Regs : R = IF salv /\ src = r THEN {} ELSE {r} OBVIOUS
<1>d. PICK P \in SUBSET Parts : P = {p \in Parts : salv /\ Lost(h, p)} OBVIOUS
<1>0. /\ pref[h].kind # "none" /\ Source(h) /\ r \notin args
      /\ \A q \in R : Claimable(q)
      /\ own' = [q \in Regs |-> IF q = r \/ (salv /\ q = src) THEN Free ELSE own[q]]
      /\ clob' = mark_clobbered(r) /\ alloc' = alloc \ {r} /\ args' = args \cup {r}
      /\ memHas' = MemAfter(R) /\ slot' = SlotAfter(R) /\ dirty' = DirtyAfter(R)
      /\ \A p \in Parts \ P : reg'[p] = RegAfter(R)[p]
      /\ def' = DefAfter(P) /\ UNCHANGED refvars
  BY <1>a, <1>b, <1>c, <1>d DEF add_arg, life, refvars
<1>1. salv => src \in Regs /\ SalvageOK(h) /\ own[src] # Free /\ src \notin args
  BY <1>0, <1>a, <1>b, SalvageRead
<1>2. ASSUME ~salv, is_in_reg(h, r) PROVE regHas[r] = pref[h].part
  <2>1. Claimable(r) BY <1>0, <1>2, <1>c
  <2>2. NotHeld(r) BY <2>1, UnlockedUnheld DEF Claimable, Evictable, CoreInv
  <2>3. pref[h].kind = "val" /\ reg[pref[h].part] = r BY <1>2, <2>2 DEF is_in_reg, NotHeld
  <2>4. pref[h].part \in Parts /\ def[pref[h].part] = "yes"
    BY <1>0, <2>3, HandleKinds DEF CoreInv, Source, Readable
  <2> QED BY <2>3, <2>4, InRegister, Distinct
<1>3. ~salv => SourceOK(h, R) BY <1>0, SourceRead
<1>4. regHas' = Settle(Put(r, Arg))
  BY <1>1, <1>2, <1>3, <1>a, <1>b, <1>c DEF add_arg
<1>5. /\ regHas' \in [Regs -> Contents]
      /\ \A q \in Regs : own'[q] # Free \/ q \in args' => regHas'[q] = IF q = r THEN Arg ELSE regHas[q]
  <2>1. PICK f \in [Regs -> Contents] : f = Put(r, Arg) BY PutType DEF Contents
  <2>2. \A q \in Regs : f[q] = IF q = r THEN Arg ELSE regHas[q] BY <2>1 DEF Put, ContentInv
  <2> QED BY <1>4, <2>1, <2>2, SettleType
<1>6. FileMove BY <1>0, <1>5 DEF FileMove, ContentInv, mark_clobbered
<1>7. PartsMove(R, P, {})
  <2>1. \A k \in P : LastOwned(Val(k)) /\ st[Val(k)] # "none"
    BY <1>a, <1>d, OwnedLast, HandleKinds DEF Lost, can_salvage, CoreInv
  <2> QED BY <1>0, <2>1, EvictGive
<1>8. \A q \in Regs \ {r} : RegKept(q)
  <2>1. \A k \in Parts : def'[k] = "yes" => def[k] = "yes" BY <1>0 DEF DefAfter
  <2>2. ASSUME NEW q \in Regs \ {r} PROVE RegKept(q)
    <3>1. own'[q] = own[q] \/ (own'[q] = Free /\ q \notin args') BY <1>0, <1>1
    <3>2. own'[q] # Free \/ q \in args' => regHas'[q] = regHas[q] BY <1>5
    <3>3. q \in args' => q \in args /\ (q \in alloc' => q \in alloc) BY <1>0
    <3> QED BY <2>1, <3>1, <3>2, <3>3 DEF RegKept
  <2> QED BY <2>2
<1>9. \A q \in Regs : q \in {r} => RegContent(q)'
  <2>1. own'[r] = Free /\ r \in args' /\ r \notin alloc' /\ regHas'[r] = Arg BY <1>0, <1>5
  <2> QED BY <2>1, Distinct DEF RegContent
<1> QED BY <1>6, <1>7, <1>8, <1>9, ContentStep

\* A call: whatever the callee may overwrite has been evicted, given up, or
\* was an argument.
LEMMA CallContent ==
    ASSUME CoreInv, ContentInv, NEW skip, NEW drop, NEW P \in SUBSET Parts, CallEffect(skip, drop, P),
           \A k \in P : LastOwned(Val(k)) /\ st[Val(k)] # "none",
           \A q \in Regs : q \in skip => own[q] = Free \/ q \in drop
    PROVE  ContentInv'
<1>a. PICK R \in SUBSET Regs : R = CallEvicted(skip) BY DEF CallEvicted, CallClobbered
<1>0. /\ own' = [r \in Regs |-> IF r \in R \cup drop THEN Free ELSE own[r]]
      /\ alloc' = alloc \cup args /\ args' = {}
      /\ memHas' = MemAfter(R) /\ slot' = SlotAfter(R) /\ dirty' = DirtyAfter(R)
      /\ \A k \in Parts \ P : reg'[k] = RegAfter(R)[k]
      /\ regHas' = Settle([r \in Regs |-> IF r \in CallClobbered THEN Junk ELSE regHas[r]])
      /\ def' = DefAfter(P) /\ UNCHANGED <<clob, refvars>>
  BY <1>a DEF CallEffect, life, refvars
<1>1. /\ regHas' \in [Regs -> Contents]
      /\ \A q \in Regs : own'[q] # Free => regHas'[q] = IF q \in CallClobbered THEN Junk ELSE regHas[q]
  <2>1. PICK f \in [Regs -> Contents] : f = [r \in Regs |-> IF r \in CallClobbered THEN Junk ELSE regHas[r]]
    BY DEF ContentInv, Contents
  <2>2. regHas' = Settle(f) BY <1>0, <2>1
  <2> QED BY <2>1, <2>2, SettleType
<1>2. \A q \in Regs : own'[q] # Free => own'[q] = own[q] /\ q \notin CallClobbered
  BY <1>0, <1>a DEF CallEvicted
<1>3. PartsMove(R, P, {}) BY <1>0, EvictGive
<1>4. FileMove BY <1>0, <1>1 DEF FileMove, ContentInv
<1>5. \A q \in Regs \ {} : RegKept(q)
  <2>1. \A k \in Parts : def'[k] = "yes" => def[k] = "yes" BY <1>0 DEF DefAfter
  <2> QED BY <1>0, <1>1, <1>2, <2>1 DEF RegKept
<1>6. \A q \in Regs : q \in {} => RegContent(q)' OBVIOUS
<1> QED BY <1>3, <1>4, <1>5, <1>6, ContentStep

\* A call through a register spills what it clobbers before it clobbers it.
LEMMA CallRegContent ==
    ASSUME RefInv, CoreInv, ContentInv, NEW h \in PRefs, call_reg(h) PROVE ContentInv'
<1>0. pref[h].kind # "none" /\ Source(h) BY DEF call_reg
<1>1. \A q \in args : own[q] = Free BY DEF ContentInv, RegContent
<1>2. CASE can_salvage(h)
  <2>1. PICK P \in SUBSET Parts : P = {p \in Parts : Lost(h, p)} OBVIOUS
  <2>2. CallEffect(args \cup {RegOf(h)}, {RegOf(h)}, P) BY <1>2, <2>1 DEF call_reg
  <2>3. \A k \in P : LastOwned(Val(k)) /\ st[Val(k)] # "none"
    BY <1>2, <2>1, OwnedLast, HandleKinds DEF Lost, can_salvage, CoreInv
  <2>4. \A q \in Regs : q \in args \cup {RegOf(h)} => own[q] = Free \/ q \in {RegOf(h)} BY <1>1
  <2> QED BY <2>2, <2>3, <2>4, CallContent
<1>3. CASE ~can_salvage(h)
  <2>1. CallEffect(args, {}, {}) BY <1>3 DEF call_reg
  <2> DEFINE E == {}
  <2>2. CallEffect(args, E, E) /\ E \in SUBSET Parts /\ \A k : k \notin E BY <2>1
  <2> HIDE DEF E
  <2> QED BY <1>1, <2>2, CallContent
<1> QED BY <1>2, <1>3

\* A call of a symbol spills what it clobbers before it clobbers it.
LEMMA CallSymContent == ASSUME CoreInv, ContentInv, call_sym PROVE ContentInv'
<1>1. \A q \in args : own[q] = Free BY DEF ContentInv, RegContent
<1> DEFINE E == {}
<1>2. CallEffect(args, E, E) /\ E \in SUBSET Parts /\ \A k : k \notin E BY DEF call_sym
<1> HIDE DEF E
<1> QED BY <1>1, <1>2, CallContent

\* Registers are evicted and nothing else happens to them: evict_reg, and
\* free_reg where nothing needs to be spilled.
LEMMA VacatedContent ==
    ASSUME CoreInv, ContentInv, NEW R \in SUBSET Regs, \A q \in R : Evictable(q),
           own' = [q \in Regs |-> IF q \in R THEN Free ELSE own[q]], reg' = RegAfter(R),
           dirty' = DirtyAfter(R), memHas' = MemAfter(R), slot' = SlotAfter(R),
           regHas' = Settle(regHas), alloc' \subseteq Regs,
           (UNCHANGED <<alloc, args>>) \/ args' = {}, UNCHANGED <<clob, def, refvars>>
    PROVE  ContentInv'
<1>1. /\ regHas' \in [Regs -> Contents]
      /\ \A q \in Regs : own'[q] # Free \/ q \in args' => regHas'[q] = regHas[q]
  BY SettleType DEF ContentInv
<1> DEFINE E == {}
<1>2. E \in SUBSET Parts /\ DefAfter(E) = def /\ \A k : k \notin E BY NoneGone
<1> HIDE DEF E
<1>3. PartsMove(R, E, {}) BY <1>2, EvictGive
<1>4. FileMove BY <1>1 DEF FileMove, ContentInv
<1>5. \A q \in Regs \ {} : RegKept(q)
  <2>1. \A q \in args : own[q] = Free BY DEF ContentInv, RegContent
  <2>2. \A q \in R : q \notin args BY <2>1, Distinct DEF Evictable
  <2> QED BY <1>1, <2>2 DEF RegKept
<1>6. \A q \in Regs : q \in {} => RegContent(q)' OBVIOUS
<1> QED BY <1>3, <1>4, <1>5, <1>6, ContentStep

\* evict_reg spills a part before its register is freed.
LEMMA EvictContent == ASSUME CoreInv, ContentInv, NEW r \in Regs, evict_reg(r) PROVE ContentInv'
<1>1. PICK R \in SUBSET Regs : R = {r} OBVIOUS
<1>2. /\ \A q \in R : Evictable(q)
      /\ own' = [q \in Regs |-> IF q \in R THEN Free ELSE own[q]] /\ reg' = RegAfter(R)
      /\ dirty' = DirtyAfter(R) /\ memHas' = MemAfter(R) /\ slot' = SlotAfter(R)
      /\ regHas' = Settle(regHas) /\ UNCHANGED <<alloc, args, clob, def, refvars>>
  BY <1>1 DEF evict_reg, handles, life, refvars, CoreInv, RegInv
<1>3. alloc' \subseteq Regs BY <1>2 DEF ContentInv
<1> QED BY <1>2, <1>3, VacatedContent

\* release_spilled_regs and RetBuilder::ret.
LEMMA ReleaseContent ==
    ASSUME CoreInv, ContentInv, ret \/ \E R \in SUBSET Regs : release_spilled_regs(R) PROVE ContentInv'
<1>1. PICK R \in SUBSET Regs : /\ FreeRegs(R)
                               /\ \A q \in R : Evictable(q)
                               /\ regHas' = Settle(regHas)
                               /\ \/ UNCHANGED <<alloc, args>>
                                  \/ args' = {} /\ alloc' = alloc \cup args
  BY DEF ret, release_spilled_regs
<1>2. Spilled(R) = {}
  <2>1. \A r \in R : ~dirty[own[r]] \/ IsVar(own[r]) BY <1>1 DEF FreeRegs
  <2> QED BY <2>1 DEF Spilled, Out
<1>3. dirty' = DirtyAfter(R) /\ memHas' = MemAfter(R) /\ slot' = SlotAfter(R)
  BY <1>1, <1>2, NothingEvicted DEF FreeRegs, memory
<1>4. /\ own' = [q \in Regs |-> IF q \in R THEN Free ELSE own[q]] /\ reg' = RegAfter(R)
      /\ UNCHANGED <<clob, def, refvars>>
  BY <1>1 DEF FreeRegs, handles, life, refvars
<1>5. alloc' \subseteq Regs BY <1>1 DEF ContentInv
<1> QED BY <1>1, <1>3, <1>4, <1>5, VacatedContent

\* spill writes the part to its slot and marks it clean only then.
LEMMA SpillContent == ASSUME CoreInv, ContentInv, NEW p \in Parts, spill(p) PROVE ContentInv'
<1>0. /\ reg[p] # NoReg /\ dirty[p] /\ ~IsVar(p)
      /\ slot' = slot \cup {Val(p)} /\ memHas' = [memHas EXCEPT ![p] = regHas[reg[p]] = p]
      /\ dirty' = [dirty EXCEPT ![p] = FALSE]
      /\ UNCHANGED <<own, clob, alloc, reg, args, regHas, def, refvars>>
  BY DEF spill, file, life, handles, code, refvars
<1>1. Val(p) \in Values BY <1>0, PartsOfValue DEF IsVar, AllVals
<1>2. dirty' \in [Parts -> BOOLEAN] /\ memHas' \in [Parts -> BOOLEAN] BY <1>0 DEF ContentInv
<1>3. \A r \in Regs : RegContent(r)' BY <1>0 DEF ContentInv, RegContent
<1>4. ASSUME NEW k \in Parts PROVE PartContent(k)'
  <2>1. PartContent(k) BY DEF ContentInv
  <2>2. LastOwned(Val(k))' <=> LastOwned(Val(k)) BY <1>0 DEF LastOwned, Counted, RefsTo, refvars
  <2>3. st' = st BY <1>0 DEF refvars
  <2>4. CASE k # p
    <3>1. dirty'[k] = dirty[k] /\ memHas'[k] = memHas[k] BY <1>0, <2>4 DEF ContentInv
    <3> QED BY <1>0, <2>1, <2>2, <2>3, <3>1 DEF PartContent
  <2>5. CASE k = p
    <3>1. dirty'[p] = FALSE BY <1>0 DEF ContentInv
    <3>2. memHas'[p] = (regHas[reg[p]] = p) BY <1>0 DEF ContentInv
    <3>3. def[p] = "yes" => regHas[reg[p]] = p BY <1>0, InRegister
    <3> QED BY <1>0, <2>1, <2>2, <2>3, <2>5, <3>1, <3>2, <3>3 DEF PartContent
  <2> QED BY <2>4, <2>5
<1> QED BY <1>0, <1>1, <1>2, <1>3, <1>4 DEF ContentInv

----------------------------------------------------------------------------
(***************************************************************************)
(* ValueRefs, assignments, the start of a function.                        *)
(***************************************************************************)
\* A step that touches neither registers nor memory, and takes the last
\* reference from no value that has been given up.
LEMMA ContentFrame ==
    ASSUME ContentInv, UNCHANGED <<own, clob, alloc, args, reg, dirty, slot, memHas, regHas, def>>,
           \A k \in Parts : /\ def[k] = "gone" => LastOwned(Val(k))'
                            /\ st'[Val(k)] = "none" => def[k] = "no"
    PROVE  ContentInv'
<1>1. \A r \in Regs : RegContent(r)' BY DEF ContentInv, RegContent
<1>2. \A k \in Parts : PartContent(k)' BY DEF ContentInv, PartContent
<1> QED BY <1>1, <1>2 DEF ContentInv

\* Contents depend on nothing but the variables listed here.
LEMMA RefsFrame ==
    ASSUME ContentInv, UNCHANGED <<own, clob, alloc, args, reg, dirty, slot, memHas, regHas, def, refvars>>
    PROVE  ContentInv'
<1>1. ASSUME NEW k \in Parts
      PROVE  /\ def[k] = "gone" => LastOwned(Val(k))'
             /\ st'[Val(k)] = "none" => def[k] = "no"
  <2>1. PartContent(k) BY DEF ContentInv
  <2>2. LastOwned(Val(k))' <=> LastOwned(Val(k)) BY DEF LastOwned, Counted, RefsTo, refvars
  <2> QED BY <2>1, <2>2 DEF PartContent, refvars
<1> QED BY <1>1, ContentFrame

\* The same for a value v that is given its first reference or another one.
LEMMA LastKept ==
    ASSUME RefInv, NEW x \in VRefs, vref[x].val = NoVal, NEW v \in AllVals, NEW m \in 0 .. 2,
           vref' = [vref EXCEPT ![x] = [val |-> v, mode |-> m]],
           NEW u \in AllVals, refs'[u] = refs[u], u \in delay' => u \in delay, LastOwned(u)
    PROVE  LastOwned(u)'
<1>1. Counted(u) \subseteq Counted(u)' BY CountedAdd DEF RefInv
<1> QED BY <1>1 DEF LastOwned

\* A new result, in memory or fixed to a register, starts undefined and disturbs no other value.
LEMMA ResultContent ==
    ASSUME RefInv, CoreInv, ContentInv, NEW x \in VRefs, NEW v \in Values, NEW n \in 1 .. MaxRefs,
           NEW d \in BOOLEAN, result_ref(x, v, n, d) \/ result_ref_fixed(x, v, n, d)
    PROVE  ContentInv'
<1>1. /\ vref[x].val = NoVal /\ st[v] = "none" /\ v \in AllVals
      /\ st' = [st EXCEPT ![v] = "live"] /\ refs' = [refs EXCEPT ![v] = n]
      /\ delay' = (IF d THEN delay \cup {v} ELSE delay \ {v})
      /\ vref' = [vref EXCEPT ![x] = [val |-> v, mode |-> Mode(n, d)]]
      /\ UNCHANGED <<alloc, args, dirty, slot, memHas, def>>
  BY DEF result_ref, result_ref_fixed, InitAssignment, AllVals, file, asgn, memory, code
<1>2. PICK m \in 0 .. 2 : m = Mode(n, d) BY DEF Mode
<1>3. \A k \in Parts : Val(k) = v => def[k] = "no" BY <1>1 DEF ContentInv, PartContent
<1>4. ASSUME NEW k \in Parts
      PROVE  /\ def[k] = "gone" => LastOwned(Val(k))'
             /\ st'[Val(k)] = "none" => def[k] = "no"
  <2>0. Val(k) \in AllVals /\ PartContent(k) BY PartsOfValue DEF ContentInv
  <2>1. ASSUME def[k] = "gone" PROVE LastOwned(Val(k))'
    <3>1. Val(k) # v /\ LastOwned(Val(k)) BY <1>3, <2>0, <2>1 DEF PartContent
    <3>2. refs'[Val(k)] = refs[Val(k)] /\ (Val(k) \in delay' => Val(k) \in delay)
      BY <1>1, <2>0, <3>1 DEF RefInv, RefTypeOK
    <3> QED BY <1>1, <1>2, <2>0, <3>1, <3>2, LastKept
  <2>2. st'[Val(k)] = "none" => st[Val(k)] = "none" BY <1>1, <2>0 DEF RefInv, RefTypeOK
  <2> QED BY <2>0, <2>1, <2>2 DEF PartContent
<1>5. CASE result_ref(x, v, n, d)
  <2>1. UNCHANGED <<own, clob, reg, regHas>> BY <1>5 DEF result_ref, file, asgn, code
  <2> QED BY <1>1, <1>4, <2>1, ContentFrame
<1>6. CASE result_ref_fixed(x, v, n, d)
  <2>1. PICK p \in Parts : p = <<v, 0>> /\ Val(p) = v BY <1>1, PartsOfValue
  <2>2. PICK r \in Regs : /\ own[r] = Free /\ r \in alloc
                          /\ own' = [own EXCEPT ![r] = p] /\ clob' = mark_clobbered(r)
                          /\ reg' = [reg EXCEPT ![p] = r] /\ regHas' = Put(r, Junk)
    <3>1. \E r \in FixedCandidates(BankOf[v]) :
             /\ own' = [own EXCEPT ![r] = p] /\ clob' = mark_clobbered(r)
             /\ reg' = [reg EXCEPT ![p] = r] /\ regHas' = Put(r, Junk)
      BY <1>6, <2>1 DEF result_ref_fixed
    <3>2. \A r \in FixedCandidates(BankOf[v]) : r \in Regs /\ r \in alloc /\ own[r] = Free
      BY FixedCandidatesFree
    <3> QED BY <3>1, <3>2
  <2>3. /\ regHas' \in [Regs -> Contents] /\ clob' \subseteq Regs /\ clob \subseteq clob'
        /\ r \in CalleeSaved => r \in clob'
        /\ \A q \in Regs \ {r} : regHas'[q] = regHas[q] /\ own'[q] = own[q]
        /\ own'[r] = p
    BY <2>2 DEF Put, Contents, ContentInv, mark_clobbered, CoreInv, RegInv
  <2>4. r \notin args' BY <1>1, <2>2 DEF ContentInv, RegContent
  <2>5. \A q \in Regs \ {r} : RegContent(q)' BY <1>1, <2>3 DEF ContentInv, RegContent
  <2>6. RegContent(r)'
    <3>1. def'[p] = "no" BY <1>1, <1>3, <2>1
    <3> QED BY <2>3, <2>4, <3>1, Distinct DEF RegContent
  <2>7. ASSUME NEW k \in Parts PROVE PartContent(k)'
    <3>1. PartContent(k) BY DEF ContentInv
    <3>2. k # p => reg'[k] = reg[k] BY <2>2 DEF CoreInv, RegInv
    <3>3. k = p => def[k] = "no" BY <1>3, <2>1
    <3> QED BY <1>1, <1>4, <3>1, <3>2, <3>3 DEF PartContent
  <2>8. \A q \in Regs : RegContent(q)' BY <2>5, <2>6
  <2> QED BY <1>1, <2>3, <2>7, <2>8 DEF ContentInv
<1> QED BY <1>5, <1>6

\* Taking or deriving a reference never makes more references to a value that was given up.
LEMMA ValRefContent ==
    ASSUME RefInv, CoreInv, ContentInv, NEW x \in VRefs,
           (\E v \in AllVals : val_ref(x, v)) \/ (\E y \in VRefs : disowned(x, y))
    PROVE  ContentInv'
<1>1. PICK v \in AllVals, m \in 0 .. 2 : vref' = [vref EXCEPT ![x] = [val |-> v, mode |-> m]]
  <2>1. ASSUME NEW v \in AllVals, val_ref(x, v)
        PROVE \E m \in 0 .. 2 : vref' = [vref EXCEPT ![x] = [val |-> v, mode |-> m]]
    <3>1. PICK m \in 0 .. 2 : m = (IF v \in VarRefs THEN 0 ELSE Mode(refs[v], v \in delay)) BY DEF Mode
    <3> QED BY <2>1, <3>1 DEF val_ref
  <2>2. ASSUME NEW y \in VRefs, disowned(x, y)
        PROVE \E v \in AllVals : vref' = [vref EXCEPT ![x] = [val |-> v, mode |-> 0]]
    BY <2>2 DEF disowned, RefInv, RefTypeOK
  <2> QED BY <2>1, <2>2
<1>2. /\ vref[x].val = NoVal
      /\ UNCHANGED <<own, clob, alloc, args, reg, dirty, slot, memHas, regHas, def, st, refs, delay>>
  BY DEF val_ref, disowned, file, asgn, life, memory, code
<1>3. ASSUME NEW k \in Parts
      PROVE  /\ def[k] = "gone" => LastOwned(Val(k))'
             /\ st'[Val(k)] = "none" => def[k] = "no"
  <2>1. PartContent(k) /\ Val(k) \in AllVals BY PartsOfValue DEF ContentInv
  <2>2. LastOwned(Val(k)) => LastOwned(Val(k))' BY <1>1, <1>2, <2>1, LastKept
  <2> QED BY <1>2, <2>1, <2>2 DEF PartContent
<1> QED BY <1>2, <1>3, ContentFrame

\* free_assignment: the value is no longer anywhere, the others stay.
LEMMA FreeContent ==
    ASSUME RefInv, CoreInv, ContentInv, NEW v \in AllVals, FreeAssignment(v), UNCHANGED <<clob, alloc>>,
           \A u \in AllVals \ {v} : LastOwned(u) => LastOwned(u)'
    PROVE  ContentInv'
<1>a. PICK ps \in SUBSET Parts : ps = PartsOf(v) /\ \A k \in Parts : k \in ps <=> Val(k) = v
  BY PartsOfValue
<1>0. /\ own' = [r \in Regs |-> IF r \in {q \in Regs : \E p \in ps : reg[p] = q} THEN Free ELSE own[r]]
      /\ reg' = [p \in Parts |-> IF p \in ps THEN NoReg ELSE reg[p]]
      /\ dirty' = [p \in Parts |-> p \in ps \/ dirty[p]]
      /\ st' = [st EXCEPT ![v] = "none"] /\ slot' = slot \ {v}
      /\ memHas' = [p \in Parts |-> p \notin ps /\ memHas[p]]
      /\ def' = [p \in Parts |-> IF p \in ps THEN "no" ELSE def[p]]
      /\ args' = args /\ regHas' = Settle(regHas)
  BY <1>a DEF FreeAssignment
<1>1. /\ regHas' \in [Regs -> Contents]
      /\ \A q \in Regs : own'[q] # Free \/ q \in args' => regHas'[q] = regHas[q]
  BY <1>0, SettleType DEF ContentInv
<1>2. \A q \in Regs : own'[q] = own[q] \/ (own'[q] = Free /\ q \notin args')
  <2>1. \A q \in args : own[q] = Free BY DEF ContentInv, RegContent
  <2>2. \A q \in Regs, p \in ps : reg[p] = q => own[q] # Free BY OwnersAgree, Distinct DEF CoreInv
  <2> QED BY <1>0, <2>1, <2>2
<1>3. \A k \in Parts : def'[k] = "yes" => def[k] = "yes" BY <1>0
<1>4. \A q \in Regs \ {} : RegKept(q) BY <1>0, <1>1, <1>2, <1>3 DEF RegKept
<1>5. \A q \in Regs : RegContent(q)'
  <2>0. PICK T : T = {} OBVIOUS
  <2>1. \A q \in Regs : q \in T => RegContent(q)' BY <2>0
  <2>2. clob \subseteq clob' /\ \A q \in Regs \ T : RegKept(q) BY <1>4, <2>0
  <2> QED BY ONLY CoreInv, ContentInv, <2>1, <2>2, RegsContent
<1>6. ASSUME NEW k \in Parts PROVE PartContent(k)'
  <2>1. CASE k \in ps
    <3>1. def'[k] = "no" /\ dirty'[k] = TRUE BY <1>0, <2>1
    <3> QED BY <3>1 DEF PartContent
  <2>2. CASE k \notin ps
    <3>1. /\ def'[k] = def[k] /\ dirty'[k] = dirty[k] /\ memHas'[k] = memHas[k] /\ reg'[k] = reg[k]
      BY <1>0, <2>2 DEF ContentInv
    <3>2. Val(k) \in AllVals \ {v} /\ PartContent(k) BY <1>a, <2>2, PartsOfValue DEF ContentInv
    <3>3. st'[Val(k)] = st[Val(k)] /\ (Val(k) \in slot => Val(k) \in slot')
      BY <1>0, <3>2 DEF RefInv, RefTypeOK
    <3> QED BY <3>1, <3>2, <3>3 DEF PartContent
  <2> QED BY <2>1, <2>2
<1>7. /\ dirty' \in [Parts -> BOOLEAN] /\ memHas' \in [Parts -> BOOLEAN]
      /\ def' \in [Parts -> {"no", "yes", "gone"}] /\ slot' \subseteq Values
      /\ clob' \subseteq Regs /\ alloc' \subseteq Regs /\ args' \subseteq Regs
  BY <1>0 DEF ContentInv
<1> QED BY <1>1, <1>5, <1>6, <1>7 DEF ContentInv

\* ValueRef::reset: the last reference to go is the one whose owner may have
\* given the value up, and the value goes with it.
LEMMA RefResetContent ==
    ASSUME RefInv, CoreInv, ContentInv, NEW x \in VRefs, ValueRef_reset(x) PROVE ContentInv'
<1>1. PICK v \in AllVals : v = vref[x].val BY DEF ValueRef_reset, RefInv, RefTypeOK
<1>2. /\ vref' = [vref EXCEPT ![x] = Unused]
      /\ IF vref[x].mode # 0 THEN refs' = [refs EXCEPT ![v] = @ - 1] ELSE UNCHANGED refs
  BY <1>1 DEF ValueRef_reset
<1>3. \A u \in AllVals : Counted(u)' = Counted(u) \ {x} BY <1>1, <1>2, CountedRemove DEF RefInv
<1>4. ASSUME NEW u \in AllVals, u # v \/ vref[x].mode = 0, delay' \subseteq delay, LastOwned(u)
      PROVE LastOwned(u)'
  <2>1. x \notin Counted(u) BY <1>1, <1>4 DEF Counted, RefsTo
  <2>2. Counted(u)' = Counted(u) BY <1>3, <2>1
  <2>3. refs'[u] = refs[u] BY <1>2, <1>4 DEF RefInv, RefTypeOK
  <2> QED BY <1>4, <2>2, <2>3 DEF LastOwned
<1>5. CASE FreeAssignment(v) /\ UNCHANGED <<clob, alloc>>
  <2>1. delay' \subseteq delay BY <1>5 DEF FreeAssignment
  <2> QED BY <1>4, <1>5, <2>1, FreeContent
<1>6. CASE /\ UNCHANGED <<own, clob, alloc, args, reg, dirty, slot, memHas, regHas, def, delay>>
           /\ st' = [st EXCEPT ![v] = "pending"] \/ UNCHANGED st
           /\ vref[x].mode # 0 => refs[v] # 1 \/ v \in delay
  <2>1. ASSUME NEW k \in Parts
        PROVE  /\ def[k] = "gone" => LastOwned(Val(k))'
               /\ st'[Val(k)] = "none" => def[k] = "no"
    <3>1. PartContent(k) /\ Val(k) \in AllVals BY PartsOfValue DEF ContentInv
    <3>2. st'[Val(k)] = "none" => st[Val(k)] = "none" BY <1>6, <3>1 DEF RefInv, RefTypeOK
    <3>3. vref[x].mode # 0 => ~LastOwned(v) BY <1>6 DEF LastOwned
    <3>4. LastOwned(Val(k)) => LastOwned(Val(k))' BY <1>4, <1>6, <3>1, <3>3
    <3> QED BY <3>1, <3>2, <3>4 DEF PartContent
  <2> QED BY <1>6, <2>1, ContentFrame
<1> QED BY <1>1, <1>5, <1>6 DEF ValueRef_reset, file, asgn, memory, code

\* The frees delayed to the end of a block give up only dead values.
LEMMA DelayedFreeContent ==
    ASSUME RefInv, CoreInv, ContentInv, NEW v \in Values, delayed_free(v) PROVE ContentInv'
<1>1. /\ v \in AllVals /\ FreeAssignment(v) /\ UNCHANGED <<clob, alloc, refs, vref>>
  BY DEF delayed_free, handles, AllVals
<1>2. \A u \in AllVals \ {v} : LastOwned(u) => LastOwned(u)'
  BY <1>1 DEF LastOwned, Counted, RefsTo, FreeAssignment
<1> QED BY <1>1, <1>2, FreeContent

\* A variable reference starts defined, outside any register, and is never marked as spilled.
LEMMA VariableRefContent ==
    ASSUME RefInv, CoreInv, ContentInv, NEW v \in VarRefs, init_variable_ref(v) PROVE ContentInv'
<1>0. /\ v \in AllVals /\ st[v] = "none" /\ st' = [st EXCEPT ![v] = "live"]
      /\ def' = [p \in Parts |-> IF p \in PartsOf(v) THEN "yes" ELSE def[p]]
      /\ UNCHANGED <<own, clob, alloc, reg, dirty, slot, memHas, refs, delay, vref, args, regHas>>
  BY DEF init_variable_ref, file, asgn, memory, handles, AllVals
<1>1. \A k \in Parts : k \in PartsOf(v) <=> Val(k) = v BY <1>0, PartsOfValue
<1>2. \A r \in Regs, k \in Parts : own[r] = k => Val(k) # v
  BY <1>0, OwnersAgree, Distinct DEF CoreInv, RegInv
<1>3. \A r \in Regs : RegContent(r)' BY <1>0, <1>1, <1>2 DEF ContentInv, RegContent
<1>4. ASSUME NEW k \in Parts PROVE PartContent(k)'
  <2>1. PartContent(k) /\ Val(k) \in AllVals BY PartsOfValue DEF ContentInv
  <2>2. LastOwned(Val(k))' <=> LastOwned(Val(k)) BY <1>0 DEF LastOwned, Counted, RefsTo
  <2>3. CASE Val(k) = v
    <3>1. IsVar(k) /\ dirty'[k] /\ def'[k] = "yes" /\ st'[Val(k)] = "live"
      BY <1>0, <1>1, <2>1, <2>3 DEF PartContent, IsVar, RefInv, RefTypeOK
    <3> QED BY <3>1 DEF PartContent
  <2>4. CASE Val(k) # v
    <3>1. def'[k] = def[k] /\ st'[Val(k)] = st[Val(k)] BY <1>0, <1>1, <2>1, <2>4 DEF RefInv, RefTypeOK
    <3> QED BY <1>0, <2>1, <2>2, <3>1 DEF PartContent
  <2> QED BY <2>3, <2>4
<1>5. def' \in [Parts -> {"no", "yes", "gone"}] BY <1>0 DEF ContentInv
<1> QED BY <1>0, <1>3, <1>4, <1>5 DEF ContentInv

\* A new function starts with nothing in registers and nothing defined.
LEMMA FreshContent ==
    ASSUME compile_func PROVE ContentInv'
<1>1. \A r \in Regs : RegContent(r)' BY Distinct DEF compile_func, RegContent
<1>2. \A k \in Parts : PartContent(k)' BY DEF compile_func, PartContent
<1> QED BY <1>1, <1>2, RegAssumption DEF ContentInv, compile_func, Contents, RegAssumption

\* Contents are right in an initial state.
LEMMA ContentInit == Init => ContentInv
<1> SUFFICES ASSUME Init PROVE ContentInv OBVIOUS
<1>1. \A r \in Regs : RegContent(r) BY Distinct DEF Init, RegContent
<1>2. \A k \in Parts : PartContent(k) BY DEF Init, PartContent
<1> QED BY <1>1, <1>2, RegAssumption DEF ContentInv, Init, Contents, RegAssumption

----------------------------------------------------------------------------
(***************************************************************************)
(* The steps.                                                              *)
(***************************************************************************)
\* The operations that only lock, unlock or rename handles.
LEMMA HandleOnlyContent ==
    ASSUME ContentInv, NEW h \in PRefs,
           \/ Lock(h) \/ Unlock(h) \/ \E k : temporary(h, k)
           \/ \E s \in SRegs : set_value_scratch_temp(h, s)
           \/ \E x \in VRefs, p \in Parts, u \in BOOLEAN : part(h, x, p, u)
    PROVE  ContentInv'
<1>1. UNCHANGED <<own, clob, alloc, args, reg, dirty, slot, memHas, regHas, def, refvars>>
  BY DEF Lock, Unlock, temporary, set_value_scratch_temp, part, file, asgn, life, memory, code, refvars
<1> QED BY <1>1, RefsFrame

\* Every operation on a ValuePart keeps contents right.
LEMMA PartStepContent ==
    ASSUME RefInv, CoreInv, ContentInv, NEW h \in PRefs, PartStep(h) PROVE ContentInv'
<1>1. ArgRegs \subseteq Regs BY RegAssumption DEF RegAssumption
<1>2. ASSUME \/ Lock(h) \/ Unlock(h) \/ alloc_reg(h) \/ load_to_reg(h) \/ WriteResult(h)
             \/ \E r \in Regs : alloc_specific(h, r) \/ load_to_specific(h, r)
             \/ \E k \in {"temp", "const"} : temporary(h, k)
             \/ \E r \in Regs : alloc_temp(h, r) \/ alloc_temp_specific(h, r)
      PROVE ContentInv'
  BY <1>2, HandleOnlyContent, PartClaimContent, WriteResultContent, TempClaimContent
<1>3. ASSUME NEW o \in PRefs,
             \/ set_value_temp_move(h, o) \/ set_value_temp_copy(h, o)
             \/ set_value_temp_salvage(h, o) \/ set_value_copy(h, o)
             \/ \E u \in BOOLEAN : set_value_salvage(h, o, u)
      PROVE ContentInv'
  BY <1>3, TempMoveContent, TempCopyContent, TempSalvageContent, CopyContent, SalvageContent
<1>4. ASSUME NEW s \in SRegs,
             set_value_scratch(h, s) \/ set_value_scratch_temp(h, s) \/ into_scratch(h, s)
      PROVE ContentInv'
  BY <1>4, SetScratchContent, HandleOnlyContent, IntoScratchContent
<1>5. ASSUME NEW r \in RetRegs, set_value_reg(h, r) \/ set_value_reg_temp(h, r) PROVE ContentInv'
  BY <1>5, SetRegContent, RegTempContent
<1>6. ASSUME NEW r \in ArgRegs, add_arg(h, r) PROVE ContentInv' BY <1>1, <1>6, AddArgContent
<1>7. ASSUME call_reg(h) \/ ValuePart_reset(h) PROVE ContentInv'
  BY <1>7, CallRegContent, PartResetContent
<1> QED BY <1>2, <1>3, <1>4, <1>5, <1>6, <1>7 DEF PartStep

\* Every operation on a ValueRef keeps contents right.
LEMMA RefStepContent ==
    ASSUME RefInv, CoreInv, ContentInv, NEW x \in VRefs, RefStep(x) PROVE ContentInv'
  BY ResultContent, ValRefContent, HandleOnlyContent, RefResetContent DEF RefStep

\* Every operation of CompilerBase itself keeps contents right.
LEMMA CompilerStepContent == ASSUME RefInv, CoreInv, ContentInv, CompilerStep PROVE ContentInv'
  BY VariableRefContent, DelayedFreeContent, SpillContent, EvictContent, ReleaseContent, CallSymContent,
     FreshContent DEF CompilerStep

\* Contents are right after every step of the compiler.
LEMMA ContentStepAll == RefInv /\ CoreInv /\ ContentInv /\ [Next]_vars => ContentInv'
<1> SUFFICES ASSUME RefInv, CoreInv, ContentInv, [Next]_vars PROVE ContentInv' OBVIOUS
<1>1. CASE UNCHANGED vars BY <1>1, RefsFrame DEF vars, refvars
<1>2. ASSUME NEW s \in SRegs, ScratchStep(s) PROVE ContentInv'
  BY <1>2, TempClaimContent, ScratchResetContent DEF ScratchStep
<1> QED BY <1>1, <1>2, RefStepContent, PartStepContent, CompilerStepContent DEF Next

----------------------------------------------------------------------------
(***************************************************************************)
(* Fixed assignments.                                                      *)
(***************************************************************************)
\* Only the start and the end of an assignment change the counter, and the
\* other operations fix no part.
FixedShrinks == UNCHANGED fixedCount /\ \A p \in Parts : fixed'[p] => fixed[p]

\* No operation on a ValuePart fixes another part.
LEMMA PartStepFixed == ASSUME CoreInv, NEW h \in PRefs, PartStep(h) PROVE FixedShrinks
<1> USE DEF FixedShrinks, life, asgn, CoreInv, RegInv
<1>1. CASE Lock(h) \/ Unlock(h) \/ alloc_reg(h) \/ load_to_reg(h) \/ WriteResult(h)
  BY <1>1 DEF Lock, Unlock, alloc_reg, load_to_reg, WriteResult
<1>2. ASSUME NEW r \in Regs, alloc_specific(h, r) \/ load_to_specific(h, r) PROVE FixedShrinks
  BY <1>2 DEF alloc_specific, load_to_specific
<1>3. ASSUME NEW k, temporary(h, k) PROVE FixedShrinks BY <1>3 DEF temporary
<1>4. ASSUME NEW r \in Regs, alloc_temp(h, r) \/ alloc_temp_specific(h, r) PROVE FixedShrinks
  BY <1>4 DEF alloc_temp, alloc_temp_specific, ClaimTemp
<1>5. ASSUME NEW o \in PRefs, set_value_temp_move(h, o) \/ set_value_temp_copy(h, o) PROVE FixedShrinks
  BY <1>5 DEF set_value_temp_move, set_value_temp_copy
<1>6. ASSUME NEW o \in PRefs, set_value_temp_salvage(h, o) PROVE FixedShrinks
  <2>1. fixed' = [fixed EXCEPT ![pref[o].part] = FALSE] /\ UNCHANGED fixedCount
    BY <1>6 DEF set_value_temp_salvage
  <2> QED BY <2>1
<1>7. ASSUME NEW o \in PRefs, set_value_copy(h, o) PROVE FixedShrinks
  <2>1. fixed' = [q \in Parts |-> fixed[q] /\ ~GivesUp(o, q)] /\ UNCHANGED fixedCount
    BY <1>7 DEF set_value_copy
  <2> QED BY <2>1
<1>8. ASSUME NEW o \in PRefs, NEW u \in BOOLEAN, set_value_salvage(h, o, u) PROVE FixedShrinks
  <2>1. fixed' = [q \in Parts |-> fixed[q] /\ ~Lost(o, q)] /\ UNCHANGED fixedCount
    BY <1>8 DEF set_value_salvage
  <2> QED BY <2>1
<1>9. ASSUME NEW s \in SRegs, set_value_scratch(h, s) \/ set_value_scratch_temp(h, s) PROVE FixedShrinks
  BY <1>9 DEF set_value_scratch, set_value_scratch_temp
<1>10. ASSUME NEW s \in SRegs, into_scratch(h, s) PROVE FixedShrinks
  <2>1. (fixed' = [p \in Parts |-> fixed[p] /\ ~Lost(h, p)] \/ fixed' = fixed) /\ UNCHANGED fixedCount
    BY <1>10 DEF into_scratch
  <2> QED BY <2>1
<1>11. ASSUME NEW r, set_value_reg(h, r) \/ set_value_reg_temp(h, r) PROVE FixedShrinks
  BY <1>11 DEF set_value_reg, set_value_reg_temp
<1>12. ASSUME NEW r, add_arg(h, r) PROVE FixedShrinks
  <2>1. fixed' = [p \in Parts |-> fixed[p] /\ ~(can_salvage(h) /\ Lost(h, p))] /\ UNCHANGED fixedCount
    BY <1>12 DEF add_arg
  <2> QED BY <2>1
<1>13. ASSUME NEW skip, NEW drop, NEW P, CallEffect(skip, drop, P) PROVE FixedShrinks
  <2>1. fixed' = [p \in Parts |-> fixed[p] /\ p \notin P] /\ UNCHANGED fixedCount
    BY <1>13 DEF CallEffect
  <2> QED BY <2>1
<1>14. CASE call_reg(h) BY <1>13, <1>14 DEF call_reg
<1>15. CASE ValuePart_reset(h)
  <2>1. fixed' = [p \in Parts |-> fixed[p] /\ ~GivesUp(h, p)] /\ UNCHANGED fixedCount
    BY <1>15 DEF ValuePart_reset
  <2> QED BY <2>1
<1> QED BY <1>1, <1>2, <1>3, <1>4, <1>5, <1>6, <1>7, <1>8, <1>9, <1>10, <1>11, <1>12, <1>14, <1>15
  DEF PartStep

\* No operation on a ScratchReg fixes another part.
LEMMA ScratchStepFixed == ASSUME NEW s \in SRegs, ScratchStep(s) PROVE FixedShrinks
  BY DEF ScratchStep, ScratchReg_alloc, ScratchReg_alloc_specific, ScratchReg_reset, ClaimTemp,
     FixedShrinks, life, asgn

\* The fixed parts of a bank can be counted.
LEMMA FixedFinite ==
    ASSUME FixedInv, NEW b
    PROVE  IsFiniteSet(FixedParts(b)) /\ Cardinality(FixedParts(b)) \in Nat
<1>1. FixedParts(b) \subseteq {p \in Parts : fixed[p]} BY DEF FixedParts
<1>2. IsFiniteSet(FixedParts(b)) BY <1>1, FS_Subset DEF FixedInv
<1> QED BY <1>2, FS_CardinalityType

\* Steps that fix no part keep the counters covering the fixed parts.
LEMMA FixedKept == ASSUME FixedInv, FixedShrinks PROVE FixedInv'
<1>1. {p \in Parts : fixed'[p]} \subseteq {p \in Parts : fixed[p]} BY DEF FixedShrinks
<1>2. IsFiniteSet({p \in Parts : fixed'[p]}) BY <1>1, FS_Subset DEF FixedInv
<1>3. ASSUME NEW b \in Banks
      PROVE /\ Cardinality(FixedParts(b)') <= fixedCount'[b] /\ fixedCount'[b] <= NumFixed[b]
  <2>1. FixedParts(b)' \subseteq FixedParts(b) BY DEF FixedParts, FixedShrinks
  <2>2. Cardinality(FixedParts(b)') \in Nat /\ Cardinality(FixedParts(b)') <= Cardinality(FixedParts(b))
    BY <2>1, FixedFinite, FS_Subset, FS_CardinalityType
  <2>3. /\ Cardinality(FixedParts(b)) <= fixedCount[b] /\ fixedCount[b] <= NumFixed[b]
        /\ fixedCount[b] \in Nat /\ fixedCount'[b] = fixedCount[b] /\ Cardinality(FixedParts(b)) \in Nat
    BY FixedFinite DEF FixedInv, FixedBounded, FixedShrinks
  <2> QED BY <2>2, <2>3
<1>4. fixedCount' \in [Banks -> Nat] BY DEF FixedInv, FixedShrinks
<1> QED BY <1>2, <1>3, <1>4 DEF FixedInv, FixedBounded

\* init_assignment with a fixed register: there was room for one more.
LEMMA FixedGrows ==
    ASSUME CoreInv, FixedInv, NEW x \in VRefs, NEW v \in Values, NEW n, NEW d, result_ref_fixed(x, v, n, d)
    PROVE  FixedInv'
<1>1. v \in AllVals BY DEF AllVals
<1>2. PICK p \in Parts : p = <<v, 0>> /\ Val(p) = v BY <1>1, PartsOfValue
<1>3. PICK c \in Banks : c = BankOf[v] BY <1>1, ValueAssumption DEF ValueAssumption
<1>4. /\ fixed' = [fixed EXCEPT ![p] = TRUE] /\ fixedCount' = [fixedCount EXCEPT ![c] = @ + 1]
      /\ fixedCount[c] < NumFixed[c]
  BY <1>2, <1>3 DEF result_ref_fixed, FixedRoom
<1>5. {k \in Parts : fixed'[k]} = {k \in Parts : fixed[k]} \cup {p} BY <1>4 DEF CoreInv, RegInv
<1>6. IsFiniteSet({k \in Parts : fixed'[k]})
  <2>1. PICK S : S = {k \in Parts : fixed[k]} OBVIOUS
  <2>2. IsFiniteSet(S) BY <2>1 DEF FixedInv
  <2>3. IsFiniteSet(S \cup {p}) BY <2>2, FS_AddElement
  <2> QED BY <1>5, <2>1, <2>3
<1>7. fixedCount' \in [Banks -> Nat] BY <1>4 DEF FixedInv
<1>8. ASSUME NEW b \in Banks
      PROVE Cardinality(FixedParts(b)') <= fixedCount'[b] /\ fixedCount'[b] <= NumFixed[b]
  <2>1. /\ Cardinality(FixedParts(b)) <= fixedCount[b] /\ fixedCount[b] <= NumFixed[b]
        /\ fixedCount[b] \in Nat /\ Cardinality(FixedParts(b)) \in Nat /\ IsFiniteSet(FixedParts(b))
        /\ NumFixed[b] \in Nat
    BY FixedFinite, ValueAssumption DEF FixedInv, FixedBounded, ValueAssumption
  <2>2. CASE b # c
    <3>1. FixedParts(b)' = FixedParts(b)
      BY <1>2, <1>3, <1>4, <2>2 DEF FixedParts, CoreInv, RegInv
    <3>2. fixedCount'[b] = fixedCount[b] BY <1>4, <2>2 DEF FixedInv
    <3> QED BY <2>1, <3>1, <3>2
  <2>3. CASE b = c
    <3>1. FixedParts(b)' = FixedParts(b) \cup {p}
      BY <1>2, <1>3, <1>4, <2>3 DEF FixedParts, CoreInv, RegInv
    <3>2. Cardinality(FixedParts(b) \cup {p}) <= Cardinality(FixedParts(b)) + 1
      BY SMTT(30), <2>1, FS_AddElement
    <3>3. Cardinality(FixedParts(b)') \in Nat
      BY <2>1, <3>1, FS_AddElement, FS_CardinalityType
    <3>4. fixedCount'[b] = fixedCount[b] + 1 BY <1>4, <2>3 DEF FixedInv
    <3> QED BY <1>4, <2>1, <2>3, <3>1, <3>2, <3>3, <3>4
  <2> QED BY <2>2, <2>3
<1> QED BY <1>6, <1>7, <1>8 DEF FixedInv, FixedBounded

\* free_assignment counts down only for a part that was still fixed.
LEMMA FixedFreed == ASSUME CoreInv, FixedInv, NEW v \in AllVals, FreeAssignment(v) PROVE FixedInv'
<1>1. \A k \in Parts : k \in PartsOf(v) <=> Val(k) = v BY PartsOfValue
<1>2. PICK c \in Banks : c = BankOf[v] BY ValueAssumption DEF ValueAssumption
<1>3. /\ \A k \in Parts : fixed'[k] = (k \notin PartsOf(v) /\ fixed[k])
      /\ fixedCount' = IF \E p \in PartsOf(v) : fixed[p]
                        THEN [fixedCount EXCEPT ![c] = @ - 1] ELSE fixedCount
  BY <1>2 DEF FreeAssignment
<1>4. CASE ~\E p \in PartsOf(v) : fixed[p]
  <2>1. FixedShrinks BY <1>3, <1>4 DEF FixedShrinks
  <2> QED BY <2>1, FixedKept
<1>5. CASE \E p \in PartsOf(v) : fixed[p]
  <2>1. PICK p \in Parts : Val(p) = v /\ fixed[p] BY <1>1, <1>5, PartsOfValue
  <2>2. {k \in Parts : fixed'[k]} \subseteq {k \in Parts : fixed[k]} BY <1>3
  <2>3. IsFiniteSet({k \in Parts : fixed'[k]}) BY <2>2, FS_Subset DEF FixedInv
  <2>4. ASSUME NEW b \in Banks
        PROVE /\ Cardinality(FixedParts(b)') <= fixedCount'[b] /\ fixedCount'[b] <= NumFixed[b]
              /\ fixedCount'[b] \in Nat
    <3>1. /\ Cardinality(FixedParts(b)) <= fixedCount[b] /\ fixedCount[b] <= NumFixed[b]
          /\ fixedCount[b] \in Nat /\ Cardinality(FixedParts(b)) \in Nat /\ IsFiniteSet(FixedParts(b))
          /\ NumFixed[b] \in Nat
      BY FixedFinite, ValueAssumption DEF FixedInv, FixedBounded, ValueAssumption
    <3>2. CASE b # c
      <4>1. FixedParts(b)' \subseteq FixedParts(b) BY <1>3 DEF FixedParts
      <4>2. Cardinality(FixedParts(b)') \in Nat /\ Cardinality(FixedParts(b)') <= Cardinality(FixedParts(b))
        BY <3>1, <4>1, FS_Subset, FS_CardinalityType
      <4>3. fixedCount'[b] = fixedCount[b] BY <1>3, <1>5, <3>2 DEF FixedInv
      <4> QED BY <3>1, <4>2, <4>3
    <3>3. CASE b = c
      <4>1. p \in FixedParts(b) BY <1>2, <2>1, <3>3 DEF FixedParts
      <4>2. FixedParts(b)' \subseteq FixedParts(b) \ {p} BY <1>1, <1>3, <2>1 DEF FixedParts
      <4>3. /\ IsFiniteSet(FixedParts(b) \ {p})
            /\ Cardinality(FixedParts(b) \ {p}) = Cardinality(FixedParts(b)) - 1
        BY <3>1, <4>1, FS_RemoveElement
      <4>4. /\ Cardinality(FixedParts(b)') \in Nat
            /\ Cardinality(FixedParts(b)') <= Cardinality(FixedParts(b) \ {p})
        BY <4>2, <4>3, FS_Subset, FS_CardinalityType
      <4>5. Cardinality(FixedParts(b)) # 0 BY <3>1, <4>1, FS_EmptySet
      <4>6. fixedCount'[b] = fixedCount[b] - 1 BY <1>3, <1>5, <3>3 DEF FixedInv
      <4> QED BY <3>1, <4>3, <4>4, <4>5, <4>6
    <3> QED BY <3>2, <3>3
  <2>5. fixedCount' \in [Banks -> Nat]
    <3>1. fixedCount' = [fixedCount EXCEPT ![c] = @ - 1] BY <1>3, <1>5
    <3> QED BY <2>4, <3>1 DEF FixedInv
  <2> QED BY <2>3, <2>4, <2>5 DEF FixedInv, FixedBounded
<1> QED BY <1>4, <1>5

\* With no part fixed and the counters at zero the counters cover the fixed parts.
LEMMA FixedNone ==
    ASSUME fixed' = [p \in Parts |-> FALSE], fixedCount' = [b \in Banks |-> 0] PROVE FixedInv'
<1>1. {p \in Parts : fixed'[p]} = {} OBVIOUS
<1>2. \A b \in Banks : FixedParts(b)' = {} BY DEF FixedParts
<1>3. IsFiniteSet({}) /\ Cardinality({}) = 0 BY FS_EmptySet
<1>4. ASSUME NEW b \in Banks
      PROVE Cardinality(FixedParts(b)') <= fixedCount'[b] /\ fixedCount'[b] <= NumFixed[b]
  <2>1. FixedParts(b)' = {} BY <1>2
  <2>2. Cardinality(FixedParts(b)') = 0 BY <1>3, <2>1
  <2>3. NumFixed[b] \in Nat /\ fixedCount'[b] = 0 BY ValueAssumption DEF ValueAssumption
  <2> QED BY <2>2, <2>3
<1> QED BY <1>1, <1>3, <1>4 DEF FixedInv, FixedBounded

\* No part is fixed in an initial state.
LEMMA FixedInit == Init => FixedInv
<1> SUFFICES ASSUME Init PROVE FixedInv OBVIOUS
<1>1. {p \in Parts : fixed[p]} = {} BY DEF Init
<1>2. \A b \in Banks : FixedParts(b) = {} BY DEF FixedParts, Init
<1>3. fixedCount = [b \in Banks |-> 0] BY DEF Init
<1>4. IsFiniteSet({}) /\ Cardinality({}) = 0 BY FS_EmptySet
<1>5. ASSUME NEW b \in Banks
      PROVE Cardinality(FixedParts(b)) <= fixedCount[b] /\ fixedCount[b] <= NumFixed[b]
  <2>1. Cardinality(FixedParts(b)) = 0 BY <1>2, <1>4
  <2>2. NumFixed[b] \in Nat /\ fixedCount[b] = 0 BY <1>3, ValueAssumption DEF ValueAssumption
  <2> QED BY <2>1, <2>2
<1> QED BY <1>1, <1>3, <1>4, <1>5 DEF FixedInv, FixedBounded

\* The counters cover the fixed parts after every step of the compiler.
LEMMA FixedStep == RefInv /\ CoreInv /\ FixedInv /\ [Next]_vars => FixedInv'
<1> SUFFICES ASSUME RefInv, CoreInv, FixedInv, [Next]_vars PROVE FixedInv' OBVIOUS
<1>1. CASE UNCHANGED vars BY <1>1, FixedKept DEF vars, FixedShrinks
<1>2. ASSUME NEW x \in VRefs, RefStep(x) PROVE FixedInv'
  <2>1. ASSUME NEW v \in Values, NEW n, NEW d, result_ref(x, v, n, d) PROVE FixedInv'
    BY <2>1, FixedKept DEF result_ref, FixedShrinks, asgn
  <2>2. ASSUME NEW v \in AllVals, val_ref(x, v) PROVE FixedInv'
    BY <2>2, FixedKept DEF val_ref, FixedShrinks, asgn, life
  <2>3. ASSUME NEW y \in VRefs, disowned(x, y) PROVE FixedInv'
    BY <2>3, FixedKept DEF disowned, FixedShrinks, asgn, life
  <2>4. ASSUME NEW h, NEW p, NEW u, part(h, x, p, u) PROVE FixedInv'
    BY <2>4, FixedKept DEF part, FixedShrinks, asgn, life
  <2>5. CASE ValueRef_reset(x)
    <3>1. PICK v \in AllVals : v = vref[x].val BY <2>5 DEF ValueRef_reset, RefInv, RefTypeOK
    <3>2. FreeAssignment(v) \/ UNCHANGED <<asgn, fixedCount>> BY <2>5, <3>1 DEF ValueRef_reset
    <3>3. UNCHANGED <<asgn, fixedCount>> => FixedShrinks BY DEF asgn, FixedShrinks
    <3> QED BY <3>2, <3>3, FixedFreed, FixedKept
  <2> QED BY <1>2, <2>1, <2>2, <2>3, <2>4, <2>5, FixedGrows DEF RefStep
<1>3. ASSUME CompilerStep PROVE FixedInv'
  <2>1. ASSUME NEW v \in VarRefs, init_variable_ref(v) PROVE FixedInv'
    BY <2>1, FixedKept DEF init_variable_ref, FixedShrinks, asgn
  <2>2. ASSUME NEW v \in Values, delayed_free(v) PROVE FixedInv'
    BY <2>2, FixedFreed DEF delayed_free, AllVals
  <2>3. ASSUME \/ \E p \in Parts : spill(p)
               \/ \E r \in Regs : evict_reg(r)
               \/ \E R \in SUBSET Regs : release_spilled_regs(R)
               \/ ret
        PROVE FixedInv'
    <3>1. FixedShrinks BY <2>3 DEF spill, evict_reg, release_spilled_regs, ret, FreeRegs, FixedShrinks, life
    <3> QED BY <3>1, FixedKept
  <2>4. CASE call_sym
    <3>1. fixed' = [p \in Parts |-> fixed[p] /\ p \notin {}] /\ UNCHANGED fixedCount
      BY <2>4 DEF call_sym, CallEffect, life
    <3>2. FixedShrinks BY <3>1 DEF FixedShrinks
    <3> QED BY <3>2, FixedKept
  <2>5. CASE compile_func BY <2>5, FixedNone DEF compile_func
  <2> QED BY <1>3, <2>1, <2>2, <2>3, <2>4, <2>5 DEF CompilerStep
<1> QED BY <1>1, <1>2, <1>3, PartStepFixed, ScratchStepFixed, FixedKept DEF Next

----------------------------------------------------------------------------
(***************************************************************************)
(* The theorems.                                                           *)
(***************************************************************************)
\* Every reachable state satisfies the invariants: what the bookkeeping says
\* of references, handles, registers, spill slots and values is true.
THEOREM ContentInvAlways == Spec => [](RefInv /\ CoreInv /\ ContentInv /\ FixedInv)
  BY RefInvInit, RefInvStep, CoreInit, CoreStep, ContentInit, ContentStepAll, FixedInit, FixedStep, PTL
     DEF Spec

\* The variables have the types of the fields of RegisterFile, ValueAssignment
\* and the handles that they stand for.
THEOREM TypeOKAlways == Spec => []TypeOK
<1>1. RefInv /\ CoreInv /\ ContentInv /\ FixedInv => TypeOK
  BY DEF RefInv, RefTypeOK, CoreInv, LinkInv, RegInv, ContentInv, FixedInv, TypeOK, Contents
<1> QED BY <1>1, ContentInvAlways, PTL

\* The generated code finds the value of a part in the register and in the
\* spill slot that its assignment names, whatever evictions, spills, reloads,
\* salvages and calls came before.
THEOREM ContentSoundAlways == Spec => []ContentSound
<1>1. CoreInv /\ ContentInv => ContentSound
  BY InRegister DEF ContentSound, ContentInv, PartContent
<1> QED BY <1>1, ContentInvAlways, PTL

\* No value that will be read again is lost: it is in a register or in its
\* slot, and only the owner of the last reference may give up the one place.
THEOREM NoValueLostAlways == Spec => []NoValueLost
<1>1. ContentInv => NoValueLost
  BY DEF NoValueLost, ContentInv, PartContent, LastOwned
<1> QED BY <1>1, ContentInvAlways, PTL

\* The content of a temporary's or ScratchReg's register stays until the
\* holder gives it up, and nobody else has locked the register.
THEOREM TempSoundAlways == Spec => []TempSound
<1>1. ASSUME CoreInv, ContentInv, NEW r \in Regs, own[r] = Temp PROVE regHas[r] = Temp /\ lock[r] = 1
  <2>1. RegOK(r) /\ RegContent(r) BY <1>1 DEF CoreInv, RegInv, ContentInv
  <2>2. TempReg(r) BY <1>1, <2>1, Distinct DEF RegOK, FreeReg, PartReg
  <2> QED BY <1>1, <2>1, <2>2 DEF TempReg, RegContent
<1>2. CoreInv /\ ContentInv => TempSound BY <1>1 DEF TempSound
<1> QED BY <1>2, ContentInvAlways, PTL

\* Arguments that CallBuilder has put into registers are still there at the
\* call, although the register file has the registers as unused.
THEOREM ArgsIntactAlways == Spec => []ArgsIntact
<1>1. ContentInv => ArgsIntact BY DEF ArgsIntact, ContentInv, RegContent
<1> QED BY <1>1, ContentInvAlways, PTL

\* Every callee-saved register in use has been noted as clobbered, so that
\* the prologue saves it.
THEOREM SavedIfUsedAlways == Spec => []SavedIfUsed
<1>1. ContentInv => SavedIfUsed
  BY RegAssumption DEF SavedIfUsed, ContentInv, RegContent, RegAssumption
<1> QED BY <1>1, ContentInvAlways, PTL

\* The counter of fixed assignments of a bank covers the parts that are fixed
\* and never exceeds NUM_FIXED_ASSIGNMENTS.
THEOREM FixedBoundedAlways == Spec => []FixedBounded
<1>1. FixedInv => FixedBounded BY DEF FixedInv
<1> QED BY <1>1, ContentInvAlways, PTL
====
