----------------------------- MODULE UnwindSpec -----------------------------
(***************************************************************************)
(* What a JIT promises of exceptions: from the moment a module is mapped   *)
(* until its mapper is destroyed, an exception that passes through one of  *)
(* its calls goes to the landing pad that the module names for the call,   *)
(* with the clauses of that landing pad in their order, and to the         *)
(* personality function of the calling function; whatever else is mapped   *)
(* or destroyed meanwhile.                                                 *)
(*                                                                         *)
(* loaded has the placement of each mapped module (where its functions are *)
(* and where its names lead), catches what a throw through each of its     *)
(* calls does.                                                             *)
(***************************************************************************)
EXTENDS ModuleIR

CONSTANT Images
VARIABLES loaded, catches

\* A clause, and the clauses of a landing pad.
Clause(place, c) == CASE c = "filter" -> <<"filter", 0>>
                      [] c = "all" -> <<"catch", 0>>
                      [] OTHER -> <<"catch", place.addr[c]>>
Clauses(place, it) ==
    [i \in DOMAIN it.clauses |-> Clause(place, it.clauses[i])]
        \o (IF it.cleanup THEN << <<"cleanup">> >> ELSE <<>>)

Outcome(place, f, k) ==
    LET it == f.body[k]
    IN  [personality |-> IF f.personality = "" THEN 0 ELSE place.addr[f.personality],
         pad |-> IF it.op = "invoke" THEN place.addr[f.name] + PadOff(place.mod.x64, f, k) ELSE 0,
         clauses |-> IF it.op = "invoke" THEN Clauses(place, it) ELSE <<>>]

\* What throws through the calls of a placed module do, by return address.  A
\* function without an address cannot be called.
Handlers(place) ==
    UNION {{<<place.addr[f.name] + ReturnOff(place.mod.x64, f, k), Outcome(place, f, k)>> : k \in Calls(f)} :
              f \in {f \in Range(Defined(place.mod)) : place.addr[f.name] # 0}}

Init == loaded = <<>> /\ catches = <<>>

Load(i) == /\ i \notin DOMAIN loaded
           /\ DOMAIN loaded' = DOMAIN loaded \cup {i}
           /\ \A j \in DOMAIN loaded : loaded'[j] = loaded[j]
           /\ catches' = [j \in DOMAIN loaded' |-> IF j = i THEN Handlers(loaded'[i]) ELSE catches[j]]
Unload(i) == /\ i \in DOMAIN loaded
             /\ loaded' = [j \in DOMAIN loaded \ {i} |-> loaded[j]]
             /\ catches' = [j \in DOMAIN loaded \ {i} |-> catches[j]]

Next == \E i \in Images : Load(i) \/ Unload(i)
Spec == Init /\ [][Next]_<<loaded, catches>>
====
