---------------------------- MODULE MCLLVMLower ----------------------------
(* Small numbers of bits for LLVMLower: 2, 3, 4 and 8 for 8, 16, 32 and 64.  *)
EXTENDS LLVMLower

\* A few cases; a dense range; one with holes; a sparse one; a mixture.
MCCaseLists == {<<1>>, <<0, 3>>, <<0, 1, 2, 3, 4, 5>>, <<0, 2, 3, 5, 7, 9, 15>>,
                <<0, 40, 80, 120, 160, 200, 255>>, <<1, 2, 3, 4, 5, 6, 200, 201, 202, 203, 204, 254>>}

=============================================================================
