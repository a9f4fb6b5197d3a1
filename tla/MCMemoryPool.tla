--------------------------- MODULE MCMemoryPool ---------------------------
(***************************************************************************)
(* MemoryPool on small pools, and what the tests of the repository say of  *)
(* it.  The pool's struct is 8 bytes here and a pointer 8, so the smallest *)
(* chunk takes 10 bytes with its header: 40 bytes hold three, 50 four.     *)
(***************************************************************************)
EXTENDS MemoryPool

CONSTANTS h1, h2, h3, h4
Symmetry == {p \in [Handles -> Handles] : {p[h] : h \in Handles} = Handles}

(* driver/test/mempool.c:83-85: the nodes on the list are as many as the   *)
(* chunks given back, with nothing handed out again.                       *)
Walk[k \in Nat] ==
    IF k = 0 THEN free
    ELSE LET before == Walk[k - 1]
         IN IF before \in Carved THEN word[before] ELSE NULL
FreesCounted ==
    pc = "idle" =>
        Cardinality({k \in 0..Cardinality(Carved) : Walk[k] \in Carved}) = Len(freed)
===========================================================================
