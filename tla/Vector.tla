------------------------------- MODULE Vector -------------------------------
(***************************************************************************)
(* The vectors of tools/v_base.h: a block of cap cells behind a header     *)
(* with capacity, use and size of an item.  Growing is a stub (225-227),   *)
(* so a vector has the capacity it was made or cut with.                   *)
(*                                                                         *)
(* VEC_assert ends the program, unless it is compiled out (MVPG_NDEBUG,    *)
(* VEC_UNSAFE).  VEC_shrink, VEC_foreach, VEC_del and VEC_pop with an index *)
(* are macros that do not compile; VEC_INTERNAL_shrink stands for the      *)
(* first.  VEC_append and VEC_sort are stubs, and VEC_slice copies to a    *)
(* pointer it never sets.                                                  *)
(***************************************************************************)
EXTENDS Integers, Sequences

CONSTANTS
    Items,      \* what callers store
    Caps,       \* capacities callers ask for
    Indices,    \* indices callers pass to VEC_insert, also negative ones
    MaxBound,   \* the largest of Caps
    Checks      \* is VEC_assert compiled in?

ASSUME CapsAssumption == MaxBound \in Nat /\ Caps \subseteq 0..MaxBound
ASSUME IndicesAssumption == Indices \subseteq Int /\ Checks \in BOOLEAN

VARIABLES
    there,     \* does the caller have a vector?
    cells,     \* the items behind the header, __cap of them
    used,      \* __used
    state,     \* "runs", "aborted" by an assertion, or "wild"
    visited    \* history: the items the last VEC_map called its function on

vector == <<there, cells, used>>
vars == <<there, cells, used, state, visited>>

Zero == "zero"                \* memset by mvpgAlloc
cap == Len(cells)
Running == state = "runs"

Init ==
    /\ there = FALSE /\ cells = <<>> /\ used = 0
    /\ state = "runs" /\ visited = <<>>

(* A failed assertion, or what happens without it *)
Fail(s) == state' = s /\ UNCHANGED <<vector, visited>>

---------------------------------------------------------------------------
(* VEC_new: mvpgAlloc asserts that it got its block *)
Create(n) ==
    /\ Running /\ ~there
    /\ \/ /\ there' = TRUE /\ cells' = [i \in 1..n |-> Zero] /\ used' = 0
          /\ visited' = <<>>
          /\ UNCHANGED state
       \/ Fail("aborted")

(* VEC_push: growing a full vector does nothing, then the item is written  *)
(* behind the cells                                                        *)
Full == cap < 1 \/ cap = used

(* Mutant of Push: the use is counted before the item is written *)
PushNext(x) ==
    /\ Running /\ there /\ ~Full
    /\ used' = used + 1
    /\ cells' = [i \in 1..cap |-> IF i = used' + 1 THEN x ELSE cells[i]]
    /\ UNCHANGED <<there, state, visited>>

Push(x) ==
    /\ Running /\ there /\ ~Full
    /\ cells' = [cells EXCEPT ![used + 1] = x]
    /\ used' = used + 1
    /\ UNCHANGED <<there, state, visited>>

PushFull ==
    /\ Running /\ there /\ Full
    /\ Fail("wild")

(* VEC_pop without an index *)
Pop ==
    /\ Running /\ there /\ used > 0
    /\ used' = used - 1
    /\ UNCHANGED <<there, cells, state, visited>>

PopEmpty ==
    /\ Running /\ there /\ used = 0
    /\ Fail(IF Checks THEN "aborted" ELSE "wild")

(* VEC_cvtindex: a negative index counts from the capacity's end *)
cvtindex(i) == IF i < 0 THEN i + cap ELSE i

(* VEC_insert replaces a cell, in use or not, and counts nothing *)
Insert(x, i) ==
    /\ Running /\ there /\ cvtindex(i) \in 0..(cap - 1)
    /\ cells' = [cells EXCEPT ![cvtindex(i) + 1] = x]
    /\ UNCHANGED <<there, used, state, visited>>

InsertOutside(i) ==
    /\ Running /\ there /\ cvtindex(i) \notin 0..(cap - 1)
    /\ Fail(IF Checks THEN "aborted" ELSE "wild")

Clear ==
    /\ Running /\ there
    /\ used' = 0
    /\ UNCHANGED <<there, cells, state, visited>>

(* VEC_map: Last is the last item, where the loop stops; in an empty       *)
(* vector it lies before the first, which the loop never meets             *)
Map ==
    /\ Running /\ there /\ used > 0
    /\ visited' = SubSeq(cells, 1, used - 1)
    /\ UNCHANGED <<vector, state>>

MapEmpty ==
    /\ Running /\ there /\ used = 0
    /\ Fail("wild")

(* Mutant of Shrink: the use is kept *)
ShrinkKeepsUse(n) ==
    /\ Running /\ there /\ n <= cap
    /\ cells' = SubSeq(cells, 1, n)
    /\ UNCHANGED <<there, used, state, visited>>

(* VEC_INTERNAL_shrink: the items are copied into a new block of n cells *)
Shrink(n) ==
    /\ Running /\ there /\ n <= cap
    /\ cells' = SubSeq(cells, 1, n)
    /\ used' = IF n < used THEN n ELSE used
    /\ UNCHANGED <<there, state, visited>>

(* The copy reads as many items as the new vector has *)
ShrinkFails(n) ==
    /\ Running /\ there
    /\ \/ Fail("aborted")
       \/ n > cap /\ Fail("wild")

(* VEC_destroy *)
Destroy ==
    /\ Running /\ there
    /\ there' = FALSE /\ cells' = <<>> /\ used' = 0
    /\ UNCHANGED <<state, visited>>

Next ==
    \/ \E n \in Caps : Create(n) \/ Shrink(n) \/ ShrinkFails(n)
    \/ \E x \in Items : Push(x) \/ \E i \in Indices : Insert(x, i)
    \/ \E i \in Indices : InsertOutside(i)
    \/ PushFull \/ Pop \/ PopEmpty \/ Clear \/ Map \/ MapEmpty \/ Destroy

Spec == Init /\ [][Next]_vars

---------------------------------------------------------------------------
(* The use never passes the capacity, so that VEC_push meets it exactly    *)
(* (v_base.h:137 asks for equality).                                       *)
TypeOK ==
    /\ there \in BOOLEAN /\ state \in {"runs", "aborted", "wild"}
    /\ cells \in Seq(Items \cup {Zero}) /\ cap <= MaxBound
    /\ used \in 0..cap
    /\ ~there => cells = <<>>

(* The cells in use are a stack: what is popped is what was pushed or      *)
(* inserted there last, whatever was inserted behind the use, cleared or   *)
(* cut in between (v_base.h:133-157, 190, 206-241).                        *)
InUse == SubSeq(cells, 1, used)
Stack == INSTANCE ItemStack WITH bound <- cap, items <- InUse
ImplementsStack == Stack!Spec
==============================================================================
