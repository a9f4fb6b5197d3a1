------------------------------ MODULE ItemStack ------------------------------
(***************************************************************************)
(* What a vector promises: a stack of bounded depth whose items may also   *)
(* be replaced in place, and which may be cut to a smaller bound.          *)
(***************************************************************************)
EXTENDS Naturals, Sequences

CONSTANTS Items, MaxBound

VARIABLES there, bound, items

vars == <<there, bound, items>>

Init == there = FALSE /\ bound = 0 /\ items = <<>>

New == /\ ~there /\ there'
       /\ bound' \in 0..MaxBound /\ items' = <<>>

Push(x) == /\ there /\ Len(items) < bound
           /\ items' = Append(items, x)
           /\ UNCHANGED <<there, bound>>

Pop == /\ there /\ items # <<>>
       /\ items' = SubSeq(items, 1, Len(items) - 1)
       /\ UNCHANGED <<there, bound>>

Replace(i, x) == /\ there /\ i \in DOMAIN items
                 /\ items' = [items EXCEPT ![i] = x]
                 /\ UNCHANGED <<there, bound>>

Clear == /\ there /\ items' = <<>>
         /\ UNCHANGED <<there, bound>>

Cut(n) == /\ there /\ n <= bound
          /\ bound' = n
          /\ items' = SubSeq(items, 1, IF n < Len(items) THEN n ELSE Len(items))
          /\ UNCHANGED there

Drop == /\ there /\ ~there'
        /\ bound' = 0 /\ items' = <<>>

Next == \/ New \/ Pop \/ Clear \/ Drop
        \/ \E x \in Items : Push(x) \/ \E i \in DOMAIN items : Replace(i, x)
        \/ \E n \in 0..bound : Cut(n)

Spec == Init /\ [][Next]_vars
==============================================================================
