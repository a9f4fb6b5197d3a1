------------------------------ MODULE MCVector ------------------------------
(* Values for TLC, and a statement of v_base.h's comments about vectors *)
EXTENDS Vector

(* From the end, from the start, and outside at either end *)
SomeIndices == {-4, -1, 0, 2}

(* v_base.h:166: "Vec_map iterates over a vector object, calling a         *)
(* function on each member."  (To call it on none, as with one item, is no *)
(* step of visited, so that the property speaks of two items and more.)    *)
MapVisitsAll == [][Map => visited' = InUse]_vars
=============================================================================
