------------------------------- MODULE MCTools -------------------------------
(***************************************************************************)
(* The parts of tools/: vectors, the bytes behind them, integers as text,  *)
(* formats, and the manual aligned allocation.  They know nothing of one   *)
(* another, so TLC runs one of them at a time from its initial state,      *)
(* while the others rest.                                                  *)
(***************************************************************************)
EXTENDS MCVector, VectorBlock, IntegerText, FormatMask, AlignedAlloc

(* The ends of the range, of every number of digits, and some in between *)
SomeNumbers == (0..20) \cup (95..105) \cup (250..260) \cup (507..515) \cup (990..MaxWord)
SomePositions == {-LongMax - 1, -LongMax, -251, -4, -3, -1, 0, 2, 3, 249, 250, LongMax, MaxWord}

ToolsInit == Init /\ BlockInit /\ TextInit /\ MaskInit /\ HeapInit

VectorRests == Init /\ UNCHANGED vars
BlockRests == BlockInit /\ UNCHANGED blockVars
TextRests == TextInit /\ UNCHANGED textVars
MaskRests == MaskInit /\ UNCHANGED maskVars
HeapRests == HeapInit /\ UNCHANGED heapVars

ToolsNext ==
    \/ BlockRests /\ TextRests /\ MaskRests /\ HeapRests /\ Next
    \/ VectorRests /\ TextRests /\ MaskRests /\ HeapRests /\ BlockNext
    \/ VectorRests /\ BlockRests /\ MaskRests /\ HeapRests /\ TextNext
    \/ VectorRests /\ BlockRests /\ TextRests /\ HeapRests /\ MaskNext
    \/ VectorRests /\ BlockRests /\ TextRests /\ MaskRests /\ HeapNext

ToolsSpec ==
    /\ ToolsInit /\ [][ToolsNext]_<<vars, blockVars, textVars, maskVars, heapVars>>
    /\ TextFairness
==============================================================================
