---------------------------- MODULE VectorBlock ----------------------------
(***************************************************************************)
(* The bytes behind a vector of tools/v_base.h: how many are asked for     *)
(* when it is made or cut, and which of them an index means, in arithmetic *)
(* that wraps at ULONG_MAX.  Vector has the items and their order; here    *)
(* are the sizes it takes for granted.  VEC_assert is compiled in.         *)
(***************************************************************************)
EXTENDS SafeArith

CONSTANTS
    Header,      \* VEC_metadtsz, the bytes of VEC_metaData_
    ItemSizes,   \* sizes of the types vectors are made for
    Counts,      \* capacities callers ask for
    Positions    \* indices callers pass, also negative ones

ASSUME BlockAssumption ==
    /\ Header \in Word \ {0} /\ ItemSizes \subseteq Word /\ Counts \subseteq Word
    /\ Positions \subseteq (-LongMax - 1)..MaxWord

VARIABLES
    block,       \* the vector: its block's bytes, __cap and __dtype
    blockState   \* "none", "vector", "aborted" by an assertion, or "wild"

blockVars == <<block, blockState>>
NoBlock == [bytes |-> 0, cap |-> 0, dtype |-> 0]

BlockInit == block = NoBlock /\ blockState = "none"

Stop(s) == blockState' = s /\ UNCHANGED block

(* What VEC_INTERNAL_create makes; mvpgAlloc gets size bytes for it *)
BlockBytes(n, d) == bsafeUnsignedMulAddl(d, n, Header)
NewBlock(n, d) == [bytes |-> BlockBytes(n, d), cap |-> n, dtype |-> d]
Refuses(n, d) == d = 0 \/ BlockBytes(n, d) = Abort

CreateBlock(n, d) ==
    /\ blockState = "none"
    /\ \/ Stop("aborted")          \* also when there is no memory
       \/ /\ ~Refuses(n, d)
          /\ block' = NewBlock(n, d)
          /\ blockState' = "vector"

(* VEC_INTERNAL_shrink: the new block is filled with as many bytes as its  *)
(* own cells have, from the old block, which is then freed                 *)
CopyBytes(n) == bsafeUnsignedMull(n, block.dtype)

ShrinkBlock(n) ==
    /\ blockState = "vector"
    /\ \/ Stop("aborted")
       \/ /\ ~Refuses(n, block.dtype) /\ CopyBytes(n) # Abort
          /\ IF Header + CopyBytes(n) <= block.bytes
             THEN block' = NewBlock(n, block.dtype) /\ UNCHANGED blockState
             ELSE Stop("wild")

DestroyBlock ==
    /\ blockState = "vector"
    /\ block' = NoBlock /\ blockState' = "none"

BlockNext ==
    \/ \E n \in Counts, d \in ItemSizes : CreateBlock(n, d)
    \/ \E n \in Counts : ShrinkBlock(n)
    \/ DestroyBlock

BlockSpec == BlockInit /\ [][BlockNext]_blockVars

---------------------------------------------------------------------------
(* VEC_cvtindex on the caller's index, as vsize_t, and whether it is below *)
(* zero; VEC_NsizeOverflow holds where the top bit is clear                *)
VEC_cvtindex(p) == IF p < 0 THEN Wrapped(Wrapped(p) + block.cap) ELSE p
VEC_NsizeOverflow(i) == i <= LongMax

(* Mutant of Accepted: the capacity is compared as a signed number, without *)
(* asking for the top bit                                                   *)
AcceptedSigned(p) ==
    LET i == VEC_cvtindex(p)
        Signed(x) == IF x > LongMax THEN x - (MaxWord + 1) ELSE x
    IN Signed(i) < Signed(block.cap)

Accepted(p) == VEC_NsizeOverflow(VEC_cvtindex(p)) /\ VEC_cvtindex(p) < block.cap

(* The bytes of the block that item i takes *)
CellEnd(i) == Header + (i + 1) * block.dtype

---------------------------------------------------------------------------
(* Every index VEC_cvtindex lets through is an item's whose bytes all lie  *)
(* in the block that was asked for, although its size was computed in      *)
(* arithmetic that wraps (v_base.h:206-218, include.h:141-146).            *)
CellsInBlock ==
    blockState = "vector" =>
        \A p \in Positions : Accepted(p) => CellEnd(VEC_cvtindex(p)) <= block.bytes

(* An index that is let through means the item counted from the front, or  *)
(* below zero from the end of the capacity: wrapping never turns an index  *)
(* outside into one inside (v_base.h:206-212).                             *)
IndexMeansCell ==
    blockState = "vector" =>
        \A p \in Positions :
            Accepted(p) => VEC_cvtindex(p) = (IF p < 0 THEN block.cap + p ELSE p)
============================================================================
