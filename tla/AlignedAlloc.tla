---------------------------- MODULE AlignedAlloc ----------------------------
(***************************************************************************)
(* The manual aligned allocation of tools/memtool.c (48-91), for systems   *)
(* without one of their own: a raw block from malloc with some slack, the  *)
(* payload at an aligned address behind its start, and in front of the     *)
(* payload, in OffsetSize bytes, the distance back to the raw block, which *)
(* free needs.                                                             *)
(*                                                                         *)
(* Addresses are natural numbers.  malloc is external: it answers any      *)
(* address of Raws whose block meets no other, or NULL.  An offset and a   *)
(* payload may lie past their raw block's end.  The model says what that   *)
(* does to the other blocks of this allocator; what malloc or anybody else *)
(* keeps in the bytes between raw blocks, and may lose, is not in it.      *)
(* Neither is a size so large that the sum in 71 wraps.                    *)
(***************************************************************************)
EXTENDS Integers

CONSTANTS
    Align,         \* MVPG_ALLOC_MEMALIGN, a power of 2
    OffsetSize,    \* OFFSET_SZ
    Raws,          \* addresses malloc may return
    Sizes          \* sizes passed to NativeAlignedAlloc

MaxUint16 == 65535

ASSUME AlignAssumption ==
    /\ Align \in Nat \ {0} /\ OffsetSize \in Nat \ {0}
    /\ OffsetSize + 2 * (Align - 1) <= MaxUint16
ASSUME AddressAssumption == Raws \subseteq Nat /\ Sizes \subseteq Nat

VARIABLES
    blocks,   \* the raw blocks allocated, and the size each was asked for
    offset    \* what stands in front of each one's payload

heapVars == <<blocks, offset>>

Garbage == -1    \* an offset that was overwritten

(* Mutant of Slack: the offset's own bytes are forgotten *)
SlackForAlignment == Align - 1

(* MAX_ALIGN_OFFSET_SZ *)
Slack == OffsetSize + (Align - 1)

(* Mutant of RawSize: no slack *)
RawSizeExact(size) == size

(* What malloc is asked for *)
RawSize(size) == size + Slack

(* ALIGN_UP_MEMALIGN, Align being a power of 2 *)
AlignUp(n) == ((n + (Align - 1)) \div Align) * Align

Payload(raw) == AlignUp(raw + Slack)

(* The bytes a..b-1 and c..d-1 have none in common *)
Separate(a, b, c, d) == b <= c \/ d <= a

HeapInit ==
    /\ blocks = [r \in {} |-> 0]
    /\ offset = [r \in {} |-> 0]

(* Storing size bytes from a on: an offset they meet is gone *)
AfterStore(a, size) ==
    [r \in DOMAIN blocks |->
        IF Separate(a, a + size, Payload(r) - OffsetSize, Payload(r)) THEN offset[r] ELSE Garbage]

(* NativeAlignedAlloc.  When malloc answers NULL nothing changes. *)
NativeAlignedAlloc(raw, size) ==
    LET header == Payload(raw) - OffsetSize
        distance == (Payload(raw) - raw) % (MaxUint16 + 1)
    IN /\ \A r \in DOMAIN blocks :
             Separate(raw, raw + RawSize(size), r, r + RawSize(blocks[r]))
       /\ raw \notin DOMAIN blocks
       /\ blocks' = [r \in DOMAIN blocks \cup {raw} |-> IF r = raw THEN size ELSE blocks[r]]
       /\ offset' = [r \in DOMAIN blocks \cup {raw} |->
                        IF r = raw THEN distance ELSE AfterStore(header, OffsetSize)[r]]

(* The caller, mvpgAlloc first of all, fills the payload it asked for *)
Fill(r) ==
    /\ offset' = AfterStore(Payload(r), blocks[r])
    /\ UNCHANGED blocks

(* NativeAlignedFree: the raw block is found through the offset.  (Of an   *)
(* address malloc did not give free is undefined; FreeFindsRaw excludes    *)
(* it.)                                                                    *)
NativeAlignedFree(r) ==
    LET raw == Payload(r) - offset[r]
    IN /\ raw \in DOMAIN blocks
       /\ blocks' = [s \in DOMAIN blocks \ {raw} |-> blocks[s]]
       /\ offset' = [s \in DOMAIN blocks \ {raw} |-> offset[s]]

HeapNext ==
    \/ \E raw \in Raws, size \in Sizes : NativeAlignedAlloc(raw, size)
    \/ \E r \in DOMAIN blocks : Fill(r) \/ NativeAlignedFree(r)

HeapSpec == HeapInit /\ [][HeapNext]_heapVars

---------------------------------------------------------------------------
AllocTypeOK ==
    /\ DOMAIN blocks \subseteq Raws /\ \A r \in DOMAIN blocks : blocks[r] \in Sizes
    /\ offset \in [DOMAIN blocks -> (0..MaxUint16) \cup {Garbage}]

(* Free is given the raw block of the payload, whatever the callers of     *)
(* this and of other blocks stored in theirs (memtool.c:77, 84).           *)
FreeFindsRaw == \A r \in DOMAIN blocks : Payload(r) - offset[r] = r

(* No two payloads share a byte, though a payload may run past its own raw *)
(* block (memtool.c:71-77).                                                *)
PayloadsApart ==
    \A r, s \in DOMAIN blocks :
        r # s => Separate(Payload(r), Payload(r) + blocks[r], Payload(s), Payload(s) + blocks[s])

============================================================================
