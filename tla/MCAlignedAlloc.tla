--------------------------- MODULE MCAlignedAlloc ---------------------------
(* What TLC checks of AlignedAlloc and the specification itself does not state *)
EXTENDS AlignedAlloc

(* memtool.c:53: the slack is "offset + fault (catering for worst cases    *)
(* where returned memory + offset may be unaligned)": with it the payload  *)
(* lies in the raw block, wherever malloc put that.                        *)
PayloadInBlock ==
    \A r \in DOMAIN blocks : Payload(r) + blocks[r] <= r + RawSize(blocks[r])
============================================================================
