------------------------- MODULE AlignedAllocProofs -------------------------
(***************************************************************************)
(* That freeing finds the raw block again, and payloads keep apart, for    *)
(* every alignment and whatever addresses malloc gives.  A payload may     *)
(* end up to Align - 1 bytes behind its own raw block, and the next        *)
(* block's offset stands exactly that far from its start.                  *)
(***************************************************************************)
EXTENDS AlignedAlloc, TLAPS

(* Raw blocks do not overlap: malloc's promise *)
RawsApart ==
    \A r, s \in DOMAIN blocks :
        r # s => Separate(r, r + RawSize(blocks[r]), s, s + RawSize(blocks[s]))

AllocInv == AllocTypeOK /\ RawsApart /\ FreeFindsRaw

---------------------------------------------------------------------------
(* Rounding up loses less than Align bytes (memtool.c:56). *)
LEMMA AlignUpBounds ==
    ASSUME NEW n \in Nat
    PROVE  /\ AlignUp(n) \in Nat
           /\ n <= AlignUp(n) /\ AlignUp(n) <= n + Align - 1
           /\ AlignUp(n) % Align = 0
<1> DEFINE sum == n + (Align - 1)
           q == sum \div Align
           r == sum % Align
<1>1. sum \in Nat /\ Align \in Nat \ {0}
  BY AlignAssumption
<1>2. q \in Nat /\ r \in 0..(Align - 1) /\ sum = Align * q + r
  <2> HIDE DEF sum
  <2> QED BY <1>1
<1>3. AlignUp(n) = q * Align
  BY DEF AlignUp
<1> HIDE DEF q, r
<1>4. q * Align \in Nat /\ q * Align = Align * q
  BY <1>1, <1>2
<1>5. n <= q * Align /\ q * Align <= n + Align - 1
  BY <1>1, <1>2, <1>4
<1>6. (q * Align) % Align = 0
  <2> DEFINE m == q * Align
             d == m \div Align
             e == m % Align
  <2>1. m = Align * q
    BY <1>4
  <2>6. m \in Nat
    BY <1>4
  <2>2. d \in Nat /\ e \in 0..(Align - 1) /\ m = Align * d + e
    <3> HIDE DEF m
    <3> QED BY <1>1, <2>6
  <2> HIDE DEF m, d, e
  <2>3. Align * (q - d) = e
    BY <1>1, <1>2, <2>1, <2>2, <2>6
  <2>4. CASE q - d >= 1
    <3>1. Align * (q - d) = Align + Align * (q - d - 1) /\ Align * (q - d - 1) >= 0
      BY <1>1, <1>2, <2>2, <2>4
    <3> QED BY <1>1, <1>2, <2>2, <2>3, <3>1
  <2>5. CASE q - d <= 0
    <3>1. Align * (q - d) <= 0
      BY <1>1, <1>2, <2>2, <2>5
    <3>2. e = 0
      BY <1>1, <2>2, <2>3, <3>1
    <3> QED BY <3>2 DEF e, m
  <2> QED BY <1>2, <2>2, <2>4, <2>5
<1> QED BY <1>3, <1>4, <1>5, <1>6

(* A payload stands Slack to Slack + Align - 1 bytes behind its raw        *)
(* block's start (memtool.c:74), so that the distance fits its two bytes.  *)
LEMMA PayloadBounds ==
    ASSUME NEW r \in Nat
    PROVE  /\ Payload(r) \in Nat
           /\ r + Slack <= Payload(r) /\ Payload(r) <= r + Slack + Align - 1
           /\ Slack \in Nat
           /\ (Payload(r) - r) % (MaxUint16 + 1) = Payload(r) - r
           /\ Payload(r) - r \in 0..MaxUint16
<1>1. Slack \in Nat /\ r + Slack \in Nat
  BY AlignAssumption DEF Slack
<1>2. /\ Payload(r) \in Nat
      /\ r + Slack <= Payload(r) /\ Payload(r) <= r + Slack + Align - 1
  BY <1>1, AlignUpBounds DEF Payload
<1>3. 0 <= Payload(r) - r /\ Payload(r) - r <= MaxUint16
  BY <1>1, <1>2, AlignAssumption DEF Slack, MaxUint16
<1>4. MaxUint16 \in Nat
  BY DEF MaxUint16
<1> DEFINE d == Payload(r) - r
<1>5. d \in Nat /\ d <= MaxUint16
  BY <1>2, <1>3
<1>6. d % (MaxUint16 + 1) = d
  <2> HIDE DEF d
  <2> QED BY ONLY <1>4, <1>5
<1> QED BY <1>1, <1>2, <1>4, <1>5, <1>6

(* When raw blocks do not overlap, neither does what stands in them: no    *)
(* payload meets another or another's offset.                              *)
LEMMA InsidesApart ==
    ASSUME NEW r \in Nat, NEW s \in Nat, NEW a \in Nat, NEW b \in Nat,
           Separate(r, r + RawSize(a), s, s + RawSize(b))
    PROVE  /\ Separate(Payload(r), Payload(r) + a, Payload(s) - OffsetSize, Payload(s))
           /\ Separate(Payload(r) - OffsetSize, Payload(r), Payload(s) - OffsetSize, Payload(s))
           /\ Separate(Payload(r), Payload(r) + a, Payload(s), Payload(s) + b)
<1>1. /\ Payload(r) \in Nat /\ r + Slack <= Payload(r)
      /\ Payload(r) <= r + Slack + Align - 1
      /\ Payload(s) \in Nat /\ s + Slack <= Payload(s)
      /\ Payload(s) <= s + Slack + Align - 1
      /\ Slack \in Nat
  BY PayloadBounds
<1>2. /\ Slack = OffsetSize + (Align - 1)
      /\ Align \in Nat \ {0} /\ OffsetSize \in Nat \ {0}
  BY AlignAssumption DEF Slack
<1>3. r + a + Slack <= s \/ s + b + Slack <= r
  BY <1>1 DEF Separate, RawSize
<1>4. CASE r + a + Slack <= s
  BY <1>1, <1>2, <1>4 DEF Separate
<1>5. CASE s + b + Slack <= r
  BY <1>1, <1>2, <1>5 DEF Separate
<1> QED BY <1>3, <1>4, <1>5

---------------------------------------------------------------------------
LEMMA AllocInit == HeapInit => AllocInv
BY DEF HeapInit, AllocInv, AllocTypeOK, RawsApart, FreeFindsRaw

(* Under the invariant a store into payload or offset of one block leaves  *)
(* the others' offsets as they were.                                       *)
LEMMA StoreHarmless ==
    ASSUME AllocInv, NEW r \in Nat, NEW a \in Nat,
           NEW s \in DOMAIN blocks,
           Separate(r, r + RawSize(a), s, s + RawSize(blocks[s]))
    PROVE  /\ AfterStore(Payload(r), a)[s] = offset[s]
           /\ AfterStore(Payload(r) - OffsetSize, OffsetSize)[s] = offset[s]
<1>1. s \in Nat /\ blocks[s] \in Nat
  BY AddressAssumption DEF AllocInv, AllocTypeOK
<1>2. /\ Separate(Payload(r), Payload(r) + a, Payload(s) - OffsetSize, Payload(s))
      /\ Separate(Payload(r) - OffsetSize, Payload(r), Payload(s) - OffsetSize, Payload(s))
  BY <1>1, InsidesApart
<1>3. Payload(r) - OffsetSize + OffsetSize = Payload(r)
  BY PayloadBounds, AlignAssumption
<1> QED BY <1>2, <1>3 DEF AfterStore

LEMMA AllocStep == ASSUME AllocInv, HeapNext PROVE AllocInv'
<1> USE DEF AllocInv
<1>1. /\ DOMAIN blocks \subseteq Nat
      /\ \A r \in DOMAIN blocks : blocks[r] \in Nat
      /\ DOMAIN offset = DOMAIN blocks
      /\ \A r \in DOMAIN blocks : offset[r] \in (0..MaxUint16) \cup {Garbage}
  BY AddressAssumption DEF AllocTypeOK
<1>2. ASSUME NEW raw \in Raws, NEW size \in Sizes, NativeAlignedAlloc(raw, size)
      PROVE  AllocInv'
  <2>1. raw \in Nat /\ size \in Nat
    BY AddressAssumption
  <2>2. /\ DOMAIN blocks' = DOMAIN blocks \cup {raw} /\ raw \notin DOMAIN blocks
        /\ blocks'[raw] = size
        /\ \A r \in DOMAIN blocks : blocks'[r] = blocks[r]
    BY <1>2 DEF NativeAlignedAlloc
  <2>3. \A r \in DOMAIN blocks : Separate(raw, raw + RawSize(size), r, r + RawSize(blocks[r]))
    BY <1>2 DEF NativeAlignedAlloc
  <2>4. offset'[raw] = Payload(raw) - raw /\ offset'[raw] \in 0..MaxUint16
    BY <1>2, <2>1, PayloadBounds DEF NativeAlignedAlloc
  <2>5. \A r \in DOMAIN blocks : offset'[r] = offset[r]
    <3> TAKE r \in DOMAIN blocks
    <3>1. offset'[r] = AfterStore(Payload(raw) - OffsetSize, OffsetSize)[r]
      BY <1>2, <2>2 DEF NativeAlignedAlloc
    <3> QED BY <2>1, <2>3, <3>1, StoreHarmless
  <2>6. offset' \in [DOMAIN blocks' -> (0..MaxUint16) \cup {Garbage}]
    <3>1. offset' = [r \in DOMAIN blocks' |-> offset'[r]]
      BY <1>2, <2>2 DEF NativeAlignedAlloc
    <3>2. \A r \in DOMAIN blocks' : offset'[r] \in (0..MaxUint16) \cup {Garbage}
      BY <1>1, <2>2, <2>4, <2>5
    <3> QED BY <3>1, <3>2
  <2>7. AllocTypeOK'
    BY <2>2, <2>6 DEF AllocTypeOK
  <2>8. RawsApart'
    <3> SUFFICES ASSUME NEW r \in DOMAIN blocks', NEW s \in DOMAIN blocks', r # s
                 PROVE  Separate(r, r + RawSize(blocks'[r]), s, s + RawSize(blocks'[s]))
      BY DEF RawsApart, RawSize, Slack, Separate
    <3> QED BY <2>2, <2>3 DEF RawsApart, Separate
  <2>9. FreeFindsRaw'
    <3> SUFFICES ASSUME NEW r \in DOMAIN blocks' PROVE Payload(r) - offset'[r] = r
      BY DEF FreeFindsRaw, Payload, AlignUp, Slack
    <3>1. CASE r = raw
      BY <2>1, <2>4, <3>1, PayloadBounds
    <3>2. CASE r # raw
      BY <2>2, <2>5, <3>2 DEF FreeFindsRaw
    <3> QED BY <3>1, <3>2
  <2> QED BY <2>7, <2>8, <2>9
<1>3. ASSUME NEW r \in DOMAIN blocks, Fill(r)
      PROVE  AllocInv'
  <2>1. blocks' = blocks /\ offset' = AfterStore(Payload(r), blocks[r])
    BY <1>3 DEF Fill
  <2>2. \A s \in DOMAIN blocks : offset'[s] = offset[s]
    <3> TAKE s \in DOMAIN blocks
    <3>1. CASE s # r
      BY <1>1, <2>1, <3>1, StoreHarmless DEF RawsApart
    <3>2. CASE s = r
      BY <2>1, <3>2, <1>1, PayloadBounds, AlignAssumption DEF AfterStore, Separate
    <3> QED BY <3>1, <3>2
  <2>3. offset' = offset
    BY <1>1, <2>1, <2>2 DEF AfterStore, AllocTypeOK
  <2> QED BY <2>1, <2>3 DEF AllocTypeOK, RawsApart, FreeFindsRaw
<1>4. ASSUME NEW r \in DOMAIN blocks, NativeAlignedFree(r)
      PROVE  AllocInv'
  <2>1. PICK raw \in DOMAIN blocks :
            /\ blocks' = [s \in DOMAIN blocks \ {raw} |-> blocks[s]]
            /\ offset' = [s \in DOMAIN blocks \ {raw} |-> offset[s]]
    BY <1>4 DEF NativeAlignedFree
  <2>2. AllocTypeOK'
    BY <1>1, <2>1 DEF AllocTypeOK
  <2> QED BY <2>1, <2>2 DEF RawsApart, FreeFindsRaw
<1> QED BY <1>2, <1>3, <1>4 DEF HeapNext

LEMMA AllocInvariant == HeapSpec => []AllocInv
<1>1. AllocInv /\ UNCHANGED heapVars => AllocInv'
  BY DEF heapVars, AllocInv, AllocTypeOK, RawsApart, FreeFindsRaw
<1> QED BY <1>1, AllocInit, AllocStep, PTL DEF HeapSpec

---------------------------------------------------------------------------
(* Freeing a payload gives free the address malloc returned, whatever was  *)
(* stored in this and other payloads (memtool.c:76, 84).                   *)
THEOREM FreeIsRight == HeapSpec => []FreeFindsRaw
BY AllocInvariant, PTL DEF AllocInv

(* No two payloads overlap, for every alignment and every answer of malloc *)
(* (memtool.c:71-77).                                                      *)
THEOREM PayloadsKeepApart == HeapSpec => []PayloadsApart
<1>1. AllocInv => PayloadsApart
  <2> SUFFICES ASSUME AllocInv, NEW r \in DOMAIN blocks, NEW s \in DOMAIN blocks, r # s
               PROVE  Separate(Payload(r), Payload(r) + blocks[r],
                            Payload(s), Payload(s) + blocks[s])
    BY DEF PayloadsApart
  <2>1. /\ r \in Nat /\ s \in Nat /\ blocks[r] \in Nat /\ blocks[s] \in Nat
    BY AddressAssumption DEF AllocInv, AllocTypeOK
  <2> QED BY <2>1, InsidesApart DEF AllocInv, RawsApart
<1> QED BY <1>1, AllocInvariant, PTL
============================================================================
